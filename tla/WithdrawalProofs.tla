-------------------------- MODULE WithdrawalProofs --------------------------
(***************************************************************************)
(* Withdrawal for any number of requests, calls and amounts: types, the    *)
(* cover of the balance, the money that is never lost, and the overlap     *)
(* without which a request is settled once.                                *)
(***************************************************************************)
EXTENDS Withdrawal, SumTheorems

\* The other operations work on requests that were created.
CallsCreated ==
    \A c \in Calls : calls[c] # Idle => creating[calls[c].req] = "done"

CoveredInv == TypeOK /\ CallsCreated /\ BalanceCovered

LEMMA InitCovered == Init => CoveredInv
<1> SUFFICES ASSUME Init PROVE CoveredInv
  OBVIOUS
<1>1. amount \in [Requests -> Nat] /\ balance \in Int /\ balance >= 0
  <2>1. \A a \in Amounts : a \in Nat
    BY WithdrawalAssumption
  <2>2. amount \in [Requests -> Amounts]
    BY DEF Init
  <2>3. amount \in [Requests -> Nat]
    BY <2>1, <2>2
  <2>4. balance = Opening
    BY DEF Init
  <2>5. balance \in Int /\ balance >= 0
    BY <2>4, WithdrawalAssumption
  <2> QED
    BY <2>3, <2>5
<1>2. TypeOK
  BY <1>1 DEF Init, TypeOK, Call, Status
<1>3. CallsCreated
  BY DEF Init, CallsCreated
<1> QED
  BY <1>1, <1>2, <1>3 DEF CoveredInv, BalanceCovered

\* CreateWithdrawal: only the conditional UPDATE takes from the balance.
LEMMA CreateCovered ==
    ASSUME CoveredInv, NEW r \in Requests,
           \/ CheckBalance(r) \/ SetPending(r) \/ Debit(r) \/ DebitFails(r)
           \/ DropPending(r) \/ CreateDies(r) \/ DayPasses(r)
    PROVE  CoveredInv'
<1> USE DEF CoveredInv, TypeOK, CallsCreated, BalanceCovered, Creating, Call, Operation
<1>1. CASE CheckBalance(r)
  BY <1>1 DEF CheckBalance
<1>2. CASE SetPending(r)
  BY <1>2 DEF SetPending
<1>3. CASE Debit(r)
  <2>1. amount[r] \in Nat
    OBVIOUS
  <2>2. CASE balance >= amount[r]
    <3>1. /\ balance' = balance - amount[r]
          /\ status' = [status EXCEPT ![r] = "PENDING"]
          /\ today' = today \union {r}
          /\ creating' = [creating EXCEPT ![r] = "done"]
      BY <1>3, <2>2 DEF Debit
    <3>2. balance' \in Int /\ balance' >= 0
      BY <2>1, <2>2, <3>1
    <3>3. status' \in [Requests -> Status]
      BY <3>1 DEF Status
    <3> QED
      BY <1>3, <3>1, <3>2, <3>3 DEF Debit
  <2>3. CASE ~ (balance >= amount[r])
    BY <1>3, <2>3 DEF Debit
  <2> QED
    BY <2>2, <2>3
<1>4. CASE DebitFails(r)
  BY <1>4 DEF DebitFails
<1>5. CASE DropPending(r)
  BY <1>5 DEF DropPending
<1>6. CASE CreateDies(r)
  BY <1>6 DEF CreateDies
<1>7. CASE DayPasses(r)
  BY <1>7 DEF DayPasses
<1> QED
  BY <1>1, <1>2, <1>3, <1>4, <1>5, <1>6, <1>7

\* The transaction of the other operations only gives back.
LEMMA WriteCovered ==
    ASSUME CoveredInv, NEW c \in Calls, WriteRequest(c)
    PROVE  CoveredInv'
<1> DEFINE op == calls[c].op
           r == calls[c].req
<1>1. /\ op \in Operation
      /\ r \in Requests
      /\ calls[c] # Idle
      /\ calls[c].at = "tx"
  BY DEF CoveredInv, TypeOK, WriteRequest, Call, Idle
<1>2. Outcome(op) \in Status
  BY <1>1 DEF Outcome, Operation, Status
<1>3. creating[r] = "done" /\ creating' = creating
  BY <1>1 DEF CoveredInv, CallsCreated, WriteRequest
<1>4. /\ status' \in [Requests -> Status]
      /\ \A q \in Requests : creating'[q] # "done" => status'[q] = "none"
  BY <1>1, <1>2, <1>3 DEF CoveredInv, TypeOK, WriteRequest
<1>5. /\ balance' \in Int /\ balance' >= 0
      /\ refunds' \in [Requests -> Nat]
  <2>1. amount[r] \in Nat /\ refunds[r] \in Nat
    BY <1>1 DEF CoveredInv, TypeOK
  <2> QED
    BY <1>1, <2>1 DEF CoveredInv, TypeOK, BalanceCovered, WriteRequest
<1>6. /\ calls' \in [Calls -> Call]
      /\ \A d \in Calls : calls'[d] # Idle => calls[d] # Idle /\ calls'[d].req = calls[d].req
  <2>1. \/ calls' = [calls EXCEPT ![c] = Idle]
        \/ calls' = [calls EXCEPT ![c] = [calls[c] EXCEPT !.at = "unlock"]]
    BY DEF WriteRequest
  <2>2. calls[c] \in [op : Operation, req : Requests, at : {"tx", "unlock"}]
    BY <1>1 DEF CoveredInv, TypeOK, Call
  <2> QED
    BY <1>1, <2>1, <2>2 DEF CoveredInv, TypeOK, Call
<1>7. CallsCreated'
  BY <1>3, <1>6 DEF CoveredInv, CallsCreated
<1>8. TypeOK'
  BY <1>3, <1>4, <1>5, <1>6 DEF CoveredInv, TypeOK, WriteRequest
<1> QED
  BY <1>5, <1>7, <1>8 DEF CoveredInv, BalanceCovered

LEMMA CallCovered ==
    ASSUME CoveredInv, NEW c \in Calls,
           \/ \E op \in Operation, r \in Requests : ReadRequest(c, op, r)
           \/ ClearPending(c)
           \/ CallDies(c)
    PROVE  CoveredInv'
<1>1. CASE \E op \in Operation, r \in Requests : ReadRequest(c, op, r)
  <2> PICK op \in Operation, r \in Requests : ReadRequest(c, op, r)
    BY <1>1
  <2>1. creating[r] = "done"
    BY DEF CoveredInv, TypeOK, ReadRequest, Expected
  <2>2. calls' = [calls EXCEPT ![c] = [op |-> op, req |-> r, at |-> "tx"]]
    BY DEF ReadRequest
  <2> QED
    BY <2>1, <2>2 DEF CoveredInv, TypeOK, CallsCreated, BalanceCovered, Call, ReadRequest
<1>2. CASE ClearPending(c)
  BY <1>2 DEF CoveredInv, TypeOK, CallsCreated, BalanceCovered, Call, ClearPending
<1>3. CASE CallDies(c)
  BY <1>3 DEF CoveredInv, TypeOK, CallsCreated, BalanceCovered, Call, CallDies
<1> QED
  BY <1>1, <1>2, <1>3

\* Other services take what is there, at most.
LEMMA SpendCovered ==
    ASSUME CoveredInv, NEW n \in Spendings, Spend(n)
    PROVE  CoveredInv'
<1>1. n \in Nat
  BY WithdrawalAssumption
<1>2. /\ balance' \in Int /\ balance' >= 0
      /\ spent' \in Nat
  BY <1>1 DEF CoveredInv, TypeOK, BalanceCovered, Spend
<1> QED
  BY <1>2 DEF CoveredInv, TypeOK, CallsCreated, BalanceCovered, Spend

LEMMA NextCovered == CoveredInv /\ [Next]_vars => CoveredInv'
<1> SUFFICES ASSUME CoveredInv, [Next]_vars
             PROVE  CoveredInv'
  OBVIOUS
<1>1. CASE UNCHANGED vars
  BY <1>1 DEF vars, CoveredInv, TypeOK, CallsCreated, BalanceCovered
<1> QED
  BY <1>1, CreateCovered, WriteCovered, CallCovered, SpendCovered DEF Next

\* The types of the rows, the pending key and the calls.
THEOREM WithdrawalTypeCorrect == Spec => []TypeOK
BY InitCovered, NextCovered, PTL DEF Spec, CoveredInv

\* No order of withdrawals, reviews, failures and other charges takes the
\* balance below zero (UPDATE ... WHERE balance >= amount).
THEOREM WithdrawalsCovered == Spec => []BalanceCovered
BY InitCovered, NextCovered, PTL DEF Spec, CoveredInv

LEMMA CoveredInvariance == Spec => []CoveredInv
BY InitCovered, NextCovered, PTL DEF Spec

-----------------------------------------------------------------------------
(* The user's money.                                                       *)

\* A step of any actor leaves the status of every request alone, or writes that
\* of one.
LEMMA OneStatus ==
    ASSUME CoveredInv, Next
    PROVE  \/ /\ UNCHANGED <<status, refunds, amount>>
              /\ balance' + spent' = balance + spent
           \/ \E r \in Requests :
                /\ creating[r] = "debit" /\ status[r] = "none"
                /\ balance' = balance - amount[r]
                /\ status' = [status EXCEPT ![r] = "PENDING"]
                /\ UNCHANGED <<spent, refunds, amount>>
           \/ \E c \in Calls : WriteRequest(c)
<1> USE DEF CoveredInv, TypeOK
<1>1. ASSUME NEW r \in Requests,
             \/ CheckBalance(r) \/ SetPending(r) \/ DebitFails(r)
             \/ DropPending(r) \/ CreateDies(r) \/ DayPasses(r)
      PROVE  UNCHANGED <<status, refunds, amount, balance, spent>>
    BY <1>1 DEF CheckBalance, SetPending, DebitFails, DropPending, CreateDies,
       DayPasses
<1>2. ASSUME NEW r \in Requests, Debit(r)
      PROVE  \/ UNCHANGED <<status, refunds, amount, balance, spent>>
             \/ /\ creating[r] = "debit" /\ status[r] = "none"
                /\ balance' = balance - amount[r]
                /\ status' = [status EXCEPT ![r] = "PENDING"]
                /\ UNCHANGED <<spent, refunds, amount>>
  <2>1. CASE balance >= amount[r]
      BY <1>2, <2>1 DEF Debit
  <2>2. CASE ~ (balance >= amount[r])
      BY <1>2, <2>2 DEF Debit
  <2> QED
      BY <2>1, <2>2
<1>3. ASSUME NEW c \in Calls,
             \/ \E op \in Operation, r \in Requests : ReadRequest(c, op, r)
             \/ ClearPending(c) \/ CallDies(c)
      PROVE  UNCHANGED <<status, refunds, amount, balance, spent>>
    BY <1>3 DEF ReadRequest, ClearPending, CallDies
<1>4. ASSUME NEW n \in Spendings, Spend(n)
      PROVE  /\ UNCHANGED <<status, refunds, amount>>
             /\ balance' + spent' = balance + spent
    BY <1>4, WithdrawalAssumption DEF Spend
<1> QED
    BY <1>1, <1>2, <1>3, <1>4 DEF Next

\* The operations a write may be of, and what it does to the request.
LEMMA WriteEffect ==
    ASSUME CoveredInv, NEW c \in Calls, WriteRequest(c)
    PROVE  /\ calls[c].at = "tx"
           /\ calls[c].op \in Operation
           /\ calls[c].req \in Requests
           /\ status' = [status EXCEPT ![calls[c].req] = Outcome(calls[c].op)]
           /\ calls[c].op \in Returning =>
                /\ balance' = balance + amount[calls[c].req]
                /\ refunds' = [refunds EXCEPT ![calls[c].req] = @ + 1]
                /\ Outcome(calls[c].op) \in {"CANCELLED", "REJECTED"}
           /\ calls[c].op \notin Returning =>
                /\ UNCHANGED <<balance, refunds>>
                /\ Outcome(calls[c].op)
                     = IF calls[c].op = "approve" THEN "APPROVED" ELSE "COMPLETED"
           /\ UNCHANGED <<spent, amount>>
           /\ \E e \in Call :
                /\ calls' = [calls EXCEPT ![c] = e]
                /\ e.at # "tx"
<1>1. /\ calls[c].at = "tx"
      /\ calls[c].op \in Operation
      /\ calls[c].req \in Requests
  BY DEF CoveredInv, TypeOK, WriteRequest, Call, Idle
<1>2. /\ Outcome("cancel") = "CANCELLED" /\ Outcome("reject") = "REJECTED"
      /\ Outcome("approve") = "APPROVED" /\ Outcome("markPaid") = "COMPLETED"
  BY DEF Outcome
<1>3. \E e \in Call : calls' = [calls EXCEPT ![c] = e] /\ e.at # "tx"
  <2>1. [calls[c] EXCEPT !.at = "unlock"] \in Call
    BY <1>1 DEF CoveredInv, TypeOK, Call, Idle
  <2>2. [calls[c] EXCEPT !.at = "unlock"].at = "unlock"
    BY <1>1 DEF CoveredInv, TypeOK, Call, Idle
  <2>3. Idle \in Call /\ Idle.at = "idle"
    BY DEF Call, Idle
  <2>4. \/ calls' = [calls EXCEPT ![c] = Idle]
        \/ calls' = [calls EXCEPT ![c] = [calls[c] EXCEPT !.at = "unlock"]]
    BY DEF WriteRequest
  <2> QED
    BY <2>1, <2>2, <2>3, <2>4
<1> QED
  BY <1>1, <1>2, <1>3 DEF WriteRequest, Returning, Operation

\* The amount of a request is counted while it is underway.
Owed == SumFunctionOnSet(amount, Underway)

\* A request that comes underway, or stays so, adds its amount once; one that
\* leaves takes it once.
LEMMA OwedChange ==
    ASSUME CoveredInv, NEW r \in Requests, UNCHANGED amount
    PROVE  /\ Owed \in Nat /\ Owed' \in Int /\ amount[r] \in Nat
           /\ Underway' = Underway => Owed' = Owed
           /\ r \notin Underway /\ Underway' = Underway \union {r}
                => Owed' = Owed + amount[r]
           /\ Underway' = Underway \union {r} => Owed' >= Owed
           /\ Underway' = Underway \ {r} => Owed' >= Owed - amount[r]
<1>1. /\ \A q \in Requests : amount[q] \in Nat
      /\ Underway \in SUBSET Requests /\ Underway' \in SUBSET Requests
      /\ IsFiniteSet(Requests)
    BY WithdrawalAssumption DEF CoveredInv, TypeOK, Underway
<1>2. IsFiniteSet(Underway) /\ IsFiniteSet(Underway')
    BY <1>1, FS_Subset
<1>3. Owed' = SumFunctionOnSet(amount, Underway')
    BY DEF Owed
<1> DEFINE U == Underway
           V == Underway'
<1> HIDE DEF U, V
<1>4. /\ Owed = SumFunctionOnSet(amount, U) /\ Owed' = SumFunctionOnSet(amount, V)
      /\ U \in SUBSET Requests /\ V \in SUBSET Requests
      /\ IsFiniteSet(U) /\ IsFiniteSet(V)
      /\ \A q \in U : amount[q] \in Nat
      /\ \A q \in V : amount[q] \in Nat
    BY <1>1, <1>2, <1>3 DEF U, V, Owed
<1>5. Owed \in Nat /\ Owed' \in Nat
    BY <1>4, SumNat
<1>6. r \notin U /\ V = U \union {r} => Owed' = Owed + amount[r]
  <2> SUFFICES ASSUME r \notin U, V = U \union {r}
               PROVE  Owed' = Owed + amount[r]
      OBVIOUS
  <2>1. SumFunctionOnSet(amount, U \union {r}) = amount[r] + SumFunctionOnSet(amount, U)
      BY <1>1, <1>4, SumAdd
  <2> QED
      BY <1>1, <1>4, <1>5, <2>1
<1>7. V = U \union {r} => Owed' >= Owed
  <2>1. CASE r \in U
      BY <1>4, <1>5, <2>1
  <2>2. CASE r \notin U
      BY <1>1, <1>5, <1>6, <2>2
  <2> QED
      BY <2>1, <2>2
<1>8. V = U \ {r} => Owed' >= Owed - amount[r]
  <2> SUFFICES ASSUME V = U \ {r}
               PROVE  Owed' >= Owed - amount[r]
      OBVIOUS
  <2>1. CASE r \in U
    <3>1. SumFunctionOnSet(amount, U) = amount[r] + SumFunctionOnSet(amount, U \ {r})
        BY <1>4, <2>1, SumRemove
    <3> QED
        BY <1>1, <1>4, <1>5, <3>1
  <2>2. CASE r \notin U
    <3>1. V = U
        BY <2>2
    <3>2. Owed' = Owed
        BY <1>4, <3>1
    <3>3. Owed \in Nat /\ amount[r] \in Nat
        BY <1>1, <1>5
    <3> QED
        BY <3>2, <3>3
  <2> QED
      BY <2>1, <2>2
<1> QED
    BY <1>1, <1>4, <1>5, <1>6, <1>7, <1>8 DEF U, V

LEMMA NothingLostStep == CoveredInv /\ NothingLost /\ [Next]_vars => NothingLost'
<1> SUFFICES ASSUME CoveredInv, NothingLost, [Next]_vars
             PROVE  NothingLost'
    OBVIOUS
<1>0. /\ balance \in Int /\ spent \in Nat /\ Opening \in Nat
      /\ status \in [Requests -> Status] /\ amount \in [Requests -> Nat]
      /\ balance + spent + Owed >= Opening
      /\ NothingLost' <=> balance' + spent' + Owed' >= Opening
    BY WithdrawalAssumption DEF CoveredInv, TypeOK, NothingLost, Owed
\* A step that touches no request.
<1>1. ASSUME UNCHANGED <<status, amount>>, balance' + spent' = balance + spent
      PROVE  NothingLost'
  <2>1. Owed' = Owed
      BY <1>1 DEF Owed, Underway
  <2> QED
      BY <1>0, <1>1, <2>1
<1>2. ASSUME NEW r \in Requests,
             creating[r] = "debit", status[r] = "none",
             balance' = balance - amount[r],
             status' = [status EXCEPT ![r] = "PENDING"],
             UNCHANGED <<spent, refunds, amount>>
      PROVE  NothingLost'
  <2>1. r \notin Underway /\ Underway' = Underway \union {r}
      BY <1>0, <1>2 DEF Underway
  <2>2. Owed \in Nat /\ Owed' = Owed + amount[r] /\ amount[r] \in Nat
      BY <1>2, <2>1, OwedChange
  <2> QED
      BY <1>0, <1>2, <2>2
<1>3. ASSUME NEW c \in Calls, WriteRequest(c)
      PROVE  NothingLost'
  <2> DEFINE r == calls[c].req
             op == calls[c].op
  <2>1. /\ r \in Requests /\ UNCHANGED <<spent, amount>>
        /\ status' = [status EXCEPT ![r] = Outcome(op)]
      BY <1>3, WriteEffect
  <2>2. /\ Owed \in Nat /\ Owed' \in Int /\ amount[r] \in Nat
        /\ Underway' = Underway \union {r} => Owed' >= Owed
        /\ Underway' = Underway \ {r} => Owed' >= Owed - amount[r]
      BY <2>1, OwedChange
  <2>3. CASE op \in Returning
    <3>1. /\ balance' = balance + amount[r]
          /\ Outcome(op) \in {"CANCELLED", "REJECTED"}
        BY <1>3, <2>3, WriteEffect
    <3>2. Underway' = Underway \ {r}
        BY <1>0, <2>1, <3>1 DEF Underway
    <3> HIDE DEF r
    <3> QED
        BY <1>0, <2>1, <2>2, <3>1, <3>2
  <2>4. CASE op \notin Returning
    <3>1. /\ balance' = balance
          /\ Outcome(op) \in {"APPROVED", "COMPLETED"}
        BY <1>3, <2>4, WriteEffect
    <3>2. Underway' = Underway \union {r}
        BY <1>0, <2>1, <3>1 DEF Underway
    <3> HIDE DEF r, op
    <3>3. Owed' >= Owed /\ Owed' \in Int /\ Owed \in Int
        BY <2>1, <2>2, <3>2
    <3>4. balance' + spent' = balance + spent /\ balance + spent \in Int
        BY <1>0, <2>1, <3>1
    <3>5. balance + spent + Owed >= Opening /\ Opening \in Int
        BY <1>0
    <3>6. balance' + spent' + Owed' >= Opening
        BY <3>3, <3>4, <3>5
    <3> QED
        BY <1>0, <3>6
  <2> QED
      BY <2>3, <2>4
<1>4. CASE UNCHANGED vars
    BY <1>1, <1>4 DEF vars
<1> QED
    BY <1>1, <1>2, <1>3, <1>4, OneStatus

\* The user never loses money in a withdrawal: what the balance does not show
\* was spent elsewhere, or belongs to a request that is underway or paid.
THEOREM NoMoneyLost == Spec => []NothingLost
<1>1. Init => NothingLost
  <2> SUFFICES ASSUME Init PROVE NothingLost
      OBVIOUS
  <2>1. Underway = {}
      BY DEF Init, Underway
  <2>2. Owed = 0
      BY <2>1, SumEmpty DEF Owed
  <2>3. balance = Opening /\ spent = 0 /\ Opening \in Nat
      BY WithdrawalAssumption DEF Init
  <2> QED
      BY <2>2, <2>3 DEF NothingLost, Owed
<1> QED
    BY <1>1, NothingLostStep, CoveredInvariance, PTL DEF Spec

-----------------------------------------------------------------------------
(* Calls that overlap.                                                     *)

\* The calls that read request r while it was pending and have not written it.
Deciding(r) ==
    {c \in Calls : /\ calls[c].at = "tx" /\ calls[c].req = r
                   /\ calls[c].op # "markPaid"}

\* A payment of r is recorded, or a call has read that it may be.
Payable(r) ==
    \/ status[r] \in {"APPROVED", "COMPLETED"}
    \/ \E c \in Calls : /\ calls[c].at = "tx" /\ calls[c].req = r
                        /\ calls[c].op = "markPaid"

\* Every refund was decided by a call that had read the request while it was
\* pending, so were the approval behind a payment and the calls still deciding;
\* they all read it before the first of them wrote, each call at most once.
OverlapInv ==
    \A r \in Requests :
        /\ status[r] \in {"none", "PENDING"} => refunds[r] = 0 /\ ~Payable(r)
        /\ status[r] \notin {"none", "PENDING"} =>
            refunds[r] + (IF Payable(r) THEN 1 ELSE 0) + Cardinality(Deciding(r))
                <= Cardinality(Calls)

\* A step of a call: who decides, and whether the request may be paid.
LEMMA OverlapStep ==
    ASSUME CoveredInv, OverlapInv, [Next]_vars
    PROVE  OverlapInv'
<1>0. /\ status \in [Requests -> Status] /\ refunds \in [Requests -> Nat]
      /\ calls \in [Calls -> Call] /\ IsFiniteSet(Calls)
    BY WithdrawalAssumption DEF CoveredInv, TypeOK
<1>f. \A r \in Requests :
        /\ IsFiniteSet(Deciding(r)) /\ Cardinality(Deciding(r)) \in Nat
        /\ Cardinality(Deciding(r)) <= Cardinality(Calls)
        /\ Cardinality(Calls) \in Nat
  <2>1. \A r \in Requests : Deciding(r) \in SUBSET Calls
      BY DEF Deciding
  <2> QED
      BY <1>0, <2>1, FS_Subset, FS_CardinalityType
\* Fewer calls decide, and no payment becomes possible.
<1>a. ASSUME UNCHANGED <<status, refunds>>, NEW r \in Requests,
             Deciding(r)' \subseteq Deciding(r), Payable(r)' => Payable(r)
      PROVE  /\ status'[r] \in {"none", "PENDING"} => refunds'[r] = 0 /\ ~Payable(r)'
             /\ status'[r] \notin {"none", "PENDING"} =>
                 refunds'[r] + (IF Payable(r)' THEN 1 ELSE 0) + Cardinality(Deciding(r)')
                     <= Cardinality(Calls)
  <2>1. /\ Cardinality(Deciding(r)') \in Nat
        /\ Cardinality(Deciding(r)') <= Cardinality(Deciding(r))
      BY <1>a, <1>f, FS_Subset, FS_CardinalityType
  <2> QED
      BY <1>0, <1>a, <1>f, <2>1 DEF OverlapInv
<1>1. CASE UNCHANGED <<status, refunds, calls>>
    BY <1>1 DEF OverlapInv, Deciding, Payable
<1>2. ASSUME NEW c \in Calls, ClearPending(c) \/ CallDies(c)
      PROVE  OverlapInv'
  <2>1. /\ calls' = [calls EXCEPT ![c] = Idle]
        /\ UNCHANGED <<status, refunds>>
      BY <1>2 DEF ClearPending, CallDies
  <2>2. \A r \in Requests : /\ Deciding(r)' \subseteq Deciding(r)
                            /\ Payable(r)' => Payable(r)
      BY <1>0, <2>1 DEF Deciding, Payable, Idle
  <2> QED
      BY <1>a, <2>1, <2>2 DEF OverlapInv
<1>3. ASSUME NEW c \in Calls, NEW op \in Operation, NEW q \in Requests,
             ReadRequest(c, op, q)
      PROVE  OverlapInv'
  <2>1. /\ calls[c] = Idle
        /\ calls' = [calls EXCEPT ![c] = [op |-> op, req |-> q, at |-> "tx"]]
        /\ UNCHANGED <<status, refunds>>
        /\ status[q] = Expected(op)
      BY <1>3 DEF ReadRequest
  <2>2. /\ op = "markPaid" => status[q] = "APPROVED"
        /\ op # "markPaid" => status[q] = "PENDING"
      BY <2>1 DEF Expected
  <2>3. ASSUME NEW r \in Requests
        PROVE  /\ status'[r] \in {"none", "PENDING"} => refunds'[r] = 0 /\ ~Payable(r)'
               /\ status'[r] \notin {"none", "PENDING"} =>
                   refunds'[r] + (IF Payable(r)' THEN 1 ELSE 0) + Cardinality(Deciding(r)')
                       <= Cardinality(Calls)
    <3>1. Payable(r)' => Payable(r)
        BY <1>0, <2>1, <2>2 DEF Payable
    <3>2. CASE status[r] \in {"none", "PENDING"}
        BY <2>1, <3>1, <3>2 DEF OverlapInv
    <3>3. CASE status[r] \notin {"none", "PENDING"}
      <4>1. Deciding(r)' \subseteq Deciding(r)
          BY <1>0, <2>1, <2>2, <3>3 DEF Deciding
      <4> QED
          BY <1>a, <2>1, <3>1, <4>1
    <3> QED
        BY <3>2, <3>3
  <2> QED
      BY <2>3 DEF OverlapInv
<1>4. ASSUME NEW c \in Calls, WriteRequest(c)
      PROVE  OverlapInv'
  <2>0. calls[c].at = "tx" /\ calls[c].op \in Operation /\ calls[c].req \in Requests
      BY <1>4, WriteEffect
  <2>p. PICK q \in Requests, op \in Operation : calls[c].req = q /\ calls[c].op = op
      BY <2>0
  <2>1. /\ calls[c].at = "tx" /\ calls[c].req = q /\ calls[c].op = op
        /\ status' = [status EXCEPT ![q] = Outcome(op)]
        /\ op \in Returning =>
              /\ refunds' = [refunds EXCEPT ![q] = @ + 1]
              /\ Outcome(op) \in {"CANCELLED", "REJECTED"}
        /\ op \notin Returning =>
              /\ UNCHANGED refunds
              /\ Outcome(op) = IF op = "approve" THEN "APPROVED" ELSE "COMPLETED"
      BY <1>4, <2>0, <2>p, WriteEffect
  <2>2. PICK e \in Call : calls' = [calls EXCEPT ![c] = e] /\ e.at # "tx"
      BY <1>4, WriteEffect
  <2>3. ASSUME NEW r \in Requests, r # q
        PROVE  /\ status'[r] \in {"none", "PENDING"} => refunds'[r] = 0 /\ ~Payable(r)'
               /\ status'[r] \notin {"none", "PENDING"} =>
                   refunds'[r] + (IF Payable(r)' THEN 1 ELSE 0) + Cardinality(Deciding(r)')
                       <= Cardinality(Calls)
    <3>1. status'[r] = status[r] /\ refunds'[r] = refunds[r]
        BY <1>0, <2>1, <2>3
    <3>2. Deciding(r)' = Deciding(r) /\ Payable(r)' = Payable(r)
        BY <1>0, <2>1, <2>2, <2>3, <3>1 DEF Deciding, Payable
    <3> QED
        BY <3>1, <3>2 DEF OverlapInv
  <2>4. /\ status'[q] \notin {"none", "PENDING"}
        /\ refunds'[q] + (IF Payable(q)' THEN 1 ELSE 0) + Cardinality(Deciding(q)')
               <= Cardinality(Calls)
    <3>0. /\ status'[q] = Outcome(op)
          /\ status[q] \in {"none", "PENDING"} => refunds[q] = 0 /\ ~Payable(q)
          /\ status[q] \notin {"none", "PENDING"} =>
              refunds[q] + (IF Payable(q) THEN 1 ELSE 0) + Cardinality(Deciding(q))
                  <= Cardinality(Calls)
          /\ refunds[q] \in Nat
        BY <1>0, <2>1 DEF OverlapInv
    <3>1. /\ Cardinality(Deciding(q)) \in Nat /\ Cardinality(Calls) \in Nat
          /\ Cardinality(Deciding(q)) <= Cardinality(Calls)
          /\ IsFiniteSet(Deciding(q))
        BY <1>f, <2>1
    <3>2. Deciding(q)' = Deciding(q) \ {c}
        BY <1>0, <2>1, <2>2 DEF Deciding
    <3>3. (\E d \in Calls : calls'[d].at = "tx" /\ calls'[d].req = q
                            /\ calls'[d].op = "markPaid") => Payable(q)
        BY <1>0, <2>2 DEF Payable
    <3>4. Payable(q)' => status'[q] \in {"APPROVED", "COMPLETED"} \/ Payable(q)
        BY <3>3, <2>1 DEF Payable
    <3>5. CASE op = "markPaid"
      <4>1. Payable(q) /\ Deciding(q)' = Deciding(q)
          BY <1>0, <2>1, <3>2, <3>5 DEF Payable, Deciding
      <4>2. refunds'[q] = refunds[q] /\ status'[q] = "COMPLETED"
          BY <2>1, <3>0, <3>5 DEF Returning
      <4> QED
          BY <3>0, <3>1, <4>1, <4>2
    <3>6. CASE op # "markPaid"
      <4>1. c \in Deciding(q)
          BY <2>1, <3>6 DEF Deciding
      <4>2. Cardinality(Deciding(q)') = Cardinality(Deciding(q)) - 1
          BY <3>1, <3>2, <4>1, FS_RemoveElement
      <4>3. CASE op \in Returning
        <5>1. /\ refunds'[q] = refunds[q] + 1
              /\ status'[q] \in {"CANCELLED", "REJECTED"}
            BY <1>0, <2>1, <3>0, <4>3
        <5>2. Payable(q)' => Payable(q)
            BY <3>4, <5>1
        <5> QED
            BY <3>0, <3>1, <4>2, <5>1, <5>2
      <4>4. CASE op = "approve"
        <5>1. refunds'[q] = refunds[q] /\ status'[q] = "APPROVED"
            BY <2>1, <3>0, <4>4 DEF Returning
        <5>2. (IF Payable(q)' THEN 1 ELSE 0) <= 1 + (IF Payable(q) THEN 1 ELSE 0)
            OBVIOUS
        <5> QED
            BY <3>0, <3>1, <4>2, <5>1, <5>2
      <4> QED
          BY <2>1, <3>6, <4>3, <4>4 DEF Operation, Returning
    <3> QED
        BY <3>5, <3>6
  <2> QED
      BY <2>3, <2>4 DEF OverlapInv
<1>5. \/ UNCHANGED <<status, refunds, calls>>
      \/ \E r \in Requests : Debit(r)
      \/ \E c \in Calls :
            \/ \E op \in Operation, r \in Requests : ReadRequest(c, op, r)
            \/ WriteRequest(c) \/ ClearPending(c) \/ CallDies(c)
    BY DEF Next, vars, CheckBalance, SetPending, DebitFails, DropPending,
       CreateDies, DayPasses, Spend
<1>6. ASSUME NEW q \in Requests, Debit(q)
      PROVE  OverlapInv'
  <2>1. UNCHANGED <<refunds, calls>>
      BY <1>6 DEF Debit
  <2>2. CASE UNCHANGED status
      BY <1>1, <2>1, <2>2
  <2>3. CASE status' = [status EXCEPT ![q] = "PENDING"]
    <3>1. status[q] = "none"
        BY <1>6 DEF CoveredInv, TypeOK, Debit
    <3>2. \A r \in Requests : status'[r] = IF r = q THEN "PENDING" ELSE status[r]
        BY <1>0, <2>3
    <3>3. \A r \in Requests : Deciding(r)' = Deciding(r) /\ Payable(r)' = Payable(r)
        BY <2>1, <3>1, <3>2 DEF Deciding, Payable
    <3> QED
        BY <2>1, <3>1, <3>2, <3>3 DEF OverlapInv
  <2> QED
      BY <1>6, <2>2, <2>3 DEF Debit
<1> QED
    BY <1>1, <1>2, <1>3, <1>4, <1>5, <1>6

\* However the calls overlap, a request's money leaves the platform no more
\* often than calls run at once; one call at a time settles it once.
THEOREM RefundsNeedOverlap == Spec => []RefundsOverlap
<1>1. Init => OverlapInv
    BY DEF Init, OverlapInv, Payable, Idle
<1>2. CoveredInv /\ OverlapInv => RefundsOverlap
  <2> SUFFICES ASSUME CoveredInv, OverlapInv, NEW r \in Requests
               PROVE  refunds[r] + (IF status[r] = "COMPLETED" THEN 1 ELSE 0)
                         <= Cardinality(Calls)
      BY DEF RefundsOverlap
  <2>1. /\ refunds[r] \in Nat
        /\ Deciding(r) \in SUBSET Calls /\ IsFiniteSet(Calls)
      BY WithdrawalAssumption DEF CoveredInv, TypeOK, Deciding
  <2>2. Cardinality(Deciding(r)) \in Nat /\ Cardinality(Calls) \in Nat
      BY <2>1, FS_Subset, FS_CardinalityType
  <2>3. status[r] = "COMPLETED" => Payable(r)
      BY DEF Payable
  <2> QED
      BY <2>1, <2>2, <2>3 DEF OverlapInv
<1> QED
    BY <1>1, <1>2, OverlapStep, CoveredInvariance, PTL DEF Spec
=============================================================================
