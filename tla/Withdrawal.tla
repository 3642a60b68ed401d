----------------------------- MODULE Withdrawal -----------------------------
(***************************************************************************)
(* Withdrawals of one user (internal/service/withdrawal): the balance      *)
(* column, the withdrawal_requests rows, the Redis key                     *)
(* withdrawal:pending:user:<id>, and the calls that work on them: the      *)
(* user's CreateWithdrawal and CancelByUser, the administrators' Approve,  *)
(* Reject and MarkPaid (BatchApprove and BatchReject call them in a loop). *)
(*                                                                         *)
(* Every call reads first and writes in a later transaction, which does    *)
(* not look at what was read again, except for the conditional debit of    *)
(* CreateWithdrawal.  Any number of calls, from any pod, may be between    *)
(* the two.  Amounts are whole credits: RMBToCredits rounds, so it gives   *)
(* back the credits that CreditsToRMB divided.                             *)
(***************************************************************************)
EXTENDS Integers, FiniteSetsExt

CONSTANTS
    Requests,      \* the withdrawal requests the user may make
    Amounts,       \* their amounts, at least MinWithdrawAmount
    Calls,         \* calls of the other four operations at one time
    Nobody,        \* the value of the pending key when it is absent
    Opening,       \* the balance at the start
    Spendings      \* costs of the user's chat requests

ASSUME WithdrawalAssumption ==
    /\ IsFiniteSet(Requests) /\ IsFiniteSet(Calls)
    /\ Amounts \subseteq Nat \ {0}
    /\ Nobody \notin Requests
    /\ Opening \in Nat
    /\ Spendings \subseteq Nat \ {0}

VARIABLES
    balance,       \* user_balances.balance
    spent,         \* what other services have taken
    status,        \* withdrawal_requests.status, "none" before the row exists
    amount,        \* withdrawal_requests.amount, in credits (chosen at the start)
    refunds,       \* number of WITHDRAW_REFUND records of a request
    pendingKey,    \* the request for which the pending key was set
    today,         \* requests created less than 24 hours ago
    creating,      \* where the CreateWithdrawal call of a request stands
    calls          \* the other calls: operation, request, where it stands

vars == <<balance, spent, status, amount, refunds, pendingKey, today, creating,
          calls>>

Operation == {"cancel", "approve", "reject", "markPaid"}

Idle == [op |-> "none", req |-> Nobody, at |-> "idle"]

Call == {Idle} \union [op : Operation, req : Requests, at : {"tx", "unlock"}]

Status == {"none", "PENDING", "APPROVED", "REJECTED", "CANCELLED", "COMPLETED"}

TypeOK ==
    /\ balance \in Int
    /\ spent \in Nat
    /\ status \in [Requests -> Status]
    /\ amount \in [Requests -> Nat]
    /\ refunds \in [Requests -> Nat]
    /\ pendingKey \in Requests \union {Nobody}
    /\ today \subseteq Requests
    /\ creating \in [Requests -> {"check", "lock", "debit", "unlock", "done"}]
    /\ calls \in [Calls -> Call]
    /\ \A r \in Requests : creating[r] # "done" => status[r] = "none"

Init ==
    /\ balance = Opening
    /\ spent = 0
    /\ status = [r \in Requests |-> "none"]
    /\ amount \in [Requests -> Amounts]
    /\ refunds = [r \in Requests |-> 0]
    /\ pendingKey = Nobody
    /\ today = {}
    /\ creating = [r \in Requests |-> "check"]
    /\ calls = [c \in Calls |-> Idle]

-----------------------------------------------------------------------------
(* CreateWithdrawal.                                                       *)

Creating(r, label) == creating' = [creating EXCEPT ![r] = label]

\* The balance is read outside the transaction.
CheckBalance(r) ==
    /\ creating[r] = "check"
    /\ Creating(r, IF balance >= amount[r] THEN "lock" ELSE "done")
    /\ UNCHANGED <<balance, spent, status, amount, refunds, pendingKey, today, calls>>

\* SETNX of the pending key, for 24 hours.
SetPending(r) ==
    /\ creating[r] = "lock"
    /\ IF pendingKey = Nobody
       THEN pendingKey' = r /\ Creating(r, "debit")
       ELSE Creating(r, "done") /\ UNCHANGED pendingKey
    /\ UNCHANGED <<balance, spent, status, amount, refunds, today, calls>>

\* Mutation: the UPDATE relies on the balance read before.
DebitUnchecked(r) ==
    /\ creating[r] = "debit"
    /\ balance' = balance - amount[r]
    /\ status' = [status EXCEPT ![r] = "PENDING"]
    /\ today' = today \union {r}
    /\ Creating(r, "done")
    /\ UNCHANGED <<spent, amount, refunds, pendingKey, calls>>

\* The transaction: UPDATE ... WHERE balance >= amount, and the PENDING row.
Debit(r) ==
    /\ creating[r] = "debit"
    /\ IF balance >= amount[r]
       THEN /\ balance' = balance - amount[r]
            /\ status' = [status EXCEPT ![r] = "PENDING"]
            /\ today' = today \union {r}
            /\ Creating(r, "done")
       ELSE Creating(r, "unlock") /\ UNCHANGED <<balance, status, today>>
    /\ UNCHANGED <<spent, amount, refunds, pendingKey, calls>>

\* The transaction is rolled back by a database error.
DebitFails(r) ==
    /\ creating[r] = "debit"
    /\ Creating(r, "unlock")
    /\ UNCHANGED <<balance, spent, status, amount, refunds, pendingKey, today, calls>>

\* After a failed transaction: DEL of the key, whoever has set it.
DropPending(r) ==
    /\ creating[r] = "unlock"
    /\ pendingKey' = Nobody
    /\ Creating(r, "done")
    /\ UNCHANGED <<balance, spent, status, amount, refunds, today, calls>>

\* The pod dies during the call: the key stays for its 24 hours.
CreateDies(r) ==
    /\ creating[r] \in {"lock", "debit", "unlock"}
    /\ Creating(r, "done")
    /\ UNCHANGED <<balance, spent, status, amount, refunds, pendingKey, today, calls>>

-----------------------------------------------------------------------------
(* CancelByUser, Approve, Reject, MarkPaid.                                *)

\* The status an operation wants to read before it goes on.
Expected(op) == IF op = "markPaid" THEN "APPROVED" ELSE "PENDING"

\* The status it writes.
Outcome(op) ==
    CASE op = "cancel"   -> "CANCELLED"
      [] op = "approve"  -> "APPROVED"
      [] op = "reject"   -> "REJECTED"
      [] op = "markPaid" -> "COMPLETED"

\* The operations that give the money back.
Returning == {"cancel", "reject"}

\* Mutation: any request can be cancelled.
ReadRequestAny(c, op, r) ==
    /\ calls[c] = Idle
    /\ (status[r] = Expected(op) \/ (op = "cancel" /\ status[r] # "none"))
    /\ calls' = [calls EXCEPT ![c] = [op |-> op, req |-> r, at |-> "tx"]]
    /\ UNCHANGED <<balance, spent, status, amount, refunds, pendingKey, today, creating>>

\* The call reads the request; any other status is an error and changes nothing.
ReadRequest(c, op, r) ==
    /\ calls[c] = Idle
    /\ status[r] = Expected(op)
    /\ calls' = [calls EXCEPT ![c] = [op |-> op, req |-> r, at |-> "tx"]]
    /\ UNCHANGED <<balance, spent, status, amount, refunds, pendingKey, today, creating>>

\* Mutation: a refused request keeps the money.
WriteRequestNoRefund(c) ==
    LET op == calls[c].op
        r == calls[c].req
    IN /\ calls[c].at = "tx"
       /\ status' = [status EXCEPT ![r] = Outcome(op)]
       /\ IF op = "cancel"
          THEN /\ balance' = balance + amount[r]
               /\ refunds' = [refunds EXCEPT ![r] = @ + 1]
          ELSE UNCHANGED <<balance, refunds>>
       /\ calls' = [calls EXCEPT ![c] = IF op = "approve" THEN Idle
                                        ELSE [@ EXCEPT !.at = "unlock"]]
       /\ UNCHANGED <<spent, amount, pendingKey, today, creating>>

\* The transaction (one UPDATE for Approve and MarkPaid): WHERE id = ? only.
WriteRequest(c) ==
    LET op == calls[c].op
        r == calls[c].req
    IN /\ calls[c].at = "tx"
       /\ status' = [status EXCEPT ![r] = Outcome(op)]
       /\ IF op \in Returning
          THEN /\ balance' = balance + amount[r]
               /\ refunds' = [refunds EXCEPT ![r] = @ + 1]
          ELSE UNCHANGED <<balance, refunds>>
       /\ calls' = [calls EXCEPT ![c] = IF op = "approve" THEN Idle
                                        ELSE [@ EXCEPT !.at = "unlock"]]
       /\ UNCHANGED <<spent, amount, pendingKey, today, creating>>

\* Afterwards: DEL of the key, whoever has set it.
ClearPending(c) ==
    /\ calls[c].at = "unlock"
    /\ pendingKey' = Nobody
    /\ calls' = [calls EXCEPT ![c] = Idle]
    /\ UNCHANGED <<balance, spent, status, amount, refunds, today, creating>>

\* A database error, or the pod dies: the call ends where it is.
CallDies(c) ==
    /\ calls[c] # Idle
    /\ calls' = [calls EXCEPT ![c] = Idle]
    /\ UNCHANGED <<balance, spent, status, amount, refunds, pendingKey, today, creating>>

-----------------------------------------------------------------------------
(* The environment.                                                        *)

\* 24 hours pass since request r took the pending key.
DayPasses(r) ==
    /\ creating[r] = "done"
    /\ r \in today \/ pendingKey = r
    /\ today' = today \ {r}
    /\ pendingKey' = IF pendingKey = r THEN Nobody ELSE pendingKey
    /\ UNCHANGED <<balance, spent, status, amount, refunds, creating, calls>>

\* The settlement of a chat request takes its cost from the balance, or what
\* is left of it.
Spend(n) ==
    LET taken == IF n <= balance THEN n ELSE balance
    IN /\ taken > 0
       /\ balance' = balance - taken
       /\ spent' = spent + taken
       /\ UNCHANGED <<status, amount, refunds, pendingKey, today, creating, calls>>

Next ==
    \/ \E r \in Requests :
        \/ CheckBalance(r)
        \/ SetPending(r)
        \/ Debit(r)
        \/ DebitFails(r)
        \/ DropPending(r)
        \/ CreateDies(r)
        \/ DayPasses(r)
    \/ \E c \in Calls :
        \/ \E op \in Operation, r \in Requests : ReadRequest(c, op, r)
        \/ WriteRequest(c)
        \/ ClearPending(c)
        \/ CallDies(c)
    \/ \E n \in Spendings : Spend(n)

Spec == Init /\ [][Next]_vars

-----------------------------------------------------------------------------
(* Properties.                                                             *)

\* Requests whose money is neither in the balance nor refused to the user.
Underway ==
    {r \in Requests : status[r] \in {"PENDING", "APPROVED", "COMPLETED"}}

\* A withdrawal never takes the balance below zero, although the balance is
\* checked before the pending key and spent by others in between.
BalanceCovered == balance >= 0

\* The user never loses money in a withdrawal: what is not in the balance was
\* spent elsewhere or belongs to a request that is underway or paid, in every
\* order of cancellations, reviews, failures and retries.
NothingLost == balance + spent + SumFunctionOnSet(amount, Underway) >= Opening

\* The status is read before the transaction and not looked at inside it, so
\* that a request may be refunded again, or refunded and paid; but only by calls
\* that overlap: its money leaves the platform no more often than calls run at
\* once, and a call that comes later finds the request closed.
RefundsOverlap ==
    \A r \in Requests :
        refunds[r] + (IF status[r] = "COMPLETED" THEN 1 ELSE 0)
            <= Cardinality(Calls)
=============================================================================
