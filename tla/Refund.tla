------------------------------- MODULE Refund -------------------------------
(***************************************************************************)
(* Refund requests on the orders of Payment (RefundService): the user      *)
(* submits, an administrator approves or rejects, an approval starts a     *)
(* goroutine that calls the gateway and then, in one transaction, closes   *)
(* the request, adds to the order's refunded amount and debits the user.   *)
(* AdminRefundOrder submits and approves in one call; RefundPayment        *)
(* refunds an order directly.  Credits and refunds share the balance row,  *)
(* so both kinds of steps interleave here.                                 *)
(*                                                                         *)
(* The gateway is external: it accepts a refund, refuses it with an error, *)
(* or answers with a status other than "success" and no error (a code      *)
(* other than 10000 from Alipay); it never returns more than was paid.     *)
(***************************************************************************)
EXTENDS Payment

CONSTANTS
    Refunds,          \* the refund requests of the user, all of one day
    OrderOf,          \* the order of a request
    AmountOf,         \* the amount of a request, RMB
    Reviews,          \* calls of administrators, with what they start
    DailyLimit,       \* dailyRefundLimit: 3
    GatewayFailures,  \* whether the gateway answers failures without error
    Direct            \* whether RefundPayment is used

ASSUME RefundAssumption ==
    /\ IsFiniteSet(Refunds) /\ IsFiniteSet(Reviews)
    /\ OrderOf \in [Refunds -> Payments]
    /\ AmountOf \in [Refunds -> Nat \ {0}]
    /\ DailyLimit \in Nat
    /\ GatewayFailures \in BOOLEAN
    /\ Direct \in BOOLEAN

VARIABLES
    refundStatus,     \* payment_refund_requests.status, "none" before
    submitting,       \* requests that passed the checks and are not created
    refundedAmount,   \* payments.refunded_amount
    returned,         \* what the gateway has returned of an order, RMB
    debits,           \* number of REFUND records of a request
    review            \* the administrators' calls and their goroutines

refundVars == <<refundStatus, submitting, refundedAmount, returned, debits, review>>
vars == <<payVars, refundVars>>

RefundStatus == {"none", "pending", "approved", "rejected", "processing",
                 "completed", "failed"}

NoReview == [at |-> "idle"]

Review ==
    {NoReview}
    \union [at : {"approve", "reject", "process", "load", "fail"}, req : Refunds]
    \union [at : {"gateway", "tx"}, req : Refunds, read : Nat]
    \union [at : {"directGateway"}, pay : Payments, amt : Nat]
    \union [at : {"direct"}, pay : Payments]

TypeOK ==
    /\ PayTypeOK
    /\ refundStatus \in [Refunds -> RefundStatus]
    /\ submitting \subseteq Refunds
    /\ refundedAmount \in [Payments -> Nat]
    /\ returned \in [Payments -> Nat]
    /\ debits \in [Refunds -> Nat]
    /\ review \in [Reviews -> Review]
    /\ \A r \in submitting : refundStatus[r] = "none"

Init ==
    /\ PayInit
    /\ refundStatus = [r \in Refunds |-> "none"]
    /\ submitting = {}
    /\ refundedAmount = [p \in Payments |-> 0]
    /\ returned = [p \in Payments |-> 0]
    /\ debits = [r \in Refunds |-> 0]
    /\ review = [v \in Reviews |-> NoReview]

Goto(v, step) == review' = [review EXCEPT ![v] = step]

-----------------------------------------------------------------------------
(* SubmitUserRequest.                                                      *)

Open == {r \in Refunds : refundStatus[r] \in {"pending", "approved", "processing"}}

Submitted == {r \in Refunds : refundStatus[r] # "none"}

\* The checks, each a read of its own, before anything is written.
CheckSubmit(r) ==
    LET p == OrderOf[r]
    IN /\ refundStatus[r] = "none"
       /\ r \notin submitting
       /\ payStatus[p] \in {"completed", "partial_refunded"}
       /\ AmountOf[r] <= Price[p] - refundedAmount[p]
       /\ \A q \in Open : OrderOf[q] # p
       /\ Cardinality(Submitted) < DailyLimit
       /\ submitting' = submitting \union {r}
       /\ UNCHANGED <<payVars, refundStatus, refundedAmount, returned, debits, review>>

CreateRequest(r) ==
    /\ r \in submitting
    /\ submitting' = submitting \ {r}
    /\ refundStatus' = [refundStatus EXCEPT ![r] = "pending"]
    /\ UNCHANGED <<payVars, refundedAmount, returned, debits, review>>

-----------------------------------------------------------------------------
(* ApproveByAdmin, RejectByAdmin.                                          *)

\* Mutation: a request whose refund failed can be reviewed again.
ReadRequestOrFailed(v, r) ==
    /\ review[v] = NoReview
    /\ refundStatus[r] \in {"pending", "failed"}
    /\ \E verdict \in {"approve", "reject"} : Goto(v, [at |-> verdict, req |-> r])
    /\ UNCHANGED <<payVars, refundStatus, submitting, refundedAmount, returned, debits>>

\* Both read the request first; only a pending one goes on.
ReadRequest(v, r) ==
    /\ review[v] = NoReview
    /\ refundStatus[r] = "pending"
    /\ \E verdict \in {"approve", "reject"} : Goto(v, [at |-> verdict, req |-> r])
    /\ UNCHANGED <<payVars, refundStatus, submitting, refundedAmount, returned, debits>>

\* UPDATE ... WHERE id = ?; an approval starts executeRefundAsync.
Approve(v) ==
    /\ review[v].at = "approve"
    /\ refundStatus' = [refundStatus EXCEPT ![review[v].req] = "approved"]
    /\ Goto(v, [review[v] EXCEPT !.at = "process"])
    /\ UNCHANGED <<payVars, submitting, refundedAmount, returned, debits>>

Reject(v) ==
    /\ review[v].at = "reject"
    /\ refundStatus' = [refundStatus EXCEPT ![review[v].req] = "rejected"]
    /\ Goto(v, NoReview)
    /\ UNCHANGED <<payVars, submitting, refundedAmount, returned, debits>>

-----------------------------------------------------------------------------
(* executeRefundAsync.                                                     *)

Process(v) ==
    /\ review[v].at = "process"
    /\ refundStatus' = [refundStatus EXCEPT ![review[v].req] = "processing"]
    /\ Goto(v, [review[v] EXCEPT !.at = "load"])
    /\ UNCHANGED <<payVars, submitting, refundedAmount, returned, debits>>

\* That UPDATE fails: its error is dropped and the refund goes on.
ProcessUnwritten(v) ==
    /\ Crashes
    /\ review[v].at = "process"
    /\ Goto(v, [review[v] EXCEPT !.at = "load"])
    /\ UNCHANGED <<payVars, refundStatus, submitting, refundedAmount, returned, debits>>

\* The order is read; its refunded amount is used after the gateway call.
LoadPayment(v) ==
    /\ review[v].at = "load"
    /\ LET r == review[v].req
       IN \/ Goto(v, [at |-> "gateway", req |-> r, read |-> refundedAmount[OrderOf[r]]])
          \/ Goto(v, [at |-> "fail", req |-> r])
    /\ UNCHANGED <<payVars, refundStatus, submitting, refundedAmount, returned, debits>>

\* The gateway accepts; the money is returned to the user.
GatewayAccepts(v) ==
    /\ review[v].at = "gateway"
    /\ LET r == review[v].req
           p == OrderOf[r]
       IN /\ returned[p] + AmountOf[r] <= Price[p]
          /\ returned' = [returned EXCEPT ![p] = @ + AmountOf[r]]
    /\ Goto(v, [review[v] EXCEPT !.at = "tx"])
    /\ UNCHANGED <<payVars, refundStatus, submitting, refundedAmount, debits>>

\* The gateway fails without an error: the status of the answer is not read.
GatewayFails(v) ==
    /\ GatewayFailures
    /\ review[v].at = "gateway"
    /\ Goto(v, [review[v] EXCEPT !.at = "tx"])
    /\ UNCHANGED <<payVars, refundStatus, submitting, refundedAmount, returned, debits>>

\* Mutation: the error of the gateway is not looked at.
GatewayErrorIgnored(v) ==
    /\ review[v].at = "gateway"
    /\ Goto(v, [review[v] EXCEPT !.at = "tx"])
    /\ UNCHANGED <<payVars, refundStatus, submitting, refundedAmount, returned, debits>>

\* The gateway refuses with an error.
GatewayRefuses(v) ==
    /\ review[v].at = "gateway"
    /\ Goto(v, [at |-> "fail", req |-> review[v].req])
    /\ UNCHANGED <<payVars, refundStatus, submitting, refundedAmount, returned, debits>>

\* Mutation: a failed transaction leaves the request as it is.
RefundTxFailsSilently(v) ==
    /\ review[v].at = "tx"
    /\ Goto(v, NoReview)
    /\ UNCHANGED <<payVars, refundStatus, submitting, refundedAmount, returned, debits>>

\* Mutation: the refunded amount is set to that of this request.
RefundTxNotAdded(v) ==
    /\ review[v].at = "tx"
    /\ LET r == review[v].req
           p == OrderOf[r]
       IN /\ refundStatus' = [refundStatus EXCEPT ![r] = "completed"]
          /\ refundedAmount' = [refundedAmount EXCEPT ![p] = AmountOf[r]]
          /\ payStatus' = [payStatus EXCEPT
                             ![p] = IF refundedAmount'[p] >= Price[p]
                                    THEN "refunded" ELSE "partial_refunded"]
          /\ balance' = balance - RMBToCredits(AmountOf[r])
          /\ debits' = [debits EXCEPT ![r] = @ + 1]
    /\ Goto(v, NoReview)
    /\ UNCHANGED <<paid, recharges, delivery, submitting, returned>>

\* The transaction: it locks the balance row, which may go below zero.
RefundTx(v) ==
    /\ review[v].at = "tx"
    /\ LET r == review[v].req
           p == OrderOf[r]
       IN /\ refundStatus' = [refundStatus EXCEPT ![r] = "completed"]
          /\ refundedAmount' = [refundedAmount EXCEPT ![p] = review[v].read + AmountOf[r]]
          /\ payStatus' = [payStatus EXCEPT
                             ![p] = IF refundedAmount'[p] >= Price[p]
                                    THEN "refunded" ELSE "partial_refunded"]
          /\ balance' = balance - RMBToCredits(AmountOf[r])
          /\ debits' = [debits EXCEPT ![r] = @ + 1]
    /\ Goto(v, NoReview)
    /\ UNCHANGED <<paid, recharges, delivery, submitting, returned>>

\* The transaction is rolled back although the gateway has returned the money.
RefundTxFails(v) ==
    /\ review[v].at = "tx"
    /\ Goto(v, [at |-> "fail", req |-> review[v].req])
    /\ UNCHANGED <<payVars, refundStatus, submitting, refundedAmount, returned, debits>>

MarkRefundFailed(v) ==
    /\ review[v].at = "fail"
    /\ refundStatus' = [refundStatus EXCEPT ![review[v].req] = "failed"]
    /\ Goto(v, NoReview)
    /\ UNCHANGED <<payVars, submitting, refundedAmount, returned, debits>>

\* The pod dies, or a statement outside the transaction fails and ends the
\* call: nothing takes the request up again.
ReviewDies(v) ==
    /\ Crashes
    /\ review[v] # NoReview
    /\ Goto(v, NoReview)
    /\ UNCHANGED <<payVars, refundStatus, submitting, refundedAmount, returned, debits>>

-----------------------------------------------------------------------------
(* RefundPayment.                                                          *)

\* The order is read as completed.
DirectRead(v, p, n) ==
    /\ Direct
    /\ review[v] = NoReview
    /\ payStatus[p] = "completed"
    /\ Goto(v, [at |-> "directGateway", pay |-> p, amt |-> n])
    /\ UNCHANGED <<payVars, refundStatus, submitting, refundedAmount, returned, debits>>

\* The gateway returns the amount, or refuses and the call ends.
DirectGateway(v) ==
    /\ review[v].at = "directGateway"
    /\ LET p == review[v].pay
           n == review[v].amt
       IN \/ /\ returned[p] + n <= Price[p]
             /\ returned' = [returned EXCEPT ![p] = @ + n]
             /\ Goto(v, [at |-> "direct", pay |-> p])
          \/ Goto(v, NoReview) /\ UNCHANGED returned
    /\ UNCHANGED <<payVars, refundStatus, submitting, refundedAmount, debits>>

\* The order is marked refunded; the error of this UPDATE is not looked at.
DirectUpdate(v) ==
    /\ review[v].at = "direct"
    /\ \E newStatus \in {"refunded", payStatus[review[v].pay]} :
        payStatus' = [payStatus EXCEPT ![review[v].pay] = newStatus]
    /\ Goto(v, NoReview)
    /\ UNCHANGED <<paid, balance, recharges, delivery, refundStatus, submitting,
                   refundedAmount, returned, debits>>

-----------------------------------------------------------------------------
Execute(v) ==
    \/ Process(v)
    \/ ProcessUnwritten(v)
    \/ LoadPayment(v)
    \/ GatewayAccepts(v)
    \/ GatewayFails(v)
    \/ GatewayRefuses(v)
    \/ RefundTx(v)
    \/ RefundTxFails(v)
    \/ MarkRefundFailed(v)

Next ==
    \/ PayNext /\ UNCHANGED refundVars
    \/ \E r \in Refunds : CheckSubmit(r) \/ CreateRequest(r)
    \/ \E v \in Reviews :
        \/ \E r \in Refunds : ReadRequest(v, r)
        \/ Approve(v)
        \/ Reject(v)
        \/ Execute(v)
        \/ ReviewDies(v)
        \/ \E p \in Payments : \E n \in 1..Price[p] : DirectRead(v, p, n)
        \/ DirectGateway(v)
        \/ DirectUpdate(v)

Spec == Init /\ [][Next]_vars

\* Goroutines run and gateways answer.
FairSpec == Spec /\ PayFairness /\ \A v \in Reviews : WF_vars(Execute(v))

-----------------------------------------------------------------------------
(* Properties.                                                             *)

Completed(p) == {r \in Refunds : OrderOf[r] = p /\ refundStatus[r] = "completed"}

\* What refunds take from the user's credits, the gateway has returned before,
\* in every overlap of reviews, failures and crashes ("approved: call the
\* gateway, then debit the balance").
DebitsCovered ==
    \A p \in Payments :
        SumFunctionOnSet([r \in Refunds |-> debits[r] * AmountOf[r]],
                         {r \in Refunds : OrderOf[r] = p}) <= returned[p]

\* A notification that is repeated after its order was credited is skipped,
\* whatever the gateway and the administrators do, unless a refund of a part has
\* put the order into a status that HandleCallback does not compare with
\* (payment_service.go:251).  Deliveries that overlap are CreditedOnce's.
RecreditNeedsRefund ==
    (\A d, e \in Deliveries : d = e) =>
        \A p \in Payments : recharges[p] > 1 => refundedAmount[p] > 0

\* The order's refunded amount ("accumulated") counts every completed refund.
RefundsCounted ==
    \A p \in Payments :
        SumFunctionOnSet(AmountOf, Completed(p)) <= refundedAmount[p]

\* A refund that was approved comes to an end.
ApprovedEnds ==
    \A r \in Refunds :
        refundStatus[r] \in {"approved", "processing"}
            ~> refundStatus[r] \notin {"approved", "processing"}

\* One review at a time keeps the workflow of the model's comment, "pending ->
\* approved -> processing -> completed | failed, or rejected", although reads
\* and writes of a request are separate and submissions overlap.
Workflow ==
    { <<"none", "pending">>, <<"pending", "approved">>, <<"pending", "rejected">>,
      <<"approved", "processing">>, <<"processing", "completed">>,
      <<"processing", "failed">> }

RefundFlow ==
    [][ \A r \in Refunds :
            refundStatus'[r] # refundStatus[r]
                => <<refundStatus[r], refundStatus'[r]>> \in Workflow ]_vars
=============================================================================
