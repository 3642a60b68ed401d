------------------------------ MODULE Payment -------------------------------
(***************************************************************************)
(* The orders of one user and the notifications that gateways send about   *)
(* them (PaymentService.HandleCallback and creditUserBalance).             *)
(*                                                                         *)
(* A gateway delivers a notification at least once, in any order, to any   *)
(* pod.  Each delivery is handled by a goroutine that reads the order,     *)
(* updates its status, and credits the user in a transaction of its own.   *)
(* That transaction asks for its lock with Set("gorm:query_option"), which *)
(* the GORM version of go.mod does not read: it reads the row without a    *)
(* lock and later saves all of it.                                         *)
(***************************************************************************)
EXTENDS Integers, FiniteSetsExt

CONSTANTS
    Payments,        \* the user's orders
    Price,           \* amount of an order, RMB
    CreditPerRMB,    \* 10 000 in the code
    Deliveries,      \* notifications handled at one time
    Crashes,         \* whether pods may die and single statements fail
    MaxRecharges     \* bound: no delivery for an order credited as often

ASSUME PaymentAssumption ==
    /\ IsFiniteSet(Payments)
    /\ Price \in [Payments -> Nat \ {0}]
    /\ CreditPerRMB \in Nat \ {0}
    /\ Crashes \in BOOLEAN
    /\ MaxRecharges \in Nat \ {0}

VARIABLES
    paid,            \* orders the user has paid at the gateway
    payStatus,       \* payments.status
    balance,         \* user_balances.balance
    recharges,       \* number of RECHARGE records of an order
    delivery         \* the notifications being handled

payVars == <<paid, payStatus, balance, recharges, delivery>>

RMBToCredits(n) == n * CreditPerRMB

PayStatus == {"pending", "completed", "failed", "partial_refunded", "refunded"}

NoDelivery == [at |-> "idle"]

Delivery ==
    {NoDelivery}
    \union [at : {"update"}, pay : Payments, outcome : {"completed", "failed"}]
    \union [at : {"credit"}, pay : Payments]
    \union [at : {"save"}, pay : Payments, read : Int]

PayTypeOK ==
    /\ paid \subseteq Payments
    /\ payStatus \in [Payments -> PayStatus]
    /\ balance \in Int
    /\ recharges \in [Payments -> Nat]
    /\ delivery \in [Deliveries -> Delivery]
    /\ \A d \in Deliveries :
        delivery[d].at \in {"credit", "save"} => delivery[d].pay \in paid

PayInit ==
    /\ paid = {}
    /\ payStatus = [p \in Payments |-> "pending"]
    /\ balance = 0
    /\ recharges = [p \in Payments |-> 0]
    /\ delivery = [d \in Deliveries |-> NoDelivery]

-----------------------------------------------------------------------------
\* The user pays at the gateway.
UserPays(p) ==
    /\ p \notin paid
    /\ paid' = paid \union {p}
    /\ UNCHANGED <<payStatus, balance, recharges, delivery>>

\* Mutation: a failed order is final as well.
TerminalOrFailed == {"completed", "refunded", "failed"}

\* Mutation: only a refunded order is final.
TerminalRefunded == {"refunded"}

\* The states in which a notification is skipped.
Terminal == {"completed", "refunded"}

\* A verified notification arrives, for the first time or again, late or not:
\* success only for a paid order, any other report becomes "failed".  The order
\* is read here.
Receive(d, p, outcome) ==
    /\ delivery[d] = NoDelivery
    /\ outcome = "completed" => p \in paid
    /\ payStatus[p] \notin Terminal
    /\ recharges[p] < MaxRecharges
    /\ delivery' = [delivery EXCEPT
                      ![d] = [at |-> "update", pay |-> p, outcome |-> outcome]]
    /\ UNCHANGED <<paid, payStatus, balance, recharges>>

\* Mutation: every verified notification completes the order.
UpdateAnyOutcome(d) ==
    /\ delivery[d].at = "update"
    /\ payStatus' = [payStatus EXCEPT ![delivery[d].pay] = "completed"]
    /\ delivery' = [delivery EXCEPT ![d] = [at |-> "credit", pay |-> @.pay]]
    /\ UNCHANGED <<paid, balance, recharges>>

\* UPDATE payments SET status ... WHERE id = ?, whatever it has become.
UpdateStatus(d) ==
    /\ delivery[d].at = "update"
    /\ payStatus' = [payStatus EXCEPT ![delivery[d].pay] = delivery[d].outcome]
    /\ delivery' = [delivery EXCEPT
                      ![d] = IF @.outcome = "completed"
                             THEN [at |-> "credit", pay |-> @.pay]
                             ELSE NoDelivery]
    /\ UNCHANGED <<paid, balance, recharges>>

\* creditUserBalance reads the row, in its transaction.
CreditRead(d) ==
    /\ delivery[d].at = "credit"
    /\ delivery' = [delivery EXCEPT
                      ![d] = [at |-> "save", pay |-> @.pay, read |-> balance]]
    /\ UNCHANGED <<paid, payStatus, balance, recharges>>

\* Mutation: the RECHARGE record is not written.
CreditUnrecorded(d) ==
    LET p == delivery[d].pay
    IN /\ delivery[d].at = "save"
       /\ balance' = delivery[d].read + RMBToCredits(Price[p])
       /\ delivery' = [delivery EXCEPT ![d] = NoDelivery]
       /\ UNCHANGED <<paid, payStatus, recharges>>

\* It saves the row it read with the credits added, and the RECHARGE record.
CreditSave(d) ==
    LET p == delivery[d].pay
    IN /\ delivery[d].at = "save"
       /\ balance' = delivery[d].read + RMBToCredits(Price[p])
       /\ recharges' = [recharges EXCEPT ![p] = @ + 1]
       /\ delivery' = [delivery EXCEPT ![d] = NoDelivery]
       /\ UNCHANGED <<paid, payStatus>>

\* The transaction is rolled back: the error is logged, the gateway gets its
\* acknowledgement.
CreditFails(d) ==
    /\ delivery[d].at \in {"credit", "save"}
    /\ delivery' = [delivery EXCEPT ![d] = NoDelivery]
    /\ UNCHANGED <<paid, payStatus, balance, recharges>>

\* The pod dies, or the UPDATE fails: the gateway sees no acknowledgement and
\* delivers again.
DeliveryDies(d) ==
    /\ Crashes
    /\ delivery[d] # NoDelivery
    /\ delivery' = [delivery EXCEPT ![d] = NoDelivery]
    /\ UNCHANGED <<paid, payStatus, balance, recharges>>

Handle(d) == UpdateStatus(d) \/ CreditRead(d) \/ CreditSave(d)

PayNext ==
    \/ \E p \in Payments : UserPays(p)
    \/ \E d \in Deliveries :
        \/ \E p \in Payments, outcome \in {"completed", "failed"} :
                Receive(d, p, outcome)
        \/ Handle(d)
        \/ CreditFails(d)
        \/ DeliveryDies(d)

PaySpec == PayInit /\ [][PayNext]_payVars

\* Goroutines run, the gateway repeats a success until it is acknowledged, and
\* pods do not die at every repetition.
PayFairness ==
    /\ \A d \in Deliveries : WF_payVars(Handle(d))
    /\ \A p \in Payments :
        /\ SF_payVars(\E d \in Deliveries : Receive(d, p, "completed"))
        /\ SF_payVars(\E d \in Deliveries :
                        UpdateStatus(d) /\ payStatus'[p] = "completed")

-----------------------------------------------------------------------------
(* Properties.                                                             *)

Recharged(p) == recharges[p] * RMBToCredits(Price[p])

\* Nothing is credited for an order that was not paid, whatever is delivered,
\* repeated, delayed or lost in between.
OnlyPaidCredited == \A p \in Payments : recharges[p] > 0 => p \in paid

\* The balance never holds more than the journal says: overlapping
\* notifications can lose credits, they never create them.
NothingInvented ==
    balance <= SumFunctionOnSet([p \in Payments |-> Recharged(p)], Payments)

\* A paid order is completed in the end, although failures and late reports of
\* other outcomes arrive before and after.
PaidIsCompleted ==
    \A p \in Payments : p \in paid ~> payStatus[p] \notin {"pending", "failed"}

-----------------------------------------------------------------------------
(* What the comments say and overlapping deliveries do not keep.           *)

\* "Idempotent: already completed is skipped": an order is credited once.
CreditedOnce == \A p \in Payments : recharges[p] <= 1
=============================================================================
