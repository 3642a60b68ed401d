---------------------------- MODULE InviterBonus ----------------------------
(***************************************************************************)
(* The bonus an inviter gets, once for every invitee who has paid enough    *)
(* (TryGrantInviterBonus).  The callback of a completed payment calls it,   *)
(* on the pod that received the callback: callbacks of one invitee, and of  *)
(* different invitees of one inviter, run at the same time.                 *)
(*                                                                         *)
(* Every statement before the transaction is an action of its own.  What    *)
(* the attribution, the payments and the month say is read before it; only  *)
(* the flag of the attribution is looked at again inside.                   *)
(***************************************************************************)
EXTENDS Integers, FiniteSets

CONSTANTS
    Invitees,        \* the users this inviter has invited
    Calls,           \* payment callbacks handled at one time
    UnlockPaid,      \* inviter_unlock_paid_rmb, in payments of one size
    Bonus,           \* inviter_bonus
    MonthlyCap,      \* inviter_monthly_cap
    MaxPaid,         \* bound: completed payments of one invitee
    CallFaults       \* whether statements fail and pods die

ASSUME InviterBonusAssumption ==
    /\ IsFiniteSet(Invitees) /\ IsFiniteSet(Calls)
    /\ UnlockPaid \in Nat \ {0} /\ Bonus \in Nat \ {0}
    /\ MonthlyCap \in Nat \ {0} /\ MaxPaid \in Nat
    /\ CallFaults \in BOOLEAN

Nobody == "nobody"

ASSUME NobodyIsNoInvitee == Nobody \notin Invitees

VARIABLES
    stage,              \* what a call does next
    who,             \* the invitee whose payment it follows
    paid,            \* completed payments of an invitee
    valid,           \* invitees whose attribution is valid
    granted,         \* invitees with inviter_bonus_granted
    month,           \* those whose inviter_bonus_at is in this month
    credit,          \* what the bonuses added to the balance of the inviter
    excused,         \* history: invitees refused by the cap, or whose call died,
                     \* since their last payment
    miscounted            \* history: some count failed and was taken for 0

bonusVars ==
    <<stage, who, paid, valid, granted, month, credit, excused, miscounted>>

attrVars == <<valid, granted, month, credit>>

CallStages == {"idle", "read", "sum", "count", "account", "grant"}

BonusTypeOK ==
    /\ stage \in [Calls -> CallStages]
    /\ who \in [Calls -> Invitees \union {Nobody}]
    /\ \A c \in Calls : stage[c] = "idle" <=> who[c] = Nobody
    /\ paid \in [Invitees -> 0 .. MaxPaid]
    /\ valid \subseteq Invitees
    /\ granted \subseteq Invitees /\ month \subseteq granted
    /\ credit \in Nat
    /\ excused \subseteq Invitees
    /\ miscounted \in BOOLEAN

BonusInit ==
    /\ stage = [c \in Calls |-> "idle"]
    /\ who = [c \in Calls |-> Nobody]
    /\ paid = [i \in Invitees |-> 0]
    /\ valid = Invitees
    /\ granted = {} /\ month = {}
    /\ credit = 0
    /\ excused = {}
    /\ miscounted = FALSE

-----------------------------------------------------------------------------
(* A callback.                                                              *)

Move(c, p) == stage' = [stage EXCEPT ![c] = p] /\ UNCHANGED who

Finish(c) ==
    stage' = [stage EXCEPT ![c] = "idle"] /\ who' = [who EXCEPT ![c] = Nobody]

\* The payment is completed and committed first.
Pay(c, i) ==
    /\ stage[c] = "idle" /\ paid[i] < MaxPaid
    /\ paid' = [paid EXCEPT ![i] = @ + 1]
    /\ stage' = [stage EXCEPT ![c] = "read"]
    /\ who' = [who EXCEPT ![c] = i]
    /\ excused' = excused \ {i}
    /\ UNCHANGED <<attrVars, miscounted>>

FindAttribution(c) ==
    /\ stage[c] = "read"
    /\ IF who[c] \in valid \ granted THEN Move(c, "sum") ELSE Finish(c)
    /\ UNCHANGED <<paid, attrVars, excused, miscounted>>

\* Mutant: the payment that reaches the threshold does not count.
SumPaidAbove(c) ==
    /\ stage[c] = "sum"
    /\ IF paid[who[c]] > UnlockPaid THEN Move(c, "count") ELSE Finish(c)
    /\ UNCHANGED <<paid, attrVars, excused, miscounted>>

SumPaid(c) ==
    /\ stage[c] = "sum"
    /\ IF paid[who[c]] >= UnlockPaid THEN Move(c, "count") ELSE Finish(c)
    /\ UNCHANGED <<paid, attrVars, excused, miscounted>>

\* Mutant: the month is full one bonus late.
CountMonthLate(c) ==
    /\ stage[c] = "count"
    /\ \/ /\ Cardinality(month) <= MonthlyCap
          /\ Move(c, "account")
          /\ UNCHANGED <<excused, miscounted>>
       \/ /\ Cardinality(month) > MonthlyCap
          /\ excused' = excused \union {who[c]}
          /\ Finish(c)
          /\ UNCHANGED miscounted
    /\ UNCHANGED <<paid, attrVars>>

\* The error of the count is not read: monthGranted stays 0.
CountMonth(c) ==
    /\ stage[c] = "count"
    /\ \/ /\ Cardinality(month) < MonthlyCap
          /\ Move(c, "account")
          /\ UNCHANGED <<excused, miscounted>>
       \/ /\ Cardinality(month) >= MonthlyCap
          /\ excused' = excused \union {who[c]}
          /\ Finish(c)
          /\ UNCHANGED miscounted
       \/ /\ CallFaults
          /\ miscounted' = TRUE
          /\ Move(c, "account")
          /\ UNCHANGED excused
    /\ UNCHANGED <<paid, attrVars>>

\* The inviter and its balance are read.
ReadAccount(c) ==
    /\ stage[c] = "account"
    /\ Move(c, "grant")
    /\ UNCHANGED <<paid, attrVars, excused, miscounted>>

\* Mutant: the number of updated rows is not looked at.
GrantAgain(c) ==
    /\ stage[c] = "grant"
    /\ granted' = granted \union {who[c]}
    /\ month' = month \union {who[c]}
    /\ credit' = credit + Bonus
    /\ Finish(c)
    /\ UNCHANGED <<paid, valid, excused, miscounted>>

\* The transaction: the update of the flag is guarded, and the balance and its
\* record follow when it found a row.
Grant(c) ==
    /\ stage[c] = "grant"
    /\ IF who[c] \in granted
       THEN UNCHANGED <<granted, month, credit>>
       ELSE /\ granted' = granted \union {who[c]}
            /\ month' = month \union {who[c]}
            /\ credit' = credit + Bonus
    /\ Finish(c)
    /\ UNCHANGED <<paid, valid, excused, miscounted>>

\* A statement fails, the transaction is rolled back, or the pod dies.
Die(c) ==
    /\ CallFaults
    /\ stage[c] # "idle"
    /\ excused' = excused \union {who[c]}
    /\ Finish(c)
    /\ UNCHANGED <<paid, attrVars, miscounted>>

Advance(c) ==
    \/ FindAttribution(c) \/ SumPaid(c) \/ CountMonth(c) \/ ReadAccount(c)
    \/ Grant(c)

-----------------------------------------------------------------------------
(* What happens beside the callbacks.                                       *)

\* An order that was refunded is no longer completed.
Refunded(i) ==
    /\ paid[i] > 0
    /\ paid' = [paid EXCEPT ![i] = @ - 1]
    /\ UNCHANGED <<stage, who, attrVars, excused, miscounted>>

\* A commission computed after expires_at (Commission!Expire).
Invalidate(i) ==
    /\ i \in valid
    /\ valid' = valid \ {i}
    /\ UNCHANGED <<stage, who, paid, granted, month, credit, excused,
                   miscounted>>

NewMonth ==
    /\ month # {}
    /\ month' = {}
    /\ UNCHANGED <<stage, who, paid, valid, granted, credit, excused,
                   miscounted>>

BonusNext ==
    \/ \E c \in Calls : Advance(c) \/ Die(c) \/ \E i \in Invitees : Pay(c, i)
    \/ \E i \in Invitees : Refunded(i) \/ Invalidate(i)
    \/ NewMonth

BonusSpec == BonusInit /\ [][BonusNext]_bonusVars

-----------------------------------------------------------------------------
(* What the properties say.                                                 *)

\* However many callbacks of an invitee pass the checks together, the inviter
\* gets one bonus for it, and one for every invitee whose flag is set
\* (attribution_bonus.go:188 and 196).
BonusOncePerInvitee == credit = Bonus * Cardinality(granted)

\* The month's bonuses pass the cap by no more than the callbacks that counted
\* before the others granted (attribution_bonus.go:150 and 157), as long as no
\* count failed.
MonthlyOvershoot ==
    ~miscounted => Cardinality(month) <= MonthlyCap + Cardinality(Calls) - 1

\* An invitee who has paid enough brings its bonus, in whatever order its
\* payments complete and their callbacks sum them (attribution_bonus.go:140):
\* when none of its callbacks runs any more, the bonus was granted, unless its
\* attribution has ended, the month was full or the last callback was lost.
PaidIsRewarded ==
    \A i \in valid \ (granted \union excused) :
        paid[i] >= UnlockPaid => \E c \in Calls : who[c] = i

=============================================================================
