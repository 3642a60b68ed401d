--------------------------- MODULE BalanceLedger ---------------------------
(***************************************************************************)
(* One user's account as BalanceService keeps it: the user_balances row,   *)
(* the freeze_records of the user's requests, the Redis lock               *)
(* user:<id>:balance_lock, and everyone who works on them:                 *)
(*   - the chat requests, each a goroutine that freezes an estimate, calls *)
(*     the provider, then settles or releases (or deducts, when nothing    *)
(*     was frozen), and that may die or lose its context at any step;      *)
(*   - the hourly cron task that releases freezes older than five minutes; *)
(*   - recharges, administrator adjustments, the lazy expiry of the free   *)
(*     quota, and the services that write the credit columns directly:     *)
(*     commissions, withdrawals, refunds, and payments, which save a row   *)
(*     they have read without a lock.                                      *)
(*                                                                         *)
(* A database transaction that begins with SELECT ... FOR UPDATE, and a    *)
(* single UPDATE, is one action; reads outside it, Redis calls and the     *)
(* steps after the commit are actions of their own.  Rows of other users   *)
(* share nothing with this one, so one account stands for all.             *)
(***************************************************************************)
EXTENDS UnitLedger, FiniteSetsExt

CONSTANTS
    Requests,          \* the chat requests of the user
    Nobody,            \* the value of the lock key when it is absent
    Gifts,             \* free quota at registration, credits
    Recharges,         \* amounts of a recharge, units
    Adjustments,       \* amounts of an administrator adjustment, credits
    Grants,            \* amounts other services add to Balance, credits
    Purchases,         \* amounts of a paid order, credits
    Payouts,           \* amounts a withdrawal or a refund takes, credits
    Estimates,         \* estimated costs of a request, units
    Costs,             \* actual costs of a request, credits
    UnlockThreshold,   \* MinPaidCreditsUnlock of the referral config
    InviteeBonus,      \* QuotaConfig.InviteeBonus, credits
    InviteeUnlock,     \* QuotaConfig.InviteeUnlockCredits
    MaxUnits,          \* bound: no deposit takes a column above it
    MaxPurges,         \* bound: expiry goroutines in flight
    MaxRefunds         \* bound: refunds taken from the balance

ASSUME LedgerAssumption ==
    /\ IsFiniteSet(Requests)
    /\ Nobody \notin Requests
    /\ Gifts \subseteq Nat
    /\ Recharges \subseteq Nat \ {0}
    /\ Adjustments \subseteq Int \ {0}
    /\ Grants \subseteq Nat \ {0}
    /\ Purchases \subseteq Nat \ {0}
    /\ Payouts \subseteq Nat \ {0}
    /\ Estimates \subseteq Nat \ {0}
    /\ Costs \subseteq Nat
    /\ UnlockThreshold \in Nat
    /\ InviteeBonus \in Nat \ {0}
    /\ InviteeUnlock \in Nat
    /\ MaxUnits \in Nat
    /\ MaxPurges \in Nat
    /\ MaxRefunds \in Nat

VARIABLES
    units, credits,    \* the two ledgers of the user_balances row
    status, held,      \* freeze_records: Status and FrozenUnits of a request
    lock,              \* value of the Redis lock key: its holder's token
    lease,             \* what became of the lock a request acquired
    pc,                \* where each request's goroutine stands
    aged,              \* freezes created more than five minutes ago
    batch,             \* expired freezes the cron task has read
    unlocked,          \* referral_attributions.unlocked_at is set
    bonusGranted,      \* referral_attributions.invitee_bonus_granted
    bonusRecords,      \* number of INVITEE_BONUS balance_records
    quotaExpired,      \* FreeQuotaExpiredAt has passed
    purges,            \* expiry goroutines started and not yet run
    reads,             \* rows read by payments that have not saved them
    overwritten,       \* a payment has saved over what others wrote (history)
    refunds            \* refunds taken from the balance (history)

row     == <<units, credits>>
freezes == <<status, held>>
redis   == <<lock, lease>>
cron    == <<aged, batch>>
invitee == <<unlocked, bonusGranted, bonusRecords>>
expiry  == <<quotaExpired, purges>>
orders  == <<reads, overwritten, refunds>>
vars    == <<row, freezes, redis, pc, cron, invitee, expiry, orders>>

PC == {"start", "freeze", "unlockServe", "serving", "settleLock", "settle",
       "releaseLock", "release", "attr", "grant", "unlockDone", "done"}

TypeOK ==
    /\ units \in Ledger
    /\ credits \in Ledger
    /\ status \in [Requests -> {"none", "FROZEN", "SETTLED", "RELEASED"}]
    /\ held \in [Requests -> Nat]
    /\ lock \in Requests \union {Nobody}
    /\ lease \in [Requests -> {"none", "held", "lapsed"}]
    /\ pc \in [Requests -> PC]
    /\ aged \subseteq Requests
    /\ batch \subseteq Requests
    /\ unlocked \in BOOLEAN
    /\ bonusGranted \in BOOLEAN
    /\ bonusRecords \in Nat
    /\ quotaExpired \in BOOLEAN
    /\ purges \in Nat
    /\ reads \subseteq [units : Ledger, credits : Ledger, amount : Purchases]
    /\ overwritten \in BOOLEAN
    /\ refunds \in Nat
    /\ \A r \in Requests : status[r] = "none" <=> held[r] = 0

-----------------------------------------------------------------------------
(* The row.                                                                *)

\* The unit ledger every unit operation starts from.
Hydrated == hydrateBalanceUnits(units, credits)

\* Save after a unit operation: the unit ledger u, and the credits it implies.
SaveUnits(u) ==
    /\ units' = u
    /\ credits' = syncBalanceCreditFields(u)

\* Mutation: a credit operation derives the unit columns from its result.
SaveBothFromCredits(c) ==
    /\ credits' = c
    /\ units' = [x \in Field |-> CreditsToBillingUnits(c[x])]

\* Save after a credit operation: the unit columns keep what was read.
SaveCredits(c) ==
    /\ credits' = c
    /\ UNCHANGED units

FrozenRecords == {r \in Requests : status[r] = "FROZEN"}

Init ==
    \E gift \in Gifts :
        /\ units = [EmptyLedger EXCEPT !["free"] = CreditsToBillingUnits(gift)]
        /\ credits = [EmptyLedger EXCEPT !["free"] = gift]
        /\ status = [r \in Requests |-> "none"]
        /\ held = [r \in Requests |-> 0]
        /\ lock = Nobody
        /\ lease = [r \in Requests |-> "none"]
        /\ pc = [r \in Requests |-> "start"]
        /\ aged = {}
        /\ batch = {}
        /\ unlocked = FALSE
        /\ bonusGranted = FALSE
        /\ bonusRecords = 0
        /\ quotaExpired = FALSE
        /\ purges = 0
        /\ reads = {}
        /\ overwritten = FALSE
        /\ refunds = 0

Goto(r, label) == pc' = [pc EXCEPT ![r] = label]

-----------------------------------------------------------------------------
(* The Redis lock: SET NX with a TTL, compare-and-delete.                  *)

\* pkgredis.Lock succeeds; an attempt on a held key fails at once.
Lock(r) ==
    /\ lock = Nobody
    /\ lock' = r
    /\ lease' = [lease EXCEPT ![r] = "held"]

\* The TTL runs out, whatever the holder is doing.
LockExpires ==
    /\ lock # Nobody
    /\ lock' = Nobody
    /\ lease' = [lease EXCEPT ![lock] = IF @ = "held" THEN "lapsed" ELSE @]
    /\ UNCHANGED <<row, freezes, pc, cron, invitee, expiry, orders>>

\* Mutation: a plain DEL, whoever holds the key.
UnlockAnyToken(r) ==
    /\ pc[r] \in {"unlockServe", "unlockDone"}
    /\ lock' = Nobody
    /\ lease' = [lease EXCEPT ![r] = "none"]
    /\ Goto(r, IF pc[r] = "unlockServe" THEN "serving" ELSE "done")
    /\ UNCHANGED <<row, freezes, cron, invitee, expiry, orders>>

\* The deferred Unlock of a freeze that succeeded (the request goes on) or of
\* any other operation (the request is over).
Unlock(r) ==
    /\ pc[r] \in {"unlockServe", "unlockDone"}
    /\ lock' = IF lock = r THEN Nobody ELSE lock
    /\ lease' = [lease EXCEPT ![r] = "none"]
    /\ Goto(r, IF pc[r] = "unlockServe" THEN "serving" ELSE "done")
    /\ UNCHANGED <<row, freezes, cron, invitee, expiry, orders>>

\* A request that holds a lock leaves through Unlock.
Leave(r) == Goto(r, IF lease[r] = "none" THEN "done" ELSE "unlockDone")

-----------------------------------------------------------------------------
(* Beginning a request: Completions, FreezeBalanceUnits.                   *)

\* CheckQuota refuses, or the estimate cannot be frozen because another
\* request of the user holds the lock.
Refuse(r) ==
    /\ pc[r] = "start"
    /\ Available(Hydrated) <= 0 \/ lock # Nobody
    /\ Goto(r, "done")
    /\ UNCHANGED <<row, freezes, redis, cron, invitee, expiry, orders>>

\* The estimate is zero: nothing is frozen.
BeginUnfrozen(r) ==
    /\ pc[r] = "start"
    /\ Available(Hydrated) > 0
    /\ Goto(r, "serving")
    /\ UNCHANGED <<row, freezes, redis, cron, invitee, expiry, orders>>

FreezeLock(r) ==
    /\ pc[r] = "start"
    /\ Available(Hydrated) > 0
    /\ Lock(r)
    /\ Goto(r, "freeze")
    /\ UNCHANGED <<row, freezes, cron, invitee, expiry, orders>>

\* The freeze transaction: the estimate is available, or nothing changes.
FreezeTx(r, est) ==
    /\ pc[r] = "freeze"
    /\ IF Available(Hydrated) >= est
       THEN /\ SaveUnits([Hydrated EXCEPT !["frozen"] = @ + est])
            /\ status' = [status EXCEPT ![r] = "FROZEN"]
            /\ held' = [held EXCEPT ![r] = est]
            /\ Goto(r, "unlockServe")
       ELSE Goto(r, "unlockDone") /\ UNCHANGED <<row, freezes>>
    /\ UNCHANGED <<redis, cron, invitee, expiry, orders>>

\* A transaction of the request is rolled back by a database error.
TxFails(r) ==
    /\ pc[r] \in {"freeze", "settle", "release"}
    /\ Goto(r, "unlockDone")
    /\ UNCHANGED <<row, freezes, redis, cron, invitee, expiry, orders>>

\* The pod dies, or the client goes away and every call on the request's
\* context fails: the lock, if any, waits for its TTL.
Abandon(r) ==
    /\ pc[r] \notin {"start", "done"}
    /\ Goto(r, "done")
    /\ lease' = [lease EXCEPT ![r] = "none"]
    /\ UNCHANGED <<row, freezes, lock, cron, invitee, expiry, orders>>

-----------------------------------------------------------------------------
(* Ending a request: SettleBalance, ReleaseFrozen, DeductUnits.            *)

\* SettleBalance and ReleaseFrozen first read the freeze record, outside any
\* lock; a record that is not FROZEN ends the call.
ReadFreeze(r) ==
    /\ pc[r] = "serving"
    /\ held[r] > 0
    /\ IF status[r] = "FROZEN"
       THEN \E label \in {"settleLock", "releaseLock"} : Goto(r, label)
       ELSE Goto(r, "done")
    /\ UNCHANGED <<row, freezes, redis, cron, invitee, expiry, orders>>

\* Then they lock; the caller drops the error of a failed attempt.
CloseLock(r) ==
    /\ pc[r] \in {"settleLock", "releaseLock"}
    /\ \/ /\ Lock(r)
          /\ Goto(r, IF pc[r] = "settleLock" THEN "settle" ELSE "release")
       \/ /\ lock # Nobody
          /\ Goto(r, "done")
          /\ UNCHANGED redis
    /\ UNCHANGED <<row, freezes, cron, invitee, expiry, orders>>

Unfrozen(c, r) ==
    [c EXCEPT !["frozen"] = NotBelowZero(@ - BillingUnitsToCredits(held[r]))]

\* What a settled charge leaves: a balance it has to draw on is taken to zero
\* at most.
Charged(c, cost) ==
    LET spent == SpendFreeFirst(c, cost)
    IN IF PaidByFreeQuota(c, cost) = cost THEN spent
       ELSE [spent EXCEPT !["balance"] = NotBelowZero(@)]

\* The transaction of SettleBalance, on the credit columns only; the status
\* is overwritten whatever it has become.
SettleTx(r, cost) ==
    /\ pc[r] = "settle"
    /\ SaveCredits(Charged(Unfrozen(credits, r), cost))
    /\ status' = [status EXCEPT ![r] = "SETTLED"]
    /\ Goto(r, IF cost > 0 THEN "attr" ELSE "unlockDone")
    /\ UNCHANGED <<held, redis, cron, invitee, expiry, orders>>

ReleaseTx(r) ==
    /\ pc[r] = "release"
    /\ SaveCredits(Unfrozen(credits, r))
    /\ status' = [status EXCEPT ![r] = "RELEASED"]
    /\ Goto(r, "unlockDone")
    /\ UNCHANGED <<held, redis, cron, invitee, expiry, orders>>

\* The provider failed and nothing was frozen, or the answer costs nothing.
EndUnfrozen(r) ==
    /\ pc[r] = "serving"
    /\ held[r] = 0
    /\ Goto(r, "done")
    /\ UNCHANGED <<row, freezes, redis, cron, invitee, expiry, orders>>

\* Mutation: the deduction does not subtract what others have frozen.
DeductUnreserved(r, cost) ==
    /\ pc[r] = "serving"
    /\ held[r] = 0
    /\ cost > 0
    /\ LET amt == CreditsToBillingUnits(cost)
       IN IF Hydrated["balance"] + Hydrated["free"] >= amt
          THEN SaveUnits(SpendFreeFirst(Hydrated, amt)) /\ Goto(r, "attr")
          ELSE Goto(r, "done") /\ UNCHANGED row
    /\ UNCHANGED <<freezes, redis, cron, invitee, expiry, orders>>

\* DeductForRequest: the fallback when nothing was frozen.
Deduct(r, cost) ==
    /\ pc[r] = "serving"
    /\ held[r] = 0
    /\ cost > 0
    /\ LET amt == CreditsToBillingUnits(cost)
       IN IF Available(Hydrated) >= amt
          THEN SaveUnits(SpendFreeFirst(Hydrated, amt)) /\ Goto(r, "attr")
          ELSE Goto(r, "done") /\ UNCHANGED row
    /\ UNCHANGED <<freezes, redis, cron, invitee, expiry, orders>>

-----------------------------------------------------------------------------
(* After a charge: TryUnlockAttribution, TryGrantInviteeBonus.             *)

\* Unlocks the attribution when enough has been consumed, then reads whether
\* the invitee's bonus is due.
AfterCharge(r) ==
    /\ pc[r] = "attr"
    /\ unlocked' = (unlocked \/ credits["consumed"] >= UnlockThreshold)
    /\ IF ~bonusGranted /\ credits["consumed"] >= InviteeUnlock
       THEN Goto(r, "grant")
       ELSE Leave(r)
    /\ UNCHANGED <<row, freezes, redis, cron, bonusGranted, bonusRecords, expiry, orders>>

\* Mutation: the transaction relies on the check made before it.
GrantUnmarked(r) ==
    /\ pc[r] = "grant"
    /\ bonusGranted' = TRUE
    /\ SaveCredits([credits EXCEPT !["free"] = @ + InviteeBonus])
    /\ bonusRecords' = bonusRecords + 1
    /\ Leave(r)
    /\ UNCHANGED <<freezes, redis, cron, unlocked, expiry, orders>>

\* The transaction of TryGrantInviteeBonus: it marks the attribution only if
\* nobody has, and then credits the free quota.
GrantInviteeBonus(r) ==
    /\ pc[r] = "grant"
    /\ IF bonusGranted
       THEN UNCHANGED <<row, bonusGranted, bonusRecords>>
       ELSE /\ bonusGranted' = TRUE
            /\ SaveCredits([credits EXCEPT !["free"] = @ + InviteeBonus])
            /\ bonusRecords' = bonusRecords + 1
    /\ Leave(r)
    /\ UNCHANGED <<freezes, redis, cron, unlocked, expiry, orders>>

-----------------------------------------------------------------------------
(* The cron task releaseFrozenRecords.                                     *)

\* Five minutes pass since the freeze was created.
FreezeAges(r) ==
    /\ status[r] = "FROZEN"
    /\ r \notin aged
    /\ aged' = aged \union {r}
    /\ UNCHANGED <<row, freezes, redis, pc, batch, invitee, expiry, orders>>

CronScan ==
    /\ batch = {}
    /\ aged \intersect FrozenRecords # {}
    /\ batch' = aged \intersect FrozenRecords
    /\ UNCHANGED <<row, freezes, redis, pc, aged, invitee, expiry, orders>>

\* Mutation: the status update of the record is missing.
CronReleaseKeepsStatus(r) ==
    /\ r \in batch
    /\ batch' = batch \ {r}
    /\ SaveCredits(Unfrozen(credits, r))
    /\ UNCHANGED <<freezes, redis, pc, aged, invitee, expiry, orders>>

\* One record of the batch, in its own transaction, without the Redis lock
\* and without looking at the status again.
CronRelease(r) ==
    /\ r \in batch
    /\ batch' = batch \ {r}
    /\ SaveCredits(Unfrozen(credits, r))
    /\ status' = [status EXCEPT ![r] = "RELEASED"]
    /\ UNCHANGED <<held, redis, pc, aged, invitee, expiry, orders>>

\* A database error: the record waits for the next hour.
CronSkip(r) ==
    /\ r \in batch
    /\ batch' = batch \ {r}
    /\ UNCHANGED <<row, freezes, redis, pc, aged, invitee, expiry, orders>>

-----------------------------------------------------------------------------
(* The other writers of the row.                                           *)

\* RechargeUnits.
Recharge(amt) ==
    /\ Hydrated["balance"] + amt <= MaxUnits
    /\ Hydrated["recharged"] + amt <= MaxUnits
    /\ SaveUnits([Hydrated EXCEPT !["balance"] = @ + amt,
                                  !["recharged"] = @ + amt])
    /\ UNCHANGED <<freezes, redis, pc, cron, invitee, expiry, orders>>

AdminAdjust(amt) ==
    /\ Hydrated["balance"] + CreditsToBillingUnits(amt) <= MaxUnits
    /\ SaveUnits([Hydrated EXCEPT
                    !["balance"] = NotBelowZero(@ + CreditsToBillingUnits(amt))])
    /\ UNCHANGED <<freezes, redis, pc, cron, invitee, expiry, orders>>

\* The services that add credits past the unit ledger (the inviter bonus, the
\* return of a refused withdrawal, the settled commission): one UPDATE of the
\* credit column.
CreditBalance(amt) ==
    /\ CreditsToBillingUnits(credits["balance"] + amt) <= MaxUnits
    /\ SaveCredits([credits EXCEPT !["balance"] = @ + amt])
    /\ UNCHANGED <<freezes, redis, pc, cron, invitee, expiry, orders>>

\* CreateWithdrawal: UPDATE ... WHERE balance >= amount.
WithdrawBalance(amt) ==
    /\ credits["balance"] >= amt
    /\ SaveCredits([credits EXCEPT !["balance"] = @ - amt])
    /\ UNCHANGED <<freezes, redis, pc, cron, invitee, expiry, orders>>

\* The transaction of executeRefundAsync, which lets the balance go below zero.
RefundBalance(amt) ==
    /\ refunds < MaxRefunds
    /\ refunds' = refunds + 1
    /\ SaveCredits([credits EXCEPT !["balance"] = @ - amt])
    /\ UNCHANGED <<freezes, redis, pc, cron, invitee, expiry, reads, overwritten>>

\* creditUserBalance reads the row, without a lock (bound: one at a time).
PaymentReads(amt) ==
    /\ reads = {}
    /\ reads' = {[units |-> units, credits |-> credits, amount |-> amt]}
    /\ UNCHANGED <<row, freezes, redis, pc, cron, invitee, expiry, overwritten,
                   refunds>>

\* It saves all of the row it read, with its credits added.
PaymentSaves(read) ==
    /\ read \in reads
    /\ CreditsToBillingUnits(read.credits["balance"] + read.amount) <= MaxUnits
    /\ CreditsToBillingUnits(read.credits["recharged"] + read.amount) <= MaxUnits
    /\ units' = read.units
    /\ credits' = [read.credits EXCEPT !["balance"] = @ + read.amount,
                                       !["recharged"] = @ + read.amount]
    /\ overwritten' = (overwritten \/ row # <<read.units, read.credits>>)
    /\ reads' = reads \ {read}
    /\ UNCHANGED <<freezes, redis, pc, cron, invitee, expiry, refunds>>

\* Its transaction is rolled back.
PaymentFails(read) ==
    /\ read \in reads
    /\ reads' = reads \ {read}
    /\ UNCHANGED <<row, freezes, redis, pc, cron, invitee, expiry, overwritten,
                   refunds>>

QuotaExpires ==
    /\ ~quotaExpired
    /\ quotaExpired' = TRUE
    /\ UNCHANGED <<row, freezes, redis, pc, cron, invitee, purges, orders>>

\* GetBalance finds the free quota expired and starts a goroutine to clear it.
ReadExpiredQuota ==
    /\ quotaExpired
    /\ Hydrated["free"] > 0
    /\ purges < MaxPurges
    /\ purges' = purges + 1
    /\ UNCHANGED <<row, freezes, redis, pc, cron, invitee, quotaExpired, orders>>

\* That goroutine's UPDATE: the free quota is cleared in both ledgers,
\* whatever it has become.
PurgeFreeQuota ==
    /\ purges > 0
    /\ purges' = purges - 1
    /\ units' = [units EXCEPT !["free"] = 0]
    /\ credits' = [credits EXCEPT !["free"] = 0]
    /\ UNCHANGED <<freezes, redis, pc, cron, invitee, quotaExpired, orders>>

-----------------------------------------------------------------------------
RequestStep(r) ==
    \/ Refuse(r)
    \/ BeginUnfrozen(r)
    \/ FreezeLock(r)
    \/ \E est \in Estimates : FreezeTx(r, est)
    \/ TxFails(r)
    \/ Unlock(r)
    \/ ReadFreeze(r)
    \/ CloseLock(r)
    \/ \E cost \in Costs : SettleTx(r, cost)
    \/ ReleaseTx(r)
    \/ EndUnfrozen(r)
    \/ \E cost \in Costs : Deduct(r, cost)
    \/ AfterCharge(r)
    \/ GrantInviteeBonus(r)

CronStep ==
    \/ CronScan
    \/ \E r \in Requests : CronRelease(r) \/ CronSkip(r)

AccountStep ==
    \/ \E amt \in Recharges : Recharge(amt)
    \/ \E amt \in Adjustments : AdminAdjust(amt)
    \/ \E amt \in Grants : CreditBalance(amt)
    \/ \E amt \in Payouts : WithdrawBalance(amt) \/ RefundBalance(amt)
    \/ \E amt \in Purchases : PaymentReads(amt)
    \/ \E read \in reads : PaymentSaves(read) \/ PaymentFails(read)
    \/ ReadExpiredQuota
    \/ PurgeFreeQuota

Next ==
    \/ \E r \in Requests : RequestStep(r) \/ Abandon(r) \/ FreezeAges(r)
    \/ CronStep
    \/ AccountStep
    \/ QuotaExpires
    \/ LockExpires

Spec == Init /\ [][Next]_vars

\* Time passes and the hourly task runs; a record that its transactions keep
\* retrying is not refused by the database forever.
Fairness ==
    /\ \A r \in Requests : WF_vars(FreezeAges(r)) /\ SF_vars(CronRelease(r))
    /\ WF_vars(CronScan)

FairSpec == Spec /\ Fairness

-----------------------------------------------------------------------------
(* Properties.                                                             *)

\* No column of either ledger ever goes below zero, whatever the order of
\* charges, adjustments and expiries, and however old a row is that a payment
\* saves; only a refund takes the credit balance below zero.  DeductUnits only
\* checks the available sum, so this rests on the frozen column never being
\* negative.
NoOverdraft ==
    \A x \in Field :
        /\ units[x] >= 0
        /\ credits[x] >= 0 \/ (x = "balance" /\ refunds > 0)

\* A request that holds a lock whose TTL has not run out owns the lock key:
\* no other request's Unlock, crash or acquisition can take it away.
LeaseExcludes == \A r \in Requests : lease[r] = "held" => lock = r

\* Every open hold is reserved in full in the unit ledger, whatever settles,
\* releases, adjusts or expires around it, until a payment saves over a freeze.
HoldsReserved ==
    overwritten \/ SumFunctionOnSet(held, FrozenRecords) <= units["frozen"]

\* The invitee's bonus is paid once, however many requests of the invitee
\* pass the threshold together.
BonusPaidOnce == bonusRecords = IF bonusGranted THEN 1 ELSE 0

\* A charge that checks for funds never spends what is reserved: a freeze or
\* a deduction leaves the hydrated ledger with nothing less than zero available.
SpendKeepsHolds ==
    [][ (\E r \in Requests :
            \/ status[r] # "FROZEN" /\ status'[r] = "FROZEN"
            \/ pc[r] = "serving" /\ pc'[r] = "attr")
        => Available(Hydrated') >= 0 ]_vars

\* What an account owns and has spent is what it was given: no unit operation
\* creates or destroys units, except the adjustments made to do so.
Wealth(u) == u["balance"] + u["free"] + u["consumed"] - u["recharged"]

UnitsConserved ==
    [][ (units' # units /\ ~ \E amt \in Adjustments : AdminAdjust(amt))
        => \/ Wealth(units') = Wealth(Hydrated)
           \/ purges' < purges
           \/ overwritten' ]_vars

\* Every hold is closed in the end, even when its request died, because the
\* cron task comes back to it.
HoldsClosed ==
    \A r \in Requests : status[r] = "FROZEN" ~> status[r] # "FROZEN"

=============================================================================
