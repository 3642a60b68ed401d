------------------------ MODULE BalanceLedgerProofs ------------------------
(***************************************************************************)
(* Theorems about the account of BalanceLedger, for every set of requests, *)
(* every exchange rate between the two ledgers and every amount.           *)
(***************************************************************************)
EXTENDS BalanceLedger, SumTheorems

-----------------------------------------------------------------------------
(* The arithmetic of UnitLedger.                                           *)

\* Non-negative in both ledgers' sense: the range the row stays in.
NatLedger == [Field -> Nat]

\* The conversions keep amounts non-negative, so a hydrated or synchronised
\* ledger is one.
LEMMA UnitsOfCredits ==
    ASSUME NEW c \in Nat
    PROVE  CreditsToBillingUnits(c) \in Nat
BY UnitsAssumption DEF CreditsToBillingUnits

LEMMA CreditsOfUnits ==
    ASSUME NEW u \in Nat
    PROVE  BillingUnitsToCredits(u) \in Nat
<1> DEFINE K == BillingUnitsPerCredit
<1>1. K \in Nat \ {0}
  BY UnitsAssumption
<1>2. 2 * u + K \in Nat /\ 2 * K \in Nat /\ 2 * K > 0
  BY <1>1
<1>3. ASSUME NEW a \in Nat, NEW b \in Nat, b > 0
      PROVE  a \div b \in Nat
  BY <1>3
<1>4. (2 * u + K) \div (2 * K) \in Nat
  <2> HIDE DEF K
  <2> QED BY <1>2, <1>3
<1> QED
  BY <1>4 DEF BillingUnitsToCredits

LEMMA HydratedNat ==
    ASSUME NEW u \in NatLedger, NEW c \in Ledger
    PROVE  hydrateBalanceUnits(u, c) \in NatLedger
BY UnitsOfCredits DEF hydrateBalanceUnits, NatLedger, Ledger

LEMMA SyncedNat ==
    ASSUME NEW u \in NatLedger
    PROVE  syncBalanceCreditFields(u) \in NatLedger
BY CreditsOfUnits DEF syncBalanceCreditFields, NatLedger

\* What the free quota pays is part of the free quota and of the amount.
LEMMA PaidBounds ==
    ASSUME NEW l \in NatLedger, NEW amt \in Nat
    PROVE  /\ PaidByFreeQuota(l, amt) \in Nat
           /\ PaidByFreeQuota(l, amt) <= l["free"]
           /\ PaidByFreeQuota(l, amt) <= amt
           /\ l["free"] < amt => PaidByFreeQuota(l, amt) = l["free"]
           /\ l["free"] >= amt => PaidByFreeQuota(l, amt) = amt
BY DEF PaidByFreeQuota, NatLedger, Field

\* Spending an available amount overdraws no column.
LEMMA SpendNat ==
    ASSUME NEW l \in NatLedger, NEW amt \in Nat, Available(l) >= amt
    PROVE  /\ SpendFreeFirst(l, amt) \in NatLedger
           /\ Available(SpendFreeFirst(l, amt)) = Available(l) - amt
           /\ Wealth(SpendFreeFirst(l, amt)) = Wealth(l)
<1> DEFINE p == PaidByFreeQuota(l, amt)
           s == SpendFreeFirst(l, amt)
<1>1. /\ p \in Nat
      /\ p <= l["free"]
      /\ p <= amt
      /\ l["free"] < amt => p = l["free"]
      /\ l["free"] >= amt => p = amt
  BY PaidBounds
<1>2. /\ l["balance"] \in Nat /\ l["free"] \in Nat /\ l["frozen"] \in Nat
      /\ l["consumed"] \in Nat /\ l["recharged"] \in Nat
  BY DEF NatLedger, Field
<1>3. /\ s["free"] = l["free"] - p
      /\ s["balance"] = l["balance"] - (amt - p)
      /\ s["consumed"] = l["consumed"] + amt
      /\ s["frozen"] = l["frozen"]
      /\ s["recharged"] = l["recharged"]
      /\ s = [x \in Field |-> s[x]]
  BY DEF SpendFreeFirst, NatLedger, Field
<1>4. l["balance"] - (amt - p) \in Nat
  BY <1>1, <1>2 DEF Available
<1>5. \A x \in Field : s[x] \in Nat
  <2> HIDE DEF p, s
  <2> QED BY <1>1, <1>2, <1>3, <1>4 DEF Field
<1>6. s \in NatLedger
  BY <1>3, <1>5 DEF NatLedger
<1>7. Available(s) = Available(l) - amt /\ Wealth(s) = Wealth(l)
  <2> HIDE DEF p, s
  <2> QED BY <1>1, <1>2, <1>3 DEF Available, Wealth
<1> QED
  BY <1>6, <1>7

-----------------------------------------------------------------------------
(* The row: type correctness and NoOverdraft, which need each other.       *)

\* A credit ledger that only a refund may have taken below zero, and only in
\* its balance.
GoodCredits(c) ==
    /\ c \in Ledger
    /\ \A x \in Field : x # "balance" => c[x] >= 0
    /\ c["balance"] >= 0 \/ refunds > 0

\* The row, and every row that a payment may still save.
RowNat ==
    /\ units \in NatLedger
    /\ GoodCredits(credits)
    /\ \A read \in reads : read.units \in NatLedger /\ GoodCredits(read.credits)

\* The Boolean flags, which Zenon handles and the SMT solver does not.
FlagsOK == /\ unlocked \in BOOLEAN
           /\ bonusGranted \in BOOLEAN
           /\ quotaExpired \in BOOLEAN
           /\ overwritten \in BOOLEAN

\* The rest of TypeOK.
RestOK ==
    /\ status \in [Requests -> {"none", "FROZEN", "SETTLED", "RELEASED"}]
    /\ held \in [Requests -> Nat]
    /\ lock \in Requests \union {Nobody}
    /\ lease \in [Requests -> {"none", "held", "lapsed"}]
    /\ pc \in [Requests -> PC]
    /\ aged \subseteq Requests
    /\ batch \subseteq Requests
    /\ bonusRecords \in Nat
    /\ purges \in Nat
    /\ reads \subseteq [units : Ledger, credits : Ledger, amount : Purchases]
    /\ refunds \in Nat
    /\ \A r \in Requests : status[r] = "none" <=> held[r] = 0

\* A request past its freeze has a freeze record only if it froze something;
\* what ReadFreeze sends on to settle or release has one.
Closing == {"settleLock", "settle", "releaseLock", "release"}

ClosesARecord ==
    \A r \in Requests :
        /\ pc[r] \in Closing => status[r] # "none"
        /\ r \in aged => status[r] # "none"
        /\ r \in batch => status[r] # "none"

AccountInv == RowNat /\ FlagsOK /\ RestOK /\ ClosesARecord

LEMMA RowHydrated == RowNat => Hydrated \in NatLedger
BY HydratedNat DEF RowNat, GoodCredits, Hydrated

LEMMA SaveUnitsNat ==
    ASSUME RowNat, NEW u \in NatLedger, SaveUnits(u), UNCHANGED orders
    PROVE  RowNat'
<1>1. credits' \in NatLedger /\ units' \in NatLedger
  BY SyncedNat DEF SaveUnits
<1>2. GoodCredits(credits)'
  BY <1>1 DEF GoodCredits, NatLedger, Ledger, Field
<1> QED
  BY <1>1, <1>2 DEF RowNat, orders, GoodCredits

LEMMA SaveCreditsNat ==
    ASSUME RowNat, NEW c, GoodCredits(c), SaveCredits(c), UNCHANGED orders
    PROVE  RowNat'
BY DEF SaveCredits, RowNat, orders, GoodCredits

LEMMA UnfrozenNat ==
    ASSUME RowNat, RestOK, NEW r \in Requests
    PROVE  GoodCredits(Unfrozen(credits, r))
<1>1. BillingUnitsToCredits(held[r]) \in Nat
  BY CreditsOfUnits DEF RestOK
<1>2. /\ credits["frozen"] \in Int
      /\ credits \in [Field -> Int]
      /\ "frozen" \in Field
  BY DEF RowNat, GoodCredits, Ledger, Field
<1>3. NotBelowZero(credits["frozen"] - BillingUnitsToCredits(held[r])) \in Nat
  BY <1>1, <1>2 DEF NotBelowZero
<1> QED
  BY <1>2, <1>3 DEF Unfrozen, RowNat, GoodCredits, Ledger

\* Settling spends from the credit columns with a floor under the balance it
\* draws on.
LEMMA SettledNat ==
    ASSUME NEW l, GoodCredits(l), NEW amt \in Nat
    PROVE  GoodCredits(Charged(l, amt))
<1> DEFINE p == PaidByFreeQuota(l, amt)
           s == SpendFreeFirst(l, amt)
<1>2. /\ l \in [Field -> Int]
      /\ "free" \in Field /\ "balance" \in Field /\ "consumed" \in Field
      /\ l["free"] \in Nat /\ l["balance"] \in Int /\ l["consumed"] \in Nat
  BY DEF GoodCredits, Ledger, Field
<1>1. p \in Nat /\ p <= l["free"] /\ p <= amt
  BY <1>2 DEF PaidByFreeQuota
<1>3. /\ s = [l EXCEPT !["free"] = @ - p, !["balance"] = @ - (amt - p),
                       !["consumed"] = @ + amt]
  BY DEF SpendFreeFirst
<1>4. Charged(l, amt) = IF p = amt THEN s
                        ELSE [s EXCEPT !["balance"] = NotBelowZero(@)]
  BY DEF Charged
<1> HIDE DEF p, s
<1>5. /\ s \in [Field -> Int]
      /\ s["free"] = l["free"] - p
      /\ s["balance"] = l["balance"] - (amt - p)
      /\ s["consumed"] = l["consumed"] + amt
      /\ \A x \in Field \ {"free", "balance", "consumed"} : s[x] = l[x]
  BY <1>1, <1>2, <1>3 DEF Field
<1>6. \A x \in Field : x # "balance" => s[x] >= 0
  <2>1. s["free"] >= 0 /\ s["consumed"] >= 0
    BY <1>1, <1>2, <1>5
  <2> QED
    BY <1>5, <2>1 DEF GoodCredits
<1>7. CASE p = amt
  <2>1. s["balance"] = l["balance"]
    BY <1>1, <1>2, <1>5, <1>7
  <2> QED
    BY <1>4, <1>5, <1>6, <1>7, <2>1 DEF GoodCredits, Ledger
<1>8. CASE p # amt
  <2>1. NotBelowZero(s["balance"]) \in Nat
    BY <1>2, <1>5 DEF NotBelowZero
  <2>2. Charged(l, amt) = [s EXCEPT !["balance"] = NotBelowZero(s["balance"])]
    BY <1>4, <1>8
  <2> QED
    BY <1>2, <1>5, <1>6, <2>1, <2>2 DEF GoodCredits, Ledger
<1> QED
  BY <1>7, <1>8

\* A ledger stays good when one of its columns changes, provided the column
\* may take the value.
LEMMA GoodUpdate ==
    ASSUME NEW c, GoodCredits(c), NEW x \in Field, NEW v \in Int,
           v >= 0 \/ (x = "balance" /\ refunds > 0)
    PROVE  GoodCredits([c EXCEPT ![x] = v])
BY DEF GoodCredits, Ledger

\* Every action that writes the row, or saves a row it has read, keeps both
\* ledgers in their range.
LEMMA RowStep ==
    ASSUME AccountInv, Next
    PROVE  RowNat'
<1> USE DEF AccountInv
<1> DEFINE H == Hydrated
<1>h. H \in NatLedger
  BY RowHydrated
<1>f. /\ H \in [Field -> Nat]
      /\ units \in [Field -> Nat]
      /\ GoodCredits(credits)
      /\ \A x \in Field : credits[x] \in Int
      /\ credits["free"] \in Nat
      /\ "balance" \in Field /\ "free" \in Field
  BY <1>h DEF NatLedger, RowNat, GoodCredits, Ledger, Field
<1> HIDE DEF H
<1>u. UNCHANGED <<row, orders>> => RowNat'
  BY DEF row, orders, RowNat, GoodCredits
<1>1. ASSUME NEW r \in Requests, NEW est \in Estimates, FreezeTx(r, est)
      PROVE  RowNat'
  <2>1. est \in Nat
    BY LedgerAssumption
  <2>2. [H EXCEPT !["frozen"] = @ + est] \in NatLedger
    BY <1>f, <2>1 DEF NatLedger, Field
  <2>3. CASE Available(H) >= est
    BY <1>1, <2>2, <2>3, SaveUnitsNat DEF FreezeTx, H
  <2>4. CASE ~(Available(H) >= est)
    BY <1>1, <2>4, <1>u DEF FreezeTx, H
  <2> QED
    BY <2>3, <2>4
<1>2. ASSUME NEW r \in Requests, NEW cost \in Costs, SettleTx(r, cost)
      PROVE  RowNat'
  <2>1. cost \in Nat
    BY LedgerAssumption
  <2>2. GoodCredits(Charged(Unfrozen(credits, r), cost))
    BY <2>1, UnfrozenNat, SettledNat
  <2> QED
    BY <1>2, <2>2, SaveCreditsNat DEF SettleTx
<1>3. ASSUME NEW r \in Requests, ReleaseTx(r) \/ CronRelease(r)
      PROVE  RowNat'
  BY <1>3, UnfrozenNat, SaveCreditsNat DEF ReleaseTx, CronRelease
<1>4. ASSUME NEW r \in Requests, NEW cost \in Costs, Deduct(r, cost)
      PROVE  RowNat'
  <2> DEFINE amt == CreditsToBillingUnits(cost)
  <2>1. amt \in Nat
    BY UnitsOfCredits, LedgerAssumption
  <2> HIDE DEF amt
  <2>2. CASE Available(H) >= amt
    <3>1. SpendFreeFirst(H, amt) \in NatLedger
      BY <1>h, <2>1, <2>2, SpendNat
    <3> QED
      BY <1>4, <2>2, <3>1, SaveUnitsNat DEF Deduct, H, amt
  <2>3. CASE ~(Available(H) >= amt)
    BY <1>4, <2>3, <1>u DEF Deduct, H, amt
  <2> QED
    BY <2>2, <2>3
<1>5. ASSUME NEW r \in Requests, GrantInviteeBonus(r)
      PROVE  RowNat'
  <2>1. GoodCredits([credits EXCEPT !["free"] = @ + InviteeBonus])
    BY <1>f, GoodUpdate, LedgerAssumption
  <2>2. CASE bonusGranted
    BY <1>5, <2>2, <1>u DEF GrantInviteeBonus
  <2>3. CASE ~bonusGranted
    BY <1>5, <2>1, <2>3, SaveCreditsNat DEF GrantInviteeBonus
  <2> QED
    BY <2>2, <2>3
<1>6. ASSUME NEW amt \in Recharges, Recharge(amt)
      PROVE  RowNat'
  <2>1. [H EXCEPT !["balance"] = @ + amt, !["recharged"] = @ + amt]
          \in NatLedger
    BY <1>f, LedgerAssumption DEF NatLedger, Field
  <2> QED
    BY <1>6, <2>1, SaveUnitsNat DEF Recharge, H
<1>7. ASSUME NEW amt \in Adjustments, AdminAdjust(amt)
      PROVE  RowNat'
  <2>1. CreditsToBillingUnits(amt) \in Int
    BY UnitsAssumption, LedgerAssumption DEF CreditsToBillingUnits
  <2>2. NotBelowZero(H["balance"] + CreditsToBillingUnits(amt)) \in Nat
    BY <1>f, <2>1 DEF NotBelowZero, Field
  <2>3. [H EXCEPT !["balance"] =
            NotBelowZero(@ + CreditsToBillingUnits(amt))] \in NatLedger
    BY <1>f, <2>2 DEF NatLedger, Field
  <2> QED
    BY <1>7, <2>3, SaveUnitsNat DEF AdminAdjust, H
<1>8. ASSUME NEW amt \in Grants, CreditBalance(amt)
      PROVE  RowNat'
  <2>1. amt \in Nat
    BY LedgerAssumption
  <2>2. /\ credits["balance"] + amt \in Int
        /\ credits["balance"] + amt >= 0 \/ refunds > 0
    BY <1>f, <2>1 DEF GoodCredits
  <2>3. GoodCredits([credits EXCEPT !["balance"] = @ + amt])
    BY <1>f, <2>2, GoodUpdate
  <2> QED
    BY <1>8, <2>3, SaveCreditsNat DEF CreditBalance
<1>9. ASSUME NEW amt \in Payouts, WithdrawBalance(amt)
      PROVE  RowNat'
  <2>1. amt \in Nat /\ credits["balance"] >= amt
    BY <1>9, LedgerAssumption DEF WithdrawBalance
  <2>2. GoodCredits([credits EXCEPT !["balance"] = @ - amt])
    BY <1>f, <2>1, GoodUpdate
  <2> QED
    BY <1>9, <2>2, SaveCreditsNat DEF WithdrawBalance
<1>10. ASSUME NEW amt \in Payouts, RefundBalance(amt)
       PROVE  RowNat'
  <2>1. amt \in Nat /\ refunds \in Nat /\ refunds' = refunds + 1
    BY <1>10, LedgerAssumption DEF RefundBalance, RestOK
  <2>2. \A c : GoodCredits(c) => GoodCredits(c)'
    BY <2>1 DEF GoodCredits
  <2>3. credits' = [credits EXCEPT !["balance"] = @ - amt]
    BY <1>10 DEF RefundBalance, SaveCredits
  <2>4. GoodCredits(credits)'
    BY <1>f, <2>1, <2>3 DEF GoodCredits, Ledger
  <2>5. UNCHANGED <<units, reads>>
    BY <1>10 DEF RefundBalance, SaveCredits
  <2>6. ASSUME NEW read \in reads
        PROVE  read.units \in NatLedger /\ GoodCredits(read.credits)'
    BY <2>1 DEF RowNat, GoodCredits
  <2> QED
    BY <2>4, <2>5, <2>6 DEF RowNat, GoodCredits
<1>11. ASSUME NEW amt \in Purchases, PaymentReads(amt)
       PROVE  RowNat'
  BY <1>11 DEF PaymentReads, RowNat, GoodCredits, row
<1>12. ASSUME NEW read \in reads, PaymentSaves(read)
       PROVE  RowNat'
  <2>1. /\ read.units \in NatLedger
        /\ GoodCredits(read.credits)
        /\ read.amount \in Nat
    BY LedgerAssumption DEF RowNat, RestOK
  <2> DEFINE c == read.credits
             d == [c EXCEPT !["balance"] = @ + read.amount,
                            !["recharged"] = @ + read.amount]
  <2>2. GoodCredits(d)
    BY <2>1 DEF GoodCredits, Ledger, Field
  <2>3. /\ units' = read.units
        /\ credits' = d
        /\ reads' \subseteq reads
        /\ refunds' = refunds
    BY <1>12 DEF PaymentSaves
  <2> HIDE DEF d
  <2> QED
    BY <2>1, <2>2, <2>3 DEF RowNat, GoodCredits
<1>13. ASSUME NEW read \in reads, PaymentFails(read)
       PROVE  RowNat'
  BY <1>13 DEF PaymentFails, RowNat, GoodCredits, row
<1>14. ASSUME PurgeFreeQuota
       PROVE  RowNat'
  <2>1. GoodCredits([credits EXCEPT !["free"] = 0])
    BY <1>f, GoodUpdate
  <2>2. [units EXCEPT !["free"] = 0] \in NatLedger
    BY <1>f DEF NatLedger, Field
  <2> QED
    BY <1>14, <2>1, <2>2 DEF PurgeFreeQuota, RowNat, GoodCredits, orders
<1>15. ASSUME NEW r \in Requests,
              \/ Refuse(r) \/ BeginUnfrozen(r) \/ FreezeLock(r) \/ TxFails(r)
              \/ Unlock(r) \/ ReadFreeze(r) \/ CloseLock(r) \/ EndUnfrozen(r)
              \/ AfterCharge(r) \/ CronSkip(r) \/ Abandon(r) \/ FreezeAges(r)
       PROVE  RowNat'
  BY <1>15, <1>u DEF Refuse, BeginUnfrozen, FreezeLock, TxFails, Unlock,
       ReadFreeze, CloseLock, EndUnfrozen, AfterCharge, CronSkip, Abandon,
       FreezeAges
<1>16. ASSUME CronScan \/ ReadExpiredQuota \/ QuotaExpires \/ LockExpires
       PROVE  RowNat'
  BY <1>16, <1>u DEF CronScan, ReadExpiredQuota, QuotaExpires, LockExpires
<1> QED
  BY <1>1, <1>2, <1>3, <1>4, <1>5, <1>6, <1>7, <1>8, <1>9, <1>10, <1>11,
     <1>12, <1>13, <1>14, <1>15, <1>16
     DEF Next, RequestStep, CronStep, AccountStep

-----------------------------------------------------------------------------
(* The rest of the state.                                                  *)

LEMMA RestStep ==
    ASSUME AccountInv, Next
    PROVE  RestOK' /\ ClosesARecord'
<1> USE DEF AccountInv, RestOK, ClosesARecord, Closing
<1>1. ASSUME NEW r \in Requests,
             \/ Refuse(r) \/ BeginUnfrozen(r) \/ TxFails(r) \/ EndUnfrozen(r)
             \/ ReadFreeze(r)
      PROVE  RestOK' /\ ClosesARecord'
  BY <1>1 DEF Refuse, BeginUnfrozen, TxFails, EndUnfrozen, ReadFreeze, Goto,
       PC, row, freezes, redis, cron, invitee, expiry, orders
<1>2. ASSUME NEW r \in Requests,
             FreezeLock(r) \/ CloseLock(r) \/ Unlock(r) \/ Abandon(r)
      PROVE  RestOK' /\ ClosesARecord'
  BY <1>2 DEF FreezeLock, CloseLock, Unlock, Abandon, Lock, Goto, PC,
       row, freezes, redis, cron, invitee, expiry, orders
<1>3. ASSUME NEW r \in Requests, NEW est \in Estimates, FreezeTx(r, est)
      PROVE  RestOK' /\ ClosesARecord'
  <2>1. est \in Nat \ {0}
    BY LedgerAssumption
  <2> QED
    BY <1>3, <2>1 DEF FreezeTx, Goto, PC, row, freezes, redis, cron, invitee,
         expiry, orders
<1>4. ASSUME NEW r \in Requests, NEW cost \in Costs, SettleTx(r, cost)
      PROVE  RestOK' /\ ClosesARecord'
  BY <1>4 DEF SettleTx, Goto, PC, redis, cron, invitee, expiry, orders
<1>5. ASSUME NEW r \in Requests, ReleaseTx(r) \/ CronRelease(r)
      PROVE  RestOK' /\ ClosesARecord'
  BY <1>5 DEF ReleaseTx, CronRelease, Goto, PC, redis, cron, invitee, expiry, orders
<1>6. ASSUME NEW r \in Requests, NEW cost \in Costs, Deduct(r, cost)
      PROVE  RestOK' /\ ClosesARecord'
  BY <1>6 DEF Deduct, Goto, PC, freezes, redis, cron, invitee, expiry, orders
<1>7. ASSUME NEW r \in Requests, AfterCharge(r) \/ GrantInviteeBonus(r)
      PROVE  RestOK' /\ ClosesARecord'
  BY <1>7 DEF AfterCharge, GrantInviteeBonus, Leave, Goto, PC, row, freezes,
       redis, cron, invitee, expiry, orders
<1>8. ASSUME NEW r \in Requests, CronSkip(r) \/ FreezeAges(r)
      PROVE  RestOK' /\ ClosesARecord'
  BY <1>8 DEF CronSkip, FreezeAges, row, freezes, redis, cron, invitee, expiry, orders
<1>9. CASE CronScan
  BY <1>9 DEF CronScan, FrozenRecords, row, freezes, redis, cron, invitee, expiry, orders
<1>10. CASE LockExpires
  BY <1>10 DEF LockExpires, row, freezes, redis, cron, invitee, expiry, orders
<1>11. CASE ReadExpiredQuota \/ PurgeFreeQuota \/ QuotaExpires
  BY <1>11 DEF ReadExpiredQuota, PurgeFreeQuota, QuotaExpires, row, freezes,
       redis, cron, invitee, expiry, orders
<1>12. ASSUME \/ \E amt \in Recharges : Recharge(amt)
              \/ \E amt \in Adjustments : AdminAdjust(amt)
              \/ \E amt \in Grants : CreditBalance(amt)
              \/ \E amt \in Payouts : WithdrawBalance(amt)
       PROVE  RestOK' /\ ClosesARecord'
  BY <1>12 DEF Recharge, AdminAdjust, CreditBalance, WithdrawBalance,
       freezes, redis, cron, invitee, expiry, orders
<1>13. ASSUME NEW amt \in Payouts, RefundBalance(amt)
       PROVE  RestOK' /\ ClosesARecord'
  <2>1. refunds' \in Nat
    BY <1>13 DEF RefundBalance
  <2>2. UNCHANGED <<freezes, redis, pc, cron, bonusRecords, purges, reads>>
    BY <1>13 DEF RefundBalance, invitee, expiry
  <2> QED
    BY <2>1, <2>2 DEF freezes, redis, cron
<1>14. ASSUME NEW amt \in Purchases, PaymentReads(amt)
       PROVE  RestOK' /\ ClosesARecord'
  <2>1. units \in Ledger /\ credits \in Ledger
    BY DEF RowNat, GoodCredits, NatLedger, Ledger
  <2> QED
    BY <1>14, <2>1 DEF PaymentReads, row, freezes, redis, cron, invitee, expiry
<1>15. ASSUME NEW read \in reads, PaymentSaves(read) \/ PaymentFails(read)
       PROVE  RestOK' /\ ClosesARecord'
  BY <1>15 DEF PaymentSaves, PaymentFails, row, freezes, redis, cron, invitee,
       expiry
<1> QED
  BY <1>1, <1>2, <1>3, <1>4, <1>5, <1>6, <1>7, <1>8, <1>9, <1>10, <1>11, <1>12,
     <1>13, <1>14, <1>15
     DEF Next, RequestStep, CronStep, AccountStep

LEMMA FlagsStep ==
    ASSUME FlagsOK, Next
    PROVE  FlagsOK'
<1>1. ASSUME NEW r \in Requests, AfterCharge(r)
      PROVE  FlagsOK'
  <2>1. unlocked' \in BOOLEAN
    BY <1>1, Zenon DEF AfterCharge
  <2>2. UNCHANGED <<bonusGranted, quotaExpired, overwritten>>
    BY <1>1 DEF AfterCharge, expiry, orders
  <2> QED
    BY <2>1, <2>2, Zenon DEF FlagsOK
<1>2. ASSUME NEW r \in Requests, GrantInviteeBonus(r)
      PROVE  FlagsOK'
  <2>1. bonusGranted' = TRUE \/ bonusGranted' = bonusGranted
    BY <1>2, Zenon DEF GrantInviteeBonus
  <2>2. UNCHANGED <<unlocked, quotaExpired, overwritten>>
    BY <1>2 DEF GrantInviteeBonus, expiry, orders
  <2> QED
    BY <2>1, <2>2, Zenon DEF FlagsOK
<1>3. ASSUME QuotaExpires
      PROVE  FlagsOK'
  <2>1. quotaExpired' = TRUE
    BY <1>3, Zenon DEF QuotaExpires
  <2>2. UNCHANGED <<unlocked, bonusGranted, overwritten>>
    BY <1>3 DEF QuotaExpires, invitee, orders
  <2> QED
    BY <2>1, <2>2, Zenon DEF FlagsOK
<1>4. ASSUME NEW read \in reads, PaymentSaves(read)
      PROVE  FlagsOK'
  <2>1. overwritten' \in BOOLEAN
    BY <1>4, Zenon DEF PaymentSaves
  <2>2. UNCHANGED <<unlocked, bonusGranted, quotaExpired>>
    BY <1>4 DEF PaymentSaves, invitee, expiry
  <2> QED
    BY <2>1, <2>2, Zenon DEF FlagsOK
<1>5. \/ \E r \in Requests : AfterCharge(r) \/ GrantInviteeBonus(r)
      \/ QuotaExpires
      \/ \E read \in reads : PaymentSaves(read)
      \/ UNCHANGED <<unlocked, bonusGranted, quotaExpired, overwritten>>
  <2> DEFINE Same == UNCHANGED <<unlocked, bonusGranted, quotaExpired, overwritten>>
  <2>1. ASSUME NEW r \in Requests, RequestStep(r)
        PROVE  AfterCharge(r) \/ GrantInviteeBonus(r) \/ Same
    BY <2>1 DEF RequestStep, invitee, expiry, orders, Refuse, BeginUnfrozen,
       FreezeLock, FreezeTx, TxFails, Unlock, ReadFreeze, CloseLock, SettleTx,
       ReleaseTx, EndUnfrozen, Deduct
  <2>2. CronStep => Same
    BY DEF CronStep, invitee, expiry, orders, CronScan, CronRelease, CronSkip
  <2>3. AccountStep => Same \/ \E read \in reads : PaymentSaves(read)
    BY DEF AccountStep, invitee, expiry, orders, Recharge, AdminAdjust,
       CreditBalance, WithdrawBalance, RefundBalance, PaymentReads,
       PaymentFails, ReadExpiredQuota, PurgeFreeQuota
  <2>4. LockExpires \/ (\E r \in Requests : Abandon(r) \/ FreezeAges(r)) => Same
    BY DEF LockExpires, Abandon, FreezeAges, invitee, expiry, orders
  <2> HIDE DEF Same
  <2>5. \/ \E r \in Requests : AfterCharge(r) \/ GrantInviteeBonus(r)
        \/ QuotaExpires
        \/ \E read \in reads : PaymentSaves(read)
        \/ Same
    BY <2>1, <2>2, <2>3, <2>4, Zenon DEF Next
  <2> QED
    BY <2>5 DEF Same
<1>6. CASE UNCHANGED <<unlocked, bonusGranted, quotaExpired, overwritten>>
  BY <1>6, Zenon DEF FlagsOK
<1> QED
  BY <1>1, <1>2, <1>3, <1>4, <1>5, <1>6

\* AccountInv is inductive.
LEMMA AccountInvariance == Spec => []AccountInv
<1>1. Init => AccountInv
  <2> SUFFICES ASSUME Init PROVE AccountInv
    OBVIOUS
  <2>1. PICK gift \in Gifts :
          /\ units = [EmptyLedger EXCEPT !["free"] = CreditsToBillingUnits(gift)]
          /\ credits = [EmptyLedger EXCEPT !["free"] = gift]
    BY DEF Init
  <2>2. gift \in Nat /\ CreditsToBillingUnits(gift) \in Nat
    BY LedgerAssumption, UnitsOfCredits
  <2>3. RowNat
    BY <2>1, <2>2 DEF Init, RowNat, GoodCredits, Ledger, NatLedger,
         EmptyLedger, Field
  <2>4. RestOK /\ ClosesARecord
    BY DEF Init, RestOK, ClosesARecord, Closing, PC
  <2>5. FlagsOK
    <3>1. /\ unlocked = FALSE /\ bonusGranted = FALSE
           /\ quotaExpired = FALSE /\ overwritten = FALSE
      BY Zenon DEF Init
    <3> QED
      BY <3>1, Zenon DEF FlagsOK
  <2> QED
    BY <2>3, <2>4, <2>5 DEF AccountInv
<1>2. AccountInv /\ [Next]_vars => AccountInv'
  <2> SUFFICES ASSUME AccountInv, [Next]_vars PROVE AccountInv'
    OBVIOUS
  <2>1. CASE Next
    BY <2>1, RowStep, FlagsStep, RestStep DEF AccountInv
  <2>2. CASE UNCHANGED vars
    <3>1. RowNat' /\ RestOK' /\ ClosesARecord'
      BY <2>2 DEF vars, row, freezes, redis, cron, invitee, expiry, orders,
           AccountInv, RowNat, GoodCredits, RestOK, ClosesARecord
    <3>2. UNCHANGED <<unlocked, bonusGranted, quotaExpired, overwritten>>
      BY <2>2 DEF vars, invitee, expiry, orders
    <3>3. FlagsOK => FlagsOK'
      BY <3>2, Zenon DEF FlagsOK
    <3> QED
      BY <3>1, <3>3 DEF AccountInv
  <2> QED
    BY <2>1, <2>2
<1> QED
  BY <1>1, <1>2, PTL DEF Spec

\* Every reachable account is well formed: the two ledgers range over the
\* integers, a freeze record exists exactly when an amount is held.
THEOREM TypeCorrect == Spec => []TypeOK
<1>1. AccountInv => TypeOK
  <2>1. RowNat => units \in Ledger /\ credits \in Ledger
    BY DEF RowNat, GoodCredits, NatLedger, Ledger
  <2> QED
    BY <2>1, Zenon DEF AccountInv, FlagsOK, RestOK, TypeOK
<1> QED
  BY <1>1, AccountInvariance, PTL

\* No interleaving of charges, releases, adjustments and expiries takes a
\* column of either ledger below zero, nor does a payment that saves an old
\* row; only a refund takes the credit balance there.
THEOREM NeverOverdrawn == Spec => []NoOverdraft
<1>1. AccountInv => NoOverdraft
  BY DEF AccountInv, RowNat, GoodCredits, NatLedger, NoOverdraft
<1> QED
  BY <1>1, AccountInvariance, PTL

-----------------------------------------------------------------------------
(* The lock and the bonus.                                                 *)

\* A request whose lease still runs owns the key, so no two requests do.
THEOREM LeaseExclusion == Spec => []LeaseExcludes
<1>1. Init => LeaseExcludes
  BY DEF Init, LeaseExcludes
<1>2. AccountInv /\ LeaseExcludes /\ [Next]_vars => LeaseExcludes'
  <2> SUFFICES ASSUME AccountInv, LeaseExcludes, [Next]_vars
               PROVE  LeaseExcludes'
    OBVIOUS
  <2> USE DEF AccountInv, RestOK, LeaseExcludes
  <2>1. CASE UNCHANGED redis
    BY <2>1 DEF redis
  <2>2. ASSUME NEW r \in Requests, FreezeLock(r) \/ CloseLock(r)
        PROVE  LeaseExcludes'
    BY <2>2, LedgerAssumption DEF FreezeLock, CloseLock, Lock, redis
  <2>3. ASSUME NEW r \in Requests, Unlock(r) \/ Abandon(r)
        PROVE  LeaseExcludes'
    BY <2>3 DEF Unlock, Abandon
  <2>4. CASE LockExpires
    BY <2>4 DEF LockExpires
  <2>5. \/ UNCHANGED redis
        \/ \E r \in Requests :
              FreezeLock(r) \/ CloseLock(r) \/ Unlock(r) \/ Abandon(r)
        \/ LockExpires
    BY DEF Next, RequestStep, CronStep, AccountStep, vars, redis, Refuse,
         BeginUnfrozen, FreezeTx, TxFails, ReadFreeze, SettleTx, ReleaseTx,
         EndUnfrozen, Deduct, AfterCharge, GrantInviteeBonus, FreezeAges,
         CronScan, CronRelease, CronSkip, Recharge, AdminAdjust,
         CreditBalance, WithdrawBalance, RefundBalance, PaymentReads,
         PaymentSaves, PaymentFails, QuotaExpires, ReadExpiredQuota,
         PurgeFreeQuota
  <2> QED
    BY <2>1, <2>2, <2>3, <2>4, <2>5
<1> QED
  BY <1>1, <1>2, AccountInvariance, PTL DEF Spec

\* The invitee's bonus is recorded once at most, and exactly when the
\* attribution is marked.
THEOREM BonusOnce == Spec => []BonusPaidOnce
<1>1. Init => BonusPaidOnce
  BY DEF Init, BonusPaidOnce
<1>2. AccountInv /\ BonusPaidOnce /\ [Next]_vars => BonusPaidOnce'
  <2> SUFFICES ASSUME AccountInv, BonusPaidOnce, [Next]_vars
               PROVE  BonusPaidOnce'
    OBVIOUS
  <2>1. ASSUME NEW r \in Requests, GrantInviteeBonus(r)
        PROVE  BonusPaidOnce'
    BY <2>1 DEF GrantInviteeBonus, BonusPaidOnce, AccountInv, RestOK
  <2>2. CASE UNCHANGED <<bonusGranted, bonusRecords>>
    BY <2>2 DEF BonusPaidOnce
  <2>3. \/ \E r \in Requests : GrantInviteeBonus(r)
        \/ UNCHANGED <<bonusGranted, bonusRecords>>
    BY DEF Next, RequestStep, CronStep, AccountStep, vars, invitee, Refuse,
         BeginUnfrozen, FreezeLock, FreezeTx, TxFails, Unlock, ReadFreeze,
         CloseLock, SettleTx, ReleaseTx, EndUnfrozen, Deduct, AfterCharge,
         FreezeAges, CronScan, CronRelease, CronSkip, Recharge, AdminAdjust,
         CreditBalance, WithdrawBalance, RefundBalance, PaymentReads,
         PaymentSaves, PaymentFails, QuotaExpires, ReadExpiredQuota,
         PurgeFreeQuota,
         Abandon, LockExpires
  <2> QED
    BY <2>1, <2>2, <2>3
<1> QED
  BY <1>1, <1>2, AccountInvariance, PTL DEF Spec

-----------------------------------------------------------------------------
(* What the unit operations spend and keep.                                *)

\* Zero units are zero credits.
LEMMA NoUnitsNoCredits == BillingUnitsToCredits(0) = 0
<1> DEFINE K == BillingUnitsPerCredit
<1>1. K \in Nat \ {0}
  BY UnitsAssumption
<1>2. ASSUME NEW k \in Nat \ {0}
      PROVE  k \div (2 * k) = 0
  <2>1. k \div (2 * k) \in Int /\ k = (2 * k) * (k \div (2 * k)) + (k % (2 * k))
        /\ k % (2 * k) \in 0 .. 2 * k - 1
    OBVIOUS
  <2> QED
    BY <2>1
<1>3. (2 * 0 + K) \div (2 * K) = K \div (2 * K)
  BY <1>1
<1> QED
  BY <1>1, <1>2, <1>3 DEF BillingUnitsToCredits

\* A row that a unit operation has saved is hydrated already.
LEMMA SavedIsHydrated ==
    ASSUME NEW u \in NatLedger, SaveUnits(u)
    PROVE  Hydrated' = u
<1>1. \A x \in Field : u[x] = 0 => syncBalanceCreditFields(u)[x] = 0
  BY NoUnitsNoCredits DEF syncBalanceCreditFields
<1>2. hydrateBalanceUnits(u, syncBalanceCreditFields(u)) = [x \in Field |-> u[x]]
  BY <1>1 DEF hydrateBalanceUnits
<1>3. u = [x \in Field |-> u[x]]
  BY DEF NatLedger
<1> QED
  BY <1>2, <1>3 DEF SaveUnits, Hydrated

\* The transaction of a freeze that finds its estimate available.
LEMMA FreezeEffect ==
    ASSUME RowNat, NEW r \in Requests, NEW est \in Estimates, FreezeTx(r, est),
           Available(Hydrated) >= est
    PROVE  /\ Available(Hydrated') >= 0
           /\ Wealth(units') = Wealth(Hydrated)
<1> DEFINE H == Hydrated
           u == [H EXCEPT !["frozen"] = @ + est]
<1>1. H \in [Field -> Nat] /\ est \in Nat
  BY RowHydrated, LedgerAssumption DEF NatLedger
<1>2. SaveUnits(u) /\ Available(H) >= est
  BY DEF FreezeTx
<1> HIDE DEF H
<1>3. /\ u \in NatLedger
      /\ u["frozen"] = H["frozen"] + est
      /\ \A x \in Field \ {"frozen"} : u[x] = H[x]
  BY <1>1 DEF NatLedger, Field
<1> HIDE DEF u
<1>4. Available(u) >= 0 /\ Wealth(u) = Wealth(H)
  BY <1>1, <1>2, <1>3 DEF Available, Wealth, Field
<1>5. Hydrated' = u /\ units' = u
  BY <1>2, <1>3, SavedIsHydrated DEF SaveUnits
<1> QED
  BY <1>4, <1>5 DEF H

\* The transaction of a deduction that finds its cost available.
LEMMA DeductEffect ==
    ASSUME RowNat, NEW r \in Requests, NEW cost \in Costs, Deduct(r, cost),
           Available(Hydrated) >= CreditsToBillingUnits(cost)
    PROVE  /\ Available(Hydrated') >= 0
           /\ Wealth(units') = Wealth(Hydrated)
<1> DEFINE H == Hydrated
           amt == CreditsToBillingUnits(cost)
           u == SpendFreeFirst(H, amt)
<1>1. H \in NatLedger /\ amt \in Nat
  BY RowHydrated, UnitsOfCredits, LedgerAssumption
<1>2. SaveUnits(u) /\ Available(H) >= amt
  BY DEF Deduct
<1> HIDE DEF H, amt
<1>3. /\ u \in NatLedger
      /\ Available(u) = Available(H) - amt
      /\ Wealth(u) = Wealth(H)
  BY <1>1, <1>2, SpendNat
<1>4. Available(H) \in Int
  BY <1>1 DEF NatLedger, Available, Field
<1> HIDE DEF u
<1>5. Hydrated' = u /\ units' = u
  BY <1>2, <1>3, SavedIsHydrated DEF SaveUnits
<1> QED
  BY <1>1, <1>2, <1>3, <1>4, <1>5 DEF H

\* A hold appears in one way, and a request charges without one in one way.
LEMMA SpendsOnlyBy ==
    ASSUME AccountInv, Next, NEW r \in Requests
    PROVE  /\ status[r] # "FROZEN" /\ status'[r] = "FROZEN"
                => \E est \in Estimates :
                      FreezeTx(r, est) /\ Available(Hydrated) >= est
           /\ pc[r] = "serving" /\ pc'[r] = "attr"
                => \E cost \in Costs :
                      /\ Deduct(r, cost)
                      /\ Available(Hydrated) >= CreditsToBillingUnits(cost)
<1> USE DEF AccountInv, RestOK
<1> DEFINE FreezesHere == \E est \in Estimates :
                             FreezeTx(r, est) /\ Available(Hydrated) >= est
           DeductsHere == \E cost \in Costs :
                             /\ Deduct(r, cost)
                             /\ Available(Hydrated) >= CreditsToBillingUnits(cost)
           Freezes == status[r] # "FROZEN" /\ status'[r] = "FROZEN"
           Deducts == pc[r] = "serving" /\ pc'[r] = "attr"
<1>1. ASSUME NEW q \in Requests, NEW est \in Estimates, FreezeTx(q, est)
      PROVE  (Freezes => FreezesHere) /\ ~Deducts
  <2>1. pc' = [pc EXCEPT ![q] = pc'[q]] /\ pc'[q] # "attr"
    BY <1>1 DEF FreezeTx, Goto
  <2>2. CASE Available(Hydrated) >= est
    BY <1>1, <2>1, <2>2 DEF FreezeTx
  <2>3. CASE ~(Available(Hydrated) >= est)
    BY <1>1, <2>1, <2>3 DEF FreezeTx, freezes
  <2> QED
    BY <2>2, <2>3
<1>2. ASSUME NEW q \in Requests, NEW cost \in Costs, Deduct(q, cost)
      PROVE  ~Freezes /\ (Deducts => DeductsHere)
  <2>1. ~Freezes
    BY <1>2 DEF Deduct, freezes
  <2>2. CASE Available(Hydrated) >= CreditsToBillingUnits(cost)
    BY <1>2, <2>1, <2>2 DEF Deduct, Goto
  <2>3. CASE ~(Available(Hydrated) >= CreditsToBillingUnits(cost))
    BY <1>2, <2>1, <2>3 DEF Deduct, Goto
  <2> QED
    BY <2>2, <2>3
<1>3. ASSUME NEW q \in Requests,
             \/ \E cost \in Costs : SettleTx(q, cost)
             \/ ReleaseTx(q) \/ CronRelease(q)
      PROVE  ~Freezes /\ ~Deducts
  BY <1>3 DEF SettleTx, ReleaseTx, CronRelease, Goto
<1>4. ASSUME NEW q \in Requests,
             \/ Refuse(q) \/ BeginUnfrozen(q) \/ FreezeLock(q) \/ TxFails(q)
             \/ Unlock(q) \/ ReadFreeze(q) \/ CloseLock(q) \/ EndUnfrozen(q)
             \/ AfterCharge(q) \/ GrantInviteeBonus(q) \/ Abandon(q)
      PROVE  ~Freezes /\ ~Deducts
  BY <1>4 DEF Refuse, BeginUnfrozen, FreezeLock, TxFails, Unlock, ReadFreeze,
       CloseLock, EndUnfrozen, AfterCharge, GrantInviteeBonus, Abandon, Goto,
       Leave, freezes
<1>5. ASSUME UNCHANGED <<status, pc>>
      PROVE  ~Freezes /\ ~Deducts
  BY <1>5
<1>6. \/ \E q \in Requests : RequestStep(q) \/ CronRelease(q) \/ Abandon(q)
      \/ UNCHANGED <<status, pc>>
  BY DEF Next, CronStep, AccountStep, freezes, FreezeAges, CronScan, CronSkip,
       Recharge, AdminAdjust, CreditBalance, WithdrawBalance, RefundBalance,
       PaymentReads, PaymentSaves, PaymentFails, QuotaExpires,
       ReadExpiredQuota, PurgeFreeQuota, LockExpires
<1> HIDE DEF FreezesHere, DeductsHere, Freezes, Deducts
<1>7. (Freezes => FreezesHere) /\ (Deducts => DeductsHere)
  BY <1>1, <1>2, <1>3, <1>4, <1>5, <1>6 DEF RequestStep
<1> QED
  BY <1>7 DEF FreezesHere, DeductsHere, Freezes, Deducts

\* A freeze or a deduction never spends what other requests have reserved: what
\* it leaves covers all of it.
THEOREM HoldsAreKept == Spec => SpendKeepsHolds
<1> DEFINE Spends == \E r \in Requests :
                        \/ status[r] # "FROZEN" /\ status'[r] = "FROZEN"
                        \/ pc[r] = "serving" /\ pc'[r] = "attr"
<1>1. AccountInv /\ [Next]_vars
        => [Spends => Available(Hydrated') >= 0]_vars
  <2> SUFFICES ASSUME AccountInv, Next, Spends
               PROVE  Available(Hydrated') >= 0
    OBVIOUS
  <2>1. PICK r \in Requests :
           \/ status[r] # "FROZEN" /\ status'[r] = "FROZEN"
           \/ pc[r] = "serving" /\ pc'[r] = "attr"
    OBVIOUS
  <2> QED
    BY <2>1, SpendsOnlyBy, FreezeEffect, DeductEffect DEF AccountInv
<1> QED
  BY <1>1, AccountInvariance, PTL DEF Spec, SpendKeepsHolds

\* No unit operation creates or destroys units, at any conversion rate.
THEOREM NoUnitsFromNothing == Spec => UnitsConserved
<1> DEFINE Kept == \/ Wealth(units') = Wealth(Hydrated)
                   \/ purges' < purges
                   \/ overwritten'
           Adjusts == \E amt \in Adjustments : AdminAdjust(amt)
<1>1. AccountInv /\ [Next]_vars
        => [(units' # units /\ ~Adjusts) => Kept]_vars
  <2> SUFFICES ASSUME AccountInv, Next, units' # units, ~Adjusts
               PROVE  Kept
    OBVIOUS
  <2>0. RowNat /\ RestOK
    BY DEF AccountInv
  <2>1. ASSUME NEW r \in Requests, NEW est \in Estimates, FreezeTx(r, est)
        PROVE  Kept
    <3>1. Available(Hydrated) >= est
      BY <2>1 DEF FreezeTx, row
    <3> QED
      BY <2>0, <2>1, <3>1, FreezeEffect
  <2>2. ASSUME NEW r \in Requests, NEW cost \in Costs, Deduct(r, cost)
        PROVE  Kept
    <3>1. Available(Hydrated) >= CreditsToBillingUnits(cost)
      BY <2>2 DEF Deduct, row
    <3> QED
      BY <2>0, <2>2, <3>1, DeductEffect
  <2>3. ASSUME NEW amt \in Recharges, Recharge(amt)
        PROVE  Kept
    <3> DEFINE H == Hydrated
               u == [H EXCEPT !["balance"] = @ + amt, !["recharged"] = @ + amt]
    <3>1. H \in [Field -> Nat] /\ amt \in Nat
      BY <2>0, RowHydrated, LedgerAssumption DEF NatLedger
    <3>2. units' = u
      BY <2>3 DEF Recharge, SaveUnits
    <3> HIDE DEF H
    <3>3. Wealth(u) = Wealth(H)
      BY <3>1 DEF Wealth, Field
    <3> QED
      BY <3>2, <3>3 DEF H
  <2>4. ASSUME NEW read \in reads, PaymentSaves(read)
        PROVE  Kept
    <3>1. row # <<read.units, read.credits>>
      BY <2>4 DEF PaymentSaves, row
    <3> QED
      BY <2>4, <3>1 DEF PaymentSaves
  <2>5. CASE PurgeFreeQuota
    BY <2>0, <2>5 DEF PurgeFreeQuota, RestOK
  <2>6. \/ \E r \in Requests :
              \/ \E est \in Estimates : FreezeTx(r, est)
              \/ \E cost \in Costs : Deduct(r, cost)
        \/ \E amt \in Recharges : Recharge(amt)
        \/ \E read \in reads : PaymentSaves(read)
        \/ PurgeFreeQuota
    BY DEF Next, RequestStep, CronStep, AccountStep, row, SaveCredits, Refuse,
         BeginUnfrozen, FreezeLock, TxFails, Unlock, ReadFreeze, CloseLock,
         SettleTx, ReleaseTx, EndUnfrozen, AfterCharge, GrantInviteeBonus,
         FreezeAges, CronScan, CronRelease, CronSkip, CreditBalance,
         WithdrawBalance, RefundBalance, PaymentReads, PaymentFails,
         QuotaExpires, ReadExpiredQuota, Abandon, LockExpires
  <2> QED
    BY <2>1, <2>2, <2>3, <2>4, <2>5, <2>6
<1> QED
  BY <1>1, AccountInvariance, PTL DEF Spec, UnitsConserved

-----------------------------------------------------------------------------
(* What the open holds reserve.                                             *)

\* Hydrating never lowers the frozen units.
LEMMA HydratedFrozen ==
    ASSUME RowNat
    PROVE  /\ Hydrated["frozen"] \in Nat /\ units["frozen"] \in Nat
           /\ Hydrated["frozen"] >= units["frozen"]
<1>1. units["frozen"] \in Nat /\ Hydrated["frozen"] \in Nat
  BY RowHydrated DEF RowNat, NatLedger, Field
<1>2. CASE units["frozen"] = 0
  BY <1>1, <1>2
<1>3. CASE units["frozen"] # 0
  BY <1>3, <1>1 DEF Hydrated, hydrateBalanceUnits, Field
<1> QED
  BY <1>1, <1>2, <1>3

\* Nothing opens a hold or changes its amount, nor lowers the frozen units.
HoldsNoMore ==
    /\ held' = held /\ FrozenRecords' \subseteq FrozenRecords
    /\ units'["frozen"] \in Nat /\ units'["frozen"] >= units["frozen"]

\* A unit operation that leaves the holds alone keeps what they reserve.
LEMMA UnitsKeepHolds ==
    ASSUME RowNat, NEW u, SaveUnits(u), u["frozen"] = Hydrated["frozen"],
           UNCHANGED freezes
    PROVE  HoldsNoMore
BY HydratedFrozen DEF SaveUnits, freezes, HoldsNoMore, FrozenRecords

\* A step that reserves nothing and frees at most the units of closed holds;
\* a payment saves a row that says otherwise only over a freeze.
LEMMA HoldsStep ==
    ASSUME AccountInv, Next
    PROVE  \/ \E r \in Requests, est \in Estimates :
                 FreezeTx(r, est) /\ Available(Hydrated) >= est
           \/ HoldsNoMore /\ overwritten' = overwritten
           \/ HoldsNoMore /\ \E read \in reads : PaymentSaves(read)
           \/ \E read \in reads :
                 PaymentSaves(read) /\ row # <<read.units, read.credits>>
<1>0. RowNat /\ RestOK /\ units["frozen"] \in Nat
  BY HydratedFrozen DEF AccountInv
<1>u. UNCHANGED <<units, freezes>> => HoldsNoMore
  BY <1>0 DEF freezes, HoldsNoMore, FrozenRecords
<1>1. ASSUME NEW r \in Requests, NEW est \in Estimates, FreezeTx(r, est)
      PROVE  \/ Available(Hydrated) >= est
             \/ HoldsNoMore /\ overwritten' = overwritten
  BY <1>1, <1>u DEF FreezeTx, row, orders
<1>2. ASSUME NEW r \in Requests,
             ReleaseTx(r) \/ CronRelease(r)
                \/ \E cost \in Costs : SettleTx(r, cost)
      PROVE  HoldsNoMore /\ overwritten' = overwritten
  <2>1. \E s \in {"SETTLED", "RELEASED"} : status' = [status EXCEPT ![r] = s]
    BY <1>2 DEF ReleaseTx, CronRelease, SettleTx
  <2>2. FrozenRecords' \subseteq FrozenRecords
    BY <1>0, <2>1 DEF RestOK, FrozenRecords
  <2>3. UNCHANGED <<units, held, overwritten>>
    BY <1>2 DEF ReleaseTx, CronRelease, SettleTx, SaveCredits, orders
  <2> QED
    BY <1>0, <2>2, <2>3 DEF HoldsNoMore
<1>3. ASSUME NEW r \in Requests, NEW cost \in Costs, Deduct(r, cost)
      PROVE  HoldsNoMore /\ overwritten' = overwritten
  <2> DEFINE amt == CreditsToBillingUnits(cost)
             u == SpendFreeFirst(Hydrated, amt)
  <2>1. CASE UNCHANGED row
    BY <1>3, <2>1, <1>u DEF Deduct, row, orders
  <2>2. CASE SaveUnits(u)
    <3>1. u["frozen"] = Hydrated["frozen"]
      BY <1>0, RowHydrated DEF SpendFreeFirst, NatLedger, Field
    <3> HIDE DEF u
    <3> QED
      BY <1>0, <1>3, <2>2, <3>1, UnitsKeepHolds DEF Deduct, orders
  <2> QED
    BY <1>3, <2>1, <2>2 DEF Deduct
<1>4. ASSUME NEW amt, Recharge(amt) \/ AdminAdjust(amt)
      PROVE  HoldsNoMore /\ overwritten' = overwritten
  <2> DEFINE up == [Hydrated EXCEPT !["balance"] = @ + amt, !["recharged"] = @ + amt]
             set == [Hydrated EXCEPT
                       !["balance"] = NotBelowZero(@ + CreditsToBillingUnits(amt))]
  <2>1. PICK u \in {up, set} : SaveUnits(u)
    BY <1>4 DEF Recharge, AdminAdjust
  <2>2. u["frozen"] = Hydrated["frozen"]
    BY <1>0, <2>1, RowHydrated DEF NatLedger, Field
  <2>3. UNCHANGED <<freezes, overwritten>>
    BY <1>4 DEF Recharge, AdminAdjust, orders
  <2> HIDE DEF up, set
  <2> QED
    BY <1>0, <2>1, <2>2, <2>3, UnitsKeepHolds
<1>5. ASSUME PurgeFreeQuota
      PROVE  HoldsNoMore /\ overwritten' = overwritten
  <2>1. units'["frozen"] = units["frozen"]
    BY <1>0, <1>5 DEF PurgeFreeQuota, RowNat, NatLedger, Field
  <2> QED
    BY <1>0, <1>5, <2>1
    DEF PurgeFreeQuota, freezes, orders, HoldsNoMore, FrozenRecords
<1>6. ASSUME NEW read \in reads, PaymentSaves(read),
             row = <<read.units, read.credits>>
      PROVE  HoldsNoMore
  <2>1. units' = units
    BY <1>6 DEF PaymentSaves, row
  <2> QED
    BY <1>6, <2>1, <1>u DEF PaymentSaves
<1>7. ASSUME NEW r \in Requests,
             \/ Refuse(r) \/ BeginUnfrozen(r) \/ FreezeLock(r) \/ TxFails(r)
             \/ Unlock(r) \/ ReadFreeze(r) \/ CloseLock(r) \/ EndUnfrozen(r)
             \/ AfterCharge(r) \/ CronSkip(r) \/ Abandon(r) \/ FreezeAges(r)
             \/ GrantInviteeBonus(r)
      PROVE  HoldsNoMore /\ overwritten' = overwritten
  BY <1>7, <1>u DEF Refuse, BeginUnfrozen, FreezeLock, TxFails, Unlock,
       ReadFreeze, CloseLock, EndUnfrozen, AfterCharge, CronSkip, Abandon,
       FreezeAges, GrantInviteeBonus, SaveCredits, row, orders
<1>8. ASSUME \/ CronScan \/ ReadExpiredQuota \/ QuotaExpires \/ LockExpires
             \/ \E amt \in Grants : CreditBalance(amt)
             \/ \E amt \in Payouts : WithdrawBalance(amt) \/ RefundBalance(amt)
             \/ \E amt \in Purchases : PaymentReads(amt)
             \/ \E read \in reads : PaymentFails(read)
      PROVE  HoldsNoMore /\ overwritten' = overwritten
  BY <1>8, <1>u DEF CronScan, ReadExpiredQuota, QuotaExpires, LockExpires,
       CreditBalance, WithdrawBalance, RefundBalance, PaymentReads,
       PaymentFails, SaveCredits, row, orders
<1> QED
  BY <1>1, <1>2, <1>3, <1>4, <1>5, <1>6, <1>7, <1>8
     DEF Next, RequestStep, CronStep, AccountStep

\* The sum of the open holds is a number, which falls when holds are closed
\* and grows by no more than the estimate when one is opened.
LEMMA HoldsSum ==
    ASSUME RestOK
    PROVE  /\ FrozenRecords \in SUBSET Requests /\ IsFiniteSet(FrozenRecords)
           /\ SumFunctionOnSet(held, FrozenRecords) \in Nat
<1>1. FrozenRecords \in SUBSET Requests /\ IsFiniteSet(FrozenRecords)
  BY FS_Subset, LedgerAssumption DEF FrozenRecords
<1>2. \A r \in FrozenRecords : held[r] \in Nat
  BY <1>1 DEF RestOK
<1> QED
  BY <1>1, <1>2, SumNat

LEMMA FreezeAddsHold ==
    ASSUME RestOK, NEW r \in Requests, NEW est \in Nat
    PROVE  /\ status' = [status EXCEPT ![r] = "FROZEN"]
           /\ held' = [held EXCEPT ![r] = est]
           => SumFunctionOnSet(held, FrozenRecords)'
                <= SumFunctionOnSet(held, FrozenRecords) + est
<1> DEFINE Open == FrozenRecords
           now == [held EXCEPT ![r] = est]
<1>1. /\ IsFiniteSet(Open) /\ now[r] = est
      /\ \A q \in Open : held[q] \in Nat
      /\ \A q \in Open \ {r} : now[q] = held[q]
  BY HoldsSum DEF RestOK
<1>2. status' = [status EXCEPT ![r] = "FROZEN"] => FrozenRecords' = Open \union {r}
  BY DEF RestOK, FrozenRecords
<1> HIDE DEF Open, now
<1>3. SumFunctionOnSet(now, Open \union {r}) <= SumFunctionOnSet(held, Open) + est
  BY <1>1, SumPut
<1> QED
  BY <1>2, <1>3 DEF Open, now

\* Whatever settles, releases, adjusts or expires, the frozen units cover every
\* open hold until a payment saves over a freeze.
THEOREM HoldsAreReserved == Spec => []HoldsReserved
<1> DEFINE Total == SumFunctionOnSet(held, FrozenRecords)
<1>1. Init => HoldsReserved
  <2> SUFFICES ASSUME Init PROVE Total <= units["frozen"]
    BY Zenon DEF HoldsReserved
  <2>1. FrozenRecords = {}
    BY DEF Init, FrozenRecords
  <2>2. units["frozen"] = 0
    BY DEF Init, EmptyLedger, Field
  <2> QED
    BY <2>1, <2>2, SumEmpty
<1>2. AccountInv /\ HoldsReserved /\ [Next]_vars => HoldsReserved'
  <2> SUFFICES ASSUME AccountInv, HoldsReserved, [Next]_vars
               PROVE  HoldsReserved'
    OBVIOUS
  <2>0. RowNat /\ RestOK
    BY DEF AccountInv
  <2>n. Total \in Nat /\ units["frozen"] \in Nat
    BY <2>0, HoldsSum, HydratedFrozen
  <2>1. ASSUME HoldsNoMore, ~overwritten' => ~overwritten
        PROVE  HoldsReserved'
    <3>1. /\ \A r \in FrozenRecords : held[r] \in Nat
          /\ FrozenRecords' \in SUBSET FrozenRecords
      BY <2>0, <2>1 DEF RestOK, FrozenRecords, HoldsNoMore
    <3>2. SumFunctionOnSet(held, FrozenRecords') <= Total
      BY <2>0, <3>1, HoldsSum, SumSubset
    <3>3. SumFunctionOnSet(held, FrozenRecords') \in Nat
      <4>1. IsFiniteSet(FrozenRecords')
        BY <2>0, <3>1, HoldsSum, FS_Subset
      <4> QED
        BY <3>1, <4>1, SumNat
    <3>4. held' = held /\ units'["frozen"] \in Nat /\ units'["frozen"] >= units["frozen"]
      BY <2>1 DEF HoldsNoMore
    <3>5. Total <= units["frozen"] => Total' <= units'["frozen"]
      <4>1. Total' = SumFunctionOnSet(held, FrozenRecords')
        BY <3>4
      <4>2. \A a, b, c, d \in Nat : a <= b /\ b <= c /\ d >= c => a <= d
        OBVIOUS
      <4> QED
        BY <2>n, <3>2, <3>3, <3>4, <4>1, <4>2
    <3> QED
      BY <2>1, <3>5, Zenon DEF HoldsReserved
  <2>2. ASSUME NEW r \in Requests, NEW est \in Estimates,
               FreezeTx(r, est), Available(Hydrated) >= est
        PROVE  HoldsReserved'
    <3>1. est \in Nat
      BY LedgerAssumption
    <3>2. Total' <= Total + est
      BY <2>0, <2>2, <3>1, FreezeAddsHold DEF FreezeTx
    <3>3. units'["frozen"] = Hydrated["frozen"] + est
      <4>1. units' = [Hydrated EXCEPT !["frozen"] = @ + est]
        BY <2>2 DEF FreezeTx, SaveUnits
      <4> QED
        BY <2>0, <4>1, RowHydrated DEF NatLedger, Field
    <3>4. Total' \in Nat
      <4>1. RestOK'
        BY <2>2, RestStep DEF Next, RequestStep
      <4>2. (/\ FrozenRecords \in SUBSET Requests /\ IsFiniteSet(FrozenRecords)
             /\ SumFunctionOnSet(held, FrozenRecords) \in Nat)'
        BY <4>1, HoldsSum, PTL
      <4> QED
        BY <4>2
    <3>5. Total <= units["frozen"] => Total' <= units'["frozen"]
      <4>1. \A a, b, c, h, e, u \in Nat :
                a <= b + e /\ b <= c /\ c <= h /\ u = h + e => a <= u
        OBVIOUS
      <4>2. /\ Hydrated["frozen"] \in Nat /\ Hydrated["frozen"] >= units["frozen"]
            /\ units'["frozen"] \in Nat
        BY <2>0, <3>1, <3>3, HydratedFrozen
      <4> QED
        BY <2>n, <3>1, <3>2, <3>3, <3>4, <4>1, <4>2
    <3>6. overwritten' = overwritten
      BY <2>2 DEF FreezeTx, orders
    <3> QED
      BY <3>5, <3>6, Zenon DEF HoldsReserved
  <2>3. CASE UNCHANGED vars
    <3>1. UNCHANGED <<held, status, units, overwritten>>
      BY <2>3 DEF vars, row, freezes, orders
    <3>2. HoldsNoMore
      BY <2>n, <3>1 DEF HoldsNoMore, FrozenRecords
    <3>3. ~overwritten' => ~overwritten
      BY <3>1
    <3> QED
      BY <2>1, <3>2, <3>3
  <2>4. ASSUME NEW read \in reads, PaymentSaves(read)
        PROVE  ~overwritten' => ~overwritten
    <3>1. overwritten' = (overwritten \/ row # <<read.units, read.credits>>)
      BY <2>4 DEF PaymentSaves
    <3> QED
      BY <3>1, Zenon
  <2>5. ASSUME NEW read \in reads, PaymentSaves(read),
               row # <<read.units, read.credits>>
        PROVE  HoldsReserved'
    <3>1. overwritten'
      <4>1. overwritten' = (overwritten \/ row # <<read.units, read.credits>>)
        BY <2>5, Zenon DEF PaymentSaves
      <4> QED
        BY <2>5, <4>1, Zenon
    <3> QED
      BY <3>1, Zenon DEF HoldsReserved
  <2> QED
    <3>1. CASE Next
      BY <2>1, <2>2, <2>4, <2>5, <3>1, HoldsStep, Zenon
    <3> QED
      BY <2>3, <3>1
<1> QED
  BY <1>1, <1>2, AccountInvariance, PTL DEF Spec

=============================================================================
