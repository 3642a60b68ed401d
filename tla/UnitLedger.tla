----------------------------- MODULE UnitLedger -----------------------------
(***************************************************************************)
(* The two ledgers kept in one row of user_balances.  Every amount of the  *)
(* row is stored twice: in credits (the display ledger) and in billing     *)
(* units (the precise ledger, BillingUnitsPerCredit units to a credit).    *)
(* A ledger is a function from Field; the row is a pair of such functions. *)
(* This module holds the conversions between the two and the arithmetic    *)
(* the balance service performs on one of them.                            *)
(***************************************************************************)
EXTENDS Integers

CONSTANT BillingUnitsPerCredit   \* 10 000 in the code

ASSUME UnitsAssumption == BillingUnitsPerCredit \in Nat \ {0}

\* Balance, FreeQuota, FrozenAmount, TotalConsumed, TotalRecharged.
Field == {"balance", "free", "frozen", "consumed", "recharged"}

Ledger == [Field -> Int]

EmptyLedger == [x \in Field |-> 0]

CreditsToBillingUnits(c) == c * BillingUnitsPerCredit

\* math.Round(u / BillingUnitsPerCredit): halves go away from zero.
BillingUnitsToCredits(u) ==
    IF u >= 0
    THEN (2 * u + BillingUnitsPerCredit) \div (2 * BillingUnitsPerCredit)
    ELSE -((BillingUnitsPerCredit - 2 * u) \div (2 * BillingUnitsPerCredit))

\* The units a unit-ledger operation starts from: a unit column that is still
\* zero is filled from its credit column.
hydrateBalanceUnits(u, c) ==
    [x \in Field |-> IF u[x] = 0 /\ c[x] > 0 THEN CreditsToBillingUnits(c[x])
                                             ELSE u[x]]

\* The credit columns as the unit columns determine them.
syncBalanceCreditFields(u) == [x \in Field |-> BillingUnitsToCredits(u[x])]

Available(u) == u["balance"] + u["free"] - u["frozen"]

\* How much of amt the free quota pays; the balance pays the rest.
PaidByFreeQuota(l, amt) ==
    IF l["free"] <= 0 THEN 0
    ELSE IF l["free"] >= amt THEN amt ELSE l["free"]

\* Mutation: the balance pays the part the free quota has paid as well.
SpendTwice(l, amt) ==
    [l EXCEPT !["free"]     = @ - PaidByFreeQuota(l, amt),
              !["balance"]  = @ - amt,
              !["consumed"] = @ + amt]

SpendFreeFirst(l, amt) ==
    [l EXCEPT !["free"]     = @ - PaidByFreeQuota(l, amt),
              !["balance"]  = @ - (amt - PaidByFreeQuota(l, amt)),
              !["consumed"] = @ + amt]

NotBelowZero(n) == IF n < 0 THEN 0 ELSE n
=============================================================================
