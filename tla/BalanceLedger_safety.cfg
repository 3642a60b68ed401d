CONSTANTS
    Requests = {r1, r2}
    Nobody = Nobody
    BillingUnitsPerCredit = 2
    Gifts = {1}
    Recharges = {3}
    Adjustments <- MCAdjustments
    Grants = {1}
    Purchases = {}
    Payouts = {1}
    Estimates = {2, 4}
    Costs = {0, 2}
    UnlockThreshold = 1
    InviteeBonus = 1
    InviteeUnlock = 1
    MaxUnits = 3
    MaxPurges = 1
    MaxRefunds = 1
SYMMETRY RequestSymmetry
SPECIFICATION Spec
INVARIANTS NoOverdraft LeaseExcludes HoldsReserved BonusPaidOnce
PROPERTIES SpendKeepsHolds UnitsConserved
CHECK_DEADLOCK FALSE
