CONSTANTS
    Requests = {r1, r2}
    Nobody = Nobody
    BillingUnitsPerCredit = 2
    Gifts = {1}
    Recharges = {}
    Adjustments = {}
    Grants = {}
    Purchases = {1}
    Payouts = {}
    Estimates = {2}
    Costs = {0, 1}
    UnlockThreshold = 1
    InviteeBonus = 1
    InviteeUnlock = 9
    MaxUnits = 3
    MaxPurges = 0
    MaxRefunds = 1
SPECIFICATION FairSpec
INVARIANTS HoldsReserved
PROPERTY HoldsClosed
CHECK_DEADLOCK FALSE
