SPECIFICATION BonusSpec
CONSTANTS
    Invitees = {i1, i2, i3}
    Calls = {c1, c2}
    UnlockPaid = 2
    Bonus = 1
    MonthlyCap = 1
    MaxPaid = 2
    CallFaults = TRUE
SYMMETRY Interchangeable
INVARIANTS BonusOncePerInvitee MonthlyOvershoot PaidIsRewarded
