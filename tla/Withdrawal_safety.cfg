CONSTANTS
    Requests = {w1, w2}
    Calls = {c1, c2}
    Nobody = Nobody
    Amounts = {2, 3}
    Opening = 4
    Spendings = {2}
SYMMETRY WithdrawalSymmetry
SPECIFICATION Spec
INVARIANTS BalanceCovered NothingLost RefundsOverlap
CHECK_DEADLOCK FALSE
