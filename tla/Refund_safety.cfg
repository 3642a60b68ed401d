CONSTANTS
    p1 = p1
    r1 = r1
    r2 = r2
    Payments = {p1}
    Price <- MCPrice
    CreditPerRMB = 2
    Deliveries = {d1}
    Crashes = TRUE
    MaxRecharges = 2
    Refunds = {r1, r2}
    OrderOf <- MCOrderOf
    AmountOf <- MCAmountOf
    Reviews = {v1, v2}
    DailyLimit = 3
    GatewayFailures = FALSE
    Direct = TRUE
SYMMETRY OrderSymmetry
SPECIFICATION Spec
INVARIANTS OnlyPaidCredited NothingInvented DebitsCovered RecreditNeedsRefund
CHECK_DEADLOCK FALSE
