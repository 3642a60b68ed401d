CONSTANTS
    p1 = p1
    r1 = r1
    r2 = r2
    Payments = {p1}
    Price <- MCPrice
    CreditPerRMB = 2
    Deliveries = {d1, d2}
    Crashes = FALSE
    MaxRecharges = 2
    Refunds = {r1, r2}
    OrderOf <- MCOrderOf
    AmountOf <- MCAmountOf
    Reviews = {v1}
    DailyLimit = 3
    GatewayFailures = FALSE
    Direct = FALSE
SPECIFICATION Spec
INVARIANT CreditedOnce
CHECK_DEADLOCK FALSE
