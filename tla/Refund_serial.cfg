CONSTANTS
    p1 = p1
    r1 = r1
    r2 = r2
    Payments = {p1}
    Price <- MCPrice
    CreditPerRMB = 2
    Deliveries = {d1}
    Crashes = FALSE
    MaxRecharges = 1
    Refunds = {r1, r2}
    OrderOf <- MCOrderOf
    AmountOf <- MCAmountOf
    Reviews = {v1}
    DailyLimit = 3
    GatewayFailures = TRUE
    Direct = FALSE
SPECIFICATION FairSpec
INVARIANT RefundsCounted
PROPERTIES RefundFlow ApprovedEnds PaidIsCompleted
CHECK_DEADLOCK FALSE
