CONSTANTS
    Callers = {c1, c2}
    MaxFailures = 2
    RateNum = 1
    RateDen = 2
    MinRequests = 2
    OpenTimeout = 1
    Slack = 2
    Window = 2
    Faults = TRUE
    MaxRequests = 4
SPECIFICATION Spec
INVARIANTS TripHolds
PROPERTIES NoProbeOfClosed NeverStuckOpen
