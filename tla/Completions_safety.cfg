CONSTANTS
    Requests = {r1, r2}
    Channels = {ch1, ch2}
    MaxRetries = 3
SPECIFICATION CompletionsSpec
SYMMETRY Interchangeable
INVARIANTS CompletionsTypeOK OneCharge MeteredIsBilled HoldsEnd LoadBalanced
CHECK_DEADLOCK FALSE
