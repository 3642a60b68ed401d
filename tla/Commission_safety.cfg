SPECIFICATION Spec
CONSTANTS
    Jobs = {j1, j2}
    Config <- MCConfig
    Override <- MCOverride
    RuleShare = 1
    TTL = 1
    Timeout = 2
    Faults = TRUE
    MaxEarned = 2
SYMMETRY Interchangeable
INVARIANTS CapOvershoot StaleBounded
PROPERTIES OnlyRacesPass
