CONSTANTS
    Tasks = {t1, t2}
    Registered = {t1}
    Workers = {w1, w2}
    MaxMessages = 2
SPECIFICATION FairSpec
INVARIANTS OneRunner
PROPERTIES DeliversTasks Answered
CHECK_DEADLOCK FALSE
