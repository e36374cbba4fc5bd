SPECIFICATION FairSpec
CONSTANTS
    d1 = d1  d2 = d2
    None = None  Orphan = Orphan
    Daemons <- MCDaemons
    MaxDisturbances = 2
    ReviveAfterMisses = 2  BusyPatience = 2  ReviveGrace = 3
    CrashLoopMax = 1  CrashLoopWindow = 4
    RestartRetries = 1
INVARIANTS OneAtATime
PROPERTIES BusyIsSpared ComesBack
CHECK_DEADLOCK FALSE
