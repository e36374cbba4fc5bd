\* Failing writes, crashes and restarts, one process.  The heavy batch fills the queue
\* alone, where the limit of count would admit a second one.
SPECIFICATION Spec
CONSTANTS
    r1 = r1
    r2 = r2
    r3 = r3
    Runs = {r1, r2, r3}
    NoRun = NoRun
    Heavy = r1
    AssetBytes <- MCBytes
    MaxQueuedRuns = 2
    MaxQueuedBytes = 2
    Peer = FALSE
    MaxFailures = 1
    MaxCrashes = 1
    MaxUpdates = 0
    MaxRequest = 0
SYMMETRY Symmetry
INVARIANTS
    SpendsAsAsked
    WaitingRunsAgree
    WithinLimits
PROPERTIES
    RunnerKeepsGoing
    EndedStaysEnded
CHECK_DEADLOCK FALSE
