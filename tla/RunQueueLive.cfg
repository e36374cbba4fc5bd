\* Two daemons on one output directory: progress of the queue, of recovery and of a
\* deferred restart, and what the peer and every reorder request may not do.
SPECIFICATION FairSpec
CONSTANTS
    r1 = r1
    r2 = r2
    Runs = {r1, r2}
    NoRun = NoRun
    Heavy = NoRun
    AssetBytes <- MCBytes
    MaxQueuedRuns = 2
    MaxQueuedBytes = 2
    Peer = TRUE
    MaxFailures = 0
    MaxCrashes = 2
    MaxUpdates = 1
    MaxRequest = 2
PROPERTIES
    WritesUnderLease
    OrderIsKept
    NothingIsStuck
CHECK_DEADLOCK FALSE
