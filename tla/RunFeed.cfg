\* One tab, a run of the daemon that the user may delete, and a run of another process.
SPECIFICATION FeedFairSpec
CONSTANTS
    r1 = r1  r2 = r2
    Runs <- MCRuns
    Remote = {r2}  Unwanted = {r1}
    None = None
    MaxAnswers = 2  MaxDeletes = 2  MaxDisturbances = 1
INVARIANTS Watched
PROPERTIES PageCatchesUp WishIsKept
CHECK_DEADLOCK FALSE
