\* The daemon, and another process of the same installation.
SPECIFICATION AutoFairSpec
CONSTANTS
    daemon = daemon
    second = second
    Procs = {daemon, second}
    Host = daemon
    AgedBuilds = {"old"}
    MaxFailures = 1
    MaxCrashes = 1
    MaxToggles = 1
    MaxRuns = 1
INVARIANTS
    UpdatesAreSound
PROPERTIES
    UpdateArrives
CHECK_DEADLOCK FALSE
