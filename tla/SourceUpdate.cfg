\* A developer who writes or commits twice, two commands that fail or crashes, two updates.
SPECIFICATION SourceSpec
CONSTANTS
    src = src
    gone = gone
    prog = prog
    Files = {src, gone, prog}
    Programs = {prog}
    Tree <- History
    Newest = 2
    MaxEdits = 2
    MaxFails = 2
    MaxApplies = 2
INVARIANTS
    EditsAreKept
    ReportIsTrue
PROPERTIES
    LandedComeBack
CHECK_DEADLOCK FALSE
