\* Claims that overlap at every step, and processes that die at any.
SPECIFICATION OwnerFairSpec
CONSTANTS
    Processes = {p1, p2, p3}
    NoFile = NoFile
    Nobody = Nobody
INVARIANTS
    OneVisibleOwner
PROPERTIES
    ClaimEnds
CHECK_DEADLOCK FALSE
