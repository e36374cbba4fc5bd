\* Two pools, the second of which gets a key of the first and loses it again; two requests.
SPECIFICATION Spec
CONSTANTS
    k1 = k1
    k2 = k2
    A = A
    B = B
    w1 = w1
    w2 = w2
    Keys = {k1, k2}
    Pools = {A, B}
    Workers = {w1, w2}
    Nobody = Nobody
    NoKey = NoKey
    NoPool = NoPool
    Rosters <- ImportRosters
    BootPools = {A, B}
    Cooldown <- ShortCooldowns
    RetryAfters = {0}
    Answers = {"auth", "permission"}
SYMMETRY Symmetry
INVARIANTS
    LeasesAreSound
    VerdictsAreKept
PROPERTIES
    VerdictsStand
CHECK_DEADLOCK FALSE
