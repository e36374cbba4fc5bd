\* One shared key, two pools, two runs; two of its three calls can be cancelled.
SPECIFICATION FairSpec
CONSTANTS
    c1 = c1
    c2 = c2
    c3 = c3
    c4 = c4
    c5 = c5
    k1 = k1
    k2 = k2
    k3 = k3
    P = P
    Q = Q
    A = A
    B = B
    Calls = {c1, c2, c3, c4, c5}
    Keys = {k1, k2, k3}
    Pools = {P, Q}
    Runs = {A, B}
    KeyOf <- MCKeyOf
    PoolOf <- MCPoolOf
    RunOf <- MCRunOf
    LimitOf <- MCLimitOf
    PoolLimitOf <- MCPoolLimitOf
    Ceiling <- MCCeiling
    MaxCharge = 1
    NoLimit = 9
    Signalled = {c2, c3}
INVARIANTS
    GuardHolds
PROPERTIES
    PermitsWithinLimits
    CallsEnd
CHECK_DEADLOCK FALSE
