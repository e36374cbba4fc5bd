\* Two jobs of one screenshot, both at a time.
SPECIFICATION FairSpec
CONSTANTS
    seeing = seeing
    blind = blind
    shot = shot
    Jobs = {seeing, blind}
    Inputs = {shot}
    InputOf <- OneShot
    Sighted = {seeing}
    Total = 2
    Warmed = {shot}
    Budget = 2
    SelfCheck = TRUE
    MaxOutputFails = 1
    MaxManifestFails = 1
    UnreadableDrafts = FALSE
INVARIANTS
    DocumentsAreSound
    LedgerIsTrue
PROPERTIES
    PaidOncePerPass
    RunEnds
CHECK_DEADLOCK FALSE
