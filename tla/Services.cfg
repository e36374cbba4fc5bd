SPECIFICATION Spec
CONSTANTS
    None = None
    Absent = Absent
    Mine = Mine
    ViewedRuns <- TwoRuns
    Busy <- TheFirst
    MaxViews = 4
    Last = 4
    GalleryPage = 2
    Going = 2
    MaxAsks = 5
    PicturedRuns <- ThreeRuns
    LiveAtFirst <- TheFirst
    MaxRenders = 1
    MaxResults = 2
    Procs <- ThreeProcs
    Version <- Versions
    Models <- OneModel
    Prompts <- TwoPrompts
    Shipped <- Catalogs
    Legacy = 1
    EditedTexts <- EditedPrompt
    MaxChanges = 2
    MaxFaults = 1
    Files <- FourFiles
    Name <- Names
    Slug <- Slugs
    Everything <- All
    AtFirst <- Folders
    Numbered <- Numbers
    Spelling <- Spellings
    Picks <- Batches
    MaxClicks = 3
    MaxMishaps = 1
    MaxJobs = 2
    MaxRequests = 4
    ClientIds <- TwoIds
    MaxInFlight = 2
    MaxLines = 5
    Sources <- TwoSources
    Wordings <- TwoWordings
    Engines <- TwoEngines
    Order <- OneThenTwo
    Contents <- ThreeContents
    Failures <- TwoFailures
    MaxMeddling = 1
    MaxRetries = 2
    StoredRuns <- TwoStored
    Elsewhere <- OneElsewhere
    CacheMax = 1
    PageSize = 1
    MaxAge = 1
    UsageTtl = 1
    MaxClock = 3
    MaxActs = 3
    Entries <- FourEntries
    Sizes <- UpToTwo
    MaxInput = 5
    MaxTotal = 150
    MaxEntries = 3
    MaxRewrites = 2
    Themes <- TwoThemes
    Room = 3
    MaxTurns = 3
    r1 = r1
    r2 = r2
    r3 = r3
    p1 = p1
    p2 = p2
    p3 = p3
    model = model
    prompt = prompt
    fresh = fresh
    A = A
    B = B
    C = C
INVARIANTS
    ChoicesSettle
    CatalogIsTheUsers
    InputsAreSound
    CallersAreServed
    StoreIsTrue
PROPERTIES
    PagesAreTrue
    HarvestIsSafe
SYMMETRY Alike
CHECK_DEADLOCK FALSE
