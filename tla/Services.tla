------------------------------ MODULE Services ------------------------------
(***************************************************************************)
(* Parts of the program that share no state, as one specification: each    *)
(* behaviour is one of one part, and the variables of the others stay off. *)
(* The constants are those of the parts, each with the name it has there,  *)
(* or with one of its own where two parts use one name.                    *)
(***************************************************************************)
EXTENDS Naturals, Sequences, FiniteSets

CONSTANTS
    None, Absent, Mine,                                       \* no value, no text, the user's text
    ViewedRuns, Busy, MaxViews,                               \* Viewer
    Last, GalleryPage, Going, MaxAsks,                        \* Gallery
    PicturedRuns, LiveAtFirst, MaxRenders, MaxResults,        \* Thumbnail
    Procs, Version, Models, Prompts, Shipped, Legacy,         \* ConfigStore
    EditedTexts, MaxChanges, MaxFaults,
    Files, Name, Slug, Everything, AtFirst, Numbered,         \* Inputs
    Spelling, Picks, MaxClicks, MaxMishaps,
    MaxJobs, MaxRequests,                                     \* CostEstimate
    ClientIds, MaxInFlight, MaxLines,                         \* Mcp
    Sources, Wordings, Engines, Order, Contents, Failures,    \* Recipe
    MaxMeddling, MaxRetries,
    StoredRuns, Elsewhere, CacheMax, PageSize, MaxAge,        \* RunStore
    UsageTtl, MaxClock, MaxActs,
    Entries, Sizes, MaxInput, MaxTotal, MaxEntries,           \* Export
    MaxRewrites,
    Themes, Room, MaxTurns                                    \* Sync

ASSUME ViewerAssumption == None \notin ViewedRuns

ASSUME ThumbnailAssumption ==
    /\ IsFiniteSet(PicturedRuns)
    /\ None \notin [results : Nat, ended : BOOLEAN, thumb : BOOLEAN]
    /\ MaxRenders \in Nat

ASSUME GalleryAssumption == Last \in Nat

ASSUME ConfigAssumption ==
    /\ None \notin {Mine, Absent, "any"} /\ Mine \notin {Absent, "any"} /\ Absent # "any"
    /\ None \notin [owner : Procs, written : BOOLEAN]
    /\ \A p \in Procs : Version[p] # 0
    /\ \A b \in {Legacy} \cup {Version[p] : p \in Procs}, i \in Models \cup Prompts :
         Shipped[b][i] # Mine

ASSUME McpAssumption == MaxInFlight \in Nat

ASSUME RecipeAssumption ==
    /\ IsFiniteSet(Sources) /\ IsFiniteSet(Wordings) /\ IsFiniteSet(Engines)
    /\ Contents \subseteq Seq(UNION {{c[i] : i \in DOMAIN c} : c \in Contents})
    /\ Order \in Seq(Sources) /\ \A i, j \in DOMAIN Order : Order[i] = Order[j] => i = j
    /\ Failures \subseteq [Sources \X Wordings \X Engines -> Nat]

ASSUME StoreAssumption ==
    /\ IsFiniteSet(StoredRuns) /\ StoredRuns \subseteq Nat /\ None \notin StoredRuns
    /\ Elsewhere \subseteq StoredRuns
    /\ None \notin [status : {"running", "parked", "ended"}, text : Nat, size : Nat, at : Nat,
                   sizes : SUBSET Nat]
    /\ None \notin [for : {"prune"}, todo : SUBSET StoredRuns, run : StoredRuns \cup {None}]
    /\ None \notin [for : {"write"}, run : StoredRuns,
                   row : [run : StoredRuns, status : {"running", "parked", "ended"}, text : Nat]]
    /\ MaxAge \in Nat /\ UsageTtl \in Nat /\ CacheMax \in Nat

ASSUME ExportAssumption ==
    /\ DOMAIN Entries \subseteq Nat /\ Sizes \subseteq Nat /\ MaxInput \in Nat
    /\ \A e \in DOMAIN Entries : "file" \notin DOMAIN Entries[e] => Entries[e].packed \in Nat

ASSUME SyncAssumption ==
    None \notin [ok : {TRUE}, enabled : BOOLEAN, connected : BOOLEAN, theme : Themes \cup {None}]
               \cup [ok : {FALSE}]

VARIABLES
    part,
    mounted, runId, view, stream, loads, review, gets, stars, puts, live, file,
    intended, early, spoilt, loose, events,
    disk, going, made, rows, nextCursor, deleting, confirmed, pages, deletions, brought, asks,
    manifests, memory, image, inputs, stage, snapshot, waiters, revived,
    lock, files, text, archive, baseline, pc, task, seen, left,
    chosen, forgotten, lingers, raced, unread, cut, changes, faults,
    folder, images, version, listed, listedAt, loaded, ticks, uploads, calls, took, clicks, mishaps,
    overtaken,
    jobs, due, requests, seq, price,
    sent, backlog, inFlight, registry, aborted, answers, missed, twins, lines, open, done,
    source, catalog, legacy, texts, stageOf, todo, opened, opening, torn, spec, assets, failed,
    retries, meddled,
    manifest, dir, kept, owned, clock, cache, daemon, scan, shown, usage, unsettled, blurred,
    untold, acts,
    content, plan, phase, place, got, emitted, centrals, offset, declared, observed, hungUp, rewrites,
    theme, told, enabled, connected, appearance, pending, remote, messages, apart, spurned, turns

V == INSTANCE Viewer WITH Runs <- ViewedRuns, MaxEvents <- MaxViews

G == INSTANCE Gallery WITH PageSize <- GalleryPage

T == INSTANCE Thumbnail WITH disk <- manifests, Runs <- PicturedRuns, Live <- LiveAtFirst

S == INSTANCE ConfigStore WITH Edited <- EditedTexts

I == INSTANCE Inputs WITH
       disk <- folder, shown <- listed, seen <- listedAt, asks <- clicks, faults <- mishaps,
       MaxAsks <- MaxClicks, MaxFaults <- MaxMishaps

E == INSTANCE CostEstimate WITH shown <- price

M == INSTANCE Mcp WITH queue <- backlog, Ids <- ClientIds

R == INSTANCE Recipe WITH
       folder <- source, pc <- stageOf, chosen <- opening, events <- meddled,
       Files <- Sources, Prompts <- Wordings, Models <- Engines, MaxEvents <- MaxMeddling

D == INSTANCE RunStore WITH Runs <- StoredRuns, MaxEvents <- MaxActs

X == INSTANCE Export WITH pc <- phase, aborted <- hungUp, events <- rewrites, MaxEvents <- MaxRewrites

Y == INSTANCE Sync WITH due <- pending, calls <- messages, events <- turns, MaxEvents <- MaxTurns

Off == 0

ofViewer == <<mounted, runId, view, stream, loads, review, gets, stars, puts, live, file, intended,
    early, spoilt, loose, events>>
ofGallery == <<disk, going, made, rows, nextCursor, deleting, confirmed, pages, deletions, brought, asks>>
ofThumbnail == <<manifests, memory, image, inputs, stage, snapshot, waiters, revived>>
ofConfigStore == <<lock, files, text, archive, baseline, pc, task, seen, left, chosen, forgotten,
    lingers, raced, unread, cut, changes, faults>>
ofInputs == <<folder, images, version, listed, listedAt, loaded, ticks, uploads, calls, took, clicks,
    mishaps, overtaken>>
ofEstimate == <<jobs, due, requests, seq, price>>
ofMcp == <<sent, backlog, inFlight, registry, aborted, answers, missed, twins, lines, open, done>>
ofRecipe == <<source, catalog, legacy, texts, stageOf, todo, opened, opening, torn, spec, assets,
    failed, retries, meddled>>
ofRunStore == <<manifest, dir, kept, owned, clock, cache, daemon, scan, shown, usage, unsettled, blurred,
    untold, acts>>
ofExport == <<content, plan, phase, place, got, emitted, centrals, offset, declared, observed, hungUp,
    rewrites>>
ofSync == <<theme, told, enabled, connected, appearance, pending, remote, messages, apart, spurned,
    turns>>
vars == <<part, ofViewer, ofGallery, ofThumbnail, ofConfigStore, ofInputs, ofEstimate, ofMcp,
    ofRecipe, ofRunStore, ofExport, ofSync>>

Parts == {"Viewer", "Gallery", "Thumbnail", "ConfigStore", "Inputs", "Estimate", "Mcp",
          "Recipe", "RunStore", "Export", "Sync"}

\* The variables of a part that is not the one are off.
NoViewer ==
    /\ mounted = Off /\ runId = Off /\ view = Off /\ stream = Off /\ loads = Off
    /\ review = Off /\ gets = Off /\ stars = Off /\ puts = Off /\ live = Off
    /\ file = Off /\ intended = Off /\ early = Off /\ spoilt = Off /\ loose = Off
    /\ events = Off

NoGallery ==
    /\ disk = Off /\ going = Off /\ made = Off /\ rows = Off /\ nextCursor = Off
    /\ deleting = Off /\ confirmed = Off /\ pages = Off /\ deletions = Off
    /\ brought = Off /\ asks = Off

NoThumbnail ==
    /\ manifests = Off /\ memory = Off /\ image = Off /\ inputs = Off /\ stage = Off
    /\ snapshot = Off /\ waiters = Off /\ revived = Off

NoConfigStore ==
    /\ lock = Off /\ files = Off /\ text = Off /\ archive = Off /\ baseline = Off /\ pc = Off
    /\ task = Off /\ seen = Off /\ left = Off /\ chosen = Off /\ forgotten = Off
    /\ lingers = Off /\ raced = Off /\ unread = Off /\ cut = Off /\ changes = Off /\ faults = Off

NoInputs ==
    /\ folder = Off /\ images = Off /\ version = Off /\ listed = Off /\ listedAt = Off
    /\ loaded = Off /\ ticks = Off /\ uploads = Off /\ calls = Off /\ took = Off
    /\ clicks = Off /\ mishaps = Off /\ overtaken = Off

NoEstimate ==
    /\ jobs = Off /\ due = Off /\ requests = Off /\ seq = Off /\ price = Off

NoMcp ==
    /\ sent = Off /\ backlog = Off /\ inFlight = Off /\ registry = Off /\ aborted = Off
    /\ answers = Off /\ missed = Off /\ twins = Off /\ lines = Off /\ open = Off
    /\ done = Off

NoRecipe ==
    /\ source = Off /\ catalog = Off /\ legacy = Off /\ texts = Off /\ stageOf = Off
    /\ todo = Off /\ opened = Off /\ opening = Off /\ torn = Off /\ spec = Off
    /\ assets = Off /\ failed = Off /\ retries = Off /\ meddled = Off

NoRunStore ==
    /\ manifest = Off /\ dir = Off /\ kept = Off /\ owned = Off /\ clock = Off /\ cache = Off
    /\ daemon = Off /\ scan = Off /\ shown = Off /\ usage = Off /\ unsettled = Off
    /\ blurred = Off /\ untold = Off /\ acts = Off

NoExport ==
    /\ content = Off /\ plan = Off /\ phase = Off /\ place = Off /\ got = Off /\ emitted = Off
    /\ centrals = Off /\ offset = Off /\ declared = Off /\ observed = Off
    /\ hungUp = Off /\ rewrites = Off

NoSync ==
    /\ theme = Off /\ told = Off /\ enabled = Off /\ connected = Off /\ appearance = Off
    /\ pending = Off /\ remote = Off /\ messages = Off /\ apart = Off /\ spurned = Off
    /\ turns = Off

Init ==
    /\ part \in Parts
    /\ IF part = "Viewer" THEN V!Init ELSE NoViewer
    /\ IF part = "Gallery" THEN G!Init ELSE NoGallery
    /\ IF part = "Thumbnail" THEN T!Init ELSE NoThumbnail
    /\ IF part = "ConfigStore" THEN S!Init ELSE NoConfigStore
    /\ IF part = "Inputs" THEN I!Init ELSE NoInputs
    /\ IF part = "Estimate" THEN E!Init ELSE NoEstimate
    /\ IF part = "Mcp" THEN M!Init ELSE NoMcp
    /\ IF part = "Recipe" THEN R!Init ELSE NoRecipe
    /\ IF part = "RunStore" THEN D!Init ELSE NoRunStore
    /\ IF part = "Export" THEN X!Init ELSE NoExport
    /\ IF part = "Sync" THEN Y!Init ELSE NoSync

\* The others stay off.
StaysBut(p) ==
    /\ part' = part
    /\ p # "Viewer" => UNCHANGED ofViewer
    /\ p # "Gallery" => UNCHANGED ofGallery
    /\ p # "Thumbnail" => UNCHANGED ofThumbnail
    /\ p # "ConfigStore" => UNCHANGED ofConfigStore
    /\ p # "Inputs" => UNCHANGED ofInputs
    /\ p # "Estimate" => UNCHANGED ofEstimate
    /\ p # "Mcp" => UNCHANGED ofMcp
    /\ p # "Recipe" => UNCHANGED ofRecipe
    /\ p # "RunStore" => UNCHANGED ofRunStore
    /\ p # "Export" => UNCHANGED ofExport
    /\ p # "Sync" => UNCHANGED ofSync

Next ==
    \/ part = "Viewer" /\ V!Next /\ StaysBut("Viewer")
    \/ part = "Gallery" /\ G!Next /\ StaysBut("Gallery")
    \/ part = "Thumbnail" /\ T!Next /\ StaysBut("Thumbnail")
    \/ part = "ConfigStore" /\ S!Next /\ StaysBut("ConfigStore")
    \/ part = "Inputs" /\ I!Next /\ StaysBut("Inputs")
    \/ part = "Estimate" /\ E!Next /\ StaysBut("Estimate")
    \/ part = "Mcp" /\ M!Next /\ StaysBut("Mcp")
    \/ part = "Recipe" /\ R!Next /\ StaysBut("Recipe")
    \/ part = "RunStore" /\ D!Next /\ StaysBut("RunStore")
    \/ part = "Export" /\ X!Next /\ StaysBut("Export")
    \/ part = "Sync" /\ Y!Next /\ StaysBut("Sync")

Spec == Init /\ [][Next]_vars

\* What the user chose last is what is stored, and what the page holds (Viewer); the page and
\* the daemon come to have one theme (Sync).
ChoicesSettle == (part = "Viewer" => V!ReviewSettles) /\ (part = "Sync" => Y!AgreeAtRest)

\* The catalog is what the user chose, and what is shipped elsewhere (ConfigStore).
CatalogIsTheUsers == part = "ConfigStore" => S!CatalogIsTheUsers

\* The page's list and its ticks are those of the files on disk, a run is made of all that was
\* ticked and of nothing else (Inputs), and the price is that of what is selected (CostEstimate).
InputsAreSound ==
    /\ part = "Inputs" => I!PageFits /\ I!TakesWhatIsTicked
    /\ part = "Estimate" => E!EstimateFits

\* An agent's requests are served in turn (Mcp); a run is made of what it was asked for, and a
\* retry repeats what failed (Recipe).
CallersAreServed == (part = "Mcp" => M!ServesAll) /\ (part = "Recipe" => R!RecipeIsKept)

\* What the store says of the runs is so, and what it clears away may go (RunStore); the archive
\* of a run that goes on can be opened (Export).
StoreIsTrue == (part = "RunStore" => D!StoreIsTrue) /\ (part = "Export" => X!ExportIsWhole)

\* The page shows the run that is open, or nothing (Viewer); no row of a deleted run comes back,
\* and no other is lost (Gallery).
PagesAreTrue ==
    [][/\ part = "Viewer" => V!ShowsWhatItOpens
       /\ part = "Gallery" => G!RowsStayReal]_vars

\* A harvest takes nothing back, and keeps to its browsers (Thumbnail).
HarvestIsSafe == [][part = "Thumbnail" => T!HarvestsSafely]_vars
=============================================================================
