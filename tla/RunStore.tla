------------------------------ MODULE RunStore ------------------------------
(***************************************************************************)
(* The store of runs as the daemon keeps it (src/store/): the summaries it *)
(* holds in memory under a manifest's time and size, the listings made of  *)
(* them, the settling and the retention sweep of a boot, deletion, and the *)
(* disk usage it walks for.  A scan is one synchronous call: another       *)
(* process may write between any two of its file operations, the daemon's  *)
(* own requests may not.                                                   *)
(***************************************************************************)
EXTENDS Naturals, Sequences, FiniteSets, FiniteSetsExt, Subsequence

CONSTANTS None, Runs,   \* numbers: a later run has a higher one
          Elsewhere,    \* those of another process
          CacheMax, PageSize, MaxAge, UsageTtl,
          MaxClock, MaxEvents   \* bounds: time, and what is written, kept, deleted or asked

VARIABLES
    manifest,  \* run -> [status, text, size, at], and the sizes it had at this time, or None
    dir,       \* run -> "whole", "part" (a removal failed half way) or "none"
    kept,      \* runs whose review says so
    owned,     \* runs under a lease
    clock,
    cache,     \* the summaries, oldest first
    daemon,    \* "off", "settling", "listing", "pruning", "serving"
    scan,      \* the call that runs, or None
    shown,     \* the last listing: [rows, held, doubt, all], or None
    usage,     \* [value, until, walk]: the runs it counts, and the walk that is under way
    unsettled, \* runs that were under way or waited when this boot began
    blurred,   \* runs written without a new time or size, or cached under those of a later write
    untold,    \* runs that went while a walk was under way, or elsewhere
    acts

vars == <<manifest, dir, kept, owned, clock, cache, daemon, scan, shown, usage, unsettled, blurred,
          untold, acts>>

\* Everything was last written at 0.
Init ==
    /\ manifest \in [Runs -> {None} \cup
                      [status : {"running", "parked", "ended"}, text : {1}, size : {1}, at : {0},
                       sizes : {{1}}]]
    /\ \A r \in Elsewhere : manifest[r] # None /\ manifest[r].status = "running"
    /\ dir = [r \in Runs |-> IF manifest[r] = None THEN "none" ELSE "whole"]
    /\ kept \in SUBSET {r \in Runs : manifest[r] # None /\ manifest[r].status = "ended"}
    /\ owned = Elsewhere /\ clock = MaxAge + 1 /\ cache = <<>>
    /\ daemon = "off" /\ scan = None /\ shown = None
    /\ usage = [value |-> {}, until |-> 0, walk |-> None]
    /\ unsettled = {} /\ blurred = {} /\ untold = {} /\ acts = 0

Acts == acts < MaxEvents /\ acts' = acts + 1

-----------------------------------------------------------------------------
(* Manifests and their summaries.                                          *)
RowIn(m, r) == [run |-> r, status |-> m[r].status, text |-> m[r].text]

Row(r) == RowIn(manifest, r)

Listing == scan # None /\ scan.for \in {"all", "page"}

\* What a listing that runs may have found.
Holding(held) == [r \in Runs |-> held[r] \cup {IF manifest'[r] = None THEN None ELSE RowIn(manifest', r)}]

Noted == scan' = IF Listing THEN [scan EXCEPT !.held = Holding(@)] ELSE scan

\* A manifest is replaced whole.
Written(r, status, size) ==
    LET sizes == IF manifest[r] # None /\ manifest[r].at = clock THEN manifest[r].sizes ELSE {}
    IN /\ manifest' = [manifest EXCEPT ![r] =
            [status |-> status, text |-> IF @ = None THEN 1 ELSE @.text + 1, size |-> size,
             at |-> clock, sizes |-> sizes \cup {size}]]
       /\ blurred' = IF size \in sizes THEN blurred \cup {r} ELSE blurred \ {r}

Forgotten(c, r) == Pick(c, {n \in DOMAIN c : c[n].row.run # r})

\* cacheRunSummary: "every cache hit re-set()s its entry" (summary.ts:16), but none does: what
\* goes is what was read longest ago.
Remembered(c, e, ifRoom) ==
    LET others == Forgotten(c, e.row.run)
        all == Append(others, e)
    IN IF ifRoom /\ Len(others) = Len(c) /\ Len(c) >= CacheMax THEN c
       ELSE IF Len(all) > CacheMax THEN Tail(all) ELSE all

Entry(row, st) == [row |-> row, at |-> st.at, size |-> st.size]

\* Slip: the size is not compared.
SameTime(e, st) == e.at = st.at

Same(e, st) == e.at = st.at /\ e.size = st.size

Hit(r) == {e \in {cache[n] : n \in DOMAIN cache} : e.row.run = r /\ Same(e, manifest[r])}

-----------------------------------------------------------------------------
(* Listings: listRuns and listRunsPage.                                    *)
Begins(for) ==
    scan' = [for |-> for, todo |-> {r \in Runs : dir[r] # "none"}, run |-> None, st |-> None,
             row |-> None, rows |-> {}, doubt |-> {},
             held |-> [r \in Runs |-> {IF manifest[r] = None THEN None ELSE Row(r)}]]

Lists ==
    /\ daemon = "serving" /\ scan = None /\ Acts /\ \E for \in {"all", "page"} : Begins(for)
    /\ UNCHANGED <<manifest, dir, kept, owned, clock, cache, daemon, shown, usage, unsettled,
                   blurred, untold>>

Done(r) == [scan EXCEPT !.todo = @ \ {r}, !.run = None, !.st = None, !.row = None]

\* readRunSummary: the manifest's time and size, and what is remembered under them.
Stats ==
    /\ Listing /\ scan.run = None /\ scan.todo # {}
    /\ (scan.for = "page" => Cardinality(scan.rows) < PageSize)
    /\ LET r == Max(scan.todo)
       IN IF manifest[r] = None THEN scan' = Done(r) /\ cache' = Forgotten(cache, r)
          ELSE /\ scan' = (IF Hit(r) # {}
                           THEN [Done(r) EXCEPT !.rows = @ \cup {e.row : e \in Hit(r)},
                                          !.doubt = @ \cup (blurred \cap {r})]
                           ELSE [scan EXCEPT !.run = r,
                                   !.st = [at |-> manifest[r].at, size |-> manifest[r].size]])
               /\ UNCHANGED cache
    /\ UNCHANGED <<manifest, dir, kept, owned, clock, daemon, shown, usage, unsettled, blurred,
                   untold, acts>>

Reads ==
    /\ Listing /\ scan.run # None /\ scan.row = None
    /\ IF manifest[scan.run] = None
       THEN scan' = Done(scan.run) /\ cache' = Forgotten(cache, scan.run)
       ELSE scan' = [scan EXCEPT !.row = Row(scan.run)] /\ UNCHANGED cache
    /\ UNCHANGED <<manifest, dir, kept, owned, clock, daemon, shown, usage, unsettled, blurred,
                   untold, acts>>

\* The summary is remembered under the time and size of a second look.
Summarizes ==
    /\ Listing /\ scan.row # None
    /\ LET r == scan.run
           now == manifest[r]
           st == IF now = None THEN scan.st ELSE [at |-> now.at, size |-> now.size]
       IN /\ cache' = Remembered(cache, Entry(scan.row, st), scan.for = "all")
          /\ blurred' = IF now # None /\ Row(r) # scan.row THEN blurred \cup {r} ELSE blurred
          /\ scan' = [Done(r) EXCEPT !.rows = @ \cup {scan.row}]
    /\ UNCHANGED <<manifest, dir, kept, owned, clock, daemon, shown, usage, unsettled, untold, acts>>

Listed ==
    /\ Listing /\ scan.run = None
    /\ scan.todo = {} \/ (scan.for = "page" /\ Cardinality(scan.rows) = PageSize)
    /\ shown' = [rows |-> scan.rows, held |-> scan.held, doubt |-> scan.doubt,
                all |-> scan.for = "all"]
    /\ daemon' = (IF daemon = "listing" THEN "pruning" ELSE daemon)
    /\ IF daemon = "listing"
       THEN scan' = [for |-> "prune", todo |-> {r \in Runs : dir[r] # "none"}, run |-> None]
       ELSE scan' = None
    /\ UNCHANGED <<manifest, dir, kept, owned, clock, cache, usage, unsettled, blurred, untold, acts>>

-----------------------------------------------------------------------------
(* A boot: settleStaleRuns, which lists what it leaves, and pruneRuns.     *)
Boots ==
    /\ daemon = "off" /\ daemon' = "settling" /\ cache' = <<>> /\ shown' = None
    /\ usage' = [value |-> {}, until |-> 0, walk |-> None] /\ untold' = {}
    /\ unsettled' = {r \in Runs : manifest[r] # None /\ manifest[r].status # "ended"}
    /\ UNCHANGED <<manifest, dir, kept, owned, clock, scan, blurred, acts>>

\* Orphans are ended, what is parked is left.
Orphans == {r \in Runs \ owned : manifest[r] # None /\ manifest[r].status = "running"}

Settles ==
    /\ daemon = "settling"
    /\ IF Orphans # {}
       THEN /\ Written(Max(Orphans), "ended", 2)
            /\ cache' = Remembered(cache, Entry(RowIn(manifest', Max(Orphans)), [at |-> clock, size |-> 2]), FALSE)
            /\ UNCHANGED <<daemon, scan>>
       ELSE daemon' = "listing" /\ Begins("all") /\ UNCHANGED <<manifest, cache, blurred>>
    /\ UNCHANGED <<dir, kept, owned, clock, shown, usage, unsettled, untold, acts>>

LastActivity(m) == m.at

Prunable(r) ==
    /\ manifest[r] # None /\ manifest[r].status = "ended" /\ r \notin owned \cup kept
    /\ LastActivity(manifest[r]) + MaxAge < clock

\* Judged; its bytes are counted before it is removed.
Judges ==
    /\ daemon = "pruning" /\ scan.run = None
    /\ IF scan.todo = {} THEN daemon' = "serving" /\ scan' = None
       ELSE LET r == Max(scan.todo)
            IN /\ scan' = [scan EXCEPT !.todo = @ \ {r}, !.run = IF Prunable(r) THEN r ELSE None]
               /\ UNCHANGED daemon
    /\ UNCHANGED <<manifest, dir, kept, owned, clock, cache, shown, usage, unsettled, blurred,
                   untold, acts>>

Expired(u) == [u EXCEPT !.until = 0]

\* rmSync: all of it, or it throws with a part removed, the manifest or something else.
Removed(r, told) ==
    \/ /\ manifest' = [manifest EXCEPT ![r] = None] /\ dir' = [dir EXCEPT ![r] = "none"]
       /\ cache' = Forgotten(cache, r) /\ usage' = told
       /\ untold' = IF usage.walk # None THEN untold \cup {r} ELSE untold
    \/ /\ dir' = [dir EXCEPT ![r] = "part"] /\ manifest' \in {manifest, [manifest EXCEPT ![r] = None]}
       /\ UNCHANGED <<cache, usage, untold>>

Prunes ==
    /\ daemon = "pruning" /\ scan.run # None
    /\ Removed(scan.run, Expired(usage)) /\ scan' = [scan EXCEPT !.run = None]
    /\ UNCHANGED <<kept, owned, clock, daemon, shown, unsettled, blurred, acts>>

-----------------------------------------------------------------------------
(* Requests of the daemon that serves.                                     *)
Serving == daemon = "serving" /\ scan = None

\* writeManifest of a run of its own, new or under way; its time and size are looked up next.
Writes ==
    /\ Serving /\ Acts
    /\ \E r \in Runs \ Elsewhere, status \in {"running", "ended"}, size \in {1, 2} :
         /\ IF manifest[r] = None THEN dir[r] = "none" /\ status = "running"
            ELSE r \in owned /\ manifest[r].status = "running"
         /\ Written(r, status, size) /\ dir' = [dir EXCEPT ![r] = "whole"]
         /\ owned' = (IF status = "ended" THEN owned \ {r} ELSE owned \cup {r})
         /\ scan' = [for |-> "write", run |-> r, row |-> RowIn(manifest', r)]
    /\ UNCHANGED <<kept, clock, cache, daemon, shown, usage, unsettled, untold>>

Caches ==
    /\ scan # None /\ scan.for = "write" /\ scan' = None
    /\ LET r == scan.run
           now == manifest[r]
       IN IF now = None THEN cache' = Forgotten(cache, r) /\ UNCHANGED blurred
          ELSE /\ cache' = Remembered(cache, Entry(scan.row, now), FALSE)
               /\ blurred' = IF Row(r) # scan.row THEN blurred \cup {r} ELSE blurred
    /\ UNCHANGED <<manifest, dir, kept, owned, clock, daemon, shown, usage, unsettled, untold, acts>>

\* deleteRuns of a run that is not active.
Deletes ==
    /\ Serving /\ Acts
    /\ \E r \in Runs : /\ manifest[r] # None /\ manifest[r].status = "ended"
                       /\ Removed(r, Expired(usage))
    /\ UNCHANGED <<kept, owned, clock, daemon, scan, shown, unsettled, blurred>>

\* cachedOutputBytes: a recent value, the walk that is under way, or a new one.
AsksUsage ==
    /\ Serving /\ Acts /\ clock >= usage.until /\ usage.walk = None
    /\ usage' = [usage EXCEPT !.walk = [todo |-> {r \in Runs : dir[r] # "none"}, sum |-> {}]]
    /\ untold' = {}
    /\ UNCHANGED <<manifest, dir, kept, owned, clock, cache, daemon, scan, shown, unsettled, blurred>>

Walks ==
    /\ Serving /\ usage.walk # None
    /\ LET w == usage.walk
       IN usage' = IF w.todo = {}
                   THEN [value |-> w.sum, until |-> clock + UsageTtl, walk |-> None]
                   ELSE LET r == Max(w.todo)
                        IN [usage EXCEPT !.walk = [todo |-> w.todo \ {r},
                              sum |-> IF dir[r] = "none" THEN w.sum ELSE w.sum \cup {r}]]
    /\ UNCHANGED <<manifest, dir, kept, owned, clock, cache, daemon, scan, shown, unsettled, blurred,
                   untold, acts>>

-----------------------------------------------------------------------------
(* Other processes, the user, time, and the daemon's end.                  *)

\* A run of another process goes on or ends, or a thumbnail is recorded.
WrittenElsewhere ==
    /\ Acts
    /\ \E r \in Runs, status \in {"running", "ended"}, size \in {1, 2} :
         /\ manifest[r] # None /\ (r \in owned => r \in Elsewhere)
         /\ manifest[r].status = "running" => r \in owned
         /\ manifest[r].status = "parked" => FALSE
         /\ manifest[r].status = "ended" => status = "ended"
         /\ Written(r, status, size) /\ owned' = (IF status = "ended" THEN owned \ {r} ELSE owned)
    /\ Noted
    /\ UNCHANGED <<dir, kept, clock, cache, daemon, shown, usage, unsettled, untold>>

DeletedElsewhere ==
    /\ Acts
    /\ \E r \in Runs :
         /\ manifest[r] # None /\ manifest[r].status = "ended"
         /\ manifest' = [manifest EXCEPT ![r] = None] /\ dir' = [dir EXCEPT ![r] = "none"]
         /\ untold' = untold \cup {r}
    /\ Noted
    /\ UNCHANGED <<kept, owned, clock, cache, daemon, shown, usage, unsettled, blurred>>

\* A boot takes no day, which is the least MaxAge.
Ticks ==
    /\ daemon \in {"off", "serving"} /\ clock < MaxClock /\ clock' = clock + 1
    /\ UNCHANGED <<manifest, dir, kept, owned, cache, daemon, scan, shown, usage, unsettled, blurred,
                   untold, acts>>

\* Its runs are left without an owner.
Crashes ==
    /\ daemon # "off" /\ Acts /\ daemon' = "off" /\ scan' = None /\ owned' = owned \cap Elsewhere
    /\ UNCHANGED <<manifest, dir, kept, clock, cache, shown, usage, unsettled, blurred, untold>>

Next ==
    \/ Lists \/ Stats \/ Reads \/ Summarizes \/ Listed \/ Boots \/ Settles \/ Judges \/ Prunes
    \/ Writes \/ Caches \/ Deletes \/ AsksUsage \/ Walks
    \/ WrittenElsewhere \/ DeletedElsewhere \/ Ticks \/ Crashes

Spec == Init /\ [][Next]_vars

-----------------------------------------------------------------------------
RowsOf(r) == {row \in shown.rows : row.run = r}

\* A row is what its manifest said at some moment of the listing, unless that was written
\* again without a new time and size, or while it was read; no run that is there throughout is
\* left out, and one that is live throughout is shown live whatever was cached, which is what
\* an update that waits for it relies on.
RowsAreCurrent == shown # None =>
    \A r \in Runs :
        /\ Cardinality(RowsOf(r)) <= 1
        /\ r \notin shown.doubt => RowsOf(r) \subseteq shown.held[r]
        /\ None \notin shown.held[r] /\ RowsOf(r) = {} =>
              /\ ~shown.all /\ Cardinality(shown.rows) = PageSize
              /\ \A row \in shown.rows : row.run > r
        /\ \A row \in RowsOf(r) :
              (\A h \in shown.held[r] : h # None /\ h.status = "running") => row.status = "running"

\* The sweep of a boot removes no run that was under way or waited when the boot began, though
\* the boot itself has just ended it, none that is live or kept.
SweepSpares == scan # None /\ scan.for = "prune" => scan.run \notin unsettled \cup owned \cup kept

\* The usage that is shown without a walk counts no run the daemon has removed, unless that was
\* in the middle of the walk.
UsageForgets == clock < usage.until => usage.value \cap {r \in Runs : dir[r] = "none"} \subseteq untold

\* What the store says of the runs is so, and what it clears away may go.
StoreIsTrue == RowsAreCurrent /\ SweepSpares /\ UsageForgets

\* A listing is never old; false: a summary read before another process's last write may be
\* cached under the time and size of it, and is shown from then on.
RowsAreNeverOld == shown # None => \A r \in Runs : RowsOf(r) \subseteq shown.held[r]

\* A run that is not listed leaves no files; false: a removal that fails may have taken the
\* manifest first, and neither a deletion nor a sweep finds the rest.
NothingIsLeftBehind == \A r \in Runs : manifest[r] = None => dir[r] = "none"

\* A summary that is used moves to the end (summary.ts:16); false.
HitsAreReinserted ==
    [][\A r \in Runs :
          Listing /\ Listing' /\ r \in scan.todo \ scan'.todo /\ manifest[r] # None /\ Hit(r) # {} =>
              cache'[Len(cache')].row.run = r]_vars
=============================================================================
