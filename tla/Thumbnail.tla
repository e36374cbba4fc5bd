----------------------------- MODULE Thumbnail -----------------------------
(***************************************************************************)
(* The harvest of a run's thumbnail (thumbnail.ts): a run without one gets *)
(* a copy of its input, or a picture of its first output taken by a        *)
(* browser, of which few may be open, and the picture is recorded in the   *)
(* run's manifest, which the runner of a run that goes on writes too.      *)
(***************************************************************************)
EXTENDS Naturals, Sequences, FiniteSets

CONSTANTS Runs, None,
          Live,       \* the runs that go on at first
          MaxRenders, \* MAX_CONCURRENT_RENDERS
          MaxResults  \* bound: the results of a run

VARIABLES
    disk,     \* manifest.json: the results it reports, whether the run has ended, thumb; or None
    memory,   \* the manifest that the runner of a run holds, and writes again and again
    image,    \* the thumbnail's file is in the run's directory
    inputs,   \* the runs whose input is still there
    stage,    \* inFlight: where the call for a run's thumbnail stands
    snapshot, \* the manifest it read first
    waiters,  \* renderWaiters
    revived   \* the runs a harvest wrote again after they had been deleted

vars == <<disk, memory, image, inputs, stage, snapshot, waiters, revived>>

Init ==
    /\ disk \in [Runs -> [results : 0 .. 1, ended : BOOLEAN, thumb : {FALSE}]]
    /\ \A r \in Runs : disk[r].ended = (r \notin Live)
    /\ memory = disk /\ image = [r \in Runs |-> FALSE]
    /\ inputs \in SUBSET Runs
    /\ stage = [r \in Runs |-> "none"] /\ snapshot = disk
    /\ waiters = <<>> /\ revived = {}

\* The renders that hold a slot: until its browser has gone.
Rendering == {r \in Runs : stage[r] \in {"rendering", "captured", "failed"}}

\* Slip: the manifest that was read before the picture was taken.
AsRead(r) == [snapshot[r] EXCEPT !.thumb = TRUE]

\* recordThumb: the manifest is read again; without one, the one read at first is written.
Recorded(r) == [(IF disk[r] = None THEN snapshot[r] ELSE disk[r]) EXCEPT !.thumb = TRUE]

\* ensureRunThumbnail for a run whose call is not under way: a thumbnail that is there is served,
\* an input is copied or served, and an output is rendered.
Asks(r) ==
    /\ stage[r] = "none" /\ disk[r] # None /\ ~(disk[r].thumb /\ image[r])
    /\ \/ /\ r \in inputs
          /\ image' = [image EXCEPT ![r] = TRUE] /\ disk' = [disk EXCEPT ![r] = Recorded(r)]
          /\ UNCHANGED <<stage, snapshot>>
       \/ /\ r \notin inputs /\ disk[r].results > 0
          /\ stage' = [stage EXCEPT ![r] = "starting"]
          /\ snapshot' = [snapshot EXCEPT ![r] = disk[r]]
          /\ UNCHANGED <<disk, image>>
    /\ UNCHANGED <<memory, inputs, waiters, revived>>

\* acquireRenderSlot, once a browser was found and a profile made.
TakesSlot(r) ==
    /\ stage[r] = "starting"
    /\ IF Cardinality(Rendering) < MaxRenders
         THEN stage' = [stage EXCEPT ![r] = "rendering"] /\ UNCHANGED waiters
         ELSE stage' = [stage EXCEPT ![r] = "waiting"] /\ waiters' = Append(waiters, r)
    /\ UNCHANGED <<disk, memory, image, inputs, snapshot, revived>>

FindsNoBrowser(r) ==
    /\ stage[r] = "starting" /\ stage' = [stage EXCEPT ![r] = "none"]
    /\ UNCHANGED <<disk, memory, image, inputs, snapshot, waiters, revived>>

\* renderWithCdp writes the picture, which fails without the run's directory.
Captures(r) ==
    /\ stage[r] = "rendering" /\ disk[r] # None
    /\ stage' = [stage EXCEPT ![r] = "captured"] /\ image' = [image EXCEPT ![r] = TRUE]
    /\ UNCHANGED <<disk, memory, inputs, snapshot, waiters, revived>>

RenderFails(r) ==
    /\ stage[r] = "rendering" /\ stage' = [stage EXCEPT ![r] = "failed"]
    /\ UNCHANGED <<disk, memory, image, inputs, snapshot, waiters, revived>>

\* The browser has gone: releaseRenderSlot, whose waiter takes the slot before any other callback
\* runs, and in the same turn the picture is recorded.
BrowserStops(r) ==
    /\ stage[r] \in {"captured", "failed"}
    /\ stage' = [s \in Runs |-> IF s = r THEN "none"
                                ELSE IF waiters # <<>> /\ s = Head(waiters) THEN "rendering"
                                ELSE stage[s]]
    /\ waiters' = IF waiters = <<>> THEN waiters ELSE Tail(waiters)
    /\ IF stage[r] = "captured"
         THEN /\ disk' = [disk EXCEPT ![r] = Recorded(r)]
              /\ revived' = IF disk[r] = None THEN revived \cup {r} ELSE revived
         ELSE UNCHANGED <<disk, revived>>
    /\ UNCHANGED <<memory, image, inputs, snapshot>>

-----------------------------------------------------------------------------
(* What goes on beside it.                                                 *)

\* runReimagine: results come and the run ends, in memory; flush writes the manifest as the
\* runner holds it, which knows of no thumbnail made since the run began.
JobEnds(r) ==
    /\ ~memory[r].ended /\ memory[r].results < MaxResults
    /\ memory' = [memory EXCEPT ![r].results = @ + 1]
    /\ UNCHANGED <<disk, image, inputs, stage, snapshot, waiters, revived>>

Flushes(r) ==
    /\ ~memory[r].ended
    /\ \E ended \in BOOLEAN :
         /\ memory' = [memory EXCEPT ![r].ended = ended]
         /\ disk' = [disk EXCEPT ![r] = memory'[r]]
    /\ UNCHANGED <<image, inputs, stage, snapshot, waiters, revived>>

\* input/ is emptied.
Swept(r) ==
    /\ inputs' = inputs \ {r}
    /\ UNCHANGED <<disk, memory, image, stage, snapshot, waiters, revived>>

\* deleteRun, pruneRuns: a run that has ended is removed with its directory.
Deleted(r) ==
    /\ disk[r] # None /\ disk[r].ended
    /\ disk' = [disk EXCEPT ![r] = None] /\ image' = [image EXCEPT ![r] = FALSE]
    /\ UNCHANGED <<memory, inputs, stage, snapshot, waiters, revived>>

Next == \E r \in Runs :
    \/ Asks(r) \/ TakesSlot(r) \/ FindsNoBrowser(r)
    \/ Captures(r) \/ RenderFails(r) \/ BrowserStops(r)
    \/ JobEnds(r) \/ Flushes(r) \/ Swept(r) \/ Deleted(r)

Spec == Init /\ [][Next]_vars

-----------------------------------------------------------------------------
(* A harvest takes nothing back that the runner has saved, neither a       *)
(* result nor the run's end; a thumbnail that a manifest names is there;   *)
(* no more browsers run than may, and no call waits while one could.       *)
(* Except for a run that a harvest wrote again after its deletion.         *)
HarvestsSafely ==
    /\ \A r \in Runs : disk[r] # None /\ disk'[r] # None =>
         /\ disk'[r].results >= disk[r].results
         /\ disk[r].ended => disk'[r].ended
    /\ \A r \in Runs \ revived' : disk'[r] # None => (disk'[r].thumb => image'[r])
    /\ Cardinality(Rendering') <= MaxRenders
    /\ waiters' # <<>> => Cardinality(Rendering') = MaxRenders

HarvestIsSafe == [][HarvestsSafely]_vars

\* A run that was deleted is gone.
DeletedStaysDeleted == [][\A r \in Runs : disk[r] = None => disk'[r] = None]_vars

\* "making it DURABLE so it only ever happens once per run" (the head of thumbnail.ts).
HarvestedOnce ==
    [][\A r \in Runs : disk[r] # None /\ disk'[r] # None => (disk[r].thumb => disk'[r].thumb)]_vars
=============================================================================
