------------------------------ MODULE RunQueue ------------------------------
(***************************************************************************)
(* The run registry and FIFO queue of the daemon (src/http/runQueue.ts),   *)
(* with the parts of the program it shares state with: the prepared tokens *)
(* a batch is admitted from (run-preflight.ts), the manifests and leases   *)
(* on disk (store/), the boot sequence that recovers them (serve.ts), and  *)
(* the relaunch that an applied update defers until the queue is idle      *)
(* (auto-update.ts).                                                       *)
(*                                                                         *)
(* A handler of the daemon runs to its next await without interruption, so *)
(* it is one action here, the closing call of pumpRunQueue included.  The  *)
(* interleavings are between handlers, with the promises of a running      *)
(* batch, with another process on the same output directory, and with the  *)
(* death of the process between any two steps.                             *)
(***************************************************************************)
EXTENDS Integers, Sequences, FiniteSets, FiniteSetsExt, SequencesExt, Subsequence

CONSTANTS
    Runs,            \* prepared batches; a batch admitted is identified with its run id
    NoRun,           \* currentRunId === null
    AssetBytes,      \* spec.assetBytes of every batch
    MaxQueuedRuns,   \* MAX_QUEUED_RUNS
    MaxQueuedBytes,  \* MAX_QUEUED_BYTES
    Peer,            \* whether another process shares the output directory
    MaxFailures,     \* bound: file operations that fail
    MaxCrashes,      \* bound: times the daemon dies
    MaxUpdates,      \* bound: updates the timer applies
    MaxRequest       \* bound: ids in a reorder request

ASSUME RunsAssumption == IsFiniteSet(Runs) /\ NoRun \notin Runs

ASSUME LimitsAssumption ==
    /\ AssetBytes \in [Runs -> Nat]
    /\ MaxQueuedRuns \in Nat \ {0}
    /\ MaxQueuedBytes \in Nat
    /\ Peer \in BOOLEAN
    /\ MaxFailures \in Nat /\ MaxCrashes \in Nat /\ MaxUpdates \in Nat
    /\ MaxRequest \in Nat

VARIABLES
    phase,           \* how far the daemon's boot has come
    entry,           \* activeRuns[r].status, "absent" when the registry has no r
    released,        \* activeRuns[r].released
    aborted,         \* activeRuns[r].controller.signal.aborted
    queue,           \* runQueue
    current,         \* currentRunId
    batch,           \* the promise of the current run's runReimagine
    token,           \* the preflight token of r: a prepared directory or a consumed one
    manifest,        \* manifest.json of r
    lease,           \* .owner.json of r, by the process it names
    todo,            \* what recoverQueuedRuns still has to look at
    restartPending,  \* restartPending of auto-update.ts
    nudge,           \* a pump found the queue empty: maybeApplyDeferredRestart is on its way
    exiting,         \* shutdown is scheduled or under way, and why
    updates,         \* updates applied so far
    failures,        \* file operations that failed so far
    crashes,         \* deaths of the daemon so far
    starts,          \* history: how often r reached its provider calls, in any process
    pressed          \* history: this daemon was told to run r (autoStart or "Run queue")

memory  == <<entry, released, aborted, queue, current, batch, token>>
disk    == <<manifest, lease>>
update  == <<restartPending, nudge, exiting, updates>>
history == <<starts, pressed>>
budget  == <<failures, crashes>>
vars    == <<phase, memory, disk, todo, update, budget, history>>

-----------------------------------------------------------------------------
(* What the handlers read.                                                 *)

Statuses == {"absent", "queued", "running", "finished"}

\* manifest.status and manifest.queue; "ended" stands for done, error and cancelled,
\* and position 0 for queue: null.
Manifests == [status : {"none", "queued", "running", "ended"}, position : Nat, held : BOOLEAN]
Manifest(s)  == [status |-> s, position |-> 0, held |-> FALSE]
Queued(i, h) == [status |-> "queued", position |-> i, held |-> h]

\* The server answers requests from the moment the port is bound.  "halted" is a daemon
\* whose startServer threw: its listener keeps serving, its update timer never starts.
Accepting == phase \in {"bound", "serving", "halted"}

\* Slip: a live daemon's lease is taken for a dead one's.
OwnedByPeerOnly(r) == lease[r] = "peer"

\* isRunOwned.
Owned(r) == lease[r] \in {"self", "peer"}

Unfinished == {r \in Runs : entry[r] \in {"queued", "running"}}

\* Slip: <= for <.
RoomForOneMore(r) == /\ Cardinality(Unfinished) <= MaxQueuedRuns
                     /\ SumFunctionOnSet(AssetBytes, Unfinished) <= MaxQueuedBytes

Room(r) == /\ Cardinality(Unfinished) < MaxQueuedRuns
           /\ SumFunctionOnSet(AssetBytes, Unfinished) + AssetBytes[r] <= MaxQueuedBytes

HasActiveRun ==
    \/ Unfinished # {}
    \/ \E r \in Runs : manifest[r].status \in {"queued", "running"} /\ Owned(r)

-----------------------------------------------------------------------------
(* The registry a handler is about to leave behind, with the file          *)
(* operations that failed on the way, handed to the pump that closes it.   *)

Now == [queue |-> queue, entry |-> entry, released |-> released, aborted |-> aborted,
        current |-> current, manifest |-> manifest, lease |-> lease, failed |-> 0]

Leases == {"none", "self", "dead", "peer"}

Registry == [queue : Seq(Runs), entry : [Runs -> Statuses], released : [Runs -> BOOLEAN],
             aborted : [Runs -> BOOLEAN], current : Runs \cup {NoRun},
             manifest : [Runs -> Manifests], lease : [Runs -> Leases], failed : Nat]

Fails(n) == failures + n <= MaxFailures /\ failures' = failures + n

\* The manifests m once those of the first k runs of q are rewritten with their places.
Saved(q, rel, m, k) ==
    [r \in Runs |-> IF \E i \in 1 .. k : q[i] = r
                    THEN Queued(CHOOSE i \in 1 .. k : q[i] = r, ~rel[r])
                    ELSE m[r]]

\* updateQueuedManifests writes the manifests of the waiting runs in order; when a write
\* throws, the first k of them are on disk and the others are as they were.
UpdatedManifests(s, k) ==
    [s EXCEPT !.manifest = Saved(s.queue, s.released, @, k),
              !.failed = IF k < Len(s.queue) THEN @ + 1 ELSE @]

\* A handler that returns, or throws, before it reaches the pump.
Leave(s) ==
    /\ Fails(s.failed)
    /\ queue' = s.queue /\ entry' = s.entry /\ released' = s.released
    /\ aborted' = s.aborted /\ current' = s.current
    /\ manifest' = s.manifest /\ lease' = s.lease

\* pumpRunQueue drops entries that died while waiting, wherever they sit.
Sweep(s) == Pick(s.queue, {i \in DOMAIN s.queue : /\ s.entry[s.queue[i]] \in {"queued", "running"}
                                                  /\ ~s.aborted[s.queue[i]]})

\* Slips: held runs start too; the last released run is taken for the first.
StartableHeldToo(s) == DOMAIN s.queue
StartableLast(s) ==
    {i \in DOMAIN s.queue : s.released[s.queue[i]] /\ \A j \in DOMAIN s.queue : j > i => ~s.released[s.queue[j]]}

\* The places of the runs that may start.
Startable(s) == {i \in DOMAIN s.queue : s.released[s.queue[i]]}

\* The run at place i leaves the queue for the runner.
Taken(s, i) == [s EXCEPT !.queue = Pick(@, DOMAIN @ \ {i}),
                         !.entry[s.queue[i]] = "running",
                         !.current = s.queue[i]]

\* Start r: persist the positions left behind (a failure is only logged), then run
\* runReimagine up to its first await, which writes the "running" manifest before any
\* provider call, or throws and gives the lease back.
Launch(s, r) ==
    \E k \in 0 .. Len(s.queue) :
      LET saved == UpdatedManifests(s, k)
      IN \/ /\ Leave([saved EXCEPT !.manifest[r] = Manifest("running")])
            /\ batch' = "going"
            /\ starts' = [starts EXCEPT ![r] = @ + 1]
         \/ /\ Leave([saved EXCEPT !.lease[r] = "none", !.failed = @ + 1])
            /\ batch' = "rejected"
            /\ UNCHANGED starts

\* pumpRunQueue: start the first released run, or tell auto-update the queue is empty.
Pump(s) ==
    LET swept == [s EXCEPT !.queue = Sweep(s)]
        ready == Startable(swept)
    IN \/ /\ s.current # NoRun
          /\ Leave(s)
          /\ UNCHANGED <<batch, starts, nudge>>
       \/ /\ s.current = NoRun /\ ready = {}
          /\ Leave(swept)
          /\ batch' = "none"
          /\ nudge' = (nudge \/ swept.queue = <<>>)
          /\ UNCHANGED starts
       \/ /\ s.current = NoRun /\ ready # {}
          /\ Launch(Taken(swept, Min(ready)), swept.queue[Min(ready)])
          /\ UNCHANGED nudge

\* Slip: the pump is forgotten.
SaveOnly(s) ==
    \E k \in 0 .. Len(s.queue) :
      Leave(UpdatedManifests(s, k)) /\ UNCHANGED <<batch, starts, nudge>>

\* updateQueuedManifests followed by the pump: a write that throws leaves the handler
\* before the pump.
SaveThenPump(s) ==
    \E k \in 0 .. Len(s.queue) :
      IF k = Len(s.queue)
      THEN Pump(UpdatedManifests(s, k))
      ELSE Leave(UpdatedManifests(s, k)) /\ UNCHANGED <<batch, starts, nudge>>

-----------------------------------------------------------------------------
(* Admission.                                                              *)

\* prepareRun: the batch's assets and recipe are in a private directory, under a token.
Prepare(r) ==
    /\ Accepting
    /\ token[r] = "none"
    /\ token' = [token EXCEPT ![r] = "ready"]
    /\ UNCHANGED <<phase, entry, released, aborted, queue, current, batch, disk, todo,
                   update, budget, history>>

\* expire: five minutes on, the token is forgotten, and its directory with it unless the
\* token was consumed.
Expire(r) ==
    /\ Accepting
    /\ token[r] \in {"ready", "taken"}
    /\ token' = [token EXCEPT ![r] = "gone"]
    /\ UNCHANGED <<phase, entry, released, aborted, queue, current, batch, disk, todo,
                   update, budget, history>>

\* Slip: a consumed token is taken again.
TakeTokenAgain(r) ==
    token[r] \in {"ready", "taken"} /\ token' = [token EXCEPT ![r] = "taken"]

\* takePreparedRun.
TakePreparedRun(r) == token[r] = "ready" /\ token' = [token EXCEPT ![r] = "taken"]

\* enqueueRun, from the token to the pump.  A consumed token returns the run it made and
\* changes nothing, so only a ready one is an action.
Enqueue(r, autoStart) ==
    /\ Accepting
    /\ Room(r)
    /\ TakePreparedRun(r)
    /\ pressed' = [pressed EXCEPT ![r] = autoStart]
    /\ Pump([Now EXCEPT !.queue = Append(@, r),
                        !.entry[r] = "queued",
                        !.released[r] = autoStart,
                        !.aborted[r] = FALSE,
                        !.manifest[r] = Queued(Len(queue) + 1, ~autoStart),
                        !.lease[r] = "self"])
    /\ UNCHANGED <<phase, todo, restartPending, exiting, updates, crashes>>

\* The claim or the first manifest throws: the admission is rolled back, and when the
\* directory cannot be moved back either, its token is dropped.
EnqueueFails(r) ==
    /\ Accepting
    /\ token[r] = "ready"
    /\ Room(r)
    /\ \/ Fails(1) /\ UNCHANGED token
       \/ Fails(2) /\ token' = [token EXCEPT ![r] = "gone"]
    /\ UNCHANGED <<phase, entry, released, aborted, queue, current, batch, disk, todo,
                   update, crashes, history>>

-----------------------------------------------------------------------------
(* The control panel's handlers.                                           *)

\* releaseQueue: everything waiting now may start; with nothing newly released the
\* positions are not rewritten.
ReleaseQueue ==
    LET waiting == {r \in Range(queue) : entry[r] = "queued" /\ ~released[r]}
        s == [Now EXCEPT !.released = [r \in Runs |-> @[r] \/ r \in waiting]]
    IN /\ Accepting
       /\ IF waiting = {} THEN Pump(s) ELSE SaveThenPump(s)
       /\ pressed' = [r \in Runs |-> pressed[r] \/ r \in Range(queue)]
       /\ UNCHANGED <<phase, token, todo, restartPending, exiting, updates, crashes>>

\* The ids of the request that are waiting now, each once, in the order asked for.
Named(ids) ==
    Pick(ids, {i \in DOMAIN ids : /\ ids[i] \in Range(queue)
                                  /\ \A j \in 1 .. i - 1 : ids[j] # ids[i]})

\* reorderQueue: the named runs first, the others after them in the order they had.
Reordered(ids) ==
    Named(ids) \o Pick(queue, {i \in DOMAIN queue : queue[i] \notin Range(Named(ids))})

ReorderQueue(ids) ==
    /\ Accepting
    /\ SaveThenPump([Now EXCEPT !.queue = Reordered(ids)])
    /\ UNCHANGED <<phase, token, todo, restartPending, exiting, updates, crashes, pressed>>

\* cancelRun on the run that is spending keys only signals it.
CancelRunning(r) ==
    /\ Accepting
    /\ entry[r] = "running" /\ ~aborted[r]
    /\ aborted' = [aborted EXCEPT ![r] = TRUE]
    /\ UNCHANGED <<phase, entry, released, queue, current, batch, token, disk, todo, update,
                   budget, history>>

\* cancelRun on a waiting run takes it out of the queue and writes its last manifest.
\* When that write throws the entry stays behind, aborted and in no queue.
CancelQueued(r) ==
    LET rest == Pick(queue, {i \in DOMAIN queue : queue[i] # r})
        out  == [Now EXCEPT !.queue = rest, !.aborted[r] = TRUE]
    IN /\ Accepting
       /\ entry[r] = "queued"
       /\ \/ Leave([out EXCEPT !.failed = 1])
          \/ \E k \in 0 .. Len(rest) :
               Leave(UpdatedManifests([out EXCEPT !.entry[r] = "finished",
                                                  !.manifest[r] = Manifest("ended"),
                                                  !.lease[r] = "none"], k))
       /\ UNCHANGED <<phase, batch, token, todo, update, crashes, history>>

\* deleteRuns, for one id.
DeleteRun(r) ==
    /\ Accepting
    /\ entry[r] \in {"absent", "finished"} /\ ~Owned(r)
    /\ manifest[r].status = "ended"
    /\ manifest' = [manifest EXCEPT ![r] = Manifest("none")]
    /\ UNCHANGED <<phase, memory, lease, todo, update, budget, history>>

-----------------------------------------------------------------------------
(* The current batch.                                                      *)

\* runReimagine settles its promise and gives the lease back.  The final manifest is on
\* disk; or writing it failed, and the flush or the error manifest of its own handlers
\* may have replaced it or not.
BatchEnds ==
    LET r == current
        s == [Now EXCEPT !.lease[r] = "none"]
    IN /\ Accepting
       /\ batch = "going"
       /\ \/ /\ Leave([s EXCEPT !.manifest[r] = Manifest("ended")])
             /\ batch' = "resolved"
          \/ /\ \E m \in {manifest[r], Manifest("ended")} :
                  Leave([s EXCEPT !.manifest[r] = m, !.failed = 1])
             /\ batch' = "rejected"
       /\ UNCHANGED <<phase, token, todo, update, crashes, history>>

\* The catch and finally of runQueuedEntry: a rejected batch gets an error manifest, the
\* entry is finished, and the pump looks for the next run.
BatchSettles ==
    LET r == current
        s == [Now EXCEPT !.entry[r] = "finished", !.current = NoRun]
    IN /\ Accepting
       /\ batch \in {"resolved", "rejected"}
       /\ \/ batch = "resolved" /\ Pump(s)
          \/ batch = "rejected" /\ Pump([s EXCEPT !.manifest[r] = Manifest("ended")])
          \/ batch = "rejected" /\ Pump([s EXCEPT !.failed = 1])
       /\ UNCHANGED <<phase, token, todo, restartPending, exiting, updates, crashes, pressed>>

\* closeRun, two seconds after the run finished.
CloseRun(r) ==
    /\ Accepting
    /\ entry[r] = "finished"
    /\ entry' = [entry EXCEPT ![r] = "absent"]
    /\ UNCHANGED <<phase, released, aborted, queue, current, batch, token, disk, todo,
                   update, budget, history>>

-----------------------------------------------------------------------------
(* The life of the process.                                                *)

\* Whatever was only in memory is gone, and the leases name a dead process.
Dies ==
    /\ phase' = "down"
    /\ entry' = [r \in Runs |-> "absent"]
    /\ released' = [r \in Runs |-> FALSE]
    /\ aborted' = [r \in Runs |-> FALSE]
    /\ queue' = <<>> /\ current' = NoRun /\ batch' = "none"
    /\ token' = [r \in Runs |-> IF token[r] = "none" THEN "none" ELSE "gone"]
    /\ lease' = [r \in Runs |-> IF lease[r] = "self" THEN "dead" ELSE lease[r]]
    /\ todo' = <<>>
    /\ restartPending' = FALSE /\ nudge' = FALSE /\ exiting' = "no"
    /\ pressed' = [r \in Runs |-> FALSE]
    /\ UNCHANGED <<manifest, updates, failures, starts>>

Crash ==
    /\ phase # "down" /\ crashes < MaxCrashes
    /\ crashes' = crashes + 1
    /\ Dies

\* POST /api/shutdown or a signal.
UserShutdown ==
    /\ Accepting /\ exiting = "no" /\ crashes < MaxCrashes
    /\ crashes' = crashes + 1
    /\ exiting' = "user"
    /\ UNCHANGED <<phase, memory, disk, todo, restartPending, nudge, updates, failures, history>>

\* shutdown ends in process.exit(0), up to seven seconds after it was scheduled, and
\* requests are served until then.
Exit ==
    /\ Accepting /\ exiting # "no"
    /\ Dies
    /\ UNCHANGED crashes

\* startServer binds the port.
Boot ==
    /\ phase = "down"
    /\ phase' = "bound"
    /\ UNCHANGED <<memory, disk, todo, update, budget, history>>

\* recoverQueuedRuns starts from the persisted queued runs in their saved order; equal
\* positions (the code falls back on createdAt) come in either order.
RecoveryBegins ==
    LET saved == {r \in Runs : manifest[r].status = "queued"}
    IN /\ phase = "bound"
       /\ phase' = "recovering"
       /\ todo' \in {s \in SetToSeqs(saved) :
                       \A i, j \in DOMAIN s : i < j => manifest[s[i]].position <= manifest[s[j]].position}
       /\ UNCHANGED <<memory, disk, update, budget, history>>

Registered == {r \in Runs : entry[r] # "absent"}

RoomToAdopt(r) == /\ Cardinality(Registered) < MaxQueuedRuns
                  /\ SumFunctionOnSet(AssetBytes, Registered) + AssetBytes[r] <= MaxQueuedBytes

\* Slip: only runs that were parked are taken up.
RecoveringHeld(r) ==
    phase = "recovering" /\ todo # <<>> /\ r = Head(todo) /\ manifest[r].held

\* The run the boot's recovery loop has come to.
Recovering(r) == phase = "recovering" /\ todo # <<>> /\ r = Head(todo)

\* Already here, owned by a live process, or no longer queued once it was claimed.
RecoverySkips(r) ==
    /\ Recovering(r)
    /\ \/ /\ entry[r] # "absent" \/ Owned(r)
          /\ UNCHANGED lease
       \/ /\ entry[r] = "absent" /\ ~Owned(r) /\ manifest[r].status # "queued"
          /\ lease' = [lease EXCEPT ![r] = "none"]
    /\ todo' = Tail(todo)
    /\ UNCHANGED <<phase, memory, manifest, update, budget, history>>

\* adoptQueuedRun: the run waits again, parked whatever it was before.
RecoveryAdopts(r) ==
    /\ Recovering(r)
    /\ entry[r] = "absent" /\ ~Owned(r) /\ manifest[r].status = "queued"
    /\ RoomToAdopt(r)
    /\ lease' = [lease EXCEPT ![r] = "self"]
    /\ entry' = [entry EXCEPT ![r] = "queued"]
    /\ released' = [released EXCEPT ![r] = FALSE]
    /\ aborted' = [aborted EXCEPT ![r] = FALSE]
    /\ queue' = Append(queue, r)
    /\ todo' = Tail(todo)
    /\ UNCHANGED <<phase, current, batch, token, manifest, update, budget, history>>

\* Its spec or assets are unreadable, or it does not fit: it ends as an error.  When that
\* cannot be written either, startServer throws with the lease still held.
RecoveryRejects(r) ==
    /\ Recovering(r)
    /\ entry[r] = "absent" /\ ~Owned(r) /\ manifest[r].status = "queued"
    /\ LET n == IF RoomToAdopt(r) THEN 1 ELSE 0
       IN \/ /\ Fails(n)
             /\ manifest' = [manifest EXCEPT ![r] = Manifest("ended")]
             /\ lease' = [lease EXCEPT ![r] = "none"]
             /\ todo' = Tail(todo)
             /\ UNCHANGED phase
          \/ /\ Fails(n + 1)
             /\ lease' = [lease EXCEPT ![r] = "self"]
             /\ todo' = <<>>
             /\ phase' = "halted"
             /\ UNCHANGED manifest
    /\ UNCHANGED <<memory, update, crashes, history>>

\* Slip: everything unfinished on disk is taken for an orphan.
OrphanedAll(m) == {r \in Runs : m[r].status \in {"queued", "running"}}

\* What settleStaleRuns ends: unfinished, not parked, and nobody's.
Orphaned(m) == {r \in Runs : /\ m[r].status \in {"queued", "running"} /\ ~m[r].held
                             /\ ~Owned(r) /\ entry[r] = "absent"}

\* The new positions are written, then settleStaleRuns ends what was interrupted; a write
\* that throws stops startServer there.
RecoveryEnds ==
    /\ phase = "recovering" /\ todo = <<>>
    /\ \E k \in 0 .. Len(queue) :
         LET saved == Saved(queue, released, manifest, k)
         IN \E settled \in SUBSET (IF k = Len(queue) THEN Orphaned(saved) ELSE {}) :
              /\ manifest' = [r \in Runs |-> IF r \in settled THEN Manifest("ended") ELSE saved[r]]
              /\ IF k = Len(queue) /\ settled = Orphaned(saved)
                 THEN phase' = "serving" /\ UNCHANGED failures
                 ELSE phase' = "halted" /\ Fails(1)
    /\ UNCHANGED <<memory, lease, todo, update, crashes, history>>

-----------------------------------------------------------------------------
(* A deferred restart.                                                     *)

\* hooks.relaunch: spawn the successor and schedule the shutdown.  When the spawn fails
\* the daemon stays, and the request for a restart is spent.
Relaunch == exiting' \in {"update", exiting}

\* applyAndRelaunch, from the moment hooks.apply() has answered that a restart is needed.
UpdateApplied ==
    /\ phase = "serving" /\ exiting = "no"
    /\ ~restartPending /\ updates < MaxUpdates
    /\ updates' = updates + 1
    /\ IF HasActiveRun
       THEN restartPending' = TRUE /\ UNCHANGED exiting
       ELSE Relaunch /\ UNCHANGED restartPending
    /\ UNCHANGED <<phase, memory, disk, todo, nudge, budget, history>>

\* maybeApplyDeferredRestart, from the timer's next tick ...
UpdateTick ==
    /\ phase = "serving" /\ exiting = "no"
    /\ restartPending /\ ~HasActiveRun
    /\ restartPending' = FALSE
    /\ Relaunch
    /\ UNCHANGED <<phase, memory, disk, todo, nudge, updates, budget, history>>

\* ... or as the continuation of the import a pump started.
UpdateNudge ==
    /\ Accepting /\ nudge
    /\ nudge' = FALSE
    /\ IF restartPending /\ ~HasActiveRun
       THEN restartPending' = FALSE /\ Relaunch
       ELSE UNCHANGED <<restartPending, exiting>>
    /\ UNCHANGED <<phase, memory, disk, todo, updates, budget, history>>

-----------------------------------------------------------------------------
(* Another process on the same output directory: it runs this same program *)
(* (a second daemon), so it recovers, starts and ends runs by these rules. *)

PeerAdopts(r) ==
    /\ Peer /\ ~Owned(r) /\ manifest[r].status = "queued"
    /\ lease' = [lease EXCEPT ![r] = "peer"]
    /\ UNCHANGED <<phase, memory, manifest, todo, update, budget, history>>

PeerStarts(r) ==
    /\ lease[r] = "peer" /\ manifest[r].status = "queued"
    /\ manifest' = [manifest EXCEPT ![r] = Manifest("running")]
    /\ starts' = [starts EXCEPT ![r] = @ + 1]
    /\ UNCHANGED <<phase, memory, lease, todo, update, budget, pressed>>

PeerEnds(r) ==
    /\ lease[r] = "peer"
    /\ manifest' = [manifest EXCEPT ![r] = Manifest("ended")]
    /\ lease' = [lease EXCEPT ![r] = "none"]
    /\ UNCHANGED <<phase, memory, todo, update, budget, history>>

\* Its boot ends an orphan nobody can resume.
PeerSettles(r) ==
    /\ Peer /\ ~Owned(r) /\ manifest[r].status = "running"
    /\ manifest' = [manifest EXCEPT ![r] = Manifest("ended")]
    /\ UNCHANGED <<phase, memory, lease, todo, update, budget, history>>

PeerDies(r) ==
    /\ lease[r] = "peer"
    /\ lease' = [lease EXCEPT ![r] = "dead"]
    /\ UNCHANGED <<phase, memory, manifest, todo, update, budget, history>>

-----------------------------------------------------------------------------
Init ==
    /\ phase = "down"
    /\ entry = [r \in Runs |-> "absent"]
    /\ released = [r \in Runs |-> FALSE]
    /\ aborted = [r \in Runs |-> FALSE]
    /\ queue = <<>> /\ current = NoRun /\ batch = "none"
    /\ token = [r \in Runs |-> "none"]
    /\ manifest = [r \in Runs |-> Manifest("none")]
    /\ lease = [r \in Runs |-> "none"]
    /\ todo = <<>>
    /\ restartPending = FALSE /\ nudge = FALSE /\ exiting = "no" /\ updates = 0
    /\ failures = 0 /\ crashes = 0
    /\ starts = [r \in Runs |-> 0]
    /\ pressed = [r \in Runs |-> FALSE]

Admission(r) == \/ Prepare(r) \/ Expire(r)
                \/ Enqueue(r, TRUE) \/ Enqueue(r, FALSE) \/ EnqueueFails(r)

\* The ids of a reorder request: stale and repeated ones included.
Requests == UNION {[1 .. n -> Runs] : n \in 0 .. MaxRequest}

Control == \/ ReleaseQueue
           \/ \E ids \in Requests : ReorderQueue(ids)
           \/ \E r \in Runs : CancelRunning(r) \/ CancelQueued(r) \/ DeleteRun(r)

Recover(r) == RecoverySkips(r) \/ RecoveryAdopts(r) \/ RecoveryRejects(r)

PeerStep(r) == PeerAdopts(r) \/ PeerStarts(r) \/ PeerEnds(r) \/ PeerSettles(r) \/ PeerDies(r)

Next ==
    \/ \E r \in Runs : Admission(r)
    \/ Control
    \/ BatchEnds \/ BatchSettles
    \/ \E r \in Runs : CloseRun(r)
    \/ Crash \/ UserShutdown \/ Exit
    \/ Boot \/ RecoveryBegins \/ RecoveryEnds
    \/ \E r \in Runs : Recover(r)
    \/ UpdateApplied \/ UpdateTick \/ UpdateNudge
    \/ \E r \in Runs : PeerStep(r)

Spec == Init /\ [][Next]_vars

\* The event loop keeps turning: promises settle, timers fire, the boot goes on.  A batch
\* ends because every provider call carries a timeout; requests owe nothing.
Progress ==
    /\ WF_vars(BatchEnds) /\ WF_vars(BatchSettles)
    /\ \A r \in Runs : WF_vars(CloseRun(r)) /\ WF_vars(Recover(r))
    /\ WF_vars(Boot) /\ WF_vars(RecoveryBegins) /\ WF_vars(RecoveryEnds)
    /\ WF_vars(UpdateTick) /\ WF_vars(UpdateNudge) /\ WF_vars(Exit)

FairSpec == Spec /\ Progress

-----------------------------------------------------------------------------
\* Every variable holds what the handlers read from it.
TypeOK ==
    /\ phase \in {"down", "bound", "recovering", "serving", "halted"}
    /\ entry \in [Runs -> Statuses]
    /\ released \in [Runs -> BOOLEAN]
    /\ aborted \in [Runs -> BOOLEAN]
    /\ queue \in Seq(Runs)
    /\ current \in Runs \cup {NoRun}
    /\ batch \in {"none", "going", "resolved", "rejected"}
    /\ token \in [Runs -> {"none", "ready", "taken", "gone"}]
    /\ manifest \in [Runs -> Manifests]
    /\ lease \in [Runs -> Leases]
    /\ todo \in Seq(Runs)
    /\ restartPending \in BOOLEAN /\ nudge \in BOOLEAN
    /\ exiting \in {"no", "user", "update"}
    /\ updates \in 0 .. MaxUpdates
    /\ failures \in 0 .. MaxFailures
    /\ crashes \in 0 .. MaxCrashes
    /\ starts \in [Runs -> Nat]
    /\ pressed \in [Runs -> BOOLEAN]

\* Money is spent once.  Whatever crashes, recoveries, failed writes, repeated presses and
\* other processes do, a batch reaches its provider calls at most once.
SpendsOnce == \A r \in Runs : starts[r] <= 1

\* "A run never starts spending keys without a press behind it": the batch in progress was
\* submitted to start on its own, or waited when "Run queue" was pressed, in this life of
\* the daemon.  A run recovered from disk needs a new press, even if it had one.
SpendingWasAskedFor == batch = "going" => pressed[current]

\* Money is spent as the user asked: after a press, and once.
SpendsAsAsked == SpendsOnce /\ SpendingWasAskedFor

\* runQueue and the registry tell the same story: the queue holds exactly the waiting runs
\* that were not cancelled, each once, and never the one that runs.  A waiting run that is
\* in no queue would stay there for ever.
QueueIsTheWaitingRuns ==
    /\ IsInjective(queue)
    /\ Range(queue) = {r \in Runs : entry[r] = "queued" /\ ~aborted[r]}
    /\ \A r \in Runs : entry[r] = "running" <=> r = current

\* A waiting run survives the death of the daemon at any instant: its lease and a queued
\* manifest are on disk as long as it waits.
WaitingIsDurable ==
    \A r \in Runs : entry[r] = "queued" /\ ~aborted[r] =>
                      lease[r] = "self" /\ manifest[r].status = "queued"

\* The queue, the registry, the leases and the manifests agree on which runs wait.
WaitingRunsAgree == QueueIsTheWaitingRuns /\ WaitingIsDurable

\* Admission and recovery keep the registry within the limits of count and bytes.
WithinLimits ==
    /\ Cardinality(Unfinished) <= MaxQueuedRuns
    /\ SumFunctionOnSet(AssetBytes, Unfinished) <= MaxQueuedBytes

\* The runner is never idle while a released run waits.
NeverIdleWithWork == current = NoRun => \A i \in DOMAIN queue : ~released[queue[i]]

\* What was true before the first write failed.
NeverIdleUnlessWriteFailed == failures = 0 => NeverIdleWithWork

\* A failed write does not hold work back for good: in a serving daemon with nothing
\* running, any press of "Run queue" whose writes succeed starts a released run.
\* (Stated of the step: one that leaves the runner idle is no such press.)
PressStarts ==
    [][queue # <<>> /\ failures' = failures /\ current' = NoRun => ~ReleaseQueue]_vars

\* The runner is kept going: it does not stand idle beside released work before a write has
\* failed, and after one the next press that succeeds sets it going again.
RunnerKeepsGoing == [][NeverIdleUnlessWriteFailed']_vars /\ PressStarts

\* Runs start in queue order: when a step other than a reorder starts a run, no run ahead
\* of it in the queue is released.
StartsInOrder ==
    [][\A r \in Runs :
         /\ entry[r] # "running" /\ entry'[r] = "running"
         /\ ~\E ids \in Requests : ReorderQueue(ids)
         => \A i \in DOMAIN queue :
              (\A j \in 1 .. i : queue[j] # r) => ~released'[queue[i]]]_vars

\* Reordering is only that: whatever ids a request names, stale or repeated, the new order
\* holds every waiting run once, the named ones first as asked for, and those it does not
\* name keep the order they had among themselves.
ReorderOnlyReorders ==
    \A ids \in Requests :
      LET new == Reordered(ids)
          Before(s, x, y) == \E i, j \in DOMAIN s : i < j /\ s[i] = x /\ s[j] = y
      IN /\ Range(new) = Range(queue) /\ Len(new) = Len(queue)
         /\ \A x, y \in Range(queue) :
              /\ x \in Range(ids) /\ y \notin Range(ids) => Before(new, x, y)
              /\ {x, y} \cap Range(ids) = {} /\ Before(queue, x, y) => Before(new, x, y)
              /\ {x, y} \subseteq Range(ids) /\ Before(ids, x, y) /\ ~Before(ids, y, x) => x = y \/ Before(new, x, y)

\* The order of the queue is the user's: kept by every start, changed only as asked.
OrderIsKept == StartsInOrder /\ []ReorderOnlyReorders

\* What has ended stays ended: no later write, of this life of the daemon, of the next or
\* of a peer, brings a finished run's manifest back to queued or running.
EndedStaysEnded ==
    [][\A r \in Runs : manifest[r].status = "ended" => manifest'[r].status \in {"ended", "none"}]_vars

\* Only the process that holds a run's lease writes its manifest while it is live, as long
\* as no write has failed: a start that fails gives the lease back with the manifest still
\* queued, and a peer may adopt the run before its error manifest is written.
OwnerWrites ==
    \A r \in Runs : lease[r] = "peer" /\ lease'[r] = "peer" /\ manifest[r] # manifest'[r]
                     => PeerStarts(r)

WritesUnderLease == [][failures' = 0 => OwnerWrites]_vars

\* "A run in progress is never interrupted by a self-relaunch": the process that gives way
\* to its successor has no batch in progress.
RelaunchInterruptsNothing == [][Exit /\ exiting = "update" => batch # "going"]_vars

-----------------------------------------------------------------------------
\* A released run is started and finished, unless a write failed or the daemon stops.
ReleasedRunFinishes ==
    \A r \in Runs : (entry[r] = "queued" /\ released[r] /\ ~aborted[r])
                      ~> (entry[r] = "finished" \/ failures > 0 \/ phase = "down")

\* Every boot ends with the persisted queue parked again in the registry: a queued
\* manifest left by a dead daemon before the boot looks at it is adopted or ended.
DeadQueueIsRecovered ==
    \A r \in Runs : (phase \in {"down", "bound"} /\ manifest[r].status = "queued" /\ lease[r] = "dead")
                      ~> (lease[r] # "dead" \/ manifest[r].status # "queued" \/ failures > 0)

\* Nothing that may go on is stuck: a released run of this daemon ends, and the queue of a dead
\* one is taken up or ended by the next.
NothingIsStuck == ReleasedRunFinishes /\ DeadQueueIsRecovered

=============================================================================
