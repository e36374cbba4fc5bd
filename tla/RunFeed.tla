------------------------------ MODULE RunFeed ------------------------------
(***************************************************************************)
(* A browser tab that follows the runs of a daemon: the event stream of a  *)
(* run (http/routes/runs.ts, broadcast and closeRun of http/runQueue.ts)   *)
(* and the run store of the page (web/src/stores/control/runs.ts and       *)
(* state.ts).  The daemon streams a run it has in its registry from memory *)
(* and polls the disk for a run of another process.  The tab keeps one     *)
(* EventSource per run, a list read by requests whose answers may overtake *)
(* each other, and deletions that wait for an Undo.                        *)
(* A run is "active" while it is queued or running; which of the two, and  *)
(* its place in the queue, does not matter here.                           *)
(***************************************************************************)
EXTENDS Naturals, Sequences, FiniteSets

CONSTANTS
    Runs,
    Remote,         \* the runs another process may start, and not this daemon
    Unwanted,       \* bound: the runs the user may delete
    None,           \* no run
    MaxAnswers,     \* bound: answers under way to the tab at once
    MaxDeletes,     \* bound: deletions by the user
    MaxDisturbances \* bound: lost connections, reloads and crashes, together

VARIABLES
    up,       \* the daemon is running
    entry,    \* the daemon's registry: "none", "live" or "finished" (for 2 s)
    disk,     \* the manifests: "unborn", "absent" (deleted), "active", "ended",
              \* or "orphan", the active manifest of a daemon that crashed
    stream,   \* the EventSource of each run and what the daemon does with it
    chan,     \* the events on their way to the tab
    page,     \* "closed", "booting" or "ready"
    tracked,  \* trackedRuns: "no", or the status the tab shows
    focus,    \* focusedRunId, which survives a reload
    row,      \* the list of runs: "absent", or the status of the row
    pend,     \* pendingDeletes
    answers,  \* the answers to the tab's requests, not yet taken
    deletes, disturbed,  \* what has been spent of the bounds
    wish,     \* what the user wants of a run, as far as he was told (history)
    doubled   \* the runs deleted again while a deletion waited (history)
server == <<up, entry, disk>>
wire == <<stream, chan>>
tab == <<page, tracked, focus, row, pend>>
spent == <<deletes, disturbed>>
history == <<wish, doubled>>
feedVars == <<server, wire, tab, answers, spent, history>>

Streaming == {r \in Runs : stream[r] # "off"}
Active(t) == {r \in Runs : t[r] = "active"}
Listed == [r \in Runs |-> IF disk[r] \in {"active", "ended"} THEN disk[r] ELSE "absent"]
Manifest(r) == IF up THEN Listed[r] ELSE "absent"
Deletable(r) == entry[r] # "live" /\ disk[r] # "active"

FeedInit ==
    /\ up = TRUE
    /\ entry = [r \in Runs |-> "none"]
    /\ disk \in [Runs -> {"unborn", "ended"}]
    /\ stream = [r \in Runs |-> "off"] /\ chan = [r \in Runs |-> << >>]
    /\ page = "closed"
    /\ tracked = [r \in Runs |-> "no"]
    /\ focus \in {None} \cup {r \in Runs : disk[r] = "ended"}
    /\ row = [r \in Runs |-> "absent"]
    /\ pend = {} /\ answers = {} /\ deletes = 0 /\ disturbed = 0
    /\ wish = [r \in Runs |-> "keep"] /\ doubled = {}

---------------------------------------------------------------------------
(* The daemon's runs. *)

Sends(r, e) == chan' = [chan EXCEPT ![r] = Append(@, e)]

\* Another process starts a run in the same directory, and ends it.
CliStarts(r) ==
    /\ r \in Remote /\ disk[r] = "unborn"
    /\ disk' = [disk EXCEPT ![r] = "active"]
    /\ UNCHANGED <<up, entry, wire, tab, answers, spent, history>>

CliEnds(r) ==
    /\ disk[r] = "active" /\ entry[r] = "none"
    /\ disk' = [disk EXCEPT ![r] = "ended"]
    /\ UNCHANGED <<up, entry, wire, tab, answers, spent, history>>

\* A run ends: finished, cancelled ("done"), or thrown ("error").
Finishes(r, e) ==
    /\ entry[r] = "live"
    /\ entry' = [entry EXCEPT ![r] = "finished"]
    /\ disk' = [disk EXCEPT ![r] = "ended"]
    /\ IF stream[r] = "joined" THEN Sends(r, e) ELSE UNCHANGED chan
    /\ UNCHANGED <<up, stream, tab, answers, spent, history>>

\* closeRun: the clients have no close method, so their connections stay.
Closes(r) ==
    /\ entry[r] = "finished" /\ entry' = [entry EXCEPT ![r] = "none"]
    /\ UNCHANGED <<up, disk, wire, tab, answers, spent, history>>

---------------------------------------------------------------------------
(* The stream of a run. *)

\* handleRunEvents up to its first await.  A run without an entry is
\* answered from its manifest: watched while active, else done at once.
Connects(r) ==
    /\ up /\ stream[r] = "lost"
    /\ IF entry[r] # "none"
       THEN /\ stream' = [stream EXCEPT ![r] = "opening"] /\ UNCHANGED chan
       ELSE IF disk[r] = "active"
       THEN /\ stream' = [stream EXCEPT ![r] = "watching"] /\ Sends(r, "active")
       ELSE /\ stream' = [stream EXCEPT ![r] = "closing"]
            /\ Sends(r, IF disk[r] = "ended" THEN "done" ELSE "error")
    /\ UNCHANGED <<server, tab, answers, spent, history>>

\* Slip: a client that joins is told nothing until the next event.
NoReplay(r) == << >>

\* The last manifest of the entry, sent to a client that joins.
LastManifest(r) == IF entry[r] = "live" THEN <<"active">> ELSE <<"ended">>

Joins(r) ==
    /\ stream[r] = "opening" /\ stream' = [stream EXCEPT ![r] = "joined"]
    /\ chan' = [chan EXCEPT ![r] = @ \o LastManifest(r)]
    /\ UNCHANGED <<server, tab, answers, spent, history>>

\* The poll that finds that the other process has ended its run.
Polls(r) ==
    /\ stream[r] = "watching" /\ disk[r] # "active"
    /\ stream' = [stream EXCEPT ![r] = "closing"]
    /\ Sends(r, IF disk[r] = "ended" THEN "done" ELSE "error")
    /\ UNCHANGED <<server, tab, answers, spent, history>>

Disturbs == disturbed < MaxDisturbances /\ disturbed' = disturbed + 1

\* A connection breaks; the EventSource tries again.
Drops(r) ==
    /\ Disturbs
    /\ stream[r] \notin {"off", "lost"}
    /\ stream' = [stream EXCEPT ![r] = "lost"] /\ chan' = [chan EXCEPT ![r] = << >>]
    /\ UNCHANGED <<server, tab, answers, deletes, history>>

---------------------------------------------------------------------------
(* What the tab does with an event. *)

Asks(A) == Cardinality(answers \cup A) <= MaxAnswers /\ answers' = answers \cup A
Refresh == IF up THEN {[kind |-> "rows", rows |-> Listed]} ELSE {}
Unsubscribed(R) ==
    /\ stream' = [r \in Runs |-> IF r \in R THEN "off" ELSE stream[r]]
    /\ chan' = [r \in Runs |-> IF r \in R THEN << >> ELSE chan[r]]
Subscribed(R) ==
    stream' = [r \in Runs |-> IF r \in R \ Streaming THEN "lost" ELSE stream[r]]

\* What finishRun makes of the status it shows.
Over(t, r) == IF t[r] = "active" THEN [t EXCEPT ![r] = "ended"] ELSE t

\* Where finishRun points the card: at a run that waits behind this one.
Handed(t, r) ==
    LET backlog == Active(t) \ {focus}
    IN  IF focus = r /\ backlog # {} THEN backlog ELSE {focus}

FinishRun(r, t) ==
    /\ Unsubscribed({r})
    /\ \E f \in Handed(Over(t, r), r) :
          /\ focus' = f
          /\ tracked' = IF f = r THEN Over(t, r) ELSE [Over(t, r) EXCEPT ![r] = "no"]
    /\ Asks(Refresh)

TakesSnapshot(r) ==
    /\ chan[r] # << >> /\ Head(chan[r]) \in {"active", "ended"}
    /\ tracked' = [tracked EXCEPT ![r] = Head(chan[r])]
    /\ chan' = [chan EXCEPT ![r] = Tail(@)]
    /\ UNCHANGED <<server, stream, page, focus, row, pend, answers, spent, history>>

TakesDone(r) ==
    /\ chan[r] # << >> /\ Head(chan[r]) = "done"
    /\ FinishRun(r, [tracked EXCEPT ![r] = "ended"])
    /\ UNCHANGED <<server, page, row, pend, spent, history>>

\* An error, or the end of a run that has no manifest any more.
TakesError(r) ==
    /\ chan[r] # << >> /\ Head(chan[r]) = "error"
    /\ FinishRun(r, tracked)
    /\ UNCHANGED <<server, page, row, pend, spent, history>>

---------------------------------------------------------------------------
(* Loading the page, and what it resumes. *)

Boots ==
    /\ up /\ page = "closed" /\ page' = "booting"
    /\ Asks({[kind |-> "boot", rows |-> Listed]})
    /\ UNCHANGED <<server, wire, tracked, focus, row, pend, spent, history>>

\* resumeRuns, after a list that was read before.
Resumes(rows, others) ==
    \E f \in {focus} \cup (IF focus # None /\ tracked[focus] = "no" /\ rows[focus] = "ended"
                           THEN {None} ELSE {}) :
       LET t == [r \in Runs |-> IF rows[r] = "active" /\ r \notin Streaming
                                THEN "active" ELSE tracked[r]]
           shown == f # None /\ t[f] # "no"
           remembered == f # None /\ t[f] = "no" /\ rows[f] # "absent"
       IN  /\ Subscribed(Active(rows)) /\ UNCHANGED chan
           /\ row' = rows /\ tracked' = t
           /\ \/ shown /\ focus' = f /\ answers' = others
              \/ ~shown /\ focus' \in Active(t) /\ answers' = others
              \/ /\ ~shown /\ Active(t) = {}
                 /\ focus' = IF remembered THEN f ELSE None
                 /\ answers' = others \cup
                       IF remembered
                       THEN {[kind |-> "shown", run |-> f, status |-> Manifest(f), undo |-> FALSE]}
                       ELSE {}

TakesBoot(a) ==
    /\ a.kind = "boot" /\ page' = "ready"
    /\ Resumes(a.rows, answers \ {a})
    /\ UNCHANGED <<server, pend, spent, history>>

TakesResume(a) ==
    /\ a.kind = "resume"
    /\ Resumes(a.rows, answers \ {a})
    /\ UNCHANGED <<server, page, pend, spent, history>>

TakesRows(a) ==
    /\ a.kind = "rows" /\ row' = a.rows
    /\ answers' = answers \ {a}
    /\ UNCHANGED <<server, wire, page, tracked, focus, pend, spent, history>>

\* The manifest of the remembered run (restoreRememberedRun), or of the run
\* whose card an Undo brings back.
TakesShown(a) ==
    /\ a.kind = "shown"
    /\ \/ /\ a.status = "absent" \/ (a.status = "ended" /\ ~a.undo)
          /\ focus' = IF a.undo THEN focus ELSE None
          /\ UNCHANGED <<tracked, stream>>
       \/ /\ a.status # "absent"
          /\ tracked' = [tracked EXCEPT ![a.run] = a.status]
          /\ Subscribed(IF a.status = "active" THEN {a.run} ELSE {})
          /\ focus' = IF a.undo THEN a.run ELSE focus
    /\ answers' = answers \ {a}
    /\ UNCHANGED <<server, chan, page, row, pend, spent, history>>

---------------------------------------------------------------------------
(* New runs. *)

Starts(r) ==
    /\ up /\ disk[r] = "unborn" /\ r \notin Remote
    /\ entry' = [entry EXCEPT ![r] = "live"] /\ disk' = [disk EXCEPT ![r] = "active"]

\* addToQueue: whether the run is put behind others is read before the requests.
AddsToQueue(r) ==
    /\ page = "ready" /\ Starts(r)
    /\ Asks({[kind |-> "accepted", run |-> r, behind |-> Active(tracked) # {}]})
    /\ UNCHANGED <<up, wire, tab, spent, history>>

TakesAccepted(a) ==
    /\ a.kind = "accepted"
    /\ tracked' = [tracked EXCEPT ![a.run] = "active"]
    /\ Subscribed({a.run})
    /\ focus' = IF a.behind THEN focus ELSE a.run
    /\ answers' = (answers \ {a}) \cup Refresh
    /\ UNCHANGED <<server, chan, page, row, pend, spent, history>>

\* adoptHeldRun: the viewer has cloned a run on the daemon.
Adopts(r) ==
    /\ page = "ready" /\ Starts(r)
    /\ tracked' = [tracked EXCEPT ![r] = "active"]
    /\ Subscribed({r}) /\ UNCHANGED chan
    /\ focus' = IF Active(tracked) = {} THEN r ELSE focus
    /\ Asks({[kind |-> "resume", rows |-> [Listed EXCEPT ![r] = "active"]]})
    /\ UNCHANGED <<up, page, row, pend, spent, history>>

---------------------------------------------------------------------------
(* Deleting runs. *)

\* Slip: the stream goes whatever the card shows.
AlwaysDropped(r) == {r}

\* The runs whose stream and card a deletion drops at once.
Dropped(r) == IF tracked[r] = "active" THEN {} ELSE {r}

Untracked(R) ==
    /\ tracked' = [r \in Runs |-> IF r \in R /\ tracked[r] # "active" THEN "no" ELSE tracked[r]]
    /\ focus' = IF focus \in R /\ tracked[focus] # "active" THEN None ELSE focus

Deletes(r) ==
    /\ page = "ready" /\ row[r] # "absent" /\ r \in Unwanted /\ deletes < MaxDeletes
    /\ deletes' = deletes + 1
    /\ row' = [row EXCEPT ![r] = "absent"]
    /\ Unsubscribed(Dropped(r)) /\ Untracked({r})
    /\ pend' = pend \cup {[nth |-> deletes + 1, run |-> r, row |-> row[r], shown |-> focus = r]}
    /\ wish' = [wish EXCEPT ![r] = "delete"]
    /\ doubled' = IF \E p \in pend : p.run = r THEN doubled \cup {r} ELSE doubled
    /\ UNCHANGED <<server, page, answers, disturbed>>

Merged(p) == [row EXCEPT ![p.run] = IF @ = "absent" THEN p.row ELSE @]

\* Slip: Undo shows the row again and leaves the timer running.
TimerRunsOn(p) == pend

\* The deletions that still wait after an Undo of p.
StillPending(p) == pend \ {p}

Undoes(p) ==
    /\ pend' = StillPending(p) /\ row' = Merged(p)
    /\ Asks(IF p.shown /\ tracked[p.run] = "no"
            THEN {[kind |-> "shown", run |-> p.run, status |-> Manifest(p.run), undo |-> TRUE]}
            ELSE {})
    /\ wish' = [wish EXCEPT ![p.run] = "keep"]
    /\ UNCHANGED <<server, wire, page, tracked, focus, spent, doubled>>

\* What deleteRuns leaves of the manifests, and what the user is told then.
Without(R) == [r \in Runs |-> IF r \in R /\ Deletable(r) THEN "absent" ELSE disk[r]]
Told(R) == [r \in Runs |-> IF r \in R /\ wish[r] = "delete" /\ ~(up /\ Deletable(r))
                           THEN "told" ELSE wish[r]]

\* commitDelete: the window has passed.
Commits(p) ==
    /\ pend' = pend \ {p} /\ wish' = Told({p.run})
    /\ \/ /\ up /\ disk' = Without({p.run})
          /\ Asks({[kind |-> "deleted", run |-> p.run, row |-> p.row,
                    refused |-> ~Deletable(p.run), rows |-> Listed']})
          /\ UNCHANGED row
       \/ /\ ~up /\ row' = Merged(p) /\ UNCHANGED <<disk, answers>>
    /\ UNCHANGED <<up, entry, wire, page, tracked, focus, spent, doubled>>

TakesDeleted(a) ==
    /\ a.kind = "deleted"
    /\ row' = IF a.refused /\ a.rows[a.run] = "absent"
              THEN [a.rows EXCEPT ![a.run] = a.row] ELSE a.rows
    /\ answers' = answers \ {a}
    /\ UNCHANGED <<server, wire, page, tracked, focus, pend, spent, history>>

\* The request failed on its way back: the row returns.
TakesFailure(a) ==
    /\ a.kind = "failed"
    /\ row' = Merged(a) /\ answers' = answers \ {a}
    /\ UNCHANGED <<server, wire, page, tracked, focus, pend, spent, history>>

\* A deletion in the gallery takes effect at once; forgetDeletedRuns follows.
DeletesInGallery(r) ==
    /\ page = "ready" /\ up /\ Listed[r] # "absent" /\ r \in Unwanted /\ deletes < MaxDeletes
    /\ deletes' = deletes + 1
    /\ wish' = [wish EXCEPT ![r] = IF Deletable(r) THEN "delete" ELSE @]
    /\ disk' = Without({r})
    /\ Asks(IF Deletable(r) THEN {[kind |-> "gallery", run |-> r]} ELSE {})
    /\ UNCHANGED <<up, entry, wire, tab, disturbed, doubled>>

ForgetsDeleted(a) ==
    /\ a.kind = "gallery"
    /\ row' = [row EXCEPT ![a.run] = "absent"]
    /\ Unsubscribed({a.run})
    /\ tracked' = [tracked EXCEPT ![a.run] = "no"]
    /\ focus' = IF focus = a.run THEN None ELSE focus
    /\ answers' = answers \ {a}
    /\ UNCHANGED <<server, page, pend, spent, history>>

---------------------------------------------------------------------------
(* Reloads and crashes. *)

\* The deletions a page that goes away sends by beacon.
Flushed == {p.run : p \in pend}

Reloads ==
    /\ Disturbs /\ page = "ready" /\ page' = "closed"
    /\ disk' = IF up THEN Without(Flushed) ELSE disk
    /\ wish' = Told(Flushed)
    /\ stream' = [r \in Runs |-> "off"] /\ chan' = [r \in Runs |-> << >>]
    /\ tracked' = [r \in Runs |-> "no"] /\ row' = [r \in Runs |-> "absent"]
    /\ pend' = {} /\ answers' = {}
    /\ UNCHANGED <<up, entry, focus, deletes, doubled>>

\* What a request that was under way comes to when the daemon dies.
Broken(a) ==
    CASE a.kind = "shown" -> {[a EXCEPT !.status = "absent"]}
      [] a.kind = "deleted" -> {[kind |-> "failed", run |-> a.run, row |-> a.row]}
      [] a.kind = "resume" -> {[a EXCEPT !.rows = row]}
      [] a.kind = "failed" -> {a}
      [] OTHER -> {}

Crashes ==
    /\ Disturbs /\ up /\ up' = FALSE
    /\ disk' = [r \in Runs |-> IF entry[r] = "live" THEN "orphan" ELSE disk[r]]
    /\ entry' = [r \in Runs |-> "none"]
    /\ stream' = [r \in Runs |-> IF stream[r] = "off" THEN "off" ELSE "lost"]
    /\ chan' = [r \in Runs |-> << >>]
    /\ page' = IF page = "booting" THEN "closed" ELSE page
    /\ answers' = UNION {Broken(a) : a \in answers}
    /\ UNCHANGED <<tracked, focus, row, pend, deletes, history>>

\* The next daemon settles the runs of the last one before it serves.
Restarts ==
    /\ ~up /\ up' = TRUE
    /\ disk' = [r \in Runs |-> IF disk[r] = "orphan" THEN "ended" ELSE disk[r]]
    /\ UNCHANGED <<entry, wire, tab, answers, spent, history>>

---------------------------------------------------------------------------
Happens ==
    \/ \E r \in Runs :
          \/ CliStarts(r) \/ CliEnds(r) \/ Finishes(r, "done") \/ Finishes(r, "error")
          \/ Drops(r) \/ AddsToQueue(r) \/ Adopts(r)
          \/ Deletes(r) \/ DeletesInGallery(r)
    \/ \E p \in pend : Undoes(p)
    \/ Reloads \/ Crashes \/ Restarts

\* What follows of itself: timers, answers and events.
Follows ==
    \/ \E r \in Runs :
          \/ Closes(r) \/ Connects(r) \/ Joins(r) \/ Polls(r)
          \/ TakesSnapshot(r) \/ TakesDone(r) \/ TakesError(r)
    \/ Boots
    \/ \E a \in answers :
          \/ TakesBoot(a) \/ TakesResume(a) \/ TakesRows(a) \/ TakesShown(a)
          \/ TakesAccepted(a) \/ TakesDeleted(a) \/ TakesFailure(a) \/ ForgetsDeleted(a)
    \/ \E p \in pend : Commits(p)

FeedNext == Happens \/ Follows
FeedSpec == FeedInit /\ [][FeedNext]_feedVars
FeedFairSpec == FeedSpec /\ WF_feedVars(Follows)

---------------------------------------------------------------------------
Statuses == {"absent", "active", "ended"}
Lists == [Runs -> Statuses]
Answers ==
    [kind : {"boot", "resume", "rows"}, rows : Lists]
    \cup [kind : {"shown"}, run : Runs, status : Statuses, undo : BOOLEAN]
    \cup [kind : {"accepted"}, run : Runs, behind : BOOLEAN]
    \cup [kind : {"deleted"}, run : Runs, row : Statuses, refused : BOOLEAN, rows : Lists]
    \cup [kind : {"failed"}, run : Runs, row : Statuses]
    \cup [kind : {"gallery"}, run : Runs]
Pending == [nth : Nat, run : Runs, row : Statuses, shown : BOOLEAN]

(* What the handlers of both sides find in the state.                      *)
FeedTypeOK ==
    /\ up \in BOOLEAN
    /\ entry \in [Runs -> {"none", "live", "finished"}]
    /\ disk \in [Runs -> {"unborn", "absent", "active", "ended", "orphan"}]
    /\ stream \in [Runs -> {"off", "lost", "opening", "joined", "watching", "closing"}]
    /\ chan \in [Runs -> Seq({"active", "ended", "done", "error"})]
    /\ page \in {"closed", "booting", "ready"}
    /\ tracked \in [Runs -> {"no", "active", "ended"}]
    /\ focus \in Runs \cup {None}
    /\ row \in Lists
    /\ pend \subseteq Pending /\ answers \subseteq Answers
    /\ deletes \in Nat /\ disturbed \in Nat
    /\ wish \in [Runs -> {"keep", "delete", "told"}] /\ doubled \subseteq Runs

(* A run the tab shows as queued or running has an EventSource: nothing    *)
(* that keeps generating is left with nobody listening to it (the comment  *)
(* in deleteRuns, runs.ts), whatever order deletions, undos, stale lists   *)
(* and events come in.                                                     *)
Watched == \A r \in Runs : tracked[r] = "active" => stream[r] # "off"

(* A card that shows a run as going on when it has ended is put right,     *)
(* over lost connections, joins at any moment and a daemon that died with  *)
(* the run, as long as a daemon is there to ask.                           *)
CatchesUp ==
    \A r \in Runs :
       (up /\ page = "ready" /\ tracked[r] = "active" /\ disk[r] \notin {"active", "orphan"})
       ~> (~up \/ tracked[r] # "active" \/ disk[r] = "active")

(* A run the user deleted and did not ask back is deleted in the end, also *)
(* when the page goes before the window has passed, or the user is told    *)
(* that it could not be.                                                   *)
DeletedIsGone ==
    \A r \in Runs : (wish[r] = "delete") ~> (wish[r] # "delete" \/ disk[r] = "absent")

(* What the page shows and what the user asked of it come true.            *)
PageCatchesUp == CatchesUp /\ DeletedIsGone

(* A run is deleted only while that is the last the user said of it: a     *)
(* timer, a beacon or an answer never overrides an Undo.  Except for a run *)
(* deleted a second time while a first deletion was still waiting.         *)
WishIsKept ==
    [][\A r \in Runs : disk[r] = "ended" /\ disk'[r] = "absent"
                       => wish'[r] = "delete" \/ r \in doubled]_feedVars

(* The comment over UNDO_WINDOW_MS in runs.ts: the real DELETE only fires  *)
(* once the window elapses without an Undo.                                *)
UndoIsKept ==
    [][\A r \in Runs : disk[r] = "ended" /\ disk'[r] = "absent" => wish'[r] = "delete"]_feedVars

(* The comment in subscribe, runs.ts: a reconnect to a finished run just   *)
(* replays its final manifest as `done`, which unsubscribes us.            *)
FinishIsTaken ==
    \A r \in Runs : (stream[r] # "off" /\ disk[r] = "ended") ~> (stream[r] = "off" \/ ~up)
=============================================================================
