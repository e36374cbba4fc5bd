------------------------------- MODULE Viewer -------------------------------
(***************************************************************************)
(* The page that shows one run (stores/viewer.ts and pages/Viewer.vue),    *)
(* and the reviewer's choices about it, which live in three places: what   *)
(* the page holds, the browser's local storage, and review.json beside the *)
(* run (store/reviews.ts), which other machines read and write too.        *)
(*                                                                         *)
(* A star stands for the shortlist and the hidden outputs, which are kept  *)
(* in local storage; keep stands for the protection from retention and the *)
(* notes, which are not.                                                   *)
(***************************************************************************)
EXTENDS Naturals, Sequences

CONSTANTS Runs, None,
          Busy,         \* the runs that are queued or running, and may have been reviewed
          MaxEvents     \* bound: requests for a manifest and those that fail, and choices, here
                        \* and on another machine, together

VARIABLES
    mounted,  \* the viewer's page is shown
    runId,    \* the run that was opened, or None
    view,     \* manifest.value: whose it is, and whether it says the run is going on
    stream,   \* the run whose events liveSource brings, or None
    loads,    \* requests for a manifest; live: the run went on when it was asked for,
              \* late: another one was started since
    review,   \* reviewRunId, hydratedReviewRunId, and keep of review.value
    gets,     \* requests for a review that no later opening has made void
    stars,    \* local storage
    puts,     \* reviewWriteTails: the saves of each run, the one that is sent first
    live, file,                     \* the daemon's: runs that go on, review.json
    intended, early, spoilt, loose, \* what the user chose, and what excuses the page
    events                          \* what the bound counts

page == <<mounted, runId, view, stream>>
choices == <<review, gets, stars, puts>>
ghosts == <<intended, early, spoilt>>
vars == <<page, loads, choices, live, file, ghosts, loose, events>>

Empty == [star |-> FALSE, keep |-> FALSE, stamped |-> FALSE]
Stored == {Empty} \cup {[star |-> b, keep |-> b, stamped |-> TRUE] : b \in BOOLEAN}
Blank(r) == [run |-> r, hydrated |-> None, keep |-> FALSE]

Init ==
    /\ mounted = TRUE /\ runId = None /\ view = [run |-> None, live |-> FALSE] /\ stream = None
    /\ loads = {} /\ review = Blank(None) /\ gets = {}
    /\ stars \in {f \in [Runs -> BOOLEAN] : \A r \in Runs \ Busy : ~f[r]}
    /\ puts = [r \in Runs |-> <<>>]
    /\ live = [r \in Runs |-> r \in Busy]
    /\ file \in {f \in [Runs -> Stored] : \A r \in Runs \ Busy : f[r] = Empty}
    /\ intended = [r \in Runs |-> [star |-> IF file[r].stamped THEN file[r].star ELSE stars[r],
                                   keep |-> file[r].keep]]
    /\ early = [r \in Runs |-> FALSE] /\ spoilt = [r \in Runs |-> FALSE] /\ loose = FALSE
    /\ events = 0

Event == events < MaxEvents /\ events' = events + 1

-----------------------------------------------------------------------------
(* Requests for the run's manifest.                                        *)

\* ++loadRequestSeq: what was asked before no longer events.
Asked(kind, r) ==
    {[q EXCEPT !.late = TRUE] : q \in loads}
      \cup {[kind |-> kind, run |-> r, live |-> live[r], late |-> FALSE]}

\* load, with resetReview: the answers of reviews asked for before are void.
Load(r) ==
    /\ Event
    /\ runId' = r /\ stream' = None /\ review' = Blank(r) /\ gets' = {} /\ loose' = FALSE
    /\ IF r = None
         THEN /\ view' = [run |-> None, live |-> FALSE]
              /\ loads' = {[q EXCEPT !.late = TRUE] : q \in loads}
         ELSE view' = view /\ loads' = Asked("load", r)
    /\ UNCHANGED <<stars, puts, live, file, ghosts>>

\* The route names another run, or none; a run is picked from the list.
Opens(r) == mounted /\ r # runId /\ Load(r) /\ UNCHANGED mounted

\* onUnmounted: stopPoll.
Leaves ==
    /\ mounted /\ mounted' = FALSE
    /\ stream' = None /\ loose' = (loose \/ stream # None)
    /\ UNCHANGED <<runId, view, loads, choices, live, file, ghosts, events>>

\* The page's setup loads only what is not open already.
Returns(r) ==
    /\ ~mounted /\ mounted' = TRUE
    /\ IF r # runId THEN Load(r)
       ELSE UNCHANGED <<runId, view, stream, loads, choices, live, file, ghosts, loose, events>>

\* refreshManifest, by the refresh button.
Refreshes ==
    /\ mounted /\ runId # None /\ Event
    /\ loads' = Asked("refresh", runId)
    /\ loose' = (loose \/ \E q \in loads : q.kind = "load" /\ ~q.late)
    /\ UNCHANGED <<page, choices, live, file, ghosts>>

\* A request for the review of r, sent while a save of it was under way or not.
NewGet(r) == [run |-> r, edited |-> FALSE, behind |-> puts[r] # <<>>,
              answered |-> FALSE, answer |-> Empty]

\* acceptManifest, with the stream s if the run goes on.
Accepts(r, isLive, s) ==
    LET resets == review.run # r
        asks == r # None /\ (resets \/ review.hydrated # r)
    IN /\ view' = [run |-> r, live |-> isLive]
       /\ review' = [IF resets THEN Blank(r) ELSE review EXCEPT !.hydrated = r]
       /\ gets' = (IF resets THEN {} ELSE gets) \cup (IF asks THEN {NewGet(r)} ELSE {})
       /\ stream' = IF isLive THEN s ELSE None

\* seq = loadRequestSeq: only the latest request events.
Current(q) == ~q.late

\* The answer reaches the page: the manifest of any moment since it was asked for, or an error.
\* A load that failed shows nothing, a refresh that failed leaves the page as it is.
Arrives(q) ==
    /\ loads' = loads \ {q}
    /\ \/ \E isLive \in {q.live, live[q.run]} :
            /\ Current(q)
            /\ Accepts(q.run, isLive, IF q.kind = "load" THEN q.run ELSE stream)
            /\ loose' = (loose \/ (q.kind = "refresh" /\ isLive /\ stream = None))
            /\ UNCHANGED events
       \/ /\ Current(q) /\ q.kind = "load" /\ Event
          /\ Accepts(None, FALSE, None) /\ loose' = TRUE
       \/ /\ Current(q) /\ q.kind = "refresh" /\ Event
          /\ UNCHANGED <<view, stream, review, gets, loose>>
       \/ /\ ~Current(q)
          /\ UNCHANGED <<view, stream, review, gets, loose, events>>
    /\ UNCHANGED <<mounted, runId, stars, puts, live, file, ghosts>>

\* handleLiveEvent: the stream brings the run's state, its end included.
Hears ==
    /\ stream # None /\ runId = stream
    /\ Accepts(stream, live[stream], stream)
    /\ UNCHANGED <<mounted, runId, loads, stars, puts, live, file, ghosts, loose, events>>

RunEnds(r) ==
    /\ live[r] /\ live' = [live EXCEPT ![r] = FALSE]
    /\ UNCHANGED <<page, loads, choices, file, ghosts, loose, events>>

-----------------------------------------------------------------------------
(* The review.                                                             *)

\* Every save sends the whole review, after the saves before it.
Queued(r, star, keep) ==
    [puts EXCEPT ![r] = Append(@, [star |-> star, keep |-> keep, stored |-> FALSE])]

\* reviewVersions: the answers under way for r are void.
Edited(r) == {[g EXCEPT !.edited = @ \/ g.run = r] : g \in gets}

\* The daemon reads review.json.
ReadsReview(g) ==
    /\ ~g.answered
    /\ gets' = (gets \ {g}) \cup {[g EXCEPT !.answered = TRUE, !.answer = file[g.run]]}
    /\ UNCHANGED <<page, loads, review, stars, puts, live, file, ghosts, loose, events>>

\* Slip: edits made while the request was under way do not make it void.
VoidWhenLeft(g) == runId # g.run

\* "A late GET must never overwrite edits made while it was in flight, nor a later run."
Void(g) == runId # g.run \/ g.edited

\* hydrateReview with the answer a: the review is shown; without a stored one the browser's
\* choices are taken over.
Hydrates(g, a) ==
    LET r == g.run
        star == a.star \/ (~a.stamped /\ stars[r])
        persists == ~a.stamped /\ ~a.star /\ stars[r]
    IN /\ IF Void(g) THEN gets' = gets \ {g} /\ UNCHANGED <<review, stars, puts, spoilt>>
          ELSE /\ review' = [review EXCEPT !.keep = a.keep]
               /\ stars' = [stars EXCEPT ![r] = star]
               /\ puts' = IF persists THEN Queued(r, star, a.keep) ELSE puts
               /\ gets' = (IF persists THEN Edited(r) ELSE gets) \ {g}
               /\ spoilt' = [spoilt EXCEPT ![r] = @ \/ g.behind \/ ~g.answered]
       /\ UNCHANGED <<page, loads, live, file, intended, early, loose>>

\* The review arrives, or the request fails, which getRunReview takes for an empty review.
ReviewArrives(g) == \/ g.answered /\ Hydrates(g, g.answer) /\ UNCHANGED events
                    \/ ~g.answered /\ Hydrates(g, Empty) /\ Event

\* The page holds the review of r, and no answer is awaited that would change it.
Hydrated(r) == review.hydrated = r /\ \A g \in gets : g.run # r \/ Void(g)

\* A choice the user makes on the page: the star of an output, or keep.
Edit(star, keep) ==
    /\ mounted /\ runId # None /\ view.run # None /\ Event
    /\ stars' = [stars EXCEPT ![runId] = star]
    /\ review' = [review EXCEPT !.keep = keep]
    /\ puts' = Queued(runId, star, keep) /\ gets' = Edited(runId)
    /\ intended' = [intended EXCEPT ![runId] =
                      [star |-> IF star # stars[runId] THEN star ELSE @.star,
                       keep |-> IF keep # review.keep THEN keep ELSE @.keep]]
    /\ early' = [early EXCEPT ![runId] = @ \/ ~Hydrated(runId)]
    /\ spoilt' = [spoilt EXCEPT ![runId] = @ \/ view.run # runId]
    /\ UNCHANGED <<page, loads, live, file, loose>>

TogglesStar == runId # None /\ Edit(~stars[runId], review.keep)
TogglesKeep == runId # None /\ Edit(stars[runId], ~review.keep)

\* "Serializing writes is what prevents a slower old PUT from winning over a newer one."
Sent(r) == {i \in DOMAIN puts[r] : i = 1}

\* saveReview.
Stores(r, i) ==
    /\ ~puts[r][i].stored
    /\ file' = [file EXCEPT ![r] = [star |-> puts[r][i].star, keep |-> puts[r][i].keep, stamped |-> TRUE]]
    /\ puts' = [puts EXCEPT ![r][i].stored = TRUE]
    /\ UNCHANGED <<page, loads, review, gets, stars, live, ghosts, loose, events>>

Without(s, i) == SubSeq(s, 1, i - 1) \o SubSeq(s, i + 1, Len(s))

\* The save's answer: the newest one's is shown.
Saved(r, i) ==
    /\ puts[r][i].stored
    /\ puts' = [puts EXCEPT ![r] = Without(@, i)]
    /\ review' = IF runId = r /\ i = Len(puts[r]) THEN [review EXCEPT !.keep = puts[r][i].keep] ELSE review
    /\ UNCHANGED <<page, loads, gets, stars, live, file, ghosts, loose, events>>

\* The save fails, or its answer is lost: a toast, and the next save goes on.
SaveFails(r, i) ==
    /\ Event
    /\ puts' = [puts EXCEPT ![r] = Without(@, i)]
    /\ spoilt' = [spoilt EXCEPT ![r] = TRUE]
    /\ UNCHANGED <<page, loads, review, gets, stars, live, file, intended, early, loose>>

Puts(r) == \E i \in Sent(r) : Stores(r, i) \/ Saved(r, i) \/ SaveFails(r, i)

\* The run is reviewed on another machine while it is not open here.
ReviewedElsewhere(r) ==
    /\ runId # r /\ puts[r] = <<>> /\ Event
    /\ \E star, keep \in BOOLEAN :
         /\ file' = [file EXCEPT ![r] = [star |-> star, keep |-> keep, stamped |-> TRUE]]
         /\ intended' = [intended EXCEPT ![r] = [star |-> star, keep |-> keep]]
    /\ UNCHANGED <<page, loads, choices, live, early, spoilt, loose>>

-----------------------------------------------------------------------------
Next ==
    \/ \E r \in Runs \cup {None} : Opens(r) \/ Returns(r)
    \/ Leaves \/ Refreshes \/ Hears \/ TogglesStar \/ TogglesKeep
    \/ \E q \in loads : Arrives(q)
    \/ \E g \in gets : ReadsReview(g) \/ ReviewArrives(g)
    \/ \E r \in Runs : RunEnds(r) \/ Puts(r) \/ ReviewedElsewhere(r)

Spec == Init /\ [][Next]_vars

-----------------------------------------------------------------------------
Waiting == \E q \in loads : ~q.late

(* Whatever order answers, events and the user's steps come in, a manifest *)
(* is only ever put up for the run that is open, events are heard of no    *)
(* other, and once nothing is awaited the page shows that run or nothing,  *)
(* and follows it if it goes on.  Except after a load that failed or was   *)
(* overtaken by a refresh, a refresh that was overtaken by the run's end,  *)
(* and a return to a page that was left.                                   *)
ShowsWhatItOpens ==
    /\ view'.run \notin {view.run, None} => view'.run = runId'
    /\ stream' # None => stream' = runId' /\ stream' = view'.run
    /\ ~Waiting' /\ ~loose' => /\ view'.run \in {runId', None}
                               /\ view'.live => stream' = runId'

ShowsWhatIsOpen == [][ShowsWhatItOpens]_vars

\* What the user chose last is what is stored once the saves are through, and what the page and
\* the browser hold.  Except for a run a request for which failed, that was opened again while
\* its saves were under way, or whose outputs were starred before it was shown; what was stored
\* before may be lost if something was chosen before it had come.
ReviewSettles ==
    \A r \in Runs : puts[r] = <<>> /\ ~spoilt[r] =>
      /\ file[r].stamped /\ ~early[r] => /\ file[r].star = intended[r].star
                                        /\ file[r].keep = intended[r].keep
      /\ runId = r /\ view.run = r /\ Hydrated(r) =>
           stars[r] = file[r].star /\ review.keep = file[r].keep

\* Without the exceptions of the above: a run that goes on is not shown without its events.
Followed == view.live /\ mounted /\ ~Waiting => stream = runId

\* Retention spares what a reviewer protected by "a durable affirmative choice" (pruneRuns): the
\* protection that is stored is the one he chose last.
KeepIsTheUsers == \A r \in Runs : puts[r] = <<>> => file[r].keep = intended[r].keep
=============================================================================
