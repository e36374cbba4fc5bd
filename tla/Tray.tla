-------------------------------- MODULE Tray --------------------------------
(***************************************************************************)
(* The native tray host (misc/tray-host-native): the watchdog that probes  *)
(* the daemon on a timer and revives it, the worker thread that restarts   *)
(* it from the menu, the quit that takes everything down, beside the       *)
(* daemons of Launch.  The health tick, the menu and the sentinel timer    *)
(* run on the UI thread, one at a time; the worker is a thread of its own. *)
(* Time is counted in health ticks (5 s).  ReDesign's configuration gives  *)
(* the daemon no shutdown token, so the force-kill flavour of stop() and   *)
(* of Quit is the one that runs, and no daemon is "not ours".              *)
(***************************************************************************)
EXTENDS Launch, Sequences, SequencesExt

CONSTANTS
    ReviveAfterMisses,  \* silent ticks before a daemon counts as dead
    BusyPatience,       \* ticks a silent daemon that listens is left alone
    ReviveGrace,        \* ticks between a revive and the next
    CrashLoopMax, CrashLoopWindow,
    RestartRetries

ASSUME PatienceAssumption ==
    /\ ReviveAfterMisses \in Nat \ {0} /\ BusyPatience \in Nat /\ ReviveGrace \in Nat
    /\ CrashLoopMax \in Nat /\ CrashLoopWindow \in Nat /\ RestartRetries \in Nat

VARIABLES
    ui,       \* what the UI thread is in the middle of
    watch,    \* the Watchdog's memory
    child,    \* CHILD_PID: the daemon under the wrapper the tray spawned last
    worker,   \* the worker thread's place and its attempts; "off" is not busy
    cancel,   \* set by Quit
    met,      \* the daemons that have answered where they listen (history)
    deaf      \* ticks since a probe was answered (history)
tvars == <<ui, watch, child, worker, cancel, met, deaf>>
vars == <<lvars, tvars>>

busy == worker.at # "off"

---------------------------------------------------------------------------
(* The watchdog's policy *)

Least(a, b) == IF a < b THEN a ELSE b

\* Slip: the grace is not counted down.
AgedButGrace(w) ==
    [w EXCEPT !.silent = IF @ = 0 THEN 0 ELSE Least(@ + 1, BusyPatience + 1),
              !.healthy = IF @ = 0 THEN 0 ELSE Least(@ + 1, CrashLoopWindow + 1),
              !.revives = SelectSeq([i \in DOMAIN @ |-> @[i] + 1],
                                    LAMBDA age : age < CrashLoopWindow)]

\* One tick later.  silent and healthy number the ticks since the first miss
\* and since the first answer, from 1; 0 stands for None.  healthy is kept only
\* under a pause: it is read nowhere else, and a pause begins with None.
Aged(w) ==
    [w EXCEPT !.silent = IF @ = 0 THEN 0 ELSE Least(@ + 1, BusyPatience + 1),
              !.healthy = IF @ = 0 THEN 0 ELSE Least(@ + 1, CrashLoopWindow + 1),
              !.grace = IF @ = 0 THEN 0 ELSE @ - 1,
              !.revives = SelectSeq([i \in DOMAIN @ |-> @[i] + 1],
                                    LAMBDA age : age < CrashLoopWindow)]

Rearmed(w) == [w EXCEPT !.paused = FALSE, !.revives = <<>>, !.healthy = 0]

Answered(w) ==
    LET v == [w EXCEPT !.misses = 0, !.silent = 0,
                       !.healthy = IF w.paused /\ @ = 0 THEN 1 ELSE @]
    IN  IF v.paused /\ v.healthy > CrashLoopWindow THEN Rearmed(v) ELSE v

Missed(w) ==
    [w EXCEPT !.misses = Least(@ + 1, ReviveAfterMisses),
              !.silent = IF @ = 0 THEN 1 ELSE @]

Hiccup(w) == w.misses < ReviveAfterMisses
\* Slip: an open port earns no patience.
Dead(w) == FALSE

Slow(w) == Listening /\ w.silent <= BusyPatience

\* What a silent tick decides, for the memory w it has just added its miss to.
Verdict(w) ==
    CASE Hiccup(w) -> "hiccup"
      [] ~Hiccup(w) /\ Slow(w) -> "slow"
      [] ~Hiccup(w) /\ ~Slow(w) /\ busy -> "busy"
      [] ~Hiccup(w) /\ ~Slow(w) /\ ~busy /\ w.grace > 0 -> "grace"
      [] ~Hiccup(w) /\ ~Slow(w) /\ ~busy /\ w.grace = 0 /\ w.paused -> "paused"
      [] ~Hiccup(w) /\ ~Slow(w) /\ ~busy /\ w.grace = 0 /\ ~w.paused ->
            IF Len(w.revives) >= CrashLoopMax THEN "crashloop" ELSE "revive"

Remembers(w, verdict) ==
    LET dead == [w EXCEPT !.healthy = 0]
    IN  CASE verdict \in {"hiccup", "slow"} -> w
          [] verdict = "busy" -> [dead EXCEPT !.misses = 0]
          [] verdict \in {"grace", "paused"} -> dead
          [] verdict = "crashloop" -> [dead EXCEPT !.paused = TRUE]
          [] verdict = "revive" ->
                [dead EXCEPT !.misses = 0, !.silent = 0, !.grace = ReviveGrace,
                             !.revives = Append(@, 0)]

---------------------------------------------------------------------------
(* The health tick: probe, judge, act *)

PortOwners == UNION {Listeners(p) : p \in Probed}

\* The probe and the verdict on it; a revive is still to be carried out.
TickAnswered ==
    /\ ui = "idle" /\ Live
    /\ watch' = Answered(Aged(watch))
    /\ met' = met \cup (PortOwners \ frozen) /\ deaf' = 0
    /\ UNCHANGED <<lvars, ui, child, worker, cancel>>

TickMissed ==
    /\ ui = "idle" /\ ~Live
    /\ LET w == Missed(Aged(watch))
       IN  /\ watch' = Remembers(w, Verdict(w))
           /\ ui' = IF Verdict(w) = "revive" THEN "reaping" ELSE "idle"
    /\ met' = met \cap PortOwners /\ deaf' = Least(deaf + 1, BusyPatience + 1)
    /\ UNCHANGED <<lvars, child, worker, cancel>>

\* The end of processes, as the tray's memory of them follows it: CHILD_PID is
\* cleared by the thread that waits for the wrapper.
Forgets(K) ==
    /\ child' = IF child \in K THEN None ELSE child
    /\ met' = met \ K

\* The predecessor's tree, then whoever holds the daemon's ports; a kill may fail.
Reaps ==
    /\ ui = "reaping"
    /\ \E left \in SUBSET PortOwners :
        /\ IF left = {} THEN UNCHANGED disturbed ELSE Disturbs
        /\ LET K == (PortOwners \cup ({child} \cap Daemons)) \ left
           IN  Killed(K) /\ met' = met \ K
    /\ child' = None
    /\ ui' = "reaped"
    /\ UNCHANGED <<watch, worker, cancel, deaf>>

\* spawn(): a process under a new wrapper, or none when there is no room for one.
Spawns ==
    \/ \E d \in Spare : Begins(d) /\ child' = d /\ UNCHANGED disturbed
    \/ Spare = {} /\ UNCHANGED <<lvars, child>>

\* Nobody holds the ports any more: the replacement.
Revives ==
    /\ ui = "reaped" /\ PortOwners = {}
    /\ Spawns
    /\ ui' = "idle"
    /\ UNCHANGED <<watch, worker, cancel, met, deaf>>

\* Somebody still does: no second daemon beside it, try again after the grace.
LeavesItBe ==
    /\ ui = "reaped" /\ PortOwners # {}
    /\ ui' = "idle"
    /\ UNCHANGED <<lvars, watch, child, worker, cancel, met, deaf>>

---------------------------------------------------------------------------
(* Restart, on the worker thread *)

\* The click is the operator's "try again": it lifts the crash-loop pause.
StartsWorker ==
    /\ ui = "idle" /\ ~busy
    /\ Disturbs
    /\ worker' = [at |-> "stop", attempt |-> 0]
    /\ watch' = Rearmed(watch)
    /\ cancel' = FALSE
    /\ UNCHANGED <<life, port, heir, frozen, pointer, gate, sentinel, blind,
                   ui, child, met, deaf>>

WorkerAt(s) == worker' = [worker EXCEPT !.at = s]

\* stop(): the owners of the preferred port and of the port that answers.  A
\* daemon that listens elsewhere and does not answer is not among them.
Stoppable == Listeners(Home) \cup (IF Answers(pointer.port) THEN Listeners(pointer.port) ELSE {})

Stops ==
    /\ worker.at = "stop"
    /\ Killed(Stoppable) /\ UNCHANGED disturbed /\ Forgets(Stoppable)
    /\ WorkerAt("spawn")
    /\ UNCHANGED <<ui, watch, cancel, deaf>>

\* After the port was seen free, or the wait for it ran out.
SpawnsAgain ==
    /\ worker.at = "spawn"
    /\ Spawns
    /\ WorkerAt("await")
    /\ UNCHANGED <<ui, watch, cancel, met, deaf>>

Ready ==
    /\ worker.at = "await" /\ Live
    /\ WorkerAt("off")
    /\ UNCHANGED <<lvars, ui, watch, child, cancel, met, deaf>>

\* The wait ran out: kill the slow child and try once more, unless Quit has asked.
Retries ==
    /\ worker.at = "await" /\ ~Live /\ ~cancel
    /\ worker.attempt < RestartRetries
    /\ worker' = [at |-> "stop", attempt |-> worker.attempt + 1]
    /\ Killed({child} \cap Daemons) /\ Forgets({child}) /\ UNCHANGED disturbed
    /\ UNCHANGED <<ui, watch, cancel, deaf>>

GivesUp ==
    /\ worker.at = "await" /\ ~Live
    /\ cancel \/ worker.attempt >= RestartRetries
    /\ WorkerAt("off")
    /\ UNCHANGED <<lvars, ui, watch, child, cancel, met, deaf>>

---------------------------------------------------------------------------
(* Quit *)

\* The menu item at any time, the daemon's shutdown request when no worker runs;
\* then reap_workers.
Quits ==
    /\ ui = "idle" /\ ui' = "quitting"
    /\ cancel' = TRUE
    /\ Ends({child} \cap Daemons) /\ Strands({child} \cap Daemons)
    /\ Forgets({child})
    /\ sentinel' = FALSE
    /\ UNCHANGED <<disturbed, watch, worker, deaf>>

QuitsOnRequest == sentinel /\ ~busy /\ Quits

StopsDaemon ==
    /\ ui = "quitting"
    /\ Killed(Stoppable) /\ UNCHANGED disturbed /\ Forgets(Stoppable)
    /\ ui' = "leaving"
    /\ UNCHANGED <<watch, worker, cancel, deaf>>

\* The message loop ends, and with the process its worker thread.
TrayExits ==
    /\ ui = "leaving"
    /\ ui' = "gone"
    /\ worker' = [at |-> "off", attempt |-> 0]
    /\ UNCHANGED <<lvars, watch, child, cancel, met, deaf>>

---------------------------------------------------------------------------
DaemonSteps(d) ==
    \/ (Boots(d) \/ ShutsDown(d) \/ Freezes(d) \/ Thaws(d) \/ LaunchedByHand(d)
        \/ \E h \in Daemons : HandsOver(d, h)) /\ UNCHANGED tvars
    \/ Exits(d) /\ Forgets({d}) /\ UNCHANGED <<ui, watch, worker, cancel, deaf>>

Ticks == TickAnswered \/ TickMissed \/ Reaps \/ Revives \/ LeavesItBe
Works == Stops \/ SpawnsAgain \/ Ready \/ Retries \/ GivesUp
Leaving == QuitsOnRequest \/ StopsDaemon \/ TrayExits

\* The tray has found no daemon serving and has spawned one (startup.rs).
Init ==
    \E d \in Daemons :
        /\ life = [e \in Daemons |-> IF e = d THEN "starting" ELSE "gone"]
        /\ child = d
        /\ port = [e \in Daemons |-> 0] /\ heir = [e \in Daemons |-> 0]
        /\ frozen = {} /\ blind = {} /\ gate = None /\ sentinel = FALSE
        /\ pointer = [pid |-> None, port |-> 0] /\ disturbed = 0
        /\ ui = "idle" /\ cancel = FALSE
        /\ worker = [at |-> "off", attempt |-> 0]
        /\ watch = [misses |-> 0, silent |-> 0, healthy |-> 0, grace |-> 0,
                    paused |-> FALSE, revives |-> <<>>]
        /\ met = {} /\ deaf = 0

\* Bound: nothing is followed any more once the tray has gone.
Next ==
    /\ ui # "gone"
    /\ \/ Ticks \/ StartsWorker \/ Works \/ Quits \/ Leaving
       \/ \E d \in Daemons : DaemonSteps(d)

Spec == Init /\ [][Next]_vars

\* The timers fire, the threads and the processes run, and a daemon that does not
\* answer is not blocked for ever of itself.
FairSpec ==
    /\ Spec
    /\ WF_vars(Ticks) /\ WF_vars(Works) /\ WF_vars(Leaving)
    /\ \A d \in Daemons :
        /\ WF_vars(Boots(d) /\ UNCHANGED tvars)
        /\ WF_vars((BlockedAtGate(d) \/ FindsLive(d) \/ GivesUpBinding(d) \/ Leaves(d))
                   /\ Forgets({d}) /\ UNCHANGED <<ui, watch, worker, cancel, deaf>>)

---------------------------------------------------------------------------
(***************************************************************************)
(* The watchdog never reaps while a Restart from the menu is under way: a  *)
(* tick that finds the daemon dead while the worker has it down on purpose *)
(* stands down (watchdog.rs:150), and no Restart begins inside a revive    *)
(* (health.rs:118), though the two run on different threads.               *)
(***************************************************************************)
OneHand == ~(busy /\ ui \in {"reaping", "reaped"})

(***************************************************************************)
(* One daemon of an installation, and one hand of the tray on it.          *)
(***************************************************************************)
OneAtATime == OneDaemon /\ OneHand

(***************************************************************************)
(* A daemon that has answered the watchdog is ended by it only after a     *)
(* silence longer than BUSY_PATIENCE, or when its listener was gone: three *)
(* missed probes do not end one that is only busy (watchdog.rs:12-16,      *)
(* health.rs:118-166).                                                     *)
(***************************************************************************)
BusyIsSpared ==
    [][\A d \in Daemons :
        Reaps /\ d \in (met \cap PortOwners) \ blind /\ life'[d] = "gone"
            => deaf > BusyPatience]_vars

(***************************************************************************)
(* Quit leaves nothing the tray spawned: the wrapper's slot is empty when  *)
(* the tray has gone.  main.rs:74 says of cancel that Quit sets it "so an  *)
(* in-flight worker stops instead of resurrecting what we are closing".    *)
(***************************************************************************)
QuitLeavesNothing == ui = "gone" => child = None

TrayRuns == ui \in {"idle", "reaping", "reaped"}

(***************************************************************************)
(* A daemon that is gone or blocked is answered for again and again: some  *)
(* daemon serves, or the crash-loop guard has paused the watchdog and said *)
(* so, or the tray was told to quit (health.rs:61-96).                     *)
(***************************************************************************)
Recovers == []<>(Live \/ watch.paused \/ ~TrayRuns)

(***************************************************************************)
(* The pause does not outlive the crash loop: once a daemon goes on        *)
(* answering, the watchdog re-arms (watchdog.rs:122-131).                  *)
(***************************************************************************)
PauseLifts == <>[](Live /\ TrayRuns) => []<>(~watch.paused)

(***************************************************************************)
(* The user is not left without a daemon, nor with a watchdog that has     *)
(* given up beside a daemon that is well.                                  *)
(***************************************************************************)
ComesBack == Recovers /\ PauseLifts

=============================================================================
