---------------------------- MODULE AutoUpdate -----------------------------
(***************************************************************************)
(* The automatic updates of one daemon (src/auto-update.ts) over the       *)
(* installation of Updater: the timer and its settings, a round of check,  *)
(* apply and relaunch, the restart that waits for the runs, and an update  *)
(* asked for by hand, which shares the transaction with the round.         *)
(***************************************************************************)
EXTENDS Updater

CONSTANTS
    MaxToggles,   \* how often a setting is changed
    MaxRuns       \* how many runs are started

VARIABLES
    enabled,       \* install silently
    notifyEnabled, \* announce
    started,       \* the loop runs
    timer,         \* the timeout the loop knows of
    timeouts,      \* the timeouts there are
    ticking,       \* a round is under way
    round,         \* what it waits for: "none", "check" or "apply"
    restartPending,
    activeRun,     \* hasActiveRun
    nudged,        \* the queue has drained and asks for a deferred restart
    relaunching,   \* a successor was spawned
    toggles, batches

loop == <<started, timer, timeouts, ticking, round>>
settings == <<enabled, notifyEnabled>>
restart == <<restartPending, relaunching>>
queue == <<activeRun, nudged>>
bounds == <<toggles, batches>>
avars == <<loop, settings, restart, queue, bounds>>
autoVars == <<uvars, avars>>

\* A process whose synchronous code runs lets none of its callbacks in between.
AtAwait == stage[Host] \in {"idle", "checking", "fetching", "summing", "hashing",
                         "extracting", "verifying"}

-----------------------------------------------------------------------------
(* The timer.                                                              *)

WantsTimer == enabled \/ notifyEnabled

\* What schedule does to the timeouts that are left.
Schedules(left) == timer' = TRUE /\ timeouts' = left + 1

\* reconcile.
Reconciles ==
    IF started /\ WantsTimer' /\ ~timer /\ ~ticking THEN Schedules(timeouts)
    ELSE IF started /\ ~WantsTimer' /\ timer THEN timer' = FALSE /\ timeouts' = timeouts - 1
    ELSE UNCHANGED <<timer, timeouts>>

\* setAutoUpdateEnabled, setUpdateNotifyEnabled.
Toggles ==
    /\ IsUp(Host) /\ AtAwait /\ toggles < MaxToggles
    /\ toggles' = toggles + 1
    /\ \/ enabled' = ~enabled /\ UNCHANGED notifyEnabled
       \/ notifyEnabled' = ~notifyEnabled /\ UNCHANGED enabled
    /\ Reconciles
    /\ UNCHANGED <<uvars, started, ticking, round, restart, queue, batches>>

\* setAutoUpdateIntervalSecs: retime replaces the timeout that waits.
Retimes ==
    /\ IsUp(Host) /\ AtAwait /\ started /\ WantsTimer /\ ~ticking
    /\ Schedules(timeouts - (IF timer THEN 1 ELSE 0))
    /\ UNCHANGED <<uvars, started, ticking, round, settings, restart, queue, bounds>>

\* The end of runTick.
RoundEnds ==
    /\ ticking' = FALSE /\ round' = "none"
    /\ IF started /\ WantsTimer /\ ~timer THEN Schedules(timeouts) ELSE UNCHANGED <<timer, timeouts>>
    /\ UNCHANGED started

-----------------------------------------------------------------------------
(* A round.                                                                *)

\* relaunchForUpdate: a successor is spawned, and this daemon will shut down; or the spawn
\* throws and it stays.
Relaunches ==
    \/ relaunching' = TRUE /\ UNCHANGED budgets
    \/ MayFail /\ UNCHANGED relaunching

\* maybeApplyDeferredRestart.
AppliesDeferredRestart ==
    IF restartPending /\ ~activeRun
    THEN restartPending' = FALSE /\ Relaunches
    ELSE UNCHANGED <<restart, budgets>>

\* runTick: the timeout fires.  A restart that waits is tried again, with no check.
TickBegins ==
    /\ IsUp(Host) /\ AtAwait /\ timer
    /\ timer' = FALSE /\ timeouts' = timeouts - 1
    /\ ticking' = TRUE /\ round' = IF restartPending THEN "retry" ELSE "check"
    /\ UNCHANGED <<uvars, started, settings, restart, queue, bounds>>

RetriesRestart ==
    /\ IsUp(Host) /\ AtAwait /\ round = "retry"
    /\ AppliesDeferredRestart
    /\ RoundEnds
    /\ UNCHANGED <<files, stage, tasks, marks, settings, queue, bounds>>

\* The check has an answer that ends the round: none, no newer release, one that cannot be
\* applied, or one that is only to be announced.
CheckEnds ==
    /\ IsUp(Host) /\ AtAwait /\ round = "check"
    /\ IF running[Host] = "new" \/ ~enabled THEN UNCHANGED budgets ELSE MayFail
    /\ RoundEnds
    /\ UNCHANGED <<files, stage, tasks, marks, settings, restart, queue, bounds>>

\* applyUpdate: the transaction under way is shared.
JoinsOrStarts ==
    IF stage[Host] = "idle"
    THEN Acquires(Host, "apply") /\ UNCHANGED <<files, judged, running, aside, installed, budgets, marks>>
    ELSE UNCHANGED uvars

CheckFindsUpdate ==
    /\ IsUp(Host) /\ AtAwait /\ round = "check"
    /\ running[Host] # "new" /\ enabled
    /\ JoinsOrStarts
    /\ round' = "apply"
    /\ UNCHANGED <<started, timer, timeouts, ticking, settings, restart, queue, bounds>>

\* POST /api/updates/apply.
AppliesByHand ==
    /\ IsUp(Host) /\ stage[Host] = "idle" /\ toggles < MaxToggles
    /\ toggles' = toggles + 1
    /\ JoinsOrStarts
    /\ UNCHANGED <<loop, settings, restart, queue, batches>>

\* The transaction has settled: whoever shared it goes on in the same turn.
Settles ==
    /\ stage[Host] = "settled"
    /\ Moves(Host, "idle") /\ ForgetsUse(Host)
    /\ IF round = "apply"
       THEN /\ RoundEnds
            /\ IF ~installed[Host] THEN UNCHANGED <<restart, budgets>>
               ELSE IF activeRun THEN restartPending' = TRUE /\ UNCHANGED <<relaunching, budgets>>
               ELSE Relaunches /\ UNCHANGED restartPending
       ELSE UNCHANGED <<loop, restart, budgets>>
    /\ UNCHANGED <<files, job, running, marks, settings, queue, bounds>>

-----------------------------------------------------------------------------
(* The runs, and the ends of processes.                                    *)

RunStarts ==
    /\ IsUp(Host) /\ AtAwait /\ ~activeRun /\ batches < MaxRuns
    /\ batches' = batches + 1
    /\ activeRun' = TRUE
    /\ UNCHANGED <<uvars, loop, settings, restart, nudged, toggles>>

\* The queue drains, and its import of the updates is another turn.
RunEnds ==
    /\ IsUp(Host) /\ AtAwait /\ activeRun
    /\ activeRun' = FALSE /\ nudged' = TRUE
    /\ UNCHANGED <<uvars, loop, settings, restart, bounds>>

QueueNudges ==
    /\ IsUp(Host) /\ AtAwait /\ nudged
    /\ nudged' = FALSE
    /\ AppliesDeferredRestart
    /\ UNCHANGED <<files, stage, tasks, marks, loop, settings, activeRun, bounds>>

\* shutdown stops the loop, ...
LoopStops ==
    /\ IsUp(Host) /\ AtAwait /\ relaunching /\ started
    /\ started' = FALSE /\ timer' = FALSE
    /\ timeouts' = timeouts - (IF timer THEN 1 ELSE 0)
    /\ UNCHANGED <<uvars, ticking, round, settings, restart, queue, bounds>>

HostEnds ==
    /\ timer' = FALSE /\ timeouts' = 0 /\ ticking' = FALSE /\ round' = "none"
    /\ started' = FALSE
    /\ restartPending' = FALSE /\ activeRun' = FALSE /\ nudged' = FALSE
    /\ UNCHANGED <<settings, relaunching, bounds>>

\* ... and the process exits, whatever else it was doing.
DaemonExits ==
    /\ IsUp(Host) /\ AtAwait /\ relaunching /\ ~started
    /\ ProcessEnds(Host) /\ UNCHANGED budgets
    /\ HostEnds

ProcessCrashes(p) ==
    /\ IsUp(p) /\ crashes < MaxCrashes
    /\ crashes' = crashes + 1 /\ UNCHANGED failures
    /\ ProcessEnds(p)
    /\ IF p = Host THEN HostEnds ELSE UNCHANGED avars

AutoInit ==
    /\ UInit
    /\ enabled \in BOOLEAN /\ notifyEnabled \in BOOLEAN
    /\ started = TRUE /\ timer = WantsTimer /\ timeouts = IF timer THEN 1 ELSE 0
    /\ ticking = FALSE /\ round = "none"
    /\ restartPending = FALSE /\ relaunching = FALSE
    /\ activeRun = FALSE /\ nudged = FALSE
    /\ toggles = 0 /\ batches = 0

Rounds == TickBegins \/ RetriesRestart \/ CheckEnds \/ CheckFindsUpdate \/ Settles

AutoNext ==
    \/ \E p \in Procs : (WorksOn(p) \/ BootsUp(p)) /\ UNCHANGED avars
    \/ \E p \in Procs : ProcessCrashes(p)
    \/ Rounds \/ Toggles \/ Retimes \/ AppliesByHand
    \/ RunStarts \/ RunEnds \/ QueueNudges \/ LoopStops \/ DaemonExits

AutoSpec == AutoInit /\ [][AutoNext]_autoVars

\* A process that began goes on, timeouts fire, checks and runs end.
Fairness ==
    /\ \A p \in Procs : WF_autoVars(WorksOn(p) /\ UNCHANGED avars)
    /\ WF_autoVars(Rounds) /\ SF_autoVars(RunEnds) /\ WF_autoVars(QueueNudges)
    /\ WF_autoVars(LoopStops) /\ WF_autoVars(DaemonExits)

AutoFairSpec == AutoSpec /\ Fairness

-----------------------------------------------------------------------------
(* Properties.                                                             *)

Types ==
    /\ lock \in [by : Procs, full : BOOLEAN] \cup {NoLock}
    /\ exe \in Whole \cup {"none", "torn"}
    /\ timeouts \in 0..2

\* Between the lock and its release.
InTransaction(p) ==
    stage[p] \in {"checking", "fetching", "summing", "hashing", "extracting", "verifying",
               "leaving", "entering", "copying", "finishing", "undoing", "restoring",
               "clearing", "sweeping", "releasing"}

\* One process at a time works on the installation, as long as nobody has removed a lock
\* other than the one it found abandoned.
OneTransaction ==
    ~raced => \A p, q \in Procs : InTransaction(p) /\ InTransaction(q) => p = q

\* Wherever a process stops, an executable that can be started is in place, or one that was
\* is kept beside it; unless a cleanup took it, or two processes were at it at once.
ExecutableSurvives == NothingWhole(asides) => swept \/ raced

\* What was not released is never in place, nor kept.
OnlyReleasedInstalled ==
    ~raced => exe # "bad" /\ \A c \in asides : c[2] # "bad"

\* There is one timeout when the loop is to wait for its next round, and none otherwise.
OneTimeout ==
    IsUp(Host) => timeouts = IF started /\ WantsTimer /\ ~ticking THEN 1 ELSE 0

\* Nothing is done twice at once, neither an update of the installation nor the wait for a
\* round, and something that starts and was released is in place or kept.
UpdatesAreSound == OneTransaction /\ OneTimeout /\ ExecutableSurvives /\ OnlyReleasedInstalled

\* A lock that was created and never written: nobody takes it for abandoned.
Wedged == lock # NoLock /\ ~lock.full /\ stage[lock.by] # "writing"

\* With silent installs on, the daemon comes to relaunch itself on the update, however its
\* runs, the updates by hand and other processes come in between; unless the lock is
\* wedged or the executable is gone.
UpdateArrives ==
    <>[]enabled => \/ <>(relaunching \/ ~IsUp(Host))
                   \/ <>[]Wedged
                   \/ <>[](exe \notin Whole)

\* cleanupUpdateArtifacts: "Keep recent rollback binaries: an interrupted handoff can still
\* need them."
RollbackKept == ~swept

=============================================================================
