------------------------------- MODULE Launch -------------------------------
(***************************************************************************)
(* How a daemon starts, finds out whether it is the only one, binds its    *)
(* port and publishes itself: serveCmd (cli/lifecycle.ts), startServer     *)
(* (http/serve.ts), the launch lock (launch-lock.ts), the free-port walk   *)
(* (find-free-port.mjs) and the instance pointer (instance-pointer.mjs).   *)
(* A process that ends loses its identity: its slot in Daemons is free for *)
(* the next one, its pid in the pointer becomes None and its launch lock   *)
(* becomes Orphan, a lock whose owner is not running.                      *)
(***************************************************************************)
EXTENDS Naturals, FiniteSets, FiniteSetsExt

CONSTANTS
    Daemons,       \* the processes there is room for
    None,          \* no process
    Orphan,        \* the owner of a launch lock left by a process that ended
    MaxDisturbances  \* bound: crashes, freezes, self-updates, shutdowns,
                     \* launches by hand and failed kills, together

ASSUME DaemonAssumption ==
    /\ None \notin Daemons /\ Orphan \notin Daemons /\ None # Orphan
    /\ IsFiniteSet(Daemons) /\ MaxDisturbances \in Nat

VARIABLES
    life,      \* life[d]: how far d's boot, or its exit, has come
    port,      \* port[d]: the port d listens on, or 0
    heir,      \* heir[d]: the port d takes over as the successor of an update, or 0
    frozen,    \* the daemons whose event loop is blocked
    pointer,   \* runtime.json: the pid and the port it names
    gate,      \* the owner of the launch lock
    sentinel,  \* shutdown.request exists
    blind,     \* the daemons that started beside one they could not see (history)
    disturbed  \* how many disturbances there have been
lvars == <<life, port, heir, frozen, pointer, gate, sentinel, blind, disturbed>>

Home == 1
Ports == Home..Cardinality(Daemons)

Up == {"bound", "serving", "leaving"}
Listeners(p) == {d \in Daemons : life[d] \in Up /\ port[d] = p}
Answers(p) == Listeners(p) \ frozen # {}

\* Where a probe looks: the pointer's own port, then the preferred one.
Probed == {pointer.port, Home} \ {0}
Live == \E p \in Probed : Answers(p)
Listening == \E p \in Probed : Listeners(p) # {}

Spare == {d \in Daemons : life[d] = "gone"}
Free == {p \in Ports : Listeners(p) = {}}

---------------------------------------------------------------------------
Disturbs == disturbed < MaxDisturbances /\ disturbed' = disturbed + 1

\* The processes K end, whatever they were at.
Ends(K) ==
    /\ life' = [d \in Daemons |-> IF d \in K THEN "gone" ELSE life[d]]
    /\ port' = [d \in Daemons |-> IF d \in K THEN 0 ELSE port[d]]
    /\ heir' = [d \in Daemons |-> IF d \in K THEN 0 ELSE heir[d]]
    /\ frozen' = frozen \ K
    /\ blind' = blind \ K

\* What a process leaves behind when it ends without a chance to clean up.
Strands(K) ==
    /\ pointer' = IF pointer.pid \in K THEN [pointer EXCEPT !.pid = None] ELSE pointer
    /\ gate' = IF gate \in K THEN Orphan ELSE gate

Killed(K) == Ends(K) /\ Strands(K) /\ UNCHANGED sentinel

\* A launch command runs as d.
Begins(d) ==
    /\ life' = [life EXCEPT ![d] = "starting"]
    /\ UNCHANGED <<port, heir, frozen, pointer, gate, sentinel, blind>>

MovesTo(d, s) == life' = [life EXCEPT ![d] = s]

\* clearInstanceInfo removes only a pointer that still names this process.
WithoutPointer(d) ==
    pointer' = IF pointer.pid = d THEN [pid |-> None, port |-> 0] ELSE pointer

\* release() unlinks only a lock that still names this process.
Released(d) == IF gate = d THEN None ELSE gate

---------------------------------------------------------------------------
(* acquireLaunchLock *)

\* Exclusive create.
TakesGate(d) ==
    /\ life[d] = "starting" /\ heir[d] = 0 /\ gate = None
    /\ gate' = d
    /\ MovesTo(d, "checking")
    /\ UNCHANGED <<port, heir, frozen, pointer, sentinel, blind, disturbed>>

\* The lock is a living process's: "already running", or "already starting".
BlockedAtGate(d) ==
    /\ life[d] = "starting" /\ heir[d] = 0 /\ gate \in Daemons
    /\ Ends({d})
    /\ UNCHANGED <<pointer, gate, sentinel, disturbed>>

\* The owner is not running: the file is judged first ...
FindsOrphan(d) ==
    /\ life[d] = "starting" /\ heir[d] = 0 /\ gate = Orphan
    /\ MovesTo(d, "clearing")
    /\ UNCHANGED <<port, heir, frozen, pointer, gate, sentinel, blind, disturbed>>

\* ... and unlinked by its path afterwards, whoever owns it by then.
ClearsGate(d) ==
    /\ life[d] = "clearing"
    /\ gate' = None
    /\ MovesTo(d, "starting")
    /\ blind' = IF gate \in Daemons THEN blind \cup {gate, d} ELSE blind
    /\ UNCHANGED <<port, heir, frozen, pointer, sentinel, disturbed>>

---------------------------------------------------------------------------
(* acquireSingletonGate and startServer *)

FindsLive(d) ==
    /\ life[d] = "checking" /\ Live
    /\ Ends({d})
    /\ gate' = Released(d)
    /\ UNCHANGED <<pointer, sentinel, disturbed>>

\* Slip: the launch lock is given back before the port is bound.
FindsNoneAndReleases(d) ==
    /\ life[d] = "checking" /\ ~Live
    /\ MovesTo(d, "binding")
    /\ gate' = Released(d)
    /\ blind' = IF \E e \in Daemons \ {d} : life[e] \in Up \/ heir[e] # 0
                THEN blind \cup {d} ELSE blind
    /\ UNCHANGED <<port, heir, frozen, pointer, sentinel, disturbed>>

\* Nothing answers where it looks. A daemon that listens all the same, or a
\* successor that has not bound yet, is one it cannot see.
FindsNone(d) ==
    /\ life[d] = "checking" /\ ~Live
    /\ MovesTo(d, "binding")
    /\ blind' = IF \E e \in Daemons \ {d} : life[e] \in Up \/ heir[e] # 0
                THEN blind \cup {d} ELSE blind
    /\ UNCHANGED <<port, heir, frozen, pointer, gate, sentinel, disturbed>>

\* findFreePort takes the first port that binds, Home when it can; a successor
\* retries the one port its predecessor is about to free.
Binds(d) ==
    /\ \/ life[d] = "binding" /\ port' = [port EXCEPT ![d] = Min(Free)]
       \/ /\ life[d] = "starting" /\ heir[d] \in Free
          /\ port' = [port EXCEPT ![d] = heir[d]]
    /\ MovesTo(d, "bound")
    /\ UNCHANGED <<heir, frozen, pointer, gate, sentinel, blind, disturbed>>

\* bindWithRetry gives up on a port that stays taken.
GivesUpBinding(d) ==
    /\ life[d] = "starting" /\ heir[d] # 0 /\ heir[d] \notin Free
    /\ Ends({d})
    /\ UNCHANGED <<pointer, gate, sentinel, disturbed>>

\* The rest of startServer: the pointer, the stale shutdown request, the lock.
Publishes(d) ==
    /\ life[d] = "bound" /\ d \notin frozen
    /\ MovesTo(d, "serving")
    /\ pointer' = [pid |-> d, port |-> port[d]]
    /\ sentinel' = FALSE
    /\ gate' = Released(d)
    /\ heir' = [heir EXCEPT ![d] = 0]
    /\ UNCHANGED <<port, frozen, blind, disturbed>>

---------------------------------------------------------------------------
(* Ending *)

\* relaunchForUpdate: a detached successor first, then this daemon's shutdown.
HandsOver(d, h) ==
    /\ life[d] = "serving" /\ d \notin frozen
    /\ Disturbs
    /\ h \in Spare
    /\ life' = [life EXCEPT ![d] = "leaving", ![h] = "starting"]
    /\ heir' = [heir EXCEPT ![h] = port[d]]
    /\ blind' = IF d \in blind THEN blind \cup {h} ELSE blind
    /\ UNCHANGED <<port, frozen, pointer, gate, sentinel>>

\* POST /api/shutdown, from the web page or `redesign stop`.
ShutsDown(d) ==
    /\ life[d] = "serving" /\ d \notin frozen
    /\ Disturbs
    /\ MovesTo(d, "leaving")
    /\ sentinel' = TRUE
    /\ UNCHANGED <<port, heir, frozen, pointer, gate, blind>>

Leaves(d) ==
    /\ life[d] = "leaving" /\ d \notin frozen
    /\ Ends({d})
    /\ WithoutPointer(d)
    /\ UNCHANGED <<gate, sentinel, disturbed>>

Crashes(d) ==
    /\ life[d] # "gone"
    /\ Disturbs
    /\ Ends({d}) /\ Strands({d})
    /\ UNCHANGED sentinel

Freezes(d) ==
    /\ life[d] \in Up /\ d \notin frozen
    /\ Disturbs
    /\ frozen' = frozen \cup {d}
    /\ UNCHANGED <<life, port, heir, pointer, gate, sentinel, blind>>

Thaws(d) ==
    /\ d \in frozen
    /\ frozen' = frozen \ {d}
    /\ UNCHANGED <<life, port, heir, pointer, gate, sentinel, blind, disturbed>>

\* Somebody runs `redesign serve` in a terminal.
LaunchedByHand(d) ==
    /\ d \in Spare
    /\ Disturbs
    /\ Begins(d)

Boots(d) ==
    \/ TakesGate(d) \/ FindsOrphan(d) \/ ClearsGate(d)
    \/ FindsNone(d) \/ Binds(d) \/ Publishes(d)

\* The steps that end the process d of its own.
Exits(d) ==
    BlockedAtGate(d) \/ FindsLive(d) \/ GivesUpBinding(d) \/ Leaves(d) \/ Crashes(d)

---------------------------------------------------------------------------
(***************************************************************************)
(* Two daemons listen at once only when one of them started while another  *)
(* could not be seen - frozen, or a successor still waiting for its port - *)
(* or a launch lock was unlinked under a process that had just taken it:   *)
(* the gate and the probe (cli/lifecycle.ts:189-209) hold in every other   *)
(* order of a tray's spawns, launches by hand, updates and deaths.         *)
(***************************************************************************)
OneDaemon ==
    \A d, e \in Daemons :
        life[d] \in Up /\ life[e] \in Up /\ d # e => {d, e} \cap blind # {}
=============================================================================
