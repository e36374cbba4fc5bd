---------------------------- MODULE UpkeepProofs ----------------------------
(***************************************************************************)
(* Proofs about what keeps the program up and up to date: the tray and its *)
(* watchdog (Tray, Launch), the updates of a release (AutoUpdate, Updater) *)
(* and of a source checkout (SourceUpdate).  The three are one component   *)
(* each and share no state; each part below says what its theorems rest    *)
(* on.                                                                     *)
(***************************************************************************)
EXTENDS Tray, AutoUpdate, SourceUpdate, CollectionProofs

-----------------------------------------------------------------------------
(* Tray, for any finite set of daemons and any patience.                   *)
(*                                                                         *)
(* That daemons which could see each other do not both serve rests on who  *)
(* holds the gate while it checks and binds, and on the one exception: a   *)
(* replacement takes over the port of the one that is leaving.  That one   *)
(* hand at a time is at a daemon, and that a busy one is spared, rest on   *)
(* the silence the watchdog counts being no longer than it was.            *)

Lives == {"gone", "starting", "checking", "clearing", "binding", "bound", "serving", "leaving"}

\* The variables of the daemons keep their types, ...
LaunchTypeOK ==
    /\ life \in [Daemons -> Lives]
    /\ port \in [Daemons -> Ports \cup {0}]
    /\ heir \in [Daemons -> Ports \cup {0}]
    /\ frozen \subseteq Daemons /\ blind \subseteq Daemons
    /\ pointer \in [pid : Daemons \cup {None}, port : Ports \cup {0}]
    /\ gate \in Daemons \cup {None, Orphan}
    /\ sentinel \in BOOLEAN /\ disturbed \in Nat

\* ... and those of the tray.
TrayTypeOK ==
    /\ ui \in {"idle", "reaping", "reaped", "quitting", "leaving", "gone"}
    /\ child \in Daemons \cup {None}
    /\ worker \in [at : {"off", "stop", "spawn", "await"}, attempt : Nat]
    /\ cancel \in BOOLEAN
    /\ met \subseteq Daemons
    /\ deaf \in Nat

\* What is known of the watchdog's memory.
MemoryOK(w) ==
    /\ DOMAIN w = {"misses", "silent", "healthy", "grace", "paused", "revives"}
    /\ w.misses \in Nat /\ w.silent \in Nat /\ w.healthy \in Nat /\ w.grace \in Nat
    /\ w.paused \in BOOLEAN

WatchTypeOK == MemoryOK(watch)

\* It serves or is about to, and has seen to it that no other does.
Contender(d) == d \notin blind /\ (life[d] \in Up \cup {"binding"} \/ heir[d] # 0)

\* h is to take over the port d is leaving.
Succeeds(h, d) == life[d] = "leaving" /\ life[h] = "starting" /\ heir[h] = port[d]

LaunchInv ==
    /\ \A d \in Daemons : life[d] = "gone" => heir[d] = 0
    /\ \A d, e \in Daemons : d # e /\ Contender(d) /\ Contender(e) => Succeeds(d, e) \/ Succeeds(e, d)
    /\ \A d \in Daemons : d \notin blind /\ life[d] \in {"checking", "binding"} => gate = d

WatchInv ==
    /\ watch.silent <= deaf
    /\ ui = "reaping" => met = {} \/ deaf > BusyPatience

LaunchOK == LaunchTypeOK /\ LaunchInv
TrayInv == LaunchOK /\ TrayTypeOK /\ WatchTypeOK /\ OneHand /\ WatchInv
-----------------------------------------------------------------------------
\* There is room for every daemon: one that does not listen finds a port.
LEMMA FreePort ==
  ASSUME LaunchOK, NEW d \in Daemons, life[d] \notin Up
  PROVE  Min(Free) \in Free
<1>1. Cardinality(Daemons) \in Nat /\ IsFiniteSet(Ports) /\ Cardinality(Ports) = Cardinality(Daemons)
  <2>1. Cardinality(Daemons) \in Nat
    BY DaemonAssumption, FS_CardinalityType
  <2>2. QED
    BY <2>1, FS_Interval DEF Ports, Home
<1>2. Free # {}
  <2>1. SUFFICES ASSUME Free = {} PROVE FALSE
    OBVIOUS
  <2> DEFINE Rivals == Daemons \ {d}
             f == [p \in Ports |-> CHOOSE e \in Daemons : life[e] \in Up /\ port[e] = p]
  <2>2. \A p \in Ports : f[p] \in Rivals /\ port[f[p]] = p
    <3> SUFFICES ASSUME NEW p \in Ports PROVE f[p] \in Rivals /\ port[f[p]] = p
      OBVIOUS
    <3>1. \E e \in Daemons : life[e] \in Up /\ port[e] = p
      BY <2>1 DEF Free, Listeners
    <3>2. f[p] \in Daemons /\ life[f[p]] \in Up /\ port[f[p]] = p
      BY <3>1
    <3>3. QED
      BY <3>2
  <2>3. f \in [Ports -> Rivals]
    BY <2>2
  <2>4. IsFiniteSet(Rivals) /\ Cardinality(Rivals) = Cardinality(Daemons) - 1
    BY DaemonAssumption, FS_RemoveElement
  <2>5. Cardinality(Rivals) < Cardinality(Ports)
    BY <1>1, <2>4
  <2> HIDE DEF f, Rivals
  <2>6. \E p, q \in Ports : p # q /\ f[p] = f[q]
    BY <1>1, <2>3, <2>4, <2>5, FS_PigeonHole
  <2>7. QED
    BY <2>2, <2>6
<1>3. Free \subseteq Nat
  BY <1>1 DEF Free, Ports, Home
<1>4. \E n \in Free : \A m \in Free : n <= m
  BY <1>2, <1>3, LeastNatural
<1>5. QED
  BY <1>4 DEF Min

\* A launch that begins in a free slot contends with nobody yet.
LEMMA BeginKeeps ==
  ASSUME LaunchOK, NEW d \in Spare, Begins(d)
  PROVE  LaunchInv' /\ life' \in [Daemons -> Lives]
BY DEF Begins, Spare, LaunchOK, LaunchInv, Contender, Succeeds, LaunchTypeOK, Lives, Up

\* Processes that end contend with nobody any more, and what is left of their launch lock is no
\* other's.
LEMMA EndKeeps ==
  ASSUME LaunchOK, NEW K, Ends(K), \A d \in Daemons \ K : gate = d => gate' = d
  PROVE  /\ LaunchInv'
         /\ life' \in [Daemons -> Lives]
         /\ port' \in [Daemons -> Ports \cup {0}] /\ heir' \in [Daemons -> Ports \cup {0}]
         /\ frozen' \subseteq Daemons /\ blind' \subseteq Daemons
<1> USE DEF Ends, LaunchOK, LaunchTypeOK
<1>1. /\ life' \in [Daemons -> Lives]
      /\ port' \in [Daemons -> Ports \cup {0}] /\ heir' \in [Daemons -> Ports \cup {0}]
      /\ frozen' \subseteq Daemons /\ blind' \subseteq Daemons
  BY DEF Lives
<1>2. \A d \in Daemons : \/ d \in K /\ life'[d] = "gone" /\ heir'[d] = 0
                         \/ /\ d \notin K /\ life'[d] = life[d] /\ heir'[d] = heir[d] /\ port'[d] = port[d]
                            /\ d \in blind' <=> d \in blind
  OBVIOUS
<1>3. \A d \in Daemons : Contender(d)' => d \notin K /\ Contender(d)
  BY <1>2 DEF Contender, Up
<1>4. QED
  BY <1>1, <1>2, <1>3 DEF LaunchInv, Succeeds, Up

\* A kill leaves the launch lock to a process that lives.
LEMMA KillKeeps ==
  ASSUME LaunchOK, NEW K, Ends(K), Strands(K)
  PROVE  /\ LaunchInv'
         /\ life' \in [Daemons -> Lives]
         /\ port' \in [Daemons -> Ports \cup {0}] /\ heir' \in [Daemons -> Ports \cup {0}]
         /\ frozen' \subseteq Daemons /\ blind' \subseteq Daemons
         /\ pointer' \in [pid : Daemons \cup {None}, port : Ports \cup {0}]
         /\ gate' \in Daemons \cup {None, Orphan}
<1>1. \A d \in Daemons \ K : gate = d => gate' = d
  BY DEF Strands
<1>2. /\ pointer' \in [pid : Daemons \cup {None}, port : Ports \cup {0}]
      /\ gate' \in Daemons \cup {None, Orphan}
  BY DEF Strands, LaunchOK, LaunchTypeOK
<1>3. QED
  BY <1>1, <1>2, EndKeeps

\* A daemon that boots leaves what is known of the others.
LEMMA BootKeeps ==
  ASSUME LaunchOK, NEW d \in Daemons, Boots(d)
  PROVE  LaunchOK'
<1> USE DEF LaunchOK, LaunchTypeOK, LaunchInv, Contender, Succeeds, Up, Lives, MovesTo
<1>1. CASE TakesGate(d)
  BY <1>1, DaemonAssumption DEF TakesGate
<1>2. CASE FindsOrphan(d)
  BY <1>2 DEF FindsOrphan
<1>3. CASE ClearsGate(d)
  BY <1>3, DaemonAssumption DEF ClearsGate
<1>4. CASE FindsNone(d)
  BY <1>4 DEF FindsNone
<1>5. CASE Binds(d)
  <2>1. life[d] \notin Up
    BY <1>5 DEF Binds
  <2>2. Min(Free) \in Free
    BY <2>1, FreePort
  <2>3. \A p \in Free : p \in Ports /\ p # 0 /\ \A e \in Daemons : life[e] \in Up => port[e] # p
    BY DEF Free, Listeners, Ports, Home
  <2>4. CASE life[d] = "binding"
    BY <1>5, <2>2, <2>3, <2>4 DEF Binds
  <2>5. CASE life[d] = "starting"
    <3>1. heir[d] \in Free
      BY <1>5, <2>5 DEF Binds
    <3>2. \A e \in Daemons : ~Succeeds(d, e)
      BY <2>3, <3>1
    <3>3. QED
      BY <1>5, <2>3, <2>5, <3>1, <3>2 DEF Binds
  <2>6. QED
    BY <1>5, <2>4, <2>5 DEF Binds
<1>6. CASE Publishes(d)
  <2>1. LaunchTypeOK'
    BY <1>6 DEF Publishes, Released
  <2>2. /\ life[d] = "bound" /\ life' = [life EXCEPT ![d] = "serving"] /\ heir' = [heir EXCEPT ![d] = 0]
        /\ UNCHANGED <<port, blind>>
        /\ \A e \in Daemons \ {d} : gate = e => gate' = e
    BY <1>6 DEF Publishes, Released
  <2>3. QED
    BY <2>1, <2>2
<1>7. QED
  BY <1>1, <1>2, <1>3, <1>4, <1>5, <1>6 DEF Boots

\* So do its other steps, ...
LEMMA DisturbanceKeeps ==
  ASSUME LaunchOK, NEW d \in Daemons,
         \/ ShutsDown(d) \/ Freezes(d) \/ Thaws(d) \/ LaunchedByHand(d)
         \/ \E h \in Daemons : HandsOver(d, h)
  PROVE  LaunchOK'
<1> USE DEF LaunchOK, LaunchTypeOK, LaunchInv, Contender, Succeeds, Up, Lives, MovesTo, Disturbs
<1>1. CASE ShutsDown(d)
  BY <1>1 DEF ShutsDown
<1>2. CASE Freezes(d)
  BY <1>2 DEF Freezes
<1>3. CASE Thaws(d)
  BY <1>3 DEF Thaws
<1>4. CASE LaunchedByHand(d)
  BY <1>4 DEF LaunchedByHand, Begins, Spare
<1>5. ASSUME NEW h \in Daemons, HandsOver(d, h)
      PROVE  LaunchOK'
  BY <1>5 DEF HandsOver, Spare
<1>6. QED
  BY <1>1, <1>2, <1>3, <1>4, <1>5

\* ... and its end.
LEMMA ExitKeeps ==
  ASSUME LaunchOK, NEW d \in Daemons, Exits(d)
  PROVE  LaunchOK'
<1>1. CASE BlockedAtGate(d) \/ GivesUpBinding(d)
  BY <1>1, EndKeeps DEF BlockedAtGate, GivesUpBinding, LaunchOK, LaunchTypeOK
<1>2. CASE FindsLive(d)
  <2>1. Ends({d}) /\ gate' = Released(d) /\ UNCHANGED <<pointer, sentinel, disturbed>>
    BY <1>2 DEF FindsLive
  <2>2. \A e \in Daemons \ {d} : gate = e => gate' = e
    BY <2>1 DEF Released
  <2>3. QED
    BY <2>1, <2>2, EndKeeps DEF LaunchOK, LaunchTypeOK, Released
<1>3. CASE Leaves(d)
  <2>1. Ends({d}) /\ WithoutPointer(d) /\ UNCHANGED <<gate, sentinel, disturbed>>
    BY <1>3 DEF Leaves
  <2>2. QED
    BY <2>1, EndKeeps DEF LaunchOK, LaunchTypeOK, WithoutPointer
<1>4. CASE Crashes(d)
  BY <1>4, KillKeeps DEF Crashes, Disturbs, LaunchOK, LaunchTypeOK
<1>5. QED
  BY <1>1, <1>2, <1>3, <1>4 DEF Exits

\* What leaves the daemons alone, ...
LEMMA UnchangedKeeps ==
  ASSUME LaunchOK, UNCHANGED <<life, port, heir, frozen, pointer, gate, sentinel, blind>>, disturbed' \in Nat
  PROVE  LaunchOK'
BY DEF LaunchOK, LaunchTypeOK, LaunchInv, Contender, Succeeds

\* ... what touches nothing here keeps it, ...
LEMMA StillKeeps ==
  ASSUME LaunchOK, UNCHANGED lvars
  PROVE  LaunchOK'
BY UnchangedKeeps DEF lvars, LaunchOK, LaunchTypeOK

\* ... what kills some of them, ...
LEMMA KilledKeeps ==
  ASSUME LaunchOK, NEW K, Killed(K), disturbed' \in Nat
  PROVE  LaunchOK'
BY KillKeeps DEF Killed, LaunchOK, LaunchTypeOK

\* ... and so does the tray's leaving, which also drops the sentinel, ...
LEMMA QuitKeeps ==
  ASSUME LaunchOK, NEW K, Ends(K), Strands(K), sentinel' \in BOOLEAN, disturbed' \in Nat
  PROVE  LaunchOK'
BY KillKeeps DEF LaunchOK, LaunchTypeOK

\* ... and what spawns one keeps to it.
LEMMA SpawnKeeps ==
  ASSUME LaunchOK, child \in Daemons \cup {None}, Spawns
  PROVE  LaunchOK' /\ child' \in Daemons \cup {None}
<1>1. ASSUME NEW d \in Spare, Begins(d), child' = d, UNCHANGED disturbed
      PROVE  LaunchOK' /\ child' \in Daemons \cup {None}
  BY <1>1, BeginKeeps DEF LaunchOK, LaunchTypeOK, Begins, Spare
<1>2. CASE UNCHANGED <<lvars, child>>
  BY <1>2, UnchangedKeeps DEF lvars, LaunchOK, LaunchTypeOK
<1>3. QED
  BY <1>1, <1>2 DEF Spawns

-----------------------------------------------------------------------------
\* A tick later the watchdog's memory is of the same kind, ...
LEMMA AgedOK ==
  ASSUME NEW w, MemoryOK(w)
  PROVE  /\ MemoryOK(Aged(w))
         /\ Aged(w).silent = IF w.silent = 0 THEN 0 ELSE Least(w.silent + 1, BusyPatience + 1)
BY PatienceAssumption DEF MemoryOK, Aged, Least

\* ... and whatever the probe has found: an answer ends the silence, ...
LEMMA AnsweredOK ==
  ASSUME NEW w, MemoryOK(w)
  PROVE  MemoryOK(Answered(w)) /\ Answered(w).silent = 0
<1> DEFINE v == [w EXCEPT !.misses = 0, !.silent = 0,
                          !.healthy = IF w.paused /\ @ = 0 THEN 1 ELSE @]
<1>1. MemoryOK(v) /\ v.silent = 0
  BY DEF MemoryOK
<1>2. MemoryOK(Rearmed(v)) /\ Rearmed(v).silent = 0
  BY <1>1 DEF MemoryOK, Rearmed
<1>3. QED
  BY <1>1, <1>2 DEF Answered

\* ... a miss begins it or goes on with it, ...
LEMMA MissedOK ==
  ASSUME NEW w, MemoryOK(w)
  PROVE  MemoryOK(Missed(w)) /\ Missed(w).silent = IF w.silent = 0 THEN 1 ELSE w.silent
BY PatienceAssumption DEF MemoryOK, Missed, Least

\* ... and a revive forgets it.
LEMMA RemembersOK ==
  ASSUME NEW w, MemoryOK(w)
  PROVE  /\ MemoryOK(Remembers(w, Verdict(w)))
         /\ Remembers(w, Verdict(w)).silent \in {w.silent, 0}
<1>1. Verdict(w) \in {"hiccup", "slow", "busy", "grace", "paused", "crashloop", "revive"}
  BY DEF Verdict, MemoryOK
<1> DEFINE dead == [w EXCEPT !.healthy = 0]
<1>2. MemoryOK(dead) /\ dead.silent = w.silent
  BY DEF MemoryOK
<1>3. MemoryOK([dead EXCEPT !.misses = 0]) /\ [dead EXCEPT !.misses = 0].silent = w.silent
  BY <1>2 DEF MemoryOK
<1>4. MemoryOK([dead EXCEPT !.paused = TRUE]) /\ [dead EXCEPT !.paused = TRUE].silent = w.silent
  BY <1>2 DEF MemoryOK
<1>5. LET r == [dead EXCEPT !.misses = 0, !.silent = 0, !.grace = ReviveGrace, !.revives = Append(@, 0)]
      IN  MemoryOK(r) /\ r.silent = 0
  BY <1>2, PatienceAssumption DEF MemoryOK
<1> HIDE DEF dead
<1>6. QED
  BY <1>1, <1>2, <1>3, <1>4, <1>5 DEF Remembers, dead

\* A revive is decided with no worker about, and of nothing that listens unless the silence
\* was longer than the patience.
LEMMA ReviveOK ==
  ASSUME NEW w, MemoryOK(w), Verdict(w) = "revive"
  PROVE  ~busy /\ (Listening => w.silent > BusyPatience)
<1>1. ~Hiccup(w) /\ ~Slow(w) /\ ~busy
  BY DEF Verdict, MemoryOK
<1>2. QED
  BY <1>1, PatienceAssumption DEF Slow, MemoryOK

-----------------------------------------------------------------------------
\* No step of the tray or of a daemon breaks the invariant.
LEMMA TrayStep ==
  ASSUME TrayInv, [Next]_vars
  PROVE  TrayInv'
<1> USE DEF TrayInv, TrayTypeOK, WatchTypeOK, OneHand, busy, WatchInv, tvars
<1>0. disturbed \in Nat /\ met \subseteq Daemons
  BY DEF LaunchOK, LaunchTypeOK
<1>1. CASE TickAnswered
  <2>1. MemoryOK(watch') /\ watch'.silent = 0
    BY <1>1, AgedOK, AnsweredOK DEF TickAnswered
  <2>2. met' \subseteq Daemons
    BY <1>1 DEF TickAnswered, PortOwners, Listeners
  <2>3. LaunchOK'
    BY <1>1, StillKeeps DEF TickAnswered
  <2>4. QED
    BY <1>1, <2>1, <2>2, <2>3 DEF TickAnswered
<1>2. CASE TickMissed
  <2> DEFINE w == Missed(Aged(watch))
  <2>1. MemoryOK(w) /\ w.silent = IF watch.silent = 0 THEN 1 ELSE Least(watch.silent + 1, BusyPatience + 1)
    BY AgedOK, MissedOK, PatienceAssumption DEF MemoryOK, Least
  <2>2. w.silent <= deaf' /\ deaf' \in Nat
    BY <1>2, <2>1, PatienceAssumption DEF TickMissed, Least, MemoryOK
  <2>3. watch' = Remembers(w, Verdict(w)) /\ ui' = IF Verdict(w) = "revive" THEN "reaping" ELSE "idle"
    BY <1>2 DEF TickMissed
  <2>4. met' = met \cap PortOwners /\ UNCHANGED <<lvars, child, worker, cancel>>
    BY <1>2 DEF TickMissed
  <2> HIDE DEF w
  <2>5. MemoryOK(watch') /\ watch'.silent <= deaf'
    BY <2>1, <2>2, <2>3, RemembersOK
  <2>6. ui' = "reaping" => ~busy /\ (met' = {} \/ deaf' > BusyPatience)
    <3>1. SUFFICES ASSUME Verdict(w) = "revive"
                   PROVE  ~busy /\ (met' = {} \/ deaf' > BusyPatience)
      BY <2>3
    <3>2. ~busy /\ (Listening => w.silent > BusyPatience)
      BY <2>1, <3>1, ReviveOK
    <3>3. ~Listening => PortOwners = {}
      BY DEF Listening, PortOwners
    <3>4. QED
      BY <2>1, <2>2, <2>4, <3>2, <3>3, PatienceAssumption DEF MemoryOK
  <2>7. LaunchOK'
    BY <2>4, StillKeeps
  <2>8. QED
    BY <2>2, <2>3, <2>4, <2>5, <2>6, <2>7
<1>3. CASE Reaps
  <2>1. PICK left \in SUBSET PortOwners :
           /\ IF left = {} THEN UNCHANGED disturbed ELSE Disturbs
           /\ LET K == (PortOwners \cup ({child} \cap Daemons)) \ left
              IN  Killed(K) /\ met' = met \ K
    BY <1>3 DEF Reaps
  <2>2. LaunchOK' /\ met' \subseteq met
    BY <1>0, <2>1, KilledKeeps DEF Disturbs
  <2>3. QED
    BY <1>3, <2>2 DEF Reaps
<1>4. CASE Revives
  BY <1>4, SpawnKeeps DEF Revives
<1>5. CASE LeavesItBe
  BY <1>5, StillKeeps DEF LeavesItBe
<1>6. CASE StartsWorker
  <2>1. MemoryOK(watch') /\ watch'.silent = watch.silent
    BY <1>6 DEF StartsWorker, Rearmed, MemoryOK
  <2>2. LaunchOK'
    BY <1>0, <1>6, UnchangedKeeps DEF StartsWorker, Disturbs
  <2>3. QED
    BY <1>6, <2>1, <2>2 DEF StartsWorker
<1>7. CASE Stops
  BY <1>0, <1>7, KilledKeeps DEF Stops, Forgets, WorkerAt
<1>8. CASE SpawnsAgain
  BY <1>8, SpawnKeeps DEF SpawnsAgain, WorkerAt
<1>9. CASE Ready \/ GivesUp
  BY <1>9, StillKeeps DEF Ready, GivesUp, WorkerAt
<1>10. CASE Retries
  BY <1>0, <1>10, KilledKeeps DEF Retries, Forgets
<1>11. CASE Quits
  BY <1>0, <1>11, QuitKeeps DEF Quits, Forgets
<1>12. CASE StopsDaemon
  BY <1>0, <1>12, KilledKeeps DEF StopsDaemon, Forgets
<1>13. CASE TrayExits
  BY <1>13, StillKeeps DEF TrayExits
<1>14. ASSUME NEW d \in Daemons, DaemonSteps(d)
       PROVE  TrayInv'
  BY <1>14, BootKeeps, DisturbanceKeeps, ExitKeeps DEF DaemonSteps, Forgets
<1>15. CASE UNCHANGED vars
  BY <1>15, StillKeeps DEF vars
<1>16. QED
  BY <1>1, <1>2, <1>3, <1>4, <1>5, <1>6, <1>7, <1>8, <1>9, <1>10, <1>11, <1>12, <1>13, <1>14, <1>15
  DEF Next, Ticks, Works, Leaving, QuitsOnRequest

\* The invariant holds when the tray has spawned its first daemon.
LEMMA TrayInitOK == Init => TrayInv
<1> SUFFICES ASSUME NEW d \in Daemons,
        /\ life = [e \in Daemons |-> IF e = d THEN "starting" ELSE "gone"]
        /\ child = d
        /\ port = [e \in Daemons |-> 0] /\ heir = [e \in Daemons |-> 0]
        /\ frozen = {} /\ blind = {} /\ gate = None /\ sentinel = FALSE
        /\ pointer = [pid |-> None, port |-> 0] /\ disturbed = 0
        /\ ui = "idle" /\ cancel = FALSE
        /\ worker = [at |-> "off", attempt |-> 0]
        /\ watch = [misses |-> 0, silent |-> 0, healthy |-> 0, grace |-> 0,
                    paused |-> FALSE, revives |-> <<>>]
        /\ met = {} /\ deaf = 0
      PROVE TrayInv
  BY DEF Init
<1>1. LaunchOK
  BY DEF LaunchOK, LaunchTypeOK, LaunchInv, Lives, Contender, Up
<1>2. TrayTypeOK
  BY DEF TrayTypeOK
<1>3. WatchTypeOK /\ OneHand /\ WatchInv
  BY DEF WatchTypeOK, MemoryOK, OneHand, WatchInv
<1>4. QED
  BY <1>1, <1>2, <1>3 DEF TrayInv

-----------------------------------------------------------------------------
\* Every reachable state of the tray and of the daemons it watches satisfies the invariant.
THEOREM TrayInvariance == Spec => []TrayInv
<1>1. TrayInv /\ [Next]_vars => TrayInv'
  BY TrayStep
<1>2. QED
  BY <1>1, TrayInitOK, PTL DEF Spec

\* What there is of daemons, lock and pointer, and of the tray's threads, keeps its type.
THEOREM TrayTypeCorrect == Spec => [](LaunchTypeOK /\ TrayTypeOK)
<1>1. TrayInv => LaunchTypeOK /\ TrayTypeOK
  BY DEF TrayInv, LaunchOK
<1>2. QED
  BY <1>1, TrayInvariance, PTL

\* Of two daemons that listen at once, one started where it could not see the other; and the
\* watchdog and the worker are never both at one daemon's processes.
THEOREM OneDaemonAtATime == Spec => []OneAtATime
<1>1. TrayInv => OneDaemon
  BY DEF TrayInv, LaunchOK, LaunchInv, LaunchTypeOK, OneDaemon, Contender, Succeeds, Up
<1>2. TrayInv => OneAtATime
  BY <1>1 DEF TrayInv, OneAtATime
<1>3. QED
  BY <1>2, TrayInvariance, PTL

\* A daemon that has answered is reaped only after a silence longer than the patience, or with
\* its listener gone.
THEOREM TheBusyAreSpared == Spec => BusyIsSpared
<1> DEFINE Spared == \A d \in Daemons :
        Reaps /\ d \in (met \cap PortOwners) \ blind /\ life'[d] = "gone" => deaf > BusyPatience
<1>1. TrayInv => Spared
  BY DEF TrayInv, WatchInv, Reaps
<1>2. TrayInv /\ [Next]_vars => [Spared]_vars
  BY <1>1
<1>3. QED
  BY <1>2, TrayInvariance, PTL DEF Spec, BusyIsSpared

-----------------------------------------------------------------------------
(* AutoUpdate and Updater, for any set of processes and any number of      *)
(* failures and crashes.                                                   *)
(*                                                                         *)
(* That one process at a time is in a transaction rests on the lock        *)
(* naming whoever is, on a lock that names nobody yet being its writer's,  *)
(* and on an owner that was found dead staying so.  It holds as long as    *)
(* nobody removes a lock other than the one found abandoned, and with it   *)
(* that what is in place or kept was released, and that something starts.  *)

\* Where a process is with the lock, ...
Inside == {"checking", "fetching", "summing", "hashing", "extracting", "verifying", "leaving",
           "entering", "copying", "finishing", "undoing", "restoring", "clearing", "sweeping",
           "releasing"}
\* ... on its way to it or from it, ...
Outside == {"idle", "opening", "judging", "rereading", "removing", "refused", "settled"}
Places == Inside \cup Outside \cup {"writing", "unlinking", "off", "gone"}

\* ... and where it has moved the executable aside.
Swapping == {"entering", "copying", "finishing", "undoing", "restoring"}

BuildKinds == Whole \cup {"torn"}
Parts == {"none", "new", "bad"}
Locks == [by : Procs, full : BOOLEAN] \cup {NoLock}

\* The variables of the installation keep their types, ...
InstallTypeOK ==
    /\ lock \in Locks
    /\ exe \in BuildKinds \cup {"none"}
    /\ asides \subseteq Procs \X BuildKinds
    /\ staging \in [archive : Parts, candidate : Parts]
    /\ stage \in [Procs -> Places]
    /\ job \in [Procs -> {"apply", "sweep"}]
    /\ judged \in [Procs -> Procs]
    /\ running \in [Procs -> Whole]
    /\ aside \in [Procs -> BuildKinds \cup {"none"}]
    /\ installed \in [Procs -> BOOLEAN]
    /\ failures \in Nat /\ crashes \in Nat
    /\ raced \in BOOLEAN /\ swept \in BOOLEAN

\* ... and so do the flags of the loop and its counts.
FlagsTypeOK ==
    /\ started \in BOOLEAN /\ timer \in BOOLEAN /\ ticking \in BOOLEAN
    /\ round \in {"none", "retry", "check", "apply"}
    /\ enabled \in BOOLEAN /\ notifyEnabled \in BOOLEAN
    /\ restartPending \in BOOLEAN /\ relaunching \in BOOLEAN
    /\ activeRun \in BOOLEAN /\ nudged \in BOOLEAN

CountsTypeOK == timeouts \in Nat /\ toggles \in Nat /\ batches \in Nat

LoopTypeOK == FlagsTypeOK /\ CountsTypeOK

\* Who is inside holds the lock, who writes has just created it, a lock that names its owner
\* is held or its owner is gone, and whoever was found dead is.
LockInv ==
    ~raced =>
      /\ \A p \in Procs : stage[p] \in Inside \cup {"unlinking"} => lock = OwnedBy(p)
      /\ \A p \in Procs : stage[p] = "writing" => lock = [by |-> p, full |-> FALSE]
      /\ \A p \in Procs : lock = OwnedBy(p) => stage[p] \in Inside \cup {"unlinking", "gone"}
      /\ \A p \in Procs : stage[p] = "removing" /\ judged[p] # p => stage[judged[p]] = "gone"

\* What is past the digest was released, ...
ReleaseInv ==
    ~raced =>
      /\ exe # "bad" /\ \A c \in asides : c[2] # "bad"
      /\ \A p \in Procs :
           /\ stage[p] = "extracting" => staging.archive # "bad"
           /\ stage[p] \in {"verifying", "leaving", "entering", "copying"} => staging.candidate # "bad"

\* ... and while the executable is replaced, one that starts is among the copies.
KeptInv ==
    ~raced /\ ~swept =>
      /\ ~NothingWhole(asides)
      /\ \A p \in Procs : stage[p] \in Swapping => \E c \in asides : c[2] \in Whole

\* The loop knows of the one timeout there is, and it has one when it is to wait.
TimerInv ==
    /\ stage[Host] # "off"
    /\ IsUp(Host) => /\ timer <=> (started /\ WantsTimer /\ ~ticking)
                     /\ timeouts = IF timer THEN 1 ELSE 0
                     /\ ticking <=> round # "none"

InstallInv == InstallTypeOK /\ LockInv /\ ReleaseInv /\ KeptInv
AutoInv == InstallInv /\ LoopTypeOK /\ TimerInv
-----------------------------------------------------------------------------
\* A lock is nobody's, or one that was created, with its owner's pid in it or without.
LEMMA LockKinds ==
  ASSUME InstallTypeOK
  PROVE  /\ lock.full => lock.by \in Procs /\ lock = OwnedBy(lock.by)
         /\ lock # NoLock /\ ~lock.full => lock.by \in Procs /\ lock = [by |-> lock.by, full |-> FALSE]
         /\ \A p \in Procs : OwnedBy(p) \in Locks /\ [by |-> p, full |-> FALSE] \in Locks
         /\ \A p \in Procs : lock.by = p => lock # NoLock
BY HostAssumption DEF InstallTypeOK, Locks, OwnedBy, NoLock

\* What a process does with the lock keeps the types of the installation, ...
LEMMA HandlingKeepsTypes ==
  ASSUME InstallTypeOK, NEW p \in Procs, HandlesLock(p)
  PROVE  InstallTypeOK'
<1> USE DEF InstallTypeOK, Places, Inside, Outside, Locks, OwnedBy, files, others, tasks, budgets, marks, Moves, MayFail
<1>1. CASE OpensLock(p)
  BY <1>1, LockKinds DEF OpensLock
<1>2. CASE WritesLock(p)
  BY <1>2 DEF WritesLock, WithLock
<1>3. CASE LockFails(p)
  BY <1>3 DEF LockFails
<1>4. CASE JudgesLock(p)
  BY <1>4 DEF JudgesLock
<1>5. CASE RereadsLock(p)
  BY <1>5, LockKinds DEF RereadsLock
<1>6. CASE RemovesLock(p)
  BY <1>6 DEF RemovesLock
<1>7. CASE IsRefused(p)
  BY <1>7 DEF IsRefused, Done
<1>8. CASE Releases(p)
  BY <1>8 DEF Releases, Done
<1>9. CASE UnlinksLock(p)
  BY <1>9 DEF UnlinksLock, Done
<1>10. QED
  BY <1>1, <1>2, <1>3, <1>4, <1>5, <1>6, <1>7, <1>8, <1>9 DEF HandlesLock

\* ... so do its preparations, ...
LEMMA PreparingKeepsTypes ==
  ASSUME InstallTypeOK, NEW p \in Procs, Prepares(p)
  PROVE  InstallTypeOK'
<1> USE DEF InstallTypeOK, Places, Inside, Outside, Parts, NoStaging, files, tasks, budgets, marks, Moves, MayFail
<1>1. CASE ClearsStaging(p)
  BY <1>1 DEF ClearsStaging
<1>2. CASE ChecksRelease(p)
  BY <1>2 DEF ChecksRelease
<1>3. CASE FindsNothing(p)
  BY <1>3 DEF FindsNothing
<1>4. CASE Downloads(p)
  BY <1>4 DEF Downloads
<1>5. CASE DownloadFails(p)
  BY <1>5 DEF DownloadFails, Discards
<1>6. CASE FetchesSums(p)
  BY <1>6 DEF FetchesSums, Advances
<1>7. CASE SumsFail(p)
  BY <1>7 DEF SumsFail, Discards
<1>8. CASE Hashes(p)
  BY <1>8 DEF Hashes, Discards, Advances
<1>9. CASE Extracts(p)
  BY <1>9 DEF Extracts
<1>10. CASE ExtractFails(p)
  BY <1>10 DEF ExtractFails, Discards
<1>11. CASE Verifies(p)
  BY <1>11 DEF Verifies, Advances
<1>12. CASE VerifyFails(p)
  BY <1>12 DEF VerifyFails, Discards
<1>13. CASE MoveAsideFails(p)
  BY <1>13 DEF MoveAsideFails, Discards
<1>14. QED
  BY <1>1, <1>2, <1>3, <1>4, <1>5, <1>6, <1>7, <1>8, <1>9, <1>10, <1>11, <1>12, <1>13 DEF Prepares

\* ... and what it does to the executable.
LEMMA SwappingKeepsTypes ==
  ASSUME InstallTypeOK, NEW p \in Procs, Swaps(p)
  PROVE  InstallTypeOK'
<1> USE DEF InstallTypeOK, Places, Inside, Outside, Parts, BuildKinds, Whole, NoStaging, files, tasks, budgets, marks, Moves, MayFail
<1>1. CASE SweepsCopies(p)
  BY <1>1 DEF SweepsCopies, OldEnough
<1>2. CASE SetsAside(p)
  BY <1>2 DEF SetsAside, KeepsOld
<1>3. CASE MovesIn(p)
  BY <1>3 DEF MovesIn
<1>4. CASE CopiesOver(p)
  BY <1>4 DEF CopiesOver
<1>5. CASE MoveInFails(p)
  BY <1>5 DEF MoveInFails
<1>6. CASE Finishes(p)
  BY <1>6 DEF Finishes
<1>7. CASE FinishFails(p)
  BY <1>7 DEF FinishFails
<1>8. CASE Undoes(p)
  BY <1>8 DEF Undoes
<1>9. CASE UndoFails(p)
  BY <1>9 DEF UndoFails
<1>10. CASE RestoresOld(p)
  BY <1>10 DEF RestoresOld
<1>11. CASE RestoreFails(p)
  BY <1>11 DEF RestoreFails
<1>12. QED
  BY <1>1, <1>2, <1>3, <1>4, <1>5, <1>6, <1>7, <1>8, <1>9, <1>10, <1>11 DEF Swaps

-----------------------------------------------------------------------------
\* A process inside stays inside, and leaves the lock and what was found dead alone.
Stays(p) ==
    /\ stage[p] \in Inside
    /\ \E at \in Inside : stage' = [stage EXCEPT ![p] = at]
    /\ UNCHANGED <<lock, judged, raced>>

\* So do the steps before the swap, which leave the executable and its copies alone too, ...
LEMMA PreparingStays ==
  ASSUME InstallTypeOK, NEW p \in Procs, Prepares(p)
  PROVE  Stays(p) /\ UNCHANGED <<exe, asides, swept>>
<1> USE DEF Stays, Inside, files, tasks, budgets, marks, Moves
<1>1. CASE ClearsStaging(p)
  BY <1>1 DEF ClearsStaging
<1>2. CASE ChecksRelease(p)
  BY <1>2 DEF ChecksRelease
<1>3. CASE FindsNothing(p)
  BY <1>3 DEF FindsNothing
<1>4. CASE Downloads(p)
  BY <1>4 DEF Downloads
<1>5. CASE DownloadFails(p)
  BY <1>5 DEF DownloadFails, Discards
<1>6. CASE FetchesSums(p)
  BY <1>6 DEF FetchesSums, Advances
<1>7. CASE SumsFail(p)
  BY <1>7 DEF SumsFail, Discards
<1>8. CASE Hashes(p)
  BY <1>8 DEF Hashes, Discards, Advances
<1>9. CASE Extracts(p)
  BY <1>9 DEF Extracts
<1>10. CASE ExtractFails(p)
  BY <1>10 DEF ExtractFails, Discards
<1>11. CASE Verifies(p)
  BY <1>11 DEF Verifies, Advances
<1>12. CASE VerifyFails(p)
  BY <1>12 DEF VerifyFails, Discards
<1>13. CASE MoveAsideFails(p)
  BY <1>13 DEF MoveAsideFails, Discards
<1>14. QED
  BY <1>1, <1>2, <1>3, <1>4, <1>5, <1>6, <1>7, <1>8, <1>9, <1>10, <1>11, <1>12, <1>13 DEF Prepares

\* ... and those of the swap.
LEMMA SwappingStays ==
  ASSUME InstallTypeOK, NEW p \in Procs, Swaps(p)
  PROVE  Stays(p)
<1> USE DEF Stays, Inside, files, tasks, budgets, marks, Moves
<1>1. CASE SweepsCopies(p)
  BY <1>1 DEF SweepsCopies, OldEnough
<1>2. CASE SetsAside(p)
  BY <1>2 DEF SetsAside, KeepsOld
<1>3. CASE MovesIn(p)
  BY <1>3 DEF MovesIn
<1>4. CASE CopiesOver(p)
  BY <1>4 DEF CopiesOver
<1>5. CASE MoveInFails(p)
  BY <1>5 DEF MoveInFails
<1>6. CASE Finishes(p)
  BY <1>6 DEF Finishes
<1>7. CASE FinishFails(p)
  BY <1>7 DEF FinishFails
<1>8. CASE Undoes(p)
  BY <1>8 DEF Undoes
<1>9. CASE UndoFails(p)
  BY <1>9 DEF UndoFails
<1>10. CASE RestoresOld(p)
  BY <1>10 DEF RestoresOld
<1>11. CASE RestoreFails(p)
  BY <1>11 DEF RestoreFails
<1>12. QED
  BY <1>1, <1>2, <1>3, <1>4, <1>5, <1>6, <1>7, <1>8, <1>9, <1>10, <1>11 DEF Swaps

\* With its steps inside the lock is whose it was.
LEMMA StayingKeepsLock ==
  ASSUME InstallTypeOK, LockInv, NEW p \in Procs, Stays(p)
  PROVE  LockInv'
<1>1. SUFFICES ASSUME ~raced PROVE LockInv'
  BY DEF Stays, LockInv
<1>2. PICK at \in Inside : stage' = [stage EXCEPT ![p] = at]
  BY DEF Stays
<1>3. QED
  BY <1>1, <1>2 DEF Stays, LockInv, InstallTypeOK, Inside, OwnedBy

\* The steps with the lock keep it that way too: it is taken when nobody has it, and removed
\* by its owner or when its owner is gone.
LEMMA HandlingKeepsLock ==
  ASSUME InstallTypeOK, LockInv, NEW p \in Procs, HandlesLock(p)
  PROVE  LockInv'
<1>0. SUFFICES ASSUME ~raced' PROVE LockInv'
  BY DEF LockInv
<1> USE DEF InstallTypeOK, LockInv, Inside, OwnedBy, NoLock, files, others, tasks, budgets, marks, Moves
<1>1. CASE OpensLock(p)
  BY <1>1, <1>0, HostAssumption DEF OpensLock
<1>2. CASE WritesLock(p)
  <2>1. /\ ~raced /\ lock = [by |-> p, full |-> FALSE] /\ lock' = OwnedBy(p)
        /\ stage' = [stage EXCEPT ![p] = WithLock(p)] /\ WithLock(p) \in Inside
        /\ UNCHANGED judged
    BY <1>2, <1>0 DEF WritesLock, WithLock
  <2>2. \A q \in Procs : lock # OwnedBy(q) /\ (lock' = OwnedBy(q) => q = p)
    BY <2>1
  <2> HIDE DEF OwnedBy
  <2>3. \A q \in Procs : stage[q] \notin Inside \cup {"unlinking"} /\ (stage[q] = "writing" => q = p)
    BY <2>1, <2>2
  <2>4. \A q \in Procs : stage'[q] = IF q = p THEN WithLock(p) ELSE stage[q]
    BY <2>1
  <2>5. \A q \in Procs : stage'[q] \in Inside \cup {"unlinking"} => lock' = OwnedBy(q)
    BY <2>1, <2>3, <2>4
  <2>6. \A q \in Procs : stage'[q] # "writing" /\ (lock' = OwnedBy(q) => stage'[q] \in Inside)
    BY <2>1, <2>2, <2>3, <2>4
  <2>7. stage[p] = "writing"
    BY <1>2 DEF WritesLock
  <2>8. \A q \in Procs : stage'[q] = "removing" /\ judged'[q] # q => stage'[judged'[q]] = "gone"
    BY <2>1, <2>4, <2>7
  <2>9. QED
    BY <2>5, <2>6, <2>8
<1>3. CASE LockFails(p)
  BY <1>3, <1>0, HostAssumption DEF LockFails
<1>4. CASE JudgesLock(p)
  BY <1>4, <1>0, HostAssumption DEF JudgesLock
<1>5. CASE RereadsLock(p)
  <2> DEFINE at == IF OwnerIsDead(p) THEN "removing" ELSE "refused"
             dead == IF lock.full /\ OwnerIsDead(p) THEN lock.by ELSE p
  <2>1. /\ ~raced /\ UNCHANGED lock /\ stage[p] = "rereading"
        /\ stage' = [stage EXCEPT ![p] = at] /\ judged' = [judged EXCEPT ![p] = dead]
        /\ at \in {"removing", "refused"}
    BY <1>5, <1>0 DEF RereadsLock
  <2>2. dead # p => stage[dead] = "gone"
    <3>1. SUFFICES ASSUME dead # p PROVE stage[dead] = "gone"
      OBVIOUS
    <3>2. lock = OwnedBy(dead) /\ dead \in Procs /\ ~IsUp(dead)
      BY <3>1, LockKinds DEF OwnerIsDead
    <3>3. QED
      BY <2>1, <3>2 DEF IsUp
  <2> HIDE DEF at, dead, OwnedBy
  <2>3. QED
    BY <2>1, <2>2
<1>6. CASE RemovesLock(p)
  <2> DEFINE at == IF lock = NoLock THEN "refused" ELSE "opening"
  <2>1. /\ ~raced /\ lock' = NoLock /\ lock \in {OwnedBy(judged[p]), NoLock} /\ stage[p] = "removing"
        /\ stage' = [stage EXCEPT ![p] = at] /\ judged' = [judged EXCEPT ![p] = p]
        /\ at \in {"refused", "opening"}
    BY <1>6, <1>0 DEF RemovesLock
  <2>2. \A q \in Procs : lock' # OwnedBy(q)
    BY <2>1
  <2>3. \A q \in Procs : stage[q] \notin Inside \cup {"unlinking", "writing"}
    <3>1. \A q \in Procs : NoLock # OwnedBy(q) /\ NoLock # [by |-> q, full |-> FALSE]
      BY HostAssumption
    <3>2. \A q \in Procs : OwnedBy(judged[p]) = OwnedBy(q) => q = judged[p]
      OBVIOUS
    <3>3. \A q \in Procs : OwnedBy(judged[p]) # [by |-> q, full |-> FALSE]
      OBVIOUS
    <3>4. stage[judged[p]] \notin Inside \cup {"unlinking"}
      BY <2>1
    <3> HIDE DEF OwnedBy, NoLock
    <3>5. QED
      BY <2>1, <3>1, <3>2, <3>3, <3>4
  <2> HIDE DEF at, OwnedBy, NoLock
  <2>4. QED
    BY <2>1, <2>2, <2>3
<1>7. CASE IsRefused(p)
  BY <1>7, <1>0, HostAssumption DEF IsRefused, Done
<1>8. CASE Releases(p)
  <2>1. ~raced /\ stage[p] = "releasing" /\ UNCHANGED <<lock, judged>>
    BY <1>8, <1>0 DEF Releases, tasks
  <2>2. lock = OwnedBy(p)
    BY <2>1
  <2>3. stage' = [stage EXCEPT ![p] = "unlinking"]
    BY <1>8, <2>2 DEF Releases, IsMine
  <2> HIDE DEF OwnedBy
  <2>4. QED
    BY <2>1, <2>2, <2>3
<1>9. CASE UnlinksLock(p)
  BY <1>9, <1>0, HostAssumption DEF UnlinksLock, Done
<1>10. QED
  BY <1>1, <1>2, <1>3, <1>4, <1>5, <1>6, <1>7, <1>8, <1>9 DEF HandlesLock
-----------------------------------------------------------------------------
\* Where a process is inside, no other is.
LEMMA Alone ==
  ASSUME InstallTypeOK, LockInv, ~raced, NEW p \in Procs, stage[p] \in Inside,
         NEW q \in Procs, stage[q] \in Inside
  PROVE  p = q
BY DEF LockInv, OwnedBy

\* Handling the lock leaves the files alone, and nobody gets past a check by it.
LEMMA HandlingKeepsFiles ==
  ASSUME InstallTypeOK, ReleaseInv, KeptInv, NEW p \in Procs, HandlesLock(p)
  PROVE  ReleaseInv' /\ KeptInv'
<1>1. UNCHANGED <<exe, asides, staging, swept>>
  BY DEF HandlesLock, OpensLock, WritesLock, LockFails, JudgesLock, RereadsLock, RemovesLock,
         IsRefused, Releases, UnlinksLock, files, others, marks
<1>2. raced => raced'
  BY DEF HandlesLock, OpensLock, WritesLock, LockFails, JudgesLock, RereadsLock, RemovesLock,
         IsRefused, Releases, UnlinksLock, marks, InstallTypeOK
<1>3. \E at \in {"checking", "clearing", "unlinking", "writing"} \cup Outside : stage' = [stage EXCEPT ![p] = at]
  BY DEF HandlesLock, OpensLock, WritesLock, LockFails, JudgesLock, RereadsLock, RemovesLock,
         IsRefused, Releases, UnlinksLock, Moves, Outside, WithLock, Done
<1>4. QED
  BY <1>1, <1>2, <1>3 DEF ReleaseInv, KeptInv, NothingWhole, Swapping, Outside, InstallTypeOK

\* What a process prepares is past the digest only when it was released.
LEMMA PreparingKeepsFiles ==
  ASSUME InstallTypeOK, LockInv, ReleaseInv, KeptInv, NEW p \in Procs, Prepares(p)
  PROVE  ReleaseInv' /\ KeptInv'
<1>0. Stays(p) /\ UNCHANGED <<exe, asides, swept>>
  BY PreparingStays
<1>1. SUFFICES ASSUME ~raced PROVE ReleaseInv' /\ KeptInv'
  BY <1>0 DEF Stays, ReleaseInv, KeptInv
<1>2. PICK at \in Inside : stage' = [stage EXCEPT ![p] = at]
  BY <1>0 DEF Stays
<1>3. \A q \in Procs : stage[q] \in Inside => q = p
  BY <1>0, <1>1, Alone DEF Stays
<1>4. \A q \in Procs : stage'[q] = IF q = p THEN at ELSE stage[q]
  BY <1>2 DEF InstallTypeOK
<1>5. at \notin Swapping
  BY <1>4
  DEF Prepares, ClearsStaging, ChecksRelease, FindsNothing, Downloads, DownloadFails, FetchesSums,
      SumsFail, Hashes, Extracts, ExtractFails, Verifies, VerifyFails, MoveAsideFails, Discards,
      Advances, Moves, InstallTypeOK, Swapping
<1>6. KeptInv'
  BY <1>0, <1>1, <1>4, <1>5 DEF KeptInv, NothingWhole
<1>7. /\ at = "extracting" => staging'.archive # "bad"
      /\ at \in {"verifying", "leaving", "entering", "copying"} => staging'.candidate # "bad"
  <2> USE <1>1 DEF ReleaseInv, InstallTypeOK, Moves, files, NoStaging, Swapping
  <2>1. CASE ClearsStaging(p)
    BY <2>1, <1>4 DEF ClearsStaging
  <2>2. CASE ChecksRelease(p)
    BY <2>2, <1>4 DEF ChecksRelease
  <2>3. CASE FindsNothing(p)
    BY <2>3, <1>4 DEF FindsNothing
  <2>4. CASE Downloads(p)
    BY <2>4, <1>4 DEF Downloads
  <2>5. CASE DownloadFails(p)
    BY <2>5, <1>4 DEF DownloadFails, Discards
  <2>6. CASE FetchesSums(p)
    BY <2>6, <1>4 DEF FetchesSums, Advances
  <2>7. CASE SumsFail(p)
    BY <2>7, <1>4 DEF SumsFail, Discards
  <2>8. CASE Hashes(p)
    BY <2>8, <1>4 DEF Hashes, Discards, Advances, DigestMatches
  <2>9. CASE Extracts(p)
    BY <2>9, <1>4 DEF Extracts
  <2>10. CASE ExtractFails(p)
    BY <2>10, <1>4 DEF ExtractFails, Discards
  <2>11. CASE Verifies(p)
    BY <2>11, <1>4 DEF Verifies, Advances
  <2>12. CASE VerifyFails(p)
    BY <2>12, <1>4 DEF VerifyFails, Discards
  <2>13. CASE MoveAsideFails(p)
    BY <2>13, <1>4 DEF MoveAsideFails, Discards
  <2>14. QED
    BY <2>1, <2>2, <2>3, <2>4, <2>5, <2>6, <2>7, <2>8, <2>9, <2>10, <2>11, <2>12, <2>13 DEF Prepares
<1>8. ReleaseInv'
  BY <1>0, <1>1, <1>3, <1>4, <1>7 DEF ReleaseInv, Inside
<1>9. QED
  BY <1>6, <1>8

\* What goes in place was released, and what starts is among the copies before anything is
\* done to the one in place.
LEMMA SwappingKeepsFiles ==
  ASSUME InstallTypeOK, LockInv, ReleaseInv, KeptInv, NEW p \in Procs, Swaps(p)
  PROVE  ReleaseInv' /\ KeptInv'
<1>0. Stays(p)
  BY SwappingStays
<1>1. SUFFICES ASSUME ~raced PROVE ReleaseInv' /\ KeptInv'
  BY <1>0 DEF Stays, ReleaseInv, KeptInv
<1>2. PICK at \in Inside : stage' = [stage EXCEPT ![p] = at]
  BY <1>0 DEF Stays
<1>3. \A q \in Procs : stage[q] \in Inside => q = p
  BY <1>0, <1>1, Alone DEF Stays
<1>4. \A q \in Procs : stage'[q] = IF q = p THEN at ELSE stage[q]
  BY <1>2 DEF InstallTypeOK
<1>5. at \notin {"extracting", "verifying", "leaving"} /\ (at \in {"entering", "copying"} => UNCHANGED staging)
  BY <1>4
  DEF Swaps, SweepsCopies, SetsAside, MovesIn, CopiesOver, MoveInFails, Finishes, FinishFails,
      Undoes, UndoFails, RestoresOld, RestoreFails, files, Moves, InstallTypeOK
<1>6. /\ exe' # "bad" /\ \A c \in asides' : c[2] # "bad"
      /\ at \in {"entering", "copying"} => staging'.candidate # "bad"
  <2> USE <1>1 DEF ReleaseInv, InstallTypeOK, Moves, files
  <2>1. CASE SweepsCopies(p)
    BY <2>1, <1>4, <1>5 DEF SweepsCopies, OldEnough
  <2>2. CASE SetsAside(p)
    BY <2>2, <1>4, <1>5 DEF SetsAside, KeepsOld
  <2>3. CASE MovesIn(p)
    BY <2>3, <1>4, <1>5 DEF MovesIn
  <2>4. CASE CopiesOver(p)
    BY <2>4, <1>4, <1>5 DEF CopiesOver
  <2>5. CASE MoveInFails(p)
    BY <2>5, <1>4, <1>5 DEF MoveInFails
  <2>6. CASE Finishes(p)
    BY <2>6, <1>4, <1>5 DEF Finishes
  <2>7. CASE FinishFails(p)
    BY <2>7, <1>4, <1>5 DEF FinishFails
  <2>8. CASE Undoes(p)
    BY <2>8, <1>4, <1>5 DEF Undoes
  <2>9. CASE UndoFails(p)
    BY <2>9, <1>4, <1>5 DEF UndoFails
  <2>10. CASE RestoresOld(p)
    BY <2>10, <1>4, <1>5 DEF RestoresOld
  <2>11. CASE RestoreFails(p)
    BY <2>11, <1>4, <1>5 DEF RestoreFails
  <2>12. QED
    BY <2>1, <2>2, <2>3, <2>4, <2>5, <2>6, <2>7, <2>8, <2>9, <2>10, <2>11 DEF Swaps
<1>7. ReleaseInv'
  BY <1>0, <1>1, <1>3, <1>4, <1>5, <1>6 DEF ReleaseInv, Inside
<1>8. ASSUME ~swept' PROVE ~NothingWhole(asides)' /\ (at \in Swapping => \E c \in asides' : c[2] \in Whole)
  <2>0. ~swept /\ ~NothingWhole(asides)
    BY <1>1, <1>8
    DEF KeptInv, Swaps, SweepsCopies, SetsAside, MovesIn, CopiesOver, MoveInFails, Finishes,
        FinishFails, Undoes, UndoFails, RestoresOld, RestoreFails, marks, InstallTypeOK
  <2>1. stage[p] \in Swapping => \E c \in asides : c[2] \in Whole
    BY <1>1, <2>0 DEF KeptInv
  <2> USE DEF Moves, files, NothingWhole, Swapping
  <2>2. CASE SweepsCopies(p)
    BY <2>2, <2>0, <2>1, <1>4, <1>8 DEF SweepsCopies, OldEnough, InstallTypeOK
  <2>3. CASE SetsAside(p)
    <3>1. exe' = "none" /\ asides' = asides \cup {<<p, exe>>}
      BY <2>3 DEF SetsAside, KeepsOld
    <3>2. \E c \in asides' : c[2] \in Whole
      <4>1. CASE exe \in Whole
        <5>1. <<p, exe>> \in asides' /\ <<p, exe>>[2] \in Whole
          BY <3>1, <4>1
        <5>2. QED
          BY <5>1
      <4>2. CASE \E c \in asides : c[2] \in Whole
        BY <3>1, <4>2
      <4>3. QED
        BY <2>0, <4>1, <4>2
    <3>3. QED
      BY <3>2
  <2>4. CASE MovesIn(p)
    BY <2>4, <2>0, <2>1, <1>4, <1>8 DEF MovesIn, InstallTypeOK
  <2>5. CASE CopiesOver(p)
    BY <2>5, <2>0, <2>1, <1>4, <1>8 DEF CopiesOver, InstallTypeOK
  <2>6. CASE MoveInFails(p)
    BY <2>6, <2>0, <2>1, <1>4, <1>8 DEF MoveInFails, InstallTypeOK
  <2>7. CASE Finishes(p)
    BY <2>7, <2>0, <2>1, <1>4, <1>8 DEF Finishes, InstallTypeOK
  <2>8. CASE FinishFails(p)
    BY <2>8, <2>0, <2>1, <1>4, <1>8 DEF FinishFails, InstallTypeOK
  <2>9. CASE Undoes(p)
    BY <2>9, <2>0, <2>1, <1>4, <1>8 DEF Undoes, InstallTypeOK
  <2>10. CASE UndoFails(p)
    BY <2>10, <2>0, <2>1, <1>4, <1>8 DEF UndoFails, InstallTypeOK
  <2>11. CASE RestoresOld(p)
    BY <2>11, <2>0, <2>1, <1>4, <1>8 DEF RestoresOld, InstallTypeOK
  <2>12. CASE RestoreFails(p)
    BY <2>12, <2>0, <2>1, <1>4, <1>8 DEF RestoreFails, InstallTypeOK
  <2>13. QED
    BY <2>2, <2>3, <2>4, <2>5, <2>6, <2>7, <2>8, <2>9, <2>10, <2>11, <2>12 DEF Swaps
<1>9. KeptInv'
  BY <1>0, <1>1, <1>3, <1>4, <1>8 DEF KeptInv, Inside, Swapping
<1>10. QED
  BY <1>7, <1>9
-----------------------------------------------------------------------------
\* What touches no file and no process but for the counts keeps the installation, ...
LEMMA StillInstalled ==
  ASSUME InstallInv, UNCHANGED <<files, stage, tasks, marks>>, failures' \in Nat, crashes' \in Nat
  PROVE  InstallInv'
BY DEF InstallInv, InstallTypeOK, LockInv, ReleaseInv, KeptInv, NothingWhole, files, tasks, marks

\* ... and so does a process that comes for the lock, or has come back from it, ...
LEMMA OutsideKeeps ==
  ASSUME InstallInv, NEW p \in Procs, stage[p] \in Outside \cup {"off"},
         NEW at \in {"opening", "idle"}, stage' = [stage EXCEPT ![p] = at],
         judged' = judged \/ judged' = [judged EXCEPT ![p] = p],
         UNCHANGED <<files, marks>>
  PROVE  LockInv' /\ ReleaseInv' /\ KeptInv'
<1> USE DEF InstallInv, InstallTypeOK, Outside, files, marks
<1>1. \A q \in Procs : stage'[q] = IF q = p THEN at ELSE stage[q]
  OBVIOUS
<1>2. \A q \in Procs : judged'[q] = judged[q] \/ judged'[q] = q
  OBVIOUS
<1>3. LockInv'
  BY <1>1, <1>2 DEF LockInv, Inside
<1>4. QED
  BY <1>1, <1>3 DEF ReleaseInv, KeptInv, NothingWhole, Swapping

\* ... and one that ends, wherever it was.
LEMMA EndingKeeps ==
  ASSUME InstallInv, NEW p \in Procs, ProcessEnds(p), failures' \in Nat, crashes' \in Nat
  PROVE  InstallInv'
<1> USE DEF InstallInv, InstallTypeOK, files, marks
<1>1. stage' = [stage EXCEPT ![p] = "gone"] /\ judged' = [judged EXCEPT ![p] = p] /\ UNCHANGED <<files, marks>>
  BY DEF ProcessEnds, Moves, ForgetsUse
<1>2. \A q \in Procs : stage'[q] = IF q = p THEN "gone" ELSE stage[q]
  BY <1>1
<1>3. \A q \in Procs : judged'[q] = IF q = p THEN p ELSE judged[q]
  BY <1>1
<1>4. InstallTypeOK'
  BY <1>1 DEF ProcessEnds, ForgetsUse, Places
<1>5. LockInv'
  BY <1>1, <1>2, <1>3 DEF LockInv, Inside
<1>6. ReleaseInv' /\ KeptInv'
  BY <1>1, <1>2 DEF ReleaseInv, KeptInv, NothingWhole, Swapping
<1>7. QED
  BY <1>4, <1>5, <1>6

\* What a process does on its own, ...
LEMMA WorkingKeeps ==
  ASSUME InstallInv, NEW p \in Procs, WorksOn(p)
  PROVE  InstallInv'
<1>1. CASE HandlesLock(p)
  BY <1>1, HandlingKeepsTypes, HandlingKeepsLock, HandlingKeepsFiles DEF InstallInv
<1>2. CASE Prepares(p)
  BY <1>2, PreparingKeepsTypes, PreparingStays, StayingKeepsLock, PreparingKeepsFiles DEF InstallInv
<1>3. CASE Swaps(p)
  BY <1>3, SwappingKeepsTypes, SwappingStays, StayingKeepsLock, SwappingKeepsFiles DEF InstallInv
<1>4. QED
  BY <1>1, <1>2, <1>3 DEF WorksOn

\* ... which neither starts nor ends one.
LEMMA WorkingIsUp ==
  ASSUME InstallInv, NEW p \in Procs, WorksOn(p), NEW q \in Procs
  PROVE  (stage'[q] \in {"off", "gone"}) = (stage[q] \in {"off", "gone"})
<1> USE DEF InstallInv, InstallTypeOK
<1>1. CASE HandlesLock(p)
  <2>1. stage[p] \notin {"off", "gone"} /\ \E at \in Places \ {"off", "gone"} : stage' = [stage EXCEPT ![p] = at]
    BY <1>1 DEF HandlesLock, OpensLock, WritesLock, LockFails, JudgesLock, RereadsLock, RemovesLock,
        IsRefused, Releases, UnlinksLock, Moves, WithLock, Done, Places, Inside, Outside
  <2>2. QED
    BY <2>1
<1>2. CASE Prepares(p) \/ Swaps(p)
  <2>1. PICK at \in Inside : stage[p] \in Inside /\ stage' = [stage EXCEPT ![p] = at]
    BY <1>2, PreparingStays, SwappingStays DEF Stays
  <2>2. QED
    BY <2>1 DEF Inside
<1>3. QED
  BY <1>1, <1>2 DEF WorksOn

\* A process that boots comes for the lock to sweep.
LEMMA BootingKeeps ==
  ASSUME InstallInv, NEW p \in Procs, BootsUp(p)
  PROVE  InstallInv'
<1>1. InstallTypeOK'
  BY DEF InstallInv, InstallTypeOK, BootsUp, Acquires, Moves, Places, Outside, files, budgets, marks
<1>2. QED
  BY <1>1, OutsideKeeps DEF InstallInv, BootsUp, Acquires, Moves

\* The daemon starts a transaction or joins the one under way.
LEMMA JoiningKeeps ==
  ASSUME InstallInv, JoinsOrStarts
  PROVE  InstallInv' /\ (IsUp(Host)' => IsUp(Host)) /\ (stage'[Host] = "off" => stage[Host] = "off")
<1>1. CASE stage[Host] = "idle"
  <2>1. /\ job' = [job EXCEPT ![Host] = "apply"] /\ stage' = [stage EXCEPT ![Host] = "opening"]
        /\ UNCHANGED <<files, judged, running, aside, installed, budgets, marks>>
    BY <1>1 DEF JoinsOrStarts, Acquires, Moves
  <2>2. InstallTypeOK'
    BY <2>1 DEF InstallInv, InstallTypeOK, Places, Outside, files, budgets, marks
  <2>3. LockInv' /\ ReleaseInv' /\ KeptInv'
    BY <1>1, <2>1, OutsideKeeps, HostAssumption DEF Outside
  <2>4. QED
    BY <1>1, <2>1, <2>2, <2>3, HostAssumption DEF InstallInv, InstallTypeOK, IsUp
<1>2. CASE UNCHANGED uvars
  BY <1>2, StillInstalled DEF InstallInv, InstallTypeOK, uvars, files, tasks, marks, budgets, IsUp
<1>3. QED
  BY <1>1, <1>2 DEF JoinsOrStarts
-----------------------------------------------------------------------------
(* The loop.                                                               *)

\* Every step keeps the invariant: those of the installation by the lemmas above, the others by
\* leaving it alone and settling the timeout.
LEMMA AutoStep ==
  ASSUME AutoInv, [AutoNext]_autoVars
  PROVE  AutoInv'
<1> USE DEF AutoInv, LoopTypeOK, FlagsTypeOK, CountsTypeOK, loop, settings, restart, queue, bounds, avars
<1>1. ASSUME NEW p \in Procs, WorksOn(p), UNCHANGED avars
      PROVE  AutoInv'
  <2>1. InstallInv' /\ (IsUp(Host)' <=> IsUp(Host)) /\ stage'[Host] # "off"
    <3>1. InstallInv' /\ (stage'[Host] \in {"off", "gone"}) = (stage[Host] \in {"off", "gone"})
      BY <1>1, WorkingKeeps, WorkingIsUp, HostAssumption
    <3>2. stage'[Host] = "off" => stage[Host] # "gone"
      <4>1. InstallTypeOK
        BY DEF InstallInv
      <4>2. CASE HandlesLock(p) \/ Prepares(p) \/ Swaps(p)
        <5>1. \E at \in Places \ {"off"} : stage' = [stage EXCEPT ![p] = at]
          <6>1. CASE HandlesLock(p)
            BY <6>1 DEF HandlesLock, OpensLock, WritesLock, LockFails, JudgesLock, RereadsLock,
                RemovesLock,
                        IsRefused, Releases, UnlinksLock, Moves, WithLock, Done, Places, Inside, Outside
          <6>2. CASE Prepares(p) \/ Swaps(p)
            BY <4>1, <6>2, PreparingStays, SwappingStays DEF Stays, Inside, Places
          <6>3. QED
            BY <4>2, <6>1, <6>2
        <5>2. QED
          BY <4>1, <5>1, HostAssumption DEF InstallTypeOK
      <4>3. QED
        BY <1>1, <4>2 DEF WorksOn
    <3>3. QED
      BY <3>1, <3>2 DEF IsUp, TimerInv
  <2>2. QED
    BY <1>1, <2>1 DEF TimerInv, WantsTimer
<1>2. ASSUME NEW p \in Procs, BootsUp(p), UNCHANGED avars
      PROVE  AutoInv'
  <2>1. InstallInv'
    BY <1>2, BootingKeeps
  <2>2. p # Host /\ stage'[Host] = stage[Host]
    BY <1>2, HostAssumption DEF TimerInv, BootsUp, Acquires, Moves, InstallInv, InstallTypeOK
  <2>3. QED
    BY <1>2, <2>1, <2>2 DEF TimerInv, WantsTimer, IsUp
<1>3. ASSUME NEW p \in Procs, ProcessCrashes(p)
      PROVE  AutoInv'
  <2>1. InstallInv'
    BY <1>3, EndingKeeps DEF ProcessCrashes, InstallInv, InstallTypeOK
  <2>2. stage' = [stage EXCEPT ![p] = "gone"]
    BY <1>3 DEF ProcessCrashes, ProcessEnds, Moves
  <2>3. CASE p = Host
    <3>1. HostEnds
      BY <1>3, <2>3 DEF ProcessCrashes
    <3>2. LoopTypeOK'
      BY <3>1 DEF HostEnds
    <3>3. stage'[Host] = "gone"
      BY <2>2, <2>3, HostAssumption DEF InstallInv, InstallTypeOK
    <3>4. TimerInv'
      BY <3>3 DEF TimerInv, IsUp
    <3>5. QED
      BY <2>1, <3>2, <3>4
  <2>4. CASE p # Host
    <3>1. stage'[Host] = stage[Host]
      BY <2>2, <2>4, HostAssumption DEF InstallInv, InstallTypeOK
    <3>2. QED
      BY <1>3, <2>1, <2>4, <3>1 DEF ProcessCrashes, TimerInv, WantsTimer, IsUp
  <2>5. QED
    BY <2>3, <2>4
<1>4. CASE DaemonExits
  <2>1. InstallInv'
    BY <1>4, EndingKeeps, HostAssumption DEF DaemonExits, InstallInv, InstallTypeOK, budgets
  <2>2. stage'[Host] = "gone"
    BY <1>4, HostAssumption DEF DaemonExits, ProcessEnds, Moves, InstallInv, InstallTypeOK
  <2>3. QED
    BY <1>4, <2>1, <2>2 DEF DaemonExits, HostEnds, TimerInv, IsUp
<1> DEFINE Same == UNCHANGED <<files, stage, tasks, marks>> /\ failures' \in Nat /\ crashes' \in Nat
           Waits == /\ timer' <=> (started' /\ WantsTimer' /\ ~ticking')
                    /\ timeouts' = IF timer' THEN 1 ELSE 0
                    /\ ticking' <=> round' # "none"
<1>5. ASSUME IsUp(Host), Same, LoopTypeOK', Waits
      PROVE  AutoInv'
  <2>1. InstallInv'
    BY <1>5, StillInstalled
  <2>2. TimerInv'
    BY <1>5 DEF TimerInv
  <2>3. QED
    BY <1>5, <2>1, <2>2
<1>6. IsUp(Host) => /\ timer <=> (started /\ WantsTimer /\ ~ticking)
                    /\ timeouts = IF timer THEN 1 ELSE 0
                    /\ ticking <=> round # "none"
  BY DEF TimerInv
<1>7. UNCHANGED uvars => Same
  BY DEF uvars, budgets, InstallInv, InstallTypeOK
<1>8. CASE TickBegins
  <2>1. IsUp(Host) /\ Same
    BY <1>7, <1>8 DEF TickBegins
  <2>2. FlagsTypeOK'
    BY <1>6, <2>1, <1>8 DEF TickBegins
  <2>3. Waits
    BY <1>6, <2>1, <1>8 DEF TickBegins, WantsTimer
  <2>4. CountsTypeOK'
    BY <2>3, <2>1, <1>8 DEF TickBegins
  <2>5. QED
    BY <1>5, <2>1, <2>2, <2>3, <2>4
<1>9. CASE RetriesRestart
  <2>1. IsUp(Host) /\ Same
    BY <1>7, <1>9
    DEF RetriesRestart, AppliesDeferredRestart, Relaunches, MayFail, budgets, InstallInv,
        InstallTypeOK
  <2>2. FlagsTypeOK'
    BY <1>6, <2>1, <1>9 DEF RetriesRestart, AppliesDeferredRestart, Relaunches, RoundEnds, Schedules
  <2>3. Waits
    BY <1>6, <2>1, <1>9 DEF RetriesRestart, RoundEnds, Schedules, WantsTimer
  <2>4. CountsTypeOK'
    BY <2>3, <2>1, <1>9 DEF RetriesRestart
  <2>5. QED
    BY <1>5, <2>1, <2>2, <2>3, <2>4
<1>10. CASE CheckEnds
  <2>1. IsUp(Host) /\ Same
    BY <1>7, <1>10 DEF CheckEnds, MayFail, budgets, InstallInv, InstallTypeOK
  <2>2. FlagsTypeOK'
    BY <1>6, <2>1, <1>10 DEF CheckEnds, RoundEnds, Schedules
  <2>3. Waits
    BY <1>6, <2>1, <1>10 DEF CheckEnds, RoundEnds, Schedules, WantsTimer
  <2>4. CountsTypeOK'
    BY <2>3, <2>1, <1>10 DEF CheckEnds
  <2>5. QED
    BY <1>5, <2>1, <2>2, <2>3, <2>4
<1>11. CASE CheckFindsUpdate
  <2>1. InstallInv' /\ (IsUp(Host)' => IsUp(Host)) /\ stage'[Host] # "off"
    BY <1>11, JoiningKeeps DEF CheckFindsUpdate, TimerInv
  <2>2. QED
    BY <1>11, <2>1 DEF CheckFindsUpdate, TimerInv, WantsTimer
<1>12. CASE AppliesByHand
  <2>1. InstallInv' /\ (IsUp(Host)' => IsUp(Host)) /\ stage'[Host] # "off"
    BY <1>12, JoiningKeeps DEF AppliesByHand, TimerInv
  <2>2. QED
    BY <1>12, <2>1 DEF AppliesByHand, TimerInv, WantsTimer
<1>13. CASE Toggles
  <2>1. IsUp(Host) /\ Same
    BY <1>7, <1>13 DEF Toggles
  <2>2. FlagsTypeOK'
    BY <1>6, <2>1, <1>13 DEF Toggles, Reconciles, Schedules, WantsTimer
  <2>3. Waits
    BY <1>6, <2>1, <1>13 DEF Toggles, Reconciles, Schedules, WantsTimer
  <2>4. CountsTypeOK'
    BY <2>3, <2>1, <1>13 DEF Toggles
  <2>5. QED
    BY <1>5, <2>1, <2>2, <2>3, <2>4
<1>14. CASE Retimes
  <2>1. IsUp(Host) /\ Same
    BY <1>7, <1>14 DEF Retimes
  <2>2. FlagsTypeOK'
    BY <1>6, <2>1, <1>14 DEF Retimes, Schedules, WantsTimer
  <2>3. Waits
    BY <1>6, <2>1, <1>14 DEF Retimes, Schedules, WantsTimer
  <2>4. CountsTypeOK'
    BY <2>3, <2>1, <1>14 DEF Retimes
  <2>5. QED
    BY <1>5, <2>1, <2>2, <2>3, <2>4
<1>15. CASE RunStarts \/ RunEnds
  <2>1. IsUp(Host) /\ Same
    BY <1>7, <1>15 DEF RunStarts, RunEnds
  <2>2. FlagsTypeOK'
    BY <1>6, <2>1, <1>15 DEF RunStarts, RunEnds
  <2>3. Waits
    BY <1>6, <2>1, <1>15 DEF RunStarts, RunEnds, WantsTimer
  <2>4. CountsTypeOK'
    BY <2>3, <2>1, <1>15 DEF RunStarts, RunEnds
  <2>5. QED
    BY <1>5, <2>1, <2>2, <2>3, <2>4
<1>16. CASE QueueNudges
  <2>1. IsUp(Host) /\ Same
    BY <1>7, <1>16
    DEF QueueNudges, AppliesDeferredRestart, Relaunches, MayFail, budgets, InstallInv,
        InstallTypeOK
  <2>2. FlagsTypeOK'
    BY <1>6, <2>1, <1>16 DEF QueueNudges, AppliesDeferredRestart, Relaunches
  <2>3. Waits
    BY <1>6, <2>1, <1>16 DEF QueueNudges, WantsTimer
  <2>4. CountsTypeOK'
    BY <2>3, <2>1, <1>16 DEF QueueNudges
  <2>5. QED
    BY <1>5, <2>1, <2>2, <2>3, <2>4
<1>17. CASE LoopStops
  <2>1. IsUp(Host) /\ Same
    BY <1>7, <1>17 DEF LoopStops
  <2>2. FlagsTypeOK'
    BY <1>6, <2>1, <1>17 DEF LoopStops
  <2>3. Waits
    BY <1>6, <2>1, <1>17 DEF LoopStops, WantsTimer
  <2>4. CountsTypeOK'
    BY <2>3, <2>1, <1>17 DEF LoopStops
  <2>5. QED
    BY <1>5, <2>1, <2>2, <2>3, <2>4
<1>18. CASE UNCHANGED autoVars
  <2>1. InstallInv'
    BY <1>7, <1>18, StillInstalled DEF autoVars
  <2>2. QED
    BY <1>18, <2>1 DEF autoVars, uvars, TimerInv, IsUp, WantsTimer
<1>19. CASE Settles
  <2>1. /\ stage[Host] = "settled" /\ stage' = [stage EXCEPT ![Host] = "idle"]
        /\ judged' = [judged EXCEPT ![Host] = Host]
        /\ UNCHANGED <<files, marks>>
    BY <1>19 DEF Settles, Moves, ForgetsUse
  <2>2. failures' \in Nat /\ crashes' \in Nat
    BY <1>19 DEF Settles, Relaunches, MayFail, budgets, InstallInv, InstallTypeOK
  <2>3. InstallTypeOK'
    BY <1>19, <2>1, <2>2, HostAssumption
    DEF Settles, ForgetsUse, InstallInv, InstallTypeOK, Places, Outside, files, marks
  <2>4. LockInv' /\ ReleaseInv' /\ KeptInv'
    BY <2>1, OutsideKeeps, HostAssumption DEF Outside
  <2>5. IsUp(Host) /\ stage'[Host] = "idle"
    BY <2>1, HostAssumption DEF IsUp, InstallInv, InstallTypeOK
  <2>6. UNCHANGED <<settings, queue, bounds>> /\ restartPending' \in BOOLEAN /\ relaunching' \in BOOLEAN
    BY <1>19 DEF Settles, Relaunches
  <2>7. \/ UNCHANGED loop
        \/ round = "apply" /\ RoundEnds
    BY <1>19 DEF Settles
  <2>8. IsUp(Host)
    BY <2>1 DEF IsUp
  <2>9. FlagsTypeOK'
    BY <2>6, <2>7 DEF RoundEnds, Schedules
  <2>10. Waits
    BY <1>6, <2>6, <2>7, <2>8 DEF RoundEnds, Schedules, WantsTimer
  <2>11. CountsTypeOK'
    BY <2>6, <2>10
  <2>12. QED
    BY <2>3, <2>4, <2>5, <2>9, <2>10, <2>11 DEF InstallInv, TimerInv
<1>20. QED
  BY <1>1, <1>2, <1>3, <1>4, <1>19, <1>8, <1>9, <1>10, <1>11, <1>12, <1>13, <1>14, <1>15, <1>16,
     <1>17,
     <1>18 DEF AutoNext, Rounds

\* It holds when the daemon has just started.
LEMMA AutoInitOK == AutoInit => AutoInv
<1> SUFFICES ASSUME AutoInit PROVE AutoInv
  OBVIOUS
<1>1. InstallTypeOK
  BY
  DEF AutoInit, UInit, InstallTypeOK, Locks, BuildKinds, Whole, Parts, NoStaging, Places, Outside,
      Inside
<1>2. LockInv /\ ReleaseInv /\ KeptInv
  BY HostAssumption
  DEF AutoInit, UInit, LockInv, ReleaseInv, KeptInv, NothingWhole, Whole, Inside, Swapping,
                        OwnedBy, NoLock
<1>3. LoopTypeOK /\ TimerInv
  BY HostAssumption DEF AutoInit, UInit, LoopTypeOK, FlagsTypeOK, CountsTypeOK, TimerInv, WantsTimer
<1>4. QED
  BY <1>1, <1>2, <1>3 DEF AutoInv, InstallInv

\* So it holds in every state.
THEOREM AutoInvariance == AutoSpec => []AutoInv
<1>1. AutoInv /\ [AutoNext]_autoVars => AutoInv'
  BY AutoStep
<1>2. QED
  BY <1>1, AutoInitOK, PTL DEF AutoSpec

\* The installation and the loop keep their types.
THEOREM AutoTypeCorrect == AutoSpec => [](InstallTypeOK /\ LoopTypeOK)
<1>1. AutoInv => InstallTypeOK /\ LoopTypeOK
  BY DEF AutoInv, InstallInv
<1>2. QED
  BY <1>1, AutoInvariance, PTL

\* While nobody has removed a lock other than the one found abandoned, one process at a time is
\* between the lock and its release, something that starts is in place or kept unless a cleanup
\* took it, and nothing is that was not released; and there is one timeout when the loop waits.
THEOREM UpdatesAreSafe == AutoSpec => []UpdatesAreSound
<1>1. AutoInv => OneTransaction
  BY DEF AutoInv, InstallInv, LockInv, OneTransaction, InTransaction, Inside, OwnedBy
<1>2. AutoInv => OneTimeout
  BY DEF AutoInv, TimerInv, OneTimeout
<1>3. AutoInv => ExecutableSurvives
  BY DEF AutoInv, InstallInv, KeptInv, ExecutableSurvives
<1>4. AutoInv => OnlyReleasedInstalled
  BY DEF AutoInv, InstallInv, ReleaseInv, OnlyReleasedInstalled
<1>5. AutoInv => UpdatesAreSound
  BY <1>1, <1>2, <1>3, <1>4 DEF UpdatesAreSound
<1>6. QED
  BY <1>5, AutoInvariance, PTL

-----------------------------------------------------------------------------
(* SourceUpdate, for any files, programs, history of the remote, and any   *)
(* number of edits, failures and updates.                                  *)
(*                                                                         *)
(* That no edit is lost rests on where an edit can be while the engine is  *)
(* at each of its steps; that the report is true, on what each outcome     *)
(* says of the checkout; that landed edits come back, on a file whose edit *)
(* has landed being the engine's until it is put back.                     *)

\* Where the engine has not changed what is checked out, ...
Before == {"idle", "looking", "asking", "fetching", "comparing", "deciding", "staging", "matching",
           "unstaging", "moving", "replacing", "pulling"}

\* ... and where it has.
After == {"install", "build", "inspecting", "stashing", "resetting", "restoring", "unmarking",
          "reinstall", "rebuild"}

Heads == [base : Commits, own : BOOLEAN]
Checks == [current : Heads, dirty : BOOLEAN, target : Commits, newer : BOOLEAN,
           forward : BOOLEAN, landed : BOOLEAN, edits : Nat]
Outcomes == {"none", "current", "refused", "updated", "rolledback", "unrebuilt", "partial", "stuck"}
\* What a file can hold.
Texts == {Absent, Mine} \cup {Tree[c][f] : c \in Commits, f \in Files}
Trees == [Files -> Texts]

\* The variables are in states the code knows.
UpdateTypeOK ==
    /\ tip \in Commits /\ fetched \in Commits
    /\ head \in Heads /\ ownTree \in Trees /\ index \in Trees /\ work \in Trees
    /\ stash \subseteq Files \X Texts /\ committed \subseteq Files \X Texts
    /\ copies \subseteq Programs \X Texts
    /\ runs \in [Programs -> {"path", "copy", "no"}]
    /\ made \in [Steps -> Commits \cup {-1}]
    /\ pc \in Before \cup After
    /\ seen \in Checks
    /\ landed \subseteq Files
    /\ moved \subseteq Programs \X Texts
    /\ outcome \in Outcomes
    /\ fails \in Nat /\ edits \in Nat /\ applies \in Nat
    /\ mine \subseteq Files /\ late \subseteq Files /\ said \in BOOLEAN

-----------------------------------------------------------------------------
\* git has the file as the developer wrote it.
Saved(f) == <<f, Mine>> \in stash \cup committed

\* What git is about to write over is saved by then.
EditsInv ==
    /\ \A f \in Files : ownTree[f] = Mine => <<f, Mine>> \in committed
    /\ \A f \in mine \ late :
         /\ work[f] = Mine \/ Saved(f)
         /\ pc = "replacing" /\ f \in MovedFiles => Saved(f)
         /\ pc = "resetting" => Saved(f)
         /\ pc \in {"restoring", "unmarking"} /\ f \in landed => Saved(f)

\* What is checked out, and what the steps were made of.
ReportInv ==
    /\ Reported
    /\ pc # "idle" => outcome = "none"
    /\ seen.target <= tip
    /\ pc \in Before => said \/ \A s \in Steps : made[s] = head.base
    /\ pc \in Before \ {"idle", "looking"} =>
         head.base = seen.current.base /\ (seen.current.own => head.own)
    /\ pc \in After => ~seen.current.own
    /\ pc \in {"install", "build"} => head.base >= seen.target
    /\ pc = "build" => made["install"] = head.base
    /\ pc \in {"restoring", "unmarking", "reinstall", "rebuild"} => head.base = seen.current.base
    /\ pc = "rebuild" => made["install"] = head.base

\* Where a program can be missing.
ProgramsInv ==
    /\ \A f \in Lasting : work[f] = Absent => said \/ (pc = "replacing" /\ f \in MovedFiles)
    /\ \A m \in moved : m[2] # Absent
    /\ \A f \in Lasting : head.own /\ ownTree[f] = Absent => said \/ pc \in Before

\* What the rollback has put back so far, of a checkout nobody else has touched.
LandedInv ==
    /\ seen.edits <= edits
    /\ pc \in After \ {"install", "build"} => fails >= 1
    /\ edits = seen.edits =>
         /\ pc = "restoring" => index = TreeOf(head)
         /\ pc = "unmarking" =>
              /\ \A f \in landed \ Gone : work[f] = Tree[seen.target][f]
              /\ \A f \in Gone : index[f] = TreeOf(head)[f]
         /\ pc \in {"reinstall", "rebuild"} =>
              \/ fails >= 2
              \/ \A f \in landed : work[f] = Tree[seen.target][f] /\ index[f] = TreeOf(head)[f]

UpdateInv == UpdateTypeOK /\ EditsInv /\ ReportInv /\ ProgramsInv /\ LandedInv
-----------------------------------------------------------------------------
\* What a commit has at its files is content, and never the developer's own.
LEMMA TreeFacts ==
  ASSUME UpdateTypeOK
  PROVE  /\ 0 \in Commits /\ 1 \in Commits
         /\ \A c \in Commits : Tree[c] \in Trees /\ \A f \in Files : Tree[c][f] # Mine
         /\ TreeOf(head) \in Trees /\ TreeOf(seen.current) \in Trees
<1>1. \A c \in Commits : Tree[c] \in [Files -> STRING \ {Mine}]
  BY TreeAssumption
<1>2. \A c \in Commits : Tree[c] \in Trees /\ \A f \in Files : Tree[c][f] # Mine
  BY <1>1 DEF Trees, Texts
<1>3. head \in Heads /\ seen.current \in Heads /\ ownTree \in Trees
  BY DEF UpdateTypeOK, Checks
<1>4. QED
  BY <1>2, <1>3, SourceUpdateAssumption DEF TreeOf, Heads, Commits

\* A step changes the variables within their types.
LEMMA TypesStay ==
  ASSUME UpdateTypeOK, [SourceNext]_sourceVars
  PROVE  UpdateTypeOK'
<1> USE DEF UpdateTypeOK, Before, After, Heads, Checks, Outcomes, Trees, Goes, remote, tree, kept, engine, history
<1>0. /\ 0 \in Commits /\ 1 \in Commits
      /\ \A c \in Commits : Tree[c] \in Trees
      /\ TreeOf(head) \in Trees /\ TreeOf(seen.current) \in Trees
      /\ Programs \subseteq Files
  BY TreeFacts, SourceUpdateAssumption
<1>1. CASE BeginsUpdate
  <2>1. seen' \in Checks
    BY <1>1, <1>0 DEF BeginsUpdate, NoCheck
  <2>2. QED
    BY <1>1, <2>1 DEF BeginsUpdate
<1>2. CASE Looks
  <2>1. seen' \in Checks
    <3>1. Dirty \in BOOLEAN
      BY DEF Dirty
    <3>2. \A d \in BOOLEAN : [seen EXCEPT !.current = head, !.dirty = d] \in Checks
      OBVIOUS
    <3>3. QED
      BY <1>2, <3>1, <3>2 DEF Looks
  <2>2. fails' \in Nat
    BY <1>2, SourceUpdateAssumption DEF Looks, Fails
  <2>3. QED
    BY <1>2, <2>1, <2>2 DEF Looks
<1>3. CASE AsksRemote
  <2>1. CASE tip <= head.base
    BY <1>3, <2>1 DEF AsksRemote, EndsWith
  <2>2. CASE ~(tip <= head.base)
    <3>1. [seen EXCEPT !.target = tip, !.newer = TRUE] \in Checks
      OBVIOUS
    <3>2. QED
      BY <1>3, <2>2, <3>1 DEF AsksRemote
  <2>3. QED
    BY <2>1, <2>2
<1>4. CASE AskFails
  BY <1>4, <1>0 DEF AskFails, Fails, EndsWith
<1>5. CASE Fetches
  <2>1. seen' \in Checks
    BY <1>5 DEF Fetches
  <2>2. fails' \in Nat /\ fetched' \in Commits
    BY <1>5 DEF Fetches, Fails
  <2>3. QED
    BY <1>5, <2>1, <2>2 DEF Fetches
<1>6. CASE Compares
  <2>1. seen' \in Checks
    <3>1. \A d \in BOOLEAN : [seen EXCEPT !.landed = d] \in Checks
      OBVIOUS
    <3>2. (seen.dirty /\ AlreadyIn(seen.target)) \in BOOLEAN
      OBVIOUS
    <3>3. QED
      BY <1>6, <3>1, <3>2 DEF Compares
  <2>2. fails' \in Nat
    BY <1>6 DEF Compares, Fails
  <2>3. QED
    BY <1>6, <2>1, <2>2 DEF Compares
<1>7. CASE Decides
  BY <1>7, <1>0 DEF Decides, EndsWith, Unstaged
<1>8. CASE Stages
  BY <1>8, <1>0 DEF Stages, Fails, Overlay
<1>9. CASE Matches
  BY <1>9, <1>0 DEF Matches
<1>10. CASE Unstages
  BY <1>10, <1>0 DEF Unstages, Fails, EndsWith, Overlay
<1>11. CASE MovesAside
  <2>1. PICK S \in SUBSET ChangedPrograms :
           /\ IF S = ChangedPrograms THEN UNCHANGED fails ELSE Fails
           /\ moved' = Contents(S, work)
           /\ copies' = Leftover \cup moved'
           /\ work' = [f \in Files |-> IF f \in S THEN Absent ELSE work[f]]
           /\ runs' = [f \in Programs |-> IF f \in S /\ runs[f] = "path" THEN "copy" ELSE runs[f]]
           /\ late' = late \cup {f \in S : work[f] = Mine}
           /\ pc' \in {"pulling", "replacing"}
    BY <1>11 DEF MovesAside
  <2>2. S \subseteq Programs
    BY DEF ChangedPrograms
  <2>3. work' \in Trees /\ runs' \in [Programs -> {"path", "copy", "no"}]
    BY <2>1, <1>0 DEF Texts
  <2>4. moved' \subseteq Programs \X Texts
    BY <2>1, <2>2, <1>0 DEF Contents
  <2>5. copies' \subseteq Programs \X Texts
    BY <2>1, <2>4 DEF Leftover
  <2>6. late' \subseteq Files /\ fails' \in Nat
    BY <2>1, <2>2, <1>0 DEF Fails
  <2>7. QED
    BY <1>11, <2>1, <2>3, <2>4, <2>5, <2>6 DEF MovesAside
<1>12. CASE PutsBack
  BY <1>12, <1>0 DEF PutsBack, FromHead, Overlay
<1>13. CASE PutBackFails
  <2>1. PICK stranded \in SUBSET moved :
           /\ work' = [f \in Files |-> IF \E m \in moved \ stranded : m[1] = f
                                       THEN (CHOOSE m \in moved : m[1] = f)[2] ELSE work[f]]
           /\ copies' = copies \ (moved \ stranded)
           /\ runs' = [f \in Programs |-> IF runs[f] = "copy" /\ f \in {m[1] : m \in moved \ stranded}
                                          THEN "path" ELSE runs[f]]
           /\ said' = (said \/ stranded # {})
    BY <1>13 DEF PutBackFails
  <2>2. ASSUME NEW f \in Files, \E m \in moved \ stranded : m[1] = f
        PROVE  (CHOOSE m \in moved : m[1] = f)[2] \in Texts
    <3>1. (CHOOSE m \in moved : m[1] = f) \in moved
      BY <2>2
    <3>2. QED
      BY <3>1
  <2>3. work' \in Trees
    BY <2>1, <2>2
  <2>4. copies' \subseteq Programs \X Texts /\ runs' \in [Programs -> {"path", "copy", "no"}]
    BY <2>1
  <2>5. fails' \in Nat /\ said' \in BOOLEAN
    BY <1>13, <2>1 DEF PutBackFails, Fails
  <2>6. /\ pc' \in Before /\ outcome' \in Outcomes /\ landed' \subseteq Files
        /\ moved' \subseteq Programs \X Texts /\ seen' \in Checks
    BY <1>13 DEF PutBackFails
  <2>7. QED
    BY <1>13, <2>3, <2>4, <2>5, <2>6 DEF PutBackFails
<1>14. CASE Pulls
  BY <1>14, <1>0 DEF Pulls, Overlay
<1>15. CASE PullFails
  BY <1>15, <1>0 DEF PullFails, Fails, Refuses, EndsWith, Overlay
<1>16. CASE Installs
  BY <1>16, <1>0 DEF Installs, Makes
<1>17. CASE Builds
  BY <1>17, <1>0 DEF Builds, Makes, EndsWith
<1>18. CASE StepFails
  BY <1>18, <1>0 DEF StepFails, Fails
<1>19. CASE Inspects
  <2>1. fails' \in Nat /\ pc' \in Before \cup After
    BY <1>19 DEF Inspects, Fails, EndsWith
  <2>2. QED
    BY <1>19, <2>1 DEF Inspects, EndsWith
<1>20. CASE Stashes
  <2>1. stash' \subseteq Files \X Texts
    BY <1>20, <1>0 DEF Stashes, Contents, Stashed, Staged, Unstaged
  <2>2. QED
    BY <1>20, <2>1, <1>0 DEF Stashes
<1>21. CASE StashFails
  BY <1>21, <1>0 DEF StashFails, Fails, EndsWith
<1>22. CASE Resets
  BY <1>22, <1>0 DEF Resets
<1>23. CASE ResetFails
  BY <1>23, <1>0 DEF ResetFails, Fails, EndsWith
<1>24. CASE Restores
  BY <1>24, <1>0 DEF Restores, Fails, Overlay
<1>25. CASE Unmarks
  <2>1. index' \in Trees
    BY <1>25, <1>0 DEF Unmarks, Overlay
  <2>2. work' \in Trees
    BY <1>25, <1>0 DEF Unmarks, Texts
  <2>3. QED
    BY <1>25, <2>1, <2>2 DEF Unmarks, Fails
<1>26. CASE Reinstalls
  BY <1>26, <1>0 DEF Reinstalls, EndsWith, MadeAgain
<1>27. CASE ReinstallFails
  <2>1. made' \in [Steps -> Commits \cup {-1}]
    BY <1>27 DEF ReinstallFails, Steps
  <2>2. QED
    BY <1>27, <2>1 DEF ReinstallFails, Fails, EndsWith
<1>28. ASSUME NEW f \in Files, Edits(f)
      PROVE  UpdateTypeOK'
  <2>1. PICK content \in {Mine, Tree[1][f]} \ {work[f]} :
           /\ work' = [work EXCEPT ![f] = content]
           /\ mine' = IF content = Mine THEN mine \cup {f} ELSE mine \ {f}
           /\ late' = IF content = Mine /\ Past(f) THEN late \cup {f} ELSE late \ {f}
    BY <1>28 DEF Edits
  <2>2. content \in Texts
    BY <1>0, <1>28 DEF Texts, Trees
  <2>3. work' \in Trees /\ mine' \subseteq Files /\ late' \subseteq Files
    BY <2>1, <2>2, <1>28
  <2>4. QED
    BY <1>28, <2>3 DEF Edits
<1>29. ASSUME NEW f \in Programs, ProgramRestarts(f)
      PROVE  UpdateTypeOK'
  BY <1>29, <1>0 DEF ProgramRestarts
<1>30. CASE CommitsOwn
  <2>1. committed' \subseteq Files \X Texts
    BY <1>30, <1>0 DEF CommitsOwn, Contents
  <2>2. head' \in Heads
    BY <1>30 DEF CommitsOwn
  <2>3. QED
    BY <1>30, <2>1, <2>2 DEF CommitsOwn
<1>31. CASE RemoteMoves
  BY <1>31, SourceUpdateAssumption DEF RemoteMoves, Commits
<1>32. CASE EngineCrashes
  BY <1>32, <1>0 DEF EngineCrashes, Fails
<1>33. CASE UNCHANGED sourceVars
  BY <1>33 DEF sourceVars, remote, tree, kept, engine, history
<1>34. QED
  BY <1>1, <1>2, <1>3, <1>4, <1>5, <1>6, <1>7, <1>8, <1>9, <1>10, <1>11, <1>12, <1>13, <1>14,
     <1>15, <1>16, <1>17, <1>18, <1>19, <1>20, <1>21, <1>22, <1>23, <1>24, <1>25, <1>26, <1>27,
     <1>28, <1>29, <1>30, <1>31, <1>32, <1>33
  DEF SourceNext, Check, Advance, Make, Rollback, Others

\* The files of a set of contents are the files it was taken of.
LEMMA FilesOfContents ==
  ASSUME NEW S, NEW t
  PROVE  {m[1] : m \in Contents(S, t)} = S
<1>1. \A f \in S : <<f, t[f]>> \in Contents(S, t) /\ <<f, t[f]>>[1] = f
  BY DEF Contents
<1>2. \A m \in Contents(S, t) : m[1] \in S
  BY DEF Contents
<1>3. QED
  BY <1>1, <1>2

\* A checkout that is not dirty has the developer's edits in his commit.
LEMMA CleanIsCommitted ==
  ASSUME UpdateTypeOK, EditsInv, NEW f \in Files, work[f] = Mine, f \notin Staged \cup Unstaged
  PROVE  <<f, Mine>> \in committed
<1>1. TreeOf(head)[f] = Mine
  BY DEF Staged, Unstaged
<1>2. head \in Heads
  BY DEF UpdateTypeOK
<1>3. head.own
  BY <1>1, <1>2, TreeFacts DEF TreeOf, Heads
<1>4. QED
  BY <1>1, <1>3 DEF TreeOf, EditsInv

\* A merge, also one that is stopped half way, writes over no edit.
LEMMA MergeSparesEdits ==
  ASSUME UpdateTypeOK, NEW c \in Commits, Merges(c), NEW S \in SUBSET Written(c), NEW f \in Files, work[f] = Mine
  PROVE  Overlay(work, S, Tree[c])[f] = Mine
<1>1. head \in Heads /\ ~head.own
  BY DEF UpdateTypeOK, Merges
<1>2. TreeOf(head)[f] # Mine
  BY <1>1, TreeFacts DEF TreeOf, Heads
<1>3. f \notin Written(c)
  BY <1>2 DEF Written, Merges, Changed
<1>4. QED
  BY <1>3 DEF Overlay

\* What the developer wrote before the engine's last look stays in the work tree or with git.
LEMMA EditsStay ==
  ASSUME UpdateInv, [SourceNext]_sourceVars
  PROVE  EditsInv'
<1> USE DEF UpdateInv, UpdateTypeOK, EditsInv, Saved, Trees, Goes, remote, tree, kept, engine, history
<1>0. ASSUME UNCHANGED <<work, stash, committed, ownTree, mine, late>>,
             pc' \notin {"replacing", "resetting", "restoring", "unmarking"}
      PROVE  EditsInv'
  BY <1>0
<1>1. CASE BeginsUpdate
  BY <1>0, <1>1 DEF BeginsUpdate
<1>2. CASE Looks
  BY <1>0, <1>2 DEF Looks, Fails
<1>3. CASE AsksRemote
  BY <1>0, <1>3 DEF AsksRemote, EndsWith
<1>4. CASE AskFails
  BY <1>0, <1>4 DEF AskFails, Fails, EndsWith
<1>5. CASE Fetches
  BY <1>0, <1>5 DEF Fetches, Fails
<1>6. CASE Compares
  BY <1>0, <1>6 DEF Compares, Fails
<1>7. CASE Decides
  BY <1>0, <1>7 DEF Decides, EndsWith
<1>8. CASE Stages
  BY <1>0, <1>8 DEF Stages, Fails
<1>9. CASE Matches
  BY <1>0, <1>9 DEF Matches
<1>10. CASE Unstages
  BY <1>0, <1>10 DEF Unstages, Fails, EndsWith
<1>11. CASE MovesAside
  <2>1. PICK S \in SUBSET ChangedPrograms :
           /\ moved' = Contents(S, work)
           /\ work' = [f \in Files |-> IF f \in S THEN Absent ELSE work[f]]
           /\ late' = late \cup {f \in S : work[f] = Mine}
           /\ pc' \in {"pulling", "replacing"}
    BY <1>11 DEF MovesAside
  <2>2. MovedFiles' = S
    BY <2>1, FilesOfContents DEF MovedFiles
  <2>3. \A f \in (mine \ late)' : f \in mine \ late /\ (f \in S => Saved(f)) /\ (f \notin S => work'[f] = work[f])
    BY <1>11, <2>1 DEF MovesAside
  <2>4. QED
    BY <1>11, <2>1, <2>2, <2>3 DEF MovesAside
<1>12. CASE PutsBack
  BY <1>12 DEF PutsBack, FromHead, Overlay
<1>13. CASE PutBackFails
  <2>1. PICK stranded \in SUBSET moved :
           work' = [f \in Files |-> IF \E m \in moved \ stranded : m[1] = f
                                    THEN (CHOOSE m \in moved : m[1] = f)[2] ELSE work[f]]
    BY <1>13 DEF PutBackFails
  <2>2. \A f \in mine \ late : f \in MovedFiles \/ work'[f] = work[f]
    BY <2>1 DEF MovedFiles
  <2>3. /\ pc = "replacing" /\ pc' \in {"unstaging", "idle"}
        /\ UNCHANGED <<stash, committed, ownTree, mine, late>>
    BY <1>13 DEF PutBackFails
  <2>4. QED
    BY <2>2, <2>3
<1>14. CASE Pulls
  <2>1. \A f \in mine \ late : work[f] = Mine => work'[f] = Mine
    BY <1>14, MergeSparesEdits DEF Pulls
  <2>2. QED
    BY <1>14, <2>1 DEF Pulls
<1>15. CASE PullFails
  <2>1. \A f \in mine \ late : work[f] = Mine => work'[f] = Mine
    <3>1. CASE UNCHANGED work
      BY <3>1
    <3>2. CASE Merges(tip) /\ \E S \in SUBSET (Written(tip) \ Locked) : work' = Overlay(work, S, Tree[tip])
      <4>1. PICK S \in SUBSET (Written(tip) \ Locked) : work' = Overlay(work, S, Tree[tip])
        BY <3>2
      <4>2. S \in SUBSET Written(tip) /\ tip \in Commits
        BY <4>1
      <4>3. QED
        BY <3>2, <4>1, <4>2, MergeSparesEdits
    <3>3. QED
      BY <1>15, <3>1, <3>2 DEF PullFails
  <2>2. /\ pc' \in {"unstaging", "idle"}
        /\ UNCHANGED <<stash, committed, ownTree, mine, late>>
    BY <1>15 DEF PullFails, Refuses, EndsWith
  <2>3. QED
    BY <2>1, <2>2
<1>16. CASE Installs
  BY <1>0, <1>16 DEF Installs, Makes
<1>17. CASE Builds
  BY <1>0, <1>17 DEF Builds, EndsWith, Makes
<1>18. CASE StepFails
  BY <1>0, <1>18 DEF StepFails, Fails
<1>19. CASE Inspects
  <2>1. CASE pc' = "resetting" /\ ~Dirty
    BY <1>19, <2>1, CleanIsCommitted DEF Inspects, Dirty
  <2>2. CASE pc' \in {"stashing", "idle"}
    BY <1>0, <1>19, <2>2 DEF Inspects
  <2>3. QED
    BY <1>19, <2>1, <2>2 DEF Inspects, EndsWith
<1>20. CASE Stashes
  <2>1. \A f \in mine \ late : work[f] = Mine => <<f, Mine>> \in stash' \cup committed'
    BY <1>20, CleanIsCommitted DEF Stashes, Contents, Stashed
  <2>2. QED
    BY <1>20, <2>1 DEF Stashes
<1>21. CASE StashFails
  BY <1>0, <1>21 DEF StashFails, Fails, EndsWith
<1>22. CASE Resets
  BY <1>22 DEF Resets
<1>23. CASE ResetFails
  BY <1>0, <1>23 DEF ResetFails, Fails, EndsWith
<1>24. CASE Restores
  BY <1>24 DEF Restores, Overlay
<1>25. CASE Unmarks
  <2>1. \A f \in Gone : f \in landed
    BY DEF Gone
  <2>2. QED
    BY <1>25, <2>1 DEF Unmarks
<1>26. CASE Reinstalls
  BY <1>0, <1>26 DEF Reinstalls, EndsWith
<1>27. CASE ReinstallFails
  BY <1>0, <1>27 DEF ReinstallFails, Fails, EndsWith
<1>28. ASSUME NEW f \in Files, Edits(f)
      PROVE  EditsInv'
  <2>1. PICK content :
           /\ work' = [work EXCEPT ![f] = content]
           /\ mine' = IF content = Mine THEN mine \cup {f} ELSE mine \ {f}
           /\ late' = IF content = Mine /\ Past(f) THEN late \cup {f} ELSE late \ {f}
    BY <1>28 DEF Edits
  <2>2. UNCHANGED <<stash, committed, ownTree, pc, landed, moved>>
    BY <1>28 DEF Edits
  <2>3. MovedFiles' = MovedFiles
    BY <2>2 DEF MovedFiles
  <2>4. ASSUME NEW g \in (mine \ late)', g # f
        PROVE  g \in mine \ late /\ work'[g] = work[g]
    BY <2>1, <2>4
  <2>5. ASSUME f \in (mine \ late)'
        PROVE  work'[f] = Mine /\ ~Past(f)
    BY <1>28, <2>1, <2>5
  <2>6. QED
    BY <2>2, <2>3, <2>4, <2>5 DEF Past
<1>29. ASSUME NEW f \in Programs, ProgramRestarts(f)
      PROVE  EditsInv'
  BY <1>29 DEF ProgramRestarts, MovedFiles
<1>30. CASE CommitsOwn
  <2>1. \A f \in Files : work[f] = Mine => <<f, Mine>> \in committed'
    BY <1>30 DEF CommitsOwn, Contents
  <2>2. MovedFiles' = MovedFiles
    BY <1>30 DEF CommitsOwn, MovedFiles
  <2>3. QED
    BY <1>30, <2>1, <2>2 DEF CommitsOwn
<1>31. CASE RemoteMoves
  BY <1>31 DEF RemoteMoves, MovedFiles
<1>32. CASE EngineCrashes
  BY <1>0, <1>32 DEF EngineCrashes, Fails
<1>33. CASE UNCHANGED sourceVars
  BY <1>33 DEF sourceVars, remote, tree, kept, engine, history, MovedFiles
<1>34. QED
  BY <1>1, <1>2, <1>3, <1>4, <1>5, <1>6, <1>7, <1>8, <1>9, <1>10, <1>11, <1>12, <1>13, <1>14,
     <1>15, <1>16, <1>17, <1>18, <1>19, <1>20, <1>21, <1>22, <1>23, <1>24, <1>25, <1>26, <1>27,
     <1>28, <1>29, <1>30, <1>31, <1>32, <1>33
  DEF SourceNext, Check, Advance, Make, Rollback, Others

\* The report of an update is about the commit that is checked out, and the steps' too.
LEMMA ReportStays ==
  ASSUME UpdateInv, [SourceNext]_sourceVars
  PROVE  ReportInv'
<1> USE DEF UpdateInv, ReportInv, Reported, Before, After, Goes, remote, tree, kept, engine, history
<1>0. /\ head \in Heads /\ seen \in Checks /\ seen.current \in Heads
      /\ tip \in Int /\ seen.target \in Int /\ head.base \in Int
      /\ made \in [Steps -> Int] /\ pc \in Before \cup After
  BY DEF UpdateTypeOK, Checks, Heads, Commits
<1>1. CASE BeginsUpdate
  <2>1. seen'.target = 0 /\ outcome' = "none" /\ pc' = "looking"
    BY <1>1 DEF BeginsUpdate, NoCheck
  <2>2. tip' = tip /\ made' = made /\ head' = head /\ said' = said /\ tip >= 0
    BY <1>1 DEF BeginsUpdate, UpdateTypeOK, Commits
  <2>3. QED
    BY <1>1, <1>0, <2>1, <2>2 DEF BeginsUpdate
<1>2. CASE Looks
  <2>1. seen'.target = seen.target /\ seen'.current = head
    BY <1>2, <1>0 DEF Looks, Checks
  <2>2. QED
    BY <1>2, <1>0, <2>1 DEF Looks
<1>3. CASE AsksRemote
  <2>1. CASE tip <= head.base
    BY <1>3, <1>0, <2>1 DEF AsksRemote, EndsWith
  <2>2. CASE ~(tip <= head.base)
    <3>1. seen'.target = tip /\ seen'.current = seen.current
      BY <1>3, <1>0, <2>2 DEF AsksRemote, Checks
    <3>2. QED
      BY <1>3, <1>0, <2>2, <3>1 DEF AsksRemote
  <2>3. QED
    BY <2>1, <2>2
<1>4. CASE AskFails
  BY <1>4, <1>0 DEF AskFails, Fails, EndsWith
<1>5. CASE Fetches
  <2>1. seen'.target = seen.target /\ seen'.current = seen.current
    BY <1>5, <1>0 DEF Fetches, Checks
  <2>2. QED
    BY <1>5, <1>0, <2>1 DEF Fetches
<1>6. CASE Compares
  <2>1. seen'.target = seen.target /\ seen'.current = seen.current
    BY <1>6, <1>0 DEF Compares, Checks
  <2>2. QED
    BY <1>6, <1>0, <2>1 DEF Compares
<1>7. CASE Decides
  BY <1>7, <1>0 DEF Decides, EndsWith
<1>8. CASE Stages
  BY <1>8, <1>0 DEF Stages, Fails
<1>9. CASE Matches
  BY <1>9, <1>0 DEF Matches
<1>10. CASE Unstages
  BY <1>10, <1>0 DEF Unstages, Fails, EndsWith
<1>11. CASE MovesAside
  BY <1>11, <1>0 DEF MovesAside, Fails
<1>12. CASE PutsBack
  BY <1>12, <1>0 DEF PutsBack
<1>13. CASE PutBackFails
  BY <1>13, <1>0 DEF PutBackFails, Fails
<1>14. CASE Pulls
  <2>1. head'.base = tip /\ tip' = tip /\ ~head.own
    BY <1>14 DEF Pulls, Merges
  <2>2. ~seen.current.own
    BY <1>14, <2>1 DEF Pulls
  <2>3. QED
    BY <1>14, <1>0, <2>1, <2>2 DEF Pulls
<1>15. CASE PullFails
  BY <1>15, <1>0 DEF PullFails, Fails, EndsWith, Refuses
<1>16. CASE Installs
  <2>1. made'["install"] = head.base
    BY <1>16, <1>0 DEF Installs, Makes, Steps
  <2>2. QED
    BY <1>16, <1>0, <2>1 DEF Installs, Makes
<1>17. CASE Builds
  <2>1. \A s \in Steps : made'[s] = head.base
    BY <1>17, <1>0 DEF Builds, Makes, Steps
  <2>2. pc = "build" /\ pc' = "idle" /\ outcome' = "updated" /\ UNCHANGED <<head, seen, tip>>
    BY <1>17 DEF Builds, Makes, EndsWith
  <2>3. QED
    BY <1>0, <2>1, <2>2
<1>18. CASE StepFails
  <2>1. pc \in {"install", "build"} /\ pc' = "inspecting" /\ UNCHANGED <<head, seen, tip, outcome>>
    BY <1>18 DEF StepFails, Steps
  <2>2. QED
    BY <1>0, <2>1
<1>19. CASE Inspects
  BY <1>19, <1>0 DEF Inspects, Fails, EndsWith
<1>20. CASE Stashes
  BY <1>20, <1>0 DEF Stashes
<1>21. CASE StashFails
  BY <1>21, <1>0 DEF StashFails, Fails, EndsWith
<1>22. CASE Resets
  BY <1>22, <1>0 DEF Resets
<1>23. CASE ResetFails
  BY <1>23, <1>0 DEF ResetFails, Fails, EndsWith
<1>24. CASE Restores
  BY <1>24, <1>0 DEF Restores, Fails
<1>25. CASE Unmarks
  BY <1>25, <1>0 DEF Unmarks, Fails
<1>26. CASE Reinstalls
  <2>1. CASE pc = "reinstall"
    <3>1. made'["install"] = head.base
      BY <1>26, <1>0, <2>1 DEF Reinstalls, MadeAgain, Steps
    <3>2. QED
      BY <1>26, <1>0, <2>1, <3>1 DEF Reinstalls
  <2>2. CASE pc = "rebuild"
    <3>1. \A s \in Steps : made'[s] = head.base
      BY <1>26, <1>0, <2>2 DEF Reinstalls, MadeAgain, Steps
    <3>2. pc' = "idle" /\ outcome' = "rolledback" /\ UNCHANGED <<head, seen, tip>>
      BY <1>26, <2>2 DEF Reinstalls, EndsWith
    <3>3. QED
      BY <1>0, <2>2, <3>1, <3>2
  <2>3. QED
    BY <1>26, <2>1, <2>2 DEF Reinstalls
<1>27. CASE ReinstallFails
  BY <1>27, <1>0 DEF ReinstallFails, Fails, EndsWith
<1>28. ASSUME NEW f \in Files, Edits(f)
      PROVE  ReportInv'
  BY <1>28, <1>0 DEF Edits
<1>29. ASSUME NEW f \in Programs, ProgramRestarts(f)
      PROVE  ReportInv'
  BY <1>29, <1>0 DEF ProgramRestarts
<1>30. CASE CommitsOwn
  BY <1>30, <1>0 DEF CommitsOwn
<1>31. CASE RemoteMoves
  BY <1>31, <1>0 DEF RemoteMoves
<1>32. CASE EngineCrashes
  BY <1>32, <1>0 DEF EngineCrashes, Fails
<1>33. CASE UNCHANGED sourceVars
  BY <1>33 DEF sourceVars, remote, tree, kept, engine, history
<1>34. QED
  BY <1>1, <1>2, <1>3, <1>4, <1>5, <1>6, <1>7, <1>8, <1>9, <1>10, <1>11, <1>12, <1>13, <1>14,
     <1>15, <1>16, <1>17, <1>18, <1>19, <1>20, <1>21, <1>22, <1>23, <1>24, <1>25, <1>26, <1>27,
     <1>28, <1>29, <1>30, <1>31, <1>32, <1>33
  DEF SourceNext, Check, Advance, Make, Rollback, Others

\* Between an update and the next, a program that no commit removes is where it is run from.
LEMMA ProgramsStayInv ==
  ASSUME UpdateInv, [SourceNext]_sourceVars
  PROVE  ProgramsInv'
<1> USE DEF UpdateInv, ProgramsInv, Before, After, Goes, remote, tree, kept, engine, history
<1>0. UpdateTypeOK' /\ pc \in Before \cup After
  BY TypesStay DEF UpdateTypeOK
<1>a. /\ Lasting \subseteq Files /\ 1 \in Commits
      /\ \A f \in Lasting, c \in Commits : Tree[c][f] # Absent
  BY TreeFacts, SourceUpdateAssumption DEF Lasting
<1>b. ASSUME UNCHANGED <<work, ownTree, head>>, moved' \in {moved, {}}, pc # "replacing",
             pc \in After => pc' \in After \cup {"idle"},
             said \/ pc \in Before => said' \/ pc' \in Before,
             said => said'
      PROVE  ProgramsInv'
  BY <1>b
<1>1. CASE BeginsUpdate
  BY <1>0, <1>b, <1>1 DEF BeginsUpdate
<1>2. CASE Looks
  BY <1>0, <1>b, <1>2 DEF Looks, Fails
<1>3. CASE AsksRemote
  BY <1>0, <1>b, <1>3 DEF AsksRemote, EndsWith
<1>4. CASE AskFails
  BY <1>0, <1>b, <1>4 DEF AskFails, Fails, EndsWith
<1>5. CASE Fetches
  BY <1>0, <1>b, <1>5 DEF Fetches, Fails
<1>6. CASE Compares
  BY <1>0, <1>b, <1>6 DEF Compares, Fails
<1>7. CASE Decides
  BY <1>0, <1>b, <1>7 DEF Decides, EndsWith
<1>8. CASE Stages
  BY <1>0, <1>b, <1>8 DEF Stages, Fails
<1>9. CASE Matches
  BY <1>0, <1>b, <1>9 DEF Matches
<1>10. CASE Unstages
  BY <1>0, <1>b, <1>10 DEF Unstages, Fails, EndsWith
<1>11. CASE MovesAside
  <2>1. PICK S \in SUBSET ChangedPrograms :
           /\ moved' = Contents(S, work)
           /\ work' = [f \in Files |-> IF f \in S THEN Absent ELSE work[f]]
           /\ pc' = IF S = {} THEN "pulling" ELSE "replacing"
    BY <1>11 DEF MovesAside
  <2>2. MovedFiles' = S
    BY <2>1, FilesOfContents DEF MovedFiles
  <2>3. \A f \in S : work[f] # Absent
    BY DEF ChangedPrograms
  <2>4. \A m \in moved' : m[2] # Absent
    BY <2>1, <2>3 DEF Contents
  <2>5. pc = "moving" /\ UNCHANGED <<head, ownTree, said>>
    BY <1>11 DEF MovesAside
  <2>6. ASSUME NEW f \in Lasting, work'[f] = Absent
        PROVE  said' \/ (pc' = "replacing" /\ f \in MovedFiles')
    BY <1>a, <2>1, <2>2, <2>5, <2>6
  <2>7. QED
    BY <2>1, <2>4, <2>5, <2>6
<1>12. CASE PutsBack
  <2>1. /\ pc = "replacing" /\ pc' = "pulling" /\ UNCHANGED <<head, ownTree, said>>
        /\ moved' = {} /\ HeadHasThem /\ work' = Overlay(work, MovedFiles, TreeOf(head))
    BY <1>12 DEF PutsBack, FromHead
  <2>2. \A f \in Lasting : work'[f] = Absent => work[f] = Absent /\ f \notin MovedFiles
    BY <1>a, <2>1 DEF HeadHasThem, Overlay
  <2>3. QED
    BY <2>1, <2>2
<1>13. CASE PutBackFails
  <2>1. PICK stranded \in SUBSET moved :
           /\ work' = [f \in Files |-> IF \E m \in moved \ stranded : m[1] = f
                                       THEN (CHOOSE m \in moved : m[1] = f)[2] ELSE work[f]]
           /\ said' = (said \/ stranded # {})
    BY <1>13 DEF PutBackFails
  <2>2. /\ pc = "replacing" /\ pc' \in {"unstaging", "idle"} /\ moved' \in {moved, {}}
        /\ UNCHANGED <<head, ownTree>>
    BY <1>13 DEF PutBackFails
  <2>3. ASSUME NEW f \in Lasting, work'[f] = Absent, ~said'
        PROVE  FALSE
    <3>1. stranded = {} /\ ~said
      BY <2>1, <2>3
    <3>2. CASE f \in MovedFiles
      <4>1. PICK m \in moved : m[1] = f
        BY <3>2 DEF MovedFiles
      <4>2. (CHOOSE n \in moved : n[1] = f) \in moved
        BY <4>1
      <4>3. work'[f] = (CHOOSE n \in moved : n[1] = f)[2]
        BY <1>a, <2>1, <3>1, <4>1
      <4>4. QED
        BY <2>3, <4>2, <4>3
    <3>3. CASE f \notin MovedFiles
      <4>1. work'[f] = work[f]
        BY <1>a, <2>1, <3>3 DEF MovedFiles
      <4>2. QED
        BY <2>3, <3>1, <3>3, <4>1
    <3>4. QED
      BY <3>2, <3>3
  <2>4. QED
    BY <2>1, <2>2, <2>3
<1>14. CASE Pulls
  <2>1. /\ pc = "pulling" /\ pc' = "install" /\ UNCHANGED <<ownTree, said, moved>> /\ ~head'.own
        /\ work' = Overlay(work, Written(tip), Tree[tip])
    BY <1>14 DEF Pulls
  <2>2. \A f \in Lasting : work'[f] = Absent => work[f] = Absent
    BY <1>a, <2>1 DEF Overlay, UpdateTypeOK
  <2>3. QED
    BY <2>1, <2>2
<1>15. CASE PullFails
  <2>1. /\ pc = "pulling" /\ pc' \in {"unstaging", "idle"} /\ UNCHANGED <<head, ownTree>>
        /\ moved' \in {moved, {}} /\ (said => said')
    BY <1>15 DEF PullFails, Refuses, EndsWith
  <2>2. \A f \in Lasting : work'[f] = Absent => work[f] = Absent
    <3>1. CASE UNCHANGED work
      BY <3>1
    <3>2. CASE \E S \in SUBSET (Written(tip) \ Locked) : work' = Overlay(work, S, Tree[tip])
      BY <1>a, <3>2 DEF Overlay, UpdateTypeOK
    <3>3. QED
      BY <1>15, <3>1, <3>2 DEF PullFails
  <2>3. QED
    BY <2>1, <2>2
<1>16. CASE Installs
  BY <1>0, <1>b, <1>16 DEF Installs, Makes, Steps
<1>17. CASE Builds
  BY <1>0, <1>b, <1>17 DEF Builds, EndsWith, Makes, Steps
<1>18. CASE StepFails
  BY <1>0, <1>b, <1>18 DEF StepFails, Fails, Steps
<1>19. CASE Inspects
  BY <1>0, <1>b, <1>19 DEF Inspects, Fails, EndsWith
<1>20. CASE Stashes
  <2>1. /\ pc = "stashing" /\ pc' = "resetting" /\ UNCHANGED <<head, ownTree, said, moved>>
        /\ work' = TreeOf(head)
    BY <1>20 DEF Stashes
  <2>2. \A f \in Lasting : work'[f] = Absent => head.own /\ ownTree[f] = Absent
    BY <1>a, <2>1 DEF TreeOf, UpdateTypeOK, Heads
  <2>3. QED
    BY <2>1, <2>2
<1>21. CASE StashFails
  BY <1>0, <1>b, <1>21 DEF StashFails, Fails, EndsWith
<1>22. CASE Resets
  <2>1. ~seen.current.own /\ seen.current.base \in Commits
    BY <1>22 DEF Resets, ReportInv, UpdateTypeOK, Checks, Heads
  <2>2. /\ pc = "resetting" /\ pc' \in {"restoring", "reinstall"} /\ UNCHANGED <<ownTree, said, moved>>
        /\ ~head'.own
    BY <1>22, <2>1 DEF Resets
  <2>3. \A f \in Lasting : work'[f] # Absent
    BY <1>22, <1>a, <2>1 DEF Resets, TreeOf
  <2>4. QED
    BY <2>2, <2>3
<1>23. CASE ResetFails
  BY <1>0, <1>b, <1>23 DEF ResetFails, Fails, EndsWith
<1>24. CASE Restores
  <2>1. /\ pc = "restoring" /\ pc' \in {"unmarking", "reinstall"}
        /\ UNCHANGED <<head, ownTree, said, moved>>
    BY <1>24 DEF Restores
  <2>2. \A f \in Lasting : work'[f] = Absent => work[f] = Absent
    BY <1>24, <1>a DEF Restores, Overlay, Gone
  <2>3. QED
    BY <2>1, <2>2
<1>25. CASE Unmarks
  <2>1. /\ pc = "unmarking" /\ pc' = "reinstall" /\ UNCHANGED <<head, ownTree, said, moved>>
    BY <1>25 DEF Unmarks
  <2>2. \A f \in Lasting : f \notin Gone
    BY <1>a DEF Gone, UpdateTypeOK, Checks
  <2>3. \A f \in Lasting : work'[f] = Absent => work[f] = Absent
    BY <1>25, <1>a, <2>2 DEF Unmarks
  <2>4. QED
    BY <2>1, <2>3
<1>26. CASE Reinstalls
  BY <1>0, <1>b, <1>26 DEF Reinstalls, EndsWith, MadeAgain
<1>27. CASE ReinstallFails
  BY <1>0, <1>b, <1>27 DEF ReinstallFails, Fails, EndsWith
<1>28. ASSUME NEW f \in Files, Edits(f)
      PROVE  ProgramsInv'
  <2>1. PICK content \in {Mine, Tree[1][f]} : work' = [work EXCEPT ![f] = content]
    BY <1>28 DEF Edits
  <2>2. UNCHANGED <<head, ownTree, pc, said, moved>>
    BY <1>28 DEF Edits
  <2>3. MovedFiles' = MovedFiles
    BY <2>2 DEF MovedFiles
  <2>4. \A g \in Lasting : work'[g] = Absent => work[g] = Absent
    BY <1>a, <2>1 DEF UpdateTypeOK, Trees, Absent, Mine
  <2>5. QED
    BY <2>2, <2>3, <2>4
<1>29. ASSUME NEW f \in Programs, ProgramRestarts(f)
      PROVE  ProgramsInv'
  BY <1>29 DEF ProgramRestarts, MovedFiles
<1>30. CASE CommitsOwn
  <2>1. ownTree' = work /\ UNCHANGED <<work, pc, said, moved>>
    BY <1>30 DEF CommitsOwn
  <2>2. MovedFiles' = MovedFiles
    BY <2>1 DEF MovedFiles
  <2>3. QED
    BY <2>1, <2>2
<1>31. CASE RemoteMoves
  BY <1>31 DEF RemoteMoves, MovedFiles
<1>32. CASE EngineCrashes
  <2>1. said' /\ pc' = "idle" /\ moved' = {}
    BY <1>32 DEF EngineCrashes
  <2>2. QED
    BY <2>1
<1>33. CASE UNCHANGED sourceVars
  BY <1>33 DEF sourceVars, remote, tree, kept, engine, history, MovedFiles
<1>34. QED
  BY <1>1, <1>2, <1>3, <1>4, <1>5, <1>6, <1>7, <1>8, <1>9, <1>10, <1>11, <1>12, <1>13, <1>14,
     <1>15, <1>16, <1>17, <1>18, <1>19, <1>20, <1>21, <1>22, <1>23, <1>24, <1>25, <1>26, <1>27,
     <1>28, <1>29, <1>30, <1>31, <1>32, <1>33
  DEF SourceNext, Check, Advance, Make, Rollback, Others

\* The rollback puts back one thing after the other, and whoever touches the checkout meanwhile is noticed.
LEMMA LandedStays ==
  ASSUME UpdateInv, [SourceNext]_sourceVars
  PROVE  LandedInv'
<1> USE DEF UpdateInv, LandedInv, Before, After, Goes, remote, tree, kept, engine, history
<1>0. /\ pc \in Before \cup After /\ fails \in Nat /\ edits \in Nat /\ seen \in Checks /\ seen.edits \in Nat
      /\ index \in Trees /\ work \in Trees /\ landed \subseteq Files /\ head \in Heads
      /\ seen.target \in Commits
  BY DEF UpdateTypeOK, Checks
<1>a. \A c \in Commits : Tree[c] \in Trees
  BY TreeFacts
<1>b. ASSUME edits' = edits, seen'.edits \in {seen.edits, edits},
             pc' \in Before \cup {"install", "build"}
      PROVE  LandedInv'
  BY <1>0, <1>b
<1>c. ASSUME edits' = edits + 1, UNCHANGED <<pc, seen, fails>>
      PROVE  LandedInv'
  BY <1>0, <1>c
<1>1. CASE BeginsUpdate
  <2>1. edits' = edits /\ pc' \in Before \cup {"install", "build"}
    BY <1>1 DEF BeginsUpdate
  <2>2. seen'.edits \in {seen.edits, edits}
    BY <1>1, <1>0 DEF BeginsUpdate, Checks, NoCheck
  <2>3. QED
    BY <1>b, <2>1, <2>2
<1>2. CASE Looks
  <2>1. edits' = edits /\ pc' \in Before \cup {"install", "build"}
    BY <1>2 DEF Looks, Fails
  <2>2. seen'.edits \in {seen.edits, edits}
    BY <1>2, <1>0 DEF Looks, Fails, Checks
  <2>3. QED
    BY <1>b, <2>1, <2>2
<1>3. CASE AsksRemote
  <2>1. edits' = edits /\ pc' \in Before \cup {"install", "build"}
    BY <1>3 DEF AsksRemote, EndsWith
  <2>2. seen'.edits \in {seen.edits, edits}
    BY <1>3, <1>0 DEF AsksRemote, EndsWith, Checks
  <2>3. QED
    BY <1>b, <2>1, <2>2
<1>4. CASE AskFails
  <2>1. edits' = edits /\ pc' \in Before \cup {"install", "build"}
    BY <1>4 DEF AskFails, Fails, EndsWith
  <2>2. seen'.edits \in {seen.edits, edits}
    BY <1>4, <1>0 DEF AskFails, Fails, EndsWith, Checks
  <2>3. QED
    BY <1>b, <2>1, <2>2
<1>5. CASE Fetches
  <2>1. edits' = edits /\ pc' \in Before \cup {"install", "build"}
    BY <1>5 DEF Fetches, Fails
  <2>2. seen'.edits \in {seen.edits, edits}
    BY <1>5, <1>0 DEF Fetches, Fails, Checks
  <2>3. QED
    BY <1>b, <2>1, <2>2
<1>6. CASE Compares
  <2>1. edits' = edits /\ pc' \in Before \cup {"install", "build"}
    BY <1>6 DEF Compares, Fails
  <2>2. seen'.edits \in {seen.edits, edits}
    BY <1>6, <1>0 DEF Compares, Fails, Checks
  <2>3. QED
    BY <1>b, <2>1, <2>2
<1>7. CASE Decides
  <2>1. edits' = edits /\ pc' \in Before \cup {"install", "build"}
    BY <1>7 DEF Decides, EndsWith
  <2>2. seen'.edits \in {seen.edits, edits}
    BY <1>7, <1>0 DEF Decides, EndsWith, Checks
  <2>3. QED
    BY <1>b, <2>1, <2>2
<1>8. CASE Stages
  <2>1. edits' = edits /\ pc' \in Before \cup {"install", "build"}
    BY <1>8 DEF Stages, Fails
  <2>2. seen'.edits \in {seen.edits, edits}
    BY <1>8, <1>0 DEF Stages, Fails, Checks
  <2>3. QED
    BY <1>b, <2>1, <2>2
<1>9. CASE Matches
  <2>1. edits' = edits /\ pc' \in Before \cup {"install", "build"}
    BY <1>9 DEF Matches
  <2>2. seen'.edits \in {seen.edits, edits}
    BY <1>9, <1>0 DEF Matches, Checks
  <2>3. QED
    BY <1>b, <2>1, <2>2
<1>10. CASE Unstages
  <2>1. edits' = edits /\ pc' \in Before \cup {"install", "build"}
    BY <1>10 DEF Unstages, Fails, EndsWith
  <2>2. seen'.edits \in {seen.edits, edits}
    BY <1>10, <1>0 DEF Unstages, Fails, EndsWith, Checks
  <2>3. QED
    BY <1>b, <2>1, <2>2
<1>11. CASE MovesAside
  <2>1. edits' = edits /\ pc' \in Before \cup {"install", "build"}
    BY <1>11 DEF MovesAside, Fails
  <2>2. seen'.edits \in {seen.edits, edits}
    BY <1>11, <1>0 DEF MovesAside, Fails, Checks
  <2>3. QED
    BY <1>b, <2>1, <2>2
<1>12. CASE PutsBack
  <2>1. edits' = edits /\ pc' \in Before \cup {"install", "build"}
    BY <1>12 DEF PutsBack
  <2>2. seen'.edits \in {seen.edits, edits}
    BY <1>12, <1>0 DEF PutsBack, Checks
  <2>3. QED
    BY <1>b, <2>1, <2>2
<1>13. CASE PutBackFails
  <2>1. edits' = edits /\ pc' \in Before \cup {"install", "build"}
    BY <1>13 DEF PutBackFails, Fails
  <2>2. seen'.edits \in {seen.edits, edits}
    BY <1>13, <1>0 DEF PutBackFails, Fails, Checks
  <2>3. QED
    BY <1>b, <2>1, <2>2
<1>14. CASE Pulls
  <2>1. edits' = edits /\ pc' \in Before \cup {"install", "build"}
    BY <1>14 DEF Pulls
  <2>2. seen'.edits \in {seen.edits, edits}
    BY <1>14, <1>0 DEF Pulls, Checks
  <2>3. QED
    BY <1>b, <2>1, <2>2
<1>15. CASE PullFails
  <2>1. edits' = edits /\ pc' \in Before \cup {"install", "build"}
    BY <1>15 DEF PullFails, Fails, EndsWith, Refuses
  <2>2. seen'.edits \in {seen.edits, edits}
    BY <1>15, <1>0 DEF PullFails, Fails, EndsWith, Refuses, Checks
  <2>3. QED
    BY <1>b, <2>1, <2>2
<1>16. CASE Installs
  <2>1. edits' = edits /\ pc' \in Before \cup {"install", "build"}
    BY <1>16 DEF Installs, Makes, Steps
  <2>2. seen'.edits \in {seen.edits, edits}
    BY <1>16, <1>0 DEF Installs, Makes, Checks
  <2>3. QED
    BY <1>b, <2>1, <2>2
<1>17. CASE Builds
  <2>1. edits' = edits /\ pc' \in Before \cup {"install", "build"}
    BY <1>17 DEF Builds, EndsWith, Makes, Steps
  <2>2. seen'.edits \in {seen.edits, edits}
    BY <1>17, <1>0 DEF Builds, EndsWith, Makes, Checks
  <2>3. QED
    BY <1>b, <2>1, <2>2
<1>18. CASE StepFails
  <2>1. fails' = fails + 1 /\ pc' = "inspecting" /\ UNCHANGED <<edits, seen>>
    BY <1>18 DEF StepFails, Fails
  <2>2. QED
    BY <1>0, <2>1
<1>19. CASE Inspects
  <2>1. /\ pc = "inspecting" /\ pc' \in {"stashing", "resetting", "idle"} /\ UNCHANGED <<edits, seen>>
        /\ fails' \in {fails, fails + 1}
    BY <1>19 DEF Inspects, Fails, EndsWith
  <2>2. QED
    BY <1>0, <2>1
<1>20. CASE Stashes
  BY <1>20, <1>0 DEF Stashes
<1>21. CASE StashFails
  <2>1. edits' = edits /\ pc' \in Before \cup {"install", "build"}
    BY <1>21 DEF StashFails, Fails, EndsWith
  <2>2. seen'.edits \in {seen.edits, edits}
    BY <1>21, <1>0 DEF StashFails, Fails, EndsWith, Checks
  <2>3. QED
    BY <1>b, <2>1, <2>2
<1>22. CASE Resets
  <2>1. /\ pc = "resetting" /\ pc' = (IF landed # {} THEN "restoring" ELSE "reinstall")
        /\ UNCHANGED <<edits, seen, fails, landed, ownTree>>
        /\ head' = seen.current /\ index' = TreeOf(seen.current)
    BY <1>22 DEF Resets
  <2>2. TreeOf(head)' = TreeOf(seen.current)
    BY <2>1 DEF TreeOf
  <2>3. QED
    BY <1>0, <2>1, <2>2
<1>23. CASE ResetFails
  <2>1. edits' = edits /\ pc' \in Before \cup {"install", "build"}
    BY <1>23 DEF ResetFails, Fails, EndsWith
  <2>2. seen'.edits \in {seen.edits, edits}
    BY <1>23, <1>0 DEF ResetFails, Fails, EndsWith, Checks
  <2>3. QED
    BY <1>b, <2>1, <2>2
<1>24. CASE Restores
  <2>1. /\ pc = "restoring" /\ UNCHANGED <<edits, seen, landed, head, ownTree>>
    BY <1>24 DEF Restores
  <2>2. TreeOf(head)' = TreeOf(head) /\ Gone' = Gone
    BY <2>1 DEF TreeOf, Gone
  <2>3. TargetHasThem
    BY DEF TargetHasThem, Gone
  <2>4. CASE pc' = "reinstall"
    <3>1. fails' = fails + 1
      BY <1>24, <2>3, <2>4 DEF Restores, Fails
    <3>2. QED
      BY <1>0, <2>1, <2>4, <3>1
  <2>5. CASE pc' = "unmarking"
    <3>1. /\ work' = Overlay(work, landed \ Gone, Tree[seen.target])
          /\ index' = Overlay(index, landed \ Gone, Tree[seen.target])
          /\ fails' = fails
      BY <1>24, <2>5 DEF Restores
    <3>2. \A f \in landed \ Gone : work'[f] = Tree[seen.target][f]
      BY <1>0, <3>1 DEF Overlay
    <3>3. edits = seen.edits => \A f \in Gone : index'[f] = TreeOf(head)[f]
      BY <1>0, <2>1, <3>1 DEF Overlay, Gone
    <3>4. QED
      BY <1>0, <2>1, <2>2, <2>5, <3>1, <3>2, <3>3
  <2>6. QED
    BY <1>24, <2>4, <2>5 DEF Restores
<1>25. CASE Unmarks
  <2>1. /\ pc = "unmarking" /\ pc' = "reinstall" /\ UNCHANGED <<edits, seen, landed, head, ownTree>>
    BY <1>25 DEF Unmarks
  <2>2. TreeOf(head)' = TreeOf(head)
    BY <2>1 DEF TreeOf
  <2>3. CASE Fails
    BY <1>0, <2>1, <2>3 DEF Fails
  <2>4. CASE /\ index' = Overlay(index, landed \ Gone, TreeOf(head))
             /\ work' = [f \in Files |-> IF f \in Gone THEN Absent ELSE work[f]]
             /\ UNCHANGED fails
    <3>1. \A f \in Gone : work'[f] = Tree[seen.target][f]
      BY <1>0, <2>4 DEF Gone
    <3>2. \A f \in landed \ Gone : work'[f] = work[f] /\ index'[f] = TreeOf(head)[f]
      BY <1>0, <2>4 DEF Overlay
    <3>3. \A f \in Gone : index'[f] = index[f]
      BY <1>0, <2>4 DEF Overlay, Gone
    <3>4. edits = seen.edits => \A f \in landed : work'[f] = Tree[seen.target][f] /\ index'[f] = TreeOf(head)[f]
      BY <2>1, <3>1, <3>2, <3>3
    <3>5. QED
      BY <1>0, <2>1, <2>2, <2>4, <3>4
  <2>5. QED
    BY <1>25, <2>3, <2>4 DEF Unmarks
<1>26. CASE Reinstalls
  <2>1. CASE pc = "reinstall"
    <3>1. pc' = "rebuild" /\ UNCHANGED <<edits, seen, landed, head, ownTree, fails, work, index>>
      BY <1>26, <2>1 DEF Reinstalls
    <3>2. TreeOf(head)' = TreeOf(head)
      BY <3>1 DEF TreeOf
    <3>3. QED
      BY <1>0, <2>1, <3>1, <3>2
  <2>2. CASE pc = "rebuild"
    <3>1. edits' = edits /\ pc' = "idle" /\ seen' = seen
      BY <1>26, <2>2 DEF Reinstalls, EndsWith
    <3>2. QED
      BY <1>b, <3>1
  <2>3. QED
    BY <1>26, <2>1, <2>2 DEF Reinstalls
<1>27. CASE ReinstallFails
  <2>1. edits' = edits /\ pc' \in Before \cup {"install", "build"}
    BY <1>27 DEF ReinstallFails, Fails, EndsWith
  <2>2. seen'.edits \in {seen.edits, edits}
    BY <1>27, <1>0 DEF ReinstallFails, Fails, EndsWith, Checks
  <2>3. QED
    BY <1>b, <2>1, <2>2
<1>28. ASSUME NEW f \in Files, Edits(f)
      PROVE  LandedInv'
  BY <1>c, <1>28 DEF Edits
<1>29. ASSUME NEW f \in Programs, ProgramRestarts(f)
      PROVE  LandedInv'
  <2>1. UNCHANGED <<edits, seen, landed, head, ownTree, fails, work, index, pc>>
    BY <1>29 DEF ProgramRestarts
  <2>2. TreeOf(head)' = TreeOf(head) /\ Gone' = Gone
    BY <2>1 DEF TreeOf, Gone
  <2>3. QED
    BY <1>0, <2>1, <2>2
<1>30. CASE CommitsOwn
  BY <1>c, <1>30 DEF CommitsOwn
<1>31. CASE RemoteMoves
  <2>1. UNCHANGED <<edits, seen, landed, head, ownTree, fails, work, index, pc>>
    BY <1>31 DEF RemoteMoves
  <2>2. TreeOf(head)' = TreeOf(head) /\ Gone' = Gone
    BY <2>1 DEF TreeOf, Gone
  <2>3. QED
    BY <1>0, <2>1, <2>2
<1>32. CASE EngineCrashes
  <2>1. edits' = edits /\ pc' \in Before \cup {"install", "build"}
    BY <1>32 DEF EngineCrashes, Fails
  <2>2. seen'.edits \in {seen.edits, edits}
    BY <1>32, <1>0 DEF EngineCrashes, Fails, Checks
  <2>3. QED
    BY <1>b, <2>1, <2>2
<1>33. CASE UNCHANGED sourceVars
  BY <1>33 DEF sourceVars, remote, tree, kept, engine, history, TreeOf, Gone
<1>34. QED
  BY <1>1, <1>2, <1>3, <1>4, <1>5, <1>6, <1>7, <1>8, <1>9, <1>10, <1>11, <1>12, <1>13, <1>14,
     <1>15, <1>16, <1>17, <1>18, <1>19, <1>20, <1>21, <1>22, <1>23, <1>24, <1>25, <1>26, <1>27,
     <1>28, <1>29, <1>30, <1>31, <1>32, <1>33
  DEF SourceNext, Check, Advance, Make, Rollback, Others

\* The invariant holds at the start.
LEMMA UpdateInitOK == SourceInit => UpdateInv
<1> SUFFICES ASSUME SourceInit PROVE UpdateInv
  OBVIOUS
<1> USE DEF SourceInit
<1>1. /\ 0 \in Commits /\ 1 \in Commits /\ Programs \subseteq Files
      /\ Tree[0] \in Trees /\ \A f \in Files : Tree[0][f] # Mine
  BY TreeAssumption, SourceUpdateAssumption DEF Commits, Trees, Texts
<1>2. UpdateTypeOK
  BY <1>1 DEF UpdateTypeOK, Heads, Checks, Outcomes, Before, NoCheck
<1>3. EditsInv
  BY <1>1 DEF EditsInv
<1>4. ReportInv
  BY <1>1 DEF ReportInv, Reported, Before, After, NoCheck
<1>5. ProgramsInv
  BY <1>1 DEF ProgramsInv, Lasting
<1>6. LandedInv
  BY DEF LandedInv, After, NoCheck
<1>7. QED
  BY <1>2, <1>3, <1>4, <1>5, <1>6 DEF UpdateInv

-----------------------------------------------------------------------------
\* Every reachable state of an update, whoever comes between its commands and whichever of
\* them fail, satisfies the invariant.
THEOREM UpdateInvariance == SourceSpec => []UpdateInv
<1>1. UpdateInv /\ [SourceNext]_sourceVars => UpdateInv'
  BY TypesStay, EditsStay, ReportStays, ProgramsStayInv, LandedStays DEF UpdateInv
<1>2. QED
  BY <1>1, UpdateInitOK, PTL DEF SourceSpec

\* The variables of the update keep their types.
THEOREM UpdateTypeCorrect == SourceSpec => []UpdateTypeOK
<1>1. UpdateInv => UpdateTypeOK
  BY DEF UpdateInv
<1>2. QED
  BY <1>1, UpdateInvariance, PTL

\* What the developer wrote before the engine's last look is in the work tree, a stash or a
\* commit of his, whatever becomes of the update.
THEOREM NoEditIsLost == SourceSpec => []EditsAreKept
<1>1. UpdateInv => EditsAreKept
  BY DEF UpdateInv, EditsInv, EditsAreKept, KeptSomewhere, Saved
<1>2. QED
  BY <1>1, UpdateInvariance, PTL

\* The report of an update agrees with the commit, the steps and the programs it leaves.
THEOREM TheReportIsTrue == SourceSpec => []ReportIsTrue
<1>1. UpdateInv => Reported
  BY DEF UpdateInv, ReportInv
<1>2. UpdateInv => StaleIsSaid
  BY DEF UpdateInv, ReportInv, StaleIsSaid, Before
<1>3. UpdateInv => ProgramsStay
  BY DEF UpdateInv, ProgramsInv, ProgramsStay
<1>4. UpdateInv => ReportIsTrue
  BY <1>1, <1>2, <1>3 DEF ReportIsTrue
<1>5. QED
  BY <1>4, UpdateInvariance, PTL

\* A rollback in which nothing else failed, of a checkout nobody else touched, leaves the
\* landed edits where they were: in the work tree and unstaged.
THEOREM LandedEditsComeBack == SourceSpec => LandedComeBack
<1> DEFINE Back == pc = "rebuild" /\ outcome' = "rolledback" /\ fails = 1 /\ edits = seen.edits =>
                     \A f \in landed : work[f] = Tree[seen.target][f] /\ index[f] = TreeOf(head)[f]
<1>1. UpdateInv => Back
  BY DEF UpdateInv, LandedInv
<1>2. UpdateInv /\ [SourceNext]_sourceVars => [Back]_sourceVars
  BY <1>1
<1>3. QED
  BY <1>2, UpdateInvariance, PTL DEF SourceSpec, LandedComeBack
=============================================================================
