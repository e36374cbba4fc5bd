----------------------------- MODULE KeyManager -----------------------------
(***************************************************************************)
(* The key manager (src/keyManager.ts): pools of API keys, the lease that  *)
(* keeps a physical credential with one request at a time, the cooldowns   *)
(* an outcome puts on it in every pool that lists it, and their file; with *)
(* its users: the job worker and the helpers (runner/), which rotate       *)
(* through a pool, and the health check, which probes one key at a time.   *)
(*                                                                         *)
(* Time is counted in ticks and a cooldown by the ticks that are left of   *)
(* it, so cooldownUntil <= now is cool = 0.  A request that has no signal  *)
(* to wait for runs on in the same turn of the event loop, so reporting an *)
(* outcome and asking for the next key is one action.                      *)
(***************************************************************************)
EXTENDS Integers, Sequences, FiniteSets, FiniteSetsExt, SequencesExt

CONSTANTS
    Keys,         \* physical credentials; a key is its fingerprint
    Pools,        \* names of key pools
    Workers,      \* requests that may be under way at once
    Nobody,       \* the holder of a key that is not leased
    NoKey,        \* wanted by a request that takes any key, held by one that has none
    NoPool,       \* the pool of a request that is not under way
    Rosters,      \* the key lists the settings may give each pool
    BootPools,    \* pools registered when the server starts
    Cooldown,     \* ticks a failure of each class costs
    RetryAfters,  \* Retry-After answers of the providers, in ticks
    Answers       \* bound: the failures the providers answer with

NoRetryAfter == -1

\* "transient" stands for rate_limit, server and network.
Faults == {"transient", "no_balance", "auth", "permission", "bad_request", "unknown"}

ASSUME KeyAssumption ==
    /\ IsFiniteSet(Keys) /\ IsFiniteSet(Pools) /\ IsFiniteSet(Workers)
    /\ Nobody \notin Workers /\ NoKey \notin Keys /\ NoPool \notin Pools
    /\ \A p \in Pools : Rosters[p] # {} /\ \A s \in Rosters[p] : s \in Seq(Keys) /\ IsInjective(s)
    /\ BootPools \subseteq Pools
    /\ Cooldown \in [Faults -> Nat] /\ RetryAfters \subseteq Nat
    /\ Answers \subseteq Faults
    /\ Cooldown["permission"] = 0 /\ Cooldown["bad_request"] = 0

VARIABLES
    roster,   \* getKeyPool: the keys configured for each pool
    known,    \* the pools in this.pools
    rr,       \* pool.rr
    health,   \* entries: status and cooldown of each key in each pool
    saved,    \* _persisted.keys
    disk,     \* the state file
    timer,    \* _saveTimer
    lease,    \* _leasedKeys; a lease is named by the request that holds it
    pc,       \* where each request is
    pool,     \* the pool it draws from
    want,     \* the key it probes, or NoKey
    held      \* the key it was given; the lease may be over

keyState == <<known, rr, health, saved, timer, lease>>
requests == <<pc, pool, want, held>>
vars     == <<roster, disk, keyState, requests>>

-----------------------------------------------------------------------------
(* The manager's state, handed from one of its methods to the next.        *)

Now == [known |-> known, rr |-> rr, health |-> health, saved |-> saved, timer |-> timer,
        lease |-> lease, pc |-> pc, pool |-> pool, want |-> want, held |-> held]

\* The locals of a request die with it.
Becomes(s) ==
    /\ known' = s.known /\ rr' = s.rr /\ health' = s.health /\ saved' = s.saved
    /\ timer' = s.timer /\ lease' = s.lease /\ pc' = s.pc
    /\ pool' = [w \in Workers |-> IF s.pc[w] = "idle" THEN NoPool ELSE s.pool[w]]
    /\ want' = [w \in Workers |-> IF s.pc[w] = "idle" THEN NoKey ELSE s.want[w]]
    /\ held' = [w \in Workers |-> IF s.pc[w] \in {"calling", "finishing"} THEN s.held[w] ELSE NoKey]

\* A key nothing is saved about; "ok" stands for "untested" too.
Fresh == [status |-> "ok", cool |-> 0]

Lists(p, k) == k \in Range(roster[p])

\* registerPool: entries from the saved health, unless the pool is there already.
Registered(s, ps) ==
    [s EXCEPT !.known = @ \cup ps,
              !.health = [p \in Pools |-> IF p \in ps \ s.known THEN s.saved[p] ELSE @[p]],
              !.rr = [p \in Pools |-> IF p \in ps \ s.known THEN 0 ELSE @[p]]]

\* failureStatus.
FailureStatus(c, old) == CASE c = "auth" -> "dead"
                           [] c = "no_balance" -> "no_balance"
                           [] c \in {"bad_request", "permission"} -> old
                           [] OTHER -> "cooldown"

\* Retry-After counts for transient failures only.
Penalty(c, retry) ==
    IF c = "transient" /\ retry # NoRetryAfter THEN Max({retry, 1}) ELSE Cooldown[c]

\* applyReportSuccess and applyReportFailure.
Judged(e, c, retry) ==
    IF c = "ok" THEN [status |-> "ok", cool |-> 0]
    ELSE [status |-> FailureStatus(c, e.status),
          cool |-> IF Penalty(c, retry) > 0 THEN Penalty(c, retry) ELSE e.cool]

\* Slip: the other pools keep what they knew.
SpreadNowhere(s, p, k) == s

\* _propagate and its _mirror: a longer cooldown reaches the registered pools that list k.
Spread(s, p, k) ==
    LET e == s.health[p][k]
        reached == {q \in s.known \ {p} : Lists(q, k) /\ e.cool > s.health[q][k].cool}
        Told(h) == [q \in Pools |-> IF q \in reached THEN [h[q] EXCEPT ![k] = e] ELSE h[q]]
    IN [s EXCEPT !.health = Told(@), !.saved = Told(@)]

\* _releaseLease: every request that waits for a lease looks again.
Freed(s, k) ==
    [s EXCEPT !.lease[k] = Nobody,
              !.pc = [w \in Workers |-> IF @[w] = "waiting" THEN "woken" ELSE @[w]]]

\* Slip: whoever reports is taken for the holder.
HoldsAnyway(s, w, k) == s.lease[k] # Nobody

\* A report or a release counts only under the lease it was given.
Holds(s, w, k) == s.lease[k] = w

\* release.
Released(s, w, k) == IF Holds(s, w, k) THEN Freed(s, k) ELSE s

\* The entry and its _mirror.
Written(s, p, k, e) == [s EXCEPT !.health[p][k] = e, !.saved[p][k] = e]

\* _scheduleSave.
SaveScheduled(s) == [s EXCEPT !.timer = TRUE]

\* report: nothing from a request whose lease is over, no verdict on a key that left the
\* pool, and otherwise the verdict here, in the other pools and, soon, on disk.
Reported(s, w, p, k, c, retry) ==
    IF ~Holds(s, w, k) THEN s
    ELSE LET freed  == Freed(s, k)
             judged == Written(freed, p, k, Judged(freed.health[p][k], c, retry))
         IN IF p \notin s.known \/ ~Lists(p, k) THEN freed
            ELSE SaveScheduled(IF judged.health[p][k].cool > 0 THEN Spread(judged, p, k) ELSE judged)

-----------------------------------------------------------------------------
(* Asking for a key.                                                       *)

\* Slip: a key in use is handed out again.
FreeWhenCool(s, p) == {i \in DOMAIN roster[p] : s.health[p][roster[p][i]].cool = 0}

\* Places of the usable keys of p: cooled down and not leased, to anyone, in any pool.
Free(s, p) == {i \in DOMAIN roster[p] : /\ s.health[p][roster[p][i]].cool = 0
                                        /\ s.lease[roster[p][i]] = Nobody}

\* The place round robin comes to first.
NextPlace(s, p, places) ==
    CHOOSE i \in places : \A j \in places :
        (i - 1 - s.rr[p]) % Len(roster[p]) <= (j - 1 - s.rr[p]) % Len(roster[p])

Leased(s, w, k) == [s EXCEPT !.lease[k] = w, !.pc[w] = "calling", !.held[w] = k]

Goes(s, w, ats) == {[s EXCEPT !.pc[w] = at] : at \in ats}

\* One turn of acquireOrWait: a key, or a wait for somebody's lease that has no deadline,
\* or a nap unless the deadline has passed, or nothing.
AcquireAny(s, w, p) ==
    LET places == Free(s, p)
        busy == \E k \in Range(roster[p]) : s.health[p][k].cool = 0 /\ s.lease[k] # Nobody
        i == NextPlace(s, p, places)
    IN IF roster[p] = <<>> THEN Goes(s, w, {"idle"})
       ELSE IF places # {} THEN {[Leased(s, w, roster[p][i]) EXCEPT !.rr[p] = i % Len(roster[p])]}
       ELSE IF busy THEN Goes(s, w, {"waiting"})
       ELSE Goes(s, w, {"napping", "idle"})

\* One turn of acquireSpecificOrWait.
AcquireSpecific(s, w, p, k) ==
    IF ~Lists(p, k) THEN Goes(s, w, {"idle"})
    ELSE IF s.lease[k] # Nobody THEN Goes(s, w, {"waiting"})
    ELSE IF s.health[p][k].cool > 0 THEN Goes(s, w, {"napping", "idle"})
    ELSE {Leased(s, w, k)}

Acquire(s, w, p, k) ==
    LET r == Registered(s, {p})
    IN IF k = NoKey THEN AcquireAny(r, w, p) ELSE AcquireSpecific(r, w, p, k)

\* A request asks for a key of its pool.
Ask(w, p, k) ==
    /\ pc[w] = "idle"
    /\ \E s \in Acquire([Now EXCEPT !.pool[w] = p, !.want[w] = k], w, p, k) : Becomes(s)
    /\ UNCHANGED <<roster, disk>>

\* A woken request, or one whose nap is over, asks again.
AskAgain(w) ==
    /\ pc[w] \in {"woken", "napping"}
    /\ \E s \in Acquire(Now, w, pool[w], want[w]) : Becomes(s)
    /\ UNCHANGED <<roster, disk>>

-----------------------------------------------------------------------------
(* What becomes of a call.                                                 *)

Calling(w) == pc[w] = "calling"

\* What the manager knows once w has reported class c of its call.
After(w, c, retry) == Reported(Now, w, pool[w], held[w], c, retry)

Settles(s, w, at) == Becomes([s EXCEPT !.pc[w] = at])

\* The provider answered.  A job goes on to save the document, which may throw later.
Succeeds(w) ==
    /\ Calling(w)
    /\ \E at \in (IF want[w] = NoKey THEN {"idle", "finishing"} ELSE {"idle"}) :
         Settles(After(w, "ok", NoRetryAfter), w, at)
    /\ UNCHANGED <<roster, disk>>

\* A failure a different key may cure: the next attempt follows at once, within a budget
\* of one attempt per key of the pool.
FailsOver(w) ==
    /\ Calling(w) /\ want[w] = NoKey
    /\ \E c \in Answers \ {"bad_request", "permission"} :
       \E retry \in RetryAfters \cup {NoRetryAfter} :
         LET s == After(w, c, retry)
         IN \/ \E t \in Acquire(s, w, pool[w], NoKey) : Becomes(t)
            \/ Settles(s, w, "idle")
    /\ UNCHANGED <<roster, disk>>

\* The request or its content was refused: no other key is tried.
Refused(w, c) ==
    /\ Calling(w) /\ want[w] = NoKey
    /\ Settles(After(w, c, NoRetryAfter), w, "idle")
    /\ UNCHANGED <<roster, disk>>

\* Something of ours threw during the call.  The job worker reports it as unknown
\* (classifyJobCallError), the helpers as a bad request (reportFailedAttempt).
OurBug(w) ==
    /\ Calling(w) /\ want[w] = NoKey
    /\ \E c \in {"unknown", "bad_request"} : Settles(After(w, c, NoRetryAfter), w, "idle")
    /\ UNCHANGED <<roster, disk>>

\* interpret: what the health check makes of a failed probe.
Verdict(c) == CASE c \in {"auth", "no_balance", "transient"} -> c
                [] c = "bad_request" -> "ok"
                [] OTHER -> "unknown"

ProbeFails(w, c) ==
    /\ Calling(w) /\ want[w] # NoKey
    /\ \E retry \in RetryAfters \cup {NoRetryAfter} : Settles(After(w, Verdict(c), retry), w, "idle")
    /\ UNCHANGED <<roster, disk>>

\* Cancelled before an outcome, or a mock call: the lease goes back without a verdict.
GivesBack(w) ==
    /\ Calling(w)
    /\ Settles(Released(Now, w, held[w]), w, "idle")
    /\ UNCHANGED <<roster, disk>>

\* Saving the document of a job is over, or throws into the handler of the call's errors,
\* which reports or gives back a key this job no longer holds.
Finishes(w) ==
    /\ pc[w] = "finishing"
    /\ \/ Settles(Now, w, "idle")
       \/ Settles(After(w, "unknown", NoRetryAfter), w, "idle")
       \/ Settles(Released(Now, w, held[w]), w, "idle")
    /\ UNCHANGED <<roster, disk>>

\* A request that waits for a key is cancelled.
StopsWaiting(w) ==
    /\ pc[w] \in {"waiting", "woken", "napping"}
    /\ Settles(Now, w, "idle")
    /\ UNCHANGED <<roster, disk>>

-----------------------------------------------------------------------------
(* Settings, the clock, the file and the life of the process.              *)

\* The settings page gives p another list: the health of keys taken out is forgotten, the
\* pool is read again, and so is every pool of a model.
Reconfigure(p, keys) ==
    LET gone == Range(roster[p]) \ Range(keys)
        kept == [saved EXCEPT ![p] = [k \in Keys |-> IF k \in gone THEN Fresh ELSE @[k]]]
        s == Registered([Now EXCEPT !.saved = kept, !.known = @ \ {p}], BootPools \cup {p})
    IN /\ keys \in Rosters[p] /\ keys # roster[p]
       /\ roster' = [roster EXCEPT ![p] = keys]
       /\ IF gone # {}
          THEN disk' = kept /\ Becomes([s EXCEPT !.timer = FALSE])
          ELSE UNCHANGED disk /\ Becomes(s)

Cooled(h) == [p \in Pools |-> [k \in Keys |-> [h[p][k] EXCEPT !.cool = Max({@ - 1, 0})]]]

Tick ==
    /\ \E h \in {health, saved, disk} : Cooled(h) # h
    /\ health' = Cooled(health) /\ saved' = Cooled(saved) /\ disk' = Cooled(disk)
    /\ UNCHANGED <<roster, known, rr, timer, lease, requests>>

\* The debounced save.
Save ==
    /\ timer
    /\ timer' = FALSE /\ disk' = saved
    /\ UNCHANGED <<roster, known, rr, health, saved, lease, requests>>

\* The process ends and starts again: with a last save when it ends by shutdown.
Restart(file) ==
    LET blank == [Now EXCEPT !.known = {}, !.saved = file, !.timer = FALSE,
                             !.lease = [k \in Keys |-> Nobody],
                             !.pc = [w \in Workers |-> "idle"],
                             !.health = [p \in Pools |-> [k \in Keys |-> Fresh]],
                             !.rr = [p \in Pools |-> 0]]
    IN /\ Becomes(Registered(blank, BootPools))
       /\ disk' = file
       /\ UNCHANGED roster

Shutdown == Restart(saved)
Crash    == Restart(disk)

-----------------------------------------------------------------------------
Init ==
    /\ roster \in [Pools -> UNION {Rosters[p] : p \in Pools}]
    /\ \A p \in Pools : roster[p] \in Rosters[p]
    /\ known = BootPools
    /\ rr = [p \in Pools |-> 0]
    /\ health = [p \in Pools |-> [k \in Keys |-> Fresh]]
    /\ saved = health /\ disk = health /\ timer = FALSE
    /\ lease = [k \in Keys |-> Nobody]
    /\ pc = [w \in Workers |-> "idle"]
    /\ pool = [w \in Workers |-> NoPool]
    /\ want = [w \in Workers |-> NoKey]
    /\ held = [w \in Workers |-> NoKey]

Call(w) == \/ Succeeds(w) \/ FailsOver(w) \/ OurBug(w) \/ GivesBack(w)
           \/ \E c \in Answers \cap {"bad_request", "permission"} : Refused(w, c)
           \/ \E c \in Answers : ProbeFails(w, c)

Next ==
    \/ \E w \in Workers : \/ \E p \in Pools, k \in Keys \cup {NoKey} : Ask(w, p, k)
                          \/ AskAgain(w) \/ Call(w) \/ Finishes(w) \/ StopsWaiting(w)
    \/ \E p \in Pools : \E keys \in Rosters[p] : Reconfigure(p, keys)
    \/ Tick \/ Save \/ Shutdown \/ Crash

Spec == Init /\ [][Next]_vars

-----------------------------------------------------------------------------
Health == [status : {"ok", "cooldown", "dead", "no_balance"}, cool : Nat]

\* Every variable holds what the manager's methods read from it.
TypeOK ==
    /\ roster \in [Pools -> Seq(Keys)]
    /\ known \subseteq Pools
    /\ rr \in [Pools -> Nat]
    /\ health \in [Pools -> [Keys -> Health]]
    /\ saved \in [Pools -> [Keys -> Health]]
    /\ disk \in [Pools -> [Keys -> Health]]
    /\ timer \in BOOLEAN
    /\ lease \in [Keys -> Workers \cup {Nobody}]
    /\ pc \in [Workers -> {"idle", "waiting", "woken", "napping", "calling", "finishing"}]
    /\ pool \in [Workers -> Pools \cup {NoPool}]
    /\ want \in [Workers -> Keys \cup {NoKey}]
    /\ held \in [Workers -> Keys \cup {NoKey}]

\* A credential is with one request at a time, whichever pools list it: a call in progress
\* and the lease name each other.
OneCallPerCredential ==
    /\ \A w \in Workers : Calling(w) => lease[held[w]] = w
    /\ \A k \in Keys : lease[k] # Nobody => Calling(lease[k]) /\ held[lease[k]] = k

\* "A late success must never erase a cooldown": nobody benches a key while a call on it
\* is under way, so its success has nothing to erase.
SuccessErasesNothing ==
    \A w \in Workers : Calling(w) /\ Lists(pool[w], held[w]) => health[pool[w]][held[w]].cool = 0

\* The call of w ends, and what is known of its key is to be saved.
Reports(w) == Calling(w) /\ timer' /\ <<pc'[w], held'[w]>> # <<pc[w], held[w]>>

\* "Any cooldown applies to the credential, so mirror it everywhere": when a call ends with its
\* key benched, every pool the manager knows that lists the key benches it for as long.
VerdictReachesAll ==
    [][\A w \in Workers :
         Reports(w) /\ Lists(pool[w], held[w]) =>
           \A q \in known : Lists(q, held[w]) =>
             health'[q][held[w]].cool >= health'[pool[w]][held[w]].cool]_vars

\* The same of every moment: holds while the lists are fixed, and not of a key that is imported
\* into a pool after the verdict on it.
CooldownIsTheCredentials ==
    \A p, q \in known : \A k \in Keys :
        Lists(p, k) /\ Lists(q, k) => health[p][k].cool = health[q][k].cool

\* Reading a pool again loses no verdict: what the entries say is what is persisted.
ReloadLosesNothing ==
    \A p \in known : \A k \in Range(roster[p]) : health[p][k] = saved[p][k]

\* No verdict on a key is lost: not to a late success, not to a pool read again.
VerdictsAreKept == SuccessErasesNothing /\ ReloadLosesNothing

\* A key found dead is out for its full term, in the pool that found out and in the others,
\* whatever Retry-After came with the answer.
DeadForItsTerm ==
    [][(\E w \in Workers : Reports(w)) =>
         \A p \in Pools, k \in Keys :
           health[p][k].status # "dead" /\ health'[p][k].status = "dead"
             => health'[p][k].cool = Cooldown["auth"]]_vars

\* A permission the operation lacks is "not a key-health failure".
PermissionBenchesNoKey ==
    [][\A w \in Workers : Refused(w, "permission") \/ ProbeFails(w, "permission")
         => \A p \in Pools, k \in Keys : health'[p][k].cool <= health[p][k].cool]_vars

\* No lost wake-up: a request that waits for a lease, which it does without a deadline, waits
\* while somebody holds one, whose report or release wakes it.
WaitersAreWoken ==
    \A w \in Workers : pc[w] = "waiting" => \E k \in Keys : lease[k] # Nobody /\ Calling(lease[k])

\* A lease is one call's, and whoever waits for it is woken by its end.
LeasesAreSound == OneCallPerCredential /\ WaitersAreWoken

\* What a call found out about a key holds for its term, and everywhere.
VerdictsStand == DeadForItsTerm /\ VerdictReachesAll

=============================================================================
