---------------------------- MODULE ProviderCall ----------------------------
(***************************************************************************)
(* The guard around every request to a provider (src/provider-call.ts):    *)
(* a call waits for the turn of its physical key, then for a permit of the *)
(* network that all runs share, asks its run whether it may still spend,   *)
(* and gives everything back however it ends.  The run's side, its         *)
(* spending and its ceiling, is src/runner/reimagine.ts.                   *)
(*                                                                         *)
(* An action is what happens between two awaits, but drainNetwork's loop   *)
(* is one step per round: scan is its index, and nothing else moves before *)
(* it is through.                                                          *)
(***************************************************************************)
EXTENDS Integers, Sequences, FiniteSets, SequencesExt, Subsequence

CONSTANTS
    Calls, Keys, Pools, Runs,
    KeyOf, PoolOf, RunOf,    \* what each call is made with
    LimitOf, PoolLimitOf,    \* the concurrency a run was started with
    Ceiling,                 \* what a run may spend; NoLimit when it has no ceiling
    MaxCharge,               \* the most that one call costs
    NoLimit,                 \* Number.MAX_SAFE_INTEGER
    Signalled                \* the calls that can be cancelled

ASSUME CallsAssumption ==
    /\ KeyOf \in [Calls -> Keys] /\ PoolOf \in [Calls -> Pools] /\ RunOf \in [Calls -> Runs]
    /\ IsFiniteSet(Calls) /\ Signalled \subseteq Calls

ASSUME LimitsAssumption ==
    /\ NoLimit \in Nat \ {0} /\ MaxCharge \in Nat
    /\ LimitOf \in [Runs -> 1 .. NoLimit] /\ PoolLimitOf \in [Runs -> 1 .. NoLimit]
    /\ Ceiling \in [Runs -> 1 .. NoLimit]

VARIABLES
    pc,         \* where each call is
    cancelled,  \* whose signal is aborted
    chain,      \* the links behind tails.get(key), oldest first
    passed,     \* the calls whose own link is resolved
    waiters,    \* network.waiters
    scan,       \* the index of drainNetwork, 0 when it does not run
    limit,      \* network.globalLimit
    limitIn,    \* the limit of each pool, NoLimit for one not in network.pools
    active,     \* network.active
    activeIn,   \* and that of each pool
    spent,      \* manifest.cost of each run
    unbounded   \* the runs with a recorded call whose price or usage is not known in full

links   == <<chain, passed>>
permits == <<limit, limitIn, active, activeIn>>
ledger  == <<spent, unbounded>>
vars    == <<pc, cancelled, links, waiters, scan, permits, ledger>>

Smaller(m, n) == IF m < n THEN m ELSE n

Goes(c, at) == pc' = [pc EXCEPT ![c] = at]

-----------------------------------------------------------------------------
(* The turn of a physical key: acquireSerial.                              *)

\* A call is put behind the last link of its key, unless it was cancelled before.
Asks(c) ==
    /\ scan = 0 /\ pc[c] = "idle"
    /\ IF c \in cancelled
       THEN Goes(c, "done") /\ UNCHANGED chain
       ELSE Goes(c, "queued") /\ chain' = [chain EXCEPT ![KeyOf[c]] = Append(@, c)]
    /\ UNCHANGED <<cancelled, passed, waiters, scan, permits, ledger>>

\* Slip: the link behind waits for the link before it, and not for that one's wait.
FollowsNeighbour(c) ==
    LET q == chain[KeyOf[c]]
    IN \A i \in 2 .. Len(q) : q[i] = c => q[i - 1] \in passed

\* previous: tail = previous.then(() => mine), so all the links before are resolved.
HasTurn(c) ==
    LET q == chain[KeyOf[c]]
    IN \A i, j \in DOMAIN q : i < j /\ q[j] = c => q[i] \in passed

\* The wait is over ...
Wakes(c) ==
    /\ scan = 0 /\ pc[c] = "queued" /\ HasTurn(c)
    /\ Goes(c, "woken")
    /\ UNCHANGED <<cancelled, links, waiters, scan, permits, ledger>>

\* ... and when acquireSerial goes on it looks at the signal once more.
Resumes(c) ==
    /\ scan = 0 /\ pc[c] = "woken"
    /\ IF c \in cancelled
       THEN Goes(c, "done") /\ passed' = passed \cup {c}
       ELSE Goes(c, "turn") /\ UNCHANGED passed
    /\ UNCHANGED <<cancelled, chain, waiters, scan, permits, ledger>>

\* Slip: a call that gives up forgets its link.
LinkForgotten(c) == UNCHANGED passed

\* The catch of acquireSerial: a call that gives up lets the next one through.
LinkResolved(c) == passed' = passed \cup {c}

\* A cancelled wait ends.
Abandons(c) ==
    /\ scan = 0 /\ pc[c] = "abandoning"
    /\ LinkResolved(c)
    /\ Goes(c, "done")
    /\ UNCHANGED <<cancelled, chain, waiters, scan, permits, ledger>>

\* The release of the key: the entry of tails goes when nobody came after.
PassesKey(c) ==
    LET k == KeyOf[c]
    IN /\ passed' = passed \cup {c}
       /\ chain' = [chain EXCEPT ![k] = IF @ # <<>> /\ Last(@) = c THEN <<>> ELSE @]

-----------------------------------------------------------------------------
(* The permits of the network: acquireNetwork and drainNetwork.            *)

AsksPermit(c) ==
    /\ scan = 0 /\ pc[c] = "turn"
    /\ IF c \in cancelled
       THEN Goes(c, "leaving") /\ UNCHANGED <<waiters, scan>>
       ELSE Goes(c, "waiting") /\ waiters' = Append(waiters, c) /\ scan' = 1
    /\ UNCHANGED <<cancelled, links, permits, ledger>>

\* Slip: the limit is that of the waiter at hand.
LimitOfWaiter(c) == LimitOf[RunOf[c]]

\* Every waiter lowers the limits to what its run was started with.
LimitWith(c) == Smaller(limit, LimitOf[RunOf[c]])
PoolLimitWith(c) == Smaller(limitIn[PoolOf[c]], PoolLimitOf[RunOf[c]])

ScansOn(i, n) == scan' = IF i <= n THEN i ELSE 0

\* One round of drainNetwork: the waiter stays, or has its permit.
Drains ==
    /\ scan # 0
    /\ LET c == waiters[scan]
           p == PoolOf[c]
       IN /\ limit' = LimitWith(c)
          /\ limitIn' = [limitIn EXCEPT ![p] = PoolLimitWith(c)]
          /\ IF active >= LimitWith(c) \/ activeIn[p] >= PoolLimitWith(c)
             THEN /\ ScansOn(scan + 1, Len(waiters))
                  /\ UNCHANGED <<pc, waiters, active, activeIn>>
             ELSE /\ waiters' = Pick(waiters, DOMAIN waiters \ {scan})
                  /\ ScansOn(scan, Len(waiters) - 1)
                  /\ active' = active + 1
                  /\ activeIn' = [activeIn EXCEPT ![p] = @ + 1]
                  /\ Goes(c, "granted")
    /\ UNCHANGED <<cancelled, links, ledger>>

\* The release of a permit: when the network is idle the limits are forgotten.
PassesPermit(c) ==
    /\ active' = active - 1
    /\ activeIn' = [activeIn EXCEPT ![PoolOf[c]] = @ - 1]
    /\ IF active = 1 /\ waiters = <<>>
       THEN limit' = NoLimit /\ limitIn' = [p \in Pools |-> NoLimit]
       ELSE UNCHANGED <<limit, limitIn>>
    /\ ScansOn(1, Len(waiters))

-----------------------------------------------------------------------------
(* The call itself: providerCall.                                          *)

\* assertSpendCeiling, which a run without a ceiling passes.
MaySpendNoMore(r) == Ceiling[r] # NoLimit /\ (spent[r] >= Ceiling[r] \/ r \in unbounded)

\* beforeCall with the permit in hand: the request goes out, or everything is given back.
Begins(c) ==
    /\ scan = 0 /\ pc[c] = "granted" /\ ~MaySpendNoMore(RunOf[c])
    /\ Goes(c, "calling")
    /\ UNCHANGED <<cancelled, links, waiters, scan, permits, ledger>>

Denied(c) ==
    /\ scan = 0 /\ pc[c] = "granted" /\ MaySpendNoMore(RunOf[c])
    /\ PassesPermit(c) /\ PassesKey(c)
    /\ Goes(c, "done")
    /\ UNCHANGED <<cancelled, waiters, ledger>>

\* recordProviderUsage: the answer or the failure, with what it cost as far as that is known.
Ends(c) ==
    /\ scan = 0 /\ pc[c] = "calling"
    /\ \E charge \in 0 .. MaxCharge : spent' = [spent EXCEPT ![RunOf[c]] = @ + charge]
    /\ unbounded' \in {unbounded, unbounded \cup {RunOf[c]}}
    /\ PassesPermit(c) /\ PassesKey(c)
    /\ Goes(c, "done")
    /\ UNCHANGED <<cancelled, waiters>>

\* releaseNetwork is null: no permit was had.
NoPermit(c) == UNCHANGED permits

\* The catch and the finally of a call that was cancelled on its way to a permit: it is
\* recorded like a failed request, as one whose usage nobody knows.
Leaves(c) ==
    /\ scan = 0 /\ pc[c] = "leaving"
    /\ unbounded' = unbounded \cup {RunOf[c]}
    /\ NoPermit(c) /\ PassesKey(c)
    /\ Goes(c, "done")
    /\ UNCHANGED <<cancelled, waiters, scan, spent>>

\* The signal: whoever waits is taken out of the wait, a request that is out goes on to
\* the answer or the failure of its adapter.
Cancels(c) ==
    /\ scan = 0 /\ c \in Signalled \ cancelled /\ pc[c] # "done"
    /\ cancelled' = cancelled \cup {c}
    /\ pc' = [pc EXCEPT ![c] = CASE @ = "queued" -> "abandoning"
                                 [] @ = "waiting" -> "leaving"
                                 [] OTHER -> @]
    /\ waiters' = Pick(waiters, {i \in DOMAIN waiters : waiters[i] # c})
    /\ UNCHANGED <<links, scan, permits, ledger>>

-----------------------------------------------------------------------------
Init ==
    /\ pc = [c \in Calls |-> "idle"]
    /\ cancelled = {}
    /\ chain = [k \in Keys |-> <<>>] /\ passed = {}
    /\ waiters = <<>> /\ scan = 0
    /\ limit = NoLimit /\ limitIn = [p \in Pools |-> NoLimit]
    /\ active = 0 /\ activeIn = [p \in Pools |-> 0]
    /\ spent = [r \in Runs |-> 0] /\ unbounded = {}

Step(c) == \/ Wakes(c) \/ Resumes(c) \/ Abandons(c) \/ AsksPermit(c)
           \/ Begins(c) \/ Denied(c) \/ Ends(c) \/ Leaves(c)

Next == Drains \/ \E c \in Calls : Asks(c) \/ Step(c) \/ Cancels(c)

Spec == Init /\ [][Next]_vars

\* The event loop goes on while a promise can settle, and every request carries a timeout.
\* (A call takes a bounded number of steps, so none is overtaken for ever.)
FairSpec == Spec /\ WF_vars(Drains \/ \E c \in Calls : Step(c))

-----------------------------------------------------------------------------
Places == {"idle", "queued", "abandoning", "woken", "turn", "waiting", "leaving",
           "granted", "calling", "done"}

\* Calls are where the code knows them to be, and the counters never go below zero.
TypeOK ==
    /\ pc \in [Calls -> Places]
    /\ cancelled \in SUBSET Calls
    /\ chain \in [Keys -> Seq(Calls)] /\ passed \in SUBSET Calls
    /\ waiters \in Seq(Calls) /\ scan \in 0 .. Len(waiters)
    /\ limit \in 1 .. NoLimit /\ limitIn \in [Pools -> 1 .. NoLimit]
    /\ active \in Nat /\ activeIn \in [Pools -> Nat]
    /\ spent \in [Runs -> Nat] /\ unbounded \in SUBSET Runs

\* It is the turn of the call's key.
HasKey(c) == pc[c] \in {"woken", "turn", "waiting", "leaving", "granted", "calling"}

HasPermit(c) == pc[c] \in {"granted", "calling"}

\* A physical credential is used by one call at a time, whatever pools list it and whoever
\* gives up waiting in between.
OneCallPerKey == \A c, d \in Calls : HasKey(c) /\ HasKey(d) /\ KeyOf[c] = KeyOf[d] => c = d

\* No permit is given beyond the concurrency of any run that has a call active or waiting
\* at that moment, in all or in the pool.
PermitsWithinLimits ==
    [][\A c \in Calls : pc[c] = "waiting" /\ pc'[c] = "granted" =>
         LET holding == {d \in Calls : HasPermit(d)'}
         IN \A d \in holding \cup {e \in Calls : pc'[e] = "waiting"} :
              /\ Cardinality(holding) <= LimitOf[RunOf[d]]
              /\ PoolOf[d] = PoolOf[c] =>
                   Cardinality({e \in holding : PoolOf[e] = PoolOf[c]}) <= PoolLimitOf[RunOf[d]]]_vars

InFlight(r) == {c \in Calls : pc[c] = "calling" /\ RunOf[c] = r}

\* The ceiling is read before a call and raised after it, so a run may pass it, but only by
\* what its concurrency lets out at once: all that is spent and all that is out stays below
\* the ceiling and the price of a full house.
OvershootBounded ==
    \A r \in Runs : Ceiling[r] # NoLimit =>
        spent[r] + MaxCharge * Cardinality(InFlight(r)) < Ceiling[r] + MaxCharge * LimitOf[r]

\* What the guard is for: a key's calls are serial, and a run's overspending is bounded.
GuardHolds == OneCallPerKey /\ OvershootBounded

\* Every call that asked for its key ends, whoever was cancelled before it: a call asks
\* once, so in the end none is on its way.
CallsEnd == <>[](\A c \in Calls : pc[c] \in {"idle", "done"})

=============================================================================
