---------------------------- MODULE JobScheduler ----------------------------
(***************************************************************************)
(* The scheduler of a batch's jobs (src/runner/scheduling.ts): one FIFO    *)
(* queue per key pool, drained round robin under a total cap and a cap per *)
(* pool (buildPoolLimits, runJobsByPool).                                  *)
(*                                                                         *)
(* maybeStart is a loop without an await.  Its iterations are steps here,  *)
(* and no other step can come between them: workers settle only while the  *)
(* scheduler is at "wait".                                                 *)
(***************************************************************************)
EXTENDS Integers, Sequences, FiniteSets, FiniteSetsExt, Subsequence

CONSTANTS
    N,                    \* jobs are the numbers 1 .. N, in the order they were built
    Pools,                \* key pools
    PoolOf,               \* keyFor
    TotalConcurrency,     \* totalConcurrency
    MaxPoolConcurrency,   \* maxPoolConcurrency
    PoolSize              \* km.poolSize: keys configured for each pool

Jobs == 1 .. N

ASSUME SchedulerAssumption ==
    /\ N \in Nat
    /\ IsFiniteSet(Pools)
    /\ PoolOf \in [Jobs -> Pools]
    /\ TotalConcurrency \in Nat /\ MaxPoolConcurrency \in Nat
    /\ PoolSize \in [Pools -> Nat]

Larger(a, b)  == IF a >= b THEN a ELSE b
Smaller(a, b) == IF a <= b THEN a ELSE b
Or1(n) == IF n = 0 THEN 1 ELSE n                               \* n || 1

\* totalLimit, and the limits of buildPoolLimits.
TotalLimit == Larger(1, Smaller(Or1(TotalConcurrency), Or1(N)))
Limit == [p \in Pools |-> Larger(1, Smaller(MaxPoolConcurrency, Or1(PoolSize[p])))]

\* Each pool's jobs, in order, and the pools in the order of their first job.
InOrder(S) == Pick([i \in Jobs |-> i], S)

JobsOf(p) == {j \in Jobs : PoolOf[j] = p}
queues == [p \in Pools |-> InOrder(JobsOf(p))]
FirstJobs == InOrder({j \in Jobs : \A i \in Jobs : i < j => PoolOf[i] # PoolOf[j]})
poolOrder == [i \in DOMAIN FirstJobs |-> PoolOf[FirstJobs[i]]]

VARIABLES
    at,             \* where maybeStart is: in its scan, returned, or the promise resolved
    scanned, startedAny,               \* the scan's locals
    cursor,         \* pool the next visit is to (from 0)
    queueHeads,     \* how many of its jobs each pool has started
    activeTotal, activeByPool, done,   \* its counters
    running,        \* jobs handed to a worker whose completion is not accounted for
    results,        \* what workers settled with, in order
    passedOver      \* history: starts elsewhere since a pool that could start last did

scan == <<at, scanned, startedAny, cursor>>
counters == <<activeTotal, activeByPool, done>>
vars == <<scan, queueHeads, counters, running, results, passedOver>>

-----------------------------------------------------------------------------
\* The pool has a job left and room for it.
HasStartable(p) == queueHeads[p] < Len(queues[p]) /\ activeByPool[p] < Limit[p]

\* Slip: every scan starts from the first pool.
VisitedFromStart == poolOrder[scanned + 1]

\* The pool a visit is to, and the cursor after it.
Visited == poolOrder[cursor + 1]
Advanced == (cursor + 1) % Len(poolOrder)

\* The scan's own condition.
ScanGoesOn == at = "scan" /\ scanned < Len(poolOrder) /\ activeTotal < TotalLimit

\* A visit that starts the next job of the pool under the cursor.
VisitStarts ==
    LET p == Visited
        job == queues[p][queueHeads[p] + 1]
    IN /\ ScanGoesOn
       /\ HasStartable(p)
       /\ queueHeads' = [queueHeads EXCEPT ![p] = @ + 1]
       /\ activeTotal' = activeTotal + 1
       /\ activeByPool' = [activeByPool EXCEPT ![p] = @ + 1]
       /\ running' = running \cup {job}
       /\ startedAny' = TRUE
       /\ scanned' = scanned + 1 /\ cursor' = Advanced
       /\ passedOver' = [q \in Pools |-> IF q # p /\ HasStartable(q) THEN passedOver[q] + 1 ELSE 0]
       /\ UNCHANGED <<at, done, results>>

\* A visit to a pool with nothing left, or at its cap.
VisitSkips ==
    /\ ScanGoesOn
    /\ ~HasStartable(Visited)
    /\ scanned' = scanned + 1 /\ cursor' = Advanced
    /\ UNCHANGED <<at, startedAny, queueHeads, counters, running, results, passedOver>>

\* The scan is repeated while it finds something to start.
AnotherPass == startedAny /\ activeTotal < TotalLimit

PassEnds ==
    /\ at = "scan" /\ ~ScanGoesOn
    /\ at' = IF AnotherPass THEN "scan" ELSE "wait"
    /\ scanned' = 0 /\ startedAny' = FALSE
    /\ UNCHANGED <<cursor, queueHeads, counters, running, results, passedOver>>

-----------------------------------------------------------------------------
Settled == {results[i].job : i \in DOMAIN results}

\* A worker's promise settles, either way, and its result is noted ...
WorkerSettles(j, ok) ==
    /\ at = "wait"
    /\ j \in running \ Settled
    /\ results' = Append(results, [job |-> j, ok |-> ok])
    /\ UNCHANGED <<scan, queueHeads, counters, running, passedOver>>

\* Slip: the pool is not counted down.
GivenBackNever(pool) == activeByPool

\* Math.max(0, (activeByPool.get(pool) || 1) - 1).
GivenBack(p) == [activeByPool EXCEPT ![p] = Larger(0, Or1(@) - 1)]

AllDone(n) == n >= N                                           \* done >= jobs.length

\* ... and, in a later turn, its completion is accounted for and maybeStart called.
Completes(j) ==
    /\ at = "wait"
    /\ j \in running \cap Settled
    /\ running' = running \ {j}
    /\ activeTotal' = activeTotal - 1
    /\ activeByPool' = GivenBack(PoolOf[j])
    /\ done' = done + 1
    /\ at' = IF AllDone(done') THEN "resolved" ELSE IF activeTotal' >= TotalLimit THEN "wait" ELSE "scan"
    /\ UNCHANGED <<scanned, startedAny, cursor, queueHeads, results, passedOver>>

-----------------------------------------------------------------------------
Init ==
    /\ at = IF AllDone(0) THEN "resolved" ELSE "scan"
    /\ scanned = 0 /\ startedAny = FALSE /\ cursor = 0
    /\ queueHeads = [p \in Pools |-> 0]
    /\ activeTotal = 0 /\ activeByPool = [p \in Pools |-> 0] /\ done = 0
    /\ running = {} /\ results = <<>>
    /\ passedOver = [p \in Pools |-> 0]

Next ==
    \/ VisitStarts \/ VisitSkips \/ PassEnds
    \/ \E j \in Jobs : \/ \E ok \in BOOLEAN : WorkerSettles(j, ok)
                       \/ Completes(j)

Spec == Init /\ [][Next]_vars

\* The loop runs on, and a worker ends because every call it makes carries a timeout.
FairSpec ==
    /\ Spec
    /\ WF_vars(VisitStarts \/ VisitSkips \/ PassEnds)
    /\ \A j \in Jobs : WF_vars(\E ok \in BOOLEAN : WorkerSettles(j, ok)) /\ WF_vars(Completes(j))

-----------------------------------------------------------------------------
Started == UNION {{queues[p][i] : i \in 1 .. queueHeads[p]} : p \in Pools}

\* Every variable holds what the loop reads from it.
TypeOK ==
    /\ at \in {"scan", "wait", "resolved"}
    /\ scanned \in 0 .. Len(poolOrder) /\ startedAny \in BOOLEAN
    /\ cursor \in 0 .. Len(poolOrder)
    /\ queueHeads \in [Pools -> Nat] /\ \A p \in Pools : queueHeads[p] <= Len(queues[p])
    /\ activeTotal \in Nat /\ activeByPool \in [Pools -> Nat] /\ done \in Nat
    /\ running \subseteq Jobs
    /\ results \in Seq([job : Jobs, ok : BOOLEAN])
    /\ passedOver \in [Pools -> Nat]

\* The counters the caps are kept by count the workers that are really running.
CountersCount ==
    /\ activeTotal = Cardinality(running)
    /\ \A p \in Pools : activeByPool[p] = Cardinality({j \in running : PoolOf[j] = p})
    /\ done = Cardinality(Started \ running)

\* The caps, stated of the workers themselves.
WithinCaps ==
    /\ Cardinality(running) <= TotalLimit
    /\ \A p \in Pools : Cardinality({j \in running : PoolOf[j] = p}) <= Limit[p]

\* A slot is idle only when nothing may use it: while the scheduler waits for a worker,
\* the total is reached, or every pool is drained or at its own cap.
NoIdleSlot ==
    at = "wait" /\ activeTotal < TotalLimit => \A p \in Pools : ~HasStartable(p)

\* "One provider's key pool can't starve the others": while a pool could start a job, each
\* of the others starts at most one before it.
NoPoolStarves == \A p \in Pools : passedOver[p] < Larger(1, Len(poolOrder))

\* The slots are used within both caps, to the last one, and by the pools in turn.
SlotsAreShared == WithinCaps /\ NoIdleSlot /\ NoPoolStarves

\* The promise resolves with one result per job, failures included.
ResolvesComplete ==
    at = "resolved" => /\ running = {}
                       /\ Settled = Jobs /\ Len(results) = N

\* The jobs of a pool start in the order they were built.
FifoPerPool ==
    [][\A j \in running' \ running : \A i \in Jobs :
         i < j /\ PoolOf[i] = PoolOf[j] => i \in Started]_vars

\* What the batch was promised (Batch.tla).
BatchView == INSTANCE Batch WITH
    waiting <- Jobs \ Started, finished <- Started \ running,
    Total <- TotalLimit, Limit <- Limit

RunsTheBatch == BatchView!FairSpec

=============================================================================
