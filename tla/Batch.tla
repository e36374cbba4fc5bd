------------------------------- MODULE Batch -------------------------------
(***************************************************************************)
(* What a batch of jobs promises whoever submits it: every job is run      *)
(* once, no more of them at a time than the total allows, and no more of   *)
(* those that draw on one key pool than that pool allows.                  *)
(***************************************************************************)
EXTENDS Integers, FiniteSets

CONSTANTS
    Jobs,     \* the jobs of the batch
    PoolOf,   \* the key pool each of them draws on
    Total,    \* jobs that may run at a time
    Limit     \* jobs of one pool that may run at a time

VARIABLES waiting, running, finished

vars == <<waiting, running, finished>>

InPool(S, p) == {j \in S : PoolOf[j] = p}

Init == waiting = Jobs /\ running = {} /\ finished = {}

Start(j) ==
    /\ j \in waiting
    /\ Cardinality(running) < Total
    /\ Cardinality(InPool(running, PoolOf[j])) < Limit[PoolOf[j]]
    /\ waiting' = waiting \ {j} /\ running' = running \cup {j}
    /\ UNCHANGED finished

Finish(j) ==
    /\ j \in running
    /\ running' = running \ {j} /\ finished' = finished \cup {j}
    /\ UNCHANGED waiting

Next == \E j \in Jobs : Start(j) \/ Finish(j)

Spec == Init /\ [][Next]_vars

\* Work that may start is not left waiting, and what runs ends.
FairSpec == Spec /\ WF_vars(\E j \in Jobs : Start(j)) /\ \A j \in Jobs : WF_vars(Finish(j))

=============================================================================
