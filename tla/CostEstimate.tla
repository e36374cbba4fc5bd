---------------------------- MODULE CostEstimate ----------------------------
(***************************************************************************)
(* The price the control page shows for what is selected                   *)
(* (refreshCostEstimate of stores/control/runs.ts): a change restarts a    *)
(* timer, the timer sends a request, and the answers come in any order.    *)
(* A selection is known by its number of jobs.                             *)
(***************************************************************************)
EXTENDS Naturals, FiniteSets

CONSTANTS MaxJobs, MaxRequests  \* bound: requests

VARIABLES
    jobs,      \* estimate.count: 0 when something is not selected
    due,       \* estimateTimer is set
    requests,  \* under way: their number, and for how many jobs
    seq,       \* estimateSeq
    shown      \* costEstimate: the jobs it is for, or 0

vars == <<jobs, due, requests, seq, shown>>

Init == jobs \in 0 .. MaxJobs /\ due = TRUE /\ requests = {} /\ seq = 0 /\ shown = 0

\* The watcher of the selection.
Selects ==
    /\ jobs' \in 0 .. MaxJobs \ {jobs} /\ due' = TRUE
    /\ UNCHANGED <<requests, seq, shown>>

\* For nothing there is no request, and none is made void.
Refreshes ==
    /\ due /\ due' = FALSE
    /\ IF jobs = 0 THEN shown' = 0 /\ UNCHANGED <<requests, seq>>
       ELSE /\ seq < MaxRequests /\ seq' = seq + 1
            /\ requests' = requests \cup {[seq |-> seq', jobs |-> jobs]}
            /\ UNCHANGED shown
    /\ UNCHANGED jobs

Newest(r) == r.seq = seq

\* An answer, or the failure of a request, of which only the newest counts.
Answered == \E r \in requests : \E price \in {0, r.jobs} :
    /\ requests' = requests \ {r}
    /\ shown' = IF Newest(r) THEN price ELSE shown
    /\ UNCHANGED <<jobs, due, seq>>

Next == Selects \/ Refreshes \/ Answered

-----------------------------------------------------------------------------
Settled == ~due /\ requests = {}

\* A price that nothing will replace is that of the selection, or there is none; when
\* nothing is selected, an older one may be left.
EstimateFits == Settled /\ jobs # 0 => shown \in {0, jobs}

\* No price of nothing; false: a request under way when the selection becomes empty is not
\* made void.
NoPriceOfNothing == Settled /\ jobs = 0 => shown = 0
=============================================================================
