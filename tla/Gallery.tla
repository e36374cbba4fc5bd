------------------------------ MODULE Gallery ------------------------------
(***************************************************************************)
(* The gallery's list of runs (stores/viewer.ts): pages of the history are *)
(* read, refreshed and deleted from, with several requests under way whose *)
(* answers come in any order.  A run is its number: the newest is the      *)
(* largest.                                                                *)
(***************************************************************************)
EXTENDS Naturals, FiniteSets

CONSTANTS Last,       \* runs 1 .. Last, the last of which is made while the page is open
          PageSize,
          Going,      \* the run that is queued or running at first
          MaxAsks     \* bound: requests for a page, and deletions

VARIABLES
    disk, going,         \* the daemon's runs, and the one that goes on
    made,                \* run Last has been made: its number is not used again
    rows, nextCursor,    \* runs.value; 0 for no more pages
    deleting, confirmed, \* deletingRunIds, confirmedDeletedRunIds
    pages, deletions,    \* requests under way
    brought,             \* rows of deleted runs that a further page brought back
    asks

vars == <<disk, going, made, rows, nextCursor, deleting, confirmed, pages, deletions, brought, asks>>

\* listRunsPage: the newest PageSize runs older than the cursor, and where the next page begins.
Below(cursor) == {r \in disk : cursor = 0 \/ r < cursor}
Page(cursor) == {r \in Below(cursor) : Cardinality({s \in Below(cursor) : s > r}) < PageSize}
Oldest(R) == CHOOSE r \in R : \A s \in R : r <= s
Cursor(cursor) ==
    IF Below(cursor) = Page(cursor) THEN 0 ELSE Oldest(Page(cursor))

Init ==
    /\ disk = 1 .. (Last - 1) /\ going = Going /\ made = FALSE
    /\ rows = {} /\ nextCursor = 0 /\ deleting = {} /\ confirmed = {}
    /\ pages = {} /\ deletions = {} /\ brought = {} /\ asks = 0

Ask == asks < MaxAsks /\ asks' = asks + 1

Request(kind, cursor) ==
    [kind |-> kind, cursor |-> cursor, late |-> FALSE, answered |-> FALSE, runs |-> {}, next |-> 0]

\* ++runsRequestSeq: the refreshes asked for before no longer count.
Overtaken == {[p EXCEPT !.late = p.kind = "refresh"] : p \in pages}

\* loadRuns.
Refreshes ==
    /\ Ask /\ pages' = Overtaken \cup {Request("refresh", 0)}
    /\ UNCHANGED <<disk, going, made, rows, nextCursor, deleting, confirmed, deletions, brought>>

\* loadMoreRuns.
AsksMore ==
    /\ nextCursor # 0 /\ Ask /\ pages' = pages \cup {Request("more", nextCursor)}
    /\ UNCHANGED <<disk, going, made, rows, nextCursor, deleting, confirmed, deletions, brought>>

ReadsPage(p) ==
    /\ ~p.answered
    /\ pages' = (pages \ {p}) \cup
         {[p EXCEPT !.answered = TRUE, !.runs = Page(p.cursor), !.next = Cursor(p.cursor)]}
    /\ UNCHANGED <<disk, going, made, rows, nextCursor, deleting, confirmed, deletions, brought, asks>>

\* The page arrives; a refresh is filtered, a further page is not.
PageArrives(p) ==
    /\ p.answered /\ pages' = pages \ {p}
    /\ IF p.late THEN UNCHANGED <<rows, nextCursor, brought>>
       ELSE /\ nextCursor' = p.next
            /\ rows' = IF p.kind = "refresh" THEN p.runs \ (deleting \cup confirmed) ELSE rows \cup p.runs
            /\ brought' = IF p.kind = "refresh" THEN brought ELSE brought \cup (p.runs \cap confirmed)
    /\ UNCHANGED <<disk, going, made, deleting, confirmed, deletions, asks>>

PageFails(p) ==
    /\ ~p.answered /\ pages' = pages \ {p}
    /\ UNCHANGED <<disk, going, made, rows, nextCursor, deleting, confirmed, deletions, brought, asks>>

\* deleteRuns of the rows chosen: those that are not being deleted yet go at once.
Deletes(chosen) ==
    LET ids == chosen \ deleting
    IN /\ ids # {} /\ Ask
       /\ rows' = rows \ ids /\ deleting' = deleting \cup ids
       /\ pages' = Overtaken
       /\ deletions' = deletions \cup
            {[ids |-> ids, before |-> rows, answered |-> FALSE, deleted |-> {}, runs |-> {}]}
       /\ UNCHANGED <<disk, going, made, nextCursor, confirmed, brought>>

\* The daemon's deleteRuns (runQueue.ts): a run that goes on or is not there is skipped.
DaemonDeletes(d) ==
    LET gone == (d.ids \cap disk) \ {going}
    IN /\ ~d.answered
       /\ disk' = disk \ gone
       /\ deletions' = (deletions \ {d}) \cup
            {[d EXCEPT !.answered = TRUE, !.deleted = gone, !.runs = disk \ gone]}
       /\ UNCHANGED <<going, made, rows, nextCursor, deleting, confirmed, pages, brought, asks>>

\* Slip: what another deletion has confirmed meanwhile is not looked at.
RestoredAsAnswered(d) == d.runs \ (deleting \ d.ids)

\* The answer's list without what other deletions hide or have confirmed.
Restored(d) == d.runs \ ((deleting \ d.ids) \cup confirmed \cup d.deleted)

DeletionEnds(d) ==
    /\ d.answered /\ deletions' = deletions \ {d}
    /\ confirmed' = confirmed \cup d.deleted
    /\ rows' = Restored(d) \cup (rows \ d.before)
    /\ deleting' = deleting \ d.ids /\ pages' = Overtaken
    /\ UNCHANGED <<disk, going, made, nextCursor, brought, asks>>

\* The request fails, before or after the daemon has done it: the rows come back.
DeletionFails(d) ==
    /\ deletions' = deletions \ {d}
    /\ rows' = rows \cup (d.before \cap d.ids)
    /\ deleting' = deleting \ d.ids /\ pages' = Overtaken
    /\ UNCHANGED <<disk, going, made, nextCursor, confirmed, brought, asks>>

RunEnds ==
    /\ going # 0 /\ going' = 0
    /\ UNCHANGED <<disk, made, rows, nextCursor, deleting, confirmed, pages, deletions, brought, asks>>

RunIsMade ==
    /\ ~made /\ made' = TRUE /\ disk' = disk \cup {Last}
    /\ UNCHANGED <<going, rows, nextCursor, deleting, confirmed, pages, deletions, brought, asks>>

Next ==
    \/ Refreshes \/ AsksMore \/ RunEnds \/ RunIsMade
    \/ \E chosen \in SUBSET rows : Deletes(chosen)
    \/ \E p \in pages : ReadsPage(p) \/ PageArrives(p) \/ PageFails(p)
    \/ \E d \in deletions : DaemonDeletes(d) \/ DeletionEnds(d) \/ DeletionFails(d)

Spec == Init /\ [][Next]_vars

-----------------------------------------------------------------------------
(* Whatever order answers come in, the row of a run whose deletion was     *)
(* confirmed does not come back, and the row of a run that was hidden by a *)
(* deletion and is still there does.  Except for rows that a further page, *)
(* asked for before the deletion, brings back.                             *)
RowsStayReal ==
    /\ rows' \cap confirmed' \subseteq brought'
    /\ \A r \in deleting \ deleting' : r \in disk' => r \in rows'

RowsAreReal == [][RowsStayReal]_vars

\* Without the exception.
NoRowOfADeletedRun == rows \cap confirmed = {}
=============================================================================
