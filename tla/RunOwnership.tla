---------------------------- MODULE RunOwnership ----------------------------
(***************************************************************************)
(* The lease of one run (src/store/ownership.ts): the file .owner.json     *)
(* next to the manifest, and the processes that claim, refresh and release *)
(* it.  RunQueue takes a lease for a fact; here every operation on the     *)
(* file is a step, since the processes share nothing else.                 *)
(*                                                                         *)
(* A process makes one successful claim of a run, so its name stands for   *)
(* its pid, for the token of its claim and for the inode it created.       *)
(*                                                                         *)
(* Claims overlap at every step.  A rename takes what is at the path by    *)
(* then, which need not be the file whose owner was found dead: robbed is  *)
(* a history of whom that has cost the lease, and guards no action.        *)
(***************************************************************************)
EXTENDS FiniteSets

CONSTANTS
    Processes,   \* every process that ever shares the output directory
    NoFile,      \* nothing at the path
    Nobody       \* no owner could be read

\* Who created the inode, whose record it holds, and whether all of it is there.
Files == [inode : Processes, by : Processes, full : BOOLEAN]

ASSUME ProcessAssumption ==
    /\ Nobody \notin Processes
    /\ NoFile \notin Files

VARIABLES
    file,     \* what is at the path
    pc,       \* where each process is in claimRunOwnership, update or release
    seen,     \* previous: the owner a claimant has read
    opened,   \* the inode a heartbeat has open
    robbed    \* history: whose file another moved, emptied or unlinked, who meant another's

ownerVars == <<file, pc, seen, opened, robbed>>

Created(p) == [inode |-> p, by |-> p, full |-> FALSE]

Alive(p) == pc[p] # "dead"

\* readOwner: nobody when the file is gone, or not all of it is there.
ReadOwner == IF file # NoFile /\ file.full THEN file.by ELSE Nobody

\* isRunOwned: what cannot be parsed is taken for occupied.
IsRunOwned == IF ReadOwner # Nobody THEN Alive(ReadOwner) ELSE file # NoFile

Goes(p, at) == pc' = [pc EXCEPT ![p] = at]

\* Whose inode is at the path.
AtPath == IF file = NoFile THEN {} ELSE {file.inode}

\* Who was robbed still takes what is at the path for its own, and costs another the lease.
RobsInTurn(p) == robbed' = robbed \cup (IF p \in robbed THEN AtPath ELSE {})

-----------------------------------------------------------------------------
(* claimRunOwnership.                                                      *)

Claiming(p) == pc[p] \in {"created", "reading", "judging", "reclaiming", "retrying"}

\* openSync(file, "wx"): one process creates it, the others are told that it exists.
OpensExclusively(p) ==
    IF file = NoFile
    THEN file' = Created(p) /\ Goes(p, "created")
    ELSE UNCHANGED file /\ Goes(p, "reading")

\* The loop's first round, and the round after a dead owner was moved away.
Claims(p) ==
    /\ pc[p] \in {"idle", "refused"}
    /\ OpensExclusively(p)
    /\ UNCHANGED <<seen, opened, robbed>>

Retries(p) ==
    /\ pc[p] = "retrying"
    /\ OpensExclusively(p)
    /\ UNCHANGED <<seen, opened, robbed>>

\* The record reaches the inode that was created, wherever that is by now; or the write
\* throws, and the claim with it, and what was created stays.
WritesOwner(p) ==
    /\ pc[p] = "created"
    /\ \/ /\ Goes(p, "owner")
          /\ file' = IF file # NoFile /\ file.inode = p
                     THEN [file EXCEPT !.by = p, !.full = TRUE] ELSE file
       \/ Goes(p, "failed") /\ UNCHANGED file
    /\ UNCHANGED <<seen, opened, robbed>>

\* Slip: a claimant that can read no owner tries again.
NothingReadRetries == "retrying"

\* What becomes of a claim that can read no owner: 409, as for a live one.
NothingRead == "refused"

ReadsPrevious(p) ==
    /\ pc[p] = "reading"
    /\ seen' = [seen EXCEPT ![p] = ReadOwner]
    /\ Goes(p, IF ReadOwner = Nobody THEN NothingRead ELSE "judging")
    /\ UNCHANGED <<file, opened, robbed>>

\* Slip: an owner that misses its heartbeats is taken for dead.
OwnerBeats(p) == FALSE

\* ownerIsLive.
OwnerIsLive(p) == Alive(p)

JudgesPrevious(p) ==
    /\ pc[p] = "judging"
    /\ Goes(p, IF OwnerIsLive(seen[p]) THEN "refused" ELSE "reclaiming")
    /\ UNCHANGED <<file, seen, opened, robbed>>

\* quarantineDeadOwner renames what is at the path by now; a rename that fails is tried
\* again by the loop.
Quarantines(p) ==
    /\ pc[p] = "reclaiming"
    /\ file' = NoFile
    /\ robbed' = robbed \cup (AtPath \ {seen[p]})
    /\ Goes(p, "retrying")
    /\ UNCHANGED <<seen, opened>>

QuarantineFails(p) ==
    /\ pc[p] = "reclaiming"
    /\ Goes(p, "retrying")
    /\ UNCHANGED <<file, seen, opened, robbed>>

-----------------------------------------------------------------------------
(* The claim's heartbeat and its end.                                      *)

\* update: the owner's record is written over while the token at the path is its own.
BeatReads(p) ==
    /\ pc[p] = "owner" /\ ReadOwner = p
    /\ Goes(p, "beating")
    /\ UNCHANGED <<file, seen, opened, robbed>>

\* writeFileSync opens the path, which empties what is there, or creates it, ...
BeatOpens(p) ==
    /\ pc[p] = "beating"
    /\ file' = IF file = NoFile THEN Created(p) ELSE [file EXCEPT !.full = FALSE]
    /\ opened' = [opened EXCEPT ![p] = IF file = NoFile THEN p ELSE file.inode]
    /\ RobsInTurn(p)
    /\ Goes(p, "truncated")
    /\ UNCHANGED seen

\* ... and writes it.  A failure is swallowed.
BeatWrites(p) ==
    /\ pc[p] = "truncated"
    /\ \/ UNCHANGED file
       \/ file' = IF file # NoFile /\ file.inode = opened[p]
                  THEN [file EXCEPT !.by = p, !.full = TRUE] ELSE file
    /\ opened' = [opened EXCEPT ![p] = Nobody]
    /\ Goes(p, "owner")
    /\ UNCHANGED <<seen, robbed>>

\* release unlinks the file only while the token in it is the claim's own.
Own(p) == ReadOwner = p

Releases(p) ==
    /\ pc[p] = "owner"
    /\ Goes(p, IF Own(p) THEN "releasing" ELSE "released")
    /\ UNCHANGED <<file, seen, opened, robbed>>

\* The unlink; when it throws the file stays.
Unlinks(p) ==
    /\ pc[p] = "releasing"
    /\ \/ file' = NoFile /\ RobsInTurn(p)
       \/ UNCHANGED <<file, robbed>>
    /\ Goes(p, "released")
    /\ UNCHANGED <<seen, opened>>

\* The end of a process, between any two of its steps.
Dies(p) ==
    /\ Alive(p)
    /\ Goes(p, "dead")
    /\ opened' = [opened EXCEPT ![p] = Nobody]
    /\ UNCHANGED <<file, seen, robbed>>

-----------------------------------------------------------------------------
OwnerInit ==
    /\ file = NoFile
    /\ pc = [p \in Processes |-> "idle"]
    /\ seen = [p \in Processes |-> Nobody]
    /\ opened = [p \in Processes |-> Nobody]
    /\ robbed = {}

Claim(p) == Retries(p) \/ WritesOwner(p) \/ ReadsPrevious(p) \/ JudgesPrevious(p)

OwnerNext == \E p \in Processes :
    \/ Claims(p) \/ Claim(p) \/ Quarantines(p) \/ QuarantineFails(p)
    \/ BeatReads(p) \/ BeatOpens(p) \/ BeatWrites(p)
    \/ Releases(p) \/ Unlinks(p) \/ Dies(p)

OwnerSpec == OwnerInit /\ [][OwnerNext]_ownerVars

\* claimRunOwnership is synchronous, and a rename does not fail for ever.
OwnerFairSpec == OwnerSpec /\ \A p \in Processes : WF_ownerVars(Claim(p) \/ QuarantineFails(p)) /\ SF_ownerVars(Quarantines(p))

-----------------------------------------------------------------------------
States == {"idle", "created", "reading", "judging", "reclaiming", "retrying", "refused", "failed",
           "owner", "beating", "truncated", "releasing", "released", "dead"}

\* The file and the processes are in states the code knows.
OwnerTypeOK ==
    /\ file \in Files \cup {NoFile}
    /\ pc \in [Processes -> States]
    /\ seen \in [Processes -> Processes \cup {Nobody}]
    /\ opened \in [Processes -> Processes \cup {Nobody}]
    /\ robbed \subseteq Processes

\* The process believes the run is its own.
Owns(p) == pc[p] \in {"owner", "beating", "truncated", "releasing"}

\* The process owns the run, and nobody has taken its file for another's.
HoldsLease(p) == Owns(p) /\ p \notin robbed

\* A run is advanced by one process: no two that nobody robbed hold a claim at once.
OneOwner == \A p, q \in Processes : HoldsLease(p) /\ HoldsLease(q) => p = q

\* A reader never takes a run in progress for abandoned, not even between the two halves
\* of a heartbeat's write or while the lease is being created.
OwnerLooksOwned ==
    \A p \in Processes \ robbed : Owns(p) \/ pc[p] = "created" => IsRunOwned

\* It takes the death of an owner, whose file two claimants find, to cost another the lease.
RobbedOverADeadOwner == robbed # {} => \E p \in Processes : ~Alive(p)

\* However claims overlap, a run has one owner, and every reader sees that it has one; who
\* is robbed of its lease in between is so by a claimant that found another owner dead.
OneVisibleOwner == OneOwner /\ OwnerLooksOwned /\ RobbedOverADeadOwner

\* What an owner put at the path is moved, replaced or removed by nobody else, but by a
\* rename that was meant for a dead owner's file.
OwnersFileStays ==
    [][\A p \in Processes : Owns(p) /\ HoldsLease(p)' => file' # NoFile /\ file'.inode = p /\ file'.by = p]_ownerVars

\* "Neither can remove a successor created after the old file is moved out of the way":
\* a rename only ever takes the file whose owner was found dead.
ReclaimerSparesSuccessor == robbed = {}

\* A claim comes to an end: the run is claimed, or refused, or the claim throws.
ClaimEnds == \A p \in Processes : Claiming(p) ~> ~Claiming(p)

=============================================================================
