------------------------------ MODULE Updater ------------------------------
(***************************************************************************)
(* The directory a release of ReDesign is installed in, and the processes  *)
(* that replace its executable: the lock file of src/update-lock.ts, the   *)
(* download, the check and the swap of src/github-updater.ts, the rollback *)
(* and the cleanup at a boot.  The processes share nothing but the files,  *)
(* so every file operation another process can come between is a step.     *)
(*                                                                         *)
(* A file is known by what it holds: the executable of the old release, of *)
(* the new one, one that is not what was released, or a part of one.  A    *)
(* process stands for its pid, and no pid is used again.                   *)
(***************************************************************************)
EXTENDS Naturals, FiniteSets

CONSTANTS
    Procs,        \* every process that is ever started from the directory
    Host,         \* the one that runs when the behaviour begins
    AgedBuilds,         \* the executables built more than an hour ago
    MaxFailures,     \* how many operations fail
    MaxCrashes    \* how many processes end in the middle of something

\* The lock of nobody is no process's.
ASSUME HostAssumption == Host \in Procs /\ "none" \notin Procs

Whole == {"old", "new", "bad"}

VARIABLES
    lock,      \* .redesign-update.lock: who created it, and whether its pid is written
    exe,       \* what is at the path of the executable
    asides,    \* <<p, content>>: an executable that p moved aside
    staging,   \* .update-staging: the archive and the unpacked executable
    stage,        \* where each process is
    job,       \* what it takes the lock for: "apply" or "sweep"
    judged,    \* the owner it found dead; itself for none
    running,   \* the release it runs
    aside,     \* movedAside: what its transaction has moved aside
    installed,   \* whether its transaction installed the update
    failures, crashes,
    raced,     \* a lock was removed that is not the one read before
    swept      \* a cleanup removed the only executable there was

files == <<lock, exe, asides, staging>>
others == <<exe, asides, staging>>
tasks == <<job, judged, running, aside, installed>>
budgets == <<failures, crashes>>
marks == <<raced, swept>>
uvars == <<files, stage, tasks, budgets, marks>>

NoLock == [by |-> "none", full |-> FALSE]
OwnedBy(p) == [by |-> p, full |-> TRUE]
NoStaging == [archive |-> "none", candidate |-> "none"]

Moves(p, at) == stage' = [stage EXCEPT ![p] = at]
IsUp(p) == stage[p] \notin {"off", "gone"}
MayFail == failures < MaxFailures /\ failures' = failures + 1 /\ UNCHANGED crashes

\* Where a process goes once it has the lock, and once it is done with it.
WithLock(p) == IF job[p] = "apply" THEN "checking" ELSE "clearing"
Done(p) == IF job[p] = "apply" THEN "settled" ELSE "idle"

-----------------------------------------------------------------------------
(* acquireUpdateLock.                                                      *)

Acquires(p, for) ==
    /\ job' = [job EXCEPT ![p] = for]
    /\ Moves(p, "opening")

\* openSync(file, "wx").
OpensLock(p) ==
    /\ stage[p] = "opening"
    /\ IF lock = NoLock
       THEN lock' = [by |-> p, full |-> FALSE] /\ Moves(p, "writing")
       ELSE UNCHANGED lock /\ Moves(p, "judging")
    /\ UNCHANGED <<others, tasks, budgets, marks>>

\* The pid reaches the file that was created, wherever that is by now.
WritesLock(p) ==
    /\ stage[p] = "writing"
    /\ lock' = IF lock.by = p THEN OwnedBy(p) ELSE lock
    /\ Moves(p, WithLock(p))
    /\ UNCHANGED <<others, tasks, budgets, marks>>

\* The write throws, and the file stays as it was created.
LockFails(p) ==
    /\ stage[p] = "writing"
    /\ MayFail
    /\ Moves(p, "refused")
    /\ UNCHANGED <<files, tasks, marks>>

\* removeAbandonedLock reads the owner; what cannot be parsed is nobody's to remove.
JudgesLock(p) ==
    /\ stage[p] = "judging"
    /\ Moves(p, IF lock.full THEN "rereading" ELSE "refused")
    /\ UNCHANGED <<files, tasks, budgets, marks>>

\* Slip: a lock is abandoned when another process holds it.
AnothersIsDead(p) == lock.by # p

\* ownerIsAlive reads the file again, and takes what it cannot read for dead.
OwnerIsDead(p) == ~lock.full \/ ~IsUp(lock.by)

RereadsLock(p) ==
    /\ stage[p] = "rereading"
    /\ judged' = [judged EXCEPT ![p] = IF lock.full /\ OwnerIsDead(p) THEN lock.by ELSE p]
    /\ Moves(p, IF OwnerIsDead(p) THEN "removing" ELSE "refused")
    /\ UNCHANGED <<files, job, running, aside, installed, budgets, marks>>

\* unlinkSync removes what is there by now, and the claim starts again.
RemovesLock(p) ==
    /\ stage[p] = "removing"
    /\ lock' = NoLock
    /\ raced' = (raced \/ lock \notin {OwnedBy(judged[p]), NoLock})
    /\ judged' = [judged EXCEPT ![p] = p]
    /\ Moves(p, IF lock = NoLock THEN "refused" ELSE "opening")
    /\ UNCHANGED <<others, job, running, aside, installed, budgets, swept>>

\* The lock is refused: nothing is cleaned up, or nothing applied.
IsRefused(p) ==
    /\ stage[p] = "refused"
    /\ Moves(p, Done(p))
    /\ UNCHANGED <<files, tasks, budgets, marks>>

\* Slip: a transaction that fails returns before the release.
OnlyWhenInstalled(p) == lock = OwnedBy(p) /\ installed[p]

\* release reads the owner, and removes the file when it is its own.
IsMine(p) == lock = OwnedBy(p)

Releases(p) ==
    /\ stage[p] = "releasing"
    /\ Moves(p, IF IsMine(p) THEN "unlinking" ELSE Done(p))
    /\ UNCHANGED <<files, tasks, budgets, marks>>

UnlinksLock(p) ==
    /\ stage[p] = "unlinking"
    /\ lock' = NoLock
    /\ raced' = (raced \/ lock \notin {OwnedBy(p), NoLock})
    /\ Moves(p, Done(p))
    /\ UNCHANGED <<others, tasks, budgets, swept>>

\* What is left of a use of the lock is forgotten.
ForgetsUse(p) ==
    /\ judged' = [judged EXCEPT ![p] = p]
    /\ aside' = [aside EXCEPT ![p] = "none"]
    /\ installed' = [installed EXCEPT ![p] = FALSE]

-----------------------------------------------------------------------------
(* cleanupUpdateArtifacts, at the boot of a release.                       *)

\* Only what is whole can be started.
BootsUp(p) ==
    /\ stage[p] = "off" /\ exe \in Whole
    /\ running' = [running EXCEPT ![p] = exe]
    /\ Acquires(p, "sweep")
    /\ UNCHANGED <<files, judged, aside, installed, budgets, marks>>

ClearsStaging(p) ==
    /\ stage[p] = "clearing"
    /\ staging' = NoStaging
    /\ Moves(p, "sweeping")
    /\ UNCHANGED <<lock, exe, asides, tasks, budgets, marks>>

\* A file that is renamed keeps the time it was written at.
OldEnough == {c \in asides : c[2] \in AgedBuilds}

NothingWhole(kept) == exe \notin Whole /\ \A c \in kept : c[2] \notin Whole

SweepsCopies(p) ==
    /\ stage[p] = "sweeping"
    /\ asides' = asides \ OldEnough
    /\ swept' = (swept \/ (NothingWhole(asides') /\ ~NothingWhole(asides)))
    /\ Moves(p, "releasing")
    /\ UNCHANGED <<lock, exe, staging, tasks, budgets, raced>>

-----------------------------------------------------------------------------
(* applyUpdate and downloadAndStageUpdate.  What fails before the swap     *)
(* empties the staging directory and leaves the executable alone.          *)

Discards(p) ==
    /\ staging' = NoStaging
    /\ Moves(p, "releasing")
    /\ UNCHANGED <<lock, exe, asides, tasks, marks>>

Advances(p, from, to) ==
    /\ stage[p] = from
    /\ Moves(p, to)
    /\ UNCHANGED <<files, tasks, budgets, marks>>

\* The fresh check, the release and its asset; the staging directory starts empty.
ChecksRelease(p) ==
    /\ stage[p] = "checking" /\ running[p] # "new"
    /\ staging' = NoStaging
    /\ Moves(p, "fetching")
    /\ UNCHANGED <<lock, exe, asides, tasks, budgets, marks>>

\* Nothing is touched when one is missing, or the newest release is the one that runs.
FindsNothing(p) ==
    /\ stage[p] = "checking"
    /\ IF running[p] = "new" THEN UNCHANGED budgets ELSE MayFail
    /\ Moves(p, "releasing")
    /\ UNCHANGED <<files, tasks, marks>>

\* downloadResponseToFile creates the archive ("wx") and fills it.
Downloads(p) ==
    /\ stage[p] = "fetching" /\ staging.archive = "none"
    /\ \/ staging' = [staging EXCEPT !.archive = "new"] /\ UNCHANGED budgets
       \/ staging' = [staging EXCEPT !.archive = "bad"] /\ MayFail
    /\ Moves(p, "summing")
    /\ UNCHANGED <<lock, exe, asides, tasks, marks>>

\* The transfer fails, or the file is there already: it and the directory go.
DownloadFails(p) ==
    /\ stage[p] = "fetching"
    /\ IF staging.archive = "none" THEN MayFail ELSE UNCHANGED budgets
    /\ Discards(p)

FetchesSums(p) == Advances(p, "summing", "hashing")

\* expectedSha256: no published digest is a hard stop.
SumsFail(p) == stage[p] = "summing" /\ MayFail /\ Discards(p)

\* The digest of the archive is the published one.
DigestMatches == staging.archive = "new"

Hashes(p) ==
    \/ DigestMatches /\ Advances(p, "hashing", "extracting")
    \/ ~DigestMatches /\ stage[p] = "hashing" /\ Discards(p) /\ UNCHANGED budgets

Extracts(p) ==
    /\ stage[p] = "extracting" /\ staging.archive # "none"
    /\ staging' = [staging EXCEPT !.candidate = staging.archive]
    /\ Moves(p, "verifying")
    /\ UNCHANGED <<lock, exe, asides, tasks, budgets, marks>>

ExtractFails(p) ==
    /\ stage[p] = "extracting"
    /\ IF staging.archive = "none" THEN UNCHANGED budgets ELSE MayFail
    /\ Discards(p)

\* verifyVersion runs it and compares what it says of itself.
Verifies(p) == staging.candidate # "none" /\ Advances(p, "verifying", "leaving")

VerifyFails(p) ==
    /\ stage[p] = "verifying"
    /\ IF staging.candidate = "none" THEN UNCHANGED budgets ELSE MayFail
    /\ Discards(p)

\* oldExecutable: the name is the transaction's own.
KeepsOld(p) == asides \cup {<<p, exe>>}

\* renameSync(executable, oldExecutable).
SetsAside(p) ==
    /\ stage[p] = "leaving" /\ exe # "none"
    /\ asides' = KeepsOld(p)
    /\ aside' = [aside EXCEPT ![p] = exe]
    /\ exe' = "none"
    /\ Moves(p, "entering")
    /\ UNCHANGED <<lock, staging, job, judged, running, installed, budgets, marks>>

MoveAsideFails(p) ==
    /\ stage[p] = "leaving"
    /\ IF exe = "none" THEN UNCHANGED budgets ELSE MayFail
    /\ Discards(p)

\* moveInto renames, or copies when the rename failed, ...
MovesIn(p) ==
    /\ stage[p] \in {"entering", "copying"} /\ staging.candidate # "none"
    /\ exe' = staging.candidate
    /\ staging' = [staging EXCEPT !.candidate = "none"]
    /\ Moves(p, "finishing")
    /\ UNCHANGED <<lock, asides, tasks, budgets, marks>>

\* ... which another process can see half done, ...
CopiesOver(p) ==
    /\ stage[p] = "entering" /\ staging.candidate # "none"
    /\ MayFail
    /\ exe' = "torn"
    /\ Moves(p, "copying")
    /\ UNCHANGED <<lock, asides, staging, tasks, marks>>

\* ... and throws when neither works.
MoveInFails(p) ==
    /\ stage[p] \in {"entering", "copying"}
    /\ IF staging.candidate = "none" THEN UNCHANGED budgets ELSE MayFail
    /\ Moves(p, "undoing")
    /\ UNCHANGED <<files, tasks, marks>>

Finishes(p) ==
    /\ stage[p] = "finishing"
    /\ staging' = NoStaging
    /\ installed' = [installed EXCEPT ![p] = TRUE]
    /\ Moves(p, "releasing")
    /\ UNCHANGED <<lock, exe, asides, job, judged, running, aside, budgets, marks>>

\* A staging directory that cannot be emptied is an error after the swap.
FinishFails(p) ==
    /\ stage[p] = "finishing"
    /\ MayFail
    /\ Moves(p, "undoing")
    /\ UNCHANGED <<files, tasks, marks>>

\* The catch clause empties the staging directory; while what it moved aside is there, it
\* removes what it moved in.
Undoes(p) ==
    /\ stage[p] = "undoing"
    /\ staging' = NoStaging
    /\ IF <<p, aside[p]>> \in asides
       THEN exe' = "none" /\ Moves(p, "restoring")
       ELSE UNCHANGED exe /\ Moves(p, "releasing")
    /\ UNCHANGED <<lock, asides, tasks, budgets, marks>>

\* It throws itself when it cannot empty the directory.
UndoFails(p) ==
    /\ stage[p] = "undoing"
    /\ MayFail
    /\ Moves(p, "releasing")
    /\ UNCHANGED <<files, tasks, marks>>

RestoresOld(p) ==
    /\ stage[p] = "restoring" /\ <<p, aside[p]>> \in asides
    /\ exe' = aside[p]
    /\ asides' = asides \ {<<p, aside[p]>>}
    /\ Moves(p, "releasing")
    /\ UNCHANGED <<lock, staging, tasks, budgets, marks>>

\* Its failure is swallowed.
RestoreFails(p) ==
    /\ stage[p] = "restoring"
    /\ IF <<p, aside[p]>> \in asides THEN MayFail ELSE UNCHANGED budgets
    /\ Moves(p, "releasing")
    /\ UNCHANGED <<files, tasks, marks>>

-----------------------------------------------------------------------------

ProcessEnds(p) ==
    /\ Moves(p, "gone")
    /\ ForgetsUse(p)
    /\ UNCHANGED <<files, job, running, marks>>

UInit ==
    /\ lock = NoLock /\ exe = "old" /\ asides = {} /\ staging = NoStaging
    /\ stage = [p \in Procs |-> IF p = Host THEN "idle" ELSE "off"]
    /\ job = [p \in Procs |-> "sweep"]
    /\ judged = [p \in Procs |-> p]
    /\ running = [p \in Procs |-> "old"]
    /\ aside = [p \in Procs |-> "none"]
    /\ installed = [p \in Procs |-> FALSE]
    /\ failures = 0 /\ crashes = 0
    /\ raced = FALSE /\ swept = FALSE

\* What a process does to get the lock and to let go of it, ...
HandlesLock(p) ==
    \/ OpensLock(p) \/ WritesLock(p) \/ LockFails(p)
    \/ JudgesLock(p) \/ RereadsLock(p) \/ RemovesLock(p) \/ IsRefused(p)
    \/ Releases(p) \/ UnlinksLock(p)

\* ... what it does with it before the executable is touched, ...
Prepares(p) ==
    \/ ClearsStaging(p) \/ ChecksRelease(p) \/ FindsNothing(p)
    \/ Downloads(p) \/ DownloadFails(p) \/ FetchesSums(p) \/ SumsFail(p)
    \/ Hashes(p) \/ Extracts(p) \/ ExtractFails(p) \/ Verifies(p) \/ VerifyFails(p)
    \/ MoveAsideFails(p)

\* ... and what changes the executable and its copies, or follows from that.
Swaps(p) ==
    \/ SweepsCopies(p)
    \/ SetsAside(p) \/ MovesIn(p) \/ CopiesOver(p) \/ MoveInFails(p)
    \/ Finishes(p) \/ FinishFails(p)
    \/ Undoes(p) \/ UndoFails(p) \/ RestoresOld(p) \/ RestoreFails(p)

WorksOn(p) == HandlesLock(p) \/ Prepares(p) \/ Swaps(p)

=============================================================================
