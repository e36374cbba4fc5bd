---------------------------- MODULE SourceUpdate ----------------------------
(***************************************************************************)
(* The update of a source checkout: the engine of src/updater-engine*.mjs  *)
(* on the git work tree a developer works in at the same time.  Every      *)
(* command is a process of its own, so the developer, the remote and a     *)
(* crash come between any two of them.                                     *)
(*                                                                         *)
(* A commit of the remote is a number and a file is known by what it       *)
(* holds.  ReDesign gives the engine its two steps and nothing else: no    *)
(* cooldown, no folder for the programs that are moved aside, every step   *)
(* due at every update.                                                    *)
(***************************************************************************)
EXTENDS Integers, FiniteSets

CONSTANTS
    Files,
    Programs,    \* the files that are running programs, and locked (Windows)
    Tree,        \* Tree[c][f]: what commit c has at f
    Newest,      \* the newest commit there will be on the remote
    MaxEdits,    \* bound: what the developer writes and commits
    MaxFails,    \* bound: commands that fail
    MaxApplies   \* bound: updates that are asked for

ASSUME SourceUpdateAssumption ==
    /\ Programs \subseteq Files
    /\ Newest \in Nat \ {0}
    /\ MaxEdits \in Nat /\ MaxFails \in Nat /\ MaxApplies \in Nat

Commits == 0..Newest
Steps == {"install", "build"}
Absent == "absent"
Mine == "mine"     \* what only the developer has

ASSUME TreeAssumption == Tree \in [Commits -> [Files -> STRING \ {Mine}]]

VARIABLES
    tip, fetched,        \* the branch on the remote, FETCH_HEAD
    head, ownTree,       \* HEAD: a commit of the remote, or the developer's own on top of it
    index, work,
    stash, committed,    \* what git keeps: <<file, content>>
    copies,              \* <program>.replaced-<stamp>
    runs,                \* where each program runs from: its "path", the "copy", or "no"
    made,                \* the commit each step was last made at
    pc,
    seen,                \* before: what the check has found
    landed,              \* the files whose edits the advance takes as its own
    moved,               \* the programs moved aside just now, with what they held
    outcome,
    fails, edits, applies,
    mine,                \* history: files with an edit the developer has not undone
    late,                \* history: those written while the engine was past its last look,
                         \* or that went aside with a program
    said                 \* history: the user was told of a half-made checkout, or a crash cut it off

remote == <<tip, fetched>>
tree == <<head, ownTree, index, work>>
kept == <<stash, committed, copies, runs>>
engine == <<seen, landed, moved>>
history == <<mine, late, said>>
sourceVars == <<remote, tree, kept, made, pc, engine, outcome, fails, edits, applies, history>>

TreeOf(h) == IF h.own THEN ownTree ELSE Tree[h.base]
Staged == {f \in Files : index[f] # TreeOf(head)[f]}
Unstaged == {f \in Files : work[f] # index[f]}
Dirty == Staged \cup Unstaged # {}

Overlay(t, S, u) == [f \in Files |-> IF f \in S THEN u[f] ELSE t[f]]
Contents(S, t) == {<<f, t[f]>> : f \in S}

Goes(to) == pc' = to
Fails == fails < MaxFails /\ fails' = fails + 1
EndsWith(o) ==
    /\ pc' = "idle" /\ outcome' = o
    /\ landed' = {} /\ moved' = {} /\ UNCHANGED seen
    /\ said' = (said \/ o \in {"unrebuilt", "partial", "stuck"})

NoCheck == [current |-> [base |-> 0, own |-> FALSE], dirty |-> FALSE, target |-> 0,
            newer |-> FALSE, forward |-> FALSE, landed |-> FALSE, edits |-> 0]

-----------------------------------------------------------------------------
(* checkForUpdate: what it reads, in its order.                            *)

BeginsUpdate ==
    /\ pc = "idle" /\ applies < MaxApplies
    /\ applies' = applies + 1
    /\ seen' = [NoCheck EXCEPT !.edits = edits] /\ outcome' = "none" /\ Goes("looking")
    /\ UNCHANGED <<remote, tree, kept, made, landed, moved, fails, edits, history>>

\* rev-parse and status: a status that fails reads as a clean tree.
Looks ==
    /\ pc = "looking"
    /\ \/ seen' = [seen EXCEPT !.current = head, !.dirty = Dirty] /\ UNCHANGED fails
       \/ seen' = [seen EXCEPT !.current = head, !.dirty = FALSE] /\ Fails
    /\ Goes("asking")
    /\ UNCHANGED <<remote, tree, kept, made, landed, moved, outcome, edits, applies, history>>

\* ls-remote; a target that HEAD has already is no update.
AsksRemote ==
    /\ pc = "asking"
    /\ IF tip <= head.base
       THEN EndsWith("current")
       ELSE /\ seen' = [seen EXCEPT !.target = tip, !.newer = TRUE]
            /\ Goes("fetching")
            /\ UNCHANGED <<landed, moved, outcome, said>>
    /\ UNCHANGED <<remote, tree, kept, made, fails, edits, applies, mine, late>>

AskFails ==
    /\ pc = "asking" /\ Fails
    /\ EndsWith("current")
    /\ UNCHANGED <<remote, tree, kept, made, edits, applies, mine, late>>

\* evaluateFastForward: the branch is fetched, and HEAD must be an ancestor of it.
Fetches ==
    /\ pc = "fetching"
    /\ \/ /\ fetched' = tip /\ UNCHANGED fails
          /\ seen' = [seen EXCEPT !.forward = ~head.own]
       \/ Fails /\ UNCHANGED <<fetched, seen>>
    /\ Goes("comparing")
    /\ UNCHANGED <<tip, tree, kept, made, landed, moved, outcome, edits, applies, history>>

\* editsAlreadyIn: unstaged edits only, and each of them is the target's content.
AlreadyIn(c) ==
    /\ Staged = {} /\ Unstaged # {}
    /\ \A f \in Unstaged : work[f] = Tree[c][f]

\* settleStatus asks whether the local edits have landed, where there are some.
Compares ==
    /\ pc = "comparing"
    /\ \/ seen' = [seen EXCEPT !.landed = seen.dirty /\ AlreadyIn(seen.target)] /\ UNCHANGED fails
       \/ seen.dirty /\ Fails /\ UNCHANGED seen
    /\ Goes("deciding")
    /\ UNCHANGED <<remote, tree, kept, made, landed, moved, outcome, edits, applies, history>>

-----------------------------------------------------------------------------
(* applyRecording up to the advance.                                       *)

CanApply == seen.newer /\ seen.forward /\ (~seen.dirty \/ seen.landed)

\* applicableEdits compares again: an edit that came since blocks the update.
Decides ==
    /\ pc = "deciding"
    /\ IF CanApply /\ (seen.dirty => AlreadyIn(seen.target))
       THEN /\ landed' = IF seen.dirty THEN Unstaged ELSE {}
            /\ Goes(IF seen.dirty THEN "staging" ELSE "moving")
            /\ UNCHANGED <<seen, moved, outcome, said>>
       ELSE EndsWith("refused")
    /\ UNCHANGED <<remote, tree, kept, made, fails, edits, applies, mine, late>>

\* stageLanded: git add, ...
Stages ==
    /\ pc = "staging"
    /\ \/ index' = Overlay(index, landed, work) /\ Goes("matching") /\ UNCHANGED fails
       \/ Fails /\ Goes("unstaging") /\ UNCHANGED index
    /\ UNCHANGED <<remote, head, ownTree, work, kept, made, engine, outcome, edits, applies, history>>

\* ... and the staged entries must be exactly the target's.
StagedAsTarget == \A f \in landed : index[f] = Tree[seen.target][f]

Matches ==
    /\ pc = "matching"
    /\ Goes(IF StagedAsTarget THEN "moving" ELSE "unstaging")
    /\ UNCHANGED <<remote, tree, kept, made, engine, outcome, fails, edits, applies, history>>

\* The way out of a failed advance: its own failure is not looked at.
Unstages ==
    /\ pc = "unstaging"
    /\ \/ index' = Overlay(index, landed, TreeOf(head)) /\ UNCHANGED fails
       \/ Fails /\ UNCHANGED index
    /\ EndsWith("refused")
    /\ UNCHANGED <<remote, head, ownTree, work, kept, made, edits, applies, mine, late>>

Refuses == IF landed # {} THEN Goes("unstaging") /\ UNCHANGED <<engine, outcome, said>>
                          ELSE EndsWith("refused")

\* The programs the advance modifies or deletes, as far as they are on disk.
Changed(c) == {f \in Files : TreeOf(head)[f] # Tree[c][f]}
ChangedPrograms == {f \in Programs \cap Changed(fetched) : TreeOf(head)[f] # Absent /\ work[f] # Absent}

\* Windows lets a running program be renamed, and neither overwritten nor deleted.
Locked == {f \in Programs : runs[f] = "path"}

\* The copies of programs that have ended are deleted; one that still runs stays.
Leftover == {c \in copies : runs[c[1]] = "copy"}

\* moveBesideAndCheckout: each is renamed, where that fails the advance goes on without ...
MovesAside ==
    /\ pc = "moving"
    /\ \E S \in SUBSET ChangedPrograms :
          /\ IF S = ChangedPrograms THEN UNCHANGED fails ELSE Fails
          /\ moved' = Contents(S, work)
          /\ copies' = Leftover \cup moved'
          /\ work' = [f \in Files |-> IF f \in S THEN Absent ELSE work[f]]
          /\ runs' = [f \in Programs |-> IF f \in S /\ runs[f] = "path" THEN "copy" ELSE runs[f]]
          /\ late' = late \cup {f \in S : work[f] = Mine}
          /\ Goes(IF S = {} THEN "pulling" ELSE "replacing")
    /\ UNCHANGED <<remote, head, ownTree, index, stash, committed, made, seen, landed, outcome,
                   edits, applies, mine, said>>

MovedFiles == {m[1] : m \in moved}

\* ... and git checkout HEAD puts an unlocked file in its place.
FromHead ==
    /\ work' = Overlay(work, MovedFiles, TreeOf(head))
    /\ index' = Overlay(index, MovedFiles, TreeOf(head))

HeadHasThem == \A f \in MovedFiles : TreeOf(head)[f] # Absent

PutsBack ==
    /\ pc = "replacing" /\ HeadHasThem
    /\ FromHead
    /\ moved' = {} /\ Goes("pulling")
    /\ UNCHANGED <<remote, head, ownTree, kept, made, seen, landed, outcome, fails, edits, applies, history>>

\* Where the checkout fails they are renamed back, and what cannot be is reported.
PutBackFails ==
    /\ pc = "replacing"
    /\ IF HeadHasThem THEN Fails ELSE UNCHANGED fails
    /\ \E stranded \in SUBSET moved :
          /\ work' = [f \in Files |-> IF \E m \in moved \ stranded : m[1] = f
                                      THEN (CHOOSE m \in moved : m[1] = f)[2] ELSE work[f]]
          /\ copies' = copies \ (moved \ stranded)
          /\ runs' = [f \in Programs |-> IF runs[f] = "copy" /\ f \in {m[1] : m \in moved \ stranded}
                                         THEN "path" ELSE runs[f]]
          /\ IF landed # {}
             THEN Goes("unstaging") /\ said' = (said \/ stranded # {}) /\ UNCHANGED <<engine, outcome>>
             ELSE /\ Goes("idle") /\ outcome' = "refused" /\ landed' = {} /\ moved' = {}
                  /\ said' = (said \/ stranded # {}) /\ UNCHANGED seen
    /\ UNCHANGED <<remote, head, ownTree, index, stash, committed, made, edits, applies, mine, late>>

\* Two-way merge: a file the advance changes must be as HEAD has it, or be the new commit's in
\* the index already; a file without an entry is in the way.
Merges(c) ==
    /\ ~head.own
    /\ \A f \in Changed(c) :
          \/ index[f] = Tree[c][f]
          \/ index[f] = TreeOf(head)[f] /\ work[f] = index[f]

\* The files the advance writes or deletes.
Written(c) == {f \in Changed(c) : index[f] # Tree[c][f]}

\* git pull --ff-only fetches again, and lands on what is there by now.
Pulls ==
    /\ pc = "pulling" /\ Merges(tip) /\ Locked \cap Written(tip) = {}
    /\ head' = [base |-> tip, own |-> FALSE]
    /\ work' = Overlay(work, Written(tip), Tree[tip])
    /\ index' = Overlay(index, Changed(tip), Tree[tip])
    /\ fetched' = tip
    /\ Goes("install")
    /\ UNCHANGED <<tip, ownTree, kept, made, engine, outcome, fails, edits, applies, history>>

\* It refuses, or the network fails; a locked program stops it half way.
PullFails ==
    /\ pc = "pulling"
    /\ IF Merges(tip) /\ Locked \cap Written(tip) = {} THEN Fails ELSE UNCHANGED fails
    /\ IF Merges(tip) /\ Locked \cap Written(tip) # {}
       THEN \E S \in SUBSET (Written(tip) \ Locked) : work' = Overlay(work, S, Tree[tip])
       ELSE UNCHANGED work
    /\ Refuses
    /\ UNCHANGED <<remote, head, ownTree, index, kept, made, edits, applies, mine, late>>

-----------------------------------------------------------------------------
(* The due steps, and the rollback when one of them fails.                 *)

Makes(step, to) ==
    /\ pc = step
    /\ made' = [made EXCEPT ![step] = head.base]
    /\ to
    /\ UNCHANGED <<remote, tree, kept, fails, edits, applies, mine, late>>

Installs == Makes("install", Goes("build") /\ UNCHANGED <<engine, outcome, said>>)
Builds == Makes("build", EndsWith("updated"))

\* What a failed step leaves is of no commit.
StepFails ==
    /\ pc \in Steps /\ Fails
    /\ made' = [made EXCEPT ![pc] = -1]
    /\ Goes("inspecting")
    /\ UNCHANGED <<remote, tree, kept, engine, outcome, edits, applies, history>>

\* rollbackAfterFailedUpdate: what has changed meanwhile is to be stashed.
Inspects ==
    /\ pc = "inspecting"
    /\ \/ Goes(IF Dirty THEN "stashing" ELSE "resetting") /\ UNCHANGED <<engine, outcome, said, fails>>
       \/ Fails /\ EndsWith("stuck")
    /\ UNCHANGED <<remote, tree, kept, made, edits, applies, mine, late>>

\* Slip: untracked files are left out of the stash, and of the tree.
StashesTracked == {f \in Files : index[f] # Absent /\ (f \in Staged \/ f \in Unstaged)}

\* git stash push --include-untracked.
Stashed == Staged \cup Unstaged

Stashes ==
    /\ pc = "stashing"
    /\ stash' = stash \cup Contents(Stashed, work)
    /\ work' = TreeOf(head) /\ index' = TreeOf(head)
    /\ Goes("resetting")
    /\ UNCHANGED <<remote, head, ownTree, committed, copies, runs, made, engine, outcome, fails,
                   edits, applies, history>>

\* "A half-updated checkout is recoverable by hand, a deleted edit is not."
StashFails ==
    /\ pc = "stashing" /\ Fails
    /\ EndsWith("stuck")
    /\ UNCHANGED <<remote, tree, kept, made, edits, applies, mine, late>>

\* git reset --hard: files git does not know stay, unless the commit has one of their name.
Resets ==
    /\ pc = "resetting"
    /\ head' = seen.current
    /\ LET t == TreeOf(seen.current)
       IN  /\ work' = [f \in Files |-> IF index[f] = Absent /\ t[f] = Absent THEN work[f] ELSE t[f]]
           /\ index' = t
    /\ Goes(IF landed # {} THEN "restoring" ELSE "reinstall")
    /\ UNCHANGED <<remote, ownTree, kept, made, engine, outcome, fails, edits, applies, history>>

ResetFails ==
    /\ pc = "resetting" /\ Fails
    /\ EndsWith("partial")
    /\ UNCHANGED <<remote, tree, kept, made, edits, applies, mine, late>>

\* Slip: the files whose deletion had landed are forgotten.
NoneGone == {}

\* restoreLandedEdits: the files are the target's again, ...
Gone == {f \in landed : Tree[seen.target][f] = Absent}

\* git checkout refuses a path the commit does not have.
TargetHasThem == \A f \in landed \ Gone : Tree[seen.target][f] # Absent

Restores ==
    /\ pc = "restoring"
    /\ \/ /\ TargetHasThem
          /\ work' = Overlay(work, landed \ Gone, Tree[seen.target])
          /\ index' = Overlay(index, landed \ Gone, Tree[seen.target])
          /\ Goes("unmarking") /\ UNCHANGED fails
       \/ /\ IF TargetHasThem THEN Fails ELSE UNCHANGED fails
          /\ Goes("reinstall") /\ UNCHANGED <<work, index>>
    /\ UNCHANGED <<remote, head, ownTree, kept, made, engine, outcome, edits, applies, history>>

\* ... unstaged, and the deleted ones deleted.
Unmarks ==
    /\ pc = "unmarking"
    /\ \/ /\ index' = Overlay(index, landed \ Gone, TreeOf(head))
          /\ work' = [f \in Files |-> IF f \in Gone THEN Absent ELSE work[f]]
          /\ UNCHANGED fails
       \/ Fails /\ UNCHANGED <<work, index>>
    /\ Goes("reinstall")
    /\ UNCHANGED <<remote, head, ownTree, kept, made, engine, outcome, edits, applies, history>>

\* Slip: the steps are not made again.
LeavesAsTheyAre == made

\* The same steps are made again, in order.
MadeAgain == [made EXCEPT ![IF pc = "reinstall" THEN "install" ELSE "build"] = head.base]

Reinstalls ==
    /\ pc \in {"reinstall", "rebuild"}
    /\ made' = MadeAgain
    /\ IF pc = "reinstall" THEN Goes("rebuild") /\ UNCHANGED <<engine, outcome, said>> ELSE EndsWith("rolledback")
    /\ UNCHANGED <<remote, tree, kept, fails, edits, applies, mine, late>>

ReinstallFails ==
    /\ pc \in {"reinstall", "rebuild"} /\ Fails
    /\ made' = [made EXCEPT ![IF pc = "reinstall" THEN "install" ELSE "build"] = -1]
    /\ EndsWith("unrebuilt")
    /\ UNCHANGED <<remote, tree, kept, edits, applies, mine, late>>

-----------------------------------------------------------------------------
(* The developer, the remote, and the end of the daemon.                   *)

\* The engine is past its last look at f.
Past(f) ==
    \/ pc = "resetting"
    \/ pc \in {"restoring", "unmarking"} /\ f \in landed
    \/ pc = "replacing" /\ f \in MovedFiles

\* A file is written or deleted: with what only he has, or with what the remote will have too.
Edits(f) ==
    /\ edits < MaxEdits /\ edits' = edits + 1
    /\ \E content \in {Mine, Tree[1][f]} \ {work[f]} :
          /\ work' = [work EXCEPT ![f] = content]
          /\ mine' = IF content = Mine THEN mine \cup {f} ELSE mine \ {f}
          /\ late' = IF content = Mine /\ Past(f) THEN late \cup {f} ELSE late \ {f}
    /\ f \notin Locked
    /\ UNCHANGED <<remote, head, ownTree, index, kept, made, pc, engine, outcome, fails, applies, said>>

\* git commit of everything.
CommitsOwn ==
    /\ edits < MaxEdits /\ edits' = edits + 1
    /\ Dirty /\ ~head.own /\ committed = {}
    /\ head' = [head EXCEPT !.own = TRUE]
    /\ ownTree' = work /\ index' = work
    /\ committed' = committed \cup Contents(Files, work)
    /\ UNCHANGED <<remote, work, stash, copies, runs, made, pc, engine, outcome, fails, applies, history>>

RemoteMoves ==
    /\ tip < Newest /\ tip' = tip + 1
    /\ UNCHANGED <<fetched, tree, kept, made, pc, engine, outcome, fails, edits, applies, history>>

\* A program ends, or is started from its path.
ProgramRestarts(f) ==
    /\ runs' = [runs EXCEPT ![f] = IF @ = "no" THEN "path" ELSE "no"]
    /\ work[f] # Absent
    /\ UNCHANGED <<remote, tree, stash, committed, copies, made, pc, engine, outcome, fails, edits, applies, history>>

\* The daemon ends in the middle, and the next one knows nothing of it.
EngineCrashes ==
    /\ pc # "idle" /\ Fails
    /\ Goes("idle") /\ outcome' = "none" /\ landed' = {} /\ moved' = {}
    /\ said' = TRUE
    /\ UNCHANGED <<remote, tree, kept, made, seen, edits, applies, mine, late>>

SourceInit ==
    /\ tip = 1 /\ fetched = 0
    /\ head = [base |-> 0, own |-> FALSE] /\ ownTree = Tree[0]
    /\ index = Tree[0] /\ work = Tree[0]
    /\ stash = {} /\ committed = {} /\ copies = {} /\ runs = [f \in Programs |-> "path"]
    /\ made = [s \in Steps |-> 0]
    /\ pc = "idle" /\ seen = NoCheck /\ landed = {} /\ moved = {} /\ outcome = "none"
    /\ fails = 0 /\ edits = 0 /\ applies = 0
    /\ mine = {} /\ late = {} /\ said = FALSE

Check == Looks \/ AsksRemote \/ AskFails \/ Fetches \/ Compares
Advance == \/ Decides \/ Stages \/ Matches \/ Unstages
           \/ MovesAside \/ PutsBack \/ PutBackFails \/ Pulls \/ PullFails
Make == Installs \/ Builds \/ StepFails
Rollback == \/ Inspects \/ Stashes \/ StashFails \/ Resets \/ ResetFails
            \/ Restores \/ Unmarks \/ Reinstalls \/ ReinstallFails
Others == (\E f \in Files : Edits(f)) \/ (\E f \in Programs : ProgramRestarts(f))
          \/ CommitsOwn \/ RemoteMoves \/ EngineCrashes

SourceNext == BeginsUpdate \/ Check \/ Advance \/ Make \/ Rollback \/ Others

SourceSpec == SourceInit /\ [][SourceNext]_sourceVars

-----------------------------------------------------------------------------
KeptSomewhere(f) ==
    work[f] = Mine \/ <<f, Mine>> \in stash \cup committed \cup copies

\* "Anything that changed since goes into a named git stash before the reset"
\* (updater-engine-rollback.mjs): what the developer wrote, before or during the update, is in
\* the work tree, in a stash or in a commit of his whatever becomes of the update.  Only what
\* he writes after the engine's last look at the tree can be lost, and an edit of a program
\* that was moved aside with it.
EditsAreKept == \A f \in mine \ late : KeptSomewhere(f)

\* What the user is told is so: updated is the new commit with both steps made of it, rolled
\* back is the commit it came from with both steps made of that, refused is where it was.
Reported ==
    /\ outcome = "updated" => head.base >= seen.target /\ \A s \in Steps : made[s] = head.base
    /\ outcome = "rolledback" =>
          head.base = seen.current.base /\ \A s \in Steps : made[s] = head.base
    /\ outcome = "refused" => head.base = seen.current.base

\* "A failed install/build must never leave the checkout half-upgraded": steps that were made
\* of another commit than the one checked out are something the user was told of.
StaleIsSaid == pc = "idle" /\ (\E s \in Steps : made[s] # head.base) => said

\* A program that no commit removes is at its path except for the moment in which it is moved aside.
Lasting == {f \in Programs : \A c \in Commits : Tree[c][f] # Absent}
ProgramsStay == \A f \in Lasting : work[f] = Absent => pc = "replacing" \/ said

\* The report of an update agrees with the checkout it leaves.
ReportIsTrue == Reported /\ StaleIsSaid /\ ProgramsStay

\* "Edits the update had taken as its own are put back unstaged afterwards": after a rollback
\* in which nothing else failed, of a checkout nobody else has touched meanwhile, the edits
\* are where they were, the deletions and the edited programs included.
LandedComeBack ==
    [][pc = "rebuild" /\ outcome' = "rolledback" /\ fails = 1 /\ edits = seen.edits =>
          \A f \in landed : work[f] = Tree[seen.target][f] /\ index[f] = TreeOf(head)[f]]_sourceVars

\* "Any failure from here to the advance unstages the paths again; their files are never
\* touched" (updater-engine.mjs): also when the file is a program.
LandedUntouched ==
    pc = "unstaging" /\ edits = seen.edits => \A f \in landed : work[f] = Tree[seen.target][f]

\* The rollback's comment again, of a change that was committed before the engine's last look:
\* git status is clean then, nothing is stashed, and the reset takes the commit off the branch.
CommitsStay == committed # {} /\ late = {} => head.own

=============================================================================
