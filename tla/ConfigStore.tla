---------------------------- MODULE ConfigStore ----------------------------
(***************************************************************************)
(* The user's catalog of models and prompts (src/config): files that       *)
(* several processes, of several versions, read and write under a lock     *)
(* file, and that each process first brings up to the catalog its version  *)
(* was shipped with.  A process may end at any point.                      *)
(***************************************************************************)
EXTENDS Naturals, Sequences

CONSTANTS
    Procs, None,
    Version,         \* of each process
    Models, Prompts, \* the items of models.json and of prompts.json
    Shipped,         \* the items of each version, Absent or with their text; of Legacy too
    Legacy,          \* the version whose profiles have no baseline (legacy-shipped.json)
    Absent, Mine,    \* no text, and the user's
    Edited,          \* what the user of a profile without a baseline had edited
    MaxChanges,      \* bound: the user's changes
    MaxFaults        \* bound: processes that end, writes and reads that fail

Items == Models \cup Prompts
FileOf(i) == IF i \in Models THEN "models" ELSE "prompts"

VARIABLES
    lock,       \* .reimagine-config.lock: None, or who made it and whether it is written
    files,      \* which of the files there are
    text,       \* the items of models.json and prompts.json
    archive,    \* modelArchive
    baseline,   \* the version in .reimagine-shipped-baseline.json; 0 for none
    pc, task,   \* of each process: where it stands, and what it is changing
    seen,       \* what it has read, or is about to write
    left,       \* the files it has still to write
    chosen,     \* what the user wants of an item: None for nothing, "any" for some text
    forgotten,  \* prompts that were deleted while the baseline did not have them
    lingers,    \* items of an earlier version that a later one left as they were
    raced,      \* a lock was removed that was not the one found dead
    unread, cut, \* a file could not be read, and was taken for empty; a migration did not end
    changes, faults

disk == <<files, text, archive, baseline>>
ghosts == <<chosen, forgotten, lingers, raced, unread, cut>>
vars == <<lock, disk, pc, task, seen, left, ghosts, changes, faults>>

NoTask == [kind |-> "none", item |-> None]
Migrates == [kind |-> "migrate", item |-> None]

Nothing == [i \in Items |-> Absent]

Init ==
    /\ lock = None
    /\ \/ files = {} /\ text = Nothing /\ chosen = [i \in Items |-> None]
       \/ /\ files = {"models", "prompts"}
          /\ text = [i \in Items |-> IF i \in Edited THEN Mine ELSE Shipped[Legacy][i]]
          /\ chosen = [i \in Items |-> IF i \in Edited THEN Mine ELSE None]
    /\ archive = Nothing /\ baseline = 0
    /\ pc = [p \in Procs |-> "off"] /\ task = [p \in Procs |-> NoTask]
    /\ seen = [p \in Procs |-> [text |-> Nothing, archive |-> Nothing]]
    /\ left = [p \in Procs |-> <<>>]
    /\ forgotten = {} /\ lingers = {} /\ raced = FALSE /\ unread = FALSE /\ cut = FALSE
    /\ changes = 0 /\ faults = 0

Alive(p) == pc[p] \notin {"off", "dead"}
Fault == faults < MaxFaults /\ faults' = faults + 1
Goes(p, where) == pc' = [pc EXCEPT ![p] = where]

-----------------------------------------------------------------------------
(* The lock.                                                               *)

\* The process starts: migrateShippedConfig.
Starts(p) ==
    /\ pc[p] = "off" /\ Goes(p, "trying") /\ task' = [task EXCEPT ![p] = Migrates]
    /\ UNCHANGED <<lock, disk, seen, left, ghosts, changes, faults>>

\* acquireConfigLock: the lock is made, then written.
MakesLock(p) ==
    /\ pc[p] = "trying" /\ lock = None
    /\ lock' = [owner |-> p, written |-> FALSE] /\ Goes(p, "made")
    /\ UNCHANGED <<disk, task, seen, left, ghosts, changes, faults>>

WritesLock(p) ==
    /\ pc[p] = "made" /\ Goes(p, "holding")
    /\ lock' = IF lock # None /\ lock.owner = p THEN [lock EXCEPT !.written = TRUE] ELSE lock
    /\ UNCHANGED <<disk, task, seen, left, ghosts, changes, faults>>

\* reclaimStaleConfigLock: "Drop a lock only when its recorded owner is no longer alive."
Dead(l) == l.written /\ ~Alive(l.owner)

FindsLock(p) ==
    /\ pc[p] = "trying" /\ lock # None /\ Dead(lock)
    /\ pc' = [pc EXCEPT ![p] = "removing"] /\ seen' = [seen EXCEPT ![p] = lock]
    /\ UNCHANGED <<lock, disk, task, left, ghosts, changes, faults>>

\* The lock is removed, whosever it is by now.
RemovesLock(p) ==
    /\ pc[p] = "removing" /\ lock' = None /\ Goes(p, "trying")
    /\ raced' = (raced \/ lock \notin {None, seen[p]})
    /\ seen' = [seen EXCEPT ![p] = [text |-> Nothing, archive |-> Nothing]]
    /\ UNCHANGED <<disk, task, left, chosen, forgotten, lingers, unread, cut, changes, faults>>

\* The deadline passes: a change is refused; a process that has its files starts without migrating.
GivesUp(p) ==
    /\ pc[p] = "trying" /\ lock # None
    /\ Goes(p, IF task[p] # Migrates \/ files = {"models", "prompts"} THEN "ready" ELSE "dead")
    /\ task' = [task EXCEPT ![p] = NoTask]
    /\ UNCHANGED <<lock, disk, seen, left, ghosts, changes, faults>>

\* releaseConfigLock: the lock is removed if it is this one's.
Released(p) == IF lock # None /\ lock.owner = p THEN None ELSE lock

Leaves(p) ==
    /\ Goes(p, "ready") /\ lock' = Released(p)
    /\ task' = [task EXCEPT ![p] = NoTask] /\ left' = [left EXCEPT ![p] = <<>>]
    /\ seen' = [seen EXCEPT ![p] = [text |-> Nothing, archive |-> Nothing]]

Crashes(p) ==
    /\ Alive(p) /\ Fault /\ Goes(p, "dead")
    /\ cut' = (cut \/ (task[p] = Migrates /\ pc[p] = "writing"))
    /\ task' = [task EXCEPT ![p] = NoTask] /\ left' = [left EXCEPT ![p] = <<>>]
    /\ seen' = [seen EXCEPT ![p] = [text |-> Nothing, archive |-> Nothing]]
    /\ UNCHANGED <<lock, disk, chosen, forgotten, lingers, raced, unread, changes>>

-----------------------------------------------------------------------------
(* The migration.                                                          *)

Base(b) == Shipped[IF b = 0 THEN Legacy ELSE b]

\* The prompts that are deleted now, and that nothing but the baseline could remember.
Forgets ==
    forgotten' =
      {i \in Prompts : chosen'[i] = Absent /\ (i \in forgotten \/ Base(baseline')[i] = Absent)}

\* What the new version did not know, or had been left so before and is not as shipped yet: it
\* can no longer be told from what the user wrote.
Lingering(v) ==
    {i \in Items : text[i] \notin {Absent, Shipped[v][i]} /\ (i \in lingers \/ Shipped[v][i] = Absent)}

\* Slip: what is shipped anew replaces what was edited.
MergedAnew(current, old, new, blocked) ==
    [i \in Items |->
       IF new[i] = Absent \/ i \in blocked THEN current[i]
       ELSE IF current[i] = Absent THEN (IF old[i] = Absent THEN new[i] ELSE Absent)
       ELSE new[i]]

\* mergeShippedRecords: what is as it was shipped becomes as it is shipped, what is new is added,
\* and what is blocked stays away.
Merged(current, old, new, blocked) ==
    [i \in Items |->
       IF new[i] = Absent \/ i \in blocked THEN current[i]
       ELSE IF current[i] = Absent THEN (IF old[i] = Absent THEN new[i] ELSE Absent)
       ELSE IF current[i] = old[i] THEN new[i] ELSE current[i]]

\* The profile as migrateShippedConfigLocked leaves it: a fresh one gets what is shipped, one
\* without a baseline is compared with the legacy catalog.
Migrated(v) ==
    LET had(i) == FileOf(i) \in files
        current == [i \in Items |-> IF had(i) THEN text[i] ELSE Shipped[v][i]]
    IN IF baseline = 0 /\ files = {} THEN Shipped[v]
       ELSE Merged(current, Base(baseline), Shipped[v], {i \in Models : archive[i] # Absent})

Migrate(p) ==
    /\ pc[p] = "holding" /\ task[p] = Migrates
    /\ IF files = {"models", "prompts"} /\ baseline = Version[p]
         THEN Leaves(p)
         ELSE /\ Goes(p, "writing") /\ left' = [left EXCEPT ![p] = <<"models", "prompts", "baseline">>]
              /\ seen' = [seen EXCEPT ![p] = [text |-> Migrated(Version[p]), archive |-> archive]]
              /\ UNCHANGED <<lock, task>>
    /\ UNCHANGED <<disk, ghosts, changes, faults>>

\* writeJSON: the file is replaced at once by what the catalog c has of it.
Puts(c, file) ==
    /\ files' = IF file = "baseline" THEN files ELSE files \cup {file}
    /\ text' = [i \in Items |-> IF FileOf(i) = file THEN c.text[i] ELSE text[i]]
    /\ archive' = IF file = "models" THEN c.archive ELSE archive

MigratesFile(p) ==
    /\ pc[p] = "writing" /\ task[p] = Migrates /\ left[p] # <<>>
    /\ Puts(seen[p], Head(left[p]))
    /\ baseline' = IF Head(left[p]) = "baseline" THEN Version[p] ELSE baseline
    /\ left' = [left EXCEPT ![p] = Tail(@)]
    /\ lingers' = IF Head(left[p]) = "baseline" THEN Lingering(Version[p]) ELSE lingers
    /\ chosen' = chosen /\ Forgets
    /\ UNCHANGED <<lock, pc, task, seen, raced, unread, cut, changes, faults>>

\* A write fails: the rest is left as it is.
MigrationFails(p) ==
    /\ pc[p] = "writing" /\ task[p] = Migrates /\ left[p] # <<>> /\ Fault
    /\ Leaves(p) /\ cut' = TRUE
    /\ UNCHANGED <<disk, chosen, forgotten, lingers, raced, unread, changes>>

MigrationEnds(p) ==
    /\ pc[p] = "writing" /\ task[p] = Migrates /\ left[p] = <<>> /\ Leaves(p)
    /\ UNCHANGED <<disk, ghosts, changes, faults>>

-----------------------------------------------------------------------------
(* The user's changes.                                                     *)

\* withConfigLock of saveModel, savePromptPreset, setModelStarred, setPromptStarred ("save"), of
\* deleteModel and deletePromptPreset ("delete") and of restoreModel ("restore").
Changes(p) ==
    /\ pc[p] = "ready" /\ changes < MaxChanges /\ changes' = changes + 1
    /\ \E kind \in {"save", "delete", "restore"}, i \in Items :
         task' = [task EXCEPT ![p] = [kind |-> kind, item |-> i]]
    /\ Goes(p, "trying")
    /\ UNCHANGED <<lock, disk, seen, left, ghosts, faults>>

Changing(p) == task[p].kind \in {"save", "delete", "restore"}

\* The file is read as a whole, and one that cannot be read is taken for an empty one.
ReadsFile(p) ==
    /\ pc[p] = "holding" /\ Changing(p) /\ Goes(p, "read")
    /\ \/ seen' = [seen EXCEPT ![p] = [text |-> text, archive |-> archive]] /\ UNCHANGED <<unread, faults>>
       \/ seen' = seen /\ unread' = TRUE /\ Fault
    /\ UNCHANGED <<lock, disk, task, left, chosen, forgotten, lingers, raced, cut, changes>>

\* The change, or the error that refuses it.
Possible(p) ==
    LET i == task[p].item
    IN CASE task[p].kind = "save" -> TRUE
         [] task[p].kind = "delete" -> seen[p].text[i] # Absent
         [] task[p].kind = "restore" -> i \in Models /\ seen[p].text[i] = Absent /\ seen[p].archive[i] # Absent

Changed(p) ==
    LET i == task[p].item
        was == seen[p]
    IN CASE task[p].kind = "save" -> [text |-> [was.text EXCEPT ![i] = Mine],
                                      archive |-> [was.archive EXCEPT ![i] = Absent]]
         [] task[p].kind = "delete" -> [text |-> [was.text EXCEPT ![i] = Absent],
                                        archive |-> [was.archive EXCEPT ![i] = IF i \in Models THEN was.text[i] ELSE Absent]]
         [] task[p].kind = "restore" -> [text |-> [was.text EXCEPT ![i] = was.archive[i]],
                                         archive |-> [was.archive EXCEPT ![i] = Absent]]

\* The change is refused with an error, and nothing is written.
Refuses(p) ==
    /\ pc[p] = "read" /\ ~Possible(p) /\ Leaves(p)
    /\ UNCHANGED <<disk, ghosts, changes, faults>>

WritesFile(p) ==
    LET i == task[p].item
    IN /\ pc[p] = "read" /\ Possible(p)
       /\ Puts(Changed(p), FileOf(i)) /\ UNCHANGED baseline /\ Goes(p, "written")
       /\ chosen' = [chosen EXCEPT ![i] = CASE task[p].kind = "save" -> Mine
                                            [] task[p].kind = "delete" -> Absent
                                            [] task[p].kind = "restore" -> "any"]
       /\ Forgets
       /\ UNCHANGED <<lock, task, seen, left, lingers, raced, unread, cut, changes, faults>>

WriteEnds(p) ==
    /\ pc[p] = "written" /\ Leaves(p)
    /\ UNCHANGED <<disk, ghosts, changes, faults>>

Next == \E p \in Procs :
    \/ Starts(p) \/ MakesLock(p) \/ WritesLock(p) \/ FindsLock(p) \/ RemovesLock(p)
    \/ GivesUp(p) \/ Crashes(p)
    \/ Migrate(p) \/ MigratesFile(p) \/ MigrationFails(p) \/ MigrationEnds(p)
    \/ Changes(p) \/ ReadsFile(p) \/ Refuses(p) \/ WritesFile(p) \/ WriteEnds(p)

Spec == Init /\ [][Next]_vars

-----------------------------------------------------------------------------
(* What the user has saved stays as it was saved, and what was deleted     *)
(* stays away, whichever processes change the catalog, migrate it or end   *)
(* half-way; and what the user never touched is as the version of the      *)
(* baseline ships it.  Except after two processes have removed the same    *)
(* dead lock, or a file could not be read; for a prompt that was deleted   *)
(* while the baseline did not have it; and, for what the user never        *)
(* touched, after a migration that did not end, or one to a version that   *)
(* did not know it.                                                        *)
CatalogIsTheUsers ==
    ~raced /\ ~unread =>
      \A i \in Items :
        /\ chosen[i] = Mine => text[i] = Mine
        /\ chosen[i] = "any" => text[i] # Absent
        /\ chosen[i] = Absent /\ i \notin forgotten => text[i] = Absent
        /\ chosen[i] = None /\ i \notin lingers /\ ~cut /\ lock = None /\ baseline # 0 =>
             text[i] = Shipped[baseline][i]

\* Without the exceptions: "a live owner keeps it" (reclaimStaleConfigLock), though the lock that
\* is removed may not be the one that was read;
OwnerKeepsLock == ~raced

\* a lock does not outlive its owner for ever, though one that was never written does;
LockCanBeReclaimed == lock # None /\ ~Alive(lock.owner) => lock.written

\* "without overwriting edits or reviving tombstones" (mergeShippedRecords).
DeletedStaysAway == \A i \in Items : chosen[i] = Absent => text[i] = Absent

\* "apply shipped corrections to untouched records" (applyBaselineMigration), once the newest
\* version has migrated the catalog.
CorrectionsArrive ==
    \A i \in Items : chosen[i] = None /\ lock = None /\ (\A p \in Procs : Version[p] <= baseline) =>
      text[i] = Shipped[baseline][i] \/ Shipped[baseline][i] = Absent
=============================================================================
