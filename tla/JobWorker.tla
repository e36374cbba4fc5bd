------------------------------ MODULE JobWorker ------------------------------
(***************************************************************************)
(* The batch of one run, from its first write of the manifest to its last  *)
(* (src/runner/reimagine.ts), and the worker of one job of it              *)
(* (src/runner/job-worker.ts): the helper calls it waits for, the attempts *)
(* key by key, the anti-slop retry, the self-check, and what of all that   *)
(* is on disk.                                                             *)
(*                                                                         *)
(* Jobs are started the way Batch promises (JobScheduler implements it),   *)
(* by the total alone; which key a call is given is KeyManager's affair.   *)
(* An answer is one of four kinds; the HTML itself does not matter.        *)
(***************************************************************************)
EXTENDS Integers, FiniteSets, FiniteSetsExt

CONSTANTS
    Jobs, Inputs,
    InputOf,              \* job.inputId
    Sighted,              \* jobs of a model that sees images
    Total,                \* jobs that run at a time
    Warmed,               \* inputs whose helper calls are sent ahead of the jobs
    Budget,               \* km.attemptBudget: attempts of one pass
    SelfCheck,            \* the setting of the run
    MaxOutputFails,       \* bound: outputs that cannot be written
    MaxManifestFails,     \* bound: manifests that cannot be written
    UnreadableDrafts      \* readIfPresent may fail to read the output it is to keep

\* Every input of a run has a job: a spec is made of both, and a retry keeps the inputs of
\* the jobs it repeats.
ASSUME JobWorkerAssumption ==
    /\ IsFiniteSet(Jobs) /\ InputOf \in [Jobs -> Inputs] /\ Sighted \subseteq Jobs
    /\ Warmed \subseteq {InputOf[j] : j \in Jobs}
    /\ Total \in Nat \ {0} /\ Budget \in Nat \ {0}
    /\ SelfCheck \in BOOLEAN /\ UnreadableDrafts \in BOOLEAN
    /\ MaxOutputFails \in Nat /\ MaxManifestFails \in Nat

\* What a call is answered with: a complete page, one the lint finds a P0 in, one cut off
\* at the token limit, or no page at all.
Answers == {"clean", "sloppy", "cut", "prose"}
P0(a) == IF a = "sloppy" THEN 1 ELSE 0

Passes == {"first", "fix", "check"}

\* A document on disk: of which pass, and what was in it.
Documents == Passes \X Answers
Nothing == <<"none", "none">>
Torn == <<"torn", "torn">>

\* The file of the first answer, and of the retry's beside it.
Files == {"main", "fix"}

VARIABLES
    pc,             \* where each job's worker is
    pass, tries,    \* of its loop: the pass and the attempts made
    answer,         \* the answer it is about to save
    job,            \* the job as the manifest holds it in memory
    before,         \* the snapshot taken before a second pass
    draft,          \* the bytes read before the self-check
    disk,           \* the job's two output files
    paid,           \* history: the pass at hand was answered
    captions, crops, summary,    \* the shared promises
    counts,         \* manifest.counts
    aborted,        \* the run's signal
    phase,          \* of runSpecBatch and what encloses it
    outcome,        \* how the promise of runReimagine ends
    dirty,          \* manifestDirty
    unsaved,        \* what happened since the manifest was last written
    diskStatus,     \* manifest.status on disk
    status,         \* manifest.status in memory
    outputFails, manifestFails

loop == <<pc, pass, tries, answer>>
undo == <<before, draft>>
helpers == <<captions, crops, summary>>
ledger == <<dirty, unsaved>>
run == <<phase, outcome, diskStatus, status>>
vars == <<loop, job, undo, disk, paid, helpers, counts, aborted, run, ledger, outputFails, manifestFails>>

Fresh == [status |-> "pending", file |-> "none", answer |-> Nothing, slop |-> 0,
          retry |-> "none", check |-> "none"]

Goes(j, to) == pc' = [pc EXCEPT ![j] = to]
Sets(j, r) == job' = [job EXCEPT ![j] = r]

\* recordUsage: the ledger of the manifest grows, and the manifest is to be written.
Records == /\ dirty' = TRUE
           /\ unsaved' = unsaved \cup {IF phase \in {"open", "resolved"} THEN "awaited" ELSE "late"}

MayRecord == Records \/ UNCHANGED ledger

-----------------------------------------------------------------------------
(* The helper calls, one promise for all the jobs of an input.             *)

Asked(state) == IF state = "none" THEN "asked" ELSE state

\* describeInput and cropAssets: the first to come makes the call.
AsksHelpers(S) ==
    /\ captions' = [i \in Inputs |-> IF i \in S THEN Asked(captions[i]) ELSE captions[i]]
    /\ crops' = [i \in Inputs |-> IF i \in S THEN Asked(crops[i]) ELSE crops[i]]

\* The caption comes, or every key of the helper was tried in vain.
CaptionSettles(i) ==
    /\ captions[i] = "asked"
    /\ \E to \in {"given", "failed"} : captions' = [captions EXCEPT ![i] = to]
    /\ Records
    /\ UNCHANGED <<loop, job, undo, disk, paid, crops, summary, counts, aborted, run, outputFails, manifestFails>>

\* cropInputAssets never rejects; its call may never be made (crops saved by an earlier try).
CropsSettle(i) ==
    /\ crops[i] = "asked"
    /\ crops' = [crops EXCEPT ![i] = "settled"]
    /\ MayRecord
    /\ UNCHANGED <<loop, job, undo, disk, paid, captions, summary, counts, aborted, run, outputFails, manifestFails>>

\* flushManifest: a failure is swallowed and leaves the flag for the next tick.
FlushesManifest(st) ==
    \/ /\ unsaved' = {} /\ dirty' = FALSE /\ diskStatus' = st
       /\ UNCHANGED manifestFails
    \/ /\ manifestFails < MaxManifestFails
       /\ manifestFails' = manifestFails + 1
       /\ UNCHANGED <<unsaved, dirty, diskStatus>>

\* describeRunSummary: a title that differs is written at once, and a failure is swallowed.
SummarySettles ==
    /\ summary = "asked"
    /\ summary' = "settled"
    /\ \/ MayRecord /\ UNCHANGED <<diskStatus, manifestFails>>
       \/ /\ unsaved' = {} /\ dirty' = TRUE /\ UNCHANGED <<diskStatus, manifestFails>>
       \/ /\ manifestFails < MaxManifestFails /\ manifestFails' = manifestFails + 1
          /\ Records /\ UNCHANGED diskStatus
    /\ UNCHANGED <<loop, job, undo, disk, paid, captions, crops, counts, aborted, phase, outcome, status, outputFails>>

-----------------------------------------------------------------------------
(* The end of a worker.                                                    *)

Counted == [ok |-> "ok", cancelled |-> "skipped", skipped |-> "skipped", error |-> "error"]

\* "Exactly-once accounting for every job, including pre-flight cancellation."
Counts(j, st) == counts' = [counts EXCEPT ![Counted[st]] = @ + 1]

Ended(st) == IF st \in {"ok", "cancelled", "skipped"} THEN st ELSE "error"

\* The tail of runOneJob; what the job ended as is final.
Finishes(j, r) ==
    /\ Sets(j, [r EXCEPT !.status = Ended(@)])
    /\ Counts(j, Ended(r.status))
    /\ dirty' = TRUE /\ unsaved' = unsaved \cup {"awaited"}
    /\ Goes(j, "finished")

-----------------------------------------------------------------------------
(* The worker: runOneJob up to its first attempt.                          *)

Active == {j \in Jobs : pc[j] \notin {"waiting", "finished", "thrown"}}

\* The scheduler hands the job to a worker.
Starts(j) ==
    /\ phase = "open" /\ pc[j] = "waiting" /\ Cardinality(Active) < Total
    /\ IF aborted
       THEN /\ Finishes(j, [job[j] EXCEPT !.status = "cancelled"])
            /\ UNCHANGED helpers
       ELSE /\ AsksHelpers({InputOf[j]}) /\ UNCHANGED summary
            /\ Goes(j, "preparing")
            /\ IF j \in Sighted THEN UNCHANGED job ELSE Sets(j, [job[j] EXCEPT !.status = "running"])
            /\ UNCHANGED <<counts, ledger>>
    /\ UNCHANGED <<pass, tries, answer, undo, disk, paid, aborted, run, outputFails, manifestFails>>

\* imagesFor cannot read the images: the worker throws, its helpers stay out.
StartThrows(j) ==
    /\ phase = "open" /\ pc[j] = "waiting" /\ Cardinality(Active) < Total
    /\ ~aborted /\ j \in Sighted
    /\ Goes(j, "thrown")
    /\ crops' = [crops EXCEPT ![InputOf[j]] = Asked(@)]
    /\ UNCHANGED <<pass, tries, answer, job, undo, disk, paid, captions, summary, counts, aborted, run, ledger, outputFails, manifestFails>>

MayRun(j) == j \in Sighted \/ captions[InputOf[j]] = "given"

\* buildJobPrompt is through: both promises have settled.
Prepared(j) ==
    /\ pc[j] = "preparing"
    /\ captions[InputOf[j]] \in {"given", "failed"} /\ crops[InputOf[j]] = "settled"
    /\ IF aborted THEN Finishes(j, [job[j] EXCEPT !.status = "cancelled"]) /\ UNCHANGED pass
       ELSE IF ~MayRun(j) THEN Finishes(j, [job[j] EXCEPT !.status = "skipped"]) /\ UNCHANGED pass
       ELSE /\ Goes(j, "attempt") /\ pass' = [pass EXCEPT ![j] = "first"]
            /\ Sets(j, [job[j] EXCEPT !.status = "running"])
            /\ UNCHANGED <<counts, ledger>>
    /\ UNCHANGED <<tries, answer, undo, disk, paid, helpers, aborted, run, outputFails, manifestFails>>

-----------------------------------------------------------------------------
(* runJobAttempts: the attempts of one pass.                               *)

\* The pass is over, and its locals with it.
PassEnds(j) ==
    /\ Goes(j, "passed")
    /\ tries' = [tries EXCEPT ![j] = 0] /\ answer' = [answer EXCEPT ![j] = "prose"]
    /\ paid' = [paid EXCEPT ![j] = FALSE]

Passed(j, st) == PassEnds(j) /\ Sets(j, [job[j] EXCEPT !.status = st])

\* The next attempt: cancelled, without a key, or with one in hand.
Attempts(j) ==
    /\ pc[j] = "attempt"
    /\ \/ aborted /\ Passed(j, "cancelled")
       \/ ~aborted /\ Passed(j, "skipped")
       \/ /\ ~aborted /\ Goes(j, "call")
          /\ tries' = [tries EXCEPT ![j] = @ + 1]
          /\ UNCHANGED <<job, answer, paid>>
    /\ UNCHANGED <<pass, undo, disk, helpers, counts, aborted, run, ledger, outputFails, manifestFails>>

\* The model answers, and the call is in the ledger before anything touches the disk.
Answered(j) ==
    /\ pc[j] = "call"
    /\ \E a \in Answers : answer' = [answer EXCEPT ![j] = a]
    /\ paid' = [paid EXCEPT ![j] = TRUE]
    /\ Goes(j, "save")
    /\ Records
    /\ UNCHANGED <<pass, tries, job, undo, disk, helpers, counts, aborted, run, outputFails, manifestFails>>

\* classifyJobCallError: a run that was cancelled ...
CallCancelled(j) ==
    /\ pc[j] = "call" /\ aborted
    /\ Passed(j, "cancelled")
    /\ MayRecord
    /\ UNCHANGED <<pass, undo, disk, helpers, counts, aborted, run, outputFails, manifestFails>>

\* ... a failure no other key would mend ...
CallFails(j) ==
    /\ pc[j] = "call" /\ ~aborted
    /\ Passed(j, "error")
    /\ MayRecord
    /\ UNCHANGED <<pass, undo, disk, helpers, counts, aborted, run, outputFails, manifestFails>>

\* ... and one that may: after the last attempt the status is left as it was.
CallRotates(j) ==
    /\ pc[j] = "call" /\ ~aborted
    /\ IF tries[j] < Budget THEN Goes(j, "attempt") /\ UNCHANGED <<tries, answer, paid>> ELSE PassEnds(j)
    /\ MayRecord
    /\ UNCHANGED <<pass, job, undo, disk, helpers, counts, aborted, run, outputFails, manifestFails>>

\* Slip: the retry writes over the first answer.
OneFile(j) == "main"

\* The file of a pass: the retry has one beside the first answer's, and the self-check
\* writes over the one that is shown.
FileOf(j) == CASE pass[j] = "first" -> "main" [] pass[j] = "fix" -> "fix" [] OTHER -> before[j].file

\* saveJobOutput succeeds and applyOutputOutcome looks at what was saved: a page is linted,
\* anything else is an error that no other key is tried for.
Saves(j) ==
    /\ pc[j] = "save"
    /\ disk' = [disk EXCEPT ![j][FileOf(j)] = <<pass[j], answer[j]>>]
    /\ Sets(j, [job[j] EXCEPT !.file = FileOf(j), !.answer = <<pass[j], answer[j]>>,
                              !.status = IF answer[j] = "prose" THEN "error" ELSE "ok",
                              !.slop = IF answer[j] = "prose" THEN @ ELSE P0(answer[j])])
    /\ PassEnds(j)
    /\ UNCHANGED <<pass, undo, helpers, counts, aborted, run, ledger, outputFails, manifestFails>>

\* Slip: an output that could not be saved is asked for again.
AsksAgain(j) ==
    /\ IF tries[j] < Budget THEN Goes(j, "attempt") /\ UNCHANGED <<tries, answer, paid>> ELSE PassEnds(j)
    /\ Sets(j, [job[j] EXCEPT !.status = "error"])

\* "Retrying with the next one would pay a second time for the same output."
StopsPaying(j) == Passed(j, "error")

\* The output, or the sidecar after it, cannot be written.
SaveFails(j) ==
    /\ pc[j] = "save" /\ outputFails < MaxOutputFails
    /\ outputFails' = outputFails + 1
    /\ \E c \in {disk[j][FileOf(j)], Torn, <<pass[j], answer[j]>>} : disk' = [disk EXCEPT ![j][FileOf(j)] = c]
    /\ StopsPaying(j)
    /\ UNCHANGED <<pass, undo, helpers, counts, aborted, run, ledger, manifestFails>>

-----------------------------------------------------------------------------
(* What follows a pass.                                                    *)

\* The self-check is on and the job ended well; it is skipped for a model that cannot see.
ChecksItself(j, r) == SelfCheck /\ r.status = "ok" /\ ~aborted

\* The snapshots of a pass go with it.
Forgets(j) == before' = [before EXCEPT ![j] = Fresh] /\ draft' = [draft EXCEPT ![j] = Nothing]

\* On to the renders of the self-check, or to the end.
ChecksOrFinishes(j, r) ==
    IF ~ChecksItself(j, r) THEN Finishes(j, r)
    ELSE IF j \notin Sighted THEN Finishes(j, [r EXCEPT !.check = "skipped"])
    ELSE Goes(j, "render") /\ Sets(j, r) /\ UNCHANGED <<counts, ledger>>

\* After the first pass: one retry for an answer the lint finds a P0 in.
AfterFirst(j) ==
    /\ pc[j] = "passed" /\ pass[j] = "first"
    /\ IF job[j].status = "ok" /\ job[j].slop > 0 /\ ~aborted
       THEN /\ Goes(j, "attempt")
            /\ pass' = [pass EXCEPT ![j] = "fix"]
            /\ before' = [before EXCEPT ![j] = job[j]]
            /\ UNCHANGED <<job, counts, ledger>>
       ELSE ChecksOrFinishes(j, job[j]) /\ UNCHANGED <<pass, before>>
    /\ UNCHANGED <<tries, answer, draft, disk, paid, helpers, aborted, run, outputFails, manifestFails>>

\* Kept only when it ends ok with fewer P0 findings.
Cleaner(j) == job[j].status = "ok" /\ job[j].slop < before[j].slop

\* retrySloppyOutput: any other outcome restores the job as it was.
AfterFix(j) ==
    /\ pc[j] = "passed" /\ pass[j] = "fix"
    /\ ChecksOrFinishes(j, IF Cleaner(j) THEN [job[j] EXCEPT !.retry = "kept"]
                                         ELSE [before[j] EXCEPT !.retry = "dropped"])
    /\ Forgets(j)
    /\ UNCHANGED <<pass, tries, answer, disk, paid, helpers, aborted, run, outputFails, manifestFails>>

\* runSelfCheckPass: the renders fail or the run was cancelled meanwhile ...
RenderSkips(j) ==
    /\ pc[j] = "render"
    /\ Finishes(j, [job[j] EXCEPT !.check = "skipped"])
    /\ UNCHANGED <<pass, tries, answer, undo, disk, paid, helpers, aborted, run, outputFails, manifestFails>>

\* ... or the first pass is set aside, as far as it can be read, and the model asked again.
Renders(j) ==
    /\ pc[j] = "render" /\ ~aborted
    /\ Goes(j, "attempt")
    /\ pass' = [pass EXCEPT ![j] = "check"]
    /\ before' = [before EXCEPT ![j] = job[j]]
    /\ \E bytes \in {disk[j][job[j].file]} \cup (IF UnreadableDrafts THEN {Nothing} ELSE {}) :
           draft' = [draft EXCEPT ![j] = bytes]
    /\ Sets(j, [job[j] EXCEPT !.status = "running"])
    /\ UNCHANGED <<tries, answer, disk, paid, helpers, counts, aborted, run, ledger, outputFails, manifestFails>>

\* The revision is kept when it is whole.
Revised(j) == job[j].status = "ok" /\ job[j].answer[2] # "cut"

AfterCheck(j) ==
    /\ pc[j] = "passed" /\ pass[j] = "check"
    /\ IF Revised(j) THEN Finishes(j, [job[j] EXCEPT !.check = "revised"]) /\ Forgets(j)
                     ELSE Goes(j, "restore") /\ UNCHANGED <<job, undo, counts, ledger>>
    /\ UNCHANGED <<pass, tries, answer, disk, paid, helpers, aborted, run, outputFails, manifestFails>>

\* The first pass is put back: what was read of it is written, and the job says so.
Restores(j) ==
    /\ pc[j] = "restore"
    /\ disk' = [disk EXCEPT ![j][before[j].file] = IF draft[j] = Nothing THEN @ ELSE draft[j]]
    /\ Finishes(j, [before[j] EXCEPT !.status = "ok", !.check = "kept"])
    /\ Forgets(j)
    /\ UNCHANGED <<pass, tries, answer, paid, helpers, aborted, run, outputFails, manifestFails>>

\* It cannot be put back: "say so rather than claim the first pass".
RestoreFails(j) ==
    /\ pc[j] = "restore" /\ draft[j] # Nothing /\ outputFails < MaxOutputFails
    /\ outputFails' = outputFails + 1
    /\ \E c \in {disk[j][before[j].file], Torn, draft[j]} : disk' = [disk EXCEPT ![j][before[j].file] = c]
    /\ Finishes(j, [job[j] EXCEPT !.status = "error", !.check = "kept"])
    /\ Forgets(j)
    /\ UNCHANGED <<pass, tries, answer, paid, helpers, aborted, run, manifestFails>>

-----------------------------------------------------------------------------
(* The run: runSpecBatch, executeRunSpec and runReimagine around it.       *)

Cancels ==
    /\ ~aborted /\ phase # "closed"
    /\ aborted' = TRUE
    /\ UNCHANGED <<loop, job, undo, disk, paid, helpers, counts, run, ledger, outputFails, manifestFails>>

\* The timer.
Ticks ==
    /\ phase \in {"open", "resolved"} /\ dirty
    /\ FlushesManifest(status)
    /\ UNCHANGED <<loop, job, undo, disk, paid, helpers, counts, aborted, phase, outcome, status, outputFails>>

\* applyScheduledResults: "so the manifest's counts and job list stay complete".
MarksThrown(S) ==
    /\ job' = [j \in Jobs |-> IF j \in S THEN [job[j] EXCEPT !.status = "error"] ELSE job[j]]
    /\ counts' = [counts EXCEPT !.error = @ + Cardinality(S)]
    /\ IF S = {} THEN UNCHANGED ledger ELSE dirty' = TRUE /\ unsaved' = unsaved \cup {"awaited"}

\* Slip: a worker that throws is waited for.
SettledWell(j) == pc[j] = "finished"

\* A worker settles either way, and the batch resolves when all have.
Settled(j) == pc[j] \in {"finished", "thrown"}

BatchResolves ==
    /\ phase = "open" /\ \A j \in Jobs : Settled(j)
    /\ MarksThrown({j \in Jobs : pc[j] = "thrown"})
    /\ phase' = "resolved"
    /\ UNCHANGED <<loop, undo, disk, paid, helpers, aborted, outcome, diskStatus, status, outputFails, manifestFails>>

\* The final write, after the title has settled; if it or km.save throws the run rejects.
FinalWrite ==
    /\ phase = "resolved" /\ summary = "settled"
    /\ phase' = "leaving"
    /\ status' = IF aborted THEN "cancelled" ELSE "done"
    /\ \/ /\ unsaved' = {} /\ diskStatus' = status' /\ UNCHANGED <<dirty, manifestFails>>
          /\ outcome' \in {"resolved", "rejected"}
       \/ /\ manifestFails < MaxManifestFails /\ manifestFails' = manifestFails + 1
          /\ outcome' = "rejected" /\ UNCHANGED <<ledger, diskStatus>>
    /\ UNCHANGED <<loop, job, undo, disk, paid, helpers, counts, aborted, outputFails>>

\* Slip: nothing is flushed on the way out.
NoLastFlush == UNCHANGED <<ledger, diskStatus, manifestFails>>

\* The finally of executeRunSpec.
LastFlush == IF dirty THEN FlushesManifest(status) ELSE UNCHANGED <<ledger, diskStatus, manifestFails>>

Leaves ==
    /\ phase = "leaving"
    /\ phase' = "left"
    /\ LastFlush
    /\ UNCHANGED <<loop, job, undo, disk, paid, helpers, counts, aborted, outcome, status, outputFails>>

\* The catch of runReimagine: what is on disk is marked, if it still says "running".  Its
\* write may fail beyond the bound.
Closes ==
    /\ phase = "left"
    /\ phase' = "closed"
    /\ IF outcome = "rejected" /\ diskStatus = "running"
       THEN \/ diskStatus' = "error" /\ UNCHANGED manifestFails
            \/ manifestFails' = manifestFails + 1 /\ UNCHANGED diskStatus
       ELSE UNCHANGED <<diskStatus, manifestFails>>
    /\ UNCHANGED <<loop, job, undo, disk, paid, helpers, counts, aborted, outcome, status, ledger, outputFails>>

-----------------------------------------------------------------------------
Init ==
    /\ pc = [j \in Jobs |-> "waiting"] /\ pass = [j \in Jobs |-> "first"]
    /\ tries = [j \in Jobs |-> 0] /\ answer = [j \in Jobs |-> "prose"]
    /\ job = [j \in Jobs |-> Fresh] /\ before = [j \in Jobs |-> Fresh] /\ draft = [j \in Jobs |-> Nothing]
    /\ disk = [j \in Jobs |-> [f \in Files |-> Nothing]]
    /\ paid = [j \in Jobs |-> FALSE]
    /\ captions = [i \in Inputs |-> IF i \in Warmed THEN "asked" ELSE "none"]
    /\ crops = captions /\ summary = "asked"
    /\ counts = [c \in {"ok", "skipped", "error"} |-> 0]
    /\ aborted = FALSE
    /\ phase = "open" /\ outcome = "none" /\ diskStatus = "running" /\ status = "running"
    /\ dirty = FALSE /\ unsaved = {}
    /\ outputFails = 0 /\ manifestFails = 0

Works(j) ==
    \/ Starts(j) \/ StartThrows(j) \/ Prepared(j)
    \/ Attempts(j) \/ Answered(j) \/ CallCancelled(j) \/ CallFails(j) \/ CallRotates(j)
    \/ Saves(j) \/ SaveFails(j)
    \/ AfterFirst(j) \/ AfterFix(j) \/ RenderSkips(j) \/ Renders(j) \/ AfterCheck(j)
    \/ Restores(j) \/ RestoreFails(j)

Helps(i) == CaptionSettles(i) \/ CropsSettle(i)

Runs == SummarySettles \/ BatchResolves \/ FinalWrite \/ Leaves \/ Closes

Next == (\E j \in Jobs : Works(j)) \/ (\E i \in Inputs : Helps(i)) \/ Runs \/ Ticks \/ Cancels

Spec == Init /\ [][Next]_vars

\* Every call carries a timeout and every write returns, one way or the other.
FairSpec == Spec /\ WF_vars((\E j \in Jobs : Works(j)) \/ (\E i \in Inputs : Helps(i)) \/ Runs)

-----------------------------------------------------------------------------
JobRecords ==
    [status : {"pending", "running", "ok", "error", "cancelled", "skipped"},
     file : Files \cup {"none"}, answer : Documents \cup {Nothing}, slop : {0, 1},
     retry : {"none", "kept", "dropped"}, check : {"none", "skipped", "revised", "kept"}]

\* Every variable holds what the worker and the run read from it.
TypeOK ==
    /\ pc \in [Jobs -> {"waiting", "preparing", "attempt", "call", "save", "passed", "render",
                       "restore", "finished", "thrown"}]
    /\ pass \in [Jobs -> Passes] /\ tries \in [Jobs -> 0 .. Budget] /\ answer \in [Jobs -> Answers]
    /\ job \in [Jobs -> JobRecords] /\ before \in [Jobs -> JobRecords]
    /\ draft \in [Jobs -> Documents \cup {Nothing, Torn}]
    /\ disk \in [Jobs -> [Files -> Documents \cup {Nothing, Torn}]]
    /\ paid \in [Jobs -> BOOLEAN]
    /\ captions \in [Inputs -> {"none", "asked", "given", "failed"}]
    /\ crops \in [Inputs -> {"none", "asked", "settled"}]
    /\ summary \in {"asked", "settled"}
    /\ counts \in [{"ok", "skipped", "error"} -> Nat]
    /\ aborted \in BOOLEAN /\ dirty \in BOOLEAN /\ unsaved \subseteq {"awaited", "late"}
    /\ phase \in {"open", "resolved", "leaving", "left", "closed"}
    /\ outcome \in {"none", "resolved", "rejected"}
    /\ diskStatus \in {"running", "done", "cancelled", "error"}
    /\ status \in {"running", "done", "cancelled"}
    /\ outputFails \in 0 .. MaxOutputFails /\ manifestFails \in 0 .. MaxManifestFails + 1

Finished == {j \in Jobs : pc[j] = "finished"}

\* What the gallery shows for a job that ended well is the answer its fields describe:
\* the file is whole, and it is the one the lint scored.
ShownIsSaved ==
    \A j \in Finished : job[j].status = "ok" =>
        /\ job[j].answer \in Documents /\ job[j].answer[2] # "prose"
        /\ disk[j][job[j].file] = job[j].answer
        /\ job[j].slop = P0(job[j].answer[2])

\* "The pass never turns a success into a failure": a job that came to a second pass ends
\* well, whatever becomes of that pass and of the run, unless its page could not be put back.
SuccessIsKept ==
    \A j \in Finished : pass[j] # "first" =>
        job[j].status = "ok" \/ (job[j].check = "kept" /\ outputFails > 0)

\* "Anything short of a clean revision ... restores it byte for byte and the job stays ok"
\* (job-worker.ts): also when the page could not be read before the revision was written.
RestoredByteForByte ==
    \A j \in Finished : job[j].status = "ok" /\ job[j].check = "kept" =>
        disk[j][job[j].file] = job[j].answer

\* "The retry is shown only if it comes back cleaner, the first answer stays on disk"
\* (README.md): whatever the self-check does to the retry's file afterwards.
KeptIsCleaner ==
    \A j \in Finished : job[j].retry = "kept" =>
        /\ job[j].file = "fix"
        /\ job[j].check # "revised" => job[j].slop = 0
        /\ disk[j]["main"] = <<"first", "sloppy">>

\* What is shown is what was saved, and what a second pass leaves is no worse than what the
\* first one had.
DocumentsAreSound == ShownIsSaved /\ SuccessIsKept /\ KeptIsCleaner

\* No pass of a job is paid for twice: an answer that could not be saved, or is no page, is
\* not asked for again with the next key.
PaidOncePerPass ==
    [][\A j \in Jobs : pc[j] = "call" /\ pc'[j] = "save" => ~paid[j]]_vars

\* The counts of the manifest are the jobs that ended, by how they ended, at every moment,
\* and every job is counted when the run closes, the ones whose worker threw included.
Accounted == Finished \cup (IF phase = "open" THEN {} ELSE Jobs)
CountedAs(c) == {j \in Accounted : job[j].status \in {st \in DOMAIN Counted : Counted[st] = c}}

CountedOnce == \A c \in DOMAIN counts : counts[c] = Cardinality(CountedAs(c))

\* What the run spent and how its jobs ended is on disk when it closes, under an end state,
\* if no more than one of its writes failed: whichever one that was.  Only a helper call
\* that nobody waited for (the run was cancelled, or a worker threw) may be missing.
SpendReachesDisk ==
    phase = "closed" /\ manifestFails <= 1 =>
        /\ unsaved \subseteq {"late"}
        /\ diskStatus # "running"
        /\ "late" \in unsaved => aborted \/ \E j \in Jobs : pc[j] = "thrown"

\* What the run reports of its jobs and of its spending is so, and reaches the disk.
LedgerIsTrue == CountedOnce /\ SpendReachesDisk

\* Every run ends: no job waits for another, or for a helper that will not answer.
RunEnds == <>(phase = "closed")

=============================================================================
