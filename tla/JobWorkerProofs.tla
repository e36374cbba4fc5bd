--------------------------- MODULE JobWorkerProofs ---------------------------
(***************************************************************************)
(* Theorems about JobWorker, for every set of jobs and inputs, every       *)
(* budget of attempts and every bound on failures.                         *)
(*                                                                         *)
(* What the gallery shows of a finished job follows from what is known of  *)
(* the job at each place of its worker: JobOK.  The counts rest on the     *)
(* batch staying open until every worker has settled, and the ledger on    *)
(* two facts: whatever is not on disk is marked dirty, and a helper call   *)
(* is still out only if a worker that would have waited for it was         *)
(* cancelled or threw.                                                     *)
(***************************************************************************)
EXTENDS JobWorker, FiniteSetTheorems, TLAPS

\* The fields r describe the answer in r's file.
Shown(j, r) ==
    /\ r.answer \in Documents /\ r.answer[2] # "prose"
    /\ r.file \in Files /\ disk[j][r.file] = r.answer
    /\ r.slop = P0(r.answer[2])

\* A retry that was kept is clean, and lies beside the answer it replaces.
KeptBeside(j, r) ==
    r.retry = "kept" => /\ r.file = "fix" /\ r.slop = 0
                        /\ disk[j]["main"] = <<"first", "sloppy">>

\* Nothing has been tried a second time.
Early(j) == pass[j] = "first" /\ job[j].retry = "none" /\ job[j].check = "none"

\* What the retry is measured against.
SloppyFirst(j) ==
    /\ before[j].status = "ok" /\ Shown(j, before[j])
    /\ before[j].file = "main" /\ before[j].answer = <<"first", "sloppy">>
    /\ before[j].retry = "none" /\ before[j].check = "none"

\* What the self-check set aside.
SetAside(j) ==
    /\ before[j].status = "ok" /\ before[j].check = "none"
    /\ before[j].answer \in Documents /\ before[j].answer[2] # "prose"
    /\ before[j].file \in Files /\ before[j].slop = P0(before[j].answer[2])
    /\ UnreadableDrafts \/ draft[j] = before[j].answer
    /\ KeptBeside(j, before[j])
    /\ job[j].retry = before[j].retry /\ job[j].file = before[j].file

Trying == {"attempt", "call", "save"}

FirstOK(j) ==
    /\ Early(j)
    /\ pc[j] \in Trying => job[j].status # "ok"
    /\ job[j].status = "ok" => /\ Shown(j, job[j]) /\ job[j].file = "main"
                               /\ job[j].answer[1] = "first"

FixOK(j) ==
    /\ SloppyFirst(j)
    /\ pc[j] \in Trying => job[j] = before[j]
    /\ job[j].retry = "none" /\ job[j].check = "none"
    /\ job[j].status = "ok" /\ job[j] # before[j] => Shown(j, job[j]) /\ job[j].file = "fix"

CheckOK(j) ==
    /\ SetAside(j)
    /\ pc[j] \in Trying => job[j].status = "running"
    /\ job[j].status = "ok" => Shown(j, job[j])
    /\ job[j].status # "ok" => job[j].slop = before[j].slop

\* What the gallery is told of a finished job.
EndOK(j) ==
    /\ job[j].status = "ok" => UnreadableDrafts \/ Shown(j, job[j])
    /\ pass[j] # "first" => job[j].status = "ok" \/ (job[j].check = "kept" /\ outputFails > 0)
    /\ job[j].retry = "kept" => /\ job[j].file = "fix"
                                /\ job[j].check # "revised" => job[j].slop = 0
                                /\ disk[j]["main"] = <<"first", "sloppy">>

\* What is known of a job at each place of its worker.
JobOK(j) ==
    /\ pc[j] \in {"waiting", "preparing", "thrown"} => Early(j)
    /\ pc[j] \in Trying \cup {"passed"} =>
         /\ pass[j] = "first" => FirstOK(j)
         /\ pass[j] = "fix" => FixOK(j)
         /\ pass[j] = "check" => CheckOK(j)
    /\ pc[j] = "render" =>
         /\ job[j].status = "ok" /\ Shown(j, job[j]) /\ job[j].check = "none"
         /\ KeptBeside(j, job[j])
    /\ pc[j] = "restore" =>
         /\ SetAside(j) /\ pass[j] = "check"
         /\ before[j].retry = "kept" => job[j].slop = 0
    /\ pc[j] = "finished" => EndOK(j)

\* An answer is paid for between the call and what becomes of it, within the budget.
PaidOK == \A j \in Jobs : /\ paid[j] => pc[j] = "save"
                          /\ pc[j] = "attempt" => tries[j] < Budget
                          /\ pc[j] \notin Trying => tries[j] = 0

OpenUntilSettled == phase # "open" => \A j \in Jobs : Settled(j)

\* Helper calls are made for inputs of jobs, and a job goes on when those of its input are
\* answered.
HelpersOK ==
    /\ \A i \in Inputs : captions[i] # "none" \/ crops[i] # "none" => \E j \in Jobs : InputOf[j] = i
    /\ aborted \/ \A j \in Jobs : pc[j] \notin {"waiting", "preparing", "thrown"} =>
          captions[InputOf[j]] \in {"given", "failed"} /\ crops[InputOf[j]] = "settled"

CutShort == aborted \/ \E j \in Jobs : pc[j] = "thrown"

\* Everything is on disk but for a late helper call.
OnDisk == diskStatus # "running" /\ unsaved \subseteq {"late"}

SavedOK ==
    /\ unsaved # {} => dirty
    /\ phase \in {"open", "resolved"} => "late" \notin unsaved
    /\ "late" \in unsaved => CutShort
    /\ phase \notin {"open", "resolved"} => status # "running" /\ summary = "settled"
    /\ phase = "leaving" => OnDisk \/ (manifestFails >= 1 /\ outcome = "rejected")
    /\ phase = "left" => \/ OnDisk \/ manifestFails >= 2
                         \/ unsaved \subseteq {"late"} /\ outcome = "rejected" /\ manifestFails >= 1
    /\ phase = "closed" => OnDisk \/ manifestFails >= 2
    /\ phase # "closed" => manifestFails <= MaxManifestFails

IInv == /\ TypeOK /\ PaidOK /\ OpenUntilSettled /\ CountedOnce /\ HelpersOK /\ SavedOK
        /\ \A j \in Jobs : JobOK(j)

-----------------------------------------------------------------------------
(* What a worker's step leaves alone.                                      *)

\* What is known of a job rests on these.
Of(j) == <<pc[j], pass[j], job[j], before[j], draft[j], disk[j]>>

\* A job nothing happens to is as sound as it was.
LEMMA Elsewhere ==
    ASSUME NEW j \in Jobs, JobOK(j), Of(j)' = Of(j),
           outputFails \in Nat, outputFails' \in Nat, outputFails' >= outputFails
    PROVE  JobOK(j)'
<1>1. /\ pc'[j] = pc[j] /\ pass'[j] = pass[j] /\ job'[j] = job[j]
      /\ before'[j] = before[j] /\ draft'[j] = draft[j] /\ disk'[j] = disk[j]
  BY DEF Of
<1>2. \A r : Shown(j, r)' <=> Shown(j, r)
  BY <1>1 DEF Shown
<1> QED
  BY <1>1, <1>2 DEF JobOK, Early, FirstOK, FixOK, CheckOK, SloppyFirst, SetAside, KeptBeside, EndOK, Shown

\* A worker is at work while the batch is open; it moves its own job only, and the run not
\* at all.
LEMMA OnlyItsOwn ==
    ASSUME TypeOK, OpenUntilSettled, NEW k \in Jobs, Works(k)
    PROVE  /\ phase = "open" /\ ~Settled(k)
           /\ UNCHANGED <<run, aborted, manifestFails, summary>>
           /\ \A i \in Jobs \ {k} : Of(i)' = Of(i) /\ tries'[i] = tries[i] /\ paid'[i] = paid[i]
<1> USE DEF TypeOK, OpenUntilSettled, Settled, Finishes, Sets, Goes, Counts, Of, run, undo, helpers, loop
<1>1. CASE Starts(k) \/ StartThrows(k) \/ Prepared(k)
  BY <1>1 DEF Starts, StartThrows, Prepared
<1>2. CASE Attempts(k) \/ Answered(k) \/ CallCancelled(k) \/ CallFails(k) \/ CallRotates(k)
  BY <1>2 DEF Attempts, Answered, CallCancelled, CallFails, CallRotates, Passed, PassEnds
<1>3. CASE Saves(k) \/ SaveFails(k)
  BY <1>3 DEF Saves, SaveFails, StopsPaying, Passed, PassEnds
<1>4. CASE AfterFirst(k) \/ AfterFix(k)
  BY <1>4 DEF AfterFirst, AfterFix, ChecksOrFinishes, Forgets
<1>5. CASE RenderSkips(k) \/ Renders(k) \/ AfterCheck(k)
  BY <1>5 DEF RenderSkips, Renders, AfterCheck, Forgets
<1>6. CASE Restores(k) \/ RestoreFails(k)
  BY <1>6 DEF Restores, RestoreFails, Forgets
<1> QED
  BY <1>1, <1>2, <1>3, <1>4, <1>5, <1>6 DEF Works

\* A worker only adds to the spending of the run, and the flag is set when it does.
LEMMA WorkersLedger ==
    ASSUME phase = "open", NEW k \in Jobs, Works(k)
    PROVE  UNCHANGED ledger \/ (dirty' = TRUE /\ unsaved' = unsaved \cup {"awaited"})
<1> USE DEF Finishes, Records, MayRecord, ledger
<1>1. CASE Starts(k) \/ StartThrows(k) \/ Prepared(k)
  BY <1>1 DEF Starts, StartThrows, Prepared
<1>2. CASE Attempts(k) \/ Answered(k) \/ CallCancelled(k) \/ CallFails(k) \/ CallRotates(k)
  BY <1>2 DEF Attempts, Answered, CallCancelled, CallFails, CallRotates
<1>3. CASE Saves(k) \/ SaveFails(k)
  BY <1>3 DEF Saves, SaveFails
<1>4. CASE AfterFirst(k) \/ AfterFix(k)
  BY <1>4 DEF AfterFirst, AfterFix, ChecksOrFinishes
<1>5. CASE RenderSkips(k) \/ Renders(k) \/ AfterCheck(k)
  BY <1>5 DEF RenderSkips, Renders, AfterCheck
<1>6. CASE Restores(k) \/ RestoreFails(k)
  BY <1>6 DEF Restores, RestoreFails
<1> QED
  BY <1>1, <1>2, <1>3, <1>4, <1>5, <1>6 DEF Works

\* A job ends through the tail of its worker, once, or not at all.
Ends(k) == \E r \in JobRecords : Finishes(k, r)
GoesOn(k) == counts' = counts /\ pc' = [pc EXCEPT ![k] = pc'[k]] /\ pc'[k] # "finished"

\* What a worker writes over in the record of its job.
LEMMA RecordsStayRecords ==
    ASSUME NEW r \in JobRecords
    PROVE  /\ \A st \in {"pending", "running", "ok", "error", "cancelled", "skipped"} :
                  [r EXCEPT !.status = st] \in JobRecords
           /\ \A c \in {"none", "skipped", "revised", "kept"} : [r EXCEPT !.check = c] \in JobRecords
           /\ \A w \in {"none", "kept", "dropped"} : [r EXCEPT !.retry = w] \in JobRecords
           /\ \A st \in {"ok", "error"}, c \in {"none", "skipped", "revised", "kept"} :
                  [r EXCEPT !.status = st, !.check = c] \in JobRecords
           /\ [r EXCEPT !.status = Ended(@)] \in JobRecords
  BY DEF JobRecords, Ended

LEMMA EndsOrGoesOn ==
    ASSUME TypeOK, NEW k \in Jobs, Works(k)
    PROVE  Ends(k) \/ GoesOn(k)
<1> DEFINE jk == job[k]  bk == before[k]
<1>0. jk \in JobRecords /\ bk \in JobRecords
  BY DEF TypeOK
<1>r. /\ [jk EXCEPT !.status = "cancelled"] \in JobRecords /\ [jk EXCEPT !.status = "skipped"] \in JobRecords
      /\ [jk EXCEPT !.check = "skipped"] \in JobRecords /\ [jk EXCEPT !.check = "revised"] \in JobRecords
      /\ [jk EXCEPT !.retry = "kept"] \in JobRecords /\ [bk EXCEPT !.retry = "dropped"] \in JobRecords
      /\ [bk EXCEPT !.status = "ok", !.check = "kept"] \in JobRecords
      /\ [jk EXCEPT !.status = "error", !.check = "kept"] \in JobRecords
  BY <1>0, RecordsStayRecords
<1>s. ASSUME NEW r \in JobRecords, ChecksOrFinishes(k, r) PROVE Ends(k) \/ GoesOn(k)
  <2>1. [r EXCEPT !.check = "skipped"] \in JobRecords
    BY RecordsStayRecords
  <2> QED
    BY <1>s, <2>1 DEF ChecksOrFinishes, Ends, GoesOn, Goes, TypeOK
<1>1. CASE Starts(k) \/ StartThrows(k) \/ Prepared(k)
  BY <1>1, <1>r DEF Starts, StartThrows, Prepared, TypeOK, Goes, Ends, GoesOn
<1>2. CASE Attempts(k) \/ Answered(k) \/ CallCancelled(k) \/ CallFails(k) \/ CallRotates(k)
  BY <1>2 DEF Attempts, Answered, CallCancelled, CallFails, CallRotates, Passed, PassEnds, TypeOK, Goes, GoesOn
<1>3. CASE Saves(k) \/ SaveFails(k)
  BY <1>3 DEF Saves, SaveFails, StopsPaying, Passed, PassEnds, TypeOK, Goes, GoesOn
<1>4. CASE AfterFirst(k)
  BY <1>4, <1>0, <1>s DEF AfterFirst, TypeOK, Goes, GoesOn
<1>5. CASE AfterFix(k)
  BY <1>5, <1>r, <1>s DEF AfterFix
<1>6. CASE RenderSkips(k) \/ Renders(k) \/ AfterCheck(k)
  BY <1>6, <1>r DEF RenderSkips, Renders, AfterCheck, TypeOK, Goes, Ends, GoesOn
<1>7. CASE Restores(k) \/ RestoreFails(k)
  BY <1>7, <1>r DEF Restores, RestoreFails, Ends
<1> QED
  BY <1>1, <1>2, <1>3, <1>4, <1>5, <1>6, <1>7 DEF Works

-----------------------------------------------------------------------------
(* The job at hand, place by place.                                        *)

\* The tail of the worker changes nothing of the record but the status.
LEMMA TheTail ==
    ASSUME TypeOK, NEW k \in Jobs, NEW r \in JobRecords, Finishes(k, r)
    PROVE  /\ pc'[k] = "finished" /\ job'[k].status = Ended(r.status)
           /\ job'[k].file = r.file /\ job'[k].answer = r.answer /\ job'[k].slop = r.slop
           /\ job'[k].retry = r.retry /\ job'[k].check = r.check
<1>1. pc'[k] = "finished" /\ job'[k] = [r EXCEPT !.status = Ended(r.status)]
  BY DEF TypeOK, Finishes, Goes, Sets
<1> QED
  BY <1>1 DEF JobRecords

\* Every pass writes one of the job's two files.
LEMMA WhereAPassWrites ==
    ASSUME NEW k \in Jobs, pc[k] \in Trying, pass[k] \in Passes, JobOK(k)
    PROVE  /\ FileOf(k) \in Files
           /\ pass[k] = "first" => FileOf(k) = "main"
           /\ pass[k] = "fix" => FileOf(k) = "fix"
           /\ pass[k] = "check" => FileOf(k) = before[k].file
  BY DEF JobOK, CheckOK, SetAside, FileOf, Files, Passes

\* What is known of a job is true of the one whose worker steps.
LEMMA ThisJob ==
    ASSUME JobWorkerAssumption, IInv, NEW k \in Jobs, Works(k)
    PROVE  JobOK(k)'
<1>t. /\ pc[k] \in {"waiting", "preparing", "attempt", "call", "save", "passed", "render",
                    "restore", "finished", "thrown"}
      /\ pass[k] \in Passes /\ job[k] \in JobRecords /\ before[k] \in JobRecords
      /\ answer[k] \in Answers /\ draft[k] \in Documents \cup {Nothing, Torn}
      /\ disk[k] \in [Files -> Documents \cup {Nothing, Torn}]
      /\ outputFails \in Nat
  BY DEF IInv, TypeOK
<1>j. JobOK(k)
  BY DEF IInv
<1>1. CASE Starts(k)
  <2>1. pc[k] = "waiting" /\ pass'[k] = pass[k]
    BY <1>1 DEF Starts
  <2>2. CASE aborted
    <3>1. [job[k] EXCEPT !.status = "cancelled"] \in JobRecords
      BY <1>t, RecordsStayRecords
    <3>2. Finishes(k, [job[k] EXCEPT !.status = "cancelled"])
      BY <1>1, <2>2 DEF Starts
    <3>3. pc'[k] = "finished" /\ job'[k].status = "cancelled" /\ job'[k].retry = job[k].retry
      BY <3>1, <3>2, <1>t, TheTail DEF IInv, Ended, JobRecords
    <3> QED
      BY <2>1, <3>3, <1>j DEF JobOK, Early, EndOK, Trying
  <2>3. CASE ~aborted
    <3>1. pc'[k] = "preparing" /\ job'[k].retry = job[k].retry /\ job'[k].check = job[k].check
      BY <1>1, <2>3, <1>t DEF Starts, IInv, TypeOK, Goes, Sets, JobRecords
    <3> QED
      BY <2>1, <3>1, <1>j DEF JobOK, Early, Trying
  <2> QED
    BY <2>2, <2>3
<1>2. CASE StartThrows(k)
  <2>1. /\ pc[k] = "waiting" /\ pass'[k] = pass[k] /\ pc'[k] = "thrown" /\ job'[k] = job[k]
    BY <1>2, <1>t DEF IInv, TypeOK, StartThrows, Goes
  <2> QED
    BY <2>1, <1>j DEF JobOK, Early, Trying
<1>3. CASE Prepared(k)
  <2>1. pc[k] = "preparing"
    BY <1>3 DEF Prepared
  <2>2. ASSUME NEW st \in {"cancelled", "skipped"}, pass' = pass,
               Finishes(k, [job[k] EXCEPT !.status = st])
        PROVE  JobOK(k)'
    <3>1. [job[k] EXCEPT !.status = st] \in JobRecords
      BY <1>t, RecordsStayRecords
    <3>2. pc'[k] = "finished" /\ job'[k].status = st /\ job'[k].retry = job[k].retry
      BY <3>1, <2>2, <1>t, TheTail DEF IInv, Ended, JobRecords
    <3> QED
      BY <2>1, <2>2, <3>2, <1>j DEF JobOK, Early, EndOK, Trying
  <2>3. CASE ~aborted /\ MayRun(k)
    <3>1. /\ pc'[k] = "attempt" /\ pass'[k] = "first" /\ job'[k].status = "running"
          /\ job'[k].retry = job[k].retry /\ job'[k].check = job[k].check
      BY <1>3, <2>3, <1>t DEF Prepared, IInv, TypeOK, Goes, Sets, JobRecords
    <3> QED
      BY <2>1, <3>1, <1>j DEF JobOK, Early, FirstOK, Trying
  <2> QED
    BY <1>3, <2>2, <2>3 DEF Prepared
\* A pass goes on, or ends otherwise than well.
<1>4. ASSUME pc[k] \in Trying, pass'[k] = pass[k], before' = before, draft' = draft,
             disk' = disk,
             \/ pc'[k] \in Trying /\ job'[k] = job[k]
             \/ pc'[k] = "passed" /\ job'[k] = job[k]
             \/ pc'[k] = "passed" /\ \E st \in {"cancelled", "skipped", "error"} :
                                        job'[k] = [job[k] EXCEPT !.status = st]
      PROVE  JobOK(k)'
  <2>1. CASE job'[k] = job[k]
    BY <1>4, <2>1, <1>j DEF JobOK, FirstOK, FixOK, CheckOK, Early, SloppyFirst, SetAside, KeptBeside, Shown, Trying
  <2>2. ASSUME pc'[k] = "passed", NEW st \in {"cancelled", "skipped", "error"}, 
               job'[k] = [job[k] EXCEPT !.status = st]
        PROVE  JobOK(k)'
    <3>1. /\ job'[k].status = st /\ job'[k].file = job[k].file /\ job'[k].slop = job[k].slop
          /\ job'[k].retry = job[k].retry /\ job'[k].check = job[k].check
      BY <2>2, <1>t DEF JobRecords
    <3> QED
      BY <1>4, <2>2, <3>1, <1>j DEF JobOK, FirstOK, FixOK, CheckOK, Early, SloppyFirst, SetAside, KeptBeside, Shown, Trying
  <2> QED
    BY <1>4, <2>1, <2>2
<1>5. CASE Attempts(k)
  <2>1. /\ pc[k] \in Trying /\ pass'[k] = pass[k] /\ before' = before /\ draft' = draft /\ disk' = disk
        /\ \/ pc'[k] = "call" /\ job'[k] = job[k]
           \/ pc'[k] = "passed" /\ \E st \in {"cancelled", "skipped"} : job'[k] = [job[k] EXCEPT !.status = st]
    BY <1>5 DEF Attempts, Passed, PassEnds, IInv, TypeOK, Goes, Sets, Trying, undo
  <2> QED
    BY <1>4, <2>1 DEF Trying
<1>6. CASE Answered(k) \/ CallCancelled(k) \/ CallFails(k) \/ CallRotates(k)
  <2>1. /\ pc[k] \in Trying /\ pass'[k] = pass[k] /\ before' = before /\ draft' = draft /\ disk' = disk
        /\ \/ pc'[k] \in {"save", "attempt", "passed"} /\ job'[k] = job[k]
           \/ pc'[k] = "passed" /\ \E st \in {"cancelled", "error"} : job'[k] = [job[k] EXCEPT !.status = st]
    BY <1>6 DEF Answered, CallCancelled, CallFails, CallRotates, Passed, PassEnds, IInv, TypeOK, Goes, Sets, Trying, undo
  <2> QED
    BY <1>4, <2>1 DEF Trying
\* Where a pass writes.
<1>f. pc[k] \in Trying =>
        /\ FileOf(k) \in Files
        /\ pass[k] = "first" => FileOf(k) = "main"
        /\ pass[k] = "fix" => FileOf(k) = "fix"
        /\ pass[k] = "check" => FileOf(k) = before[k].file
  BY <1>t, <1>j, WhereAPassWrites
<1>7. CASE Saves(k)
  <2> DEFINE f == FileOf(k)  d == <<pass[k], answer[k]>>
  <2>1. pc[k] = "save" /\ pc[k] \in Trying /\ f \in Files
    BY <1>7, <1>f DEF Saves, Trying
  <2>2. d \in Documents /\ d # Nothing /\ d[1] = pass[k] /\ d[2] = answer[k]
    BY <1>t DEF Documents, Nothing, Passes
  <2>3. /\ pc'[k] = "passed" /\ pass'[k] = pass[k] /\ before'[k] = before[k] /\ draft'[k] = draft[k]
        /\ disk'[k] = [disk[k] EXCEPT ![f] = d]
    BY <1>7 DEF Saves, PassEnds, IInv, TypeOK, Goes, undo
  <2>4. /\ job'[k].file = f /\ job'[k].answer = d
        /\ job'[k].status = IF answer[k] = "prose" THEN "error" ELSE "ok"
        /\ job'[k].slop = IF answer[k] = "prose" THEN job[k].slop ELSE P0(answer[k])
        /\ job'[k].retry = job[k].retry /\ job'[k].check = job[k].check
    BY <1>7, <1>t DEF Saves, IInv, TypeOK, Sets, JobRecords
  <2> HIDE DEF d, f
  <2>5. disk'[k][f] = d /\ \A g \in Files \ {f} : disk'[k][g] = disk[k][g]
    BY <2>1, <2>3, <1>t
  <2>6. job'[k].status = "ok" => Shown(k, job[k])'
    BY <2>1, <2>2, <2>4, <2>5 DEF Shown
  <2>7. CASE pass[k] = "first"
    <3>1. f = "main"
      BY <2>1, <2>7, <1>f DEF f
    <3> QED
      BY <2>1, <2>2, <2>3, <2>4, <2>6, <2>7, <3>1, <1>j DEF JobOK, FirstOK, Early, Trying
  <2>8. CASE pass[k] = "fix"
    <3>1. f = "fix" /\ disk'[k]["main"] = disk[k]["main"]
      BY <2>1, <2>5, <2>8, <1>f DEF f, Files
    <3> QED
      BY <2>1, <2>2, <2>3, <2>4, <2>6, <2>8, <3>1, <1>j DEF JobOK, FixOK, SloppyFirst, Shown, Trying
  <2>9. CASE pass[k] = "check"
    <3>1. f = before[k].file /\ (f = "fix" => disk'[k]["main"] = disk[k]["main"])
      BY <2>1, <2>5, <2>9, <1>f DEF f, Files
    <3> QED
      BY <2>1, <2>2, <2>3, <2>4, <2>6, <2>9, <3>1, <1>j DEF JobOK, CheckOK, SetAside, KeptBeside, Trying
  <2> QED
    BY <2>7, <2>8, <2>9, <1>t DEF Passes
<1>8. CASE SaveFails(k)
  <2> DEFINE f == FileOf(k)
  <2>1. pc[k] = "save" /\ pc[k] \in Trying /\ f \in Files
    BY <1>8, <1>f DEF SaveFails, Trying
  <2>2. PICK c : disk' = [disk EXCEPT ![k][f] = c]
    BY <1>8 DEF SaveFails
  <2>3. /\ pc'[k] = "passed" /\ pass'[k] = pass[k] /\ before'[k] = before[k] /\ draft'[k] = draft[k]
        /\ disk'[k] = [disk[k] EXCEPT ![f] = c]
    BY <1>8, <2>2 DEF SaveFails, StopsPaying, Passed, PassEnds, IInv, TypeOK, Goes, undo
  <2>4. /\ job'[k].status = "error" /\ job'[k].slop = job[k].slop /\ job'[k].file = job[k].file
        /\ job'[k].retry = job[k].retry /\ job'[k].check = job[k].check
    BY <1>8, <1>t DEF SaveFails, StopsPaying, Passed, IInv, TypeOK, Sets, JobRecords
  <2> HIDE DEF f
  <2>5. \A g \in Files \ {f} : disk'[k][g] = disk[k][g]
    BY <2>1, <2>3, <1>t
  <2>7. CASE pass[k] = "first"
    BY <2>1, <2>3, <2>4, <2>7, <1>j DEF JobOK, FirstOK, Early, Trying
  <2>8. CASE pass[k] = "fix"
    <3>1. disk'[k]["main"] = disk[k]["main"]
      BY <2>1, <2>5, <2>8, <1>f DEF f, Files
    <3> QED
      BY <2>1, <2>3, <2>4, <2>8, <3>1, <1>j DEF JobOK, FixOK, SloppyFirst, Shown, Trying
  <2>9. CASE pass[k] = "check"
    <3>1. f = before[k].file /\ (f = "fix" => disk'[k]["main"] = disk[k]["main"])
      BY <2>1, <2>5, <2>9, <1>f DEF f, Files
    <3> QED
      BY <2>1, <2>3, <2>4, <2>9, <3>1, <1>j DEF JobOK, CheckOK, SetAside, KeptBeside, Trying
  <2> QED
    BY <2>7, <2>8, <2>9, <1>t DEF Passes
\* A pass is over for good, or the self-check begins.
<1>c. ASSUME NEW r \in JobRecords, ChecksOrFinishes(k, r), pass' = pass, disk' = disk,
             r.status = "ok" => Shown(k, r), r.check = "none", KeptBeside(k, r),
             pass[k] # "first" => r.status = "ok"
      PROVE  JobOK(k)'
  <2>1. ASSUME NEW s \in JobRecords, Finishes(k, s), s.status = r.status, s.file = r.file,
               s.answer = r.answer, s.slop = r.slop, s.retry = r.retry
        PROVE  JobOK(k)'
    <3>1. /\ pc'[k] = "finished" /\ job'[k].status = Ended(r.status)
          /\ job'[k].file = r.file /\ job'[k].answer = r.answer
          /\ job'[k].slop = r.slop /\ job'[k].retry = r.retry
      BY <2>1, TheTail DEF IInv
    <3>2. job'[k].status = "ok" => r.status = "ok"
      BY <3>1 DEF Ended
    <3>3. r.status = "ok" => job'[k].status = "ok"
      BY <3>1 DEF Ended
    <3> QED
      BY <1>c, <3>1, <3>2, <3>3 DEF JobOK, EndOK, Shown, KeptBeside, Trying
  <2>2. CASE ~ChecksItself(k, r)
    BY <1>c, <2>1, <2>2 DEF ChecksOrFinishes
  <2>3. CASE ChecksItself(k, r) /\ k \notin Sighted
    <3>1. [r EXCEPT !.check = "skipped"] \in JobRecords
      BY <1>c, RecordsStayRecords
    <3>2. Finishes(k, [r EXCEPT !.check = "skipped"])
      BY <1>c, <2>3 DEF ChecksOrFinishes
    <3>3. /\ [r EXCEPT !.check = "skipped"].status = r.status
          /\ [r EXCEPT !.check = "skipped"].file = r.file
          /\ [r EXCEPT !.check = "skipped"].answer = r.answer
          /\ [r EXCEPT !.check = "skipped"].slop = r.slop
          /\ [r EXCEPT !.check = "skipped"].retry = r.retry
      BY <1>c DEF JobRecords
    <3> QED
      BY <2>1, <3>1, <3>2, <3>3
  <2>4. CASE ChecksItself(k, r) /\ k \in Sighted
    <3>1. pc'[k] = "render" /\ job'[k] = r /\ r.status = "ok"
      BY <1>c, <2>4 DEF ChecksOrFinishes, ChecksItself, Goes, Sets, IInv, TypeOK
    <3> QED
      BY <1>c, <3>1 DEF JobOK, Shown, KeptBeside, Trying
  <2> QED
    BY <2>2, <2>3, <2>4
<1>9. CASE AfterFirst(k)
  <2>1. pc[k] = "passed" /\ pass[k] = "first" /\ FirstOK(k) /\ disk' = disk
    BY <1>9, <1>j DEF AfterFirst, JobOK
  <2>2. CASE job[k].status = "ok" /\ job[k].slop > 0 /\ ~aborted
    <3>1. /\ pc'[k] = "attempt" /\ pass'[k] = "fix" /\ before'[k] = job[k] /\ job'[k] = job[k]
      BY <1>9, <2>2 DEF AfterFirst, IInv, TypeOK, Goes
    <3>2. Shown(k, job[k]) /\ job[k].file = "main" /\ job[k].answer = <<"first", "sloppy">>
      BY <2>1, <2>2, <1>t DEF FirstOK, Shown, P0, Documents
    <3> QED
      BY <2>1, <2>2, <3>1, <3>2 DEF JobOK, FirstOK, Early, FixOK, SloppyFirst, Shown, Trying
  <2>3. CASE ~(job[k].status = "ok" /\ job[k].slop > 0 /\ ~aborted)
    <3>1. ChecksOrFinishes(k, job[k]) /\ pass' = pass
      BY <1>9, <2>3 DEF AfterFirst
    <3> QED
      BY <2>1, <3>1, <1>c, <1>t DEF FirstOK, Early, KeptBeside
  <2> QED
    BY <2>2, <2>3
<1>10. CASE AfterFix(k)
  <2>1. pc[k] = "passed" /\ pass[k] = "fix" /\ FixOK(k) /\ disk' = disk /\ pass' = pass
    BY <1>10, <1>j DEF AfterFix, JobOK
  <2>2. disk[k]["main"] = <<"first", "sloppy">> /\ before[k].slop = 1
    BY <2>1 DEF FixOK, SloppyFirst, Shown, P0
  <2>3. CASE Cleaner(k)
    <3> DEFINE r == [job[k] EXCEPT !.retry = "kept"]
    <3>1. ChecksOrFinishes(k, r) /\ r \in JobRecords
      BY <1>10, <1>t, <2>3, RecordsStayRecords DEF AfterFix
    <3>2. /\ r.status = job[k].status /\ r.file = job[k].file /\ r.answer = job[k].answer
          /\ r.slop = job[k].slop /\ r.check = job[k].check
      BY <1>t DEF JobRecords
    <3>3. job[k].status = "ok" /\ job[k].slop = 0 /\ job[k] # before[k]
      BY <2>2, <2>3, <1>t DEF Cleaner, JobRecords
    <3> HIDE DEF r
    <3>4. Shown(k, r) /\ KeptBeside(k, r) /\ r.check = "none" /\ r.status = "ok"
      BY <2>1, <2>2, <3>2, <3>3 DEF FixOK, Shown, KeptBeside
    <3> QED
      BY <2>1, <3>1, <3>4, <1>c
  <2>4. CASE ~Cleaner(k)
    <3> DEFINE r == [before[k] EXCEPT !.retry = "dropped"]
    <3>1. ChecksOrFinishes(k, r) /\ r \in JobRecords
      BY <1>10, <1>t, <2>4, RecordsStayRecords DEF AfterFix
    <3>2. /\ r.status = before[k].status /\ r.file = before[k].file /\ r.answer = before[k].answer
          /\ r.slop = before[k].slop /\ r.check = before[k].check /\ r.retry = "dropped"
      BY <1>t DEF JobRecords
    <3> HIDE DEF r
    <3>4. Shown(k, r) /\ KeptBeside(k, r) /\ r.check = "none" /\ r.status = "ok"
      BY <2>1, <3>2 DEF FixOK, SloppyFirst, Shown, KeptBeside
    <3> QED
      BY <2>1, <3>1, <3>4, <1>c
  <2> QED
    BY <2>3, <2>4
<1>11. CASE RenderSkips(k)
  <2> DEFINE r == [job[k] EXCEPT !.check = "skipped"]
  <2>1. Finishes(k, r) /\ r \in JobRecords /\ disk' = disk /\ pass' = pass
    BY <1>11, <1>t, RecordsStayRecords DEF RenderSkips
  <2>2. /\ r.status = job[k].status /\ r.file = job[k].file /\ r.answer = job[k].answer
        /\ r.slop = job[k].slop /\ r.retry = job[k].retry
    BY <1>t DEF JobRecords
  <2>3. job[k].status = "ok" /\ Shown(k, job[k]) /\ KeptBeside(k, job[k])
    BY <1>11, <1>j DEF RenderSkips, JobOK
  <2> HIDE DEF r
  <2>4. /\ pc'[k] = "finished" /\ job'[k].status = "ok"
        /\ job'[k].file = job[k].file /\ job'[k].answer = job[k].answer
        /\ job'[k].slop = job[k].slop /\ job'[k].retry = job[k].retry
    BY <2>1, <2>2, <2>3, TheTail DEF IInv, Ended
  <2> QED
    BY <2>1, <2>3, <2>4 DEF JobOK, EndOK, Shown, KeptBeside, Trying
<1>12. CASE Renders(k)
  <2>1. job[k].status = "ok" /\ Shown(k, job[k]) /\ job[k].check = "none" /\ KeptBeside(k, job[k])
    BY <1>12, <1>j DEF Renders, JobOK
  <2>2. /\ pc'[k] = "attempt" /\ pass'[k] = "check" /\ before'[k] = job[k] /\ disk' = disk
        /\ UnreadableDrafts \/ draft'[k] = disk[k][job[k].file]
        /\ job'[k] = [job[k] EXCEPT !.status = "running"]
    BY <1>12 DEF Renders, IInv, TypeOK, Goes, Sets
  <2>3. /\ job'[k].status = "running" /\ job'[k].slop = job[k].slop /\ job'[k].retry = job[k].retry
        /\ job'[k].file = job[k].file
    BY <2>2, <1>t DEF JobRecords
  <2> QED
    BY <2>1, <2>2, <2>3 DEF JobOK, CheckOK, SetAside, Shown, KeptBeside, Trying
<1>13. CASE AfterCheck(k)
  <2>1. pc[k] = "passed" /\ pass[k] = "check" /\ CheckOK(k) /\ disk' = disk /\ pass' = pass
    BY <1>13, <1>j DEF AfterCheck, JobOK
  <2>2. CASE Revised(k)
    <3> DEFINE r == [job[k] EXCEPT !.check = "revised"]
    <3>1. Finishes(k, r) /\ r \in JobRecords
      BY <1>13, <1>t, <2>2, RecordsStayRecords DEF AfterCheck
    <3>2. /\ r.status = "ok" /\ r.file = job[k].file /\ r.answer = job[k].answer
          /\ r.slop = job[k].slop /\ r.retry = job[k].retry /\ r.check = "revised"
      BY <1>t, <2>2 DEF JobRecords, Revised
    <3> HIDE DEF r
    <3>3. /\ pc'[k] = "finished" /\ job'[k].status = "ok" /\ job'[k].check = "revised"
          /\ job'[k].file = job[k].file /\ job'[k].answer = job[k].answer
          /\ job'[k].slop = job[k].slop /\ job'[k].retry = job[k].retry
      BY <3>1, <3>2, TheTail DEF IInv, Ended
    <3>4. job[k].status = "ok"
      BY <2>2 DEF Revised
    <3> QED
      BY <2>1, <3>3, <3>4 DEF JobOK, EndOK, CheckOK, SetAside, Shown, KeptBeside, Trying
  <2>3. CASE ~Revised(k)
    <3>1. /\ pc'[k] = "restore" /\ job'[k] = job[k] /\ before'[k] = before[k] /\ draft'[k] = draft[k]
      BY <1>13, <2>3 DEF AfterCheck, IInv, TypeOK, Goes, undo
    <3>2. job[k].status = "ok" => job[k].slop = 0
      BY <2>1, <2>3 DEF CheckOK, Shown, P0, Revised
    <3> QED
      BY <2>1, <3>1, <3>2 DEF JobOK, CheckOK, SetAside, KeptBeside, Trying
  <2> QED
    BY <2>2, <2>3
\* The first pass is put back, or cannot be.
<1>r. pc[k] = "restore" =>
        /\ SetAside(k) /\ before[k].file \in Files
        /\ before[k].retry = "kept" => job[k].slop = 0
  BY <1>j DEF JobOK, SetAside
<1>14. CASE Restores(k)
  <2> DEFINE r == [before[k] EXCEPT !.status = "ok", !.check = "kept"]
             f == before[k].file
  <2>1. Finishes(k, r) /\ r \in JobRecords /\ pass' = pass /\ SetAside(k) /\ f \in Files
    BY <1>14, <1>t, <1>r, RecordsStayRecords DEF Restores
  <2>2. /\ r.status = "ok" /\ r.file = f /\ r.answer = before[k].answer
        /\ r.slop = before[k].slop /\ r.retry = before[k].retry
    BY <1>t DEF JobRecords
  <2> HIDE DEF r
  <2>3. /\ pc'[k] = "finished" /\ job'[k].status = "ok"
        /\ job'[k].file = f /\ job'[k].answer = before[k].answer
        /\ job'[k].slop = before[k].slop /\ job'[k].retry = before[k].retry
    BY <2>1, <2>2, TheTail DEF IInv, Ended
  <2>4. disk'[k] = [disk[k] EXCEPT ![f] = IF draft[k] = Nothing THEN @ ELSE draft[k]]
    BY <1>14 DEF Restores, IInv, TypeOK
  <2>5. /\ \A g \in Files \ {f} : disk'[k][g] = disk[k][g]
        /\ draft[k] # Nothing => disk'[k][f] = draft[k]
    BY <2>1, <2>4, <1>t
  <2>6. before[k].answer # Nothing
    BY <2>1 DEF SetAside, Documents, Nothing, Passes
  <2>7. UnreadableDrafts \/ Shown(k, job[k])'
    BY <2>1, <2>3, <2>5, <2>6 DEF SetAside, Shown
  <2>8. before[k].retry = "kept" => disk'[k]["main"] = <<"first", "sloppy">> /\ f = "fix" /\ before[k].slop = 0
    BY <2>1, <2>5 DEF SetAside, KeptBeside, Files
  <2> QED
    BY <2>1, <2>3, <2>7, <2>8 DEF JobOK, EndOK, Trying
<1>15. CASE RestoreFails(k)
  <2> DEFINE r == [job[k] EXCEPT !.status = "error", !.check = "kept"]
             f == before[k].file
  <2>1. Finishes(k, r) /\ r \in JobRecords /\ pass' = pass /\ SetAside(k) /\ f \in Files
    BY <1>15, <1>t, <1>r, RecordsStayRecords DEF RestoreFails
  <2>2. r.status = "error" /\ r.file = job[k].file /\ r.slop = job[k].slop /\ r.retry = job[k].retry /\ r.check = "kept"
    BY <1>t DEF JobRecords
  <2> HIDE DEF r
  <2>3. /\ pc'[k] = "finished" /\ job'[k].status = "error" /\ job'[k].check = "kept"
        /\ job'[k].file = job[k].file /\ job'[k].slop = job[k].slop /\ job'[k].retry = job[k].retry
    BY <2>1, <2>2, TheTail DEF IInv, Ended
  <2>4. PICK c : disk' = [disk EXCEPT ![k][f] = c]
    BY <1>15 DEF RestoreFails
  <2>5. disk'[k] = [disk[k] EXCEPT ![f] = c]
    BY <2>4 DEF IInv, TypeOK
  <2>6. \A g \in Files \ {f} : disk'[k][g] = disk[k][g]
    BY <2>1, <2>5, <1>t
  <2>7. outputFails' > 0
    BY <1>15, <1>t DEF RestoreFails
  <2>8. job[k].retry = "kept" => disk'[k]["main"] = <<"first", "sloppy">> /\ job[k].file = "fix" /\ job[k].slop = 0
    BY <1>15, <1>r, <2>1, <2>6 DEF RestoreFails, SetAside, KeptBeside, Files
  <2> QED
    BY <2>1, <2>3, <2>7, <2>8 DEF JobOK, EndOK, Trying
<1> QED
  BY <1>1, <1>2, <1>3, <1>5, <1>6, <1>7, <1>8, <1>9, <1>10, <1>11, <1>12, <1>13, <1>14, <1>15 DEF Works

-----------------------------------------------------------------------------
(* The rest of a worker's step.                                            *)

\* A job is paid for, and tried, as often as its pass allows.
LEMMA TriesStep ==
    ASSUME JobWorkerAssumption, TypeOK, PaidOK, OpenUntilSettled, NEW k \in Jobs, Works(k)
    PROVE  PaidOK'
<1>1. \A i \in Jobs \ {k} : pc'[i] = pc[i] /\ tries'[i] = tries[i] /\ paid'[i] = paid[i]
  BY OnlyItsOwn DEF Of
<1>t. Budget \in Nat \ {0} /\ tries[k] \in Nat /\ pc \in [Jobs -> {pc[j] : j \in Jobs}]
  BY DEF JobWorkerAssumption, TypeOK
<1>k. /\ paid[k] => pc[k] = "save"
      /\ pc[k] = "attempt" => tries[k] < Budget
      /\ pc[k] \notin Trying => tries[k] = 0
  BY DEF PaidOK
<1>e. PassEnds(k) => pc'[k] = "passed" /\ tries'[k] = 0 /\ paid'[k] = FALSE
  BY DEF PassEnds, Goes, TypeOK
<1> DEFINE Fine == /\ paid'[k] => pc'[k] = "save"
                   /\ pc'[k] = "attempt" => tries'[k] < Budget
                   /\ pc'[k] \notin Trying => tries'[k] = 0
<1>s. SUFFICES Fine
  BY <1>1 DEF PaidOK
<1>p. PassEnds(k) => Fine
  BY <1>e
\* Neither at its attempts before the step nor within one after it.
<1>o. ASSUME pc[k] \notin Trying, tries'[k] = tries[k], paid'[k] = paid[k] PROVE Fine
  BY <1>o, <1>k, <1>t DEF Trying
<1>2. CASE Starts(k) \/ StartThrows(k) \/ Prepared(k)
  BY <1>2, <1>o DEF Starts, StartThrows, Prepared, Trying
<1>3. CASE Attempts(k)
  <2>1. CASE PassEnds(k)
    BY <2>1, <1>p
  <2>2. CASE ~PassEnds(k)
    BY <1>3, <2>2, <1>t, <1>k DEF Attempts, Passed, Goes, Trying, TypeOK
  <2> QED
    BY <2>1, <2>2
<1>4. CASE Answered(k)
  BY <1>4, <1>t, <1>k DEF Answered, Goes, Trying, TypeOK
<1>5. CASE CallCancelled(k) \/ CallFails(k) \/ Saves(k) \/ SaveFails(k)
  BY <1>5, <1>p DEF CallCancelled, CallFails, Saves, SaveFails, StopsPaying, Passed
<1>6. CASE CallRotates(k)
  <2>1. CASE PassEnds(k)
    BY <2>1, <1>p
  <2>2. CASE ~PassEnds(k)
    BY <1>6, <2>2, <1>t, <1>k DEF CallRotates, Goes, Trying, TypeOK
  <2> QED
    BY <2>1, <2>2
<1>7. CASE AfterFirst(k) \/ AfterFix(k) \/ RenderSkips(k) \/ Renders(k)
  BY <1>7, <1>o DEF AfterFirst, AfterFix, RenderSkips, Renders, Trying
<1>8. CASE AfterCheck(k) \/ Restores(k) \/ RestoreFails(k)
  BY <1>8, <1>o DEF AfterCheck, Restores, RestoreFails, Trying
<1> QED
  BY <1>2, <1>3, <1>4, <1>5, <1>6, <1>7, <1>8 DEF Works

\* The jobs that are counted, and as what, are counted once more when one ends ...
LEMMA OneMoreIsCounted ==
    ASSUME JobWorkerAssumption, TypeOK, CountedOnce, NEW k \in Jobs, Ends(k),
           phase = "open", phase' = phase, ~Settled(k)
    PROVE  CountedOnce'
<1>1. PICK r \in JobRecords : Finishes(k, r)
  BY DEF Ends
<1> DEFINE c0 == Counted[Ended(r.status)]
<1>2. /\ pc' = [pc EXCEPT ![k] = "finished"] /\ pc[k] # "finished"
      /\ job' = [job EXCEPT ![k] = job'[k]] /\ job'[k].status = Ended(r.status)
      /\ counts' = [counts EXCEPT ![c0] = @ + 1]
  <2>1. pc' = [pc EXCEPT ![k] = "finished"] /\ pc[k] # "finished" /\ counts' = [counts EXCEPT ![c0] = @ + 1]
    BY <1>1 DEF Finishes, Goes, Counts, Settled
  <2>2. job' = [job EXCEPT ![k] = job'[k]]
    BY <1>1 DEF Finishes, Sets, TypeOK
  <2>3. job'[k].status = Ended(r.status)
    BY <1>1, TheTail
  <2> QED
    BY <2>1, <2>2, <2>3
<1>3. Ended(r.status) \in DOMAIN Counted /\ c0 \in {"ok", "skipped", "error"}
  BY DEF Counted, Ended
<1>4. Finished' = Finished \cup {k} /\ k \notin Finished /\ Finished \subseteq Jobs
  BY <1>2 DEF Finished, TypeOK
<1>5. \A c : CountedAs(c)' = {j \in Finished \cup {k} : job'[j].status \in {st \in DOMAIN Counted : Counted[st] = c}}
  BY <1>4 DEF CountedAs, Accounted
<1>6. \A c : CountedAs(c) = {j \in Finished : job[j].status \in {st \in DOMAIN Counted : Counted[st] = c}}
  BY DEF CountedAs, Accounted
<1>7. \A j \in Finished : job'[j] = job[j]
  BY <1>2, <1>4 DEF TypeOK
<1>8. CountedAs(c0)' = CountedAs(c0) \cup {k} /\ k \notin CountedAs(c0)
  BY <1>2, <1>3, <1>4, <1>5, <1>6, <1>7
<1>9. \A c : c # c0 => CountedAs(c)' = CountedAs(c)
  BY <1>2, <1>3, <1>4, <1>5, <1>6, <1>7
<1>10. IsFiniteSet(CountedAs(c0))
  BY <1>4, <1>6, FS_Subset DEF JobWorkerAssumption
<1>11. Cardinality(CountedAs(c0) \cup {k}) = Cardinality(CountedAs(c0)) + 1
  BY <1>8, <1>10, FS_AddElement
<1>12. DOMAIN counts = {"ok", "skipped", "error"} /\ DOMAIN counts' = {"ok", "skipped", "error"}
  BY <1>2 DEF TypeOK
<1> HIDE DEF c0
<1>13. counts'[c0] = Cardinality(CountedAs(c0)')
  BY <1>2, <1>3, <1>8, <1>11, <1>12 DEF CountedOnce
<1>14. ASSUME NEW c \in {"ok", "skipped", "error"}, c # c0 PROVE counts'[c] = Cardinality(CountedAs(c)')
  BY <1>2, <1>9, <1>12, <1>14 DEF CountedOnce
<1>15. \A c \in DOMAIN counts' : counts'[c] = Cardinality(CountedAs(c)')
  BY <1>12, <1>13, <1>14
<1> QED
  BY <1>15 DEF CountedOnce

\* ... and are the same otherwise.
LEMMA TheSameAreCounted ==
    ASSUME CountedOnce, counts' = counts, (phase = "open") = (phase' = "open"),
           \A j \in Jobs : pc[j] = "finished" <=> pc'[j] = "finished",
           \A j \in Accounted : job'[j] = job[j]
    PROVE  CountedOnce'
<1>1. Accounted' = Accounted
  BY DEF Accounted, Finished
<1>2. \A c : CountedAs(c)' = CountedAs(c)
  BY <1>1 DEF CountedAs
<1> QED
  BY <1>2 DEF CountedOnce

LEMMA CountStep ==
    ASSUME JobWorkerAssumption, TypeOK, OpenUntilSettled, CountedOnce, NEW k \in Jobs, Works(k)
    PROVE  CountedOnce'
<1>1. phase = "open" /\ phase' = phase /\ ~Settled(k) /\ \A i \in Jobs \ {k} : Of(i)' = Of(i)
  BY OnlyItsOwn DEF run
<1>2. CASE Ends(k)
  BY <1>1, <1>2, OneMoreIsCounted
<1>3. CASE GoesOn(k)
  <2>1. \A i \in Jobs \ {k} : pc'[i] = pc[i] /\ job'[i] = job[i]
    BY <1>1 DEF Of
  <2>2. \A j \in Jobs : pc[j] = "finished" <=> pc'[j] = "finished"
    BY <1>1, <1>3, <2>1 DEF GoesOn, Settled
  <2>3. \A j \in Accounted : job'[j] = job[j]
    BY <1>1, <2>1 DEF Accounted, Finished, Settled
  <2> QED
    BY <1>1, <1>3, <2>2, <2>3, TheSameAreCounted DEF GoesOn
<1> QED
  BY <1>2, <1>3, EndsOrGoesOn

\* A job goes on with the answers of its helpers.
LEMMA HelpersStep ==
    ASSUME JobWorkerAssumption, TypeOK, OpenUntilSettled, HelpersOK, NEW k \in Jobs, Works(k)
    PROVE  HelpersOK'
<1>1. /\ phase = "open" /\ ~Settled(k) /\ aborted' = aborted
      /\ \A i \in Jobs \ {k} : pc'[i] = pc[i]
  BY OnlyItsOwn DEF Of
<1>2. CASE Starts(k)
  BY <1>1, <1>2 DEF Starts, HelpersOK, AsksHelpers, Asked, Finishes, Goes, TypeOK, helpers, JobWorkerAssumption
<1>3. CASE StartThrows(k)
  BY <1>1, <1>3 DEF StartThrows, HelpersOK, Asked, Goes, TypeOK, JobWorkerAssumption
<1>4. CASE Prepared(k)
  BY <1>1, <1>4 DEF Prepared, HelpersOK, TypeOK, helpers
<1>5. CASE captions' = captions /\ crops' = crops /\ pc[k] \notin {"waiting", "preparing", "thrown"}
  BY <1>1, <1>5 DEF HelpersOK
<1>6. CASE Attempts(k) \/ Answered(k) \/ CallCancelled(k) \/ CallFails(k) \/ CallRotates(k)
  BY <1>6, <1>5 DEF Attempts, Answered, CallCancelled, CallFails, CallRotates, helpers
<1>7. CASE Saves(k) \/ SaveFails(k) \/ AfterFirst(k) \/ AfterFix(k)
  BY <1>7, <1>5 DEF Saves, SaveFails, AfterFirst, AfterFix, helpers
<1>8. CASE RenderSkips(k) \/ Renders(k) \/ AfterCheck(k) \/ Restores(k) \/ RestoreFails(k)
  BY <1>8, <1>5 DEF RenderSkips, Renders, AfterCheck, Restores, RestoreFails, helpers
<1> QED
  BY <1>2, <1>3, <1>4, <1>6, <1>7, <1>8 DEF Works

\* What a worker spends is noted, and the run is still open to write it.
LEMMA SavedStep ==
    ASSUME TypeOK, OpenUntilSettled, SavedOK, NEW k \in Jobs, Works(k)
    PROVE  SavedOK'
<1>1. /\ phase = "open" /\ ~Settled(k)
      /\ UNCHANGED <<run, aborted, manifestFails, summary>>
      /\ \A i \in Jobs \ {k} : pc'[i] = pc[i]
  BY OnlyItsOwn DEF Of
<1>2. UNCHANGED ledger \/ (dirty' = TRUE /\ unsaved' = unsaved \cup {"awaited"})
  BY <1>1, WorkersLedger
<1>3. "late" \notin unsaved'
  BY <1>1, <1>2 DEF SavedOK, ledger
<1> QED
  BY <1>1, <1>2, <1>3 DEF SavedOK, run, ledger

-----------------------------------------------------------------------------
(* Types.                                                                  *)

Places == {"waiting", "preparing", "attempt", "call", "save", "passed", "render", "restore",
           "finished", "thrown"}

\* What the worker writes of its place, its job and the ledger.
Written ==
    /\ pc \in [Jobs -> Places] /\ job \in [Jobs -> JobRecords]
    /\ counts \in [{"ok", "skipped", "error"} -> Nat]
    /\ dirty \in BOOLEAN /\ unsaved \subseteq {"awaited", "late"}

\* What it keeps to itself.
Kept ==
    /\ pass \in [Jobs -> Passes] /\ tries \in [Jobs -> 0 .. Budget] /\ answer \in [Jobs -> Answers]
    /\ before \in [Jobs -> JobRecords] /\ draft \in [Jobs -> Documents \cup {Nothing, Torn}]
    /\ disk \in [Jobs -> [Files -> Documents \cup {Nothing, Torn}]]
    /\ paid \in [Jobs -> BOOLEAN] /\ outputFails \in 0 .. MaxOutputFails
    /\ captions \in [Inputs -> {"none", "asked", "given", "failed"}]
    /\ crops \in [Inputs -> {"none", "asked", "settled"}]

LEMMA TheTailIsTyped ==
    ASSUME Written, NEW k \in Jobs, NEW r \in JobRecords, Finishes(k, r)
    PROVE  Written'
<1>1. [r EXCEPT !.status = Ended(r.status)] \in JobRecords
  BY RecordsStayRecords
<1>2. Counted[Ended(r.status)] \in {"ok", "skipped", "error"}
  BY DEF Counted, Ended
<1> QED
  BY <1>1, <1>2 DEF Written, Finishes, Goes, Sets, Counts, Places

\* The place, the job and the ledger, after a worker's step.
LEMMA WrittenStep ==
    ASSUME JobWorkerAssumption, TypeOK, NEW k \in Jobs, Works(k)
    PROVE  Written'
<1>t. /\ Written /\ job[k] \in JobRecords /\ before[k] \in JobRecords
      /\ answer[k] \in Answers /\ pass[k] \in Passes
  BY DEF TypeOK, Written, Places
<1>r. /\ [job[k] EXCEPT !.status = "cancelled"] \in JobRecords
      /\ [job[k] EXCEPT !.status = "skipped"] \in JobRecords
      /\ [job[k] EXCEPT !.status = "error"] \in JobRecords
      /\ [job[k] EXCEPT !.status = "running"] \in JobRecords
      /\ [job[k] EXCEPT !.check = "skipped"] \in JobRecords
      /\ [job[k] EXCEPT !.check = "revised"] \in JobRecords
      /\ [job[k] EXCEPT !.retry = "kept"] \in JobRecords
      /\ [before[k] EXCEPT !.retry = "dropped"] \in JobRecords
      /\ [before[k] EXCEPT !.status = "ok", !.check = "kept"] \in JobRecords
      /\ [job[k] EXCEPT !.status = "error", !.check = "kept"] \in JobRecords
  BY <1>t, RecordsStayRecords
<1>f. \A r \in JobRecords : Finishes(k, r) => Written'
  BY <1>t, TheTailIsTyped
<1>g. ASSUME NEW to \in Places, Goes(k, to), NEW r \in JobRecords, Sets(k, r) \/ job' = job,
             counts' = counts, UNCHANGED ledger \/ Records
      PROVE  Written'
  BY <1>g, <1>t DEF Written, Goes, Sets, Records, ledger
<1>c. ASSUME NEW r \in JobRecords, ChecksOrFinishes(k, r) PROVE Written'
  <2>1. [r EXCEPT !.check = "skipped"] \in JobRecords
    BY RecordsStayRecords
  <2>2. CASE Goes(k, "render") /\ Sets(k, r) /\ UNCHANGED <<counts, ledger>>
    BY <2>2, <1>g DEF Places
  <2> QED
    BY <1>c, <2>1, <2>2, <1>f DEF ChecksOrFinishes
<1>p. ASSUME NEW st \in {"cancelled", "skipped", "error"}, Passed(k, st), counts' = counts,
             UNCHANGED ledger \/ Records
      PROVE  Written'
  BY <1>p, <1>t, <1>r, <1>g DEF Passed, PassEnds, Places
<1>1. CASE Starts(k) \/ StartThrows(k) \/ Prepared(k)
  BY <1>1, <1>t, <1>r, <1>f, <1>g DEF Starts, StartThrows, Prepared, Places
<1>2. CASE Attempts(k) \/ Answered(k) \/ CallCancelled(k) \/ CallFails(k) \/ CallRotates(k)
  BY <1>2, <1>t, <1>p, <1>g DEF Attempts, Answered, CallCancelled, CallFails, CallRotates, MayRecord, PassEnds, Places
<1>3. CASE Saves(k)
  <2> DEFINE f == FileOf(k)
             d == <<pass[k], answer[k]>>
             st == IF answer[k] = "prose" THEN "error" ELSE "ok"
             sl == IF answer[k] = "prose" THEN job[k].slop ELSE P0(answer[k])
             r == [job[k] EXCEPT !.file = f, !.answer = d, !.status = st, !.slop = sl]
  <2>1. f \in Files \cup {"none"} /\ d \in Documents /\ st \in {"ok", "error"} /\ sl \in {0, 1}
    BY <1>t DEF FileOf, Files, Documents, JobRecords, P0
  <2>2. r \in JobRecords
    <3> HIDE DEF f, d, st, sl
    <3> QED
      BY <1>t, <2>1 DEF JobRecords
  <2>3. Goes(k, "passed") /\ Sets(k, r) /\ counts' = counts /\ UNCHANGED ledger
    BY <1>3 DEF Saves, PassEnds
  <2> HIDE DEF r
  <2> QED
    BY <2>2, <2>3, <1>g DEF Places
<1>4. CASE SaveFails(k)
  BY <1>4, <1>p DEF SaveFails, StopsPaying
<1>5. CASE AfterFirst(k)
  BY <1>5, <1>t, <1>c, <1>g DEF AfterFirst, Places
<1>6. CASE AfterFix(k)
  BY <1>6, <1>t, <1>r, <1>c DEF AfterFix
<1>7. CASE RenderSkips(k) \/ Renders(k) \/ AfterCheck(k)
  BY <1>7, <1>t, <1>r, <1>f, <1>g DEF RenderSkips, Renders, AfterCheck, Places
<1>8. CASE Restores(k) \/ RestoreFails(k)
  BY <1>8, <1>r, <1>f DEF Restores, RestoreFails
<1> QED
  BY <1>1, <1>2, <1>3, <1>4, <1>5, <1>6, <1>7, <1>8 DEF Works

\* The rest of what a worker holds.
LEMMA KeptStep ==
    ASSUME JobWorkerAssumption, TypeOK, PaidOK, NEW k \in Jobs, Works(k), JobOK(k)
    PROVE  Kept'
<1>t. Kept /\ job[k] \in JobRecords /\ Budget \in Nat \ {0} /\ MaxOutputFails \in Nat
  BY DEF TypeOK, Kept, JobWorkerAssumption
<1>e. PassEnds(k) => /\ tries' \in [Jobs -> 0 .. Budget] /\ answer' \in [Jobs -> Answers]
                     /\ paid' \in [Jobs -> BOOLEAN]
  BY <1>t DEF Kept, PassEnds, Answers
<1>u. Forgets(k) => /\ before' \in [Jobs -> JobRecords]
                    /\ draft' \in [Jobs -> Documents \cup {Nothing, Torn}]
  <2>1. Fresh \in JobRecords
    BY DEF Fresh, JobRecords
  <2> HIDE DEF Fresh
  <2> QED
    BY <1>t, <2>1 DEF Forgets, Kept
<1>w. ASSUME NEW f \in Files, NEW c \in Documents \cup {Nothing, Torn}, disk' = [disk EXCEPT ![k][f] = c]
      PROVE  disk' \in [Jobs -> [Files -> Documents \cup {Nothing, Torn}]]
  BY <1>w, <1>t DEF Kept
<1>h. ASSUME NEW f \in Files PROVE disk[k][f] \in Documents \cup {Nothing, Torn}
  BY <1>t DEF Kept
<1>d. <<pass[k], answer[k]>> \in Documents
  BY <1>t DEF Kept, Documents
<1>1. CASE Starts(k) \/ StartThrows(k) \/ Prepared(k)
  BY <1>1, <1>t DEF Starts, StartThrows, Prepared, AsksHelpers, Asked, undo, helpers, Kept, JobWorkerAssumption, Passes
<1>2. CASE Attempts(k)
  <2>1. CASE PassEnds(k)
    BY <1>2, <2>1, <1>t, <1>e DEF Attempts, undo, helpers, Kept
  <2>2. CASE ~PassEnds(k)
    <3>1. tries' = [tries EXCEPT ![k] = tries[k] + 1] /\ tries[k] < Budget /\ answer' = answer /\ paid' = paid
      BY <1>2, <2>2 DEF Attempts, Passed, PaidOK
    <3>2. tries' \in [Jobs -> 0 .. Budget]
      BY <3>1, <1>t DEF Kept
    <3> QED
      BY <1>2, <3>1, <3>2, <1>t DEF Attempts, undo, helpers, Kept
  <2> QED
    BY <2>1, <2>2
<1>3. CASE Answered(k)
  BY <1>3, <1>t DEF Answered, undo, helpers, Kept
<1>4. CASE CallCancelled(k) \/ CallFails(k) \/ CallRotates(k)
  BY <1>4, <1>t, <1>e DEF CallCancelled, CallFails, CallRotates, Passed, undo, helpers, Kept
<1>5. CASE Saves(k)
  <2>1. FileOf(k) \in Files
    BY <1>5, <1>t, WhereAPassWrites DEF Saves, Kept, Trying
  <2>2. disk' = [disk EXCEPT ![k][FileOf(k)] = <<pass[k], answer[k]>>]
    BY <1>5 DEF Saves
  <2>3. disk' \in [Jobs -> [Files -> Documents \cup {Nothing, Torn}]]
    BY <2>1, <2>2, <1>d, <1>w
  <2> QED
    BY <1>5, <2>3, <1>t, <1>e DEF Saves, undo, helpers, Kept
<1>6. CASE SaveFails(k)
  <2>1. FileOf(k) \in Files
    BY <1>6, <1>t, WhereAPassWrites DEF SaveFails, Kept, Trying
  <2>2. PICK c \in {disk[k][FileOf(k)], Torn, <<pass[k], answer[k]>>} : disk' = [disk EXCEPT ![k][FileOf(k)] = c]
    BY <1>6 DEF SaveFails
  <2>3. c \in Documents \cup {Nothing, Torn}
    BY <2>1, <1>h, <1>d
  <2>4. disk' \in [Jobs -> [Files -> Documents \cup {Nothing, Torn}]]
    BY <2>1, <2>2, <2>3, <1>w
  <2>5. outputFails' \in 0 .. MaxOutputFails
    BY <1>6, <1>t DEF SaveFails, Kept
  <2> QED
    BY <1>6, <2>4, <2>5, <1>t, <1>e DEF SaveFails, StopsPaying, Passed, undo, helpers, Kept
<1>7. CASE AfterFirst(k) \/ RenderSkips(k)
  BY <1>7, <1>t DEF AfterFirst, RenderSkips, undo, helpers, Kept, Passes
<1>8. CASE AfterFix(k)
  BY <1>8, <1>t, <1>u DEF AfterFix, helpers, Kept
<1>9. CASE Renders(k)
  <2>1. job[k].file \in Files
    BY <1>9 DEF Renders, JobOK, Shown
  <2> QED
    BY <1>9, <2>1, <1>t DEF Renders, helpers, Kept, Passes
<1>10. CASE AfterCheck(k)
  BY <1>10, <1>t, <1>u DEF AfterCheck, undo, helpers, Kept
<1>r. pc[k] = "restore" => before[k].file \in Files
  BY DEF JobOK, SetAside
<1>11. CASE Restores(k)
  <2> DEFINE c == IF draft[k] = Nothing THEN disk[k][before[k].file] ELSE draft[k]
  <2>1. before[k].file \in Files /\ c \in Documents \cup {Nothing, Torn}
    BY <1>11, <1>r, <1>h, <1>t DEF Restores, Kept
  <2>2. disk' = [disk EXCEPT ![k][before[k].file] = c]
    BY <1>11 DEF Restores
  <2> HIDE DEF c
  <2>3. disk' \in [Jobs -> [Files -> Documents \cup {Nothing, Torn}]]
    BY <2>1, <2>2, <1>w
  <2> QED
    BY <1>11, <2>3, <1>t, <1>u DEF Restores, helpers, Kept
<1>12. CASE RestoreFails(k)
  <2>1. PICK c \in {disk[k][before[k].file], Torn, draft[k]} : disk' = [disk EXCEPT ![k][before[k].file] = c]
    BY <1>12 DEF RestoreFails
  <2>2. before[k].file \in Files /\ c \in Documents \cup {Nothing, Torn}
    BY <1>12, <1>r, <1>h, <1>t DEF RestoreFails, Kept
  <2>3. disk' \in [Jobs -> [Files -> Documents \cup {Nothing, Torn}]]
    BY <2>1, <2>2, <1>w
  <2>4. outputFails' \in 0 .. MaxOutputFails
    BY <1>12, <1>t DEF RestoreFails, Kept
  <2> QED
    BY <1>12, <2>3, <2>4, <1>t, <1>u DEF RestoreFails, helpers, Kept
<1> QED
  BY <1>1, <1>2, <1>3, <1>4, <1>5, <1>6, <1>7, <1>8, <1>9, <1>10, <1>11, <1>12 DEF Works

LEMMA TypeStep ==
    ASSUME JobWorkerAssumption, IInv, NEW k \in Jobs, Works(k)
    PROVE  TypeOK'
<1>1. Written'
  BY WrittenStep DEF IInv
<1>2. Kept'
  BY KeptStep DEF IInv
<1>3. UNCHANGED <<run, aborted, manifestFails, summary>>
  BY OnlyItsOwn DEF IInv
<1> QED
  BY <1>1, <1>2, <1>3 DEF IInv, TypeOK, Written, Kept, Places, run

-----------------------------------------------------------------------------
(* The helpers and the run.                                                *)

LEMMA InitOK == ASSUME JobWorkerAssumption PROVE Init => IInv
<1> SUFFICES ASSUME Init PROVE IInv
  OBVIOUS
<1>1. Fresh \in JobRecords
  BY DEF Fresh, JobRecords
<1>2. TypeOK
  <2>1. /\ pass \in [Jobs -> Passes] /\ answer \in [Jobs -> Answers] /\ draft \in [Jobs -> Documents \cup {Nothing, Torn}]
        /\ disk \in [Jobs -> [Files -> Documents \cup {Nothing, Torn}]]
    BY DEF Init, Passes, Answers
  <2>2. /\ captions \in [Inputs -> {"none", "asked", "given", "failed"}]
        /\ crops \in [Inputs -> {"none", "asked", "settled"}]
    BY DEF Init
  <2> HIDE DEF Fresh
  <2>3. /\ job \in [Jobs -> JobRecords] /\ before \in [Jobs -> JobRecords] /\ paid \in [Jobs -> BOOLEAN]
        /\ tries \in [Jobs -> 0 .. Budget] /\ counts \in [{"ok", "skipped", "error"} -> Nat]
        /\ outputFails \in 0 .. MaxOutputFails /\ manifestFails \in 0 .. MaxManifestFails + 1
    BY <1>1 DEF Init, JobWorkerAssumption
  <2> QED
    BY <2>1, <2>2, <2>3 DEF Init, TypeOK
<1>3. PaidOK /\ OpenUntilSettled
  BY DEF Init, PaidOK, OpenUntilSettled, JobWorkerAssumption
<1>4. CountedOnce
  <2>1. Accounted = {}
    BY DEF Init, Accounted, Finished
  <2>2. \A c : CountedAs(c) = {}
    BY <2>1 DEF CountedAs
  <2> QED
    BY <2>2, FS_EmptySet DEF Init, CountedOnce
<1>5. HelpersOK
  <2>1. \A j \in Jobs : pc[j] = "waiting"
    BY DEF Init
  <2>2. ASSUME NEW i \in Inputs, captions[i] # "none" \/ crops[i] # "none" PROVE i \in Warmed
    BY <2>2 DEF Init
  <2>3. \A i \in Warmed : \E j \in Jobs : InputOf[j] = i
    BY DEF JobWorkerAssumption
  <2> QED
    BY <2>1, <2>2, <2>3 DEF HelpersOK
<1>6. SavedOK
  BY DEF Init, SavedOK, JobWorkerAssumption
<1>7. \A j \in Jobs : JobOK(j)
  BY DEF Init, JobOK, Early, Fresh, Trying
<1> QED
  BY <1>2, <1>3, <1>4, <1>5, <1>6, <1>7 DEF IInv

\* The steps of the helpers and of the run leave the jobs as they are, but for the end of
\* the batch.
LEMMA WorkersRest ==
    ASSUME IInv, UNCHANGED <<loop, job, undo, disk, paid, counts, outputFails>>,
           (phase = "open") = (phase' = "open")
    PROVE  PaidOK' /\ OpenUntilSettled' /\ CountedOnce' /\ \A j \in Jobs : JobOK(j)'
<1>1. PaidOK' /\ OpenUntilSettled'
  BY DEF IInv, PaidOK, OpenUntilSettled, Settled, loop
<1>2. CountedOnce'
  <2>1. pc' = pc /\ job' = job /\ counts' = counts /\ CountedOnce
    BY DEF loop, IInv
  <2> QED
    BY <2>1, TheSameAreCounted
<1>3. ASSUME NEW j \in Jobs PROVE JobOK(j)'
  <2>1. outputFails \in Nat /\ outputFails' \in Nat /\ outputFails' >= outputFails
    BY DEF IInv, TypeOK
  <2>2. JobOK(j)
    BY DEF IInv
  <2>3. Of(j)' = Of(j)
    BY DEF Of, loop, undo
  <2> QED
    BY <2>1, <2>2, <2>3, Elsewhere
<1> QED
  BY <1>1, <1>2, <1>3

\* The helpers are as they were, and no worker has moved.
LEMMA HelpersRest ==
    ASSUME HelpersOK, UNCHANGED <<loop, captions, crops>>, aborted' = aborted \/ aborted'
    PROVE  HelpersOK'
BY DEF HelpersOK, loop

\* An answer that comes after the batch is of a helper nobody waited for.
LEMMA LateAnswers ==
    ASSUME IInv, NEW i \in Inputs, captions[i] = "asked" \/ crops[i] = "asked", phase # "open"
    PROVE  CutShort
<1>1. PICK j \in Jobs : InputOf[j] = i
  BY DEF IInv, HelpersOK
<1>2. pc[j] \in {"finished", "thrown"}
  BY DEF IInv, OpenUntilSettled, Settled
<1> QED
  BY <1>1, <1>2 DEF IInv, HelpersOK, CutShort

LEMMA HelperStep ==
    ASSUME JobWorkerAssumption, IInv, NEW i \in Inputs, Helps(i)
    PROVE  IInv'
<1>1. /\ UNCHANGED <<loop, job, undo, disk, paid, counts, outputFails, aborted, run, summary, manifestFails>>
      /\ captions[i] = "asked" \/ crops[i] = "asked"
      /\ UNCHANGED ledger \/ Records
  BY DEF Helps, CaptionSettles, CropsSettle, MayRecord
<1>2. PaidOK' /\ OpenUntilSettled' /\ CountedOnce' /\ \A j \in Jobs : JobOK(j)'
  BY <1>1, WorkersRest DEF run
<1>3. /\ captions' \in [Inputs -> {"none", "asked", "given", "failed"}]
      /\ crops' \in [Inputs -> {"none", "asked", "settled"}]
      /\ \A x \in Inputs : captions'[x] # captions[x] => captions[x] = "asked" /\ captions'[x] \in {"given", "failed"}
      /\ \A x \in Inputs : crops'[x] # crops[x] => crops[x] = "asked" /\ crops'[x] = "settled"
  BY DEF IInv, TypeOK, Helps, CaptionSettles, CropsSettle
<1>4. HelpersOK'
  <2>1. pc' = pc /\ aborted' = aborted
    BY <1>1 DEF loop
  <2>2. ASSUME NEW x \in Inputs, captions'[x] # "none" \/ crops'[x] # "none" PROVE \E j \in Jobs : InputOf[j] = x
    BY <1>3, <2>2 DEF IInv, HelpersOK
  <2>3. ASSUME ~aborted, NEW j \in Jobs, pc[j] \notin {"waiting", "preparing", "thrown"}
        PROVE  captions'[InputOf[j]] \in {"given", "failed"} /\ crops'[InputOf[j]] = "settled"
    BY <1>3, <2>3 DEF IInv, HelpersOK, JobWorkerAssumption
  <2> QED
    BY <2>1, <2>2, <2>3 DEF HelpersOK
<1>5. TypeOK'
  BY <1>1, <1>3 DEF IInv, TypeOK, Records, loop, undo, run, ledger
<1>6. SavedOK'
  <2>1. CutShort' = CutShort
    BY <1>1 DEF CutShort, loop
  <2>2. CASE UNCHANGED ledger
    BY <1>1, <2>1, <2>2 DEF IInv, SavedOK, OnDisk, run, ledger
  <2>3. CASE Records /\ phase \in {"open", "resolved"}
    BY <1>1, <2>1, <2>3 DEF IInv, SavedOK, OnDisk, run, Records
  <2>4. CASE Records /\ phase \notin {"open", "resolved"}
    <3>1. CutShort
      BY <1>1, <2>4, LateAnswers
    <3> QED
      BY <1>1, <2>1, <2>4, <3>1 DEF IInv, SavedOK, OnDisk, run, Records
  <2> QED
    BY <1>1, <2>2, <2>3, <2>4
<1> QED
  BY <1>2, <1>4, <1>5, <1>6 DEF IInv

\* When the batch resolves, a job that was not counted is one whose worker threw.
LEMMA TheRestIsCounted ==
    ASSUME JobWorkerAssumption, IInv, BatchResolves
    PROVE  CountedOnce'
<1> DEFINE S == {j \in Jobs : pc[j] = "thrown"}
<1>1. /\ phase = "open" /\ phase' = "resolved" /\ \A j \in Jobs : Settled(j)
      /\ MarksThrown(S) /\ pc' = pc
  BY DEF BatchResolves, loop
<1>2. Finished \cup S = Jobs /\ Finished \cap S = {} /\ Accounted = Finished /\ Accounted' = Jobs
  BY <1>1 DEF Finished, Settled, Accounted
<1>3. /\ \A j \in S : job'[j].status = "error"
      /\ \A j \in Finished : job'[j] = job[j]
  BY <1>1, <1>2 DEF MarksThrown, IInv, TypeOK, JobRecords
<1>4. {st \in DOMAIN Counted : Counted[st] = "error"} = {"error"}
  BY DEF Counted
<1>5. CountedAs("error")' = CountedAs("error") \cup S /\ CountedAs("error") \cap S = {}
  BY <1>2, <1>3, <1>4 DEF CountedAs
<1>6. ASSUME NEW c \in {"ok", "skipped"} PROVE CountedAs(c)' = CountedAs(c)
  <2>1. "error" \notin {st \in DOMAIN Counted : Counted[st] = c}
    BY DEF Counted
  <2> QED
    BY <1>2, <1>3, <2>1 DEF CountedAs
<1>7. IsFiniteSet(S) /\ IsFiniteSet(CountedAs("error"))
  BY <1>2, FS_Subset DEF JobWorkerAssumption, CountedAs
<1>8. Cardinality(CountedAs("error") \cup S) = Cardinality(CountedAs("error")) + Cardinality(S)
  <2>1. Cardinality(CountedAs("error") \cap S) = 0
    BY <1>5, FS_EmptySet
  <2>2. Cardinality(CountedAs("error")) \in Nat /\ Cardinality(S) \in Nat
    BY <1>7, FS_CardinalityType
  <2>3. Cardinality(CountedAs("error") \cup S)
          = Cardinality(CountedAs("error")) + Cardinality(S) - Cardinality(CountedAs("error") \cap S)
    BY <1>7, FS_Union
  <2> HIDE DEF S
  <2> QED
    BY <2>1, <2>2, <2>3
<1>9. /\ counts' = [counts EXCEPT !["error"] = @ + Cardinality(S)]
      /\ DOMAIN counts = {"ok", "skipped", "error"}
  BY <1>1 DEF MarksThrown, IInv, TypeOK
<1> HIDE DEF S
<1>10. counts'["error"] = Cardinality(CountedAs("error")')
  BY <1>5, <1>8, <1>9 DEF IInv, CountedOnce
<1>11. ASSUME NEW c \in {"ok", "skipped"} PROVE counts'[c] = Cardinality(CountedAs(c)')
  BY <1>6, <1>9, <1>11 DEF IInv, CountedOnce
<1>12. \A c \in DOMAIN counts' : counts'[c] = Cardinality(CountedAs(c)')
  BY <1>9, <1>10, <1>11
<1> QED
  BY <1>12 DEF CountedOnce

LEMMA ResolveStep ==
    ASSUME JobWorkerAssumption, IInv, BatchResolves
    PROVE  IInv'
<1> DEFINE S == {j \in Jobs : pc[j] = "thrown"}
<1>1. /\ phase = "open" /\ phase' = "resolved" /\ \A j \in Jobs : Settled(j)
      /\ UNCHANGED <<loop, undo, disk, paid, helpers, aborted, outcome, diskStatus, status, outputFails, manifestFails>>
      /\ job' = [j \in Jobs |-> IF j \in S THEN [job[j] EXCEPT !.status = "error"] ELSE job[j]]
      /\ counts' = [counts EXCEPT !.error = @ + Cardinality(S)]
      /\ UNCHANGED ledger \/ (dirty' = TRUE /\ unsaved' = unsaved \cup {"awaited"})
  BY DEF BatchResolves, MarksThrown
<1>2. Cardinality(S) \in Nat
  BY FS_Subset, FS_CardinalityType DEF JobWorkerAssumption
<1>3. job' \in [Jobs -> JobRecords]
  <2>1. \A j \in Jobs : job[j] \in JobRecords /\ [job[j] EXCEPT !.status = "error"] \in JobRecords
    BY RecordsStayRecords DEF IInv, TypeOK
  <2> QED
    BY <1>1, <2>1
<1>4. TypeOK'
  <2>1. counts' \in [{"ok", "skipped", "error"} -> Nat]
    BY <1>1, <1>2 DEF IInv, TypeOK
  <2> QED
    BY <1>1, <1>3, <2>1 DEF IInv, TypeOK, loop, undo, helpers, ledger
<1>5. PaidOK' /\ OpenUntilSettled' /\ HelpersOK'
  BY <1>1 DEF IInv, PaidOK, OpenUntilSettled, Settled, HelpersOK, loop, helpers
<1>6. CountedOnce'
  BY TheRestIsCounted
<1>7. SavedOK'
  <2>1. CutShort' = CutShort
    BY <1>1 DEF CutShort, loop
  <2> QED
    BY <1>1, <2>1 DEF IInv, SavedOK, OnDisk, ledger, helpers
<1>8. ASSUME NEW j \in Jobs PROVE JobOK(j)'
  <2>1. CASE pc[j] = "thrown"
    <3>1. /\ pc'[j] = "thrown" /\ pass'[j] = pass[j] /\ job'[j].retry = job[j].retry
          /\ job'[j].check = job[j].check
      BY <1>1, <2>1 DEF loop, IInv, TypeOK, JobRecords
    <3>2. JobOK(j)
      BY DEF IInv
    <3> QED
      BY <2>1, <3>1, <3>2 DEF JobOK, Early, Trying
  <2>2. CASE pc[j] # "thrown"
    <3>1. Of(j)' = Of(j)
      BY <1>1, <2>2 DEF Of, loop, undo
    <3>2. outputFails \in Nat /\ outputFails' \in Nat /\ outputFails' >= outputFails
      BY <1>1 DEF IInv, TypeOK
    <3>3. JobOK(j)
      BY DEF IInv
    <3> QED
      BY <3>1, <3>2, <3>3, Elsewhere
  <2> QED
    BY <2>1, <2>2
<1> QED
  BY <1>4, <1>5, <1>6, <1>7, <1>8 DEF IInv

\* The writes of the run, and what reaches the disk with each.
LEMMA RunStep ==
    ASSUME JobWorkerAssumption, IInv,
           SummarySettles \/ FinalWrite \/ Leaves \/ Closes \/ Ticks \/ Cancels
    PROVE  IInv'
<1>1. /\ UNCHANGED <<loop, job, undo, disk, paid, counts, outputFails, captions, crops>>
      /\ (phase = "open") = (phase' = "open")
      /\ aborted' = aborted \/ aborted'
  BY DEF SummarySettles, FinalWrite, Leaves, Closes, Ticks, Cancels, helpers, run
<1>2. PaidOK' /\ OpenUntilSettled' /\ CountedOnce' /\ \A j \in Jobs : JobOK(j)'
  BY <1>1, WorkersRest
<1>3. HelpersOK'
  BY <1>1, HelpersRest DEF IInv
<1>4. CutShort => CutShort'
  BY <1>1 DEF CutShort, loop
<1>m. /\ manifestFails \in 0 .. MaxManifestFails + 1 /\ MaxManifestFails \in Nat
      /\ summary \in {"asked", "settled"} /\ aborted \in BOOLEAN /\ dirty \in BOOLEAN
      /\ unsaved \subseteq {"awaited", "late"}
      /\ phase \in {"open", "resolved", "leaving", "left", "closed"}
      /\ outcome \in {"none", "resolved", "rejected"}
      /\ diskStatus \in {"running", "done", "cancelled", "error"}
      /\ status \in {"running", "done", "cancelled"}
      /\ SavedOK
  BY DEF IInv, TypeOK, JobWorkerAssumption
<1> DEFINE Typed == /\ summary \in {"asked", "settled"} /\ aborted \in BOOLEAN /\ dirty \in BOOLEAN
                    /\ unsaved \subseteq {"awaited", "late"}
                    /\ phase \in {"open", "resolved", "leaving", "left", "closed"}
                    /\ outcome \in {"none", "resolved", "rejected"}
                    /\ diskStatus \in {"running", "done", "cancelled", "error"}
                    /\ status \in {"running", "done", "cancelled"}
                    /\ manifestFails \in 0 .. MaxManifestFails + 1
\* A flush succeeds, or one more write has failed.
<1>f. ASSUME NEW st \in {"running", "done", "cancelled"}, FlushesManifest(st)
      PROVE  \/ unsaved' = {} /\ dirty' = FALSE /\ diskStatus' = st /\ manifestFails' = manifestFails
             \/ /\ UNCHANGED <<unsaved, dirty, diskStatus>>
                /\ manifestFails' = manifestFails + 1 /\ manifestFails' <= MaxManifestFails
  BY <1>f, <1>m DEF FlushesManifest
<1>5. Typed' /\ SavedOK'
  <2>1. CASE SummarySettles
    <3>1. /\ summary = "asked" /\ summary' = "settled" /\ phase \in {"open", "resolved"}
          /\ UNCHANGED <<phase, status, outcome, diskStatus, aborted>>
          /\ manifestFails' = manifestFails \/ manifestFails' = manifestFails + 1
          /\ manifestFails' <= MaxManifestFails
          /\ \/ unsaved' = unsaved /\ dirty' = dirty
             \/ unsaved' = {} /\ dirty' = TRUE
             \/ unsaved' = unsaved \cup {"awaited"} /\ dirty' = TRUE
      BY <1>m, <2>1 DEF SummarySettles, MayRecord, Records, ledger, SavedOK
    <3>2. Typed'
      <4>1. manifestFails' \in 0 .. MaxManifestFails + 1
        BY <1>m, <3>1
      <4>2. unsaved' \subseteq {"awaited", "late"}
        BY <1>m, <3>1
      <4> QED
        BY <1>m, <3>1, <4>1, <4>2
    <3> QED
      BY <1>4, <1>m, <3>1, <3>2 DEF SavedOK, OnDisk
  <2>2. CASE FinalWrite
    <3>1. /\ phase = "resolved" /\ phase' = "leaving" /\ summary = "settled" /\ summary' = summary
          /\ status' \in {"cancelled", "done"} /\ aborted' = aborted /\ dirty' = dirty
          /\ \/ /\ unsaved' = {} /\ diskStatus' = status' /\ manifestFails' = manifestFails
                /\ outcome' \in {"resolved", "rejected"}
             \/ /\ unsaved' = unsaved /\ diskStatus' = diskStatus /\ manifestFails' = manifestFails + 1
                /\ outcome' = "rejected"
          /\ manifestFails' <= MaxManifestFails
      BY <1>m, <2>2 DEF FinalWrite, ledger, helpers, SavedOK
    <3>2. Typed'
      <4>1. manifestFails' \in 0 .. MaxManifestFails + 1
        BY <1>m, <3>1
      <4>2. unsaved' \subseteq {"awaited", "late"}
        BY <1>m, <3>1
      <4> QED
        BY <1>m, <3>1, <4>1, <4>2
    <3>3. "late" \in unsaved' => CutShort'
      BY <1>4, <1>m, <3>1 DEF SavedOK
    <3>4. unsaved' # {} => dirty'
      BY <1>m, <3>1 DEF SavedOK
    <3>5. OnDisk' \/ (manifestFails' >= 1 /\ outcome' = "rejected")
      BY <1>m, <3>1, <3>2 DEF OnDisk
    <3> QED
      BY <1>m, <3>1, <3>3, <3>4, <3>5, <3>2 DEF SavedOK
  <2>3. CASE Leaves
    <3>1. /\ phase = "leaving" /\ phase' = "left" /\ status' = status /\ outcome' = outcome
          /\ summary' = summary /\ aborted' = aborted
      BY <2>3 DEF Leaves, helpers
    <3>2. CASE dirty
      <4>1. FlushesManifest(status)
        BY <2>3, <3>2 DEF Leaves, LastFlush
      <4>2. \/ unsaved' = {} /\ dirty' = FALSE /\ diskStatus' = status /\ manifestFails' = manifestFails
            \/ /\ UNCHANGED <<unsaved, dirty, diskStatus>>
               /\ manifestFails' = manifestFails + 1 /\ manifestFails' <= MaxManifestFails
        BY <4>1, <1>f, <1>m
      <4>3. Typed'
        <5>1. manifestFails' \in 0 .. MaxManifestFails + 1
          BY <1>m, <4>2
        <5>2. unsaved' \subseteq {"awaited", "late"}
          BY <1>m, <4>2
        <5> QED
          BY <1>m, <3>1, <4>2, <5>1, <5>2
      <4>4. CASE unsaved' = {} /\ dirty' = FALSE /\ diskStatus' = status /\ manifestFails' = manifestFails
        BY <1>m, <3>1, <4>3, <4>4 DEF SavedOK, OnDisk
      <4>5. CASE UNCHANGED <<unsaved, dirty, diskStatus>> /\ manifestFails' = manifestFails + 1
        BY <1>4, <1>m, <3>1, <3>2, <4>2, <4>3, <4>5 DEF SavedOK, OnDisk
      <4> QED
        BY <4>2, <4>4, <4>5
    <3>3. CASE ~dirty
      <4>1. UNCHANGED <<dirty, unsaved, diskStatus, manifestFails>>
        BY <2>3, <3>3 DEF Leaves, LastFlush, ledger
      <4> QED
        BY <1>4, <1>m, <3>1, <3>3, <4>1 DEF SavedOK, OnDisk
    <3> QED
      BY <3>2, <3>3
  <2>4. CASE Closes
    BY <1>4, <1>m, <2>4 DEF SavedOK, OnDisk, Closes, ledger, helpers
  <2>5. CASE Ticks
    <3>1. /\ phase \in {"open", "resolved"} /\ phase' = phase /\ status' = status /\ outcome' = outcome
          /\ summary' = summary /\ aborted' = aborted /\ FlushesManifest(status)
      BY <2>5 DEF Ticks, helpers
    <3>2. \/ unsaved' = {} /\ dirty' = FALSE /\ diskStatus' = status /\ manifestFails' = manifestFails
          \/ /\ UNCHANGED <<unsaved, dirty, diskStatus>>
             /\ manifestFails' = manifestFails + 1 /\ manifestFails' <= MaxManifestFails
      BY <3>1, <1>f, <1>m
    <3>3. Typed'
      <4>1. manifestFails' \in 0 .. MaxManifestFails + 1
        BY <1>m, <3>2
      <4>2. unsaved' \subseteq {"awaited", "late"}
        BY <1>m, <3>2
      <4> QED
        BY <1>m, <3>1, <3>2, <4>1, <4>2
    <3>4. manifestFails' <= MaxManifestFails
      BY <1>m, <3>1, <3>2 DEF SavedOK
    <3> QED
      BY <1>4, <1>m, <3>1, <3>2, <3>3, <3>4 DEF SavedOK, OnDisk
  <2>6. CASE Cancels
    BY <1>4, <1>m, <2>6 DEF SavedOK, OnDisk, Cancels, ledger, helpers, run
  <2> QED
    BY <2>1, <2>2, <2>3, <2>4, <2>5, <2>6
<1>7. TypeOK'
  BY <1>1, <1>5 DEF IInv, TypeOK, loop, undo
<1> QED
  BY <1>2, <1>3, <1>5, <1>7 DEF IInv

LEMMA Stutter == ASSUME IInv, UNCHANGED vars PROVE IInv'
<1> USE DEF vars, loop, undo, helpers, run, ledger
<1>1. PaidOK' /\ OpenUntilSettled' /\ CountedOnce' /\ \A j \in Jobs : JobOK(j)'
  BY WorkersRest
<1>2. HelpersOK'
  BY HelpersRest DEF IInv
<1>3. TypeOK'
  BY DEF IInv, TypeOK
<1>4. SavedOK'
  BY DEF IInv, SavedOK, OnDisk, CutShort
<1> QED
  BY <1>1, <1>2, <1>3, <1>4 DEF IInv

LEMMA WorkerStep == ASSUME JobWorkerAssumption, IInv, NEW k \in Jobs, Works(k) PROVE IInv'
<1>1. TypeOK'
  BY TypeStep
<1>2. PaidOK' /\ CountedOnce' /\ HelpersOK' /\ SavedOK'
  BY TriesStep, CountStep, HelpersStep, SavedStep DEF IInv
<1>3. OpenUntilSettled'
  BY OnlyItsOwn DEF IInv, OpenUntilSettled, run
<1>4. ASSUME NEW j \in Jobs PROVE JobOK(j)'
  <2>1. CASE j = k
    BY <2>1, ThisJob
  <2>2. CASE j # k
    <3>1. Of(j)' = Of(j) /\ JobOK(j)
      BY <2>2, OnlyItsOwn DEF IInv
    <3>2. outputFails \in Nat /\ outputFails' \in Nat /\ outputFails' >= outputFails
      BY DEF IInv, TypeOK, Works, Starts, StartThrows, Prepared, Attempts, Answered, CallCancelled, CallFails,
             CallRotates, Saves, SaveFails, AfterFirst, AfterFix, RenderSkips, Renders, AfterCheck, Restores, RestoreFails
    <3> QED
      BY <3>1, <3>2, Elsewhere
  <2> QED
    BY <2>1, <2>2
<1> QED
  BY <1>1, <1>2, <1>3, <1>4 DEF IInv

-----------------------------------------------------------------------------
\* The invariant holds of every behaviour.
THEOREM Invariance == Spec => []IInv
<1>1. IInv /\ [Next]_vars => IInv'
  <2> SUFFICES ASSUME IInv, [Next]_vars PROVE IInv'
    OBVIOUS
  <2>1. CASE \E k \in Jobs : Works(k)
    BY <2>1, WorkerStep, JobWorkerAssumption
  <2>2. CASE \E i \in Inputs : Helps(i)
    BY <2>2, HelperStep, JobWorkerAssumption
  <2>3. CASE BatchResolves
    BY <2>3, ResolveStep, JobWorkerAssumption
  <2>4. CASE SummarySettles \/ FinalWrite \/ Leaves \/ Closes \/ Ticks \/ Cancels
    BY <2>4, RunStep, JobWorkerAssumption
  <2>5. CASE UNCHANGED vars
    BY <2>5, Stutter
  <2> QED
    BY <2>1, <2>2, <2>3, <2>4, <2>5 DEF Next, Runs
<1>2. QED
  BY <1>1, InitOK, JobWorkerAssumption, PTL DEF Spec

\* Every variable holds what the worker and the run read from it.
THEOREM TypeCorrect == Spec => []TypeOK
BY Invariance, PTL DEF IInv

\* The manifest's counts are the jobs that ended, at every moment, and what the run spent
\* and how it ended is on disk when it closes, whichever one of its writes failed.
THEOREM TheLedgerIsTrue == Spec => []LedgerIsTrue
<1>1. IInv => LedgerIsTrue
  <2> SUFFICES ASSUME IInv PROVE LedgerIsTrue
    OBVIOUS
  <2>1. ASSUME phase = "closed", manifestFails <= 1 PROVE OnDisk
    BY <2>1 DEF IInv, SavedOK, TypeOK
  <2>2. SpendReachesDisk
    BY <2>1 DEF SpendReachesDisk, IInv, SavedOK, OnDisk, CutShort
  <2> QED
    BY <2>2 DEF IInv, LedgerIsTrue
<1>2. QED
  BY Invariance, <1>1, PTL

\* A second pass never costs a job its success, and a retry is kept only when it is cleaner
\* and lies beside the first answer: also when an output cannot be read back.
THEOREM SecondPassesAreSafe == Spec => [](SuccessIsKept /\ KeptIsCleaner)
<1>1. IInv => SuccessIsKept /\ KeptIsCleaner
  BY DEF IInv, JobOK, EndOK, Finished, SuccessIsKept, KeptIsCleaner
<1>2. QED
  BY Invariance, <1>1, PTL

\* What the gallery shows of a job is what was saved and scored, as long as an output that
\* was written can be read back.
THEOREM TheDocumentsAreSound == ASSUME ~UnreadableDrafts PROVE Spec => []DocumentsAreSound
<1>1. IInv => DocumentsAreSound
  <2> SUFFICES ASSUME IInv PROVE DocumentsAreSound
    OBVIOUS
  <2>1. \A j \in Finished : EndOK(j)
    BY DEF IInv, JobOK, Finished
  <2>2. ShownIsSaved
    BY <2>1 DEF ShownIsSaved, EndOK, Shown
  <2>3. SuccessIsKept /\ KeptIsCleaner
    BY <2>1 DEF SuccessIsKept, KeptIsCleaner, EndOK
  <2> QED
    BY <2>2, <2>3 DEF DocumentsAreSound
<1>2. QED
  BY Invariance, <1>1, PTL

\* No pass of a job is paid for twice.
THEOREM NoPassIsPaidTwice == Spec => PaidOncePerPass
<1>1. IInv /\ [Next]_vars => [\A j \in Jobs : pc[j] = "call" /\ pc'[j] = "save" => ~paid[j]]_vars
  BY DEF IInv, PaidOK
<1>2. QED
  BY Invariance, <1>1, PTL DEF PaidOncePerPass, Spec

=============================================================================
