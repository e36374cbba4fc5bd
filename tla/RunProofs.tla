----------------------------- MODULE RunProofs ------------------------------
(***************************************************************************)
(* Proofs about what a run goes through: its lease (RunOwnership), what    *)
(* the tab is told of it (RunFeed), and the pools its jobs are started     *)
(* from (JobScheduler).  The three are one component each and share no     *)
(* state; each part below says what its theorems rest on.                  *)
(***************************************************************************)
EXTENDS RunOwnership, RunFeed, JobScheduler, CollectionProofs

-----------------------------------------------------------------------------
(* RunOwnership, for every set of processes, however their claims overlap. *)
(*                                                                         *)
(* OneOwner is not inductive: it follows from the file of an owner being   *)
(* at the path unless the owner was robbed.  Another process touches that  *)
(* file in three places only: a rename that is meant for a dead owner's    *)
(* file, and the heartbeat and the unlink of a process that was robbed     *)
(* itself; each of them makes the owner one of the robbed.                 *)

\* Who is about to move a file away has found a dead owner in it.
ClaimantKnows ==
    \A p \in Processes :
        /\ pc[p] \in {"judging", "reclaiming"} => seen[p] \in Processes
        /\ pc[p] = "reclaiming" => pc[seen[p]] = "dead"

\* What an owner put at the path is there, and a heartbeat writes to its own file, unless
\* somebody was robbed.
OwnersFile ==
    /\ \A p \in Processes \ robbed :
          Owns(p) \/ pc[p] = "created" => file # NoFile /\ file.inode = p /\ file.by = p
    /\ \A p \in Processes : pc[p] = "truncated" => opened[p] \in {p} \cup robbed

OwnerInv == OwnerTypeOK /\ ClaimantKnows /\ OwnersFile /\ RobbedOverADeadOwner

\* The step leaves the files of owners alone.
FilesStay ==
    \A p \in Processes : Owns(p) /\ HoldsLease(p)' => file' # NoFile /\ file'.inode = p /\ file'.by = p

-----------------------------------------------------------------------------
\* The invariant holds at the start.
LEMMA OwnerInitOK == OwnerInit => OwnerInv
BY ProcessAssumption
DEF OwnerInit, OwnerInv, OwnerTypeOK, States, ClaimantKnows, OwnersFile, Owns, RobbedOverADeadOwner

\* A file that is created is one ...
LEMMA CreatedIsFile ==
  ASSUME NEW p \in Processes
  PROVE  \E f \in Files : f = Created(p) /\ f # NoFile /\ f.inode = p /\ f.by = p
<1>1. Created(p) \in Files /\ Created(p).inode = p /\ Created(p).by = p
  BY DEF Created, Files
<1>2. Created(p) # NoFile
  BY <1>1, ProcessAssumption
<1>3. QED
  BY <1>1, <1>2

\* ... one that is emptied stays one, with its inode, ...
LEMMA EmptiedIsFile ==
  ASSUME NEW g \in Files
  PROVE  \E f \in Files : /\ f = [g EXCEPT !.full = FALSE]
                          /\ f # NoFile /\ f.inode = g.inode /\ f.by = g.by
<1> DEFINE f == [g EXCEPT !.full = FALSE]
<1>1. f \in Files /\ f.inode = g.inode /\ f.by = g.by
  BY DEF Files
<1>2. f # NoFile
  BY <1>1, ProcessAssumption
<1>3. QED
  BY <1>1, <1>2

\* ... and so does one that is written, with the record of who wrote it.
LEMMA WrittenIsFile ==
  ASSUME NEW g \in Files, NEW p \in Processes
  PROVE  \E f \in Files : /\ f = [g EXCEPT !.by = p, !.full = TRUE]
                          /\ f # NoFile /\ f.inode = g.inode /\ f.by = p
<1> DEFINE f == [g EXCEPT !.by = p, !.full = TRUE]
<1>1. f \in Files /\ f.inode = g.inode /\ f.by = p
  BY DEF Files
<1>2. f # NoFile
  BY <1>1, ProcessAssumption
<1>3. QED
  BY <1>1, <1>2

\* No step of a process breaks the invariant or touches the file of an owner.
LEMMA OwnerStepOK ==
  ASSUME OwnerInv, [OwnerNext]_ownerVars
  PROVE  OwnerInv' /\ FilesStay
<1> USE ProcessAssumption
        DEF OwnerInv, OwnerTypeOK, States, ClaimantKnows, OwnersFile, Owns, HoldsLease, FilesStay, Goes,
            RobbedOverADeadOwner, Alive
<1>1. ASSUME NEW p \in Processes, Claims(p) \/ Retries(p)
      PROVE  OwnerInv' /\ FilesStay
  <2>1. pc[p] \in {"idle", "refused", "retrying"} /\ UNCHANGED <<seen, opened, robbed>>
    BY <1>1 DEF Claims, Retries
  <2>2. CASE file = NoFile
    <3>1. PICK f \in Files : f = Created(p) /\ f # NoFile /\ f.inode = p /\ f.by = p
      BY CreatedIsFile
    <3>2. file' = f /\ Goes(p, "created")
      BY <1>1, <2>2, <3>1 DEF Claims, Retries, OpensExclusively
    <3>3. QED
      BY <2>1, <2>2, <3>1, <3>2
  <2>3. CASE file # NoFile
    <3>1. UNCHANGED file /\ Goes(p, "reading")
      BY <1>1, <2>3 DEF Claims, Retries, OpensExclusively
    <3>2. QED
      BY <2>1, <2>3, <3>1
  <2>4. QED
    BY <2>2, <2>3
<1>2. ASSUME NEW p \in Processes, WritesOwner(p)
      PROVE  OwnerInv' /\ FilesStay
  <2>1. pc[p] = "created" /\ UNCHANGED <<seen, opened, robbed>>
    BY <1>2 DEF WritesOwner
  <2>2. CASE file # NoFile /\ file.inode = p /\ Goes(p, "owner") /\ file' = [file EXCEPT !.by = p, !.full = TRUE]
    <3>1. PICK f \in Files : file' = f /\ f # NoFile /\ f.inode = file.inode /\ f.by = p
      BY <2>2, WrittenIsFile
    <3>2. QED
      BY <2>1, <2>2, <3>1
  <2>3. CASE UNCHANGED file /\ Goes(p, "failed")
    BY <2>1, <2>3
  <2>4. CASE UNCHANGED file /\ Goes(p, "owner") /\ ~(file # NoFile /\ file.inode = p)
    BY <2>1, <2>4
  <2>5. QED
    BY <1>2, <2>2, <2>3, <2>4 DEF WritesOwner
<1>3. ASSUME NEW p \in Processes, ReadsPrevious(p)
      PROVE  OwnerInv' /\ FilesStay
  BY <1>3 DEF ReadsPrevious, ReadOwner, NothingRead, Files
<1>4. ASSUME NEW p \in Processes, JudgesPrevious(p)
      PROVE  OwnerInv' /\ FilesStay
  BY <1>4 DEF JudgesPrevious, OwnerIsLive, Files
<1>5. ASSUME NEW p \in Processes, Quarantines(p)
      PROVE  OwnerInv' /\ FilesStay
  <2>1. /\ pc[p] = "reclaiming" /\ file' = NoFile /\ pc' = [pc EXCEPT ![p] = "retrying"]
        /\ UNCHANGED <<seen, opened>> /\ robbed' = robbed \cup (AtPath \ {seen[p]})
    BY <1>5 DEF Quarantines
  <2>2. seen[p] \in Processes /\ pc[seen[p]] = "dead" /\ seen[p] # p
    BY <2>1
  <2>3. AtPath \subseteq Processes /\ (file # NoFile => file.inode \in AtPath)
    BY DEF AtPath, Files
  <2>4. robbed' \subseteq Processes /\ robbed \subseteq robbed'
    BY <2>1, <2>3
  <2>5. \A q \in Processes \ robbed' : ~Owns(q) /\ pc[q] # "created"
    BY <2>1, <2>2, <2>3
  <2>6. \E q \in Processes : pc'[q] = "dead"
    BY <2>1, <2>2
  <2>7. QED
    BY <2>1, <2>2, <2>4, <2>5, <2>6
<1>6. ASSUME NEW p \in Processes, QuarantineFails(p)
      PROVE  OwnerInv' /\ FilesStay
  BY <1>6 DEF QuarantineFails
<1>7. ASSUME NEW p \in Processes, BeatReads(p)
      PROVE  OwnerInv' /\ FilesStay
  BY <1>7 DEF BeatReads
<1>8. ASSUME NEW p \in Processes, BeatOpens(p)
      PROVE  OwnerInv' /\ FilesStay
  <2>1. /\ pc[p] = "beating" /\ UNCHANGED seen /\ pc' = [pc EXCEPT ![p] = "truncated"]
        /\ opened' = [opened EXCEPT ![p] = IF file = NoFile THEN p ELSE file.inode]
        /\ robbed' = robbed \cup (IF p \in robbed THEN AtPath ELSE {})
    BY <1>8 DEF BeatOpens, RobsInTurn
  <2>2. robbed' \subseteq Processes /\ robbed \subseteq robbed'
    BY <2>1 DEF AtPath, Files
  <2>3. \A q \in Processes : pc[q] # "dead" => pc'[q] # "dead"
    BY <2>1
  <2>4. robbed' # {} => \E q \in Processes : pc'[q] = "dead"
    BY <2>1
  <2>5. CASE file = NoFile
    <3>1. PICK f \in Files : f = Created(p) /\ f # NoFile /\ f.inode = p /\ f.by = p
      BY CreatedIsFile
    <3>2. file' = f /\ opened' = [opened EXCEPT ![p] = p]
      BY <1>8, <2>1, <2>5, <3>1 DEF BeatOpens
    <3>3. QED
      BY <2>1, <2>2, <2>4, <2>5, <3>1, <3>2
  <2>6. CASE file # NoFile
    <3>1. PICK f \in Files : file' = f /\ f # NoFile /\ f.inode = file.inode /\ f.by = file.by
      BY <1>8, <2>6, EmptiedIsFile DEF BeatOpens
    <3>2. file.inode \in Processes /\ opened' = [opened EXCEPT ![p] = file.inode]
      BY <2>1, <2>6 DEF Files
    <3>3. file.inode = p \/ file.inode \in robbed'
      BY <2>1, <2>6 DEF AtPath
    <3>4. QED
      BY <2>1, <2>2, <2>4, <2>6, <3>1, <3>2, <3>3
  <2>7. QED
    BY <2>5, <2>6
<1>9. ASSUME NEW p \in Processes, BeatWrites(p)
      PROVE  OwnerInv' /\ FilesStay
  <2>1. /\ pc[p] = "truncated" /\ opened[p] \in {p} \cup robbed /\ UNCHANGED <<seen, robbed>>
        /\ opened' = [opened EXCEPT ![p] = Nobody] /\ Goes(p, "owner")
    BY <1>9 DEF BeatWrites
  <2>2. CASE file' = file
    BY <2>1, <2>2
  <2>3. CASE file # NoFile /\ file.inode = opened[p] /\ file' = [file EXCEPT !.by = p, !.full = TRUE]
    <3>1. file \in Files
      BY <2>3
    <3>2. PICK f \in Files : /\ f = [file EXCEPT !.by = p, !.full = TRUE]
                             /\ f # NoFile /\ f.inode = file.inode /\ f.by = p
      BY <1>9, <3>1, WrittenIsFile
    <3>3. file' = f
      BY <2>3, <3>2
    <3>4. QED
      BY <2>1, <2>3, <3>2, <3>3
  <2>4. file' = file \/ (file # NoFile /\ file.inode = opened[p] /\ file' = [file EXCEPT !.by = p, !.full = TRUE])
    BY <1>9 DEF BeatWrites
  <2>5. QED
    BY <2>2, <2>3, <2>4
<1>10. ASSUME NEW p \in Processes, Releases(p)
      PROVE  OwnerInv' /\ FilesStay
  BY <1>10 DEF Releases
<1>11. ASSUME NEW p \in Processes, Unlinks(p)
      PROVE  OwnerInv' /\ FilesStay
  <2>1. /\ pc[p] = "releasing" /\ pc' = [pc EXCEPT ![p] = "released"]
        /\ UNCHANGED <<seen, opened>>
    BY <1>11 DEF Unlinks
  <2>2. CASE UNCHANGED <<file, robbed>>
    BY <2>1, <2>2
  <2>3. CASE file' = NoFile /\ robbed' = robbed \cup (IF p \in robbed THEN AtPath ELSE {})
    <3>1. AtPath \subseteq Processes /\ (file # NoFile => file.inode \in AtPath)
      BY DEF AtPath, Files
    <3>2. robbed' \subseteq Processes /\ robbed \subseteq robbed'
      BY <2>3, <3>1
    <3>3. \A q \in Processes \ robbed' : q # p => ~Owns(q) /\ pc[q] # "created"
      BY <2>1, <2>3, <3>1
    <3>4. robbed' # {} => \E q \in Processes : pc'[q] = "dead"
      BY <2>1, <2>3
    <3>5. QED
      BY <2>1, <2>3, <3>2, <3>3, <3>4
  <2>4. QED
    BY <1>11, <2>2, <2>3 DEF Unlinks, RobsInTurn
<1>12. ASSUME NEW p \in Processes, Dies(p)
      PROVE  OwnerInv' /\ FilesStay
  BY <1>12 DEF Dies
<1>13. CASE UNCHANGED ownerVars
  BY <1>13 DEF ownerVars
<1>14. QED
  BY <1>1, <1>2, <1>3, <1>4, <1>5, <1>6, <1>7, <1>8, <1>9, <1>10, <1>11, <1>12, <1>13 DEF OwnerNext, Claim

-----------------------------------------------------------------------------
\* However claims overlap, whatever process dies between whichever two of its steps and
\* whichever writes fail, the file of an owner that was not robbed is at the path.
THEOREM OwnerInvariance == OwnerSpec => []OwnerInv
BY OwnerInitOK, OwnerStepOK, PTL DEF OwnerSpec

\* The variables of the lease keep their types.
THEOREM OwnerTypeCorrect == OwnerSpec => []OwnerTypeOK
<1>1. OwnerInv => OwnerTypeOK
  BY DEF OwnerInv
<1>2. QED
  BY <1>1, OwnerInvariance, PTL

\* claimRunOwnership gives a run to one process at a time.
LEMMA OneOwnerOnly == OwnerInv => OneOwner
BY DEF OwnerInv, OwnersFile, OneOwner, HoldsLease

\* isRunOwned never denies a live owner, in any state of its file.
LEMMA OwnerIsSeen == OwnerInv => OwnerLooksOwned
BY ProcessAssumption
DEF OwnerInv, OwnerTypeOK, Files, OwnersFile, OwnerLooksOwned, Owns, IsRunOwned, ReadOwner, Alive

\* Only the owner itself changes what is at the path, unless it is robbed.
THEOREM OwnersFileIsKept == OwnerSpec => OwnersFileStays
<1>1. OwnerInv /\ [OwnerNext]_ownerVars => [FilesStay]_ownerVars
  BY OwnerStepOK
<1>2. [FilesStay]_ownerVars => [\A p \in Processes : Owns(p) /\ HoldsLease(p)' =>
                            file' # NoFile /\ file'.inode = p /\ file'.by = p]_ownerVars
  BY DEF FilesStay
<1>3. QED
  BY <1>1, <1>2, OwnerInvariance, PTL DEF OwnerSpec, OwnersFileStays

\* However claims overlap, a run has one owner that was not robbed, every other process can
\* see it, and nobody is robbed while no process has died.
THEOREM OneVisibleOwnerOnly == OwnerSpec => []OneVisibleOwner
<1>1. OwnerInv => OneVisibleOwner
  BY OneOwnerOnly, OwnerIsSeen DEF OneVisibleOwner, OwnerInv
<1>2. QED
  BY <1>1, OwnerInvariance, PTL

-----------------------------------------------------------------------------
(* RunFeed, for any number of runs, answers under way, deletions and       *)
(* disturbances: the types, that what the tab shows as going on is         *)
(* listened to, and that no run is deleted against the user's wish.        *)

\* Events come over a stream only.
EventsHaveAStream == \A r \in Runs : chan[r] # << >> => stream[r] # "off"

\* What the tab shows as going on, and every event, has a stream.
Heard == EventsHaveAStream /\ Watched

\* A deletion that waits is what the user wants, and the only one of its run, unless the run
\* was deleted twice.
PendingIsWanted ==
    \A p \in pend : p.run \notin doubled =>
        /\ wish[p.run] = "delete"
        /\ \A q \in pend : q.run = p.run => q = p

\* The inductive invariant.
FeedInv == FeedTypeOK /\ Heard /\ PendingIsWanted

---------------------------------------------------------------------------
(* Answers and lists.                                                      *)

\* What an answer of each kind carries.
LEMMA AnswerFields ==
    ASSUME NEW a \in Answers
    PROVE  /\ a.kind \in {"boot", "resume", "rows", "shown", "accepted", "deleted", "failed", "gallery"}
           /\ a.kind \in {"boot", "resume", "rows"} => a.rows \in Lists
           /\ a.kind = "shown" => a.run \in Runs /\ a.status \in Statuses /\ a.undo \in BOOLEAN
           /\ a.kind = "accepted" => a.run \in Runs
           /\ a.kind = "deleted" => a.run \in Runs /\ a.row \in Statuses /\ a.rows \in Lists
           /\ a.kind = "failed" => a.run \in Runs /\ a.row \in Statuses
           /\ a.kind = "gallery" => a.run \in Runs
BY DEF Answers

\* A list that is read is a list.
LEMMA ListedIsAList == FeedTypeOK => Listed \in Lists
BY DEF FeedTypeOK, Listed, Lists, Statuses

LEMMA ListedNextIsAList == FeedTypeOK' => Listed' \in Lists
BY DEF FeedTypeOK, Listed, Lists, Statuses

LEMMA ManifestIsAStatus == ASSUME FeedTypeOK, NEW r \in Runs PROVE Manifest(r) \in Statuses
BY ListedIsAList DEF Manifest, Lists, Statuses

LEMMA RefreshIsAnAnswer == FeedTypeOK => Refresh \subseteq Answers
BY ListedIsAList DEF Refresh, Answers

\* The head of a channel is an event, and a channel that grows is one.
LEMMA ChannelGrows ==
    ASSUME FeedTypeOK, NEW r \in Runs, NEW e \in {"active", "ended", "done", "error"}
    PROVE  /\ [chan EXCEPT ![r] = Append(@, e)] \in [Runs -> Seq({"active", "ended", "done", "error"})]
           /\ chan[r] # << >> => /\ Head(chan[r]) \in {"active", "ended", "done", "error"}
                                 /\ [chan EXCEPT ![r] = Tail(@)] \in [Runs -> Seq({"active", "ended", "done", "error"})]
BY HeadTailProperties, AppendProperties DEF FeedTypeOK

---------------------------------------------------------------------------
(* Types.                                                                  *)

\* Channels that are cut are channels.
LEMMA Cut ==
    ASSUME FeedTypeOK, NEW R \in SUBSET Runs, Unsubscribed(R)
    PROVE  /\ stream' \in [Runs -> {"off", "lost", "opening", "joined", "watching", "closing"}]
           /\ chan' \in [Runs -> Seq({"active", "ended", "done", "error"})]
BY DEF FeedTypeOK, Unsubscribed

LEMMA FinishRunTypes ==
    ASSUME FeedTypeOK, NEW r \in Runs,
           NEW t \in [Runs -> {"no", "active", "ended"}], FinishRun(r, t)
    PROVE  /\ stream' \in [Runs -> {"off", "lost", "opening", "joined", "watching", "closing"}]
           /\ chan' \in [Runs -> Seq({"active", "ended", "done", "error"})]
           /\ tracked' \in [Runs -> {"no", "active", "ended"}]
           /\ focus' \in Runs \cup {None}
           /\ answers' \subseteq Answers
<1>1. Over(t, r) \in [Runs -> {"no", "active", "ended"}]
  BY DEF Over
<1>2. tracked' \in [Runs -> {"no", "active", "ended"}]
  BY <1>1 DEF FinishRun
<1>3. Handed(Over(t, r), r) \subseteq Runs \cup {None}
  BY DEF Handed, Active, FeedTypeOK
<1>4. QED
  BY <1>2, <1>3, Cut, RefreshIsAnAnswer DEF FinishRun, Asks, FeedTypeOK

LEMMA ResumesTypes ==
    ASSUME FeedTypeOK, NEW rows \in Lists, NEW others \in SUBSET Answers, Resumes(rows, others)
    PROVE  /\ stream' \in [Runs -> {"off", "lost", "opening", "joined", "watching", "closing"}]
           /\ chan' = chan
           /\ tracked' \in [Runs -> {"no", "active", "ended"}]
           /\ focus' \in Runs \cup {None}
           /\ row' \in Lists
           /\ answers' \subseteq Answers
<1> DEFINE T == [r \in Runs |-> IF rows[r] = "active" /\ r \notin Streaming
                                THEN "active" ELSE tracked[r]]
<1>1. PICK f \in Runs \cup {None} :
        /\ Subscribed(Active(rows)) /\ UNCHANGED chan
        /\ row' = rows /\ tracked' = T
        /\ focus' \in Active(T) \cup {f, None}
        /\ answers' \subseteq others \cup
              IF f # None
              THEN {[kind |-> "shown", run |-> f, status |-> Manifest(f), undo |-> FALSE]} ELSE {}
  BY DEF Resumes, FeedTypeOK
<1>2. T \in [Runs -> {"no", "active", "ended"}]
  BY DEF FeedTypeOK
<1>3. stream' \in [Runs -> {"off", "lost", "opening", "joined", "watching", "closing"}]
  BY <1>1 DEF Subscribed, FeedTypeOK
<1>4. f # None => [kind |-> "shown", run |-> f, status |-> Manifest(f), undo |-> FALSE] \in Answers
  BY <1>1, ManifestIsAStatus DEF Answers
<1>5. QED
  BY <1>1, <1>2, <1>3, <1>4 DEF Active

LEMMA DaemonTypes ==
    ASSUME FeedTypeOK, NEW r \in Runs, NEW e \in {"done", "error"},
           \/ CliStarts(r) \/ CliEnds(r) \/ Finishes(r, e) \/ Closes(r)
           \/ Connects(r) \/ Joins(r) \/ Polls(r) \/ Drops(r)
    PROVE  FeedTypeOK'
<1>1. CASE CliStarts(r)
  BY <1>1 DEF CliStarts, FeedTypeOK, server, wire, tab, spent, history
<1>2. CASE CliEnds(r)
  BY <1>2 DEF CliEnds, FeedTypeOK, server, wire, tab, spent, history
<1>3. CASE Finishes(r, e)
  <2>1. chan' \in [Runs -> Seq({"active", "ended", "done", "error"})]
    <3>1. [chan EXCEPT ![r] = Append(@, e)] \in [Runs -> Seq({"active", "ended", "done", "error"})]
      BY ChannelGrows
    <3>2. chan' = [chan EXCEPT ![r] = Append(@, e)] \/ chan' = chan
      BY <1>3 DEF Finishes, Sends
    <3>3. QED
      BY <3>1, <3>2 DEF FeedTypeOK
  <2>2. entry' \in [Runs -> {"none", "live", "finished"}]
    BY <1>3 DEF Finishes, FeedTypeOK
  <2>3. disk' \in [Runs -> {"unborn", "absent", "active", "ended", "orphan"}]
    BY <1>3 DEF Finishes, FeedTypeOK
  <2>4. QED
    BY <1>3, <2>1, <2>2, <2>3 DEF Finishes, FeedTypeOK, tab, spent, history
<1>4. CASE Closes(r)
  BY <1>4 DEF Closes, FeedTypeOK, server, wire, tab, spent, history
<1>5. CASE Connects(r)
  <2>1. chan' \in [Runs -> Seq({"active", "ended", "done", "error"})]
    <3>1. \A x \in {"active", "done", "error"} :
             [chan EXCEPT ![r] = Append(@, x)] \in [Runs -> Seq({"active", "ended", "done", "error"})]
      BY ChannelGrows
    <3>2. \/ chan' = chan
          \/ \E x \in {"active", "done", "error"} : chan' = [chan EXCEPT ![r] = Append(@, x)]
      BY <1>5 DEF Connects, Sends
    <3>3. QED
      BY <3>1, <3>2 DEF FeedTypeOK
  <2>2. stream' \in [Runs -> {"off", "lost", "opening", "joined", "watching", "closing"}]
    BY <1>5 DEF Connects, FeedTypeOK
  <2>3. QED
    BY <1>5, <2>1, <2>2 DEF Connects, FeedTypeOK, server, tab, spent, history
<1>6. CASE Joins(r)
  <2>1. LastManifest(r) \in Seq({"active", "ended", "done", "error"})
    <3>1. <<"active">> \in Seq({"active", "ended", "done", "error"})
      OBVIOUS
    <3>2. <<"ended">> \in Seq({"active", "ended", "done", "error"})
      OBVIOUS
    <3>3. QED
      BY <3>1, <3>2, Zenon DEF LastManifest
  <2>2. chan[r] \o LastManifest(r) \in Seq({"active", "ended", "done", "error"})
    BY <2>1, ConcatProperties DEF FeedTypeOK
  <2>3. chan' \in [Runs -> Seq({"active", "ended", "done", "error"})]
    BY <1>6, <2>2 DEF Joins, FeedTypeOK
  <2>4. stream' \in [Runs -> {"off", "lost", "opening", "joined", "watching", "closing"}]
    BY <1>6 DEF Joins, FeedTypeOK
  <2>5. QED
    BY <1>6, <2>3, <2>4 DEF Joins, FeedTypeOK, server, tab, spent, history
<1>7. CASE Polls(r)
  <2>1. chan' \in [Runs -> Seq({"active", "ended", "done", "error"})]
    <3>1. \A x \in {"done", "error"} :
             [chan EXCEPT ![r] = Append(@, x)] \in [Runs -> Seq({"active", "ended", "done", "error"})]
      BY ChannelGrows
    <3>2. \E x \in {"done", "error"} : chan' = [chan EXCEPT ![r] = Append(@, x)]
      BY <1>7 DEF Polls, Sends
    <3>3. QED
      BY <3>1, <3>2
  <2>2. stream' \in [Runs -> {"off", "lost", "opening", "joined", "watching", "closing"}]
    BY <1>7 DEF Polls, FeedTypeOK
  <2>3. QED
    BY <1>7, <2>1, <2>2 DEF Polls, FeedTypeOK, server, tab, spent, history
<1>8. CASE Drops(r)
  BY <1>8 DEF Drops, Disturbs, FeedTypeOK, server, wire, tab, spent, history
<1>9. QED
  BY <1>1, <1>2, <1>3, <1>4, <1>5, <1>6, <1>7, <1>8

LEMMA EventTypes ==
    ASSUME FeedTypeOK, NEW r \in Runs, TakesSnapshot(r) \/ TakesDone(r) \/ TakesError(r)
    PROVE  FeedTypeOK'
<1>1. CASE TakesSnapshot(r)
  BY <1>1, ChannelGrows DEF TakesSnapshot, FeedTypeOK, server, wire, tab, spent, history
<1>2. CASE TakesDone(r)
  <2>1. [tracked EXCEPT ![r] = "ended"] \in [Runs -> {"no", "active", "ended"}]
    BY DEF FeedTypeOK
  <2>2. FinishRun(r, [tracked EXCEPT ![r] = "ended"])
    BY <1>2 DEF TakesDone
  <2>3. QED
    BY <1>2, <2>1, <2>2, FinishRunTypes DEF TakesDone, FeedTypeOK, server, spent, history
<1>3. CASE TakesError(r)
  BY <1>3, FinishRunTypes DEF TakesError, FeedTypeOK, server, spent, history
<1>4. QED
  BY <1>1, <1>2, <1>3

LEMMA AnswerTypes ==
    ASSUME FeedTypeOK, NEW a \in answers,
           \/ TakesBoot(a) \/ TakesResume(a) \/ TakesRows(a) \/ TakesShown(a)
           \/ TakesAccepted(a) \/ TakesDeleted(a) \/ TakesFailure(a) \/ ForgetsDeleted(a)
    PROVE  FeedTypeOK'
<1> a \in Answers /\ answers \ {a} \in SUBSET Answers
  BY DEF FeedTypeOK
<1>1. CASE TakesBoot(a)
  BY <1>1, AnswerFields, ResumesTypes DEF TakesBoot, FeedTypeOK, server, spent, history
<1>2. CASE TakesResume(a)
  BY <1>2, AnswerFields, ResumesTypes DEF TakesResume, FeedTypeOK, server, spent, history
<1>3. CASE TakesRows(a)
  BY <1>3, AnswerFields DEF TakesRows, FeedTypeOK, server, wire, spent, history
<1>4. CASE TakesShown(a)
  <2>1. a.run \in Runs /\ a.status \in Statuses
    BY <1>4, AnswerFields DEF TakesShown
  <2>2. stream' \in [Runs -> {"off", "lost", "opening", "joined", "watching", "closing"}]
    BY <1>4 DEF TakesShown, Subscribed, FeedTypeOK
  <2>3. tracked' \in [Runs -> {"no", "active", "ended"}]
    BY <1>4, <2>1 DEF TakesShown, Statuses, FeedTypeOK
  <2>4. focus' \in Runs \cup {None}
    BY <1>4, <2>1 DEF TakesShown, FeedTypeOK
  <2>5. QED
    BY <1>4, <2>2, <2>3, <2>4 DEF TakesShown, FeedTypeOK, server, spent, history
<1>5. CASE TakesAccepted(a)
  BY <1>5, AnswerFields, RefreshIsAnAnswer DEF TakesAccepted, Subscribed, FeedTypeOK, server, spent, history
<1>6. CASE TakesDeleted(a)
  BY <1>6, AnswerFields DEF TakesDeleted, Lists, Statuses, FeedTypeOK, server, wire, spent, history
<1>7. CASE TakesFailure(a)
  BY <1>7, AnswerFields DEF TakesFailure, Merged, Lists, Statuses, FeedTypeOK, server, wire, spent, history
<1>8. CASE ForgetsDeleted(a)
  <2>1. Unsubscribed({a.run}) /\ {a.run} \in SUBSET Runs
    BY <1>8, AnswerFields DEF ForgetsDeleted
  <2>2. QED
    BY <1>8, <2>1, AnswerFields, Cut DEF ForgetsDeleted, Lists, Statuses, FeedTypeOK, server, spent, history
<1>9. QED
  BY <1>1, <1>2, <1>3, <1>4, <1>5, <1>6, <1>7, <1>8

LEMMA UserTypes ==
    ASSUME FeedTypeOK, NEW r \in Runs, AddsToQueue(r) \/ Adopts(r) \/ Deletes(r) \/ DeletesInGallery(r)
    PROVE  FeedTypeOK'
<1>1. CASE AddsToQueue(r)
  <2>1. [kind |-> "accepted", run |-> r, behind |-> Active(tracked) # {}] \in Answers
    BY DEF Answers
  <2>2. QED
    BY <1>1, <2>1 DEF AddsToQueue, Starts, Asks, FeedTypeOK, wire, tab, spent, history
<1>2. CASE Adopts(r)
  <2>1. [kind |-> "resume", rows |-> [Listed EXCEPT ![r] = "active"]] \in Answers
    BY ListedIsAList DEF Answers, Lists, Statuses
  <2>2. QED
    BY <1>2, <2>1 DEF Adopts, Starts, Subscribed, Asks, FeedTypeOK, spent, history
<1>3. CASE Deletes(r)
  <2>1. Unsubscribed(Dropped(r)) /\ Dropped(r) \in SUBSET Runs
    BY <1>3 DEF Deletes, Dropped
  <2>2. pend' \subseteq Pending
    <3>1. row[r] \in Statuses /\ deletes + 1 \in Nat
      BY DEF FeedTypeOK, Lists
    <3>2. [nth |-> deletes + 1, run |-> r, row |-> row[r], shown |-> focus = r] \in Pending
      BY <3>1 DEF Pending
    <3>3. QED
      BY <1>3, <3>2 DEF Deletes, FeedTypeOK
  <2>3. tracked' \in [Runs -> {"no", "active", "ended"}] /\ focus' \in Runs \cup {None}
    BY <1>3 DEF Deletes, Untracked, FeedTypeOK
  <2>4. QED
    <3>1. row' \in Lists
      BY <1>3 DEF Deletes, Lists, Statuses, FeedTypeOK
    <3>2. wish' \in [Runs -> {"keep", "delete", "told"}] /\ doubled' \subseteq Runs /\ deletes' \in Nat
      BY <1>3 DEF Deletes, FeedTypeOK
    <3>3. QED
      BY <1>3, <2>1, <2>2, <2>3, <3>1, <3>2, Cut DEF Deletes, FeedTypeOK, server
<1>4. CASE DeletesInGallery(r)
  <2>1. [kind |-> "gallery", run |-> r] \in Answers
    BY DEF Answers
  <2>2. QED
    BY <1>4, <2>1 DEF DeletesInGallery, Without, Asks, FeedTypeOK, wire, tab, history
<1>5. QED
  BY <1>1, <1>2, <1>3, <1>4

LEMMA DeletionTypes ==
    ASSUME FeedTypeOK, NEW p \in pend, Undoes(p) \/ Commits(p)
    PROVE  FeedTypeOK'
<1>1. p \in Pending /\ p.run \in Runs /\ p.row \in Statuses
  BY DEF FeedTypeOK, Pending
<1>2. Merged(p) \in Lists
  BY <1>1 DEF Merged, Lists, Statuses, FeedTypeOK
<1>3. Told({p.run}) \in [Runs -> {"keep", "delete", "told"}]
  BY DEF Told, FeedTypeOK
<1>4. CASE Undoes(p)
  <2>1. [kind |-> "shown", run |-> p.run, status |-> Manifest(p.run), undo |-> TRUE] \in Answers
    BY <1>1, ManifestIsAStatus DEF Answers
  <2>2. QED
    BY <1>1, <1>2, <1>4, <2>1 DEF Undoes, StillPending, Asks, FeedTypeOK, server, wire, spent
<1>5. CASE Commits(p)
  <2>1. disk' \in [Runs -> {"unborn", "absent", "active", "ended", "orphan"}]
    BY <1>5 DEF Commits, Without, FeedTypeOK
  <2>2. Listed' \in Lists
    BY <2>1 DEF Listed, Lists, Statuses
  <2>3. answers' \subseteq Answers
    <3>1. [kind |-> "deleted", run |-> p.run, row |-> p.row,
           refused |-> ~Deletable(p.run), rows |-> Listed'] \in Answers
      BY <1>1, <2>2 DEF Answers, Deletable
    <3>2. QED
      BY <1>5, <3>1 DEF Commits, Asks, FeedTypeOK
  <2>4. row' \in Lists
    BY <1>2, <1>5 DEF Commits, FeedTypeOK
  <2>5. QED
    BY <1>3, <1>5, <2>1, <2>3, <2>4 DEF Commits, FeedTypeOK, wire, spent
<1>6. QED
  BY <1>4, <1>5

LEMMA PageTypes ==
    ASSUME FeedTypeOK, Boots \/ Reloads \/ Crashes \/ Restarts
    PROVE  FeedTypeOK'
<1>1. CASE Boots
  <2>1. [kind |-> "boot", rows |-> Listed] \in Answers
    BY ListedIsAList DEF Answers
  <2>2. QED
    BY <1>1, <2>1 DEF Boots, Asks, FeedTypeOK, server, wire, spent, history
<1>2. CASE Reloads
  BY <1>2 DEF Reloads, Disturbs, Without, Told, Lists, Statuses, FeedTypeOK
<1>3. CASE Crashes
  <2>1. ASSUME NEW a \in Answers
        PROVE  Broken(a) \subseteq Answers
    <3>1. CASE a.kind = "shown"
      <4>1. [a EXCEPT !.status = "absent"] \in Answers
        BY <3>1 DEF Answers, Statuses
      <4>2. QED
        BY <3>1, <4>1 DEF Broken
    <3>2. CASE a.kind = "deleted"
      <4>1. [kind |-> "failed", run |-> a.run, row |-> a.row] \in Answers
        BY <3>2, AnswerFields DEF Answers
      <4>2. QED
        BY <3>2, <4>1 DEF Broken
    <3>3. CASE a.kind = "resume"
      <4>1. [a EXCEPT !.rows = row] \in Answers
        BY <3>3 DEF Answers, FeedTypeOK
      <4>2. QED
        BY <3>3, <4>1 DEF Broken
    <3>4. CASE a.kind = "failed"
      BY <3>4 DEF Broken
    <3>5. CASE a.kind \notin {"shown", "deleted", "resume", "failed"}
      BY <3>5 DEF Broken
    <3>6. QED
      BY <3>1, <3>2, <3>3, <3>4, <3>5
  <2>2. answers' \subseteq Answers
    BY <1>3, <2>1 DEF Crashes, FeedTypeOK
  <2>3. QED
    <3>1. /\ stream' \in [Runs -> {"off", "lost", "opening", "joined", "watching", "closing"}]
          /\ chan' \in [Runs -> Seq({"active", "ended", "done", "error"})]
      BY <1>3, EmptySeq DEF Crashes, FeedTypeOK
    <3>2. /\ disk' \in [Runs -> {"unborn", "absent", "active", "ended", "orphan"}]
          /\ entry' \in [Runs -> {"none", "live", "finished"}]
      BY <1>3 DEF Crashes, FeedTypeOK
    <3>3. page' \in {"closed", "booting", "ready"} /\ disturbed' \in Nat
      BY <1>3 DEF Crashes, Disturbs, FeedTypeOK
    <3>4. up' \in BOOLEAN
      BY <1>3, Zenon DEF Crashes
    <3>5. QED
      BY <1>3, <2>2, <3>1, <3>2, <3>3, <3>4 DEF Crashes, FeedTypeOK, history
<1>4. CASE Restarts
  BY <1>4 DEF Restarts, FeedTypeOK, wire, tab, spent, history
<1>5. QED
  BY <1>1, <1>2, <1>3, <1>4

\* The types, over every step.
LEMMA TypeStep == FeedTypeOK /\ [FeedNext]_feedVars => FeedTypeOK'
<1> SUFFICES ASSUME FeedTypeOK, [FeedNext]_feedVars
             PROVE  FeedTypeOK'
  OBVIOUS
<1>1. ASSUME NEW r \in Runs,
             \/ CliStarts(r) \/ CliEnds(r) \/ Finishes(r, "done") \/ Finishes(r, "error")
             \/ Closes(r) \/ Connects(r) \/ Joins(r) \/ Polls(r) \/ Drops(r)
      PROVE  FeedTypeOK'
  BY <1>1, DaemonTypes
<1>2. CASE UNCHANGED feedVars
  BY <1>2 DEF feedVars, server, wire, tab, spent, history, FeedTypeOK
<1>3. CASE Happens
  BY <1>1, <1>3, UserTypes, DeletionTypes, PageTypes DEF Happens
<1>4. CASE Follows
  BY <1>1, <1>4, EventTypes, PageTypes, AnswerTypes, DeletionTypes DEF Follows
<1>5. QED
  BY <1>2, <1>3, <1>4 DEF FeedNext

---------------------------------------------------------------------------
(* Streams.                                                                *)

LEMMA FinishRunHeard ==
    ASSUME FeedTypeOK, Heard, NEW r \in Runs, NEW t \in [Runs -> {"no", "active", "ended"}],
           \A q \in Runs \ {r} : t[q] = tracked[q], FinishRun(r, t)
    PROVE  Heard'
<1>1. \A q \in Runs : Over(t, r)[q] = "active" => q # r /\ tracked[q] = "active"
  BY DEF Over
<1>2. Over(t, r) \in [Runs -> {"no", "active", "ended"}]
  BY DEF Over
<1>3. \A q \in Runs : tracked'[q] = "active" => Over(t, r)[q] = "active"
  BY <1>2 DEF FinishRun
<1>4. \A q \in Runs : /\ stream'[q] = IF q = r THEN "off" ELSE stream[q]
                      /\ chan'[q] = IF q = r THEN << >> ELSE chan[q]
  BY DEF FinishRun, Unsubscribed
<1>5. QED
  BY <1>1, <1>3, <1>4 DEF Heard, EventsHaveAStream, Watched

LEMMA ResumesHeard ==
    ASSUME FeedTypeOK, Heard, NEW rows \in Lists, NEW others, Resumes(rows, others)
    PROVE  Heard'
<1>1. \A r \in Runs : tracked'[r] = "active" =>
         (rows[r] = "active" /\ r \notin Streaming) \/ tracked[r] = "active"
  BY DEF Resumes
<1>2. chan' = chan /\ Subscribed(Active(rows))
  BY DEF Resumes
<1>3. \A r \in Runs : stream'[r] = IF rows[r] = "active" /\ stream[r] = "off" THEN "lost" ELSE stream[r]
  BY <1>2 DEF Subscribed, Active, Streaming
<1>4. QED
  BY <1>1, <1>2, <1>3 DEF Heard, EventsHaveAStream, Watched, Streaming

LEMMA DaemonHeard ==
    ASSUME FeedTypeOK, Heard, NEW r \in Runs, NEW e \in {"done", "error"},
           \/ CliStarts(r) \/ CliEnds(r) \/ Finishes(r, e) \/ Closes(r)
           \/ Connects(r) \/ Joins(r) \/ Polls(r) \/ Drops(r)
    PROVE  Heard'
<1>1. UNCHANGED tracked
  BY DEF CliStarts, CliEnds, Finishes, Closes, Connects, Joins, Polls, Drops, tab
<1>2. \A q \in Runs : stream'[q] = stream[q] \/ (stream[q] # "off" /\ stream'[q] # "off")
  <2>1. \/ stream' = stream
        \/ /\ stream[r] # "off"
           /\ \E s \in {"lost", "opening", "joined", "watching", "closing"} : stream' = [stream EXCEPT ![r] = s]
    <3>1. CASE CliStarts(r) \/ CliEnds(r) \/ Finishes(r, e) \/ Closes(r)
      BY <3>1 DEF CliStarts, CliEnds, Finishes, Closes, wire
    <3>2. CASE Connects(r)
      BY <3>2, Zenon DEF Connects
    <3>3. CASE Joins(r) \/ Polls(r) \/ Drops(r)
      BY <3>3, Zenon DEF Joins, Polls, Drops
    <3>4. QED
      BY <3>1, <3>2, <3>3
  <2>2. QED
    <3>1. CASE stream' = stream
      BY <3>1
    <3>2. ASSUME NEW s \in {"lost", "opening", "joined", "watching", "closing"},
                 stream' = [stream EXCEPT ![r] = s], stream[r] # "off"
          PROVE  \A q \in Runs : stream'[q] = stream[q] \/ (stream[q] # "off" /\ stream'[q] # "off")
      BY <3>2 DEF FeedTypeOK
    <3>3. QED
      BY <2>1, <3>1, <3>2
<1>3. \A q \in Runs : chan'[q] = chan[q] \/ stream[q] # "off" \/ chan'[q] = << >>
  <2>1. CASE chan' = chan \/ Drops(r)
    BY <2>1 DEF Drops, FeedTypeOK
  <2>2. CASE stream[r] # "off" /\ \A q \in Runs \ {r} : chan'[q] = chan[q]
    BY <2>2
  <2>3. chan' = chan \/ Drops(r) \/ (stream[r] # "off" /\ \E s : chan' = [chan EXCEPT ![r] = s])
    BY DEF CliStarts, CliEnds, Finishes, Closes, Connects, Joins, Polls, Sends, wire
  <2>4. QED
    BY <2>1, <2>2, <2>3 DEF FeedTypeOK
<1>4. QED
  BY <1>1, <1>2, <1>3 DEF Heard, EventsHaveAStream, Watched

LEMMA EventHeard ==
    ASSUME FeedTypeOK, Heard, NEW r \in Runs, TakesSnapshot(r) \/ TakesDone(r) \/ TakesError(r)
    PROVE  Heard'
<1>1. CASE TakesSnapshot(r)
  <2>1. stream' = stream /\ stream[r] # "off"
    BY <1>1 DEF TakesSnapshot, Heard, EventsHaveAStream
  <2>2. \A q \in Runs \ {r} : tracked'[q] = tracked[q] /\ chan'[q] = chan[q]
    BY <1>1 DEF TakesSnapshot, FeedTypeOK
  <2>3. QED
    BY <2>1, <2>2 DEF Heard, EventsHaveAStream, Watched
<1>2. CASE TakesDone(r)
  <2>1. [tracked EXCEPT ![r] = "ended"] \in [Runs -> {"no", "active", "ended"}]
    BY DEF FeedTypeOK
  <2>2. \A q \in Runs \ {r} : [tracked EXCEPT ![r] = "ended"][q] = tracked[q]
    BY DEF FeedTypeOK
  <2>3. FinishRun(r, [tracked EXCEPT ![r] = "ended"])
    BY <1>2 DEF TakesDone
  <2>4. QED
    BY <2>1, <2>2, <2>3, FinishRunHeard
<1>3. CASE TakesError(r)
  BY <1>3, FinishRunHeard DEF TakesError, FeedTypeOK
<1>4. QED
  BY <1>1, <1>2, <1>3

LEMMA AnswerHeard ==
    ASSUME FeedTypeOK, Heard, NEW a \in answers,
           \/ TakesBoot(a) \/ TakesResume(a) \/ TakesRows(a) \/ TakesShown(a)
           \/ TakesAccepted(a) \/ TakesDeleted(a) \/ TakesFailure(a) \/ ForgetsDeleted(a)
    PROVE  Heard'
<1> a \in Answers
  BY DEF FeedTypeOK
<1>1. CASE TakesBoot(a)
  BY <1>1, AnswerFields, ResumesHeard DEF TakesBoot
<1>2. CASE TakesResume(a)
  BY <1>2, AnswerFields, ResumesHeard DEF TakesResume
<1>3. CASE TakesRows(a) \/ TakesDeleted(a) \/ TakesFailure(a)
  BY <1>3 DEF TakesRows, TakesDeleted, TakesFailure, wire, Heard, EventsHaveAStream, Watched
<1>4. CASE TakesShown(a)
  <2>1. a.run \in Runs /\ chan' = chan
    BY <1>4, AnswerFields DEF TakesShown
  <2>2. \A q \in Runs : stream[q] # "off" => stream'[q] # "off"
    BY <1>4 DEF TakesShown, Subscribed, Streaming
  <2>3. \A q \in Runs : tracked'[q] = "active" => tracked[q] = "active" \/ stream'[q] # "off"
    BY <1>4, <2>1 DEF TakesShown, Subscribed, Streaming, FeedTypeOK
  <2>4. QED
    BY <2>1, <2>2, <2>3 DEF Heard, EventsHaveAStream, Watched
<1>5. CASE TakesAccepted(a)
  <2>1. a.run \in Runs /\ chan' = chan
    BY <1>5, AnswerFields DEF TakesAccepted
  <2>2. \A q \in Runs : stream[q] # "off" => stream'[q] # "off"
    BY <1>5 DEF TakesAccepted, Subscribed, Streaming
  <2>3. \A q \in Runs : tracked'[q] = "active" => tracked[q] = "active" \/ stream'[q] # "off"
    BY <1>5, <2>1 DEF TakesAccepted, Subscribed, Streaming, FeedTypeOK
  <2>4. QED
    BY <2>1, <2>2, <2>3 DEF Heard, EventsHaveAStream, Watched
<1>6. CASE ForgetsDeleted(a)
  BY <1>6, AnswerFields DEF ForgetsDeleted, Unsubscribed, Heard, EventsHaveAStream, Watched, FeedTypeOK
<1>7. QED
  BY <1>1, <1>2, <1>3, <1>4, <1>5, <1>6

LEMMA UserHeard ==
    ASSUME FeedTypeOK, Heard, NEW r \in Runs,
           AddsToQueue(r) \/ Adopts(r) \/ Deletes(r) \/ DeletesInGallery(r)
    PROVE  Heard'
<1>1. CASE AddsToQueue(r) \/ DeletesInGallery(r)
  BY <1>1 DEF AddsToQueue, DeletesInGallery, wire, tab, Heard, EventsHaveAStream, Watched
<1>2. CASE Adopts(r)
  <2>1. chan' = chan /\ \A q \in Runs : stream[q] # "off" => stream'[q] # "off"
    BY <1>2 DEF Adopts, Subscribed, Streaming
  <2>2. \A q \in Runs : tracked'[q] = "active" => tracked[q] = "active" \/ stream'[q] # "off"
    BY <1>2 DEF Adopts, Subscribed, Streaming, FeedTypeOK
  <2>3. QED
    BY <2>1, <2>2 DEF Heard, EventsHaveAStream, Watched
<1>3. CASE Deletes(r)
  <2>1. \A q \in Runs : tracked'[q] = "active" => tracked[q] = "active"
    BY <1>3 DEF Deletes, Untracked
  <2>2. \A q \in Runs : /\ stream'[q] = IF q = r /\ tracked[r] # "active" THEN "off" ELSE stream[q]
                        /\ chan'[q] = IF q = r /\ tracked[r] # "active" THEN << >> ELSE chan[q]
    BY <1>3 DEF Deletes, Unsubscribed, Dropped
  <2>3. QED
    BY <2>1, <2>2 DEF Heard, EventsHaveAStream, Watched
<1>4. QED
  BY <1>1, <1>2, <1>3

LEMMA OtherHeard ==
    ASSUME FeedTypeOK, Heard,
           Boots \/ Reloads \/ Crashes \/ Restarts \/ (\E p \in pend : Undoes(p) \/ Commits(p))
    PROVE  Heard'
<1>1. CASE Boots \/ Restarts \/ (\E p \in pend : Undoes(p) \/ Commits(p))
  BY <1>1 DEF Boots, Restarts, Undoes, Commits, wire, tab, Heard, EventsHaveAStream, Watched
<1>2. CASE Reloads
  BY <1>2 DEF Reloads, Heard, EventsHaveAStream, Watched
<1>3. CASE Crashes
  BY <1>3 DEF Crashes, Heard, EventsHaveAStream, Watched
<1>4. QED
  BY <1>1, <1>2, <1>3

LEMMA HeardStep == FeedTypeOK /\ Heard /\ [FeedNext]_feedVars => Heard'
<1> SUFFICES ASSUME FeedTypeOK, Heard, [FeedNext]_feedVars
             PROVE  Heard'
  OBVIOUS
<1>1. ASSUME NEW r \in Runs,
             \/ CliStarts(r) \/ CliEnds(r) \/ Finishes(r, "done") \/ Finishes(r, "error")
             \/ Closes(r) \/ Connects(r) \/ Joins(r) \/ Polls(r) \/ Drops(r)
      PROVE  Heard'
  BY <1>1, DaemonHeard
<1>2. CASE UNCHANGED feedVars
  BY <1>2 DEF feedVars, wire, tab, Heard, EventsHaveAStream, Watched
<1>3. CASE Happens
  BY <1>1, <1>3, UserHeard, OtherHeard DEF Happens
<1>4. CASE Follows
  BY <1>1, <1>4, EventHeard, AnswerHeard, OtherHeard DEF Follows
<1>5. QED
  BY <1>2, <1>3, <1>4 DEF FeedNext

---------------------------------------------------------------------------
(* Deletions.                                                              *)

LEMMA PendingStep == FeedTypeOK /\ PendingIsWanted /\ [FeedNext]_feedVars => PendingIsWanted'
<1> SUFFICES ASSUME FeedTypeOK, PendingIsWanted, [FeedNext]_feedVars
             PROVE  PendingIsWanted'
  OBVIOUS
<1>1. CASE UNCHANGED <<pend, wish, doubled>>
  BY <1>1 DEF PendingIsWanted
<1>2. ASSUME NEW r \in Runs, Deletes(r)
      PROVE  PendingIsWanted'
  <2> DEFINE new == [nth |-> deletes + 1, run |-> r, row |-> row[r], shown |-> focus = r]
  <2>1. pend' = pend \cup {new} /\ new.run = r
    BY <1>2 DEF Deletes
  <2>2. /\ wish'[r] = "delete"
        /\ \A q \in Runs \ {r} : wish'[q] = wish[q]
        /\ doubled \subseteq doubled'
        /\ (\E p \in pend : p.run = r) => r \in doubled'
    BY <1>2 DEF Deletes, FeedTypeOK
  <2>3. \A p \in pend : p.run \in Runs
    BY DEF FeedTypeOK, Pending
  <2>4. QED
    BY <2>1, <2>2, <2>3 DEF PendingIsWanted
<1>3. ASSUME NEW p \in pend, Undoes(p) \/ Commits(p)
      PROVE  PendingIsWanted'
  <2>1. pend' = pend \ {p} /\ doubled' = doubled
    BY <1>3 DEF Undoes, Commits, StillPending
  <2>2. \A q \in Runs \ {p.run} : wish'[q] = wish[q]
    BY <1>3 DEF Undoes, Commits, Told, FeedTypeOK
  <2>3. \A q \in pend : q.run \in Runs
    BY DEF FeedTypeOK, Pending
  <2>4. QED
    BY <2>1, <2>2, <2>3 DEF PendingIsWanted
<1>4. ASSUME NEW r \in Runs, DeletesInGallery(r)
      PROVE  PendingIsWanted'
  <2>1. pend' = pend /\ doubled' = doubled
    BY <1>4 DEF DeletesInGallery, tab
  <2>2. \A q \in Runs : wish'[q] = wish[q] \/ wish'[q] = "delete"
    BY <1>4 DEF DeletesInGallery, FeedTypeOK
  <2>3. \A q \in pend : q.run \in Runs
    BY DEF FeedTypeOK, Pending
  <2>4. QED
    BY <2>1, <2>2, <2>3 DEF PendingIsWanted
<1>5. CASE Reloads
  BY <1>5 DEF Reloads, PendingIsWanted
<1>6. CASE Happens
  <2>1. \/ UNCHANGED <<pend, wish, doubled>> \/ Reloads
        \/ \E r \in Runs : Deletes(r) \/ DeletesInGallery(r)
        \/ \E p \in pend : Undoes(p)
    BY <1>6 DEF Happens, CliStarts, CliEnds, Finishes, Drops, AddsToQueue, Adopts, Crashes,
                Restarts, tab, history
  <2>2. QED
    BY <2>1, <1>1, <1>2, <1>3, <1>4, <1>5
<1>7. CASE Follows
  <2>1. UNCHANGED <<pend, wish, doubled>> \/ \E p \in pend : Commits(p)
    BY <1>7 DEF Follows, Closes, Connects, Joins, Polls, TakesSnapshot, TakesDone, TakesError,
                Boots, TakesBoot, TakesResume, TakesRows, TakesShown, TakesAccepted, TakesDeleted,
                TakesFailure, ForgetsDeleted, tab, history
  <2>2. QED
    BY <2>1, <1>1, <1>3
<1>8. QED
  BY <1>1, <1>6, <1>7 DEF FeedNext, feedVars, tab, history

\* What one step does to the manifest of a run the user can see.
LEMMA WishStep ==
    FeedTypeOK /\ PendingIsWanted /\ [FeedNext]_feedVars =>
        \A r \in Runs : disk[r] = "ended" /\ disk'[r] = "absent" => wish'[r] = "delete" \/ r \in doubled
<1> SUFFICES ASSUME FeedTypeOK, PendingIsWanted, [FeedNext]_feedVars,
                    NEW r \in Runs, disk[r] = "ended", disk'[r] = "absent"
             PROVE  wish'[r] = "delete" \/ r \in doubled
  OBVIOUS
<1>1. \A p \in pend : p.run = r /\ r \notin doubled => wish[r] = "delete"
  BY DEF PendingIsWanted
<1>2. ASSUME NEW p \in pend, Commits(p)
      PROVE  wish'[r] = "delete" \/ r \in doubled
  <2>1. up /\ disk' = Without({p.run}) /\ wish' = Told({p.run})
    BY <1>2 DEF Commits
  <2>2. p.run = r /\ Deletable(r)
    BY <2>1 DEF Without
  <2>3. wish'[r] = wish[r]
    BY <2>1, <2>2 DEF Told
  <2>4. QED
    BY <1>1, <2>2, <2>3
<1>3. CASE Reloads
  <2>1. up /\ disk' = Without(Flushed) /\ wish' = Told(Flushed)
    BY <1>3 DEF Reloads
  <2>2. r \in Flushed /\ Deletable(r)
    BY <2>1 DEF Without
  <2>3. wish'[r] = wish[r] /\ \E p \in pend : p.run = r
    BY <2>1, <2>2 DEF Told, Flushed
  <2>4. QED
    BY <1>1, <2>3
<1>4. ASSUME NEW q \in Runs, DeletesInGallery(q)
      PROVE  wish'[r] = "delete"
  <2>1. disk' = Without({q})
    BY <1>4 DEF DeletesInGallery
  <2>2. q = r /\ Deletable(q)
    BY <2>1 DEF Without
  <2>3. QED
    BY <1>4, <2>2 DEF DeletesInGallery, FeedTypeOK
<1>5. CASE Happens
  <2>1. \/ Reloads \/ \E q \in Runs : DeletesInGallery(q)
        \/ disk' = disk
        \/ \E q \in Runs, s \in {"active", "ended"} : disk' = [disk EXCEPT ![q] = s]
        \/ Crashes \/ Restarts
    BY <1>5 DEF Happens, CliStarts, CliEnds, Finishes, Drops, AddsToQueue, Adopts, Starts, Deletes,
                Undoes, server
  <2>2. QED
    <3>1. CASE \E q \in Runs, s \in {"active", "ended"} : disk' = [disk EXCEPT ![q] = s]
      BY <3>1 DEF FeedTypeOK
    <3>2. CASE disk' = disk
      BY <3>2
    <3>3. CASE Crashes
      <4>1. disk' = [q \in Runs |-> IF entry[q] = "live" THEN "orphan" ELSE disk[q]]
        BY <3>3 DEF Crashes
      <4>2. QED
        BY <4>1
    <3>4. CASE Restarts
      <4>1. disk' = [q \in Runs |-> IF disk[q] = "orphan" THEN "ended" ELSE disk[q]]
        BY <3>4 DEF Restarts
      <4>2. QED
        BY <4>1
    <3>5. QED
      BY <2>1, <1>3, <1>4, <3>1, <3>2, <3>3, <3>4
<1>6. CASE Follows
  <2>1. disk' = disk \/ \E p \in pend : Commits(p)
    BY <1>6 DEF Follows, Closes, Connects, Joins, Polls, TakesSnapshot, TakesDone, TakesError,
                Boots, TakesBoot, TakesResume, TakesRows, TakesShown, TakesAccepted, TakesDeleted,
                TakesFailure, ForgetsDeleted, server
  <2>2. QED
    BY <2>1, <1>2
<1>7. QED
  BY <1>5, <1>6 DEF FeedNext, feedVars, server

---------------------------------------------------------------------------
(* The theorems.                                                           *)

LEMMA Initially == FeedInit => FeedInv
BY DEF FeedInit, FeedInv, FeedTypeOK, Heard, EventsHaveAStream, Watched, PendingIsWanted, Lists, Statuses

(* The inductive invariant holds: types, streams and waiting deletions.    *)
THEOREM FeedInvariance == FeedSpec => []FeedInv
<1>1. FeedInv /\ [FeedNext]_feedVars => FeedInv'
  BY TypeStep, HeardStep, PendingStep DEF FeedInv
<1>2. QED
  BY Initially, <1>1, PTL DEF FeedSpec

(* The handlers of both sides find the state they expect.                  *)
THEOREM FeedTypeCorrect == FeedSpec => []FeedTypeOK
BY FeedInvariance, PTL DEF FeedInv

(* Nothing the tab shows as going on is left without its stream.           *)
THEOREM NothingIsLeftUnwatched == FeedSpec => []Watched
<1>1. FeedInv => Watched
  BY DEF FeedInv, Heard
<1>2. QED
  BY FeedInvariance, <1>1, PTL

(* No timer, beacon or answer deletes a run the user has asked back.       *)
THEOREM NoUndoIsOverridden == FeedSpec => WishIsKept
<1>1. FeedInv /\ [FeedNext]_feedVars =>
        [\A r \in Runs : disk[r] = "ended" /\ disk'[r] = "absent"
                         => wish'[r] = "delete" \/ r \in doubled]_feedVars
  BY WishStep DEF FeedInv
<1>2. QED
  BY FeedInvariance, <1>1, PTL DEF WishIsKept, FeedSpec

-----------------------------------------------------------------------------
(* JobScheduler, for every number of jobs, every set of pools and every    *)
(* limit, and that it does what Batch promises.                            *)
(*                                                                         *)
(* The caps rest on the counters being counts.  That no slot stays idle    *)
(* and no pool starves rest on how far the cursor is past a pool: a pass   *)
(* that starts nothing has been to all of them, and a pool that could      *)
(* start a job is passed over once by each of the others at most.          *)

RunningIn(p) == {j \in running : PoolOf[j] = p}

L == Len(poolOrder)

\* How many visits ago the pool at place k of the order was visited.
Behind(k) == IF k < cursor THEN cursor - k - 1 ELSE cursor + L - k - 1

Places == 0 .. L - 1

PoolAt(k) == poolOrder[k + 1]

Cursor ==
    /\ L > 0 => cursor < L
    /\ at # "scan" => scanned = 0 /\ ~startedAny

\* A pass that has started nothing found nothing at the places it has been to.
FoundNothing ==
    at = "scan" /\ ~startedAny => \A k \in Places : Behind(k) < scanned => ~HasStartable(PoolAt(k))

PassedByOthers ==
    /\ \A p \in Pools : passedOver[p] > 0 => HasStartable(p)
    /\ \A k \in Places : passedOver[PoolAt(k)] <= Behind(k)

\* Every job that was started is running or has its one result.
Results ==
    /\ running \subseteq Started
    /\ Started \ running \subseteq Settled /\ Settled \subseteq Started
    /\ \A m, n \in DOMAIN results : results[m].job = results[n].job => m = n
    /\ at = "resolved" => done >= N

IInv == /\ TypeOK /\ Cursor /\ CountersCount /\ WithinCaps /\ Results
        /\ FoundNothing /\ NoIdleSlot /\ PassedByOthers

-----------------------------------------------------------------------------
(* The queues and the order of the pools, which never change.              *)

\* The jobs are finitely many.
LEMMA JobsFinite ==
  IsFiniteSet(Jobs) /\ Cardinality(Jobs) = N /\ \A S \in SUBSET Jobs : IsFiniteSet(S) /\ Cardinality(S) \in Nat
<1>1. N \in Nat
  BY SchedulerAssumption
<1>2. IsFiniteSet(1 .. N) /\ Cardinality(1 .. N) = IF 1 > N THEN 0 ELSE N - 1 + 1
  BY <1>1, FS_Interval
<1>3. ASSUME NEW S \in SUBSET Jobs
      PROVE  IsFiniteSet(S) /\ Cardinality(S) \in Nat
  BY <1>2, FS_Subset, FS_CardinalityType DEF Jobs
<1>4. QED
  BY <1>1, <1>2, <1>3 DEF Jobs

\* The limits are at least one.
LEMMA LimitsPositive == TotalLimit \in Nat \ {0} /\ Limit \in [Pools -> Nat \ {0}]
BY SchedulerAssumption DEF TotalLimit, Limit, Larger, Smaller, Or1

\* InOrder lists the jobs of a set by number.
LEMMA InOrderProperties ==
  ASSUME NEW S \in SUBSET Jobs
  PROVE  /\ InOrder(S) \in Seq(Jobs)
         /\ Len(InOrder(S)) = Cardinality(S)
         /\ Range(InOrder(S)) = S
         /\ \A m, n \in 1 .. Len(InOrder(S)) : m < n => InOrder(S)[m] < InOrder(S)[n]
<1> DEFINE all == [i \in Jobs |-> i]
<1>1. N \in Nat
  BY SchedulerAssumption
<1>2. all \in Seq(Jobs) /\ DOMAIN all = Jobs
  BY <1>1 DEF Jobs
<1>3. InOrder(S) = Pick(all, S)
  BY DEF InOrder
<1> HIDE DEF all
<1>4. Pick(all, S) \in Seq(Jobs) /\ Range(Pick(all, S)) = {all[i] : i \in S}
  BY <1>2, PickProperties
<1>5. {all[i] : i \in S} = S
  BY DEF all
<1>6. /\ DOMAIN Pick(all, S) = 1 .. Cardinality(S)
      /\ \A n \in 1 .. Cardinality(S) : Nth(S, n) \in S /\ Pick(all, S)[n] = all[Nth(S, n)]
      /\ \A m, n \in 1 .. Cardinality(S) : m < n => Nth(S, m) < Nth(S, n)
  BY <1>2, PickOrdered
<1>7. Cardinality(S) \in Nat
  BY JobsFinite
<1>8. Len(Pick(all, S)) = Cardinality(S)
  BY <1>4, <1>6, <1>7, LenProperties
<1>9. \A n \in 1 .. Cardinality(S) : Pick(all, S)[n] = Nth(S, n)
  BY <1>6 DEF all
<1>10. QED
  BY <1>3, <1>4, <1>5, <1>6, <1>8, <1>9

\* Each queue holds the jobs of its pool by number.
LEMMA QueueProperties ==
  ASSUME NEW p \in Pools
  PROVE  /\ queues[p] \in Seq(Jobs) /\ Len(queues[p]) \in Nat
         /\ \A n \in 1 .. Len(queues[p]) : queues[p][n] \in Jobs /\ PoolOf[queues[p][n]] = p
         /\ \A j \in Jobs : PoolOf[j] = p => \E n \in 1 .. Len(queues[p]) : queues[p][n] = j
         /\ \A m, n \in 1 .. Len(queues[p]) : m < n => queues[p][m] < queues[p][n]
<1>1. queues[p] = InOrder(JobsOf(p)) /\ JobsOf(p) \in SUBSET Jobs
  BY DEF queues, JobsOf
<1> DEFINE q == queues[p]
<1>2. /\ q \in Seq(Jobs) /\ Range(q) = JobsOf(p)
      /\ \A m, n \in 1 .. Len(q) : m < n => q[m] < q[n]
  BY <1>1, InOrderProperties
<1> HIDE DEF q
<1>3. DOMAIN q = 1 .. Len(q) /\ Len(q) \in Nat
  BY <1>2, LenProperties
<1>4. QED
  BY <1>2, <1>3 DEF q, Range, JobsOf

\* The order of the pools names pools, and all that have a job.
LEMMA OrderProperties ==
  /\ L \in Nat
  /\ \A k \in Places : PoolAt(k) \in Pools
  /\ \A p \in Pools : Len(queues[p]) > 0 => \E k \in Places : PoolAt(k) = p
<1> DEFINE First == {j \in Jobs : \A i \in Jobs : i < j => PoolOf[i] # PoolOf[j]}
           F == FirstJobs
<1>1. F \in Seq(Jobs) /\ Range(F) = First
  BY InOrderProperties DEF FirstJobs
<1> HIDE DEF F
<1>2. DOMAIN F = 1 .. Len(F) /\ Len(F) \in Nat /\ \A n \in 1 .. Len(F) : F[n] \in Jobs
  BY <1>1, LenProperties
<1>3. poolOrder = [n \in 1 .. Len(F) |-> PoolOf[F[n]]]
  BY <1>2 DEF poolOrder, F
<1>4. \A n \in 1 .. Len(F) : PoolOf[F[n]] \in Pools
  BY <1>2, SchedulerAssumption
<1>5. L = Len(F)
  BY <1>2, <1>3 DEF L
<1>6. \A k \in Places : PoolAt(k) = PoolOf[F[k + 1]]
  BY <1>2, <1>3, <1>5 DEF Places, PoolAt
<1>7. \A k \in Places : PoolAt(k) \in Pools
  BY <1>2, <1>4, <1>5, <1>6 DEF Places
<1>8. ASSUME NEW p \in Pools, Len(queues[p]) > 0
      PROVE  \E k \in Places : PoolAt(k) = p
  <2> DEFINE j == queues[p][1]
  <2>1. j \in Jobs /\ PoolOf[j] = p
    BY <1>8, QueueProperties
  <2>2. ASSUME NEW i \in Jobs, i < j, PoolOf[i] = p
        PROVE  FALSE
    <3>1. PICK n \in 1 .. Len(queues[p]) : queues[p][n] = i
      BY <2>2, QueueProperties
    <3>2. n = 1 \/ j < i
      BY <1>8, <3>1, QueueProperties
    <3>3. i \in Int /\ j \in Int
      BY <2>1 DEF Jobs
    <3>4. QED
      BY <2>2, <3>1, <3>2, <3>3
  <2>3. j \in First
    BY <2>1, <2>2
  <2>4. PICK n \in 1 .. Len(F) : F[n] = j
    BY <1>1, <1>2, <2>3 DEF Range
  <2>5. n - 1 \in Places /\ PoolAt(n - 1) = p
    BY <1>2, <1>5, <1>6, <2>1, <2>4 DEF Places
  <2>6. QED
    BY <2>5
<1>9. QED
  BY <1>2, <1>5, <1>7, <1>8


-----------------------------------------------------------------------------
(* The pieces of state, one at a time.                                     *)

\* A started job is a place of its pool's queue before the head.
LEMMA StartedMeans ==
  ASSUME TypeOK
  PROVE  /\ Started \subseteq Jobs
         /\ \A p \in Pools : \A n \in 1 .. Len(queues[p]) :
              queues[p][n] \in Started <=> n <= queueHeads[p]
<1>1. \A p \in Pools : queueHeads[p] \in Nat /\ queueHeads[p] <= Len(queues[p])
  BY DEF TypeOK
<1>2. Started \subseteq Jobs
  BY <1>1, QueueProperties DEF Started
<1>3. ASSUME NEW p \in Pools, NEW n \in 1 .. Len(queues[p]), queues[p][n] \in Started
      PROVE  n <= queueHeads[p]
  <2>1. PICK q \in Pools : \E m \in 1 .. queueHeads[q] : queues[p][n] = queues[q][m]
    BY <1>3 DEF Started
  <2> PICK m \in 1 .. queueHeads[q] : queues[p][n] = queues[q][m]
    BY <2>1
  <2>2. m \in 1 .. Len(queues[q]) /\ Len(queues[q]) \in Nat
    BY <1>1, QueueProperties
  <2>3. p = q
    BY <2>2, QueueProperties
  <2>4. m = n
    <3>1. queues[p][m] \in Jobs /\ queues[p][n] \in Jobs
      BY <2>2, <2>3, QueueProperties
    <3>2. queues[p][m] \in Int
      BY <3>1 DEF Jobs
    <3>3. ~(m < n) /\ ~(n < m)
      BY <2>2, <2>3, <3>2, QueueProperties
    <3>4. QED
      BY <2>2, <2>3, <3>3
  <2>5. QED
    BY <1>1, <2>3, <2>4
<1>4. ASSUME NEW p \in Pools, NEW n \in 1 .. Len(queues[p]), n <= queueHeads[p]
      PROVE  queues[p][n] \in Started
  BY <1>1, <1>4, QueueProperties DEF Started
<1>5. QED
  BY <1>2, <1>3, <1>4

\* A visit to the pool under the cursor puts it behind, and the others one further.
LEMMA CursorAdvances ==
  ASSUME TypeOK, Cursor, L > 0, cursor' = Advanced
  PROVE  /\ cursor' \in Places /\ cursor \in Places /\ Visited = PoolAt(cursor)
         /\ \A k \in Places : /\ Behind(k) \in 0 .. L - 1
                             /\ Behind(k)' = IF k = cursor THEN 0 ELSE Behind(k) + 1
<1>1. L \in Nat /\ cursor \in Nat /\ cursor < L
  BY OrderProperties DEF TypeOK, Cursor, L
<1>2. cursor' = IF cursor + 1 = L THEN 0 ELSE cursor + 1
  <2>1. CASE cursor + 1 = L
    BY <1>1, <2>1 DEF Advanced, L
  <2>2. CASE cursor + 1 # L
    <3>1. cursor + 1 < L
      BY <1>1, <2>2
    <3>2. (cursor + 1) % L = cursor + 1
      BY <1>1, <3>1
    <3>3. QED
      BY <2>2, <3>2 DEF Advanced, L
  <2>3. QED
    BY <2>1, <2>2
<1>3. cursor' \in Places /\ cursor \in Places /\ Visited = PoolAt(cursor)
  BY <1>1, <1>2 DEF Places, Visited, PoolAt
<1>4. ASSUME NEW k \in Places
      PROVE  /\ Behind(k) \in 0 .. L - 1
             /\ Behind(k)' = IF k = cursor THEN 0 ELSE Behind(k) + 1
  BY <1>1, <1>2 DEF Places, Behind
<1>5. QED
  BY <1>3, <1>4

\* The pool under the cursor is one of the pools, while there is one to visit.
LEMMA VisitedPool ==
  ASSUME TypeOK, Cursor, ScanGoesOn
  PROVE  L > 0 /\ Visited \in Pools
<1>1. L \in Nat /\ L > 0 /\ cursor \in Nat /\ cursor < L
  BY OrderProperties DEF TypeOK, Cursor, L, ScanGoesOn
<1>2. cursor \in Places /\ Visited = PoolAt(cursor)
  BY <1>1 DEF Places, Visited, PoolAt
<1>3. QED
  BY <1>1, <1>2, OrderProperties

\* The invariant holds at the start.
LEMMA InitOK == Init => IInv
<1> SUFFICES ASSUME Init PROVE IInv
  OBVIOUS
<1>1. Started = {} /\ Settled = {}
  BY SchedulerAssumption DEF Init, Started, Settled
<1>2. \A p \in Pools : queueHeads[p] = 0 /\ activeByPool[p] = 0 /\ passedOver[p] = 0 /\ RunningIn(p) = {}
  BY DEF Init, RunningIn
<1>3. L \in Nat /\ \A k \in Places : PoolAt(k) \in Pools
  BY OrderProperties
<1>4. TypeOK
  <2>1. \A p \in Pools : Len(queues[p]) \in Nat
    BY QueueProperties
  <2>2. scanned \in 0 .. Len(poolOrder) /\ cursor \in 0 .. Len(poolOrder)
    BY <1>3 DEF Init, L
  <2>3. queueHeads \in [Pools -> Nat] /\ \A p \in Pools : queueHeads[p] <= Len(queues[p])
    BY <2>1 DEF Init
  <2>4. activeByPool \in [Pools -> Nat] /\ passedOver \in [Pools -> Nat]
    BY DEF Init
  <2>5. results \in Seq([job : Jobs, ok : BOOLEAN])
    BY DEF Init
  <2>6. QED
    BY <2>2, <2>3, <2>4, <2>5 DEF Init, TypeOK
<1>5. Cursor
  BY <1>3 DEF Init, Cursor
<1>6. CountersCount /\ WithinCaps
  <2>1. running = {} /\ Started \ running = {} /\ \A p \in Pools : {j \in running : PoolOf[j] = p} = {}
    BY <1>1 DEF Init
  <2>2. Cardinality({}) = 0
    BY FS_EmptySet
  <2>3. activeTotal = 0 /\ done = 0
    BY DEF Init
  <2>4. CountersCount
    BY <1>2, <2>1, <2>2, <2>3 DEF CountersCount
  <2>5. TotalLimit >= 0 /\ \A p \in Pools : Limit[p] >= 0
    BY LimitsPositive
  <2>6. WithinCaps
    BY <2>1, <2>2, <2>5 DEF WithinCaps
  <2>7. QED
    BY <2>4, <2>6
<1>7. Results
  BY <1>1 DEF Init, Results, AllDone
<1>8. FoundNothing /\ NoIdleSlot
  BY <1>3 DEF Init, FoundNothing, NoIdleSlot, Behind, Places
<1>9. PassedByOthers
  BY <1>2, <1>3 DEF Init, PassedByOthers, Behind, Places
<1>10. QED
  BY <1>4, <1>5, <1>6, <1>7, <1>8, <1>9 DEF IInv


-----------------------------------------------------------------------------
(* A visit.                                                                *)

\* A visit that starts a job starts the next one of the pool, which was not started before.
LEMMA JobStarts ==
  ASSUME TypeOK, Cursor, VisitStarts
  PROVE  /\ Visited \in Pools /\ L > 0
         /\ queueHeads[Visited] + 1 \in 1 .. Len(queues[Visited])
         /\ queueHeads'[Visited] = queueHeads[Visited] + 1
         /\ queueHeads' \in [Pools -> Nat] /\ \A q \in Pools : queueHeads'[q] <= Len(queues[q])
         /\ \E job \in Jobs :
              /\ job = queues[Visited][queueHeads[Visited] + 1]
              /\ PoolOf[job] = Visited /\ job \notin Started
              /\ Started' = Started \cup {job} /\ running' = running \cup {job}
<1> DEFINE p == Visited
           h == queueHeads[p]
           job == queues[p][h + 1]
<1>1. p \in Pools /\ L > 0
  BY VisitedPool DEF VisitStarts
<1>2. queueHeads \in [Pools -> Nat] /\ \A q \in Pools : queueHeads[q] \in Nat /\ queueHeads[q] <= Len(queues[q])
  BY DEF TypeOK
<1>3. /\ h < Len(queues[p]) /\ queueHeads' = [queueHeads EXCEPT ![p] = @ + 1]
      /\ running' = running \cup {job}
  BY DEF VisitStarts, HasStartable
<1> HIDE DEF p
<1>4. Len(queues[p]) \in Nat /\ h + 1 \in 1 .. Len(queues[p])
  BY <1>1, <1>2, <1>3, QueueProperties
<1>5. job \in Jobs /\ PoolOf[job] = p
  BY <1>1, <1>4, QueueProperties
<1>6. job \notin Started
  BY <1>1, <1>2, <1>4, StartedMeans
<1>7. /\ queueHeads' \in [Pools -> Nat] /\ queueHeads'[p] = h + 1
      /\ \A q \in Pools : queueHeads'[q] <= Len(queues[q])
      /\ \A q \in Pools : q # p => queueHeads'[q] = queueHeads[q]
  BY <1>1, <1>2, <1>3, <1>4
<1>8. Started' = UNION {{queues[q][i] : i \in 1 .. queueHeads'[q]} : q \in Pools}
  BY DEF Started
<1>9. \A x : x \in Started' <=> \E q \in Pools : \E i \in 1 .. queueHeads'[q] : x = queues[q][i]
  BY <1>8
<1>10. \A x : x \in Started <=> \E q \in Pools : \E i \in 1 .. queueHeads[q] : x = queues[q][i]
  BY DEF Started
<1>11. ASSUME NEW x \in Started'
       PROVE  x \in Started \cup {job}
  <2>1. PICK q \in Pools : \E i \in 1 .. queueHeads'[q] : x = queues[q][i]
    BY <1>9
  <2> PICK i \in 1 .. queueHeads'[q] : x = queues[q][i]
    BY <2>1
  <2>2. i \in 1 .. queueHeads[q] \/ (q = p /\ i = h + 1)
    BY <1>2, <1>7
  <2>3. QED
    BY <1>10, <2>2
<1>12. Started \subseteq Started'
  <2> SUFFICES ASSUME NEW x \in Started PROVE x \in Started'
    OBVIOUS
  <2>1. PICK q \in Pools : \E i \in 1 .. queueHeads[q] : x = queues[q][i]
    BY <1>10
  <2> PICK i \in 1 .. queueHeads[q] : x = queues[q][i]
    BY <2>1
  <2>2. i \in 1 .. queueHeads'[q]
    BY <1>2, <1>7
  <2>3. QED
    BY <1>9, <2>2
<1>13. job \in Started'
  <2>1. h + 1 \in 1 .. queueHeads'[p]
    BY <1>4, <1>7
  <2>2. QED
    BY <1>1, <1>9, <2>1
<1>14. Started' = Started \cup {job}
  BY <1>11, <1>12, <1>13
<1>15. QED
  BY <1>1, <1>3, <1>4, <1>5, <1>6, <1>7, <1>14 DEF p

\* A visit that starts a job keeps the counters, the caps and the results right.
LEMMA StartCounts ==
  ASSUME TypeOK, Cursor, CountersCount, WithinCaps, Results, VisitStarts
  PROVE  CountersCount' /\ WithinCaps' /\ Results'
<1>1. PICK job \in Jobs : /\ PoolOf[job] = Visited /\ job \notin Started
                          /\ Started' = Started \cup {job} /\ running' = running \cup {job}
  BY JobStarts
<1>2. Visited \in Pools
  BY JobStarts
<1>3. running \subseteq Jobs /\ running \subseteq Started /\ job \notin running
  BY <1>1 DEF TypeOK, Results
<1>4. /\ activeTotal < TotalLimit /\ activeByPool[Visited] < Limit[Visited]
      /\ activeTotal' = activeTotal + 1 /\ done' = done /\ results' = results /\ at' = at
      /\ activeByPool' = [activeByPool EXCEPT ![Visited] = @ + 1]
  BY DEF VisitStarts, ScanGoesOn, HasStartable
<1>5. Cardinality(running') = Cardinality(running) + 1
  BY <1>1, <1>3, JobsFinite, FS_AddElement
<1>6. Started' \ running' = Started \ running
  BY <1>1
<1>7. ASSUME NEW p \in Pools
      PROVE  /\ activeByPool'[p] = Cardinality(RunningIn(p)')
             /\ Cardinality(RunningIn(p)') <= Limit[p]
  <2>1. /\ RunningIn(p) \subseteq Jobs /\ activeByPool[p] = Cardinality(RunningIn(p))
        /\ Cardinality(RunningIn(p)) <= Limit[p]
    BY <1>3 DEF RunningIn, CountersCount, WithinCaps
  <2>2. CASE p = Visited
    <3>1. RunningIn(p)' = RunningIn(p) \cup {job} /\ job \notin RunningIn(p)
      BY <1>1, <1>3, <2>2 DEF RunningIn
    <3>2. Cardinality(RunningIn(p)') = Cardinality(RunningIn(p)) + 1
      BY <2>1, <3>1, JobsFinite, FS_AddElement
    <3>3. activeByPool'[p] = activeByPool[p] + 1
      BY <1>4, <2>2 DEF TypeOK
    <3>4. Limit[p] \in Nat /\ activeByPool[p] \in Nat
      BY LimitsPositive DEF TypeOK
    <3>5. QED
      BY <1>4, <2>1, <2>2, <3>2, <3>3, <3>4
  <2>3. CASE p # Visited
    <3>1. RunningIn(p)' = RunningIn(p)
      BY <1>1, <2>3 DEF RunningIn
    <3>2. activeByPool'[p] = activeByPool[p]
      BY <1>4, <2>3 DEF TypeOK
    <3>3. QED
      BY <2>1, <3>1, <3>2
  <2>4. QED
    BY <2>2, <2>3
<1>8. CountersCount'
  BY <1>4, <1>5, <1>6, <1>7 DEF CountersCount, RunningIn
<1>9. WithinCaps'
  <2>1. Cardinality(running') <= TotalLimit
    BY <1>4, <1>5, LimitsPositive DEF CountersCount, TypeOK
  <2>2. QED
    BY <1>7, <2>1 DEF WithinCaps, RunningIn
<1>10. Settled' = Settled
  BY <1>4 DEF Settled
<1>11. Results'
  BY <1>1, <1>3, <1>4, <1>6, <1>10 DEF Results
<1>12. QED
  BY <1>8, <1>9, <1>11

\* A visit that starts a job puts its pool behind all others, none of them by more than one.
LEMMA StartIsFair ==
  ASSUME TypeOK, Cursor, FoundNothing, PassedByOthers, VisitStarts
  PROVE  TypeOK' /\ Cursor' /\ FoundNothing' /\ NoIdleSlot' /\ PassedByOthers'
<1>1. /\ at = "scan" /\ at' = "scan" /\ startedAny' = TRUE /\ scanned' = scanned + 1 /\ cursor' = Advanced
      /\ scanned < L /\ HasStartable(Visited) /\ results' = results /\ done' = done
      /\ activeTotal' = activeTotal + 1
      /\ queueHeads' = [queueHeads EXCEPT ![Visited] = @ + 1]
      /\ activeByPool' = [activeByPool EXCEPT ![Visited] = @ + 1]
      /\ passedOver' = [q \in Pools |-> IF q # Visited /\ HasStartable(q) THEN passedOver[q] + 1 ELSE 0]
  BY DEF VisitStarts, ScanGoesOn, L
<1>2. L > 0 /\ L \in Nat /\ Visited \in Pools /\ \A k \in Places : PoolAt(k) \in Pools
  BY JobStarts, OrderProperties
<1>3. /\ cursor' \in Places /\ cursor \in Places /\ Visited = PoolAt(cursor)
      /\ \A k \in Places : /\ Behind(k) \in 0 .. L - 1
                          /\ Behind(k)' = IF k = cursor THEN 0 ELSE Behind(k) + 1
  BY <1>1, <1>2, CursorAdvances
<1>4. TypeOK'
  <2>1. queueHeads' \in [Pools -> Nat] /\ \A q \in Pools : queueHeads'[q] <= Len(queues[q])
    BY JobStarts
  <2>2. scanned' \in 0 .. L /\ cursor' \in 0 .. L
    <3>1. scanned \in Nat
      BY <1>2 DEF TypeOK, L
    <3>2. scanned' \in 0 .. L
      BY <1>1, <1>2, <3>1
    <3>3. QED
      BY <1>2, <1>3, <3>2 DEF Places
  <2>3. activeByPool' \in [Pools -> Nat] /\ activeTotal' \in Nat
    <3>1. activeByPool \in [Pools -> Nat] /\ activeTotal \in Nat
      BY DEF TypeOK
    <3>2. QED
      BY <1>1, <1>2, <3>1
  <2> DEFINE next(q) == IF q # Visited /\ HasStartable(q) THEN passedOver[q] + 1 ELSE 0
  <2>4. \A q \in Pools : next(q) \in Nat
    BY DEF TypeOK
  <2>5. passedOver' = [q \in Pools |-> next(q)]
    BY <1>1
  <2> HIDE DEF next
  <2>6. passedOver' \in [Pools -> Nat]
    BY <2>4, <2>5
  <2>7. running' \subseteq Jobs
    BY JobStarts DEF TypeOK
  <2>8. QED
    BY <1>1, <2>1, <2>2, <2>3, <2>6, <2>7 DEF TypeOK, L
<1>5. Cursor' /\ FoundNothing' /\ NoIdleSlot'
  BY <1>1, <1>2, <1>3 DEF Cursor, FoundNothing, NoIdleSlot, Places
<1>6. ASSUME NEW p \in Pools, passedOver'[p] > 0
      PROVE  HasStartable(p)'
  <2>1. p # Visited /\ HasStartable(p)
    BY <1>1, <1>6
  <2>2. queueHeads'[p] = queueHeads[p] /\ activeByPool'[p] = activeByPool[p]
    BY <1>1, <2>1 DEF TypeOK
  <2>3. QED
    BY <2>1, <2>2 DEF HasStartable
<1>7. ASSUME NEW k \in Places
      PROVE  passedOver'[PoolAt(k)] <= Behind(k)'
  <2>1. /\ PoolAt(k) \in Pools /\ passedOver[PoolAt(k)] \in Nat
        /\ passedOver[PoolAt(k)] <= Behind(k) /\ Behind(k) \in Nat
    BY <1>2, <1>3 DEF PassedByOthers, TypeOK
  <2>2. CASE k = cursor
    BY <1>1, <1>3, <2>1, <2>2
  <2>3. CASE k # cursor
    BY <1>1, <1>3, <2>1, <2>3
  <2>4. QED
    BY <2>2, <2>3
<1>8. PassedByOthers'
  BY <1>6, <1>7 DEF PassedByOthers, Places, PoolAt
<1>9. QED
  BY <1>4, <1>5, <1>8

\* A visit that finds nothing keeps the invariant.
LEMMA SkipOK ==
  ASSUME IInv, VisitSkips
  PROVE  IInv'
<1> USE DEF IInv
<1>1. /\ at = "scan" /\ scanned < L /\ scanned' = scanned + 1 /\ cursor' = Advanced
      /\ ~HasStartable(Visited)
      /\ UNCHANGED <<at, startedAny, queueHeads, counters, running, results, passedOver>>
  BY DEF VisitSkips, ScanGoesOn, L
<1>2. L > 0 /\ L \in Nat /\ Visited \in Pools /\ \A k \in Places : PoolAt(k) \in Pools
  BY VisitedPool, OrderProperties DEF VisitSkips
<1>3. /\ cursor' \in Places /\ cursor \in Places /\ Visited = PoolAt(cursor)
      /\ \A k \in Places : /\ Behind(k) \in 0 .. L - 1
                          /\ Behind(k)' = IF k = cursor THEN 0 ELSE Behind(k) + 1
  BY <1>1, <1>2, CursorAdvances
<1>4. Started' = Started /\ Settled' = Settled /\ \A p \in Pools : HasStartable(p)' <=> HasStartable(p)
  BY <1>1 DEF Started, Settled, HasStartable, counters
<1>5. TypeOK'
  BY <1>1, <1>2, <1>3 DEF TypeOK, counters, L, Places
<1>6. CountersCount' /\ WithinCaps' /\ Results'
  BY <1>1, <1>4 DEF CountersCount, WithinCaps, Results, counters
<1>7. Cursor' /\ NoIdleSlot'
  BY <1>1, <1>2, <1>3 DEF Cursor, NoIdleSlot, Places
<1>8. ASSUME ~startedAny', NEW k \in Places, Behind(k)' < scanned'
      PROVE  ~HasStartable(PoolAt(k))'
  <2>1. k = cursor \/ Behind(k) < scanned
    BY <1>1, <1>3, <1>8 DEF TypeOK
  <2>2. ~HasStartable(PoolAt(k))
    BY <1>1, <1>3, <1>8, <2>1 DEF FoundNothing
  <2>3. QED
    BY <1>2, <1>4, <2>2 DEF PoolAt
<1>9. FoundNothing'
  BY <1>8 DEF FoundNothing, Places, PoolAt
<1>10. ASSUME NEW k \in Places
       PROVE  passedOver'[PoolAt(k)] <= Behind(k)'
  <2>1. /\ PoolAt(k) \in Pools /\ passedOver[PoolAt(k)] \in Nat
        /\ passedOver[PoolAt(k)] <= Behind(k) /\ Behind(k) \in Nat
    BY <1>2, <1>3 DEF PassedByOthers, TypeOK
  <2>2. k = cursor => passedOver[PoolAt(k)] = 0
    BY <1>1, <1>3, <2>1 DEF PassedByOthers
  <2>3. QED
    BY <1>1, <1>3, <2>1, <2>2
<1>11. PassedByOthers'
  BY <1>1, <1>4, <1>10 DEF PassedByOthers, Places, PoolAt
<1>12. QED
  BY <1>5, <1>6, <1>7, <1>9, <1>11


\* A visit that starts a job keeps the invariant.
LEMMA StartOK ==
  ASSUME IInv, VisitStarts
  PROVE  IInv'
BY StartCounts, StartIsFair DEF IInv

\* The end of a pass keeps the invariant: a pass that started nothing was everywhere.
LEMMA PassOK ==
  ASSUME IInv, PassEnds
  PROVE  IInv'
<1> USE DEF IInv
<1>1. /\ at = "scan" /\ at' \in {"scan", "wait"} /\ scanned' = 0 /\ startedAny' = FALSE
      /\ UNCHANGED <<cursor, queueHeads, counters, running, results, passedOver>>
  BY DEF PassEnds
<1>2. L \in Nat /\ \A k \in Places : PoolAt(k) \in Pools
  BY OrderProperties
<1>3. Started' = Started /\ Settled' = Settled /\ \A p \in Pools : HasStartable(p)' <=> HasStartable(p)
  BY <1>1 DEF Started, Settled, HasStartable, counters
<1>4. TypeOK'
  <2>1. scanned' \in 0 .. Len(poolOrder)
    BY <1>1, <1>2 DEF L
  <2>2. at' \in {"scan", "wait", "resolved"} /\ startedAny' \in BOOLEAN
    BY <1>1
  <2>3. QED
    BY <1>1, <2>1, <2>2 DEF TypeOK, counters
<1>5. CountersCount' /\ WithinCaps' /\ Results' /\ Cursor'
  BY <1>1, <1>3 DEF CountersCount, WithinCaps, Results, Cursor, counters
<1>6. \A k \in Places : Behind(k)' = Behind(k) /\ (L > 0 => Behind(k) \in 0 .. L - 1)
  BY <1>1, <1>2 DEF Behind, Places, Cursor, TypeOK
<1>7. FoundNothing'
  BY <1>1, <1>2, <1>6 DEF FoundNothing, Places
<1>8. ASSUME at' = "wait", activeTotal' < TotalLimit, NEW p \in Pools
      PROVE  ~HasStartable(p)'
  <2>1. activeTotal < TotalLimit
    BY <1>1, <1>8 DEF counters
  <2>2. ~startedAny /\ ~(scanned < L)
    BY <1>1, <1>8, <2>1 DEF PassEnds, AnotherPass, ScanGoesOn, L
  <2>3. \A k \in Places : ~HasStartable(PoolAt(k))
    BY <1>1, <1>2, <1>6, <2>2 DEF FoundNothing, Places, TypeOK, L
  <2>4. ASSUME HasStartable(p)
        PROVE  FALSE
    <3>1. Len(queues[p]) > 0
      BY <2>4, QueueProperties DEF HasStartable, TypeOK
    <3>2. PICK k \in Places : PoolAt(k) = p
      BY <3>1, OrderProperties
    <3>3. QED
      BY <2>3, <2>4, <3>2
  <2>5. QED
    BY <1>3, <2>4
<1>9. NoIdleSlot'
  BY <1>8 DEF NoIdleSlot
<1>10. PassedByOthers'
  BY <1>1, <1>2, <1>3, <1>6 DEF PassedByOthers, Places, PoolAt
<1>11. QED
  BY <1>4, <1>5, <1>7, <1>9, <1>10

\* A worker that settles keeps the invariant: it is one that had no result.
LEMMA SettleOK ==
  ASSUME IInv, NEW j \in Jobs, NEW ok \in BOOLEAN, WorkerSettles(j, ok)
  PROVE  IInv'
<1> USE DEF IInv
<1> DEFINE r == [job |-> j, ok |-> ok]
<1>1. /\ at = "wait" /\ j \in running /\ j \notin Settled /\ results' = Append(results, r)
      /\ UNCHANGED <<at, scanned, startedAny, cursor, queueHeads, counters, running, passedOver>>
  BY DEF WorkerSettles, scan
<1>2. Started' = Started /\ \A p \in Pools : HasStartable(p)' <=> HasStartable(p)
  BY <1>1 DEF Started, HasStartable, counters
<1>3. r \in [job : Jobs, ok : BOOLEAN] /\ r.job = j
  OBVIOUS
<1> HIDE DEF r
<1>4. results \in Seq([job : Jobs, ok : BOOLEAN])
  BY DEF TypeOK
<1>5. /\ results' \in Seq([job : Jobs, ok : BOOLEAN])
      /\ Len(results') = Len(results) + 1 /\ Len(results) \in Nat
      /\ results'[Len(results) + 1] = r
      /\ \A i \in 1 .. Len(results) : results'[i] = results[i]
      /\ DOMAIN results = 1 .. Len(results) /\ DOMAIN results' = 1 .. Len(results')
  BY <1>1, <1>3, <1>4, AppendProperties, LenProperties
<1>6. TypeOK'
  BY <1>1, <1>5 DEF TypeOK, counters
<1>7. Settled' = Settled \cup {j}
  <2>1. ASSUME NEW x \in Settled'
        PROVE  x \in Settled \cup {j}
    <3>1. PICK i \in DOMAIN results' : x = results'[i].job
      BY DEF Settled
    <3>2. i \in DOMAIN results \/ i = Len(results) + 1
      BY <1>5
    <3>3. QED
      BY <1>3, <1>5, <3>1, <3>2 DEF Settled
  <2>2. Settled \subseteq Settled'
    <3> SUFFICES ASSUME NEW i \in DOMAIN results
                 PROVE  results[i].job \in Settled'
      BY DEF Settled
    <3>1. i \in DOMAIN results' /\ results'[i] = results[i]
      BY <1>5
    <3>2. QED
      BY <3>1 DEF Settled
  <2>3. j \in Settled'
    <3>1. Len(results) + 1 \in DOMAIN results' /\ results'[Len(results) + 1].job = j
      BY <1>3, <1>5
    <3>2. QED
      BY <3>1 DEF Settled
  <2>4. QED
    BY <2>1, <2>2, <2>3
<1>8. ASSUME NEW m \in DOMAIN results', NEW n \in DOMAIN results', results'[m].job = results'[n].job
      PROVE  m = n
  <2>1. \A i \in DOMAIN results : results[i].job # j
    BY <1>1 DEF Settled
  <2>2. m \in DOMAIN results \/ m = Len(results) + 1
    BY <1>5
  <2>3. n \in DOMAIN results \/ n = Len(results) + 1
    BY <1>5
  <2>4. \A i \in DOMAIN results : results'[i] = results[i]
    BY <1>5
  <2>5. QED
    BY <1>3, <1>5, <1>8, <2>1, <2>2, <2>3, <2>4 DEF Results
<1>9. Results'
  BY <1>1, <1>2, <1>7, <1>8 DEF Results, counters
<1>10. CountersCount' /\ WithinCaps' /\ Cursor' /\ FoundNothing'
  BY <1>1, <1>2 DEF CountersCount, WithinCaps, Cursor, FoundNothing, counters
<1>11. NoIdleSlot' /\ PassedByOthers'
  <2>1. \A k \in Places : Behind(k)' = Behind(k) /\ PoolAt(k) \in Pools
    BY <1>1, OrderProperties DEF Behind
  <2>2. QED
    BY <1>1, <1>2, <2>1 DEF NoIdleSlot, PassedByOthers, Places, PoolAt, counters
<1>12. QED
  BY <1>6, <1>9, <1>10, <1>11


\* A completion keeps the invariant: the counters lose the job that stops running.
LEMMA CompleteOK ==
  ASSUME IInv, NEW j \in Jobs, Completes(j)
  PROVE  IInv'
<1> USE DEF IInv
<1>1. /\ at = "wait" /\ j \in running /\ j \in Settled /\ running' = running \ {j}
      /\ activeTotal' = activeTotal - 1 /\ done' = done + 1
      /\ UNCHANGED <<scanned, startedAny, cursor, queueHeads, results, passedOver>>
  BY DEF Completes
<1>2. /\ at' \in {"scan", "wait", "resolved"}
      /\ at' = "resolved" => done' >= N
      /\ at' = "wait" => ~(activeTotal' < TotalLimit)
  <2>1. at' = IF done' >= N THEN "resolved" ELSE IF activeTotal' >= TotalLimit THEN "wait" ELSE "scan"
    BY DEF Completes, AllDone
  <2>2. activeTotal' \in Int /\ TotalLimit \in Int
    BY <1>1, LimitsPositive DEF TypeOK
  <2>3. QED
    BY <2>1, <2>2
<1>3. running \subseteq Jobs /\ j \in Started /\ Started \subseteq Jobs /\ running \subseteq Started
  BY <1>1, StartedMeans DEF TypeOK, Results
<1>4. Started' = Started /\ Settled' = Settled
  BY <1>1 DEF Started, Settled
<1>5. PoolOf[j] \in Pools
  BY SchedulerAssumption
<1>6. ASSUME NEW p \in Pools
      PROVE  /\ activeByPool'[p] = Cardinality(RunningIn(p)') /\ activeByPool'[p] \in Nat
             /\ activeByPool'[p] <= activeByPool[p]
  <2>1. /\ RunningIn(p) \subseteq Jobs /\ activeByPool[p] = Cardinality(RunningIn(p))
        /\ activeByPool[p] \in Nat
    BY <1>3 DEF RunningIn, CountersCount, TypeOK
  <2>2. activeByPool' = GivenBack(PoolOf[j])
    BY DEF Completes
  <2>3. CASE p = PoolOf[j]
    <3>1. RunningIn(p)' = RunningIn(p) \ {j} /\ j \in RunningIn(p)
      BY <1>1, <2>3 DEF RunningIn
    <3>2. Cardinality(RunningIn(p)') = Cardinality(RunningIn(p)) - 1
      BY <2>1, <3>1, JobsFinite, FS_RemoveElement
    <3>3. Cardinality(RunningIn(p)) # 0
      BY <2>1, <3>1, JobsFinite, FS_EmptySet
    <3>4. activeByPool'[p] = Larger(0, Or1(activeByPool[p]) - 1)
      BY <1>5, <2>2, <2>3 DEF GivenBack, TypeOK
    <3>5. activeByPool'[p] = activeByPool[p] - 1
      BY <2>1, <3>3, <3>4 DEF Larger, Or1
    <3>6. QED
      BY <2>1, <3>2, <3>3, <3>5
  <2>4. CASE p # PoolOf[j]
    <3>1. RunningIn(p)' = RunningIn(p)
      BY <1>1, <2>4 DEF RunningIn
    <3>2. activeByPool'[p] = activeByPool[p]
      BY <2>2, <2>4 DEF GivenBack, TypeOK
    <3>3. QED
      BY <2>1, <3>1, <3>2
  <2>5. QED
    BY <2>3, <2>4
<1>7. Cardinality(running') = Cardinality(running) - 1 /\ Cardinality(running) \in Nat \ {0}
  <2>1. Cardinality(running) \in Nat /\ Cardinality(running) # 0
    BY <1>1, <1>3, JobsFinite, FS_EmptySet
  <2>2. QED
    BY <1>1, <1>3, <2>1, JobsFinite, FS_RemoveElement
<1>8. Cardinality(Started' \ running') = Cardinality(Started \ running) + 1
  <2>1. Started' \ running' = (Started \ running) \cup {j} /\ j \notin Started \ running
    BY <1>1, <1>3, <1>4
  <2>2. Started \ running \subseteq Jobs
    BY <1>3
  <2>3. QED
    BY <2>1, <2>2, JobsFinite, FS_AddElement
<1>9. CountersCount'
  <2>1. activeTotal' = Cardinality(running')
    BY <1>1, <1>7 DEF CountersCount
  <2>2. done' = Cardinality(Started' \ running')
    BY <1>1, <1>8 DEF CountersCount
  <2>3. QED
    BY <1>6, <2>1, <2>2 DEF CountersCount, RunningIn
<1>10. WithinCaps'
  <2>1. ASSUME NEW p \in Pools
        PROVE  Cardinality(RunningIn(p)') <= Limit[p]
    <3>1. activeByPool[p] = Cardinality(RunningIn(p)) /\ Cardinality(RunningIn(p)) <= Limit[p]
      BY DEF CountersCount, WithinCaps, RunningIn
    <3>2. activeByPool[p] \in Nat /\ Limit[p] \in Nat
      BY LimitsPositive DEF TypeOK
    <3>3. QED
      BY <1>6, <3>1, <3>2
  <2>2. Cardinality(running') <= TotalLimit
    BY <1>7, LimitsPositive DEF WithinCaps
  <2>3. QED
    BY <2>1, <2>2 DEF WithinCaps, RunningIn
<1>11. TypeOK'
  <2>1. activeByPool' \in [Pools -> Nat]
    <3>1. activeByPool' = [activeByPool EXCEPT ![PoolOf[j]] = Larger(0, Or1(@) - 1)]
      BY DEF Completes, GivenBack
    <3>2. activeByPool \in [Pools -> Nat]
      BY DEF TypeOK
    <3>3. DOMAIN activeByPool' = Pools /\ activeByPool' = [p \in Pools |-> activeByPool'[p]]
      BY <3>1, <3>2
    <3>4. QED
      BY <1>6, <3>3
  <2>2. activeTotal' \in Nat /\ done' \in Nat
    BY <1>1, <1>7 DEF CountersCount, TypeOK
  <2>3. QED
    BY <1>1, <1>2, <2>1, <2>2 DEF TypeOK
<1>12. Results' /\ Cursor' /\ NoIdleSlot'
  BY <1>1, <1>2, <1>3, <1>4 DEF Results, Cursor, NoIdleSlot
<1>13. \A k \in Places : Behind(k)' = Behind(k) /\ PoolAt(k) \in Pools /\ ~(Behind(k) < 0)
  <2>1. \A k \in Places : Behind(k)' = Behind(k) /\ PoolAt(k) \in Pools
    BY <1>1, OrderProperties DEF Behind
  <2>2. ASSUME NEW k \in Places
        PROVE  ~(Behind(k) < 0)
    BY OrderProperties DEF Behind, Places, Cursor, TypeOK
  <2>3. QED
    BY <2>1, <2>2
<1>14. FoundNothing'
  BY <1>1, <1>13 DEF FoundNothing, Cursor, Places
<1>15. PassedByOthers'
  <2>1. ASSUME NEW p \in Pools, HasStartable(p)
        PROVE  HasStartable(p)'
    <3>1. activeByPool'[p] < Limit[p]
      BY <1>6, <2>1, LimitsPositive DEF HasStartable, TypeOK
    <3>2. QED
      BY <1>1, <2>1, <3>1 DEF HasStartable
  <2>2. QED
    BY <1>1, <1>13, <2>1 DEF PassedByOthers, Places, PoolAt
<1>16. QED
  BY <1>9, <1>10, <1>11, <1>12, <1>14, <1>15


\* Every reachable state satisfies the inductive invariant.
THEOREM Invariance == Spec => []IInv
<1>1. Init => IInv
  BY InitOK
<1>2. ASSUME IInv, [Next]_vars
      PROVE  IInv'
  <2>1. CASE VisitStarts
    BY <1>2, <2>1, StartOK
  <2>2. CASE VisitSkips
    BY <1>2, <2>2, SkipOK
  <2>3. CASE PassEnds
    BY <1>2, <2>3, PassOK
  <2>4. ASSUME NEW j \in Jobs, NEW ok \in BOOLEAN, WorkerSettles(j, ok)
        PROVE  IInv'
    BY <1>2, <2>4, SettleOK
  <2>5. ASSUME NEW j \in Jobs, Completes(j)
        PROVE  IInv'
    BY <1>2, <2>5, CompleteOK
  <2>6. CASE UNCHANGED vars
    <3>1. /\ UNCHANGED <<at, scanned, startedAny, cursor, queueHeads>>
          /\ UNCHANGED <<activeTotal, activeByPool, done, running, results, passedOver>>
      BY <2>6 DEF vars, scan, counters
    <3>2. Started' = Started /\ Settled' = Settled /\ \A p \in Pools : HasStartable(p)' <=> HasStartable(p)
      BY <3>1 DEF Started, Settled, HasStartable
    <3>3. TypeOK' /\ Cursor' /\ CountersCount' /\ WithinCaps' /\ Results'
      BY <1>2, <3>1, <3>2 DEF IInv, TypeOK, Cursor, CountersCount, WithinCaps, Results
    <3>4. \A k \in Places : Behind(k)' = Behind(k) /\ PoolAt(k) \in Pools
      BY <3>1, OrderProperties DEF Behind
    <3>5. FoundNothing' /\ NoIdleSlot' /\ PassedByOthers'
      BY <1>2, <3>1, <3>2, <3>4 DEF IInv, FoundNothing, NoIdleSlot, PassedByOthers, Places, PoolAt
    <3>6. QED
      BY <3>3, <3>5 DEF IInv
  <2>7. QED
    BY <1>2, <2>1, <2>2, <2>3, <2>4, <2>5, <2>6 DEF Next
<1>3. QED
  BY <1>1, <1>2, PTL DEF Spec

\* The loop's variables stay in range: counters are never negative and no head runs past
\* its queue, whatever order workers settle in.
THEOREM TypeCorrect == Spec => []TypeOK
<1>1. IInv => TypeOK
  BY DEF IInv
<1>2. QED
  BY <1>1, Invariance, PTL

\* Never more workers than the total allows, or than a pool allows.
THEOREM CapsHold == Spec => []WithinCaps
<1>1. IInv => WithinCaps
  BY DEF IInv
<1>2. QED
  BY <1>1, Invariance, PTL

\* A scheduler that waits has nothing it could start.
THEOREM SlotsAreUsed == Spec => []NoIdleSlot
<1>1. IInv => NoIdleSlot
  BY DEF IInv
<1>2. QED
  BY <1>1, Invariance, PTL

\* While a pool could start a job, each other pool starts at most one before it.
THEOREM PoolsTakeTurns == Spec => []NoPoolStarves
<1>1. ASSUME IInv
      PROVE  NoPoolStarves
  <2>1. L \in Nat /\ TypeOK /\ PassedByOthers /\ Cursor
    BY <1>1, OrderProperties DEF IInv
  <2>2. ASSUME NEW p \in Pools
        PROVE  passedOver[p] < Larger(1, L)
    <3>1. passedOver[p] \in Nat /\ queueHeads[p] \in Nat /\ Len(queues[p]) \in Nat
      BY <2>1, QueueProperties DEF TypeOK
    <3>2. CASE passedOver[p] = 0
      BY <2>1, <3>2 DEF Larger
    <3>3. CASE passedOver[p] > 0
      <4>1. Len(queues[p]) > 0
        BY <2>1, <3>1, <3>3 DEF PassedByOthers, HasStartable
      <4>2. PICK k \in Places : PoolAt(k) = p
        BY <4>1, OrderProperties
      <4>3. passedOver[p] <= Behind(k)
        BY <2>1, <4>2 DEF PassedByOthers
      <4>4. Behind(k) \in 0 .. L - 1
        BY <2>1 DEF Behind, Places, Cursor, TypeOK, L
      <4>5. QED
        BY <2>1, <3>1, <4>3, <4>4 DEF Larger
    <3>4. QED
      BY <3>1, <3>2, <3>3
  <2>3. QED
    BY <2>2 DEF NoPoolStarves, L
<1>2. QED
  BY <1>1, Invariance, PTL

\* The promise resolves with exactly one result for each job, failed ones included.
THEOREM BatchIsComplete == Spec => []ResolvesComplete
<1>1. ASSUME IInv, at = "resolved"
      PROVE  running = {} /\ Settled = Jobs /\ Len(results) = N
  <2>1. TypeOK /\ CountersCount /\ Results /\ N \in Nat
    BY <1>1, SchedulerAssumption DEF IInv
  <2>2. Started \ running \subseteq Jobs
    BY <2>1, StartedMeans
  <2>3. Started \ running = Jobs
    <3>1. Cardinality(Started \ running) <= N /\ Cardinality(Started \ running) >= N
      BY <1>1, <2>1, <2>2, JobsFinite, FS_Subset DEF CountersCount, Results
    <3>2. QED
      BY <2>1, <2>2, <3>1, JobsFinite, FS_Subset
  <2>4. running = {} /\ Settled = Jobs
    BY <2>1, <2>3, StartedMeans DEF Results, TypeOK
  <2>5. Len(results) = N
    <3>1. Len(results) \in Nat /\ DOMAIN results = 1 .. Len(results)
      BY <2>1, LenProperties DEF TypeOK
    <3>2. IsFiniteSet(1 .. Len(results)) /\ Cardinality(1 .. Len(results)) = Len(results)
      <4>1. IsFiniteSet(1 .. Len(results))
            /\ Cardinality(1 .. Len(results)) = IF 1 > Len(results) THEN 0 ELSE Len(results) - 1 + 1
        BY <3>1, FS_Interval
      <4>2. QED
        BY <3>1, <4>1
    <3> DEFINE f == [i \in 1 .. Len(results) |-> results[i].job]
    <3>3. \A i \in 1 .. Len(results) : results[i].job \in Jobs
      BY <2>4, <3>1 DEF Settled
    <3>4. f \in Bijection(1 .. Len(results), Jobs)
      <4>1. f \in [1 .. Len(results) -> Jobs]
        BY <3>3
      <4>2. \A x \in Jobs : \E i \in 1 .. Len(results) : f[i] = x
        BY <2>4, <3>1 DEF Settled
      <4>3. \A m, n \in 1 .. Len(results) : f[m] = f[n] => m = n
        BY <2>1, <3>1 DEF Results
      <4>4. QED
        BY <4>1, <4>2, <4>3 DEF Bijection, Injection, Surjection, IsInjective
    <3>5. Cardinality(Jobs) = Cardinality(1 .. Len(results))
      BY <3>2, <3>4, FS_Bijection DEF ExistsBijection
    <3>6. QED
      BY <3>2, <3>5, JobsFinite
  <2>6. QED
    BY <2>4, <2>5
<1>2. IInv => ResolvesComplete
  BY <1>1 DEF ResolvesComplete
<1>3. QED
  BY <1>2, Invariance, PTL


\* The jobs of a pool start in the order they were built.
THEOREM PoolsAreFifo == Spec => FifoPerPool
<1>1. ASSUME IInv, [Next]_vars, NEW j \in running' \ running, NEW i \in Jobs, i < j, PoolOf[i] = PoolOf[j]
      PROVE  i \in Started
  <2>1. VisitStarts
    BY <1>1 DEF Next, VisitSkips, PassEnds, WorkerSettles, Completes, vars
  <2>2. TypeOK /\ Cursor
    BY <1>1 DEF IInv
  <2> DEFINE p == Visited
             h == queueHeads[p]
  <2>3. /\ p \in Pools /\ h + 1 \in 1 .. Len(queues[p])
        /\ j = queues[p][h + 1] /\ j \in Jobs /\ PoolOf[j] = p
    BY <1>1, <2>1, <2>2, JobStarts
  <2> HIDE DEF p
  <2>4. PICK n \in 1 .. Len(queues[p]) : queues[p][n] = i
    BY <1>1, <2>3, QueueProperties
  <2>5. h \in Nat
    BY <2>2, <2>3 DEF TypeOK
  <2>6. ~(h + 1 < n) /\ n # h + 1
    <3>1. h + 1 < n => j < i
      BY <2>3, <2>4, QueueProperties
    <3>2. i \in Int /\ j \in Int
      BY <2>3 DEF Jobs
    <3>3. QED
      BY <1>1, <2>3, <2>4, <3>1, <3>2
  <2>7. n <= h
    BY <2>5, <2>6
  <2>8. QED
    BY <2>2, <2>3, <2>4, <2>7, StartedMeans
<1>2. IInv /\ [Next]_vars =>
        [\A j \in running' \ running : \A i \in Jobs : i < j /\ PoolOf[i] = PoolOf[j] => i \in Started]_vars
  BY <1>1
<1>3. QED
  BY <1>2, Invariance, PTL DEF Spec, FifoPerPool

-----------------------------------------------------------------------------
(* The scheduler does what Batch promises.                                 *)

\* At the start all jobs wait.
LEMMA InitRefines == Init => BatchView!Init
<1> SUFFICES ASSUME Init PROVE BatchView!Init
  OBVIOUS
<1>1. Started = {}
  BY SchedulerAssumption DEF Init, Started
<1>2. running = {}
  BY DEF Init
<1>3. QED
  BY <1>1, <1>2 DEF BatchView!Init

\* A visit that starts a job is a start the batch allows, a completion is the end of a job,
\* and nothing else shows.
LEMMA StepRefines ==
  ASSUME IInv, [Next]_vars
  PROVE  [BatchView!Next]_(BatchView!vars)
<1> USE DEF IInv
<1>1. CASE VisitStarts
  <2>1. PICK job \in Jobs : /\ PoolOf[job] = Visited /\ job \notin Started
                            /\ Started' = Started \cup {job} /\ running' = running \cup {job}
    BY <1>1, JobStarts
  <2>2. Visited \in Pools /\ activeTotal < TotalLimit /\ activeByPool[Visited] < Limit[Visited]
    BY <1>1, JobStarts DEF VisitStarts, ScanGoesOn, HasStartable
  <2>3. Cardinality(running) < TotalLimit /\ Cardinality(BatchView!InPool(running, Visited)) < Limit[Visited]
    BY <2>2 DEF CountersCount, BatchView!InPool
  <2>4. (Jobs \ Started)' = (Jobs \ Started) \ {job}
    BY <2>1
  <2>5. (Started \ running)' = Started \ running
    BY <2>1
  <2>6. BatchView!Start(job)
    BY <2>1, <2>3, <2>4, <2>5 DEF BatchView!Start, BatchView!Cardinality, Cardinality
  <2>7. QED
    BY <2>6 DEF BatchView!Next
<1>2. ASSUME NEW j \in Jobs, Completes(j)
      PROVE  BatchView!Next
  <2>1. j \in running /\ running' = running \ {j} /\ queueHeads' = queueHeads /\ running \subseteq Started
    BY <1>2 DEF Completes, Results
  <2>2. Started' = Started
    BY <2>1 DEF Started
  <2>3. (Started \ running)' = (Started \ running) \cup {j} /\ (Jobs \ Started)' = Jobs \ Started
    BY <2>1, <2>2
  <2>4. BatchView!Finish(j)
    BY <2>1, <2>3 DEF BatchView!Finish
  <2>5. QED
    BY <2>4 DEF BatchView!Next
<1>3. ASSUME queueHeads' = queueHeads, running' = running
      PROVE  UNCHANGED BatchView!vars
  <2>1. Started' = Started
    BY <1>3 DEF Started
  <2>2. QED
    BY <1>3, <2>1 DEF BatchView!vars
<1>4. CASE VisitSkips \/ PassEnds \/ UNCHANGED vars
  <2>1. queueHeads' = queueHeads /\ running' = running
    BY <1>4 DEF VisitSkips, PassEnds, vars
  <2>2. QED
    BY <1>3, <2>1
<1>5. ASSUME NEW j \in Jobs, NEW ok \in BOOLEAN, WorkerSettles(j, ok)
      PROVE  UNCHANGED BatchView!vars
  <2>1. queueHeads' = queueHeads /\ running' = running
    BY <1>5 DEF WorkerSettles
  <2>2. QED
    BY <1>3, <2>1
<1>6. QED
  BY <1>1, <1>2, <1>4, <1>5 DEF Next

\* Whoever submits a batch gets what Batch says, whatever the round robin does: each job
\* once, within both caps.  (That every job ends is left to the model checker.)
THEOREM Implements == Spec => BatchView!Spec
<1>1. Init => BatchView!Init
  BY InitRefines
<1>2. IInv /\ [Next]_vars => [BatchView!Next]_(BatchView!vars)
  BY StepRefines
<1>3. QED
  BY <1>1, <1>2, Invariance, PTL DEF Spec, BatchView!Spec

\* The slots are shared as they should be: within the caps, none idle, no pool passed over.
THEOREM SlotsAreWellShared == Spec => []SlotsAreShared
<1>1. WithinCaps /\ NoIdleSlot /\ NoPoolStarves => SlotsAreShared
  BY DEF SlotsAreShared
<1>2. QED
  BY <1>1, CapsHold, SlotsAreUsed, PoolsTakeTurns, PTL
=============================================================================
