--------------------------- MODULE RunQueueProofs ---------------------------
(***************************************************************************)
(* Theorems about RunQueue, for every set of runs, every limit and every   *)
(* bound on failures, crashes and updates, with or without a peer.         *)
(*                                                                         *)
(* SpendsOnce and SpendingWasAskedFor are not inductive: that a batch is   *)
(* not started twice rests on the manifest (a batch that was started has   *)
(* no queued manifest), on the lease (no peer takes a run that waits       *)
(* here), on the queue (it holds only waiting runs) and on the token (a    *)
(* fresh one has left no trace).  IInv is their conjunction.               *)
(***************************************************************************)
EXTENDS RunQueue, CollectionProofs

\* What every handler may rely on, of a registry s, the provider starts st and the
\* presses pr.
Coherent(s, st, pr) ==
    /\ IsInjective(s.queue)
    /\ Range(s.queue) = {r \in Runs : s.entry[r] = "queued" /\ ~s.aborted[r]}
    /\ \A r \in Runs : s.entry[r] = "running" <=> r = s.current
    /\ \A r \in Runs : s.entry[r] = "queued" => s.lease[r] = "self"
    /\ \A r \in Runs : s.entry[r] = "queued" /\ ~s.aborted[r] => s.manifest[r].status = "queued"
    /\ \A r \in Runs : s.entry[r] = "queued" /\ s.released[r] => pr[r]
    /\ \A r \in Runs : s.manifest[r].status = "queued" => st[r] = 0
    /\ \A r \in Runs : st[r] <= 1

BatchFollowsCurrent ==
    /\ batch = "none" <=> current = NoRun
    /\ batch = "going" => pressed[current]

FreshTokens ==
    \A r \in Runs : token[r] \in {"none", "ready"} =>
      /\ entry[r] = "absent" /\ manifest[r].status = "none" /\ starts[r] = 0
      /\ lease[r] # "peer"

\* The step leaves ended runs ended, or deletes them.
EndedKept ==
    \A r \in Runs : manifest[r].status = "ended" => manifest'[r].status \in {"ended", "none"}

IInv == TypeOK /\ Coherent(Now, starts, pressed) /\ BatchFollowsCurrent /\ FreshTokens

-----------------------------------------------------------------------------
\* A queue element is a run, and its place a positive integer.
LEMMA QueueElements ==
  ASSUME NEW q \in Seq(Runs)
  PROVE  /\ Len(q) \in Nat /\ DOMAIN q = 1 .. Len(q)
         /\ \A i \in 1 .. Len(q) : q[i] \in Runs
         /\ \A i \in 1 .. Len(q) : q[i] \in Range(q)
         /\ \A r \in Range(q) : \E i \in 1 .. Len(q) : r = q[i]
BY LenProperties, ElementOfSeq DEF Range

\* Writing the first k positions, whether or not a write fails after them, leaves the
\* registry coherent and touches only waiting runs.
LEMMA SavedManifests ==
  ASSUME NEW q \in Seq(Runs), NEW rel \in [Runs -> BOOLEAN], NEW m \in [Runs -> Manifests],
         NEW k \in 0 .. Len(q)
  PROVE  /\ Saved(q, rel, m, k) \in [Runs -> Manifests]
         /\ \A r \in Runs : \/ r \in Range(q) /\ Saved(q, rel, m, k)[r].status = "queued"
                            \/ Saved(q, rel, m, k)[r] = m[r]
<1> DEFINE d == Saved(q, rel, m, k)
<1>1. Len(q) \in Nat /\ 1 .. k \subseteq 1 .. Len(q) /\ 1 .. k \subseteq Nat
  BY QueueElements
<1>2. ASSUME NEW r \in Runs
      PROVE  /\ d[r] \in Manifests
             /\ \/ r \in Range(q) /\ d[r].status = "queued"
                \/ d[r] = m[r]
  <2>1. CASE \E i \in 1 .. k : q[i] = r
    <3>1. (CHOOSE i \in 1 .. k : q[i] = r) \in Nat
      BY <1>1, <2>1
    <3>2. d[r] = Queued(CHOOSE i \in 1 .. k : q[i] = r, ~rel[r])
      BY <2>1 DEF Saved
    <3>3. d[r] \in Manifests /\ d[r].status = "queued"
      BY <3>1, <3>2 DEF Queued, Manifests
    <3>4. r \in Range(q)
      BY <1>1, <2>1, QueueElements
    <3>5. QED
      BY <3>3, <3>4
  <2>2. CASE ~ \E i \in 1 .. k : q[i] = r
    BY <2>2 DEF Saved
  <2>3. QED
    BY <2>1, <2>2
<1>3. d = [r \in Runs |-> d[r]]
  BY DEF Saved
<1>4. QED
  BY <1>2, <1>3

\* updateQueuedManifests, however far it gets, leaves a coherent registry coherent and
\* writes no manifest of a run the registry does not have.
LEMMA UpdatedOK ==
  ASSUME NEW s \in Registry, NEW k \in 0 .. Len(s.queue)
  PROVE  /\ UpdatedManifests(s, k) \in Registry
         /\ \A st, pr : Coherent(s, st, pr) => Coherent(UpdatedManifests(s, k), st, pr)
         /\ \A st, pr, r : Coherent(s, st, pr) /\ r \in Runs /\ s.entry[r] = "absent" =>
                           UpdatedManifests(s, k).manifest[r] = s.manifest[r]
         /\ \A st, pr, r : Coherent(s, st, pr) /\ r \in Runs /\ s.manifest[r].status = "ended" =>
                           UpdatedManifests(s, k).manifest[r].status = "ended"
         /\ UpdatedManifests(s, k).queue = s.queue
         /\ UpdatedManifests(s, k).entry = s.entry
         /\ UpdatedManifests(s, k).released = s.released
         /\ UpdatedManifests(s, k).current = s.current
         /\ UpdatedManifests(s, k).lease = s.lease
<1> DEFINE t == UpdatedManifests(s, k)
           saved == Saved(s.queue, s.released, s.manifest, k)
<1>1. /\ s.queue \in Seq(Runs) /\ s.released \in [Runs -> BOOLEAN]
      /\ s.manifest \in [Runs -> Manifests] /\ s.failed \in Nat
  BY DEF Registry
<1>2. /\ saved \in [Runs -> Manifests]
      /\ \A r \in Runs : \/ r \in Range(s.queue) /\ saved[r].status = "queued"
                         \/ saved[r] = s.manifest[r]
  BY <1>1, SavedManifests
<1>3. t = [s EXCEPT !.manifest = saved,
                    !.failed = IF k < Len(s.queue) THEN s.failed + 1 ELSE s.failed]
  BY DEF UpdatedManifests
<1> HIDE DEF t, saved
<1>4. /\ t.queue = s.queue /\ t.entry = s.entry /\ t.released = s.released
      /\ t.aborted = s.aborted /\ t.current = s.current /\ t.lease = s.lease
      /\ t.manifest = saved
  BY <1>3 DEF Registry
<1>5. t \in Registry
  <2> DEFINE n == IF k < Len(s.queue) THEN s.failed + 1 ELSE s.failed
  <2>1. n \in Nat
    BY <1>1
  <2>2. t = [s EXCEPT !.manifest = saved, !.failed = n]
    BY <1>3
  <2> HIDE DEF n
  <2>3. QED
    BY <1>2, <2>1, <2>2 DEF Registry
<1>6. \A st, pr : Coherent(s, st, pr) => Coherent(t, st, pr)
  BY <1>2, <1>4 DEF Coherent
<1>7. \A st, pr, r : Coherent(s, st, pr) /\ r \in Runs /\ s.entry[r] = "absent" =>
                    t.manifest[r] = s.manifest[r]
  BY <1>2, <1>4 DEF Coherent
<1>8. \A st, pr, r : Coherent(s, st, pr) /\ r \in Runs /\ s.manifest[r].status = "ended" =>
                    t.manifest[r].status = "ended"
  BY <1>2, <1>4 DEF Coherent
<1>9. QED
  BY <1>4, <1>5, <1>6, <1>7, <1>8 DEF t

\* A nonempty set of places in a sequence has a least element.
LEMMA MinIsIn ==
  ASSUME NEW n \in Nat, NEW I \in SUBSET (1 .. n), I # {}
  PROVE  Min(I) \in I /\ \A j \in I : Min(I) <= j
<1>1. I \in SUBSET Nat
  OBVIOUS
<1>2. \E i \in I : \A j \in I : i <= j
  BY <1>1, LeastNatural
<1>3. QED
  BY <1>2 DEF Min

\* A handler leaves the registry it handed over.
LEMMA LeaveOK ==
  ASSUME NEW s \in Registry, Leave(s), failures \in 0 .. MaxFailures
  PROVE  /\ Now' \in Registry
         /\ failures' \in 0 .. MaxFailures
         /\ \A st, pr : Coherent(s, st, pr) => Coherent(Now', st, pr)
         /\ entry' = s.entry /\ manifest' = s.manifest /\ current' = s.current
         /\ lease' = s.lease
<1>1. Now' = [queue |-> s.queue, entry |-> s.entry, released |-> s.released,
              aborted |-> s.aborted, current |-> s.current, manifest |-> s.manifest,
              lease |-> s.lease, failed |-> 0]
  BY DEF Leave, Now
<1>2. Now' \in Registry
  BY <1>1 DEF Registry
<1>3. failures' \in 0 .. MaxFailures
  BY LimitsAssumption DEF Leave, Fails, Registry
<1>4. \A st, pr : Coherent(s, st, pr) => Coherent(Now', st, pr)
  BY <1>1 DEF Coherent
<1>5. QED
  BY <1>2, <1>3, <1>4 DEF Leave

\* The sweep of the pump finds nothing to drop: whatever ends a waiting run takes it out
\* of the queue.
LEMMA SweepDropsNothing ==
  ASSUME NEW s \in Registry, NEW st, NEW pr, Coherent(s, st, pr)
  PROVE  Sweep(s) = s.queue
<1>1. s.queue \in Seq(Runs)
  BY DEF Registry
<1>2. \A i \in DOMAIN s.queue : s.entry[s.queue[i]] = "queued" /\ ~s.aborted[s.queue[i]]
  BY <1>1, QueueElements DEF Coherent
<1>3. {i \in DOMAIN s.queue : /\ s.entry[s.queue[i]] \in {"queued", "running"}
                              /\ ~s.aborted[s.queue[i]]} = DOMAIN s.queue
  BY <1>2
<1>4. QED
  BY <1>1, <1>3, PickEverything DEF Sweep

\* Without one of its places, a sequence free of repetition loses one element.
LEMMA RangeWithout ==
  ASSUME NEW f, IsInjective(f), NEW i \in DOMAIN f
  PROVE  {f[j] : j \in DOMAIN f \ {i}} = Range(f) \ {f[i]}
BY DEF Range, IsInjective

\* A released run that waits leaves the queue for the runner.
LEMMA TakenOK ==
  ASSUME NEW s \in Registry, NEW st, NEW pr, Coherent(s, st, pr),
         s.current = NoRun, NEW i \in DOMAIN s.queue, s.released[s.queue[i]],
         NEW r, r = s.queue[i]
  PROVE  /\ Taken(s, i) \in Registry
         /\ Coherent(Taken(s, i), st, pr)
         /\ r \in Runs /\ s.entry[r] = "queued" /\ st[r] = 0 /\ pr[r]
         /\ s.manifest[r].status = "queued"
         /\ Taken(s, i).current = r
         /\ Taken(s, i).entry = [s.entry EXCEPT ![r] = "running"]
         /\ Taken(s, i).manifest = s.manifest /\ Taken(s, i).lease = s.lease
<1> DEFINE q == Pick(s.queue, DOMAIN s.queue \ {i})
           u == Taken(s, i)
<1>1. /\ s.queue \in Seq(Runs) /\ s.entry \in [Runs -> Statuses]
  BY DEF Registry
<1>2. r \in Runs /\ r \in Range(s.queue)
  BY <1>1, QueueElements
<1>3. /\ s.entry[r] = "queued" /\ ~s.aborted[r] /\ st[r] = 0 /\ pr[r]
      /\ s.manifest[r].status = "queued" /\ r # NoRun
  BY <1>2, RunsAssumption DEF Coherent
<1>4. /\ q \in Seq(Runs) /\ IsInjective(q)
      /\ Range(q) = Range(s.queue) \ {r}
  <2>1. IsInjective(s.queue) /\ (DOMAIN s.queue \ {i}) \in SUBSET DOMAIN s.queue
    BY DEF Coherent
  <2>2. /\ q \in Seq(Runs) /\ IsInjective(q)
        /\ Range(q) = {s.queue[j] : j \in DOMAIN s.queue \ {i}}
    BY <1>1, <2>1, PickProperties
  <2>3. {s.queue[j] : j \in DOMAIN s.queue \ {i}} = Range(s.queue) \ {s.queue[i]}
    BY <2>1, RangeWithout
  <2>4. QED
    BY <2>2, <2>3
<1>5. u = [s EXCEPT !.queue = q, !.entry = [s.entry EXCEPT ![r] = "running"], !.current = r]
  BY DEF Taken
<1> HIDE DEF q, u
<1>6. /\ u.queue = q /\ u.entry = [s.entry EXCEPT ![r] = "running"] /\ u.current = r
      /\ u.released = s.released /\ u.aborted = s.aborted /\ u.lease = s.lease
      /\ u.manifest = s.manifest
  BY <1>5 DEF Registry
<1>7. u \in Registry
  BY <1>1, <1>2, <1>4, <1>5 DEF Registry, Statuses
<1>8. Coherent(u, st, pr)
  <2>1. \A x \in Runs : s.entry[x] # "running"
    BY RunsAssumption DEF Coherent
  <2>2. \A x \in Runs : u.entry[x] = "running" <=> x = r
    BY <1>1, <1>6, <2>1
  <2>3. Range(u.queue) = {x \in Runs : u.entry[x] = "queued" /\ ~u.aborted[x]}
    BY <1>1, <1>2, <1>4, <1>6 DEF Coherent
  <2>4. QED
    BY <1>1, <1>2, <1>4, <1>6, <2>2, <2>3 DEF Coherent
<1>9. QED
  BY <1>2, <1>3, <1>6, <1>7, <1>8 DEF u

\* What a pump leaves behind, of the registry s it was given and the presses pr.
Pumped(s, pr) ==
    /\ Now' \in Registry
    /\ starts' \in [Runs -> Nat]
    /\ Coherent(Now', starts', pr)
    /\ batch' \in {"none", "going", "resolved", "rejected"}
    /\ batch' = "none" <=> current' = NoRun
    /\ batch' = "going" => pr[current']
    /\ failures' \in 0 .. MaxFailures
    /\ \A r \in Runs : s.manifest[r].status = "ended" => manifest'[r].status = "ended"
    /\ \A r \in Runs : s.entry[r] = "absent" =>
          /\ entry'[r] = "absent" /\ manifest'[r] = s.manifest[r]
          /\ lease'[r] = s.lease[r] /\ starts'[r] = starts[r]

\* Starting a run that has never reached its provider calls: this is its first time, and
\* from then on its manifest says so.
LEMMA LaunchOK ==
  ASSUME NEW s \in Registry, NEW pr, starts \in [Runs -> Nat], Coherent(s, starts, pr),
         failures \in 0 .. MaxFailures,
         NEW r \in Runs, s.current = r, s.entry[r] = "running", starts[r] = 0, pr[r],
         s.manifest[r].status = "queued", Launch(s, r)
  PROVE  Pumped(s, pr)
<1>1. PICK k \in 0 .. Len(s.queue) :
        LET saved == UpdatedManifests(s, k)
        IN \/ /\ Leave([saved EXCEPT !.manifest[r] = Manifest("running")])
              /\ batch' = "going"
              /\ starts' = [starts EXCEPT ![r] = @ + 1]
           \/ /\ Leave([saved EXCEPT !.lease[r] = "none", !.failed = @ + 1])
              /\ batch' = "rejected"
              /\ UNCHANGED starts
  BY DEF Launch
<1> DEFINE u == UpdatedManifests(s, k)
           v == [u EXCEPT !.manifest[r] = Manifest("running")]
           w == [u EXCEPT !.lease[r] = "none", !.failed = @ + 1]
<1>2. /\ u \in Registry /\ Coherent(u, starts, pr)
      /\ u.entry = s.entry /\ u.current = r /\ u.lease = s.lease
      /\ \A x \in Runs : s.entry[x] = "absent" => u.manifest[x] = s.manifest[x]
      /\ \A x \in Runs : s.manifest[x].status = "ended" => u.manifest[x].status = "ended"
  BY UpdatedOK
<1>3. r # NoRun
  BY RunsAssumption
<1> HIDE DEF u
<1>4. CASE /\ Leave(v) /\ batch' = "going" /\ starts' = [starts EXCEPT ![r] = @ + 1]
  <2>1. /\ v.queue = u.queue /\ v.entry = u.entry /\ v.released = u.released
        /\ v.aborted = u.aborted /\ v.current = u.current /\ v.lease = u.lease
        /\ v.manifest = [u.manifest EXCEPT ![r] = Manifest("running")]
        /\ u.manifest \in [Runs -> Manifests]
    BY <1>2 DEF Registry
  <2>2. Manifest("running") \in Manifests /\ Manifest("running").status = "running"
    BY DEF Manifest, Manifests
  <2>3. v \in Registry
    BY <1>2, <2>1, <2>2 DEF Registry
  <2>4. starts' \in [Runs -> Nat] /\ starts'[r] = 1
        /\ \A x \in Runs : x # r => starts'[x] = starts[x]
    BY <1>4
  <2>5. Coherent(v, starts', pr)
    BY <1>2, <2>1, <2>2, <2>4 DEF Coherent
  <2> HIDE DEF v
  <2>6. Now' \in Registry /\ failures' \in 0 .. MaxFailures /\ Coherent(Now', starts', pr)
        /\ entry' = v.entry /\ manifest' = v.manifest /\ current' = v.current /\ lease' = v.lease
    BY <1>4, <2>3, <2>5, LeaveOK
  <2>7. \A x \in Runs : s.entry[x] = "absent" =>
          /\ entry'[x] = "absent" /\ manifest'[x] = s.manifest[x]
          /\ lease'[x] = s.lease[x] /\ starts'[x] = starts[x]
    BY <1>2, <2>1, <2>4, <2>6
  <2>8. \A x \in Runs : s.manifest[x].status = "ended" => manifest'[x].status = "ended"
    BY <1>2, <2>1, <2>6
  <2>9. QED
    BY <1>2, <1>3, <1>4, <2>1, <2>4, <2>6, <2>7, <2>8 DEF Pumped
<1>5. CASE Leave(w) /\ batch' = "rejected" /\ UNCHANGED starts
  <2>1. /\ w.queue = u.queue /\ w.entry = u.entry /\ w.released = u.released
        /\ w.aborted = u.aborted /\ w.current = u.current /\ w.manifest = u.manifest
        /\ w.lease = [u.lease EXCEPT ![r] = "none"]
        /\ u.lease \in [Runs -> Leases] /\ u.failed + 1 \in Nat
    BY <1>2 DEF Registry
  <2>2. w \in Registry
    BY <1>2, <2>1 DEF Registry, Leases
  <2>3. Coherent(w, starts, pr)
    BY <1>2, <2>1 DEF Coherent
  <2> HIDE DEF w
  <2>4. Now' \in Registry /\ failures' \in 0 .. MaxFailures /\ Coherent(Now', starts, pr)
        /\ entry' = w.entry /\ manifest' = w.manifest /\ current' = w.current /\ lease' = w.lease
    BY <1>5, <2>2, <2>3, LeaveOK
  <2>5. QED
    BY <1>2, <1>3, <1>5, <2>1, <2>4 DEF Pumped
<1>6. QED
  BY <1>1, <1>4, <1>5 DEF u, v, w

\* The pump keeps the registry coherent, whatever state of the runner it finds.
LEMMA PumpOK ==
  ASSUME NEW s \in Registry, NEW pr, starts \in [Runs -> Nat], Coherent(s, starts, pr),
         failures \in 0 .. MaxFailures,
         batch \in {"none", "going", "resolved", "rejected"},
         s.current # NoRun => batch # "none",
         s.current # NoRun /\ batch = "going" => pr[s.current],
         Pump(s)
  PROVE  Pumped(s, pr)
<1> DEFINE swept == [s EXCEPT !.queue = Sweep(s)]
           ready == Startable(swept)
<1>1. swept = s
  BY SweepDropsNothing DEF Registry
<1>2. CASE s.current # NoRun /\ Leave(s) /\ UNCHANGED <<batch, starts, nudge>>
  BY <1>2, LeaveOK DEF Pumped
<1>3. CASE s.current = NoRun /\ Leave(s) /\ batch' = "none" /\ UNCHANGED starts
  BY <1>3, LeaveOK DEF Pumped
<1>4. CASE s.current = NoRun /\ ready # {} /\ Launch(Taken(swept, Min(ready)), swept.queue[Min(ready)])
  <2> DEFINE i == Min(ready)
             r == s.queue[i]
  <2>1. s.queue \in Seq(Runs)
    BY DEF Registry
  <2>2. Len(s.queue) \in Nat /\ DOMAIN s.queue = 1 .. Len(s.queue)
    BY <2>1, QueueElements
  <2>3. ready \in SUBSET (1 .. Len(s.queue)) /\ ready = {j \in DOMAIN s.queue : s.released[s.queue[j]]}
    BY <1>1, <2>2 DEF Startable
  <2>4. i \in DOMAIN s.queue /\ s.released[r]
    BY <1>4, <2>2, <2>3, MinIsIn
  <2> HIDE DEF i, ready
  <2>5. /\ Taken(s, i) \in Registry /\ Coherent(Taken(s, i), starts, pr)
        /\ r \in Runs /\ s.entry[r] = "queued" /\ starts[r] = 0 /\ pr[r]
        /\ s.manifest[r].status = "queued" /\ Taken(s, i).current = r
        /\ Taken(s, i).entry = [s.entry EXCEPT ![r] = "running"]
        /\ Taken(s, i).manifest = s.manifest /\ Taken(s, i).lease = s.lease
    BY <1>4, <2>4, TakenOK
  <2>6. s.entry \in [Runs -> Statuses]
    BY DEF Registry
  <2>7. Launch(Taken(s, i), r)
    BY <1>1, <1>4 DEF i
  <2>8. Taken(s, i).entry[r] = "running"
    BY <2>5, <2>6
  <2> HIDE DEF r
  <2>9. Pumped(Taken(s, i), pr)
    BY <2>5, <2>7, <2>8, LaunchOK
  <2>10. \A x \in Runs : s.entry[x] = "absent" => Taken(s, i).entry[x] = "absent"
    BY <2>5, <2>6
  <2>11. QED
    BY <2>5, <2>9, <2>10 DEF Pumped
<1>5. QED
  BY <1>1, <1>2, <1>3, <1>4 DEF Pump

\* So does updateQueuedManifests with the pump after it, whether or not it throws.
LEMMA SaveThenPumpOK ==
  ASSUME NEW s \in Registry, NEW pr, starts \in [Runs -> Nat], Coherent(s, starts, pr),
         failures \in 0 .. MaxFailures,
         batch \in {"none", "going", "resolved", "rejected"},
         batch = "none" <=> s.current = NoRun,
         s.current # NoRun /\ batch = "going" => pr[s.current],
         SaveThenPump(s)
  PROVE  Pumped(s, pr)
<1>1. PICK k \in 0 .. Len(s.queue) :
        IF k = Len(s.queue)
        THEN Pump(UpdatedManifests(s, k))
        ELSE Leave(UpdatedManifests(s, k)) /\ UNCHANGED <<batch, starts, nudge>>
  BY DEF SaveThenPump
<1> DEFINE u == UpdatedManifests(s, k)
<1>2. /\ u \in Registry /\ Coherent(u, starts, pr)
      /\ u.entry = s.entry /\ u.current = s.current /\ u.lease = s.lease
      /\ \A x \in Runs : s.entry[x] = "absent" => u.manifest[x] = s.manifest[x]
      /\ \A x \in Runs : s.manifest[x].status = "ended" => u.manifest[x].status = "ended"
  BY UpdatedOK
<1> HIDE DEF u
<1>3. CASE Pump(u)
  <2>1. Pumped(u, pr)
    BY <1>2, <1>3, PumpOK
  <2>2. QED
    BY <1>2, <2>1 DEF Pumped
<1>4. CASE Leave(u) /\ UNCHANGED <<batch, starts, nudge>>
  <2>1. Now' \in Registry /\ failures' \in 0 .. MaxFailures /\ Coherent(Now', starts, pr)
        /\ entry' = u.entry /\ manifest' = u.manifest /\ current' = u.current /\ lease' = u.lease
    BY <1>2, <1>4, LeaveOK
  <2>2. QED
    BY <1>2, <1>4, <2>1 DEF Pumped
<1>5. QED
  BY <1>1, <1>3, <1>4 DEF u

-----------------------------------------------------------------------------
(* What a pump does to the runner, the order of the queue and the leases.  *)

\* The runner is busy, or nothing that waits may start.
Stands(s) ==
    /\ queue' = s.queue /\ entry' = s.entry /\ current' = s.current /\ lease' = s.lease
    /\ IF s.current # NoRun
       THEN batch' = batch
       ELSE batch' = "none" /\ \A i \in DOMAIN s.queue : ~s.released[s.queue[i]]

\* The first released run leaves the queue for the runner; its batch goes, or fails at once.
Starts(s) ==
    \E i \in DOMAIN s.queue :
      /\ s.entry[s.queue[i]] = "queued"
      /\ \A j \in DOMAIN s.queue : j < i => ~s.released[s.queue[j]]
      /\ entry' = [s.entry EXCEPT ![s.queue[i]] = "running"]
      /\ current' = s.queue[i] /\ s.current = NoRun
      /\ \/ batch' = "going" /\ lease' = s.lease /\ s.lease[s.queue[i]] = "self"
         \/ batch' = "rejected" /\ failures' > failures

\* A pump.
Turns(s) ==
    /\ released' = s.released /\ failures' \in Nat /\ failures' >= failures + s.failed
    /\ \A r \in Runs : s.lease[r] = "peer" => (manifest'[r] = s.manifest[r] /\ lease'[r] = "peer")
    /\ Stands(s) \/ Starts(s)

\* A handler that throws before it reaches its pump.
Breaks(s) ==
    /\ queue' = s.queue /\ entry' = s.entry /\ current' = s.current /\ lease' = s.lease
    /\ released' = s.released /\ batch' = batch
    /\ failures' \in Nat /\ failures' > failures
    /\ \A r \in Runs : s.lease[r] = "peer" => manifest'[r] = s.manifest[r]

\* Positions are written for the runs that wait, and this process holds their leases.
LEMMA SavedUnderLease ==
  ASSUME NEW s \in Registry, NEW st, NEW pr, Coherent(s, st, pr), NEW k \in 0 .. Len(s.queue)
  PROVE  LET u == UpdatedManifests(s, k)
         IN /\ u \in Registry /\ Coherent(u, st, pr)
            /\ u.queue = s.queue /\ u.entry = s.entry /\ u.released = s.released
            /\ u.current = s.current /\ u.lease = s.lease
            /\ \A r \in Runs : s.lease[r] = "peer" => u.manifest[r] = s.manifest[r]
            /\ u.failed = IF k < Len(s.queue) THEN s.failed + 1 ELSE s.failed
<1> DEFINE u == UpdatedManifests(s, k)
<1>1. /\ u \in Registry /\ Coherent(u, st, pr)
      /\ u.queue = s.queue /\ u.entry = s.entry /\ u.released = s.released
      /\ u.current = s.current /\ u.lease = s.lease
  BY UpdatedOK
<1>2. /\ s.queue \in Seq(Runs) /\ s.released \in [Runs -> BOOLEAN]
      /\ s.manifest \in [Runs -> Manifests]
  BY DEF Registry
<1>3. /\ u.manifest = Saved(s.queue, s.released, s.manifest, k)
      /\ u.failed = IF k < Len(s.queue) THEN s.failed + 1 ELSE s.failed
  BY DEF UpdatedManifests, Registry
<1>4. \A r \in Runs : r \in Range(s.queue) \/ u.manifest[r] = s.manifest[r]
  <2> DEFINE d == Saved(s.queue, s.released, s.manifest, k)
  <2>1. \A r \in Runs : \/ r \in Range(s.queue) /\ d[r].status = "queued"
                        \/ d[r] = s.manifest[r]
    BY <1>2, SavedManifests
  <2>2. u.manifest = d
    BY <1>3
  <2> HIDE DEF d, u
  <2>3. QED
    BY <2>1, <2>2
<1>5. \A r \in Range(s.queue) : s.lease[r] = "self"
  BY DEF Coherent
<1>6. QED
  BY <1>1, <1>3, <1>4, <1>5

\* What Leave makes of the variables a pump is judged by.
LEMMA Left ==
  ASSUME NEW s \in Registry, Leave(s), failures \in 0 .. MaxFailures
  PROVE  /\ queue' = s.queue /\ entry' = s.entry /\ current' = s.current /\ lease' = s.lease
         /\ released' = s.released /\ manifest' = s.manifest /\ aborted' = s.aborted
         /\ failures' = failures + s.failed /\ failures' \in Nat
         /\ failures \in Nat /\ s.failed \in Nat
BY LimitsAssumption DEF Leave, Fails, Registry

\* A start takes the run at a place of the queue that is released, and no earlier one is.
LEMMA LaunchStarts ==
  ASSUME NEW s \in Registry, NEW st, NEW pr, Coherent(s, st, pr), failures \in 0 .. MaxFailures,
         s.current = NoRun, NEW i \in DOMAIN s.queue, s.released[s.queue[i]],
         \A j \in DOMAIN s.queue : j < i => ~s.released[s.queue[j]],
         Launch(Taken(s, i), s.queue[i])
  PROVE  Turns(s)
<1> DEFINE r == s.queue[i]
           t == Taken(s, i)
<1>1. /\ t \in Registry /\ Coherent(t, st, pr) /\ r \in Runs /\ s.entry[r] = "queued"
      /\ t.current = r /\ t.entry = [s.entry EXCEPT ![r] = "running"]
      /\ t.manifest = s.manifest /\ t.lease = s.lease
  BY TakenOK
<1>2. t.released = s.released /\ t.failed = s.failed
  BY DEF Taken, Registry
<1>3. s.lease[r] = "self"
  BY <1>1 DEF Coherent
<1>4. PICK k \in 0 .. Len(t.queue) :
        LET saved == UpdatedManifests(t, k)
        IN \/ Leave([saved EXCEPT !.manifest[r] = Manifest("running")]) /\ batch' = "going"
           \/ Leave([saved EXCEPT !.lease[r] = "none", !.failed = @ + 1]) /\ batch' = "rejected"
  BY DEF Launch
<1> HIDE DEF t
<1> DEFINE u == UpdatedManifests(t, k)
           v == [u EXCEPT !.manifest[r] = Manifest("running")]
           w == [u EXCEPT !.lease[r] = "none", !.failed = @ + 1]
<1>5. /\ u \in Registry /\ u.entry = t.entry /\ u.released = s.released /\ u.current = r
      /\ u.lease = s.lease /\ u.failed \in Nat /\ u.failed >= s.failed /\ s.failed \in Nat
      /\ \A x \in Runs : s.lease[x] = "peer" => u.manifest[x] = s.manifest[x]
  <2>1. /\ u \in Registry /\ u.entry = t.entry /\ u.released = t.released
        /\ u.current = t.current /\ u.lease = t.lease
        /\ \A x \in Runs : t.lease[x] = "peer" => u.manifest[x] = t.manifest[x]
        /\ u.failed = IF k < Len(t.queue) THEN t.failed + 1 ELSE t.failed
    BY <1>1, SavedUnderLease
  <2>2. t.failed \in Nat
    BY <1>1 DEF Registry
  <2>3. QED
    BY <1>1, <1>2, <2>1, <2>2
<1> HIDE DEF u
<1>6. CASE Leave(v) /\ batch' = "going"
  <2>1. /\ v \in Registry /\ v.entry = u.entry /\ v.released = u.released
        /\ v.current = u.current /\ v.lease = u.lease /\ v.failed = u.failed
        /\ \A x \in Runs : x # r => v.manifest[x] = u.manifest[x]
    <3>1. Manifest("running") \in Manifests
      BY DEF Manifest, Manifests
    <3>2. QED
      BY <1>1, <1>5, <3>1 DEF Registry
  <2> HIDE DEF v
  <2>2. /\ entry' = u.entry /\ current' = r /\ lease' = s.lease /\ released' = s.released
        /\ manifest' = v.manifest /\ failures' \in Nat /\ failures' >= failures + s.failed
    BY <1>5, <1>6, <2>1, Left
  <2>3. \A x \in Runs : s.lease[x] = "peer" => manifest'[x] = s.manifest[x] /\ lease'[x] = "peer"
    BY <1>3, <1>5, <2>1, <2>2
  <2>4. Starts(s)
    BY <1>1, <1>3, <1>5, <1>6, <2>2 DEF Starts
  <2>5. QED
    BY <2>2, <2>3, <2>4 DEF Turns
<1>7. CASE Leave(w) /\ batch' = "rejected"
  <2>1. /\ w \in Registry /\ w.entry = u.entry /\ w.released = u.released
        /\ w.current = u.current /\ w.lease = [s.lease EXCEPT ![r] = "none"]
        /\ w.failed = u.failed + 1 /\ w.manifest = u.manifest /\ s.lease \in [Runs -> Leases]
    <3>1. /\ u.lease \in [Runs -> Leases] /\ u.failed + 1 \in Nat /\ "none" \in Leases
          /\ s.lease \in [Runs -> Leases]
      BY <1>5 DEF Registry, Leases
    <3>2. [u.lease EXCEPT ![r] = "none"] \in [Runs -> Leases]
      BY <1>1, <3>1
    <3>3. w = [u EXCEPT !.lease = [u.lease EXCEPT ![r] = "none"], !.failed = u.failed + 1]
      OBVIOUS
    <3> HIDE DEF w
    <3>4. QED
      BY <1>5, <3>1, <3>2, <3>3 DEF Registry
  <2> HIDE DEF w
  <2>2. /\ entry' = u.entry /\ current' = r /\ lease' = w.lease /\ released' = s.released
        /\ manifest' = u.manifest /\ failures' \in Nat /\ failures' >= failures + s.failed
        /\ failures' > failures
    BY <1>5, <1>7, <2>1, Left
  <2>3. \A x \in Runs : s.lease[x] = "peer" => manifest'[x] = s.manifest[x] /\ lease'[x] = "peer"
    BY <1>1, <1>3, <1>5, <2>1, <2>2
  <2>4. Starts(s)
    BY <1>1, <1>5, <1>7, <2>2 DEF Starts
  <2>5. QED
    BY <2>2, <2>3, <2>4 DEF Turns
<1>8. QED
  BY <1>4, <1>6, <1>7 DEF u, v, w

\* The pump starts the first released run when the runner is free, and nothing otherwise.
LEMMA PumpTurns ==
  ASSUME NEW s \in Registry, NEW st, NEW pr, Coherent(s, st, pr), failures \in 0 .. MaxFailures,
         Pump(s)
  PROVE  Turns(s)
<1> DEFINE swept == [s EXCEPT !.queue = Sweep(s)]
           ready == Startable(swept)
<1>1. swept = s
  BY SweepDropsNothing DEF Registry
<1>2. ready = {j \in DOMAIN s.queue : s.released[s.queue[j]]}
  BY <1>1 DEF Startable
<1>3. ASSUME Leave(s)
      PROVE  /\ queue' = s.queue /\ entry' = s.entry /\ current' = s.current /\ lease' = s.lease
             /\ released' = s.released /\ failures' \in Nat /\ failures' >= failures + s.failed
             /\ \A r \in Runs : s.lease[r] = "peer" => (manifest'[r] = s.manifest[r] /\ lease'[r] = "peer")
  BY <1>3, Left
<1>4. CASE s.current # NoRun /\ Leave(s) /\ UNCHANGED batch
  BY <1>3, <1>4 DEF Turns, Stands
<1>5. CASE s.current = NoRun /\ ready = {} /\ Leave(s) /\ batch' = "none"
  BY <1>2, <1>3, <1>5 DEF Turns, Stands
<1>6. CASE s.current = NoRun /\ ready # {} /\ Launch(Taken(swept, Min(ready)), swept.queue[Min(ready)])
  <2> DEFINE i == Min(ready)
  <2>1. Len(s.queue) \in Nat /\ DOMAIN s.queue = 1 .. Len(s.queue)
    BY QueueElements DEF Registry
  <2>2. i \in ready /\ \A j \in ready : i <= j
    <3>1. ready \in SUBSET (1 .. Len(s.queue))
      BY <1>2, <2>1
    <3> HIDE DEF ready
    <3>2. QED
      BY <1>6, <2>1, <3>1, MinIsIn
  <2> HIDE DEF i
  <2>3. i \in DOMAIN s.queue /\ s.released[s.queue[i]]
    BY <1>2, <2>2
  <2>4. \A j \in DOMAIN s.queue : j < i => ~s.released[s.queue[j]]
    <3>1. \A j \in DOMAIN s.queue : s.released[s.queue[j]] => i <= j
      BY <1>2, <2>2
    <3>2. QED
      BY <2>1, <2>3, <3>1
  <2>5. Launch(Taken(s, i), s.queue[i])
    BY <1>1, <1>6 DEF i
  <2>6. QED
    BY <1>6, <2>3, <2>4, <2>5, LaunchStarts
<1>7. QED
  BY <1>1, <1>4, <1>5, <1>6 DEF Pump

\* So does updateQueuedManifests with the pump behind it, unless a write throws.
LEMMA SaveThenPumpTurns ==
  ASSUME NEW s \in Registry, NEW st, NEW pr, Coherent(s, st, pr), failures \in 0 .. MaxFailures,
         SaveThenPump(s)
  PROVE  Turns(s) \/ Breaks(s)
<1>1. PICK k \in 0 .. Len(s.queue) :
        IF k = Len(s.queue)
        THEN Pump(UpdatedManifests(s, k))
        ELSE Leave(UpdatedManifests(s, k)) /\ UNCHANGED <<batch, starts, nudge>>
  BY DEF SaveThenPump
<1> DEFINE u == UpdatedManifests(s, k)
<1>2. /\ u \in Registry /\ Coherent(u, st, pr)
      /\ u.queue = s.queue /\ u.entry = s.entry /\ u.released = s.released
      /\ u.current = s.current /\ u.lease = s.lease
      /\ \A r \in Runs : s.lease[r] = "peer" => u.manifest[r] = s.manifest[r]
      /\ u.failed = IF k < Len(s.queue) THEN s.failed + 1 ELSE s.failed
  BY SavedUnderLease
<1>3. Len(s.queue) \in Nat
  BY QueueElements DEF Registry
<1> HIDE DEF u
<1>4. CASE k = Len(s.queue) /\ Pump(u)
  <2>1. Turns(u)
    BY <1>2, <1>4, PumpTurns
  <2>2. u.failed = s.failed
    BY <1>2, <1>3, <1>4
  <2>3. Stands(u) => Stands(s)
    BY <1>2 DEF Stands
  <2>4. Starts(u) => Starts(s)
    BY <1>2 DEF Starts
  <2>5. QED
    BY <1>2, <2>1, <2>2, <2>3, <2>4 DEF Turns
<1>5. CASE k # Len(s.queue) /\ Leave(u) /\ UNCHANGED <<batch, starts, nudge>>
  <2>1. u.failed = s.failed + 1 /\ s.failed \in Nat
    BY <1>2, <1>3, <1>5 DEF Registry
  <2>2. QED
    BY <1>2, <1>5, <2>1, Left DEF Breaks
<1>6. QED
  BY <1>1, <1>4, <1>5 DEF u

\* What is known of the registry s a handler hands to its pump, and of the step it makes.
Handled(s) ==
    /\ Turns(s) \/ (Breaks(s) /\ s.current = current)
    /\ s.current \in {current, NoRun}
    /\ \A r \in Runs : s.entry[r] = "running" => entry[r] = "running"
    /\ \A r \in Runs : lease[r] \in {"self", "peer"} => s.lease[r] = lease[r]
    /\ \A r \in Runs : lease[r] = "peer" =>
          s.manifest[r] = manifest[r] \/ (r = current /\ batch = "rejected")
    /\ \/ \E ids \in Requests : ReorderQueue(ids)
       \/ \A i \in DOMAIN queue : i \in DOMAIN s.queue /\ s.queue[i] = queue[i]
    /\ \/ \A r \in Runs : s.entry[r] \in {"queued", "running"} => r \in Unfinished
       \/ \E x \in Runs : /\ Room(x)
                           /\ \A r \in Runs : s.entry[r] \in {"queued", "running"} => r \in Unfinished \cup {x}

-----------------------------------------------------------------------------
\* Appending a new element adds it to the range and no repetition.
LEMMA AppendedQueue ==
  ASSUME NEW q \in Seq(Runs), IsInjective(q), NEW r \in Runs, r \notin Range(q)
  PROVE  /\ Append(q, r) \in Seq(Runs) /\ IsInjective(Append(q, r))
         /\ Range(Append(q, r)) = Range(q) \cup {r}
<1> DEFINE a == Append(q, r)
<1>1. /\ a \in Seq(Runs) /\ Len(a) = Len(q) + 1 /\ Len(q) \in Nat
      /\ \A i \in 1 .. Len(q) : a[i] = q[i]
      /\ a[Len(q) + 1] = r
  BY AppendProperties, LenProperties
<1>2. DOMAIN a = 1 .. (Len(q) + 1) /\ DOMAIN q = 1 .. Len(q)
  BY <1>1, LenProperties
<1> HIDE DEF a
<1>3. \A i \in 1 .. Len(q) : q[i] # r
  BY <1>2 DEF Range
<1>4. \A i \in 1 .. (Len(q) + 1) : i \in 1 .. Len(q) \/ i = Len(q) + 1
  BY <1>1
<1>5. IsInjective(a)
  BY <1>1, <1>2, <1>3, <1>4 DEF IsInjective
<1>6. Range(a) = Range(q) \cup {r}
  BY <1>1, <1>2, <1>4 DEF Range
<1>7. QED
  BY <1>1, <1>5, <1>6 DEF a

\* So does the concatenation of two sequences with no element in common.
LEMMA JoinedQueue ==
  ASSUME NEW p \in Seq(Runs), NEW q \in Seq(Runs), IsInjective(p), IsInjective(q),
         Range(p) \cap Range(q) = {}
  PROVE  /\ p \o q \in Seq(Runs) /\ IsInjective(p \o q)
         /\ Range(p \o q) = Range(p) \cup Range(q)
<1> DEFINE c == p \o q
<1>1. /\ c \in Seq(Runs) /\ Len(c) = Len(p) + Len(q)
      /\ Len(p) \in Nat /\ Len(q) \in Nat
      /\ \A i \in 1 .. Len(p) + Len(q) : c[i] = IF i <= Len(p) THEN p[i] ELSE q[i - Len(p)]
  BY ConcatProperties, LenProperties
<1>2. /\ DOMAIN c = 1 .. Len(p) + Len(q) /\ DOMAIN p = 1 .. Len(p)
      /\ DOMAIN q = 1 .. Len(q)
  BY <1>1, LenProperties
<1> HIDE DEF c
<1>3. IsInjective(c)
  <2> SUFFICES ASSUME NEW i \in DOMAIN c, NEW j \in DOMAIN c, c[i] = c[j]
               PROVE  i = j
    BY DEF IsInjective
  <2>1. i \in Int /\ j \in Int
    BY <1>1, <1>2
  <2>2. CASE i <= Len(p) /\ j <= Len(p)
    BY <1>1, <1>2, <2>2 DEF IsInjective
  <2>3. CASE ~(i <= Len(p)) /\ ~(j <= Len(p))
    <3>1. /\ i - Len(p) \in DOMAIN q /\ j - Len(p) \in DOMAIN q
          /\ q[i - Len(p)] = q[j - Len(p)]
      BY <1>1, <1>2, <2>3
    <3>2. i - Len(p) = j - Len(p)
      BY <3>1 DEF IsInjective
    <3>3. QED
      BY <3>2, <2>1, <1>1
  <2>4. CASE i <= Len(p) /\ ~(j <= Len(p))
    <3>1. i \in DOMAIN p /\ j - Len(p) \in DOMAIN q /\ p[i] = q[j - Len(p)]
      BY <1>1, <1>2, <2>4
    <3>2. QED
      BY <3>1 DEF Range
  <2>5. CASE ~(i <= Len(p)) /\ j <= Len(p)
    <3>1. j \in DOMAIN p /\ i - Len(p) \in DOMAIN q /\ p[j] = q[i - Len(p)]
      BY <1>1, <1>2, <2>5
    <3>2. QED
      BY <3>1 DEF Range
  <2>6. QED
    BY <2>2, <2>3, <2>4, <2>5
<1>4. Range(c) = Range(p) \cup Range(q)
  BY RangeConcatenation DEF c
<1>5. QED
  BY <1>1, <1>3, <1>4 DEF c

\* Reordering keeps every waiting run, once, whatever the request names.
LEMMA ReorderedQueue ==
  ASSUME NEW n \in Nat, NEW ids \in [1 .. n -> Runs], queue \in Seq(Runs), IsInjective(queue)
  PROVE  /\ Reordered(ids) \in Seq(Runs) /\ IsInjective(Reordered(ids))
         /\ Range(Reordered(ids)) = Range(queue)
<1> DEFINE I == {i \in DOMAIN ids : /\ ids[i] \in Range(queue)
                                    /\ \A j \in 1 .. i - 1 : ids[j] # ids[i]}
           J == {i \in DOMAIN queue : queue[i] \notin Range(Named(ids))}
           rest == Pick(queue, J)
<1>1. ids \in Seq(Runs) /\ DOMAIN ids = 1 .. n /\ I \in SUBSET DOMAIN ids
  OBVIOUS
<1>2. /\ Named(ids) \in Seq(Runs)
      /\ Range(Named(ids)) = {ids[i] : i \in I}
  BY <1>1, PickProperties DEF Named
<1>3. IsInjective(Named(ids))
  <2>1. \A i, j \in I : ids[i] = ids[j] => i = j
    <3> SUFFICES ASSUME NEW i \in I, NEW j \in I, ids[i] = ids[j], i # j
                 PROVE  FALSE
      OBVIOUS
    <3>1. i \in 1 .. j - 1 \/ j \in 1 .. i - 1
      BY <1>1
    <3>2. QED
      BY <3>1
  <2>2. QED
    BY <1>1, <2>1, PickInjective DEF Named
<1>4. J \in SUBSET DOMAIN queue
  OBVIOUS
<1>5. /\ rest \in Seq(Runs) /\ IsInjective(rest)
      /\ Range(rest) = {queue[i] : i \in J}
  BY <1>4, PickProperties
<1>6. Range(Named(ids)) \subseteq Range(queue)
  BY <1>2
<1>7. Range(rest) = Range(queue) \ Range(Named(ids))
  BY <1>5 DEF Range
<1>8. Range(Named(ids)) \cap Range(rest) = {} /\ Range(Named(ids)) \cup Range(rest) = Range(queue)
  BY <1>6, <1>7
<1>9. Reordered(ids) = Named(ids) \o rest
  BY DEF Reordered
<1> HIDE DEF rest, J, I
<1>10. /\ Named(ids) \o rest \in Seq(Runs) /\ IsInjective(Named(ids) \o rest)
       /\ Range(Named(ids) \o rest) = Range(Named(ids)) \cup Range(rest)
  BY <1>2, <1>3, <1>5, <1>8, JoinedQueue
<1>11. QED
  BY <1>8, <1>9, <1>10

-----------------------------------------------------------------------------
\* The registry of a typed state, field by field.
LEMMA NowTyped ==
  ASSUME TypeOK
  PROVE  /\ Now \in Registry
         /\ Now.queue = queue /\ Now.entry = entry /\ Now.released = released
         /\ Now.aborted = aborted /\ Now.current = current /\ Now.manifest = manifest
         /\ Now.lease = lease /\ Now.failed = 0
BY DEF TypeOK, Now, Registry

\* What is left to show of a step that reaches a pump.
LEMMA PumpedStep ==
  ASSUME IInv, NEW s \in Registry, Pumped(s, pressed'), Pump(s) \/ SaveThenPump(s),
         pressed' \in [Runs -> BOOLEAN],
         token' \in [Runs -> {"none", "ready", "taken", "gone"}],
         UNCHANGED <<phase, todo, restartPending, exiting, updates, crashes>>,
         \A r \in Runs : token'[r] \in {"none", "ready"} =>
           /\ s.entry[r] = "absent" /\ s.manifest[r].status = "none" /\ starts[r] = 0
           /\ s.lease[r] # "peer",
         \A r \in Runs : manifest[r].status = "ended" => s.manifest[r].status = "ended"
  PROVE  IInv' /\ EndedKept
<1>1. nudge \in BOOLEAN
  BY DEF IInv, TypeOK
<1>2. nudge' \in BOOLEAN
  <2>1. ASSUME NEW x, Pump(x)
        PROVE  nudge' \in BOOLEAN
    BY <1>1, <2>1 DEF Pump
  <2>2. CASE Pump(s)
    BY <2>1, <2>2
  <2>3. CASE SaveThenPump(s)
    BY <1>1, <2>1, <2>3 DEF SaveThenPump
  <2>4. QED
    BY <2>2, <2>3
<1>3. TypeOK'
  BY <1>2 DEF Pumped, IInv, TypeOK, Registry, Now
<1>4. EndedKept
  <2>1. \A r \in Runs : s.manifest[r].status = "ended" => manifest'[r].status = "ended"
    BY DEF Pumped
  <2>2. QED
    BY <2>1 DEF EndedKept
<1>5. QED
  BY <1>3, <1>4 DEF Pumped, IInv, BatchFollowsCurrent, FreshTokens

\* Admission appends a run nobody knew, persisted and leased before the pump sees it.
LEMMA EnqueueOK ==
  ASSUME IInv, NEW r \in Runs, NEW a \in BOOLEAN, Enqueue(r, a)
  PROVE  IInv' /\ EndedKept /\ \E x \in Registry : Handled(x)
<1> DEFINE s == [Now EXCEPT !.queue = Append(@, r),
                            !.entry[r] = "queued",
                            !.released[r] = a,
                            !.aborted[r] = FALSE,
                            !.manifest[r] = Queued(Len(queue) + 1, ~a),
                            !.lease[r] = "self"]
           m == Queued(Len(queue) + 1, ~a)
<1>1. /\ TypeOK /\ Now \in Registry
      /\ Now.queue = queue /\ Now.entry = entry /\ Now.released = released
      /\ Now.aborted = aborted /\ Now.current = current /\ Now.manifest = manifest
      /\ Now.lease = lease
  BY NowTyped DEF IInv
<1>2. /\ entry[r] = "absent" /\ manifest[r].status = "none" /\ starts[r] = 0
      /\ Pump(s) /\ token' = [token EXCEPT ![r] = "taken"]
      /\ pressed' = [pressed EXCEPT ![r] = a]
      /\ UNCHANGED <<phase, todo, restartPending, exiting, updates, crashes>>
  <2>1. /\ TakePreparedRun(r) /\ Pump(s)
        /\ pressed' = [pressed EXCEPT ![r] = a]
        /\ UNCHANGED <<phase, todo, restartPending, exiting, updates, crashes>>
    BY Zenon DEF Enqueue
  <2> HIDE DEF s
  <2>2. QED
    BY <2>1 DEF TakePreparedRun, IInv, FreshTokens
<1>3. m \in Manifests /\ m.status = "queued"
  <2>1. Len(queue) + 1 \in Nat
    BY <1>1, LenProperties DEF TypeOK
  <2>2. QED
    BY <2>1 DEF Queued, Manifests
<1> HIDE DEF m
<1>4. /\ Append(queue, r) \in Seq(Runs) /\ IsInjective(Append(queue, r))
      /\ Range(Append(queue, r)) = Range(queue) \cup {r}
  BY <1>1, <1>2, AppendedQueue DEF IInv, Coherent, TypeOK
<1>5. /\ s.queue = Append(queue, r) /\ s.entry = [entry EXCEPT ![r] = "queued"]
      /\ s.released = [released EXCEPT ![r] = a] /\ s.aborted = [aborted EXCEPT ![r] = FALSE]
      /\ s.current = current /\ s.manifest = [manifest EXCEPT ![r] = m]
      /\ s.lease = [lease EXCEPT ![r] = "self"]
  BY <1>1 DEF Registry, m
<1>6. s \in Registry
  BY <1>1, <1>3, <1>4 DEF Registry, TypeOK, Statuses, Leases, m
<1> HIDE DEF s
<1>7. Coherent(s, starts, pressed')
  BY <1>1, <1>2, <1>3, <1>4, <1>5 DEF TypeOK, IInv, Coherent
<1>8. /\ s.current # NoRun => batch # "none"
      /\ s.current # NoRun /\ batch = "going" => pressed'[s.current]
  BY <1>1, <1>2, <1>5 DEF IInv, BatchFollowsCurrent, Coherent, TypeOK
<1>9. Pumped(s, pressed')
  <2>1. /\ starts \in [Runs -> Nat] /\ failures \in 0 .. MaxFailures
        /\ batch \in {"none", "going", "resolved", "rejected"}
    BY <1>1 DEF TypeOK
  <2>2. QED
    BY <1>2, <1>6, <1>7, <1>8, <2>1, PumpOK
<1>10. \A x \in Runs : token'[x] \in {"none", "ready"} =>
           /\ s.entry[x] = "absent" /\ s.manifest[x].status = "none" /\ starts[x] = 0
           /\ s.lease[x] # "peer"
  BY <1>1, <1>2, <1>5 DEF IInv, FreshTokens, TypeOK
<1>11. /\ pressed' \in [Runs -> BOOLEAN]
       /\ token' \in [Runs -> {"none", "ready", "taken", "gone"}]
  BY <1>1, <1>2 DEF TypeOK
<1>12. \A x \in Runs : manifest[x].status = "ended" => s.manifest[x].status = "ended"
  BY <1>1, <1>2, <1>5 DEF TypeOK
<1>13. IInv' /\ EndedKept
  BY <1>2, <1>6, <1>9, <1>10, <1>11, <1>12, PumpedStep
<1>14. Handled(s)
  <2>1. Turns(s)
    BY <1>1, <1>2, <1>6, <1>7, PumpTurns DEF TypeOK
  <2>2. Room(r)
    BY DEF Enqueue
  <2>3. \A i \in DOMAIN queue : i \in DOMAIN s.queue /\ s.queue[i] = queue[i]
    <3>1. /\ queue \in Seq(Runs) /\ Len(queue) \in Nat /\ DOMAIN queue = 1 .. Len(queue)
          /\ DOMAIN s.queue = 1 .. Len(queue) + 1
          /\ \A i \in 1 .. Len(queue) : s.queue[i] = queue[i]
      BY <1>1, <1>5, AppendProperties, LenProperties DEF TypeOK
    <3>2. QED
      BY <3>1
  <2>4. /\ \A x \in Runs : s.entry[x] = "running" => entry[x] = "running"
        /\ \A x \in Runs : s.entry[x] \in {"queued", "running"} => x \in Unfinished \cup {r}
    BY <1>1, <1>5 DEF TypeOK, Unfinished
  <2>5. \A x \in Runs : x # r => s.lease[x] = lease[x] /\ s.manifest[x] = manifest[x]
    BY <1>1, <1>5 DEF TypeOK
  <2>6. s.lease[r] = "self" /\ lease[r] # "peer"
    <3>1. TakePreparedRun(r)
      BY DEF Enqueue
    <3>2. QED
      BY <1>1, <1>5, <3>1 DEF TypeOK, TakePreparedRun, IInv, FreshTokens
  <2>7. \A x \in Runs : lease[x] \in {"self", "peer"} => s.lease[x] = lease[x]
    BY <2>5, <2>6
  <2>8. \A x \in Runs : lease[x] = "peer" => s.manifest[x] = manifest[x]
    BY <2>5, <2>6
  <2>9. QED
    BY <1>5, <2>1, <2>2, <2>3, <2>4, <2>7, <2>8 DEF Handled
<1>15. QED
  BY <1>6, <1>13, <1>14

\* A press of "Run queue" releases waiting runs only, and is what they start on.
LEMMA ReleaseQueueOK ==
  ASSUME IInv, ReleaseQueue
  PROVE  /\ IInv' /\ EndedKept
         /\ \E x \in Registry : /\ Handled(x) /\ x.queue = queue /\ x.current = current
                                /\ \A r \in Range(queue) : x.released[r]
<1> DEFINE waiting == {r \in Range(queue) : entry[r] = "queued" /\ ~released[r]}
           rel == [r \in Runs |-> released[r] \/ r \in waiting]
           s == [Now EXCEPT !.released = [r \in Runs |-> @[r] \/ r \in waiting]]
<1>1. /\ TypeOK /\ Now \in Registry
      /\ Now.queue = queue /\ Now.entry = entry /\ Now.released = released
      /\ Now.aborted = aborted /\ Now.current = current /\ Now.manifest = manifest
      /\ Now.lease = lease
  BY NowTyped DEF IInv
<1>2. /\ Pump(s) \/ SaveThenPump(s)
      /\ pressed' = [r \in Runs |-> pressed[r] \/ r \in Range(queue)]
      /\ UNCHANGED <<phase, token, todo, restartPending, exiting, updates, crashes>>
  BY DEF ReleaseQueue
<1>3. rel \in [Runs -> BOOLEAN]
  BY <1>1 DEF TypeOK
<1>4. s = [Now EXCEPT !.released = rel]
  BY <1>1
<1> HIDE DEF s
<1>5. /\ s.queue = queue /\ s.entry = entry /\ s.released = rel
      /\ s.aborted = aborted /\ s.current = current /\ s.manifest = manifest
      /\ s.lease = lease
  BY <1>1, <1>4 DEF Registry
<1>6. s \in Registry
  BY <1>1, <1>3, <1>4 DEF Registry
<1>7. \A r \in Runs : pressed[r] => pressed'[r]
  BY <1>2
<1>8. Coherent(s, starts, pressed')
  BY <1>1, <1>2, <1>5, <1>7 DEF IInv, Coherent
<1>9. /\ batch = "none" <=> s.current = NoRun
      /\ s.current # NoRun /\ batch = "going" => pressed'[s.current]
  BY <1>1, <1>5, <1>7 DEF IInv, BatchFollowsCurrent, TypeOK
<1>10. Pumped(s, pressed')
  <2>1. /\ starts \in [Runs -> Nat] /\ failures \in 0 .. MaxFailures
        /\ batch \in {"none", "going", "resolved", "rejected"}
    BY <1>1 DEF TypeOK
  <2>2. CASE Pump(s)
    BY <1>6, <1>8, <1>9, <2>1, <2>2, PumpOK
  <2>3. CASE SaveThenPump(s)
    BY <1>6, <1>8, <1>9, <2>1, <2>3, SaveThenPumpOK
  <2>4. QED
    BY <1>2, <2>2, <2>3
<1>11. /\ pressed' \in [Runs -> BOOLEAN]
       /\ token' \in [Runs -> {"none", "ready", "taken", "gone"}]
  BY <1>1, <1>2 DEF TypeOK
<1>12. \A x \in Runs : token'[x] \in {"none", "ready"} =>
           /\ s.entry[x] = "absent" /\ s.manifest[x].status = "none" /\ starts[x] = 0
           /\ s.lease[x] # "peer"
  BY <1>1, <1>2, <1>5 DEF IInv, FreshTokens
<1>13. IInv' /\ EndedKept
  BY <1>2, <1>5, <1>6, <1>10, <1>11, <1>12, PumpedStep
<1>14. Handled(s)
  <2>1. Turns(s) \/ Breaks(s)
    BY <1>1, <1>2, <1>6, <1>8, PumpTurns, SaveThenPumpTurns DEF TypeOK
  <2>2. QED
    BY <1>5, <2>1 DEF Handled, Unfinished
<1>15. \A r \in Range(queue) : s.released[r]
  <2>1. \A r \in Range(queue) : r \in Runs /\ entry[r] = "queued"
    BY <1>1 DEF IInv, Coherent
  <2>2. \A r \in Range(queue) : rel[r]
    BY <2>1
  <2>3. QED
    BY <1>5, <2>2
<1>16. QED
  BY <1>5, <1>6, <1>13, <1>14, <1>15

\* A reorder changes the places of the waiting runs and nothing else.
LEMMA ReorderQueueOK ==
  ASSUME IInv, NEW ids \in Requests, ReorderQueue(ids)
  PROVE  IInv' /\ EndedKept /\ \E x \in Registry : Handled(x)
<1> DEFINE new == Reordered(ids)
           s == [Now EXCEPT !.queue = new]
<1>1. /\ TypeOK /\ Now \in Registry
      /\ Now.queue = queue /\ Now.entry = entry /\ Now.released = released
      /\ Now.aborted = aborted /\ Now.current = current /\ Now.manifest = manifest
      /\ Now.lease = lease
  BY NowTyped DEF IInv
<1>2. /\ SaveThenPump(s)
      /\ UNCHANGED <<phase, token, todo, restartPending, exiting, updates, crashes, pressed>>
  BY DEF ReorderQueue
<1>3. PICK n \in 0 .. MaxRequest : ids \in [1 .. n -> Runs]
  BY DEF Requests
<1>4. queue \in Seq(Runs) /\ IsInjective(queue)
  BY <1>1 DEF TypeOK, IInv, Coherent
<1>5. n \in Nat
  BY LimitsAssumption
<1>6. new \in Seq(Runs) /\ IsInjective(new) /\ Range(new) = Range(queue)
  BY <1>3, <1>4, <1>5, ReorderedQueue
<1> HIDE DEF new
<1>7. /\ s.queue = new /\ s.entry = entry /\ s.released = released
      /\ s.aborted = aborted /\ s.current = current /\ s.manifest = manifest
      /\ s.lease = lease
  BY <1>1 DEF Registry
<1>8. s \in Registry
  BY <1>1, <1>6 DEF Registry
<1> HIDE DEF s
<1>9. Coherent(s, starts, pressed)
  BY <1>1, <1>6, <1>7 DEF IInv, Coherent
<1>10. /\ batch = "none" <=> s.current = NoRun
       /\ s.current # NoRun /\ batch = "going" => pressed[s.current]
       /\ starts \in [Runs -> Nat] /\ failures \in 0 .. MaxFailures
       /\ batch \in {"none", "going", "resolved", "rejected"}
  BY <1>1, <1>7 DEF IInv, BatchFollowsCurrent, TypeOK
<1>11. Pumped(s, pressed)
  BY <1>2, <1>8, <1>9, <1>10, SaveThenPumpOK
<1>12. pressed' = pressed /\ token' = token
  BY <1>2
<1>13. /\ pressed' \in [Runs -> BOOLEAN]
       /\ token' \in [Runs -> {"none", "ready", "taken", "gone"}]
       /\ \A x \in Runs : token'[x] \in {"none", "ready"} =>
           /\ s.entry[x] = "absent" /\ s.manifest[x].status = "none" /\ starts[x] = 0
           /\ s.lease[x] # "peer"
  BY <1>1, <1>7, <1>12 DEF IInv, FreshTokens, TypeOK
<1>14. Pumped(s, pressed')
  BY <1>11, <1>12
<1>15. IInv' /\ EndedKept
  BY <1>2, <1>7, <1>8, <1>13, <1>14, PumpedStep
<1>16. Handled(s)
  <2>1. Turns(s) \/ Breaks(s)
    BY <1>1, <1>2, <1>8, <1>9, SaveThenPumpTurns DEF TypeOK
  <2>2. QED
    BY <1>7, <2>1 DEF Handled, Unfinished
<1>17. QED
  BY <1>8, <1>15, <1>16

\* What is left to show of a step that hands the registry s over and reaches no pump.
LEMMA LeftStep ==
  ASSUME IInv, NEW s \in Registry, Leave(s), Coherent(s, starts, pressed),
         UNCHANGED <<phase, token, todo, update, crashes, history>>,
         batch' \in {"none", "going", "resolved", "rejected"},
         s.current = current, batch' = "none" <=> batch = "none",
         batch' = "going" => batch = "going",
         \A r \in Runs : s.entry[r] = "absent" <=> entry[r] = "absent",
         \A r \in Runs : entry[r] = "absent" =>
           s.manifest[r] = manifest[r] /\ s.lease[r] = lease[r],
         \A r \in Runs : manifest[r].status = "ended" => s.manifest[r].status = "ended"
  PROVE  IInv' /\ EndedKept
<1>1. failures \in 0 .. MaxFailures
  BY DEF IInv, TypeOK
<1>2. /\ Now' \in Registry /\ failures' \in 0 .. MaxFailures /\ Coherent(Now', starts, pressed)
      /\ entry' = s.entry /\ manifest' = s.manifest /\ current' = s.current
      /\ lease' = s.lease
  BY <1>1, LeaveOK
<1>3. starts' = starts /\ pressed' = pressed
  BY DEF history
<1>4. TypeOK'
  BY <1>2, <1>3 DEF IInv, TypeOK, Registry, Now, update
<1>5. Coherent(Now', starts', pressed')
  BY <1>2, <1>3
<1>6. BatchFollowsCurrent'
  BY <1>2, <1>3 DEF IInv, BatchFollowsCurrent
<1>7. FreshTokens'
  BY <1>2, <1>3 DEF IInv, FreshTokens
<1>8. EndedKept
  BY <1>2 DEF EndedKept
<1>9. QED
  BY <1>4, <1>5, <1>6, <1>7, <1>8 DEF IInv

\* A cancelled run leaves the queue whether or not its last manifest could be written.
LEMMA CancelQueuedOK ==
  ASSUME IInv, NEW r \in Runs, CancelQueued(r)
  PROVE  IInv' /\ EndedKept
<1> DEFINE I == {i \in DOMAIN queue : queue[i] # r}
           rest == Pick(queue, I)
           out == [Now EXCEPT !.queue = rest, !.aborted[r] = TRUE]
           u == [out EXCEPT !.failed = 1]
           v == [out EXCEPT !.entry[r] = "finished", !.manifest[r] = Manifest("ended"),
                            !.lease[r] = "none"]
<1>1. /\ TypeOK /\ Now \in Registry
      /\ Now.queue = queue /\ Now.entry = entry /\ Now.released = released
      /\ Now.aborted = aborted /\ Now.current = current /\ Now.manifest = manifest
      /\ Now.lease = lease
  BY NowTyped DEF IInv
<1>2. /\ entry[r] = "queued"
      /\ \/ Leave(u)
         \/ \E k \in 0 .. Len(rest) : Leave(UpdatedManifests(v, k))
      /\ UNCHANGED <<phase, batch, token, todo, update, crashes, history>>
  BY DEF CancelQueued
<1>3. /\ rest \in Seq(Runs) /\ IsInjective(rest)
      /\ Range(rest) = Range(queue) \ {r}
  <2>1. queue \in Seq(Runs) /\ IsInjective(queue) /\ I \in SUBSET DOMAIN queue
    BY <1>1 DEF TypeOK, IInv, Coherent
  <2>2. /\ rest \in Seq(Runs) /\ IsInjective(rest)
        /\ Range(rest) = {queue[i] : i \in I}
    BY <2>1, PickProperties
  <2>3. {queue[i] : i \in I} = Range(queue) \ {r}
    BY DEF Range
  <2>4. QED
    BY <2>2, <2>3
<1> HIDE DEF rest
<1>4. /\ Coherent(Now, starts, pressed) /\ BatchFollowsCurrent
  BY DEF IInv
<1>5. Manifest("ended") \in Manifests /\ Manifest("ended").status = "ended"
  BY DEF Manifest, Manifests
<1>6. CASE Leave(u)
  <2>1. /\ u.queue = rest /\ u.entry = entry /\ u.released = released
        /\ u.aborted = [aborted EXCEPT ![r] = TRUE] /\ u.current = current
        /\ u.manifest = manifest /\ u.lease = lease
    BY <1>1 DEF Registry
  <2>2. u \in Registry
    BY <1>1, <1>3 DEF Registry
  <2> HIDE DEF u
  <2>3. Coherent(u, starts, pressed)
    BY <1>1, <1>3, <1>4, <2>1 DEF Coherent, TypeOK
  <2>4. batch' \in {"none", "going", "resolved", "rejected"} /\ batch' = batch
    BY <1>1, <1>2 DEF TypeOK
  <2>5. UNCHANGED <<phase, token, todo, update, crashes, history>>
    BY <1>2
  <2>6. QED
    BY <1>6, <2>1, <2>2, <2>3, <2>4, <2>5, LeftStep
<1>7. CASE \E k \in 0 .. Len(rest) : Leave(UpdatedManifests(v, k))
  <2>1. PICK k \in 0 .. Len(rest) : Leave(UpdatedManifests(v, k))
    BY <1>7
  <2>2. /\ out.queue = rest /\ out.entry = entry /\ out.released = released
        /\ out.aborted = [aborted EXCEPT ![r] = TRUE] /\ out.current = current
        /\ out.manifest = manifest /\ out.lease = lease /\ out \in Registry
    BY <1>1, <1>3 DEF Registry
  <2>3. v = [out EXCEPT !.entry = [entry EXCEPT ![r] = "finished"],
                        !.manifest = [manifest EXCEPT ![r] = Manifest("ended")],
                        !.lease = [lease EXCEPT ![r] = "none"]]
    BY <2>2
  <2> HIDE DEF out, v
  <2>4. /\ v.queue = rest /\ v.entry = [entry EXCEPT ![r] = "finished"]
        /\ v.released = released /\ v.aborted = [aborted EXCEPT ![r] = TRUE]
        /\ v.current = current /\ v.manifest = [manifest EXCEPT ![r] = Manifest("ended")]
        /\ v.lease = [lease EXCEPT ![r] = "none"]
    BY <2>2, <2>3 DEF Registry
  <2>5. v \in Registry
    BY <1>1, <1>5, <2>2, <2>3 DEF Registry, TypeOK, Statuses, Leases
  <2>6. Coherent(v, starts, pressed)
    BY <1>1, <1>2, <1>3, <1>4, <1>5, <2>4 DEF Coherent, TypeOK
  <2> DEFINE w == UpdatedManifests(v, k)
  <2>7. /\ w \in Registry /\ Coherent(w, starts, pressed)
        /\ \A x \in Runs : v.entry[x] = "absent" => w.manifest[x] = v.manifest[x]
        /\ \A x \in Runs : v.manifest[x].status = "ended" => w.manifest[x].status = "ended"
        /\ w.entry = v.entry /\ w.current = current /\ w.lease = v.lease
    <3>1. k \in 0 .. Len(v.queue)
      BY <2>4
    <3>2. /\ w \in Registry
          /\ \A st, pr : Coherent(v, st, pr) => Coherent(w, st, pr)
          /\ \A st, pr, x : Coherent(v, st, pr) /\ x \in Runs /\ v.entry[x] = "absent" =>
                            w.manifest[x] = v.manifest[x]
          /\ \A st, pr, x : Coherent(v, st, pr) /\ x \in Runs /\ v.manifest[x].status = "ended" =>
                            w.manifest[x].status = "ended"
          /\ w.entry = v.entry /\ w.current = v.current /\ w.lease = v.lease
      BY <2>5, <3>1, UpdatedOK
    <3>3. QED
      BY <2>4, <2>6, <3>2
  <2> HIDE DEF w
  <2>8. batch' \in {"none", "going", "resolved", "rejected"} /\ batch' = batch
    BY <1>1, <1>2 DEF TypeOK
  <2>9. /\ \A x \in Runs : w.entry[x] = "absent" <=> entry[x] = "absent"
        /\ \A x \in Runs : entry[x] = "absent" =>
             w.manifest[x] = manifest[x] /\ w.lease[x] = lease[x]
        /\ \A x \in Runs : manifest[x].status = "ended" => w.manifest[x].status = "ended"
    BY <1>1, <1>2, <1>5, <2>4, <2>7 DEF TypeOK
  <2>10. Leave(w)
    BY <2>1 DEF w
  <2>11. UNCHANGED <<phase, token, todo, update, crashes, history>>
    BY <1>2
  <2>12. QED
    BY <2>7, <2>8, <2>9, <2>10, <2>11, LeftStep
<1>8. QED
  BY <1>2, <1>6, <1>7

\* A batch that settles its promise is still the current run until the handlers run.
LEMMA BatchEndsOK ==
  ASSUME IInv, BatchEnds
  PROVE  IInv' /\ EndedKept
<1> DEFINE r == current
           s == [Now EXCEPT !.lease[r] = "none"]
           E == Manifest("ended")
<1>1. /\ TypeOK /\ Now \in Registry
      /\ Now.queue = queue /\ Now.entry = entry /\ Now.released = released
      /\ Now.aborted = aborted /\ Now.current = current /\ Now.manifest = manifest
      /\ Now.lease = lease
  BY NowTyped DEF IInv
<1>2. /\ batch = "going"
      /\ UNCHANGED <<phase, token, todo, update, crashes, history>>
      /\ \/ Leave([s EXCEPT !.manifest[r] = E]) /\ batch' = "resolved"
         \/ /\ \E m \in {manifest[r], E} : Leave([s EXCEPT !.manifest[r] = m, !.failed = 1])
            /\ batch' = "rejected"
  BY DEF BatchEnds
<1>3. Coherent(Now, starts, pressed) /\ BatchFollowsCurrent
  BY DEF IInv
<1>4. r \in Runs /\ entry[r] = "running"
  BY <1>1, <1>2, <1>3 DEF BatchFollowsCurrent, Coherent, TypeOK
<1>5. E \in Manifests /\ E.status = "ended" /\ manifest[r] \in Manifests
  BY <1>1, <1>4 DEF Manifest, Manifests, TypeOK
<1>6. /\ s.queue = queue /\ s.entry = entry /\ s.released = released
      /\ s.aborted = aborted /\ s.current = current /\ s.manifest = manifest
      /\ s.lease = [lease EXCEPT ![r] = "none"] /\ s \in Registry
  BY <1>1, <1>4 DEF Registry, Leases
<1> HIDE DEF s, E
<1>7. PICK u \in Registry :
        /\ Leave(u) /\ u.queue = queue /\ u.entry = entry /\ u.released = released
        /\ u.aborted = aborted /\ u.current = current /\ u.lease = s.lease
        /\ u.manifest = manifest \/ u.manifest = [manifest EXCEPT ![r] = E]
  <2>1. CASE Leave([s EXCEPT !.manifest[r] = E])
    <3> DEFINE u == [s EXCEPT !.manifest[r] = E]
    <3>1. /\ u \in Registry /\ u.queue = queue /\ u.entry = entry
          /\ u.released = released /\ u.aborted = aborted /\ u.current = current
          /\ u.lease = s.lease /\ u.manifest = [manifest EXCEPT ![r] = E]
      BY <1>4, <1>5, <1>6 DEF Registry
    <3>2. QED
      BY <2>1, <3>1
  <2>2. CASE \E m \in {manifest[r], E} : Leave([s EXCEPT !.manifest[r] = m, !.failed = 1])
    <3>1. PICK m \in {manifest[r], E} : Leave([s EXCEPT !.manifest[r] = m, !.failed = 1])
      BY <2>2
    <3>2. m \in Manifests
      BY <1>5
    <3> DEFINE n == [manifest EXCEPT ![r] = m]
               u == [s EXCEPT !.manifest[r] = m, !.failed = 1]
    <3>3. n \in [Runs -> Manifests]
      BY <1>1, <3>2 DEF TypeOK
    <3>4. u = [s EXCEPT !.manifest = n, !.failed = 1]
      BY <1>6
    <3> HIDE DEF n, u
    <3>5. /\ u \in Registry /\ u.queue = queue /\ u.entry = entry
          /\ u.released = released /\ u.aborted = aborted /\ u.current = current
          /\ u.lease = s.lease /\ u.manifest = n
      BY <1>6, <3>3, <3>4 DEF Registry
    <3>6. Leave(u)
      BY <3>1 DEF u
    <3>7. n = manifest \/ n = [manifest EXCEPT ![r] = E]
      BY <1>1 DEF n, TypeOK
    <3>8. QED
      BY <3>5, <3>6, <3>7
  <2>3. QED
    BY <1>2, <2>1, <2>2
<1>8. \A x \in Runs : \/ u.manifest[x] = manifest[x]
                     \/ (x = r /\ u.manifest[x].status = "ended")
  BY <1>1, <1>5, <1>7 DEF TypeOK
<1>9. /\ Range(u.queue) = {x \in Runs : u.entry[x] = "queued" /\ ~u.aborted[x]}
      /\ \A x \in Runs : u.entry[x] = "queued" => u.lease[x] = "self"
  BY <1>1, <1>3, <1>4, <1>6, <1>7 DEF Coherent, TypeOK
<1>10. Coherent(u, starts, pressed)
  BY <1>1, <1>3, <1>4, <1>7, <1>8, <1>9 DEF Coherent
<1>11. /\ \A x \in Runs : u.entry[x] = "absent" <=> entry[x] = "absent"
       /\ \A x \in Runs : entry[x] = "absent" =>
             u.manifest[x] = manifest[x] /\ u.lease[x] = lease[x]
       /\ \A x \in Runs : manifest[x].status = "ended" => u.manifest[x].status = "ended"
  BY <1>1, <1>4, <1>6, <1>7, <1>8 DEF TypeOK
<1>12. batch' \in {"resolved", "rejected"}
  BY <1>2
<1>13. QED
  BY <1>2, <1>7, <1>10, <1>11, <1>12, LeftStep

\* The handlers of a settled batch free the runner and pump.
LEMMA BatchSettlesOK ==
  ASSUME IInv, BatchSettles
  PROVE  IInv' /\ EndedKept /\ \E x \in Registry : Handled(x)
<1> DEFINE r == current
           s == [Now EXCEPT !.entry[r] = "finished", !.current = NoRun]
           E == Manifest("ended")
<1>1. /\ TypeOK /\ Now \in Registry
      /\ Now.queue = queue /\ Now.entry = entry /\ Now.released = released
      /\ Now.aborted = aborted /\ Now.current = current /\ Now.manifest = manifest
      /\ Now.lease = lease
  BY NowTyped DEF IInv
<1>2. /\ batch \in {"resolved", "rejected"}
      /\ \/ Pump(s)
         \/ Pump([s EXCEPT !.manifest[r] = E]) /\ batch = "rejected"
         \/ Pump([s EXCEPT !.failed = 1])
      /\ UNCHANGED <<phase, token, todo, restartPending, exiting, updates, crashes, pressed>>
  BY DEF BatchSettles
<1>3. Coherent(Now, starts, pressed) /\ BatchFollowsCurrent
  BY DEF IInv
<1>4. r \in Runs /\ entry[r] = "running"
  BY <1>1, <1>2, <1>3 DEF BatchFollowsCurrent, Coherent, TypeOK
<1>5. E \in Manifests /\ E.status = "ended" /\ manifest[r] \in Manifests
  BY <1>1, <1>4 DEF Manifest, Manifests, TypeOK
<1>6. /\ s.queue = queue /\ s.entry = [entry EXCEPT ![r] = "finished"]
      /\ s.released = released /\ s.aborted = aborted /\ s.current = NoRun
      /\ s.manifest = manifest /\ s.lease = lease /\ s \in Registry
  BY <1>1, <1>4 DEF Registry, Statuses
<1> HIDE DEF s, E
<1>7. PICK u \in Registry :
        /\ Pump(u) /\ u.queue = queue /\ u.entry = s.entry /\ u.released = released
        /\ u.aborted = aborted /\ u.current = NoRun /\ u.lease = lease
        /\ \A x \in Runs : \/ u.manifest[x] = manifest[x]
                           \/ (x = r /\ u.manifest[x].status = "ended" /\ batch = "rejected")
  <2>1. CASE Pump(s)
    BY <1>6, <2>1
  <2>2. CASE Pump([s EXCEPT !.manifest[r] = E]) /\ batch = "rejected"
    <3> DEFINE u == [s EXCEPT !.manifest[r] = E]
    <3>1. /\ u \in Registry /\ u.queue = queue /\ u.entry = s.entry
          /\ u.released = released /\ u.aborted = aborted /\ u.current = NoRun
          /\ u.lease = lease /\ u.manifest = [manifest EXCEPT ![r] = E]
      BY <1>4, <1>5, <1>6 DEF Registry
    <3>2. \A x \in Runs : \/ u.manifest[x] = manifest[x]
                         \/ (x = r /\ u.manifest[x].status = "ended" /\ batch = "rejected")
      BY <1>1, <1>5, <2>2, <3>1 DEF TypeOK
    <3>3. QED
      BY <2>2, <3>1, <3>2
  <2>3. CASE Pump([s EXCEPT !.failed = 1])
    <3> DEFINE u == [s EXCEPT !.failed = 1]
    <3>1. /\ u \in Registry /\ u.queue = queue /\ u.entry = s.entry
          /\ u.released = released /\ u.aborted = aborted /\ u.current = NoRun
          /\ u.lease = lease /\ u.manifest = manifest
      BY <1>6 DEF Registry
    <3>2. QED
      BY <2>3, <3>1
  <2>4. QED
    BY <1>2, <2>1, <2>2, <2>3
<1>8. Coherent(u, starts, pressed)
  <2>1. \A x \in Runs : u.entry[x] = "running" <=> x = u.current
    BY <1>1, <1>3, <1>4, <1>6, <1>7, RunsAssumption DEF Coherent, TypeOK
  <2>2. \A x \in Runs : \/ u.manifest[x] = manifest[x]
                        \/ (x = r /\ u.manifest[x].status = "ended")
    BY <1>7
  <2>3. QED
    BY <1>1, <1>3, <1>4, <1>5, <1>6, <1>7, <2>1, <2>2 DEF Coherent, TypeOK
<1>9. /\ starts \in [Runs -> Nat] /\ failures \in 0 .. MaxFailures
      /\ batch \in {"none", "going", "resolved", "rejected"}
  BY <1>1 DEF TypeOK
<1>10. Pumped(u, pressed)
  BY <1>7, <1>8, <1>9, PumpOK
<1>11. pressed' = pressed /\ token' = token
  BY <1>2
<1>12. /\ pressed' \in [Runs -> BOOLEAN]
       /\ token' \in [Runs -> {"none", "ready", "taken", "gone"}]
       /\ \A x \in Runs : token'[x] \in {"none", "ready"} =>
           /\ u.entry[x] = "absent" /\ u.manifest[x].status = "none" /\ starts[x] = 0
           /\ u.lease[x] # "peer"
  BY <1>1, <1>4, <1>6, <1>7, <1>11 DEF IInv, FreshTokens, TypeOK
<1>13. Pumped(u, pressed') /\ Pump(u)
  BY <1>7, <1>10, <1>11
<1>14. \A x \in Runs : manifest[x].status = "ended" => u.manifest[x].status = "ended"
  BY <1>7
<1>15. IInv' /\ EndedKept
  BY <1>2, <1>7, <1>12, <1>13, <1>14, PumpedStep
<1>16. Handled(u)
  <2>1. Turns(u)
    BY <1>7, <1>8, <1>9, PumpTurns
  <2>2. \A x \in Runs : u.entry[x] \in {"queued", "running"} => entry[x] = u.entry[x]
    BY <1>1, <1>6, <1>7 DEF TypeOK
  <2>3. \A x \in Runs : lease[x] = "peer" =>
          u.manifest[x] = manifest[x] \/ (x = current /\ batch = "rejected")
    BY <1>7
  <2>4. QED
    BY <1>7, <2>1, <2>2, <2>3 DEF Handled, Unfinished
<1>17. QED
  BY <1>15, <1>16

-----------------------------------------------------------------------------
\* Coherent of the current state, without the record.
CoherentNow ==
    /\ IsInjective(queue)
    /\ Range(queue) = {r \in Runs : entry[r] = "queued" /\ ~aborted[r]}
    /\ \A r \in Runs : entry[r] = "running" <=> r = current
    /\ \A r \in Runs : entry[r] = "queued" => lease[r] = "self"
    /\ \A r \in Runs : entry[r] = "queued" /\ ~aborted[r] => manifest[r].status = "queued"
    /\ \A r \in Runs : entry[r] = "queued" /\ released[r] => pressed[r]
    /\ \A r \in Runs : manifest[r].status = "queued" => starts[r] = 0
    /\ \A r \in Runs : starts[r] <= 1

\* The invariant speaks of the registry as the variables hold it now.
LEMMA CoherentIsNow ==
  Coherent(Now, starts, pressed) <=> CoherentNow
BY DEF Coherent, Now, CoherentNow

\* The same for the registry after a step.
LEMMA CoherentIsNext ==
  Coherent(Now, starts, pressed)' <=> CoherentNow'
BY DEF Coherent, Now, CoherentNow

\* Steps that change nothing the registry or the history knows of.
LEMMA AsideOK ==
  ASSUME IInv,
         \/ \E r \in Runs : Prepare(r) \/ Expire(r) \/ EnqueueFails(r)
         \/ UserShutdown \/ Boot \/ RecoveryBegins
         \/ UpdateApplied \/ UpdateTick \/ UpdateNudge
  PROVE  IInv' /\ EndedKept
<1>1. TypeOK /\ CoherentNow /\ BatchFollowsCurrent /\ FreshTokens
  BY CoherentIsNow DEF IInv
<1>2. /\ UNCHANGED <<entry, released, aborted, queue, current, batch, manifest, lease, starts, pressed>>
      /\ TypeOK'
      /\ \A r \in Runs : token'[r] \in {"none", "ready"} => token[r] \in {"none", "ready"}
  <2>1. ASSUME NEW r \in Runs, Prepare(r) \/ Expire(r) \/ EnqueueFails(r)
        PROVE  <1>2!:
    <3>1. CASE Prepare(r)
      BY <1>1, <3>1 DEF Prepare, TypeOK, disk, update, budget, history
    <3>2. CASE Expire(r)
      BY <1>1, <3>2 DEF Expire, TypeOK, disk, update, budget, history
    <3>3. CASE EnqueueFails(r)
      <4>1. /\ token' = token \/ token' = [token EXCEPT ![r] = "gone"]
            /\ Fails(1) \/ Fails(2)
            /\ UNCHANGED <<phase, entry, released, aborted, queue, current, batch, disk, todo,
                           update, crashes, history>>
        BY <3>3 DEF EnqueueFails
      <4>2. failures' \in 0 .. MaxFailures
        BY <1>1, <4>1, LimitsAssumption DEF Fails, TypeOK
      <4>3. QED
        BY <1>1, <4>1, <4>2 DEF TypeOK, disk, update, history
    <3>4. QED
      BY <2>1, <3>1, <3>2, <3>3
  <2>2. CASE UserShutdown \/ Boot
    <3>1. CASE UserShutdown
      <4>1. /\ exiting' = "user" /\ crashes' = crashes + 1 /\ crashes < MaxCrashes
            /\ UNCHANGED <<phase, memory, disk, todo, restartPending, nudge, updates, failures, history>>
        BY <3>1 DEF UserShutdown
      <4>2. crashes' \in 0 .. MaxCrashes
        BY <1>1, <4>1, LimitsAssumption DEF TypeOK
      <4>3. QED
        BY <1>1, <4>1, <4>2 DEF TypeOK, memory, disk, history
    <3>2. CASE Boot
      BY <1>1, <3>2 DEF Boot, TypeOK, memory, disk, update, budget, history
    <3>3. QED
      BY <2>2, <3>1, <3>2
  <2>3. CASE RecoveryBegins
    <3>1. todo' \in Seq(Runs)
      <4> DEFINE saved == {r \in Runs : manifest[r].status = "queued"}
      <4>1. IsFiniteSet(saved)
        BY RunsAssumption, FS_Subset
      <4>2. Cardinality(saved) \in Nat
        BY <4>1, FS_CardinalityType
      <4>3. todo' \in [1 .. Cardinality(saved) -> saved]
        BY <2>3 DEF RecoveryBegins, SetToSeqs
      <4> DEFINE n == Cardinality(saved)
      <4>4. n \in Nat /\ todo' \in [1 .. n -> Runs]
        BY <4>2, <4>3
      <4> HIDE DEF n
      <4>5. QED
        BY <4>4
    <3>2. QED
      BY <1>1, <2>3, <3>1 DEF RecoveryBegins, TypeOK, memory, disk, update, budget, history
  <2>4. CASE UpdateApplied \/ UpdateTick \/ UpdateNudge
    <3>1. exiting' \in {"no", "user", "update"} /\ restartPending' \in BOOLEAN /\ nudge' \in BOOLEAN
      <4>1. Relaunch => exiting' \in {"no", "user", "update"}
        BY <1>1 DEF Relaunch, TypeOK
      <4>2. QED
        BY <1>1, <2>4, <4>1 DEF UpdateApplied, UpdateTick, UpdateNudge, TypeOK
    <3>2. updates' \in 0 .. MaxUpdates
      BY <1>1, <2>4, LimitsAssumption DEF UpdateApplied, UpdateTick, UpdateNudge, TypeOK
    <3>3. UNCHANGED <<phase, memory, disk, todo, budget, history>>
      BY <2>4 DEF UpdateApplied, UpdateTick, UpdateNudge
    <3>4. QED
      BY <1>1, <3>1, <3>2, <3>3 DEF TypeOK, memory, disk, budget, history
  <2>5. QED
    BY <2>1, <2>2, <2>3, <2>4
<1>3. CoherentNow' /\ BatchFollowsCurrent' /\ FreshTokens'
  BY <1>1, <1>2 DEF CoherentNow, BatchFollowsCurrent, FreshTokens
<1>4. QED
  BY <1>2, <1>3, CoherentIsNext DEF IInv, EndedKept

\* Steps on one entry or one manifest that no waiting run depends on.
LEMMA EntryOK ==
  ASSUME IInv, NEW r \in Runs, CancelRunning(r) \/ DeleteRun(r) \/ CloseRun(r)
  PROVE  IInv' /\ EndedKept
<1>1. TypeOK /\ CoherentNow /\ BatchFollowsCurrent /\ FreshTokens
  BY CoherentIsNow DEF IInv
<1>2. CASE CancelRunning(r)
  <2>1. TypeOK' /\ BatchFollowsCurrent' /\ FreshTokens'
    BY <1>1, <1>2 DEF CancelRunning, TypeOK, BatchFollowsCurrent, FreshTokens, disk, update, budget, history
  <2>2. CoherentNow'
    BY <1>1, <1>2 DEF CancelRunning, TypeOK, CoherentNow, disk, history
  <2>3. QED
    BY <1>2, <2>1, <2>2, CoherentIsNext DEF IInv, CancelRunning, EndedKept, disk
<1>3. CASE DeleteRun(r)
  <2>1. Manifest("none") \in Manifests /\ Manifest("none").status = "none"
    BY DEF Manifest, Manifests
  <2>2. TypeOK' /\ BatchFollowsCurrent' /\ FreshTokens'
    BY <1>1, <1>3, <2>1 DEF DeleteRun, TypeOK, BatchFollowsCurrent, FreshTokens, memory, update, budget, history
  <2>3. CoherentNow'
    BY <1>1, <1>3, <2>1 DEF DeleteRun, TypeOK, CoherentNow, memory, history
  <2>4. EndedKept
    BY <1>1, <1>3, <2>1 DEF DeleteRun, TypeOK, EndedKept
  <2>5. QED
    BY <2>2, <2>3, <2>4, CoherentIsNext DEF IInv
<1>4. CASE CloseRun(r)
  <2>1. TypeOK' /\ BatchFollowsCurrent' /\ FreshTokens'
    BY <1>1, <1>4 DEF CloseRun, TypeOK, Statuses, BatchFollowsCurrent, FreshTokens, disk, update, budget, history
  <2>2. CoherentNow'
    BY <1>1, <1>4 DEF CloseRun, TypeOK, CoherentNow, disk, history
  <2>3. QED
    BY <1>4, <2>1, <2>2, CoherentIsNext DEF IInv, CloseRun, EndedKept, disk
<1>5. QED
  BY <1>2, <1>3, <1>4

\* The death of the process leaves what is on disk, which is enough.
LEMMA DeathOK ==
  ASSUME IInv, Crash \/ Exit
  PROVE  IInv' /\ EndedKept
<1>1. TypeOK /\ CoherentNow /\ FreshTokens
  BY CoherentIsNow DEF IInv
<1>2. Dies /\ crashes' \in 0 .. MaxCrashes
  BY <1>1, LimitsAssumption DEF Crash, Exit, TypeOK
<1>3. queue' = <<>> /\ <<>> \in Seq(Runs) /\ Range(<<>>) = {} /\ IsInjective(<<>>)
  BY <1>2 DEF Dies, Range, IsInjective
<1>4. TypeOK'
  BY <1>1, <1>2, <1>3 DEF Dies, TypeOK, Statuses, Leases
<1>5. CoherentNow'
  BY <1>1, <1>2, <1>3, RunsAssumption DEF Dies, TypeOK, CoherentNow
<1>6. BatchFollowsCurrent' /\ FreshTokens'
  BY <1>1, <1>2 DEF Dies, TypeOK, BatchFollowsCurrent, FreshTokens
<1>7. QED
  BY <1>2, <1>4, <1>5, <1>6, CoherentIsNext DEF IInv, Dies, EndedKept

\* The boot takes over, ends or leaves alone what a dead process left on disk.
LEMMA RecoverOK ==
  ASSUME IInv, NEW r \in Runs, Recover(r)
  PROVE  IInv' /\ EndedKept
<1>1. TypeOK /\ CoherentNow /\ BatchFollowsCurrent /\ FreshTokens
  BY CoherentIsNow DEF IInv
<1>2. todo # <<>> => Tail(todo) \in Seq(Runs)
  BY <1>1, HeadTailProperties DEF TypeOK
<1>3. CASE RecoverySkips(r)
  <2>1. /\ UNCHANGED <<phase, memory, manifest, update, budget, history>>
        /\ lease' = lease \/ (lease' = [lease EXCEPT ![r] = "none"] /\ entry[r] = "absent")
        /\ todo' \in Seq(Runs)
    BY <1>2, <1>3 DEF RecoverySkips, Recovering
  <2>2. TypeOK' /\ BatchFollowsCurrent' /\ FreshTokens'
    BY <1>1, <2>1 DEF TypeOK, Leases, BatchFollowsCurrent, FreshTokens, memory, update, budget, history
  <2>3. CoherentNow'
    BY <1>1, <2>1 DEF TypeOK, CoherentNow, memory, history
  <2>4. QED
    BY <2>1, <2>2, <2>3, CoherentIsNext DEF IInv, EndedKept
<1>4. CASE RecoveryAdopts(r)
  <2>1. /\ entry[r] = "absent" /\ manifest[r].status = "queued" /\ todo' \in Seq(Runs)
        /\ lease' = [lease EXCEPT ![r] = "self"] /\ entry' = [entry EXCEPT ![r] = "queued"]
        /\ released' = [released EXCEPT ![r] = FALSE] /\ aborted' = [aborted EXCEPT ![r] = FALSE]
        /\ queue' = Append(queue, r)
        /\ UNCHANGED <<phase, current, batch, token, manifest, update, budget, history>>
    BY <1>2, <1>4 DEF RecoveryAdopts, Recovering
  <2>2. /\ queue' \in Seq(Runs) /\ IsInjective(queue')
        /\ Range(queue') = Range(queue) \cup {r}
    BY <1>1, <2>1, AppendedQueue DEF TypeOK, CoherentNow
  <2>3. TypeOK' /\ BatchFollowsCurrent' /\ FreshTokens'
    BY <1>1, <2>1, <2>2 DEF TypeOK, Statuses, Leases, BatchFollowsCurrent, FreshTokens, update, budget, history
  <2>4. CoherentNow'
    BY <1>1, <2>1, <2>2 DEF TypeOK, CoherentNow, history
  <2>5. QED
    BY <2>1, <2>3, <2>4, CoherentIsNext DEF IInv, EndedKept
<1>5. CASE RecoveryRejects(r)
  <2> DEFINE E == Manifest("ended")
  <2>1. E \in Manifests /\ E.status = "ended"
    BY DEF Manifest, Manifests
  <2> HIDE DEF E
  <2>2. /\ entry[r] = "absent" /\ manifest[r].status = "queued"
        /\ UNCHANGED <<memory, update, crashes, history>>
        /\ manifest' = manifest \/ manifest' = [manifest EXCEPT ![r] = E]
        /\ lease' = [lease EXCEPT ![r] = "none"] \/ lease' = [lease EXCEPT ![r] = "self"]
        /\ phase' = phase \/ phase' = "halted"
        /\ todo' = Tail(todo) \/ todo' = <<>>
        /\ todo # <<>>
        /\ Fails(0) \/ Fails(1) \/ Fails(2)
    <3> DEFINE n == IF RoomToAdopt(r) THEN 1 ELSE 0
    <3>1. n \in {0, 1} /\ n + 1 \in {1, 2}
      OBVIOUS
    <3>2. Fails(n) \/ Fails(n + 1) => Fails(0) \/ Fails(1) \/ Fails(2)
      BY <3>1
    <3>3. QED
      BY <1>5, <3>2 DEF RecoveryRejects, Recovering, E
  <2>3. failures' \in 0 .. MaxFailures
    BY <1>1, <2>2, LimitsAssumption DEF Fails, TypeOK
  <2>4. todo' \in Seq(Runs) /\ phase' \in {"down", "bound", "recovering", "serving", "halted"}
    <3>1. <<>> \in Seq(Runs)
      OBVIOUS
    <3>2. todo' \in Seq(Runs)
      BY <1>2, <2>2, <3>1
    <3>3. phase' \in {"down", "bound", "recovering", "serving", "halted"}
      BY <1>1, <2>2 DEF TypeOK
    <3>4. QED
      BY <3>2, <3>3
  <2>5. TypeOK' /\ BatchFollowsCurrent' /\ FreshTokens'
    BY <1>1, <2>1, <2>2, <2>3, <2>4
       DEF TypeOK, Leases, BatchFollowsCurrent, FreshTokens, memory, update, history
  <2>6. CoherentNow'
    <3>1. \A x \in Runs : manifest'[x] = manifest[x] \/ manifest'[x].status = "ended"
      BY <1>1, <2>1, <2>2 DEF TypeOK
    <3>2. \A x \in Runs : x # r => manifest'[x] = manifest[x] /\ lease'[x] = lease[x]
      BY <1>1, <2>2 DEF TypeOK
    <3>3. UNCHANGED <<entry, released, aborted, queue, current, starts, pressed>>
      BY <2>2 DEF memory, history
    <3>4. QED
      BY <1>1, <2>2, <3>1, <3>2, <3>3 DEF CoherentNow
  <2>7. EndedKept
    BY <1>1, <2>1, <2>2 DEF TypeOK, EndedKept
  <2>8. QED
    BY <2>5, <2>6, <2>7, CoherentIsNext DEF IInv
<1>6. QED
  BY <1>3, <1>4, <1>5 DEF Recover

\* The end of the boot rewrites the waiting runs and settles only what nobody owns.
LEMMA RecoveryEndsOK ==
  ASSUME IInv, RecoveryEnds
  PROVE  IInv' /\ EndedKept
<1>1. TypeOK /\ CoherentNow /\ BatchFollowsCurrent /\ FreshTokens
  BY CoherentIsNow DEF IInv
<1> DEFINE E == Manifest("ended")
<1>2. E \in Manifests /\ E.status = "ended"
  BY DEF Manifest, Manifests
<1> HIDE DEF E
<1>3. PICK k \in 0 .. Len(queue) :
        LET saved == Saved(queue, released, manifest, k)
        IN \E settled \in SUBSET (IF k = Len(queue) THEN Orphaned(saved) ELSE {}) :
             /\ manifest' = [r \in Runs |-> IF r \in settled THEN E ELSE saved[r]]
             /\ IF k = Len(queue) /\ settled = Orphaned(saved)
                THEN phase' = "serving" /\ UNCHANGED failures
                ELSE phase' = "halted" /\ Fails(1)
  BY DEF RecoveryEnds, E
<1> DEFINE saved == Saved(queue, released, manifest, k)
<1>4. /\ saved \in [Runs -> Manifests]
      /\ \A r \in Runs : \/ r \in Range(queue) /\ saved[r].status = "queued"
                         \/ saved[r] = manifest[r]
  BY <1>1, SavedManifests DEF TypeOK
<1> HIDE DEF saved
<1>5. PICK settled \in SUBSET Orphaned(saved) :
        /\ manifest' = [r \in Runs |-> IF r \in settled THEN E ELSE saved[r]]
        /\ phase' \in {"serving", "halted"}
        /\ failures' = failures \/ Fails(1)
  BY <1>3 DEF saved
<1>6. \A r \in settled : entry[r] = "absent" /\ saved[r].status # "none"
  BY <1>5 DEF Orphaned
<1>7. manifest' \in [Runs -> Manifests]
  BY <1>2, <1>4, <1>5
<1>8. \A r \in Runs : manifest'[r] = E \/ manifest'[r] = saved[r]
  BY <1>5
<1>9. failures' \in 0 .. MaxFailures
  BY <1>1, <1>5, LimitsAssumption DEF Fails, TypeOK
<1>10. UNCHANGED <<memory, lease, todo, update, crashes, history>>
  BY DEF RecoveryEnds
<1>11. TypeOK' /\ BatchFollowsCurrent'
  BY <1>1, <1>5, <1>7, <1>9, <1>10 DEF TypeOK, BatchFollowsCurrent, memory, update, history
<1>12. FreshTokens'
  <2>1. \A r \in Runs : entry[r] = "absent" => saved[r] = manifest[r]
    BY <1>1, <1>4 DEF CoherentNow
  <2>2. \A r \in Runs : token[r] \in {"none", "ready"} => manifest'[r] = manifest[r]
    BY <1>1, <1>5, <1>6, <2>1 DEF FreshTokens
  <2>3. QED
    BY <1>1, <1>10, <2>2 DEF FreshTokens, memory, history
<1>13. CoherentNow'
  <2>1. \A r \in Runs : entry[r] = "queued" => manifest'[r] = saved[r]
    BY <1>5, <1>6
  <2>2. \A r \in Runs : manifest'[r].status = "queued" => starts[r] = 0
    BY <1>1, <1>2, <1>4, <1>8 DEF CoherentNow
  <2>3. \A r \in Runs : entry[r] = "queued" /\ ~aborted[r] => manifest'[r].status = "queued"
    BY <1>1, <1>4, <2>1 DEF CoherentNow
  <2>4. QED
    BY <1>1, <1>10, <2>2, <2>3 DEF CoherentNow, memory, history
<1>14. EndedKept
  <2>1. \A r \in Runs : manifest[r].status = "ended" => saved[r].status = "ended"
    BY <1>1, <1>4 DEF CoherentNow
  <2>2. QED
    BY <1>2, <1>8, <2>1 DEF EndedKept
<1>15. QED
  BY <1>11, <1>12, <1>13, <1>14, CoherentIsNext DEF IInv

\* Another process touches only runs whose lease it holds or nobody alive does.
LEMMA PeerOK ==
  ASSUME IInv, NEW r \in Runs, PeerStep(r)
  PROVE  IInv' /\ EndedKept
<1>1. TypeOK /\ CoherentNow /\ BatchFollowsCurrent /\ FreshTokens
  BY CoherentIsNow DEF IInv
<1>2. /\ Manifest("ended") \in Manifests /\ Manifest("ended").status = "ended"
      /\ Manifest("running") \in Manifests /\ Manifest("running").status = "running"
  BY DEF Manifest, Manifests
<1>3. EndedKept
  BY <1>1, <1>2 DEF PeerStep, PeerAdopts, PeerStarts, PeerEnds, PeerSettles, PeerDies, TypeOK, EndedKept
<1>4. CASE PeerAdopts(r)
  <2>1. TypeOK' /\ BatchFollowsCurrent' /\ FreshTokens'
    BY <1>1, <1>4 DEF PeerAdopts, TypeOK, Leases, BatchFollowsCurrent, FreshTokens, memory, update, budget, history
  <2>2. CoherentNow'
    BY <1>1, <1>4 DEF PeerAdopts, Owned, TypeOK, CoherentNow, memory, history
  <2>3. QED
    BY <1>3, <2>1, <2>2, CoherentIsNext DEF IInv
<1>5. CASE PeerStarts(r)
  <2>1. TypeOK' /\ BatchFollowsCurrent' /\ FreshTokens'
    BY <1>1, <1>2, <1>5 DEF PeerStarts, TypeOK, BatchFollowsCurrent, FreshTokens, memory, update, budget
  <2>2. CoherentNow'
    BY <1>1, <1>2, <1>5 DEF PeerStarts, TypeOK, CoherentNow, memory
  <2>3. QED
    BY <1>3, <2>1, <2>2, CoherentIsNext DEF IInv
<1>6. CASE PeerEnds(r)
  <2>1. TypeOK' /\ BatchFollowsCurrent' /\ FreshTokens'
    BY <1>1, <1>2, <1>6 DEF PeerEnds, TypeOK, Leases, BatchFollowsCurrent, FreshTokens, memory, update, budget, history
  <2>2. CoherentNow'
    BY <1>1, <1>2, <1>6 DEF PeerEnds, TypeOK, CoherentNow, memory, history
  <2>3. QED
    BY <1>3, <2>1, <2>2, CoherentIsNext DEF IInv
<1>7. CASE PeerSettles(r)
  <2>1. TypeOK' /\ BatchFollowsCurrent' /\ FreshTokens'
    BY <1>1, <1>2, <1>7 DEF PeerSettles, TypeOK, BatchFollowsCurrent, FreshTokens, memory, update, budget, history
  <2>2. CoherentNow'
    BY <1>1, <1>2, <1>7 DEF PeerSettles, Owned, TypeOK, CoherentNow, memory, history
  <2>3. QED
    BY <1>3, <2>1, <2>2, CoherentIsNext DEF IInv
<1>8. CASE PeerDies(r)
  <2>1. TypeOK' /\ BatchFollowsCurrent' /\ FreshTokens'
    BY <1>1, <1>8 DEF PeerDies, TypeOK, Leases, BatchFollowsCurrent, FreshTokens, memory, update, budget, history
  <2>2. CoherentNow'
    BY <1>1, <1>8 DEF PeerDies, TypeOK, CoherentNow, memory, history
  <2>3. QED
    BY <1>3, <2>1, <2>2, CoherentIsNext DEF IInv
<1>9. QED
  BY <1>4, <1>5, <1>6, <1>7, <1>8 DEF PeerStep

-----------------------------------------------------------------------------
\* IInv is an invariant: it holds at first, and every step keeps it.
LEMMA InitOK == Init => IInv
<1> SUFFICES ASSUME Init
             PROVE  IInv
  OBVIOUS
<1>1. <<>> \in Seq(Runs) /\ Range(<<>>) = {} /\ IsInjective(<<>>)
  BY DEF Range, IsInjective
<1>2. Manifest("none") \in Manifests /\ Manifest("none").status = "none"
  BY DEF Manifest, Manifests
<1>3. TypeOK
  <2>1. updates \in 0 .. MaxUpdates /\ failures \in 0 .. MaxFailures /\ crashes \in 0 .. MaxCrashes
    BY LimitsAssumption DEF Init
  <2>2. queue \in Seq(Runs) /\ todo \in Seq(Runs)
    BY <1>1 DEF Init
  <2>3. manifest \in [Runs -> Manifests]
    BY <1>2 DEF Init
  <2>4. QED
    BY <2>1, <2>2, <2>3 DEF Init, TypeOK, Statuses, Leases
<1>4. CoherentNow /\ BatchFollowsCurrent /\ FreshTokens
  BY <1>1, <1>2, RunsAssumption DEF Init, CoherentNow, BatchFollowsCurrent, FreshTokens
<1>5. QED
  BY <1>3, <1>4, CoherentIsNow DEF IInv

\* Every step keeps the inductive invariant and every ended manifest.
LEMMA StepOK == IInv /\ [Next]_vars => IInv' /\ EndedKept
<1> SUFFICES ASSUME IInv, [Next]_vars
             PROVE  IInv' /\ EndedKept
  OBVIOUS
<1>1. ASSUME NEW r \in Runs, Admission(r)
      PROVE  IInv' /\ EndedKept
  BY <1>1, AsideOK, EnqueueOK DEF Admission
<1>2. CASE Control
  BY <1>2, ReleaseQueueOK, ReorderQueueOK, EntryOK, CancelQueuedOK DEF Control
<1>3. CASE BatchEnds
  BY <1>3, BatchEndsOK
<1>4. CASE BatchSettles
  BY <1>4, BatchSettlesOK
<1>5. ASSUME NEW r \in Runs, CloseRun(r)
      PROVE  IInv' /\ EndedKept
  BY <1>5, EntryOK
<1>6. CASE Crash \/ Exit
  BY <1>6, DeathOK
<1>7. CASE UserShutdown \/ Boot \/ RecoveryBegins \/ UpdateApplied \/ UpdateTick \/ UpdateNudge
  BY <1>7, AsideOK
<1>8. ASSUME NEW r \in Runs, Recover(r)
      PROVE  IInv' /\ EndedKept
  BY <1>8, RecoverOK
<1>9. CASE RecoveryEnds
  BY <1>9, RecoveryEndsOK
<1>10. ASSUME NEW r \in Runs, PeerStep(r)
       PROVE  IInv' /\ EndedKept
  BY <1>10, PeerOK
<1>11. CASE UNCHANGED vars
  <2>1. /\ TypeOK' = TypeOK /\ CoherentNow' = CoherentNow
        /\ BatchFollowsCurrent' = BatchFollowsCurrent /\ FreshTokens' = FreshTokens
    BY <1>11 DEF vars, memory, disk, update, budget, history, TypeOK, CoherentNow,
                 BatchFollowsCurrent, FreshTokens
  <2>2. QED
    BY <1>11, <2>1, CoherentIsNow, CoherentIsNext DEF IInv, EndedKept, vars, disk
<1>12. QED
  BY <1>1, <1>2, <1>3, <1>4, <1>5, <1>6, <1>7, <1>8, <1>9, <1>10, <1>11 DEF Next

\* The inductive invariant of every behaviour of the queue.
THEOREM Invariance == Spec => []IInv
BY InitOK, StepOK, PTL DEF Spec

\* What has ended stays ended: nobody's write brings a run back.
THEOREM EndedRunsStayEnded == Spec => EndedStaysEnded
<1>1. IInv /\ [Next]_vars =>
        [\A r \in Runs : manifest[r].status = "ended" => manifest'[r].status \in {"ended", "none"}]_vars
  BY StepOK DEF EndedKept
<1>2. QED
  BY <1>1, Invariance, PTL DEF Spec, EndedStaysEnded

\* Every variable keeps its type.
THEOREM TypeCorrect == Spec => []TypeOK
<1>1. IInv => TypeOK
  BY DEF IInv
<1>2. QED
  BY <1>1, Invariance, PTL

\* Money is spent once: no history of crashes, recoveries, failed writes, presses and
\* peers takes a batch to its provider calls twice.
THEOREM SpendsAtMostOnce == Spec => []SpendsOnce
<1>1. IInv => SpendsOnce
  BY CoherentIsNow DEF IInv, CoherentNow, SpendsOnce
<1>2. QED
  BY <1>1, Invariance, PTL

\* The batch in progress was asked for in this life of the daemon.
THEOREM NoSpendingWithoutAPress == Spec => []SpendingWasAskedFor
<1>1. IInv => SpendingWasAskedFor
  BY DEF IInv, BatchFollowsCurrent, SpendingWasAskedFor
<1>2. QED
  BY <1>1, Invariance, PTL

\* The queue holds exactly the waiting runs, each once.
THEOREM QueueMatchesRegistry == Spec => []QueueIsTheWaitingRuns
<1>1. IInv => QueueIsTheWaitingRuns
  BY CoherentIsNow DEF IInv, CoherentNow, QueueIsTheWaitingRuns
<1>2. QED
  BY <1>1, Invariance, PTL

\* A waiting run is on disk, under this process's lease, at every instant.
THEOREM WaitingSurvivesDeath == Spec => []WaitingIsDurable
<1>1. IInv => WaitingIsDurable
  BY CoherentIsNow DEF IInv, CoherentNow, WaitingIsDurable
<1>2. QED
  BY <1>1, Invariance, PTL

\* Money is spent once, and only as asked for.
THEOREM SpendingIsRight == Spec => []SpendsAsAsked
<1>1. IInv => SpendsAsAsked
  BY CoherentIsNow
  DEF IInv, CoherentNow, BatchFollowsCurrent, SpendsAsAsked, SpendsOnce, SpendingWasAskedFor
<1>2. QED
  BY <1>1, Invariance, PTL

\* The queue, the registry, the manifests and the leases tell the same story of every
\* waiting run.
THEOREM WaitingRunsAreAgreed == Spec => []WaitingRunsAgree
<1>1. IInv => WaitingRunsAgree
  BY CoherentIsNow
  DEF IInv, CoherentNow, WaitingRunsAgree, QueueIsTheWaitingRuns, WaitingIsDurable
<1>2. QED
  BY <1>1, Invariance, PTL

-----------------------------------------------------------------------------
(* Limits, order and peers: what a step does besides keeping IInv.         *)

\* A step that starts nothing: runs only end, the queue only loses elements.
Quiet ==
    /\ failures' \in Nat /\ failures' >= failures
    /\ \A r \in Runs : entry'[r] = entry[r] \/ entry'[r] \in {"finished", "absent"}
    /\ \A r \in Range(queue') : r \in Range(queue) /\ released'[r] = released[r]
    /\ queue' = <<>> \/ current' = current

\* The boot takes up a run, parked.
Adopts(r) ==
    /\ failures' = failures /\ current' = current /\ batch' = batch /\ manifest' = manifest
    /\ RoomToAdopt(r) /\ entry' = [entry EXCEPT ![r] = "queued"]
    /\ queue' = Append(queue, r) /\ released' = [released EXCEPT ![r] = FALSE]
    /\ lease' = [lease EXCEPT ![r] = "self"] /\ r \notin Range(queue) /\ lease[r] # "peer"

\* Steps of handlers that reach no pump, of the boot, of the process and of others.
Bystander ==
    \/ \E r \in Runs : \/ Prepare(r) \/ Expire(r) \/ EnqueueFails(r) \/ CancelRunning(r)
                       \/ CancelQueued(r) \/ DeleteRun(r) \/ CloseRun(r)
                       \/ RecoverySkips(r) \/ RecoveryRejects(r) \/ PeerStep(r)
    \/ BatchEnds \/ Crash \/ UserShutdown \/ Exit
    \/ Boot \/ RecoveryBegins \/ RecoveryEnds
    \/ UpdateApplied \/ UpdateTick \/ UpdateNudge
    \/ UNCHANGED vars

\* Every step is one of the three.
LEMMA Cases ==
  ASSUME IInv, [Next]_vars
  PROVE  \/ Bystander
         \/ \E r \in Runs : RecoveryAdopts(r)
         \/ \E s \in Registry : Handled(s)
<1>1. ASSUME NEW r \in Runs, Enqueue(r, TRUE) \/ Enqueue(r, FALSE)
      PROVE  \E s \in Registry : Handled(s)
  BY <1>1, EnqueueOK
<1>2. CASE ReleaseQueue
  BY <1>2, ReleaseQueueOK
<1>3. ASSUME NEW ids \in Requests, ReorderQueue(ids)
      PROVE  \E s \in Registry : Handled(s)
  BY <1>3, ReorderQueueOK
<1>4. CASE BatchSettles
  BY <1>4, BatchSettlesOK
<1>5. QED
  BY <1>1, <1>2, <1>3, <1>4 DEF Next, Admission, Control, Recover, Bystander

\* The files that fail to be written are counted, never forgotten.
LEMMA FailsCounts ==
  ASSUME IInv, NEW n \in Nat, Fails(n)
  PROVE  failures' \in Nat /\ failures' >= failures /\ (n > 0 => failures' > failures)
BY LimitsAssumption DEF IInv, TypeOK, Fails

\* Bystanders start nothing.
LEMMA BystandersAreQuiet ==
  ASSUME IInv, Bystander
  PROVE  Quiet
<1>1. TypeOK /\ failures \in Nat
  BY LimitsAssumption DEF IInv, TypeOK
<1>2. ASSUME UNCHANGED memory, failures' \in Nat, failures' >= failures
      PROVE  Quiet
  BY <1>2 DEF Quiet, memory
<1>3. UNCHANGED budget => failures' \in Nat /\ failures' >= failures
  BY <1>1 DEF budget
<1>4. ASSUME NEW r \in Runs, Prepare(r) \/ Expire(r) \/ EnqueueFails(r)
      PROVE  Quiet
  <2>1. failures' \in Nat /\ failures' >= failures
    BY <1>3, <1>4, FailsCounts DEF Prepare, Expire, EnqueueFails
  <2>2. UNCHANGED <<entry, released, queue, current>>
    BY <1>4 DEF Prepare, Expire, EnqueueFails
  <2>3. QED
    BY <2>1, <2>2 DEF Quiet
<1>5. ASSUME NEW r \in Runs, CancelRunning(r) \/ CloseRun(r) \/ DeleteRun(r)
      PROVE  Quiet
  <2>1. failures' \in Nat /\ failures' >= failures
    BY <1>3, <1>5 DEF CancelRunning, CloseRun, DeleteRun
  <2>2. /\ UNCHANGED <<released, queue, current>>
        /\ entry' = entry \/ entry' = [entry EXCEPT ![r] = "absent"]
    BY <1>5 DEF CancelRunning, CloseRun, DeleteRun, memory
  <2>3. QED
    BY <1>1, <2>1, <2>2 DEF Quiet, TypeOK
<1>6. ASSUME NEW r \in Runs, CancelQueued(r)
      PROVE  Quiet
  <2> DEFINE rest == Pick(queue, {i \in DOMAIN queue : queue[i] # r})
             out == [Now EXCEPT !.queue = rest, !.aborted[r] = TRUE]
             u == [out EXCEPT !.failed = 1]
             v == [out EXCEPT !.entry[r] = "finished", !.manifest[r] = Manifest("ended"),
                              !.lease[r] = "none"]
  <2>1. \/ Leave(u)
        \/ \E k \in 0 .. Len(rest) : Leave(UpdatedManifests(v, k))
    BY <1>6 DEF CancelQueued
  <2>2. /\ u.queue = rest /\ u.entry = entry /\ u.released = released /\ u.current = current
        /\ u.failed = 1
        /\ v.queue = rest /\ v.entry = [entry EXCEPT ![r] = "finished"]
        /\ v.released = released /\ v.current = current /\ v.failed = 0
    BY DEF Now
  <2> HIDE DEF u, v
  <2>3. \A k : LET w == UpdatedManifests(v, k)
               IN /\ w.queue = rest /\ w.entry = v.entry /\ w.released = released
                  /\ w.current = current /\ w.failed \in {0, 1}
    BY <2>2 DEF UpdatedManifests, v, Now
  <2>4. /\ failures' \in Nat /\ failures' >= failures
        /\ queue' = rest /\ released' = released /\ current' = current
        /\ entry' = entry \/ entry' = [entry EXCEPT ![r] = "finished"]
    BY <2>1, <2>2, <2>3, FailsCounts DEF Leave
  <2>5. \A x \in Range(rest) : x \in Range(queue)
    <3> DEFINE I == {i \in DOMAIN queue : queue[i] # r}
    <3>1. queue \in Seq(Runs) /\ I \in SUBSET DOMAIN queue
      BY <1>1 DEF TypeOK
    <3>2. Range(rest) = {queue[i] : i \in I}
      BY <3>1, PickProperties
    <3>3. QED
      BY <3>2 DEF Range
  <2>6. QED
    BY <1>1, <2>4, <2>5 DEF Quiet, TypeOK
<1>7. ASSUME NEW r \in Runs, RecoverySkips(r) \/ RecoveryRejects(r) \/ PeerStep(r)
      PROVE  Quiet
  <2>1. failures' \in Nat /\ failures' >= failures
    <3>1. CASE RecoveryRejects(r)
      <4> DEFINE n == IF RoomToAdopt(r) THEN 1 ELSE 0
      <4>1. n \in Nat /\ n + 1 \in Nat
        OBVIOUS
      <4>2. Fails(n) \/ Fails(n + 1)
        BY <3>1 DEF RecoveryRejects
      <4>3. QED
        BY <4>1, <4>2, FailsCounts
    <3>2. CASE RecoverySkips(r) \/ PeerStep(r)
      BY <1>3, <3>2 DEF RecoverySkips, PeerStep, PeerAdopts, PeerStarts, PeerEnds, PeerSettles, PeerDies
    <3>3. QED
      BY <1>7, <3>1, <3>2
  <2>2. UNCHANGED memory
    BY <1>7 DEF RecoverySkips, RecoveryRejects, PeerStep, PeerAdopts, PeerStarts, PeerEnds,
                PeerSettles, PeerDies
  <2>3. QED
    BY <1>2, <2>1, <2>2
<1>8. CASE BatchEnds
  <2> DEFINE s == [Now EXCEPT !.lease[current] = "none"]
             a == [s EXCEPT !.manifest[current] = Manifest("ended")]
             b(m) == [s EXCEPT !.manifest[current] = m, !.failed = 1]
  <2>1. Leave(a) \/ \E m \in {manifest[current], Manifest("ended")} : Leave(b(m))
    BY <1>8 DEF BatchEnds
  <2>2. /\ a.queue = queue /\ a.entry = entry /\ a.released = released /\ a.current = current
        /\ a.failed = 0
        /\ \A m : /\ b(m).queue = queue /\ b(m).entry = entry /\ b(m).released = released
                  /\ b(m).current = current /\ b(m).failed = 1
    BY DEF Now
  <2> HIDE DEF a, b
  <2>3. /\ failures' \in Nat /\ failures' >= failures
        /\ queue' = queue /\ entry' = entry /\ released' = released /\ current' = current
    BY <2>1, <2>2, FailsCounts DEF Leave
  <2>4. QED
    BY <2>3 DEF Quiet
<1>9. CASE Crash \/ Exit
  <2>1. Range(<<>>) = {}
    BY DEF Range
  <2>2. QED
    BY <1>1, <1>9, <2>1 DEF Crash, Exit, Dies, Quiet
<1>10. CASE RecoveryEnds
  <2>1. failures' = failures \/ Fails(1)
    BY <1>10 DEF RecoveryEnds
  <2>2. UNCHANGED memory
    BY <1>10 DEF RecoveryEnds
  <2>3. QED
    BY <1>1, <1>2, <2>1, <2>2, FailsCounts
<1>11. CASE UserShutdown \/ Boot \/ RecoveryBegins \/ UpdateApplied \/ UpdateTick \/ UpdateNudge
  <2>1. UNCHANGED memory /\ failures' = failures
    BY <1>11 DEF UserShutdown, Boot, RecoveryBegins, UpdateApplied, UpdateTick, UpdateNudge, budget
  <2>2. QED
    BY <1>1, <1>2, <2>1
<1>12. CASE UNCHANGED vars
  BY <1>1, <1>2, <1>12 DEF vars, budget
<1>13. QED
  BY <1>4, <1>5, <1>6, <1>7, <1>8, <1>9, <1>10, <1>11, <1>12 DEF Bystander

\* What a recovery that adopts does, of all variables.
LEMMA AdoptionIsParked ==
  ASSUME IInv, NEW r \in Runs, RecoveryAdopts(r)
  PROVE  Adopts(r)
<1>1. r \notin Range(queue)
  BY CoherentIsNow DEF IInv, CoherentNow, RecoveryAdopts
<1>2. QED
  BY <1>1 DEF RecoveryAdopts, Adopts, Owned, budget


\* Sets of runs are finite; fewer runs weigh no more, and one run more adds its own weight.
LEMMA Weights ==
  ASSUME NEW S \in SUBSET Runs
  PROVE  /\ IsFiniteSet(S) /\ Cardinality(S) \in Nat /\ SumFunctionOnSet(AssetBytes, S) \in Nat
         /\ \A T \in SUBSET S : /\ Cardinality(T) <= Cardinality(S)
                                /\ SumFunctionOnSet(AssetBytes, T) <= SumFunctionOnSet(AssetBytes, S)
         /\ \A r \in Runs : /\ Cardinality(S \cup {r}) <= Cardinality(S) + 1
                            /\ SumFunctionOnSet(AssetBytes, S \cup {r})
                                 <= SumFunctionOnSet(AssetBytes, S) + AssetBytes[r]
<1>1. IsFiniteSet(S) /\ Cardinality(S) \in Nat
  BY RunsAssumption, FS_Subset, FS_CardinalityType
<1>2. \A r \in Runs : AssetBytes[r] \in Nat
  BY LimitsAssumption
<1>3. \A T \in SUBSET S : Cardinality(T) <= Cardinality(S)
  BY <1>1, FS_Subset
<1>4. /\ SumFunctionOnSet(AssetBytes, S) \in Nat
      /\ \A T \in SUBSET S : SumFunctionOnSet(AssetBytes, T) <= SumFunctionOnSet(AssetBytes, S)
  <2>1. \A x \in S : AssetBytes[x] \in Nat
    BY <1>2
  <2>2. QED
    BY <1>1, <2>1, SumProperties
<1>5. ASSUME NEW r \in Runs
      PROVE  /\ Cardinality(S \cup {r}) <= Cardinality(S) + 1
             /\ SumFunctionOnSet(AssetBytes, S \cup {r})
                  <= SumFunctionOnSet(AssetBytes, S) + AssetBytes[r]
  <2>1. Cardinality(S \cup {r}) <= Cardinality(S) + 1
    BY <1>1, FS_AddElement
  <2>2. \A y \in S \cup {r} : AssetBytes[y] \in Nat
    BY <1>2
  <2>3. QED
    BY <1>1, <2>1, <2>2, SumOneMore
<1>6. QED
  BY <1>1, <1>3, <1>4, <1>5

\* The registry in the hands of a handler is the registry after it, the started run included.
LEMMA HandledRuns ==
  ASSUME NEW s \in Registry, Handled(s), NEW r \in Runs, r \in Unfinished'
  PROVE  s.entry[r] \in {"queued", "running"}
<1>1. entry' = s.entry \/ \E x \in Runs : s.entry[x] = "queued" /\ entry' = [s.entry EXCEPT ![x] = "running"]
  <2>1. ASSUME NEW i \in DOMAIN s.queue
        PROVE  s.queue[i] \in Runs
    BY QueueElements DEF Registry
  <2>2. QED
    BY <2>1 DEF Handled, Turns, Breaks, Stands, Starts
<1>2. s.entry \in [Runs -> Statuses] /\ entry'[r] \in {"queued", "running"}
  BY DEF Registry, Unfinished
<1>3. QED
  BY <1>1, <1>2

\* Admission and recovery check the limits before they add a run, and nothing else adds one.
LEMMA LimitsStep ==
  ASSUME IInv, WithinLimits, [Next]_vars
  PROVE  WithinLimits'
<1> DEFINE Sum(S) == SumFunctionOnSet(AssetBytes, S)
<1>1. Unfinished \in SUBSET Runs /\ Unfinished' \in SUBSET Runs /\ Registered \in SUBSET Runs
  BY DEF Unfinished, Registered
<1>2. MaxQueuedRuns \in Nat /\ MaxQueuedBytes \in Nat /\ \A r \in Runs : AssetBytes[r] \in Nat
  BY LimitsAssumption
<1>3. /\ Cardinality(Unfinished) <= MaxQueuedRuns /\ Sum(Unfinished) <= MaxQueuedBytes
      /\ Cardinality(Unfinished) \in Nat /\ Sum(Unfinished) \in Nat
      /\ Cardinality(Unfinished') \in Nat /\ Sum(Unfinished') \in Nat
  BY <1>1, Weights DEF WithinLimits
<1>4. ASSUME NEW S \in SUBSET Runs, Cardinality(S) <= MaxQueuedRuns, Sum(S) <= MaxQueuedBytes,
             Unfinished' \subseteq S
      PROVE  WithinLimits'
  <2>1. /\ Cardinality(S) \in Nat /\ Sum(S) \in Nat
        /\ Cardinality(Unfinished') <= Cardinality(S) /\ Sum(Unfinished') <= Sum(S)
    BY <1>4, Weights
  <2>2. Cardinality(Unfinished') <= MaxQueuedRuns /\ Sum(Unfinished') <= MaxQueuedBytes
    BY <1>2, <1>3, <1>4, <2>1
  <2>3. QED
    BY <2>2 DEF WithinLimits
<1>5. ASSUME NEW S \in SUBSET Runs, NEW r \in Runs, Cardinality(S) < MaxQueuedRuns,
             Sum(S) + AssetBytes[r] <= MaxQueuedBytes, Unfinished' \subseteq S \cup {r}
      PROVE  WithinLimits'
  <2> DEFINE T == S \cup {r}
  <2>1. /\ Cardinality(S) \in Nat /\ Sum(S) \in Nat /\ AssetBytes[r] \in Nat
        /\ Cardinality(T) <= Cardinality(S) + 1 /\ Sum(T) <= Sum(S) + AssetBytes[r]
    BY <1>2, Weights
  <2>2. T \in SUBSET Runs
    OBVIOUS
  <2>3. Cardinality(T) \in Nat /\ Sum(T) \in Nat
    BY <2>2, Weights
  <2> HIDE DEF T, Sum
  <2>4. Cardinality(T) <= MaxQueuedRuns /\ Sum(T) <= MaxQueuedBytes
    BY <1>2, <1>5, <2>1, <2>3
  <2>5. Unfinished' \subseteq T
    BY <1>5 DEF T
  <2>6. QED
    BY <1>4, <2>2, <2>4, <2>5
<1>6. CASE Bystander
  <2>1. Unfinished' \subseteq Unfinished
    BY <1>6, BystandersAreQuiet DEF Quiet, Unfinished
  <2>2. QED
    BY <1>1, <1>3, <1>4, <2>1
<1>7. ASSUME NEW r \in Runs, RecoveryAdopts(r)
      PROVE  WithinLimits'
  <2>1. Adopts(r) /\ entry \in [Runs -> Statuses]
    BY <1>7, AdoptionIsParked DEF IInv, TypeOK
  <2>2. Unfinished' \subseteq Registered \cup {r}
    BY <2>1 DEF Adopts, Unfinished, Registered
  <2>3. Cardinality(Registered) < MaxQueuedRuns /\ Sum(Registered) + AssetBytes[r] <= MaxQueuedBytes
    BY <2>1 DEF Adopts, RoomToAdopt
  <2>4. QED
    BY <1>1, <1>5, <2>2, <2>3
<1>8. ASSUME NEW s \in Registry, Handled(s)
      PROVE  WithinLimits'
  <2>1. \A r \in Unfinished' : r \in Runs /\ s.entry[r] \in {"queued", "running"}
    BY <1>1, <1>8, HandledRuns
  <2>2. CASE \A r \in Runs : s.entry[r] \in {"queued", "running"} => r \in Unfinished
    <3>1. Unfinished' \subseteq Unfinished
      BY <2>1, <2>2
    <3>2. QED
      BY <1>1, <1>3, <1>4, <3>1
  <2>3. CASE \E x \in Runs : /\ Room(x)
                             /\ \A r \in Runs : s.entry[r] \in {"queued", "running"} => r \in Unfinished \cup {x}
    <3>1. PICK x \in Runs : /\ Room(x)
                            /\ \A r \in Runs : s.entry[r] \in {"queued", "running"} => r \in Unfinished \cup {x}
      BY <2>3
    <3>2. Unfinished' \subseteq Unfinished \cup {x}
      BY <2>1, <3>1
    <3>3. Cardinality(Unfinished) < MaxQueuedRuns /\ Sum(Unfinished) + AssetBytes[x] <= MaxQueuedBytes
      BY <3>1 DEF Room
    <3>4. QED
      BY <1>1, <1>5, <3>2, <3>3
  <2>4. QED
    BY <1>8, <2>2, <2>3 DEF Handled
<1>9. QED
  BY <1>6, <1>7, <1>8, Cases

\* The registry never holds more unfinished runs, or more bytes, than its limits, whatever is
\* admitted, recovered, cancelled or deleted.
THEOREM RegistryIsWithinLimits == Spec => []WithinLimits
<1>1. Init => WithinLimits
  <2> SUFFICES ASSUME Init
               PROVE  WithinLimits
    OBVIOUS
  <2>1. Unfinished = {}
    BY DEF Init, Unfinished
  <2>2. SumFunctionOnSet(AssetBytes, {}) = 0 /\ Cardinality({}) = 0
    BY FS_EmptySet, SumOfNothing
  <2>3. QED
    BY <2>1, <2>2, LimitsAssumption DEF WithinLimits
<1>2. QED
  BY <1>1, LimitsStep, Invariance, PTL DEF Spec


-----------------------------------------------------------------------------
(* The runner and the order of the queue.                                  *)

\* A pump leaves nothing idle, and a handler that breaks off has counted a failure.
LEMMA IdleStep ==
  ASSUME IInv, NeverIdleUnlessWriteFailed, [Next]_vars
  PROVE  NeverIdleUnlessWriteFailed'
<1> SUFFICES ASSUME failures' = 0, current' = NoRun, NEW r \in Range(queue')
             PROVE  ~released'[r]
  BY DEF NeverIdleUnlessWriteFailed, NeverIdleWithWork, Range
<1>1. failures \in Nat /\ queue \in Seq(Runs) /\ queue' \in Seq(Runs)
  <2>1. IInv'
    BY StepOK
  <2>2. QED
    BY <2>1, LimitsAssumption DEF IInv, TypeOK
<1>2. failures = 0 /\ current = NoRun => \A x \in Range(queue) : ~released[x]
  BY DEF NeverIdleUnlessWriteFailed, NeverIdleWithWork, Range
<1>3. CASE Bystander
  <2>1. Quiet
    BY <1>3, BystandersAreQuiet
  <2>2. failures = 0 /\ r \in Range(queue) /\ released'[r] = released[r]
    BY <1>1, <2>1 DEF Quiet
  <2>3. current = NoRun
    BY <1>1, <2>1, QueueElements DEF Quiet
  <2>4. QED
    BY <1>2, <2>2, <2>3
<1>4. ASSUME NEW x \in Runs, RecoveryAdopts(x)
      PROVE  ~released'[r]
  <2>1. Adopts(x) /\ released \in [Runs -> BOOLEAN]
    BY <1>4, AdoptionIsParked DEF IInv, TypeOK
  <2>2. failures = 0 /\ current = NoRun /\ released' = [released EXCEPT ![x] = FALSE]
    BY <2>1 DEF Adopts
  <2>3. r \in Range(queue) \/ r = x
    <3>1. Range(queue') = Range(queue) \cup {x}
      BY <1>1, <2>1, AppendedQueue DEF Adopts, IInv, Coherent, Now
    <3>2. QED
      BY <3>1
  <2>4. r \in Runs
    BY <1>1, QueueElements
  <2>5. QED
    BY <1>2, <2>1, <2>2, <2>3, <2>4
<1>5. ASSUME NEW s \in Registry, Handled(s)
      PROVE  ~released'[r]
  <2>1. ~Breaks(s)
    BY <1>1 DEF Breaks
  <2>2. Turns(s)
    BY <1>5, <2>1 DEF Handled
  <2>3. CASE Starts(s)
    <3>1. current' \in Runs
      BY <2>3, QueueElements DEF Starts, Registry
    <3>2. QED
      BY <3>1, RunsAssumption
  <2>4. CASE Stands(s)
    <3>1. queue' = s.queue /\ released' = s.released /\ s.current = NoRun
      BY <2>2, <2>4 DEF Turns, Stands
    <3>2. \A i \in DOMAIN s.queue : ~s.released[s.queue[i]]
      BY <2>4, <3>1 DEF Stands
    <3>3. QED
      BY <3>1, <3>2 DEF Range
  <2>5. QED
    BY <2>2, <2>3, <2>4 DEF Turns
<1>6. QED
  BY <1>3, <1>4, <1>5, Cases

\* A press of "Run queue" whose writes succeed leaves the runner busy when anything waits.
LEMMA PressStep ==
  ASSUME IInv, ReleaseQueue, queue # <<>>, failures' = failures
  PROVE  current' # NoRun
<1>1. queue \in Seq(Runs) /\ failures \in Nat
  BY LimitsAssumption DEF IInv, TypeOK
<1>2. PICK s \in Registry : /\ Handled(s) /\ s.queue = queue /\ s.current = current
                            /\ \A r \in Range(queue) : s.released[r]
  BY ReleaseQueueOK
<1>3. ~Breaks(s)
  BY <1>1 DEF Breaks
<1>4. Turns(s)
  BY <1>2, <1>3 DEF Handled
<1>5. CASE Starts(s)
  <2>1. current' \in Runs
    BY <1>5, QueueElements DEF Starts, Registry
  <2>2. QED
    BY <2>1, RunsAssumption
<1>6. CASE Stands(s)
  <2>1. 1 \in DOMAIN queue
    BY <1>1, EmptySeq, LenProperties
  <2>2. s.released[queue[1]]
    BY <1>2, <2>1 DEF Range
  <2>3. s.current # NoRun /\ current' = s.current
    BY <1>2, <1>6, <2>1, <2>2 DEF Stands
  <2>4. QED
    BY <2>3
<1>7. QED
  BY <1>4, <1>5, <1>6 DEF Turns

\* The runner is never idle beside released work before a write has failed, and after one the
\* next press that succeeds sets it going again.
THEOREM TheRunnerKeepsGoing == Spec => RunnerKeepsGoing
<1>1. Init => NeverIdleUnlessWriteFailed
  <2>1. DOMAIN <<>> = {}
    OBVIOUS
  <2>2. QED
    BY <2>1 DEF Init, NeverIdleUnlessWriteFailed, NeverIdleWithWork
<1>2. Spec => []NeverIdleUnlessWriteFailed
  BY <1>1, IdleStep, Invariance, PTL DEF Spec
<1>3. NeverIdleUnlessWriteFailed /\ NeverIdleUnlessWriteFailed' => [NeverIdleUnlessWriteFailed']_vars
  OBVIOUS
<1>4. IInv /\ [Next]_vars =>
        [queue # <<>> /\ failures' = failures /\ current' = NoRun => ~ReleaseQueue]_vars
  BY PressStep
<1>5. Spec => [][NeverIdleUnlessWriteFailed']_vars
  BY <1>2, <1>3, PTL
<1>6. Spec => PressStarts
  BY <1>4, Invariance, PTL DEF Spec, PressStarts
<1>7. QED
  BY <1>5, <1>6 DEF RunnerKeepsGoing


\* A step other than a reorder starts only a run ahead of which nothing is released.
LEMMA OrderStep ==
  ASSUME IInv, [Next]_vars, NEW r \in Runs, entry[r] # "running", entry'[r] = "running",
         ~\E ids \in Requests : ReorderQueue(ids),
         NEW k \in DOMAIN queue, \A j \in 1 .. k : queue[j] # r
  PROVE  ~released'[queue[k]]
<1>1. queue \in Seq(Runs) /\ entry \in [Runs -> Statuses]
  BY DEF IInv, TypeOK
<1>2. ~Bystander
  BY BystandersAreQuiet DEF Quiet
<1>3. \A x \in Runs : ~RecoveryAdopts(x)
  <2>1. \A x \in Runs : Adopts(x) => entry'[r] = entry[r] \/ entry'[r] = "queued"
    BY <1>1 DEF Adopts
  <2>2. QED
    BY <2>1, AdoptionIsParked
<1>4. PICK s \in Registry : Handled(s)
  BY <1>2, <1>3, Cases
<1>5. /\ \A i \in DOMAIN queue : i \in DOMAIN s.queue /\ s.queue[i] = queue[i]
      /\ s.entry[r] # "running"
  BY <1>4 DEF Handled
<1>6. Turns(s) /\ Starts(s)
  BY <1>4, <1>5 DEF Handled, Breaks, Turns, Stands
<1>7. PICK i \in DOMAIN s.queue :
        /\ \A j \in DOMAIN s.queue : j < i => ~s.released[s.queue[j]]
        /\ entry' = [s.entry EXCEPT ![s.queue[i]] = "running"]
  BY <1>6 DEF Starts
<1>8. r = s.queue[i]
  BY <1>5, <1>7 DEF Registry
<1>9. /\ i \in Nat /\ k \in Nat /\ i >= 1 /\ k >= 1 /\ k \in DOMAIN s.queue
      /\ DOMAIN queue = 1 .. Len(queue) /\ Len(queue) \in Nat /\ k <= Len(queue)
  <2>1. DOMAIN s.queue = 1 .. Len(s.queue) /\ DOMAIN queue = 1 .. Len(queue)
        /\ Len(s.queue) \in Nat /\ Len(queue) \in Nat
    BY <1>1, LenProperties DEF Registry
  <2>2. QED
    BY <1>5, <2>1
<1>10. k < i
  <2>1. i <= k => i \in DOMAIN queue /\ i \in 1 .. k
    BY <1>9
  <2>2. i <= k => queue[i] = r
    BY <1>5, <1>8, <2>1
  <2>3. QED
    BY <1>9, <2>1, <2>2
<1>11. ~s.released[s.queue[k]]
  BY <1>7, <1>9, <1>10
<1>12. released' = s.released
  BY <1>6 DEF Turns
<1>13. QED
  BY <1>5, <1>11, <1>12

\* The ids a reorder takes from its request: those that wait, each at its first mention.
LEMMA NamedRuns ==
  ASSUME NEW n \in Nat, NEW ids \in [1 .. n -> Runs], queue \in Seq(Runs)
  PROVE  LET I == {i \in DOMAIN ids : /\ ids[i] \in Range(queue)
                                      /\ \A j \in 1 .. i - 1 : ids[j] # ids[i]}
         IN /\ Named(ids) = Pick(ids, I) /\ I \in SUBSET DOMAIN ids /\ ids \in Seq(Runs)
            /\ Range(Named(ids)) = Range(ids) \cap Range(queue)
            /\ \A x \in Range(ids) \cap Range(queue) :
                 \E i \in I : ids[i] = x /\ \A j \in DOMAIN ids : ids[j] = x => i <= j
<1> DEFINE I == {i \in DOMAIN ids : /\ ids[i] \in Range(queue)
                                    /\ \A j \in 1 .. i - 1 : ids[j] # ids[i]}
<1>1. ids \in Seq(Runs) /\ DOMAIN ids = 1 .. n /\ I \in SUBSET DOMAIN ids
  OBVIOUS
<1>2. Named(ids) = Pick(ids, I) /\ Range(Named(ids)) = {ids[i] : i \in I}
  BY <1>1, PickProperties DEF Named
<1>3. ASSUME NEW x \in Range(ids) \cap Range(queue)
      PROVE  \E i \in I : ids[i] = x /\ \A j \in DOMAIN ids : ids[j] = x => i <= j
  <2> DEFINE P == {j \in DOMAIN ids : ids[j] = x}
  <2>1. P \in SUBSET Nat /\ P # {}
    BY <1>1 DEF Range
  <2>2. PICK i \in P : \A j \in P : i <= j
    BY <2>1, LeastNatural
  <2>3. \A j \in DOMAIN ids : ids[j] = x => i <= j
    BY <2>2
  <2>4. i \in I
    <3>1. i \in DOMAIN ids /\ ids[i] = x
      BY <2>2
    <3>2. \A j \in 1 .. i - 1 : j \in DOMAIN ids /\ ~(i <= j)
      BY <1>1, <3>1
    <3>3. QED
      BY <2>3, <3>1, <3>2
  <2>5. QED
    BY <2>2, <2>3, <2>4
<1>4. Range(Named(ids)) = Range(ids) \cap Range(queue)
  <2>1. \A x \in Range(Named(ids)) : x \in Range(ids) /\ x \in Range(queue)
    BY <1>2 DEF Range
  <2>2. \A x \in Range(ids) \cap Range(queue) : x \in Range(Named(ids))
    BY <1>2, <1>3
  <2>3. QED
    BY <2>1, <2>2
<1>5. QED
  BY <1>1, <1>2, <1>3, <1>4

\* Where the elements of a concatenation come from.
LEMMA JoinedPlaces ==
  ASSUME NEW p \in Seq(Runs), NEW q \in Seq(Runs)
  PROVE  /\ \A i \in DOMAIN p : i \in DOMAIN (p \o q) /\ (p \o q)[i] = p[i]
         /\ \A i \in DOMAIN q : Len(p) + i \in DOMAIN (p \o q) /\ (p \o q)[Len(p) + i] = q[i]
         /\ \A i \in DOMAIN p, j \in DOMAIN q : i < Len(p) + j
         /\ DOMAIN p = 1 .. Len(p) /\ DOMAIN q = 1 .. Len(q)
         /\ Len(p) \in Nat /\ Len(q) \in Nat
<1> DEFINE c == p \o q
<1>1. /\ c \in Seq(Runs) /\ Len(c) = Len(p) + Len(q)
      /\ Len(p) \in Nat /\ Len(q) \in Nat
      /\ \A i \in 1 .. Len(p) + Len(q) : c[i] = IF i <= Len(p) THEN p[i] ELSE q[i - Len(p)]
  BY ConcatProperties, LenProperties
<1>2. /\ DOMAIN c = 1 .. Len(p) + Len(q) /\ DOMAIN p = 1 .. Len(p)
      /\ DOMAIN q = 1 .. Len(q)
  BY <1>1, LenProperties
<1> HIDE DEF c
<1>3. \A i \in DOMAIN p : i \in DOMAIN c /\ c[i] = p[i]
  BY <1>1, <1>2
<1>4. ASSUME NEW i \in DOMAIN q
      PROVE  Len(p) + i \in DOMAIN c /\ c[Len(p) + i] = q[i]
  <2>1. /\ i \in Nat /\ Len(p) + i \in 1 .. Len(p) + Len(q) /\ ~(Len(p) + i <= Len(p))
        /\ Len(p) + i - Len(p) = i
    BY <1>1, <1>2
  <2>2. QED
    BY <1>1, <1>2, <2>1
<1>5. \A i \in DOMAIN p, j \in DOMAIN q : i < Len(p) + j
  BY <1>1, <1>2
<1>6. QED
  BY <1>1, <1>2, <1>3, <1>4, <1>5 DEF c

\* x comes before y somewhere in s.
Precedes(s, x, y) == \E i, j \in DOMAIN s : i < j /\ s[i] = x /\ s[j] = y

\* Whatever a request names, the waiting runs keep their number and, but for what it asks,
\* their order.
LEMMA ReorderIsOnlyThat ==
  ASSUME IInv, NEW ids \in Requests
  PROVE  LET new == Reordered(ids)
         IN /\ Range(new) = Range(queue) /\ Len(new) = Len(queue)
            /\ \A x, y \in Range(queue) :
                 /\ x \in Range(ids) /\ y \notin Range(ids) => Precedes(new, x, y)
                 /\ {x, y} \cap Range(ids) = {} /\ Precedes(queue, x, y) => Precedes(new, x, y)
                 /\ {x, y} \subseteq Range(ids) /\ Precedes(ids, x, y) /\ ~Precedes(ids, y, x)
                      => x = y \/ Precedes(new, x, y)
<1> DEFINE I == {i \in DOMAIN ids : /\ ids[i] \in Range(queue)
                                    /\ \A j \in 1 .. i - 1 : ids[j] # ids[i]}
           J == {i \in DOMAIN queue : queue[i] \notin Range(Named(ids))}
           named == Named(ids)
           rest == Pick(queue, J)
           new == Reordered(ids)
<1>1. queue \in Seq(Runs) /\ IsInjective(queue)
  BY DEF IInv, TypeOK, Coherent, Now
<1>2. PICK n \in Nat : ids \in [1 .. n -> Runs]
  BY LimitsAssumption DEF Requests
<1>3. /\ named = Pick(ids, I) /\ I \in SUBSET DOMAIN ids /\ ids \in Seq(Runs)
      /\ Range(named) = Range(ids) \cap Range(queue)
      /\ \A x \in Range(ids) \cap Range(queue) :
           \E i \in I : ids[i] = x /\ \A j \in DOMAIN ids : ids[j] = x => i <= j
  BY <1>1, <1>2, NamedRuns
<1>4. new \in Seq(Runs) /\ IsInjective(new) /\ Range(new) = Range(queue)
  BY <1>1, <1>2, ReorderedQueue
<1>5. Len(new) = Len(queue)
  BY <1>1, <1>4, LengthOfInjective
<1>6. J \in SUBSET DOMAIN queue /\ new = named \o rest
  BY DEF Reordered
<1>7. rest \in Seq(Runs) /\ named \in Seq(Runs)
  <2>1. rest \in Seq(Runs)
    BY <1>1, <1>6, PickProperties
  <2> HIDE DEF I, named
  <2>2. Pick(ids, I) \in Seq(Runs)
    BY <1>3, PickProperties
  <2>3. QED
    BY <1>3, <2>1, <2>2
<1>8. Range(rest) = {queue[i] : i \in J}
  BY <1>1, <1>6, PickProperties
<1>9. \A i \in DOMAIN queue : queue[i] \notin Range(ids) => i \in J
  BY <1>3
<1> HIDE DEF I, J, named, rest, new
<1>10. /\ \A i \in DOMAIN named : i \in DOMAIN new /\ new[i] = named[i]
       /\ \A i \in DOMAIN rest : Len(named) + i \in DOMAIN new /\ new[Len(named) + i] = rest[i]
       /\ \A i \in DOMAIN named, j \in DOMAIN rest : i < Len(named) + j
       /\ DOMAIN rest = 1 .. Len(rest) /\ DOMAIN named = 1 .. Len(named)
       /\ Len(named) \in Nat /\ Len(rest) \in Nat
  BY <1>6, <1>7, JoinedPlaces
<1>11. ASSUME NEW x \in Range(queue), NEW y \in Range(queue)
       PROVE  /\ x \in Range(ids) /\ y \notin Range(ids) => Precedes(new, x, y)
              /\ {x, y} \cap Range(ids) = {} /\ Precedes(queue, x, y) => Precedes(new, x, y)
              /\ {x, y} \subseteq Range(ids) /\ Precedes(ids, x, y) /\ ~Precedes(ids, y, x)
                   => x = y \/ Precedes(new, x, y)
  <2>1. ASSUME x \in Range(ids), y \notin Range(ids)
        PROVE  Precedes(new, x, y)
    <3>1. PICK i \in DOMAIN named : named[i] = x
      BY <1>3, <2>1 DEF Range
    <3>2. y \in Range(rest)
      BY <1>8, <1>9, <2>1 DEF Range
    <3>3. PICK j \in DOMAIN rest : rest[j] = y
      BY <3>2 DEF Range
    <3>4. QED
      BY <1>10, <3>1, <3>3 DEF Precedes
  <2>2. ASSUME {x, y} \cap Range(ids) = {}, Precedes(queue, x, y)
        PROVE  Precedes(new, x, y)
    <3>1. PICK i, j \in DOMAIN queue : i < j /\ queue[i] = x /\ queue[j] = y
      BY <2>2 DEF Precedes
    <3>2. i \in J /\ j \in J
      BY <1>9, <2>2, <3>1
    <3>3. PICK a, b \in DOMAIN rest : a < b /\ rest[a] = x /\ rest[b] = y
      BY <1>1, <1>6, <3>1, <3>2, PickKeepsOrder DEF rest
    <3>4. Len(named) + a < Len(named) + b
      BY <1>10, <3>3
    <3>5. QED
      BY <1>10, <3>3, <3>4 DEF Precedes
  <2>3. ASSUME {x, y} \subseteq Range(ids), Precedes(ids, x, y), ~Precedes(ids, y, x), x # y
        PROVE  Precedes(new, x, y)
    <3>1. PICK i \in I : ids[i] = x /\ \A k \in DOMAIN ids : ids[k] = x => i <= k
      BY <1>3, <2>3
    <3>2. PICK j \in I : ids[j] = y /\ \A k \in DOMAIN ids : ids[k] = y => j <= k
      BY <1>3, <2>3
    <3>3. i \in DOMAIN ids /\ j \in DOMAIN ids /\ DOMAIN ids \subseteq Nat
      BY <1>2, <1>3
    <3>4. i < j
      <4>1. ~(j < i)
        BY <2>3, <3>1, <3>2, <3>3 DEF Precedes
      <4>2. i # j
        BY <2>3, <3>1, <3>2
      <4>3. i \in Nat /\ j \in Nat
        BY <3>3
      <4>4. QED
        BY <4>1, <4>2, <4>3
    <3>5. PICK a, b \in DOMAIN named : a < b /\ named[a] = x /\ named[b] = y
      BY <1>3, <3>1, <3>2, <3>4, PickKeepsOrder
    <3>6. QED
      BY <1>10, <3>5 DEF Precedes
  <2>4. QED
    BY <2>1, <2>2, <2>3
<1>12. QED
  BY <1>4, <1>5, <1>11 DEF new

\* Runs start in the order of the queue, and a reorder only reorders.
THEOREM TheOrderIsKept == Spec => OrderIsKept
<1>1. IInv /\ [Next]_vars =>
        [\A r \in Runs :
           /\ entry[r] # "running" /\ entry'[r] = "running"
           /\ ~\E ids \in Requests : ReorderQueue(ids)
           => \A i \in DOMAIN queue :
                (\A j \in 1 .. i : queue[j] # r) => ~released'[queue[i]]]_vars
  BY OrderStep
<1>2. IInv => ReorderOnlyReorders
  BY ReorderIsOnlyThat DEF ReorderOnlyReorders, Precedes
<1>3. Spec => StartsInOrder
  BY <1>1, Invariance, PTL DEF Spec, StartsInOrder
<1>4. Spec => []ReorderOnlyReorders
  BY <1>2, Invariance, PTL
<1>5. QED
  BY <1>3, <1>4 DEF OrderIsKept


-----------------------------------------------------------------------------
(* Whose manifest is written.                                              *)

\* The batch in progress holds its lease, and none is rejected before a write has failed.
Going ==
    /\ batch = "going" => lease[current] = "self"
    /\ failures = 0 => batch # "rejected"

\* The current run is in the registry while its batch is under way.
LEMMA CurrentRuns ==
  ASSUME IInv, batch # "none"
  PROVE  current \in Runs /\ entry[current] = "running"
BY CoherentIsNow DEF IInv, TypeOK, CoherentNow, BatchFollowsCurrent

\* Steps that leave the batch, its run and the lease of that run alone keep Going.
LEMMA BatchGoesOn ==
  ASSUME Going, batch' = batch, current' = current, failures \in Nat, failures' \in Nat,
         failures' >= failures, batch = "going" => lease'[current] = "self"
  PROVE  Going'
BY DEF Going

\* Bystanders take no lease from a batch in progress.
LEMMA GoingBystander ==
  ASSUME IInv, Going, Bystander
  PROVE  Going'
<1>1. TypeOK /\ failures \in Nat /\ failures' \in Nat /\ failures' >= failures
  BY LimitsAssumption, BystandersAreQuiet DEF IInv, TypeOK, Quiet
<1>2. batch # "none" => current \in Runs /\ entry[current] = "running"
  BY CurrentRuns
<1>3. batch = "going" => lease[current] = "self"
  BY DEF Going
<1>4. ASSUME UNCHANGED <<batch, current, lease>>
      PROVE  Going'
  BY <1>1, <1>3, <1>4, BatchGoesOn
<1>5. ASSUME NEW r \in Runs, batch = "going" => r # current, UNCHANGED <<batch, current>>,
             \E x : lease' = [lease EXCEPT ![r] = x]
      PROVE  Going'
  <2>1. batch = "going" => lease'[current] = "self"
    BY <1>1, <1>2, <1>3, <1>5 DEF TypeOK
  <2>2. QED
    BY <1>1, <1>5, <2>1, BatchGoesOn
<1>6. ASSUME NEW r \in Runs,
             Prepare(r) \/ Expire(r) \/ EnqueueFails(r) \/ CancelRunning(r) \/ DeleteRun(r) \/ CloseRun(r)
      PROVE  Going'
  BY <1>4, <1>6 DEF Prepare, Expire, EnqueueFails, CancelRunning, DeleteRun, CloseRun, disk, memory
<1>7. ASSUME NEW r \in Runs, CancelQueued(r)
      PROVE  Going'
  <2> DEFINE rest == Pick(queue, {i \in DOMAIN queue : queue[i] # r})
             out == [Now EXCEPT !.queue = rest, !.aborted[r] = TRUE]
             u == [out EXCEPT !.failed = 1]
             v == [out EXCEPT !.entry[r] = "finished", !.manifest[r] = Manifest("ended"),
                              !.lease[r] = "none"]
  <2>1. /\ \/ Leave(u)
           \/ \E k \in 0 .. Len(rest) : Leave(UpdatedManifests(v, k))
        /\ batch' = batch /\ entry[r] = "queued"
    BY <1>7 DEF CancelQueued
  <2>2. /\ u.lease = lease /\ u.current = current
        /\ v.lease = [lease EXCEPT ![r] = "none"] /\ v.current = current
    BY DEF Now
  <2>3. \A k : LET w == UpdatedManifests(v, k) IN w.lease = v.lease /\ w.current = current
    BY <2>2 DEF UpdatedManifests, Now
  <2> HIDE DEF u, v
  <2>4. CASE Leave(u)
    BY <1>4, <2>1, <2>2, <2>4 DEF Leave
  <2>5. CASE \E k \in 0 .. Len(rest) : Leave(UpdatedManifests(v, k))
    <3>1. lease' = [lease EXCEPT ![r] = "none"] /\ current' = current
      BY <2>2, <2>3, <2>5 DEF Leave
    <3>2. batch = "going" => r # current
      BY <1>2, <2>1
    <3>3. QED
      BY <1>5, <2>1, <3>1, <3>2
  <2>6. QED
    BY <2>1, <2>4, <2>5
<1>8. ASSUME NEW r \in Runs, RecoverySkips(r) \/ RecoveryRejects(r)
      PROVE  Going'
  <2>1. /\ UNCHANGED <<batch, current>>
        /\ \/ UNCHANGED lease
           \/ entry[r] = "absent" /\ \E x : lease' = [lease EXCEPT ![r] = x]
    BY <1>8 DEF RecoverySkips, RecoveryRejects, memory
  <2>2. entry[r] = "absent" /\ batch = "going" => r # current
    BY <1>2
  <2>3. QED
    BY <1>4, <1>5, <2>1, <2>2
<1>9. ASSUME NEW r \in Runs, PeerStep(r)
      PROVE  Going'
  <2>1. /\ UNCHANGED <<batch, current>>
        /\ \/ UNCHANGED lease
           \/ lease[r] # "self" /\ \E x : lease' = [lease EXCEPT ![r] = x]
    BY <1>9 DEF PeerStep, PeerAdopts, PeerStarts, PeerEnds, PeerSettles, PeerDies, Owned, memory
  <2>2. lease[r] # "self" /\ batch = "going" => r # current
    BY <1>3
  <2>3. QED
    BY <1>4, <1>5, <2>1, <2>2
<1>10. CASE BatchEnds
  <2> DEFINE b(m) == [[Now EXCEPT !.lease[current] = "none"]
                        EXCEPT !.manifest[current] = m, !.failed = 1]
  <2>1. batch' = "resolved" \/ (batch' = "rejected" /\ \E m : Leave(b(m)))
    BY <1>10 DEF BatchEnds
  <2>2. \A m : b(m).failed = 1
    BY DEF Now
  <2> HIDE DEF b
  <2>3. batch' = "rejected" => failures' > failures
    BY <1>1, <2>1, <2>2, FailsCounts DEF Leave
  <2>4. QED
    BY <1>1, <2>1, <2>3 DEF Going
<1>11. CASE Crash \/ Exit
  BY <1>11 DEF Crash, Exit, Dies, Going
<1>12. CASE UserShutdown \/ Boot \/ RecoveryBegins \/ RecoveryEnds
            \/ UpdateApplied \/ UpdateTick \/ UpdateNudge \/ UNCHANGED vars
  BY <1>4, <1>12 DEF UserShutdown, Boot, RecoveryBegins, RecoveryEnds, UpdateApplied, UpdateTick,
                     UpdateNudge, vars, disk, memory
<1>13. QED
  BY <1>6, <1>7, <1>8, <1>9, <1>10, <1>11, <1>12 DEF Bystander

\* A start keeps its lease or counts a failure.
LEMMA GoingStep ==
  ASSUME IInv, Going, [Next]_vars
  PROVE  Going'
<1>1. failures \in Nat
  BY LimitsAssumption DEF IInv, TypeOK
<1>2. CASE Bystander
  BY <1>2, GoingBystander
<1>3. ASSUME NEW r \in Runs, RecoveryAdopts(r)
      PROVE  Going'
  <2>1. Adopts(r) /\ lease \in [Runs -> Leases]
    BY <1>3, AdoptionIsParked DEF IInv, TypeOK
  <2>2. batch = "going" => lease'[current] = "self"
    BY <2>1, CurrentRuns DEF Adopts, Going
  <2>3. QED
    BY <1>1, <2>1, <2>2, BatchGoesOn DEF Adopts
<1>4. ASSUME NEW s \in Registry, Handled(s)
      PROVE  Going'
  <2>1. s.failed \in Nat
    BY DEF Registry
  <2>2. s.current = current /\ batch = "going" => s.lease[current] = "self"
    BY <1>4, CurrentRuns DEF Handled, Going
  <2>3. CASE Starts(s) /\ Turns(s)
    BY <1>1, <2>1, <2>3 DEF Starts, Turns, Going
  <2>4. CASE Stands(s) /\ Turns(s)
    <3>1. failures' \in Nat /\ failures' >= failures /\ lease' = s.lease /\ current' = s.current
      BY <1>1, <2>1, <2>4 DEF Turns, Stands
    <3>2. CASE s.current = NoRun
      BY <2>4, <3>2 DEF Stands, Going
    <3>3. CASE s.current # NoRun
      <4>1. s.current = current /\ batch' = batch
        BY <1>4, <2>4, <3>3 DEF Handled, Stands
      <4>2. QED
        BY <1>1, <2>2, <3>1, <4>1, BatchGoesOn
    <3>4. QED
      BY <3>2, <3>3
  <2>5. CASE Breaks(s) /\ s.current = current
    BY <1>1, <2>2, <2>5, BatchGoesOn DEF Breaks
  <2>6. QED
    BY <1>4, <2>3, <2>4, <2>5 DEF Handled, Turns
<1>5. QED
  BY <1>2, <1>3, <1>4, Cases

\* A run that is not in the queue keeps its manifest when the positions are written.
LEMMA SavedElsewhere ==
  ASSUME NEW q \in Seq(Runs), NEW rel \in [Runs -> BOOLEAN], NEW m \in [Runs -> Manifests],
         NEW k \in 0 .. Len(q), NEW r \in Runs, r \notin Range(q)
  PROVE  Saved(q, rel, m, k)[r] = m[r]
<1> DEFINE d == Saved(q, rel, m, k)
<1>1. \A y \in Runs : \/ y \in Range(q) /\ d[y].status = "queued"
                      \/ d[y] = m[y]
  BY SavedManifests
<1> HIDE DEF d
<1>2. QED
  BY <1>1 DEF d

\* Nobody but the peer writes the manifest of a run the peer holds.
LEMMA OwnerStep ==
  ASSUME IInv, Going, [Next]_vars, failures' = 0
  PROVE  OwnerWrites
<1> SUFFICES ASSUME NEW r \in Runs, lease[r] = "peer", lease'[r] = "peer", ~PeerStarts(r)
             PROVE  manifest'[r] = manifest[r]
  BY DEF OwnerWrites
<1>1. /\ TypeOK /\ CoherentNow /\ failures \in Nat
      /\ \A x \in Runs : token[x] = "ready" => lease[x] # "peer"
  BY LimitsAssumption, CoherentIsNow DEF IInv, TypeOK, FreshTokens
<1>2. Owned(r) /\ r \notin Range(queue)
  BY <1>1 DEF Owned, CoherentNow
<1>3. CASE \E x \in Runs : \/ Prepare(x) \/ Expire(x) \/ EnqueueFails(x) \/ CancelRunning(x)
                           \/ CloseRun(x) \/ RecoverySkips(x)
  BY <1>3 DEF Prepare, Expire, EnqueueFails, CancelRunning, CloseRun, RecoverySkips, disk
<1>4. ASSUME NEW x \in Runs, DeleteRun(x) \/ RecoveryRejects(x)
      PROVE  manifest'[r] = manifest[r]
  <2>1. ~Owned(x) /\ (manifest' = manifest \/ \E m : manifest' = [manifest EXCEPT ![x] = m])
    BY <1>4 DEF DeleteRun, RecoveryRejects
  <2>2. QED
    BY <1>1, <1>2, <2>1 DEF TypeOK
<1>5. ASSUME NEW x \in Runs, PeerStep(x)
      PROVE  manifest'[r] = manifest[r]
  BY <1>1, <1>2, <1>5 DEF PeerStep, PeerAdopts, PeerStarts, PeerEnds, PeerSettles, PeerDies, TypeOK
<1>6. ASSUME NEW x \in Runs, CancelQueued(x)
      PROVE  manifest'[r] = manifest[r]
  <2> DEFINE I == {i \in DOMAIN queue : queue[i] # x}
             rest == Pick(queue, I)
             out == [Now EXCEPT !.queue = rest, !.aborted[x] = TRUE]
             u == [out EXCEPT !.failed = 1]
             v == [out EXCEPT !.entry[x] = "finished", !.manifest[x] = Manifest("ended"),
                              !.lease[x] = "none"]
  <2>1. /\ entry[x] = "queued"
        /\ \/ Leave(u)
           \/ \E k \in 0 .. Len(rest) : Leave(UpdatedManifests(v, k))
    BY <1>6 DEF CancelQueued
  <2>2. /\ rest \in Seq(Runs) /\ r \notin Range(rest)
    <3>1. queue \in Seq(Runs) /\ I \in SUBSET DOMAIN queue
      BY <1>1 DEF TypeOK
    <3>2. rest \in Seq(Runs) /\ Range(rest) = {queue[i] : i \in I}
      BY <3>1, PickProperties
    <3>3. QED
      BY <1>2, <3>2 DEF Range
  <2>3. x # r
    BY <1>1, <2>1 DEF CoherentNow
  <2>4. Manifest("ended") \in Manifests
    BY DEF Manifest, Manifests
  <2> HIDE DEF rest
  <2>5. /\ v.queue = rest /\ v.released = released
        /\ v.manifest = [manifest EXCEPT ![x] = Manifest("ended")]
    BY DEF Now
  <2>6. CASE Leave(u)
    BY <2>6 DEF Leave, Now
  <2>7. ASSUME NEW k \in 0 .. Len(rest), Leave(UpdatedManifests(v, k))
        PROVE  manifest'[r] = manifest[r]
    <3> DEFINE m == [manifest EXCEPT ![x] = Manifest("ended")]
               d == Saved(rest, released, m, k)
    <3>1. m \in [Runs -> Manifests] /\ released \in [Runs -> BOOLEAN] /\ m[r] = manifest[r]
      BY <1>1, <2>3, <2>4 DEF TypeOK
    <3> HIDE DEF m
    <3>2. d[r] = m[r]
      BY <2>2, <3>1, SavedElsewhere
    <3>3. manifest' = d
      <4>1. manifest' = UpdatedManifests(v, k).manifest
        BY <2>7 DEF Leave
      <4>2. UpdatedManifests(v, k).manifest = Saved(v.queue, v.released, v.manifest, k)
        BY DEF UpdatedManifests, Now
      <4>3. QED
        BY <2>5, <4>1, <4>2 DEF m
    <3>4. QED
      BY <3>1, <3>2, <3>3
  <2>8. QED
    BY <2>1, <2>6, <2>7
<1>7. CASE BatchEnds
  <2> DEFINE a(m, n) == [[Now EXCEPT !.lease[current] = "none"]
                           EXCEPT !.manifest[current] = m, !.failed = n]
             b(m) == [[Now EXCEPT !.lease[current] = "none"] EXCEPT !.manifest[current] = m]
  <2>1. PICK m : batch = "going" /\ (Leave(b(m)) \/ Leave(a(m, 1)))
    BY <1>7 DEF BatchEnds
  <2>2. /\ b(m).manifest = [manifest EXCEPT ![current] = m]
        /\ a(m, 1).manifest = [manifest EXCEPT ![current] = m]
    BY DEF Now
  <2>3. manifest' = [manifest EXCEPT ![current] = m]
    BY <2>1, <2>2 DEF Leave
  <2>4. current # r
    BY <2>1 DEF Going
  <2>5. QED
    BY <1>1, <2>3, <2>4 DEF TypeOK
<1>8. CASE RecoveryEnds
  <2>1. PICK k \in 0 .. Len(queue) :
          LET saved == Saved(queue, released, manifest, k)
          IN \E settled \in SUBSET (IF k = Len(queue) THEN Orphaned(saved) ELSE {}) :
               manifest' = [x \in Runs |-> IF x \in settled THEN Manifest("ended") ELSE saved[x]]
    BY <1>8 DEF RecoveryEnds
  <2> DEFINE saved == Saved(queue, released, manifest, k)
  <2>2. saved[r] = manifest[r]
    <3>1. queue \in Seq(Runs) /\ released \in [Runs -> BOOLEAN] /\ manifest \in [Runs -> Manifests]
      BY <1>1 DEF TypeOK
    <3>2. \A y \in Runs : \/ y \in Range(queue) /\ saved[y].status = "queued"
                          \/ saved[y] = manifest[y]
      BY <3>1, SavedManifests
    <3> HIDE DEF saved
    <3>3. QED
      BY <1>2, <3>2
  <2>3. r \notin Orphaned(saved)
    BY <1>2 DEF Orphaned
  <2> HIDE DEF saved
  <2>4. PICK settled \in SUBSET Orphaned(saved) :
          manifest' = [x \in Runs |-> IF x \in settled THEN Manifest("ended") ELSE saved[x]]
    BY <2>1 DEF saved
  <2>5. QED
    BY <2>2, <2>3, <2>4
<1>9. CASE \/ Crash \/ Exit \/ UserShutdown \/ Boot \/ RecoveryBegins
           \/ UpdateApplied \/ UpdateTick \/ UpdateNudge \/ UNCHANGED vars
  BY <1>9 DEF Crash, Exit, Dies, UserShutdown, Boot, RecoveryBegins, UpdateApplied, UpdateTick,
              UpdateNudge, vars, disk
<1>10. ASSUME NEW x \in Runs, RecoveryAdopts(x)
       PROVE  manifest'[r] = manifest[r]
  BY <1>10, AdoptionIsParked DEF Adopts
<1>11. ASSUME NEW s \in Registry, Handled(s)
       PROVE  manifest'[r] = manifest[r]
  <2>1. s.lease[r] = "peer"
    BY <1>11 DEF Handled
  <2>2. s.failed \in Nat
    BY DEF Registry
  <2>3. failures = 0
    <3>1. failures' >= failures
      BY <1>1, <1>11, <2>2 DEF Handled, Turns, Breaks
    <3>2. QED
      BY <1>1, <3>1
  <2>4. s.manifest[r] = manifest[r]
    BY <1>11, <2>3 DEF Handled, Going
  <2>5. manifest'[r] = s.manifest[r]
    BY <1>11, <2>1 DEF Handled, Turns, Breaks
  <2>6. QED
    BY <2>4, <2>5
<1>12. QED
  BY <1>3, <1>4, <1>5, <1>6, <1>7, <1>8, <1>9, <1>10, <1>11, Cases DEF Bystander

\* As long as no write has failed, only the process that holds a run's lease writes its
\* manifest: this daemon never writes into a run of its peer.
THEOREM ManifestsAreTheOwners == Spec => WritesUnderLease
<1>1. Init => Going
  BY DEF Init, Going
<1>2. Spec => []Going
  BY <1>1, GoingStep, Invariance, PTL DEF Spec
<1>3. IInv /\ Going /\ [Next]_vars => [failures' = 0 => OwnerWrites]_vars
  BY OwnerStep
<1>4. QED
  BY <1>2, <1>3, Invariance, PTL DEF Spec, WritesUnderLease

=============================================================================
