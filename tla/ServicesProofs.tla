--------------------------- MODULE ServicesProofs ---------------------------
(********************************************************************************)
(* Theorems about the parts of Services: harvests of pictures (Thumbnail),      *)
(* the list and the viewer (Gallery, Viewer), selections and their price        *)
(* (Inputs, CostEstimate), an agent's requests (Mcp), copies and retries        *)
(* (Recipe), the user's choices (Viewer, Sync) and catalog (ConfigStore), the   *)
(* store of runs (RunStore) and their download (Export).  A behaviour is one of *)
(* one part, so what holds of a part is shown from the steps of that part       *)
(* alone.                                                                       *)
(********************************************************************************)
EXTENDS Services, CollectionProofs

(*****************************************************************************)
(* Thumbnail: harvesting the pictures of a run                               *)
(*****************************************************************************)
Reports == [results : Nat, ended : BOOLEAN, thumb : BOOLEAN]
HarvestStages == {"none", "starting", "waiting", "rendering", "captured", "failed"}

HarvestTypeOK ==
    /\ manifests \in [PicturedRuns -> Reports \cup {None}]
    /\ memory \in [PicturedRuns -> Reports]
    /\ image \in [PicturedRuns -> BOOLEAN]
    /\ stage \in [PicturedRuns -> HarvestStages]
    /\ snapshot \in [PicturedRuns -> Reports]
    /\ waiters \in Seq(PicturedRuns)

\* A run that goes on is there, and its runner knows of all that was saved.
RunnerKnows ==
    \A r \in PicturedRuns :
      /\ ~memory[r].thumb
      /\ ~memory[r].ended => /\ manifests[r] # None /\ ~manifests[r].ended
                             /\ manifests[r].results <= memory[r].results

\* The picture is there before the manifest names it.
PicturesFirst ==
    \A r \in PicturedRuns \ revived :
      manifests[r] # None /\ (manifests[r].thumb \/ stage[r] = "captured") => image[r]

\* Who waits is in line once, and only while no slot is free.
InLine ==
    /\ \A i \in DOMAIN waiters : stage[waiters[i]] = "waiting"
    /\ \A i, j \in DOMAIN waiters : waiters[i] = waiters[j] => i = j
    /\ Cardinality(T!Rendering) <= MaxRenders
    /\ waiters # <<>> => Cardinality(T!Rendering) = MaxRenders

HarvestInv == HarvestTypeOK /\ RunnerKnows /\ PicturesFirst /\ InLine

\* The part counts as everybody does.
LEMMA HarvestCounts == \A A : T!Cardinality(A) = Cardinality(A)
BY DEF T!Cardinality, Cardinality

\* A report of a manifest, of its three parts.
LEMMA ReportIs ==
  ASSUME NEW n \in Nat, NEW e \in BOOLEAN, NEW t \in BOOLEAN
  PROVE  [results |-> n, ended |-> e, thumb |-> t] \in Reports
BY DEF Reports

\* A report with one result more is a report.
LEMMA OneMoreResult ==
  ASSUME NEW m \in Reports
  PROVE  [m EXCEPT !.results = m.results + 1] \in Reports
BY DEF Reports

\* Thumbnail: nothing is rendered at first, and the runner knows all that is saved.
LEMMA HarvestStarts == T!Init => HarvestInv
<1> SUFFICES ASSUME T!Init PROVE HarvestInv
  OBVIOUS
<1> USE ThumbnailAssumption
<1>1. manifests \in [PicturedRuns -> [results : 0 .. 1, ended : BOOLEAN, thumb : {FALSE}]]
  BY DEF T!Init
<1>2. \A r \in PicturedRuns : manifests[r] \in Reports /\ ~manifests[r].thumb
  <2> SUFFICES ASSUME NEW r \in PicturedRuns PROVE manifests[r] \in Reports /\ ~manifests[r].thumb
    OBVIOUS
  <2>1. manifests[r] \in [results : 0 .. 1, ended : BOOLEAN, thumb : {FALSE}]
    BY <1>1
  <2>2. /\ manifests[r].results \in Nat /\ manifests[r].ended \in BOOLEAN
        /\ manifests[r].thumb \in BOOLEAN /\ ~manifests[r].thumb
    <3>1. manifests[r].results \in 0 .. 1
      BY <2>1, Zenon
    <3>2. manifests[r].ended \in BOOLEAN /\ manifests[r].thumb \in {FALSE}
      BY <2>1, Zenon
    <3>3. manifests[r].results \in Nat
      BY <3>1
    <3>4. QED
      BY <3>2, <3>3, Zenon
  <2>3. manifests[r] = [results |-> manifests[r].results, ended |-> manifests[r].ended,
          thumb |-> manifests[r].thumb]
    BY <2>1
  <2>4. [results |-> manifests[r].results, ended |-> manifests[r].ended,
          thumb |-> manifests[r].thumb] \in Reports
    BY <2>2, ReportIs
  <2>5. QED
    BY <2>2, <2>3, <2>4
<1>3. HarvestTypeOK
  BY <1>1, <1>2 DEF T!Init, HarvestTypeOK, HarvestStages
<1>4. RunnerKnows /\ PicturesFirst
  BY <1>2 DEF T!Init, RunnerKnows, PicturesFirst, Reports
<1>5. T!Rendering = {}
  BY DEF T!Init, T!Rendering
<1>6. InLine
  BY <1>5, FS_EmptySet DEF T!Init, InLine
<1>7. QED
  BY <1>3, <1>4, <1>6 DEF HarvestInv

\* Every step of Thumbnail keeps the types of its variables.
LEMMA HarvestTypesStay ==
  ASSUME HarvestTypeOK, T!Next
  PROVE  HarvestTypeOK'
<1> USE DEF HarvestTypeOK, HarvestStages
<1>. PICK r \in PicturedRuns :
       \/ T!Asks(r) \/ T!TakesSlot(r) \/ T!FindsNoBrowser(r)
       \/ T!Captures(r) \/ T!RenderFails(r) \/ T!BrowserStops(r)
       \/ T!JobEnds(r) \/ T!Flushes(r) \/ T!Swept(r) \/ T!Deleted(r)
  BY DEF T!Next
<1>0. manifests[r] # None => manifests[r] \in Reports
  OBVIOUS
<1>r. T!Recorded(r) \in Reports
  BY <1>0 DEF T!Recorded, Reports
<1>1. CASE T!Asks(r)
  BY <1>1, <1>r, <1>0 DEF T!Asks
<1>2. CASE T!TakesSlot(r)
  <2>1. stage' \in [PicturedRuns -> HarvestStages] /\ waiters' \in Seq(PicturedRuns)
    BY <1>2 DEF T!TakesSlot
  <2>2. QED
    BY <1>2, <2>1 DEF T!TakesSlot
<1>3. CASE T!FindsNoBrowser(r)
  BY <1>3 DEF T!FindsNoBrowser
<1>4. CASE T!Captures(r)
  BY <1>4 DEF T!Captures
<1>5. CASE T!RenderFails(r)
  BY <1>5 DEF T!RenderFails
<1>6. CASE T!BrowserStops(r)
  <2>1. stage' \in [PicturedRuns -> HarvestStages]
    BY <1>6 DEF T!BrowserStops
  <2>2. waiters' \in Seq(PicturedRuns)
    BY <1>6 DEF T!BrowserStops
  <2>3. manifests' \in [PicturedRuns -> Reports \cup {None}]
    BY <1>6, <1>r DEF T!BrowserStops
  <2>4. QED
    BY <1>6, <2>1, <2>2, <2>3 DEF T!BrowserStops
<1>7. CASE T!JobEnds(r)
  <2>1. /\ memory[r] \in Reports
        /\ memory' = [memory EXCEPT ![r] = [memory[r] EXCEPT !.results = memory[r].results + 1]]
    BY <1>7 DEF T!JobEnds
  <2>2. [memory[r] EXCEPT !.results = memory[r].results + 1] \in Reports
    BY <2>1, OneMoreResult
  <2>3. memory'[r] = [memory[r] EXCEPT !.results = memory[r].results + 1]
    BY <2>1
  <2>4. memory' \in [PicturedRuns -> Reports]
    BY <2>1, <2>2
  <2>5. QED
    BY <1>7, <2>4 DEF T!JobEnds
<1>8. CASE T!Flushes(r)
  <2>. PICK over \in BOOLEAN : /\ memory' = [memory EXCEPT ![r].ended = over]
                              /\ manifests' = [manifests EXCEPT ![r] = memory'[r]]
    BY <1>8 DEF T!Flushes
  <2>1. memory'[r] \in Reports
    BY DEF Reports
  <2>2. QED
    BY <1>8, <2>1 DEF T!Flushes
<1>9. CASE T!Swept(r)
  BY <1>9 DEF T!Swept
<1>10. CASE T!Deleted(r)
  BY <1>10 DEF T!Deleted
<1>11. QED
  BY <1>1, <1>2, <1>3, <1>4, <1>5, <1>6, <1>7, <1>8, <1>9, <1>10

\* The slots.
LEMMA SlotsStay ==
  ASSUME HarvestTypeOK, InLine, T!Next
  PROVE  InLine'
<1> USE DEF HarvestTypeOK, HarvestStages
<1> DEFINE Now == T!Rendering
           Then == T!Rendering'
<1>. PICK r \in PicturedRuns :
       \/ T!Asks(r) \/ T!TakesSlot(r) \/ T!FindsNoBrowser(r)
       \/ T!Captures(r) \/ T!RenderFails(r) \/ T!BrowserStops(r)
       \/ T!JobEnds(r) \/ T!Flushes(r) \/ T!Swept(r) \/ T!Deleted(r)
  BY DEF T!Next
<1>f. /\ Now \subseteq PicturedRuns /\ IsFiniteSet(Now) /\ Cardinality(Now) \in Nat
      /\ Cardinality(Now) <= MaxRenders /\ MaxRenders \in Nat
  BY ThumbnailAssumption, FS_Subset, FS_CardinalityType DEF InLine, T!Rendering
<1>1. CASE UNCHANGED <<stage, waiters>>
  <2>1. Then = Now
    BY <1>1 DEF T!Rendering
  <2>2. QED
    BY <1>1, <2>1 DEF InLine
<1>2. CASE T!Asks(r)
  <2>1. Then = Now /\ waiters' = waiters
    BY <1>2 DEF T!Asks, T!Rendering
  <2>2. \A s \in PicturedRuns : stage[s] = "waiting" => stage'[s] = "waiting"
    BY <1>2 DEF T!Asks
  <2>3. QED
    BY <2>1, <2>2 DEF InLine
<1>3. CASE T!TakesSlot(r)
  <2>s. /\ stage[r] = "starting"
        /\ IF Cardinality(Now) < MaxRenders
             THEN stage' = [stage EXCEPT ![r] = "rendering"] /\ UNCHANGED waiters
             ELSE stage' = [stage EXCEPT ![r] = "waiting"] /\ waiters' = Append(waiters, r)
    BY <1>3, HarvestCounts DEF T!TakesSlot
  <2>1. CASE Cardinality(Now) < MaxRenders
    <3>1. waiters = <<>> /\ waiters' = <<>>
      BY <2>s, <2>1, <1>f DEF InLine
    <3>2. Then = Now \cup {r} /\ r \notin Now
      BY <2>s, <2>1 DEF T!Rendering
    <3>3. Cardinality(Then) = Cardinality(Now) + 1
      BY <1>f, <3>2, FS_AddElement
    <3>4. QED
      BY <3>1, <3>3, <2>1, <1>f DEF InLine
  <2>2. CASE ~(Cardinality(Now) < MaxRenders)
    <3>1. Then = Now /\ waiters' = Append(waiters, r) /\ stage' = [stage EXCEPT ![r] = "waiting"]
      BY <2>s, <2>2 DEF T!Rendering
    <3>2. Cardinality(Then) = MaxRenders
      BY <3>1, <2>2, <1>f
    <3>3. \A i \in DOMAIN waiters : waiters[i] # r
      BY <1>3 DEF T!TakesSlot, InLine
    <3>4. \A i \in DOMAIN waiters' : stage'[waiters'[i]] = "waiting"
      BY <3>1 DEF InLine
    <3>5. \A i, j \in DOMAIN waiters' : waiters'[i] = waiters'[j] => i = j
      BY <3>1, <3>3 DEF InLine
    <3>6. QED
      BY <3>2, <3>4, <3>5, <1>f DEF InLine
  <2>3. QED
    BY <2>1, <2>2
<1>4. CASE T!FindsNoBrowser(r)
  <2>1. Then = Now /\ waiters' = waiters
    BY <1>4 DEF T!FindsNoBrowser, T!Rendering
  <2>2. \A s \in PicturedRuns : stage[s] = "waiting" => stage'[s] = "waiting"
    BY <1>4 DEF T!FindsNoBrowser
  <2>3. QED
    BY <2>1, <2>2 DEF InLine
<1>5. CASE T!Captures(r) \/ T!RenderFails(r)
  <2>1. Then = Now /\ waiters' = waiters
    BY <1>5 DEF T!Captures, T!RenderFails, T!Rendering
  <2>2. \A s \in PicturedRuns : stage[s] = "waiting" => stage'[s] = "waiting"
    BY <1>5 DEF T!Captures, T!RenderFails
  <2>3. QED
    BY <2>1, <2>2 DEF InLine
<1>6. CASE T!BrowserStops(r)
  <2>1. r \in Now
    BY <1>6 DEF T!BrowserStops, T!Rendering
  <2>2. CASE waiters = <<>>
    <3>1. Then = Now \ {r} /\ waiters' = <<>>
      BY <1>6, <2>2 DEF T!BrowserStops, T!Rendering
    <3>2. Cardinality(Then) = Cardinality(Now) - 1
      BY <2>1, <3>1, <1>f, FS_RemoveElement
    <3>3. QED
      BY <3>1, <3>2, <1>f DEF InLine
  <2>3. CASE waiters # <<>>
    <3> DEFINE h == Head(waiters)
    <3>1. h \in PicturedRuns /\ stage[h] = "waiting" /\ h # r /\ h \notin Now /\ h = waiters[1]
      BY <2>1, <2>3 DEF InLine, T!Rendering
    <3>2. Then = (Now \ {r}) \cup {h}
      BY <1>6, <2>3, <3>1 DEF T!BrowserStops, T!Rendering
    <3>3. Cardinality(Now \ {r}) = Cardinality(Now) - 1 /\ IsFiniteSet(Now \ {r})
      BY <2>1, <1>f, FS_RemoveElement
    <3>4. Cardinality(Then) = Cardinality(Now)
      <4>1. h \notin Now \ {r}
        BY <3>1
      <4>2. Cardinality((Now \ {r}) \cup {h}) = Cardinality(Now \ {r}) + 1
        BY <4>1, <3>3, FS_AddElement
      <4>3. QED
        BY <3>2, <3>3, <4>2, <1>f
    <3>5. Cardinality(Then) = MaxRenders
      BY <3>4, <2>3 DEF InLine
    <3>6. waiters' = Tail(waiters)
      BY <1>6, <2>3 DEF T!BrowserStops
    <3>7. \A i \in DOMAIN waiters' : i + 1 \in DOMAIN waiters /\ waiters'[i] = waiters[i + 1]
            /\ i + 1 # 1
      BY <2>3, <3>6
    <3>8. \A i \in DOMAIN waiters' : waiters'[i] # h /\ waiters'[i] \in PicturedRuns
      BY <3>1, <3>7, <2>3 DEF InLine
    <3>9. \A s \in PicturedRuns : stage[s] = "waiting" /\ s # h => stage'[s] = "waiting"
      BY <1>6, <2>3 DEF T!BrowserStops
    <3>10. \A i \in DOMAIN waiters' : stage'[waiters'[i]] = "waiting"
      BY <3>7, <3>8, <3>9 DEF InLine
    <3>11. \A i, j \in DOMAIN waiters' : waiters'[i] = waiters'[j] => i = j
      <4> SUFFICES ASSUME NEW i \in DOMAIN waiters', NEW j \in DOMAIN waiters',
            waiters'[i] = waiters'[j]
                   PROVE  i = j
        OBVIOUS
      <4>1. i + 1 = j + 1
        BY <3>7 DEF InLine
      <4>2. i \in Nat /\ j \in Nat
        BY <3>6, <2>3
      <4>3. QED
        BY <4>1, <4>2
    <3>12. QED
      BY <3>5, <3>10, <3>11, <1>f DEF InLine
  <2>4. QED
    BY <2>2, <2>3
<1>7. QED
  BY <1>1, <1>2, <1>3, <1>4, <1>5, <1>6 DEF T!JobEnds, T!Flushes, T!Swept, T!Deleted

\* The runner of a run that goes on keeps knowing of every result that was saved.
LEMMA KnowledgeStays ==
  ASSUME HarvestTypeOK, RunnerKnows, T!Next
  PROVE  RunnerKnows'
<1>. PICK r \in PicturedRuns :
       \/ T!Asks(r) \/ T!TakesSlot(r) \/ T!FindsNoBrowser(r)
       \/ T!Captures(r) \/ T!RenderFails(r) \/ T!BrowserStops(r)
       \/ T!JobEnds(r) \/ T!Flushes(r) \/ T!Swept(r) \/ T!Deleted(r)
  BY DEF T!Next
<1>t. /\ memory \in [PicturedRuns -> Reports] /\ memory[r] \in Reports /\ snapshot[r] \in Reports
      /\ manifests \in [PicturedRuns -> Reports \cup {None}]
  BY DEF HarvestTypeOK
<1>1. CASE UNCHANGED <<manifests, memory>>
  BY <1>1 DEF RunnerKnows
<1>2. ASSUME manifests' = [manifests EXCEPT ![r] = T!Recorded(r)], UNCHANGED memory
      PROVE  RunnerKnows'
  <2>1. manifests[r] # None => T!Recorded(r) = [manifests[r] EXCEPT !.thumb = TRUE]
    BY DEF T!Recorded
  <2>2. T!Recorded(r) \in Reports
    BY <1>t DEF T!Recorded, Reports
  <2>3. QED
    BY <1>2, <1>t, <2>1, <2>2, ThumbnailAssumption DEF RunnerKnows, Reports
<1>3. CASE T!JobEnds(r)
  BY <1>3, <1>t DEF T!JobEnds, RunnerKnows, Reports
<1>4. CASE T!Flushes(r)
  <2>. PICK over \in BOOLEAN : /\ memory' = [memory EXCEPT ![r].ended = over]
                              /\ manifests' = [manifests EXCEPT ![r] = memory'[r]]
    BY <1>4 DEF T!Flushes
  <2>1. memory'[r] \in Reports /\ memory'[r].ended = over /\ memory'[r].results = memory[r].results
        /\ memory'[r].thumb = memory[r].thumb
    BY <1>t DEF Reports
  <2>2. QED
    BY <1>t, <2>1, ThumbnailAssumption DEF RunnerKnows, Reports
<1>5. CASE T!Deleted(r)
  BY <1>5, <1>t DEF T!Deleted, RunnerKnows
<1>6. QED
  BY <1>1, <1>2, <1>3, <1>4, <1>5 DEF T!Asks, T!TakesSlot, T!FindsNoBrowser, T!Captures,
     T!RenderFails, T!BrowserStops, T!Swept

\* The manifest names a picture only once the picture is there.
LEMMA PicturesStay ==
  ASSUME HarvestTypeOK, RunnerKnows, PicturesFirst, T!Next
  PROVE  PicturesFirst'
<1>. PICK r \in PicturedRuns :
       \/ T!Asks(r) \/ T!TakesSlot(r) \/ T!FindsNoBrowser(r)
       \/ T!Captures(r) \/ T!RenderFails(r) \/ T!BrowserStops(r)
       \/ T!JobEnds(r) \/ T!Flushes(r) \/ T!Swept(r) \/ T!Deleted(r)
  BY DEF T!Next
<1> USE DEF HarvestTypeOK, PicturesFirst
<1>1. CASE T!Asks(r)
  BY <1>1 DEF T!Asks
<1>2. CASE T!TakesSlot(r)
  BY <1>2 DEF T!TakesSlot
<1>3. CASE T!FindsNoBrowser(r)
  BY <1>3 DEF T!FindsNoBrowser
<1>4. CASE T!Captures(r)
  BY <1>4 DEF T!Captures
<1>5. CASE T!RenderFails(r)
  BY <1>5 DEF T!RenderFails
<1>6. CASE T!BrowserStops(r)
  BY <1>6 DEF T!BrowserStops
<1>7. CASE T!JobEnds(r)
  BY <1>7 DEF T!JobEnds
<1>8. CASE T!Flushes(r)
  BY <1>8 DEF T!Flushes, RunnerKnows, Reports
<1>9. CASE T!Swept(r)
  BY <1>9 DEF T!Swept
<1>10. CASE T!Deleted(r)
  BY <1>10 DEF T!Deleted
<1>11. QED
  BY <1>1, <1>2, <1>3, <1>4, <1>5, <1>6, <1>7, <1>8, <1>9, <1>10

\* A harvest writes back the manifest as it reads it then, so no result and no end is lost.
LEMMA NothingTakenBack ==
  ASSUME HarvestTypeOK, RunnerKnows, T!Next
  PROVE  \A r \in PicturedRuns : manifests[r] # None /\ manifests'[r] # None =>
           /\ manifests'[r].results >= manifests[r].results
           /\ manifests[r].ended => manifests'[r].ended
<1>. PICK r \in PicturedRuns :
       \/ T!Asks(r) \/ T!TakesSlot(r) \/ T!FindsNoBrowser(r)
       \/ T!Captures(r) \/ T!RenderFails(r) \/ T!BrowserStops(r)
       \/ T!JobEnds(r) \/ T!Flushes(r) \/ T!Swept(r) \/ T!Deleted(r)
  BY DEF T!Next
<1>t. /\ memory[r] \in Reports /\ \A s \in PicturedRuns : manifests[s] # None =>
           manifests[s] \in Reports
      /\ manifests \in [PicturedRuns -> Reports \cup {None}] /\ memory \in [PicturedRuns -> Reports]
  BY DEF HarvestTypeOK
<1>1. CASE UNCHANGED manifests
  BY <1>1, <1>t DEF Reports
<1>2. CASE manifests' = [manifests EXCEPT ![r] = T!Recorded(r)]
  BY <1>2, <1>t DEF T!Recorded, Reports
<1>3. CASE T!Flushes(r)
  BY <1>3, <1>t DEF T!Flushes, RunnerKnows, Reports
<1>4. CASE T!Deleted(r)
  BY <1>4, <1>t DEF T!Deleted, Reports
<1>5. QED
  BY <1>1, <1>2, <1>3, <1>4 DEF T!Asks, T!TakesSlot, T!FindsNoBrowser, T!Captures,
     T!RenderFails, T!BrowserStops, T!JobEnds, T!Swept

\* Every step of Thumbnail keeps what holds of it, and is a safe one.
LEMMA HarvestStep ==
  ASSUME HarvestInv, T!Next
  PROVE  HarvestInv' /\ T!HarvestsSafely
<1>1. HarvestInv'
  BY HarvestTypesStay, SlotsStay, KnowledgeStays, PicturesStay DEF HarvestInv
<1>2. T!HarvestsSafely
  <2>1. Cardinality(T!Rendering)' = Cardinality(T!Rendering')
          /\ T!Cardinality(T!Rendering') = Cardinality(T!Rendering')
    BY HarvestCounts
  <2>2. \A r \in PicturedRuns \ revived' : manifests'[r] # None => (manifests'[r].thumb =>
          image'[r])
    BY <1>1 DEF HarvestInv, PicturesFirst
  <2>3. T!Cardinality(T!Rendering') <= MaxRenders /\ (waiters' # <<>> =>
          T!Cardinality(T!Rendering') = MaxRenders)
    BY <1>1, <2>1 DEF HarvestInv, InLine
  <2>4. QED
    BY <2>2, <2>3, NothingTakenBack DEF HarvestInv, T!HarvestsSafely
<1>3. QED
  BY <1>1, <1>2

\* What holds of Thumbnail is about its variables only.
LEMMA HarvestRests ==
  ASSUME HarvestInv, UNCHANGED T!vars
  PROVE  HarvestInv'
<1>1. T!Rendering' = T!Rendering
  BY DEF T!Rendering, T!vars
<1>2. QED
  BY <1>1 DEF HarvestInv, HarvestTypeOK, RunnerKnows, PicturesFirst, InLine, T!vars

\* A harvest of pictures never takes back what a manifest says, and never has more browsers
\* (Thumbnail) than the code allows, however many runs and results there are.
THEOREM HarvestsAreSafe == Spec => HarvestIsSafe
<1> DEFINE Inv == part = "Thumbnail" => HarvestInv
<1>1. Init => Inv
  BY HarvestStarts DEF Init
<1>2. Inv /\ [Next]_vars => Inv' /\ [part = "Thumbnail" => T!HarvestsSafely]_vars
  <2> SUFFICES ASSUME Inv, [Next]_vars PROVE Inv' /\ [part = "Thumbnail" => T!HarvestsSafely]_vars
    OBVIOUS
  <2>1. CASE part = "Thumbnail" /\ T!Next /\ part' = part
    BY <2>1, HarvestStep
  <2>2. CASE part # "Thumbnail" /\ part' = part
    BY <2>2
  <2>3. CASE UNCHANGED vars
    BY <2>3, HarvestRests DEF vars, ofThumbnail, T!vars
  <2>4. QED
    BY <2>1, <2>2, <2>3 DEF Next, StaysBut
<1>3. QED
  BY <1>1, <1>2, PTL DEF Spec, HarvestIsSafe

(*****************************************************************************)
(* Gallery and Viewer: the list of runs, and the run that is open            *)
(*****************************************************************************)
\* The fields of a request for a page, and of a deletion.
IsPage(p) ==
    p \in [kind : {p.kind}, cursor : {p.cursor}, late : {p.late},
           answered : {p.answered}, runs : {p.runs}, next : {p.next}]
IsDeletion(d) ==
    d \in [ids : {d.ids}, before : {d.before}, answered : BOOLEAN, deleted : {d.deleted},
      runs : {d.runs}]

\* A run is known once it is made.
Made(rs) == ~made => Last \notin rs

\* What a page or a deletion has been told, and what the list shows, are runs there were.
KnownRuns ==
    /\ made \in BOOLEAN
    /\ Made(disk) /\ Made(rows) /\ Made(confirmed)
    /\ \A p \in pages : IsPage(p) /\ Made(p.runs)

\* A deletion hides its own runs, those that are there among them come back with its answer, and
\* no run that was deleted is there again.
HidesItsOwn(d) ==
    /\ IsDeletion(d)
    /\ d.ids \subseteq d.before /\ d.ids \subseteq deleting /\ d.deleted \subseteq d.ids
    /\ d.ids # {} /\ Made(d.ids) /\ Made(d.runs)
    /\ d.ids \cap confirmed \subseteq brought
    /\ d.deleted \cap disk = {}
    /\ d.answered => d.ids \cap disk \subseteq d.runs

\* Every deletion that is under way hides its own runs, and brings back those that are there.
DeletionsOK ==
    /\ \A d \in deletions : HidesItsOwn(d)
    /\ \A d, e \in deletions : d # e => d.ids \cap e.ids = {}
    /\ \A r \in deleting : \E d \in deletions : r \in d.ids

GalleryInv ==
    /\ KnownRuns /\ DeletionsOK
    /\ rows \cap confirmed \subseteq brought
    /\ confirmed \cap disk = {}

\* Gallery: nothing is asked, nothing is hidden and nothing deleted at first.
LEMMA GalleryStarts == G!Init => GalleryInv
<1> SUFFICES ASSUME G!Init PROVE GalleryInv
  OBVIOUS
<1>1. Last \notin 1 .. (Last - 1)
  BY GalleryAssumption
<1>2. QED
  BY <1>1 DEF G!Init, GalleryInv, KnownRuns, DeletionsOK, Made

\* A new request, and one that is overtaken or read, are requests.
LEMMA PageKept ==
  ASSUME NEW q, IsPage(q), NEW l, NEW m, NEW n
  PROVE  /\ IsPage([q EXCEPT !.late = l]) /\ [q EXCEPT !.late = l].runs = q.runs
         /\ IsPage([q EXCEPT !.answered = l, !.runs = m, !.next = n])
         /\ [q EXCEPT !.answered = l, !.runs = m, !.next = n].runs = m
BY DEF IsPage

\* A request for a page has the fields of one, and no runs before it is answered.
LEMMA PageMade ==
  ASSUME NEW kind, NEW cursor
  PROVE  IsPage(G!Request(kind, cursor)) /\ G!Request(kind, cursor).runs = {}
BY DEF IsPage, G!Request

\* A refresh turns the requests before it late and changes nothing else of them.
LEMMA OvertakenKnown ==
  ASSUME GalleryInv
  PROVE  \A p \in G!Overtaken : IsPage(p) /\ Made(p.runs)
<1> SUFFICES ASSUME NEW p \in G!Overtaken PROVE IsPage(p) /\ Made(p.runs)
  OBVIOUS
<1>1. PICK q \in pages : p = [q EXCEPT !.late = q.kind = "refresh"]
  BY DEF G!Overtaken
<1>2. IsPage(q) /\ Made(q.runs)
  BY DEF GalleryInv, KnownRuns
<1>3. IsPage(p) /\ p.runs = q.runs
  BY <1>1, <1>2, PageKept
<1>4. QED
  BY <1>2, <1>3

\* What the deletions and the rows say stays so while neither changes.
LEMMA OnlyPagesChange ==
  ASSUME GalleryInv, UNCHANGED <<disk, made, rows, deleting, confirmed, deletions, brought>>,
         \A p \in pages' : IsPage(p) /\ Made(p.runs)
  PROVE  GalleryInv' /\ G!RowsStayReal
BY DEF GalleryInv, KnownRuns, DeletionsOK, HidesItsOwn, G!RowsStayReal, Made

\* Asking for a page, of either kind, brings no row back.
LEMMA RequestsStayKnown ==
  ASSUME GalleryInv, G!Refreshes \/ G!AsksMore
  PROVE  GalleryInv' /\ G!RowsStayReal
<1>1. UNCHANGED <<disk, made, rows, deleting, confirmed, deletions, brought>>
  BY DEF G!Refreshes, G!AsksMore
<1>2. \A p \in pages : IsPage(p) /\ Made(p.runs)
  BY DEF GalleryInv, KnownRuns
<1>3. \A kind, cursor : IsPage(G!Request(kind, cursor)) /\ Made(G!Request(kind, cursor).runs)
  BY PageMade DEF Made
<1>4. \A p \in pages' : IsPage(p) /\ Made(p.runs)
  <2>1. CASE G!Refreshes
    <3>1. pages' = G!Overtaken \cup {G!Request("refresh", 0)}
      BY <2>1 DEF G!Refreshes
    <3>2. QED
      BY <3>1, <1>3, OvertakenKnown
  <2>2. CASE G!AsksMore
    <3>1. pages' = pages \cup {G!Request("more", nextCursor)}
      BY <2>2 DEF G!AsksMore
    <3>2. QED
      BY <3>1, <1>2, <1>3
  <2>3. QED
    BY <2>1, <2>2
<1>5. QED
  BY <1>1, <1>4, OnlyPagesChange

\* A page that is read, arrives or fails brings no row back.
LEMMA PagesStayKnown ==
  ASSUME GalleryInv, NEW p \in pages, G!ReadsPage(p) \/ G!PageArrives(p) \/ G!PageFails(p)
  PROVE  GalleryInv' /\ G!RowsStayReal
<1>1. G!Page(p.cursor) \subseteq disk
  BY DEF G!Page, G!Below
<1>2. UNCHANGED <<disk, made, deleting, confirmed, deletions>>
  BY DEF G!ReadsPage, G!PageArrives, G!PageFails
<1>3. \A q \in pages : IsPage(q) /\ Made(q.runs)
  BY DEF GalleryInv, KnownRuns
<1>4. CASE G!ReadsPage(p)
  <2> DEFINE q == [p EXCEPT !.answered = TRUE, !.runs = G!Page(p.cursor),
        !.next = G!Cursor(p.cursor)]
  <2>1. pages' = (pages \ {p}) \cup {q} /\ UNCHANGED <<rows, brought>>
    BY <1>4 DEF G!ReadsPage
  <2>2. IsPage(q) /\ q.runs = G!Page(p.cursor)
    BY <1>3 DEF IsPage
  <2>3. Made(q.runs)
    BY <1>1, <2>2 DEF GalleryInv, KnownRuns, Made
  <2> HIDE DEF q
  <2>4. QED
    BY <1>2, <1>3, <2>1, <2>2, <2>3, OnlyPagesChange
<1>5. CASE G!PageFails(p)
  BY <1>2, <1>3, <1>5, OnlyPagesChange DEF G!PageFails
<1>6. CASE G!PageArrives(p)
  <2>1. pages' \subseteq pages
    BY <1>6 DEF G!PageArrives
  <2>2. /\ rows' \subseteq rows \cup p.runs /\ brought \subseteq brought'
        /\ rows' \cap confirmed \subseteq brought'
    BY <1>6 DEF G!PageArrives, GalleryInv
  <2>3. Made(rows')
    BY <1>3, <2>2 DEF GalleryInv, KnownRuns, Made
  <2>4. \A d \in deletions : HidesItsOwn(d)'
    BY <1>2, <2>2 DEF GalleryInv, DeletionsOK, HidesItsOwn, Made
  <2>5. QED
    BY <1>2, <1>3, <2>1, <2>2, <2>3, <2>4
       DEF GalleryInv, KnownRuns, DeletionsOK, G!RowsStayReal, Made
<1>7. QED
  BY <1>4, <1>5, <1>6

\* A deletion begins: the rows it hides are its own, and no deletion has them already.
LEMMA DeletionBegins ==
  ASSUME GalleryInv, NEW some \in SUBSET rows, G!Deletes(some)
  PROVE  GalleryInv' /\ G!RowsStayReal
<1>a. PICK ids : ids = some \ deleting
  OBVIOUS
<1>b. PICK d : d = [ids |-> ids, before |-> rows, answered |-> FALSE, deleted |-> {}, runs |-> {}]
  OBVIOUS
<1>1. /\ ids # {} /\ ids \subseteq rows /\ rows' = rows \ ids /\ deleting' = deleting \cup ids
      /\ pages' = G!Overtaken /\ deletions' = deletions \cup {d}
      /\ UNCHANGED <<disk, made, confirmed, brought>>
  BY <1>a, <1>b DEF G!Deletes
<1>2. \A p \in pages' : IsPage(p) /\ Made(p.runs)
  BY <1>1, OvertakenKnown
<1>3. /\ d.ids = ids /\ d.before = rows /\ d.answered = FALSE /\ d.deleted = {} /\ d.runs = {}
      /\ IsDeletion(d)
  BY <1>b DEF IsDeletion
<1>4. \A e \in deletions : e.ids \cap ids = {}
  BY <1>a DEF GalleryInv, DeletionsOK, HidesItsOwn
<1>5. HidesItsOwn(d)'
  <2>1. d.ids \cap confirmed \subseteq brought /\ Made(d.ids) /\ Made(d.runs)
    BY <1>1, <1>3 DEF GalleryInv, KnownRuns, Made
  <2>2. QED
    BY <1>1, <1>3, <2>1 DEF HidesItsOwn, Made
<1>6. \A e \in deletions : HidesItsOwn(e)'
  BY <1>1 DEF GalleryInv, DeletionsOK, HidesItsOwn, Made
<1>7. \A e, f \in deletions' : e # f => e.ids \cap f.ids = {}
  <2>1. \A e, f \in deletions : e # f => e.ids \cap f.ids = {}
    BY DEF GalleryInv, DeletionsOK
  <2>2. QED
    BY <1>1, <1>3, <1>4, <2>1
<1>8. \A r \in deleting' : \E e \in deletions' : r \in e.ids
  BY <1>1, <1>3 DEF GalleryInv, DeletionsOK
<1>9. DeletionsOK'
  BY <1>1, <1>5, <1>6, <1>7, <1>8 DEF DeletionsOK
<1>10. KnownRuns'
  BY <1>1, <1>2 DEF GalleryInv, KnownRuns, Made
<1>11. QED
  BY <1>1, <1>9, <1>10 DEF GalleryInv, G!RowsStayReal

\* The daemon deletes what it finds, and answers with the runs that are still there.
LEMMA DaemonsDeletion ==
  ASSUME GalleryInv, NEW d \in deletions, G!DaemonDeletes(d)
  PROVE  GalleryInv' /\ G!RowsStayReal
<1>a. PICK gone : gone = (d.ids \cap disk) \ {going}
  OBVIOUS
<1>b. PICK e : e = [d EXCEPT !.answered = TRUE, !.deleted = gone, !.runs = disk \ gone]
  OBVIOUS
<1>1. /\ disk' = disk \ gone /\ deletions' = (deletions \ {d}) \cup {e}
      /\ UNCHANGED <<made, rows, deleting, confirmed, pages, brought>>
  BY <1>a, <1>b DEF G!DaemonDeletes
<1>2. HidesItsOwn(d)
  BY DEF GalleryInv, DeletionsOK
<1>3. /\ IsDeletion(e) /\ e.ids = d.ids /\ e.before = d.before /\ e.deleted = gone
      /\ e.runs = disk \ gone /\ e.answered = TRUE
  BY <1>2, <1>b DEF HidesItsOwn, IsDeletion
<1>4. gone \subseteq d.ids
  BY <1>a
<1>5. HidesItsOwn(e)'
  <2>1. Made(e.runs)
    BY <1>3 DEF GalleryInv, KnownRuns, Made
  <2>2. QED
    BY <1>1, <1>2, <1>3, <1>4, <2>1 DEF HidesItsOwn, Made
<1>6. \A f \in deletions : HidesItsOwn(f)'
  BY <1>1 DEF GalleryInv, DeletionsOK, HidesItsOwn, Made
<1>7. \A f, g \in deletions' : f # g => f.ids \cap g.ids = {}
  <2>1. \A f, g \in deletions : f # g => f.ids \cap g.ids = {}
    BY DEF GalleryInv, DeletionsOK
  <2>2. QED
    BY <1>1, <1>3, <2>1
<1>8. \A r \in deleting : \E f \in deletions' : r \in f.ids
  BY <1>1, <1>3 DEF GalleryInv, DeletionsOK
<1>9. DeletionsOK'
  BY <1>1, <1>5, <1>6, <1>7, <1>8 DEF DeletionsOK
<1>10. QED
  BY <1>1, <1>9 DEF GalleryInv, KnownRuns, G!RowsStayReal, Made

\* A deletion ends or fails, and shows the rows again that were not deleted.
LEMMA DeletionStops ==
  ASSUME GalleryInv, NEW d \in deletions, G!DeletionEnds(d) \/ G!DeletionFails(d)
  PROVE  GalleryInv' /\ G!RowsStayReal
<1>1. \A p \in pages' : IsPage(p) /\ Made(p.runs)
  BY OvertakenKnown DEF G!DeletionEnds, G!DeletionFails
<1>2. /\ deletions' = deletions \ {d} /\ deleting' = deleting \ d.ids
      /\ UNCHANGED <<disk, made, brought>>
  BY DEF G!DeletionEnds, G!DeletionFails
<1>3. HidesItsOwn(d) /\ \A e \in deletions \ {d} : HidesItsOwn(e) /\ d.ids \cap e.ids = {}
  BY DEF GalleryInv, DeletionsOK
<1>4. /\ \A e, f \in deletions' : e # f => e.ids \cap f.ids = {}
      /\ \A r \in deleting' : \E e \in deletions' : r \in e.ids
  BY <1>2 DEF GalleryInv, DeletionsOK
<1>5. confirmed' \subseteq confirmed \cup d.deleted
  BY DEF G!DeletionEnds, G!DeletionFails
<1>6. \A e \in deletions' : HidesItsOwn(e)'
  <2> SUFFICES ASSUME NEW e \in deletions \ {d} PROVE HidesItsOwn(e)'
    BY <1>2
  <2>1. e.ids \cap confirmed' \subseteq brought
    BY <1>3, <1>5 DEF HidesItsOwn
  <2>2. e.ids \subseteq deleting'
    BY <1>2, <1>3 DEF HidesItsOwn
  <2>3. HidesItsOwn(e)
    BY <1>3
  <2>4. QED
    BY <1>2, <2>1, <2>2, <2>3 DEF HidesItsOwn, Made
<1>7. DeletionsOK'
  BY <1>4, <1>6 DEF DeletionsOK
<1>8. CASE G!DeletionEnds(d)
  <2>1. /\ d.answered /\ confirmed' = confirmed \cup d.deleted
        /\ rows' = G!Restored(d) \cup (rows \ d.before)
    BY <1>8 DEF G!DeletionEnds
  <2>2. rows' \cap confirmed' \subseteq brought'
    BY <1>2, <1>3, <2>1 DEF GalleryInv, G!Restored, HidesItsOwn
  <2>3. \A r \in d.ids : r \in disk => r \in rows'
    BY <1>3, <2>1 DEF GalleryInv, HidesItsOwn, G!Restored
  <2>4. Made(rows') /\ Made(confirmed') /\ confirmed' \cap disk = {}
    BY <1>3, <2>1 DEF GalleryInv, KnownRuns, HidesItsOwn, Made, G!Restored
  <2>5. KnownRuns'
    BY <1>1, <1>2, <2>4 DEF GalleryInv, KnownRuns, Made
  <2>6. QED
    BY <1>2, <1>7, <2>2, <2>3, <2>4, <2>5 DEF GalleryInv, G!RowsStayReal
<1>9. CASE G!DeletionFails(d)
  <2>1. rows' = rows \cup (d.before \cap d.ids) /\ confirmed' = confirmed
    BY <1>9 DEF G!DeletionFails
  <2>2. rows' \cap confirmed' \subseteq brought' /\ d.ids \subseteq rows'
    BY <1>2, <1>3, <2>1 DEF GalleryInv, HidesItsOwn
  <2>3. Made(rows')
    BY <1>3, <2>1 DEF GalleryInv, KnownRuns, HidesItsOwn, Made
  <2>4. KnownRuns'
    BY <1>1, <1>2, <2>1, <2>3 DEF GalleryInv, KnownRuns, Made
  <2>5. QED
    BY <1>2, <1>7, <2>1, <2>2, <2>4 DEF GalleryInv, G!RowsStayReal
<1>10. QED
  BY <1>8, <1>9

\* Every step of Gallery keeps what holds of it, and brings no row of a deleted run back.
LEMMA GalleryStep ==
  ASSUME GalleryInv, G!Next
  PROVE  GalleryInv' /\ G!RowsStayReal
<1>1. CASE G!RunEnds
  BY <1>1, OnlyPagesChange DEF G!RunEnds, GalleryInv, KnownRuns
<1>2. CASE G!RunIsMade
  <2>1. /\ ~made /\ made' = TRUE /\ disk' = disk \cup {Last}
        /\ UNCHANGED <<rows, deleting, confirmed, pages, deletions, brought>>
    BY <1>2 DEF G!RunIsMade
  <2>2. Last \notin confirmed /\ \A d \in deletions : Last \notin d.ids
    BY <2>1 DEF GalleryInv, KnownRuns, DeletionsOK, HidesItsOwn, Made
  <2>3. \A d \in deletions : HidesItsOwn(d)'
    BY <2>1, <2>2 DEF GalleryInv, DeletionsOK, HidesItsOwn, Made
  <2>4. KnownRuns' /\ DeletionsOK'
    BY <2>1, <2>3 DEF GalleryInv, KnownRuns, DeletionsOK, Made
  <2>5. QED
    BY <2>1, <2>2, <2>4 DEF GalleryInv, G!RowsStayReal
<1>3. CASE \E p \in pages : G!ReadsPage(p) \/ G!PageArrives(p) \/ G!PageFails(p)
  BY <1>3, PagesStayKnown
<1>4. CASE \E d \in deletions : G!DaemonDeletes(d) \/ G!DeletionEnds(d) \/ G!DeletionFails(d)
  BY <1>4, DaemonsDeletion, DeletionStops
<1>5. CASE \E some \in SUBSET rows : G!Deletes(some)
  BY <1>5, DeletionBegins
<1>6. QED
  BY <1>1, <1>2, <1>3, <1>4, <1>5, RequestsStayKnown DEF G!Next

-----------------------------------------------------------------------------
\* The fields of a request for a manifest.
IsLoad(q) == q \in [kind : {"load", "refresh"}, run : {q.run}, live : {q.live}, late : BOOLEAN]

\* A request that counts is for the run that is open.
CountsForOpen == \A q \in loads : IsLoad(q) /\ (~q.late => q.run = runId)

\* The stream is of the run that is open and shown.
StreamFollows == stream # None => stream = runId /\ stream = view.run

\* Unless a load is awaited, the page shows the run that is open or none, and follows it.
ShownOrAwaited ==
    ~loose => \/ \E q \in loads : ~q.late /\ q.kind = "load"
              \/ view.run \in {runId, None} /\ (view.live => stream = runId)

ShowInv == CountsForOpen /\ StreamFollows /\ ShownOrAwaited

\* Viewer: no run is open at first, and nothing is shown.
LEMMA ShowStarts == V!Init => ShowInv
BY DEF V!Init, ShowInv, CountsForOpen, StreamFollows, ShownOrAwaited

\* A request that another one overtakes no longer counts.
LEMMA LateOnes ==
  ASSUME CountsForOpen, NEW q \in {[p EXCEPT !.late = TRUE] : p \in loads}
  PROVE  IsLoad(q) /\ q.late
<1>1. PICK p \in loads : q = [p EXCEPT !.late = TRUE]
  OBVIOUS
<1>2. IsLoad(p)
  BY DEF CountsForOpen
<1>3. QED
  BY <1>1, <1>2 DEF IsLoad

\* Asking for a run turns the earlier requests of that kind late; one that is not is for it.
LEMMA AskedAre ==
  ASSUME CountsForOpen, NEW kind \in {"load", "refresh"}, NEW r, NEW q \in V!Asked(kind, r)
  PROVE  IsLoad(q) /\ (~q.late => q.run = r /\ q.kind = kind)
<1>1. CASE q \in {[p EXCEPT !.late = TRUE] : p \in loads}
  BY <1>1, LateOnes
<1>2. CASE q = [kind |-> kind, run |-> r, live |-> live[r], late |-> FALSE]
  BY <1>2 DEF IsLoad
<1>3. QED
  BY <1>1, <1>2 DEF V!Asked

\* Asking for a run leaves a request for it.
LEMMA AskedHas ==
  ASSUME NEW kind, NEW r
  PROVE  \E q \in V!Asked(kind, r) : ~q.late /\ q.kind = kind /\ q.run = r
<1>1. PICK q : q = [kind |-> kind, run |-> r, live |-> live[r], late |-> FALSE]
  OBVIOUS
<1>2. ~q.late /\ q.kind = kind /\ q.run = r
  BY <1>1
<1>3. q \in V!Asked(kind, r)
  BY <1>1 DEF V!Asked
<1>4. QED
  BY <1>2, <1>3

\* Opening a run, or none, clears what was shown.
LEMMA LoadShows ==
  ASSUME ShowInv, NEW r \in ViewedRuns \cup {None}, V!Load(r)
  PROVE  ShowInv' /\ V!ShowsWhatItOpens
<1>1. runId' = r /\ stream' = None /\ loose' = FALSE
  BY DEF V!Load
<1>2. CASE r = None
  <2>1. /\ view' = [run |-> None, live |-> FALSE]
        /\ loads' = {[p EXCEPT !.late = TRUE] : p \in loads}
    BY <1>2 DEF V!Load
  <2>2. view'.run = None /\ view'.live = FALSE
    BY <2>1
  <2>3. \A q \in loads' : IsLoad(q) /\ q.late
    BY <2>1, LateOnes DEF ShowInv
  <2>4. QED
    BY <1>1, <1>2, <2>2, <2>3 DEF ShowInv, CountsForOpen, StreamFollows, ShownOrAwaited,
       V!ShowsWhatItOpens
<1>3. CASE r # None
  <2>1. view' = view /\ loads' = V!Asked("load", r)
    BY <1>3 DEF V!Load
  <2>2. \E q \in loads' : ~q.late /\ q.kind = "load"
    BY <2>1, AskedHas
  <2>3. CountsForOpen'
    BY <1>1, <2>1, AskedAre DEF ShowInv, CountsForOpen
  <2>4. QED
    BY <1>1, <2>1, <2>2, <2>3
       DEF ShowInv, StreamFollows, ShownOrAwaited, V!ShowsWhatItOpens, V!Waiting
<1>4. QED
  BY <1>2, <1>3

\* What a manifest that is put up leaves behind.
LEMMA AcceptShows ==
  ASSUME NEW r, NEW isLive, NEW s, V!Accepts(r, isLive, s)
  PROVE  /\ view'.run = r /\ view'.live = isLive
         /\ isLive => stream' = s
         /\ ~isLive => stream' = None
BY DEF V!Accepts

\* An answer is shown only when it is the answer for the run that is open.
LEMMA AnswerShows ==
  ASSUME ShowInv, NEW q \in loads, V!Arrives(q)
  PROVE  ShowInv' /\ V!ShowsWhatItOpens
<1>1. loads' = loads \ {q} /\ runId' = runId
  BY DEF V!Arrives
<1>2. CountsForOpen'
  BY <1>1 DEF ShowInv, CountsForOpen
<1>3. ASSUME NEW isLive, V!Current(q),
             V!Accepts(q.run, isLive, IF q.kind = "load" THEN q.run ELSE stream),
             loose' = (loose \/ (q.kind = "refresh" /\ isLive /\ stream = None))
      PROVE  ShowInv' /\ V!ShowsWhatItOpens
  <2>1. q.run = runId
    BY <1>3 DEF V!Current, ShowInv, CountsForOpen
  <2>2. /\ view'.run = runId /\ view'.live = isLive
        /\ isLive => stream' = IF q.kind = "load" THEN q.run ELSE stream
        /\ ~isLive => stream' = None
    BY <1>3, <2>1, AcceptShows
  <2>3. StreamFollows'
    BY <1>1, <2>1, <2>2 DEF ShowInv, StreamFollows
  <2>4. CASE q.kind = "load"
    BY <1>1, <1>2, <2>1, <2>2, <2>3, <2>4
       DEF ShowInv, StreamFollows, ShownOrAwaited, V!ShowsWhatItOpens
  <2>5. CASE q.kind # "load"
    <3>1. q.kind = "refresh" /\ (isLive => stream' = stream)
      BY <2>2, <2>5 DEF ShowInv, CountsForOpen, IsLoad
    <3>2. ~loose' /\ isLive => stream' = runId
      BY <1>3, <3>1 DEF ShowInv, StreamFollows
    <3>3. QED
      BY <1>1, <1>2, <2>2, <2>3, <3>2 DEF ShowInv, StreamFollows, ShownOrAwaited, V!ShowsWhatItOpens
  <2>6. QED
    BY <2>4, <2>5
<1>4. CASE V!Accepts(None, FALSE, None) /\ loose' = TRUE
  <2>1. view'.run = None /\ stream' = None
    BY <1>4, AcceptShows
  <2>2. QED
    BY <1>1, <1>2, <1>4, <2>1 DEF ShowInv, StreamFollows, ShownOrAwaited, V!ShowsWhatItOpens
<1>5. CASE UNCHANGED <<view, stream, loose>> /\ (q.late \/ q.kind = "refresh")
  <2>1. q.late \/ q.kind # "load"
    BY <1>5
  <2>2. QED
    BY <1>1, <1>2, <1>5, <2>1
       DEF ShowInv, StreamFollows, ShownOrAwaited, V!ShowsWhatItOpens, V!Waiting
<1>6. QED
  <2>1. \/ \E isLive \in {q.live, live[q.run]} :
             /\ V!Current(q)
             /\ V!Accepts(q.run, isLive, IF q.kind = "load" THEN q.run ELSE stream)
             /\ loose' = (loose \/ (q.kind = "refresh" /\ isLive /\ stream = None))
        \/ V!Accepts(None, FALSE, None) /\ loose' = TRUE
        \/ UNCHANGED <<view, stream, loose>> /\ (q.late \/ q.kind = "refresh")
    BY DEF V!Arrives, V!Current
  <2>2. CASE \E isLive \in {q.live, live[q.run]} :
             /\ V!Current(q)
             /\ V!Accepts(q.run, isLive, IF q.kind = "load" THEN q.run ELSE stream)
             /\ loose' = (loose \/ (q.kind = "refresh" /\ isLive /\ stream = None))
    <3>1. PICK isLive \in {q.live, live[q.run]} :
             /\ V!Current(q)
             /\ V!Accepts(q.run, isLive, IF q.kind = "load" THEN q.run ELSE stream)
             /\ loose' = (loose \/ (q.kind = "refresh" /\ isLive /\ stream = None))
      BY <2>2
    <3>2. QED
      BY <3>1, <1>3
  <2>3. QED
    BY <2>1, <2>2, <1>4, <1>5, Zenon

\* Every step of Viewer keeps what holds of it, and shows the run that is open or nothing.
LEMMA ViewerShows ==
  ASSUME ShowInv, V!Next
  PROVE  ShowInv' /\ V!ShowsWhatItOpens
<1> USE DEF ShowInv, CountsForOpen, StreamFollows, ShownOrAwaited, V!ShowsWhatItOpens, V!Waiting
<1>1. CASE UNCHANGED <<runId, view, stream, loads, loose>>
  BY <1>1
<1>2. CASE \E r \in ViewedRuns \cup {None} : V!Opens(r) \/ V!Returns(r)
  BY <1>1, <1>2, LoadShows DEF V!Opens, V!Returns
<1>3. CASE V!Leaves
  BY <1>3 DEF V!Leaves
<1>4. CASE V!Refreshes
  <2>1. /\ loads' = V!Asked("refresh", runId) /\ UNCHANGED <<runId, view, stream>>
        /\ loose' = (loose \/ \E q \in loads : q.kind = "load" /\ ~q.late)
    BY <1>4 DEF V!Refreshes, V!page
  <2>2. \A q \in loads' : IsLoad(q) /\ (~q.late => q.run = runId)
    BY <2>1, AskedAre
  <2>3. \E q \in loads' : ~q.late
    BY <2>1, AskedHas
  <2>4. QED
    BY <2>1, <2>2, <2>3
<1>5. CASE V!Hears
  BY <1>5 DEF V!Hears, V!Accepts
<1>6. CASE V!TogglesStar \/ V!TogglesKeep
  BY <1>1, <1>6 DEF V!TogglesStar, V!TogglesKeep, V!Edit, V!page
<1>7. CASE \E q \in loads : V!Arrives(q)
  BY <1>7, AnswerShows
<1>8. CASE \E g \in gets : V!ReadsReview(g) \/ V!ReviewArrives(g)
  BY <1>1, <1>8 DEF V!ReadsReview, V!ReviewArrives, V!Hydrates, V!page
<1>9. CASE \E r \in ViewedRuns : V!RunEnds(r) \/ V!Puts(r) \/ V!ReviewedElsewhere(r)
  BY <1>1, <1>9 DEF V!RunEnds, V!Puts, V!Stores, V!Saved, V!SaveFails, V!ReviewedElsewhere, V!page
<1>10. QED
  BY <1>2, <1>3, <1>4, <1>5, <1>6, <1>7, <1>8, <1>9 DEF V!Next

\* The page shows the run that is open, or nothing (Viewer), and no row of a deleted run comes
\* back to the list (Gallery), however many runs, requests and deletions there are.
THEOREM PagesShowWhatIs == Spec => PagesAreTrue
<1> DEFINE Inv == (part = "Viewer" => ShowInv) /\ (part = "Gallery" => GalleryInv)
           Good == /\ part = "Viewer" => V!ShowsWhatItOpens
                   /\ part = "Gallery" => G!RowsStayReal
<1>1. Init => Inv
  BY ShowStarts, GalleryStarts DEF Init
<1>2. Inv /\ [Next]_vars => Inv' /\ [Good]_vars
  <2> SUFFICES ASSUME Inv, [Next]_vars PROVE Inv' /\ [Good]_vars
    OBVIOUS
  <2>1. CASE part = "Viewer" /\ V!Next /\ part' = part
    BY <2>1, ViewerShows
  <2>2. CASE part = "Gallery" /\ G!Next /\ part' = part
    BY <2>2, GalleryStep
  <2>3. CASE part \notin {"Viewer", "Gallery"} /\ part' = part
    BY <2>3
  <2>4. CASE UNCHANGED vars
    <3>1. /\ UNCHANGED <<part, runId, view, stream, loads, loose>>
          /\ UNCHANGED <<disk, made, rows, deleting, confirmed, pages, deletions, brought>>
      BY <2>4 DEF vars, ofViewer, ofGallery
    <3>2. ShowInv => ShowInv'
      BY <3>1 DEF ShowInv, CountsForOpen, StreamFollows, ShownOrAwaited
    <3>3. GalleryInv => GalleryInv'
      BY <3>1, OnlyPagesChange DEF GalleryInv, KnownRuns
    <3>4. QED
      BY <2>4, <3>1, <3>2, <3>3
  <2>5. QED
    BY <2>1, <2>2, <2>3, <2>4 DEF Next, StaysBut
<1>3. QED
  BY <1>1, <1>2, PTL DEF Spec, PagesAreTrue

(*****************************************************************************)
(* Inputs and CostEstimate: what is selected, and its price                  *)
(*****************************************************************************)
\* The requests of one number are for what is selected, unless the price is due anew.
RequestsCount == \A r \in requests : r.seq \in Nat /\ r.seq <= seq
PriceAwaited ==
    ~due /\ jobs # 0 =>
      /\ \A r \in requests : r.seq = seq => r.jobs = jobs
      /\ (\A r \in requests : r.seq # seq) => price \in {0, jobs}

EstimateInv == seq \in Nat /\ RequestsCount /\ PriceAwaited

\* CostEstimate: nothing is asked, and the price is that of no job.
LEMMA EstimateStarts == E!Init => EstimateInv
BY DEF E!Init, EstimateInv, RequestsCount, PriceAwaited

\* Every step of CostEstimate keeps what holds of it.
LEMMA EstimateStep ==
  ASSUME EstimateInv, E!Next
  PROVE  EstimateInv'
<1>1. CASE E!Selects
  BY <1>1 DEF E!Selects, EstimateInv, RequestsCount, PriceAwaited
<1>2. CASE E!Refreshes
  <2>1. CASE jobs = 0
    BY <1>2, <2>1 DEF E!Refreshes, EstimateInv, RequestsCount, PriceAwaited
  <2>2. CASE jobs # 0
    <3>1. PICK q : q = [seq |-> seq + 1, jobs |-> jobs]
      OBVIOUS
    <3>2. /\ seq' = seq + 1 /\ requests' = requests \cup {q} /\ jobs' = jobs
          /\ q.seq = seq + 1 /\ q.jobs = jobs
      BY <1>2, <2>2, <3>1 DEF E!Refreshes
    <3>3. QED
      BY <3>2 DEF EstimateInv, RequestsCount, PriceAwaited
  <2>3. QED
    BY <2>1, <2>2
<1>3. CASE E!Answered
  BY <1>3 DEF E!Answered, E!Newest, EstimateInv, RequestsCount, PriceAwaited
<1>4. QED
  BY <1>1, <1>2, <1>3 DEF E!Next

\* The price shown is that of the jobs selected, once nothing is under way.
LEMMA EstimateHolds == EstimateInv => E!EstimateFits
BY DEF EstimateInv, PriceAwaited, E!EstimateFits, E!Settled

-----------------------------------------------------------------------------
\* What an answer says of the disk, which may have changed since.
Fits(a) == a.version \in Nat /\ a.version <= version /\ (a.version = version => a.list = folder)

\* The calls that may be awaited; only those that load the page can be made void.
IsBoot(c) ==
    \/ c \in [kind : {"boot"}, late : BOOLEAN, at : {c.at}, stage : {"sent"}]
    \/ c \in [kind : {"boot"}, late : BOOLEAN, at : {c.at}, stage : {"answered"},
         answer : {c.answer}]
Answers(c, kind) == c.kind = kind /\ c.stage = "answered"

\* An answer that brings the newest list is on its way.
NewestUpload == uploads # << >> /\ uploads[1].stage = "answered"
  /\ uploads[1].answer.version = version
NewestDelete == \E c \in calls : Answers(c, "delete") /\ c.answer.version = version
Fresh == listedAt = version \/ NewestUpload \/ NewestDelete

UploadsFit ==
    /\ uploads \in Seq(Range(uploads))
    /\ \A i \in DOMAIN uploads : uploads[i].stage = "answered" => i = 1 /\ Fits(uploads[i].answer)
CallsFit ==
    \A c \in calls :
      /\ c.kind = "boot" => IsBoot(c)
      /\ Answers(c, "boot") \/ Answers(c, "delete") => Fits(c.answer)
ListFits ==
    /\ version \in Nat /\ listedAt \in Nat /\ listedAt <= version
    /\ loaded /\ listedAt = version => listed = folder

\* Unless something excuses the page, it will show what is on disk.
PageCatchesUp ==
    overtaken = {} =>
      /\ loaded => Fresh
      /\ \A i \in DOMAIN uploads : uploads[i].stage = "answered" =>
           listedAt <= uploads[i].answer.version
      /\ \A c \in calls : Answers(c, "boot") => c.answer.version = version \/ Fresh

InputsInv ==
    /\ UploadsFit /\ CallsFit /\ ListFits /\ PageCatchesUp
    /\ I!TicksAreListed /\ I!TakesWhatIsTicked

\* Inputs: no upload and no call is under way, and no list has been taken.
LEMMA InputsStart == I!Init => InputsInv
<1> SUFFICES ASSUME I!Init PROVE InputsInv
  OBVIOUS
<1>1. /\ uploads = << >> /\ calls = {} /\ version = 0 /\ listedAt = 0 /\ loaded = FALSE
           /\ ticks = {}
      /\ took = [meant |-> {}, got |-> {}, namesakes |-> {}, stirred |-> FALSE] /\ overtaken = {}
  BY DEF I!Init
<1>2. UploadsFit
  BY <1>1 DEF UploadsFit
<1>3. CallsFit /\ ListFits /\ PageCatchesUp
  BY <1>1 DEF CallsFit, ListFits, PageCatchesUp
<1>4. QED
  BY <1>1, <1>2, <1>3 DEF InputsInv, I!TicksAreListed, I!TakesWhatIsTicked

\* A sequence is one of its own elements.
LEMMA OwnElements ==
  ASSUME NEW A, NEW s \in Seq(A)
  PROVE  s \in Seq(Range(s))
<1>1. s = [i \in 1 .. Len(s) |-> s[i]] /\ Len(s) \in Nat
  OBVIOUS
<1>2. \A i \in 1 .. Len(s) : s[i] \in Range(s)
  BY DEF Range
<1>3. QED
  BY <1>1, <1>2

\* What is left when the first is taken away.
LEMMA FirstIsTaken ==
  ASSUME NEW A, NEW s \in Seq(A), Len(s) >= 1
  PROVE  LET t == I!Without(s, 1)
         IN  /\ t \in Seq(Range(t)) /\ DOMAIN t = 1 .. Len(s) - 1
             /\ \A j \in DOMAIN t : t[j] = s[j + 1]
<1> DEFINE t == I!Without(s, 1)
<1> PICK n \in Nat : n = Len(s) /\ n >= 1
  OBVIOUS
<1>1. /\ SubSeq(s, 1, 0) = << >>
      /\ SubSeq(s, 2, n) \in Seq(A) /\ Len(SubSeq(s, 2, n)) = n - 1
      /\ \A j \in 1 .. n - 1 : SubSeq(s, 2, n)[j] = s[j + 1]
  OBVIOUS
<1>2. t = SubSeq(s, 2, n)
  BY <1>1 DEF I!Without
<1>3. t \in Seq(Range(t))
  BY <1>1, <1>2, OwnElements
<1>4. QED
  BY <1>1, <1>2, <1>3

\* A batch more is in line: those before it are as they were.
LEMMA NewBatch ==
  ASSUME UploadsFit, NEW b, b.stage = "sent", uploads' = Append(uploads, b),
         UNCHANGED <<folder, version>>
  PROVE  /\ UploadsFit'
         /\ \A i \in DOMAIN uploads' : uploads'[i].stage = "answered" =>
              i \in DOMAIN uploads /\ uploads'[i] = uploads[i]
         /\ NewestUpload => NewestUpload'
<1> DEFINE A == Range(uploads) \cup {b}
<1>1. uploads \in Seq(A)
  BY DEF UploadsFit
<1>2. /\ uploads' \in Seq(A) /\ DOMAIN uploads' = 1 .. Len(uploads) + 1
      /\ \A i \in DOMAIN uploads : uploads'[i] = uploads[i] /\ i \in DOMAIN uploads'
      /\ uploads'[Len(uploads) + 1] = b
  BY <1>1
<1>3. uploads' \in Seq(Range(uploads'))
  BY <1>2, OwnElements
<1>4. \A i \in DOMAIN uploads' : uploads'[i].stage = "answered" =>
        i \in DOMAIN uploads /\ uploads'[i] = uploads[i]
  BY <1>1, <1>2
<1>5. NewestUpload => NewestUpload'
  BY <1>1, <1>2 DEF NewestUpload
<1>6. QED
  BY <1>3, <1>4, <1>5 DEF UploadsFit, Fits

\* A file's id is the same in two lists that agree on the files of its slug.
LEMMA IdGoesBySlug ==
  ASSUME NEW one, NEW other, NEW f \in Files,
         \A g \in Files : Slug[f] = Slug[g] => one[g] = other[g]
  PROVE  I!Id(one, f) = I!Id(other, f)
<1>1. {g \in I!Present(one) : g <= f /\ Slug[g] = Slug[f]}
      = {g \in I!Present(other) : g <= f /\ Slug[g] = Slug[f]}
  BY DEF I!Present
<1>2. QED
  BY <1>1 DEF I!Id

\* What is listed under an id of a list is so in another, with the same image, unless a file of
\* its slug is there in one of them only, or differs.
LEMMA SameSlugSameImage ==
  ASSUME NEW one, NEW other, NEW ids, NEW f \in I!Listed(one, ids),
         ~\E g \in Files : Slug[g] = Slug[f] /\ one[g] # other[g]
  PROVE  f \in I!Listed(other, ids) /\ one[f] = other[f]
<1>1. f \in Files /\ one[f] # 0 /\ I!Id(one, f) \in ids
  BY DEF I!Listed, I!Present
<1>2. one[f] = other[f] /\ I!Id(one, f) = I!Id(other, f)
  BY <1>1, IdGoesBySlug
<1>3. QED
  BY <1>1, <1>2 DEF I!Listed, I!Present

\* A selection is of the images that were ticked, and of the namesakes of their ids.
LEMMA SelectionIsWhole ==
  ASSUME NEW list, NEW ids, ~I!Stirred(list, ids)
  PROVE  /\ I!ImagesOf(list, I!Listed(list, ids)) \subseteq I!ImagesOf(folder, I!Selected(folder, ids))
         /\ I!ImagesOf(folder, I!Selected(folder, ids)) \ I!ImagesOf(list, I!Listed(list, ids))
              \subseteq I!ImagesOf(folder, I!NamedIn(folder, ids))
<1>1. ASSUME NEW f \in I!Listed(list, ids)
      PROVE  f \in I!Listed(folder, ids) /\ list[f] = folder[f]
  BY SameSlugSameImage DEF I!Stirred
<1>2. ASSUME NEW f \in I!Listed(folder, ids)
      PROVE  f \in I!Listed(list, ids) /\ list[f] = folder[f]
  <2>1. ~\E g \in Files : Slug[g] = Slug[f] /\ folder[g] # list[g]
    BY DEF I!Stirred
  <2>2. f \in I!Listed(list, ids) /\ folder[f] = list[f]
    BY <2>1, SameSlugSameImage
  <2>3. QED
    BY <2>2
<1>3. QED
  BY <1>1, <1>2 DEF I!ImagesOf, I!Selected

\* A run takes the files of the ticks and their namesakes, and nothing else.
LEMMA RunTakesAll ==
  ASSUME I!TakesWhatIsTicked, I!RunArrives
  PROVE  I!TakesWhatIsTicked'
<1>1. CASE UNCHANGED took
  BY <1>1 DEF I!TakesWhatIsTicked
<1>2. CASE ~UNCHANGED took
  <2>1. PICK c \in calls :
          took' = [meant |-> I!ImagesOf(c.page, I!Listed(c.page, c.ids)),
                   got |-> I!ImagesOf(folder, I!Selected(folder, c.ids)),
                   namesakes |-> I!ImagesOf(folder, I!NamedIn(folder, c.ids)),
                   stirred |-> I!Stirred(c.page, c.ids)]
    BY <1>2 DEF I!RunArrives
  <2>2. /\ took'.meant = I!ImagesOf(c.page, I!Listed(c.page, c.ids))
        /\ took'.got = I!ImagesOf(folder, I!Selected(folder, c.ids))
        /\ took'.namesakes = I!ImagesOf(folder, I!NamedIn(folder, c.ids))
        /\ took'.stirred = I!Stirred(c.page, c.ids)
    BY <2>1
  <2>3. CASE I!Stirred(c.page, c.ids)
    BY <2>2, <2>3 DEF I!TakesWhatIsTicked
  <2>4. CASE ~I!Stirred(c.page, c.ids)
    <3>1. /\ took'.meant \subseteq took'.got
          /\ took'.got \ took'.meant \subseteq took'.namesakes
      BY <2>2, <2>4, SelectionIsWhole
    <3>2. QED
      BY <3>1 DEF I!TakesWhatIsTicked
  <2>5. QED
    BY <2>3, <2>4
<1>3. QED
  BY <1>1, <1>2

-----------------------------------------------------------------------------
\* What the page, and who reads the disk, do.
LEMMA TickingFits ==
  ASSUME InputsInv, I!Ticks \/ I!Submits
  PROVE  InputsInv'
<1>1. /\ UNCHANGED <<folder, version, listed, listedAt, loaded, uploads, took, overtaken>>
      /\ ticks' \subseteq I!Ids(listed)
  BY DEF I!Ticks, I!Submits, I!page, InputsInv, I!TicksAreListed
<1>2. \E c : c.kind = "run" /\ calls' \in {calls, calls \cup {c}}
  <2>1. CASE I!Ticks
    <3>1. calls' = calls
      BY <2>1 DEF I!Ticks
    <3>2. [kind |-> "run"].kind = "run"
      OBVIOUS
    <3>3. QED
      BY <3>1, <3>2
  <2>2. CASE I!Submits
    <3>1. PICK combined \in BOOLEAN :
            calls' = calls \cup {[kind |-> "run", ids |-> ticks, page |-> listed,
                                 combined |-> combined, at |-> clicks]}
      BY <2>2 DEF I!Submits, I!SendsCall
    <3>2. PICK c : c = [kind |-> "run", ids |-> ticks, page |-> listed,
                        combined |-> combined, at |-> clicks]
      OBVIOUS
    <3>3. calls' = calls \cup {c} /\ c.kind = "run"
      BY <3>1, <3>2
    <3>4. QED
      BY <3>3
  <2>3. QED
    BY <2>1, <2>2
<1>3. /\ \A c \in calls' : c \in calls \/ c.kind = "run"
      /\ calls \subseteq calls'
  BY <1>2
<1>4. UploadsFit' /\ ListFits' /\ CallsFit'
  BY <1>1, <1>3 DEF InputsInv, UploadsFit, ListFits, CallsFit, Fits, Answers
<1>5. Fresh => Fresh'
  BY <1>1, <1>3 DEF Fresh, NewestUpload, NewestDelete, Answers
<1>6. PageCatchesUp'
  BY <1>1, <1>3, <1>5 DEF InputsInv, PageCatchesUp, Answers
<1>7. QED
  BY <1>1, <1>4, <1>6 DEF InputsInv, I!TicksAreListed, I!TakesWhatIsTicked

\* A request for the page that a newer one makes void is still one.
LEMMA VoidedBoots ==
  ASSUME CallsFit, I!Boots
  PROVE  \A c \in calls' :
           /\ c.kind = "boot" => IsBoot(c)
           /\ Answers(c, "boot") \/ Answers(c, "delete") =>
                \E d \in calls : c.kind = d.kind /\ d.stage = "answered" /\ c.answer = d.answer
<1> DEFINE Void(d) == [d EXCEPT !.late = TRUE]
           new == [kind |-> "boot", late |-> FALSE, at |-> clicks, stage |-> "sent"]
<1>1. calls' = {IF d.kind = "boot" THEN Void(d) ELSE d : d \in calls} \cup {new}
  BY DEF I!Boots
<1>2. IsBoot(new) /\ new.stage = "sent" /\ new.kind = "boot"
  BY DEF IsBoot
<1>3. ASSUME NEW d \in calls, d.kind = "boot"
      PROVE  /\ IsBoot(Void(d)) /\ Void(d).kind = "boot" /\ Void(d).stage = d.stage
             /\ d.stage = "answered" => Void(d).answer = d.answer
  <2>1. IsBoot(d)
    BY <1>3 DEF CallsFit
  <2>2. CASE d \in [kind : {"boot"}, late : BOOLEAN, at : {d.at}, stage : {"sent"}]
    BY <2>2 DEF IsBoot
  <2>3. CASE d \in [kind : {"boot"}, late : BOOLEAN, at : {d.at}, stage : {"answered"},
          answer : {d.answer}]
    BY <2>3 DEF IsBoot
  <2>4. QED
    BY <2>1, <2>2, <2>3 DEF IsBoot
<1> HIDE DEF Void, new
<1>4. SUFFICES ASSUME NEW c \in calls'
      PROVE  /\ c.kind = "boot" => IsBoot(c)
             /\ Answers(c, "boot") \/ Answers(c, "delete") =>
                  \E d \in calls : c.kind = d.kind /\ d.stage = "answered" /\ c.answer = d.answer
  OBVIOUS
<1>5. CASE c = new
  BY <1>2, <1>5 DEF Answers
<1>6. CASE c # new
  <2>1. PICK d \in calls : c = IF d.kind = "boot" THEN Void(d) ELSE d
    BY <1>1, <1>6
  <2>2. QED
    BY <1>3, <2>1 DEF Answers, CallsFit
<1>7. QED
  BY <1>5, <1>6

\* What the requests that are sent, and answers that are not for the page, leave as it is.
LEMMA QuietCalls ==
  ASSUME InputsInv, UNCHANGED <<folder, version, listed, listedAt, loaded, ticks, uploads, took,
    overtaken>>,
         \A c \in calls' :
           /\ c.kind = "boot" => IsBoot(c)
           /\ Answers(c, "boot") \/ Answers(c, "delete") =>
                \/ \E d \in calls : c.kind = d.kind /\ d.stage = "answered" /\ c.answer = d.answer
                \/ c.kind = "boot" /\ c.answer.version = version /\ c.answer.list = folder,
         NewestDelete => NewestDelete'
  PROVE  InputsInv'
<1>1. UploadsFit' /\ ListFits'
  BY DEF InputsInv, UploadsFit, ListFits, Fits
<1>2. version \in Nat
  BY DEF InputsInv, ListFits
<1>3. \A d \in calls : Answers(d, "boot") \/ Answers(d, "delete") => Fits(d.answer)
  BY DEF InputsInv, CallsFit
<1>4. CallsFit'
  <2> SUFFICES ASSUME NEW c \in calls', Answers(c, "boot") \/ Answers(c, "delete")
               PROVE  Fits(c.answer)'
    BY DEF CallsFit, Answers
  <2>1. CASE \E d \in calls : c.kind = d.kind /\ d.stage = "answered" /\ c.answer = d.answer
    <3>1. PICK d \in calls : c.kind = d.kind /\ d.stage = "answered" /\ c.answer = d.answer
      BY <2>1
    <3>2. Fits(d.answer)
      BY <1>3, <3>1 DEF Answers
    <3>3. QED
      BY <3>1, <3>2 DEF Fits
  <2>2. CASE c.answer.version = version /\ c.answer.list = folder
    BY <1>2, <2>2 DEF Fits
  <2>3. QED
    BY <2>1, <2>2
<1>5. Fresh => Fresh'
  BY DEF Fresh, NewestUpload
<1>6. PageCatchesUp'
  BY <1>5 DEF InputsInv, PageCatchesUp, Answers
<1>7. I!TicksAreListed' /\ I!TakesWhatIsTicked'
  BY DEF InputsInv, I!TicksAreListed, I!TakesWhatIsTicked
<1>8. QED
  BY <1>1, <1>4, <1>6, <1>7 DEF InputsInv

\* The page boots: it takes no answer of before, and waits for its own.
LEMMA BootsFit ==
  ASSUME InputsInv, I!Boots
  PROVE  InputsInv'
<1>1. UNCHANGED <<folder, version, listed, listedAt, loaded, ticks, uploads, took, overtaken>>
  BY DEF I!Boots, I!page
<1>2. NewestDelete => NewestDelete'
  <2> SUFFICES ASSUME NewestDelete PROVE NewestDelete'
    OBVIOUS
  <2>1. PICK c \in calls : Answers(c, "delete") /\ c.answer.version = version
    BY DEF NewestDelete
  <2>2. c \in calls'
    BY <2>1 DEF I!Boots, Answers
  <2>3. QED
    BY <1>1, <2>1, <2>2 DEF NewestDelete, Answers
<1>3. QED
  BY <1>1, <1>2, QuietCalls, VoidedBoots DEF InputsInv

\* The daemon answers a boot with the list there is, at the version it has.
LEMMA BootAnsweredFits ==
  ASSUME InputsInv, I!BootAnswered
  PROVE  InputsInv'
<1>1. UNCHANGED <<folder, version, listed, listedAt, loaded, ticks, uploads, took, overtaken>>
  BY DEF I!BootAnswered, I!page
<1>2. PICK c \in calls :
        /\ c.kind = "boot" /\ c.stage = "sent"
        /\ calls' = (calls \ {c}) \cup {[kind |-> "boot", late |-> c.late, at |-> c.at,
                                         stage |-> "answered", answer |-> I!Snapshot]}
  BY DEF I!BootAnswered
<1>3. PICK a : a = I!Snapshot
  OBVIOUS
<1>4. a.list = folder /\ a.version = version
  BY <1>3 DEF I!Snapshot
<1>5. PICK b : b = [kind |-> "boot", late |-> c.late, at |-> c.at, stage |-> "answered",
        answer |-> a]
  OBVIOUS
<1>6. c.late \in BOOLEAN
  BY <1>2 DEF InputsInv, CallsFit, IsBoot
<1>7. IsBoot(b) /\ b.kind = "boot" /\ b.answer = a
  BY <1>5, <1>6 DEF IsBoot
<1>8. calls' = (calls \ {c}) \cup {b}
  BY <1>2, <1>3, <1>5
<1>9. NewestDelete => NewestDelete'
  <2> SUFFICES ASSUME NewestDelete PROVE NewestDelete'
    OBVIOUS
  <2>1. PICK d \in calls : Answers(d, "delete") /\ d.answer.version = version
    BY DEF NewestDelete
  <2>2. d \in calls'
    BY <1>2, <1>8, <2>1 DEF Answers
  <2>3. QED
    BY <1>1, <2>1, <2>2 DEF NewestDelete, Answers
<1>10. \A d \in calls : d.kind = "boot" => IsBoot(d)
  BY DEF InputsInv, CallsFit
<1>11. \A d \in calls' :
           /\ d.kind = "boot" => IsBoot(d)
           /\ Answers(d, "boot") \/ Answers(d, "delete") =>
                \/ \E e \in calls : d.kind = e.kind /\ e.stage = "answered" /\ d.answer = e.answer
                \/ d.kind = "boot" /\ d.answer.version = version /\ d.answer.list = folder
  BY <1>4, <1>7, <1>8, <1>10 DEF Answers
<1>12. QED
  BY <1>1, <1>9, <1>11, QuietCalls

\* A deletion is sent: the list is as it was.
LEMMA DeletesFit ==
  ASSUME InputsInv, I!Deletes
  PROVE  InputsInv'
<1>1. UNCHANGED <<folder, version, listed, listedAt, loaded, ticks, uploads, took, overtaken>>
  BY DEF I!Deletes, I!page
<1>2. PICK c : calls' = calls \cup {c} /\ c.kind = "delete" /\ c.stage = "sent"
  <2>1. PICK id \in I!Ids(listed) :
          calls' = calls \cup {[kind |-> "delete", id |-> id, at |-> clicks, stage |-> "sent"]}
    BY DEF I!Deletes, I!SendsCall
  <2>2. PICK c : c = [kind |-> "delete", id |-> id, at |-> clicks, stage |-> "sent"]
    OBVIOUS
  <2>3. c.kind = "delete" /\ c.stage = "sent"
    BY <2>2
  <2>4. QED
    BY <2>1, <2>2, <2>3
<1>3. \A d \in calls : d.kind = "boot" => IsBoot(d)
  BY DEF InputsInv, CallsFit
<1>4. NewestDelete => NewestDelete'
  BY <1>1, <1>2 DEF NewestDelete, Answers
<1>5. \A d \in calls' :
           /\ d.kind = "boot" => IsBoot(d)
           /\ Answers(d, "boot") \/ Answers(d, "delete") =>
                \E e \in calls : d.kind = e.kind /\ e.stage = "answered" /\ d.answer = e.answer
  BY <1>2, <1>3 DEF Answers
<1>6. QED
  BY <1>1, <1>4, <1>5, QuietCalls

\* A run arrives: the list is as it was.
LEMMA RunArrivesFits ==
  ASSUME InputsInv, I!RunArrives
  PROVE  InputsInv'
<1>1. UNCHANGED <<folder, version, listed, listedAt, loaded, ticks, uploads, overtaken>>
  BY DEF I!RunArrives, I!page
<1>2. PICK c \in calls : c.kind = "run" /\ calls' = calls \ {c}
  BY DEF I!RunArrives
<1>3. UploadsFit' /\ ListFits' /\ CallsFit'
  BY <1>1, <1>2 DEF InputsInv, UploadsFit, ListFits, CallsFit, Fits, Answers
<1>4. Fresh => Fresh'
  BY <1>1, <1>2 DEF Fresh, NewestUpload, NewestDelete, Answers
<1>5. PageCatchesUp'
  BY <1>1, <1>2, <1>4 DEF InputsInv, PageCatchesUp, Answers
<1>6. I!TakesWhatIsTicked'
  BY RunTakesAll DEF InputsInv
<1>7. QED
  BY <1>1, <1>3, <1>5, <1>6 DEF InputsInv, I!TicksAreListed

\* The page reloads, and waits for a boot.
LEMMA ReloadFits ==
  ASSUME InputsInv, I!Reloads
  PROVE  InputsInv'
<1>1. /\ listedAt' = 0 /\ loaded' = FALSE /\ ticks' = {} /\ uploads' = << >> /\ calls' = {}
      /\ UNCHANGED <<folder, version, took>>
  BY DEF I!Reloads
<1>2. UploadsFit'
  BY <1>1 DEF UploadsFit
<1>3. CallsFit' /\ ListFits' /\ PageCatchesUp'
  BY <1>1 DEF InputsInv, CallsFit, ListFits, PageCatchesUp
<1>4. QED
  BY <1>1, <1>2, <1>3 DEF InputsInv, I!TicksAreListed, I!TakesWhatIsTicked

\* The folder changes by another hand, so no list taken before is of this version.
LEMMA ElsewhereFits ==
  ASSUME InputsInv, I!ChangedElsewhere
  PROVE  InputsInv'
<1>1. /\ version' = version + 1 /\ overtaken' # {}
      /\ UNCHANGED <<listed, listedAt, loaded, ticks, uploads, calls, took>>
  BY DEF I!ChangedElsewhere, I!page
<1>2. \A a : Fits(a) => Fits(a)'
  BY <1>1 DEF InputsInv, ListFits, Fits
<1>3. UploadsFit' /\ CallsFit' /\ ListFits'
  BY <1>1, <1>2 DEF InputsInv, UploadsFit, CallsFit, ListFits, Answers
<1>4. QED
  BY <1>1, <1>3 DEF InputsInv, PageCatchesUp, I!TicksAreListed, I!TakesWhatIsTicked

\* An upload is sent, after the others.
LEMMA NewUploadFits ==
  ASSUME InputsInv, I!Uploads
  PROVE  InputsInv'
<1>1. UNCHANGED <<folder, version, listed, listedAt, loaded, ticks, calls, took, overtaken>>
  BY DEF I!Uploads
<1>2. PICK b : b.stage = "sent" /\ uploads' = Append(uploads, b)
  <2>1. PICK batch \in Picks, sound \in BOOLEAN :
          uploads' = Append(uploads, [names |-> batch, first |-> images + 1, sound |-> sound,
                                      stage |-> "sent"])
    BY DEF I!Uploads
  <2>2. [names |-> batch, first |-> images + 1, sound |-> sound, stage |-> "sent"].stage = "sent"
    OBVIOUS
  <2>3. QED
    BY <2>1, <2>2
<1>3. /\ UploadsFit'
      /\ \A i \in DOMAIN uploads' : uploads'[i].stage = "answered" =>
           i \in DOMAIN uploads /\ uploads'[i] = uploads[i]
      /\ NewestUpload => NewestUpload'
  BY <1>1, <1>2, NewBatch DEF InputsInv
<1>4. CallsFit' /\ ListFits'
  BY <1>1 DEF InputsInv, CallsFit, ListFits, Fits, Answers
<1>5. Fresh => Fresh'
  BY <1>1, <1>3 DEF Fresh, NewestDelete, Answers
<1>6. PageCatchesUp'
  BY <1>1, <1>3, <1>5 DEF InputsInv, PageCatchesUp, Answers
<1>7. QED
  BY <1>1, <1>3, <1>4, <1>6 DEF InputsInv, I!TicksAreListed, I!TakesWhatIsTicked

\* A change of the disk whose answer is on its way leaves what older answers say.
LEMMA DiskMovesOn ==
  ASSUME InputsInv, version' = version + 1
  PROVE  \A a : Fits(a) => Fits(a)' /\ a.version # version'
BY DEF InputsInv, ListFits, Fits

\* The daemon saves what was uploaded, and answers with the list at a new version.
LEMMA UploadArrivesFits ==
  ASSUME InputsInv, I!UploadArrives
  PROVE  InputsInv'
<1>1. /\ version' = version + 1
      /\ UNCHANGED <<listed, listedAt, loaded, ticks, calls, took, overtaken>>
  BY DEF I!UploadArrives
<1>2. PICK i \in I!Batches :
        uploads' = [uploads EXCEPT ![i] = [names |-> uploads[i].names, first |-> uploads[i].first,
           sound |-> uploads[i].sound, stage |-> "answered",
           answer |-> [list |-> folder', version |-> version']]]
  BY DEF I!UploadArrives
<1>3. PICK b : b = [names |-> uploads[i].names, first |-> uploads[i].first,
           sound |-> uploads[i].sound, stage |-> "answered",
           answer |-> [list |-> folder', version |-> version']]
  OBVIOUS
<1>4. b.stage = "answered" /\ b.answer.list = folder' /\ b.answer.version = version'
  BY <1>3
<1>5. i = 1 /\ uploads # << >> /\ uploads' = [uploads EXCEPT ![1] = b]
  BY <1>2, <1>3 DEF I!Batches
<1>6. uploads \in Seq(Range(uploads) \cup {b}) /\ 1 \in DOMAIN uploads
  BY <1>5 DEF InputsInv, UploadsFit
<1>7. /\ uploads' \in Seq(Range(uploads) \cup {b}) /\ DOMAIN uploads' = DOMAIN uploads
      /\ uploads'[1] = b /\ \A j \in DOMAIN uploads : j # 1 => uploads'[j] = uploads[j]
  BY <1>5, <1>6
<1>8. uploads' \in Seq(Range(uploads')) /\ uploads' # << >>
  BY <1>6, <1>7, OwnElements
<1>9. \A j \in DOMAIN uploads' : uploads'[j].stage = "answered" => j = 1
  BY <1>7 DEF InputsInv, UploadsFit
<1>10. Fits(b.answer)'
  BY <1>1, <1>4 DEF InputsInv, ListFits, Fits
<1>11. UploadsFit'
  BY <1>7, <1>8, <1>9, <1>10 DEF UploadsFit
<1>12. CallsFit' /\ ListFits'
  BY <1>1, DiskMovesOn DEF InputsInv, CallsFit, ListFits, Answers
<1>13. Fresh'
  BY <1>4, <1>7, <1>8 DEF Fresh, NewestUpload
<1>14. \A j \in DOMAIN uploads' : uploads'[j].stage = "answered" =>
         listedAt' <= uploads'[j].answer.version
  BY <1>1, <1>4, <1>7, <1>9 DEF InputsInv, ListFits
<1>15. PageCatchesUp'
  BY <1>13, <1>14 DEF PageCatchesUp
<1>16. QED
  BY <1>1, <1>11, <1>12, <1>15 DEF InputsInv, I!TicksAreListed, I!TakesWhatIsTicked

\* The daemon deletes a file, and answers with the list at a new version.
LEMMA DeleteArrivesFits ==
  ASSUME InputsInv, I!DeleteArrives
  PROVE  InputsInv'
<1>1. UNCHANGED <<listed, listedAt, loaded, ticks, uploads, took, overtaken>>
  BY DEF I!DeleteArrives, I!page
<1>2. PICK c \in calls :
        /\ c.kind = "delete" /\ c.stage = "sent"
        /\ IF I!Named(folder, c.id) = {}
             THEN calls' = calls \ {c} /\ UNCHANGED <<folder, version>>
             ELSE /\ version' = version + 1
                  /\ calls' = (calls \ {c}) \cup {[kind |-> "delete", at |-> c.at,
                       stage |-> "answered", answer |-> [list |-> folder', version |-> version']]}
  BY DEF I!DeleteArrives
<1>3. CASE calls' = calls \ {c} /\ UNCHANGED <<folder, version>>
  <2>1. NewestDelete => NewestDelete'
    BY <1>2, <1>3 DEF NewestDelete, Answers
  <2>2. \A d \in calls' :
           /\ d.kind = "boot" => IsBoot(d)
           /\ Answers(d, "boot") \/ Answers(d, "delete") =>
                \E e \in calls : d.kind = e.kind /\ e.stage = "answered" /\ d.answer = e.answer
    BY <1>3 DEF InputsInv, CallsFit, Answers
  <2>3. QED
    BY <1>1, <1>3, <2>1, <2>2, QuietCalls
<1>4. CASE /\ version' = version + 1
           /\ calls' = (calls \ {c}) \cup {[kind |-> "delete", at |-> c.at,
                stage |-> "answered", answer |-> [list |-> folder', version |-> version']]}
  <2>1. PICK d : d = [kind |-> "delete", at |-> c.at, stage |-> "answered",
                      answer |-> [list |-> folder', version |-> version']]
    OBVIOUS
  <2>2. Answers(d, "delete") /\ d.answer.list = folder' /\ d.answer.version = version'
    BY <2>1 DEF Answers
  <2>3. calls' = (calls \ {c}) \cup {d}
    BY <1>4, <2>1
  <2>4. Fits(d.answer)'
    BY <1>4, <2>2 DEF InputsInv, ListFits, Fits
  <2>5. UploadsFit' /\ ListFits'
    BY <1>1, <1>4, DiskMovesOn DEF InputsInv, UploadsFit, ListFits
  <2>6. CallsFit'
    <3> SUFFICES ASSUME NEW e \in calls'
                 PROVE  /\ e.kind = "boot" => IsBoot(e)
                        /\ Answers(e, "boot") \/ Answers(e, "delete") => Fits(e.answer)'
      BY DEF CallsFit, Answers
    <3>1. CASE e = d
      BY <2>2, <2>4, <3>1 DEF Answers
    <3>2. CASE e \in calls
      BY <1>4, <3>2, DiskMovesOn DEF InputsInv, CallsFit
    <3>3. QED
      BY <2>3, <3>1, <3>2
  <2>7. Fresh'
    BY <2>2, <2>3 DEF Fresh, NewestDelete, Answers
  <2>8. PageCatchesUp'
    BY <1>1, <2>7 DEF InputsInv, PageCatchesUp
  <2>9. QED
    BY <1>1, <2>5, <2>6, <2>8 DEF InputsInv, I!TicksAreListed, I!TakesWhatIsTicked
<1>5. QED
  BY <1>2, <1>3, <1>4

\* An answer that is shown; the page is told if it is older than one it has or waits for.
LEMMA AnswerIsShown ==
  ASSUME InputsInv, NEW c \in calls, Answers(c, "boot") \/ Answers(c, "delete"),
         calls' = calls \ {c}, I!Shows(c.answer), UNCHANGED <<folder, version, uploads, took>>,
         loaded' \in {loaded, TRUE}, c.kind = "delete" => loaded' = loaded,
         ticks' \subseteq I!Ids(listed')
  PROVE  InputsInv'
<1>1. Fits(c.answer)
  BY DEF InputsInv, CallsFit
<1>2. listed' = c.answer.list /\ listedAt' = c.answer.version /\ overtaken \subseteq overtaken'
  BY DEF I!Shows
<1>3. overtaken' = {} =>
        /\ overtaken = {} /\ listedAt <= c.answer.version
        /\ \A i \in DOMAIN uploads : uploads[i].stage = "answered"
                                       => c.answer.version <= uploads[i].answer.version
  <2>1. overtaken' = {} => overtaken = {} /\ ~(c.answer.version < listedAt)
          /\ \A i \in DOMAIN uploads : uploads[i].stage = "answered"
                                         => ~(uploads[i].answer.version < c.answer.version)
    BY DEF I!Shows
  <2>2. QED
    BY <1>1, <2>1 DEF InputsInv, ListFits, UploadsFit, Fits
<1>4. UploadsFit' /\ CallsFit' /\ ListFits'
  <2>1. ListFits'
    BY <1>1, <1>2 DEF InputsInv, ListFits, Fits
  <2>2. QED
    BY <2>1 DEF InputsInv, UploadsFit, CallsFit, Fits, Answers
<1>5. overtaken' = {} /\ Fresh => Fresh'
  <2>1. CASE listedAt = version
    <3>1. overtaken' = {} => c.answer.version = version
      BY <1>1, <1>3, <2>1 DEF InputsInv, ListFits, Fits
    <3>2. QED
      BY <1>2, <3>1 DEF Fresh
  <2>2. CASE NewestUpload
    BY <2>2 DEF Fresh, NewestUpload
  <2>3. CASE NewestDelete
    <3>1. PICK d \in calls : Answers(d, "delete") /\ d.answer.version = version
      BY <2>3 DEF NewestDelete
    <3>2. CASE d = c
      BY <1>2, <3>1, <3>2 DEF Fresh
    <3>3. CASE d # c
      BY <3>1, <3>3 DEF Fresh, NewestDelete, Answers
    <3>4. QED
      BY <3>2, <3>3
  <2>4. QED
    BY <2>1, <2>2, <2>3 DEF Fresh
<1>6. overtaken' = {} /\ c.kind = "boot" => Fresh'
  BY <1>2, <1>3, <1>5 DEF InputsInv, PageCatchesUp, Fresh, Answers
<1>7. PageCatchesUp'
  <2>1. overtaken' = {} /\ loaded' => Fresh'
    BY <1>3, <1>5, <1>6 DEF InputsInv, PageCatchesUp, Answers
  <2>2. overtaken' = {} => \A i \in DOMAIN uploads' : uploads'[i].stage = "answered"
                              => listedAt' <= uploads'[i].answer.version
    BY <1>2, <1>3
  <2>3. overtaken' = {} => \A d \in calls' : Answers(d, "boot") =>
          d.answer.version = version \/ Fresh'
    BY <1>3, <1>5 DEF InputsInv, PageCatchesUp
  <2>4. QED
    BY <2>1, <2>2, <2>3 DEF PageCatchesUp, Answers
<1>8. QED
  BY <1>4, <1>7 DEF InputsInv, I!TicksAreListed, I!TakesWhatIsTicked

\* The page takes the answer of its boot, if nothing newer was shown.
LEMMA TakesBootFits ==
  ASSUME InputsInv, I!TakesBoot
  PROVE  InputsInv'
<1>1. UNCHANGED <<folder, version, uploads, took>>
  BY DEF I!TakesBoot
<1>2. PICK c \in calls :
        /\ c.kind = "boot" /\ c.stage = "answered" /\ calls' = calls \ {c}
        /\ IF c.late THEN UNCHANGED <<listed, listedAt, ticks, loaded, overtaken>>
           ELSE I!Shows(c.answer) /\ ticks' = {} /\ loaded' = TRUE
  BY DEF I!TakesBoot
<1>3. CASE UNCHANGED <<listed, listedAt, ticks, loaded, overtaken>>
  <2>1. NewestDelete => NewestDelete'
    BY <1>1, <1>2 DEF NewestDelete, Answers
  <2>2. \A d \in calls' :
           /\ d.kind = "boot" => IsBoot(d)
           /\ Answers(d, "boot") \/ Answers(d, "delete") =>
                \E e \in calls : d.kind = e.kind /\ e.stage = "answered" /\ d.answer = e.answer
    BY <1>2 DEF InputsInv, CallsFit, Answers
  <2>3. QED
    BY <1>1, <1>3, <2>1, <2>2, QuietCalls
<1>4. CASE I!Shows(c.answer) /\ ticks' = {} /\ loaded' = TRUE
  <2>1. c.kind # "delete" /\ Answers(c, "boot") /\ ticks' \subseteq I!Ids(listed')
    BY <1>2, <1>4 DEF Answers
  <2>2. QED
    BY <1>1, <1>2, <1>4, <2>1, AnswerIsShown
<1>5. QED
  BY <1>2, <1>3, <1>4

\* The page takes the answer of a deletion.
LEMMA TakesDeleteFits ==
  ASSUME InputsInv, I!TakesDelete
  PROVE  InputsInv'
<1>1. UNCHANGED <<folder, version, loaded, uploads, took>>
  BY DEF I!TakesDelete
<1>2. PICK c \in calls :
        /\ c.kind = "delete" /\ c.stage = "answered" /\ calls' = calls \ {c}
        /\ I!Shows(c.answer) /\ ticks' = ticks \cap I!Ids(c.answer.list)
  BY DEF I!TakesDelete
<1>3. Answers(c, "delete") /\ ticks' \subseteq I!Ids(listed')
  BY <1>2 DEF Answers, I!Shows
<1>4. QED
  BY <1>1, <1>2, <1>3, AnswerIsShown

\* The first batch is through: no other has been answered yet.
LEMMA BatchIsThrough ==
  ASSUME InputsInv, uploads # << >>, uploads' = I!Without(uploads, 1), UNCHANGED <<folder, version>>
  PROVE  UploadsFit' /\ \A i \in DOMAIN uploads' : uploads'[i].stage # "answered"
<1>1. uploads \in Seq(Range(uploads)) /\ Len(uploads) >= 1
  BY DEF InputsInv, UploadsFit
<1>2. /\ uploads' \in Seq(Range(uploads')) /\ DOMAIN uploads' = 1 .. Len(uploads) - 1
      /\ \A j \in DOMAIN uploads' : uploads'[j] = uploads[j + 1]
  BY <1>1, FirstIsTaken
<1>3. \A j \in DOMAIN uploads' : j + 1 \in DOMAIN uploads /\ j + 1 # 1
  BY <1>1, <1>2
<1>4. \A i \in DOMAIN uploads' : uploads'[i].stage # "answered"
  BY <1>2, <1>3 DEF InputsInv, UploadsFit
<1>5. QED
  BY <1>2, <1>4 DEF UploadsFit

\* The page takes the answer of an upload, and sends the next.
LEMMA TakesUploadFits ==
  ASSUME InputsInv, I!TakesUpload
  PROVE  InputsInv'
<1>1. UNCHANGED <<folder, version, loaded, calls, took>>
  BY DEF I!TakesUpload
<1>2. PICK i \in DOMAIN uploads :
        LET b == uploads[i]
            a == b.answer
            added == {I!Id(a.list, f) : f \in {g \in I!Present(a.list) :
                                               a.list[g] \in b.first .. b.first + Len(b.names) - 1}}
        IN /\ b.stage = "answered" /\ uploads' = I!Without(uploads, i)
           /\ IF b.sound
              THEN /\ listed' = a.list /\ listedAt' = a.version
                   /\ ticks' = IF added # {} THEN added ELSE ticks \cap I!Ids(a.list)
                   /\ UNCHANGED overtaken
              ELSE /\ overtaken' = overtaken \cup {"halved"}
                   /\ UNCHANGED <<listed, listedAt, ticks>>
  BY DEF I!TakesUpload
<1>3. uploads[i].stage = "answered" /\ uploads' = I!Without(uploads, i)
  BY <1>2
<1>4. i = 1 /\ uploads # << >> /\ Fits(uploads[1].answer)
  <2>1. i = 1 /\ Fits(uploads[1].answer)
    BY <1>3 DEF InputsInv, UploadsFit
  <2>2. uploads \in Seq(Range(uploads))
    BY DEF InputsInv, UploadsFit
  <2>3. QED
    BY <2>1, <2>2
<1>5. UploadsFit' /\ \A j \in DOMAIN uploads' : uploads'[j].stage # "answered"
  BY <1>1, <1>3, <1>4, BatchIsThrough
<1>6. CallsFit'
  BY <1>1 DEF InputsInv, CallsFit, Fits, Answers
<1>7. CASE overtaken' = overtaken \cup {"halved"} /\ UNCHANGED <<listed, listedAt, ticks>>
  BY <1>1, <1>5, <1>6, <1>7
     DEF InputsInv, ListFits, PageCatchesUp, I!TicksAreListed, I!TakesWhatIsTicked
<1>8. CASE uploads[i].sound
  <2> DEFINE a == uploads[1].answer
             added == {I!Id(a.list, f) : f \in {g \in I!Present(a.list) :
                         a.list[g] \in uploads[1].first ..
                                         uploads[1].first + Len(uploads[1].names) - 1}}
  <2>1. /\ listed' = a.list /\ listedAt' = a.version /\ overtaken' = overtaken
        /\ ticks' = IF added # {} THEN added ELSE ticks \cap I!Ids(a.list)
    BY <1>2, <1>4, <1>8
  <2>2. added \subseteq I!Ids(a.list)
    BY DEF I!Ids
  <2>3. I!TicksAreListed'
    BY <2>1, <2>2 DEF I!TicksAreListed
  <2> HIDE DEF added
  <2>4. ListFits'
    BY <1>1, <1>4, <2>1 DEF InputsInv, ListFits, Fits
  <2>5. overtaken = {} => listedAt <= a.version
    BY <1>3, <1>4 DEF InputsInv, PageCatchesUp
  <2>6. overtaken = {} /\ Fresh => Fresh'
    <3>1. CASE listedAt = version
      <4>1. overtaken = {} => a.version = version
        BY <1>4, <2>5, <3>1 DEF InputsInv, ListFits, Fits
      <4>2. QED
        BY <1>1, <2>1, <4>1 DEF Fresh
    <3>2. CASE NewestUpload
      BY <1>1, <2>1, <3>2 DEF NewestUpload, Fresh
    <3>3. CASE NewestDelete
      BY <1>1, <3>3 DEF NewestDelete, Fresh, Answers
    <3>4. QED
      BY <3>1, <3>2, <3>3 DEF Fresh
  <2>7. PageCatchesUp'
    BY <1>1, <1>5, <2>1, <2>6 DEF InputsInv, PageCatchesUp, Answers
  <2>8. QED
    BY <1>1, <1>5, <1>6, <2>3, <2>4, <2>7 DEF InputsInv, I!TakesWhatIsTicked
<1>9. QED
  BY <1>2, <1>7, <1>8

\* An upload is lost, and its answer with it.
LEMMA LosesUploadFits ==
  ASSUME InputsInv, I!LosesUpload
  PROVE  InputsInv'
<1>1. UNCHANGED <<folder, version, listed, listedAt, loaded, ticks, calls, took>>
  BY DEF I!LosesUpload
<1>2. /\ uploads # << >> /\ uploads' = I!Without(uploads, 1)
      /\ overtaken' = overtaken \cup IF uploads[1].stage = "answered" THEN {"lost"} ELSE {}
  BY DEF I!LosesUpload, I!Batches
<1>3. UploadsFit' /\ \A j \in DOMAIN uploads' : uploads'[j].stage # "answered"
  BY <1>1, <1>2, BatchIsThrough
<1>4. CallsFit' /\ ListFits'
  BY <1>1 DEF InputsInv, CallsFit, ListFits, Fits, Answers
<1>5. overtaken' = {} => overtaken = {} /\ (Fresh => Fresh')
  BY <1>1, <1>2 DEF Fresh, NewestUpload, NewestDelete, Answers
<1>6. PageCatchesUp'
  BY <1>1, <1>3, <1>5 DEF InputsInv, PageCatchesUp, Answers
<1>7. QED
  BY <1>1, <1>3, <1>4, <1>6 DEF InputsInv, I!TicksAreListed, I!TakesWhatIsTicked

\* A call is lost, and its answer with it.
LEMMA LosesCallFits ==
  ASSUME InputsInv, I!LosesCall
  PROVE  InputsInv'
<1>1. UNCHANGED <<folder, version, listed, listedAt, loaded, ticks, uploads, took>>
  BY DEF I!LosesCall, I!page
<1>2. PICK c \in calls :
        /\ calls' = calls \ {c}
        /\ overtaken' = overtaken \cup
             IF c.kind = "delete" /\ c.stage = "answered" THEN {"lost"} ELSE {}
  BY DEF I!LosesCall
<1>3. UploadsFit' /\ CallsFit' /\ ListFits'
  BY <1>1, <1>2 DEF InputsInv, UploadsFit, CallsFit, ListFits, Fits, Answers
<1>4. overtaken' = {} => overtaken = {} /\ (Fresh => Fresh')
  BY <1>1, <1>2 DEF Fresh, NewestUpload, NewestDelete, Answers
<1>5. PageCatchesUp'
  BY <1>1, <1>2, <1>4 DEF InputsInv, PageCatchesUp, Answers
<1>6. QED
  BY <1>1, <1>3, <1>5 DEF InputsInv, I!TicksAreListed, I!TakesWhatIsTicked

\* Every step of Inputs keeps what holds of it.
LEMMA InputsStep ==
  ASSUME InputsInv, I!Next
  PROVE  InputsInv'
BY TickingFits, BootsFit, BootAnsweredFits, TakesBootFits, ReloadFits, NewUploadFits,
   UploadArrivesFits,
   TakesUploadFits, DeletesFit, DeleteArrivesFits, TakesDeleteFits, RunArrivesFits, ElsewhereFits,
   LosesUploadFits, LosesCallFits DEF I!Next

\* What holds of Inputs is what the selection is said to be.
LEMMA InputsHold == InputsInv => I!PageFits /\ I!TakesWhatIsTicked
<1> SUFFICES ASSUME InputsInv PROVE I!PageFits /\ I!TakesWhatIsTicked
  OBVIOUS
<1>1. I!AtRest => ~NewestUpload /\ ~NewestDelete /\ loaded
  BY DEF I!AtRest, NewestUpload, NewestDelete
<1>2. I!ListCatchesUp
  BY <1>1 DEF InputsInv, PageCatchesUp, Fresh, ListFits, I!ListCatchesUp
<1>3. QED
  BY <1>2 DEF InputsInv, I!PageFits

\* The page's list and its ticks are those of the files on disk once nothing is under way; a
\* run is made of all that was ticked, and of nothing else but what bears a ticked id for its
\* name, unless a file of a ticked slug came or went (Inputs); and the price is that of what is
\* selected (CostEstimate), for any files and any number of calls.
THEOREM SelectionsAreSound == Spec => []InputsAreSound
<1> DEFINE Inv == (part = "Inputs" => InputsInv) /\ (part = "Estimate" => EstimateInv)
<1>1. Init => Inv
  BY InputsStart, EstimateStarts DEF Init
<1>2. Inv /\ [Next]_vars => Inv'
  <2> SUFFICES ASSUME Inv, [Next]_vars PROVE Inv'
    OBVIOUS
  <2>1. CASE part = "Inputs" /\ I!Next /\ part' = part
    BY <2>1, InputsStep
  <2>2. CASE part = "Estimate" /\ E!Next /\ part' = part
    BY <2>2, EstimateStep
  <2>3. CASE part \notin {"Inputs", "Estimate"} /\ part' = part
    BY <2>3
  <2>4. CASE UNCHANGED vars
    <3>1. /\ UNCHANGED <<part, folder, images, version, listed, listedAt, loaded, ticks, uploads,
               calls,
                         took, overtaken>>
          /\ UNCHANGED <<jobs, due, requests, seq, price>>
      BY <2>4 DEF vars, ofInputs, ofEstimate
    <3>2. EstimateInv => EstimateInv'
      BY <3>1 DEF EstimateInv, RequestsCount, PriceAwaited
    <3>3. NewestDelete => NewestDelete'
      BY <3>1 DEF NewestDelete, Answers
    <3>4. InputsInv => InputsInv'
      <4> SUFFICES ASSUME InputsInv PROVE InputsInv'
        OBVIOUS
      <4>1. \A c \in calls' :
              /\ c.kind = "boot" => IsBoot(c)
              /\ Answers(c, "boot") \/ Answers(c, "delete") =>
                   \E d \in calls : c.kind = d.kind /\ d.stage = "answered" /\ c.answer = d.answer
        BY <3>1 DEF InputsInv, CallsFit, Answers
      <4>2. QED
        BY <3>1, <3>3, <4>1, QuietCalls
    <3>5. QED
      BY <3>1, <3>2, <3>4
  <2>5. QED
    BY <2>1, <2>2, <2>3, <2>4 DEF Next, StaysBut
<1>3. Inv => InputsAreSound
  BY InputsHold, EstimateHolds DEF InputsAreSound
<1>4. QED
  BY <1>1, <1>2, <1>3, PTL DEF Spec

(*****************************************************************************)
(* Mcp: the requests of an agent                                             *)
(*****************************************************************************)
\* The part counts, and takes the elements of a sequence, as everybody does.
LEMMA McpSets == /\ \A A : M!Cardinality(A) = Cardinality(A)
                 /\ \A s : M!Range(s) = Range(s)
BY DEF M!Cardinality, Cardinality, M!Range, Range

McpTypeOK ==
    /\ sent \in Seq(ClientIds) /\ backlog \in Seq(Nat) /\ registry \in [ClientIds -> Nat]
    /\ inFlight \in SUBSET DOMAIN sent /\ IsFiniteSet(inFlight)
    /\ open \in BOOLEAN /\ done \in BOOLEAN

\* Who waits is in line in the order of the numbers.
LineIsOrdered == \A i, j \in DOMAIN backlog : i < j => backlog[i] < backlog[j]

\* Two in flight with one id know of each other.
TwinsAreKnown == \A q, r \in inFlight : q # r /\ sent[q] = sent[r] => q \in twins

McpInv ==
    /\ McpTypeOK /\ LineIsOrdered /\ TwinsAreKnown
    /\ M!InTurn /\ M!Cancellable
    /\ done => ~open /\ inFlight = {} /\ backlog = << >>

\* Mcp: no request has arrived.
LEMMA McpStarts == M!Init => McpInv
<1> SUFFICES ASSUME M!Init PROVE McpInv
  OBVIOUS
<1>1. /\ sent = << >> /\ backlog = << >> /\ inFlight = {} /\ registry = [i \in ClientIds |-> 0]
      /\ answers = {} /\ twins = {} /\ open = TRUE /\ done = FALSE
  BY DEF M!Init
<1>2. McpTypeOK
  <2>1. sent \in Seq(ClientIds) /\ backlog \in Seq(Nat) /\ registry \in [ClientIds -> Nat]
    BY <1>1
  <2>2. IsFiniteSet({})
    BY FS_EmptySet
  <2>3. QED
    BY <1>1, <2>1, <2>2 DEF McpTypeOK
<1>3. M!Cardinality(inFlight) = 0
  BY <1>1, McpSets, FS_EmptySet
<1>4. M!Waiting = {}
  BY <1>1, McpSets DEF M!Waiting, Range
<1>5. M!InTurn
  BY <1>1, <1>3, <1>4, McpAssumption DEF M!InTurn
<1>6. LineIsOrdered /\ TwinsAreKnown /\ M!Cancellable
  BY <1>1 DEF LineIsOrdered, TwinsAreKnown, M!Cancellable
<1>7. QED
  BY <1>1, <1>2, <1>5, <1>6 DEF McpInv

\* The cap of the slots, without the instance's names.
LEMMA SlotsOf ==
  ASSUME McpInv
  PROVE  /\ Cardinality(inFlight) \in Nat /\ Cardinality(inFlight) <= MaxInFlight
         /\ backlog # << >> => Cardinality(inFlight) = MaxInFlight
         /\ DOMAIN sent = Range(backlog) \cup inFlight \cup answers
         /\ inFlight \cap answers = {} /\ Range(backlog) \cap (inFlight \cup answers) = {}
         /\ \A q \in Range(backlog), r \in inFlight \cup answers : r < q
BY McpSets, FS_CardinalityType DEF McpInv, McpTypeOK, M!InTurn, M!Waiting

\* A request that takes a slot: others are in flight, and places is the registry without those
\* that were answered.
LEMMA Dispatched ==
  ASSUME NEW r \in Nat \ {0}, NEW id \in ClientIds, NEW others, NEW places \in [ClientIds -> Nat],
         M!Dispatches(r, id, others, places), r \notin others,
         sent'[r] = id, \A q \in others : sent'[q] = sent[q] /\ sent[q] \in ClientIds,
         \A i \in ClientIds : places[i] # 0 => places[i] \in others /\ sent[places[i]] = i,
         \A q \in others \ twins : places[sent[q]] = q,
         \A p, q \in others : p # q /\ sent[p] = sent[q] => p \in twins
  PROVE  /\ inFlight' = others \cup {r} /\ registry' \in [ClientIds -> Nat]
         /\ TwinsAreKnown' /\ M!Cancellable'
<1> DEFINE same == {q \in others : sent[q] = id}
<1>1. /\ inFlight' = others \cup {r} /\ registry' = [places EXCEPT ![id] = r]
      /\ twins' = IF same = {} THEN twins ELSE twins \cup same \cup {r}
  BY DEF M!Dispatches
<1>2. twins \subseteq twins' /\ same \subseteq twins' /\ (same # {} => r \in twins')
  BY <1>1
<1>3. registry' \in [ClientIds -> Nat] /\ registry'[id] = r
        /\ \A i \in ClientIds \ {id} : registry'[i] = places[i]
  BY <1>1
<1>4. TwinsAreKnown'
  <2> SUFFICES ASSUME NEW p \in others \cup {r}, NEW q \in others \cup {r}, p # q,
        sent'[p] = sent'[q]
               PROVE  p \in twins'
    BY <1>1 DEF TwinsAreKnown
  <2>1. CASE p = r
    BY <1>2, <2>1
  <2>2. CASE q = r
    BY <1>2, <2>2
  <2>3. CASE p # r /\ q # r
    BY <1>2, <2>3
  <2>4. QED
    BY <2>1, <2>2, <2>3
<1>5. \A i \in ClientIds : registry'[i] # 0 => registry'[i] \in inFlight' /\ sent'[registry'[i]] = i
  BY <1>1, <1>3
<1>6. \A q \in inFlight' \ twins' : registry'[sent'[q]] = q
  <2> SUFFICES ASSUME NEW q \in (others \cup {r}) \ twins' PROVE registry'[sent'[q]] = q
    BY <1>1
  <2>1. CASE q = r
    BY <1>3, <2>1
  <2>2. CASE q # r
    <3>1. q \in others \ twins /\ sent[q] # id
      BY <1>2, <2>2
    <3>2. QED
      BY <1>3, <3>1
  <2>3. QED
    BY <2>1, <2>2
<1>7. QED
  BY <1>1, <1>3, <1>4, <1>5, <1>6 DEF M!Cancellable

\* One more that waits has the largest number.
LEMMA LastInLine ==
  ASSUME McpInv, backlog' = Append(backlog, Len(sent) + 1)
  PROVE  /\ backlog' \in Seq(Nat) /\ Range(backlog') = Range(backlog) \cup {Len(sent) + 1}
         /\ LineIsOrdered'
<1> DEFINE r == Len(sent) + 1
<1>1. r \in Nat /\ backlog \in Seq(Nat) /\ \A q \in Range(backlog) : q < r
  <2>1. sent \in Seq(ClientIds) /\ backlog \in Seq(Nat)
    BY DEF McpInv, McpTypeOK
  <2>2. r \in Nat /\ \A q \in DOMAIN sent : q < r
    BY <2>1
  <2>3. Range(backlog) \subseteq DOMAIN sent
    BY SlotsOf
  <2>4. QED
    BY <2>1, <2>2, <2>3
<1>2. /\ backlog' \in Seq(Nat) /\ DOMAIN backlog' = 1 .. Len(backlog) + 1
      /\ \A i \in DOMAIN backlog : backlog'[i] = backlog[i]
      /\ backlog'[Len(backlog) + 1] = r
  BY <1>1
<1>3. \A i \in DOMAIN backlog' : i \in DOMAIN backlog \/ i = Len(backlog) + 1
  BY <1>1, <1>2
<1>4. Len(backlog) + 1 \in DOMAIN backlog' /\ DOMAIN backlog \subseteq DOMAIN backlog'
  BY <1>1, <1>2
<1> HIDE DEF r
<1>5. Range(backlog') = Range(backlog) \cup {r}
  BY <1>2, <1>3, <1>4 DEF Range
<1>6. LineIsOrdered'
  <2> SUFFICES ASSUME NEW i \in DOMAIN backlog', NEW j \in DOMAIN backlog', i < j
               PROVE  backlog'[i] < backlog'[j]
    BY DEF LineIsOrdered
  <2>1. i \in DOMAIN backlog
    BY <1>1, <1>2
  <2>2. CASE j \in DOMAIN backlog
    BY <1>2, <2>1, <2>2 DEF McpInv, LineIsOrdered
  <2>3. CASE j = Len(backlog) + 1
    BY <1>1, <1>2, <2>1, <2>3 DEF Range
  <2>4. QED
    BY <1>3, <2>2, <2>3
<1>7. QED
  BY <1>2, <1>5, <1>6 DEF r

\* The first leaves the line: it has the smallest number.
LEMMA FirstLeaves ==
  ASSUME McpInv, backlog # << >>, backlog' = Tail(backlog)
  PROVE  /\ Head(backlog) \in Range(backlog)
         /\ backlog' \in Seq(Nat) /\ Range(backlog') = Range(backlog) \ {Head(backlog)}
         /\ \A q \in Range(backlog') : Head(backlog) < q
         /\ LineIsOrdered'
<1>1. backlog \in Seq(Nat) /\ Len(backlog) >= 1 /\ Head(backlog) = backlog[1]
        /\ 1 \in DOMAIN backlog
  BY DEF McpInv, McpTypeOK
<1>2. /\ backlog' \in Seq(Nat) /\ DOMAIN backlog' = 1 .. Len(backlog) - 1
      /\ \A i \in DOMAIN backlog' : backlog'[i] = backlog[i + 1] /\ i + 1 \in DOMAIN backlog
           /\ 1 < i + 1
  BY <1>1
<1>3. \A i \in DOMAIN backlog : i = 1 \/ (i - 1 \in DOMAIN backlog' /\ backlog[i] = backlog'[i - 1])
  BY <1>1, <1>2
<1>4. \A i, j \in DOMAIN backlog : i < j => backlog[i] < backlog[j]
  BY DEF McpInv, LineIsOrdered
<1>5. \A i \in DOMAIN backlog : backlog[i] \in Nat
  BY <1>1
<1>6. LineIsOrdered'
  BY <1>1, <1>2, <1>4 DEF LineIsOrdered
<1>7. \A q \in Range(backlog') : Head(backlog) < q
  BY <1>1, <1>2, <1>4 DEF Range
<1>8. Head(backlog) \notin Range(backlog')
  BY <1>1, <1>5, <1>7
<1>9. Range(backlog') = Range(backlog) \ {Head(backlog)}
  <2>1. \A q \in Range(backlog') : q \in Range(backlog)
    BY <1>2 DEF Range
  <2>2. \A q \in Range(backlog) : q = Head(backlog) \/ q \in Range(backlog')
    BY <1>1, <1>3 DEF Range
  <2>3. QED
    BY <1>8, <2>1, <2>2
<1>10. Head(backlog) \in Range(backlog)
  BY <1>1 DEF Range
<1>11. QED
  BY <1>2, <1>6, <1>7, <1>9, <1>10

\* A request arrives: it takes a slot if there is one, or the last place in line.
LEMMA RequestIsServed ==
  ASSUME McpInv, M!RequestArrives
  PROVE  McpInv'
<1> DEFINE r == Len(sent) + 1
<1>1. PICK id \in ClientIds :
        /\ sent' = Append(sent, id)
        /\ IF M!Cardinality(inFlight) < MaxInFlight
             THEN M!Dispatches(r, id, inFlight, registry) /\ UNCHANGED backlog
             ELSE backlog' = Append(backlog, r) /\ UNCHANGED <<inFlight, registry, twins>>
  BY DEF M!RequestArrives
<1>2. open /\ ~done /\ UNCHANGED <<answers, open, done>>
  BY DEF M!RequestArrives, M!ReadsLine, McpInv
<1>3. /\ sent \in Seq(ClientIds) /\ r \in Nat \ {0} /\ sent' \in Seq(ClientIds)
      /\ DOMAIN sent' = DOMAIN sent \cup {r} /\ r \notin DOMAIN sent
      /\ sent'[r] = id /\ \A q \in DOMAIN sent : sent'[q] = sent[q] /\ sent[q] \in ClientIds
           /\ q < r
  BY <1>1 DEF McpInv, McpTypeOK
<1>4. inFlight \subseteq DOMAIN sent /\ r \notin inFlight /\ IsFiniteSet(inFlight)
  BY <1>3 DEF McpInv, McpTypeOK
<1> HIDE DEF r
<1>5. CASE Cardinality(inFlight) < MaxInFlight
  <2>1. M!Dispatches(r, id, inFlight, registry) /\ UNCHANGED backlog
    BY <1>1, <1>5, McpSets
  <2>2. backlog = << >>
    BY <1>5, SlotsOf, McpAssumption
  <2>3. inFlight' = inFlight \cup {r} /\ registry' \in [ClientIds -> Nat] /\ TwinsAreKnown'
          /\ M!Cancellable'
    <3>1. registry \in [ClientIds -> Nat]
      BY DEF McpInv, McpTypeOK
    <3>2. /\ \A i \in ClientIds : registry[i] # 0 =>
               registry[i] \in inFlight /\ sent[registry[i]] = i
          /\ \A q \in inFlight \ twins : registry[sent[q]] = q
          /\ \A p, q \in inFlight : p # q /\ sent[p] = sent[q] => p \in twins
      BY DEF McpInv, M!Cancellable, TwinsAreKnown
    <3>3. \A q \in inFlight : sent'[q] = sent[q] /\ sent[q] \in ClientIds
      BY <1>3, <1>4
    <3>4. QED
      BY <1>3, <1>4, <2>1, <3>1, <3>2, <3>3, Dispatched
  <2>4. IsFiniteSet(inFlight') /\ Cardinality(inFlight') = Cardinality(inFlight) + 1
    BY <1>4, <2>3, FS_AddElement
  <2>5. McpTypeOK'
    BY <1>2, <1>3, <1>4, <2>1, <2>3, <2>4 DEF McpInv, McpTypeOK
  <2>6. Cardinality(inFlight') <= MaxInFlight
    BY <1>5, <2>4, SlotsOf, McpAssumption
  <2>7. Range(backlog) = {}
    BY <2>2 DEF Range
  <2>8. M!InTurn'
    BY <1>2, <1>3, <2>1, <2>2, <2>3, <2>6, <2>7, SlotsOf, McpSets DEF M!InTurn, M!Waiting
  <2>9. LineIsOrdered'
    BY <2>1 DEF McpInv, LineIsOrdered
  <2>10. QED
    BY <1>2, <2>3, <2>5, <2>8, <2>9 DEF McpInv
<1>6. CASE ~(Cardinality(inFlight) < MaxInFlight)
  <2>1. backlog' = Append(backlog, Len(sent) + 1) /\ UNCHANGED <<inFlight, registry, twins>>
    BY <1>1, <1>6, McpSets DEF r
  <2>2. backlog' \in Seq(Nat) /\ Range(backlog') = Range(backlog) \cup {r} /\ LineIsOrdered'
    BY <2>1, LastInLine DEF r
  <2>3. McpTypeOK'
    BY <1>2, <1>3, <2>1, <2>2 DEF McpInv, McpTypeOK
  <2>4. Cardinality(inFlight) = MaxInFlight
    BY <1>6, SlotsOf, McpAssumption
  <2>5. \A q \in inFlight \cup answers : q < r /\ q \in DOMAIN sent
    BY <1>3, SlotsOf
  <2>6. M!InTurn'
    <3>1. /\ DOMAIN sent' = Range(backlog') \cup inFlight \cup answers
          /\ inFlight \cap answers = {} /\ Range(backlog') \cap (inFlight \cup answers) = {}
      BY <1>3, <2>2, <2>5, SlotsOf
    <3>2. \A q \in Range(backlog'), p \in inFlight \cup answers : p < q
      BY <2>2, <2>5, SlotsOf
    <3>3. QED
      BY <1>2, <2>1, <2>4, <3>1, <3>2, McpSets, McpAssumption DEF M!InTurn, M!Waiting
  <2>7. TwinsAreKnown'
    BY <1>3, <1>4, <2>1 DEF McpInv, TwinsAreKnown
  <2>8. M!Cancellable'
    BY <1>3, <1>4, <2>1 DEF McpInv, M!Cancellable
  <2>9. QED
    BY <1>2, <2>2, <2>3, <2>6, <2>7, <2>8 DEF McpInv
<1>7. QED
  BY <1>5, <1>6

\* A request is answered: the first in line takes its slot.
LEMMA AnswerLetsIn ==
  ASSUME McpInv, M!Answered
  PROVE  McpInv'
<1>1. PICK r \in inFlight :
        /\ answers' = answers \cup {r}
        /\ LET freed == [registry EXCEPT ![sent[r]] = 0]
           IN IF backlog = <<>>
              THEN inFlight' = inFlight \ {r} /\ registry' = freed /\ UNCHANGED <<backlog, twins>>
              ELSE /\ M!Dispatches(M!NextInLine, sent[M!NextInLine], inFlight \ {r}, freed)
                   /\ backlog' = Tail(backlog)
  BY DEF M!Answered
<1>2. UNCHANGED <<sent, open, done>> /\ ~done
  BY <1>1 DEF M!Answered, McpInv
<1> DEFINE freed == [registry EXCEPT ![sent[r]] = 0]
           others == inFlight \ {r}
<1>3. /\ sent \in Seq(ClientIds) /\ inFlight \subseteq DOMAIN sent /\ IsFiniteSet(inFlight)
      /\ registry \in [ClientIds -> Nat] /\ sent[r] \in ClientIds /\ backlog \in Seq(Nat)
  BY DEF McpInv, McpTypeOK
<1>4. /\ freed \in [ClientIds -> Nat] /\ freed[sent[r]] = 0
      /\ \A i \in ClientIds : i # sent[r] => freed[i] = registry[i]
  BY <1>3
<1>5. /\ \A i \in ClientIds : registry[i] # 0 => registry[i] \in inFlight /\ sent[registry[i]] = i
      /\ \A q \in inFlight \ twins : registry[sent[q]] = q
      /\ \A p, q \in inFlight : p # q /\ sent[p] = sent[q] => p \in twins
  BY DEF McpInv, M!Cancellable, TwinsAreKnown
<1>6. IsFiniteSet(others) /\ Cardinality(others) = Cardinality(inFlight) - 1
  BY <1>3, FS_RemoveElement
<1> HIDE DEF freed, others
<1>7. /\ \A i \in ClientIds : freed[i] # 0 => freed[i] \in others /\ sent[freed[i]] = i
      /\ \A q \in others \ twins : freed[sent[q]] = q
      /\ \A p, q \in others : p # q /\ sent[p] = sent[q] => p \in twins
  <2>1. \A q \in others \ twins : sent[q] # sent[r] /\ sent[q] \in ClientIds
    BY <1>3, <1>5 DEF others
  <2>2. \A i \in ClientIds : freed[i] # 0 => freed[i] = registry[i] /\ i # sent[r]
    BY <1>4
  <2>3. \A i \in ClientIds : freed[i] # 0 => freed[i] \in others /\ sent[freed[i]] = i
    BY <1>5, <2>2 DEF others
  <2>4. \A q \in others \ twins : freed[sent[q]] = q
    BY <1>4, <1>5, <2>1 DEF others
  <2>5. QED
    BY <1>5, <2>3, <2>4 DEF others
<1>8. CASE backlog = << >>
  <2>1. inFlight' = others /\ registry' = freed /\ UNCHANGED <<backlog, twins>>
    BY <1>1, <1>8 DEF freed, others
  <2>2. McpTypeOK'
    BY <1>2, <1>3, <1>4, <1>6, <2>1 DEF McpInv, McpTypeOK, others
  <2>3. M!InTurn'
    <3>1. Range(backlog) = {}
      BY <1>8 DEF Range
    <3>2. Cardinality(others) <= MaxInFlight
      BY <1>6, SlotsOf, McpAssumption
    <3>3. DOMAIN sent = others \cup answers' /\ others \cap answers' = {}
      BY <1>1, <3>1, SlotsOf DEF others
    <3>4. QED
      BY <1>2, <1>8, <2>1, <3>1, <3>2, <3>3, McpSets DEF M!InTurn, M!Waiting
  <2>4. TwinsAreKnown' /\ M!Cancellable'
    BY <1>2, <1>7, <2>1 DEF TwinsAreKnown, M!Cancellable
  <2>5. QED
    BY <1>2, <2>1, <2>2, <2>3, <2>4 DEF McpInv, LineIsOrdered
<1>9. CASE backlog # << >>
  <2> DEFINE h == Head(backlog)
  <2>1. M!Dispatches(h, sent[h], others, freed) /\ backlog' = Tail(backlog)
    BY <1>1, <1>9 DEF freed, others, M!NextInLine
  <2>2. /\ h \in Range(backlog) /\ backlog' \in Seq(Nat) /\ Range(backlog') = Range(backlog) \ {h}
        /\ \A q \in Range(backlog') : h < q
        /\ LineIsOrdered'
    BY <1>9, <2>1, FirstLeaves
  <2>3. h \in DOMAIN sent /\ h \notin inFlight /\ h \notin answers
    BY <2>2, SlotsOf
  <2>4. h \in Nat \ {0} /\ sent[h] \in ClientIds
    BY <1>3, <2>3
  <2> HIDE DEF h
  <2>5. inFlight' = others \cup {h} /\ registry' \in [ClientIds -> Nat] /\ TwinsAreKnown'
          /\ M!Cancellable'
    <3>1. h \notin others /\ sent'[h] = sent[h]
      BY <1>2, <2>3 DEF others
    <3>2. \A q \in others : sent'[q] = sent[q] /\ sent[q] \in ClientIds
      BY <1>2, <1>3 DEF others
    <3>3. QED
      BY <1>4, <1>7, <2>1, <2>4, <3>1, <3>2, Dispatched
  <2>6. IsFiniteSet(inFlight') /\ Cardinality(inFlight') = Cardinality(inFlight)
    <3>1. h \notin others
      BY <2>3 DEF others
    <3>2. Cardinality(inFlight') = Cardinality(others) + 1 /\ IsFiniteSet(inFlight')
      BY <1>6, <2>5, <3>1, FS_AddElement
    <3>3. QED
      BY <1>6, <3>2, SlotsOf
  <2>7. McpTypeOK'
    BY <1>2, <1>3, <2>2, <2>3, <2>5, <2>6 DEF McpInv, McpTypeOK, others
  <2>8. M!InTurn'
    <3>1. Cardinality(inFlight') = MaxInFlight
      BY <1>9, <2>6, SlotsOf
    <3>2. inFlight' \cup answers' = inFlight \cup answers \cup {h}
      BY <1>1, <2>5 DEF others
    <3>3. /\ DOMAIN sent = Range(backlog') \cup inFlight' \cup answers'
          /\ Range(backlog') \cap (inFlight' \cup answers') = {}
      BY <2>2, <3>2, SlotsOf
    <3>4. inFlight' \cap answers' = {}
      BY <1>1, <2>3, <2>5, SlotsOf DEF others
    <3>5. \A q \in Range(backlog'), p \in inFlight' \cup answers' : p < q
      BY <2>2, <3>2, SlotsOf
    <3>6. QED
      BY <1>2, <3>1, <3>3, <3>4, <3>5, McpSets, McpAssumption DEF M!InTurn, M!Waiting
  <2>9. QED
    BY <1>2, <2>2, <2>5, <2>7, <2>8 DEF McpInv
<1>10. QED
  BY <1>8, <1>9

\* Every step of Mcp, and every stutter, keeps what holds of it.
LEMMA McpStep ==
  ASSUME McpInv, [M!Next]_ofMcp
  PROVE  McpInv'
<1>1. CASE M!CancelArrives \/ M!Closes \/ M!Returns \/ UNCHANGED ofMcp
  <2>1. UNCHANGED <<sent, backlog, inFlight, registry, answers, twins>>
    BY <1>1 DEF M!CancelArrives, M!Closes, M!Returns, ofMcp
  <2>2. open' \in BOOLEAN /\ done' \in BOOLEAN
    BY <1>1 DEF M!CancelArrives, M!Closes, M!Returns, ofMcp, McpInv, McpTypeOK
  <2>3. done' => ~open' /\ inFlight = {} /\ backlog = << >>
    BY <1>1 DEF M!CancelArrives, M!ReadsLine, M!Closes, M!Returns, ofMcp, McpInv
  <2>4. M!InTurn' /\ M!Cancellable'
    BY <2>1, McpSets DEF McpInv, M!InTurn, M!Waiting, M!Cancellable
  <2>5. QED
    BY <2>1, <2>2, <2>3, <2>4 DEF McpInv, McpTypeOK, LineIsOrdered, TwinsAreKnown
<1>2. QED
  BY <1>1, RequestIsServed, AnswerLetsIn DEF M!Next

\* What holds of Mcp is that an agent's requests are served in turn.
LEMMA McpServes == McpInv => M!ServesAll
<1> SUFFICES ASSUME McpInv PROVE M!ServesAll
  OBVIOUS
<1>1. done => answers = DOMAIN sent
  <2> SUFFICES ASSUME done PROVE answers = DOMAIN sent
    OBVIOUS
  <2>1. backlog = << >> /\ inFlight = {}
    BY DEF McpInv
  <2>2. Range(backlog) = {}
    BY <2>1 DEF Range
  <2>3. QED
    BY <2>1, <2>2, SlotsOf
<1>2. QED
  BY <1>1 DEF McpInv, M!ServesAll

(*****************************************************************************)
(* Recipe: the copies of a run, and its retries                              *)
(*****************************************************************************)
Blocks == UNION {{c[i] : i \in DOMAIN c} : c \in Contents}
Combos == Sources \X Wordings \X Engines

\* The fields of the copy that is under way, and of a retry.
IsCopy(o) == o \in [file : Sources, bytes : Contents, size : Nat, got : Seq(Blocks)]
IsRetry(r) == r \in [asked : [Combos -> Nat], left : SUBSET (Sources \X Wordings), made : {r.made},
                     is : {"under way", "answered", "refused"}]

RecipeTypeOK ==
    /\ legacy \in BOOLEAN /\ failed \in [Combos -> Nat]
    /\ source \in [Sources -> Contents \cup {None}] /\ opening \in [Sources -> Contents \cup {None}]
    /\ todo \in Seq(Sources) /\ retries \in Seq(Range(retries))
    /\ opened # None => IsCopy(opened)

\* What is being copied is the first of what is left, and what it held when it was opened.
CopyUnderWay ==
    opened # None =>
      /\ stageOf = "copying" /\ todo # << >> /\ opened.file = Head(todo)
      /\ opening[opened.file] \in Contents /\ opened.size = Len(opening[opened.file])
      /\ opened.file \notin torn =>
           /\ opened.bytes = opening[opened.file] /\ Len(opened.got) <= Len(opened.bytes)
           /\ \A i \in DOMAIN opened.got : opened.got[i] = opened.bytes[i]

\* What is left to copy has not been copied.
CopiedOnce ==
    /\ \A i, j \in DOMAIN todo : todo[i] = todo[j] => i = j
    /\ \A i \in DOMAIN todo : todo[i] \notin DOMAIN spec

\* A retry has made what it was asked for of the groups that it is through with.
RetryFits(r, old, hashes) ==
    /\ IsRetry(r) /\ r.left \subseteq R!Groups(r.asked)
    /\ \A b \in r.made : /\ b.of \in Combos /\ r.asked[b.of] > 0 /\ b.jobs = r.asked[b.of]
                         /\ <<b.of[1], b.of[2]>> \notin r.left
    /\ \A b, c \in r.made : b.of = c.of => b = c
    /\ r.is # "under way" => r.left = {}
    /\ r.is # "refused" => \A k \in Combos : r.asked[k] > 0 =>
                             <<k[1], k[2]>> \in r.left \/ \E b \in r.made : b.of = k
    /\ ~old => /\ r.is # "answered" => r.made = {}
               /\ \A b \in r.made : b.image = hashes[b.of[1]] /\ b.version = 1
RetryOK(r) == RetryFits(r, legacy, spec)

RetriesOK ==
    /\ \A q \in DOMAIN retries : RetryOK(retries[q])
    /\ retries # << >> => stageOf = "ended"

RecipeInv == RecipeTypeOK /\ CopyUnderWay /\ CopiedOnce /\ R!CopiesAreTrue /\ RetriesOK

\* Recipe: nothing is copied, and nothing retried.
LEMMA RecipeStarts == R!Init => RecipeInv
<1> SUFFICES ASSUME R!Init PROVE RecipeInv
  OBVIOUS
<1>1. /\ source \in [Sources -> Contents] /\ legacy \in BOOLEAN /\ opening = source
      /\ todo = (IF legacy THEN << >> ELSE Order) /\ opened = None /\ spec = << >>
      /\ failed = R!NoneFailed /\ retries = << >>
  BY DEF R!Init
<1>2. failed \in [Combos -> Nat]
  BY <1>1 DEF R!NoneFailed, Combos
<1>3. todo \in Seq(Sources) /\ \A i, j \in DOMAIN todo : todo[i] = todo[j] => i = j
  BY <1>1, RecipeAssumption
<1>4. retries \in Seq(Range(retries))
  BY <1>1
<1>5. RecipeTypeOK
  BY <1>1, <1>2, <1>3, <1>4 DEF RecipeTypeOK
<1>6. CopyUnderWay /\ CopiedOnce /\ R!CopiesAreTrue /\ RetriesOK
  BY <1>1, <1>3 DEF CopyUnderWay, CopiedOnce, R!CopiesAreTrue, RetriesOK
<1>7. QED
  BY <1>5, <1>6 DEF RecipeInv

\* What neither copies nor retries.
LEMMA RecipeIsQuiet ==
  ASSUME RecipeInv, UNCHANGED <<legacy, todo, opened, opening, torn, spec, retries>>,
         source' \in [Sources -> Contents \cup {None}], failed' \in [Combos -> Nat],
         opened # None => stageOf' = "copying", retries # << >> => stageOf' = "ended"
  PROVE  RecipeInv'
<1>1. RecipeTypeOK' /\ CopyUnderWay' /\ CopiedOnce' /\ R!CopiesAreTrue'
  BY DEF RecipeInv, RecipeTypeOK, CopyUnderWay, CopiedOnce, R!CopiesAreTrue
<1>2. RetriesOK'
  BY DEF RecipeInv, RetriesOK, RetryOK
<1>3. QED
  BY <1>1, <1>2 DEF RecipeInv

\* What goes on around the copies changes none of them.
LEMMA OthersAreQuiet ==
  ASSUME RecipeInv, \/ R!Writes \/ R!Starts \/ R!Ends
                    \/ R!Replaces \/ R!ChangesCatalog \/ R!LosesCopy
  PROVE  RecipeInv'
<1>1. UNCHANGED <<legacy, todo, opened, opening, torn, spec, retries>>
  BY DEF R!Writes, R!Starts, R!Ends, R!Replaces, R!ChangesCatalog, R!LosesCopy
<1>2. source' \in [Sources -> Contents \cup {None}]
  <2>1. CASE R!Replaces
    BY <2>1 DEF R!Replaces, RecipeInv, RecipeTypeOK
  <2>2. CASE ~R!Replaces
    BY <2>2 DEF R!Writes, R!Starts, R!Ends, R!ChangesCatalog, R!LosesCopy, RecipeInv, RecipeTypeOK
  <2>3. QED
    BY <2>1, <2>2
<1>3. failed' \in [Combos -> Nat]
  <2>1. CASE R!Ends
    BY <2>1, RecipeAssumption DEF R!Ends, Combos
  <2>2. CASE ~R!Ends
    BY <2>2
       DEF R!Writes, R!Starts, R!Replaces, R!ChangesCatalog, R!LosesCopy, RecipeInv, RecipeTypeOK
  <2>3. QED
    BY <2>1, <2>2
<1>4. stageOf' # stageOf => opened = None /\ retries = << >>
  BY DEF R!Writes, R!Starts, R!Ends, R!Replaces, R!ChangesCatalog, R!LosesCopy, RecipeInv,
     CopyUnderWay, RetriesOK
<1>5. opened # None => stageOf' = "copying"
  BY <1>4 DEF RecipeInv, CopyUnderWay
<1>6. retries # << >> => stageOf' = "ended"
  BY <1>4 DEF RecipeInv, RetriesOK
<1>7. QED
  BY <1>1, <1>2, <1>3, <1>5, <1>6, RecipeIsQuiet

\* Before the run has ended nothing of it is retried.
LEMMA NoRetryYet ==
  ASSUME RecipeInv, stageOf = "copying", UNCHANGED <<legacy, retries>>
  PROVE  retries = << >> /\ RetriesOK'
<1>1. retries = << >>
  BY DEF RecipeInv, RetriesOK
<1>2. QED
  BY <1>1 DEF RetriesOK

\* A file is opened: what it holds is what is copied.
LEMMA OpensFits ==
  ASSUME RecipeInv, R!Opens
  PROVE  RecipeInv'
<1> DEFINE f == Head(todo)
<1>1. /\ stageOf = "copying" /\ opened = None /\ todo # << >>
      /\ UNCHANGED <<source, legacy, torn, spec, failed, retries, todo>>
      /\ IF source[f] = None THEN opened' = None /\ opening' = opening
         ELSE /\ opened' = [file |-> f, bytes |-> source[f], size |-> Len(source[f]), got |-> <<>>]
              /\ opening' = [opening EXCEPT ![f] = source[f]] /\ stageOf' = stageOf
  BY DEF R!Opens, R!Refused
<1>2. RetriesOK'
  BY <1>1, NoRetryYet
<1>3. todo \in Seq(Sources) /\ f \in Sources /\ f = todo[1] /\ 1 \in DOMAIN todo
  BY <1>1 DEF RecipeInv, RecipeTypeOK
<1>4. CopiedOnce'
  BY <1>1 DEF RecipeInv, CopiedOnce
<1>5. f \notin DOMAIN spec
  BY <1>3 DEF RecipeInv, CopiedOnce
<1> HIDE DEF f
<1>6. CASE source[f] = None
  BY <1>1, <1>2, <1>4, <1>6 DEF RecipeInv, RecipeTypeOK, CopyUnderWay, R!CopiesAreTrue
<1>7. CASE source[f] # None
  <2>1. /\ opened' = [file |-> f, bytes |-> source[f], size |-> Len(source[f]), got |-> <<>>]
        /\ opening' = [opening EXCEPT ![f] = source[f]] /\ stageOf' = stageOf
    BY <1>1, <1>7
  <2>2. source[f] \in Contents /\ source[f] \in Seq(Blocks)
    BY <1>3, <1>7, RecipeAssumption DEF RecipeInv, RecipeTypeOK, Blocks
  <2>3. IsCopy(opened') /\ opened'.file = f /\ opened'.bytes = source[f]
          /\ opened'.size = Len(source[f]) /\ opened'.got = << >>
    BY <1>3, <2>1, <2>2 DEF IsCopy
  <2>4. /\ opening' \in [Sources -> Contents \cup {None}] /\ opening'[f] = source[f]
        /\ \A g \in DOMAIN spec : opening'[g] = opening[g]
    <3>1. opening \in [Sources -> Contents \cup {None}]
      BY DEF RecipeInv, RecipeTypeOK
    <3>2. \A g : g # f => opening'[g] = opening[g]
      BY <2>1
    <3>3. QED
      BY <1>3, <1>5, <2>1, <2>2, <3>1, <3>2
  <2>5. RecipeTypeOK'
    BY <1>1, <2>3, <2>4 DEF RecipeInv, RecipeTypeOK
  <2>6. CopyUnderWay'
    BY <1>1, <2>1, <2>2, <2>3, <2>4 DEF CopyUnderWay, f
  <2>7. R!CopiesAreTrue'
    BY <1>1, <2>4 DEF RecipeInv, R!CopiesAreTrue
  <2>8. QED
    BY <1>2, <1>4, <2>5, <2>6, <2>7 DEF RecipeInv
<1>8. QED
  BY <1>6, <1>7

\* A block more is read, of what the file held when it was opened.
LEMMA ReadsFits ==
  ASSUME RecipeInv, R!Reads
  PROVE  RecipeInv'
<1>1. /\ stageOf = "copying" /\ opened # None /\ Len(opened.got) < Len(opened.bytes)
      /\ opened' = [opened EXCEPT !.got = Append(opened.got, opened.bytes[Len(opened.got) + 1])]
      /\ UNCHANGED <<source, legacy, stageOf, todo, opening, torn, spec, failed, retries>>
  BY DEF R!Reads
<1>2. IsCopy(opened) /\ opened.bytes \in Seq(Blocks) /\ opened.got \in Seq(Blocks)
  BY <1>1, RecipeAssumption DEF RecipeInv, RecipeTypeOK, IsCopy, Blocks
<1> DEFINE next == opened.bytes[Len(opened.got) + 1]
           longer == Append(opened.got, next)
<1>3. next \in Blocks
  BY <1>1, <1>2
<1>4. /\ longer \in Seq(Blocks) /\ Len(longer) = Len(opened.got) + 1
      /\ \A i \in DOMAIN longer :
           longer[i] = IF i \in DOMAIN opened.got THEN opened.got[i] ELSE next
      /\ \A i \in DOMAIN longer : i \in DOMAIN opened.got \/ i = Len(opened.got) + 1
  BY <1>2, <1>3
<1>5. IsCopy(opened') /\ opened'.got = longer /\ opened'.file = opened.file
        /\ opened'.bytes = opened.bytes /\ opened'.size = opened.size
  BY <1>1, <1>2, <1>4 DEF IsCopy
<1>6. Len(longer) <= Len(opened.bytes)
  BY <1>1, <1>2, <1>4
<1>7. opened.file \notin torn => \A i \in DOMAIN longer : longer[i] = opened.bytes[i]
  BY <1>1, <1>4 DEF RecipeInv, CopyUnderWay
<1> HIDE DEF next, longer
<1>8. CopyUnderWay'
  BY <1>1, <1>5, <1>6, <1>7 DEF RecipeInv, CopyUnderWay
<1>9. RecipeTypeOK' /\ CopiedOnce' /\ R!CopiesAreTrue'
  BY <1>1, <1>5 DEF RecipeInv, RecipeTypeOK, CopiedOnce, R!CopiesAreTrue
<1>10. RetriesOK'
  BY <1>1, NoRetryYet
<1>11. QED
  BY <1>8, <1>9, <1>10 DEF RecipeInv

\* A file is copied to its end, and what was read is what it held.
LEMMA CopiedFits ==
  ASSUME RecipeInv, R!Copied
  PROVE  RecipeInv'
<1>1. /\ stageOf = "copying" /\ opened # None /\ Len(opened.got) >= Len(opened.bytes)
      /\ UNCHANGED <<source, legacy, torn, failed, retries, opening>> /\ opened' = None
      /\ IF R!SizeIsKept
         THEN /\ todo' = Tail(todo)
              /\ spec' = [g \in DOMAIN spec \cup {opened.file} |->
                            IF g = opened.file THEN opened.got ELSE spec[g]]
         ELSE UNCHANGED <<todo, spec>>
  BY DEF R!Copied, R!Refused
<1>2. RetriesOK'
  BY <1>1, NoRetryYet
<1>3. CopyUnderWay'
  BY <1>1 DEF CopyUnderWay
<1>4. CASE ~R!SizeIsKept
  <2>1. UNCHANGED <<todo, spec>>
    BY <1>1, <1>4
  <2>2. RecipeTypeOK' /\ CopiedOnce' /\ R!CopiesAreTrue'
    BY <1>1, <2>1 DEF RecipeInv, RecipeTypeOK, CopiedOnce, R!CopiesAreTrue
  <2>3. QED
    BY <1>2, <1>3, <2>2 DEF RecipeInv
<1>5. CASE R!SizeIsKept
  <2> DEFINE f == opened.file
  <2>1. /\ todo' = Tail(todo) /\ DOMAIN spec' = DOMAIN spec \cup {f}
        /\ spec'[f] = opened.got /\ \A g \in DOMAIN spec : g # f => spec'[g] = spec[g]
    BY <1>1, <1>5
  <2>2. /\ IsCopy(opened) /\ todo # << >> /\ f = Head(todo) /\ opened.size = Len(opening[f])
        /\ f \notin torn => /\ opened.bytes = opening[f] /\ Len(opened.got) <= Len(opened.bytes)
                            /\ \A i \in DOMAIN opened.got : opened.got[i] = opened.bytes[i]
    BY <1>1 DEF RecipeInv, RecipeTypeOK, CopyUnderWay
  <2>3. todo \in Seq(Sources) /\ Len(opened.got) = Len(opening[f])
    BY <1>5, <2>2 DEF R!SizeIsKept, RecipeInv, RecipeTypeOK
  <2>4. /\ todo' \in Seq(Sources) /\ DOMAIN todo' = 1 .. Len(todo) - 1 /\ f = todo[1]
             /\ 1 \in DOMAIN todo
        /\ \A i \in DOMAIN todo' : todo'[i] = todo[i + 1] /\ i + 1 \in DOMAIN todo /\ i + 1 # 1
    BY <2>1, <2>2, <2>3
  <2>5. /\ \A i, j \in DOMAIN todo : todo[i] = todo[j] => i = j
        /\ \A i \in DOMAIN todo : todo[i] \notin DOMAIN spec
    BY DEF RecipeInv, CopiedOnce
  <2>6. CopiedOnce'
    <3>1. \A i, j \in DOMAIN todo' : todo'[i] = todo'[j] => i = j
      BY <2>4, <2>5
    <3>2. \A i \in DOMAIN todo' : todo'[i] \notin DOMAIN spec /\ todo'[i] # f
      BY <2>4, <2>5
    <3>3. QED
      BY <2>1, <3>1, <3>2 DEF CopiedOnce
  <2>7. f \notin torn => opened.got = opening[f]
    <3> SUFFICES ASSUME f \notin torn PROVE opened.got = opened.bytes
      BY <2>2
    <3>1. opened.got \in Seq(Blocks) /\ opened.bytes \in Seq(Blocks)
      BY <2>2, RecipeAssumption DEF IsCopy, Blocks
    <3>2. Len(opened.got) = Len(opened.bytes)
      BY <2>2, <2>3
    <3>3. \A i \in 1 .. Len(opened.got) : opened.got[i] = opened.bytes[i]
      BY <2>2, <3>1
    <3>4. QED
      BY <3>1, <3>2, <3>3
  <2> HIDE DEF f
  <2>8. R!CopiesAreTrue'
    <3> SUFFICES ASSUME NEW g \in DOMAIN spec \cup {f}
                 PROVE  (g \notin torn => spec'[g] = opening[g]) /\ Len(spec'[g]) = Len(opening[g])
      BY <1>1, <2>1 DEF R!CopiesAreTrue
    <3>1. CASE g = f
      BY <2>1, <2>3, <2>7, <3>1
    <3>2. CASE g # f
      BY <2>1, <3>2 DEF RecipeInv, R!CopiesAreTrue
    <3>3. QED
      BY <3>1, <3>2
  <2>9. RecipeTypeOK'
    BY <1>1, <2>4 DEF RecipeInv, RecipeTypeOK
  <2>10. QED
    BY <1>2, <1>3, <2>6, <2>8, <2>9 DEF RecipeInv
<1>6. QED
  BY <1>4, <1>5

\* A file is written anew while it is copied, and is torn then.
LEMMA RewritesFits ==
  ASSUME RecipeInv, R!Rewrites
  PROVE  RecipeInv'
<1>1. PICK c \in Contents :
        /\ opened # None /\ source' = [source EXCEPT ![opened.file] = c]
        /\ opened' = [opened EXCEPT !.bytes = c] /\ torn' = torn \cup {opened.file}
        /\ UNCHANGED <<legacy, stageOf, todo, opening, spec, failed, retries>>
  BY DEF R!Rewrites
<1>2. IsCopy(opened)
  BY <1>1 DEF RecipeInv, RecipeTypeOK
<1>3. IsCopy(opened') /\ opened'.file = opened.file /\ opened'.size = opened.size
  BY <1>1, <1>2 DEF IsCopy
<1>4. CopyUnderWay'
  BY <1>1, <1>3 DEF RecipeInv, CopyUnderWay
<1>5. RecipeTypeOK'
  BY <1>1, <1>3 DEF RecipeInv, RecipeTypeOK
<1>6. CopiedOnce' /\ R!CopiesAreTrue'
  BY <1>1 DEF RecipeInv, CopiedOnce, R!CopiesAreTrue
<1>7. stageOf = "copying"
  BY <1>1 DEF RecipeInv, CopyUnderWay
<1>8. RetriesOK'
  BY <1>1, <1>7, NoRetryYet
<1>9. QED
  BY <1>4, <1>5, <1>6, <1>8 DEF RecipeInv

-----------------------------------------------------------------------------
\* There are finitely many combinations of a file, a prompt and a model.
LEMMA CombosAreFinite == IsFiniteSet(Combos)
<1> DEFINE Nested == (Sources \X Wordings) \X Engines
           f == [k \in Combos |-> <<<<k[1], k[2]>>, k[3]>>]
<1>1. IsFiniteSet(Nested)
  BY RecipeAssumption, FS_Product
<1>2. f \in [Combos -> Nested] /\ \A j, k \in Combos : f[j] = f[k] => j = k
  BY DEF Combos
<1>3. f \in Injection(Combos, Nested)
  BY <1>2 DEF Injection, IsInjective
<1>4. QED
  BY <1>1, <1>3, FS_Injection

\* A batch is of what is asked for of one group, one job of each combination.
LEMMA BatchIsExact ==
  ASSUME NEW t \in [Combos -> Nat], NEW g \in R!Groups(t)
  PROVE  /\ g \in Sources \X Wordings
         /\ \A b \in R!Batch(t, g) :
              /\ b.of \in Combos /\ t[b.of] > 0 /\ b.jobs = t[b.of] /\ <<b.of[1], b.of[2]>> = g
              /\ ~legacy => b.image = spec[b.of[1]] /\ b.version = 1
         /\ \A b, c \in R!Batch(t, g) : b.of = c.of => b = c
         /\ \A k \in Combos : t[k] > 0 /\ <<k[1], k[2]>> = g => \E b \in R!Batch(t, g) : b.of = k
<1> DEFINE Job(m) == [of |-> <<g[1], g[2], m>>, jobs |-> t[<<g[1], g[2], m>>],
                      image |-> IF legacy THEN source[g[1]] ELSE spec[g[1]],
                      version |-> IF legacy THEN catalog[m] ELSE 1]
<1>1. g \in Sources \X Wordings
  BY DEF R!Groups, Combos
<1>2. R!Batch(t, g) = {Job(m) : m \in R!ModelsOf(t, g)}
  BY DEF R!Batch
<1>3. \A m : /\ Job(m).of = <<g[1], g[2], m>> /\ Job(m).jobs = t[<<g[1], g[2], m>>]
             /\ ~legacy => Job(m).image = spec[g[1]] /\ Job(m).version = 1
  OBVIOUS
<1> HIDE DEF Job
<1>4. \A m \in R!ModelsOf(t, g) : <<g[1], g[2], m>> \in Combos /\ t[<<g[1], g[2], m>>] > 0
  BY <1>1 DEF R!ModelsOf, Combos
<1>5. \A b \in R!Batch(t, g) :
              /\ b.of \in Combos /\ t[b.of] > 0 /\ b.jobs = t[b.of] /\ <<b.of[1], b.of[2]>> = g
              /\ ~legacy => b.image = spec[b.of[1]] /\ b.version = 1
  <2> SUFFICES ASSUME NEW m \in R!ModelsOf(t, g)
               PROVE  LET b == Job(m) IN
                      /\ b.of \in Combos /\ t[b.of] > 0 /\ b.jobs = t[b.of]
                           /\ <<b.of[1], b.of[2]>> = g
                      /\ ~legacy => b.image = spec[b.of[1]] /\ b.version = 1
    BY <1>2
  <2>1. Job(m).of[1] = g[1] /\ Job(m).of[2] = g[2]
    BY <1>3
  <2>2. <<g[1], g[2]>> = g
    BY <1>1
  <2>3. QED
    BY <1>3, <1>4, <2>1, <2>2
<1>6. \A b, c \in R!Batch(t, g) : b.of = c.of => b = c
  <2> SUFFICES ASSUME NEW m, NEW n, Job(m).of = Job(n).of PROVE Job(m) = Job(n)
    BY <1>2
  <2>1. m = n
    BY <1>3
  <2>2. QED
    BY <2>1
<1>7. ASSUME NEW k \in Combos, t[k] > 0, <<k[1], k[2]>> = g
      PROVE  \E b \in R!Batch(t, g) : b.of = k
  <2>1. k = <<g[1], g[2], k[3]>> /\ k[3] \in Engines
    BY <1>7 DEF Combos
  <2>2. k[3] \in R!ModelsOf(t, g)
    BY <1>7, <2>1 DEF R!ModelsOf
  <2>3. Job(k[3]) \in R!Batch(t, g) /\ Job(k[3]).of = k
    BY <1>2, <1>3, <2>1, <2>2
  <2>4. QED
    BY <2>3
<1>8. QED
  BY <1>1, <1>5, <1>6, <1>7

\* One retry is added or changed; the others stay as they are.
LEMMA RetryChanges ==
  ASSUME RecipeInv, stageOf = "ended",
         UNCHANGED <<source, legacy, stageOf, todo, opened, opening, torn, spec, failed>>,
         NEW q \in Nat \ {0}, NEW r, RetryOK(r), retries' \in Seq(Range(retries) \cup {r}),
         DOMAIN retries' = DOMAIN retries \cup {q}, retries'[q] = r,
         \A p \in DOMAIN retries \ {q} : retries'[p] = retries[p]
  PROVE  RecipeInv'
<1>1. \A p \in DOMAIN retries' : RetryFits(retries'[p], legacy', spec')
  <2> SUFFICES ASSUME NEW p \in DOMAIN retries' PROVE RetryFits(retries'[p], legacy', spec')
    OBVIOUS
  <2>1. CASE p = q
    BY <2>1 DEF RetryOK
  <2>2. CASE p # q
    BY <2>2 DEF RecipeInv, RetriesOK, RetryOK
  <2>3. QED
    BY <2>1, <2>2
<1>2. RetriesOK'
  BY <1>1 DEF RetriesOK, RetryOK
<1>4. retries' \in Seq(Range(retries'))
  BY OwnElements
<1>5. RecipeTypeOK' /\ CopyUnderWay' /\ CopiedOnce' /\ R!CopiesAreTrue'
  BY <1>4 DEF RecipeInv, RecipeTypeOK, CopyUnderWay, CopiedOnce, R!CopiesAreTrue
<1>6. QED
  BY <1>2, <1>5 DEF RecipeInv

\* A retry begins: it is asked for what failed.
LEMMA RetriesFits ==
  ASSUME RecipeInv, R!Retries
  PROVE  RecipeInv'
<1>1. /\ stageOf = "ended"
      /\ UNCHANGED <<source, legacy, stageOf, todo, opened, opening, torn, spec, failed>>
  BY DEF R!Retries
<1>2. PICK t \in R!Targets :
         LET asked == R!Runnable(t)
             refused == R!Groups(asked) = {} \/ (~legacy /\ ~R!Readable)
         IN retries' = Append(retries,
                 [asked |-> asked, left |-> IF refused THEN {} ELSE R!Groups(asked), made |-> {},
                  is |-> IF refused THEN "refused" ELSE "under way"])
  BY DEF R!Retries
<1> DEFINE asked == R!Runnable(t)
           refused == R!Groups(asked) = {} \/ (~legacy /\ ~R!Readable)
<1>3. PICK r : r = [asked |-> asked, left |-> IF refused THEN {} ELSE R!Groups(asked), made |-> {},
                    is |-> IF refused THEN "refused" ELSE "under way"]
  OBVIOUS
<1>4. retries' = Append(retries, r)
  BY <1>2, <1>3
<1>5. t \in [Combos -> Nat]
  <2>1. failed \in [Combos -> Nat]
    BY DEF RecipeInv, RecipeTypeOK
  <2>2. R!NoneFailed \in [Combos -> Nat]
    BY DEF R!NoneFailed, Combos
  <2>3. \A k : [R!NoneFailed EXCEPT ![k] = 1] \in [Combos -> Nat]
    BY <2>2
  <2>4. QED
    BY <2>1, <2>3 DEF R!Targets
<1>6. asked \in [Combos -> Nat]
  <2>1. CASE legacy
    BY <1>5, <2>1 DEF R!Runnable
  <2>2. CASE ~legacy
    BY <1>5, <2>2 DEF R!Runnable
  <2>3. QED
    BY <2>1, <2>2
<1> HIDE DEF asked
<1>7. R!Groups(asked) \subseteq Sources \X Wordings
        /\ \A k \in Combos : asked[k] > 0 => <<k[1], k[2]>> \in R!Groups(asked)
  BY <1>6 DEF R!Groups, Combos
<1>8. RetryOK(r)
  <2>1. CASE refused
    <3>1. r = [asked |-> asked, left |-> {}, made |-> {}, is |-> "refused"]
      BY <1>3, <2>1
    <3>2. IsRetry(r) /\ r.left = {} /\ r.made = {} /\ r.is = "refused"
      BY <1>6, <3>1 DEF IsRetry
    <3>3. QED
      BY <3>2 DEF RetryOK, RetryFits
  <2>2. CASE ~refused
    <3>1. r = [asked |-> asked, left |-> R!Groups(asked), made |-> {}, is |-> "under way"]
      BY <1>3, <2>2
    <3>2. IsRetry(r) /\ r.asked = asked /\ r.left = R!Groups(asked) /\ r.made = {}
            /\ r.is = "under way"
      BY <1>6, <1>7, <3>1 DEF IsRetry
    <3>3. QED
      BY <1>7, <3>2 DEF RetryOK, RetryFits
  <2>3. QED
    BY <2>1, <2>2
<1> HIDE DEF refused
<1>9. retries \in Seq(Range(retries) \cup {r})
  BY DEF RecipeInv, RecipeTypeOK
<1>10. PICK q : q = Len(retries) + 1
  OBVIOUS
<1>11. /\ q \in Nat \ {0} /\ retries' \in Seq(Range(retries) \cup {r})
       /\ DOMAIN retries' = DOMAIN retries \cup {q} /\ retries'[q] = r
       /\ \A p \in DOMAIN retries \ {q} : retries'[p] = retries[p]
  BY <1>4, <1>9, <1>10
<1>12. QED
  BY <1>1, <1>8, <1>11, RetryChanges

\* A retry is given another form in its place.
LEMMA RetryReplaced ==
  ASSUME RecipeInv, stageOf = "ended",
         UNCHANGED <<source, legacy, stageOf, todo, opened, opening, torn, spec, failed>>,
         NEW q \in DOMAIN retries, NEW r, RetryOK(r), retries' = [retries EXCEPT ![q] = r]
  PROVE  RecipeInv'
<1>1. retries \in Seq(Range(retries) \cup {r})
  BY DEF RecipeInv, RecipeTypeOK
<1>2. q \in Nat \ {0}
  BY <1>1
<1>3. retries' \in Seq(Range(retries) \cup {r})
  BY <1>1
<1>4. DOMAIN retries' = DOMAIN retries \cup {q} /\ retries'[q] = r
  OBVIOUS
<1>5. \A p \in DOMAIN retries \ {q} : retries'[p] = retries[p]
  OBVIOUS
<1>6. QED
  BY <1>2, <1>3, <1>4, <1>5, RetryChanges

\* A retry with groups left is under way, of a run that has ended.
LEMMA UnderWay ==
  ASSUME RecipeInv, NEW q \in DOMAIN retries, retries[q].left # {}
  PROVE  /\ stageOf = "ended" /\ RetryFits(retries[q], legacy, spec)
         /\ retries[q].is = "under way"
<1>1. retries # << >> /\ RetryFits(retries[q], legacy, spec)
  <2>1. retries \in Seq(Range(retries))
    BY DEF RecipeInv, RecipeTypeOK
  <2>2. QED
    BY <2>1 DEF RecipeInv, RetriesOK, RetryOK
<1>2. QED
  BY <1>1 DEF RecipeInv, RetriesOK, RetryFits

\* What is refused is left as it is; nothing of a run with a spec has been made then.
LEMMA RefusedFits ==
  ASSUME NEW r, NEW n, RetryFits(r, legacy, spec), r.left # {},
         IsRetry(n), n.asked = r.asked, n.left = {}, n.made = r.made, n.is = "refused"
  PROVE  RetryOK(n)
BY DEF RetryFits, RetryOK

\* A retry queues the jobs of one group, as often as they failed.
LEMMA GroupQueued ==
  ASSUME RecipeInv, NEW q \in DOMAIN retries, R!QueuesGroup(q)
  PROVE  RecipeInv'
<1> DEFINE r == retries[q]
<1>1. /\ legacy /\ r.left # {}
      /\ UNCHANGED <<source, legacy, stageOf, todo, opened, opening, torn, spec, failed>>
      /\ \E g \in r.left :
           \/ retries' = [retries EXCEPT ![q].left = r.left \ {g},
                    ![q].made = r.made \cup R!Batch(r.asked, g),
                    ![q].is = IF r.left = {g} THEN "answered" ELSE r.is]
           \/ retries' = [retries EXCEPT ![q].left = {}, ![q].is = "refused"]
  BY DEF R!QueuesGroup
<1>2. stageOf = "ended" /\ RetryFits(r, legacy, spec) /\ r.is = "under way"
  BY <1>1, UnderWay
<1>3. IsRetry(r)
  BY <1>2 DEF RetryFits
<1>4. CASE retries' = [retries EXCEPT ![q].left = {}, ![q].is = "refused"]
  <2>1. PICK n : n = [r EXCEPT !.left = {}, !.is = "refused"]
    OBVIOUS
  <2>2. retries' = [retries EXCEPT ![q] = n]
    BY <1>4, <2>1
  <2>3. IsRetry(n) /\ n.asked = r.asked /\ n.left = {} /\ n.made = r.made /\ n.is = "refused"
    BY <1>3, <2>1 DEF IsRetry
  <2>4. RetryOK(n)
    BY <1>1, <1>2, <2>3, RefusedFits
  <2>5. QED
    BY <1>1, <1>2, <2>2, <2>4, RetryReplaced
<1>5. ASSUME NEW g \in r.left,
             retries' = [retries EXCEPT ![q].left = r.left \ {g},
                    ![q].made = r.made \cup R!Batch(r.asked, g),
                    ![q].is = IF r.left = {g} THEN "answered" ELSE r.is]
      PROVE  RecipeInv'
  <2> DEFINE B == R!Batch(r.asked, g)
  <2>1. PICK n : n = [r EXCEPT !.left = r.left \ {g}, !.made = r.made \cup B,
                               !.is = IF r.left = {g} THEN "answered" ELSE r.is]
    OBVIOUS
  <2>2. retries' = [retries EXCEPT ![q] = n]
    BY <1>5, <2>1
  <2>3. /\ IsRetry(n) /\ n.asked = r.asked /\ n.left = r.left \ {g} /\ n.made = r.made \cup B
        /\ n.is = IF r.left = {g} THEN "answered" ELSE r.is
    BY <1>3, <2>1 DEF IsRetry
  <2>4. r.asked \in [Combos -> Nat] /\ r.left \subseteq R!Groups(r.asked)
    BY <1>2 DEF RetryFits, IsRetry
  <2>5. /\ \A b \in B :
             b.of \in Combos /\ r.asked[b.of] > 0 /\ b.jobs = r.asked[b.of]
               /\ <<b.of[1], b.of[2]>> = g
        /\ \A b, c \in B : b.of = c.of => b = c
        /\ \A k \in Combos : r.asked[k] > 0 /\ <<k[1], k[2]>> = g => \E b \in B : b.of = k
    BY <2>4, BatchIsExact
  <2> HIDE DEF B, r
  <2>6. /\ \A b \in r.made : /\ b.of \in Combos /\ r.asked[b.of] > 0 /\ b.jobs = r.asked[b.of]
                             /\ <<b.of[1], b.of[2]>> \notin r.left
        /\ \A b, c \in r.made : b.of = c.of => b = c
        /\ \A k \in Combos : r.asked[k] > 0 =>
             <<k[1], k[2]>> \in r.left \/ \E b \in r.made : b.of = k
    BY <1>2 DEF RetryFits
  <2>7. n.left \subseteq R!Groups(n.asked)
    BY <2>3, <2>4
  <2>8. \A b \in n.made : /\ b.of \in Combos /\ n.asked[b.of] > 0 /\ b.jobs = n.asked[b.of]
                          /\ <<b.of[1], b.of[2]>> \notin n.left
    BY <2>3, <2>5, <2>6
  <2>9. \A b, c \in n.made : b.of = c.of => b = c
    <3>1. \A b \in r.made, c \in B : b.of # c.of
      BY <1>5, <2>5, <2>6
    <3>2. QED
      BY <2>3, <2>5, <2>6, <3>1
  <2>10. \A k \in Combos : n.asked[k] > 0 => <<k[1], k[2]>> \in n.left \/ \E b \in n.made : b.of = k
    <3> SUFFICES ASSUME NEW k \in Combos, r.asked[k] > 0
                 PROVE  <<k[1], k[2]>> \in r.left \ {g} \/ \E b \in r.made \cup B : b.of = k
      BY <2>3
    <3>1. CASE <<k[1], k[2]>> = g
      BY <2>5, <3>1
    <3>2. CASE <<k[1], k[2]>> # g
      BY <2>6, <3>2
    <3>3. QED
      BY <3>1, <3>2
  <2>11. n.is # "under way" => n.left = {}
    BY <1>2, <2>3
  <2>12. RetryOK(n)
    BY <1>1, <2>3, <2>7, <2>8, <2>9, <2>10, <2>11 DEF RetryOK, RetryFits
  <2>13. QED
    BY <1>1, <1>2, <2>2, <2>12, RetryReplaced
<1>6. QED
  BY <1>1, <1>4, <1>5

\* A retry of a run without copies queues its jobs, and is through.
LEMMA CloneQueued ==
  ASSUME RecipeInv, NEW q \in DOMAIN retries, R!QueuesClone(q)
  PROVE  RecipeInv'
<1> DEFINE r == retries[q]
           jobsOf == UNION {R!Batch(r.asked, g) : g \in r.left}
<1>1. /\ ~legacy /\ r.left # {}
      /\ UNCHANGED <<source, legacy, stageOf, todo, opened, opening, torn, spec, failed>>
      /\ \/ retries' = [retries EXCEPT ![q].left = {}, ![q].is = "answered", ![q].made = jobsOf]
         \/ retries' = [retries EXCEPT ![q].left = {}, ![q].is = "refused"]
  BY DEF R!QueuesClone
<1>2. stageOf = "ended" /\ RetryFits(r, legacy, spec) /\ r.is = "under way"
  BY <1>1, UnderWay
<1>3. IsRetry(r)
  BY <1>2 DEF RetryFits
<1>4. CASE retries' = [retries EXCEPT ![q].left = {}, ![q].is = "refused"]
  <2>1. PICK n : n = [r EXCEPT !.left = {}, !.is = "refused"]
    OBVIOUS
  <2>2. retries' = [retries EXCEPT ![q] = n]
    BY <1>4, <2>1
  <2>3. IsRetry(n) /\ n.asked = r.asked /\ n.left = {} /\ n.made = r.made /\ n.is = "refused"
    BY <1>3, <2>1 DEF IsRetry
  <2>4. RetryOK(n)
    BY <1>1, <1>2, <2>3, RefusedFits
  <2>5. QED
    BY <1>1, <1>2, <2>2, <2>4, RetryReplaced
<1>5. CASE retries' = [retries EXCEPT ![q].left = {}, ![q].is = "answered", ![q].made = jobsOf]
  <2>1. PICK n : n = [r EXCEPT !.left = {}, !.is = "answered", !.made = jobsOf]
    OBVIOUS
  <2>2. retries' = [retries EXCEPT ![q] = n]
    BY <1>5, <2>1
  <2>3. /\ IsRetry(n) /\ n.asked = r.asked /\ n.left = {} /\ n.made = jobsOf /\ n.is = "answered"
    BY <1>3, <2>1 DEF IsRetry
  <2>4. r.asked \in [Combos -> Nat] /\ r.left \subseteq R!Groups(r.asked)
    BY <1>2 DEF RetryFits, IsRetry
  <2>5. \A g \in r.left :
          /\ \A b \in R!Batch(r.asked, g) :
               /\ b.of \in Combos /\ r.asked[b.of] > 0 /\ b.jobs = r.asked[b.of]
               /\ <<b.of[1], b.of[2]>> = g /\ b.image = spec[b.of[1]] /\ b.version = 1
          /\ \A b, c \in R!Batch(r.asked, g) : b.of = c.of => b = c
          /\ \A k \in Combos : r.asked[k] > 0 /\ <<k[1], k[2]>> = g
                                 => \E b \in R!Batch(r.asked, g) : b.of = k
    BY <1>1, <2>4, BatchIsExact
  <2>6. \A b \in jobsOf : \E g \in r.left : b \in R!Batch(r.asked, g)
    OBVIOUS
  <2>7. \A g \in r.left : \A b \in R!Batch(r.asked, g) : b \in jobsOf
    OBVIOUS
  <2>8. \A k \in Combos : r.asked[k] > 0 => <<k[1], k[2]>> \in r.left
    BY <1>1, <1>2 DEF RetryFits
  <2> HIDE DEF jobsOf, r
  <2>9. \A b \in n.made : /\ b.of \in Combos /\ n.asked[b.of] > 0 /\ b.jobs = n.asked[b.of]
                          /\ b.image = spec[b.of[1]] /\ b.version = 1
    BY <2>3, <2>5, <2>6
  <2>10. \A b, c \in n.made : b.of = c.of => b = c
    <3> SUFFICES ASSUME NEW b \in jobsOf, NEW c \in jobsOf, b.of = c.of PROVE b = c
      BY <2>3
    <3>1. PICK g \in r.left : b \in R!Batch(r.asked, g)
      BY <2>6
    <3>2. PICK h \in r.left : c \in R!Batch(r.asked, h)
      BY <2>6
    <3>3. g = h
      BY <2>5, <3>1, <3>2
    <3>4. QED
      BY <2>5, <3>1, <3>2, <3>3
  <2>11. \A k \in Combos : n.asked[k] > 0 => \E b \in n.made : b.of = k
    <3> SUFFICES ASSUME NEW k \in Combos, r.asked[k] > 0 PROVE \E b \in jobsOf : b.of = k
      BY <2>3
    <3>1. PICK g \in r.left : g = <<k[1], k[2]>>
      BY <2>8
    <3>2. PICK b \in R!Batch(r.asked, g) : b.of = k
      BY <2>5, <3>1
    <3>3. QED
      BY <2>7, <3>2
  <2>12. RetryOK(n)
    BY <1>1, <2>3, <2>9, <2>10, <2>11 DEF RetryOK, RetryFits
  <2>13. QED
    BY <1>1, <1>2, <2>2, <2>12, RetryReplaced
<1>6. QED
  BY <1>1, <1>4, <1>5

\* Every step of Recipe, and every stutter, keeps what holds of it.
LEMMA RecipeStep ==
  ASSUME RecipeInv, [R!Next]_ofRecipe
  PROVE  RecipeInv'
<1>1. CASE UNCHANGED ofRecipe
  BY <1>1, RecipeIsQuiet DEF ofRecipe, RecipeInv, RecipeTypeOK, CopyUnderWay, RetriesOK
<1>2. CASE \E q \in DOMAIN retries : R!QueuesGroup(q) \/ R!QueuesClone(q)
  BY <1>2, GroupQueued, CloneQueued
<1>3. QED
  BY <1>1, <1>2, OpensFits, ReadsFits, CopiedFits, OthersAreQuiet, RewritesFits, RetriesFits
     DEF R!Next

\* The part counts as everybody does.
LEMMA RecipeSets == \A A : R!Cardinality(A) = Cardinality(A)
BY DEF R!Cardinality, Cardinality

\* As many jobs as combinations: none is made twice.
LEMMA EachOnce ==
  ASSUME NEW B, \A b \in B : b.of \in Combos, \A b, c \in B : b.of = c.of => b = c
  PROVE  Cardinality(B) = Cardinality({<<b.of, b.jobs>> : b \in B})
<1> DEFINE P == {<<b.of, b.jobs>> : b \in B}
           f == [b \in B |-> b.of]
           g == [b \in B |-> <<b.of, b.jobs>>]
<1>1. f \in Injection(B, Combos)
  BY DEF Injection, IsInjective
<1>2. IsFiniteSet(B)
  BY <1>1, CombosAreFinite, FS_Injection
<1>3. g \in [B -> P] /\ \A b, c \in B : g[b] = g[c] => b = c
  OBVIOUS
<1>4. \A t \in P : \E b \in B : g[b] = t
  OBVIOUS
<1>5. g \in Bijection(B, P)
  BY <1>3, <1>4 DEF Bijection, Injection, Surjection, IsInjective
<1>6. QED
  BY <1>2, <1>5, FS_Bijection DEF ExistsBijection

\* What holds of Recipe is that a run is made of what it was asked for, and a retry of what failed.
LEMMA RecipeIsKeptThen == RecipeInv => R!RecipeIsKept
<1> SUFFICES ASSUME RecipeInv PROVE R!RetriesAreExact
  BY DEF RecipeInv, R!RecipeIsKept
<1> SUFFICES ASSUME NEW q \in DOMAIN retries
             PROVE  LET r == retries[q]
                        all == {<<k, r.asked[k]>> : k \in {k \in DOMAIN r.asked : r.asked[k] > 0}}
                        pairs == {<<b.of, b.jobs>> : b \in r.made}
                    IN /\ pairs \subseteq all /\ R!Cardinality(r.made) = R!Cardinality(pairs)
                       /\ r.is = "answered" => pairs = all
                       /\ r.is = "refused" /\ ~legacy => pairs = {}
                       /\ ~legacy => \A b \in r.made : b.image = spec[b.of[1]] /\ b.version = 1
  BY DEF R!RetriesAreExact
<1> DEFINE r == retries[q]
           all == {<<k, r.asked[k]>> : k \in {k \in DOMAIN r.asked : r.asked[k] > 0}}
           pairs == {<<b.of, b.jobs>> : b \in r.made}
<1>1. RetryFits(r, legacy, spec)
  BY DEF RecipeInv, RetriesOK, RetryOK
<1>2. /\ \A b \in r.made : b.of \in Combos /\ r.asked[b.of] > 0 /\ b.jobs = r.asked[b.of]
      /\ \A b, c \in r.made : b.of = c.of => b = c
      /\ DOMAIN r.asked = Combos
  BY <1>1 DEF RetryFits, IsRetry
<1> HIDE DEF r
<1>3. pairs \subseteq all
  BY <1>2
<1>4. R!Cardinality(r.made) = R!Cardinality(pairs)
  BY <1>2, EachOnce, RecipeSets
<1>5. r.is = "answered" => pairs = all
  <2> SUFFICES ASSUME r.is = "answered", NEW k \in Combos, r.asked[k] > 0
        PROVE <<k, r.asked[k]>> \in pairs
    BY <1>2, <1>3
  <2>1. PICK b \in r.made : b.of = k
    BY <1>1 DEF RetryFits
  <2>2. <<b.of, b.jobs>> = <<k, r.asked[k]>>
    BY <1>2, <2>1
  <2>3. QED
    BY <2>1, <2>2
<1>6. r.is = "refused" /\ ~legacy => pairs = {}
  BY <1>1 DEF RetryFits
<1>7. ~legacy => \A b \in r.made : b.image = spec[b.of[1]] /\ b.version = 1
  BY <1>1 DEF RetryFits
<1>8. QED
  BY <1>3, <1>4, <1>5, <1>6, <1>7 DEF r

\* An agent's requests are served in turn, each once, within the slots, and are there to be
\* cancelled (Mcp); a run is pairs of what it was asked for, and a retry repeats what failed and
\* nothing else (Recipe): for any number of requests, files, prompts, models and retries.
THEOREM CallersAreServedInTurn == Spec => []CallersAreServed
<1> DEFINE Inv == (part = "Mcp" => McpInv) /\ (part = "Recipe" => RecipeInv)
<1>1. Init => Inv
  BY McpStarts, RecipeStarts DEF Init
<1>2. Inv /\ [Next]_vars => Inv'
  <2> SUFFICES ASSUME Inv, [Next]_vars PROVE Inv'
    OBVIOUS
  <2>1. CASE part = "Mcp" /\ [M!Next]_ofMcp /\ part' = part
    BY <2>1, McpStep
  <2>2. CASE part = "Recipe" /\ [R!Next]_ofRecipe /\ part' = part
    BY <2>2, RecipeStep
  <2>3. CASE part \notin {"Mcp", "Recipe"} /\ part' = part
    BY <2>3
  <2>4. CASE UNCHANGED vars
    <3>1. part' = part /\ [M!Next]_ofMcp /\ [R!Next]_ofRecipe
      BY <2>4 DEF vars
    <3>2. QED
      BY <3>1, <2>1, <2>2, <2>3
  <2>5. QED
    BY <2>1, <2>2, <2>3, <2>4 DEF Next, StaysBut
<1>3. Inv => CallersAreServed
  BY McpServes, RecipeIsKeptThen DEF CallersAreServed
<1>4. QED
  BY <1>1, <1>2, <1>3, PTL DEF Spec

(*****************************************************************************)
(* Viewer and Sync: the user's choices                                       *)
(*****************************************************************************)
\* What a review, a save and a request for a review are made of.
Reviews == [star : BOOLEAN, keep : BOOLEAN, stamped : BOOLEAN]
Saves == [star : BOOLEAN, keep : BOOLEAN, stored : BOOLEAN]
Gets == [run : ViewedRuns, edited : BOOLEAN, behind : BOOLEAN, answered : BOOLEAN, answer : Reviews]
IsReview(v) == v \in [run : {v.run}, hydrated : {v.hydrated}, keep : BOOLEAN]

SettleTypeOK ==
    /\ runId \in ViewedRuns \cup {None} /\ IsReview(review) /\ gets \subseteq Gets
    /\ stars \in [ViewedRuns -> BOOLEAN] /\ puts \in [ViewedRuns -> Seq(Saves)]
    /\ file \in [ViewedRuns -> Reviews]
    /\ intended \in [ViewedRuns -> [star : BOOLEAN, keep : BOOLEAN]]
    /\ early \in [ViewedRuns -> BOOLEAN] /\ spoilt \in [ViewedRuns -> BOOLEAN]

\* What is stored of a run once its saves are through.
Final(r) == IF puts[r] = << >> THEN [star |-> file[r].star, keep |-> file[r].keep]
            ELSE [star |-> puts[r][Len(puts[r])].star, keep |-> puts[r][Len(puts[r])].keep]

\* Reviews are of the run that is open.
ReviewIsOfOpen ==
    /\ \A g \in gets : g.run = runId
    /\ review.hydrated # None => review.hydrated = runId

\* Only the save that is sent can be stored, and then the file is its; nothing is in a file that
\* was never saved.
FileFollows ==
    \A r \in ViewedRuns :
      /\ \A i \in DOMAIN puts[r] : puts[r][i].stored =>
           i = 1 /\ file[r] = [star |-> puts[r][1].star, keep |-> puts[r][1].keep, stamped |-> TRUE]
      /\ ~file[r].stamped => ~file[r].star /\ ~file[r].keep

\* Without a choice or a save meanwhile, what was answered is what is stored.
AnswersAreFresh ==
    \A g \in gets : ~g.edited /\ ~g.behind =>
      puts[g.run] = << >> /\ (g.answered => g.answer = file[g.run])

\* What will be stored is what the user chose, and what the page shows once it has the review.
ChoiceIsOut(r) ==
    /\ ~early[r] /\ (puts[r] # << >> \/ file[r].stamped) =>
         intended[r].star = Final(r).star /\ intended[r].keep = Final(r).keep
    /\ puts[r] = << >> /\ ~file[r].stamped => intended[r].star = stars[r] /\ ~intended[r].keep
    /\ review.hydrated = r /\ (\A g \in gets : g.edited) =>
         stars[r] = Final(r).star /\ review.keep = Final(r).keep

ChoicesOut == \A r \in ViewedRuns : ~spoilt[r] => ChoiceIsOut(r)

SettleInv == SettleTypeOK /\ ReviewIsOfOpen /\ FileFollows /\ AnswersAreFresh /\ ChoicesOut

\* What the page is told, and what a request is made of; only a page's is answered.
Looks == Themes \cup {None}
Statuses ==
    [ok : {TRUE}, enabled : BOOLEAN, connected : BOOLEAN, theme : Looks] \cup [ok : {FALSE}]
IsMessage(c) ==
    /\ c \in [id : {c.id}, op : {c.op}, arg : Looks, page : BOOLEAN, at : {c.at},
              status : {c.status}]
    /\ c.at = "answered" => c.page /\ c.status \in Statuses

SyncTypeOK ==
    /\ theme \in Looks /\ told \in Statuses \cup {None} /\ appearance \in Looks
    /\ enabled \in BOOLEAN /\ connected \in BOOLEAN /\ apart \in BOOLEAN
    /\ remote \in {<< >>} \cup {<<t>> : t \in Looks}
    /\ \A c \in messages : IsMessage(c)

\* The page will hear of another theme than its own, or tell its own.
Coming(c, now) ==
    /\ c.page
    /\ \/ c.at = "sent" /\ c.op \in {"theme", "load"}
       \/ c.at = "answered" /\ c.status.ok /\ c.status.theme \notin {None, now}

\* A page that knows nothing yet has asked for what there is and nothing else, and what it is
\* told then still holds.
FirstLook(c) ==
    c.page => /\ c.op = "load" /\ c.at \in {"sent", "answered"}
              /\ c.at = "answered" /\ ~apart /\ appearance # None =>
                   c.status.ok /\ c.status.theme = appearance

\* A page that knows of sync has the daemon's theme, or something is under way that settles it.
AgreesOrWill ==
    ~apart /\ appearance # None /\ told # None =>
      theme = appearance \/ \E c \in messages : Coming(c, theme)

SyncInv ==
    /\ SyncTypeOK /\ AgreesOrWill
    /\ told = None => /\ \A c \in messages : FirstLook(c)
                      /\ \A c, d \in messages : c.page /\ d.page => c = d

\* Sync: the page has asked for nothing yet.
LEMMA SyncStarts == Y!Init => SyncInv
BY DEF Y!Init, SyncInv, SyncTypeOK, AgreesOrWill, Looks

\* A request may name no theme.
LEMMA NoLook == None \in Looks
BY DEF Looks

\* What a request that is sent makes of those under way.
OneMore(cs, op, new) ==
    \E m : new = cs \cup {m} /\ IsMessage(m) /\ m.op = op /\ m.page /\ m.at = "sent"

\* A request that the page sends is one more.
LEMMA PageSends == \A cs, op : \A arg \in Looks : OneMore(cs, op, Y!Sent(cs, op, arg, TRUE))
<1> TAKE cs, op
<1> TAKE arg \in Looks
<1>1. PICK id : id = CHOOSE n \in 1 .. Room + 1 : \A c \in cs : c.id # n
  OBVIOUS
<1>2. PICK m :
        m = [id |-> id, op |-> op, arg |-> arg, page |-> TRUE, at |-> "sent", status |-> None]
  OBVIOUS
<1>3. IsMessage(m) /\ m.op = op /\ m.page /\ m.at = "sent"
  BY <1>2 DEF IsMessage
<1>4. Y!Sent(cs, op, arg, TRUE) = cs \cup {m}
  BY <1>1, <1>2 DEF Y!Sent
<1>5. QED
  BY <1>3, <1>4 DEF OneMore

\* So is one of the daemon's own.
LEMMA DaemonSends ==
  \A cs, op : \A arg \in Looks :
    \E m : Y!Sent(cs, op, arg, FALSE) = cs \cup {m} /\ IsMessage(m) /\ ~m.page
<1> TAKE cs, op
<1> TAKE arg \in Looks
<1>1. PICK id : id = CHOOSE n \in 1 .. Room + 1 : \A c \in cs : c.id # n
  OBVIOUS
<1>2. PICK m :
        m = [id |-> id, op |-> op, arg |-> arg, page |-> FALSE, at |-> "sent", status |-> None]
  OBVIOUS
<1>3. IsMessage(m) /\ ~m.page
  BY <1>2 DEF IsMessage
<1>4. Y!Sent(cs, op, arg, FALSE) = cs \cup {m}
  BY <1>1, <1>2 DEF Y!Sent
<1>5. QED
  BY <1>3, <1>4

\* A request is answered: its page hears of it.
LEMMA Answered ==
  ASSUME NEW c, IsMessage(c), NEW status \in Statuses, Y!Answers(c, status)
  PROVE  \E m : /\ messages' = (messages \ {c}) \cup (IF c.page THEN {m} ELSE {})
                /\ c.page => IsMessage(m)
                /\ m.op = c.op /\ m.page = c.page /\ m.at = "answered" /\ m.status = status
<1>1. PICK m : m = [c EXCEPT !.at = "answered", !.status = status]
  OBVIOUS
<1>2. /\ c.page => IsMessage(m)
      /\ m.op = c.op /\ m.page = c.page /\ m.at = "answered" /\ m.status = status
  BY <1>1 DEF IsMessage
<1>3. messages' = (messages \ {c}) \cup (IF c.page THEN {m} ELSE {})
  BY <1>1 DEF Y!Answers
<1>4. QED
  BY <1>2, <1>3

\* A request waits for the account's store.
LEMMA Waits ==
  ASSUME NEW c, IsMessage(c), Y!Waits(c)
  PROVE  \E m : /\ messages' = (messages \ {c}) \cup {m} /\ IsMessage(m)
                /\ m.op = c.op /\ m.page = c.page /\ m.at = "waits"
<1>1. PICK m : m = [c EXCEPT !.at = "waits"]
  OBVIOUS
<1>2. IsMessage(m) /\ m.op = c.op /\ m.page = c.page /\ m.at = "waits"
  BY <1>1 DEF IsMessage
<1>3. QED
  BY <1>1, <1>2 DEF Y!Waits

\* A new page waits for its first look only.
LEMMA Reloaded ==
  ASSUME NEW cs, \A c \in cs : IsMessage(c)
  PROVE  /\ \A c \in Y!Loaded(cs) : IsMessage(c) /\ (c.page => c.op = "load" /\ c.at = "sent")
         /\ \A c, d \in Y!Loaded(cs) : c.page /\ d.page => c = d
<1>1. PICK old : old = {[c EXCEPT !.page = FALSE] : c \in {c \in cs : c.at # "answered"}}
  OBVIOUS
<1>2. \A c \in old : IsMessage(c) /\ ~c.page
  <2> SUFFICES ASSUME NEW c \in old PROVE IsMessage(c) /\ ~c.page
    OBVIOUS
  <2>1. PICK d \in cs : c = [d EXCEPT !.page = FALSE] /\ d.at # "answered"
    BY <1>1
  <2>2. IsMessage(d)
    OBVIOUS
  <2>3. QED
    BY <2>1, <2>2 DEF IsMessage
<1>3. OneMore(old, "load", Y!Loaded(cs))
  BY <1>1, PageSends, NoLook DEF Y!Loaded
<1>4. PICK m : /\ Y!Loaded(cs) = old \cup {m} /\ IsMessage(m)
               /\ m.op = "load" /\ m.page /\ m.at = "sent"
  BY <1>3 DEF OneMore
<1>5. QED
  BY <1>2, <1>4

\* A change of the theme is sent when the page knows that sync is on, and is apart otherwise.
LEMMA WatchedIs ==
  \A cs, status : \A v \in Looks :
    \/ Y!Watched(cs, v, status) = cs /\ (v = theme \/ ~Y!Live(status))
    \/ Y!Live(status) /\ OneMore(cs, "theme", Y!Watched(cs, v, status))
BY PageSends DEF Y!Watched

\* The user picks a theme.
LEMMA ChoosesFits ==
  ASSUME SyncInv, Y!Chooses
  PROVE  SyncInv'
<1>1. PICK v \in Themes \ {theme} : theme' = v /\ messages' = Y!Watched(messages, v, told)
  BY DEF Y!Chooses
<1>2. /\ apart' = (apart \/ (told # None /\ ~Y!Live(told)))
      /\ UNCHANGED <<told, enabled, connected, appearance, remote>>
  BY DEF Y!Chooses
<1>3. CASE messages' = messages /\ ~Y!Live(told)
  <2>1. told # None => apart'
    BY <1>2, <1>3
  <2>2. SyncTypeOK'
    BY <1>1, <1>2, <1>3 DEF SyncInv, SyncTypeOK, IsMessage, Looks
  <2>3. QED
    BY <1>2, <1>3, <2>1, <2>2 DEF SyncInv, AgreesOrWill, FirstLook
<1>4. ASSUME NEW m, messages' = messages \cup {m}, IsMessage(m),
             m.op = "theme", m.page, m.at = "sent", Y!Live(told)
      PROVE  SyncInv'
  <2>1. told # None
    BY <1>4 DEF Y!Live
  <2>2. Coming(m, theme')
    BY <1>4 DEF Coming
  <2>3. AgreesOrWill'
    BY <1>4, <2>2 DEF AgreesOrWill
  <2>4. SyncTypeOK'
    BY <1>1, <1>2, <1>4 DEF SyncInv, SyncTypeOK, IsMessage, Looks
  <2>5. QED
    BY <1>2, <2>1, <2>3, <2>4 DEF SyncInv
<1>5. ASSUME Y!Live(told), OneMore(messages, "theme", messages')
      PROVE  SyncInv'
  BY <1>4, <1>5 DEF OneMore
<1>6. v \in Looks
  BY DEF Looks
<1>7. QED
  BY <1>1, <1>3, <1>5, <1>6, WatchedIs

\* The page is loaded, by the user or after a sign-in.
LEMMA LoadsFits ==
  ASSUME SyncInv, Y!Loads \/ Y!SignsIn
  PROVE  SyncInv'
<1>1. /\ told' = None /\ UNCHANGED <<theme, enabled, appearance, remote, apart>>
      /\ connected' \in {connected, TRUE}
  BY DEF Y!Loads, Y!SignsIn
<1>2. PICK cs : messages' = Y!Loaded(cs) /\ \A c \in cs : IsMessage(c)
  <2>1. CASE messages' = Y!Loaded(messages)
    BY <2>1 DEF SyncInv, SyncTypeOK
  <2>2. CASE messages' = Y!Loaded(Y!Sent(messages, "enable", None, FALSE))
    <3>1. PICK m : /\ Y!Sent(messages, "enable", None, FALSE) = messages \cup {m} /\ IsMessage(m)
      BY DaemonSends, NoLook
    <3>2. QED
      BY <2>2, <3>1 DEF SyncInv, SyncTypeOK
  <2>3. QED
    BY <2>1, <2>2 DEF Y!Loads, Y!SignsIn
<1>3. /\ \A c \in messages' : IsMessage(c) /\ (c.page => c.op = "load" /\ c.at = "sent")
      /\ \A c, d \in messages' : c.page /\ d.page => c = d
  BY <1>2, Reloaded
<1>4. SyncTypeOK'
  BY <1>1, <1>3 DEF SyncInv, SyncTypeOK, IsMessage
<1>5. QED
  BY <1>1, <1>3, <1>4 DEF SyncInv, AgreesOrWill, FirstLook

\* The user pulls, or disconnects: the page asks for more.
LEMMA ClicksFits ==
  ASSUME SyncInv, Y!Clicks
  PROVE  SyncInv'
<1>1. told # None /\ UNCHANGED <<theme, told, enabled, connected, appearance, remote, apart>>
  BY DEF Y!Clicks
<1>2. PICK op : messages' = Y!Sent(messages, op, None, TRUE)
  BY DEF Y!Clicks
<1>3. PICK m : messages' = messages \cup {m} /\ IsMessage(m)
  BY <1>2, PageSends, NoLook DEF OneMore
<1>4. AgreesOrWill'
  BY <1>1, <1>3 DEF SyncInv, AgreesOrWill
<1>5. SyncTypeOK'
  BY <1>1, <1>3 DEF SyncInv, SyncTypeOK, IsMessage
<1>6. QED
  BY <1>1, <1>4, <1>5 DEF SyncInv

\* What a request that is handled leaves: it is answered with the daemon's theme of then, which
\* only another page does not hear of; or its answer tells of nothing, and the theme stays.
LEMMA HandledFits ==
  ASSUME SyncInv, NEW c \in messages, NEW m,
         theme' \in Looks /\ told' \in Statuses \cup {None} /\ appearance' \in Looks,
         enabled' \in BOOLEAN /\ connected' \in BOOLEAN /\ apart' \in BOOLEAN,
         remote' \in {<< >>} \cup {<<t>> : t \in Looks},
         \/ messages' = (messages \ {c}) \cup {m} /\ IsMessage(m)
         \/ messages' = messages \ {c} /\ ~c.page,
         theme' = theme, told' = told,
         m.page = c.page, m.op = c.op, m.at \in {"answered", "waits"},
         c.page /\ c.op = "load" => m.at = "answered",
         \/ apart' /\ ~(c.page /\ c.op = "load")
         \/ /\ c.page /\ m.at = "answered" /\ m.status.ok /\ m.status.theme = appearance'
            /\ appearance' = appearance \/ told # None
         \/ /\ apart' = apart /\ ~(c.page /\ c.op \in {"load", "theme"} /\ c.at = "sent")
            /\ c.at # "answered"
            /\ appearance' = appearance \/ appearance' = None \/ apart'
  PROVE  SyncInv'
<1>1. SyncTypeOK'
  BY DEF SyncInv, SyncTypeOK, IsMessage
<1>2. ASSUME ~apart', appearance' # None, told # None
      PROVE  theme = appearance' \/ \E d \in messages' : Coming(d, theme)
  <2>1. CASE c.page /\ m.at = "answered" /\ m.status.ok /\ m.status.theme = appearance'
    <3>1. theme # appearance' => Coming(m, theme)
      BY <1>2, <2>1 DEF Coming
    <3>2. m \in messages'
      BY <2>1
    <3>3. QED
      BY <3>1, <3>2
  <2>2. CASE /\ apart' = apart /\ ~(c.page /\ c.op \in {"load", "theme"} /\ c.at = "sent")
            /\ c.at # "answered"
             /\ appearance' = appearance
    <3>1. ~Coming(c, theme)
      BY <2>2 DEF Coming
    <3>2. theme = appearance \/ \E d \in messages : Coming(d, theme)
      BY <1>2, <2>2 DEF SyncInv, AgreesOrWill
    <3>3. QED
      BY <2>2, <3>1, <3>2
  <2>3. QED
    BY <1>2, <2>1, <2>2
<1>3. ASSUME told = None
      PROVE  /\ (\A d \in messages : FirstLook(d))'
             /\ (\A d, e \in messages : d.page /\ e.page => d = e)'
  <2>1. /\ \A d \in messages : FirstLook(d)
        /\ \A d, e \in messages : d.page /\ e.page => d = e
    BY <1>3 DEF SyncInv
  <2>2. \A d, e \in messages' : d.page /\ e.page => d = e
    BY <2>1
  <2>3. CASE c.page
    <3>1. messages' = (messages \ {c}) \cup {m} /\ c.op = "load" /\ m.at = "answered"
      BY <2>1, <2>3 DEF FirstLook
    <3>2. m.status.ok /\ m.status.theme = appearance'
      BY <2>1, <2>3, <3>1 DEF FirstLook
    <3>3. \A d \in messages' : d.page => d = m
      BY <2>1, <2>3, <3>1
    <3>4. QED
      BY <2>2, <2>3, <3>1, <3>2, <3>3 DEF FirstLook
  <2>4. CASE ~c.page
    <3>1. ~apart' /\ appearance' # None => ~apart /\ appearance' = appearance
      BY <2>4
    <3>2. \A d \in messages' : d.page => d \in messages
      BY <2>4
    <3>3. QED
      BY <2>1, <2>2, <3>1, <3>2 DEF FirstLook
  <2>5. QED
    BY <2>3, <2>4
<1>4. QED
  BY <1>1, <1>2, <1>3 DEF SyncInv, AgreesOrWill

\* What a request that waits is.
LEMMA Waiting ==
  ASSUME SyncInv, NEW c \in messages
  PROVE  /\ IsMessage(c) /\ SyncTypeOK /\ c.page \in BOOLEAN /\ c.arg \in Looks
         /\ told = None /\ c.page => c.op = "load" /\ c.at \in {"sent", "answered"}
BY DEF SyncInv, SyncTypeOK, FirstLook, IsMessage

\* What the page is told.
LEMMA Tellings ==
  /\ \A on, with \in BOOLEAN : \A t \in Looks :
       Y!Status(on, with, t) \in Statuses /\ Y!Status(on, with, t).ok
       /\ Y!Status(on, with, t).theme = t
  /\ Y!Failed \in Statuses
BY DEF Y!Status, Y!Failed, Statuses

\* The daemon handles a request that it answers at once, or hands to the store.
LEMMA ArrivesFits ==
  ASSUME SyncInv, NEW c \in messages, Y!Arrives(c)
  PROVE  SyncInv'
<1>0. /\ c.at = "sent" /\ UNCHANGED <<theme, told, connected, remote>>
      /\ IsMessage(c) /\ SyncTypeOK /\ c.page \in BOOLEAN /\ c.arg \in Looks
      /\ told = None /\ c.page => c.op = "load"
  BY Waiting DEF Y!Arrives
<1>1. CASE Y!LoadArrives(c)
  <2>1. PICK s \in Statuses : s = Y!Status(enabled, connected, appearance)
    BY <1>0, Tellings DEF SyncTypeOK
  <2>2. s.ok /\ s.theme = appearance
    BY <1>0, <2>1, Tellings DEF SyncTypeOK
  <2>3. Y!Answers(c, s) /\ c.op = "load" /\ apart' = (apart /\ ~c.page)
        /\ UNCHANGED <<enabled, appearance>>
    BY <1>1, <2>1 DEF Y!LoadArrives
  <2>4. PICK m : /\ messages' = (messages \ {c}) \cup (IF c.page THEN {m} ELSE {})
                 /\ c.page => IsMessage(m)
                 /\ m.op = c.op /\ m.page = c.page /\ m.at = "answered" /\ m.status = s
    BY <1>0, <2>3, Answered
  <2>5. QED
    BY <1>0, <2>2, <2>3, <2>4, HandledFits DEF SyncTypeOK
<1>2. CASE Y!ThemeArrives(c)
  <2>1. PICK s \in Statuses : s = Y!Status(enabled, connected, c.arg)
    BY <1>0, Tellings DEF SyncTypeOK
  <2>2. s.ok /\ s.theme = c.arg
    BY <1>0, <2>1, Tellings DEF SyncTypeOK
  <2>3. Y!Answers(c, s) /\ c.op = "theme" /\ apart' = ~c.page
        /\ enabled' = enabled /\ appearance' = c.arg
    BY <1>2, <2>1 DEF Y!ThemeArrives
  <2>4. PICK m : /\ messages' = (messages \ {c}) \cup (IF c.page THEN {m} ELSE {})
                 /\ c.page => IsMessage(m)
                 /\ m.op = c.op /\ m.page = c.page /\ m.at = "answered" /\ m.status = s
    BY <1>0, <2>3, Answered
  <2>5. QED
    BY <1>0, <2>2, <2>3, <2>4, HandledFits DEF SyncTypeOK
<1>3. CASE Y!EnableArrives(c)
  <2>1. /\ c.op = "enable" /\ enabled' = TRUE /\ appearance' \in {appearance, c.arg}
        /\ apart' = (apart \/ appearance' # appearance)
    BY <1>3 DEF Y!EnableArrives
  <2>2. CASE connected
    <3>1. PICK m : /\ messages' = (messages \ {c}) \cup {m} /\ IsMessage(m)
                   /\ m.op = c.op /\ m.page = c.page /\ m.at = "waits"
      BY <1>0, <1>3, <2>2, Waits DEF Y!EnableArrives
    <3>2. QED
      BY <1>0, <2>1, <3>1, HandledFits DEF SyncTypeOK
  <2>3. CASE ~connected
    <3>1. PICK s \in Statuses : s = Y!Status(TRUE, FALSE, appearance')
      BY <1>0, <2>1, Tellings DEF SyncTypeOK
    <3>2. Y!Answers(c, s)
      BY <1>3, <2>3, <3>1 DEF Y!EnableArrives
    <3>3. PICK m : /\ messages' = (messages \ {c}) \cup (IF c.page THEN {m} ELSE {})
                   /\ c.page => IsMessage(m)
                   /\ m.op = c.op /\ m.page = c.page /\ m.at = "answered" /\ m.status = s
      BY <1>0, <3>2, Answered
    <3>4. QED
      BY <1>0, <2>1, <3>3, HandledFits DEF SyncTypeOK
  <2>4. QED
    BY <2>2, <2>3
<1>4. CASE Y!ForgetArrives(c) \/ Y!WaitArrives(c)
  <2>1. /\ Y!Waits(c) /\ c.op \in {"forget", "pull", "push"} /\ enabled' \in {enabled, FALSE}
        /\ UNCHANGED <<appearance, apart>>
    BY <1>4 DEF Y!ForgetArrives, Y!WaitArrives
  <2>2. PICK m : /\ messages' = (messages \ {c}) \cup {m} /\ IsMessage(m)
                 /\ m.op = c.op /\ m.page = c.page /\ m.at = "waits"
    BY <1>0, <2>1, Waits
  <2>3. QED
    BY <1>0, <2>1, <2>2, HandledFits DEF SyncTypeOK
<1>5. QED
  BY <1>1, <1>2, <1>3, <1>4 DEF Y!Arrives

\* The store of the account is through with a request, or fails it.
LEMMA StoreFits ==
  ASSUME SyncInv, NEW c \in messages,
         Y!TakesOver(c) \/ Y!Writes(c) \/ Y!Forgets(c) \/ Y!Fails(c)
  PROVE  SyncInv'
<1>0. /\ c.at = "waits" /\ UNCHANGED <<theme, told, enabled>>
      /\ IsMessage(c) /\ SyncTypeOK /\ c.page \in BOOLEAN /\ ~(c.page /\ told = None)
  <2>1. c.at = "waits" /\ UNCHANGED <<theme, told, enabled>>
    BY DEF Y!TakesOver, Y!Writes, Y!Forgets, Y!Fails
  <2>2. QED
    BY <2>1, Waiting
<1>1. CASE Y!TakesOver(c)
  <2>1. PICK now : now = IF remote = << >> THEN appearance ELSE remote[1]
    OBVIOUS
  <2>2. now \in Looks
    BY <1>0, <2>1 DEF SyncTypeOK
  <2>3. PICK s \in Statuses : s = Y!Status(enabled, connected, now)
    BY <1>0, <2>2, Tellings DEF SyncTypeOK
  <2>4. s.ok /\ s.theme = now
    BY <1>0, <2>2, <2>3, Tellings DEF SyncTypeOK
  <2>5. /\ c.op \in {"enable", "pull"} /\ appearance' = now /\ connected' = connected
        /\ remote' \in {remote, <<appearance>>}
        /\ apart' = (IF c.page THEN FALSE ELSE apart \/ now # appearance)
        /\ Y!Answers(c, s)
    BY <1>1, <2>1, <2>3 DEF Y!TakesOver
  <2>6. PICK m : /\ messages' = (messages \ {c}) \cup (IF c.page THEN {m} ELSE {})
                 /\ c.page => IsMessage(m)
                 /\ m.op = c.op /\ m.page = c.page /\ m.at = "answered" /\ m.status = s
    BY <1>0, <2>5, Answered
  <2>7. QED
    BY <1>0, <2>2, <2>4, <2>5, <2>6, HandledFits DEF SyncTypeOK
<1>2. CASE Y!Writes(c)
  <2>1. PICK s \in Statuses : s = Y!Status(enabled, connected, appearance)
    BY <1>0, Tellings DEF SyncTypeOK
  <2>2. s.ok /\ s.theme = appearance
    BY <1>0, <2>1, Tellings DEF SyncTypeOK
  <2>3. /\ c.op = "push" /\ UNCHANGED <<appearance, connected>> /\ remote' = <<appearance>>
        /\ apart' = (apart /\ ~c.page) /\ Y!Answers(c, s)
    BY <1>2, <2>1 DEF Y!Writes
  <2>4. PICK m : /\ messages' = (messages \ {c}) \cup (IF c.page THEN {m} ELSE {})
                 /\ c.page => IsMessage(m)
                 /\ m.op = c.op /\ m.page = c.page /\ m.at = "answered" /\ m.status = s
    BY <1>0, <2>3, Answered
  <2>5. QED
    BY <1>0, <2>2, <2>3, <2>4, HandledFits DEF SyncTypeOK
<1>3. CASE Y!Forgets(c)
  <2>1. PICK s \in Statuses : s = Y!Status(enabled, FALSE, None)
    BY <1>0, Tellings, NoLook DEF SyncTypeOK
  <2>2. /\ c.op = "forget" /\ appearance' = None /\ connected' = FALSE
        /\ remote' \in {remote, << >>} /\ apart' = apart /\ Y!Answers(c, s)
    BY <1>3, <2>1 DEF Y!Forgets
  <2>3. PICK m : /\ messages' = (messages \ {c}) \cup (IF c.page THEN {m} ELSE {})
                 /\ c.page => IsMessage(m)
                 /\ m.op = c.op /\ m.page = c.page /\ m.at = "answered" /\ m.status = s
    BY <1>0, <2>2, Answered
  <2>4. QED
    BY <1>0, <2>2, <2>3, HandledFits, NoLook DEF SyncTypeOK
<1>4. CASE Y!Fails(c)
  <2>1. Y!Answers(c, Y!Failed) /\ UNCHANGED <<appearance, connected, remote, apart>>
    BY <1>4 DEF Y!Fails
  <2>2. PICK s \in Statuses : s = Y!Failed
    BY Tellings
  <2>3. PICK m : /\ messages' = (messages \ {c}) \cup (IF c.page THEN {m} ELSE {})
                 /\ c.page => IsMessage(m)
                 /\ m.op = c.op /\ m.page = c.page /\ m.at = "answered" /\ m.status = s
    BY <1>0, <2>1, <2>2, Answered
  <2>4. QED
    BY <1>0, <2>1, <2>3, HandledFits DEF SyncTypeOK
<1>5. QED
  BY <1>1, <1>2, <1>3, <1>4

\* Absorbing: what a request goes on to do is to send another or none.
LEMMA GoesOn ==
  ASSUME NEW c, NEW s, NEW now \in Looks
  PROVE  LET rest == messages \ {c}
             more == IF c.op = "load" /\ s.ok /\ s.connected /\ ~s.enabled
                     THEN Y!Sent(rest, "enable", now, TRUE)
                     ELSE IF c.op = "pull" THEN Y!Sent(rest, "push", None, TRUE) ELSE rest
         IN more = rest \/ \E op : OneMore(rest, op, more)
BY PageSends, NoLook

\* The page takes an answer over.
LEMMA AbsorbsFits ==
  ASSUME SyncAssumption, SyncInv, NEW c \in messages, Y!Absorbs(c)
  PROVE  SyncInv'
<1>0. /\ c.at = "answered" /\ IsMessage(c) /\ SyncTypeOK /\ c.page /\ c.status \in Statuses
      /\ UNCHANGED <<enabled, connected, appearance, remote>>
  BY Waiting DEF Y!Absorbs, IsMessage
<1>1. PICK s \in Statuses : s = c.status
  BY <1>0
<1>2. PICK now : now = IF s.ok /\ s.theme # None THEN s.theme ELSE theme
  OBVIOUS
<1>3. now \in Looks
  BY <1>0, <1>2 DEF Statuses, SyncTypeOK
<1>4. PICK more :
        /\ more = IF c.op = "load" /\ s.ok /\ s.connected /\ ~s.enabled
                  THEN Y!Sent(messages \ {c}, "enable", now, TRUE)
                  ELSE IF c.op = "pull" THEN Y!Sent(messages \ {c}, "push", None, TRUE)
                  ELSE messages \ {c}
  OBVIOUS
<1>5. /\ told' = s /\ theme' = now /\ messages' = Y!Watched(more, now, s)
      /\ apart' = (apart \/ (now # theme /\ ~Y!Live(s)))
  BY <1>1, <1>2, <1>4 DEF Y!Absorbs
<1>6. more = messages \ {c} \/ \E op : OneMore(messages \ {c}, op, more)
  BY <1>3, <1>4, GoesOn
<1>7. messages \ {c} \subseteq more /\ \A d \in more : IsMessage(d)
  BY <1>0, <1>6 DEF OneMore, SyncTypeOK
<1>8. \/ messages' = more /\ (now = theme \/ ~Y!Live(s))
      \/ Y!Live(s) /\ OneMore(more, "theme", messages')
  BY <1>3, <1>5, WatchedIs
<1>9. messages \ {c} \subseteq messages' /\ \A d \in messages' : IsMessage(d)
  BY <1>7, <1>8 DEF OneMore
<1>10. SyncTypeOK'
  BY <1>0, <1>3, <1>5, <1>9 DEF SyncTypeOK, IsMessage
<1>11. ASSUME ~apart', appearance # None
       PROVE  now = appearance \/ \E d \in messages' : Coming(d, now)
  <2>1. CASE now # theme
    <3>1. OneMore(more, "theme", messages')
      BY <1>5, <1>8, <1>11, <2>1
    <3>2. QED
      BY <3>1 DEF OneMore, Coming
  <2>2. CASE now = theme
    <3>1. CASE told = None
      <4>1. s.ok /\ s.theme = appearance
        BY <1>0, <1>1, <1>5, <1>11, <3>1 DEF SyncInv, FirstLook
      <4>2. QED
        BY <1>2, <1>11, <4>1
    <3>2. CASE told # None
      <4>1. theme = appearance \/ \E d \in messages : Coming(d, theme)
        BY <1>5, <1>11, <3>2 DEF SyncInv, AgreesOrWill
      <4>2. ~Coming(c, theme)
        BY <1>0, <1>1, <1>2, <2>2 DEF Coming
      <4>3. QED
        BY <1>9, <2>2, <4>1, <4>2
    <3>3. QED
      BY <3>1, <3>2
  <2>3. QED
    BY <2>1, <2>2
<1>12. s # None
  BY SyncAssumption DEF Statuses, Looks
<1>13. QED
  BY <1>0, <1>5, <1>10, <1>11, <1>12 DEF SyncInv, AgreesOrWill

\* The daemon starts anew.
LEMMA RestartFits ==
  ASSUME SyncInv, Y!Restarts
  PROVE  SyncInv'
<1>1. /\ \A c \in messages : ~c.page
      /\ UNCHANGED <<theme, told, enabled, connected, appearance, apart>>
      /\ remote' \in {remote, <<appearance>>}
      /\ messages' \in {Y!Sent({}, "pull", None, FALSE), {}}
  BY DEF Y!Restarts
<1>2. \A c \in messages' : IsMessage(c) /\ ~c.page
  <2>1. PICK m : Y!Sent({}, "pull", None, FALSE) = {} \cup {m} /\ IsMessage(m) /\ ~m.page
    BY DaemonSends, NoLook
  <2>2. QED
    BY <1>1, <2>1
<1>3. SyncTypeOK'
  BY <1>1, <1>2 DEF SyncInv, SyncTypeOK, IsMessage
<1>4. AgreesOrWill'
  BY <1>1 DEF SyncInv, AgreesOrWill, Coming
<1>5. QED
  BY <1>2, <1>3, <1>4 DEF SyncInv, FirstLook

\* The document alone changes.
LEMMA DocumentFits ==
  ASSUME SyncInv, Y!Flushes \/ Y!OtherMachine \/ UNCHANGED ofSync
  PROVE  SyncInv'
<1>1. UNCHANGED <<theme, told, enabled, connected, appearance, apart, messages>>
  BY DEF Y!Flushes, Y!OtherMachine, ofSync
<1>2. remote' \in {remote, <<appearance>>} \cup {<<t>> : t \in Themes}
  BY DEF Y!Flushes, Y!OtherMachine, ofSync
<1>3. SyncTypeOK'
  BY <1>1, <1>2 DEF SyncInv, SyncTypeOK, IsMessage, Looks
<1>4. QED
  BY <1>1, <1>3 DEF SyncInv, AgreesOrWill, Coming, FirstLook

\* Sync: the page and the daemon differ only as long as something is under way.
LEMMA SyncStep ==
  ASSUME SyncAssumption, SyncInv, Y!Next \/ UNCHANGED ofSync
  PROVE  SyncInv'
BY ChoosesFits, LoadsFits, ClicksFits, ArrivesFits, StoreFits, AbsorbsFits, RestartFits,
   DocumentFits DEF Y!Next

\* Then they have one theme.
LEMMA SyncAgrees == SyncInv => Y!AgreeAtRest
BY DEF SyncInv, AgreesOrWill, Y!AgreeAtRest, Y!Live

-----------------------------------------------------------------------------
\* What review.json holds at first.
LEMMA StoredAre ==
  \A v \in V!Stored : /\ v \in Reviews /\ (~v.stamped => ~v.star /\ ~v.keep)
                      /\ v.star \in BOOLEAN /\ v.keep \in BOOLEAN
<1> TAKE v \in V!Stored
<1>1. CASE v = V!Empty
  BY <1>1 DEF V!Empty, Reviews
<1>2. CASE v \in {[star |-> b, keep |-> b, stamped |-> TRUE] : b \in BOOLEAN}
  <2>1. PICK b \in BOOLEAN : v = [star |-> b, keep |-> b, stamped |-> TRUE]
    BY <1>2
  <2>2. v.star = b /\ v.keep = b /\ v.stamped
    BY <2>1
  <2>3. v \in Reviews
    BY <2>1 DEF Reviews
  <2>4. QED
    BY <2>2, <2>3
<1>3. QED
  BY <1>1, <1>2 DEF V!Stored

\* Viewer: what is stored is what the user chose, or nothing is stored yet.
LEMMA SettleStarts == ViewerAssumption /\ V!Init => SettleInv
<1> SUFFICES ASSUME ViewerAssumption, V!Init PROVE SettleInv
  OBVIOUS
<1>1. /\ runId = None /\ gets = {} /\ stars \in [ViewedRuns -> BOOLEAN]
      /\ puts = [r \in ViewedRuns |-> << >>]
      /\ file \in [ViewedRuns -> V!Stored]
      /\ early = [r \in ViewedRuns |-> FALSE] /\ spoilt = [r \in ViewedRuns |-> FALSE]
      /\ intended = [r \in ViewedRuns |->
                       [star |-> IF file[r].stamped THEN file[r].star ELSE stars[r],
                        keep |-> file[r].keep]]
  BY DEF V!Init
<1>2. IsReview(review) /\ review.hydrated = None
  BY DEF V!Init, V!Blank, IsReview
<1>3. \A r \in ViewedRuns :
        /\ file[r] \in Reviews /\ (~file[r].stamped => ~file[r].star /\ ~file[r].keep)
        /\ file[r].star \in BOOLEAN /\ file[r].keep \in BOOLEAN
  BY <1>1, StoredAre
<1>4. SettleTypeOK
  BY <1>1, <1>2, <1>3 DEF SettleTypeOK
<1>5. FileFollows /\ ReviewIsOfOpen /\ AnswersAreFresh
  BY <1>1, <1>2, <1>3 DEF FileFollows, ReviewIsOfOpen, AnswersAreFresh
<1>6. ChoicesOut
  BY <1>1, <1>2, <1>3, ViewerAssumption DEF ChoicesOut, ChoiceIsOut, Final
<1>7. QED
  BY <1>4, <1>5, <1>6 DEF SettleInv

\* A run whose choice no step touches keeps it.
LEMMA ChoiceStays ==
  ASSUME NEW r, ChoiceIsOut(r),
         puts'[r] = puts[r], file'[r] = file[r], intended'[r] = intended[r],
         early'[r] = early[r], stars'[r] = stars[r],
         review'.hydrated = r /\ (\A g \in gets' : g.edited) =>
           review.hydrated = r /\ (\A g \in gets : g.edited) /\ review'.keep = review.keep
  PROVE  ChoiceIsOut(r)'
BY DEF ChoiceIsOut, Final

\* A run is opened, or none: its review is not here yet.
LEMMA LoadSettles ==
  ASSUME ViewerAssumption, SettleInv, NEW r \in ViewedRuns \cup {None}, V!Load(r)
  PROVE  SettleInv'
<1>1. /\ runId' = r /\ review' = V!Blank(r) /\ gets' = {}
      /\ UNCHANGED <<stars, puts, file, intended, early, spoilt>>
  BY DEF V!Load, V!ghosts
<1>2. IsReview(review') /\ review'.hydrated = None
  BY <1>1 DEF V!Blank, IsReview
<1>3. SettleTypeOK' /\ ReviewIsOfOpen' /\ FileFollows' /\ AnswersAreFresh'
  BY <1>1, <1>2
     DEF SettleInv, SettleTypeOK, ReviewIsOfOpen, FileFollows, AnswersAreFresh, IsReview
<1>4. ChoicesOut'
  BY <1>1, <1>2, ChoiceStays, ViewerAssumption DEF SettleInv, ChoicesOut
<1>5. QED
  BY <1>3, <1>4 DEF SettleInv

\* A manifest is put up: the review is asked for, unless it is here or on its way.
LEMMA AcceptSettles ==
  ASSUME ViewerAssumption, SettleInv, NEW r \in {runId, None}, NEW isLive, NEW s,
         V!Accepts(r, isLive, s), UNCHANGED <<runId, stars, puts, file, intended, early, spoilt>>
  PROVE  SettleInv'
<1>0. SettleTypeOK /\ IsReview(review)
  BY DEF SettleInv, SettleTypeOK
<1>1. CASE r = None \/ (review.run = r /\ review.hydrated = r)
  <2>1. gets' \subseteq gets
    BY <1>1 DEF V!Accepts
  <2>2. /\ IsReview(review') /\ review'.hydrated = r
        /\ r # None => gets' = gets /\ review'.keep = review.keep
    BY <1>0, <1>1 DEF V!Accepts, V!Blank, IsReview
  <2>3. SettleTypeOK'
    BY <2>1, <2>2 DEF SettleInv, SettleTypeOK, IsReview
  <2>4. ReviewIsOfOpen' /\ FileFollows' /\ AnswersAreFresh'
    BY <2>1, <2>2 DEF SettleInv, ReviewIsOfOpen, FileFollows, AnswersAreFresh
  <2>5. ChoicesOut'
    BY <1>1, <2>2, ChoiceStays, ViewerAssumption DEF SettleInv, ChoicesOut
  <2>6. QED
    BY <2>3, <2>4, <2>5 DEF SettleInv
<1>2. CASE r # None /\ ~(review.run = r /\ review.hydrated = r)
  <2>1. PICK n : n = V!NewGet(r)
    OBVIOUS
  <2>2. r = runId /\ r \in ViewedRuns
    BY <1>0, <1>2 DEF SettleTypeOK
  <2>3. /\ n \in Gets /\ n.run = r /\ ~n.edited /\ ~n.answered /\ (n.behind <=> puts[r] # << >>)
    BY <2>1, <2>2 DEF V!NewGet, V!Empty, Gets, Reviews
  <2>4. n \in gets' /\ gets' \subseteq gets \cup {n}
    BY <1>2, <2>1 DEF V!Accepts
  <2>5. IsReview(review') /\ review'.hydrated = r
    BY <1>0 DEF V!Accepts, V!Blank, IsReview
  <2>6. SettleTypeOK'
    BY <2>3, <2>4, <2>5 DEF SettleInv, SettleTypeOK, IsReview
  <2>7. ReviewIsOfOpen' /\ FileFollows' /\ AnswersAreFresh'
    BY <2>2, <2>3, <2>4, <2>5 DEF SettleInv, ReviewIsOfOpen, FileFollows, AnswersAreFresh
  <2>8. ChoicesOut'
    BY <2>3, <2>4, ChoiceStays DEF SettleInv, ChoicesOut
  <2>9. QED
    BY <2>6, <2>7, <2>8 DEF SettleInv
<1>3. QED
  BY <1>1, <1>2

\* Edits make the answers under way void.
LEMMA EditedAre ==
  ASSUME SettleTypeOK, NEW r, NEW g \in V!Edited(r)
  PROVE  \E h \in gets : /\ g \in Gets /\ g.run = h.run /\ (g.edited <=> h.edited \/ h.run = r)
                         /\ (g.behind <=> h.behind) /\ (g.answered <=> h.answered)
                         /\ g.answer = h.answer
<1>1. PICK h \in gets : g = [h EXCEPT !.edited = @ \/ h.run = r]
  BY DEF V!Edited
<1>2. h \in Gets
  BY DEF SettleTypeOK
<1>3. QED
  BY <1>1, <1>2 DEF Gets

\* A save goes to the end of the line.
LEMMA QueuedIs ==
  ASSUME SettleInv, NEW r \in ViewedRuns, NEW star \in BOOLEAN, NEW keep \in BOOLEAN,
         puts' = V!Queued(r, star, keep), file' = file
  PROVE  /\ puts' \in [ViewedRuns -> Seq(Saves)] /\ puts'[r] # << >>
         /\ Final(r)'.star = star /\ Final(r)'.keep = keep
         /\ \A q \in ViewedRuns \ {r} : puts'[q] = puts[q]
         /\ FileFollows'
<1>1. PICK v : v = [star |-> star, keep |-> keep, stored |-> FALSE]
  OBVIOUS
<1>2. v \in Saves /\ v.star = star /\ v.keep = keep /\ ~v.stored
  BY <1>1 DEF Saves
<1>3. puts \in [ViewedRuns -> Seq(Saves)] /\ puts[r] \in Seq(Saves)
  BY DEF SettleInv, SettleTypeOK
<1>4. puts' = [puts EXCEPT ![r] = Append(puts[r], v)]
  BY <1>1, <1>3 DEF V!Queued
<1>5. PICK t : t = Append(puts[r], v)
  OBVIOUS
<1>6. PICK n \in Nat : n = Len(puts[r])
  BY <1>3
<1>7. /\ t \in Seq(Saves) /\ Len(t) = n + 1 /\ t[n + 1] = v /\ t # << >>
      /\ \A i \in 1 .. n : t[i] = puts[r][i]
  BY <1>2, <1>3, <1>5, <1>6
<1>8. puts'[r] = t /\ puts' \in [ViewedRuns -> Seq(Saves)]
      /\ \A q \in ViewedRuns \ {r} : puts'[q] = puts[q]
  BY <1>3, <1>4, <1>5, <1>7
<1>9. FileFollows'
  <2> SUFFICES ASSUME NEW q \in ViewedRuns
               PROVE  /\ \A i \in DOMAIN puts'[q] : puts'[q][i].stored =>
                           /\ i = 1
                           /\ file[q] = [star |-> puts'[q][1].star, keep |-> puts'[q][1].keep,
                                         stamped |-> TRUE]
                      /\ ~file[q].stamped => ~file[q].star /\ ~file[q].keep
    BY DEF FileFollows
  <2>1. CASE q # r
    BY <1>8, <2>1 DEF SettleInv, FileFollows
  <2>2. CASE q = r
    <3>1. ASSUME NEW i \in 1 .. n + 1, t[i].stored
          PROVE  i \in 1 .. n /\ 1 \in 1 .. n
      BY <1>2, <1>7, <3>1
    <3>2. DOMAIN puts[r] = 1 .. n /\ DOMAIN t = 1 .. n + 1
      BY <1>3, <1>6, <1>7
    <3>3. ASSUME NEW i \in 1 .. n + 1, t[i].stored
          PROVE  i = 1 /\ file[r] = [star |-> t[1].star, keep |-> t[1].keep, stamped |-> TRUE]
      <4>1. i \in DOMAIN puts[r] /\ puts[r][i].stored /\ t[1] = puts[r][1]
        BY <1>7, <3>1, <3>2, <3>3
      <4>2. QED
        BY <4>1 DEF SettleInv, FileFollows
    <3>4. ~file[r].stamped => ~file[r].star /\ ~file[r].keep
      BY DEF SettleInv, FileFollows
    <3>5. QED
      BY <1>8, <2>2, <3>2, <3>3, <3>4
  <2>3. QED
    BY <2>1, <2>2
<1>10. Final(r)' = [star |-> star, keep |-> keep]
  BY <1>2, <1>7, <1>8 DEF Final
<1>11. QED
  BY <1>7, <1>8, <1>9, <1>10

\* What is final has a star or none, and is kept or not.
LEMMA FinalIs ==
  ASSUME SettleInv, NEW r \in ViewedRuns
  PROVE  /\ file[r] \in Reviews /\ puts[r] \in Seq(Saves)
         /\ stars[r] \in BOOLEAN /\ review.keep \in BOOLEAN
         /\ intended[r].star \in BOOLEAN /\ intended[r].keep \in BOOLEAN
         /\ spoilt[r] \in BOOLEAN /\ early[r] \in BOOLEAN
         /\ file[r].star \in BOOLEAN /\ file[r].keep \in BOOLEAN /\ file[r].stamped \in BOOLEAN
         /\ puts[r] = << >> => Final(r).star = file[r].star /\ Final(r).keep = file[r].keep
BY DEF SettleInv, SettleTypeOK, IsReview, Reviews, Final

\* The user chooses on the page: a save of the whole review is on its way.
LEMMA EditSettles ==
  ASSUME ViewerAssumption, SettleInv, NEW star \in BOOLEAN, NEW keep \in BOOLEAN,
         V!Edit(star, keep)
  PROVE  SettleInv'
<1>0. SettleTypeOK /\ IsReview(review)
  BY DEF SettleInv, SettleTypeOK
<1>1. PICK o \in ViewedRuns : o = runId
  BY <1>0 DEF V!Edit, SettleTypeOK
<1>2. /\ runId' = runId /\ file' = file /\ stars' = [stars EXCEPT ![o] = star]
      /\ review' = [review EXCEPT !.keep = keep]
      /\ puts' = V!Queued(o, star, keep) /\ gets' = V!Edited(o)
      /\ intended' = [intended EXCEPT ![o] =
                        [star |-> IF star # stars[o] THEN star ELSE intended[o].star,
                         keep |-> IF keep # review.keep THEN keep ELSE intended[o].keep]]
      /\ early' = [early EXCEPT ![o] = early[o] \/ ~V!Hydrated(o)]
      /\ spoilt' = [spoilt EXCEPT ![o] = spoilt[o] \/ view.run # o]
  BY <1>0, <1>1 DEF V!Edit, V!page, SettleTypeOK
<1>3. /\ IsReview(review') /\ review'.hydrated = review.hydrated /\ review'.keep = keep
  BY <1>0, <1>2 DEF IsReview
<1>4. \A g \in gets' : g \in Gets /\ g.run = o /\ g.edited
  BY <1>0, <1>1, <1>2, EditedAre DEF SettleInv, ReviewIsOfOpen
<1>5. /\ puts' \in [ViewedRuns -> Seq(Saves)] /\ puts'[o] # << >> /\ FileFollows'
      /\ Final(o)'.star = star /\ Final(o)'.keep = keep
      /\ \A q \in ViewedRuns \ {o} : puts'[q] = puts[q]
  BY <1>2, QueuedIs
<1>6. /\ stars' \in [ViewedRuns -> BOOLEAN] /\ stars'[o] = star
      /\ early' \in [ViewedRuns -> BOOLEAN] /\ (early'[o] <=> early[o] \/ ~V!Hydrated(o))
      /\ spoilt' \in [ViewedRuns -> BOOLEAN] /\ (spoilt'[o] <=> spoilt[o] \/ view.run # o)
      /\ intended' \in [ViewedRuns -> [star : BOOLEAN, keep : BOOLEAN]]
      /\ intended'[o].star = IF star # stars[o] THEN star ELSE intended[o].star
      /\ intended'[o].keep = IF keep # review.keep THEN keep ELSE intended[o].keep
      /\ \A q \in ViewedRuns \ {o} :
           /\ stars'[q] = stars[q] /\ early'[q] = early[q] /\ spoilt'[q] = spoilt[q]
           /\ intended'[q] = intended[q]
  BY <1>0, <1>2 DEF SettleTypeOK
<1>7. SettleTypeOK'
  BY <1>0, <1>2, <1>3, <1>4, <1>5, <1>6 DEF SettleTypeOK
<1>8. ReviewIsOfOpen' /\ AnswersAreFresh'
  BY <1>1, <1>2, <1>3, <1>4 DEF SettleInv, ReviewIsOfOpen, AnswersAreFresh
<1>9. ASSUME NEW q \in ViewedRuns \ {o}, ~spoilt'[q] PROVE ChoiceIsOut(q)'
  <2>1. ChoiceIsOut(q)
    BY <1>6, <1>9 DEF SettleInv, ChoicesOut
  <2>2. review'.hydrated # q
    BY <1>1, <1>3, <1>9, ViewerAssumption DEF SettleInv, ReviewIsOfOpen
  <2>3. QED
    BY <1>2, <1>5, <1>6, <2>1, <2>2, ChoiceStays
<1>10. ASSUME ~spoilt'[o] PROVE ChoiceIsOut(o)'
  <2>1. ChoiceIsOut(o)
    BY <1>6, <1>10 DEF SettleInv, ChoicesOut
  <2>2. ASSUME ~early'[o] PROVE intended'[o].star = star /\ intended'[o].keep = keep
    <3>1. review.hydrated = o /\ \A g \in gets : g.edited
      BY <1>1, <1>6, <2>2 DEF SettleInv, ReviewIsOfOpen, V!Hydrated, V!Void
    <3>2. stars[o] = Final(o).star /\ review.keep = Final(o).keep /\ ~early[o]
      BY <1>6, <2>1, <2>2, <3>1 DEF ChoiceIsOut
    <3>3. intended[o].star = stars[o] /\ intended[o].keep = review.keep
      <4>1. CASE puts[o] # << >> \/ file[o].stamped
        BY <2>1, <3>2, <4>1 DEF ChoiceIsOut
      <4>2. CASE puts[o] = << >> /\ ~file[o].stamped
        BY <2>1, <3>2, <4>2, FinalIs DEF ChoiceIsOut, SettleInv, FileFollows
      <4>3. QED
        BY <4>1, <4>2
    <3>4. QED
      BY <1>6, <3>3
  <2>3. QED
    BY <1>3, <1>5, <1>6, <2>2 DEF ChoiceIsOut
<1>11. ChoicesOut'
  BY <1>9, <1>10 DEF ChoicesOut
<1>12. QED
  BY <1>5, <1>7, <1>8, <1>11 DEF SettleInv

\* The daemon reads the review for a request.
LEMMA ReadSettles ==
  ASSUME SettleInv, NEW g \in gets, V!ReadsReview(g)
  PROVE  SettleInv'
<1>0. SettleTypeOK /\ g \in Gets /\ file[g.run] \in Reviews
  BY DEF SettleInv, SettleTypeOK, Gets
<1>1. PICK n : n = [g EXCEPT !.answered = TRUE, !.answer = file[g.run]]
  OBVIOUS
<1>2. /\ n \in Gets /\ n.run = g.run /\ (n.edited <=> g.edited) /\ (n.behind <=> g.behind)
      /\ n.answer = file[g.run]
  BY <1>0, <1>1 DEF Gets
<1>3. /\ gets' = (gets \ {g}) \cup {n}
      /\ UNCHANGED <<runId, review, stars, puts, file, intended, early, spoilt>>
  BY <1>1 DEF V!ReadsReview, V!page, V!ghosts
<1>4. SettleTypeOK'
  BY <1>0, <1>2, <1>3 DEF SettleTypeOK, IsReview
<1>5. ReviewIsOfOpen' /\ FileFollows'
  BY <1>2, <1>3 DEF SettleInv, ReviewIsOfOpen, FileFollows
<1>6. AnswersAreFresh'
  BY <1>2, <1>3 DEF SettleInv, AnswersAreFresh
<1>7. ChoicesOut'
  BY <1>2, <1>3, ChoiceStays DEF SettleInv, ChoicesOut
<1>8. QED
  BY <1>4, <1>5, <1>6, <1>7 DEF SettleInv

\* An answer that edits have made void is dropped.
LEMMA VoidSettles ==
  ASSUME SettleInv, NEW g \in gets, g.edited, gets' = gets \ {g},
         UNCHANGED <<runId, review, stars, puts, file, intended, early, spoilt>>
  PROVE  SettleInv'
<1>1. SettleTypeOK'
  BY DEF SettleInv, SettleTypeOK, IsReview
<1>2. ReviewIsOfOpen' /\ FileFollows' /\ AnswersAreFresh'
  BY DEF SettleInv, ReviewIsOfOpen, FileFollows, AnswersAreFresh
<1>3. ChoicesOut'
  BY ChoiceStays DEF SettleInv, ChoicesOut
<1>4. QED
  BY <1>1, <1>2, <1>3 DEF SettleInv

\* The review that arrives is shown, and what the browser holds of a run that was never
\* reviewed is saved.
LEMMA HydrateSettles ==
  ASSUME ViewerAssumption, SettleInv, NEW g \in gets, NEW a \in Reviews, V!Hydrates(g, a),
         g.answered => a = g.answer, ~g.edited
  PROVE  SettleInv'
<1>0. SettleTypeOK /\ IsReview(review) /\ g \in Gets
  BY DEF SettleInv, SettleTypeOK
<1>1. PICK o \in ViewedRuns : o = g.run /\ o = runId
  BY <1>0 DEF SettleInv, ReviewIsOfOpen, Gets
<1>2. PICK star \in BOOLEAN : star = (a.star \/ (~a.stamped /\ stars[o]))
  BY <1>0 DEF Reviews, SettleTypeOK
<1>3. PICK persists \in BOOLEAN : persists = (~a.stamped /\ ~a.star /\ stars[o])
  BY <1>0 DEF Reviews, SettleTypeOK
<1>4. /\ review' = [review EXCEPT !.keep = a.keep]
      /\ stars' = [stars EXCEPT ![o] = star]
      /\ puts' = (IF persists THEN V!Queued(o, star, a.keep) ELSE puts)
      /\ gets' = (IF persists THEN V!Edited(o) ELSE gets) \ {g}
      /\ spoilt' = [spoilt EXCEPT ![o] = spoilt[o] \/ g.behind \/ ~g.answered]
      /\ UNCHANGED <<runId, file, intended, early>>
  BY <1>0, <1>1, <1>2, <1>3 DEF V!Hydrates, V!Void, V!page, SettleTypeOK
<1>5. a.keep \in BOOLEAN
  BY DEF Reviews
<1>6. /\ IsReview(review') /\ review'.hydrated = review.hydrated /\ review'.keep = a.keep
  BY <1>0, <1>4, <1>5 DEF IsReview
<1>7. /\ stars' \in [ViewedRuns -> BOOLEAN] /\ stars'[o] = star
      /\ spoilt' \in [ViewedRuns -> BOOLEAN]
      /\ (spoilt'[o] <=> spoilt[o] \/ g.behind \/ ~g.answered)
      /\ \A q \in ViewedRuns \ {o} : stars'[q] = stars[q] /\ spoilt'[q] = spoilt[q]
  BY <1>0, <1>4 DEF SettleTypeOK, Gets
<1>8. /\ puts' \in [ViewedRuns -> Seq(Saves)] /\ FileFollows'
      /\ persists => /\ puts'[o] # << >>
                     /\ Final(o)'.star = star /\ Final(o)'.keep = a.keep
      /\ \A q \in ViewedRuns \ {o} : puts'[q] = puts[q]
  <2>1. CASE persists
    BY <1>4, <1>5, <2>1, QueuedIs
  <2>2. CASE ~persists
    BY <1>0, <1>4, <2>2 DEF SettleTypeOK, SettleInv, FileFollows
  <2>3. QED
    BY <2>1, <2>2
<1>9. /\ \A h \in gets' : h \in Gets /\ h.run = o /\ (persists => h.edited)
      /\ ~persists => gets' = gets \ {g} /\ puts' = puts
  <2>1. CASE persists
    BY <1>0, <1>1, <1>4, <2>1, EditedAre DEF SettleInv, ReviewIsOfOpen
  <2>2. CASE ~persists
    BY <1>0, <1>1, <1>4, <2>2 DEF SettleTypeOK, SettleInv, ReviewIsOfOpen
  <2>3. QED
    BY <2>1, <2>2
<1>10. SettleTypeOK'
  BY <1>0, <1>4, <1>6, <1>7, <1>8, <1>9 DEF SettleTypeOK
<1>11. ReviewIsOfOpen' /\ AnswersAreFresh'
  BY <1>1, <1>4, <1>6, <1>9 DEF SettleInv, ReviewIsOfOpen, AnswersAreFresh
<1>12. ASSUME NEW q \in ViewedRuns \ {o}, ~spoilt'[q] PROVE ChoiceIsOut(q)'
  <2>1. ChoiceIsOut(q)
    BY <1>7, <1>12 DEF SettleInv, ChoicesOut
  <2>2. review'.hydrated # q
    BY <1>1, <1>6, <1>12, ViewerAssumption DEF SettleInv, ReviewIsOfOpen
  <2>3. QED
    BY <1>4, <1>7, <1>8, <2>1, <2>2, ChoiceStays
<1>13. ASSUME ~spoilt'[o] PROVE ChoiceIsOut(o)'
  <2>1. /\ ChoiceIsOut(o) /\ ~g.behind /\ g.answered
    BY <1>7, <1>13 DEF SettleInv, ChoicesOut
  <2>2. puts[o] = << >> /\ a = file[o]
    BY <1>1, <2>1 DEF SettleInv, AnswersAreFresh
  <2>3. ~a.stamped => ~a.star /\ ~a.keep
    BY <2>2 DEF SettleInv, FileFollows
  <2>4. /\ stars[o] \in BOOLEAN /\ a.star \in BOOLEAN /\ a.stamped \in BOOLEAN
        /\ intended[o].star \in BOOLEAN /\ intended[o].keep \in BOOLEAN
        /\ Final(o).star = a.star /\ Final(o).keep = a.keep
    BY <2>2, FinalIs
  <2>5. CASE persists
    <3>1. ~a.stamped /\ stars[o] /\ star
      BY <1>2, <1>3, <2>5
    <3>2. intended[o].star = star /\ intended[o].keep = a.keep
      BY <2>1, <2>2, <2>3, <2>4, <3>1, <1>5 DEF ChoiceIsOut
    <3>3. QED
      BY <1>4, <1>6, <1>7, <1>8, <2>5, <3>2 DEF ChoiceIsOut
  <2>6. CASE ~persists
    <3>1. star = a.star /\ (~a.stamped => star = stars[o])
      BY <1>2, <1>3, <2>3, <2>4, <2>6
    <3>2. Final(o)' = Final(o)
      BY <1>4, <1>9, <2>6 DEF Final
    <3>3. QED
      BY <1>4, <1>6, <1>7, <1>9, <2>1, <2>2, <2>4, <2>6, <3>1, <3>2 DEF ChoiceIsOut
  <2>7. QED
    BY <2>5, <2>6
<1>14. ChoicesOut'
  BY <1>12, <1>13 DEF ChoicesOut
<1>15. QED
  BY <1>8, <1>10, <1>11, <1>14 DEF SettleInv

\* The save that is sent, and those that wait for it.
LEMMA SavesAre ==
  ASSUME SettleInv, NEW r \in ViewedRuns, 1 \in DOMAIN puts[r]
  PROVE  \E n \in Nat \ {0} :
           /\ n = Len(puts[r]) /\ DOMAIN puts[r] = 1 .. n /\ puts[r] # << >>
           /\ puts[r] \in Seq(Saves) /\ \A i \in 1 .. n : puts[r][i] \in Saves
           /\ Final(r).star = puts[r][n].star /\ Final(r).keep = puts[r][n].keep
<1>1. puts[r] \in Seq(Saves)
  BY DEF SettleInv, SettleTypeOK
<1>2. PICK n \in Nat : n = Len(puts[r])
  BY <1>1
<1>3. DOMAIN puts[r] = 1 .. n /\ n # 0 /\ puts[r] # << >>
  BY <1>1, <1>2
<1>4. \A i \in 1 .. n : puts[r][i] \in Saves
  BY <1>1, <1>2
<1>5. Final(r) = [star |-> puts[r][n].star, keep |-> puts[r][n].keep]
  BY <1>2, <1>3 DEF Final
<1>6. QED
  BY <1>1, <1>2, <1>3, <1>4, <1>5

\* The daemon stores the save that is sent.
LEMMA StoreSettles ==
  ASSUME SettleInv, NEW r \in ViewedRuns, 1 \in DOMAIN puts[r], V!Stores(r, 1)
  PROVE  SettleInv'
<1>0. SettleTypeOK
  BY DEF SettleInv
<1>1. PICK n \in Nat \ {0} :
        /\ n = Len(puts[r]) /\ DOMAIN puts[r] = 1 .. n /\ puts[r] # << >>
        /\ puts[r] \in Seq(Saves) /\ \A i \in 1 .. n : puts[r][i] \in Saves
        /\ Final(r).star = puts[r][n].star /\ Final(r).keep = puts[r][n].keep
  BY SavesAre
<1>2. PICK v : v = puts[r][1]
  OBVIOUS
<1>3. PICK d : d = [v EXCEPT !.stored = TRUE]
  OBVIOUS
<1>4. v \in Saves /\ d \in Saves /\ d.star = v.star /\ d.keep = v.keep
  BY <1>1, <1>2, <1>3 DEF Saves
<1>5. PICK t : t = [puts[r] EXCEPT ![1] = d]
  OBVIOUS
<1>6. /\ t \in Seq(Saves) /\ Len(t) = n /\ DOMAIN t = 1 .. n /\ t # << >>
      /\ t[1] = d /\ \A i \in 2 .. n : t[i] = puts[r][i]
  BY <1>1, <1>4, <1>5
<1>7. PICK f : f = [star |-> v.star, keep |-> v.keep, stamped |-> TRUE]
  OBVIOUS
<1>8. f \in Reviews /\ f.stamped
  BY <1>4, <1>7 DEF Reviews, Saves
<1>9. /\ file' = [file EXCEPT ![r] = f] /\ puts' = [puts EXCEPT ![r] = t]
      /\ UNCHANGED <<runId, review, gets, stars, intended, early, spoilt>>
  BY <1>0, <1>2, <1>3, <1>5, <1>7 DEF V!Stores, V!page, V!ghosts, SettleTypeOK
<1>10. /\ file' \in [ViewedRuns -> Reviews] /\ file'[r] = f
       /\ puts' \in [ViewedRuns -> Seq(Saves)] /\ puts'[r] = t
       /\ \A q \in ViewedRuns \ {r} : file'[q] = file[q] /\ puts'[q] = puts[q]
  BY <1>0, <1>6, <1>8, <1>9 DEF SettleTypeOK
<1>11. SettleTypeOK'
  BY <1>0, <1>9, <1>10 DEF SettleTypeOK, IsReview
<1>12. ReviewIsOfOpen'
  BY <1>9 DEF SettleInv, ReviewIsOfOpen
<1>13. FileFollows'
  <2> SUFFICES ASSUME NEW q \in ViewedRuns
               PROVE  /\ \A i \in DOMAIN puts'[q] : puts'[q][i].stored =>
                           /\ i = 1
                           /\ file'[q] = [star |-> puts'[q][1].star, keep |-> puts'[q][1].keep,
                                          stamped |-> TRUE]
                      /\ ~file'[q].stamped => ~file'[q].star /\ ~file'[q].keep
    BY DEF FileFollows
  <2>1. CASE q # r
    BY <1>10, <2>1 DEF SettleInv, FileFollows
  <2>2. CASE q = r
    <3>1. ASSUME NEW i \in 2 .. n PROVE ~t[i].stored
      <4>1. i \in DOMAIN puts[r] /\ i # 1
        BY <1>1
      <4>2. ~puts[r][i].stored
        BY <4>1 DEF SettleInv, FileFollows
      <4>3. QED
        BY <1>6, <4>2
    <3>2. f = [star |-> t[1].star, keep |-> t[1].keep, stamped |-> TRUE]
      BY <1>4, <1>6, <1>7
    <3>3. QED
      BY <1>6, <1>8, <1>10, <2>2, <3>1, <3>2
  <2>3. QED
    BY <2>1, <2>2
<1>14. AnswersAreFresh'
  BY <1>1, <1>9, <1>10 DEF SettleInv, SettleTypeOK, Gets, AnswersAreFresh
<1>15. ASSUME NEW q \in ViewedRuns, ~spoilt[q] PROVE ChoiceIsOut(q)'
  <2>1. ChoiceIsOut(q)
    BY <1>15 DEF SettleInv, ChoicesOut
  <2>2. CASE q # r
    BY <1>9, <1>10, <2>1, <2>2, ChoiceStays
  <2>3. CASE q = r
    <3>1. t[n].star = puts[r][n].star /\ t[n].keep = puts[r][n].keep
      BY <1>1, <1>2, <1>4, <1>6
    <3>2. Final(r)' = [star |-> t[n].star, keep |-> t[n].keep]
      BY <1>6, <1>10 DEF Final
    <3>3. Final(r)'.star = Final(r).star /\ Final(r)'.keep = Final(r).keep
      BY <1>1, <3>1, <3>2
    <3>4. puts'[r] # << >> /\ puts[r] # << >>
      BY <1>1, <1>6, <1>10
    <3>5. QED
      BY <1>9, <2>1, <2>3, <3>3, <3>4 DEF ChoiceIsOut
  <2>4. QED
    BY <2>2, <2>3
<1>16. ChoicesOut'
  BY <1>9, <1>15 DEF ChoicesOut
<1>17. QED
  BY <1>11, <1>12, <1>13, <1>14, <1>16 DEF SettleInv

\* A save is through, stored or not: the next one is sent.
LEMMA NextIsSent ==
  ASSUME SettleInv, NEW r \in ViewedRuns, 1 \in DOMAIN puts[r],
         puts' = [puts EXCEPT ![r] = V!Without(@, 1)], file' = file
  PROVE  /\ puts' \in [ViewedRuns -> Seq(Saves)] /\ FileFollows'
         /\ \A q \in ViewedRuns \ {r} : puts'[q] = puts[q]
         /\ puts'[r] = << >> <=> Len(puts[r]) = 1
         /\ Len(puts[r]) # 1 =>
              Final(r)'.star = Final(r).star /\ Final(r)'.keep = Final(r).keep
<1>0. SettleTypeOK
  BY DEF SettleInv
<1>1. PICK n \in Nat \ {0} :
        /\ n = Len(puts[r]) /\ DOMAIN puts[r] = 1 .. n /\ puts[r] # << >>
        /\ puts[r] \in Seq(Saves) /\ \A i \in 1 .. n : puts[r][i] \in Saves
        /\ Final(r).star = puts[r][n].star /\ Final(r).keep = puts[r][n].keep
  BY SavesAre
<1>2. PICK t : t = V!Without(puts[r], 1)
  OBVIOUS
<1>3. /\ SubSeq(puts[r], 1, 0) = << >>
      /\ SubSeq(puts[r], 2, n) \in Seq(Saves) /\ Len(SubSeq(puts[r], 2, n)) = n - 1
      /\ \A j \in 1 .. n - 1 : SubSeq(puts[r], 2, n)[j] = puts[r][j + 1]
  BY <1>1
<1>4. t = SubSeq(puts[r], 2, n)
  BY <1>1, <1>2, <1>3 DEF V!Without
<1>5. /\ t \in Seq(Saves) /\ Len(t) = n - 1 /\ DOMAIN t = 1 .. n - 1 /\ (t = << >> <=> n = 1)
      /\ \A j \in 1 .. n - 1 : t[j] = puts[r][j + 1]
  <2>1. /\ t \in Seq(Saves) /\ Len(t) = n - 1
        /\ \A j \in 1 .. n - 1 : t[j] = puts[r][j + 1]
    BY <1>3, <1>4
  <2>2. DOMAIN t = 1 .. n - 1
    BY <2>1
  <2>3. t = << >> <=> Len(t) = 0
    BY <2>1
  <2>4. QED
    BY <2>1, <2>2, <2>3
<1>6. /\ puts' \in [ViewedRuns -> Seq(Saves)] /\ puts'[r] = t
      /\ \A q \in ViewedRuns \ {r} : puts'[q] = puts[q]
  BY <1>0, <1>2, <1>5 DEF SettleTypeOK
<1>7. \A j \in DOMAIN t : ~t[j].stored
  <2> SUFFICES ASSUME NEW j \in 1 .. n - 1 PROVE ~t[j].stored
    BY <1>5
  <2>1. j + 1 \in DOMAIN puts[r] /\ j + 1 # 1
    BY <1>1
  <2>2. ~puts[r][j + 1].stored
    BY <2>1 DEF SettleInv, FileFollows
  <2>3. QED
    BY <1>5, <2>2
<1>8. FileFollows'
  BY <1>6, <1>7 DEF SettleInv, FileFollows
<1>9. ASSUME n # 1 PROVE Final(r)'.star = Final(r).star /\ Final(r)'.keep = Final(r).keep
  <2>1. t # << >> /\ t[Len(t)] = puts[r][n]
    BY <1>5, <1>9
  <2>2. Final(r)' = [star |-> puts[r][n].star, keep |-> puts[r][n].keep]
    BY <1>6, <2>1 DEF Final
  <2>3. QED
    BY <1>1, <2>2
<1>10. QED
  BY <1>1, <1>5, <1>6, <1>8, <1>9

\* The answer of a save reaches the page, which shows the newest one's.
LEMMA SavedSettles ==
  ASSUME ViewerAssumption, SettleInv, NEW r \in ViewedRuns, 1 \in DOMAIN puts[r], V!Saved(r, 1)
  PROVE  SettleInv'
<1>0. SettleTypeOK /\ IsReview(review)
  BY DEF SettleInv, SettleTypeOK
<1>1. PICK n \in Nat \ {0} :
        /\ n = Len(puts[r]) /\ DOMAIN puts[r] = 1 .. n /\ puts[r] # << >>
        /\ puts[r] \in Seq(Saves) /\ \A i \in 1 .. n : puts[r][i] \in Saves
        /\ Final(r).star = puts[r][n].star /\ Final(r).keep = puts[r][n].keep
  BY SavesAre
<1>2. puts[r][1].stored /\ puts' = [puts EXCEPT ![r] = V!Without(@, 1)]
      /\ UNCHANGED <<runId, gets, stars, file, intended, early, spoilt>>
  BY DEF V!Saved, V!page, V!ghosts
<1>3. /\ puts' \in [ViewedRuns -> Seq(Saves)] /\ FileFollows'
      /\ \A q \in ViewedRuns \ {r} : puts'[q] = puts[q]
      /\ puts'[r] = << >> <=> n = 1
      /\ n # 1 => Final(r)'.star = Final(r).star /\ Final(r)'.keep = Final(r).keep
  BY <1>1, <1>2, NextIsSent
<1>4. file[r] = [star |-> puts[r][1].star, keep |-> puts[r][1].keep, stamped |-> TRUE]
  BY <1>1, <1>2 DEF SettleInv, FileFollows
<1>5. review' = IF runId = r /\ n = 1 THEN [review EXCEPT !.keep = puts[r][1].keep] ELSE review
  BY <1>1 DEF V!Saved
<1>6. puts[r][1].keep \in BOOLEAN
  BY <1>1 DEF Saves
<1>7. /\ IsReview(review') /\ review'.hydrated = review.hydrated
      /\ review'.keep = IF runId = r /\ n = 1 THEN puts[r][1].keep ELSE review.keep
  BY <1>0, <1>5, <1>6 DEF IsReview
<1>8. SettleTypeOK'
  BY <1>0, <1>2, <1>3, <1>7 DEF SettleTypeOK
<1>9. ReviewIsOfOpen'
  BY <1>2, <1>7 DEF SettleInv, ReviewIsOfOpen
<1>10. AnswersAreFresh'
  BY <1>1, <1>2, <1>3 DEF SettleInv, SettleTypeOK, Gets, AnswersAreFresh
<1>11. ASSUME NEW q \in ViewedRuns, ~spoilt[q] PROVE ChoiceIsOut(q)'
  <2>1. ChoiceIsOut(q)
    BY <1>11 DEF SettleInv, ChoicesOut
  <2>2. CASE q # r
    <3>1. review.hydrated = q => review'.keep = review.keep
      BY <1>7, <2>2, ViewerAssumption DEF SettleInv, ReviewIsOfOpen
    <3>2. QED
      BY <1>2, <1>3, <1>7, <2>1, <2>2, <3>1, ChoiceStays
  <2>3. CASE q = r /\ n # 1
    BY <1>1, <1>2, <1>3, <1>7, <2>1, <2>3 DEF ChoiceIsOut
  <2>4. CASE q = r /\ n = 1
    <3>1. file[r].stamped /\ file[r].star = puts[r][1].star /\ file[r].keep = puts[r][1].keep
      BY <1>4
    <3>2. puts'[r] = << >>
      BY <1>3, <2>4
    <3>3. Final(r)' = [star |-> file[r].star, keep |-> file[r].keep]
      BY <1>2, <3>2 DEF Final
    <3>4. Final(r)'.star = Final(r).star /\ Final(r)'.keep = Final(r).keep
      BY <1>1, <2>4, <3>1, <3>3
    <3>5. review.hydrated = r /\ (\A g \in gets : g.edited) => review'.keep = Final(r).keep
      BY <1>1, <1>7, <2>1, <2>4 DEF ChoiceIsOut
    <3>6. QED
      BY <1>1, <1>2, <1>7, <2>1, <2>4, <3>1, <3>2, <3>4, <3>5 DEF ChoiceIsOut
  <2>5. QED
    BY <2>2, <2>3, <2>4
<1>12. ChoicesOut'
  BY <1>2, <1>11 DEF ChoicesOut
<1>13. QED
  BY <1>3, <1>8, <1>9, <1>10, <1>12 DEF SettleInv

\* A save fails: of this run nothing is claimed any more.
LEMMA FailSettles ==
  ASSUME SettleInv, NEW r \in ViewedRuns, 1 \in DOMAIN puts[r], V!SaveFails(r, 1)
  PROVE  SettleInv'
<1>0. SettleTypeOK /\ puts[r] # << >>
  <2>1. puts[r] # << >>
    BY SavesAre
  <2>2. QED
    BY <2>1 DEF SettleInv
<1>1. /\ puts' = [puts EXCEPT ![r] = V!Without(@, 1)] /\ spoilt' = [spoilt EXCEPT ![r] = TRUE]
      /\ UNCHANGED <<runId, review, gets, stars, file, intended, early>>
  BY DEF V!SaveFails, V!page
<1>2. /\ puts' \in [ViewedRuns -> Seq(Saves)] /\ FileFollows'
      /\ \A q \in ViewedRuns \ {r} : puts'[q] = puts[q]
  BY <1>1, NextIsSent
<1>3. /\ spoilt' \in [ViewedRuns -> BOOLEAN] /\ spoilt'[r]
      /\ \A q \in ViewedRuns \ {r} : spoilt'[q] = spoilt[q]
  BY <1>0, <1>1 DEF SettleTypeOK
<1>4. SettleTypeOK'
  BY <1>0, <1>1, <1>2, <1>3 DEF SettleTypeOK, IsReview
<1>5. ReviewIsOfOpen' /\ AnswersAreFresh'
  BY <1>0, <1>1, <1>2 DEF SettleInv, SettleTypeOK, Gets, ReviewIsOfOpen, AnswersAreFresh
<1>6. ASSUME NEW q \in ViewedRuns, ~spoilt'[q] PROVE ChoiceIsOut(q)'
  <2>1. q # r
    BY <1>3, <1>6
  <2>2. ChoiceIsOut(q)
    BY <1>3, <1>6, <2>1 DEF SettleInv, ChoicesOut
  <2>3. QED
    BY <1>1, <1>2, <2>1, <2>2, ChoiceStays
<1>7. QED
  BY <1>2, <1>4, <1>5, <1>6 DEF SettleInv, ChoicesOut

\* The run is reviewed on another machine.
LEMMA ElsewhereSettles ==
  ASSUME ViewerAssumption, SettleInv, NEW r \in ViewedRuns, V!ReviewedElsewhere(r)
  PROVE  SettleInv'
<1>0. SettleTypeOK /\ runId # r /\ puts[r] = << >>
  BY DEF SettleInv, V!ReviewedElsewhere
<1>1. PICK star \in BOOLEAN, keep \in BOOLEAN :
        /\ file' = [file EXCEPT ![r] = [star |-> star, keep |-> keep, stamped |-> TRUE]]
        /\ intended' = [intended EXCEPT ![r] = [star |-> star, keep |-> keep]]
  BY DEF V!ReviewedElsewhere
<1>2. UNCHANGED <<runId, review, gets, stars, puts, early, spoilt>>
  BY DEF V!ReviewedElsewhere, V!page, V!choices
<1>3. /\ file' \in [ViewedRuns -> Reviews]
      /\ file'[r] = [star |-> star, keep |-> keep, stamped |-> TRUE]
      /\ intended' \in [ViewedRuns -> [star : BOOLEAN, keep : BOOLEAN]]
      /\ intended'[r] = [star |-> star, keep |-> keep]
      /\ \A q \in ViewedRuns \ {r} : file'[q] = file[q] /\ intended'[q] = intended[q]
  BY <1>0, <1>1 DEF SettleTypeOK, Reviews
<1>4. SettleTypeOK'
  BY <1>0, <1>2, <1>3 DEF SettleTypeOK, IsReview
<1>5. ReviewIsOfOpen' /\ AnswersAreFresh' /\ FileFollows'
  <2>1. ReviewIsOfOpen'
    BY <1>2 DEF SettleInv, ReviewIsOfOpen
  <2>2. AnswersAreFresh'
    BY <1>0, <1>2, <1>3 DEF SettleInv, SettleTypeOK, Gets, ReviewIsOfOpen, AnswersAreFresh
  <2>3. puts'[r] = << >> /\ file'[r].stamped
    BY <1>0, <1>2, <1>3
  <2>4. FileFollows'
    <3> SUFFICES ASSUME NEW q \in ViewedRuns
                 PROVE  /\ \A i \in DOMAIN puts[q] : puts[q][i].stored =>
                             /\ i = 1
                             /\ file'[q] = [star |-> puts[q][1].star, keep |-> puts[q][1].keep,
                                            stamped |-> TRUE]
                        /\ ~file'[q].stamped => ~file'[q].star /\ ~file'[q].keep
      BY <1>2 DEF FileFollows
    <3>1. CASE q # r
      BY <1>3, <3>1 DEF SettleInv, FileFollows
    <3>2. CASE q = r
      BY <1>0, <2>3, <3>2
    <3>3. QED
      BY <3>1, <3>2
  <2>5. QED
    BY <2>1, <2>2, <2>4
<1>6. ASSUME NEW q \in ViewedRuns, ~spoilt[q] PROVE ChoiceIsOut(q)'
  <2>1. ChoiceIsOut(q)
    BY <1>6 DEF SettleInv, ChoicesOut
  <2>2. CASE q # r
    BY <1>2, <1>3, <2>1, <2>2, ChoiceStays
  <2>3. CASE q = r
    <3>1. review'.hydrated # r
      BY <1>0, <1>2, ViewerAssumption DEF SettleInv, ReviewIsOfOpen
    <3>2. Final(r)' = [star |-> star, keep |-> keep] /\ file'[r].stamped
      BY <1>0, <1>2, <1>3 DEF Final
    <3>3. QED
      BY <1>3, <2>3, <3>1, <3>2 DEF ChoiceIsOut
  <2>4. QED
    BY <2>2, <2>3
<1>7. QED
  BY <1>2, <1>4, <1>5, <1>6 DEF SettleInv, ChoicesOut

\* A step that only the page's manifest, or the daemon's run, is part of.
LEMMA QuietSettles ==
  ASSUME SettleInv, UNCHANGED <<runId, review, gets, stars, puts, file, intended, early, spoilt>>
  PROVE  SettleInv'
<1>1. SettleTypeOK'
  BY DEF SettleInv, SettleTypeOK, IsReview
<1>2. ReviewIsOfOpen' /\ FileFollows' /\ AnswersAreFresh'
  BY DEF SettleInv, ReviewIsOfOpen, FileFollows, AnswersAreFresh
<1>3. ChoicesOut'
  BY ChoiceStays DEF SettleInv, ChoicesOut
<1>4. QED
  BY <1>1, <1>2, <1>3 DEF SettleInv

\* The answer to a request for a manifest: it is of the run that is open, if it counts.
LEMMA ArrivesSettles ==
  ASSUME ViewerAssumption, ShowInv, SettleInv, NEW q \in loads, V!Arrives(q)
  PROVE  SettleInv'
<1>1. UNCHANGED <<runId, stars, puts, file, intended, early, spoilt>>
  BY DEF V!Arrives, V!ghosts
<1>2. \/ ~q.late /\ \E isLive, s : V!Accepts(q.run, isLive, s)
      \/ V!Accepts(None, FALSE, None)
      \/ UNCHANGED <<review, gets>>
  BY DEF V!Arrives, V!Current
<1>3. ~q.late => q.run = runId
  BY DEF ShowInv, CountsForOpen
<1>4. QED
  BY <1>1, <1>2, <1>3, AcceptSettles, QuietSettles

\* The first save of a run is stored, answered or fails.
LEMMA PutsSettle ==
  ASSUME ViewerAssumption, SettleInv, NEW r \in ViewedRuns, V!Puts(r)
  PROVE  SettleInv'
<1>1. 1 \in DOMAIN puts[r] /\ (V!Stores(r, 1) \/ V!Saved(r, 1) \/ V!SaveFails(r, 1))
  BY DEF V!Puts, V!Sent
<1>2. QED
  BY <1>1, StoreSettles, SavedSettles, FailSettles

\* The answer to a request for a review, or its failure.
LEMMA ReviewSettled ==
  ASSUME ViewerAssumption, SettleInv, NEW g \in gets, V!ReviewArrives(g)
  PROVE  SettleInv'
<1>1. PICK a \in Reviews : V!Hydrates(g, a) /\ (g.answered => a = g.answer)
  <2>1. g.answer \in Reviews /\ V!Empty \in Reviews
    BY DEF SettleInv, SettleTypeOK, Gets, Reviews, V!Empty
  <2>2. QED
    BY <2>1 DEF V!ReviewArrives
<1>2. CASE ~g.edited
  BY <1>1, <1>2, HydrateSettles
<1>3. CASE g.edited
  <2>1. /\ gets' = gets \ {g}
        /\ UNCHANGED <<runId, review, stars, puts, file, intended, early, spoilt>>
    BY <1>1, <1>3 DEF V!Hydrates, V!Void, V!page
  <2>2. QED
    BY <1>3, <2>1, VoidSettles
<1>4. QED
  BY <1>2, <1>3

\* Viewer: every step keeps what will be stored what the user chose.
LEMMA SettleStep ==
  ASSUME ViewerAssumption, ShowInv, SettleInv, V!Next
  PROVE  SettleInv'
<1>1. CASE \E r \in ViewedRuns \cup {None} : V!Opens(r) \/ V!Returns(r)
  <2>1. PICK r \in ViewedRuns \cup {None} : V!Opens(r) \/ V!Returns(r)
    BY <1>1
  <2>2. V!Load(r) \/ UNCHANGED <<runId, review, gets, stars, puts, file, intended, early, spoilt>>
    BY <2>1 DEF V!Opens, V!Returns, V!choices, V!ghosts
  <2>3. QED
    BY <2>2, LoadSettles, QuietSettles
<1>2. CASE V!Leaves \/ V!Refreshes \/ \E r \in ViewedRuns : V!RunEnds(r)
  BY <1>2, QuietSettles DEF V!Leaves, V!Refreshes, V!RunEnds, V!page, V!choices, V!ghosts
<1>3. CASE V!Hears
  <2>1. /\ V!Accepts(runId, live[runId], runId)
        /\ UNCHANGED <<runId, stars, puts, file, intended, early, spoilt>>
    BY <1>3 DEF V!Hears, V!ghosts
  <2>2. QED
    BY <2>1, AcceptSettles
<1>4. CASE V!TogglesStar \/ V!TogglesKeep
  <2>1. /\ runId # None /\ runId \in ViewedRuns
        /\ \E star, keep : /\ V!Edit(star, keep) /\ star \in {stars[runId], ~stars[runId]}
                           /\ keep \in {review.keep, ~review.keep}
    BY <1>4 DEF V!TogglesStar, V!TogglesKeep, SettleInv, SettleTypeOK
  <2>2. stars[runId] \in BOOLEAN /\ review.keep \in BOOLEAN
    BY <2>1, FinalIs
  <2>3. QED
    BY <2>1, <2>2, EditSettles
<1>5. CASE \E q \in loads : V!Arrives(q)
  BY <1>5, ArrivesSettles
<1>6. CASE \E g \in gets : V!ReadsReview(g) \/ V!ReviewArrives(g)
  BY <1>6, ReadSettles, ReviewSettled
<1>7. CASE \E r \in ViewedRuns : V!Puts(r) \/ V!ReviewedElsewhere(r)
  BY <1>7, PutsSettle, ElsewhereSettles
<1>8. QED
  BY <1>1, <1>2, <1>3, <1>4, <1>5, <1>6, <1>7 DEF V!Next

\* Once the saves of a run are through, what is stored is what the user chose, and what the page
\* shows.
LEMMA ReviewsAreSettled == SettleInv => V!ReviewSettles
<1> SUFFICES ASSUME SettleInv, NEW r \in ViewedRuns, puts[r] = << >>, ~spoilt[r]
             PROVE  /\ file[r].stamped /\ ~early[r] => /\ file[r].star = intended[r].star
                                                       /\ file[r].keep = intended[r].keep
                    /\ runId = r /\ V!Hydrated(r) =>
                         stars[r] = file[r].star /\ review.keep = file[r].keep
  BY DEF V!ReviewSettles
<1>1. ChoiceIsOut(r) /\ Final(r).star = file[r].star /\ Final(r).keep = file[r].keep
  BY FinalIs DEF SettleInv, ChoicesOut
<1>2. runId = r /\ V!Hydrated(r) => review.hydrated = r /\ \A g \in gets : g.edited
  BY DEF SettleInv, ReviewIsOfOpen, V!Hydrated, V!Void
<1>3. QED
  BY <1>1, <1>2 DEF ChoiceIsOut

\* What the user chose last is what is stored, and what the page shows (Viewer); the page and the
\* daemon come to have one theme (Sync), however many runs, themes and requests there are.
THEOREM ChoicesAreSettled == Spec => []ChoicesSettle
<1> USE ViewerAssumption, SyncAssumption
<1> DEFINE Inv == (part = "Viewer" => ShowInv /\ SettleInv) /\ (part = "Sync" => SyncInv)
<1>1. Init => Inv
  BY ShowStarts, SettleStarts, SyncStarts DEF Init
<1>2. Inv /\ [Next]_vars => Inv'
  <2> SUFFICES ASSUME Inv, [Next]_vars PROVE Inv'
    OBVIOUS
  <2>1. CASE part = "Viewer" /\ V!Next /\ part' = part
    BY <2>1, ViewerShows, SettleStep
  <2>2. CASE part = "Sync" /\ Y!Next /\ part' = part
    BY <2>2, SyncStep
  <2>3. CASE part \notin {"Viewer", "Sync"} /\ part' = part
    BY <2>3
  <2>4. CASE UNCHANGED vars
    <3>1. /\ UNCHANGED <<part, runId, view, stream, loads, loose>>
          /\ UNCHANGED <<review, gets, stars, puts, file, intended, early, spoilt>>
          /\ UNCHANGED ofSync
      BY <2>4 DEF vars, ofViewer
    <3>2. ShowInv => ShowInv'
      BY <3>1 DEF ShowInv, CountsForOpen, StreamFollows, ShownOrAwaited
    <3>3. SettleInv => SettleInv'
      BY <3>1, QuietSettles
    <3>4. SyncInv => SyncInv'
      BY <3>1, SyncStep
    <3>5. QED
      BY <3>1, <3>2, <3>3, <3>4
  <2>5. QED
    BY <2>1, <2>2, <2>3, <2>4 DEF Next, StaysBut
<1>3. Inv => ChoicesSettle
  BY ReviewsAreSettled, SyncAgrees DEF ChoicesSettle
<1>4. QED
  BY <1>1, <1>2, <1>3, PTL DEF Spec

(*****************************************************************************)
(* ConfigStore: the user's catalog                                           *)
(*****************************************************************************)
Wishes == {None, Mine, Absent, "any"}
IsCatalog(c) == c = [i \in S!Items |-> c[i]]
ConfigPlaces == {"off", "trying", "made", "holding", "removing", "read", "writing", "written",
                 "ready", "dead"}
ConfigTasks == [kind : {"save", "delete", "restore"}, item : S!Items]
               \cup {S!NoTask, S!Migrates}
Locks == [owner : Procs, written : BOOLEAN]

ConfigTypeOK ==
    /\ lock \in Locks \cup {None}
    /\ files \subseteq {"models", "prompts"}
    /\ baseline \in {0} \cup {Version[p] : p \in Procs}
    /\ pc \in [Procs -> ConfigPlaces] /\ task \in [Procs -> ConfigTasks]
    /\ seen = [p \in Procs |-> seen[p]]
    /\ left \in [Procs -> Seq({"models", "prompts", "baseline"})]
    /\ chosen \in [S!Items -> Wishes]
    /\ forgotten \subseteq Prompts
    /\ raced \in BOOLEAN /\ unread \in BOOLEAN /\ cut \in BOOLEAN

Inside(p) == pc[p] \in {"made", "holding", "read", "writing", "written"}

\* Where a process stands says what it is doing.
TaskFits ==
    \A p \in Procs :
      /\ pc[p] \in {"read", "written"} => S!Changing(p)
      /\ pc[p] = "writing" => task[p] = S!Migrates
      /\ pc[p] \in {"trying", "made", "holding", "removing"} => task[p] # S!NoTask
      /\ pc[p] # "writing" => left[p] = << >>

LockHeld ==
    /\ lock # None => pc[lock.owner] # "off"
    /\ \A p \in Procs : pc[p] = "removing" => seen[p] \in Locks /\ pc[seen[p].owner] = "dead"
    /\ ~raced => \A p \in Procs : Inside(p) => lock # None /\ lock.owner = p

Wanted(i, t) ==
    /\ chosen[i] = Mine => t = Mine
    /\ chosen[i] = "any" => t # Absent
    /\ chosen[i] = Absent /\ i \notin forgotten => t = Absent

\* What is stored is what the user wants, and is remembered where the migration looks.
StoredAsWanted ==
    /\ IsCatalog(text) /\ IsCatalog(archive)
    /\ \A i \in S!Items :
         /\ Wanted(i, text[i])
         /\ chosen[i] = Absent /\ i \in Models => archive[i] # Absent
         /\ chosen[i] = Absent /\ i \notin Models /\ i \notin forgotten =>
              S!Base(baseline)[i] # Absent
         /\ chosen[i] = None => archive[i] = Absent
         /\ S!FileOf(i) \notin files => text[i] = Absent /\ chosen[i] = None

Lefts == {<<"models", "prompts", "baseline">>, <<"prompts", "baseline">>, <<"baseline">>, << >>}
Named(l) == {l[n] : n \in DOMAIN l}
ToWrite(p) == Named(left[p])

\* Who holds the lock has read what there is, and knows what it writes.
HolderKnows ==
    \A p \in Procs :
      /\ pc[p] = "read" => seen[p] = [text |-> text, archive |-> archive]
      /\ pc[p] = "writing" =>
           /\ seen[p].archive = archive /\ left[p] \in Lefts
           /\ \A i \in S!Items : Wanted(i, seen[p].text[i])
           /\ {"models", "prompts"} \ ToWrite(p) \subseteq files
           /\ \A i \in S!Items : S!FileOf(i) \notin ToWrite(p) => text[i] = seen[p].text[i]

Untouched(i) == chosen[i] = None

Writing(p) == pc[p] = "writing" /\ left[p] # << >>

\* No migration is half-way: there is no profile yet, or what was not touched is as shipped.
AsShipped ==
    \/ files = {} /\ baseline = 0
    \/ /\ files = {"models", "prompts"}
       /\ \A i \in S!Items : Untouched(i) =>
            IF i \in lingers THEN text[i] # Absent ELSE text[i] = S!Base(baseline)[i]

\* A migration is to make what was not touched as it is shipped now, unless it cannot tell.
WillBeAsShipped(p) ==
    \A i \in S!Items : Untouched(i) =>
      \/ seen[p].text[i] = Shipped[Version[p]][i]
      \/ Shipped[Version[p]][i] = Absent
      \/ i \in lingers /\ seen[p].text[i] # Absent

ShippedOrTold ==
    /\ (\A p \in Procs : ~Writing(p)) => AsShipped
    /\ \A p \in Procs : Writing(p) => WillBeAsShipped(p)
    /\ \A p \in Procs : pc[p] = "ready" \/ S!Changing(p) => files = {"models", "prompts"}

ConfigInv ==
    /\ ConfigTypeOK /\ TaskFits /\ LockHeld
    /\ ~raced /\ ~unread => StoredAsWanted /\ HolderKnows
    /\ ~raced /\ ~unread /\ ~cut => ShippedOrTold

\* ConfigStore: nobody is at it, and what there is is as it was shipped or edited.
LEMMA ConfigStarts == S!Init => ConfigInv
<1> SUFFICES ASSUME S!Init PROVE ConfigInv
  OBVIOUS
<1>1. /\ lock = None /\ archive = S!Nothing /\ baseline = 0 /\ forgotten = {} /\ lingers = {}
      /\ pc = [p \in Procs |-> "off"] /\ task = [p \in Procs |-> S!NoTask]
      /\ seen = [p \in Procs |-> [text |-> S!Nothing, archive |-> S!Nothing]]
      /\ left = [p \in Procs |-> << >>]
      /\ raced = FALSE /\ unread = FALSE /\ cut = FALSE
  BY DEF S!Init
<1>2. /\ IsCatalog(text) /\ chosen \in [S!Items -> Wishes] /\ files \subseteq {"models", "prompts"}
      /\ \A i \in S!Items : /\ Wanted(i, text[i]) /\ chosen[i] \in {None, Mine}
                            /\ S!FileOf(i) \notin files => text[i] = Absent /\ chosen[i] = None
  BY ConfigAssumption
  DEF S!Init, IsCatalog, Wishes, Wanted, S!Nothing, S!FileOf
<1>3. AsShipped
  BY <1>1, ConfigAssumption DEF S!Init, AsShipped, Untouched, S!Base
<1>4. IsCatalog(archive) /\ \A i \in S!Items : archive[i] = Absent
  BY <1>1 DEF IsCatalog, S!Nothing
<1>5. ConfigTypeOK
  <2>1. /\ seen = [p \in Procs |-> seen[p]]
        /\ left \in [Procs -> Seq({"models", "prompts", "baseline"})]
    BY <1>1
  <2>2. pc \in [Procs -> ConfigPlaces] /\ task \in [Procs -> ConfigTasks]
    BY <1>1 DEF ConfigPlaces, ConfigTasks
  <2>3. QED
    BY <1>1, <1>2, <1>4, <2>1, <2>2 DEF ConfigTypeOK
<1>6. TaskFits /\ LockHeld /\ HolderKnows
  BY <1>1 DEF TaskFits, LockHeld, HolderKnows, Inside
<1>7. StoredAsWanted
  BY <1>2, <1>4, ConfigAssumption DEF StoredAsWanted
<1>8. ShippedOrTold
  BY <1>1, <1>3 DEF ShippedOrTold, Writing, S!Changing, S!NoTask
<1>9. QED
  BY <1>5, <1>6, <1>7, <1>8 DEF ConfigInv

\* What the user's catalog is, and what is remembered of it.
UserDisk == <<files, text, archive, baseline, chosen, forgotten, lingers>>

\* A step that leaves the catalog alone, and does not leave a migration half-way unnoticed, keeps
\* what holds of it.
LEMMA CatalogKept ==
  ASSUME ConfigInv, UNCHANGED UserDisk, NEW p \in Procs,
         raced => raced', unread => unread', cut => cut',
         \A q \in Procs \ {p} :
           pc'[q] = pc[q] /\ task'[q] = task[q] /\ seen'[q] = seen[q] /\ left'[q] = left[q],
         pc'[p] \notin {"read", "writing"},
         Writing(p) => cut',
         pc'[p] = "ready" \/ S!Changing(p)' =>
           cut' \/ raced' \/ unread' \/ files = {"models", "prompts"}
  PROVE  /\ ~raced' /\ ~unread' => StoredAsWanted' /\ HolderKnows'
         /\ ~raced' /\ ~unread' /\ ~cut' => ShippedOrTold'
<1>1. UNCHANGED <<files, text, archive, baseline, chosen, forgotten, lingers>>
  BY DEF UserDisk
<1>2. ASSUME ~raced', ~unread' PROVE StoredAsWanted' /\ HolderKnows'
  <2>1. StoredAsWanted /\ HolderKnows
    BY <1>2 DEF ConfigInv
  <2>2. StoredAsWanted'
    BY <1>1, <2>1 DEF StoredAsWanted, Wanted, IsCatalog
  <2>3. HolderKnows'
    BY <1>1, <2>1 DEF HolderKnows, Wanted, ToWrite
  <2>4. QED
    BY <2>2, <2>3
<1>3. ASSUME ~raced', ~unread', ~cut' PROVE ShippedOrTold'
  <2>1. ShippedOrTold /\ ~Writing(p) /\ ~Writing(p)'
    BY <1>3 DEF ConfigInv, Writing
  <2>2. \A q \in Procs \ {p} : Writing(q)' = Writing(q) /\ S!Changing(q)' = S!Changing(q)
    BY DEF Writing, S!Changing
  <2>3. (\A q \in Procs : ~Writing(q)') => AsShipped'
    <3>1. (\A q \in Procs : ~Writing(q)') => AsShipped
      BY <2>1, <2>2 DEF ShippedOrTold
    <3>2. QED
      BY <1>1, <3>1 DEF AsShipped, Untouched
  <2>4. \A q \in Procs : Writing(q)' => WillBeAsShipped(q)'
    BY <1>1, <2>1, <2>2 DEF ShippedOrTold, WillBeAsShipped, Untouched
  <2>5. \A q \in Procs : pc'[q] = "ready" \/ S!Changing(q)' => files' = {"models", "prompts"}
    BY <1>1, <1>3, <2>1, <2>2 DEF ShippedOrTold
  <2>6. QED
    BY <2>3, <2>4, <2>5 DEF ShippedOrTold
<1>4. QED
  BY <1>2, <1>3

\* A lock is not nothing, and says who made it.
LEMMA LocksAre ==
  /\ None \notin Locks
  /\ \A l \in Locks : l.owner \in Procs /\ [l EXCEPT !.written = TRUE] \in Locks
                      /\ [l EXCEPT !.written = TRUE].owner = l.owner
  /\ \A p \in Procs : [owner |-> p, written |-> FALSE] \in Locks
BY ConfigAssumption DEF Locks

\* What of a process changes with its step.
Only(p) == \A q \in Procs \ {p} :
             pc'[q] = pc[q] /\ task'[q] = task[q] /\ seen'[q] = seen[q] /\ left'[q] = left[q]

\* And what it may be then.
Moved == /\ pc' \in [Procs -> ConfigPlaces] /\ task' \in [Procs -> ConfigTasks]
         /\ seen' = [p \in Procs |-> seen'[p]]

\* A process goes elsewhere, with a task and what it has seen.
LEMMA Moves ==
  ASSUME ConfigTypeOK, NEW p \in Procs, NEW w \in ConfigPlaces, pc' = [pc EXCEPT ![p] = w],
         NEW t \in ConfigTasks, task' = [task EXCEPT ![p] = t],
         NEW s, seen' = [seen EXCEPT ![p] = s], left' = left
  PROVE  Only(p) /\ Moved /\ pc'[p] = w /\ task'[p] = t /\ seen'[p] = s
BY DEF ConfigTypeOK, Only, Moved

\* So it does without looking at anything.
LEMMA MovesBlind ==
  ASSUME ConfigTypeOK, NEW p \in Procs, NEW w \in ConfigPlaces, pc' = [pc EXCEPT ![p] = w],
         NEW t \in ConfigTasks, task' = [task EXCEPT ![p] = t], seen' = seen, left' = left
  PROVE  Only(p) /\ Moved /\ pc'[p] = w /\ task'[p] = t
BY DEF ConfigTypeOK, Only, Moved

\* A step of a process keeps the lock with whoever holds it, if it touches no other's lock.
LEMMA LockKept ==
  ASSUME ConfigTypeOK, LockHeld, NEW p \in Procs, Only(p), pc[p] # "dead", pc'[p] # "off",
         raced => raced',
         lock' \in {lock, None} \/ (lock' \in Locks /\ lock'.owner = p),
         pc'[p] = "removing" => seen'[p] \in Locks /\ pc[seen'[p].owner] = "dead",
         ~raced' /\ Inside(p)' => lock' # None /\ lock'.owner = p,
         ~raced' => lock' = lock \/ \A q \in Procs \ {p} : ~Inside(q)
  PROVE  LockHeld'
<1>1. lock' # None => pc'[lock'.owner] # "off"
  BY LocksAre DEF ConfigTypeOK, LockHeld, Only
<1>2. \A q \in Procs : pc'[q] = "removing" => seen'[q] \in Locks /\ pc'[seen'[q].owner] = "dead"
  <2> SUFFICES ASSUME NEW q \in Procs, pc'[q] = "removing"
               PROVE  seen'[q] \in Locks /\ pc'[seen'[q].owner] = "dead"
    OBVIOUS
  <2>1. seen'[q] \in Locks /\ pc[seen'[q].owner] = "dead"
    BY DEF LockHeld, Only
  <2>2. QED
    BY <2>1, LocksAre DEF Only
<1>3. ~raced' => \A q \in Procs : Inside(q)' => lock' # None /\ lock'.owner = q
  BY DEF LockHeld, Only, Inside
<1>4. QED
  BY <1>1, <1>2, <1>3 DEF LockHeld

\* Who holds the lock is alone.
LEMMA HolderIsAlone ==
  ASSUME ConfigInv, NEW p \in Procs, Inside(p), ~raced
  PROVE  /\ lock \in Locks /\ lock.owner = p
         /\ \A q \in Procs \ {p} : ~Inside(q)
BY DEF ConfigInv, ConfigTypeOK, LockHeld

\* What a process does when it is through: the lock is given back.
LEMMA LeavesLock ==
  ASSUME ConfigInv, NEW p \in Procs, Inside(p), S!Leaves(p)
  PROVE  /\ Only(p) /\ pc'[p] = "ready" /\ pc' \in [Procs -> ConfigPlaces]
         /\ task' \in [Procs -> ConfigTasks] /\ task'[p] = S!NoTask
         /\ seen' = [q \in Procs |-> seen'[q]] /\ left'[p] = << >>
         /\ left' \in [Procs -> Seq({"models", "prompts", "baseline"})]
         /\ lock' \in {lock, None}
         /\ ~raced => \A q \in Procs \ {p} : ~Inside(q)
<1>1. /\ pc \in [Procs -> ConfigPlaces] /\ task \in [Procs -> ConfigTasks]
      /\ seen = [q \in Procs |-> seen[q]]
      /\ left \in [Procs -> Seq({"models", "prompts", "baseline"})]
  BY DEF ConfigInv, ConfigTypeOK
<1>2. /\ pc' = [pc EXCEPT ![p] = "ready"] /\ task' = [task EXCEPT ![p] = S!NoTask]
      /\ left' = [left EXCEPT ![p] = << >>]
      /\ seen' = [seen EXCEPT ![p] = [text |-> S!Nothing, archive |-> S!Nothing]]
      /\ lock' \in {lock, None}
  BY DEF S!Leaves, S!Goes, S!Released
<1>3. Only(p) /\ pc'[p] = "ready" /\ left'[p] = << >> /\ task'[p] = S!NoTask
  BY <1>1, <1>2 DEF Only
<1>4. pc' \in [Procs -> ConfigPlaces] /\ task' \in [Procs -> ConfigTasks]
  BY <1>1, <1>2 DEF ConfigPlaces, ConfigTasks
<1>5. seen' = [q \in Procs |-> seen'[q]]
  BY <1>1, <1>2
<1>6. left' \in [Procs -> Seq({"models", "prompts", "baseline"})]
  BY <1>1, <1>2
<1>7. QED
  BY <1>2, <1>3, <1>4, <1>5, <1>6, HolderIsAlone

\* A process that leaves, whatever it was at, keeps what holds of the catalog.
LEMMA LeavingKeeps ==
  ASSUME ConfigInv, NEW p \in Procs, Inside(p), S!Leaves(p), UNCHANGED UserDisk,
         UNCHANGED <<raced, unread>>, cut' \in BOOLEAN, cut => cut', Writing(p) => cut',
         cut' \/ raced \/ unread \/ files = {"models", "prompts"}
  PROVE  ConfigInv'
<1>1. /\ Only(p) /\ pc'[p] = "ready" /\ pc' \in [Procs -> ConfigPlaces]
      /\ task' \in [Procs -> ConfigTasks] /\ task'[p] = S!NoTask
      /\ seen' = [q \in Procs |-> seen'[q]] /\ left'[p] = << >>
      /\ left' \in [Procs -> Seq({"models", "prompts", "baseline"})]
      /\ lock' \in {lock, None}
      /\ ~raced => \A q \in Procs \ {p} : ~Inside(q)
  BY LeavesLock
<1>2. UNCHANGED <<files, text, archive, baseline, chosen, forgotten, lingers>>
  BY DEF UserDisk
<1>3. ConfigTypeOK'
  BY <1>1, <1>2 DEF ConfigInv, ConfigTypeOK
<1>4. TaskFits'
  BY <1>1 DEF ConfigInv, TaskFits, Only, S!Changing
<1>5. LockHeld'
  <2>1. pc[p] # "dead"
    BY DEF Inside
  <2>2. ~Inside(p)'
    BY <1>1 DEF Inside
  <2>3. QED
    BY <1>1, <2>1, <2>2, LockKept DEF ConfigInv
<1>6. /\ ~raced' /\ ~unread' => StoredAsWanted' /\ HolderKnows'
      /\ ~raced' /\ ~unread' /\ ~cut' => ShippedOrTold'
  BY <1>1, <1>2, CatalogKept DEF Only
<1>7. QED
  BY <1>3, <1>4, <1>5, <1>6 DEF ConfigInv

\* A step outside the lock, or one that takes it, gives it back or loses it, keeps what holds.
LEMMA OutsideKeeps ==
  ASSUME ConfigInv, NEW p \in Procs, UNCHANGED UserDisk, UNCHANGED <<unread, left>>,
         Only(p), Moved, pc[p] \notin {"dead", "writing"},
         pc'[p] \notin {"off", "read", "writing", "written"},
         lock' \in {lock, None} \/ (lock' \in Locks /\ lock'.owner = p),
         raced' \in BOOLEAN, raced => raced', cut' \in BOOLEAN, cut => cut',
         pc'[p] \in {"trying", "made", "holding", "removing"} => task'[p] # S!NoTask,
         pc'[p] = "removing" => seen'[p] \in Locks /\ pc[seen'[p].owner] = "dead",
         ~raced' /\ Inside(p)' => lock' # None /\ lock'.owner = p,
         ~raced' => lock' = lock \/ \A q \in Procs \ {p} : ~Inside(q),
         pc'[p] = "ready" \/ S!Changing(p)' =>
           cut' \/ raced' \/ unread' \/ files = {"models", "prompts"}
  PROVE  ConfigInv'
<1>1. UNCHANGED <<files, text, archive, baseline, chosen, forgotten, lingers>>
  BY DEF UserDisk
<1>2. ConfigTypeOK'
  BY <1>1 DEF ConfigInv, ConfigTypeOK, Moved
<1>3. TaskFits'
  <2>1. left[p] = << >>
    BY DEF ConfigInv, TaskFits
  <2>2. QED
    BY <2>1 DEF ConfigInv, TaskFits, Only, S!Changing
<1>4. LockHeld'
  BY LockKept DEF ConfigInv
<1>5. /\ ~raced' /\ ~unread' => StoredAsWanted' /\ HolderKnows'
      /\ ~raced' /\ ~unread' /\ ~cut' => ShippedOrTold'
  <2>1. ~Writing(p)
    BY DEF Writing
  <2>2. QED
    BY <2>1, CatalogKept DEF Only
<1>6. QED
  BY <1>2, <1>3, <1>4, <1>5 DEF ConfigInv

\* Taking the lock, losing it, giving up and asking for a change keep what holds.
LEMMA LockStepsKeep ==
  ASSUME ConfigInv, NEW p \in Procs,
         \/ S!Starts(p) \/ S!MakesLock(p) \/ S!WritesLock(p) \/ S!FindsLock(p)
         \/ S!RemovesLock(p) \/ S!GivesUp(p) \/ S!Changes(p)
  PROVE  ConfigInv'
<1>1. /\ ConfigTypeOK /\ TaskFits /\ LockHeld /\ lock \in Locks \cup {None}
      /\ pc[p] \in ConfigPlaces /\ task[p] \in ConfigTasks
      /\ task = [task EXCEPT ![p] = task[p]]
  BY DEF ConfigInv, ConfigTypeOK
<1>2. UNCHANGED UserDisk /\ UNCHANGED <<unread, cut, left>>
  BY DEF S!Starts, S!MakesLock, S!WritesLock, S!FindsLock, S!RemovesLock, S!GivesUp, S!Changes,
         S!disk, S!ghosts, UserDisk
<1>3. raced \in BOOLEAN /\ cut \in BOOLEAN /\ unread \in BOOLEAN
  BY <1>1 DEF ConfigTypeOK
<1>4. CASE S!Starts(p)
  <2>1. /\ pc' = [pc EXCEPT ![p] = "trying"] /\ pc[p] = "off"
        /\ task' = [task EXCEPT ![p] = S!Migrates]
        /\ UNCHANGED <<lock, seen, raced>>
    BY <1>4 DEF S!Starts, S!Goes, S!ghosts
  <2>2. S!Migrates \in ConfigTasks /\ S!Migrates # S!NoTask
        /\ S!Migrates.kind \notin {"save", "delete", "restore"}
    BY DEF ConfigTasks, S!Migrates, S!NoTask
  <2>3. "trying" \in ConfigPlaces
    BY DEF ConfigPlaces
  <2>4. Only(p) /\ Moved /\ pc'[p] = "trying" /\ task'[p] = S!Migrates
    BY <1>1, <1>2, <2>1, <2>2, <2>3, MovesBlind
  <2>5. ~Inside(p)' /\ ~S!Changing(p)'
    BY <2>2, <2>4 DEF Inside, S!Changing
  <2>6. QED
    BY <1>2, <1>3, <2>1, <2>2, <2>4, <2>5, OutsideKeeps
<1>5. CASE S!MakesLock(p)
  <2>1. pc' = [pc EXCEPT ![p] = "made"] /\ pc[p] = "trying" /\ lock = None
        /\ lock' = [owner |-> p, written |-> FALSE] /\ UNCHANGED <<task, seen, raced>>
    BY <1>5 DEF S!MakesLock, S!Goes, S!ghosts
  <2>2. lock' \in Locks /\ lock'.owner = p /\ lock' # None
    BY <2>1, LocksAre
  <2>3. ~raced => \A q \in Procs \ {p} : ~Inside(q)
    BY <1>1, <2>1 DEF LockHeld
  <2>4. task[p] # S!NoTask
    BY <1>1, <2>1 DEF TaskFits
  <2>5. S!Changing(p) => cut' \/ raced' \/ unread' \/ files = {"models", "prompts"}
    BY <1>2, <2>1 DEF ConfigInv, ShippedOrTold
  <2>6. "made" \in ConfigPlaces
    BY DEF ConfigPlaces
  <2>7. Only(p) /\ Moved /\ pc'[p] = "made" /\ task'[p] = task[p]
    BY <1>1, <1>2, <2>1, <2>6, MovesBlind
  <2>8. S!Changing(p)' = S!Changing(p)
    BY <2>7 DEF S!Changing
  <2>9. QED
    BY <1>2, <1>3, <2>1, <2>2, <2>3, <2>4, <2>5, <2>7, <2>8, OutsideKeeps
<1>6. CASE S!WritesLock(p)
  <2>1. /\ pc' = [pc EXCEPT ![p] = "holding"] /\ pc[p] = "made" /\ UNCHANGED <<task, seen, raced>>
        /\ lock' = lock \/ (lock # None /\ lock.owner = p /\ lock' = [lock EXCEPT !.written = TRUE])
    BY <1>6 DEF S!WritesLock, S!Goes, S!ghosts
  <2>2. lock' = lock \/ (lock' \in Locks /\ lock'.owner = p)
    BY <1>1, <2>1, LocksAre
  <2>10. ~raced => lock # None /\ lock.owner = p
    BY <1>1, <2>1 DEF LockHeld, Inside
  <2>11. ~raced => lock' # None /\ lock'.owner = p
    BY <2>2, <2>10, LocksAre
  <2>12. ~raced => \A q \in Procs \ {p} : ~Inside(q)
    BY <1>1, <2>10 DEF LockHeld
  <2>3. task[p] # S!NoTask
    BY <1>1, <2>1 DEF TaskFits
  <2>4. S!Changing(p) => cut' \/ raced' \/ unread' \/ files = {"models", "prompts"}
    BY <1>2, <2>1 DEF ConfigInv, ShippedOrTold
  <2>5. "holding" \in ConfigPlaces
    BY DEF ConfigPlaces
  <2>6. Only(p) /\ Moved /\ pc'[p] = "holding" /\ task'[p] = task[p]
    BY <1>1, <1>2, <2>1, <2>5, MovesBlind
  <2>7. S!Changing(p)' = S!Changing(p)
    BY <2>6 DEF S!Changing
  <2>8. QED
    BY <1>2, <1>3, <2>1, <2>2, <2>3, <2>4, <2>6, <2>7, <2>11, <2>12, OutsideKeeps
<1>7. CASE S!FindsLock(p)
  <2>1. /\ pc' = [pc EXCEPT ![p] = "removing"] /\ pc[p] = "trying"
        /\ UNCHANGED <<lock, task, raced>>
        /\ seen' = [seen EXCEPT ![p] = lock] /\ lock # None /\ pc[lock.owner] \in {"off", "dead"}
    BY <1>7 DEF S!FindsLock, S!Goes, S!Dead, S!Alive, S!ghosts
  <2>2. lock \in Locks /\ pc[lock.owner] = "dead"
    BY <1>1, <2>1 DEF LockHeld
  <2>3. "removing" \in ConfigPlaces
    BY DEF ConfigPlaces
  <2>4. task[p] # S!NoTask
    BY <1>1, <2>1 DEF TaskFits
  <2>5. S!Changing(p) => cut' \/ raced' \/ unread' \/ files = {"models", "prompts"}
    BY <1>2, <2>1 DEF ConfigInv, ShippedOrTold
  <2>6. Only(p) /\ Moved /\ pc'[p] = "removing" /\ task'[p] = task[p] /\ seen'[p] = lock
    BY <1>1, <1>2, <2>1, <2>3, Moves
  <2>7. S!Changing(p)' = S!Changing(p) /\ ~Inside(p)'
    BY <2>6 DEF S!Changing, Inside
  <2>8. QED
    BY <1>2, <1>3, <2>1, <2>2, <2>4, <2>5, <2>6, <2>7, OutsideKeeps
<1>8. CASE S!RemovesLock(p)
  <2>1. PICK b \in BOOLEAN : b = (lock \notin {None, seen[p]})
    OBVIOUS
  <2>2. /\ pc' = [pc EXCEPT ![p] = "trying"] /\ pc[p] = "removing" /\ UNCHANGED task
        /\ lock' = None /\ raced' = (raced \/ b)
        /\ seen' = [seen EXCEPT ![p] = [text |-> S!Nothing, archive |-> S!Nothing]]
    BY <1>8, <2>1 DEF S!RemovesLock, S!Goes
  <2>3. ~raced' => lock' = lock \/ \A q \in Procs \ {p} : ~Inside(q)
    BY <1>1, <2>1, <2>2 DEF LockHeld, Inside
  <2>4. "trying" \in ConfigPlaces
    BY DEF ConfigPlaces
  <2>5. task[p] # S!NoTask
    BY <1>1, <2>2 DEF TaskFits
  <2>6. raced' \in BOOLEAN /\ (raced => raced')
    BY <1>3, <2>1, <2>2
  <2>7. S!Changing(p) => cut' \/ raced' \/ unread' \/ files = {"models", "prompts"}
    BY <1>2, <2>6 DEF ConfigInv, ShippedOrTold
  <2>8. Only(p) /\ Moved /\ pc'[p] = "trying" /\ task'[p] = task[p]
    BY <1>1, <1>2, <2>2, <2>4, Moves
  <2>9. S!Changing(p)' = S!Changing(p) /\ ~Inside(p)'
    BY <2>8 DEF S!Changing, Inside
  <2>10. QED
    BY <1>2, <1>3, <2>2, <2>3, <2>5, <2>6, <2>7, <2>8, <2>9, OutsideKeeps
<1>9. CASE S!GivesUp(p)
  <2>1. PICK w \in {"ready", "dead"} :
          /\ pc' = [pc EXCEPT ![p] = w]
          /\ w = "ready" => task[p] # S!Migrates \/ files = {"models", "prompts"}
    BY <1>9 DEF S!GivesUp, S!Goes
  <2>2. pc[p] = "trying" /\ task' = [task EXCEPT ![p] = S!NoTask] /\ UNCHANGED <<lock, seen, raced>>
    BY <1>9 DEF S!GivesUp, S!ghosts
  <2>3. w \in ConfigPlaces
    BY DEF ConfigPlaces
  <2>4. w = "ready" => cut' \/ raced' \/ unread' \/ files = {"models", "prompts"}
    <3>1. task[p] # S!NoTask /\ (task[p] # S!Migrates => S!Changing(p))
      BY <1>1, <2>2 DEF TaskFits, ConfigTasks, S!Changing
    <3>2. QED
      BY <1>2, <2>1, <2>2, <3>1 DEF ConfigInv, ShippedOrTold
  <2>5. S!NoTask \in ConfigTasks /\ S!NoTask.kind \notin {"save", "delete", "restore"}
    BY DEF ConfigTasks, S!NoTask
  <2>6. Only(p) /\ Moved /\ pc'[p] = w /\ task'[p] = S!NoTask
    BY <1>1, <1>2, <2>1, <2>2, <2>3, <2>5, MovesBlind
  <2>7. ~S!Changing(p)' /\ ~Inside(p)'
    BY <2>5, <2>6 DEF S!Changing, Inside
  <2>8. QED
    BY <1>2, <1>3, <2>2, <2>4, <2>6, <2>7, OutsideKeeps
<1>10. CASE S!Changes(p)
  <2>1. PICK kind \in {"save", "delete", "restore"}, i \in S!Items :
          task' = [task EXCEPT ![p] = [kind |-> kind, item |-> i]]
    BY <1>10 DEF S!Changes
  <2>2. pc' = [pc EXCEPT ![p] = "trying"] /\ pc[p] = "ready" /\ UNCHANGED <<lock, seen, raced>>
    BY <1>10 DEF S!Changes, S!Goes, S!ghosts
  <2>3. PICK t : t = [kind |-> kind, item |-> i]
    OBVIOUS
  <2>4. t \in ConfigTasks /\ t # S!NoTask
    BY <2>3 DEF ConfigTasks, S!NoTask
  <2>5. "trying" \in ConfigPlaces
    BY DEF ConfigPlaces
  <2>6. cut' \/ raced' \/ unread' \/ files = {"models", "prompts"}
    BY <1>2, <2>2 DEF ConfigInv, ShippedOrTold
  <2>7. Only(p) /\ Moved /\ pc'[p] = "trying" /\ task'[p] = t
    BY <1>1, <1>2, <2>1, <2>2, <2>3, <2>4, <2>5, MovesBlind
  <2>8. ~Inside(p)'
    BY <2>7 DEF Inside
  <2>9. QED
    BY <1>2, <1>3, <2>2, <2>4, <2>6, <2>7, <2>8, OutsideKeeps
<1>11. QED
  BY <1>4, <1>5, <1>6, <1>7, <1>8, <1>9, <1>10

\* A process that ends leaves a half-way migration noticed.
LEMMA CrashKeeps ==
  ASSUME ConfigInv, NEW p \in Procs, S!Crashes(p)
  PROVE  ConfigInv'
<1>1. /\ ConfigTypeOK /\ TaskFits /\ LockHeld
  BY DEF ConfigInv
<1>2. PICK b \in BOOLEAN : b = (task[p] = S!Migrates /\ pc[p] = "writing")
  OBVIOUS
<1>3. /\ pc' = [pc EXCEPT ![p] = "dead"] /\ pc[p] \notin {"off", "dead"} /\ cut' = (cut \/ b)
      /\ task' = [task EXCEPT ![p] = S!NoTask] /\ left' = [left EXCEPT ![p] = << >>]
      /\ seen' = [seen EXCEPT ![p] = [text |-> S!Nothing, archive |-> S!Nothing]]
      /\ UNCHANGED <<lock, files, text, archive, baseline, chosen, forgotten, lingers>>
      /\ UNCHANGED <<raced, unread>>
  BY <1>2 DEF S!Crashes, S!Alive, S!Goes, S!disk
<1>4. cut' \in BOOLEAN /\ (cut => cut') /\ (Writing(p) => cut')
  BY <1>1, <1>2, <1>3 DEF ConfigTypeOK, TaskFits, Writing
<1>5. /\ "dead" \in ConfigPlaces /\ S!NoTask \in ConfigTasks
      /\ S!NoTask.kind \notin {"save", "delete", "restore"}
  BY DEF ConfigPlaces, ConfigTasks, S!NoTask
<1>6. /\ Only(p) /\ pc'[p] = "dead" /\ task'[p] = S!NoTask /\ left'[p] = << >>
  BY <1>1, <1>3 DEF ConfigTypeOK, Only
<1>7. Moved /\ left' \in [Procs -> Seq({"models", "prompts", "baseline"})]
  <2>1. Moved
    BY <1>1, <1>3, <1>5 DEF ConfigTypeOK, Moved
  <2>2. left' \in [Procs -> Seq({"models", "prompts", "baseline"})]
    BY <1>1, <1>3 DEF ConfigTypeOK
  <2>3. QED
    BY <2>1, <2>2
<1>8. ConfigTypeOK'
  BY <1>1, <1>3, <1>4, <1>7 DEF ConfigTypeOK, Moved
<1>9. TaskFits'
  BY <1>1, <1>6 DEF TaskFits, Only, S!Changing
<1>10. ~Inside(p)' /\ ~S!Changing(p)'
  BY <1>5, <1>6 DEF Inside, S!Changing
<1>11. LockHeld'
  BY <1>1, <1>3, <1>6, <1>10, LockKept
<1>12. /\ ~raced' /\ ~unread' => StoredAsWanted' /\ HolderKnows'
       /\ ~raced' /\ ~unread' /\ ~cut' => ShippedOrTold'
  BY <1>3, <1>4, <1>6, <1>10, CatalogKept DEF UserDisk, Only
<1>13. QED
  BY <1>8, <1>9, <1>11, <1>12 DEF ConfigInv

\* What the holder of the lock does that leaves the catalog alone, or stops half-way.
LEMMA EndsKeep ==
  ASSUME ConfigInv, NEW p \in Procs,
         \/ S!MigrationFails(p) \/ S!MigrationEnds(p) \/ S!Refuses(p) \/ S!WriteEnds(p)
         \/ S!Migrate(p) /\ S!Leaves(p) /\ files = {"models", "prompts"}
  PROVE  ConfigInv'
<1>1. /\ ConfigTypeOK /\ TaskFits /\ LockHeld
  BY DEF ConfigInv
<1>2. Inside(p) /\ S!Leaves(p) /\ UNCHANGED UserDisk /\ UNCHANGED <<raced, unread>>
  BY DEF S!MigrationFails, S!MigrationEnds, S!Refuses, S!WriteEnds, S!Migrate, Inside, S!disk,
         S!ghosts, UserDisk
<1>3. cut' \in BOOLEAN /\ (cut => cut')
  BY <1>1
  DEF S!MigrationFails, S!MigrationEnds, S!Refuses, S!WriteEnds, S!Migrate, S!ghosts, ConfigTypeOK
<1>4. Writing(p) => cut'
  BY DEF S!MigrationFails, S!MigrationEnds, S!Refuses, S!WriteEnds, S!Migrate, Writing
<1>5. cut' \/ raced \/ unread \/ files = {"models", "prompts"}
  <2>1. CASE S!MigrationFails(p)
    BY <2>1 DEF S!MigrationFails
  <2>2. CASE S!MigrationEnds(p)
    <3>1. pc[p] = "writing" /\ left[p] = << >> /\ ToWrite(p) = {}
      BY <2>2 DEF S!MigrationEnds, ToWrite, Named
    <3>2. ~raced /\ ~unread => {"models", "prompts"} \subseteq files
      BY <3>1 DEF ConfigInv, HolderKnows
    <3>3. QED
      BY <1>1, <3>2 DEF ConfigTypeOK
  <2>3. CASE S!Refuses(p) \/ S!WriteEnds(p)
    <3>1. S!Changing(p)
      BY <1>1, <2>3 DEF S!Refuses, S!WriteEnds, TaskFits
    <3>2. QED
      BY <1>3, <3>1 DEF ConfigInv, ShippedOrTold
  <2>4. QED
    BY <2>1, <2>2, <2>3
<1>6. QED
  BY <1>2, <1>3, <1>4, <1>5, LeavingKeeps

\* A change reads the file, or takes it for empty.
LEMMA ReadingKeeps ==
  ASSUME ConfigInv, NEW p \in Procs, S!ReadsFile(p)
  PROVE  ConfigInv'
<1>1. /\ ConfigTypeOK /\ TaskFits /\ LockHeld
  BY DEF ConfigInv
<1>2. PICK s : s = [text |-> text, archive |-> archive]
  OBVIOUS
<1>3. /\ pc' = [pc EXCEPT ![p] = "read"] /\ pc[p] = "holding" /\ S!Changing(p)
      /\ UNCHANGED <<lock, files, text, archive, baseline, task, left, chosen, forgotten, lingers>>
      /\ UNCHANGED <<raced, cut>>
      /\ \/ seen' = [seen EXCEPT ![p] = s] /\ unread' = unread
         \/ seen' = seen /\ unread' = TRUE
  BY <1>2 DEF S!ReadsFile, S!Goes, S!disk
<1>4. Only(p) /\ pc'[p] = "read" /\ (~unread' => seen'[p] = s)
  BY <1>1, <1>3 DEF ConfigTypeOK, Only
<1>5. Moved
  BY <1>1, <1>3 DEF ConfigTypeOK, Moved, ConfigPlaces
<1>6. ConfigTypeOK'
  BY <1>1, <1>3, <1>5 DEF ConfigTypeOK, Moved
<1>7. TaskFits'
  BY <1>1, <1>3, <1>4 DEF TaskFits, Only, S!Changing
<1>8. Inside(p) /\ (~raced => lock # None /\ lock.owner = p)
  BY <1>1, <1>3 DEF LockHeld, Inside
<1>9. LockHeld'
  BY <1>1, <1>3, <1>4, <1>8, LockKept
<1>10. ASSUME ~raced', ~unread' PROVE StoredAsWanted' /\ HolderKnows'
  <2>1. StoredAsWanted /\ HolderKnows
    BY <1>3, <1>10 DEF ConfigInv
  <2>2. StoredAsWanted'
    BY <1>3, <2>1 DEF StoredAsWanted, Wanted, IsCatalog
  <2>3. HolderKnows'
    BY <1>2, <1>3, <1>4, <1>10, <2>1 DEF HolderKnows, Only, Wanted, ToWrite
  <2>4. QED
    BY <2>2, <2>3
<1>11. ASSUME ~raced', ~unread', ~cut' PROVE ShippedOrTold'
  <2>1. ShippedOrTold
    BY <1>3, <1>11 DEF ConfigInv
  <2>2. \A q \in Procs : Writing(q)' = Writing(q) /\ S!Changing(q)' = S!Changing(q)
    BY <1>3, <1>4 DEF Writing, S!Changing, Only
  <2>3. (\A q \in Procs : ~Writing(q)') => AsShipped'
    <3>1. (\A q \in Procs : ~Writing(q)') => AsShipped
      BY <2>1, <2>2 DEF ShippedOrTold
    <3>2. QED
      BY <1>3, <3>1 DEF AsShipped, Untouched
  <2>4. \A q \in Procs : Writing(q)' => WillBeAsShipped(q)'
    BY <1>3, <1>4, <2>1 DEF ShippedOrTold, WillBeAsShipped, Untouched, Writing, Only
  <2>5. \A q \in Procs : pc'[q] = "ready" \/ S!Changing(q)' => files' = {"models", "prompts"}
    BY <1>3, <1>4, <2>1, <2>2 DEF ShippedOrTold, Only
  <2>6. QED
    BY <2>3, <2>4, <2>5 DEF ShippedOrTold
<1>12. QED
  BY <1>6, <1>7, <1>9, <1>10, <1>11 DEF ConfigInv

\* A value of the catalog that is to be written, item by item.
LEMMA MigratedIs ==
  ASSUME NEW v, NEW i \in S!Items
  PROVE  LET new == Shipped[v][i]
             old == S!Base(baseline)[i]
             had == IF S!FileOf(i) \in files THEN text[i] ELSE new
         IN S!Migrated(v)[i] =
              IF baseline = 0 /\ files = {} THEN new
              ELSE IF new = Absent \/ (i \in Models /\ archive[i] # Absent) THEN had
              ELSE IF had = Absent THEN (IF old = Absent THEN new ELSE Absent)
              ELSE IF had = old THEN new ELSE had
BY DEF S!Migrated, S!Merged, S!Items

\* The catalog of a version has nothing of the user's.
LEMMA NothingIsMine ==
  /\ \A p \in Procs, i \in S!Items : Shipped[Version[p]][i] # Mine
  /\ ConfigTypeOK => \A i \in S!Items : S!Base(baseline)[i] # Mine
BY ConfigAssumption DEF ConfigTypeOK, S!Base, S!Items

\* A migration keeps what the user wants.
LEMMA MigratedAsWanted ==
  ASSUME ConfigTypeOK, StoredAsWanted, NEW p \in Procs, NEW i \in S!Items
  PROVE  Wanted(i, S!Migrated(Version[p])[i])
<1>1. /\ Shipped[Version[p]][i] # Mine /\ S!Base(baseline)[i] # Mine
      /\ Wanted(i, text[i]) /\ chosen[i] \in Wishes
      /\ chosen[i] = Absent /\ i \in Models => archive[i] # Absent
      /\ chosen[i] = Absent /\ i \notin Models /\ i \notin forgotten => S!Base(baseline)[i] # Absent
      /\ S!FileOf(i) \notin files => text[i] = Absent /\ chosen[i] = None
  BY NothingIsMine DEF StoredAsWanted, ConfigTypeOK
<1>2. CASE chosen[i] = None
  BY <1>2, ConfigAssumption DEF Wanted
<1>3. CASE chosen[i] # None
  <2>1. S!FileOf(i) \in files
    BY <1>1, <1>3
  <2>2. ~(baseline = 0 /\ files = {})
    BY <2>1
  <2>3. QED
    BY <1>1, <2>1, <2>2, MigratedIs, ConfigAssumption DEF Wanted, Wishes
<1>4. QED
  BY <1>2, <1>3

\* A migration makes what was not touched as it is shipped.
LEMMA MigratedAsShipped ==
  ASSUME ConfigTypeOK, StoredAsWanted, AsShipped, NEW p \in Procs, NEW i \in S!Items, Untouched(i)
  PROVE  LET t == S!Migrated(Version[p])[i]
         IN \/ t = Shipped[Version[p]][i] \/ Shipped[Version[p]][i] = Absent
            \/ i \in lingers /\ t # Absent
<1>1. archive[i] = Absent
  BY DEF StoredAsWanted, Untouched
<1>2. CASE files = {} /\ baseline = 0
  BY <1>2, MigratedIs
<1>3. CASE files = {"models", "prompts"}
  <2>1. S!FileOf(i) \in files /\ files # {}
    BY <1>3 DEF S!FileOf
  <2>2. IF i \in lingers THEN text[i] # Absent ELSE text[i] = S!Base(baseline)[i]
    BY <2>1 DEF AsShipped
  <2>3. QED
    BY <1>1, <2>1, <2>2, MigratedIs
<1>4. QED
  BY <1>2, <1>3 DEF AsShipped

\* The migration begins.
LEMMA MigrationKeeps ==
  ASSUME ConfigInv, NEW p \in Procs, S!Migrate(p),
         ~(files = {"models", "prompts"} /\ baseline = Version[p])
  PROVE  ConfigInv'
<1>1. /\ ConfigTypeOK /\ TaskFits /\ LockHeld
  BY DEF ConfigInv
<1>2. PICK s : s = [text |-> S!Migrated(Version[p]), archive |-> archive]
  OBVIOUS
<1>3. /\ pc' = [pc EXCEPT ![p] = "writing"] /\ pc[p] = "holding" /\ task[p] = S!Migrates
      /\ left' = [left EXCEPT ![p] = <<"models", "prompts", "baseline">>]
      /\ seen' = [seen EXCEPT ![p] = s]
      /\ UNCHANGED <<lock, task, files, text, archive, baseline, chosen, forgotten, lingers>>
      /\ UNCHANGED <<raced, unread, cut>>
  BY <1>2 DEF S!Migrate, S!Goes, S!disk, S!ghosts
<1>4. /\ Only(p) /\ pc'[p] = "writing" /\ seen'[p] = s
      /\ left'[p] = <<"models", "prompts", "baseline">>
  BY <1>1, <1>3 DEF ConfigTypeOK, Only
<1>5. Moved
  BY <1>1, <1>3 DEF ConfigTypeOK, Moved, ConfigPlaces
<1>6. ConfigTypeOK'
  <2>1. <<"models", "prompts", "baseline">> \in Seq({"models", "prompts", "baseline"})
    OBVIOUS
  <2>2. left' \in [Procs -> Seq({"models", "prompts", "baseline"})]
    BY <1>1, <1>3, <2>1 DEF ConfigTypeOK
  <2>3. QED
    BY <1>1, <1>3, <1>5, <2>2 DEF ConfigTypeOK, Moved
<1>7. TaskFits'
  BY <1>1, <1>3, <1>4 DEF TaskFits, Only, S!Changing
<1>8. Inside(p) /\ (~raced => lock # None /\ lock.owner = p)
  BY <1>1, <1>3 DEF LockHeld, Inside
<1>9. LockHeld'
  BY <1>1, <1>3, <1>4, <1>8, LockKept
<1>10. ASSUME ~raced', ~unread' PROVE StoredAsWanted' /\ HolderKnows'
  <2>1. StoredAsWanted /\ HolderKnows
    BY <1>3, <1>10 DEF ConfigInv
  <2>2. StoredAsWanted'
    BY <1>3, <2>1 DEF StoredAsWanted, Wanted, IsCatalog
  <2>3. \A i \in S!Items : Wanted(i, s.text[i])'
    BY <1>1, <1>2, <1>3, <2>1, MigratedAsWanted DEF Wanted
  <2>4. s.archive = archive /\ left'[p] \in Lefts
    BY <1>2, <1>4 DEF Lefts
  <2>5. {"models", "prompts"} \subseteq ToWrite(p)'
    <3>1. /\ left'[p][1] = "models" /\ left'[p][2] = "prompts" /\ {1, 2} \subseteq DOMAIN left'[p]
      BY <1>4
    <3>2. QED
      BY <3>1 DEF ToWrite, Named
  <2>6. /\ ({"models", "prompts"} \ ToWrite(p)') = {}
        /\ \A i \in S!Items : S!FileOf(i) \in ToWrite(p)'
    BY <2>5 DEF S!FileOf
  <2>7. ASSUME NEW q \in Procs \ {p}
        PROVE  /\ pc'[q] \notin {"read", "writing"}
    BY <1>4, <1>8, <1>10, <1>3, HolderIsAlone DEF Only, Inside
  <2>8. HolderKnows'
    BY <1>3, <1>4, <2>3, <2>4, <2>6, <2>7 DEF HolderKnows
  <2>9. QED
    BY <2>2, <2>8
<1>11. ASSUME ~raced', ~unread', ~cut' PROVE ShippedOrTold'
  <2>1. ShippedOrTold /\ StoredAsWanted
    BY <1>3, <1>11 DEF ConfigInv
  <2>2. \A q \in Procs : ~Writing(q)
    BY <1>3, <1>8, <1>11, HolderIsAlone DEF Writing, Inside
  <2>3. AsShipped
    BY <2>1, <2>2 DEF ShippedOrTold
  <2>4. WillBeAsShipped(p)'
    BY <1>1, <1>2, <1>3, <1>4, <2>1, <2>3, MigratedAsShipped DEF WillBeAsShipped, Untouched
  <2>5. Writing(p)' /\ \A q \in Procs \ {p} : ~Writing(q)'
    BY <1>4, <2>2 DEF Writing, Only
  <2>6. \A q \in Procs : pc'[q] = "ready" \/ S!Changing(q)' => files' = {"models", "prompts"}
    <3>1. ~S!Changing(p)' /\ \A q \in Procs \ {p} : S!Changing(q)' = S!Changing(q)
      BY <1>3, <1>4 DEF S!Changing, S!Migrates, Only
    <3>2. QED
      BY <1>3, <1>4, <2>1, <3>1 DEF ShippedOrTold, Only
  <2>7. QED
    BY <2>4, <2>5, <2>6 DEF ShippedOrTold
<1>12. QED
  BY <1>6, <1>7, <1>9, <1>10, <1>11 DEF ConfigInv

\* The files that are left to write, as a set.
LEMMA NamedAre ==
  /\ Named(<<"models", "prompts", "baseline">>) = {"models", "prompts", "baseline"}
  /\ Named(<<"prompts", "baseline">>) = {"prompts", "baseline"}
  /\ Named(<<"baseline">>) = {"baseline"}
  /\ Named(<< >>) = {}
<1>1. Named(<<"models", "prompts", "baseline">>) = {"models", "prompts", "baseline"}
  BY DEF Named
<1>2. Named(<<"prompts", "baseline">>) = {"prompts", "baseline"}
  BY DEF Named
<1>3. Named(<<"baseline">>) = {"baseline"}
  BY DEF Named
<1>4. Named(<< >>) = {}
  BY DEF Named
<1>5. QED
  BY <1>1, <1>2, <1>3, <1>4

\* What is left to write once the first is written.
LEMMA LeftsShrink ==
  ASSUME NEW l \in Lefts, l # << >>
  PROVE  /\ Tail(l) \in Lefts /\ Head(l) \in {"models", "prompts", "baseline"}
         /\ Named(Tail(l)) = Named(l) \ {Head(l)}
         /\ Head(l) = "baseline" <=> Tail(l) = << >>
         /\ Head(l) = "baseline" => Named(l) = {"baseline"}
<1>1. CASE l = <<"models", "prompts", "baseline">>
  <2>1. Head(l) = "models" /\ Tail(l) = <<"prompts", "baseline">>
    BY <1>1
  <2>2. QED
    BY <1>1, <2>1, NamedAre DEF Lefts
<1>2. CASE l = <<"prompts", "baseline">>
  <2>1. Head(l) = "prompts" /\ Tail(l) = <<"baseline">>
    BY <1>2
  <2>2. QED
    BY <1>2, <2>1, NamedAre DEF Lefts
<1>3. CASE l = <<"baseline">>
  <2>1. Head(l) = "baseline" /\ Tail(l) = << >>
    BY <1>3
  <2>2. QED
    BY <1>3, <2>1, NamedAre DEF Lefts
<1>4. QED
  BY <1>1, <1>2, <1>3 DEF Lefts

\* The migration writes a file.
LEMMA MigratingKeeps ==
  ASSUME ConfigInv, NEW p \in Procs, S!MigratesFile(p)
  PROVE  ConfigInv'
<1>1. /\ ConfigTypeOK /\ TaskFits /\ LockHeld
  BY DEF ConfigInv
<1>2. PICK h : h = Head(left[p])
  OBVIOUS
<1>3. /\ pc[p] = "writing" /\ left[p] # << >> /\ left' = [left EXCEPT ![p] = Tail(left[p])]
      /\ files' = IF h = "baseline" THEN files ELSE files \cup {h}
      /\ text' = [i \in S!Items |-> IF S!FileOf(i) = h THEN seen[p].text[i] ELSE text[i]]
      /\ archive' = IF h = "models" THEN seen[p].archive ELSE archive
      /\ baseline' = IF h = "baseline" THEN Version[p] ELSE baseline
      /\ lingers' = IF h = "baseline" THEN S!Lingering(Version[p]) ELSE lingers
      /\ UNCHANGED <<chosen, lock, pc, task, seen, raced, unread, cut>>
      /\ forgotten' = {i \in Prompts :
           chosen[i] = Absent /\ (i \in forgotten \/ S!Base(baseline')[i] = Absent)}
  BY <1>2 DEF S!MigratesFile, S!Puts, S!Forgets
<1>4. /\ left[p] \in Seq({"models", "prompts", "baseline"})
      /\ h \in {"models", "prompts", "baseline"}
      /\ Tail(left[p]) \in Seq({"models", "prompts", "baseline"})
  BY <1>1, <1>2, <1>3 DEF ConfigTypeOK
<1>5. /\ left' \in [Procs -> Seq({"models", "prompts", "baseline"})] /\ left'[p] = Tail(left[p])
      /\ \A q \in Procs \ {p} : left'[q] = left[q]
  BY <1>1, <1>3, <1>4 DEF ConfigTypeOK
<1>6. ConfigTypeOK'
  BY <1>1, <1>3, <1>4, <1>5 DEF ConfigTypeOK
<1>7. TaskFits' /\ LockHeld'
  BY <1>1, <1>3, <1>5 DEF TaskFits, LockHeld, Inside, S!Changing
<1>8. Inside(p)
  BY <1>3 DEF Inside
<1>9. ASSUME ~raced', ~unread'
      PROVE  /\ StoredAsWanted' /\ HolderKnows'
             /\ left[p] \in Lefts /\ \A q \in Procs \ {p} : ~Inside(q)
             /\ seen[p].archive = archive /\ {"models", "prompts"} \ ToWrite(p) \subseteq files
             /\ \A i \in S!Items : S!FileOf(i) \notin ToWrite(p) => text[i] = seen[p].text[i]
  <2>1. /\ StoredAsWanted /\ HolderKnows
    BY <1>3, <1>9 DEF ConfigInv
  <2>2. /\ seen[p].archive = archive /\ left[p] \in Lefts
        /\ \A i \in S!Items : Wanted(i, seen[p].text[i])
        /\ {"models", "prompts"} \ ToWrite(p) \subseteq files
        /\ \A i \in S!Items : S!FileOf(i) \notin ToWrite(p) => text[i] = seen[p].text[i]
    BY <1>3, <2>1 DEF HolderKnows
  <2>3. \A q \in Procs \ {p} : ~Inside(q)
    BY <1>3, <1>8, <1>9, HolderIsAlone
  <2>4. forgotten \subseteq Prompts
    BY <1>1 DEF ConfigTypeOK
  <2>5. \A i \in S!Items : i \notin Models => i \in Prompts
    BY DEF S!Items
  <2>6. archive' = archive
    BY <1>3, <2>2
  <2>7. StoredAsWanted'
    <3>1. IsCatalog(text') /\ IsCatalog(archive')
      BY <1>3, <2>1, <2>6 DEF IsCatalog, StoredAsWanted
    <3>2. ASSUME NEW i \in S!Items
          PROVE  /\ Wanted(i, text[i])'
                 /\ chosen'[i] = Absent /\ i \in Models => archive'[i] # Absent
                 /\ chosen'[i] = Absent /\ i \notin Models /\ i \notin forgotten'
                      => S!Base(baseline')[i] # Absent
                 /\ chosen'[i] = None => archive'[i] = Absent
                 /\ S!FileOf(i) \notin files' => text'[i] = Absent /\ chosen'[i] = None
      <4>1. /\ Wanted(i, text[i]) /\ Wanted(i, seen[p].text[i])
            /\ chosen[i] = Absent /\ i \in Models => archive[i] # Absent
            /\ chosen[i] = None => archive[i] = Absent
            /\ S!FileOf(i) \notin files => text[i] = Absent /\ chosen[i] = None
        BY <2>1, <2>2 DEF StoredAsWanted
      <4>2. text'[i] = IF S!FileOf(i) = h THEN seen[p].text[i] ELSE text[i]
        BY <1>3
      <4>3. chosen[i] = Absent /\ i \in forgotten => i \in forgotten'
        BY <1>3, <2>4
      <4>4. Wanted(i, text[i])'
        BY <1>3, <4>1, <4>2, <4>3 DEF Wanted
      <4>5. S!FileOf(i) \notin files' => text'[i] = Absent /\ chosen'[i] = None
        BY <1>3, <4>1, <4>2 DEF S!FileOf
      <4>6. QED
        BY <1>3, <2>5, <2>6, <4>1, <4>4, <4>5
    <3>3. QED
      BY <3>1, <3>2 DEF StoredAsWanted
  <2>8. ToWrite(p)' = ToWrite(p) \ {h}
    BY <1>2, <1>3, <1>5, <2>2, LeftsShrink DEF ToWrite
  <2>9. HolderKnows'
    <3>1. seen'[p].archive = archive' /\ left'[p] \in Lefts
      BY <1>3, <1>5, <2>2, <2>6, LeftsShrink
    <3>2. \A i \in S!Items : Wanted(i, seen[p].text[i])'
      <4> TAKE i \in S!Items
      <4>1. chosen[i] = Absent /\ i \in forgotten => i \in forgotten'
        BY <1>3, <2>4
      <4>2. Wanted(i, seen[p].text[i])
        BY <2>2
      <4>3. QED
        BY <1>3, <4>1, <4>2 DEF Wanted
    <3>3. {"models", "prompts"} \ ToWrite(p)' \subseteq files'
      BY <1>3, <2>2, <2>8
    <3>4. \A i \in S!Items : S!FileOf(i) \notin ToWrite(p)' => text'[i] = seen'[p].text[i]
      BY <1>3, <2>2, <2>8
    <3>5. \A q \in Procs \ {p} : pc'[q] \notin {"read", "writing"}
      BY <1>3, <2>3 DEF Inside
    <3>6. QED
      BY <1>3, <3>1, <3>2, <3>3, <3>4, <3>5 DEF HolderKnows
  <2>10. QED
    BY <2>2, <2>3, <2>7, <2>9
<1>10. ASSUME ~raced', ~unread', ~cut' PROVE ShippedOrTold'
  <2>1. ShippedOrTold
    BY <1>3, <1>10 DEF ConfigInv
  <2>2. WillBeAsShipped(p) /\ \A q \in Procs \ {p} : ~Writing(q)'
    BY <1>3, <1>9, <1>10, <2>1 DEF ShippedOrTold, Writing, Inside
  <2>3. \A q \in Procs : pc'[q] = "ready" \/ S!Changing(q)' => files' = {"models", "prompts"}
    <3>1. \A q \in Procs : S!Changing(q)' = S!Changing(q)
      BY <1>3 DEF S!Changing
    <3>2. files \subseteq files' /\ files' \subseteq {"models", "prompts"}
      BY <1>3, <1>6 DEF ConfigTypeOK
    <3>3. QED
      BY <1>3, <2>1, <3>1, <3>2 DEF ShippedOrTold
  <2>4. CASE h # "baseline"
    <3>1. Writing(p)'
      BY <1>2, <1>3, <1>5, <1>9, <1>10, <2>4, LeftsShrink DEF Writing
    <3>2. WillBeAsShipped(p)'
      BY <1>3, <2>2, <2>4 DEF WillBeAsShipped, Untouched
    <3>3. QED
      BY <2>2, <2>3, <3>1, <3>2 DEF ShippedOrTold
  <2>5. CASE h = "baseline"
    <3>1. ~Writing(p)' /\ ToWrite(p) = {"baseline"}
      BY <1>2, <1>3, <1>5, <1>9, <1>10, <2>5, LeftsShrink DEF Writing, ToWrite
    <3>2. files' = {"models", "prompts"}
      BY <1>1, <1>3, <1>9, <1>10, <2>5, <3>1 DEF ConfigTypeOK
    <3>3. ASSUME NEW i \in S!Items, Untouched(i)'
          PROVE  IF i \in lingers' THEN text'[i] # Absent ELSE text'[i] = S!Base(baseline')[i]
      <4>1. text[i] = seen[p].text[i] /\ text'[i] = text[i]
        BY <1>3, <1>9, <1>10, <2>5, <3>1 DEF S!FileOf
      <4>2. S!Base(baseline')[i] = Shipped[Version[p]][i]
        BY <1>3, <2>5, ConfigAssumption DEF S!Base
      <4>3. i \in lingers' <=> /\ text[i] \notin {Absent, Shipped[Version[p]][i]}
                               /\ i \in lingers \/ Shipped[Version[p]][i] = Absent
        BY <1>3, <2>5 DEF S!Lingering
      <4>4. \/ text[i] = Shipped[Version[p]][i] \/ Shipped[Version[p]][i] = Absent
            \/ i \in lingers /\ text[i] # Absent
        BY <1>3, <2>2, <3>3, <4>1 DEF WillBeAsShipped, Untouched
      <4>5. QED
        BY <4>1, <4>2, <4>3, <4>4
    <3>4. AsShipped'
      BY <3>2, <3>3 DEF AsShipped
    <3>5. QED
      BY <2>2, <2>3, <3>1, <3>4 DEF ShippedOrTold
  <2>6. QED
    BY <2>4, <2>5
<1>11. QED
  BY <1>6, <1>7, <1>9, <1>10 DEF ConfigInv

\* A change makes of the item what was asked for, and leaves the others.
LEMMA ChangedIs ==
  ASSUME NEW p \in Procs, S!Changing(p), task[p].item \in S!Items, S!Possible(p),
         IsCatalog(text), IsCatalog(archive), seen[p] = [text |-> text, archive |-> archive]
  PROVE  LET i == task[p].item
             c == S!Changed(p)
         IN /\ IsCatalog(c.text) /\ IsCatalog(c.archive)
            /\ \A k \in S!Items \ {i} : c.text[k] = text[k] /\ c.archive[k] = archive[k]
            /\ task[p].kind = "save" => c.text[i] = Mine
            /\ task[p].kind = "delete" =>
                 c.text[i] = Absent /\ (i \in Models => c.archive[i] # Absent)
            /\ task[p].kind = "restore" => c.text[i] # Absent
<1>1. PICK i \in S!Items : i = task[p].item
  OBVIOUS
<1>2. seen[p].text = text /\ seen[p].archive = archive
  OBVIOUS
<1>3. /\ text = [k \in S!Items |-> text[k]] /\ archive = [k \in S!Items |-> archive[k]]
  BY DEF IsCatalog
<1>4. CASE task[p].kind = "save"
  <2>1. S!Changed(p) =
          [text |-> [text EXCEPT ![i] = Mine], archive |-> [archive EXCEPT ![i] = Absent]]
    BY <1>1, <1>2, <1>4 DEF S!Changed
  <2>2. QED
    BY <1>1, <1>3, <1>4, <2>1 DEF IsCatalog
<1>5. CASE task[p].kind = "delete"
  <2>1. S!Changed(p) =
          [text |-> [text EXCEPT ![i] = Absent],
           archive |-> [archive EXCEPT ![i] = IF i \in Models THEN text[i] ELSE Absent]]
    BY <1>1, <1>2, <1>5 DEF S!Changed
  <2>2. text[i] # Absent
    BY <1>1, <1>2, <1>5 DEF S!Possible
  <2>3. QED
    BY <1>1, <1>3, <1>5, <2>1, <2>2 DEF IsCatalog
<1>6. CASE task[p].kind = "restore"
  <2>1. S!Changed(p) =
          [text |-> [text EXCEPT ![i] = archive[i]], archive |-> [archive EXCEPT ![i] = Absent]]
    BY <1>1, <1>2, <1>6 DEF S!Changed
  <2>2. archive[i] # Absent
    BY <1>1, <1>2, <1>6 DEF S!Possible
  <2>3. QED
    BY <1>1, <1>3, <1>6, <2>1, <2>2 DEF IsCatalog
<1>7. QED
  BY <1>4, <1>5, <1>6 DEF S!Changing

\* A change writes the file of the item.
LEMMA ChangingKeeps ==
  ASSUME ConfigInv, NEW p \in Procs, S!WritesFile(p)
  PROVE  ConfigInv'
<1>1. /\ ConfigTypeOK /\ TaskFits /\ LockHeld
  BY DEF ConfigInv
<1>2. pc[p] = "read" /\ S!Changing(p) /\ S!Possible(p)
  BY <1>1 DEF S!WritesFile, TaskFits
<1>3. PICK i \in S!Items : i = task[p].item
  BY <1>1, <1>2 DEF ConfigTypeOK, ConfigTasks, S!Changing, S!NoTask, S!Migrates
<1>4. PICK c : c = S!Changed(p)
  OBVIOUS
<1>5. PICK w \in {Mine, Absent, "any"} :
        /\ chosen' = [chosen EXCEPT ![i] = w]
        /\ w = Mine => task[p].kind = "save"
        /\ w = Absent => task[p].kind = "delete"
        /\ w = "any" => task[p].kind = "restore"
  BY <1>2, <1>3, ConfigAssumption DEF S!WritesFile, S!Changing
<1>6. /\ pc' = [pc EXCEPT ![p] = "written"] /\ files' = files \cup {S!FileOf(i)}
      /\ text' = [k \in S!Items |-> IF S!FileOf(k) = S!FileOf(i) THEN c.text[k] ELSE text[k]]
      /\ archive' = IF S!FileOf(i) = "models" THEN c.archive ELSE archive
      /\ UNCHANGED <<baseline, lock, task, seen, left, lingers, raced, unread, cut>>
      /\ forgotten' = {k \in Prompts :
           chosen'[k] = Absent /\ (k \in forgotten \/ S!Base(baseline)[k] = Absent)}
  BY <1>3, <1>4 DEF S!WritesFile, S!Puts, S!Forgets, S!Goes, S!FileOf
<1>7. /\ chosen' \in [S!Items -> Wishes] /\ chosen'[i] = w
      /\ \A k \in S!Items \ {i} : chosen'[k] = chosen[k]
  BY <1>1, <1>3, <1>5 DEF ConfigTypeOK, Wishes
<1>8. /\ pc'[p] = "written" /\ pc' \in [Procs -> ConfigPlaces]
      /\ \A q \in Procs \ {p} : pc'[q] = pc[q]
  BY <1>1, <1>6 DEF ConfigTypeOK, ConfigPlaces
<1>9. ConfigTypeOK'
  BY <1>1, <1>6, <1>7, <1>8 DEF ConfigTypeOK, S!FileOf
<1>10. TaskFits'
  BY <1>1, <1>2, <1>6, <1>8 DEF TaskFits, S!Changing
<1>11. Inside(p)
  BY <1>2 DEF Inside
<1>12. LockHeld'
  BY <1>1, <1>2, <1>6, <1>8 DEF LockHeld, Inside, ConfigTypeOK, Locks
<1>13. ASSUME ~raced', ~unread'
       PROVE  /\ StoredAsWanted' /\ HolderKnows'
              /\ \A q \in Procs \ {p} : ~Inside(q)
              /\ \A k \in S!Items \ {i} : text'[k] = text[k]
  <2>1. /\ StoredAsWanted /\ HolderKnows
    BY <1>6, <1>13 DEF ConfigInv
  <2>2. /\ IsCatalog(text) /\ IsCatalog(archive) /\ seen[p] = [text |-> text, archive |-> archive]
    BY <1>2, <2>1 DEF StoredAsWanted, HolderKnows
  <2>3. /\ IsCatalog(c.text) /\ IsCatalog(c.archive)
        /\ \A k \in S!Items \ {i} : c.text[k] = text[k] /\ c.archive[k] = archive[k]
        /\ task[p].kind = "save" => c.text[i] = Mine
        /\ task[p].kind = "delete" => c.text[i] = Absent /\ (i \in Models => c.archive[i] # Absent)
        /\ task[p].kind = "restore" => c.text[i] # Absent
    BY <1>2, <1>3, <1>4, <2>2, ChangedIs
  <2>4. \A q \in Procs \ {p} : ~Inside(q)
    BY <1>6, <1>11, <1>13, HolderIsAlone
  <2>5. \A k \in S!Items : text'[k] = IF k = i THEN c.text[i] ELSE text[k]
    BY <1>3, <1>6, <2>3
  <2>6. \A k \in S!Items \ {i} : archive'[k] = archive[k]
    BY <1>6, <2>3
  <2>7. /\ IsCatalog(text') /\ IsCatalog(archive')
    BY <1>6, <2>2, <2>3 DEF IsCatalog
  <2>8. forgotten \subseteq Prompts /\ \A k \in S!Items : k \notin Models => k \in Prompts
    BY <1>1 DEF ConfigTypeOK, S!Items
  <2>9. ASSUME NEW k \in S!Items
        PROVE  /\ Wanted(k, text[k])'
               /\ chosen'[k] = Absent /\ k \in Models => archive'[k] # Absent
               /\ chosen'[k] = Absent /\ k \notin Models /\ k \notin forgotten'
                    => S!Base(baseline')[k] # Absent
               /\ chosen'[k] = None => archive'[k] = Absent
               /\ S!FileOf(k) \notin files' => text'[k] = Absent /\ chosen'[k] = None
    <3>1. CASE k = i
      <4>1. chosen'[k] # None /\ S!FileOf(k) \in files'
        BY <1>6, <1>7, <3>1, ConfigAssumption
      <4>2. Wanted(k, text[k])'
        BY <1>5, <1>7, <2>3, <2>5, <3>1, ConfigAssumption DEF Wanted
      <4>3. chosen'[k] = Absent /\ k \in Models => archive'[k] # Absent
        BY <1>5, <1>6, <1>7, <2>3, <3>1 DEF S!FileOf
      <4>4. chosen'[k] = Absent /\ k \notin Models /\ k \notin forgotten'
              => S!Base(baseline')[k] # Absent
        BY <1>6, <2>8
      <4>5. QED
        BY <4>1, <4>2, <4>3, <4>4
    <3>2. CASE k # i
      <4>1. text'[k] = text[k] /\ archive'[k] = archive[k] /\ chosen'[k] = chosen[k]
        BY <1>7, <2>5, <2>6, <3>2
      <4>2. chosen[k] = Absent /\ k \in forgotten => k \in forgotten'
        BY <1>6, <2>8, <4>1
      <4>3. Wanted(k, text[k])'
        BY <2>1, <4>1, <4>2 DEF Wanted, StoredAsWanted
      <4>4. S!FileOf(k) \notin files' => text'[k] = Absent /\ chosen'[k] = None
        BY <1>6, <2>1, <4>1 DEF StoredAsWanted
      <4>5. chosen'[k] = Absent /\ k \notin Models /\ k \notin forgotten'
              => S!Base(baseline')[k] # Absent
        BY <1>6, <2>8
      <4>6. QED
        BY <2>1, <4>1, <4>3, <4>4, <4>5 DEF StoredAsWanted
    <3>3. QED
      BY <3>1, <3>2
  <2>10. StoredAsWanted'
    BY <2>7, <2>9 DEF StoredAsWanted
  <2>11. HolderKnows'
    BY <1>8, <2>4 DEF HolderKnows, Inside
  <2>12. QED
    BY <2>4, <2>5, <2>10, <2>11
<1>14. ASSUME ~raced', ~unread', ~cut' PROVE ShippedOrTold'
  <2>1. ShippedOrTold
    BY <1>6, <1>14 DEF ConfigInv
  <2>2. /\ \A q \in Procs : ~Writing(q) /\ ~Writing(q)'
    BY <1>2, <1>8, <1>13, <1>14 DEF Writing, Inside
  <2>3. AsShipped /\ files = {"models", "prompts"}
    BY <1>2, <2>1, <2>2 DEF ShippedOrTold
  <2>4. files' = {"models", "prompts"}
    BY <1>6, <2>3 DEF S!FileOf
  <2>5. ASSUME NEW k \in S!Items, Untouched(k)'
        PROVE  IF k \in lingers' THEN text'[k] # Absent ELSE text'[k] = S!Base(baseline')[k]
    <3>1. k # i /\ Untouched(k)
      BY <1>7, <2>5, ConfigAssumption DEF Untouched
    <3>2. text'[k] = text[k]
      BY <1>13, <1>14, <3>1
    <3>3. QED
      BY <1>6, <2>3, <3>1, <3>2 DEF AsShipped
  <2>6. AsShipped'
    BY <2>4, <2>5 DEF AsShipped
  <2>7. QED
    BY <2>2, <2>4, <2>6 DEF ShippedOrTold
<1>15. QED
  BY <1>9, <1>10, <1>12, <1>13, <1>14 DEF ConfigInv

\* Every step of ConfigStore keeps what holds of it.
LEMMA ConfigStep ==
  ASSUME ConfigInv, S!Next
  PROVE  ConfigInv'
<1>1. PICK p \in Procs :
        \/ S!Starts(p) \/ S!MakesLock(p) \/ S!WritesLock(p) \/ S!FindsLock(p) \/ S!RemovesLock(p)
        \/ S!GivesUp(p) \/ S!Crashes(p)
        \/ S!Migrate(p) \/ S!MigratesFile(p) \/ S!MigrationFails(p) \/ S!MigrationEnds(p)
        \/ S!Changes(p) \/ S!ReadsFile(p) \/ S!Refuses(p) \/ S!WritesFile(p) \/ S!WriteEnds(p)
  BY DEF S!Next
<1>2. CASE S!Migrate(p)
  <2>1. CASE files = {"models", "prompts"} /\ baseline = Version[p]
    <3>1. S!Leaves(p)
      BY <1>2, <2>1 DEF S!Migrate
    <3>2. QED
      BY <1>2, <2>1, <3>1, EndsKeep
  <2>2. QED
    BY <1>2, <2>1, MigrationKeeps
<1>3. QED
  BY <1>1, <1>2, LockStepsKeep, CrashKeeps, EndsKeep, ReadingKeeps, MigratingKeeps, ChangingKeeps

\* What is stored is what the user wants, and elsewhere as shipped once nobody is at it.
LEMMA ConfigHolds == ConfigInv => S!CatalogIsTheUsers
<1> SUFFICES ASSUME ConfigInv, ~raced, ~unread, NEW i \in S!Items
    PROVE  /\ chosen[i] = Mine => text[i] = Mine
           /\ chosen[i] = "any" => text[i] # Absent
           /\ chosen[i] = Absent /\ i \notin forgotten => text[i] = Absent
           /\ chosen[i] = None /\ i \notin lingers /\ ~cut /\ lock = None /\ baseline # 0 =>
                text[i] = Shipped[baseline][i]
  BY DEF S!CatalogIsTheUsers
<1>1. Wanted(i, text[i])
  BY DEF ConfigInv, StoredAsWanted
<1>2. ASSUME chosen[i] = None, i \notin lingers, ~cut, lock = None, baseline # 0
      PROVE  text[i] = Shipped[baseline][i]
  <2>1. \A p \in Procs : ~Writing(p)
    BY <1>2 DEF ConfigInv, LockHeld, Writing, Inside
  <2>2. AsShipped
    BY <1>2, <2>1 DEF ConfigInv, ShippedOrTold
  <2>3. QED
    BY <1>2, <2>2 DEF AsShipped, Untouched, S!Base
<1>3. QED
  BY <1>1, <1>2 DEF Wanted

\* CatalogIsTheUsers: what the user has saved stays as it was saved and what was deleted stays
\* away, whichever processes change the catalog or migrate it, in whatever versions; and what was
\* never touched is as it is shipped.
THEOREM CatalogStaysTheUsers == Spec => []CatalogIsTheUsers
<1>1. Init => (part = "ConfigStore" => ConfigInv)
  BY ConfigStarts DEF Init
<1>2. (part = "ConfigStore" => ConfigInv) /\ [Next]_vars => (part = "ConfigStore" => ConfigInv)'
  <2> SUFFICES ASSUME part = "ConfigStore" => ConfigInv, [Next]_vars, part' = "ConfigStore"
      PROVE  ConfigInv'
    OBVIOUS
  <2>1. CASE part = "ConfigStore" /\ S!Next
    BY <2>1, ConfigStep
  <2>2. CASE UNCHANGED vars
    <3>1. UNCHANGED part /\ UNCHANGED ofConfigStore
      BY <2>2 DEF vars
    <3>2. UNCHANGED <<lock, files, text, archive, baseline, pc, task, seen, left, chosen, forgotten,
            lingers, raced, unread, cut>>
      BY <3>1 DEF ofConfigStore
    <3>3. ConfigTypeOK' /\ TaskFits' /\ LockHeld'
      BY <3>1, <3>2 DEF ConfigInv, ConfigTypeOK, TaskFits, LockHeld, Inside, S!Changing
    <3>4. StoredAsWanted' = StoredAsWanted /\ HolderKnows' = HolderKnows
      BY <3>2 DEF StoredAsWanted, HolderKnows, Wanted, ToWrite, IsCatalog
    <3>5. ShippedOrTold' = ShippedOrTold
      BY <3>2 DEF ShippedOrTold, Writing, AsShipped, WillBeAsShipped, Untouched, S!Changing
    <3>6. QED
      BY <3>1, <3>2, <3>3, <3>4, <3>5 DEF ConfigInv
  <2>3. QED
    BY <2>1, <2>2 DEF Next, StaysBut
<1>3. (part = "ConfigStore" => ConfigInv) => CatalogIsTheUsers
  BY ConfigHolds DEF CatalogIsTheUsers
<1>4. QED
  BY <1>1, <1>2, <1>3, PTL DEF Spec

(*****************************************************************************)
(* RunStore: the store of runs                                               *)
(*****************************************************************************)
Rows == [run : StoredRuns, status : {"running", "parked", "ended"}, text : Nat]
StatsOf == [at : Nat, size : Nat]
Entered == [row : Rows, at : Nat, size : Nat]
Stored == [status : {"running", "parked", "ended"}, text : Nat, size : Nat, at : Nat,
           sizes : SUBSET Nat]
Listings == [for : {"all", "page"}, todo : SUBSET StoredRuns, run : StoredRuns \cup {None},
             st : StatsOf \cup {None}, row : Rows \cup {None}, rows : SUBSET Rows,
             doubt : SUBSET StoredRuns, held : [StoredRuns -> SUBSET (Rows \cup {None})]]
Sweeps == [for : {"prune"}, todo : SUBSET StoredRuns, run : StoredRuns \cup {None}]
Saving == [for : {"write"}, run : StoredRuns, row : Rows]

StoreTypeOK ==
    /\ manifest \in [StoredRuns -> Stored \cup {None}]
    /\ dir \in [StoredRuns -> {"whole", "part", "none"}]
    /\ kept \subseteq StoredRuns /\ owned \subseteq StoredRuns /\ unsettled \subseteq StoredRuns
    /\ clock \in Nat /\ cache \in Seq(Entered)
    /\ daemon \in {"off", "settling", "listing", "pruning", "serving"}
    /\ scan \in {None} \cup Listings \cup Sweeps \cup Saving
    /\ usage \in [value : SUBSET StoredRuns, until : Nat,
                  walk : {None} \cup [todo : SUBSET StoredRuns, sum : SUBSET StoredRuns]]

\* What has a manifest has its files.
FilesOfRuns == \A r \in StoredRuns : manifest[r] # None => dir[r] # "none"

\* A call is of its time of the daemon.
CallFits ==
    /\ scan # None =>
         /\ scan.for \in {"all", "page"} => daemon \in {"listing", "serving"}
         /\ scan.for = "prune" => daemon = "pruning"
         /\ scan.for = "write" => daemon = "serving"
    /\ daemon = "pruning" => scan # None

\* A manifest is of some time that has been, and has the size it has.
ManifestsAreOld ==
    \A r \in StoredRuns : manifest[r] # None =>
      manifest[r].at <= clock /\ manifest[r].size \in manifest[r].sizes

\* What a row that is on its way says is live, if the run is.
StaysLive(row) ==
    manifest[row.run] # None /\ manifest[row.run].status = "running" => row.status = "running"

\* The summary of a run that was just written is about to be remembered.
WritesBack(r) == scan # None /\ scan.for = "write" /\ scan.run = r

\* A summary is remembered once, under a time and size of its manifest that will not come again
\* without a note, and says of a live run that it is.
Remembers(e) ==
    LET r == e.row.run
        m == manifest[r]
    IN m # None /\ ~WritesBack(r) =>
         /\ e.at <= m.at
         /\ e.at = m.at => e.size \in m.sizes
         /\ D!Same(e, m) /\ r \notin blurred => e.row = D!Row(r)
         /\ StaysLive(e.row)

Single(c) == \A m, n \in DOMAIN c : c[m].row.run = c[n].row.run => m = n

CacheOK ==
    /\ Single(cache)
    /\ daemon # "off" => \A e \in Range(cache) : Remembers(e)

Current(r) == IF manifest[r] = None THEN None ELSE D!Row(r)

\* A row is what the listing held of its run, if nothing is in doubt; and live if that is.
RowFits(row, l) ==
    /\ row.run \notin l.doubt => row \in l.held[row.run]
    /\ (\A h \in l.held[row.run] : h # None /\ h.status = "running") => row.status = "running"

\* A listing goes from the last run to the first.
ListingOK ==
    D!Listing =>
      /\ \A r \in StoredRuns :
           /\ Current(r) \in scan.held[r]
           /\ \/ r \in scan.todo \/ None \in scan.held[r]
              \/ \E row \in scan.rows : row.run = r
      /\ \A a, b \in scan.rows : a.run = b.run => a = b
      /\ \A row \in scan.rows : RowFits(row, scan) /\ \A t \in scan.todo : row.run > t
      /\ scan.run # None => scan.run \in scan.todo /\ scan.st \in StatsOf
                            /\ \A t \in scan.todo : t <= scan.run
      /\ scan.row # None => /\ scan.run # None /\ scan.row \in Rows /\ scan.row.run = scan.run
                            /\ scan.row \in scan.held[scan.run] /\ StaysLive(scan.row)

WriteOK == scan # None /\ scan.for = "write" => scan.row.run = scan.run /\ StaysLive(scan.row)

\* What was under way or waited at the boot is not old enough to go.
SettledLate ==
    daemon \in {"settling", "listing", "pruning"} =>
      \A r \in unsettled :
        manifest[r] # None /\ manifest[r].status = "ended" => manifest[r].at = clock

\* What a walk or its result counts of the runs that are gone is untold.
Gone == {r \in StoredRuns : dir[r] = "none"}
UsageOK ==
    /\ clock < usage.until => usage.value \cap Gone \subseteq untold
    /\ usage.walk # None => usage.walk.sum \cap Gone \subseteq untold

StoreInv ==
    /\ StoreTypeOK /\ FilesOfRuns /\ CallFits /\ ManifestsAreOld /\ CacheOK /\ ListingOK /\ WriteOK
    /\ SettledLate /\ UsageOK /\ D!RowsAreCurrent /\ D!SweepSpares

-----------------------------------------------------------------------------
\* The store counts and picks as the rest does.
LEMMA StoreOperators ==
  /\ \A A : D!Cardinality(A) = Cardinality(A)
  /\ \A s, I0 : D!Pick(s, I0) = Pick(s, I0)
<1>1. \A A : D!Cardinality(A) = Cardinality(A)
  BY DEF D!Cardinality, Cardinality
<1>2. \A I0, i : D!Rank(I0, i) = Rank(I0, i)
  BY <1>1 DEF D!Rank, Rank
<1>3. \A I0, n : D!Nth(I0, n) = Nth(I0, n)
  BY <1>2 DEF D!Nth, Nth
<1>4. QED
  BY <1>1, <1>3 DEF D!Pick, Pick

\* A finite set of naturals that is not empty has a greatest element.
LEMMA GreatestOf ==
  ASSUME NEW W \in SUBSET Nat, IsFiniteSet(W), W # {}
  PROVE  D!Max(W) \in W /\ \A w \in W : w <= D!Max(W)
<1> DEFINE P == {W0 \in SUBSET W : W0 = {} \/ \E x \in W0 : \A w \in W0 : w <= x}
<1>1. ASSUME NEW s \in SUBSET W, \A x \in s : s \ {x} \in P
      PROVE  s \in P
  <2>1. CASE s = {}
    BY <2>1
  <2>2. CASE s # {}
    <3>1. PICK x \in s : TRUE
      BY <2>2
    <3>2. CASE s \ {x} = {}
      <4>1. s = {x} /\ x \in Nat
        BY <3>1, <3>2
      <4>2. QED
        BY <4>1
    <3>3. CASE s \ {x} # {}
      <4>1. PICK y \in s \ {x} : \A w \in s \ {x} : w <= y
        BY <1>1, <3>3
      <4>2. x \in Nat /\ y \in Nat /\ y \in s /\ \A w \in s : w \in Nat
        OBVIOUS
      <4>3. CASE x <= y
        <5>1. \A w \in s : w <= y
          BY <4>1, <4>3
        <5>2. QED
          BY <4>2, <5>1
      <4>4. CASE y <= x
        <5>1. \A w \in s : w <= x
          BY <4>1, <4>2, <4>4
        <5>2. QED
          BY <5>1
      <4>5. QED
        BY <4>2, <4>3, <4>4
    <3>4. QED
      BY <3>2, <3>3
  <2>3. QED
    BY <2>1, <2>2
<1> HIDE DEF P
<1>2. \A s \in SUBSET W : s \in P
  BY <1>1, SubsetInduction
<1>3. \E x \in W : \A w \in W : w <= x
  BY <1>2 DEF P
<1>4. \E x \in W : \A w \in W : x >= w
  BY <1>3
<1>5. D!Max(W) \in W /\ \A w \in W : D!Max(W) >= w
  BY <1>4 DEF D!Max
<1>6. QED
  BY <1>5

\* The last of some runs is one of them.
LEMMA LastRun ==
  ASSUME StoreAssumption, NEW W \in SUBSET StoredRuns, W # {}
  PROVE  D!Max(W) \in W /\ \A w \in W : w <= D!Max(W)
<1>1. W \in SUBSET Nat /\ IsFiniteSet(W)
  BY FS_Subset DEF StoreAssumption
<1>2. QED
  BY <1>1, GreatestOf

\* What a cache without the summary of a run has.
LEMMA ForgottenIs ==
  ASSUME NEW c \in Seq(Entered), Single(c), NEW r
  PROVE  LET f == D!Forgotten(c, r)
         IN /\ f \in Seq(Entered) /\ Single(f)
            /\ \A e \in Range(f) : e \in Range(c) /\ e.row.run # r
            /\ Len(f) = Len(c) => \A e \in Range(c) : e.row.run # r
<1> DEFINE J == {n \in DOMAIN c : c[n].row.run # r}
           f == Pick(c, J)
<1>1. D!Forgotten(c, r) = f
  BY StoreOperators DEF D!Forgotten
<1>2. J \in SUBSET DOMAIN c
  OBVIOUS
<1>3. f \in Seq(Entered) /\ Range(f) = {c[i] : i \in J}
  BY <1>2, PickProperties
<1>4. /\ DOMAIN f = 1 .. Cardinality(J)
      /\ \A n \in 1 .. Cardinality(J) : Nth(J, n) \in J /\ f[n] = c[Nth(J, n)]
      /\ \A m, n \in 1 .. Cardinality(J) : m < n => Nth(J, m) < Nth(J, n)
  BY <1>2, PickOrdered
<1>5. Len(c) \in Nat /\ DOMAIN c = 1 .. Len(c)
  BY LenProperties
<1>6. IsFiniteSet(DOMAIN c) /\ Cardinality(DOMAIN c) = Len(c)
  <2>1. IsFiniteSet(1 .. Len(c)) /\ Cardinality(1 .. Len(c))
          = IF 1 > Len(c) THEN 0 ELSE Len(c) - 1 + 1
    BY <1>5, FS_Interval
  <2>2. QED
    BY <1>5, <2>1
<1>7. IsFiniteSet(J) /\ Cardinality(J) \in Nat
      /\ (Cardinality(J) = Cardinality(DOMAIN c) => J = DOMAIN c)
  BY <1>2, <1>6, FS_Subset, FS_CardinalityType
<1> HIDE DEF f
<1>8. Single(f)
  <2> SUFFICES ASSUME NEW m \in DOMAIN f, NEW n \in DOMAIN f, f[m].row.run = f[n].row.run
               PROVE  m = n
    BY DEF Single
  <2>1. m \in Int /\ n \in Int
    BY <1>4, <1>7
  <2>2. Nth(J, m) \in DOMAIN c /\ Nth(J, n) \in DOMAIN c
    BY <1>4
  <2>3. Nth(J, m) = Nth(J, n)
    BY <1>4, <2>2 DEF Single
  <2>4. Nth(J, m) \in Nat
    BY <1>5, <2>2
  <2>5. ~(m < n) /\ ~(n < m)
    BY <1>4, <2>3, <2>4
  <2>6. QED
    BY <2>1, <2>5
<1>9. \A e \in Range(f) : e \in Range(c) /\ e.row.run # r
  BY <1>3 DEF Range
<1>10. Len(f) = Cardinality(J)
  <2>1. Len(f) \in Nat /\ DOMAIN f = 1 .. Len(f)
    BY <1>3, LenProperties
  <2>2. QED
    BY <1>4, <1>7, <2>1
<1>11. ASSUME Len(f) = Len(c) PROVE \A e \in Range(c) : e.row.run # r
  <2>1. J = DOMAIN c
    BY <1>6, <1>7, <1>10, <1>11
  <2>2. QED
    BY <2>1 DEF Range
<1>12. QED
  BY <1>1, <1>3, <1>8, <1>9, <1>11

\* What a cache has once a summary is remembered: that one for its run, if any.
LEMMA RememberedIs ==
  ASSUME StoreAssumption, NEW c \in Seq(Entered), Single(c), NEW e \in Entered, NEW b \in BOOLEAN
  PROVE  LET k == D!Remembered(c, e, b)
         IN /\ k \in Seq(Entered) /\ Single(k)
            /\ \A x \in Range(k) : x = e \/ (x \in Range(c) /\ x.row.run # e.row.run)
<1> DEFINE f == D!Forgotten(c, e.row.run)
           a == Append(f, e)
<1>1. /\ f \in Seq(Entered) /\ Single(f)
      /\ \A x \in Range(f) : x \in Range(c) /\ x.row.run # e.row.run
      /\ Len(f) = Len(c) => \A x \in Range(c) : x.row.run # e.row.run
  BY ForgottenIs
<1> HIDE DEF f
<1>2. Len(f) \in Nat /\ DOMAIN f = 1 .. Len(f)
  BY <1>1, LenProperties
<1>3. a \in Seq(Entered) /\ Len(a) = Len(f) + 1
      /\ \A n \in 1 .. Len(f) + 1 : a[n] = IF n = Len(f) + 1 THEN e ELSE f[n]
  BY <1>1, AppendProperties
<1> HIDE DEF a
<1>4. DOMAIN a = 1 .. Len(f) + 1
  BY <1>3, LenProperties
<1>5. \A n \in DOMAIN f : f[n].row.run # e.row.run
  BY <1>1 DEF Range
<1>6. Single(a)
  <2> SUFFICES ASSUME NEW m \in DOMAIN a, NEW n \in DOMAIN a, a[m].row.run = a[n].row.run
               PROVE  m = n
    BY DEF Single
  <2>1. CASE m = Len(f) + 1
    BY <1>2, <1>3, <1>4, <1>5, <2>1
  <2>2. CASE n = Len(f) + 1
    BY <1>2, <1>3, <1>4, <1>5, <2>2
  <2>3. CASE m # Len(f) + 1 /\ n # Len(f) + 1
    <3>1. m \in DOMAIN f /\ n \in DOMAIN f /\ a[m] = f[m] /\ a[n] = f[n]
      BY <1>2, <1>3, <1>4, <2>3
    <3>2. QED
      BY <1>1, <3>1 DEF Single
  <2>4. QED
    BY <2>1, <2>2, <2>3
<1>7. \A x \in Range(a) : x = e \/ (x \in Range(c) /\ x.row.run # e.row.run)
  <2>1. \A n \in DOMAIN a : a[n] = e \/ a[n] \in Range(f)
    BY <1>2, <1>3, <1>4 DEF Range
  <2>2. \A x \in Range(a) : x = e \/ x \in Range(f)
    BY <2>1 DEF Range
  <2>3. QED
    BY <1>1, <2>2
<1>8. a # <<>>
  BY <1>2, <1>4
<1>9. /\ Tail(a) \in Seq(Entered) /\ Len(Tail(a)) = Len(a) - 1
      /\ \A n \in 1 .. Len(a) - 1 : Tail(a)[n] = a[n + 1]
  BY <1>3, <1>8, HeadTailProperties
<1>10. DOMAIN Tail(a) = 1 .. Len(f)
  BY <1>2, <1>3, <1>9, LenProperties
<1>11. \A n \in DOMAIN Tail(a) : n \in Nat /\ n + 1 \in DOMAIN a /\ Tail(a)[n] = a[n + 1]
  BY <1>2, <1>3, <1>4, <1>9, <1>10
<1>12. Single(Tail(a)) /\ \A x \in Range(Tail(a)) : x \in Range(a)
  <2>1. \A x \in Range(Tail(a)) : x \in Range(a)
    BY <1>11 DEF Range
  <2>2. ASSUME NEW m \in DOMAIN Tail(a), NEW n \in DOMAIN Tail(a),
               Tail(a)[m].row.run = Tail(a)[n].row.run
        PROVE  m = n
    <3>1. m + 1 = n + 1
      BY <1>6, <1>11, <2>2 DEF Single
    <3>2. QED
      BY <1>11, <3>1
  <2>3. QED
    BY <2>1, <2>2 DEF Single
<1>13. D!Remembered(c, e, b) = IF b /\ Len(f) = Len(c) /\ Len(c) >= CacheMax THEN c
                             ELSE IF Len(a) > CacheMax THEN Tail(a) ELSE a
  BY DEF D!Remembered, f, a
<1>14. b /\ Len(f) = Len(c) =>
         \A x \in Range(c) : x \in Range(c) /\ x.row.run # e.row.run
  BY <1>1
<1>15. QED
  BY <1>3, <1>6, <1>7, <1>9, <1>12, <1>13, <1>14

-----------------------------------------------------------------------------
\* What a conjunct of the invariant does not mention leaves it alone.
LEMMA RowsKept == D!RowsAreCurrent /\ UNCHANGED shown => D!RowsAreCurrent'
BY DEF D!RowsAreCurrent, D!RowsOf

\* The usage stays with the files and the time.
LEMMA UsageKept == UsageOK /\ UNCHANGED <<clock, dir, usage, untold>> => UsageOK'
BY DEF UsageOK, Gone

\* A listing stays with the manifests.
LEMMA ListingKept == ListingOK /\ UNCHANGED <<scan, manifest>> => ListingOK'
<1> SUFFICES ASSUME ListingOK, UNCHANGED <<scan, manifest>> PROVE ListingOK'
  OBVIOUS
<1>1. /\ D!Listing' <=> D!Listing
      /\ \A r \in StoredRuns : Current(r)' = Current(r)
      /\ \A row : RowFits(row, scan)' = RowFits(row, scan)
      /\ \A row : StaysLive(row)' = StaysLive(row)
  BY DEF D!Listing, Current, RowFits, StaysLive, D!Row, D!RowIn
<1>2. scan' = scan
  OBVIOUS
<1>3. QED
  BY <1>1, <1>2 DEF ListingOK

\* What a summary that is remembered says goes on to be so while its manifest stays.
LEMMA RemembersKept ==
  ASSUME NEW e, Remembers(e), UNCHANGED manifest, blurred \subseteq blurred',
         WritesBack(e.row.run) => WritesBack(e.row.run)'
  PROVE  Remembers(e)'
BY DEF Remembers, D!Row, D!RowIn, D!Same, StaysLive

\* The cache stays when its manifests do, and the daemon does not begin.
LEMMA CacheKept ==
  ASSUME CacheOK, UNCHANGED <<cache, manifest>>, blurred \subseteq blurred',
         daemon' # "off" => daemon # "off",
         \A r : WritesBack(r) => WritesBack(r)'
  PROVE  CacheOK'
<1>1. Single(cache')
  BY DEF CacheOK
<1>2. ASSUME NEW e \in Range(cache'), daemon' # "off" PROVE Remembers(e)'
  <2>1. Remembers(e)
    BY <1>2 DEF CacheOK
  <2>2. QED
    BY <2>1, RemembersKept
<1>3. QED
  BY <1>1, <1>2 DEF CacheOK

\* A listing that runs is one.
LEMMA ListingIs == StoreTypeOK /\ D!Listing => scan \in Listings
BY DEF StoreTypeOK, D!Listing, Listings, Sweeps, Saving

\* What runs at what time.
LEMMA CallsAre ==
  ASSUME StoreTypeOK, CallFits
  PROVE  /\ daemon \in {"off", "settling"} => scan = None
         /\ scan # None => scan.for \in {"all", "page", "prune", "write"}
         /\ daemon = "pruning" => scan # None /\ scan \in Sweeps
         /\ daemon = "listing" => scan = None \/ D!Listing
         /\ D!Listing => daemon \in {"listing", "serving"}
         /\ \A r : WritesBack(r) => daemon = "serving"
<1>1. scan # None => scan.for \in {"all", "page", "prune", "write"}
  BY DEF StoreTypeOK, Listings, Sweeps, Saving
<1>2. scan # None /\ scan.for = "prune" => scan \in Sweeps
  BY DEF StoreTypeOK, Listings, Sweeps, Saving
<1>3. QED
  BY <1>1, <1>2 DEF CallFits, D!Listing, WritesBack

\* What is written of a run.
LEMMA WrittenIs ==
  ASSUME StoreTypeOK, ManifestsAreOld, StoreAssumption, NEW r \in StoredRuns,
         NEW status \in {"running", "parked", "ended"}, NEW size \in Nat,
         D!Written(r, status, size)
  PROVE  /\ manifest' \in [StoredRuns -> Stored \cup {None}]
         /\ \A x \in StoredRuns : x # r => manifest'[x] = manifest[x]
         /\ LET m == manifest'[r]
            IN /\ m # None /\ m.status = status /\ m.size = size /\ m.at = clock
               /\ size \in m.sizes
               /\ manifest[r] # None /\ manifest[r].at = clock =>
                    /\ manifest[r].sizes \subseteq m.sizes
                    /\ size \in manifest[r].sizes => r \in blurred'
         /\ \A x : x # r => (x \in blurred' <=> x \in blurred)
<1> DEFINE sizes == IF manifest[r] # None /\ manifest[r].at = clock THEN manifest[r].sizes ELSE {}
           words == IF manifest[r] = None THEN 1 ELSE manifest[r].text + 1
           n == [status |-> status, text |-> words, size |-> size, at |-> clock,
                 sizes |-> sizes \cup {size}]
<1>1. /\ manifest' = [manifest EXCEPT ![r] = n]
      /\ blurred' = IF size \in sizes THEN blurred \cup {r} ELSE blurred \ {r}
  BY DEF D!Written
<1>2. manifest \in [StoredRuns -> Stored \cup {None}] /\ clock \in Nat
  BY DEF StoreTypeOK
<1>3. manifest[r] # None => manifest[r].text \in Nat /\ manifest[r].sizes \subseteq Nat
  BY <1>2 DEF Stored
<1>4. sizes \subseteq Nat /\ words \in Nat
  BY <1>3
<1>5. n \in Stored
  BY <1>2, <1>4 DEF Stored
<1>6. n # None
  BY <1>5 DEF Stored, StoreAssumption
<1>7. manifest'[r] = n
  BY <1>1, <1>2
<1>8. QED
  BY <1>1, <1>2, <1>5, <1>6, <1>7

\* The summary of a run that is written again is as good as before, if the run does not begin.
LEMMA RemembersOver ==
  ASSUME StoreTypeOK, ManifestsAreOld, StoreAssumption, NEW r \in StoredRuns,
         NEW status \in {"running", "parked", "ended"}, NEW size \in Nat,
         D!Written(r, status, size), manifest[r] # None,
         status = "running" => manifest[r].status = "running",
         NEW e \in Entered, Remembers(e), WritesBack(e.row.run) => WritesBack(e.row.run)'
  PROVE  Remembers(e)'
<1> DEFINE x == e.row.run
           m == manifest[x]
<1>1. /\ \A y \in StoredRuns : y # r => manifest'[y] = manifest[y]
      /\ manifest'[r] # None /\ manifest'[r].status = status /\ manifest'[r].at = clock
      /\ manifest'[r].size = size
      /\ manifest[r].at = clock =>
           /\ manifest[r].sizes \subseteq manifest'[r].sizes
           /\ size \in manifest[r].sizes => r \in blurred'
      /\ \A y : y # r => (y \in blurred' <=> y \in blurred)
  BY WrittenIs
<1>2. x \in StoredRuns /\ e.at \in Nat
  BY DEF Entered, Rows
<1> SUFFICES ASSUME manifest'[x] # None, ~WritesBack(x)' PROVE Remembers(e)'
  BY DEF Remembers
<1>3. CASE x # r
  <2>1. manifest'[x] = manifest[x] /\ (x \notin blurred' => x \notin blurred) /\ ~WritesBack(x)
    BY <1>1, <1>2, <1>3
  <2>2. QED
    BY <2>1 DEF Remembers, D!Row, D!RowIn, D!Same, StaysLive
<1>4. CASE x = r
  <2>1. /\ e.at <= m.at /\ (e.at = m.at => e.size \in m.sizes) /\ StaysLive(e.row)
    BY <1>4 DEF Remembers
  <2>2. m.at \in Nat /\ clock \in Nat /\ m.at <= clock
    BY <1>2, <1>4 DEF StoreTypeOK, Stored, ManifestsAreOld
  <2>3. e.at <= clock /\ (e.at = clock => m.at = clock)
    BY <1>2, <2>1, <2>2
  <2>4. D!Same(e, manifest'[x]) => x \in blurred'
    BY <1>1, <1>4, <2>1, <2>3 DEF D!Same
  <2>5. StaysLive(e.row)'
    BY <1>1, <1>4, <2>1 DEF StaysLive
  <2>6. /\ e.at <= manifest'[x].at
        /\ e.at = manifest'[x].at => e.size \in manifest'[x].sizes
    BY <1>1, <1>4, <2>1, <2>3
  <2>7. QED
    BY <2>4, <2>5, <2>6 DEF Remembers
<1>5. QED
  BY <1>3, <1>4

\* A manifest's row is one.
LEMMA RowIs ==
  ASSUME StoreTypeOK, NEW r \in StoredRuns, manifest[r] # None
  PROVE  /\ D!Row(r) \in Rows /\ D!Row(r).run = r /\ D!Row(r).status = manifest[r].status
         /\ Current(r) = D!Row(r)
<1>1. manifest[r] \in Stored
  BY DEF StoreTypeOK
<1>2. QED
  BY <1>1 DEF D!Row, D!RowIn, Rows, Stored, Current

\* A listing begins with what there is.
LEMMA BeginsFits ==
  ASSUME StoreTypeOK, FilesOfRuns, StoreAssumption, NEW mode \in {"all", "page"}, D!Begins(mode),
         UNCHANGED manifest
  PROVE  scan' \in Listings /\ scan'.for = mode /\ ListingOK'
<1> DEFINE dirs == {r \in StoredRuns : dir[r] # "none"}
           now == [r \in StoredRuns |-> {IF manifest[r] = None THEN None ELSE D!Row(r)}]
           l == [for |-> mode, todo |-> dirs, run |-> None, st |-> None, row |-> None,
                 rows |-> {}, doubt |-> {}, held |-> now]
<1>1. scan' = l
  BY DEF D!Begins
<1>2. now \in [StoredRuns -> SUBSET (Rows \cup {None})]
  BY RowIs
<1> HIDE DEF now
<1>3. l \in Listings
  BY <1>2 DEF Listings
<1>4. /\ scan'.todo = dirs /\ scan'.run = None /\ scan'.row = None /\ scan'.rows = {}
      /\ scan'.held = now
  BY <1>1
<1>5. \A r \in StoredRuns : now[r] = {Current(r)} /\ Current(r)' = Current(r)
  BY DEF now, Current, D!Row, D!RowIn
<1>6. \A r \in StoredRuns : r \in dirs \/ None \in now[r]
  BY DEF now, FilesOfRuns
<1>7. ListingOK'
  BY <1>4, <1>5, <1>6 DEF ListingOK
<1>8. QED
  BY <1>1, <1>3, <1>7

\* A listing with what was found of a run, whether it is in doubt or not.
Found(r, found, queer) == [D!Done(r) EXCEPT !.rows = @ \cup found, !.doubt = @ \cup queer]

\* What a listing holds and what it has found, when it goes on with a run less.
LEMMA DoneFits ==
  ASSUME StoreTypeOK, D!Listing, ListingOK, StoreAssumption, UNCHANGED manifest,
         NEW r \in scan.todo, \A t \in scan.todo : t <= r,
         NEW found \in SUBSET Rows, NEW queer \in SUBSET StoredRuns,
         \A row \in found : row.run = r, \A a, b \in found : a = b,
         found = {} => None \in scan.held[r],
         \A row \in found : /\ r \notin scan.doubt \cup queer => row \in scan.held[r]
                            /\ (\A h \in scan.held[r] : h # None /\ h.status = "running") =>
                                 row.status = "running",
         scan' = Found(r, found, queer)
  PROVE  scan' \in Listings /\ scan'.for = scan.for /\ ListingOK'
<1>1. scan \in Listings
  BY ListingIs
<1>2. PICK f \in {"all", "page"}, todo0 \in SUBSET StoredRuns, run0 \in StoredRuns \cup {None},
           st0 \in StatsOf \cup {None}, row0 \in Rows \cup {None}, rows0 \in SUBSET Rows,
           doubt0 \in SUBSET StoredRuns, held0 \in [StoredRuns -> SUBSET (Rows \cup {None})] :
        scan = [for |-> f, todo |-> todo0, run |-> run0, st |-> st0, row |-> row0, rows |-> rows0,
                doubt |-> doubt0, held |-> held0]
  <2>1. scan = [for |-> scan.for, todo |-> scan.todo, run |-> scan.run, st |-> scan.st,
                row |-> scan.row, rows |-> scan.rows, doubt |-> scan.doubt, held |-> scan.held]
    BY <1>1 DEF Listings
  <2>2. QED
    BY <1>1, <2>1 DEF Listings
<1>3. scan' = [for |-> f, todo |-> todo0 \ {r}, run |-> None, st |-> None, row |-> None,
               rows |-> rows0 \cup found, doubt |-> doubt0 \cup queer, held |-> held0]
  BY <1>2 DEF Found, D!Done
<1>4. scan' \in Listings
  BY <1>2, <1>3 DEF Listings
<1>5. /\ scan'.for = f /\ scan'.todo = todo0 \ {r} /\ scan'.run = None /\ scan'.row = None
      /\ scan'.rows = rows0 \cup found /\ scan'.doubt = doubt0 \cup queer /\ scan'.held = held0
  BY <1>3
<1>6. /\ scan.for = f /\ scan.todo = todo0 /\ scan.rows = rows0 /\ scan.doubt = doubt0
      /\ scan.held = held0
  BY <1>2
<1>7. \A x \in StoredRuns : Current(x)' = Current(x)
  BY DEF Current, D!Row, D!RowIn
<1>8. /\ \A x \in StoredRuns :
            /\ Current(x) \in held0[x]
            /\ x \in todo0 \/ None \in held0[x] \/ \E row \in rows0 : row.run = x
      /\ \A a, b \in rows0 : a.run = b.run => a = b
      /\ \A row \in rows0 : RowFits(row, scan) /\ \A t \in todo0 : row.run > t
  BY <1>6 DEF ListingOK
<1>9. \A x \in StoredRuns : x \in todo0 \ {r} \/ None \in held0[x]
                            \/ \E row \in rows0 \cup found : row.run = x
  BY <1>6, <1>8
<1>10. r \in Nat /\ \A t \in todo0 : t \in Nat
  BY <1>2, <1>6 DEF StoreAssumption
<1>11. \A row \in rows0 : row.run # r
  BY <1>6, <1>8, <1>10
<1>12. \A a, b \in rows0 \cup found : a.run = b.run => a = b
  BY <1>8, <1>11
<1>13. ASSUME NEW row \in rows0 \cup found
       PROVE  RowFits(row, scan')
  <2>1. CASE row \in rows0
    BY <1>5, <1>6, <1>8, <2>1 DEF RowFits
  <2>2. CASE row \in found
    BY <1>5, <1>6, <2>2 DEF RowFits
  <2>3. QED
    BY <2>1, <2>2
<1>14. ASSUME NEW row \in rows0 \cup found, NEW t \in todo0 \ {r}
       PROVE  row.run > t
  <2>1. CASE row \in rows0
    BY <1>8, <2>1
  <2>2. CASE row \in found
    <3>1. row.run = r /\ t <= r /\ t # r /\ t \in Nat
      BY <1>6, <1>10, <2>2
    <3>2. QED
      BY <1>10, <3>1
  <2>3. QED
    BY <2>1, <2>2
<1>15. \A row : RowFits(row, scan)' <=> RowFits(row, scan')
  BY DEF RowFits
<1>16. ListingOK'
  <2>1. \A x \in StoredRuns :
          /\ Current(x)' \in scan'.held[x]
          /\ x \in scan'.todo \/ None \in scan'.held[x] \/ \E row \in scan'.rows : row.run = x
    BY <1>5, <1>7, <1>8, <1>9
  <2>2. \A a, b \in scan'.rows : a.run = b.run => a = b
    BY <1>5, <1>12
  <2>3. \A row \in scan'.rows : RowFits(row, scan)' /\ \A t \in scan'.todo : row.run > t
    BY <1>5, <1>13, <1>14, <1>15
  <2>4. scan'.run = None /\ scan'.row = None
    BY <1>5
  <2>5. QED
    BY <2>1, <2>2, <2>3, <2>4 DEF ListingOK
<1>17. QED
  BY <1>4, <1>5, <1>6, <1>16

\* A step of a listing that leaves the store alone.
LEMMA ListingGoesOn ==
  ASSUME StoreInv, D!Listing, scan' \in Listings, scan'.for = scan.for, cache' \in Seq(Entered),
         CacheOK', ListingOK',
         UNCHANGED <<manifest, dir, kept, owned, clock, daemon, shown, usage, unsettled, untold>>
  PROVE  StoreInv'
<1>1. scan'.for \in {"all", "page"} /\ daemon \in {"listing", "serving"}
      /\ daemon' = daemon
  BY DEF Listings, StoreInv, D!Listing, CallFits
<1>2. StoreTypeOK'
  <2>1. scan' \in {None} \cup Listings \cup Sweeps \cup Saving
    OBVIOUS
  <2>2. QED
    BY <2>1 DEF StoreInv, StoreTypeOK
<1>3. FilesOfRuns' /\ ManifestsAreOld'
  BY DEF StoreInv, FilesOfRuns, ManifestsAreOld
<1>4. CallFits' /\ WriteOK' /\ D!SweepSpares'
  BY <1>1 DEF CallFits, WriteOK, D!SweepSpares
<1>5. SettledLate'
  BY DEF StoreInv, SettledLate
<1>6. UsageOK' /\ D!RowsAreCurrent'
  BY UsageKept, RowsKept DEF StoreInv
<1>7. QED
  BY <1>2, <1>3, <1>4, <1>5, <1>6 DEF StoreInv

\* A listing that is at a run.
Looking(r, st, row) == [scan EXCEPT !.run = r, !.st = st, !.row = row]

\* The next run, or the row of the one a listing is at.
LEMMA LooksFits ==
  ASSUME StoreTypeOK, D!Listing, ListingOK, StoreAssumption, UNCHANGED manifest,
         NEW r \in scan.todo, \A t \in scan.todo : t <= r,
         NEW st \in StatsOf, NEW row \in Rows \cup {None}, row # None =>
           row.run = r /\ row \in scan.held[r] /\ StaysLive(row),
         scan' = Looking(r, st, row)
  PROVE  scan' \in Listings /\ scan'.for = scan.for /\ ListingOK'
<1>1. scan \in Listings
  BY ListingIs
<1>2. scan' \in Listings
  BY <1>1 DEF Listings, Looking
<1>3. /\ scan'.for = scan.for /\ scan'.todo = scan.todo /\ scan'.run = r /\ scan'.st = st
      /\ scan'.row = row /\ scan'.rows = scan.rows /\ scan'.doubt = scan.doubt
      /\ scan'.held = scan.held
  BY <1>1 DEF Listings, Looking
<1>4. \A x \in StoredRuns : Current(x)' = Current(x)
  BY DEF Current, D!Row, D!RowIn
<1>5. \A h : (RowFits(h, scan)' <=> RowFits(h, scan)) /\ (StaysLive(h)' <=> StaysLive(h))
  BY <1>3 DEF RowFits, StaysLive
<1>6. row # None => row \in Rows
  OBVIOUS
<1>7. ListingOK'
  <2>1. \A x \in StoredRuns :
          /\ Current(x)' \in scan'.held[x]
          /\ x \in scan'.todo \/ None \in scan'.held[x] \/ \E h \in scan'.rows : h.run = x
    <3>1. \A x \in StoredRuns :
            /\ Current(x) \in scan.held[x]
            /\ x \in scan.todo \/ None \in scan.held[x] \/ \E h \in scan.rows : h.run = x
      BY DEF ListingOK
    <3>2. QED
      BY <1>3, <1>4, <3>1
  <2>2. \A a, b \in scan'.rows : a.run = b.run => a = b
    BY <1>3 DEF ListingOK
  <2>3. \A h \in scan'.rows : RowFits(h, scan)' /\ \A t \in scan'.todo : h.run > t
    BY <1>3, <1>5 DEF ListingOK
  <2>4. scan'.run # None => /\ scan'.run \in scan'.todo /\ scan'.st \in StatsOf
                            /\ \A t \in scan'.todo : t <= scan'.run
    BY <1>3
  <2>5. scan'.row # None => /\ scan'.run # None /\ scan'.row \in Rows /\ scan'.row.run = scan'.run
                            /\ scan'.row \in scan'.held[scan'.run] /\ StaysLive(scan.row)'
    <3>1. r # None
      BY <1>1 DEF Listings, StoreAssumption
    <3>2. row # None => StaysLive(scan.row)'
      BY <1>3 DEF StaysLive
    <3>3. QED
      BY <1>3, <1>6, <3>1, <3>2
  <2>6. QED
    BY <2>1, <2>2, <2>3, <2>4, <2>5 DEF ListingOK
<1>8. QED
  BY <1>2, <1>3, <1>7

\* A summary that is forgotten.
LEMMA ForgettingKeeps ==
  ASSUME StoreTypeOK, CacheOK, NEW r, cache' = D!Forgotten(cache, r), blurred \subseteq blurred',
         UNCHANGED <<manifest>>, daemon' # "off" => daemon # "off",
         \A x : WritesBack(x) => WritesBack(x)' \/ x = r
  PROVE  cache' \in Seq(Entered) /\ CacheOK'
<1>1. cache \in Seq(Entered) /\ Single(cache)
  BY DEF StoreTypeOK, CacheOK
<1>2. cache' \in Seq(Entered) /\ Single(cache')
      /\ \A e \in Range(cache') : e \in Range(cache) /\ e.row.run # r
  BY <1>1, ForgottenIs
<1>3. ASSUME NEW e \in Range(cache'), daemon' # "off" PROVE Remembers(e)'
  <2>1. Remembers(e)
    BY <1>2, <1>3 DEF CacheOK
  <2>2. WritesBack(e.row.run) => WritesBack(e.row.run)'
    BY <1>2
  <2>3. QED
    BY <2>1, <2>2, RemembersKept
<1>4. QED
  BY <1>2, <1>3 DEF CacheOK

\* A summary that is remembered under the time and size of its manifest.
LEMMA RememberingKeeps ==
  ASSUME StoreAssumption, StoreTypeOK, ManifestsAreOld, CacheOK, NEW b \in BOOLEAN,
         NEW e \in Entered, cache' = D!Remembered(cache, e, b),
         blurred \subseteq blurred', UNCHANGED <<manifest>>, daemon' # "off" => daemon # "off",
         manifest[e.row.run] # None =>
           /\ e.at = manifest[e.row.run].at /\ e.size = manifest[e.row.run].size
           /\ e.row.run \notin blurred' => e.row = D!Row(e.row.run)
           /\ StaysLive(e.row),
         \A x : WritesBack(x) => WritesBack(x)' \/ x = e.row.run
  PROVE  cache' \in Seq(Entered) /\ CacheOK'
<1>1. cache \in Seq(Entered) /\ Single(cache)
  BY DEF StoreTypeOK, CacheOK
<1>2. cache' \in Seq(Entered) /\ Single(cache')
      /\ \A x \in Range(cache') : x = e \/ (x \in Range(cache) /\ x.row.run # e.row.run)
  BY <1>1, RememberedIs
<1>3. e.row.run \in StoredRuns
  BY DEF Entered, Rows
<1>4. Remembers(e)'
  <2>1. ASSUME manifest[e.row.run] # None
        PROVE  /\ e.at <= manifest[e.row.run].at
               /\ e.size \in manifest[e.row.run].sizes
    <3>1. manifest[e.row.run].at \in Nat
      BY <1>3, <2>1 DEF StoreTypeOK, Stored
    <3>2. manifest[e.row.run].size \in manifest[e.row.run].sizes
      BY <1>3, <2>1 DEF ManifestsAreOld
    <3>3. QED
      BY <2>1, <3>1, <3>2
  <2>2. D!Row(e.row.run)' = D!Row(e.row.run) /\ (StaysLive(e.row)' <=> StaysLive(e.row))
    BY DEF D!Row, D!RowIn, StaysLive
  <2>3. QED
    BY <2>1, <2>2 DEF Remembers
<1>5. ASSUME NEW x \in Range(cache'), daemon' # "off" PROVE Remembers(x)'
  <2>1. CASE x = e
    BY <1>4, <2>1
  <2>2. CASE x \in Range(cache) /\ x.row.run # e.row.run
    <3>1. Remembers(x)
      BY <1>5, <2>2 DEF CacheOK
    <3>2. WritesBack(x.row.run) => WritesBack(x.row.run)'
      BY <2>2
    <3>3. QED
      BY <3>1, <3>2, RemembersKept
  <2>3. QED
    BY <1>2, <2>1, <2>2
<1>6. QED
  BY <1>2, <1>5 DEF CacheOK

-----------------------------------------------------------------------------
\* A listing that begins.
LEMMA BeginningKeeps ==
  ASSUME StoreAssumption, StoreInv, scan = None, NEW mode \in {"all", "page"}, D!Begins(mode),
         daemon # "off", daemon' \in {"listing", "serving"},
         daemon' = "listing" => daemon = "settling",
         UNCHANGED <<manifest, dir, kept, owned, clock, cache, shown, usage, unsettled, blurred,
                     untold>>
  PROVE  StoreInv'
<1>1. scan' \in Listings /\ scan'.for = mode /\ ListingOK'
  BY BeginsFits DEF StoreInv
<1>2. StoreTypeOK'
  <2>1. scan' \in {None} \cup Listings \cup Sweeps \cup Saving
    BY <1>1
  <2>2. QED
    BY <2>1 DEF StoreInv, StoreTypeOK
<1>3. FilesOfRuns' /\ ManifestsAreOld' /\ SettledLate'
  BY DEF StoreInv, FilesOfRuns, ManifestsAreOld, SettledLate
<1>4. CallFits' /\ WriteOK' /\ D!SweepSpares'
  BY <1>1 DEF CallFits, WriteOK, D!SweepSpares
<1>5. CacheOK'
  <2>1. \A r : WritesBack(r) => WritesBack(r)'
    BY DEF WritesBack
  <2>2. QED
    BY <2>1, CacheKept DEF StoreInv
<1>6. UsageOK' /\ D!RowsAreCurrent'
  BY UsageKept, RowsKept DEF StoreInv
<1>7. QED
  BY <1>1, <1>2, <1>3, <1>4, <1>5, <1>6 DEF StoreInv

\* A request for the runs.
LEMMA ListsKeep ==
  ASSUME StoreAssumption, StoreInv, D!Lists PROVE StoreInv'
<1>1. PICK mode \in {"all", "page"} : D!Begins(mode)
  BY DEF D!Lists
<1>2. QED
  BY <1>1, BeginningKeeps DEF D!Lists

\* What is done with a run that a listing has found so.
LEMMA DoneIs ==
  ASSUME StoreTypeOK, D!Listing, NEW r \in StoredRuns
  PROVE  /\ D!Done(r) = Found(r, {}, {})
         /\ \A row \in Rows : [D!Done(r) EXCEPT !.rows = @ \cup {row}] = Found(r, {row}, {})
<1> DEFINE d == D!Done(r)
<1>1. scan \in Listings
  BY ListingIs
<1>2. d \in Listings
  BY <1>1 DEF Listings, D!Done
<1> HIDE DEF d
<1>3. d = [for |-> d.for, todo |-> d.todo, run |-> d.run, st |-> d.st, row |-> d.row,
           rows |-> d.rows, doubt |-> d.doubt, held |-> d.held]
  BY <1>2 DEF Listings
<1>4. ASSUME NEW more \in SUBSET Rows
      PROVE  [d EXCEPT !.rows = @ \cup more] = [d EXCEPT !.rows = @ \cup more, !.doubt = @ \cup {}]
  <2>1. [d EXCEPT !.rows = @ \cup more, !.doubt = @ \cup {}]
          = [d EXCEPT !.rows = @ \cup more, !.doubt = @]
    OBVIOUS
  <2>2. [d EXCEPT !.rows = @ \cup more, !.doubt = @] = [d EXCEPT !.rows = @ \cup more]
    BY <1>2 DEF Listings
  <2>3. QED
    BY <2>1, <2>2
<1>5. [d EXCEPT !.rows = @ \cup {}] = d
  <2>1. d.rows \cup {} = d.rows
    OBVIOUS
  <2>2. QED
    BY <1>2, <2>1 DEF Listings
<1>6. QED
  BY <1>4, <1>5 DEF Found, d

\* A run whose manifest is not there is left out and forgotten.
LEMMA MissingKeeps ==
  ASSUME StoreAssumption, StoreInv, D!Listing, NEW r \in scan.todo, \A t \in scan.todo : t <= r,
         manifest[r] = None, scan' = D!Done(r), cache' = D!Forgotten(cache, r),
         UNCHANGED <<manifest, dir, kept, owned, clock, daemon, shown, usage, unsettled, blurred,
                     untold>>
  PROVE  StoreInv'
<1>1. r \in StoredRuns
  BY ListingIs DEF StoreInv, Listings
<1>2. scan' = Found(r, {}, {})
  BY <1>1, DoneIs DEF StoreInv
<1>3. None \in scan.held[r]
  BY <1>1 DEF StoreInv, ListingOK, Current
<1>4. scan' \in Listings /\ scan'.for = scan.for /\ ListingOK'
  <2>1. {} \in SUBSET Rows /\ {} \in SUBSET StoredRuns
    OBVIOUS
  <2>2. QED
    BY <1>2, <1>3, <2>1, DoneFits DEF StoreInv
<1>5. cache' \in Seq(Entered) /\ CacheOK'
  <2>1. \A x : ~WritesBack(x)
    BY DEF WritesBack, D!Listing
  <2>2. QED
    BY <2>1, ForgettingKeeps DEF StoreInv
<1>6. QED
  BY <1>4, <1>5, ListingGoesOn

\* What is remembered of a run is what a listing may show of it.
LEMMA HitFits ==
  ASSUME StoreInv, D!Listing, NEW r \in StoredRuns, manifest[r] # None, D!Hit(r) # {}
  PROVE  LET found == {e.row : e \in D!Hit(r)}
         IN /\ found \in SUBSET Rows /\ found # {}
            /\ \A row \in found : row.run = r
            /\ \A a, b \in found : a = b
            /\ \A row \in found : /\ r \notin blurred => row \in scan.held[r]
                                  /\ (\A h \in scan.held[r] : h # None /\ h.status = "running") =>
                                       row.status = "running"
<1>1. /\ D!Hit(r) \subseteq Range(cache)
      /\ \A e \in D!Hit(r) : e.row.run = r /\ D!Same(e, manifest[r])
  BY DEF D!Hit, Range
<1>2. \A e \in Range(cache) : e \in Entered
  <2>1. cache \in Seq(Entered)
    BY DEF StoreInv, StoreTypeOK
  <2>2. \A n \in DOMAIN cache : cache[n] \in Entered
    BY <2>1
  <2>3. QED
    BY <2>2 DEF Range
<1>3. \A e \in D!Hit(r) : e.row \in Rows
  BY <1>1, <1>2 DEF Entered
<1>4. ASSUME NEW e \in D!Hit(r), NEW g \in D!Hit(r) PROVE e = g
  <2>1. PICK m \in DOMAIN cache : cache[m] = e
    BY <1>1 DEF Range
  <2>2. PICK n \in DOMAIN cache : cache[n] = g
    BY <1>1 DEF Range
  <2>3. m = n
    BY <1>1, <2>1, <2>2 DEF StoreInv, CacheOK, Single
  <2>4. QED
    BY <2>1, <2>2, <2>3
<1>5. daemon # "off" /\ ~WritesBack(r)
  BY DEF StoreInv, CallFits, D!Listing, WritesBack
<1>6. ASSUME NEW e \in D!Hit(r)
      PROVE  /\ r \notin blurred => e.row \in scan.held[r]
             /\ (\A h \in scan.held[r] : h # None /\ h.status = "running") =>
                  e.row.status = "running"
  <2>1. Remembers(e) /\ e.row.run = r
    BY <1>1, <1>5 DEF StoreInv, CacheOK
  <2>2. /\ r \notin blurred => e.row = D!Row(r)
        /\ StaysLive(e.row)
    BY <1>1, <1>5, <2>1 DEF Remembers
  <2>3. Current(r) = D!Row(r) /\ D!Row(r).status = manifest[r].status
    BY RowIs DEF StoreInv
  <2>4. D!Row(r) \in scan.held[r]
    BY <2>3 DEF StoreInv, ListingOK
  <2>5. QED
    BY <2>1, <2>2, <2>3, <2>4 DEF StaysLive
<1>7. QED
  BY <1>1, <1>3, <1>4, <1>6

\* A listing looks at the run that is next.
LEMMA StatsKeep ==
  ASSUME StoreAssumption, StoreInv, D!Stats PROVE StoreInv'
<1> DEFINE r == D!Max(scan.todo)
<1>1. D!Listing /\ scan.run = None /\ scan.todo # {} /\ scan \in Listings /\ scan.row = None
  <2>1. D!Listing /\ scan.run = None /\ scan.todo # {}
    BY DEF D!Stats
  <2>2. scan \in Listings
    BY <2>1, ListingIs DEF StoreInv
  <2>3. QED
    BY <2>1, <2>2 DEF StoreInv, ListingOK
<1>2. r \in scan.todo /\ r \in StoredRuns /\ \A t \in scan.todo : t <= r
  <2>1. scan.todo \in SUBSET StoredRuns
    BY <1>1 DEF Listings
  <2>2. QED
    BY <1>1, <2>1, LastRun
<1>3. /\ UNCHANGED <<manifest, dir, kept, owned, clock, daemon, shown, usage, unsettled, blurred,
                     untold>>
      /\ IF manifest[r] = None THEN scan' = D!Done(r) /\ cache' = D!Forgotten(cache, r)
         ELSE /\ scan' = (IF D!Hit(r) # {}
                          THEN [D!Done(r) EXCEPT !.rows = @ \cup {e.row : e \in D!Hit(r)},
                                                 !.doubt = @ \cup (blurred \cap {r})]
                          ELSE [scan EXCEPT !.run = r,
                                  !.st = [at |-> manifest[r].at, size |-> manifest[r].size]])
              /\ UNCHANGED cache
  BY DEF D!Stats
<1> HIDE DEF r
<1>4. CASE manifest[r] = None
  BY <1>1, <1>2, <1>3, <1>4, MissingKeeps
<1>5. ASSUME manifest[r] # None
      PROVE  scan' \in Listings /\ scan'.for = scan.for /\ ListingOK'
  <2>1. CASE D!Hit(r) # {}
    <3> DEFINE found == {e.row : e \in D!Hit(r)}
    <3>1. /\ found \in SUBSET Rows /\ found # {}
          /\ \A row \in found : row.run = r
          /\ \A a, b \in found : a = b
          /\ \A row \in found : /\ r \notin blurred => row \in scan.held[r]
                                /\ (\A h \in scan.held[r] : h # None /\ h.status = "running") =>
                                     row.status = "running"
      BY <1>1, <1>2, <1>5, <2>1, HitFits
    <3>2. scan' = Found(r, found, blurred \cap {r})
      BY <1>3, <1>5, <2>1 DEF Found
    <3> HIDE DEF found
    <3>3. blurred \cap {r} \in SUBSET StoredRuns
      BY <1>2
    <3>4. r \notin scan.doubt \cup (blurred \cap {r}) => r \notin blurred
      OBVIOUS
    <3>5. UNCHANGED manifest
      BY <1>3
    <3>6. QED
      BY <1>1, <1>2, <3>1, <3>2, <3>3, <3>4, <3>5, DoneFits DEF StoreInv
  <2>2. CASE D!Hit(r) = {}
    <3> DEFINE st == [at |-> manifest[r].at, size |-> manifest[r].size]
    <3>1. st \in StatsOf
      BY <1>2, <1>5 DEF StoreInv, StoreTypeOK, Stored, StatsOf
    <3>2. scan' = [scan EXCEPT !.run = r, !.st = st]
      BY <1>3, <1>5, <2>2
    <3> HIDE DEF st
    <3>3. [scan EXCEPT !.run = r, !.st = st] = Looking(r, st, None)
      <4>1. Looking(r, st, None) = [scan EXCEPT !.run = r, !.st = st, !.row = @]
        BY <1>1 DEF Looking, Listings
      <4>2. QED
        BY <1>1, <4>1 DEF Listings
    <3>4. scan' = Looking(r, st, None) /\ UNCHANGED manifest
      BY <1>3, <3>2, <3>3
    <3>5. None \in Rows \cup {None}
      OBVIOUS
    <3>6. QED
      BY <1>1, <1>2, <3>1, <3>4, <3>5, LooksFits DEF StoreInv
  <2>3. QED
    BY <2>1, <2>2
<1>6. CASE manifest[r] # None
  <2>1. UNCHANGED <<cache, manifest, blurred, daemon>>
    BY <1>3, <1>6
  <2>2. \A x : ~WritesBack(x)
    BY <1>1 DEF WritesBack, D!Listing
  <2>3. cache' \in Seq(Entered) /\ CacheOK'
    BY <2>1, <2>2, CacheKept DEF StoreInv, StoreTypeOK
  <2>4. QED
    BY <1>1, <1>3, <1>5, <1>6, <2>3, ListingGoesOn
<1>7. QED
  BY <1>4, <1>6

\* A listing reads the manifest it has looked at.
LEMMA ReadsKeep ==
  ASSUME StoreAssumption, StoreInv, D!Reads PROVE StoreInv'
<1> DEFINE r == scan.run
<1>1. D!Listing /\ r # None /\ scan.row = None /\ scan \in Listings
  <2>1. D!Listing /\ r # None /\ scan.row = None
    BY DEF D!Reads
  <2>2. QED
    BY <2>1, ListingIs DEF StoreInv
<1>2. r \in scan.todo /\ r \in StoredRuns /\ scan.st \in StatsOf /\ \A t \in scan.todo : t <= r
  BY <1>1 DEF StoreInv, ListingOK, Listings
<1>3. /\ UNCHANGED <<manifest, dir, kept, owned, clock, daemon, shown, usage, unsettled, blurred,
                     untold>>
      /\ IF manifest[r] = None THEN scan' = D!Done(r) /\ cache' = D!Forgotten(cache, r)
         ELSE scan' = [scan EXCEPT !.row = D!Row(r)] /\ UNCHANGED cache
  BY DEF D!Reads
<1>4. CASE manifest[r] = None
  BY <1>1, <1>2, <1>3, <1>4, MissingKeeps
<1>5. CASE manifest[r] # None
  <2>1. /\ D!Row(r) \in Rows /\ D!Row(r).run = r /\ D!Row(r).status = manifest[r].status
        /\ Current(r) = D!Row(r)
    BY <1>2, <1>5, RowIs DEF StoreInv
  <2>2. D!Row(r) \in scan.held[r] /\ StaysLive(D!Row(r))
    <3>1. \A k \in StoredRuns : Current(k) \in scan.held[k]
      BY <1>1 DEF StoreInv, ListingOK
    <3>2. StaysLive(D!Row(r))
      BY <2>1 DEF StaysLive
    <3>3. QED
      BY <1>2, <2>1, <3>1, <3>2
  <2> DEFINE row == D!Row(r)
             st == scan.st
  <2>3. scan' = [scan EXCEPT !.row = row] /\ UNCHANGED manifest
    BY <1>3, <1>5
  <2> HIDE DEF row
  <2>4. [scan EXCEPT !.row = row] = Looking(r, st, row)
    <3>1. [scan EXCEPT !.run = r] = scan
      BY <1>1 DEF Listings
    <3>2. [scan EXCEPT !.run = r, !.st = st] = scan
      BY <1>1 DEF Listings
    <3>3. QED
      BY <3>1, <3>2 DEF Looking
  <2>5. row \in Rows \cup {None} /\ row.run = r /\ row \in scan.held[r] /\ StaysLive(row)
    BY <2>1, <2>2 DEF row
  <2>6. scan' \in Listings /\ scan'.for = scan.for /\ ListingOK'
    BY <1>1, <1>2, <2>3, <2>4, <2>5, LooksFits DEF StoreInv
  <2>7. \A x : ~WritesBack(x)
    BY <1>1 DEF WritesBack, D!Listing
  <2>8. UNCHANGED <<cache, manifest, blurred, daemon>>
    BY <1>3, <1>5
  <2>9. cache' \in Seq(Entered) /\ CacheOK'
    BY <2>7, <2>8, CacheKept DEF StoreInv, StoreTypeOK
  <2>10. QED
    BY <1>1, <1>3, <2>6, <2>9, ListingGoesOn
<1>6. QED
  BY <1>4, <1>5

\* A listing remembers what it has read, and shows it.
LEMMA SummarizesKeep ==
  ASSUME StoreAssumption, StoreInv, D!Summarizes PROVE StoreInv'
<1> DEFINE r == scan.run
           row == scan.row
           now == manifest[r]
           st == IF now = None THEN scan.st ELSE [at |-> now.at, size |-> now.size]
           e == D!Entry(row, st)
<1>1. D!Listing /\ row # None /\ scan \in Listings
  <2>1. D!Listing /\ row # None
    BY DEF D!Summarizes
  <2>2. QED
    BY <2>1, ListingIs DEF StoreInv
<1>2. /\ r # None /\ r \in scan.todo /\ r \in StoredRuns /\ scan.st \in StatsOf
      /\ \A t \in scan.todo : t <= r
      /\ row \in Rows /\ row.run = r /\ row \in scan.held[r] /\ StaysLive(row)
  BY <1>1 DEF StoreInv, ListingOK, Listings
<1>3. /\ UNCHANGED <<manifest, dir, kept, owned, clock, daemon, shown, usage, unsettled, untold>>
      /\ cache' = D!Remembered(cache, e, scan.for = "all")
      /\ blurred' = IF now # None /\ D!Row(r) # row THEN blurred \cup {r} ELSE blurred
      /\ scan' = [D!Done(r) EXCEPT !.rows = @ \cup {row}]
  BY DEF D!Summarizes
<1>4. st \in StatsOf
  BY <1>2 DEF StoreInv, StoreTypeOK, Stored, StatsOf
<1>5. e \in Entered /\ e.row = row /\ e.at = st.at /\ e.size = st.size
  BY <1>2, <1>4 DEF D!Entry, Entered, StatsOf
<1>6. manifest[r] # None => /\ e.at = manifest[r].at /\ e.size = manifest[r].size
                            /\ r \notin blurred' => row = D!Row(r)
  BY <1>3, <1>5
<1> HIDE DEF e, row
<1>7. cache' \in Seq(Entered) /\ CacheOK'
  <2>1. \A x : ~WritesBack(x)
    BY <1>1 DEF WritesBack, D!Listing
  <2>2. (scan.for = "all") \in BOOLEAN /\ blurred \subseteq blurred'
    BY <1>3
  <2>3. e.row.run = r
    BY <1>2, <1>5
  <2>4. PICK b \in BOOLEAN : cache' = D!Remembered(cache, e, b)
    BY <1>3, <2>2
  <2>5. UNCHANGED <<manifest, daemon>>
    BY <1>3
  <2>6. QED
    BY <1>2, <1>5, <1>6, <2>1, <2>2, <2>3, <2>4, <2>5, RememberingKeeps DEF StoreInv
<1>8. scan' \in Listings /\ scan'.for = scan.for /\ ListingOK'
  <2> DEFINE found == {row}
             queer == {}
  <2>1. scan' = Found(r, found, queer)
    BY <1>1, <1>2, <1>3, DoneIs DEF StoreInv
  <2>2. found \in SUBSET Rows /\ queer \in SUBSET StoredRuns /\ found # {}
    BY <1>2
  <2>3. \A x \in found :
          /\ x.run = r
          /\ x \in scan.held[r]
          /\ (\A h \in scan.held[r] : h # None /\ h.status = "running") => x.status = "running"
    BY <1>2
  <2>4. \A a, b \in found : a = b
    OBVIOUS
  <2>5. UNCHANGED manifest
    BY <1>3
  <2>6. StoreTypeOK /\ ListingOK
    BY DEF StoreInv
  <2> HIDE DEF found, queer
  <2>7. QED
    BY <1>1, <1>2, <2>1, <2>2, <2>3, <2>4, <2>5, <2>6, DoneFits
<1>9. QED
  BY <1>1, <1>3, <1>7, <1>8, ListingGoesOn

\* A listing that is shown: the boot's goes on to the sweep.
LEMMA ListedKeeps ==
  ASSUME StoreAssumption, StoreInv, D!Listed PROVE StoreInv'
<1>1. D!Listing /\ scan.run = None /\ scan \in Listings
  <2>1. D!Listing /\ scan.run = None
    BY DEF D!Listed
  <2>2. QED
    BY <2>1, ListingIs DEF StoreInv
<1>2. /\ scan.todo = {} \/ (scan.for = "page" /\ D!Cardinality(scan.rows) = PageSize)
      /\ shown' = [rows |-> scan.rows, held |-> scan.held, doubt |-> scan.doubt,
                   all |-> scan.for = "all"]
      /\ daemon' = (IF daemon = "listing" THEN "pruning" ELSE daemon)
      /\ IF daemon = "listing"
         THEN scan' = [for |-> "prune", todo |-> {r \in StoredRuns : dir[r] # "none"}, run |-> None]
         ELSE scan' = None
      /\ UNCHANGED <<manifest, dir, kept, owned, clock, cache, usage, unsettled, blurred, untold>>
  BY DEF D!Listed
<1>3. daemon \in {"listing", "serving"}
  BY <1>1 DEF StoreInv, CallFits, D!Listing
<1>4. \/ scan' = None /\ daemon' = "serving"
      \/ /\ scan' \in Sweeps /\ scan'.for = "prune" /\ scan'.run = None /\ scan' # None
         /\ daemon' = "pruning"
  <2>1. CASE daemon = "listing"
    <3>1. scan' \in Sweeps /\ scan'.for = "prune" /\ scan'.run = None
      BY <1>2, <2>1 DEF Sweeps
    <3>2. scan' # None
      BY <3>1 DEF Sweeps, StoreAssumption
    <3>3. QED
      BY <1>2, <2>1, <3>1, <3>2
  <2>2. QED
    BY <1>2, <1>3, <2>1
<1>5. StoreTypeOK'
  <2>1. scan' \in {None} \cup Listings \cup Sweeps \cup Saving
    BY <1>4
  <2>2. daemon' \in {"off", "settling", "listing", "pruning", "serving"}
    BY <1>4
  <2>3. QED
    BY <1>2, <2>1, <2>2 DEF StoreInv, StoreTypeOK
<1>6. FilesOfRuns' /\ ManifestsAreOld'
  BY <1>2 DEF StoreInv, FilesOfRuns, ManifestsAreOld
<1>7. SettledLate'
  BY <1>2 DEF StoreInv, SettledLate
<1>8. None \notin unsettled \cup owned \cup kept
  BY DEF StoreInv, StoreTypeOK, StoreAssumption
<1>9. CallFits' /\ WriteOK' /\ D!SweepSpares' /\ ListingOK'
  BY <1>2, <1>4, <1>8 DEF CallFits, WriteOK, D!SweepSpares, ListingOK, D!Listing
<1>10. CacheOK'
  <2>1. \A x : ~WritesBack(x)
    BY <1>1 DEF WritesBack, D!Listing
  <2>2. daemon # "off" /\ UNCHANGED <<cache, manifest, blurred>>
    BY <1>2, <1>3
  <2>3. QED
    BY <2>1, <2>2, CacheKept DEF StoreInv
<1>11. UsageOK'
  BY <1>2, UsageKept DEF StoreInv
<1>12. D!RowsAreCurrent'
  <2>1. /\ shown'.rows = scan.rows /\ shown'.held = scan.held /\ shown'.doubt = scan.doubt
        /\ shown'.all <=> scan.for = "all"
    BY <1>2
  <2>2. /\ \A r \in StoredRuns :
             r \in scan.todo \/ None \in scan.held[r] \/ \E row \in scan.rows : row.run = r
        /\ \A a, b \in scan.rows : a.run = b.run => a = b
        /\ \A row \in scan.rows : RowFits(row, scan) /\ \A t \in scan.todo : row.run > t
    BY <1>1 DEF StoreInv, ListingOK
  <2> SUFFICES ASSUME NEW r \in StoredRuns
               PROVE  /\ D!Cardinality(D!RowsOf(r)') <= 1
                      /\ r \notin scan.doubt => D!RowsOf(r)' \subseteq scan.held[r]
                      /\ None \notin scan.held[r] /\ D!RowsOf(r)' = {} =>
                            /\ scan.for # "all" /\ D!Cardinality(scan.rows) = PageSize
                            /\ \A row \in scan.rows : row.run > r
                      /\ \A row \in D!RowsOf(r)' :
                            (\A h \in scan.held[r] : h # None /\ h.status = "running") =>
                              row.status = "running"
    BY <2>1 DEF D!RowsAreCurrent
  <2> DEFINE of == D!RowsOf(r)'
  <2>3. of = {row \in scan.rows : row.run = r}
    BY <2>1 DEF D!RowsOf
  <2> HIDE DEF of
  <2>4. D!Cardinality(of) <= 1
    <3>1. D!Cardinality(of) = Cardinality(of)
      BY StoreOperators
    <3>2. CASE of = {}
      BY <3>1, <3>2, FS_EmptySet
    <3>3. CASE of # {}
      <4>1. PICK x \in of : TRUE
        BY <3>3
      <4>2. of = {x}
        BY <2>2, <2>3, <4>1
      <4>3. Cardinality(of) = 1
        BY <4>2, FS_Singleton
      <4>4. QED
        BY <3>1, <4>3
    <3>4. QED
      BY <3>2, <3>3
  <2>5. \A row \in of : /\ r \notin scan.doubt => row \in scan.held[r]
                        /\ (\A h \in scan.held[r] : h # None /\ h.status = "running") =>
                             row.status = "running"
    BY <2>2, <2>3 DEF RowFits
  <2>6. ASSUME None \notin scan.held[r], of = {}
        PROVE  /\ scan.for # "all" /\ D!Cardinality(scan.rows) = PageSize
               /\ \A row \in scan.rows : row.run > r
    <3>1. r \in scan.todo
      BY <2>2, <2>3, <2>6
    <3>2. QED
      BY <1>2, <2>2, <3>1
  <2>7. QED
    BY <2>4, <2>5, <2>6 DEF of
<1>13. QED
  BY <1>5, <1>6, <1>7, <1>9, <1>10, <1>11, <1>12 DEF StoreInv

-----------------------------------------------------------------------------
\* A daemon that starts.
LEMMA BootsKeep ==
  ASSUME StoreAssumption, StoreInv, D!Boots PROVE StoreInv'
<1>1. /\ daemon = "off" /\ daemon' = "settling" /\ cache' = <<>> /\ shown' = None
      /\ usage' = [value |-> {}, until |-> 0, walk |-> None] /\ untold' = {}
      /\ unsettled' = {r \in StoredRuns : manifest[r] # None /\ manifest[r].status # "ended"}
      /\ UNCHANGED <<manifest, dir, kept, owned, clock, scan, blurred, acts>>
  BY DEF D!Boots
<1>2. scan = None /\ scan' = None
  BY <1>1, CallsAre DEF StoreInv
<1>3. StoreTypeOK'
  <2>1. usage' \in [value : SUBSET StoredRuns, until : Nat,
                    walk : {None} \cup [todo : SUBSET StoredRuns, sum : SUBSET StoredRuns]]
    BY <1>1
  <2>2. cache' \in Seq(Entered)
    BY <1>1
  <2>3. QED
    BY <1>1, <2>1, <2>2 DEF StoreInv, StoreTypeOK
<1>4. FilesOfRuns' /\ ManifestsAreOld'
  BY <1>1 DEF StoreInv, FilesOfRuns, ManifestsAreOld
<1>5. SettledLate'
  BY <1>1 DEF SettledLate
<1>6. CallFits' /\ WriteOK' /\ ListingOK' /\ D!SweepSpares'
  BY <1>1, <1>2 DEF CallFits, WriteOK, ListingOK, D!Listing, D!SweepSpares
<1>7. CacheOK'
  <2>1. DOMAIN cache' = {} /\ Range(cache') = {}
    BY <1>1 DEF Range
  <2>2. QED
    BY <2>1 DEF CacheOK, Single
<1>8. UsageOK' /\ D!RowsAreCurrent'
  <2>1. clock' \in Nat /\ usage'.until = 0 /\ usage'.walk = None
    BY <1>1 DEF StoreInv, StoreTypeOK
  <2>2. QED
    BY <1>1, <2>1 DEF UsageOK, D!RowsAreCurrent
<1>9. QED
  BY <1>3, <1>4, <1>5, <1>6, <1>7, <1>8 DEF StoreInv

\* What a manifest that is written leaves as it should be.
LEMMA WritingKeeps ==
  ASSUME StoreAssumption, StoreTypeOK, ManifestsAreOld, FilesOfRuns, NEW r \in StoredRuns,
         NEW status \in {"running", "parked", "ended"}, NEW size \in Nat,
         D!Written(r, status, size), UNCHANGED <<clock, unsettled>>
  PROVE  /\ ManifestsAreOld'
         /\ manifest[r] # None /\ UNCHANGED dir => FilesOfRuns'
         /\ SettledLate /\ daemon' = daemon => SettledLate'
<1>1. /\ \A x \in StoredRuns : x # r => manifest'[x] = manifest[x]
      /\ manifest'[r].size = size /\ manifest'[r].at = clock /\ size \in manifest'[r].sizes
      /\ clock \in Nat
  <2>1. LET m == manifest'[r] IN m.size = size /\ m.at = clock /\ size \in m.sizes
    BY WrittenIs
  <2>2. QED
    BY <2>1, WrittenIs DEF StoreTypeOK
<1>2. ManifestsAreOld'
  BY <1>1 DEF ManifestsAreOld
<1>3. manifest[r] # None /\ UNCHANGED dir => FilesOfRuns'
  BY <1>1 DEF FilesOfRuns
<1>4. SettledLate /\ daemon' = daemon => SettledLate'
  <2>1. unsettled \subseteq StoredRuns /\ unsettled' = unsettled /\ clock' = clock
    BY DEF StoreTypeOK
  <2>2. QED
    BY <1>1, <2>1 DEF SettledLate
<1>5. QED
  BY <1>2, <1>3, <1>4

\* The settling of a boot ends the runs that have no owner, and lists the rest.
LEMMA SettlesKeep ==
  ASSUME StoreAssumption, StoreInv, D!Settles PROVE StoreInv'
<1> DEFINE last == D!Max(D!Orphans)
           entry(r) == D!Entry(D!RowIn(manifest', r), [at |-> clock, size |-> 2])
<1>1. /\ daemon = "settling"
      /\ IF D!Orphans # {}
         THEN /\ D!Written(last, "ended", 2)
              /\ cache' = D!Remembered(cache, entry(last), FALSE)
              /\ UNCHANGED <<daemon, scan>>
         ELSE daemon' = "listing" /\ D!Begins("all") /\ UNCHANGED <<manifest, cache, blurred>>
      /\ UNCHANGED <<dir, kept, owned, clock, shown, usage, unsettled, untold>>
  BY DEF D!Settles
<1>2. scan = None
  BY <1>1, CallsAre DEF StoreInv
<1>3. CASE D!Orphans = {}
  <2>1. daemon # "off" /\ daemon' = "listing" /\ "all" \in {"all", "page"}
    BY <1>1, <1>3
  <2>2. QED
    BY <1>1, <1>2, <1>3, <2>1, BeginningKeeps
<1>4. CASE D!Orphans # {}
  <2>1. PICK r \in StoredRuns :
           r = last /\ manifest[r] # None /\ manifest[r].status = "running"
    <3>1. D!Orphans \in SUBSET StoredRuns
      BY DEF D!Orphans
    <3>2. last \in D!Orphans
      BY <1>4, <3>1, LastRun
    <3>3. QED
      BY <3>2 DEF D!Orphans
  <2>2. /\ D!Written(r, "ended", 2) /\ UNCHANGED <<daemon, scan>> /\ daemon = "settling"
        /\ UNCHANGED <<dir, kept, owned, clock, shown, usage, unsettled, untold>>
        /\ cache' = D!Remembered(cache, entry(r), FALSE)
    BY <1>1, <1>4, <2>1
  <2>3. "ended" \in {"running", "parked", "ended"} /\ 2 \in Nat
    OBVIOUS
  <2>4. /\ manifest' \in [StoredRuns -> Stored \cup {None}]
        /\ LET m == manifest'[r]
           IN m # None /\ m.status = "ended" /\ m.size = 2 /\ m.at = clock /\ 2 \in m.sizes
    BY <2>1, <2>2, <2>3, WrittenIs DEF StoreInv
  <2>5. ManifestsAreOld' /\ FilesOfRuns' /\ SettledLate'
    BY <2>1, <2>2, <2>3, WritingKeeps DEF StoreInv
  <2>6. PICK e \in Entered : /\ e = entry(r) /\ e.row = D!Row(r)' /\ e.row.run = r /\ e.at = clock
                             /\ e.size = 2 /\ e.row.status = "ended"
    <3> DEFINE row == [run |-> r, status |-> manifest'[r].status, text |-> manifest'[r].text]
    <3>1. manifest'[r] \in Stored /\ clock \in Nat
      BY <2>1, <2>4 DEF StoreInv, StoreTypeOK
    <3>2. row \in Rows /\ row.run = r /\ row.status = "ended"
      BY <2>1, <2>4, <3>1 DEF Rows, Stored
    <3>3. row = D!RowIn(manifest', r) /\ row = D!Row(r)'
      BY DEF D!RowIn, D!Row
    <3> HIDE DEF row
    <3>4. entry(r) = [row |-> row, at |-> clock, size |-> 2]
      BY <3>3 DEF D!Entry
    <3>5. entry(r) \in Entered
      BY <3>1, <3>2, <3>4 DEF Entered
    <3>6. QED
      BY <3>2, <3>3, <3>4, <3>5
  <2> HIDE DEF entry
  <2>7. cache \in Seq(Entered) /\ Single(cache) /\ FALSE \in BOOLEAN /\ daemon # "off"
    BY <2>2 DEF StoreInv, StoreTypeOK, CacheOK
  <2>8. cache' \in Seq(Entered) /\ Single(cache')
        /\ \A x \in Range(cache') : x = e \/ (x \in Range(cache) /\ x.row.run # r)
    BY <2>2, <2>6, <2>7, RememberedIs
  <2>9. ASSUME NEW x \in Range(cache') PROVE Remembers(x)'
    <3>1. CASE x = e
      <4>1. StaysLive(e.row)'
        BY <2>4, <2>6 DEF StaysLive
      <4>2. clock <= clock
        BY DEF StoreInv, StoreTypeOK
      <4>3. D!Same(e, manifest'[r]) /\ e.at <= manifest'[r].at /\ e.size \in manifest'[r].sizes
        BY <2>4, <2>6, <4>2 DEF D!Same
      <4>4. QED
        BY <2>4, <2>6, <3>1, <4>1, <4>3 DEF Remembers
    <3>2. CASE x \in Range(cache)
      <4>1. Remembers(x)
        BY <2>7, <3>2 DEF StoreInv, CacheOK
      <4>2. x \in Entered
        BY <2>7, <3>2 DEF Range
      <4>3. ~WritesBack(x.row.run)
        BY <1>2 DEF WritesBack
      <4>4. QED
        BY <2>1, <2>2, <2>3, <4>1, <4>2, <4>3, RemembersOver DEF StoreInv
    <3>3. QED
      BY <2>8, <3>1, <3>2
  <2>10. CacheOK'
    BY <2>8, <2>9 DEF CacheOK
  <2>11. StoreTypeOK'
    BY <2>2, <2>4, <2>8 DEF StoreInv, StoreTypeOK
  <2>12. CallFits' /\ WriteOK' /\ ListingOK' /\ D!SweepSpares'
    BY <1>2, <2>2 DEF CallFits, WriteOK, ListingOK, D!Listing, D!SweepSpares
  <2>13. UsageOK' /\ D!RowsAreCurrent'
    BY <2>2, UsageKept, RowsKept DEF StoreInv
  <2>14. QED
    BY <2>5, <2>10, <2>11, <2>12, <2>13 DEF StoreInv
<1>5. QED
  BY <1>3, <1>4

\* The sweep judges a run: what was under way or waited at the boot is not old enough.
LEMMA JudgesKeep ==
  ASSUME StoreAssumption, StoreInv, D!Judges PROVE StoreInv'
<1>1. /\ daemon = "pruning" /\ scan.run = None
      /\ IF scan.todo = {} THEN daemon' = "serving" /\ scan' = None
         ELSE LET r == D!Max(scan.todo)
              IN /\ scan' = [scan EXCEPT !.todo = @ \ {r},
                                         !.run = IF D!Prunable(r) THEN r ELSE None]
                 /\ UNCHANGED daemon
      /\ UNCHANGED <<manifest, dir, kept, owned, clock, cache, shown, usage, unsettled, blurred,
                     untold>>
  BY DEF D!Judges
<1>2. scan \in Sweeps /\ scan # None
  BY <1>1, CallsAre DEF StoreInv
<1>3. \A r \in StoredRuns : D!Prunable(r) => r \notin unsettled \cup owned \cup kept
  <2> SUFFICES ASSUME NEW r \in StoredRuns, D!Prunable(r), r \in unsettled PROVE FALSE
    BY DEF D!Prunable
  <2>1. manifest[r] # None /\ manifest[r].status = "ended" /\ manifest[r].at + MaxAge < clock
    BY DEF D!Prunable, D!LastActivity
  <2>2. manifest[r].at = clock
    BY <1>1, <2>1 DEF StoreInv, SettledLate
  <2>3. clock \in Nat /\ MaxAge \in Nat
    BY DEF StoreInv, StoreTypeOK, StoreAssumption
  <2>4. QED
    BY <2>1, <2>2, <2>3
<1>4. None \notin unsettled \cup owned \cup kept
  BY DEF StoreInv, StoreTypeOK, StoreAssumption
<1>5. \/ scan' = None /\ daemon' = "serving"
      \/ /\ scan' \in Sweeps /\ scan' # None /\ daemon' = "pruning" /\ scan'.for = "prune"
         /\ scan'.run \notin unsettled \cup owned \cup kept
  <2>1. CASE scan.todo = {}
    BY <1>1, <2>1
  <2>2. CASE scan.todo # {}
    <3> DEFINE r == D!Max(scan.todo)
               run == IF D!Prunable(r) THEN r ELSE None
    <3>1. r \in StoredRuns
      <4>1. scan.todo \in SUBSET StoredRuns
        BY <1>2 DEF Sweeps
      <4>2. QED
        BY <2>2, <4>1, LastRun
    <3>2. scan' = [scan EXCEPT !.todo = @ \ {r}, !.run = run] /\ daemon' = "pruning"
      BY <1>1, <2>2
    <3>3. run \in StoredRuns \cup {None} /\ run \notin unsettled \cup owned \cup kept
      BY <1>3, <1>4, <3>1
    <3> HIDE DEF r, run
    <3>4. scan' \in Sweeps /\ scan'.for = "prune" /\ scan'.run = run
      BY <1>2, <3>2, <3>3 DEF Sweeps
    <3>5. scan' # None
      BY <3>4 DEF Sweeps, StoreAssumption
    <3>6. QED
      BY <3>2, <3>3, <3>4, <3>5
  <2>3. QED
    BY <2>1, <2>2
<1>6. StoreTypeOK'
  <2>1. scan' \in {None} \cup Listings \cup Sweeps \cup Saving
        /\ daemon' \in {"off", "settling", "listing", "pruning", "serving"}
    BY <1>5
  <2>2. QED
    BY <1>1, <2>1 DEF StoreInv, StoreTypeOK
<1>7. FilesOfRuns' /\ ManifestsAreOld' /\ SettledLate'
  BY <1>1 DEF StoreInv, FilesOfRuns, ManifestsAreOld, SettledLate
<1>8. CallFits' /\ WriteOK' /\ ListingOK' /\ D!SweepSpares'
  BY <1>1, <1>5 DEF CallFits, WriteOK, ListingOK, D!Listing, D!SweepSpares
<1>9. CacheOK'
  <2>1. \A x : ~WritesBack(x)
    BY <1>1, CallsAre DEF StoreInv
  <2>2. QED
    BY <1>1, <2>1, CacheKept DEF StoreInv
<1>10. UsageOK' /\ D!RowsAreCurrent'
  BY <1>1, UsageKept, RowsKept DEF StoreInv
<1>11. QED
  BY <1>6, <1>7, <1>8, <1>9, <1>10 DEF StoreInv

\* What is remembered of another run.
LEMMA RemembersElse ==
  ASSUME NEW e, Remembers(e), manifest'[e.row.run] = manifest[e.row.run],
         e.row.run \in blurred => e.row.run \in blurred',
         WritesBack(e.row.run) => WritesBack(e.row.run)'
  PROVE  Remembers(e)'
BY DEF Remembers, D!Row, D!RowIn, D!Same, StaysLive

\* What the removal of a run, whole or in part, leaves as it should be.
LEMMA RemovingKeeps ==
  ASSUME StoreAssumption, StoreInv, NEW r \in StoredRuns, D!Removed(r, D!Expired(usage)),
         UNCHANGED <<kept, owned, clock, daemon, shown, unsettled, blurred>>,
         \A x : WritesBack(x) => WritesBack(x)',
         scan' \in {None} \cup Listings \cup Sweeps \cup Saving
  PROVE  /\ StoreTypeOK' /\ FilesOfRuns' /\ ManifestsAreOld' /\ CacheOK' /\ SettledLate' /\ UsageOK'
         /\ D!RowsAreCurrent'
<1> DEFINE gone == [manifest EXCEPT ![r] = None]
           whole == /\ manifest' = gone /\ dir' = [dir EXCEPT ![r] = "none"]
                    /\ cache' = D!Forgotten(cache, r) /\ usage' = D!Expired(usage)
                    /\ untold' = IF usage.walk # None THEN untold \cup {r} ELSE untold
           half == /\ dir' = [dir EXCEPT ![r] = "part"] /\ manifest' \in {manifest, gone}
                   /\ UNCHANGED <<cache, usage, untold>>
<1>1. whole \/ half
  BY DEF D!Removed
<1>2. /\ manifest \in [StoredRuns -> Stored \cup {None}] /\ cache \in Seq(Entered)
      /\ dir \in [StoredRuns -> {"whole", "part", "none"}]
      /\ unsettled \subseteq StoredRuns
      /\ usage \in [value : SUBSET StoredRuns, until : Nat,
                    walk : {None} \cup [todo : SUBSET StoredRuns, sum : SUBSET StoredRuns]]
      /\ clock \in Nat
  BY DEF StoreInv, StoreTypeOK
<1>3. /\ gone \in [StoredRuns -> Stored \cup {None}] /\ gone[r] = None
      /\ \A x \in StoredRuns : x # r => gone[x] = manifest[x]
  BY <1>2
<1> HIDE DEF gone
<1>4. /\ manifest' \in [StoredRuns -> Stored \cup {None}]
      /\ \A x \in StoredRuns : manifest'[x] = None \/ manifest'[x] = manifest[x]
  BY <1>1, <1>2, <1>3
<1>5. /\ dir' \in [StoredRuns -> {"whole", "part", "none"}]
      /\ \A x \in StoredRuns : x # r => dir'[x] = dir[x]
      /\ whole => dir'[r] = "none" /\ manifest'[r] = None
      /\ half => dir'[r] = "part"
  BY <1>1, <1>2, <1>3
<1>6. /\ D!Expired(usage).until = 0 /\ D!Expired(usage).walk = usage.walk
      /\ D!Expired(usage) \in [value : SUBSET StoredRuns, until : Nat,
                    walk : {None} \cup [todo : SUBSET StoredRuns, sum : SUBSET StoredRuns]]
  BY <1>2 DEF D!Expired
<1>7. Single(cache) /\ (daemon # "off" => \A e \in Range(cache) : Remembers(e))
  BY DEF StoreInv, CacheOK
<1>8. /\ cache' \in Seq(Entered) /\ Single(cache')
      /\ \A e \in Range(cache') : e \in Range(cache)
  BY <1>1, <1>2, <1>7, ForgottenIs
<1>9. StoreTypeOK'
  <2>1. usage' \in [value : SUBSET StoredRuns, until : Nat,
                    walk : {None} \cup [todo : SUBSET StoredRuns, sum : SUBSET StoredRuns]]
    BY <1>1, <1>2, <1>6
  <2>2. QED
    BY <1>4, <1>5, <1>8, <2>1 DEF StoreInv, StoreTypeOK
<1>10. FilesOfRuns'
  BY <1>1, <1>4, <1>5 DEF StoreInv, FilesOfRuns
<1>11. ManifestsAreOld'
  BY <1>4 DEF StoreInv, ManifestsAreOld
<1>12. SettledLate'
  BY <1>2, <1>4 DEF StoreInv, SettledLate
<1>13. CacheOK'
  <2>1. ASSUME NEW e \in Range(cache'), daemon' # "off" PROVE Remembers(e)'
    <3>0. e \in Range(cache) /\ daemon # "off"
      BY <1>8, <2>1
    <3>1. Remembers(e) /\ e \in Entered
      BY <1>2, <1>7, <3>0 DEF Range
    <3>2. e.row.run \in StoredRuns
      BY <3>1 DEF Entered, Rows
    <3>3. CASE manifest'[e.row.run] = None
      BY <3>3 DEF Remembers
    <3>4. CASE manifest'[e.row.run] = manifest[e.row.run]
      BY <3>1, <3>4, RemembersElse
    <3>5. QED
      BY <1>4, <3>2, <3>3, <3>4
  <2>2. QED
    BY <1>8, <2>1 DEF CacheOK
<1>14. UsageOK'
  <2>1. CASE whole
    <3>1. Gone' \subseteq Gone \cup {r}
      BY <1>5 DEF Gone
    <3>2. ~(clock' < usage'.until)
      BY <1>2, <1>6, <2>1
    <3>3. usage'.walk = usage.walk /\ (usage.walk # None => untold' = untold \cup {r})
      BY <1>6, <2>1
    <3>4. QED
      BY <3>1, <3>2, <3>3 DEF StoreInv, UsageOK
  <2>2. CASE half
    <3>1. Gone' \subseteq Gone
      BY <1>5, <2>2 DEF Gone
    <3>2. QED
      BY <2>2, <3>1 DEF StoreInv, UsageOK
  <2>3. QED
    BY <1>1, <2>1, <2>2
<1>15. D!RowsAreCurrent'
  BY RowsKept DEF StoreInv
<1>16. QED
  BY <1>9, <1>10, <1>11, <1>12, <1>13, <1>14, <1>15

\* The sweep removes the run it has judged.
LEMMA PrunesKeep ==
  ASSUME StoreAssumption, StoreInv, D!Prunes PROVE StoreInv'
<1>1. /\ daemon = "pruning" /\ scan.run # None /\ D!Removed(scan.run, D!Expired(usage))
      /\ scan' = [scan EXCEPT !.run = None]
      /\ UNCHANGED <<kept, owned, clock, daemon, shown, unsettled, blurred, acts>>
  BY DEF D!Prunes
<1>2. scan \in Sweeps
  BY <1>1, CallsAre DEF StoreInv
<1>3. PICK r \in StoredRuns : r = scan.run
  BY <1>1, <1>2 DEF Sweeps
<1>4. scan' \in Sweeps /\ scan'.run = None /\ scan'.for = "prune"
  BY <1>1, <1>2 DEF Sweeps
<1>5. scan' # None
  BY <1>4 DEF Sweeps, StoreAssumption
<1>6. \A x : ~WritesBack(x)
  BY <1>1, CallsAre DEF StoreInv
<1>7. None \notin unsettled \cup owned \cup kept
  BY DEF StoreInv, StoreTypeOK, StoreAssumption
<1>8. CallFits' /\ WriteOK' /\ ListingOK' /\ D!SweepSpares'
  BY <1>1, <1>4, <1>5, <1>7 DEF CallFits, WriteOK, ListingOK, D!Listing, D!SweepSpares
<1>9. D!Removed(r, D!Expired(usage))
  BY <1>1, <1>3
<1>10. scan' \in {None} \cup Listings \cup Sweeps \cup Saving
  BY <1>4
<1>11. /\ StoreTypeOK' /\ FilesOfRuns' /\ ManifestsAreOld' /\ CacheOK' /\ SettledLate' /\ UsageOK'
       /\ D!RowsAreCurrent'
  BY <1>1, <1>6, <1>9, <1>10, RemovingKeeps
<1>12. QED
  BY <1>8, <1>11 DEF StoreInv

\* The user deletes a run.
LEMMA DeletesKeep ==
  ASSUME StoreAssumption, StoreInv, D!Deletes PROVE StoreInv'
<1>1. /\ daemon = "serving" /\ scan = None
      /\ UNCHANGED <<kept, owned, clock, daemon, scan, shown, unsettled, blurred>>
  BY DEF D!Deletes, D!Serving
<1>2. PICK r \in StoredRuns : D!Removed(r, D!Expired(usage))
  BY DEF D!Deletes
<1>3. \A x : ~WritesBack(x)
  BY <1>1 DEF WritesBack
<1>4. CallFits' /\ WriteOK' /\ ListingOK' /\ D!SweepSpares'
  BY <1>1 DEF CallFits, WriteOK, ListingOK, D!Listing, D!SweepSpares
<1>5. scan' \in {None} \cup Listings \cup Sweeps \cup Saving
  BY <1>1
<1>6. /\ StoreTypeOK' /\ FilesOfRuns' /\ ManifestsAreOld' /\ CacheOK' /\ SettledLate' /\ UsageOK'
      /\ D!RowsAreCurrent'
  BY <1>1, <1>2, <1>3, <1>5, RemovingKeeps
<1>7. QED
  BY <1>4, <1>6 DEF StoreInv

-----------------------------------------------------------------------------
\* The daemon writes the manifest of a run of its own.
LEMMA WritesKeep ==
  ASSUME StoreAssumption, StoreInv, D!Writes PROVE StoreInv'
<1>1. /\ daemon = "serving" /\ scan = None
      /\ UNCHANGED <<kept, clock, cache, daemon, shown, usage, unsettled, untold>>
  BY DEF D!Writes, D!Serving
<1>2. PICK r \in StoredRuns, status \in {"running", "ended"}, size \in {1, 2} :
        /\ D!Written(r, status, size) /\ dir' = [dir EXCEPT ![r] = "whole"]
        /\ owned' = (IF status = "ended" THEN owned \ {r} ELSE owned \cup {r})
        /\ scan' = [for |-> "write", run |-> r, row |-> D!RowIn(manifest', r)]
  BY DEF D!Writes
<1>3. status \in {"running", "parked", "ended"} /\ size \in Nat
  OBVIOUS
<1>4. /\ manifest' \in [StoredRuns -> Stored \cup {None}]
      /\ \A x \in StoredRuns : x # r => manifest'[x] = manifest[x]
      /\ manifest'[r] # None
      /\ \A x : x # r => (x \in blurred' <=> x \in blurred)
  <2>1. LET m == manifest'[r] IN m # None
    BY <1>2, <1>3, WrittenIs DEF StoreInv
  <2>2. QED
    BY <1>2, <1>3, <2>1, WrittenIs DEF StoreInv
<1>5. /\ scan' \in Saving /\ scan'.for = "write" /\ scan'.run = r /\ scan'.row.run = r
      /\ scan'.row.status = manifest'[r].status
  <2> DEFINE row == D!RowIn(manifest', r)
  <2>1. manifest'[r] \in Stored
    BY <1>4
  <2>2. row \in Rows /\ row.run = r /\ row.status = manifest'[r].status
    BY <2>1 DEF D!RowIn, Rows, Stored
  <2>3. scan' = [for |-> "write", run |-> r, row |-> row]
    BY <1>2
  <2> HIDE DEF row
  <2>4. QED
    BY <2>2, <2>3 DEF Saving
<1>6. scan' # None
  BY <1>5 DEF Saving, Rows, StoreAssumption
<1>7. /\ dir' \in [StoredRuns -> {"whole", "part", "none"}] /\ dir'[r] = "whole"
      /\ \A x \in StoredRuns : x # r => dir'[x] = dir[x]
  BY <1>2 DEF StoreInv, StoreTypeOK
<1>8. StoreTypeOK'
  <2>1. scan' \in {None} \cup Listings \cup Sweeps \cup Saving
    BY <1>5
  <2>2. owned' \subseteq StoredRuns
    BY <1>2 DEF StoreInv, StoreTypeOK
  <2>3. QED
    BY <1>1, <1>4, <1>7, <2>1, <2>2 DEF StoreInv, StoreTypeOK
<1>9. FilesOfRuns'
  BY <1>4, <1>7 DEF StoreInv, FilesOfRuns
<1>10. ManifestsAreOld'
  BY <1>1, <1>2, <1>3, WritingKeeps DEF StoreInv
<1>11. SettledLate'
  BY <1>1 DEF SettledLate
<1>12. CallFits' /\ ListingOK' /\ D!SweepSpares'
  BY <1>1, <1>5, <1>6 DEF CallFits, ListingOK, D!Listing, D!SweepSpares
<1>13. WriteOK'
  BY <1>5 DEF WriteOK, StaysLive
<1>14. CacheOK'
  <2>1. Single(cache) /\ \A e \in Range(cache) : Remembers(e)
    BY <1>1 DEF StoreInv, CacheOK
  <2>2. ASSUME NEW e \in Range(cache) PROVE Remembers(e)'
    <3>1. Remembers(e) /\ e.row.run \in StoredRuns
      <4>1. e \in Entered
        BY DEF StoreInv, StoreTypeOK, Range
      <4>2. QED
        BY <2>1, <4>1 DEF Entered, Rows
    <3>2. CASE e.row.run = r
      <4>1. WritesBack(e.row.run)'
        BY <1>5, <1>6, <3>2 DEF WritesBack
      <4>2. QED
        BY <4>1 DEF Remembers
    <3>3. CASE e.row.run # r
      <4>1. ~WritesBack(e.row.run)
        BY <1>1 DEF WritesBack
      <4>2. QED
        BY <1>4, <3>1, <3>3, <4>1, RemembersElse
    <3>4. QED
      BY <3>2, <3>3
  <2>3. cache' = cache
    BY <1>1
  <2>4. QED
    BY <2>1, <2>2, <2>3 DEF CacheOK
<1>15. UsageOK'
  <2>1. Gone' \subseteq Gone
    BY <1>7 DEF Gone
  <2>2. QED
    BY <1>1, <2>1 DEF StoreInv, UsageOK
<1>16. D!RowsAreCurrent'
  BY <1>1, RowsKept DEF StoreInv
<1>17. QED
  BY <1>8, <1>9, <1>10, <1>11, <1>12, <1>13, <1>14, <1>15, <1>16 DEF StoreInv

\* The summary of what was written is remembered.
LEMMA CachesKeep ==
  ASSUME StoreAssumption, StoreInv, D!Caches PROVE StoreInv'
<1> DEFINE r == scan.run
           row == scan.row
           now == manifest[r]
           e == D!Entry(row, now)
<1>1. /\ scan # None /\ scan.for = "write" /\ scan' = None
      /\ IF now = None THEN cache' = D!Forgotten(cache, r) /\ UNCHANGED blurred
         ELSE /\ cache' = D!Remembered(cache, e, FALSE)
              /\ blurred' = IF D!Row(r) # row THEN blurred \cup {r} ELSE blurred
      /\ UNCHANGED <<manifest, dir, kept, owned, clock, daemon, shown, usage, unsettled, untold>>
  BY DEF D!Caches
<1>2. scan \in Saving
  BY <1>1 DEF StoreInv, StoreTypeOK, Listings, Sweeps
<1>3. r \in StoredRuns /\ row \in Rows /\ row.run = r /\ StaysLive(row)
  BY <1>1, <1>2 DEF StoreInv, WriteOK, Saving
<1>4. \A x : WritesBack(x) => x = r
  BY DEF WritesBack
<1>5. cache' \in Seq(Entered) /\ CacheOK'
  <2>1. blurred \subseteq blurred' /\ UNCHANGED <<manifest, daemon>>
    BY <1>1
  <2>2. CASE now = None
    <3>1. cache' = D!Forgotten(cache, r)
      BY <1>1, <2>2
    <3>2. QED
      BY <1>4, <2>1, <3>1, ForgettingKeeps DEF StoreInv
  <2>3. CASE now # None
    <3>1. /\ e \in Entered /\ e.row = row /\ e.at = now.at /\ e.size = now.size
      <4>1. now \in Stored
        BY <1>3, <2>3 DEF StoreInv, StoreTypeOK
      <4>2. QED
        BY <1>3, <4>1 DEF D!Entry, Entered, Stored
    <3>2. e.row.run = r /\ cache' = D!Remembered(cache, e, FALSE) /\ FALSE \in BOOLEAN
      BY <1>1, <1>3, <2>3, <3>1
    <3>3. r \notin blurred' => e.row = D!Row(r)
      BY <1>1, <2>3, <3>1
    <3> HIDE DEF e
    <3>4. StaysLive(e.row)
      BY <1>3, <3>1
    <3>5. QED
      BY <1>4, <2>1, <3>1, <3>2, <3>3, <3>4, RememberingKeeps DEF StoreInv
  <2>4. QED
    BY <2>2, <2>3
<1>6. StoreTypeOK'
  BY <1>1, <1>5 DEF StoreInv, StoreTypeOK
<1>7. FilesOfRuns' /\ ManifestsAreOld' /\ SettledLate'
  BY <1>1 DEF StoreInv, FilesOfRuns, ManifestsAreOld, SettledLate
<1>8. daemon # "pruning"
  BY <1>1 DEF StoreInv, CallFits
<1>9. CallFits' /\ WriteOK' /\ ListingOK' /\ D!SweepSpares'
  BY <1>1, <1>8 DEF CallFits, WriteOK, ListingOK, D!Listing, D!SweepSpares
<1>10. UsageOK' /\ D!RowsAreCurrent'
  BY <1>1, UsageKept, RowsKept DEF StoreInv
<1>11. QED
  BY <1>5, <1>6, <1>7, <1>9, <1>10 DEF StoreInv

\* What is not the usage, the time or the daemon's end leaves the rest alone.
LEMMA QuietStoreKeeps ==
  ASSUME StoreAssumption, StoreInv, UsageOK',
         UNCHANGED <<manifest, dir, kept, owned, cache, daemon, scan, shown, unsettled, blurred>>,
         usage' \in [value : SUBSET StoredRuns, until : Nat,
                     walk : {None} \cup [todo : SUBSET StoredRuns, sum : SUBSET StoredRuns]],
         clock' \in Nat /\ clock <= clock',
         clock' = clock \/ daemon \in {"off", "serving"}
  PROVE  StoreInv'
<1>1. StoreTypeOK'
  BY DEF StoreInv, StoreTypeOK
<1>2. FilesOfRuns' /\ CallFits' /\ WriteOK' /\ D!SweepSpares'
  BY DEF StoreInv, FilesOfRuns, CallFits, WriteOK, StaysLive, D!SweepSpares
<1>3. ManifestsAreOld'
  <2>1. ASSUME NEW r \in StoredRuns, manifest[r] # None
        PROVE  manifest[r].at <= clock' /\ manifest[r].size \in manifest[r].sizes
    <3>1. manifest[r].at \in Nat /\ clock \in Nat
      BY <2>1 DEF StoreInv, StoreTypeOK, Stored
    <3>2. manifest[r].at <= clock /\ manifest[r].size \in manifest[r].sizes
      BY <2>1 DEF StoreInv, ManifestsAreOld
    <3>3. QED
      BY <3>1, <3>2
  <2>2. QED
    BY <2>1 DEF ManifestsAreOld
<1>4. SettledLate'
  BY DEF StoreInv, SettledLate
<1>5. CacheOK'
  <2>1. \A x : WritesBack(x) => WritesBack(x)'
    BY DEF WritesBack
  <2>2. QED
    BY <2>1, CacheKept DEF StoreInv
<1>6. ListingOK' /\ D!RowsAreCurrent'
  BY ListingKept, RowsKept DEF StoreInv
<1>7. QED
  BY <1>1, <1>2, <1>3, <1>4, <1>5, <1>6 DEF StoreInv

\* Somebody asks for the disk usage, and it is counted.
LEMMA UsageKeeps ==
  ASSUME StoreAssumption, StoreInv, D!AsksUsage \/ D!Walks PROVE StoreInv'
<1>1. /\ clock \in Nat /\ UsageTtl \in Nat
      /\ usage \in [value : SUBSET StoredRuns, until : Nat,
                    walk : {None} \cup [todo : SUBSET StoredRuns, sum : SUBSET StoredRuns]]
  BY DEF StoreInv, StoreTypeOK, StoreAssumption
<1>2. clock <= clock
  BY <1>1
<1>3. CASE D!AsksUsage
  <2> DEFINE w == [todo |-> {r \in StoredRuns : dir[r] # "none"}, sum |-> {}]
  <2>1. /\ clock >= usage.until /\ usage' = [usage EXCEPT !.walk = w] /\ untold' = {}
        /\ UNCHANGED <<manifest, dir, kept, owned, clock, cache, daemon, scan, shown, unsettled,
                       blurred>>
    BY <1>3 DEF D!AsksUsage
  <2>2. w \in [todo : SUBSET StoredRuns, sum : SUBSET StoredRuns] /\ w.sum = {}
    OBVIOUS
  <2> HIDE DEF w
  <2>3. /\ usage' \in [value : SUBSET StoredRuns, until : Nat,
                       walk : {None} \cup [todo : SUBSET StoredRuns, sum : SUBSET StoredRuns]]
        /\ usage'.until = usage.until /\ usage'.walk = w
    BY <1>1, <2>1, <2>2
  <2>4. ~(clock' < usage'.until)
    BY <1>1, <2>1, <2>3
  <2>5. UsageOK'
    BY <2>2, <2>3, <2>4 DEF UsageOK
  <2>6. QED
    BY <1>1, <1>2, <2>1, <2>3, <2>5, QuietStoreKeeps
<1>4. CASE D!Walks
  <2> DEFINE w == usage.walk
             r == D!Max(w.todo)
             over == [value |-> w.sum, until |-> clock + UsageTtl, walk |-> None]
             on == [todo |-> w.todo \ {r},
                    sum |-> IF dir[r] = "none" THEN w.sum ELSE w.sum \cup {r}]
  <2>1. /\ usage.walk # None
        /\ usage' = IF w.todo = {} THEN over ELSE [usage EXCEPT !.walk = on]
        /\ UNCHANGED <<manifest, dir, kept, owned, clock, cache, daemon, scan, shown, unsettled,
                       blurred,
                       untold>>
    BY <1>4 DEF D!Walks
  <2>2. w \in [todo : SUBSET StoredRuns, sum : SUBSET StoredRuns]
    BY <1>1, <2>1
  <2>3. /\ w.sum \cap Gone \subseteq untold
        /\ clock < usage.until => usage.value \cap Gone \subseteq untold
        /\ Gone' = Gone
    BY <2>1 DEF StoreInv, UsageOK, Gone
  <2>4. CASE w.todo = {}
    <3>1. usage' = over /\ over.value = w.sum /\ over.walk = None
      BY <2>1, <2>4
    <3>2. over \in [value : SUBSET StoredRuns, until : Nat,
                    walk : {None} \cup [todo : SUBSET StoredRuns, sum : SUBSET StoredRuns]]
      BY <1>1, <2>2
    <3>3. UsageOK'
      BY <2>1, <2>3, <3>1 DEF UsageOK
    <3>4. QED
      BY <1>1, <1>2, <2>1, <3>1, <3>2, <3>3, QuietStoreKeeps
  <2>5. CASE w.todo # {}
    <3>1. r \in StoredRuns
      <4>1. w.todo \in SUBSET StoredRuns
        BY <2>2
      <4>2. QED
        BY <2>5, <4>1, LastRun
    <3>2. on \in [todo : SUBSET StoredRuns, sum : SUBSET StoredRuns]
      BY <2>2, <3>1
    <3>3. on.sum \cap Gone \subseteq untold
      BY <2>3, <3>1 DEF Gone
    <3>4. usage' = [usage EXCEPT !.walk = on]
      BY <2>1, <2>5
    <3> HIDE DEF on
    <3>5. /\ usage' \in [value : SUBSET StoredRuns, until : Nat,
                         walk : {None} \cup [todo : SUBSET StoredRuns, sum : SUBSET StoredRuns]]
          /\ usage'.until = usage.until /\ usage'.walk = on /\ usage'.value = usage.value
      BY <1>1, <3>2, <3>4
    <3>6. UsageOK'
      BY <2>1, <2>3, <3>3, <3>5 DEF UsageOK
    <3>7. QED
      BY <1>1, <1>2, <2>1, <3>5, <3>6, QuietStoreKeeps
  <2>6. QED
    BY <2>4, <2>5
<1>5. QED
  BY <1>3, <1>4

-----------------------------------------------------------------------------
\* A listing takes note of what another process does meanwhile, which starts no run.
LEMMA NotingKeeps ==
  ASSUME StoreAssumption, StoreInv, D!Noted,
         manifest' \in [StoredRuns -> Stored \cup {None}],
         \A x \in StoredRuns : manifest'[x] # None /\ manifest'[x].status = "running" =>
           manifest[x] # None /\ manifest[x].status = "running",
         daemon' = daemon, unsettled' = unsettled, kept' = kept, owned' \subseteq owned
  PROVE  /\ scan' \in {None} \cup Listings \cup Sweeps \cup Saving
         /\ CallFits' /\ ListingOK' /\ WriteOK' /\ D!SweepSpares'
         /\ \A x : WritesBack(x) => WritesBack(x)'
<1>1. CASE ~D!Listing
  <2>1. scan' = scan
    BY <1>1 DEF D!Noted
  <2>2. scan \in {None} \cup Listings \cup Sweeps \cup Saving
    BY DEF StoreInv, StoreTypeOK
  <2>3. CallFits' /\ ListingOK' /\ D!SweepSpares' /\ \A x : WritesBack(x) => WritesBack(x)'
    BY <1>1, <2>1 DEF StoreInv, CallFits, ListingOK, D!Listing, D!SweepSpares, WritesBack
  <2>4. WriteOK'
    <3>1. ASSUME scan # None, scan.for = "write"
          PROVE  scan.row.run = scan.run /\ StaysLive(scan.row)'
      <4>1. scan \in Saving /\ scan.row.run = scan.run /\ StaysLive(scan.row)
        BY <2>2, <3>1 DEF StoreInv, WriteOK, Listings, Sweeps
      <4>2. scan.row.run \in StoredRuns
        BY <4>1 DEF Saving
      <4>3. QED
        BY <2>1, <4>1, <4>2 DEF StaysLive
    <3>2. QED
      BY <2>1, <3>1 DEF WriteOK
  <2>5. QED
    BY <2>1, <2>2, <2>3, <2>4
<1>2. CASE D!Listing
  <2> DEFINE held == D!Holding(scan.held)
  <2>1. scan \in Listings
    BY <1>2, ListingIs DEF StoreInv
  <2>2. \A x \in StoredRuns : Current(x)' \in Rows \cup {None}
    <3> SUFFICES ASSUME NEW x \in StoredRuns, manifest'[x] # None
                 PROVE  D!Row(x)' \in Rows
      BY DEF Current
    <3>1. manifest'[x] \in Stored
      OBVIOUS
    <3>2. QED
      BY <3>1 DEF D!Row, D!RowIn, Stored, Rows
  <2>3. held = [x \in StoredRuns |-> scan.held[x] \cup {Current(x)'}]
    BY DEF D!Holding, Current, D!Row
  <2>4. held \in [StoredRuns -> SUBSET (Rows \cup {None})]
    BY <2>1, <2>2, <2>3 DEF Listings
  <2>5. scan' = [scan EXCEPT !.held = held]
    BY <1>2 DEF D!Noted
  <2>6. \A x \in StoredRuns : held[x] = scan.held[x] \cup {Current(x)'}
    BY <2>3
  <2> HIDE DEF held
  <2>7. scan' \in Listings
    BY <2>1, <2>4, <2>5 DEF Listings
  <2>8. /\ scan'.for = scan.for /\ scan'.todo = scan.todo /\ scan'.run = scan.run
        /\ scan'.st = scan.st /\ scan'.row = scan.row /\ scan'.rows = scan.rows
        /\ scan'.doubt = scan.doubt /\ scan'.held = held
    BY <2>1, <2>5 DEF Listings
  <2>9. /\ \A x \in StoredRuns :
             /\ Current(x) \in scan.held[x]
             /\ x \in scan.todo \/ None \in scan.held[x] \/ \E row \in scan.rows : row.run = x
        /\ \A a, b \in scan.rows : a.run = b.run => a = b
        /\ \A row \in scan.rows : RowFits(row, scan) /\ \A t \in scan.todo : row.run > t
        /\ scan.run # None => scan.run \in scan.todo /\ scan.st \in StatsOf
                              /\ \A t \in scan.todo : t <= scan.run
        /\ scan.row # None => /\ scan.run # None /\ scan.row \in Rows /\ scan.row.run = scan.run
                              /\ scan.row \in scan.held[scan.run] /\ StaysLive(scan.row)
    BY <1>2 DEF StoreInv, ListingOK
  <2>10. ListingOK'
    <3>1. \A x \in StoredRuns :
            /\ Current(x)' \in scan'.held[x]
            /\ x \in scan'.todo \/ None \in scan'.held[x] \/ \E row \in scan'.rows : row.run = x
      BY <2>6, <2>8, <2>9
    <3>2. \A a, b \in scan'.rows : a.run = b.run => a = b
      BY <2>8, <2>9
    <3>3. \A row \in scan'.rows : RowFits(row, scan)' /\ \A t \in scan'.todo : row.run > t
      <4> SUFFICES ASSUME NEW row \in scan.rows
                   PROVE  RowFits(row, scan)'
        BY <2>8, <2>9
      <4>1. row.run \in StoredRuns /\ RowFits(row, scan)
        BY <2>1, <2>9 DEF Listings, Rows
      <4>2. \A h \in scan.held[row.run] : h \in held[row.run]
        BY <2>6, <4>1
      <4>3. QED
        BY <2>8, <4>1, <4>2 DEF RowFits
    <3>4. scan'.run # None => scan'.run \in scan'.todo /\ scan'.st \in StatsOf
                              /\ \A t \in scan'.todo : t <= scan'.run
      BY <2>8, <2>9
    <3>5. scan'.row # None => /\ scan'.run # None /\ scan'.row \in Rows /\ scan'.row.run = scan'.run
                              /\ scan'.row \in scan'.held[scan'.run] /\ StaysLive(scan.row)'
      <4> SUFFICES ASSUME scan.row # None
                   PROVE  /\ scan.row \in held[scan.run] /\ StaysLive(scan.row)'
        BY <2>8, <2>9
      <4>1. scan.run \in StoredRuns
        BY <2>1, <2>9 DEF Listings
      <4>2. scan.row.run = scan.run /\ StaysLive(scan.row) /\ scan.row \in scan.held[scan.run]
        BY <2>9
      <4>3. scan.row \in held[scan.run]
        BY <2>6, <4>1, <4>2
      <4>4. QED
        BY <2>8, <4>1, <4>2, <4>3 DEF StaysLive
    <3>6. QED
      BY <3>1, <3>2, <3>3, <3>4, <3>5 DEF ListingOK
  <2>11. scan.for \in {"all", "page"} /\ daemon \in {"listing", "serving"}
    BY <1>2 DEF StoreInv, CallFits, D!Listing
  <2>12. CallFits' /\ WriteOK' /\ D!SweepSpares' /\ \A x : ~WritesBack(x)
    BY <2>8, <2>11 DEF CallFits, WriteOK, D!SweepSpares, WritesBack
  <2>13. QED
    BY <2>7, <2>10, <2>12
<1>3. QED
  BY <1>1, <1>2

\* Another process writes.
LEMMA WrittenElsewhereKeeps ==
  ASSUME StoreAssumption, StoreInv, D!WrittenElsewhere PROVE StoreInv'
<1>1. PICK r \in StoredRuns, status \in {"running", "ended"}, size \in {1, 2} :
        /\ manifest[r] # None
        /\ manifest[r].status = "parked" => FALSE
        /\ manifest[r].status = "ended" => status = "ended"
        /\ D!Written(r, status, size)
        /\ owned' = (IF status = "ended" THEN owned \ {r} ELSE owned)
  BY DEF D!WrittenElsewhere
<1>2. D!Noted /\ UNCHANGED <<dir, kept, clock, cache, daemon, shown, usage, unsettled, untold>>
  BY DEF D!WrittenElsewhere
<1>3. status \in {"running", "parked", "ended"} /\ size \in Nat
  OBVIOUS
<1>4. status = "running" => manifest[r].status = "running"
  <2>1. manifest[r] \in Stored
    BY <1>1 DEF StoreInv, StoreTypeOK
  <2>2. QED
    BY <1>1, <2>1 DEF Stored
<1>5. /\ manifest' \in [StoredRuns -> Stored \cup {None}]
      /\ \A x \in StoredRuns : x # r => manifest'[x] = manifest[x]
      /\ manifest'[r].status = status
  <2>1. LET m == manifest'[r] IN m.status = status
    BY <1>1, <1>3, WrittenIs DEF StoreInv
  <2>2. QED
    BY <1>1, <1>3, <2>1, WrittenIs DEF StoreInv
<1>6. \A x \in StoredRuns : manifest'[x] # None /\ manifest'[x].status = "running" =>
        manifest[x] # None /\ manifest[x].status = "running"
  BY <1>1, <1>4, <1>5
<1>7. owned' \subseteq owned
  BY <1>1
<1>8. /\ scan' \in {None} \cup Listings \cup Sweeps \cup Saving
      /\ CallFits' /\ ListingOK' /\ WriteOK' /\ D!SweepSpares'
      /\ \A x : WritesBack(x) => WritesBack(x)'
  BY <1>2, <1>5, <1>6, <1>7, NotingKeeps
<1>9. ManifestsAreOld' /\ FilesOfRuns' /\ SettledLate'
  BY <1>1, <1>2, <1>3, WritingKeeps DEF StoreInv
<1>10. StoreTypeOK'
  BY <1>2, <1>5, <1>7, <1>8 DEF StoreInv, StoreTypeOK
<1>11. CacheOK'
  <2>1. cache \in Seq(Entered) /\ cache' = cache /\ daemon' = daemon /\ Single(cache)
    BY <1>2 DEF StoreInv, StoreTypeOK, CacheOK
  <2>2. ASSUME NEW e \in Range(cache'), daemon' # "off" PROVE Remembers(e)'
    <3>1. Remembers(e)
      BY <2>1, <2>2 DEF StoreInv, CacheOK
    <3>2. e \in Entered
      BY <2>1 DEF Range
    <3>3. QED
      BY <1>1, <1>3, <1>4, <1>8, <3>1, <3>2, RemembersOver DEF StoreInv
  <2>3. QED
    BY <2>1, <2>2 DEF CacheOK
<1>12. UsageOK' /\ D!RowsAreCurrent'
  BY <1>2, UsageKept, RowsKept DEF StoreInv
<1>13. QED
  BY <1>8, <1>9, <1>10, <1>11, <1>12 DEF StoreInv

\* Another process, or the user, deletes.
LEMMA DeletedElsewhereKeeps ==
  ASSUME StoreAssumption, StoreInv, D!DeletedElsewhere PROVE StoreInv'
<1>1. PICK r \in StoredRuns :
        /\ manifest' = [manifest EXCEPT ![r] = None] /\ dir' = [dir EXCEPT ![r] = "none"]
        /\ untold' = untold \cup {r}
  BY DEF D!DeletedElsewhere
<1>2. D!Noted /\ UNCHANGED <<kept, owned, clock, cache, daemon, shown, usage, unsettled, blurred>>
  BY DEF D!DeletedElsewhere
<1>3. /\ manifest' \in [StoredRuns -> Stored \cup {None}]
      /\ manifest'[r] = None
      /\ \A x \in StoredRuns : x # r => manifest'[x] = manifest[x]
      /\ dir' \in [StoredRuns -> {"whole", "part", "none"}]
      /\ \A x \in StoredRuns : x # r => dir'[x] = dir[x]
  BY <1>1 DEF StoreInv, StoreTypeOK
<1>4. \A x \in StoredRuns : manifest'[x] = None \/ manifest'[x] = manifest[x]
  BY <1>3
<1>5. \A x \in StoredRuns : manifest'[x] # None /\ manifest'[x].status = "running" =>
        manifest[x] # None /\ manifest[x].status = "running"
  BY <1>4
<1>6. /\ scan' \in {None} \cup Listings \cup Sweeps \cup Saving
      /\ CallFits' /\ ListingOK' /\ WriteOK' /\ D!SweepSpares'
      /\ \A x : WritesBack(x) => WritesBack(x)'
  BY <1>2, <1>3, <1>5, NotingKeeps
<1>7. StoreTypeOK'
  BY <1>2, <1>3, <1>6 DEF StoreInv, StoreTypeOK
<1>8. FilesOfRuns'
  BY <1>3 DEF StoreInv, FilesOfRuns
<1>9. ManifestsAreOld'
  BY <1>2, <1>4 DEF StoreInv, ManifestsAreOld
<1>10. SettledLate'
  <2>1. unsettled \subseteq StoredRuns
    BY DEF StoreInv, StoreTypeOK
  <2>2. QED
    BY <1>2, <1>4, <2>1 DEF StoreInv, SettledLate
<1>11. CacheOK'
  <2>1. cache \in Seq(Entered) /\ cache' = cache /\ daemon' = daemon /\ Single(cache)
    BY <1>2 DEF StoreInv, StoreTypeOK, CacheOK
  <2>2. ASSUME NEW e \in Range(cache'), daemon' # "off" PROVE Remembers(e)'
    <3>1. Remembers(e)
      BY <2>1, <2>2 DEF StoreInv, CacheOK
    <3>2. e.row.run \in StoredRuns
      <4>1. e \in Entered
        BY <2>1 DEF Range
      <4>2. QED
        BY <4>1 DEF Entered, Rows
    <3>3. CASE manifest'[e.row.run] = None
      BY <3>3 DEF Remembers
    <3>4. CASE manifest'[e.row.run] = manifest[e.row.run]
      BY <1>2, <1>6, <3>1, <3>4, RemembersElse
    <3>5. QED
      BY <1>4, <3>2, <3>3, <3>4
  <2>3. QED
    BY <2>1, <2>2 DEF CacheOK
<1>12. UsageOK'
  <2>1. Gone' \subseteq Gone \cup {r}
    BY <1>3 DEF Gone
  <2>2. QED
    BY <1>1, <1>2, <2>1 DEF StoreInv, UsageOK
<1>13. D!RowsAreCurrent'
  BY <1>2, RowsKept DEF StoreInv
<1>14. QED
  BY <1>6, <1>7, <1>8, <1>9, <1>10, <1>11, <1>12, <1>13 DEF StoreInv

\* Time passes.
LEMMA TicksKeep ==
  ASSUME StoreAssumption, StoreInv, D!Ticks PROVE StoreInv'
<1>1. /\ daemon \in {"off", "serving"} /\ clock' = clock + 1
      /\ UNCHANGED <<manifest, dir, kept, owned, cache, daemon, scan, shown, usage, unsettled,
                     blurred,
                     untold>>
  BY DEF D!Ticks
<1>2. /\ clock \in Nat /\ usage.until \in Nat
      /\ usage \in [value : SUBSET StoredRuns, until : Nat,
                    walk : {None} \cup [todo : SUBSET StoredRuns, sum : SUBSET StoredRuns]]
  BY DEF StoreInv, StoreTypeOK
<1>3. clock' \in Nat /\ clock <= clock' /\ (clock' < usage.until => clock < usage.until)
  BY <1>1, <1>2
<1>4. UsageOK'
  <2>1. Gone' = Gone /\ UNCHANGED <<usage, untold>>
    BY <1>1 DEF Gone
  <2>2. QED
    BY <1>3, <2>1 DEF StoreInv, UsageOK
<1>5. QED
  BY <1>1, <1>2, <1>3, <1>4, QuietStoreKeeps

\* The daemon ends.
LEMMA StoreCrashKeeps ==
  ASSUME StoreAssumption, StoreInv, D!Crashes PROVE StoreInv'
<1>1. /\ daemon' = "off" /\ scan' = None /\ owned' = owned \cap Elsewhere
      /\ UNCHANGED <<manifest, dir, kept, clock, cache, shown, usage, unsettled, blurred, untold>>
  BY DEF D!Crashes
<1>2. StoreTypeOK'
  BY <1>1 DEF StoreInv, StoreTypeOK
<1>3. FilesOfRuns' /\ ManifestsAreOld' /\ SettledLate'
  BY <1>1 DEF StoreInv, FilesOfRuns, ManifestsAreOld, SettledLate
<1>4. CallFits' /\ WriteOK' /\ ListingOK' /\ D!SweepSpares'
  BY <1>1 DEF CallFits, WriteOK, ListingOK, D!Listing, D!SweepSpares
<1>5. CacheOK'
  BY <1>1 DEF StoreInv, CacheOK
<1>6. UsageOK' /\ D!RowsAreCurrent'
  BY <1>1, UsageKept, RowsKept DEF StoreInv
<1>7. QED
  BY <1>2, <1>3, <1>4, <1>5, <1>6 DEF StoreInv

\* The store keeps its invariant.
LEMMA StoreStep == StoreAssumption /\ StoreInv /\ D!Next => StoreInv'
<1> SUFFICES ASSUME StoreAssumption, StoreInv, D!Next PROVE StoreInv'
  OBVIOUS
<1>1. CASE D!Lists
  BY <1>1, ListsKeep
<1>2. CASE D!Stats
  BY <1>2, StatsKeep
<1>3. CASE D!Reads
  BY <1>3, ReadsKeep
<1>4. CASE D!Summarizes
  BY <1>4, SummarizesKeep
<1>5. CASE D!Listed
  BY <1>5, ListedKeeps
<1>6. CASE D!Boots
  BY <1>6, BootsKeep
<1>7. CASE D!Settles
  BY <1>7, SettlesKeep
<1>8. CASE D!Judges
  BY <1>8, JudgesKeep
<1>9. CASE D!Prunes
  BY <1>9, PrunesKeep
<1>10. CASE D!Writes
  BY <1>10, WritesKeep
<1>11. CASE D!Caches
  BY <1>11, CachesKeep
<1>12. CASE D!Deletes
  BY <1>12, DeletesKeep
<1>13. CASE D!AsksUsage
  BY <1>13, UsageKeeps
<1>14. CASE D!Walks
  BY <1>14, UsageKeeps
<1>15. CASE D!WrittenElsewhere
  BY <1>15, WrittenElsewhereKeeps
<1>16. CASE D!DeletedElsewhere
  BY <1>16, DeletedElsewhereKeeps
<1>17. CASE D!Ticks
  BY <1>17, TicksKeep
<1>18. CASE D!Crashes
  BY <1>18, StoreCrashKeeps
<1>19. QED
  BY <1>1, <1>2, <1>3, <1>4, <1>5, <1>6, <1>7, <1>8, <1>9, <1>10, <1>11, <1>12, <1>13, <1>14,
     <1>15, <1>16, <1>17, <1>18 DEF D!Next

\* It holds of a store that was never served.
LEMMA StoreStarts == StoreAssumption /\ D!Init => StoreInv
<1> SUFFICES ASSUME StoreAssumption, D!Init PROVE StoreInv
  OBVIOUS
<1> DEFINE first == [status : {"running", "parked", "ended"}, text : {1}, size : {1}, at : {0},
                     sizes : {{1}}]
<1>1. /\ manifest \in [StoredRuns -> {None} \cup first]
      /\ dir = [r \in StoredRuns |-> IF manifest[r] = None THEN "none" ELSE "whole"]
      /\ kept \subseteq StoredRuns /\ owned = Elsewhere /\ clock = MaxAge + 1 /\ cache = <<>>
      /\ daemon = "off" /\ scan = None /\ shown = None
      /\ usage = [value |-> {}, until |-> 0, walk |-> None]
      /\ unsettled = {}
  BY DEF D!Init
<1>2. first \subseteq Stored
  BY DEF Stored
<1>3. clock \in Nat /\ 0 <= clock /\ Elsewhere \subseteq StoredRuns
  BY <1>1 DEF StoreAssumption
<1>4. \A r \in StoredRuns : manifest[r] # None =>
        manifest[r].at = 0 /\ manifest[r].size = 1 /\ 1 \in manifest[r].sizes
  BY <1>1
<1> HIDE DEF first
<1>5. StoreTypeOK
  <2>1. manifest \in [StoredRuns -> Stored \cup {None}]
    BY <1>1, <1>2
  <2>2. cache \in Seq(Entered)
    BY <1>1
  <2>3. usage \in [value : SUBSET StoredRuns, until : Nat,
                   walk : {None} \cup [todo : SUBSET StoredRuns, sum : SUBSET StoredRuns]]
    BY <1>1
  <2>4. QED
    BY <1>1, <1>3, <2>1, <2>2, <2>3 DEF StoreTypeOK
<1>6. FilesOfRuns
  BY <1>1 DEF FilesOfRuns
<1>7. ManifestsAreOld
  BY <1>3, <1>4 DEF ManifestsAreOld
<1>8. CallFits /\ ListingOK /\ WriteOK /\ SettledLate /\ D!RowsAreCurrent /\ D!SweepSpares
  BY <1>1 DEF CallFits, ListingOK, D!Listing, WriteOK, SettledLate, D!RowsAreCurrent, D!SweepSpares
<1>9. CacheOK
  <2>1. DOMAIN cache = {}
    BY <1>1
  <2>2. QED
    BY <1>1, <2>1 DEF CacheOK, Single
<1>10. UsageOK
  BY <1>1, <1>3 DEF UsageOK
<1>11. QED
  BY <1>5, <1>6, <1>7, <1>8, <1>9, <1>10 DEF StoreInv

\* What the store says of the runs follows.
LEMMA StoreHolds == StoreInv => D!StoreIsTrue
<1> SUFFICES ASSUME StoreInv PROVE D!StoreIsTrue
  OBVIOUS
<1>1. D!UsageForgets
  BY DEF StoreInv, UsageOK, Gone, D!UsageForgets
<1>2. QED
  BY <1>1 DEF StoreInv, D!StoreIsTrue

(*****************************************************************************)
(* Export: the download of a run                                             *)
(*****************************************************************************)
Pieces == [part : {"local", "data", "descriptor"}, of : DOMAIN Entries, len : Nat]
Planned == [entry : DOMAIN Entries, size : Nat]
Listed == [of : DOMAIN Entries, size : Nat, packed : Nat, at : Nat]

\* The bytes of what was emitted at some places, where the data is, and that of an entry.
Bytes(s, places) == SumFunctionOnSet([n \in DOMAIN s |-> s[n].len], places)
DataIn(s) == {n \in DOMAIN s : s[n].part = "data"}
DataAt(s, e) == {n \in DataIn(s) : s[n].of = e}

\* The header of an entry was emitted, with so much before it.
HeaderAt(s, e, bytes) ==
    \E k \in DOMAIN s : s[k].part = "local" /\ s[k].of = e /\ Bytes(s, 1 .. k - 1) = bytes

\* An entry of the directory says of a planned one where it begins and how long it is.
Tells(c, entry, s) ==
    c.of = entry /\ HeaderAt(s, entry, c.at) /\ Bytes(s, DataAt(s, entry)) = c.packed

\* Data is only of the first so many entries.
DataOfFirst(s, p, n) == \A k \in DataIn(s) : \E m \in DOMAIN p : m <= n /\ s[k].of = p[m].entry

ExportTypeOK ==
    /\ content \in [DOMAIN Entries -> Sizes \cup {None}] /\ plan \in Seq(Planned)
    /\ emitted \in Seq(Pieces) /\ centrals \in Seq(Listed)
    /\ place \in Nat /\ got \in Nat /\ offset \in Nat /\ observed \in Nat

\* The entries are planned in their order, none twice.
InOrder(p) == \A m, n \in DOMAIN p : m < n => p[m].entry < p[n].entry
PlanInOrder ==
    /\ InOrder(plan)
    /\ phase = "planning" =>
         /\ \A n \in DOMAIN plan : plan[n].entry <= place
         /\ emitted = <<>> /\ centrals = <<>> /\ offset = 0

\* What is emitted is the entries that are behind, as the directory will have them.
Behind(s, p, cs, n) ==
    n <= Len(p) /\ Len(cs) = n /\ \A m \in DOMAIN cs : Tells(cs[m], p[m].entry, s)

\* Between two entries nothing else was emitted, and within one its header and what was read.
SendsWhole ==
    /\ phase \in {"entries", "data"} => Behind(emitted, plan, centrals, place)
    /\ phase = "entries" =>
         DataOfFirst(emitted, plan, place) /\ Bytes(emitted, DOMAIN emitted) = offset
    /\ phase = "data" =>
         /\ place < Len(plan) /\ DataOfFirst(emitted, plan, place + 1)
         /\ Bytes(emitted, DOMAIN emitted) = offset + X!LocalLen + X!NameLen + got
         /\ HeaderAt(emitted, plan[place + 1].entry, offset)
         /\ Bytes(emitted, DataAt(emitted, plan[place + 1].entry)) = got

\* What is sent was read, within the limit.
ReadsWithin == Bytes(emitted, DataIn(emitted)) <= observed /\ observed <= MaxInput

ExportInv ==
    /\ phase \in {"planning", "refused", "entries", "data", "closed", "failed"}
    /\ IF phase = "closed" THEN X!ExportIsWhole
       ELSE ExportTypeOK /\ PlanInOrder /\ SendsWhole /\ ReadsWithin

-----------------------------------------------------------------------------
\* The download adds up and picks as the rest does.
LEMMA ExportOperators ==
  /\ \A f, A : X!SumFunctionOnSet(f, A) = SumFunctionOnSet(f, A)
  /\ \A n : X!Before(n) = Bytes(emitted, 1 .. n - 1)
  /\ X!Data = DataIn(emitted)
  /\ \A e : X!DataOf(e) = Bytes(emitted, DataAt(emitted, e))
  /\ SumFunctionOnSet(X!Lens(emitted), X!Data) = Bytes(emitted, DataIn(emitted))
<1>1. \A f, A : X!SumFunctionOnSet(f, A) = SumFunctionOnSet(f, A)
  BY DEF X!SumFunctionOnSet, X!FoldFunctionOnSet, X!MapThenFoldSet,
         SumFunctionOnSet, FoldFunctionOnSet, MapThenFoldSet
<1>2. X!Lens(emitted) = [n \in DOMAIN emitted |-> emitted[n].len]
  BY DEF X!Lens
<1>3. \A A : SumFunctionOnSet(X!Lens(emitted), A) = Bytes(emitted, A)
  BY <1>2 DEF Bytes
<1>4. X!Data = DataIn(emitted)
  BY DEF X!Data, DataIn
<1>5. \A n : X!Before(n) = Bytes(emitted, 1 .. n - 1)
  BY <1>1, <1>3 DEF X!Before
<1>6. \A e : X!DataOf(e) = Bytes(emitted, DataAt(emitted, e))
  BY <1>1, <1>3, <1>4 DEF X!DataOf, DataAt
<1>7. QED
  BY <1>1, <1>3, <1>4, <1>5, <1>6

\* An archive that is closed and whole, and within the limit.
WholeArchive(s, cs, p) ==
    LET end == X!Last(s)
    IN /\ [n \in DOMAIN cs |-> cs[n].of] = [n \in DOMAIN p |-> p[n].entry]
       /\ \A n \in DOMAIN cs : Tells(cs[n], cs[n].of, s)
       /\ end.count = Len(cs) /\ end.at = Bytes(s, 1 .. (Len(s) - Len(cs)) - 1)
       /\ end.at + end.len = Bytes(s, 1 .. Len(s) - 1)
ClosedOne ==
    /\ phase = "closed" /\ WholeArchive(emitted, centrals, plan)
    /\ Bytes(emitted, DataIn(emitted)) <= MaxInput /\ observed <= MaxInput

\* It is what was promised, now and after a step.
LEMMA ClosedPromise == (ClosedOne => X!ExportIsWhole) /\ (ClosedOne' => X!ExportIsWhole')
<1>1. ClosedOne => X!ExportIsWhole
  <2> SUFFICES ASSUME ClosedOne PROVE X!ExportIsWhole
    OBVIOUS
  <2>1. X!ClosedIsWhole
    <3>1. ASSUME NEW n \in DOMAIN centrals
          PROVE  /\ \E k \in DOMAIN emitted :
                      /\ emitted[k].part = "local" /\ emitted[k].of = centrals[n].of
                      /\ X!Before(k) = centrals[n].at
                 /\ X!DataOf(centrals[n].of) = centrals[n].packed
      <4>1. Tells(centrals[n], centrals[n].of, emitted)
        BY DEF ClosedOne, WholeArchive
      <4>2. QED
        BY <4>1, ExportOperators DEF Tells, HeaderAt
    <3>2. /\ X!Last(emitted).count = Len(centrals)
          /\ X!Last(emitted).at = X!Before(Len(emitted) - Len(centrals))
          /\ X!Last(emitted).at + X!Last(emitted).len = X!Before(Len(emitted))
      BY ExportOperators DEF ClosedOne, WholeArchive
    <3>3. [n \in DOMAIN centrals |-> centrals[n].of] = [n \in DOMAIN plan |-> plan[n].entry]
      BY DEF ClosedOne, WholeArchive
    <3>4. QED
      BY <3>1, <3>2, <3>3 DEF X!ClosedIsWhole
  <2>2. X!LimitsAreKept
    BY ExportOperators DEF ClosedOne, X!LimitsAreKept
  <2>3. QED
    BY <2>1, <2>2 DEF X!ExportIsWhole
<1>2. ClosedOne' => X!ExportIsWhole'
  BY <1>1, PTL
<1>3. QED
  BY <1>1, <1>2

\* The lesser of two numbers is one of them.
LEMMA LesserOf ==
  ASSUME NEW a \in Nat, NEW b \in Nat
  PROVE  X!Min({a, b}) \in Nat /\ X!Min({a, b}) <= a /\ X!Min({a, b}) <= b
<1>1. \E x \in {a, b} : \A y \in {a, b} : x <= y
  <2>1. CASE a <= b
    BY <2>1
  <2>2. CASE b <= a
    BY <2>2
  <2>3. QED
    BY <2>1, <2>2
<1>2. X!Min({a, b}) \in {a, b} /\ \A y \in {a, b} : X!Min({a, b}) <= y
  BY <1>1 DEF X!Min
<1>3. QED
  BY <1>2

\* What was emitted keeps its length when more is.
LEMMA BytesKept ==
  ASSUME NEW s \in Seq(Pieces), NEW t, DOMAIN s \subseteq DOMAIN t,
         \A k \in DOMAIN s : t[k] = s[k], NEW A \in SUBSET DOMAIN s
  PROVE  /\ IsFiniteSet(A) /\ Bytes(s, A) \in Nat /\ Bytes(t, A) = Bytes(s, A)
         /\ \A k \in A : s[k].len \in Nat
<1> DEFINE f == [n \in DOMAIN s |-> s[n].len]
           h == [n \in DOMAIN t |-> t[n].len]
<1>1. IsFiniteSet(A)
  <2>1. DOMAIN s = 1 .. Len(s) /\ IsFiniteSet(1 .. Len(s))
    BY FS_Interval
  <2>2. QED
    BY <2>1, FS_Subset
<1>2. \A k \in DOMAIN s : s[k] \in Pieces
  OBVIOUS
<1>3. \A k \in A : f[k] \in Nat /\ h[k] = f[k] /\ s[k].len \in Nat
  BY <1>2 DEF Pieces
<1>4. Bytes(s, A) = SumFunctionOnSet(f, A) /\ Bytes(t, A) = SumFunctionOnSet(h, A)
  BY DEF Bytes
<1> HIDE DEF f, h
<1>5. SumFunctionOnSet(f, A) \in Nat
  BY <1>1, <1>3, SumProperties
<1>6. SumFunctionOnSet(h, A) = SumFunctionOnSet(f, A)
  BY <1>1, <1>3, SumsSame
<1>7. QED
  BY <1>1, <1>3, <1>4, <1>5, <1>6

\* A piece more is its length more.
LEMMA BytesOfMore ==
  ASSUME NEW s \in Seq(Pieces), NEW x \in Pieces, NEW A \in SUBSET DOMAIN s
  PROVE  LET t == Append(s, x)
         IN /\ Bytes(s, A) \in Nat /\ Bytes(t, A) = Bytes(s, A)
            /\ Bytes(t, A \cup {Len(s) + 1}) = Bytes(s, A) + x.len
<1> DEFINE t == Append(s, x)
           z == Len(s) + 1
           B == A \cup {z}
           h == [n \in DOMAIN t |-> t[n].len]
<1>1. /\ t \in Seq(Pieces) /\ DOMAIN s \subseteq DOMAIN t /\ (\A k \in DOMAIN s : t[k] = s[k])
      /\ z \in DOMAIN t /\ t[z] = x /\ z \notin DOMAIN s
  OBVIOUS
<1> HIDE DEF t, z
<1>2. Bytes(s, A) \in Nat /\ Bytes(t, A) = Bytes(s, A)
  BY <1>1, BytesKept
<1>3. B \in SUBSET DOMAIN t /\ B \ {z} = A /\ z \in B
  BY <1>1
<1> HIDE DEF B
<1>4. IsFiniteSet(B) /\ \A k \in B : t[k].len \in Nat
  BY <1>1, <1>3, BytesKept
<1>5. \A k \in B : h[k] \in Nat
  BY <1>3, <1>4
<1>6. h[z] = x.len /\ x.len \in Nat
  BY <1>1 DEF Pieces
<1>7. Bytes(t, B) = SumFunctionOnSet(h, B) /\ Bytes(t, A) = SumFunctionOnSet(h, A)
  BY DEF Bytes
<1> HIDE DEF h
<1>8. SumFunctionOnSet(h, B) = h[z] + SumFunctionOnSet(h, B \ {z})
  BY <1>3, <1>4, <1>5, SumProperties
<1>9. Bytes(t, B) = Bytes(s, A) + x.len
  <2>1. Bytes(t, B) = x.len + Bytes(t, A)
    BY <1>3, <1>6, <1>7, <1>8
  <2>2. Bytes(t, B) = x.len + Bytes(s, A)
    BY <1>2, <2>1
  <2>3. x.len + Bytes(s, A) = Bytes(s, A) + x.len
    BY <1>2, <1>6
  <2>4. QED
    BY <2>2, <2>3
<1>10. QED
  BY <1>2, <1>9 DEF B, t, z

\* A header that was emitted stays where it is.
LEMMA HeaderStays ==
  ASSUME NEW s \in Seq(Pieces), NEW t, DOMAIN s \subseteq DOMAIN t,
         \A k \in DOMAIN s : t[k] = s[k], NEW e, NEW bytes, HeaderAt(s, e, bytes)
  PROVE  HeaderAt(t, e, bytes)
<1>1. PICK k \in DOMAIN s :
        s[k].part = "local" /\ s[k].of = e /\ Bytes(s, 1 .. k - 1) = bytes
  BY DEF HeaderAt
<1>2. 1 .. k - 1 \in SUBSET DOMAIN s
  OBVIOUS
<1>3. Bytes(t, 1 .. k - 1) = Bytes(s, 1 .. k - 1)
  BY <1>2, BytesKept
<1>4. k \in DOMAIN t /\ t[k] = s[k]
  OBVIOUS
<1>5. QED
  BY <1>1, <1>3, <1>4 DEF HeaderAt

\* A piece that is emitted adds its length, to all, to the data if it is data and to its entry's.
LEMMA PieceAdds ==
  ASSUME NEW s \in Seq(Pieces), NEW x \in Pieces
  PROVE  LET t == Append(s, x)
         IN /\ t \in Seq(Pieces)
            /\ Bytes(s, DOMAIN s) \in Nat /\ Bytes(s, DataIn(s)) \in Nat
            /\ Bytes(t, DOMAIN t) = Bytes(s, DOMAIN s) + x.len
            /\ \A e, bytes : HeaderAt(s, e, bytes) => HeaderAt(t, e, bytes)
            /\ x.part = "local" => HeaderAt(t, x.of, Bytes(s, DOMAIN s))
            /\ x.part # "data" =>
                 /\ Bytes(t, DataIn(t)) = Bytes(s, DataIn(s))
                 /\ \A e : Bytes(t, DataAt(t, e)) = Bytes(s, DataAt(s, e))
            /\ x.part = "data" => Bytes(t, DataIn(t)) = Bytes(s, DataIn(s)) + x.len
            /\ \A e : e # x.of => Bytes(t, DataAt(t, e)) = Bytes(s, DataAt(s, e))
            /\ x.part = "data" =>
                 Bytes(t, DataAt(t, x.of)) = Bytes(s, DataAt(s, x.of)) + x.len
            /\ \A k \in DataIn(t) :
                 \/ k \in DataIn(s) /\ t[k] = s[k]
                 \/ x.part = "data" /\ t[k] = x
<1> DEFINE t == Append(s, x)
           z == Len(s) + 1
<1>1. /\ t \in Seq(Pieces) /\ DOMAIN t = DOMAIN s \cup {z}
      /\ DOMAIN s \subseteq DOMAIN t /\ (\A k \in DOMAIN s : t[k] = s[k])
      /\ z \in DOMAIN t /\ t[z] = x /\ z \notin DOMAIN s /\ DOMAIN s = 1 .. z - 1
  OBVIOUS
<1>2. \A A \in SUBSET DOMAIN s : /\ Bytes(s, A) \in Nat /\ Bytes(t, A) = Bytes(s, A)
                                 /\ Bytes(t, A \cup {z}) = Bytes(s, A) + x.len
  BY BytesOfMore
<1> HIDE DEF t, z
<1>3. /\ DOMAIN s \in SUBSET DOMAIN s /\ DataIn(s) \in SUBSET DOMAIN s
      /\ \A e : DataAt(s, e) \in SUBSET DOMAIN s
  BY DEF DataIn, DataAt
<1>4. Bytes(s, DOMAIN s) \in Nat /\ Bytes(s, DataIn(s)) \in Nat
  BY <1>2, <1>3
<1>5. Bytes(t, DOMAIN t) = Bytes(s, DOMAIN s) + x.len
  BY <1>1, <1>2, <1>3
<1>6. \A e, bytes : HeaderAt(s, e, bytes) => HeaderAt(t, e, bytes)
  BY <1>1, HeaderStays
<1>7. x.part = "local" => HeaderAt(t, x.of, Bytes(s, DOMAIN s))
  <2>1. Bytes(t, 1 .. z - 1) = Bytes(s, DOMAIN s)
    BY <1>1, <1>2, <1>3
  <2>2. QED
    BY <1>1, <2>1 DEF HeaderAt
<1>8. /\ x.part # "data" => DataIn(t) = DataIn(s)
      /\ x.part = "data" => DataIn(t) = DataIn(s) \cup {z}
  BY <1>1 DEF DataIn
<1>9. /\ \A e : x.part # "data" => DataAt(t, e) = DataAt(s, e)
      /\ \A e : e # x.of => DataAt(t, e) = DataAt(s, e)
      /\ x.part = "data" => DataAt(t, x.of) = DataAt(s, x.of) \cup {z}
  BY <1>1 DEF DataIn, DataAt
<1>10. /\ x.part # "data" => Bytes(t, DataIn(t)) = Bytes(s, DataIn(s))
       /\ x.part = "data" => Bytes(t, DataIn(t)) = Bytes(s, DataIn(s)) + x.len
  BY <1>2, <1>3, <1>8
<1>11. /\ \A e : x.part # "data" => Bytes(t, DataAt(t, e)) = Bytes(s, DataAt(s, e))
       /\ \A e : e # x.of => Bytes(t, DataAt(t, e)) = Bytes(s, DataAt(s, e))
       /\ x.part = "data" => Bytes(t, DataAt(t, x.of)) = Bytes(s, DataAt(s, x.of)) + x.len
  BY <1>2, <1>3, <1>9
<1>12. \A k \in DataIn(t) : \/ k \in DataIn(s) /\ t[k] = s[k]
                            \/ x.part = "data" /\ t[k] = x
  BY <1>1, <1>8 DEF DataIn
<1>13. QED
  BY <1>1, <1>4, <1>5, <1>6, <1>7, <1>10, <1>11, <1>12 DEF t

\* The entries of a plan are numbers.
LEMMA PlannedAreNumbers ==
  ASSUME ExportAssumption, NEW p \in Seq(Planned)
  PROVE  \A m \in DOMAIN p : p[m].entry \in Nat
<1>1. DOMAIN Entries \subseteq Nat
  BY DEF ExportAssumption
<1>2. \A m \in DOMAIN p : p[m] \in Planned
  OBVIOUS
<1>3. \A m \in DOMAIN p : p[m].entry \in DOMAIN Entries
  BY <1>2 DEF Planned
<1>4. QED
  BY <1>1, <1>3

\* Nothing of the next entry was emitted.
LEMMA NextIsNew ==
  ASSUME ExportAssumption, NEW s \in Seq(Pieces), NEW p \in Seq(Planned), NEW n \in Nat,
         n < Len(p), InOrder(p), DataOfFirst(s, p, n)
  PROVE  Bytes(s, DataAt(s, p[n + 1].entry)) = 0
<1> DEFINE e == p[n + 1].entry
<1>1. n + 1 \in DOMAIN p
  OBVIOUS
<1>2. \A m \in DOMAIN p : p[m].entry \in Nat
  BY PlannedAreNumbers
<1>3. \A m \in DOMAIN p : m <= n => p[m].entry # e
  BY <1>1, <1>2 DEF InOrder
<1> HIDE DEF e
<1>4. DataAt(s, e) = {}
  BY <1>3 DEF DataOfFirst, DataAt
<1>5. QED
  BY <1>4, SumOfNothing DEF Bytes, e

\* The entries that are behind stay as they are while the next one is emitted.
LEMMA BehindStays ==
  ASSUME ExportAssumption, NEW s \in Seq(Pieces), NEW p \in Seq(Planned),
         NEW cs \in Seq(Listed), NEW n \in Nat, n < Len(p), InOrder(p), Behind(s, p, cs, n),
         NEW x \in Pieces, x.of = p[n + 1].entry
  PROVE  Behind(Append(s, x), p, cs, n)
<1> DEFINE t == Append(s, x)
<1>1. n + 1 \in DOMAIN p /\ DOMAIN cs = 1 .. n /\ DOMAIN cs \subseteq DOMAIN p
  BY DEF Behind
<1>2. \A m \in DOMAIN p : p[m].entry \in Nat
  BY PlannedAreNumbers
<1>3. \A m \in DOMAIN cs : p[m].entry # x.of
  BY <1>1, <1>2 DEF InOrder
<1>4. /\ \A e, bytes : HeaderAt(s, e, bytes) => HeaderAt(t, e, bytes)
      /\ \A e : e # x.of => Bytes(t, DataAt(t, e)) = Bytes(s, DataAt(s, e))
  BY PieceAdds
<1> HIDE DEF t
<1>5. \A m \in DOMAIN cs : Tells(cs[m], p[m].entry, t)
  BY <1>3, <1>4 DEF Behind, Tells
<1>6. QED
  BY <1>5 DEF Behind, t

\* The next entry joins those that are behind.
LEMMA BehindGrows ==
  ASSUME NEW s \in Seq(Pieces), NEW p \in Seq(Planned), NEW cs \in Seq(Listed), NEW n \in Nat,
         n < Len(p), Behind(s, p, cs, n), NEW c \in Listed, Tells(c, p[n + 1].entry, s)
  PROVE  Append(cs, c) \in Seq(Listed) /\ Behind(s, p, Append(cs, c), n + 1)
<1> DEFINE cs2 == Append(cs, c)
<1>1. Len(cs) = n
  BY DEF Behind
<1>2. /\ cs2 \in Seq(Listed) /\ Len(cs2) = n + 1 /\ n + 1 <= Len(p)
      /\ DOMAIN cs2 = DOMAIN cs \cup {n + 1}
      /\ cs2[n + 1] = c /\ \A m \in DOMAIN cs : cs2[m] = cs[m]
  BY <1>1
<1> HIDE DEF cs2
<1>3. \A m \in DOMAIN cs2 : Tells(cs2[m], p[m].entry, s)
  BY <1>2 DEF Behind
<1>4. QED
  BY <1>2, <1>3 DEF Behind, cs2

\* A piece that is not data, or is data of the next entry, is data of the first ones.
LEMMA FirstOnes ==
  ASSUME NEW s \in Seq(Pieces), NEW p \in Seq(Planned), NEW n \in Nat, DataOfFirst(s, p, n)
  PROVE  /\ DataOfFirst(s, p, n + 1)
         /\ \A x \in Pieces : x.part # "data" => DataOfFirst(Append(s, x), p, n)
         /\ \A x \in Pieces : n \in DOMAIN p /\ x.of = p[n].entry => DataOfFirst(Append(s, x), p, n)
<1>1. DataOfFirst(s, p, n + 1)
  <2>1. \A m \in DOMAIN p : m <= n => m <= n + 1
    OBVIOUS
  <2>2. QED
    BY <2>1 DEF DataOfFirst
<1>2. ASSUME NEW x \in Pieces
      PROVE  \A k \in DataIn(Append(s, x)) :
               \/ k \in DataIn(s) /\ Append(s, x)[k] = s[k]
               \/ x.part = "data" /\ Append(s, x)[k] = x
  BY PieceAdds
<1>3. ASSUME NEW x \in Pieces, x.part # "data"
      PROVE  DataOfFirst(Append(s, x), p, n)
  BY <1>2, <1>3 DEF DataOfFirst
<1>4. ASSUME NEW x \in Pieces, n \in DOMAIN p, x.of = p[n].entry
      PROVE  DataOfFirst(Append(s, x), p, n)
  <2>1. n <= n
    OBVIOUS
  <2>2. QED
    BY <1>2, <1>4, <2>1 DEF DataOfFirst
<1>5. QED
  BY <1>1, <1>3, <1>4

-----------------------------------------------------------------------------
\* A download that fails has sent what it had.
LEMMA FailingKeeps ==
  ASSUME ExportInv, phase # "closed", X!Fails, UNCHANGED <<content, plan>>
  PROVE  ExportInv'
<1>1. ExportTypeOK /\ PlanInOrder /\ SendsWhole /\ ReadsWithin
  BY DEF ExportInv
<1>2. /\ phase' = "failed"
      /\ UNCHANGED <<content, plan, emitted, centrals, offset, observed, place, got>>
  BY DEF X!Fails
<1>3. ExportTypeOK'
  BY <1>1, <1>2 DEF ExportTypeOK
<1>4. PlanInOrder'
  BY <1>1, <1>2 DEF PlanInOrder
<1>5. SendsWhole'
  BY <1>2 DEF SendsWhole
<1>6. ReadsWithin'
  BY <1>1, <1>2 DEF ReadsWithin
<1>7. QED
  BY <1>2, <1>3, <1>4, <1>5, <1>6 DEF ExportInv

\* The plan takes the entries in their order, and the sending begins with nothing sent.
LEMMA PlanningKeeps == ExportAssumption /\ ExportInv /\ X!Plans => ExportInv'
<1> SUFFICES ASSUME ExportAssumption, ExportInv, X!Plans PROVE ExportInv'
  OBVIOUS
<1>1. /\ phase = "planning" /\ UNCHANGED <<content, got, emitted, centrals, offset, observed>>
  BY DEF X!Plans
<1>2. ExportTypeOK /\ PlanInOrder /\ ReadsWithin
  BY <1>1 DEF ExportInv
<1>3. /\ InOrder(plan) /\ \A n \in DOMAIN plan : plan[n].entry <= place
      /\ emitted = <<>> /\ centrals = <<>> /\ offset = 0
  BY <1>1, <1>2 DEF PlanInOrder
<1>4. ReadsWithin'
  BY <1>1, <1>2 DEF ReadsWithin
<1>5. place \in Nat /\ plan \in Seq(Planned)
  BY <1>2 DEF ExportTypeOK
<1>6. CASE place + 1 \in DOMAIN Entries /\ content[place + 1] # None
  <2> DEFINE e == place + 1
             x == [entry |-> e, size |-> content[e]]
  <2>1. plan' = Append(plan, x) /\ place' = e /\ phase' = "planning"
    BY <1>1, <1>6 DEF X!Plans
  <2>2. x \in Planned
    BY <1>2, <1>6 DEF ExportTypeOK, Planned, ExportAssumption
  <2>3. e \in Nat /\ place < e /\ x.entry = e
    BY <1>5
  <2> HIDE DEF e, x
  <2>4. /\ plan' \in Seq(Planned) /\ DOMAIN plan' = DOMAIN plan \cup {Len(plan) + 1}
        /\ plan'[Len(plan) + 1] = x
        /\ \A n \in DOMAIN plan : plan'[n] = plan[n] /\ n < Len(plan) + 1
    BY <1>5, <2>1, <2>2
  <2>5. \A n \in DOMAIN plan : plan[n].entry \in Nat /\ n \in Nat
    BY <1>5, PlannedAreNumbers
  <2>6. \A n \in DOMAIN plan : plan[n].entry < e
    BY <1>3, <1>5, <2>3, <2>5
  <2>7. \A n \in DOMAIN plan' : plan'[n].entry <= e
    BY <2>3, <2>4, <2>5, <2>6
  <2>8. InOrder(plan')
    <3>1. ASSUME NEW m \in DOMAIN plan', NEW n \in DOMAIN plan', m < n
          PROVE  plan'[m].entry < plan'[n].entry
      <4>1. m \in DOMAIN plan
        BY <1>5, <2>4, <2>5, <3>1
      <4>2. CASE n \in DOMAIN plan
        BY <1>3, <2>4, <3>1, <4>1, <4>2 DEF InOrder
      <4>3. CASE n = Len(plan) + 1
        BY <2>3, <2>4, <2>6, <4>1, <4>3
      <4>4. QED
        BY <2>4, <4>2, <4>3
    <3>2. QED
      BY <3>1 DEF InOrder
  <2>9. ExportTypeOK'
    BY <1>1, <1>2, <2>1, <2>3, <2>4 DEF ExportTypeOK
  <2>10. PlanInOrder'
    BY <1>1, <1>3, <2>1, <2>7, <2>8 DEF PlanInOrder
  <2>11. SendsWhole'
    BY <2>1 DEF SendsWhole
  <2>12. QED
    BY <1>4, <2>1, <2>9, <2>10, <2>11 DEF ExportInv
<1>7. CASE place + 1 \in DOMAIN Entries /\ content[place + 1] = None
  <2>1. plan' = plan /\ place' = place + 1 /\ phase' = "planning"
    BY <1>1, <1>7 DEF X!Plans
  <2>2. \A n \in DOMAIN plan : plan[n].entry \in Nat
    BY <1>5, PlannedAreNumbers
  <2>3. \A n \in DOMAIN plan : plan[n].entry <= place + 1
    BY <1>3, <1>5, <2>2
  <2>4. ExportTypeOK'
    BY <1>1, <1>2, <2>1 DEF ExportTypeOK
  <2>5. PlanInOrder'
    BY <1>1, <1>3, <2>1, <2>3 DEF PlanInOrder
  <2>6. SendsWhole'
    BY <2>1 DEF SendsWhole
  <2>7. QED
    BY <1>4, <2>1, <2>4, <2>5, <2>6 DEF ExportInv
<1>8. CASE place + 1 \notin DOMAIN Entries
  <2>1. plan' = plan /\ place' = 0 /\ phase' \in {"refused", "entries"}
    BY <1>1, <1>8 DEF X!Plans
  <2>2. ExportTypeOK'
    BY <1>1, <1>2, <2>1 DEF ExportTypeOK
  <2>3. PlanInOrder'
    BY <1>3, <2>1 DEF PlanInOrder
  <2>4. DOMAIN emitted = {} /\ DataIn(emitted) = {} /\ DOMAIN centrals = {} /\ Len(centrals) = 0
    BY <1>3 DEF DataIn
  <2>5. Bytes(emitted, DOMAIN emitted) = offset
    BY <1>3, <2>4, SumOfNothing DEF Bytes
  <2>6. Behind(emitted, plan, centrals, 0)
    BY <1>5, <2>4 DEF Behind
  <2>7. DataOfFirst(emitted, plan, 0)
    BY <2>4 DEF DataOfFirst
  <2>8. SendsWhole'
    BY <1>1, <2>1, <2>5, <2>6, <2>7 DEF SendsWhole
  <2>9. QED
    BY <1>4, <2>1, <2>2, <2>3, <2>8 DEF ExportInv
<1>9. QED
  BY <1>6, <1>7, <1>8

\* The lengths are what they are.
LEMMA LengthsAre ==
  /\ X!LocalLen = 30 /\ X!NameLen = 1 /\ X!DescriptorLen = 16 /\ X!CentralLen = 46
  /\ \A n : X!StreamedLen(n) = 30 + 1 + n + 16
BY DEF X!LocalLen, X!NameLen, X!DescriptorLen, X!CentralLen, X!StreamedLen

\* The turn of an entry puts its header at the offset, and all of its data if it is at hand.
LEMMA StartingKeeps == ExportAssumption /\ ExportInv /\ X!Starts => ExportInv'
<1> SUFFICES ASSUME ExportAssumption, ExportInv, X!Starts PROVE ExportInv'
  OBVIOUS
<1> DEFINE e == X!Current.entry
           size == X!Current.size
           header == [part |-> "local", of |-> e, len |-> X!LocalLen + X!NameLen]
<1>1. phase = "entries" /\ place < Len(plan) /\ UNCHANGED <<content, plan>>
  BY DEF X!Starts
<1>2. ExportTypeOK /\ PlanInOrder /\ SendsWhole /\ ReadsWithin
  BY <1>1 DEF ExportInv
<1>3. /\ plan \in Seq(Planned) /\ emitted \in Seq(Pieces) /\ centrals \in Seq(Listed)
      /\ place \in Nat /\ offset \in Nat /\ observed \in Nat
  BY <1>2 DEF ExportTypeOK
<1>4. /\ Behind(emitted, plan, centrals, place) /\ DataOfFirst(emitted, plan, place)
      /\ Bytes(emitted, DOMAIN emitted) = offset
  BY <1>1, <1>2 DEF SendsWhole
<1>5. InOrder(plan)
  BY <1>2 DEF PlanInOrder
<1>6. place + 1 \in DOMAIN plan /\ plan[place + 1].entry = e /\ plan[place + 1].size = size
  BY <1>1, <1>3 DEF X!Current
<1>7. e \in DOMAIN Entries /\ size \in Nat
  <2>1. plan[place + 1] \in Planned
    BY <1>3, <1>6
  <2>2. QED
    BY <1>6, <2>1 DEF Planned
<1> HIDE DEF e, size
<1>8. header \in Pieces /\ header.part = "local" /\ header.of = e /\ header.len = 31
  BY <1>7, LengthsAre DEF Pieces
<1>9. Bytes(emitted, DataAt(emitted, e)) = 0
  BY <1>1, <1>3, <1>4, <1>5, <1>6, NextIsNew
<1> HIDE DEF header
<1> DEFINE t == Append(emitted, header)
<1>10. /\ t \in Seq(Pieces) /\ Bytes(t, DOMAIN t) = offset + 31 /\ HeaderAt(t, e, offset)
       /\ Bytes(t, DataIn(t)) = Bytes(emitted, DataIn(emitted))
       /\ Bytes(t, DataAt(t, e)) = 0
  BY <1>3, <1>4, <1>8, <1>9, PieceAdds
<1>11. Behind(t, plan, centrals, place)
  BY <1>1, <1>3, <1>4, <1>5, <1>6, <1>8, BehindStays
<1>12. DataOfFirst(t, plan, place + 1)
  <2>1. DataOfFirst(t, plan, place)
    BY <1>3, <1>4, <1>8, FirstOnes
  <2>2. QED
    BY <1>3, <1>10, <2>1, FirstOnes
<1> HIDE DEF t
<1>13. CASE X!Fails
  BY <1>1, <1>13, FailingKeeps
<1>14. CASE /\ phase' = "data" /\ got' = 0 /\ emitted' = t
            /\ UNCHANGED <<centrals, offset, observed, place>>
  <2>1. ExportTypeOK'
    BY <1>1, <1>2, <1>10, <1>14 DEF ExportTypeOK
  <2>2. PlanInOrder'
    BY <1>1, <1>5, <1>14 DEF PlanInOrder
  <2>3. Bytes(t, DOMAIN t) = offset + X!LocalLen + X!NameLen + 0
    BY <1>3, <1>10, LengthsAre
  <2>4. SendsWhole'
    BY <1>1, <1>6, <1>10, <1>11, <1>12, <1>14, <2>3 DEF SendsWhole
  <2>5. ReadsWithin'
    BY <1>2, <1>10, <1>14 DEF ReadsWithin
  <2>6. QED
    BY <1>14, <2>1, <2>2, <2>4, <2>5 DEF ExportInv
<1>15. ASSUME NEW packed, packed = X!Min({Entries[e].packed, size}), Entries[e].packed \in Nat,
              observed + size <= MaxInput,
              observed' = observed + size, X!Central(e, size, packed),
              emitted' = emitted \o <<header, [part |-> "data", of |-> e, len |-> packed]>>,
              offset' = offset + X!LocalLen + X!NameLen + packed, place' = place + 1,
              phase' \in {"failed", phase}, UNCHANGED got
       PROVE  ExportInv'
  <2> DEFINE x == [part |-> "data", of |-> e, len |-> packed]
             u == Append(t, x)
             c == [of |-> e, size |-> size, packed |-> packed, at |-> offset]
  <2>1. packed \in Nat /\ packed <= size
    BY <1>7, <1>15, LesserOf
  <2>2. x \in Pieces /\ x.part = "data" /\ x.of = e /\ x.len = packed
    BY <1>7, <2>1 DEF Pieces
  <2>3. c \in Listed /\ c.of = e /\ c.packed = packed /\ c.at = offset
    BY <1>3, <1>7, <2>1 DEF Listed
  <2>4. centrals' = Append(centrals, c)
    BY <1>15 DEF X!Central
  <2>5. emitted' = u
    <3>1. header \in Pieces
      BY <1>8
    <3>2. emitted \o <<header, x>> = Append(Append(emitted, header), x)
      BY <1>3, <2>2, <3>1
    <3>3. QED
      BY <1>15, <3>2 DEF t
  <2> HIDE DEF x, c
  <2>6. /\ u \in Seq(Pieces) /\ Bytes(u, DOMAIN u) = offset + 31 + packed
        /\ HeaderAt(u, e, offset)
        /\ Bytes(u, DataIn(u)) = Bytes(emitted, DataIn(emitted)) + packed
        /\ Bytes(u, DataAt(u, e)) = 0 + packed
    BY <1>10, <2>2, PieceAdds
  <2>7. Behind(u, plan, centrals, place)
    BY <1>1, <1>3, <1>5, <1>6, <1>10, <1>11, <2>2, BehindStays
  <2>8. DataOfFirst(u, plan, place + 1)
    BY <1>3, <1>6, <1>10, <1>12, <2>2, FirstOnes
  <2> HIDE DEF u
  <2>9. Tells(c, plan[place + 1].entry, u)
    BY <1>6, <2>1, <2>3, <2>6 DEF Tells
  <2>10. centrals' \in Seq(Listed) /\ Behind(u, plan, centrals', place + 1)
    BY <1>1, <1>3, <2>3, <2>4, <2>6, <2>7, <2>9, BehindGrows
  <2>11. offset' = offset + 31 + packed /\ offset' \in Nat /\ observed' \in Nat /\ place + 1 \in Nat
    BY <1>3, <1>7, <1>15, <2>1, LengthsAre
  <2>12. ExportTypeOK'
    BY <1>1, <1>2, <1>15, <2>5, <2>6, <2>10, <2>11 DEF ExportTypeOK
  <2>13. PlanInOrder'
    BY <1>1, <1>5, <1>15 DEF PlanInOrder
  <2>14. SendsWhole'
    BY <1>1, <1>15, <2>5, <2>6, <2>8, <2>10, <2>11 DEF SendsWhole
  <2>15. ReadsWithin'
    <3>1. Bytes(emitted, DataIn(emitted)) <= observed
      BY <1>2 DEF ReadsWithin
    <3>2. Bytes(emitted, DataIn(emitted)) \in Nat
      BY <1>3, <1>8, PieceAdds
    <3>3. Bytes(u, DataIn(u)) <= observed + size
      BY <1>3, <1>7, <2>1, <2>6, <3>1, <3>2
    <3>4. QED
      BY <1>15, <2>5, <3>3 DEF ReadsWithin
  <2>16. QED
    BY <1>1, <1>15, <2>12, <2>13, <2>14, <2>15 DEF ExportInv
<1>16. QED
  <2>1. CASE hungUp \/ declared' > MaxInput
    BY <1>13, <2>1 DEF X!Starts
  <2>2. CASE ~(hungUp \/ declared' > MaxInput) /\ X!IsFile(e)
    BY <1>14, <2>2 DEF X!Starts, X!Emits, e, t, header
  <2>3. CASE ~(hungUp \/ declared' > MaxInput) /\ ~X!IsFile(e)
    <3> DEFINE packed == X!Min({Entries[e].packed, size})
    <3>1. Entries[e].packed \in Nat
      BY <1>7, <2>3 DEF ExportAssumption, X!IsFile
    <3>2. CASE observed + size > MaxInput
      BY <1>13, <2>3, <3>2 DEF X!Starts, e, size
    <3>3. CASE ~(observed + size > MaxInput)
      <4>1. /\ observed' = observed + size /\ X!Central(e, size, packed)
            /\ emitted' = emitted \o <<header, [part |-> "data", of |-> e, len |-> packed]>>
            /\ offset' = offset + X!LocalLen + X!NameLen + packed /\ place' = place + 1
            /\ phase' \in {"failed", phase} /\ UNCHANGED got
        BY <2>3, <3>3 DEF X!Starts, e, size, header
      <4>2. observed + size <= MaxInput
        BY <1>3, <1>7, <3>3 DEF ExportAssumption
      <4> HIDE DEF packed
      <4>3. QED
        BY <1>15, <3>1, <4>1, <4>2 DEF packed
    <3>4. QED
      BY <3>2, <3>3
  <2>4. QED
    BY <2>1, <2>2, <2>3

\* A byte of a file is one more that was read and sent.
LEMMA ChunksKeep == ExportAssumption /\ ExportInv /\ X!Chunk => ExportInv'
<1> SUFFICES ASSUME ExportAssumption, ExportInv, X!Chunk PROVE ExportInv'
  OBVIOUS
<1> DEFINE e == X!Current.entry
           x == [part |-> "data", of |-> e, len |-> 1]
           t == Append(emitted, x)
<1>1. phase = "data" /\ UNCHANGED <<content, plan>>
  BY DEF X!Chunk
<1>2. ExportTypeOK /\ PlanInOrder /\ SendsWhole /\ ReadsWithin
  BY <1>1 DEF ExportInv
<1>3. /\ plan \in Seq(Planned) /\ emitted \in Seq(Pieces) /\ centrals \in Seq(Listed)
      /\ place \in Nat /\ offset \in Nat /\ observed \in Nat /\ got \in Nat
  BY <1>2 DEF ExportTypeOK
<1>4. /\ Behind(emitted, plan, centrals, place) /\ DataOfFirst(emitted, plan, place + 1)
      /\ place < Len(plan)
      /\ Bytes(emitted, DOMAIN emitted) = offset + X!LocalLen + X!NameLen + got
      /\ HeaderAt(emitted, plan[place + 1].entry, offset)
      /\ Bytes(emitted, DataAt(emitted, plan[place + 1].entry)) = got
  BY <1>1, <1>2 DEF SendsWhole
<1>5. place + 1 \in DOMAIN plan /\ plan[place + 1].entry = e
  BY <1>3, <1>4 DEF X!Current
<1>6. e \in DOMAIN Entries
  <2>1. plan[place + 1] \in Planned
    BY <1>3, <1>5
  <2>2. QED
    BY <1>5, <2>1 DEF Planned
<1>7. \/ X!Fails
      \/ /\ observed + 1 <= MaxInput /\ got' = got + 1 /\ observed' = observed + 1 /\ emitted' = t
         /\ UNCHANGED <<phase, place, centrals, offset>>
  <2>1. observed + 1 > MaxInput \/ observed + 1 <= MaxInput
    BY <1>3 DEF ExportAssumption
  <2>2. QED
    BY <2>1 DEF X!Chunk, X!Emits
<1> HIDE DEF e
<1>8. x \in Pieces /\ x.part = "data" /\ x.of = e /\ x.len = 1
  BY <1>6 DEF Pieces
<1>9. CASE X!Fails
  BY <1>1, <1>9, FailingKeeps
<1>10. CASE /\ observed + 1 <= MaxInput /\ got' = got + 1 /\ observed' = observed + 1
            /\ emitted' = t /\ UNCHANGED <<phase, place, centrals, offset>>
  <2> HIDE DEF x
  <2>1. /\ t \in Seq(Pieces) /\ Bytes(t, DOMAIN t) = offset + X!LocalLen + X!NameLen + got + 1
        /\ HeaderAt(t, e, offset)
        /\ Bytes(t, DataIn(t)) = Bytes(emitted, DataIn(emitted)) + 1
        /\ Bytes(emitted, DataIn(emitted)) \in Nat
        /\ Bytes(t, DataAt(t, e)) = got + 1
    BY <1>3, <1>4, <1>5, <1>8, PieceAdds
  <2>2. Behind(t, plan, centrals, place)
    BY <1>2, <1>3, <1>4, <1>5, <1>8, BehindStays DEF PlanInOrder
  <2>3. DataOfFirst(t, plan, place + 1)
    BY <1>3, <1>4, <1>5, <1>8, FirstOnes
  <2> HIDE DEF t
  <2>4. ExportTypeOK'
    BY <1>1, <1>2, <1>3, <1>10, <2>1 DEF ExportTypeOK
  <2>5. PlanInOrder'
    BY <1>1, <1>2, <1>10 DEF PlanInOrder
  <2>6. Bytes(t, DOMAIN t) = offset + X!LocalLen + X!NameLen + (got + 1)
    BY <1>3, <2>1, LengthsAre
  <2>7. SendsWhole'
    BY <1>1, <1>4, <1>5, <1>10, <2>1, <2>2, <2>3, <2>6 DEF SendsWhole
  <2>8. ReadsWithin'
    BY <1>2, <1>3, <1>10, <2>1 DEF ReadsWithin
  <2>9. QED
    BY <1>1, <1>10, <2>4, <2>5, <2>7, <2>8 DEF ExportInv
<1>11. QED
  BY <1>7, <1>9, <1>10

\* The end of a file puts it with those that are behind, as long as it came to be.
LEMMA FileEndsKeep == ExportAssumption /\ ExportInv /\ X!Ends => ExportInv'
<1> SUFFICES ASSUME ExportAssumption, ExportInv, X!Ends PROVE ExportInv'
  OBVIOUS
<1> DEFINE e == X!Current.entry
           x == [part |-> "descriptor", of |-> e, len |-> X!DescriptorLen]
           t == Append(emitted, x)
           c == [of |-> e, size |-> got, packed |-> got, at |-> offset]
<1>1. /\ phase = "data" /\ emitted' = t /\ centrals' = Append(centrals, c)
      /\ offset' = offset + X!StreamedLen(got) /\ place' = place + 1
      /\ phase' \in {"failed", "entries"} /\ UNCHANGED <<content, plan, got, observed>>
  BY DEF X!Ends, X!Emits, X!Central
<1>2. ExportTypeOK /\ PlanInOrder /\ SendsWhole /\ ReadsWithin
  BY <1>1 DEF ExportInv
<1>3. /\ plan \in Seq(Planned) /\ emitted \in Seq(Pieces) /\ centrals \in Seq(Listed)
      /\ place \in Nat /\ offset \in Nat /\ observed \in Nat /\ got \in Nat
  BY <1>2 DEF ExportTypeOK
<1>4. /\ Behind(emitted, plan, centrals, place) /\ DataOfFirst(emitted, plan, place + 1)
      /\ place < Len(plan)
      /\ Bytes(emitted, DOMAIN emitted) = offset + X!LocalLen + X!NameLen + got
      /\ HeaderAt(emitted, plan[place + 1].entry, offset)
      /\ Bytes(emitted, DataAt(emitted, plan[place + 1].entry)) = got
  BY <1>1, <1>2 DEF SendsWhole
<1>5. place + 1 \in DOMAIN plan /\ plan[place + 1].entry = e
  BY <1>3, <1>4 DEF X!Current
<1>6. e \in DOMAIN Entries
  <2>1. plan[place + 1] \in Planned
    BY <1>3, <1>5
  <2>2. QED
    BY <1>5, <2>1 DEF Planned
<1> HIDE DEF e
<1>7. x \in Pieces /\ x.part = "descriptor" /\ x.of = e /\ x.len = 16
  BY <1>6, LengthsAre DEF Pieces
<1>8. c \in Listed /\ c.of = e /\ c.packed = got /\ c.at = offset
  BY <1>3, <1>6 DEF Listed
<1> HIDE DEF x, c
<1>9. /\ t \in Seq(Pieces) /\ Bytes(t, DOMAIN t) = Bytes(emitted, DOMAIN emitted) + 16
      /\ HeaderAt(t, e, offset)
      /\ Bytes(t, DataIn(t)) = Bytes(emitted, DataIn(emitted))
      /\ Bytes(t, DataAt(t, e)) = got
  BY <1>3, <1>4, <1>5, <1>7, PieceAdds
<1>10. Behind(t, plan, centrals, place)
  BY <1>2, <1>3, <1>4, <1>5, <1>7, BehindStays DEF PlanInOrder
<1>11. DataOfFirst(t, plan, place + 1)
  BY <1>3, <1>4, <1>7, FirstOnes
<1> HIDE DEF t
<1>12. Tells(c, plan[place + 1].entry, t)
  BY <1>5, <1>8, <1>9 DEF Tells
<1>13. centrals' \in Seq(Listed) /\ Behind(t, plan, centrals', place + 1)
  BY <1>1, <1>3, <1>4, <1>8, <1>9, <1>10, <1>12, BehindGrows
<1>14. Bytes(t, DOMAIN t) = offset' /\ offset' \in Nat /\ place' \in Nat
  <2>1. offset' = offset + (30 + 1 + got + 16)
    BY <1>1, LengthsAre
  <2>2. Bytes(t, DOMAIN t) = (offset + 30 + 1 + got) + 16
    BY <1>4, <1>9, LengthsAre
  <2>3. QED
    BY <1>1, <1>3, <2>1, <2>2
<1>15. ExportTypeOK'
  BY <1>1, <1>2, <1>9, <1>13, <1>14 DEF ExportTypeOK
<1>16. PlanInOrder'
  BY <1>1, <1>2 DEF PlanInOrder
<1>17. SendsWhole'
  BY <1>1, <1>11, <1>13, <1>14 DEF SendsWhole
<1>18. ReadsWithin'
  BY <1>1, <1>2, <1>9 DEF ReadsWithin
<1>19. QED
  BY <1>1, <1>15, <1>16, <1>17, <1>18 DEF ExportInv

\* The directory follows what was emitted, and its last record says where it is.
LEMMA ClosingKeeps == ExportAssumption /\ ExportInv /\ X!Trailer => ExportInv'
<1> SUFFICES ASSUME ExportAssumption, ExportInv, X!Trailer PROVE ExportInv'
  OBVIOUS
<1> DEFINE dirs == [n \in DOMAIN centrals |->
                     [part |-> "central", of |-> centrals[n].of, len |-> X!CentralLen + X!NameLen]]
           end == [part |-> "end", count |-> place,
                   len |-> (X!CentralLen + X!NameLen) * Len(centrals), at |-> offset]
           t == (emitted \o dirs) \o <<end>>
           L == Len(emitted)
           c == Len(centrals)
<1>1. /\ phase = "entries" /\ place = Len(plan) /\ phase' = "closed" /\ emitted' = t
      /\ UNCHANGED <<content, plan, place, got, centrals, offset, observed>>
  BY DEF X!Trailer
<1>2. ExportTypeOK /\ SendsWhole /\ ReadsWithin
  BY <1>1 DEF ExportInv
<1>3. /\ plan \in Seq(Planned) /\ emitted \in Seq(Pieces) /\ centrals \in Seq(Listed)
      /\ place \in Nat /\ offset \in Nat /\ observed \in Nat
  BY <1>2 DEF ExportTypeOK
<1>4. /\ Behind(emitted, plan, centrals, place) /\ Bytes(emitted, DOMAIN emitted) = offset
  BY <1>1, <1>2 DEF SendsWhole
<1>5. L \in Nat /\ c \in Nat /\ DOMAIN emitted = 1 .. L /\ DOMAIN centrals = 1 .. c /\ c = place
  BY <1>3, <1>4 DEF Behind
<1>6. /\ dirs \in Seq({dirs[n] : n \in 1 .. c}) /\ Len(dirs) = c
  <2>1. dirs \in [1 .. c -> {dirs[n] : n \in 1 .. c}]
    BY <1>5
  <2> HIDE DEF dirs
  <2>2. QED
    BY <1>5, <2>1
<1>7. \A n \in 1 .. c : dirs[n].part = "central" /\ dirs[n].len = 47
  BY <1>5, LengthsAre
<1>8. end.part = "end" /\ end.count = c /\ end.at = offset /\ end.len = 47 * c
  BY <1>5, LengthsAre
<1> HIDE DEF dirs, end
<1>9. /\ t \in Seq(Pieces \cup {dirs[n] : n \in 1 .. c} \cup {end})
      /\ Len(t) = L + c + 1 /\ DOMAIN t = 1 .. L + c + 1 /\ t[L + c + 1] = end
      /\ \A k \in 1 .. L : t[k] = emitted[k]
      /\ \A k \in L + 1 .. L + c : t[k] = dirs[k - L]
  <2> DEFINE u == emitted \o dirs
             Emittable == Pieces \cup {dirs[n] : n \in 1 .. c} \cup {end}
  <2>1. emitted \in Seq(Emittable) /\ dirs \in Seq(Emittable) /\ end \in Emittable
    BY <1>3, <1>6
  <2>2. /\ u \in Seq(Emittable) /\ Len(u) = L + c
        /\ \A k \in 1 .. L : u[k] = emitted[k]
        /\ \A k \in L + 1 .. L + c : u[k] = dirs[k - L]
    BY <1>5, <1>6, <2>1
  <2>3. t = u \o <<end>>
    OBVIOUS
  <2> HIDE DEF u, t, Emittable
  <2>4. /\ t \in Seq(Emittable) /\ Len(t) = L + c + 1 /\ t[L + c + 1] = end
        /\ \A k \in 1 .. L + c : t[k] = u[k]
    BY <1>5, <2>1, <2>2, <2>3
  <2>5. (\A k \in 1 .. L : k \in 1 .. L + c) /\ \A k \in L + 1 .. L + c : k \in 1 .. L + c
    BY <1>5
  <2>6. DOMAIN t = 1 .. L + c + 1
    BY <2>4
  <2>7. QED
    BY <2>2, <2>4, <2>5, <2>6 DEF Emittable
<1> HIDE DEF t
<1>10. DOMAIN emitted \subseteq DOMAIN t /\ \A k \in DOMAIN emitted : t[k] = emitted[k]
  BY <1>5, <1>9
<1>11. \A A \in SUBSET DOMAIN emitted :
         IsFiniteSet(A) /\ Bytes(emitted, A) \in Nat /\ Bytes(t, A) = Bytes(emitted, A)
  BY <1>3, <1>10, BytesKept
<1>12. DataIn(t) = DataIn(emitted) /\ \A e : DataAt(t, e) = DataAt(emitted, e)
  <2>1. \A k \in DOMAIN t : k \in 1 .. L \/ k \in L + 1 .. L + c \/ k = L + c + 1
    BY <1>5, <1>9
  <2>2. \A k \in L + 1 .. L + c : k - L \in 1 .. c
    BY <1>5
  <2>3. \A k \in DOMAIN t : t[k].part = "data" => k \in DOMAIN emitted
    BY <1>5, <1>7, <1>8, <1>9, <2>1, <2>2
  <2>4. DataIn(t) = DataIn(emitted)
    BY <1>10, <2>3 DEF DataIn
  <2>5. \A e : DataAt(t, e) = DataAt(emitted, e)
    BY <1>10, <2>4 DEF DataAt, DataIn
  <2>6. QED
    BY <2>4, <2>5
<1>13. /\ Bytes(t, DataIn(t)) = Bytes(emitted, DataIn(emitted))
       /\ \A e : Bytes(t, DataAt(t, e)) = Bytes(emitted, DataAt(emitted, e))
  <2>1. /\ DataIn(emitted) \in SUBSET DOMAIN emitted
        /\ \A e : DataAt(emitted, e) \in SUBSET DOMAIN emitted
    BY DEF DataIn, DataAt
  <2>2. QED
    BY <1>11, <1>12, <2>1
<1>14. \A e, bytes : HeaderAt(emitted, e, bytes) => HeaderAt(t, e, bytes)
  BY <1>3, <1>10, HeaderStays
<1>15. \A n \in DOMAIN centrals : Tells(centrals[n], plan[n].entry, t)
  BY <1>4, <1>13, <1>14 DEF Behind, Tells
<1>16. Bytes(t, 1 .. L) = offset
  BY <1>4, <1>5, <1>11
<1>17. Bytes(t, 1 .. L + c) = offset + 47 * c
  <2> DEFINE h == [n \in DOMAIN t |-> t[n].len]
             A == 1 .. L
             S0 == L + 1 .. L + c
  <2>1. IsFiniteSet(A) /\ IsFiniteSet(S0) /\ Cardinality(S0) = c
    <3>1. L + 1 \in Int /\ L + c \in Int
      BY <1>5
    <3>2. IsFiniteSet(S0) /\ Cardinality(S0) = IF L + 1 > L + c THEN 0 ELSE (L + c) - (L + 1) + 1
      BY <3>1, FS_Interval
    <3>3. IsFiniteSet(A)
      BY <1>5, FS_Interval
    <3>4. QED
      BY <1>5, <3>2, <3>3
  <2>2. A \cap S0 = {} /\ 1 .. L + c = A \cup S0
    BY <1>5
  <2>3. \A k \in A : h[k] \in Nat
    <3>1. \A k \in A : k \in DOMAIN t /\ emitted[k] \in Pieces
      BY <1>3, <1>5, <1>10
    <3>2. QED
      BY <1>9, <3>1 DEF Pieces
  <2>4. \A k \in S0 : h[k] = 47
    <3>1. \A k \in S0 : k \in DOMAIN t /\ k - L \in 1 .. c
      BY <1>5, <1>9
    <3>2. QED
      BY <1>7, <1>9, <3>1
  <2>5. /\ Bytes(t, 1 .. L) = SumFunctionOnSet(h, A)
        /\ Bytes(t, 1 .. L + c) = SumFunctionOnSet(h, 1 .. L + c)
    BY DEF Bytes
  <2> HIDE DEF h, A, S0
  <2>6. SumFunctionOnSet(h, A \cup S0) = SumFunctionOnSet(h, A) + 47 * Cardinality(S0)
    BY <2>1, <2>2, <2>3, <2>4, SumOfMore
  <2>7. QED
    BY <1>16, <2>1, <2>2, <2>5, <2>6
<1>18. X!Last(t) = end /\ Len(t) - c = L + 1
  BY <1>5, <1>9 DEF X!Last
<1> HIDE DEF L, c
<1>19. WholeArchive(t, centrals, plan)
  <2>1. [n \in DOMAIN centrals |-> centrals[n].of] = [n \in DOMAIN plan |-> plan[n].entry]
    <3>1. DOMAIN plan = 1 .. place /\ DOMAIN centrals = 1 .. place
      BY <1>1, <1>3, <1>5
    <3>2. \A n \in DOMAIN centrals : centrals[n].of = plan[n].entry
      BY <1>15 DEF Tells
    <3>3. QED
      BY <3>1, <3>2
  <2>2. \A n \in DOMAIN centrals : Tells(centrals[n], centrals[n].of, t)
    BY <1>15 DEF Tells
  <2>3. (Len(t) - c) - 1 = L /\ Len(t) - 1 = L + c
    BY <1>5, <1>9
  <2>4. /\ end.count = c /\ end.at = Bytes(t, 1 .. (Len(t) - c) - 1)
        /\ end.at + end.len = Bytes(t, 1 .. Len(t) - 1)
    BY <1>8, <1>16, <1>17, <2>3
  <2>5. QED
    BY <1>18, <2>1, <2>2, <2>4 DEF WholeArchive, c
<1>20. ClosedOne'
  <2>1. Bytes(emitted, DataIn(emitted)) <= observed /\ observed <= MaxInput
    BY <1>2 DEF ReadsWithin
  <2>2. Bytes(emitted, DataIn(emitted)) \in Nat
    <3>1. DataIn(emitted) \in SUBSET DOMAIN emitted
      BY DEF DataIn
    <3>2. QED
      BY <1>11, <3>1
  <2>3. Bytes(emitted, DataIn(emitted)) <= MaxInput
    BY <1>3, <2>1, <2>2 DEF ExportAssumption
  <2>4. QED
    BY <1>1, <1>13, <1>19, <2>1, <2>3 DEF ClosedOne
<1>21. QED
  BY <1>1, <1>20, ClosedPromise DEF ExportInv

\* A browser that goes, and the files as they change, leave what was sent.
LEMMA QuietKeeps ==
  ASSUME ExportInv, phase # "closed", content' \in [DOMAIN Entries -> Sizes \cup {None}],
         UNCHANGED <<plan, phase, place, got, emitted, centrals, offset, observed>>
  PROVE  ExportInv'
<1>1. ExportTypeOK /\ PlanInOrder /\ SendsWhole /\ ReadsWithin
  BY DEF ExportInv
<1>2. ExportTypeOK'
  BY <1>1 DEF ExportTypeOK
<1>3. PlanInOrder'
  BY <1>1 DEF PlanInOrder
<1>4. SendsWhole'
  BY <1>1 DEF SendsWhole
<1>5. ReadsWithin'
  BY <1>1 DEF ReadsWithin
<1>6. QED
  BY <1>2, <1>3, <1>4, <1>5 DEF ExportInv

\* A download that is closed stays as it is.
LEMMA ClosedKeeps ==
  ASSUME ExportInv, phase = "closed",
         UNCHANGED <<plan, phase, emitted, centrals, observed>>
  PROVE  ExportInv'
<1>1. X!ExportIsWhole
  BY DEF ExportInv
<1>2. X!Lens(emitted)' = X!Lens(emitted)
  BY DEF X!Lens
<1>3. X!Data' = X!Data
  BY DEF X!Data
<1>4. X!ExportIsWhole'
  BY <1>1, <1>2, <1>3 DEF X!ExportIsWhole, X!ClosedIsWhole, X!LimitsAreKept, X!Before, X!DataOf
<1>5. QED
  BY <1>4 DEF ExportInv

\* The steps of a download keep its invariant.
LEMMA ExportStep == ExportAssumption /\ ExportInv /\ X!Next => ExportInv'
<1> SUFFICES ASSUME ExportAssumption, ExportInv, X!Next PROVE ExportInv'
  OBVIOUS
<1>1. CASE X!Plans
  BY <1>1, PlanningKeeps
<1>2. CASE X!Starts
  BY <1>2, StartingKeeps
<1>3. CASE X!Chunk
  BY <1>3, ChunksKeep
<1>4. CASE X!Ends
  BY <1>4, FileEndsKeep
<1>5. CASE X!Trailer
  BY <1>5, ClosingKeeps
<1>6. CASE X!Aborts
  <2>1. phase # "closed" /\ content' = content
        /\ UNCHANGED <<plan, phase, place, got, emitted, centrals, offset, observed>>
    BY <1>6 DEF X!Aborts
  <2>2. content' \in [DOMAIN Entries -> Sizes \cup {None}]
    BY <2>1 DEF ExportInv, ExportTypeOK
  <2>3. QED
    BY <2>1, <2>2, QuietKeeps
<1>7. CASE X!Pulled
  <2>1. phase # "closed" /\ X!Fails /\ UNCHANGED <<content, plan>>
    BY <1>7 DEF X!Pulled
  <2>2. QED
    BY <2>1, FailingKeeps
<1>8. CASE X!Changes
  <2>1. UNCHANGED <<plan, phase, place, got, emitted, centrals, offset, observed>>
    BY <1>8 DEF X!Changes
  <2>2. CASE phase = "closed"
    BY <2>1, <2>2, ClosedKeeps
  <2>3. CASE phase # "closed"
    <3>1. content \in [DOMAIN Entries -> Sizes \cup {None}]
      BY <2>3 DEF ExportInv, ExportTypeOK
    <3>2. PICK e \in DOMAIN Entries, size \in Sizes \cup {None} :
            content' = [content EXCEPT ![e] = size]
      BY <1>8 DEF X!Changes
    <3>3. content' \in [DOMAIN Entries -> Sizes \cup {None}]
      BY <3>1, <3>2
    <3>4. QED
      BY <2>1, <2>3, <3>3, QuietKeeps
  <2>4. QED
    BY <2>2, <2>3
<1>9. QED
  BY <1>1, <1>2, <1>3, <1>4, <1>5, <1>6, <1>7, <1>8 DEF X!Next

\* It holds before anything is sent.
LEMMA ExportStarts == ExportAssumption /\ X!Init => ExportInv
<1> SUFFICES ASSUME ExportAssumption, X!Init PROVE ExportInv
  OBVIOUS
<1>1. /\ content \in [DOMAIN Entries -> Sizes \cup {None}]
      /\ plan = <<>> /\ phase = "planning" /\ place = 0 /\ got = 0
      /\ emitted = <<>> /\ centrals = <<>> /\ offset = 0 /\ observed = 0
  BY DEF X!Init
<1>2. ExportTypeOK
  BY <1>1 DEF ExportTypeOK
<1>3. DOMAIN plan = {} /\ DOMAIN emitted = {} /\ DataIn(emitted) = {}
  BY <1>1 DEF DataIn
<1>4. PlanInOrder
  BY <1>1, <1>3 DEF PlanInOrder, InOrder
<1>5. SendsWhole
  BY <1>1 DEF SendsWhole
<1>6. ReadsWithin
  <2>1. Bytes(emitted, DataIn(emitted)) = 0
    BY <1>3, SumOfNothing DEF Bytes
  <2>2. QED
    BY <1>1, <2>1 DEF ReadsWithin, ExportAssumption
<1>7. QED
  BY <1>1, <1>2, <1>4, <1>5, <1>6 DEF ExportInv

\* What is promised of a download follows.
LEMMA ExportHolds == ExportAssumption /\ ExportInv => X!ExportIsWhole
<1> SUFFICES ASSUME ExportAssumption, ExportInv, phase # "closed" PROVE X!ExportIsWhole
  BY DEF ExportInv
<1>1. ExportTypeOK /\ ReadsWithin
  BY DEF ExportInv
<1>2. X!ClosedIsWhole
  BY DEF X!ClosedIsWhole
<1>3. X!LimitsAreKept
  <2>1. emitted \in Seq(Pieces) /\ observed \in Nat
    BY <1>1 DEF ExportTypeOK
  <2>2. Bytes(emitted, DataIn(emitted)) \in Nat
    <3>1. DataIn(emitted) \in SUBSET DOMAIN emitted
      BY DEF DataIn
    <3>2. QED
      BY <2>1, <3>1, BytesKept
  <2>3. Bytes(emitted, DataIn(emitted)) <= MaxInput
    BY <1>1, <2>1, <2>2 DEF ReadsWithin, ExportAssumption
  <2>4. \A n \in DOMAIN emitted : emitted[n].part # "end"
    <3>1. \A n \in DOMAIN emitted : emitted[n] \in Pieces
      BY <2>1
    <3>2. QED
      BY <3>1 DEF Pieces
  <2>5. X!SumFunctionOnSet(X!Lens(emitted), X!Data) <= MaxInput
    BY <2>3, ExportOperators
  <2>6. QED
    BY <1>1, <2>4, <2>5 DEF X!LimitsAreKept, ReadsWithin
<1>4. QED
  BY <1>2, <1>3 DEF X!ExportIsWhole

(*****************************************************************************)
(* StoreIsTrue                                                               *)
(*****************************************************************************)
\* A step of no part leaves the store's invariant.
LEMMA StoreStutters == StoreInv /\ UNCHANGED ofRunStore => StoreInv'
<1> SUFFICES ASSUME StoreInv, UNCHANGED ofRunStore PROVE StoreInv'
  OBVIOUS
<1>1. UNCHANGED <<manifest, dir, kept, owned, clock, cache, daemon, scan, shown, usage, unsettled,
        blurred, untold, acts>>
  BY DEF ofRunStore
<1>2. StoreTypeOK' /\ FilesOfRuns' /\ CallFits' /\ ManifestsAreOld' /\ SettledLate'
  BY <1>1 DEF StoreInv, StoreTypeOK, FilesOfRuns, CallFits, ManifestsAreOld, SettledLate
<1>3. CacheOK'
  BY <1>1 DEF StoreInv, CacheOK, Remembers, WritesBack, StaysLive, D!Same, D!Row
<1>4. ListingOK'
  BY <1>1, ListingKept DEF StoreInv
<1>5. WriteOK'
  BY <1>1 DEF StoreInv, WriteOK, StaysLive
<1>6. UsageOK'
  BY <1>1, UsageKept DEF StoreInv
<1>7. D!RowsAreCurrent'
  BY <1>1, RowsKept DEF StoreInv
<1>8. D!SweepSpares'
  BY <1>1 DEF StoreInv, D!SweepSpares
<1>9. QED
  BY <1>2, <1>3, <1>4, <1>5, <1>6, <1>7, <1>8 DEF StoreInv

\* Nor does it touch the download.
LEMMA ExportStutters == ExportInv /\ UNCHANGED ofExport => ExportInv'
<1> SUFFICES ASSUME ExportInv, UNCHANGED ofExport PROVE ExportInv'
  OBVIOUS
<1>1. UNCHANGED <<content, plan, phase, place, got, emitted, centrals, offset, observed>>
  BY DEF ofExport
<1>2. CASE phase = "closed"
  BY <1>1, <1>2, ClosedKeeps
<1>3. CASE phase # "closed"
  <2>1. content' \in [DOMAIN Entries -> Sizes \cup {None}]
    BY <1>1, <1>3 DEF ExportInv, ExportTypeOK
  <2>2. QED
    BY <1>1, <1>3, <2>1, QuietKeeps
<1>4. QED
  BY <1>2, <1>3

\* StoreIsTrue: what the list, the sweep and the usage say of the stored runs is true of the runs
\* that were there meanwhile, whatever is written, deleted or remembered in between, by this
\* process and others; and a download that is closed is a whole archive of what was planned,
\* within its limit, however the files change while it is sent.
THEOREM StoreStaysTrue == Spec => []StoreIsTrue
<1> DEFINE Inv == /\ part = "RunStore" => StoreInv
                  /\ part = "Export" => ExportInv
<1>1. Init => Inv
  BY StoreStarts, ExportStarts, StoreAssumption, ExportAssumption DEF Init
<1>2. Inv /\ [Next]_vars => Inv'
  <2> SUFFICES ASSUME Inv, [Next]_vars PROVE Inv'
    OBVIOUS
  <2>1. ASSUME part' = "RunStore" PROVE StoreInv'
    <3>1. CASE part = "RunStore" /\ D!Next
      BY <3>1, StoreStep, StoreAssumption
    <3>2. CASE UNCHANGED vars
      BY <2>1, <3>2, StoreStutters DEF vars
    <3>3. QED
      BY <2>1, <3>1, <3>2 DEF Next, StaysBut
  <2>2. ASSUME part' = "Export" PROVE ExportInv'
    <3>1. CASE part = "Export" /\ X!Next
      BY <3>1, ExportStep, ExportAssumption
    <3>2. CASE UNCHANGED vars
      BY <2>2, <3>2, ExportStutters DEF vars
    <3>3. QED
      BY <2>2, <3>1, <3>2 DEF Next, StaysBut
  <2>3. QED
    BY <2>1, <2>2
<1>3. Inv => StoreIsTrue
  BY StoreHolds, ExportHolds, ExportAssumption DEF StoreIsTrue
<1> HIDE DEF Inv
<1>4. QED
  BY <1>1, <1>2, <1>3, PTL DEF Spec

=============================================================================
