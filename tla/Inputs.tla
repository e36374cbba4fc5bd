------------------------------- MODULE Inputs -------------------------------
(***************************************************************************)
(* The screenshots a run redesigns: the files of input/ and the ids they   *)
(* are listed under (inputResolver.ts), the control page's copy of that    *)
(* list with its ticks (stores/control), whose requests are under way      *)
(* together and answered in any order, and the request that makes a run of *)
(* what is ticked.                                                         *)
(*                                                                         *)
(* A file is its place in the listing and holds an image, or 0.  A folder, *)
(* which is one input of several images, and the screenshots marked as     *)
(* this session's, which only arrange the list, are left out.              *)
(***************************************************************************)
EXTENDS Naturals, Sequences, FiniteSets

CONSTANTS
    Files,       \* 1 .. n, in the order of the listing
    Name,        \* each file's name
    Slug,        \* slugify of each file's name without its extension
    Everything,  \* "all"
    AtFirst,     \* the sets of files that may be there at first
    Numbered,    \* Numbered[s, n]: the id of the n-th file of slug s
    Spelling,    \* Spelling[f]: the paths an upload named as f may be given, in turn
    Picks,       \* the batches the user may upload, by the names of their pictures
    MaxAsks,     \* bound: uploads, deletions, loads of the page and runs
    MaxFaults    \* bound: changes by others, and answers that are lost

VARIABLES
    disk,        \* input/
    images, version,     \* how many images there were, and how many changes of disk
    shown, seen, \* inputs.value as the disk it was read from, and its version
    loaded,      \* bootstrapped
    ticks,       \* selInputs
    uploads,     \* inputUploadTail: the batches, the one under way first
    calls,       \* the other requests under way
    took,        \* the last run: the images the page showed ticked, and what it got
    asks, faults,
    overtaken    \* why the page may differ from the disk

page == <<shown, seen, loaded, ticks, uploads>>
vars == <<disk, images, version, page, calls, took, asks, faults, overtaken>>

Empty == [f \in Files |-> 0]
Present(D) == {f \in Files : D[f] # 0}

\* listInputs: the n-th file of a slug is numbered, whether or not the number is some
\* other file's name.
Id(D, f) ==
    LET n == Cardinality({g \in Present(D) : g <= f /\ Slug[g] = Slug[f]})
    IN  IF n = 1 THEN Slug[f] ELSE Numbered[Slug[f], n]
Ids(D) == {Id(D, f) : f \in Present(D)}
Listed(D, S) == {f \in Present(D) : Id(D, f) \in S}
Named(D, id) == Listed(D, {id})

\* resolveSelection: what has a selected id, and what has one for its name; "all" by itself
\* is everything, a file's id though it may be.
NamedIn(D, S) == IF S = {Everything} THEN Present(D) ELSE {f \in Present(D) : Name[f] \in S}
Selected(D, S) == Listed(D, S) \cup NamedIn(D, S)
ImagesOf(D, F) == {D[f] : f \in F}

Init ==
    /\ disk \in {[f \in Files |-> IF f \in S THEN f ELSE 0] : S \in AtFirst}
    /\ images = Cardinality(Files) /\ version = 0
    /\ shown = Empty /\ seen = 0 /\ loaded = FALSE /\ ticks = {} /\ uploads = << >>
    /\ calls = {} /\ took = [meant |-> {}, got |-> {}, namesakes |-> {}, stirred |-> FALSE]
    /\ asks = 0 /\ faults = 0 /\ overtaken = {}

Asks == asks < MaxAsks /\ asks' = asks + 1
Faults == faults < MaxFaults /\ faults' = faults + 1

-----------------------------------------------------------------------------
(* The page's list, and what is ticked in it.                              *)

\* toggleInput, selectAll, selectNone
Ticks ==
    \E S \in SUBSET Ids(shown) :
        /\ Cardinality((S \ ticks) \cup (ticks \ S)) = 1 \/ S \in {{}, Ids(shown)}
        /\ ticks' = S
        /\ UNCHANGED <<disk, images, version, shown, seen, loaded, uploads,
                       calls, took, asks, faults, overtaken>>

\* Two lists that come the other way round than they were read: the page ends with the older.
Shows(a) ==
    /\ shown' = a.list /\ seen' = a.version
    /\ overtaken' = overtaken \cup
           IF \/ a.version < seen
              \/ \E i \in DOMAIN uploads : uploads[i].stage = "answered"
                                             /\ uploads[i].answer.version < a.version
           THEN {"older"} ELSE {}

Snapshot == [list |-> disk, version |-> version]
SendsCall(c) == calls' = calls \cup {c}

\* bootstrap, of which a newer one voids the older ones.
Boots ==
    /\ ~loaded /\ Asks
    /\ calls' = {IF c.kind = "boot" THEN [c EXCEPT !.late = TRUE] ELSE c : c \in calls}
                   \cup {[kind |-> "boot", late |-> FALSE, at |-> asks, stage |-> "sent"]}
    /\ UNCHANGED <<disk, images, version, page, took, faults, overtaken>>

BootAnswered == \E c \in calls :
    /\ c.kind = "boot" /\ c.stage = "sent"
    /\ calls' = (calls \ {c}) \cup {[kind |-> "boot", late |-> c.late, at |-> c.at,
                                     stage |-> "answered", answer |-> Snapshot]}
    /\ UNCHANGED <<disk, images, version, page, took, asks, faults, overtaken>>

\* Inputs are never preselected.
TakesBoot == \E c \in calls :
    /\ c.kind = "boot" /\ c.stage = "answered"
    /\ calls' = calls \ {c}
    /\ IF c.late THEN UNCHANGED <<shown, seen, ticks, loaded, overtaken>>
       ELSE Shows(c.answer) /\ ticks' = {} /\ loaded' = TRUE
    /\ UNCHANGED <<disk, images, version, uploads, took, asks, faults>>

\* The page is left with what it was about to send, and answers come to nobody; a request
\* that is carried out nevertheless is a change from elsewhere.
Reloads ==
    /\ Asks
    /\ shown' = Empty /\ seen' = 0 /\ loaded' = FALSE /\ ticks' = {} /\ uploads' = << >>
    /\ calls' = {}
    /\ overtaken' = {}
    /\ UNCHANGED <<disk, images, version, took, faults>>

-----------------------------------------------------------------------------
(* Uploads, one batch after the other.                                     *)

\* uploadFiles: pictures named as the files of batch; the last may not be what it says.
Uploads == \E batch \in Picks, sound \in BOOLEAN :
    /\ Asks /\ images' = images + Len(batch)
    /\ IF sound THEN UNCHANGED faults ELSE Len(batch) = 2 /\ Faults
    /\ uploads' = Append(uploads, [names |-> batch, first |-> images + 1, sound |-> sound,
                                   stage |-> "sent"])
    /\ UNCHANGED <<disk, version, shown, seen, loaded, ticks, calls,
                   took, overtaken>>

\* uniqueInputPath
FreePath(D, f) ==
    LET free == {i \in DOMAIN Spelling[f] : D[Spelling[f][i]] = 0}
    IN  Spelling[f][CHOOSE i \in free : \A j \in free : i <= j]
HasRoom(D, f) == \E i \in DOMAIN Spelling[f] : D[Spelling[f][i]] = 0

\* Slip: the batches do not wait for each other.
AnyBatch == DOMAIN uploads

\* enqueueUpload: the batch under way, which the others wait for.
Batches == IF uploads = << >> THEN {} ELSE {1}

Put(D, b, i) == [D EXCEPT ![FreePath(D, b.names[i])] = b.first + i - 1]

\* saveUploadedImages: the images are written one by one, and a bad one throws; those
\* before it stay.
Saved(D, b) ==
    LET one == IF b.sound \/ Len(b.names) = 2 THEN Put(D, b, 1) ELSE D
    IN  IF Len(b.names) = 2 /\ b.sound THEN Put(one, b, 2) ELSE one
HasRoomFor(b) ==
    /\ HasRoom(disk, b.names[1])
    /\ Len(b.names) = 2 => HasRoom(Put(disk, b, 1), b.names[2])

UploadArrives == \E i \in Batches :
    LET b == uploads[i] IN
    /\ b.stage = "sent" /\ HasRoomFor(b)
    /\ disk' = Saved(disk, b) /\ version' = version + 1
    /\ uploads' = [uploads EXCEPT ![i] = [names |-> b.names, first |-> b.first,
           sound |-> b.sound, stage |-> "answered",
           answer |-> [list |-> disk', version |-> version']]]
    /\ UNCHANGED <<images, shown, seen, loaded, ticks, calls, took, asks,
                   faults, overtaken>>

Without(s, i) == SubSeq(s, 1, i - 1) \o SubSeq(s, i + 1, Len(s))

\* What the upload has added is ticked, and nothing else.
TakesUpload == \E i \in DOMAIN uploads :
    LET b == uploads[i]
        a == b.answer
        added == {Id(a.list, f) : f \in {g \in Present(a.list) :
                                           a.list[g] \in b.first .. b.first + Len(b.names) - 1}}
    IN
    /\ b.stage = "answered" /\ uploads' = Without(uploads, i)
    /\ IF b.sound
       THEN /\ shown' = a.list /\ seen' = a.version
            /\ ticks' = IF added # {} THEN added ELSE ticks \cap Ids(a.list)
            /\ UNCHANGED overtaken
       ELSE /\ overtaken' = overtaken \cup {"halved"}
            /\ UNCHANGED <<shown, seen, ticks>>
    /\ UNCHANGED <<disk, images, version, loaded, calls, took, asks, faults>>

-----------------------------------------------------------------------------
(* Deletions, and the runs.                                                *)

Deletes == \E id \in Ids(shown) :
    /\ Asks
    /\ SendsCall([kind |-> "delete", id |-> id, at |-> asks, stage |-> "sent"])
    /\ UNCHANGED <<disk, images, version, page, took, faults, overtaken>>

\* deleteInput: the first item of the listing that has the id; without one, nothing.
DeleteArrives == \E c \in calls :
    /\ c.kind = "delete" /\ c.stage = "sent"
    /\ IF Named(disk, c.id) = {}
       THEN /\ calls' = calls \ {c} /\ UNCHANGED <<disk, version>>
       ELSE /\ disk' = [disk EXCEPT ![CHOOSE f \in Named(disk, c.id) :
                                         \A g \in Named(disk, c.id) : f <= g] = 0]
            /\ version' = version + 1
            /\ calls' = (calls \ {c}) \cup {[kind |-> "delete", at |-> c.at,
                   stage |-> "answered", answer |-> [list |-> disk', version |-> version']]}
    /\ UNCHANGED <<images, page, took, asks, faults, overtaken>>

TakesDelete == \E c \in calls :
    /\ c.kind = "delete" /\ c.stage = "answered"
    /\ calls' = calls \ {c}
    /\ Shows(c.answer) /\ ticks' = ticks \cap Ids(c.answer.list)
    /\ UNCHANGED <<disk, images, version, loaded, uploads, took, asks, faults>>

\* addToQueue, one at a time; buildRunRequest copies the ticks, and asks for one subject of
\* several screenshots when the user has said so (ticks does not count an id twice, as the
\* page does after selectAll: two files of one id may be combined here however they were
\* ticked).  The preflight, which is what arrives, takes the images aside, and the start that
\* follows is of those.
Submits == \E combined \in BOOLEAN :
    /\ ticks # {} /\ Asks
    /\ \A c \in calls : c.kind # "run"
    /\ combined => Cardinality(Listed(shown, ticks)) > 1
    /\ SendsCall([kind |-> "run", ids |-> ticks, page |-> shown, combined |-> combined, at |-> asks])
    /\ UNCHANGED <<disk, images, version, page, took, faults, overtaken>>

\* validateSelections, assertResolvedSelection: a selection with an id that is no file's, and
\* no file's name, is refused; so is one of nothing.
Resolves(ids) ==
    /\ Selected(disk, ids) # {}
    /\ ids = {Everything} \/ ids \subseteq Ids(disk) \cup {Name[f] : f \in Present(disk)}

\* buildJobs throws on two jobs of one id.
JobsAreDistinct(ids) ==
    \A f, g \in Selected(disk, ids) : Id(disk, f) = Id(disk, g) => f = g

\* combineInputs: two or more become one subject, of all their images.
BecomeOne(c) == c.combined /\ Cardinality(Selected(disk, c.ids)) > 1

\* History: a file whose slug is that of a ticked one has come or gone since page was shown.
Stirred(list, ids) ==
    \E f \in Files, g \in Listed(list, ids) \cup Listed(disk, ids) :
        Slug[f] = Slug[g] /\ list[f] # disk[f]

RunArrives == \E c \in calls :
    /\ c.kind = "run" /\ calls' = calls \ {c}
    /\ IF Resolves(c.ids) /\ (BecomeOne(c) \/ JobsAreDistinct(c.ids))
       THEN took' = [meant |-> ImagesOf(c.page, Listed(c.page, c.ids)),
                     got |-> ImagesOf(disk, Selected(disk, c.ids)),
                     namesakes |-> ImagesOf(disk, NamedIn(disk, c.ids)),
                     stirred |-> Stirred(c.page, c.ids)]
       ELSE UNCHANGED took
    /\ UNCHANGED <<disk, images, version, page, asks, faults, overtaken>>

-----------------------------------------------------------------------------
(* What else happens.                                                      *)

\* Another tab, or the user by hand, puts a picture there or takes one away.
ChangedElsewhere == \E f \in Files :
    /\ Faults
    /\ IF disk[f] # 0 THEN disk' = [disk EXCEPT ![f] = 0] /\ UNCHANGED images
       ELSE images' = images + 1 /\ disk' = [disk EXCEPT ![f] = images']
    /\ version' = version + 1 /\ overtaken' = overtaken \cup {"elsewhere"}
    /\ UNCHANGED <<page, calls, took, asks>>

\* An answer is lost; the page says that the request failed.
LosesUpload == \E i \in Batches :
    /\ Faults /\ uploads' = Without(uploads, i)
    /\ overtaken' = overtaken \cup IF uploads[i].stage = "answered" THEN {"lost"} ELSE {}
    /\ UNCHANGED <<disk, images, version, shown, seen, loaded, ticks,
                   calls, took, asks>>

LosesCall == \E c \in calls :
    /\ Faults /\ calls' = calls \ {c}
    /\ overtaken' = overtaken \cup
           IF c.kind = "delete" /\ c.stage = "answered" THEN {"lost"} ELSE {}
    /\ UNCHANGED <<disk, images, version, page, took, asks>>

Next ==
    \/ Ticks \/ Boots \/ BootAnswered \/ TakesBoot \/ Reloads
    \/ Uploads \/ UploadArrives \/ TakesUpload
    \/ Deletes \/ DeleteArrives \/ TakesDelete
    \/ Submits \/ RunArrives
    \/ ChangedElsewhere \/ LosesUpload \/ LosesCall

-----------------------------------------------------------------------------
(* Properties.                                                             *)

AtRest == calls = {} /\ uploads = << >> /\ loaded

\* Once every request is answered, the page lists what is on disk: "an older snapshot can
\* never replace the result of a newer upload" (selection-content.ts).  Unless an answer to
\* a deletion or to a load of the page was overtaken, an answer was lost, a batch broke off
\* half way, or the files were changed elsewhere.
ListCatchesUp == AtRest => shown = disk \/ overtaken # {}

\* What is ticked is listed.
TicksAreListed == ticks \subseteq Ids(shown)

PageFits == ListCatchesUp /\ TicksAreListed

\* A run is made of every image that the page showed ticked, though there were others of its
\* slug, or under its id: none is left out, and none is redesigned and paid for that was not
\* ticked.  Unless it has a ticked id for its name, or "all" was ticked by itself; and unless
\* a file whose slug is a ticked one's came or went in between.
TakesWhatIsTicked ==
    \/ took.stirred
    \/ took.meant \subseteq took.got /\ took.got \ took.meant \subseteq took.namesakes

\* The same without exception; false: an id is the place among the files of a slug, and goes
\* to another file when one of them comes or goes; and it may be another file's name ("a.png"
\* is the id of a.png.jpg), or read "all".
TakesOnlyWhatIsTicked == took.got = took.meant

\* "Ensure ids are unique even if two names slugify to the same token" (inputResolver.ts);
\* false: a number may be another file's name.
IdsAreUnique == \A f, g \in Present(disk) : Id(disk, f) = Id(disk, g) => f = g
=============================================================================
