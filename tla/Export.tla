------------------------------- MODULE Export -------------------------------
(***************************************************************************)
(* The download of a run (http/routes/run-export.ts, zip.ts): the files    *)
(* are looked up before the first byte is sent and read when their turn    *)
(* comes, while the run may go on writing them and the user may delete it. *)
(* What is emitted is a sequence of parts with their lengths; an entry     *)
(* from memory has its data at hand, a file is read in chunks of one byte. *)
(***************************************************************************)
EXTENDS Naturals, Sequences, FiniteSetsExt, SequencesExt

CONSTANTS None, Entries,  \* in order: [packed] with the deflated length, or [file]
          Sizes,          \* what a file may hold
          MaxInput, MaxTotal,   \* limits: 512 MB of input, 4 GB of archive
          MaxEntries,           \* limit: 65,534 files
          MaxEvents             \* bound: changes of the files

NameLen == 1
LocalLen == 30
CentralLen == 46
DescriptorLen == 16

VARIABLES
    content,   \* entry -> the bytes it holds now, or None
    plan,      \* the entries that are sent, each with the size it had
    pc,        \* "planning", "entries", "data", "closed", "failed"
    place,     \* the plan's entries that are behind
    got,       \* bytes of the current file that were read
    emitted, centrals, offset, declared, observed, aborted, events

vars == <<content, plan, pc, place, got, emitted, centrals, offset, declared, observed, aborted,
          events>>

IsFile(e) == "file" \in DOMAIN Entries[e]

\* The output of a job that never wrote it is not there.
Init ==
    /\ content \in [DOMAIN Entries -> Sizes \cup {None}]
    /\ \A e \in DOMAIN Entries : ~IsFile(e) => content[e] = Entries[e].size
    /\ plan = <<>> /\ pc = "planning" /\ place = 0 /\ got = 0
    /\ emitted = <<>> /\ centrals = <<>> /\ offset = 0 /\ declared = 0 /\ observed = 0
    /\ aborted = FALSE /\ events = 0

Total(s) == SumFunctionOnSet(s, DOMAIN s)

\* bundlePlan: each entry in turn is looked up, and left out when it is not there; checkPlan,
\* an answer of 413.
Plans ==
    /\ pc = "planning"
    /\ LET e == place + 1
       IN IF e \in DOMAIN Entries
          THEN /\ plan' = (IF content[e] = None THEN plan
                           ELSE Append(plan, [entry |-> e, size |-> content[e]]))
               /\ place' = e /\ UNCHANGED pc
          ELSE /\ pc' = IF \/ Len(plan) > MaxEntries
                           \/ Total([n \in DOMAIN plan |-> plan[n].size]) > MaxInput
                        THEN "refused" ELSE "entries"
               /\ place' = 0 /\ UNCHANGED plan
    /\ UNCHANGED <<content, got, emitted, centrals, offset, declared, observed, aborted, events>>

Fails == pc' = "failed" /\ UNCHANGED <<emitted, centrals, offset, observed, place, got>>

Emits(part, e, len) == emitted' = Append(emitted, [part |-> part, of |-> e, len |-> len])

StreamedLen(size) == LocalLen + NameLen + size + DescriptorLen

Central(e, size, packed) ==
    centrals' = Append(centrals, [of |-> e, size |-> size, packed |-> packed, at |-> offset])

Current == plan[place + 1]

\* The turn of the next entry: its size as it was declared, its header and name.
Starts ==
    /\ pc = "entries" /\ place < Len(plan)
    /\ declared' = declared + Current.size
    /\ IF aborted \/ declared' > MaxInput THEN Fails
       ELSE IF IsFile(Current.entry)
       THEN /\ pc' = "data" /\ got' = 0 /\ Emits("local", Current.entry, LocalLen + NameLen)
            /\ UNCHANGED <<centrals, offset, observed, place>>
       ELSE LET size == Current.size
                packed == Min({Entries[Current.entry].packed, size})
            IN IF observed + size > MaxInput THEN Fails
               ELSE /\ observed' = observed + size /\ Central(Current.entry, size, packed)
                    /\ emitted' = emitted \o
                         <<[part |-> "local", of |-> Current.entry, len |-> LocalLen + NameLen],
                           [part |-> "data", of |-> Current.entry, len |-> packed]>>
                    /\ offset' = offset + LocalLen + NameLen + packed /\ place' = place + 1
                    /\ pc' = (IF offset' >= MaxTotal THEN "failed" ELSE pc) /\ UNCHANGED got
    /\ UNCHANGED <<content, plan, aborted, events>>

\* One more byte, or a file that had gone before it was opened.
Chunk ==
    /\ pc = "data"
    /\ IF content[Current.entry] = None \/ aborted THEN Fails
       ELSE /\ got < content[Current.entry]
            /\ IF observed + 1 > MaxInput THEN Fails
               ELSE /\ got' = got + 1 /\ observed' = observed + 1 /\ Emits("data", Current.entry, 1)
                    /\ UNCHANGED <<pc, place, centrals, offset>>
    /\ UNCHANGED <<content, plan, declared, aborted, events>>

\* The end of the file, wherever it is by now.
Ends ==
    /\ pc = "data" /\ ~aborted /\ content[Current.entry] # None /\ got >= content[Current.entry]
    /\ Emits("descriptor", Current.entry, DescriptorLen) /\ Central(Current.entry, got, got)
    /\ offset' = offset + StreamedLen(got) /\ place' = place + 1
    /\ pc' = IF offset' >= MaxTotal THEN "failed" ELSE "entries"
    /\ UNCHANGED <<content, plan, got, declared, observed, aborted, events>>

\* zipTrailer: the directory, and the record that points at it, in one step.
Trailer ==
    /\ pc = "entries" /\ place = Len(plan) /\ ~aborted /\ pc' = "closed"
    /\ emitted' = (emitted \o [n \in DOMAIN centrals |->
          [part |-> "central", of |-> centrals[n].of, len |-> CentralLen + NameLen]]) \o
          <<[part |-> "end", count |-> place, len |-> (CentralLen + NameLen) * Len(centrals),
             at |-> offset]>>
    /\ UNCHANGED <<content, plan, place, got, centrals, offset, declared, observed, aborted, events>>

\* The browser goes: the next pull fails.
Aborts ==
    /\ pc \in {"entries", "data"} /\ ~aborted /\ aborted' = TRUE
    /\ UNCHANGED <<content, plan, pc, place, got, emitted, centrals, offset, declared, observed, events>>

Pulled == pc = "entries" /\ place = Len(plan) /\ aborted /\ Fails
    /\ UNCHANGED <<content, plan, declared, aborted, events>>

\* A file of the run is written, written again or removed; one that is open is read on.
Changes ==
    /\ events < MaxEvents /\ events' = events + 1
    /\ \E e \in DOMAIN Entries, size \in Sizes \cup {None} :
          /\ IsFile(e) /\ content' = [content EXCEPT ![e] = size]
          /\ ~(size = None /\ pc = "data" /\ got > 0 /\ Current.entry = e)
    /\ UNCHANGED <<plan, pc, place, got, emitted, centrals, offset, declared, observed, aborted>>

Next == Plans \/ Starts \/ Chunk \/ Ends \/ Trailer \/ Aborts \/ Pulled \/ Changes

Spec == Init /\ [][Next]_vars

-----------------------------------------------------------------------------
Lens(s) == [n \in DOMAIN s |-> s[n].len]

Before(n) == SumFunctionOnSet(Lens(emitted), 1 .. n - 1)

Data == {n \in DOMAIN emitted : emitted[n].part = "data"}

DataOf(e) == SumFunctionOnSet(Lens(emitted), {n \in Data : emitted[n].of = e})

\* An archive that is closed is whole: every entry that was planned is in its directory, which
\* says where the entry begins and how long it came to be, however the files have changed; and
\* its last record says where the directory begins, how long it is and what it lists.
ClosedIsWhole == pc = "closed" =>
    LET end == Last(emitted)
        first == Len(emitted) - Len(centrals)
    IN /\ [n \in DOMAIN centrals |-> centrals[n].of] = [n \in DOMAIN plan |-> plan[n].entry]
       /\ \A n \in DOMAIN centrals :
             /\ \E k \in DOMAIN emitted : /\ emitted[k].part = "local" /\ emitted[k].of = centrals[n].of
                                          /\ Before(k) = centrals[n].at
             /\ DataOf(centrals[n].of) = centrals[n].packed
       /\ end.count = Len(centrals) /\ end.at = Before(first) /\ end.at + end.len = Before(Len(emitted))

\* No more than the limit is read and sent, though a file may grow after it was looked up, and
\* what has failed or was left is not closed.
LimitsAreKept ==
    /\ SumFunctionOnSet(Lens(emitted), Data) <= MaxInput
    /\ observed <= MaxInput
    /\ pc \in {"failed", "refused"} => \A n \in DOMAIN emitted : emitted[n].part # "end"

\* A download is an archive that can be opened, or is cut short (run-export.ts, zip.ts).
ExportIsWhole == ClosedIsWhole /\ LimitsAreKept
=============================================================================
