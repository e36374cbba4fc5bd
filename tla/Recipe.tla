------------------------------- MODULE Recipe -------------------------------
(***************************************************************************)
(* What a run is made of, and what a retry of it repeats: the spec beside  *)
(* its manifest (runner/run-spec.ts) with the copies of its images, and    *)
(* POST /api/runs/:id/retry (http/routes/runs.ts).  A run of an older      *)
(* version has no spec: it is retried from its manifest, with a new run    *)
(* for each input and prompt.  A file is a sequence of blocks, a hash is   *)
(* the content it is of, a combination an input, a prompt and a model.     *)
(***************************************************************************)
EXTENDS Naturals, Sequences, FiniteSets

CONSTANTS None, Files, Prompts, Models,
          Order,       \* the files in the order they are copied
          Contents,    \* what a file may hold
          Failures,    \* how many jobs of each combination may have failed
          MaxEvents,   \* bound: what is done to the files and the catalog meanwhile
          MaxRetries   \* bound: retries

VARIABLES
    folder,    \* input/: file -> content, or None
    catalog,   \* model or prompt -> the version of its record, or None
    legacy,    \* the run is of an older version
    texts,     \* prompts whose text the manifest holds
    pc, todo,  \* the run, and the files that are left to copy
    opened,    \* the file that is being copied, or None
    chosen,    \* file -> its content when it was opened
    torn,      \* files rewritten in place while they were copied
    spec,      \* the spec's images: file -> hash
    assets,    \* hashes whose copy is what it was
    failed,    \* combination -> number of jobs
    retries,   \* in order, each with what it has queued
    events

vars == <<folder, catalog, legacy, texts, pc, todo, opened, chosen, torn, spec, assets, failed,
          retries, events>>

NoneFailed == [k \in Files \X Prompts \X Models |-> 0]

Init ==
    /\ folder \in [Files -> Contents] /\ catalog = [x \in Models \cup Prompts |-> 1]
    /\ legacy \in BOOLEAN /\ texts \in {{}, Prompts} /\ (texts = {} => legacy)
    /\ pc = (IF legacy THEN "going" ELSE "copying") /\ todo = (IF legacy THEN <<>> ELSE Order)
    /\ opened = None /\ chosen = folder /\ torn = {} /\ spec = <<>> /\ assets = {}
    /\ failed = NoneFailed /\ retries = <<>> /\ events = 0

\* prepareRunSpec fails, and what was prepared is removed.
Refused == pc' = "refused" /\ opened' = None /\ UNCHANGED <<chosen, todo, assets>>

\* copyAsset: the file's size is read, then its blocks.
Opens ==
    /\ pc = "copying" /\ opened = None /\ todo # <<>>
    /\ LET f == Head(todo)
       IN IF folder[f] = None THEN Refused
          ELSE /\ opened' = [file |-> f, bytes |-> folder[f], size |-> Len(folder[f]), got |-> <<>>]
               /\ chosen' = [chosen EXCEPT ![f] = folder[f]]
               /\ UNCHANGED <<pc, todo, assets>>
    /\ UNCHANGED <<folder, catalog, legacy, texts, torn, spec, failed, retries, events>>

Reads ==
    /\ pc = "copying" /\ opened # None /\ Len(opened.got) < Len(opened.bytes)
    /\ opened' = [opened EXCEPT !.got = Append(@, opened.bytes[Len(@) + 1])]
    /\ UNCHANGED <<folder, catalog, legacy, texts, pc, todo, chosen, torn, spec, assets, failed,
                   retries, events>>

\* Slip: the number of bytes copied is not compared.
SizeIsAny == TRUE

SizeIsKept == Len(opened.got) = opened.size

\* The end of the file; "asset changed while it was copied" when it has another length.
Copied ==
    /\ pc = "copying" /\ opened # None /\ Len(opened.got) >= Len(opened.bytes)
    /\ IF SizeIsKept
       THEN /\ assets' = assets \cup {opened.got} /\ todo' = Tail(todo) /\ opened' = None
            /\ spec' = [file \in DOMAIN spec \cup {opened.file} |->
                          IF file = opened.file THEN opened.got ELSE spec[file]]
            /\ UNCHANGED <<pc, chosen>>
       ELSE Refused /\ UNCHANGED spec
    /\ UNCHANGED <<folder, catalog, legacy, texts, torn, failed, retries, events>>

\* writeSpec, and the run's admission.
Writes ==
    /\ pc = "copying" /\ todo = <<>> /\ pc' = "ready"
    /\ UNCHANGED <<folder, catalog, legacy, texts, todo, opened, chosen, torn, spec, assets, failed,
                   retries, events>>

\* readRunSpec: every image is the one that was copied.
Readable == \A f \in DOMAIN spec : spec[f] \in assets

\* The run starts with what was prepared, or not at all (reimagine.ts:373).
Starts ==
    /\ pc = "ready" /\ pc' = (IF Readable THEN "going" ELSE "refused")
    /\ UNCHANGED <<folder, catalog, legacy, texts, todo, opened, chosen, torn, spec, assets, failed,
                   retries, events>>

Ends ==
    /\ pc = "going" /\ pc' = "ended" /\ failed' \in Failures
    /\ UNCHANGED <<folder, catalog, legacy, texts, todo, opened, chosen, torn, spec, assets, retries,
                   events>>

-----------------------------------------------------------------------------
(* Retries.                                                                *)

\* selectRetryTargets: all that failed, or the job that is named.
Targets == {failed} \cup
    {[NoneFailed EXCEPT ![k] = 1] : k \in {k \in DOMAIN failed : failed[k] > 0}}

\* partitionRunnableTargets, for a run without a spec.
Runnable(t) ==
    IF legacy THEN [k \in DOMAIN t |-> IF catalog[k[3]] = None THEN 0 ELSE t[k]] ELSE t

Groups(t) == {<<k[1], k[2]>> : k \in {k \in DOMAIN t : t[k] > 0}}

\* One run for every input and prompt, or one run of the jobs themselves.
Retries ==
    /\ pc = "ended" /\ Len(retries) < MaxRetries
    /\ \E t \in Targets :
         LET asked == Runnable(t)
             refused == Groups(asked) = {} \/ (~legacy /\ ~Readable)
         IN /\ Groups(t) # {}
            /\ retries' = Append(retries,
                 [asked |-> asked, left |-> IF refused THEN {} ELSE Groups(asked), made |-> {},
                  is |-> IF refused THEN "refused" ELSE "under way"])
    /\ UNCHANGED <<folder, catalog, legacy, texts, pc, todo, opened, chosen, torn, spec, assets,
                   failed, events>>

ModelsOf(t, g) == {m \in Models : t[<<g[1], g[2], m>>] > 0}

\* One more batch: combination, number of jobs, and what they are made of.
Batch(t, g) ==
    {[of |-> <<g[1], g[2], m>>, jobs |-> t[<<g[1], g[2], m>>],
      image |-> IF legacy THEN folder[g[1]] ELSE spec[g[1]],
      version |-> IF legacy THEN catalog[m] ELSE 1] : m \in ModelsOf(t, g)}

\* enqueueRun refuses a prompt without text, an input or a model that has gone, and any run
\* when the queue is full.
Admissible(t, g) ==
    g[2] \in texts /\ folder[g[1]] # None /\ \A m \in ModelsOf(t, g) : catalog[m] # None

QueuesGroup(q) ==
    LET r == retries[q]
    IN /\ legacy /\ r.left # {}
       /\ \E g \in r.left :
            \/ /\ Admissible(r.asked, g)
               /\ retries' = [retries EXCEPT ![q].left = r.left \ {g},
                    ![q].made = r.made \cup Batch(r.asked, g),
                    ![q].is = IF r.left = {g} THEN "answered" ELSE r.is]
            \/ retries' = [retries EXCEPT ![q].left = {}, ![q].is = "refused"]
       /\ UNCHANGED <<folder, catalog, legacy, texts, pc, todo, opened, chosen, torn, spec, assets,
                      failed, events>>

\* The clone of the spec is queued, with all its jobs, or refused.
QueuesClone(q) ==
    LET r == retries[q]
    IN /\ ~legacy /\ r.left # {}
       /\ \/ retries' = [retries EXCEPT ![q].left = {}, ![q].is = "answered",
                ![q].made = UNION {Batch(r.asked, g) : g \in r.left}]
          \/ retries' = [retries EXCEPT ![q].left = {}, ![q].is = "refused"]
       /\ UNCHANGED <<folder, catalog, legacy, texts, pc, todo, opened, chosen, torn, spec, assets,
                      failed, events>>

-----------------------------------------------------------------------------
(* What the user, another process or another program does meanwhile.       *)
Event == events < MaxEvents /\ events' = events + 1

\* A file is replaced or removed: what is being copied is still the old one.
Replaces ==
    /\ Event /\ \E f \in Files, c \in Contents \cup {None} : folder' = [folder EXCEPT ![f] = c]
    /\ UNCHANGED <<catalog, legacy, texts, pc, todo, opened, chosen, torn, spec, assets, failed,
                   retries>>

\* A file is rewritten in place.
Rewrites ==
    /\ Event /\ opened # None /\ folder[opened.file] = opened.bytes
    /\ \E c \in Contents :
         /\ folder' = [folder EXCEPT ![opened.file] = c] /\ opened' = [opened EXCEPT !.bytes = c]
         /\ torn' = torn \cup {opened.file}
    /\ UNCHANGED <<catalog, legacy, texts, pc, todo, chosen, spec, assets, failed, retries>>

\* A model or a prompt is changed, or goes.
ChangesCatalog ==
    /\ Event /\ \E x \in DOMAIN catalog : catalog' = [catalog EXCEPT ![x] = IF @ = 1 THEN 2 ELSE None]
    /\ UNCHANGED <<folder, legacy, texts, pc, todo, opened, chosen, torn, spec, assets, failed,
                   retries>>

\* A copy in the run's directory is changed or removed.
LosesCopy ==
    /\ Event /\ \E c \in assets : assets' = assets \ {c}
    /\ UNCHANGED <<folder, catalog, legacy, texts, pc, todo, opened, chosen, torn, spec, failed,
                   retries>>

Next ==
    \/ Opens \/ Reads \/ Copied \/ Writes \/ Starts \/ Ends \/ Retries
    \/ \E q \in DOMAIN retries : QueuesGroup(q) \/ QueuesClone(q)
    \/ Replaces \/ Rewrites \/ ChangesCatalog \/ LosesCopy

Spec == Init /\ [][Next]_vars

-----------------------------------------------------------------------------
\* What is prepared is what the files held when they were opened; a copy that was torn by a
\* rewriting in place has at least the length the file had.
CopiesAreTrue ==
    \A f \in DOMAIN spec :
        /\ f \notin torn => spec[f] = chosen[f]
        /\ Len(spec[f]) = Len(chosen[f])

\* A retry that succeeds makes the failed jobs it was asked for, as many of each and no other
\* ("EXACTLY the failed set", runs.ts:170); one that is refused on the way has made some of
\* them, if the run has no spec, and none if it has.  A run with a spec is repeated with the
\* images and the models of the original, whatever has become of them.
RetriesAreExact ==
    \A q \in DOMAIN retries :
        LET r == retries[q]
            all == {<<k, r.asked[k]>> : k \in {k \in DOMAIN r.asked : r.asked[k] > 0}}
            made == {<<b.of, b.jobs>> : b \in r.made}
        IN /\ made \subseteq all /\ Cardinality(r.made) = Cardinality(made)
           /\ r.is = "answered" => made = all
           /\ r.is = "refused" /\ ~legacy => made = {}
           /\ ~legacy => \A b \in r.made : b.image = spec[b.of[1]] /\ b.version = 1

\* A run is what was chosen for it, and its retry what failed of it.
RecipeIsKept == CopiesAreTrue /\ RetriesAreExact

\* A job is made once more however often it is asked for; false: nothing relates two retries
\* of a run, nor a retry to what an earlier one, refused on its way, has queued.
RetriedOnce ==
    \A q, r \in DOMAIN retries : q # r =>
        {b.of : b \in retries[q].made} \cap {b.of : b \in retries[r].made} = {}
=============================================================================
