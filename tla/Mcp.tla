-------------------------------- MODULE Mcp --------------------------------
(***************************************************************************)
(* The MCP server's loop (runMcpStdio of mcp-stdio.mjs): requests are read *)
(* from stdin line by line and served concurrently, up to a cap, the       *)
(* others wait their turn.  A cancellation names a request by its id.  An  *)
(* answer is written and its slot given back in one turn of the loop.      *)
(* Requests are numbered in the order they are read.                       *)
(***************************************************************************)
EXTENDS Naturals, Sequences, FiniteSets, Functions

CONSTANTS Ids,          \* the client's ids: it may use one again
          MaxInFlight,
          MaxLines      \* bound: lines read

VARIABLES
    sent,      \* the id of every request read, in order
    queue,     \* requests that wait for a slot
    inFlight,  \* those that are served: `outstanding`, whose size is `active`
    registry,  \* id -> the request in flight a cancellation reaches, or 0
    aborted,   \* requests whose signal is aborted
    answers,   \* requests answered
    missed,    \* requests cancelled while they waited
    twins,     \* requests in flight together with another of their id
    lines, open, done

vars == <<sent, queue, inFlight, registry, aborted, answers, missed, twins, lines, open, done>>

Init ==
    /\ sent = <<>> /\ queue = <<>> /\ inFlight = {} /\ registry = [i \in Ids |-> 0]
    /\ aborted = {} /\ answers = {} /\ missed = {} /\ twins = {}
    /\ lines = 0 /\ open = TRUE /\ done = FALSE

ReadsLine == open /\ lines < MaxLines /\ lines' = lines + 1

\* dispatch: the request takes a slot and its id's place in the registry.
Dispatches(r, id, others, places) ==
    /\ inFlight' = others \cup {r} /\ registry' = [places EXCEPT ![id] = r]
    /\ LET same == {q \in others : sent[q] = id}
       IN twins' = IF same = {} THEN twins ELSE twins \cup same \cup {r}

\* A line with an id: dispatched, or queued when the cap is reached.
RequestArrives ==
    /\ ReadsLine
    /\ \E i \in Ids :
         LET r == Len(sent) + 1
         IN /\ sent' = Append(sent, i)
            /\ IF Cardinality(inFlight) < MaxInFlight
               THEN Dispatches(r, i, inFlight, registry) /\ UNCHANGED queue
               ELSE queue' = Append(queue, r) /\ UNCHANGED <<inFlight, registry, twins>>
    /\ UNCHANGED <<aborted, answers, missed, open, done>>

\* notifications/cancelled: of an id in flight, or silently nothing.
CancelArrives ==
    /\ ReadsLine
    /\ \E i \in Ids :
         /\ aborted' = aborted \cup ({registry[i]} \ {0})
         /\ missed' = missed \cup {r \in Range(queue) : sent[r] = i /\ registry[i] = 0}
    /\ UNCHANGED <<sent, queue, inFlight, registry, answers, twins, open, done>>

NextInLine == Head(queue)

\* A request is answered, by its result, its failure or its cancellation, and `finally` lets
\* the next one in.
Answered == \E r \in inFlight :
    /\ answers' = answers \cup {r}
    /\ LET freed == [registry EXCEPT ![sent[r]] = 0]
       IN IF queue = <<>>
          THEN inFlight' = inFlight \ {r} /\ registry' = freed /\ UNCHANGED <<queue, twins>>
          ELSE /\ Dispatches(NextInLine, sent[NextInLine], inFlight \ {r}, freed)
               /\ queue' = Tail(queue)
    /\ UNCHANGED <<sent, aborted, missed, lines, open, done>>

\* The client closes stdin.
Closes == open /\ open' = FALSE
    /\ UNCHANGED <<sent, queue, inFlight, registry, aborted, answers, missed, twins, lines, done>>

\* What was read is served to the end before the loop returns.
Returns == ~open /\ ~done /\ inFlight = {} /\ queue = <<>> /\ done' = TRUE
    /\ UNCHANGED <<sent, queue, inFlight, registry, aborted, answers, missed, twins, lines, open>>

Next == RequestArrives \/ CancelArrives \/ Answered \/ Closes \/ Returns

Spec == Init /\ [][Next]_vars

-----------------------------------------------------------------------------
Waiting == Range(queue)

\* No request is lost or answered twice, they are started in the order they came, and none
\* waits while there is a slot.
InTurn ==
    /\ DOMAIN sent = Waiting \cup inFlight \cup answers
    /\ inFlight \cap answers = {} /\ Waiting \cap (inFlight \cup answers) = {}
    /\ \A q \in Waiting, r \in inFlight \cup answers : r < q
    /\ Cardinality(inFlight) <= MaxInFlight
    /\ queue # <<>> => Cardinality(inFlight) = MaxInFlight

\* A cancellation reaches every request in flight, and none that is answered; but of two in
\* flight with one id it may reach the other, or neither.
Cancellable ==
    /\ \A i \in Ids : registry[i] # 0 => registry[i] \in inFlight /\ sent[registry[i]] = i
    /\ \A r \in inFlight \ twins : registry[sent[r]] = r

\* The loop serves every request it reads, in turn, and returns when all are answered
\* (mcp-stdio.mjs:163-185).
ServesAll == InTurn /\ Cancellable /\ (done => answers = DOMAIN sent)

\* A request that was cancelled before its turn is not run; false: only those in flight are
\* looked up.
CancelledIsNotRun == missed \cap (inFlight \cup answers) = {}
=============================================================================
