-------------------------------- MODULE Sync --------------------------------
(***************************************************************************)
(* The theme of the page, kept with the user's account: the control        *)
(* store's sync.ts, the daemon's connections.ts behind                     *)
(* http/routes/connections.ts, and the account's document, which other     *)
(* machines write too.  The page's watcher of its theme runs after the     *)
(* step that changed it, when `applyingRemote` is over: what the page      *)
(* takes over from an answer it sends back like a change of the user's.    *)
(* The store of the account is external: a request of it waits, then       *)
(* succeeds at one moment or fails.                                        *)
(***************************************************************************)
EXTENDS Naturals, FiniteSets

CONSTANTS None, Themes,
          Room,        \* bound: requests under way at a time
          MaxEvents    \* bound: what the user, other machines and failures do

VARIABLES
    theme, told,       \* the page: its theme, and the status it was answered last, or None
    enabled, connected, appearance,   \* the daemon: its state file
    due,               \* the engine's 800 ms before it writes the document
    remote,            \* the account's document: <<theme>>, or <<>>
    calls,             \* requests under way: [id, op, arg, page, at, status]
    apart,             \* the daemon took a theme over that it has told no page yet, or the
                       \* page changed its own while it knew of no sync
    spurned,           \* the choice an answer has replaced, or None
    events

vars == <<theme, told, enabled, connected, appearance, due, remote, calls, apart, spurned, events>>

Init ==
    /\ theme \in Themes /\ told = None /\ remote \in {<<>>} \cup {<<t>> : t \in Themes}
    /\ \E on \in BOOLEAN :
          enabled = on /\ connected = on /\ appearance \in (IF on THEN Themes ELSE {None})
    /\ due = FALSE /\ calls = {} /\ apart = FALSE /\ spurned = None /\ events = 0

Event == events < MaxEvents /\ events' = events + 1

Has(n) == Cardinality(calls) + n <= Room

Sent(cs, op, arg, page) ==
    LET id == CHOOSE n \in 1 .. Room + 1 : \A c \in cs : c.id # n
    IN cs \cup {[id |-> id, op |-> op, arg |-> arg, page |-> page, at |-> "sent", status |-> None]}

Live(status) == status # None /\ status.ok /\ status.enabled /\ status.connected

\* The watcher of the theme: a change is sent while sync is on, whoever made it.
Watched(cs, v, status) == IF v # theme /\ Live(status) THEN Sent(cs, "theme", v, TRUE) ELSE cs

\* setTheme, by the user.
Chooses ==
    /\ Event /\ Has(1)
    /\ \E v \in Themes \ {theme} : theme' = v /\ calls' = Watched(calls, v, told)
    /\ apart' = (apart \/ (told # None /\ ~Live(told)))
    /\ UNCHANGED <<told, enabled, connected, appearance, due, remote, spurned>>

\* The page is loaded: what the one before has sent is answered to nobody.
Loaded(cs) ==
    Sent({[c EXCEPT !.page = FALSE] : c \in {c \in cs : c.at # "answered"}}, "load", None, TRUE)

Loads ==
    /\ Event /\ Has(1) /\ told' = None /\ calls' = Loaded(calls)
    /\ UNCHANGED <<theme, enabled, connected, appearance, due, remote, apart, spurned>>

\* The callback of a sign-in: sync that was on goes on in the background, and a page opens.
SignsIn ==
    /\ Event /\ Has(2) /\ ~connected /\ connected' = TRUE /\ told' = None
    /\ calls' = Loaded(IF enabled THEN Sent(calls, "enable", None, FALSE) ELSE calls)
    /\ UNCHANGED <<theme, enabled, appearance, due, remote, apart, spurned>>

\* "Sync now" pulls, then pushes; "Disconnect" forgets the account.
Clicks ==
    /\ Event /\ Has(2) /\ told # None /\ told.ok /\ told.connected
    /\ \E op \in {"pull", "forget"} :
         /\ \A c \in calls : c.page => c.op # op
         /\ calls' = Sent(calls, op, None, TRUE)
    /\ UNCHANGED <<theme, told, enabled, connected, appearance, due, remote, apart, spurned>>

-----------------------------------------------------------------------------
Status(on, with, t) == [ok |-> TRUE, enabled |-> on, connected |-> with, theme |-> t]

Failed == [ok |-> FALSE]

Answers(c, status) ==
    calls' = IF c.page THEN (calls \ {c}) \cup {[c EXCEPT !.at = "answered", !.status = status]}
             ELSE calls \ {c}

\* A request waits for the account's store.
Waits(c) == calls' = (calls \ {c}) \cup {[c EXCEPT !.at = "waits"]}

\* GET /api/settings/sync.
LoadArrives(c) ==
    /\ c.op = "load" /\ Answers(c, Status(enabled, connected, appearance))
    /\ apart' = (apart /\ ~c.page)
    /\ UNCHANGED <<enabled, appearance, due>>

\* updateAppearance: taken as it comes, and the engine is told when sync is on.
ThemeArrives(c) ==
    /\ c.op = "theme" /\ appearance' = c.arg /\ due' = (due \/ (enabled /\ connected))
    /\ Answers(c, Status(enabled, connected, c.arg))
    /\ apart' = ~c.page
    /\ UNCHANGED enabled

\* enable: the page's theme is the daemon's until the document answers.
EnableArrives(c) ==
    /\ c.op = "enable" /\ enabled' = TRUE
    /\ appearance' = (IF c.arg = None THEN appearance ELSE c.arg)
    /\ apart' = (apart \/ appearance' # appearance)
    /\ IF connected THEN Waits(c) ELSE Answers(c, Status(TRUE, FALSE, appearance'))
    /\ UNCHANGED due

\* disable(forget): the engine is stopped at once, the account left later.
ForgetArrives(c) ==
    /\ c.op = "forget" /\ enabled' = FALSE /\ due' = FALSE /\ Waits(c)
    /\ UNCHANGED <<appearance, apart>>

WaitArrives(c) ==
    /\ c.op \in {"pull", "push"} /\ Waits(c) /\ UNCHANGED <<enabled, appearance, due, apart>>

Arrives(c) ==
    /\ c.at = "sent"
    /\ \/ LoadArrives(c) \/ ThemeArrives(c) \/ EnableArrives(c) \/ ForgetArrives(c) \/ WaitArrives(c)
    /\ UNCHANGED <<theme, told, connected, remote, spurned, events>>

\* hydrate and pull: the document is taken over, and hydrate seeds an empty one.
TakesOver(c) ==
    /\ c.at = "waits" /\ c.op \in {"enable", "pull"} /\ connected
    /\ LET now == IF remote = <<>> THEN appearance ELSE remote[1]
       IN /\ appearance' = now
          /\ remote' = (IF remote = <<>> /\ c.op = "enable" THEN <<appearance>> ELSE remote)
          /\ apart' = IF c.page THEN FALSE ELSE apart \/ now # appearance
          /\ Answers(c, Status(enabled, connected, now))
    /\ UNCHANGED <<theme, told, enabled, connected, due, spurned, events>>

\* pushNow, and the engine's own write.
Writes(c) ==
    /\ c.at = "waits" /\ c.op = "push" /\ connected
    /\ remote' = <<appearance>> /\ due' = FALSE
    /\ apart' = (apart /\ ~c.page)
    /\ Answers(c, Status(enabled, connected, appearance))
    /\ UNCHANGED <<theme, told, enabled, connected, appearance, spurned, events>>

Flushes ==
    /\ due /\ due' = FALSE /\ remote' = (IF connected THEN <<appearance>> ELSE remote)
    /\ UNCHANGED <<theme, told, enabled, connected, appearance, calls, apart, spurned, events>>

\* The document and the grant are gone, and the state file knows no account.
Forgets(c) ==
    /\ c.at = "waits" /\ c.op = "forget"
    /\ remote' = (IF connected THEN <<>> ELSE remote) /\ connected' = FALSE /\ appearance' = None
    /\ Answers(c, Status(enabled, FALSE, None))
    /\ UNCHANGED <<theme, told, enabled, due, apart, spurned, events>>

\* The store does not answer, or there is no account any more.
Fails(c) ==
    /\ c.at = "waits" /\ Answers(c, Failed)
    /\ (connected => Event) /\ (~connected => c.op # "forget" /\ UNCHANGED events)
    /\ UNCHANGED <<theme, told, enabled, connected, appearance, due, remote, apart, spurned>>

-----------------------------------------------------------------------------
\* absorbSyncStatus, and what each request goes on to do: a load turns sync on when an account
\* is there, a pull is followed by a push.
Absorbs(c) ==
    /\ c.at = "answered"
    /\ LET s == c.status
           taken == s.ok /\ s.theme # None
           now == IF taken THEN s.theme ELSE theme
           rest == calls \ {c}
           more == IF c.op = "load" /\ s.ok /\ s.connected /\ ~s.enabled
                   THEN Sent(rest, "enable", now, TRUE)
                   ELSE IF c.op = "pull" THEN Sent(rest, "push", None, TRUE) ELSE rest
       IN /\ told' = s /\ theme' = now
          /\ calls' = Watched(more, now, s)
          /\ apart' = (apart \/ (now # theme /\ ~Live(s)))
          /\ spurned' = (IF now # theme /\ c.op \in {"theme", "enable"} THEN theme ELSE spurned)
    /\ UNCHANGED <<enabled, connected, appearance, due, remote, events>>

\* Another machine writes the document.
OtherMachine ==
    /\ Event /\ \E t \in Themes : remote' = <<t>>
    /\ UNCHANGED <<theme, told, enabled, connected, appearance, due, calls, apart, spurned>>

\* The daemon starts anew while no request of the page is under way: a last write is flushed or
\* not, and sync that is on pulls in the background.
Restarts ==
    /\ Event /\ \A c \in calls : ~c.page
    /\ due' = FALSE /\ remote' \in {remote} \cup (IF due /\ connected THEN {<<appearance>>} ELSE {})
    /\ calls' = IF enabled THEN Sent({}, "pull", None, FALSE) ELSE {}
    /\ UNCHANGED <<theme, told, enabled, connected, appearance, apart, spurned>>

Next ==
    \/ Chooses \/ Loads \/ SignsIn \/ Clicks \/ Flushes \/ OtherMachine \/ Restarts
    \/ \E c \in calls : Arrives(c) \/ TakesOver(c) \/ Writes(c) \/ Forgets(c) \/ Fails(c) \/ Absorbs(c)

Spec == Init /\ [][Next]_vars

-----------------------------------------------------------------------------
\* Once nothing is under way, the page and the daemon have one theme, in whatever order the
\* answers came (sync.ts:40-50, connections.ts:336-343), unless one of them has gone its own way
\* (apart).
AgreeAtRest ==
    calls = {} /\ Live(told) /\ enabled /\ connected /\ ~apart /\ appearance # None =>
        theme = appearance

\* A theme that is chosen stays; false: the answer to an earlier choice, or to the request that
\* turns sync on, replaces it.
ChoiceIsKept == spurned = None
=============================================================================
