-------------------------- MODULE KeyManagerProofs --------------------------
(***************************************************************************)
(* Theorems about KeyManager, for every set of keys, pools, requests and   *)
(* lists, every cooldown and every answer of the providers.                *)
(*                                                                         *)
(* A request's step is a composition of the manager's methods, so the      *)
(* invariant is stated of the manager's state as one method hands it to    *)
(* the next (Sound), and, in the middle of the step of w, of every request *)
(* but w.  One lemma per method says that it hands on a sound state, and   *)
(* one per action that what is left is sound.                              *)
(***************************************************************************)
EXTENDS KeyManager, CollectionProofs

Places == {"idle", "waiting", "woken", "napping", "calling", "finishing"}
Entries == [Pools -> [Keys -> Health]]
Manager ==
    [known : SUBSET Pools, rr : [Pools -> Nat], health : Entries, saved : Entries,
     timer : BOOLEAN, lease : [Keys -> Workers \cup {Nobody}], pc : [Workers -> Places],
     pool : [Workers -> Pools \cup {NoPool}], want : [Workers -> Keys \cup {NoKey}],
     held : [Workers -> Keys \cup {NoKey}]]

\* A call has its lease, and nothing is persisted against its key; it draws from a pool that
\* is registered.
CallsAreLeased(s, W) ==
    \A w \in W : s.pc[w] = "calling" =>
        /\ s.held[w] \in Keys /\ s.lease[s.held[w]] = w
        /\ s.pool[w] \in s.known /\ s.saved[s.pool[w]][s.held[w]].cool = 0

\* A lease is that of a call.
LeasesAreCalls(s, W) ==
    \A k \in Keys : s.lease[k] # Nobody =>
        s.lease[k] \in W /\ s.pc[s.lease[k]] = "calling" /\ s.held[s.lease[k]] = k

\* Nobody waits for nothing, whoever asks has a pool, and whoever was given a key knows it.
WaitsAreFounded(s, W) ==
    \A w \in W : /\ s.pc[w] = "waiting" => \E k \in Keys : s.lease[k] # Nobody
                 /\ s.pc[w] = "finishing" => s.held[w] \in Keys
                 /\ s.pc[w] # "idle" => s.pool[w] \in Pools

Mirrored(s) == \A p \in s.known : s.health[p] = s.saved[p]

\* The state s is sound, as far as the requests W are concerned.
Sound(s, W) ==
    CallsAreLeased(s, W) /\ LeasesAreCalls(s, W) /\ WaitsAreFounded(s, W) /\ Mirrored(s)

IInv ==
    /\ roster \in [Pools -> Seq(Keys)] /\ disk \in Entries
    /\ Now \in Manager /\ Sound(Now, Workers)

Others(w) == Workers \ {w}

\* t keeps what s says of the requests but for their places.
SameRequests(s, t) == t.pool = s.pool /\ t.want = s.want /\ t.held = s.held

-----------------------------------------------------------------------------
\* Registering pools: those known already keep their entries, the others get what is saved.
LEMMA RegisteredOK ==
  ASSUME NEW s \in Manager, NEW ps \in SUBSET Pools
  PROVE  /\ Registered(s, ps) \in Manager
         /\ Registered(s, ps).known = s.known \cup ps
         /\ \A p \in Pools : p \notin ps \ s.known => Registered(s, ps).health[p] = s.health[p]
         /\ \A p \in ps \ s.known : Registered(s, ps).health[p] = s.saved[p]
         /\ Registered(s, ps).saved = s.saved /\ Registered(s, ps).timer = s.timer
         /\ Registered(s, ps).lease = s.lease /\ Registered(s, ps).pc = s.pc
         /\ SameRequests(s, Registered(s, ps))
<1> DEFINE r == Registered(s, ps)
           h == [p \in Pools |-> IF p \in ps \ s.known THEN s.saved[p] ELSE s.health[p]]
           n == [p \in Pools |-> IF p \in ps \ s.known THEN 0 ELSE s.rr[p]]
<1>1. /\ s.known \in SUBSET Pools /\ s.rr \in [Pools -> Nat]
      /\ s.health \in Entries /\ s.saved \in Entries
  BY DEF Manager
<1>2. h \in Entries /\ n \in [Pools -> Nat] /\ s.known \cup ps \in SUBSET Pools
  BY <1>1 DEF Entries
<1>3. r = [s EXCEPT !.known = s.known \cup ps, !.health = h, !.rr = n]
  BY DEF Registered
<1>4. /\ \A p \in Pools : p \notin ps \ s.known => h[p] = s.health[p]
      /\ \A p \in ps \ s.known : h[p] = s.saved[p]
  BY <1>1
<1> HIDE DEF r, h, n
<1>5. r \in Manager
  BY <1>2, <1>3 DEF Manager
<1>6. /\ r.known = s.known \cup ps /\ r.health = h /\ r.saved = s.saved /\ r.timer = s.timer
      /\ r.lease = s.lease /\ r.pc = s.pc /\ SameRequests(s, r)
  BY <1>3 DEF Manager, SameRequests
<1>7. QED
  BY <1>4, <1>5, <1>6 DEF r

\* It leaves what is sound sound.
LEMMA RegisteredSound ==
  ASSUME NEW s \in Manager, NEW ps \in SUBSET Pools, NEW W \in SUBSET Workers, Sound(s, W)
  PROVE  Sound(Registered(s, ps), W)
<1> DEFINE r == Registered(s, ps)
<1>1. /\ r.known = s.known \cup ps /\ r.saved = s.saved
      /\ r.lease = s.lease /\ r.pc = s.pc /\ r.pool = s.pool /\ r.held = s.held
      /\ \A p \in Pools : p \notin ps \ s.known => r.health[p] = s.health[p]
      /\ \A p \in ps \ s.known : r.health[p] = s.saved[p]
      /\ s.known \in SUBSET Pools
  BY RegisteredOK DEF SameRequests, Manager
<1> HIDE DEF r
<1>2. Mirrored(r)
  BY <1>1 DEF Sound, Mirrored
<1>3. CallsAreLeased(r, W) /\ LeasesAreCalls(r, W) /\ WaitsAreFounded(r, W)
  BY <1>1 DEF Sound, CallsAreLeased, LeasesAreCalls, WaitsAreFounded
<1>4. QED
  BY <1>2, <1>3 DEF Sound, r

\* Giving a key back: its call is over, and nobody is left waiting.
LEMMA FreedOK ==
  ASSUME NEW s \in Manager, NEW w \in Workers, Sound(s, Workers), s.pc[w] = "calling"
  PROVE  /\ Freed(s, s.held[w]) \in Manager
         /\ Sound(Freed(s, s.held[w]), Others(w))
         /\ Freed(s, s.held[w]).lease[s.held[w]] = Nobody
         /\ Freed(s, s.held[w]).known = s.known /\ Freed(s, s.held[w]).health = s.health
         /\ Freed(s, s.held[w]).saved = s.saved /\ Freed(s, s.held[w]).timer = s.timer
         /\ SameRequests(s, Freed(s, s.held[w]))
         /\ \A v \in Workers : s.pc[v] # "waiting" => Freed(s, s.held[w]).pc[v] = s.pc[v]
<1> DEFINE k == s.held[w]
           f == Freed(s, k)
           ls == [s.lease EXCEPT ![k] = Nobody]
           at == [v \in Workers |-> IF s.pc[v] = "waiting" THEN "woken" ELSE s.pc[v]]
<1>1. k \in Keys /\ s.lease[k] = w
  BY DEF Sound, CallsAreLeased
<1>2. /\ s.lease \in [Keys -> Workers \cup {Nobody}] /\ s.pc \in [Workers -> Places]
  BY DEF Manager
<1>3. ls \in [Keys -> Workers \cup {Nobody}] /\ at \in [Workers -> Places]
  BY <1>2 DEF Places
<1>4. f = [s EXCEPT !.lease = ls, !.pc = at]
  BY DEF Freed
<1>5. /\ ls[k] = Nobody /\ \A j \in Keys \ {k} : ls[j] = s.lease[j]
      /\ \A v \in Workers : s.pc[v] # "waiting" => at[v] = s.pc[v]
      /\ \A v \in Workers : s.pc[v] = "waiting" => at[v] = "woken"
  BY <1>1, <1>2
<1> HIDE DEF f, ls, at
<1>6. f \in Manager
  BY <1>3, <1>4 DEF Manager
<1>7. /\ f.lease = ls /\ f.pc = at /\ f.known = s.known /\ f.health = s.health
      /\ f.saved = s.saved /\ f.timer = s.timer /\ SameRequests(s, f)
  BY <1>4 DEF Manager, SameRequests
<1>8. Nobody \notin Workers
  BY KeyAssumption
<1> HIDE DEF k
<1>9. CallsAreLeased(f, Others(w))
  <2> SUFFICES ASSUME NEW v \in Others(w), f.pc[v] = "calling"
               PROVE  /\ f.held[v] \in Keys /\ f.lease[f.held[v]] = v
                      /\ f.pool[v] \in f.known /\ f.saved[f.pool[v]][f.held[v]].cool = 0
    BY DEF CallsAreLeased
  <2>1. v \in Workers /\ v # w /\ s.pc[v] = "calling"
    BY <1>5, <1>7 DEF Others
  <2>2. /\ s.held[v] \in Keys /\ s.lease[s.held[v]] = v
        /\ s.pool[v] \in s.known /\ s.saved[s.pool[v]][s.held[v]].cool = 0
    BY <2>1 DEF Sound, CallsAreLeased
  <2>3. s.held[v] # k
    BY <1>1, <2>1, <2>2
  <2>4. QED
    BY <1>5, <1>7, <2>2, <2>3 DEF SameRequests
<1>10. LeasesAreCalls(f, Others(w))
  <2> SUFFICES ASSUME NEW j \in Keys, f.lease[j] # Nobody
               PROVE  f.lease[j] \in Others(w) /\ f.pc[f.lease[j]] = "calling" /\ f.held[f.lease[j]] = j
    BY DEF LeasesAreCalls
  <2>1. j # k /\ f.lease[j] = s.lease[j]
    BY <1>5, <1>7
  <2>2. s.lease[j] \in Workers /\ s.pc[s.lease[j]] = "calling" /\ s.held[s.lease[j]] = j
    BY <2>1 DEF Sound, LeasesAreCalls
  <2>3. s.lease[j] # w
    BY <2>1, <2>2 DEF k
  <2>4. QED
    BY <1>5, <1>7, <2>1, <2>2, <2>3 DEF SameRequests, Others
<1>11. WaitsAreFounded(f, Others(w))
  <2> SUFFICES ASSUME NEW v \in Workers
               PROVE  /\ f.pc[v] # "waiting" /\ (f.pc[v] # "idle" => f.pool[v] \in Pools)
                      /\ f.pc[v] = "finishing" => f.held[v] \in Keys
    BY DEF WaitsAreFounded, Others
  <2>1. /\ at[v] # "waiting" /\ (at[v] # "idle" => s.pc[v] # "idle")
        /\ at[v] = "finishing" => s.pc[v] = "finishing"
    BY <1>5
  <2>2. QED
    BY <1>7, <2>1 DEF Sound, WaitsAreFounded, SameRequests
<1>12. Mirrored(f)
  BY <1>7 DEF Sound, Mirrored
<1>13. QED
  BY <1>5, <1>6, <1>7, <1>9, <1>10, <1>11, <1>12 DEF Sound, f, k

-----------------------------------------------------------------------------
\* The larger of two numbers.
LEMMA LargerOfTwo ==
  ASSUME NEW a \in Int, NEW b \in Int
  PROVE  Max({a, b}) = IF a >= b THEN a ELSE b
<1> DEFINE m == IF a >= b THEN a ELSE b
<1>1. m \in {a, b} /\ \A y \in {a, b} : m >= y
  OBVIOUS
<1>2. \A x \in {a, b} : (\A y \in {a, b} : x >= y) => x = m
  OBVIOUS
<1>3. QED
  BY <1>1, <1>2 DEF Max

\* What an answer costs its key: a term, or none.
LEMMA PenaltyIsATerm ==
  ASSUME NEW c \in Faults, NEW retry \in RetryAfters \cup {NoRetryAfter}
  PROVE  Penalty(c, retry) \in Nat
<1>1. Cooldown[c] \in Nat /\ (retry # NoRetryAfter => retry \in Nat)
  BY KeyAssumption
<1>2. CASE c = "transient" /\ retry # NoRetryAfter
  BY <1>1, <1>2, LargerOfTwo DEF Penalty
<1>3. CASE ~(c = "transient" /\ retry # NoRetryAfter)
  BY <1>1, <1>3 DEF Penalty
<1>4. QED
  BY <1>2, <1>3

\* The verdict on a key that was usable: dead means for its full term, and a class that is no
\* verdict leaves it usable.
LEMMA JudgedOK ==
  ASSUME NEW e \in Health, NEW c \in Faults \cup {"ok"}, NEW retry \in RetryAfters \cup {NoRetryAfter}
  PROVE  /\ Judged(e, c, retry) \in Health
         /\ e.cool = 0 /\ Judged(e, c, retry).status = "dead" =>
              \/ Judged(e, c, retry).cool = Cooldown["auth"] /\ c = "auth"
              \/ Judged(e, c, retry) = e
<1>1. CASE c = "ok"
  BY <1>1 DEF Judged, Health
<1>2. CASE c # "ok"
  <2> DEFINE p == Penalty(c, retry)
             st == FailureStatus(c, e.status)
             cl == IF p > 0 THEN p ELSE e.cool
  <2>1. p \in Nat /\ e.cool \in Nat /\ e.status \in {"ok", "cooldown", "dead", "no_balance"}
    BY <1>2, PenaltyIsATerm DEF Health
  <2>2. Judged(e, c, retry) = [status |-> st, cool |-> cl]
    BY <1>2 DEF Judged
  <2>3. st \in {"ok", "cooldown", "dead", "no_balance"}
    BY <2>1 DEF FailureStatus
  <2>4. e.cool = 0 /\ st = "dead" => (c = "auth" /\ cl = Cooldown["auth"]) \/ (st = e.status /\ cl = e.cool)
    <3>1. CASE c = "auth"
      <4>1. p = Cooldown["auth"]
        BY <3>1 DEF Penalty
      <4>2. QED
        BY <2>1, <3>1, <4>1
    <3>2. CASE c \in {"bad_request", "permission"}
      <4>1. p = 0 /\ st = e.status
        BY <3>2, KeyAssumption DEF Penalty, FailureStatus
      <4>2. QED
        BY <4>1
    <3>3. CASE c \notin {"auth", "bad_request", "permission"}
      BY <3>3 DEF FailureStatus
    <3>4. QED
      BY <3>1, <3>2, <3>3
  <2> HIDE DEF p, st, cl
  <2>5. [status |-> st, cool |-> cl] \in Health
    <3>1. cl \in Nat
      BY <2>1 DEF cl
    <3>2. QED
      BY <2>3, <3>1 DEF Health
  <2>6. st = e.status /\ cl = e.cool => [status |-> st, cool |-> cl] = e
    BY DEF Health
  <2>7. QED
    BY <2>2, <2>4, <2>5, <2>6
<1>3. QED
  BY <1>1, <1>2

-----------------------------------------------------------------------------
\* Entries of key k changed in the same way in both copies, while nobody has a lease on k,
\* leave the others' calls sound.
LEMMA BothCopies ==
  ASSUME NEW s \in Manager, NEW w \in Workers, Sound(s, Others(w)),
         NEW k \in Keys, s.lease[k] = Nobody,
         NEW h \in Entries, NEW v \in Entries,
         \A p \in s.known : h[p] = v[p],
         \A p \in Pools, j \in Keys : j # k => v[p][j] = s.saved[p][j]
  PROVE  /\ [s EXCEPT !.health = h, !.saved = v] \in Manager
         /\ Sound([s EXCEPT !.health = h, !.saved = v], Others(w))
<1> DEFINE t == [s EXCEPT !.health = h, !.saved = v]
<1>1. t \in Manager
  BY DEF Manager
<1>2. /\ t.health = h /\ t.saved = v /\ t.known = s.known /\ t.lease = s.lease /\ t.pc = s.pc
      /\ t.pool = s.pool /\ t.held = s.held
  BY DEF Manager
<1> HIDE DEF t
<1>3. CallsAreLeased(t, Others(w))
  <2> SUFFICES ASSUME NEW x \in Others(w), t.pc[x] = "calling"
               PROVE  /\ t.held[x] \in Keys /\ t.lease[t.held[x]] = x
                      /\ t.pool[x] \in t.known /\ t.saved[t.pool[x]][t.held[x]].cool = 0
    BY DEF CallsAreLeased
  <2>1. /\ s.held[x] \in Keys /\ s.lease[s.held[x]] = x
        /\ s.pool[x] \in s.known /\ s.saved[s.pool[x]][s.held[x]].cool = 0
    BY <1>2 DEF Sound, CallsAreLeased
  <2>2. s.held[x] # k
    BY <2>1, KeyAssumption DEF Others
  <2>3. s.pool[x] \in Pools
    BY <2>1 DEF Manager
  <2>4. v[s.pool[x]][s.held[x]] = s.saved[s.pool[x]][s.held[x]]
    BY <2>1, <2>2, <2>3
  <2>5. QED
    BY <1>2, <2>1, <2>4
<1>4. LeasesAreCalls(t, Others(w)) /\ WaitsAreFounded(t, Others(w)) /\ Mirrored(t)
  BY <1>2 DEF Sound, LeasesAreCalls, WaitsAreFounded, Mirrored
<1>5. QED
  BY <1>1, <1>3, <1>4 DEF Sound, t

\* The entry of a key in a pool, and its copy.
LEMMA WrittenOK ==
  ASSUME NEW s \in Manager, NEW w \in Workers, Sound(s, Others(w)),
         NEW p \in s.known, NEW k \in Keys, s.lease[k] = Nobody, NEW e \in Health
  PROVE  /\ Written(s, p, k, e) \in Manager /\ Sound(Written(s, p, k, e), Others(w))
         /\ Written(s, p, k, e).health[p][k] = e
         /\ \A q \in Pools, j \in Keys :
              Written(s, p, k, e).health[q][j] = s.health[q][j] \/ (q = p /\ j = k)
         /\ Written(s, p, k, e).known = s.known /\ Written(s, p, k, e).lease = s.lease
         /\ Written(s, p, k, e).pc = s.pc /\ Written(s, p, k, e).timer = s.timer
         /\ SameRequests(s, Written(s, p, k, e))
<1> DEFINE h == [s.health EXCEPT ![p][k] = e]
           v == [s.saved EXCEPT ![p][k] = e]
           t == Written(s, p, k, e)
<1>1. s.health \in Entries /\ s.saved \in Entries /\ p \in Pools /\ s.known \in SUBSET Pools
  BY DEF Manager
<1>2. t = [s EXCEPT !.health = h, !.saved = v]
  BY DEF Written, Manager
<1>3. h \in Entries /\ v \in Entries
  BY <1>1 DEF Entries
<1>4. \A q \in s.known : s.health[q] = s.saved[q]
  BY DEF Sound, Mirrored
<1>5. /\ \A q \in s.known : h[q] = v[q]
      /\ \A q \in Pools, j \in Keys : j # k => v[q][j] = s.saved[q][j]
      /\ h[p][k] = e
      /\ \A q \in Pools, j \in Keys : h[q][j] = s.health[q][j] \/ (q = p /\ j = k)
  BY <1>1, <1>4 DEF Entries
<1> HIDE DEF h, v, t
<1>6. t \in Manager /\ Sound(t, Others(w))
  BY <1>2, <1>3, <1>5, BothCopies
<1>7. /\ t.health = h /\ t.known = s.known /\ t.lease = s.lease /\ t.pc = s.pc
      /\ t.timer = s.timer /\ SameRequests(s, t)
  BY <1>2 DEF Manager, SameRequests
<1>8. QED
  BY <1>5, <1>6, <1>7 DEF t

\* Spreading a verdict: it reaches every known pool that lists the key, wherever it is the
\* longer one, and changes nothing else.
LEMMA SpreadOK ==
  ASSUME NEW s \in Manager, NEW w \in Workers, Sound(s, Others(w)),
         NEW p \in s.known, NEW k \in Keys, s.lease[k] = Nobody
  PROVE  /\ Spread(s, p, k) \in Manager /\ Sound(Spread(s, p, k), Others(w))
         /\ Spread(s, p, k).health[p] = s.health[p]
         /\ \A q \in s.known : Lists(q, k) => Spread(s, p, k).health[q][k].cool >= s.health[p][k].cool
         /\ \A q \in Pools, j \in Keys : \/ Spread(s, p, k).health[q][j] = s.health[q][j]
                                         \/ Spread(s, p, k).health[q][j] = s.health[p][k]
         /\ Spread(s, p, k).known = s.known /\ Spread(s, p, k).lease = s.lease
         /\ Spread(s, p, k).pc = s.pc /\ Spread(s, p, k).timer = s.timer
         /\ SameRequests(s, Spread(s, p, k))
<1> DEFINE e == s.health[p][k]
           reached == {q \in s.known \ {p} : Lists(q, k) /\ e.cool > s.health[q][k].cool}
           Told(g) == [q \in Pools |-> IF q \in reached THEN [g[q] EXCEPT ![k] = e] ELSE g[q]]
           h == Told(s.health)
           v == Told(s.saved)
           t == Spread(s, p, k)
<1>1. /\ s.health \in Entries /\ s.saved \in Entries /\ p \in Pools /\ s.known \in SUBSET Pools
  BY DEF Manager
<1>2. e \in Health
  BY <1>1 DEF Entries
<1>3. t = [s EXCEPT !.health = h, !.saved = v]
  BY DEF Spread
<1>4. \A q \in s.known : s.health[q] = s.saved[q]
  BY DEF Sound, Mirrored
<1> HIDE DEF e
<1>5. \A g \in Entries : Told(g) \in Entries
  BY <1>2 DEF Entries
<1>6. /\ \A q \in s.known : h[q] = v[q]
      /\ \A q \in Pools, j \in Keys : j # k => v[q][j] = s.saved[q][j]
      /\ \A q \in Pools, j \in Keys : h[q][j] = s.health[q][j] \/ h[q][j] = e
      /\ h[p] = s.health[p]
  BY <1>1, <1>4 DEF Entries
<1>7. ASSUME NEW q \in s.known, Lists(q, k)
      PROVE  h[q][k].cool >= e.cool
  <2>1. s.health[q][k] \in Health /\ q \in Pools /\ k \in DOMAIN s.health[q]
    BY <1>1 DEF Entries
  <2>2. e.cool \in Nat /\ s.health[q][k].cool \in Nat
    BY <1>2, <2>1 DEF Health
  <2>3. CASE q \in reached
    BY <2>1, <2>2, <2>3
  <2>4. CASE q \notin reached
    BY <1>7, <2>1, <2>2, <2>4 DEF e
  <2>5. QED
    BY <2>3, <2>4
<1>8. h \in Entries /\ v \in Entries
  BY <1>1, <1>5
<1> HIDE DEF h, v, t, reached
<1>9. t \in Manager /\ Sound(t, Others(w))
  BY <1>3, <1>6, <1>8, BothCopies
<1>10. /\ t.health = h /\ t.known = s.known /\ t.lease = s.lease /\ t.pc = s.pc
       /\ t.timer = s.timer /\ SameRequests(s, t)
  BY <1>3 DEF Manager, SameRequests
<1>11. QED
  BY <1>6, <1>7, <1>9, <1>10 DEF t, e

\* The step from s to t puts the verdict on k, which p found out, everywhere in full.
VerdictIsEverywhere(s, t, p, k) ==
    /\ Lists(p, k) => \A q \in s.known : Lists(q, k) => t.health[q][k].cool >= t.health[p][k].cool
    /\ \A q \in Pools, j \in Keys :
         s.health[q][j].status # "dead" /\ t.health[q][j].status = "dead"
           => t.health[q][j].cool = Cooldown["auth"]

\* A report ends the call it comes from, leaves the other requests sound, and its verdict is
\* everywhere.
LEMMA ReportedOK ==
  ASSUME NEW s \in Manager, NEW w \in Workers, Sound(s, Workers), s.pc[w] = "calling",
         NEW c \in Faults \cup {"ok"}, NEW retry \in RetryAfters \cup {NoRetryAfter},
         roster \in [Pools -> Seq(Keys)]
  PROVE  LET t == Reported(s, w, s.pool[w], s.held[w], c, retry)
         IN /\ t \in Manager /\ Sound(t, Others(w)) /\ SameRequests(s, t) /\ t.known = s.known
            /\ \A v \in Workers : s.pc[v] # "waiting" => t.pc[v] = s.pc[v]
            /\ VerdictIsEverywhere(s, t, s.pool[w], s.held[w])
<1> DEFINE p == s.pool[w]
           k == s.held[w]
           t == Reported(s, w, p, k, c, retry)
           f == Freed(s, k)
           e == Judged(f.health[p][k], c, retry)
           j == Written(f, p, k, e)
           g == IF j.health[p][k].cool > 0 THEN Spread(j, p, k) ELSE j
<1>1. k \in Keys /\ s.lease[k] = w /\ p \in s.known /\ s.saved[p][k].cool = 0
  BY DEF Sound, CallsAreLeased
<1>2. /\ s.known \in SUBSET Pools /\ s.health \in Entries /\ p \in Pools /\ s.health[p] = s.saved[p]
      /\ \A q \in Pools, i \in Keys : s.health[q][i] \in Health
  BY <1>1 DEF Manager, Sound, Mirrored, Entries
<1>3. /\ f \in Manager /\ Sound(f, Others(w)) /\ f.lease[k] = Nobody /\ f.known = s.known
      /\ f.health = s.health /\ SameRequests(s, f)
      /\ \A v \in Workers : s.pc[v] # "waiting" => f.pc[v] = s.pc[v]
  BY FreedOK
<1>4. t = IF ~Lists(p, k) THEN f ELSE SaveScheduled(g)
  BY <1>1 DEF Reported, Holds
<1> HIDE DEF t, f, k, p
<1>5. CASE ~Lists(p, k)
  BY <1>3, <1>4, <1>5 DEF VerdictIsEverywhere, t, p, k
<1>6. CASE Lists(p, k)
  <2>1. f.health[p][k] \in Health /\ f.health[p][k].cool = 0
    BY <1>1, <1>2, <1>3
  <2>2. /\ e \in Health
        /\ e.status = "dead" => e.cool = Cooldown["auth"] \/ e = f.health[p][k]
    BY <2>1, JudgedOK
  <2> HIDE DEF e
  <2>3. /\ j \in Manager /\ Sound(j, Others(w)) /\ j.health[p][k] = e
        /\ \A q \in Pools, i \in Keys : j.health[q][i] = f.health[q][i] \/ (q = p /\ i = k)
        /\ j.known = f.known /\ j.lease = f.lease /\ j.pc = f.pc /\ SameRequests(f, j)
    <3>1. f \in Manager /\ Sound(f, Others(w)) /\ p \in f.known /\ f.lease[k] = Nobody /\ k \in Keys
      BY <1>1, <1>3
    <3>2. e \in Health
      BY <2>2
    <3>3. QED
      BY <3>1, <3>2, WrittenOK
  <2> HIDE DEF j
  <2>4. j.health[p][k] = e /\ \A q \in Pools, i \in Keys : j.health[q][i] = s.health[q][i] \/ (q = p /\ i = k)
    BY <1>3, <2>3
  <2>5. e.cool \in Nat
    BY <2>2 DEF Health
  <2>6. ASSUME NEW q \in s.known, Lists(q, k), ~(j.health[p][k].cool > 0)
        PROVE  j.health[q][k].cool >= j.health[p][k].cool
    <3>1. j.health[q][k] \in Health
      BY <1>1, <1>2, <2>2, <2>4
    <3>2. QED
      BY <2>4, <2>5, <2>6, <3>1 DEF Health
  <2>7. /\ g \in Manager /\ Sound(g, Others(w)) /\ g.health[p][k] = e
        /\ \A q \in s.known : Lists(q, k) => g.health[q][k].cool >= e.cool
        /\ g.known = s.known /\ g.pc = f.pc /\ SameRequests(s, g)
        /\ \A q \in Pools, i \in Keys : g.health[q][i] = j.health[q][i] \/ (g.health[q][i] = e /\ e.cool > 0)
    <3>1. CASE j.health[p][k].cool > 0
      <4>1. g = Spread(j, p, k)
        BY <3>1
      <4>2. j \in Manager /\ Sound(j, Others(w)) /\ p \in j.known /\ j.lease[k] = Nobody /\ k \in Keys
        BY <1>1, <1>3, <2>3
      <4> HIDE DEF g
      <4>3. /\ g \in Manager /\ Sound(g, Others(w)) /\ g.health[p] = j.health[p]
            /\ \A q \in j.known : Lists(q, k) => g.health[q][k].cool >= j.health[p][k].cool
            /\ \A q \in Pools, i \in Keys : \/ g.health[q][i] = j.health[q][i]
                                            \/ g.health[q][i] = j.health[p][k]
            /\ g.known = j.known /\ g.pc = j.pc /\ SameRequests(j, g)
        BY <4>1, <4>2, SpreadOK
      <4>4. SameRequests(s, g)
        BY <1>3, <2>3, <4>3 DEF SameRequests
      <4>5. QED
        BY <1>3, <2>3, <2>4, <3>1, <4>3, <4>4
    <3>2. CASE ~(j.health[p][k].cool > 0)
      BY <1>3, <2>3, <2>4, <2>6, <3>2 DEF SameRequests
    <3>3. QED
      BY <3>1, <3>2
  <2> HIDE DEF g
  <2>8. t = [g EXCEPT !.timer = TRUE]
    BY <1>4, <1>6 DEF SaveScheduled
  <2>9. t \in Manager
    BY <2>7, <2>8 DEF Manager
  <2>10. /\ t.health = g.health /\ t.saved = g.saved /\ t.known = g.known /\ t.lease = g.lease
         /\ t.pc = g.pc /\ SameRequests(g, t)
    BY <2>7, <2>8 DEF Manager, SameRequests
  <2>11. Sound(t, Others(w))
    BY <2>7, <2>10 DEF Sound, CallsAreLeased, LeasesAreCalls, WaitsAreFounded, Mirrored, SameRequests
  <2>12. \A q \in Pools, i \in Keys :
           s.health[q][i].status # "dead" /\ t.health[q][i].status = "dead"
             => t.health[q][i].cool = Cooldown["auth"]
    <3> SUFFICES ASSUME NEW q \in Pools, NEW i \in Keys,
                        s.health[q][i].status # "dead", t.health[q][i].status = "dead"
                 PROVE  t.health[q][i].cool = Cooldown["auth"]
      OBVIOUS
    <3>1. t.health[q][i] = e
      BY <2>4, <2>7, <2>10
    <3>2. CASE e = f.health[p][k]
      <4>1. ~(e.cool > 0) /\ s.health[p][k] = e
        BY <1>3, <2>1, <3>2
      <4>2. q = p /\ i = k
        BY <2>4, <2>7, <2>10, <3>1, <4>1
      <4>3. QED
        BY <3>1, <4>1, <4>2
    <3>3. QED
      BY <2>2, <3>1, <3>2
  <2>13. VerdictIsEverywhere(s, t, p, k)
    BY <2>7, <2>10, <2>12 DEF VerdictIsEverywhere
  <2>14. QED
    BY <1>3, <2>7, <2>9, <2>10, <2>11, <2>13 DEF SameRequests, t, p, k
<1>7. QED
  BY <1>5, <1>6

-----------------------------------------------------------------------------
\* A request whose call is over, or has not begun, may be left aside.
LEMMA ApartOK ==
  ASSUME NEW s \in Manager, NEW w \in Workers, Sound(s, Workers), s.pc[w] # "calling"
  PROVE  Sound(s, Others(w))
BY DEF Sound, CallsAreLeased, LeasesAreCalls, WaitsAreFounded, Others

\* A request goes where it needs no lease.
LEMMA GoesOK ==
  ASSUME NEW s \in Manager, NEW w \in Workers, Sound(s, Others(w)),
         NEW at \in Places \ {"calling"},
         at = "waiting" => \E k \in Keys : s.lease[k] # Nobody,
         at = "finishing" => s.held[w] \in Keys,
         at # "idle" => s.pool[w] \in Pools,
         NEW t, t = [s EXCEPT !.pc[w] = at]
  PROVE  /\ t \in Manager /\ Sound(t, Workers) /\ SameRequests(s, t)
         /\ t.pc[w] = at /\ \A v \in Others(w) : t.pc[v] = s.pc[v]
         /\ t.health = s.health /\ t.known = s.known /\ t.timer = s.timer
<1> DEFINE ats == [s.pc EXCEPT ![w] = at]
<1>1. s.pc \in [Workers -> Places]
  BY DEF Manager
<1>2. ats \in [Workers -> Places] /\ ats[w] = at /\ \A v \in Others(w) : ats[v] = s.pc[v]
  BY <1>1 DEF Others
<1>3. t = [s EXCEPT !.pc = ats]
  BY DEF Manager
<1> HIDE DEF ats
<1>4. t \in Manager
  BY <1>2, <1>3 DEF Manager
<1>5. /\ t.pc = ats /\ t.known = s.known /\ t.health = s.health /\ t.saved = s.saved
      /\ t.lease = s.lease /\ t.timer = s.timer /\ SameRequests(s, t)
  BY <1>3 DEF Manager, SameRequests
<1>6. Workers = Others(w) \cup {w}
  BY DEF Others
<1>7. CallsAreLeased(t, Workers)
  BY <1>2, <1>5, <1>6 DEF Sound, CallsAreLeased, SameRequests
<1>8. LeasesAreCalls(t, Workers)
  BY <1>2, <1>5, <1>6 DEF Sound, LeasesAreCalls, SameRequests
<1>9. WaitsAreFounded(t, Workers)
  BY <1>2, <1>5, <1>6 DEF Sound, WaitsAreFounded, SameRequests
<1>10. Mirrored(t)
  BY <1>5 DEF Sound, Mirrored
<1>11. QED
  BY <1>2, <1>4, <1>5, <1>7, <1>8, <1>9, <1>10 DEF Sound

\* A request is given a key that nobody has, and that is usable in its pool.
LEMMA LeasedOK ==
  ASSUME NEW s \in Manager, NEW w \in Workers, Sound(s, Others(w)),
         NEW k \in Keys, s.lease[k] = Nobody, s.pool[w] \in s.known,
         s.health[s.pool[w]][k].cool = 0, NEW t, t = Leased(s, w, k)
  PROVE  /\ t \in Manager /\ Sound(t, Workers) /\ t.pool = s.pool /\ t.want = s.want
         /\ \A v \in Others(w) : t.pc[v] = s.pc[v] /\ t.held[v] = s.held[v]
         /\ t.health = s.health /\ t.known = s.known /\ t.timer = s.timer
<1> DEFINE ats == [s.pc EXCEPT ![w] = "calling"]
           ls == [s.lease EXCEPT ![k] = w]
           hs == [s.held EXCEPT ![w] = k]
<1>1. /\ s.pc \in [Workers -> Places] /\ s.lease \in [Keys -> Workers \cup {Nobody}]
      /\ s.held \in [Workers -> Keys \cup {NoKey}]
  BY DEF Manager
<1>2. /\ ats \in [Workers -> Places] /\ ats[w] = "calling" /\ \A v \in Others(w) : ats[v] = s.pc[v]
      /\ ls \in [Keys -> Workers \cup {Nobody}] /\ ls[k] = w /\ \A i \in Keys \ {k} : ls[i] = s.lease[i]
      /\ hs \in [Workers -> Keys \cup {NoKey}] /\ hs[w] = k /\ \A v \in Others(w) : hs[v] = s.held[v]
  BY <1>1 DEF Others, Places
<1>3. t = [s EXCEPT !.lease = ls, !.pc = ats, !.held = hs]
  BY DEF Manager, Leased
<1> HIDE DEF ats, ls, hs
<1>4. t \in Manager
  BY <1>2, <1>3 DEF Manager
<1>5. /\ t.pc = ats /\ t.lease = ls /\ t.held = hs /\ t.known = s.known /\ t.health = s.health
      /\ t.saved = s.saved /\ t.timer = s.timer /\ t.pool = s.pool /\ t.want = s.want
  BY <1>3 DEF Manager
<1>6. Workers = Others(w) \cup {w} /\ w \notin Others(w) /\ Nobody \notin Workers
  BY KeyAssumption DEF Others
<1>7. \A p \in s.known : s.health[p] = s.saved[p]
  BY DEF Sound, Mirrored
<1>8. CallsAreLeased(t, Workers)
  <2>1. ASSUME NEW v \in Others(w), t.pc[v] = "calling"
        PROVE  /\ t.held[v] \in Keys /\ t.lease[t.held[v]] = v
               /\ t.pool[v] \in t.known /\ t.saved[t.pool[v]][t.held[v]].cool = 0
    <3>1. /\ s.held[v] \in Keys /\ s.lease[s.held[v]] = v
          /\ s.pool[v] \in s.known /\ s.saved[s.pool[v]][s.held[v]].cool = 0
      BY <1>2, <1>5, <2>1 DEF Sound, CallsAreLeased
    <3>2. s.held[v] # k
      BY <1>6, <3>1
    <3>3. QED
      BY <1>2, <1>5, <3>1, <3>2
  <2>2. /\ t.held[w] \in Keys /\ t.lease[t.held[w]] = w
        /\ t.pool[w] \in t.known /\ t.saved[t.pool[w]][t.held[w]].cool = 0
    BY <1>2, <1>5, <1>7
  <2>3. QED
    BY <1>6, <2>1, <2>2 DEF CallsAreLeased
<1>9. LeasesAreCalls(t, Workers)
  <2> SUFFICES ASSUME NEW i \in Keys, t.lease[i] # Nobody
               PROVE  t.lease[i] \in Workers /\ t.pc[t.lease[i]] = "calling" /\ t.held[t.lease[i]] = i
    BY DEF LeasesAreCalls
  <2>1. CASE i = k
    BY <1>2, <1>5, <2>1
  <2>2. CASE i # k
    <3>1. t.lease[i] = s.lease[i]
      BY <1>2, <1>5, <2>2
    <3>2. s.lease[i] \in Others(w) /\ s.pc[s.lease[i]] = "calling" /\ s.held[s.lease[i]] = i
      BY <3>1 DEF Sound, LeasesAreCalls
    <3>3. QED
      BY <1>2, <1>5, <1>6, <3>1, <3>2
  <2>3. QED
    BY <2>1, <2>2
<1>10. WaitsAreFounded(t, Workers)
  <2>1. \E i \in Keys : t.lease[i] # Nobody
    BY <1>2, <1>5, <1>6
  <2>2. s.pool[w] \in Pools
    BY DEF Manager
  <2>3. QED
    BY <1>2, <1>5, <1>6, <2>1, <2>2 DEF Sound, WaitsAreFounded
<1>11. Mirrored(t)
  BY <1>5, <1>7 DEF Mirrored
<1>12. QED
  BY <1>2, <1>4, <1>5, <1>8, <1>9, <1>10, <1>11 DEF Sound

-----------------------------------------------------------------------------
\* A finite, nonempty set of naturals has a least element.
LEMMA LeastIn ==
  ASSUME NEW I \in SUBSET Nat, IsFiniteSet(I), I # {}
  PROVE  \E x \in I : \A y \in I : x <= y
<1>1. Cardinality(I) \in Nat /\ Cardinality(I) # 0
  BY FS_CardinalityType, FS_EmptySet
<1> DEFINE x == Nth(I, 1)
<1>2. x \in I /\ Rank(I, x) = 1
  BY <1>1, NthProperties
<1>3. ASSUME NEW y \in I
      PROVE  x <= y
  <2>1. Rank(I, y) \in 1 .. Cardinality(I)
    BY RankProperties
  <2>2. y < x => Rank(I, y) < 1
    BY <1>2, RankProperties
  <2>3. x \in Nat /\ y \in Nat
    BY <1>2
  <2>4. QED
    BY <1>1, <2>1, <2>2, <2>3
<1>4. QED
  BY <1>2, <1>3

\* Round robin comes to one of the usable places, if there is one.
LEMMA NextPlaceOK ==
  ASSUME NEW s \in Manager, NEW p \in Pools, roster[p] \in Seq(Keys),
         NEW places \in SUBSET DOMAIN roster[p], places # {}
  PROVE  NextPlace(s, p, places) \in places
<1> DEFINE n == Len(roster[p])
           d(i) == (i - 1 - s.rr[p]) % n
           D == {d(i) : i \in places}
<1>1. n \in Nat /\ places \in SUBSET (1 .. n)
  BY LenProperties
<1>2. n > 0 /\ s.rr[p] \in Nat
  BY <1>1 DEF Manager
<1>3. \A i \in places : d(i) \in 0 .. n - 1
  BY <1>1, <1>2
<1>4. D \in SUBSET (0 .. n - 1) /\ D # {} /\ 0 .. n - 1 \subseteq Nat
  BY <1>1, <1>3
<1>5. IsFiniteSet(D)
  <2>1. IsFiniteSet(0 .. n - 1)
    BY <1>1, FS_Interval
  <2>2. QED
    BY <1>4, <2>1, FS_Subset
<1>6. PICK x \in D : \A y \in D : x <= y
  <2>1. D \in SUBSET Nat
    BY <1>4
  <2> HIDE DEF D
  <2>2. QED
    BY <1>4, <1>5, <2>1, LeastIn
<1>7. \E i \in places : \A j \in places : d(i) <= d(j)
  BY <1>6
<1>8. QED
  BY <1>7 DEF NextPlace

\* One turn of acquiring leaves every request sound, and touches no pool that was known.
LEMMA AcquireOK ==
  ASSUME NEW s \in Manager, NEW w \in Workers, Sound(s, Others(w)), NEW p \in Pools,
         NEW k \in Keys \cup {NoKey}, s.pool[w] = p, roster \in [Pools -> Seq(Keys)],
         NEW t \in Acquire(s, w, p, k)
  PROVE  /\ t \in Manager /\ Sound(t, Workers) /\ t.pool = s.pool /\ t.want = s.want
         /\ t.known = s.known \cup {p} /\ t.timer = s.timer
         /\ \A q \in Pools : q \in s.known \/ q # p => t.health[q] = s.health[q]
         /\ \A v \in Others(w) : t.pc[v] = s.pc[v] /\ t.held[v] = s.held[v]
<1> DEFINE r == Registered(s, {p})
<1>1. /\ r \in Manager /\ r.known = s.known \cup {p} /\ r.timer = s.timer /\ r.pc = s.pc
      /\ r.pool = s.pool /\ r.want = s.want /\ r.held = s.held
      /\ \A q \in Pools : q \in s.known \/ q # p => r.health[q] = s.health[q]
  BY RegisteredOK DEF SameRequests
<1>2. Sound(r, Others(w))
  BY RegisteredSound DEF Others
<1>3. /\ r.lease \in [Keys -> Workers \cup {Nobody}] /\ r.pc \in [Workers -> Places]
      /\ r.held \in [Workers -> Keys \cup {NoKey}] /\ r.rr \in [Pools -> Nat]
  BY <1>1 DEF Manager
<1> HIDE DEF r
<1>4. ASSUME NEW at \in {"idle", "waiting", "napping"},
             at = "waiting" => \E j \in Keys : r.lease[j] # Nobody,
             t = [r EXCEPT !.pc[w] = at]
      PROVE  /\ t \in Manager /\ Sound(t, Workers) /\ t.pool = r.pool /\ t.want = r.want
             /\ t.known = r.known /\ t.timer = r.timer /\ t.health = r.health
             /\ \A v \in Others(w) : t.pc[v] = r.pc[v] /\ t.held[v] = r.held[v]
  <2>1. at \in Places \ {"calling"} /\ at # "finishing" /\ r.pool[w] \in Pools
    BY <1>1 DEF Places
  <2>2. /\ t \in Manager /\ Sound(t, Workers) /\ \A v \in Others(w) : t.pc[v] = r.pc[v]
        /\ t.health = r.health /\ t.known = r.known /\ t.timer = r.timer /\ SameRequests(r, t)
    BY <1>1, <1>2, <1>4, <2>1, GoesOK
  <2>3. QED
    BY <1>3, <2>2 DEF SameRequests, Others
<1>5. ASSUME NEW j \in Keys, r.lease[j] = Nobody, r.health[p][j].cool = 0
      PROVE  LET l == Leased(r, w, j)
             IN /\ l \in Manager /\ Sound(l, Workers) /\ l.pool = r.pool /\ l.want = r.want
                /\ l.known = r.known /\ l.timer = r.timer /\ l.health = r.health
                /\ \A v \in Others(w) : l.pc[v] = r.pc[v] /\ l.held[v] = r.held[v]
  BY <1>1, <1>2, <1>5, LeasedOK
<1>6. CASE k = NoKey
  <2> DEFINE places == Free(r, p)
             i == NextPlace(r, p, places)
             n == Len(roster[p])
  <2>1. t \in AcquireAny(r, w, p)
    BY <1>6 DEF Acquire, r
  <2>2. roster[p] \in Seq(Keys) /\ n \in Nat /\ DOMAIN roster[p] = 1 .. n
        /\ \A x \in 1 .. n : roster[p][x] \in Keys
    BY LenProperties, ElementOfSeq
  <2>3. CASE roster[p] = <<>> \/ t \in Goes(r, w, {"napping", "idle"})
    <3>1. t \in Goes(r, w, {"napping", "idle"})
      BY <2>1, <2>3 DEF AcquireAny, Goes
    <3>2. PICK at \in {"napping", "idle"} : t = [r EXCEPT !.pc[w] = at]
      BY <3>1 DEF Goes
    <3>3. QED
      BY <1>1, <1>4, <3>2
  <2>4. CASE t \in Goes(r, w, {"waiting"}) /\ \E j \in Keys : r.lease[j] # Nobody
    <3>1. t = [r EXCEPT !.pc[w] = "waiting"]
      BY <2>4 DEF Goes
    <3>2. QED
      BY <1>1, <1>4, <2>4, <3>1
  <2>5. CASE roster[p] # <<>> /\ places # {}
    <3> DEFINE j == roster[p][i]
               l == Leased(r, w, j)
               m == [r.rr EXCEPT ![p] = i % n]
    <3>1. i \in places /\ i \in 1 .. n
      <4>1. places \in SUBSET DOMAIN roster[p] /\ places # {}
        BY <2>5 DEF Free
      <4> HIDE DEF places
      <4>2. i \in places
        BY <1>1, <2>2, <4>1, NextPlaceOK
      <4>3. QED
        BY <2>2, <4>1, <4>2
    <3>2. j \in Keys /\ r.lease[j] = Nobody /\ r.health[p][j].cool = 0
      BY <2>2, <3>1 DEF Free
    <3>3. m \in [Pools -> Nat]
      BY <1>3, <2>2, <3>1
    <3>4. t = [Leased(r, w, roster[p][i]) EXCEPT !.rr[p] = i % Len(roster[p])]
      BY <2>1, <2>5 DEF AcquireAny
    <3> HIDE DEF i, j, n, places
    <3>5. l.rr = r.rr
      BY <1>1 DEF Leased, Manager
    <3>6. /\ l \in Manager /\ Sound(l, Workers) /\ l.pool = r.pool /\ l.want = r.want
          /\ l.known = r.known /\ l.timer = r.timer /\ l.health = r.health
          /\ \A v \in Others(w) : l.pc[v] = r.pc[v] /\ l.held[v] = r.held[v]
      BY <1>5, <3>2
    <3>7. t = [l EXCEPT !.rr = m]
      <4>1. t = [l EXCEPT !.rr[p] = i % n]
        BY <3>4 DEF j, n
      <4> HIDE DEF l
      <4>2. QED
        BY <3>5, <3>6, <4>1 DEF Manager
    <3> HIDE DEF l, m
    <3>8. t \in Manager
      BY <3>3, <3>6, <3>7 DEF Manager
    <3>9. /\ t.known = l.known /\ t.health = l.health /\ t.saved = l.saved /\ t.timer = l.timer
          /\ t.lease = l.lease /\ t.pc = l.pc /\ t.pool = l.pool /\ t.want = l.want /\ t.held = l.held
      BY <3>6, <3>7 DEF Manager
    <3>10. Sound(t, Workers)
      BY <3>6, <3>9 DEF Sound, CallsAreLeased, LeasesAreCalls, WaitsAreFounded, Mirrored
    <3>11. QED
      BY <1>1, <3>6, <3>8, <3>9, <3>10
  <2>6. QED
    <3> DEFINE busy == \E j \in Range(roster[p]) : r.health[p][j].cool = 0 /\ r.lease[j] # Nobody
    <3>1. busy => \E j \in Keys : r.lease[j] # Nobody
      BY <2>2 DEF Range
    <3>2. roster[p] # <<>> /\ places = {} /\ busy => t \in Goes(r, w, {"waiting"})
      BY <2>1 DEF AcquireAny
    <3>3. roster[p] # <<>> /\ places = {} /\ ~busy => t \in Goes(r, w, {"napping", "idle"})
      BY <2>1 DEF AcquireAny
    <3> HIDE DEF busy, places
    <3>4. QED
      BY <2>3, <2>4, <2>5, <3>1, <3>2, <3>3
<1>7. CASE k \in Keys
  <2>1. t \in AcquireSpecific(r, w, p, k)
    BY <1>7, KeyAssumption DEF Acquire, r
  <2>2. CASE t \in Goes(r, w, {"napping", "idle"}) \/ t \in Goes(r, w, {"idle"})
    <3>1. PICK at \in {"napping", "idle"} : t = [r EXCEPT !.pc[w] = at]
      BY <2>2 DEF Goes
    <3>2. QED
      BY <1>1, <1>4, <3>1
  <2>3. CASE r.lease[k] # Nobody /\ t \in Goes(r, w, {"waiting"})
    <3>1. t = [r EXCEPT !.pc[w] = "waiting"]
      BY <2>3 DEF Goes
    <3>2. QED
      BY <1>1, <1>4, <1>7, <2>3, <3>1
  <2>4. CASE r.lease[k] = Nobody /\ ~(r.health[p][k].cool > 0) /\ t = Leased(r, w, k)
    <3>1. r.health[p][k].cool = 0
      <4>1. r.health[p][k] \in Health
        BY <1>1, <1>7 DEF Manager, Entries
      <4>2. QED
        BY <2>4, <4>1 DEF Health
    <3>2. QED
      BY <1>1, <1>5, <1>7, <2>4, <3>1
  <2>5. QED
    BY <2>1, <2>2, <2>3, <2>4 DEF AcquireSpecific
<1>8. QED
  BY <1>6, <1>7

-----------------------------------------------------------------------------
\* What a step hands to the next one is sound.
Handed == Now' \in Manager /\ Sound(Now', Workers)

\* The calls of W go on.
Undisturbed(W) == \A v \in W : Calling(v) => pc'[v] = "calling" /\ held'[v] = held[v]

\* Dropping the locals of the requests that are over.
LEMMA BecomesOK ==
  ASSUME NEW s \in Manager, Sound(s, Workers), Becomes(s)
  PROVE  /\ Handed /\ health' = s.health /\ known' = s.known /\ timer' = s.timer /\ pc' = s.pc
         /\ \A v \in Workers : s.pc[v] = "calling" => held'[v] = s.held[v]
<1>1. /\ s.pc \in [Workers -> Places] /\ s.pool \in [Workers -> Pools \cup {NoPool}]
      /\ s.want \in [Workers -> Keys \cup {NoKey}] /\ s.held \in [Workers -> Keys \cup {NoKey}]
      /\ s.known \in SUBSET Pools /\ s.rr \in [Pools -> Nat] /\ s.health \in Entries
      /\ s.saved \in Entries /\ s.timer \in BOOLEAN /\ s.lease \in [Keys -> Workers \cup {Nobody}]
  BY DEF Manager
<1>2. /\ known' = s.known /\ rr' = s.rr /\ health' = s.health /\ saved' = s.saved
      /\ timer' = s.timer /\ lease' = s.lease /\ pc' = s.pc
  BY DEF Becomes
<1>3. /\ pool' \in [Workers -> Pools \cup {NoPool}]
      /\ want' \in [Workers -> Keys \cup {NoKey}] /\ held' \in [Workers -> Keys \cup {NoKey}]
  BY <1>1 DEF Becomes
<1>4. /\ \A v \in Workers : s.pc[v] # "idle" => pool'[v] = s.pool[v]
      /\ \A v \in Workers : s.pc[v] \in {"calling", "finishing"} => held'[v] = s.held[v]
  BY DEF Becomes
<1> DEFINE t == Now'
<1>5. /\ t.known = s.known /\ t.rr = s.rr /\ t.health = s.health /\ t.saved = s.saved
      /\ t.timer = s.timer /\ t.lease = s.lease /\ t.pc = s.pc
      /\ t.pool = pool' /\ t.want = want' /\ t.held = held'
  BY <1>2 DEF Now
<1>6. t \in Manager
  BY <1>1, <1>2, <1>3 DEF Now, Manager
<1> HIDE DEF t
<1>7. CallsAreLeased(t, Workers)
  BY <1>4, <1>5 DEF Sound, CallsAreLeased
<1>8. LeasesAreCalls(t, Workers)
  BY <1>4, <1>5 DEF Sound, LeasesAreCalls
<1>9. WaitsAreFounded(t, Workers)
  BY <1>4, <1>5 DEF Sound, WaitsAreFounded
<1>10. Mirrored(t)
  BY <1>5 DEF Sound, Mirrored
<1>11. QED
  BY <1>2, <1>4, <1>6, <1>7, <1>8, <1>9, <1>10 DEF Sound, Handed, t

\* A request settles somewhere where it needs no lease.
LEMMA SettledOK ==
  ASSUME NEW s \in Manager, NEW w \in Workers, Sound(s, Others(w)),
         NEW at \in Places \ {"calling"},
         at = "waiting" => \E k \in Keys : s.lease[k] # Nobody,
         at = "finishing" => s.held[w] \in Keys,
         at # "idle" => s.pool[w] \in Pools,
         NEW t, t = [s EXCEPT !.pc[w] = at], Becomes(t)
  PROVE  /\ Handed /\ health' = s.health /\ known' = s.known /\ timer' = s.timer
         /\ \A v \in Others(w) : s.pc[v] = "calling" => pc'[v] = "calling" /\ held'[v] = s.held[v]
<1>1. /\ t \in Manager /\ Sound(t, Workers) /\ SameRequests(s, t)
      /\ \A v \in Others(w) : t.pc[v] = s.pc[v]
      /\ t.health = s.health /\ t.known = s.known /\ t.timer = s.timer
  BY GoesOK
<1>2. /\ Handed /\ health' = t.health /\ known' = t.known /\ timer' = t.timer /\ pc' = t.pc
      /\ \A v \in Workers : t.pc[v] = "calling" => held'[v] = t.held[v]
  BY <1>1, BecomesOK
<1>3. QED
  BY <1>1, <1>2 DEF SameRequests, Others

\* A request asks for a key of a pool it draws from.
LEMMA AskedOK ==
  ASSUME IInv, NEW w \in Workers, ~Calling(w), NEW p \in Pools, NEW k \in Keys \cup {NoKey},
         NEW s \in Manager, s.pool[w] = p, Sound(s, Others(w)),
         s.pc = pc, s.held = held,
         NEW t \in Acquire(s, w, p, k), Becomes(t)
  PROVE  Handed /\ Undisturbed(Workers)
<1>1. /\ t \in Manager /\ Sound(t, Workers)
      /\ \A v \in Others(w) : t.pc[v] = s.pc[v] /\ t.held[v] = s.held[v]
  BY AcquireOK DEF IInv
<1>2. /\ Handed /\ pc' = t.pc
      /\ \A v \in Workers : t.pc[v] = "calling" => held'[v] = t.held[v]
  BY <1>1, BecomesOK
<1>3. QED
  BY <1>1, <1>2 DEF Undisturbed, Calling, Others

\* A request that asks leaves what is sound sound, and no call disturbed.
LEMMA AskOK ==
  ASSUME IInv, NEW w \in Workers, NEW p \in Pools, NEW k \in Keys \cup {NoKey}, Ask(w, p, k)
  PROVE  Handed /\ Undisturbed(Workers)
<1> DEFINE s == [Now EXCEPT !.pool[w] = p, !.want[w] = k]
           ps == [pool EXCEPT ![w] = p]
           ws == [want EXCEPT ![w] = k]
<1>1. PICK t \in Acquire(s, w, p, k) : Becomes(t)
  BY DEF Ask
<1>2. Now \in Manager /\ Sound(Now, Workers) /\ pc[w] = "idle"
  BY DEF IInv, Ask
<1>3. /\ pool \in [Workers -> Pools \cup {NoPool}] /\ want \in [Workers -> Keys \cup {NoKey}]
  BY <1>2 DEF Manager, Now
<1>4. /\ ps \in [Workers -> Pools \cup {NoPool}] /\ ps[w] = p
      /\ ws \in [Workers -> Keys \cup {NoKey}] /\ \A v \in Others(w) : ps[v] = pool[v]
  BY <1>3 DEF Others
<1>5. s = [Now EXCEPT !.pool = ps, !.want = ws]
  BY DEF Now
<1> HIDE DEF s, ps, ws
<1>6. s \in Manager
  BY <1>2, <1>4, <1>5 DEF Manager
<1>7. /\ s.pool = ps /\ s.pc = pc /\ s.held = held /\ s.lease = lease /\ s.known = known
      /\ s.saved = saved /\ s.health = health
  BY <1>5 DEF Now
<1>8. Sound(Now, Others(w))
  BY <1>2, ApartOK DEF Now
<1>9. /\ Now.pool = pool /\ Now.pc = pc /\ Now.held = held /\ Now.lease = lease
      /\ Now.known = known /\ Now.saved = saved /\ Now.health = health
  BY DEF Now
<1>10. Sound(s, Others(w))
  BY <1>4, <1>7, <1>8, <1>9 DEF Sound, CallsAreLeased, LeasesAreCalls, WaitsAreFounded, Mirrored
<1>11. QED
  BY <1>1, <1>2, <1>4, <1>6, <1>7, <1>10, AskedOK DEF Calling

\* So does one that asks again.
LEMMA AskAgainOK ==
  ASSUME IInv, NEW w \in Workers, AskAgain(w)
  PROVE  Handed /\ Undisturbed(Workers)
<1>1. PICK t \in Acquire(Now, w, pool[w], want[w]) : Becomes(t)
  BY DEF AskAgain
<1>2. Now \in Manager /\ Sound(Now, Workers) /\ pc[w] \in {"woken", "napping"}
  BY DEF IInv, AskAgain
<1>3. Now.pool = pool /\ Now.pc = pc /\ Now.held = held /\ Now.want = want
  BY DEF Now
<1>4. pool[w] \in Pools /\ want[w] \in Keys \cup {NoKey}
  BY <1>2, <1>3 DEF Sound, WaitsAreFounded, Manager
<1>5. Sound(Now, Others(w))
  BY <1>2, <1>3, ApartOK
<1>6. QED
  BY <1>1, <1>2, <1>3, <1>4, <1>5, AskedOK DEF Calling


-----------------------------------------------------------------------------
\* What the call of w, which ends, found out is everywhere, and the other calls go on.
CallIsOver(w) ==
    Handed /\ Undisturbed(Others(w)) /\ VerdictIsEverywhere(Now, Now', pool[w], held[w])

\* What is known of a call under way.
LEMMA CallingOK ==
  ASSUME IInv, NEW w \in Workers, Calling(w)
  PROVE  /\ Now \in Manager /\ Sound(Now, Workers) /\ roster \in [Pools -> Seq(Keys)]
         /\ held[w] \in Keys /\ pool[w] \in known /\ pool[w] \in Pools /\ known \subseteq Pools
         /\ health[pool[w]][held[w]].cool = 0
<1>1. Now \in Manager /\ Sound(Now, Workers) /\ roster \in [Pools -> Seq(Keys)]
  BY DEF IInv
<1>2. known \subseteq Pools /\ health \in Entries
  BY <1>1 DEF Now, Manager
<1>3. /\ held[w] \in Keys /\ pool[w] \in known /\ saved[pool[w]][held[w]].cool = 0
      /\ health[pool[w]] = saved[pool[w]]
  BY <1>1 DEF Now, Sound, CallsAreLeased, Mirrored, Calling
<1>4. QED
  BY <1>1, <1>2, <1>3

\* The manager once a call has reported: the others are where they were.
LEMMA AfterOK ==
  ASSUME IInv, NEW w \in Workers, Calling(w),
         NEW c \in Faults \cup {"ok"}, NEW retry \in RetryAfters \cup {NoRetryAfter},
         NEW s, s = After(w, c, retry)
  PROVE  /\ s \in Manager /\ Sound(s, Others(w)) /\ s.known = known /\ s.pool = pool
         /\ s.want = want /\ s.held = held
         /\ \A v \in Workers : Calling(v) => s.pc[v] = "calling"
         /\ VerdictIsEverywhere(Now, s, pool[w], held[w])
<1>1. /\ Now \in Manager /\ Sound(Now, Workers) /\ roster \in [Pools -> Seq(Keys)]
  BY CallingOK
<1>2. /\ Now.pool = pool /\ Now.pc = pc /\ Now.held = held /\ Now.want = want /\ Now.known = known
  BY DEF Now
<1>3. /\ Now.pc[w] = "calling" /\ s = Reported(Now, w, Now.pool[w], Now.held[w], c, retry)
  BY <1>2 DEF Calling, After
<1>4. /\ s \in Manager /\ Sound(s, Others(w)) /\ SameRequests(Now, s) /\ s.known = Now.known
      /\ \A v \in Workers : Now.pc[v] # "waiting" => s.pc[v] = Now.pc[v]
      /\ VerdictIsEverywhere(Now, s, Now.pool[w], Now.held[w])
  BY <1>1, <1>3, ReportedOK
<1>5. QED
  BY <1>2, <1>4 DEF SameRequests, Calling

\* A call that reports and goes nowhere it needs a lease is over.
LEMMA ReportsOK ==
  ASSUME IInv, NEW w \in Workers, Calling(w),
         NEW c \in Faults \cup {"ok"}, NEW retry \in RetryAfters \cup {NoRetryAfter},
         NEW at \in {"idle", "finishing"}, Settles(After(w, c, retry), w, at)
  PROVE  CallIsOver(w)
<1> DEFINE s == After(w, c, retry)
<1>1. /\ s \in Manager /\ Sound(s, Others(w)) /\ s.pool = pool /\ s.held = held
      /\ \A v \in Workers : Calling(v) => s.pc[v] = "calling"
      /\ VerdictIsEverywhere(Now, s, pool[w], held[w])
  BY AfterOK
<1>2. Becomes([s EXCEPT !.pc[w] = at])
  BY DEF Settles
<1> HIDE DEF s
<1>3. PICK t : t = [s EXCEPT !.pc[w] = at] /\ Becomes(t)
  BY <1>2
<1>4. /\ s.held[w] \in Keys /\ s.pool[w] \in Pools
      /\ at \in Places \ {"calling"} /\ at # "waiting"
  BY <1>1, CallingOK DEF Places
<1>5. /\ Handed /\ health' = s.health
      /\ \A v \in Others(w) : s.pc[v] = "calling" => pc'[v] = "calling" /\ held'[v] = s.held[v]
  BY <1>1, <1>3, <1>4, SettledOK
<1>6. Undisturbed(Others(w))
  BY <1>1, <1>5 DEF Undisturbed, Others
<1>7. Now'.health = s.health
  BY <1>5 DEF Now
<1>8. VerdictIsEverywhere(Now, Now', pool[w], held[w])
  BY <1>1, <1>7 DEF VerdictIsEverywhere
<1>9. QED
  BY <1>5, <1>6, <1>8 DEF CallIsOver

\* A call that gives its key back without a verdict is over.
LEMMA GivesBackOK ==
  ASSUME IInv, NEW w \in Workers, GivesBack(w)
  PROVE  CallIsOver(w)
<1> DEFINE s == Freed(Now, Now.held[w])
<1>1. /\ Now \in Manager /\ Sound(Now, Workers) /\ Calling(w)
      /\ health[pool[w]][held[w]].cool = 0 /\ held[w] \in Keys /\ known \subseteq Pools
  BY CallingOK DEF GivesBack
<1>2. /\ Now.pool = pool /\ Now.pc = pc /\ Now.held = held /\ Now.health = health /\ Now.lease = lease
  BY DEF Now
<1>3. /\ s \in Manager /\ Sound(s, Others(w)) /\ s.health = health
      /\ \A v \in Workers : Calling(v) => s.pc[v] = "calling"
      /\ s.held = held
  BY <1>1, <1>2, FreedOK DEF Calling, SameRequests
<1>4. Becomes([s EXCEPT !.pc[w] = "idle"])
  <2>1. lease[held[w]] = w
    BY <1>1, <1>2 DEF Sound, CallsAreLeased, Calling
  <2>2. QED
    BY <1>2, <2>1 DEF GivesBack, Released, Holds, Settles
<1> HIDE DEF s
<1>5. PICK t : t = [s EXCEPT !.pc[w] = "idle"] /\ Becomes(t)
  BY <1>4
<1>6. /\ Handed /\ health' = s.health
      /\ \A v \in Others(w) : s.pc[v] = "calling" => pc'[v] = "calling" /\ held'[v] = s.held[v]
  BY <1>3, <1>5, SettledOK DEF Places
<1>7. Undisturbed(Others(w))
  BY <1>3, <1>6 DEF Undisturbed, Others
<1>8. \A q \in known : health[q][held[w]].cool >= 0
  <2>1. health \in Entries
    BY <1>1 DEF Now, Manager
  <2>2. \A q \in known : health[q][held[w]] \in Health
    BY <1>1, <2>1 DEF Entries
  <2>3. QED
    BY <2>2 DEF Health
<1>9. VerdictIsEverywhere(Now, Now', pool[w], held[w])
  <2>1. Now'.health = health /\ Now.known = known
    BY <1>3, <1>6 DEF Now
  <2>2. QED
    BY <1>1, <1>2, <1>8, <2>1 DEF VerdictIsEverywhere
<1>10. QED
  BY <1>6, <1>7, <1>9 DEF CallIsOver

\* A call that fails over to the next key is over, and the next one is sound.
LEMMA FailsOverOK ==
  ASSUME IInv, NEW w \in Workers, FailsOver(w)
  PROVE  CallIsOver(w)
<1>1. PICK c \in Answers \ {"bad_request", "permission"}, retry \in RetryAfters \cup {NoRetryAfter} :
        \/ \E t \in Acquire(After(w, c, retry), w, pool[w], NoKey) : Becomes(t)
        \/ Settles(After(w, c, retry), w, "idle")
  BY DEF FailsOver
<1>2. c \in Faults \cup {"ok"} /\ Calling(w)
  BY KeyAssumption DEF FailsOver
<1>3. CASE Settles(After(w, c, retry), w, "idle")
  BY <1>2, <1>3, ReportsOK
<1>4. ASSUME NEW t \in Acquire(After(w, c, retry), w, pool[w], NoKey), Becomes(t)
      PROVE  CallIsOver(w)
  <2> DEFINE s == After(w, c, retry)
  <2>1. /\ s \in Manager /\ Sound(s, Others(w)) /\ s.known = known /\ s.pool = pool /\ s.held = held
        /\ \A v \in Workers : Calling(v) => s.pc[v] = "calling"
        /\ VerdictIsEverywhere(Now, s, pool[w], held[w])
    BY <1>2, AfterOK
  <2>2. t \in Acquire(s, w, pool[w], NoKey)
    BY <1>4
  <2> HIDE DEF s
  <2>3. pool[w] \in known /\ pool[w] \in Pools /\ known \subseteq Pools /\ roster \in [Pools -> Seq(Keys)]
    BY <1>2, CallingOK
  <2>4. /\ t \in Manager /\ Sound(t, Workers)
        /\ \A q \in Pools : q \in s.known \/ q # pool[w] => t.health[q] = s.health[q]
        /\ \A v \in Others(w) : t.pc[v] = s.pc[v] /\ t.held[v] = s.held[v]
    BY <2>1, <2>2, <2>3, AcquireOK
  <2>5. /\ Handed /\ health' = t.health /\ pc' = t.pc
        /\ \A v \in Workers : t.pc[v] = "calling" => held'[v] = t.held[v]
    BY <1>4, <2>4, BecomesOK
  <2>6. Undisturbed(Others(w))
    BY <2>1, <2>4, <2>5 DEF Undisturbed, Others
  <2>7. \A q \in Pools : Now'.health[q] = s.health[q]
    BY <2>1, <2>3, <2>4, <2>5 DEF Now
  <2>8. Now.known = known
    BY DEF Now
  <2>9. VerdictIsEverywhere(Now, Now', pool[w], held[w])
    BY <2>1, <2>3, <2>7, <2>8 DEF VerdictIsEverywhere
  <2>10. QED
    BY <2>5, <2>6, <2>9 DEF CallIsOver
<1>5. QED
  BY <1>1, <1>3, <1>4

\* Whatever becomes of a call, it is over.
LEMMA CallOK ==
  ASSUME IInv, NEW w \in Workers, Call(w)
  PROVE  CallIsOver(w) /\ Calling(w)
<1>1. CASE Succeeds(w)
  <2>1. PICK at \in {"idle", "finishing"} : Settles(After(w, "ok", NoRetryAfter), w, at)
    BY <1>1 DEF Succeeds
  <2>2. Calling(w)
    BY <1>1 DEF Succeeds
  <2>3. QED
    BY <2>1, <2>2, ReportsOK
<1>2. CASE FailsOver(w)
  BY <1>2, FailsOverOK DEF FailsOver
<1>3. CASE OurBug(w)
  <2>1. PICK c \in {"unknown", "bad_request"} : Settles(After(w, c, NoRetryAfter), w, "idle")
    BY <1>3 DEF OurBug
  <2>2. Calling(w) /\ c \in Faults \cup {"ok"}
    BY <1>3 DEF OurBug, Faults
  <2>3. QED
    BY <2>1, <2>2, ReportsOK
<1>4. CASE GivesBack(w)
  BY <1>4, GivesBackOK DEF GivesBack
<1>5. CASE \E c \in Answers \cap {"bad_request", "permission"} : Refused(w, c)
  <2>1. PICK c \in Answers : Refused(w, c)
    BY <1>5
  <2>2. /\ Calling(w) /\ c \in Faults \cup {"ok"} /\ Settles(After(w, c, NoRetryAfter), w, "idle")
    BY <2>1, KeyAssumption DEF Refused
  <2>3. QED
    BY <2>2, ReportsOK
<1>6. CASE \E c \in Answers : ProbeFails(w, c)
  <2>1. PICK c \in Answers : ProbeFails(w, c)
    BY <1>6
  <2>2. Verdict(c) \in Faults \cup {"ok"}
    BY KeyAssumption DEF Verdict, Faults
  <2>3. PICK retry \in RetryAfters \cup {NoRetryAfter} : Settles(After(w, Verdict(c), retry), w, "idle")
    BY <2>1 DEF ProbeFails
  <2>4. Calling(w)
    BY <2>1 DEF ProbeFails
  <2>5. QED
    BY <2>2, <2>3, <2>4, ReportsOK
<1>7. QED
  BY <1>1, <1>2, <1>3, <1>4, <1>5, <1>6 DEF Call


-----------------------------------------------------------------------------
\* Whatever a job whose document is saved says of its key, it has no lease to say it under.
LEMMA FinishesOK ==
  ASSUME IInv, NEW w \in Workers, Finishes(w) \/ StopsWaiting(w)
  PROVE  Handed /\ Undisturbed(Workers)
<1>1. /\ Now \in Manager /\ Sound(Now, Workers) /\ ~Calling(w)
  BY DEF IInv, Finishes, StopsWaiting, Calling
<1>2. /\ Now.pc = pc /\ Now.held = held /\ Now.lease = lease
  BY DEF Now
<1>3. Settles(Now, w, "idle")
  <2>1. CASE StopsWaiting(w)
    BY <2>1 DEF StopsWaiting
  <2>2. CASE Finishes(w)
    <3>1. held[w] \in Keys /\ lease[held[w]] # w
      BY <1>1, <1>2, <2>2, KeyAssumption DEF Sound, WaitsAreFounded, LeasesAreCalls, Calling, Finishes
    <3>2. After(w, "unknown", NoRetryAfter) = Now /\ Released(Now, w, held[w]) = Now
      BY <1>2, <3>1 DEF After, Reported, Released, Holds
    <3>3. QED
      BY <2>2, <3>2 DEF Finishes
  <2>3. QED
    BY <2>1, <2>2
<1>4. Becomes([Now EXCEPT !.pc[w] = "idle"])
  BY <1>3 DEF Settles
<1>5. PICK t : t = [Now EXCEPT !.pc[w] = "idle"] /\ Becomes(t)
  BY <1>4
<1>6. Sound(Now, Others(w))
  BY <1>1, <1>2, ApartOK DEF Calling
<1>7. /\ Handed
      /\ \A v \in Others(w) : Now.pc[v] = "calling" => pc'[v] = "calling" /\ held'[v] = Now.held[v]
  BY <1>1, <1>5, <1>6, SettledOK DEF Places
<1>8. QED
  BY <1>1, <1>2, <1>7 DEF Undisturbed, Others, Calling

-----------------------------------------------------------------------------
\* A pool that is read again, after its list changed, says what is persisted.
LEMMA ReconfigureOK ==
  ASSUME IInv, NEW p \in Pools, NEW keys \in Rosters[p], Reconfigure(p, keys)
  PROVE  /\ roster' \in [Pools -> Seq(Keys)] /\ disk' \in Entries
         /\ Handed /\ Undisturbed(Workers)
<1> DEFINE gone == Range(roster[p]) \ Range(keys)
           kept == [saved EXCEPT ![p] = [k \in Keys |-> IF k \in gone THEN Fresh ELSE saved[p][k]]]
           a == [Now EXCEPT !.saved = kept, !.known = known \ {p}]
           s == Registered(a, BootPools \cup {p})
<1>1. /\ roster \in [Pools -> Seq(Keys)] /\ disk \in Entries
      /\ Now \in Manager /\ Sound(Now, Workers) /\ keys \in Seq(Keys)
  BY KeyAssumption DEF IInv
<1>2. /\ saved \in Entries /\ health \in Entries /\ known \in SUBSET Pools /\ BootPools \in SUBSET Pools
      /\ \A q \in known : health[q] = saved[q]
  BY <1>1, KeyAssumption DEF Now, Manager, Sound, Mirrored
<1>3. kept \in Entries
  BY <1>2 DEF Entries, Fresh, Health
<1>4. /\ \A q \in Pools \ {p} : kept[q] = saved[q]
      /\ \A q \in Pools, k \in Keys : saved[q][k].cool = 0 => kept[q][k].cool = 0
  BY <1>2 DEF Entries, Fresh
<1>5. /\ roster' = [roster EXCEPT ![p] = keys]
      /\ \/ disk' = kept /\ Becomes([s EXCEPT !.timer = FALSE])
         \/ disk' = disk /\ Becomes(s)
  BY DEF Reconfigure, Now
<1> HIDE DEF gone, kept
<1>6. a \in Manager
  <2>1. known \ {p} \in SUBSET Pools
    BY <1>2
  <2>2. QED
    BY <1>1, <1>3, <2>1 DEF Manager
<1>7. /\ a.known = known \ {p} /\ a.saved = kept /\ a.health = health /\ a.lease = lease
      /\ a.pc = pc /\ a.pool = pool /\ a.want = want /\ a.held = held
  BY DEF Now
<1> HIDE DEF a
<1>8. /\ s \in Manager /\ s.known = a.known \cup (BootPools \cup {p})
      /\ \A q \in Pools : q \notin (BootPools \cup {p}) \ a.known => s.health[q] = a.health[q]
      /\ \A q \in (BootPools \cup {p}) \ a.known : s.health[q] = a.saved[q]
      /\ s.saved = a.saved /\ s.timer = a.timer /\ s.lease = a.lease /\ s.pc = a.pc
      /\ s.pool = a.pool /\ s.held = a.held
  <2>1. BootPools \cup {p} \in SUBSET Pools
    BY <1>2
  <2>2. QED
    BY <1>6, <2>1, RegisteredOK DEF SameRequests
<1> HIDE DEF s
<1>9. known \subseteq s.known /\ s.known \in SUBSET Pools
  BY <1>2, <1>7, <1>8
<1>10. Mirrored(s)
  <2> SUFFICES ASSUME NEW q \in s.known
               PROVE  s.health[q] = s.saved[q]
    BY DEF Mirrored
  <2>1. CASE q \in (BootPools \cup {p}) \ a.known
    BY <1>8, <2>1
  <2>2. CASE q \in a.known
    BY <1>2, <1>4, <1>7, <1>8, <2>2
  <2>3. QED
    BY <1>8, <2>1, <2>2
<1>11. Now.pc = pc /\ Now.held = held /\ Now.lease = lease /\ Now.pool = pool /\ Now.known = known /\ Now.saved = saved
  BY DEF Now
<1>12. CallsAreLeased(s, Workers)
  <2> SUFFICES ASSUME NEW w \in Workers, s.pc[w] = "calling"
               PROVE  /\ s.held[w] \in Keys /\ s.lease[s.held[w]] = w
                      /\ s.pool[w] \in s.known /\ s.saved[s.pool[w]][s.held[w]].cool = 0
    BY DEF CallsAreLeased
  <2>1. /\ held[w] \in Keys /\ lease[held[w]] = w
        /\ pool[w] \in known /\ saved[pool[w]][held[w]].cool = 0
    BY <1>1, <1>7, <1>8, <1>11 DEF Sound, CallsAreLeased
  <2>2. kept[pool[w]][held[w]].cool = 0
    BY <1>2, <1>4, <2>1
  <2>3. QED
    BY <1>7, <1>8, <1>9, <2>1, <2>2
<1>13. LeasesAreCalls(s, Workers) /\ WaitsAreFounded(s, Workers)
  BY <1>1, <1>7, <1>8, <1>11 DEF Sound, LeasesAreCalls, WaitsAreFounded
<1>14. PICK t \in Manager : /\ Sound(t, Workers) /\ Becomes(t) /\ t.pc = pc /\ t.held = held
  <2>1. Sound(s, Workers)
    BY <1>10, <1>12, <1>13 DEF Sound
  <2>2. CASE Becomes(s)
    BY <1>7, <1>8, <2>1, <2>2
  <2>3. CASE Becomes([s EXCEPT !.timer = FALSE])
    <3>1. PICK t : t = [s EXCEPT !.timer = FALSE] /\ Becomes(t)
      BY <2>3
    <3>2. t \in Manager
      BY <1>8, <3>1 DEF Manager
    <3>3. /\ t.known = s.known /\ t.health = s.health /\ t.saved = s.saved /\ t.lease = s.lease
          /\ t.pc = s.pc /\ t.pool = s.pool /\ t.held = s.held
      BY <1>8, <3>1 DEF Manager
    <3>4. Sound(t, Workers)
      BY <2>1, <3>3 DEF Sound, CallsAreLeased, LeasesAreCalls, WaitsAreFounded, Mirrored
    <3>5. QED
      BY <1>7, <1>8, <3>1, <3>2, <3>3, <3>4
  <2>4. QED
    BY <1>5, <2>2, <2>3
<1>15. Handed /\ pc' = t.pc /\ \A w \in Workers : t.pc[w] = "calling" => held'[w] = t.held[w]
  BY <1>14, BecomesOK
<1>16. Undisturbed(Workers)
  BY <1>14, <1>15 DEF Undisturbed, Calling
<1>17. QED
  BY <1>1, <1>3, <1>5, <1>15, <1>16

-----------------------------------------------------------------------------
\* A tick lets every term run down, the entries' and their copies' alike.
LEMMA CooledOK ==
  ASSUME NEW h \in Entries
  PROVE  /\ Cooled(h) \in Entries
         /\ \A p \in Pools, k \in Keys : h[p][k].cool = 0 => Cooled(h)[p][k].cool = 0
<1>1. ASSUME NEW p \in Pools, NEW k \in Keys
      PROVE  LET e == [h[p][k] EXCEPT !.cool = Max({h[p][k].cool - 1, 0})]
             IN e \in Health /\ (h[p][k].cool = 0 => e.cool = 0)
  <2>1. h[p][k] \in Health /\ h[p][k].cool \in Nat
    BY DEF Entries, Health
  <2>2. /\ Max({h[p][k].cool - 1, 0}) \in Nat
        /\ h[p][k].cool = 0 => Max({h[p][k].cool - 1, 0}) = 0
    BY <2>1, LargerOfTwo
  <2>3. QED
    BY <2>1, <2>2 DEF Health
<1>2. \A p \in Pools, k \in Keys :
        Cooled(h)[p][k] = [h[p][k] EXCEPT !.cool = Max({h[p][k].cool - 1, 0})]
  BY DEF Cooled
<1>3. Cooled(h) \in Entries
  BY <1>1 DEF Cooled, Entries
<1>4. QED
  BY <1>1, <1>2, <1>3

\* A tick changes nothing but the terms.
LEMMA TickOK ==
  ASSUME IInv, Tick
  PROVE  /\ roster' \in [Pools -> Seq(Keys)] /\ disk' \in Entries
         /\ Handed /\ Undisturbed(Workers)
<1>1. /\ Now \in Manager /\ Sound(Now, Workers) /\ disk \in Entries /\ roster \in [Pools -> Seq(Keys)]
  BY DEF IInv
<1>2. /\ health \in Entries /\ saved \in Entries /\ known \in SUBSET Pools
      /\ \A p \in known : health[p] = saved[p]
  BY <1>1 DEF Now, Manager, Sound, Mirrored
<1>3. /\ health' = Cooled(health) /\ saved' = Cooled(saved) /\ disk' = Cooled(disk)
      /\ roster' = roster /\ known' = known /\ rr' = rr /\ timer' = timer /\ lease' = lease
      /\ pc' = pc /\ pool' = pool /\ want' = want /\ held' = held
  BY DEF Tick, requests
<1>4. /\ Cooled(health) \in Entries /\ Cooled(saved) \in Entries /\ Cooled(disk) \in Entries
      /\ \A p \in Pools, k \in Keys : saved[p][k].cool = 0 => Cooled(saved)[p][k].cool = 0
  BY <1>1, <1>2, CooledOK
<1>5. \A p \in known : Cooled(health)[p] = Cooled(saved)[p]
  BY <1>2 DEF Cooled
<1> DEFINE t == Now'
<1>6. t \in Manager
  BY <1>1, <1>3, <1>4 DEF Manager, Now
<1>7. /\ t.known = known /\ t.health = Cooled(health) /\ t.saved = Cooled(saved) /\ t.lease = lease
      /\ t.pc = pc /\ t.pool = pool /\ t.held = held
  BY <1>3 DEF Now
<1>8. /\ Now.pc = pc /\ Now.held = held /\ Now.lease = lease /\ Now.pool = pool
      /\ Now.known = known /\ Now.saved = saved
  BY DEF Now
<1> HIDE DEF t
<1>9. CallsAreLeased(t, Workers)
  <2> SUFFICES ASSUME NEW w \in Workers, t.pc[w] = "calling"
               PROVE  /\ t.held[w] \in Keys /\ t.lease[t.held[w]] = w
                      /\ t.pool[w] \in t.known /\ t.saved[t.pool[w]][t.held[w]].cool = 0
    BY DEF CallsAreLeased
  <2>1. /\ held[w] \in Keys /\ lease[held[w]] = w
        /\ pool[w] \in known /\ saved[pool[w]][held[w]].cool = 0
    BY <1>1, <1>7, <1>8 DEF Sound, CallsAreLeased
  <2>2. QED
    BY <1>2, <1>4, <1>7, <2>1
<1>10. LeasesAreCalls(t, Workers) /\ WaitsAreFounded(t, Workers) /\ Mirrored(t)
  BY <1>1, <1>5, <1>7, <1>8 DEF Sound, LeasesAreCalls, WaitsAreFounded, Mirrored
<1>11. Undisturbed(Workers)
  BY <1>3 DEF Undisturbed, Calling
<1>12. QED
  BY <1>1, <1>3, <1>4, <1>6, <1>9, <1>10, <1>11 DEF Handed, Sound, t

\* The debounced save changes nothing but the file.
LEMMA SaveOK ==
  ASSUME IInv, Save
  PROVE  /\ roster' \in [Pools -> Seq(Keys)] /\ disk' \in Entries
         /\ Handed /\ Undisturbed(Workers)
<1>1. /\ Now \in Manager /\ Sound(Now, Workers) /\ roster \in [Pools -> Seq(Keys)]
  BY DEF IInv
<1>2. /\ disk' = saved /\ timer' = FALSE /\ roster' = roster /\ known' = known /\ rr' = rr
      /\ health' = health /\ saved' = saved /\ lease' = lease
      /\ pc' = pc /\ pool' = pool /\ want' = want /\ held' = held
  BY DEF Save, requests
<1> DEFINE t == Now'
<1>3. t \in Manager /\ saved \in Entries
  BY <1>1, <1>2 DEF Manager, Now
<1>4. /\ t.known = Now.known /\ t.health = Now.health /\ t.saved = Now.saved /\ t.lease = Now.lease
      /\ t.pc = Now.pc /\ t.pool = Now.pool /\ t.held = Now.held
  BY <1>2 DEF Now
<1> HIDE DEF t
<1>5. Sound(t, Workers)
  BY <1>1, <1>4 DEF Sound, CallsAreLeased, LeasesAreCalls, WaitsAreFounded, Mirrored
<1>6. Undisturbed(Workers)
  BY <1>2 DEF Undisturbed, Calling
<1>7. QED
  BY <1>1, <1>2, <1>3, <1>5, <1>6 DEF Handed, t

\* A process that starts has no calls, and what its pools say is what its file says.
LEMMA RestartOK ==
  ASSUME IInv, NEW file \in Entries, Restart(file)
  PROVE  /\ roster' \in [Pools -> Seq(Keys)] /\ disk' \in Entries
         /\ Handed /\ timer' = FALSE
<1> DEFINE a == [Now EXCEPT !.known = {}, !.saved = file, !.timer = FALSE,
                            !.lease = [k \in Keys |-> Nobody],
                            !.pc = [w \in Workers |-> "idle"],
                            !.health = [p \in Pools |-> [k \in Keys |-> Fresh]],
                            !.rr = [p \in Pools |-> 0]]
           s == Registered(a, BootPools)
<1>1. Now \in Manager /\ roster \in [Pools -> Seq(Keys)] /\ BootPools \in SUBSET Pools
  BY KeyAssumption DEF IInv
<1>2. Becomes(s) /\ disk' = file /\ roster' = roster
  BY DEF Restart
<1>3. a \in Manager
  <2>1. [p \in Pools |-> [k \in Keys |-> Fresh]] \in Entries
    BY DEF Entries, Fresh, Health
  <2> DEFINE fresh == [p \in Pools |-> [k \in Keys |-> Fresh]]
  <2> HIDE DEF fresh
  <2>2. fresh \in Entries
    BY <2>1 DEF fresh
  <2>3. /\ {} \in SUBSET Pools /\ [k \in Keys |-> Nobody] \in [Keys -> Workers \cup {Nobody}]
        /\ [w \in Workers |-> "idle"] \in [Workers -> Places] /\ [p \in Pools |-> 0] \in [Pools -> Nat]
    BY DEF Places
  <2>4. a = [Now EXCEPT !.known = {}, !.saved = file, !.timer = FALSE,
                        !.lease = [k \in Keys |-> Nobody], !.pc = [w \in Workers |-> "idle"],
                        !.health = fresh, !.rr = [p \in Pools |-> 0]]
    BY DEF fresh
  <2> HIDE DEF a
  <2>5. QED
    BY <1>1, <2>2, <2>3, <2>4 DEF Manager
<1>4. /\ a.known = {} /\ a.timer = FALSE
      /\ \A k \in Keys : a.lease[k] = Nobody
      /\ \A w \in Workers : a.pc[w] = "idle"
  BY DEF Now
<1> HIDE DEF a
<1>5. Sound(a, Workers)
  BY <1>4 DEF Sound, CallsAreLeased, LeasesAreCalls, WaitsAreFounded, Mirrored
<1>6. s \in Manager /\ Sound(s, Workers) /\ s.timer = FALSE
  BY <1>1, <1>3, <1>4, <1>5, RegisteredOK, RegisteredSound
<1> HIDE DEF s
<1>7. QED
  BY <1>1, <1>2, <1>6, BecomesOK


-----------------------------------------------------------------------------
\* A server that has just started is sound.
LEMMA InitOK ==
  ASSUME Init
  PROVE  IInv
<1>1. /\ roster \in [Pools -> Seq(Keys)] /\ BootPools \in SUBSET Pools
  BY KeyAssumption DEF Init
<1>2. health \in Entries /\ saved \in Entries /\ disk \in Entries /\ health = saved
  BY DEF Init, Entries, Fresh, Health
<1>3. /\ known \in SUBSET Pools /\ rr \in [Pools -> Nat] /\ timer \in BOOLEAN
      /\ lease \in [Keys -> Workers \cup {Nobody}] /\ pc \in [Workers -> Places]
      /\ pool \in [Workers -> Pools \cup {NoPool}] /\ want \in [Workers -> Keys \cup {NoKey}]
      /\ held \in [Workers -> Keys \cup {NoKey}]
      /\ \A k \in Keys : lease[k] = Nobody
      /\ \A w \in Workers : pc[w] = "idle"
  BY <1>1 DEF Init, Places
<1>4. Now \in Manager
  BY <1>2, <1>3 DEF Now, Manager
<1>5. Sound(Now, Workers)
  BY <1>2, <1>3 DEF Now, Sound, CallsAreLeased, LeasesAreCalls, WaitsAreFounded, Mirrored
<1>6. QED
  BY <1>1, <1>2, <1>4, <1>5 DEF IInv

\* What a step does to the calls under way: none is disturbed, or the process ends, or one of
\* them is over and its verdict everywhere.
Outcome == Undisturbed(Workers) \/ timer' = FALSE \/ \E w \in Workers : CallIsOver(w)

\* Every step keeps the invariant, and no step ends a call without its outcome.
LEMMA StepOK ==
  ASSUME IInv, [Next]_vars
  PROVE  IInv' /\ Outcome
<1>1. roster \in [Pools -> Seq(Keys)] /\ disk \in Entries /\ Now \in Manager /\ Sound(Now, Workers)
  BY DEF IInv
<1>2. saved \in Entries
  BY <1>1 DEF Now, Manager
<1> DEFINE Sets == roster' \in [Pools -> Seq(Keys)] /\ disk' \in Entries
<1>3. ASSUME NEW w \in Workers, NEW p \in Pools, NEW k \in Keys \cup {NoKey}, Ask(w, p, k)
      PROVE  Sets /\ Handed /\ Outcome
  <2>1. Handed /\ Undisturbed(Workers)
    BY <1>3, AskOK
  <2>2. QED
    BY <1>1, <1>3, <2>1 DEF Ask, Outcome
<1>4. ASSUME NEW w \in Workers, AskAgain(w)
      PROVE  Sets /\ Handed /\ Outcome
  <2>1. Handed /\ Undisturbed(Workers)
    BY <1>4, AskAgainOK
  <2>2. QED
    BY <1>1, <1>4, <2>1 DEF AskAgain, Outcome
<1>5. ASSUME NEW w \in Workers, Call(w)
      PROVE  Sets /\ Handed /\ Outcome
  <2>1. CallIsOver(w)
    BY <1>5, CallOK
  <2>2. roster' = roster /\ disk' = disk
    BY <1>5 DEF Call, Succeeds, FailsOver, Refused, OurBug, ProbeFails, GivesBack
  <2>3. QED
    BY <1>1, <2>1, <2>2 DEF CallIsOver, Outcome
<1>6. ASSUME NEW w \in Workers, Finishes(w) \/ StopsWaiting(w)
      PROVE  Sets /\ Handed /\ Outcome
  <2>1. Handed /\ Undisturbed(Workers)
    BY <1>6, FinishesOK
  <2>2. QED
    BY <1>1, <1>6, <2>1 DEF Finishes, StopsWaiting, Outcome
<1>7. ASSUME NEW p \in Pools, NEW keys \in Rosters[p], Reconfigure(p, keys)
      PROVE  Sets /\ Handed /\ Outcome
  BY <1>7, ReconfigureOK DEF Outcome
<1>8. ASSUME Tick
      PROVE  Sets /\ Handed /\ Outcome
  BY <1>8, TickOK DEF Outcome
<1>9. ASSUME Save
      PROVE  Sets /\ Handed /\ Outcome
  BY <1>9, SaveOK DEF Outcome
<1>10. ASSUME Shutdown \/ Crash
       PROVE  Sets /\ Handed /\ Outcome
  BY <1>1, <1>2, <1>10, RestartOK DEF Shutdown, Crash, Outcome
<1>11. CASE UNCHANGED vars
  <2>1. Now' = Now /\ roster' = roster /\ disk' = disk /\ pc' = pc /\ held' = held
    BY <1>11 DEF vars, keyState, requests, Now
  <2>2. Undisturbed(Workers)
    BY <2>1 DEF Undisturbed, Calling
  <2>3. QED
    BY <1>1, <2>1, <2>2 DEF IInv, Outcome
<1>12. ASSUME Sets, Handed, Outcome
       PROVE  IInv' /\ Outcome
  BY <1>12 DEF IInv, Handed
<1>13. QED
  BY <1>3, <1>4, <1>5, <1>6, <1>7, <1>8, <1>9, <1>10, <1>11, <1>12 DEF Next

\* A call that ends without the process is over, and its verdict everywhere.
LEMMA ReportIsOver ==
  ASSUME Outcome, NEW w \in Workers, Reports(w)
  PROVE  CallIsOver(w)
<1>1. PICK v \in Workers : CallIsOver(v)
  BY DEF Outcome, Reports, Undisturbed, Calling
<1>2. v = w
  BY <1>1 DEF CallIsOver, Undisturbed, Others, Reports, Calling
<1>3. QED
  BY <1>1, <1>2

-----------------------------------------------------------------------------
\* IInv holds in every reachable state.
THEOREM Invariance == Spec => []IInv
<1>1. Init => IInv
  BY InitOK
<1>2. IInv /\ [Next]_vars => IInv'
  BY StepOK
<1>3. QED
  BY <1>1, <1>2, PTL DEF Spec

\* Every variable holds what the manager's methods read from it.
THEOREM TypeCorrect == Spec => []TypeOK
<1>1. IInv => TypeOK
  BY DEF IInv, TypeOK, Now, Manager, Entries, Places
<1>2. QED
  BY <1>1, Invariance, PTL

\* A credential is with one request at a time, and whoever waits for it is woken by its end.
THEOREM LeasesAreTheCalls == Spec => []LeasesAreSound
<1>1. ASSUME IInv
      PROVE  LeasesAreSound
  <2>1. Now \in Manager /\ Sound(Now, Workers)
    BY <1>1 DEF IInv
  <2>2. OneCallPerCredential
    BY <2>1 DEF Sound, CallsAreLeased, LeasesAreCalls, Now, OneCallPerCredential, Calling
  <2>3. WaitersAreWoken
    BY <2>1 DEF Sound, LeasesAreCalls, WaitsAreFounded, Now, WaitersAreWoken, Calling
  <2>4. QED
    BY <2>2, <2>3 DEF LeasesAreSound
<1>2. QED
  BY <1>1, Invariance, PTL

\* No verdict is lost: a key under a call has no term a success could erase, and the entries
\* say what is persisted.
THEOREM NoVerdictIsLost == Spec => []VerdictsAreKept
<1>1. ASSUME IInv
      PROVE  VerdictsAreKept
  <2>1. Now \in Manager /\ Sound(Now, Workers)
    BY <1>1 DEF IInv
  <2>2. SuccessErasesNothing
    BY <1>1, CallingOK DEF SuccessErasesNothing
  <2>3. ReloadLosesNothing
    BY <2>1 DEF Sound, Mirrored, Now, ReloadLosesNothing
  <2>4. QED
    BY <2>2, <2>3 DEF VerdictsAreKept
<1>2. QED
  BY <1>1, Invariance, PTL

\* What a call found out about a key holds for its term, and in every pool that lists the key.
THEOREM VerdictsStandEverywhere == Spec => VerdictsStand
<1> DEFINE Term == (\E w \in Workers : Reports(w)) =>
                      \A p \in Pools, k \in Keys :
                        health[p][k].status # "dead" /\ health'[p][k].status = "dead"
                          => health'[p][k].cool = Cooldown["auth"]
           Reach == \A w \in Workers :
                      Reports(w) /\ Lists(pool[w], held[w]) =>
                        \A q \in known : Lists(q, held[w]) =>
                          health'[q][held[w]].cool >= health'[pool[w]][held[w]].cool
<1>1. ASSUME IInv, [Next]_vars, NEW w \in Workers, Reports(w)
      PROVE  VerdictIsEverywhere(Now, Now', pool[w], held[w])
  BY <1>1, StepOK, ReportIsOver DEF CallIsOver
<1>2. /\ Now.health = health /\ Now.known = known /\ Now'.health = health'
  BY DEF Now
<1>3. IInv /\ [Next]_vars => Term
  BY <1>1, <1>2 DEF VerdictIsEverywhere
<1>4. IInv /\ [Next]_vars => Reach
  BY <1>1, <1>2 DEF VerdictIsEverywhere
<1>5. IInv /\ [Next]_vars => [Term]_vars /\ [Reach]_vars
  BY <1>3, <1>4
<1> HIDE DEF Term, Reach
<1>6. Spec => [][Term]_vars /\ [][Reach]_vars
  BY <1>5, Invariance, PTL DEF Spec
<1>7. QED
  BY <1>6 DEF VerdictsStand, DeadForItsTerm, VerdictReachesAll, Term, Reach
=============================================================================
