------------------------- MODULE ProviderCallProofs -------------------------
(***************************************************************************)
(* Theorems about ProviderCall, for every set of calls, keys, pools and    *)
(* runs, every limit, ceiling and charge.                                  *)
(*                                                                         *)
(* OneCallPerKey rests on the links: whoever has its turn finds all the    *)
(* links before its own resolved, and its own is not.  OvershootBounded    *)
(* rests on the permits: their counter counts the calls that hold one,     *)
(* and no call holds one while they are more than its run allows.          *)
(* PermitsWithinLimits rests on which waiters drainNetwork has seen: all   *)
(* but the one that has just come, and whoever was seen and stayed would   *)
(* be refused again, so a permit never overtakes a limit not yet taken in. *)
(***************************************************************************)
EXTENDS ProviderCall, CollectionProofs

\* The call has a link that is not resolved.
Linked(c) == pc[c] \in {"queued", "abandoning"} \/ HasKey(c)

Links ==
    /\ \A k \in Keys : /\ IsInjective(chain[k])
                       /\ \A i \in DOMAIN chain[k] : KeyOf[chain[k][i]] = k /\ pc[chain[k][i]] # "idle"
    /\ \A c \in Calls : Linked(c) => c \in Range(chain[KeyOf[c]]) /\ c \notin passed
    /\ \A c \in Calls : pc[c] = "idle" => c \notin passed
    /\ \A c \in Calls : HasKey(c) => HasTurn(c)

Waits == IsInjective(waiters) /\ Range(waiters) = {c \in Calls : pc[c] = "waiting"}

Holders == {c \in Calls : HasPermit(c)}
HoldersIn(p) == {c \in Holders : PoolOf[c] = p}

Counters ==
    /\ active = Cardinality(Holders)
    /\ \A p \in Pools : activeIn[p] = Cardinality(HoldersIn(p))

\* Whoever holds a permit is within the concurrency of its run.
Limits ==
    \A c \in Holders : limit <= LimitOf[RunOf[c]] /\ active <= LimitOf[RunOf[c]]

\* The calls whose run's limits have been taken in.
Seen == {c \in Calls : limit <= LimitOf[RunOf[c]] /\ limitIn[PoolOf[c]] <= PoolLimitOf[RunOf[c]]}

\* Those that a round of the loop, once they are seen, leaves waiting.
Refused == {c \in Calls : active >= limit \/ activeIn[PoolOf[c]] >= limitIn[PoolOf[c]]}

\* Whoever holds a permit is seen; whoever the loop has passed is seen and refused; and only
\* a waiter that has just come, the last one, is not seen: those before it are refused.
Sees ==
    /\ Holders \subseteq Seen
    /\ \A i \in DOMAIN waiters : scan = 0 \/ i < scan => waiters[i] \in Seen \cap Refused
    /\ \/ \A i \in DOMAIN waiters : waiters[i] \in Seen
       \/ /\ scan # 0
          /\ \A i \in DOMAIN waiters : i < Len(waiters) => waiters[i] \in Seen \cap Refused

IInv == TypeOK /\ Links /\ Waits /\ Counters /\ Limits /\ Sees /\ OvershootBounded

-----------------------------------------------------------------------------
\* The invariant holds at the start.
LEMMA InitOK == Init => IInv
<1> SUFFICES ASSUME Init PROVE IInv
  OBVIOUS
<1> USE CallsAssumption, LimitsAssumption
<1>1. TypeOK
  BY DEF Init, TypeOK, Places
<1>2. Links
  BY DEF Init, Links, Linked, HasKey, IsInjective
<1>3. Waits
  BY DEF Init, Waits, IsInjective, Range
<1>4. Holders = {} /\ \A p : HoldersIn(p) = {}
  BY DEF Init, Holders, HoldersIn, HasPermit
<1>5. Counters /\ Limits
  BY <1>4, FS_EmptySet DEF Init, Counters, Limits
<1>6. OvershootBounded
  <2> SUFFICES ASSUME NEW r \in Runs
               PROVE  spent[r] + MaxCharge * Cardinality(InFlight(r)) < Ceiling[r] + MaxCharge * LimitOf[r]
    BY DEF OvershootBounded
  <2>1. InFlight(r) = {}
    BY DEF Init, InFlight
  <2>2. Cardinality(InFlight(r)) = 0
    BY <2>1, FS_EmptySet
  <2>3. spent[r] = 0 /\ Ceiling[r] \in Nat /\ Ceiling[r] > 0 /\ LimitOf[r] \in Nat
    BY DEF Init
  <2>4. MaxCharge * LimitOf[r] \in Nat /\ MaxCharge * 0 = 0
    BY <2>3
  <2>5. QED
    BY <2>2, <2>3, <2>4
<1>7. Sees
  BY <1>4 DEF Init, Sees
<1>8. QED
  BY <1>1, <1>2, <1>3, <1>5, <1>6, <1>7 DEF IInv

\* Counting a finite set that gains or loses one element.
LEMMA CountOneMore ==
  ASSUME NEW S, IsFiniteSet(S), NEW x, x \notin S
  PROVE  Cardinality(S \cup {x}) = Cardinality(S) + 1 /\ Cardinality(S) \in Nat
BY FS_AddElement, FS_CardinalityType

\* The same for one that is lost.
LEMMA CountOneLess ==
  ASSUME NEW S, IsFiniteSet(S), NEW x \in S
  PROVE  /\ Cardinality(S \ {x}) = Cardinality(S) - 1
         /\ Cardinality(S) \in Nat /\ Cardinality(S) > 0
<1>1. Cardinality(S \ {x}) = Cardinality(S) - 1
  BY FS_RemoveElement
<1>2. IsFiniteSet(S \ {x})
  BY FS_RemoveElement
<1>3. QED
  BY <1>1, <1>2, FS_CardinalityType

\* The sets that are counted are finite.
LEMMA HoldersFinite ==
  /\ IsFiniteSet(Holders)
  /\ \A p : IsFiniteSet(HoldersIn(p))
  /\ \A r : IsFiniteSet(InFlight(r))
<1>1. Holders \subseteq Calls /\ \A p : HoldersIn(p) \subseteq Calls
  BY DEF Holders, HoldersIn
<1>2. \A r : InFlight(r) \subseteq Calls
  BY DEF InFlight
<1>3. QED
  BY <1>1, <1>2, FS_Subset, CallsAssumption

\* A permit that is held is counted.
LEMMA HeldIsCounted ==
  ASSUME TypeOK, Counters, NEW c \in Calls, HasPermit(c)
  PROVE  active > 0 /\ activeIn[PoolOf[c]] > 0
<1>1. c \in Holders /\ c \in HoldersIn(PoolOf[c]) /\ PoolOf[c] \in Pools
  BY CallsAssumption DEF Holders, HoldersIn
<1>2. Cardinality(Holders) > 0 /\ Cardinality(HoldersIn(PoolOf[c])) > 0
  BY <1>1, HoldersFinite, CountOneLess
<1>3. QED
  BY <1>1, <1>2 DEF Counters

\* A key that is passed on keeps its links, or none of them.
LEMMA KeyPassed ==
  ASSUME TypeOK, NEW c \in Calls, PassesKey(c)
  PROVE  chain' \in [Keys -> Seq(Calls)] /\ passed' \in SUBSET Calls
BY CallsAssumption DEF TypeOK, PassesKey

\* A permit that is given back leaves counters and limits what they are.
LEMMA PermitPassed ==
  ASSUME TypeOK, Counters, NEW c \in Calls, HasPermit(c), PassesPermit(c)
  PROVE  /\ scan' \in 0 .. Len(waiters) /\ active' \in Nat /\ activeIn' \in [Pools -> Nat]
         /\ limit' \in 1 .. NoLimit /\ limitIn' \in [Pools -> 1 .. NoLimit]
<1> USE CallsAssumption, LimitsAssumption
<1>1. active > 0 /\ activeIn[PoolOf[c]] > 0
  BY HeldIsCounted
<1>2. Len(waiters) \in Nat
  BY LenProperties DEF TypeOK
<1>3. scan' \in 0 .. Len(waiters)
  BY <1>2 DEF PassesPermit, ScansOn
<1>4. active' \in Nat /\ activeIn' \in [Pools -> Nat]
  BY <1>1 DEF PassesPermit, TypeOK
<1>5. limit' \in 1 .. NoLimit /\ limitIn' \in [Pools -> 1 .. NoLimit]
  BY DEF PassesPermit, TypeOK
<1>6. QED
  BY <1>3, <1>4, <1>5

\* The limits a waiter leaves behind.
LEMMA Lowered ==
  ASSUME TypeOK, NEW c \in Calls
  PROVE  /\ LimitWith(c) \in 1 .. NoLimit /\ LimitWith(c) <= limit
         /\ LimitWith(c) <= LimitOf[RunOf[c]]
         /\ PoolLimitWith(c) \in 1 .. NoLimit
BY CallsAssumption, LimitsAssumption DEF TypeOK, LimitWith, PoolLimitWith, Smaller

\* The waiter drainNetwork has come to, and the others.
LEMMA Drained ==
  ASSUME TypeOK, Waits, scan # 0
  PROVE  \E c \in Calls :
           /\ c = waiters[scan] /\ pc[c] = "waiting"
           /\ Pick(waiters, DOMAIN waiters \ {scan}) \in Seq(Calls)
           /\ IsInjective(Pick(waiters, DOMAIN waiters \ {scan}))
           /\ Range(Pick(waiters, DOMAIN waiters \ {scan})) = Range(waiters) \ {c}
           /\ Len(Pick(waiters, DOMAIN waiters \ {scan})) = Len(waiters) - 1
<1> DEFINE c == waiters[scan]
           rest == Pick(waiters, DOMAIN waiters \ {scan})
<1>1. /\ waiters \in Seq(Calls) /\ DOMAIN waiters = 1 .. Len(waiters) /\ Len(waiters) \in Nat
      /\ scan \in DOMAIN waiters
  BY LenProperties DEF TypeOK
<1>2. c \in Calls /\ c \in Range(waiters)
  BY <1>1 DEF Range
<1>3. pc[c] = "waiting"
  BY <1>2 DEF Waits
<1>4. /\ rest \in Seq(Calls) /\ IsInjective(rest)
      /\ Range(rest) = {waiters[i] : i \in DOMAIN waiters \ {scan}}
  BY <1>1, PickProperties DEF Waits
<1>5. Range(rest) = Range(waiters) \ {c}
  BY <1>1, <1>4 DEF Waits, Range, IsInjective
<1>6. Len(rest) = Len(waiters) - 1
  <2>1. IsFiniteSet(1 .. Len(waiters)) /\ Cardinality(1 .. Len(waiters)) = Len(waiters)
    <3>1. /\ IsFiniteSet(1 .. Len(waiters))
          /\ Cardinality(1 .. Len(waiters)) = IF 1 > Len(waiters) THEN 0 ELSE Len(waiters) - 1 + 1
      BY <1>1, FS_Interval
    <3>2. QED
      BY <1>1, <3>1
  <2>2. Cardinality(DOMAIN waiters \ {scan}) = Len(waiters) - 1
    BY <1>1, <2>1, CountOneLess
  <2>3. QED
    BY <1>1, <2>2 DEF Pick
<1>7. QED
  BY <1>2, <1>3, <1>4, <1>5, <1>6

\* One round of drainNetwork keeps the types.
LEMMA DrainTypes ==
  ASSUME TypeOK, Waits, Drains
  PROVE  TypeOK'
<1> USE CallsAssumption, LimitsAssumption
<1>1. PICK c \in Calls :
        /\ c = waiters[scan] /\ pc[c] = "waiting"
        /\ Pick(waiters, DOMAIN waiters \ {scan}) \in Seq(Calls)
        /\ Len(Pick(waiters, DOMAIN waiters \ {scan})) = Len(waiters) - 1
  BY Drained DEF Drains
<1> DEFINE rest == Pick(waiters, DOMAIN waiters \ {scan})
<1>2. rest \in Seq(Calls) /\ Len(rest) = Len(waiters) - 1
  BY <1>1
<1>3. UNCHANGED <<cancelled, links, ledger>>
  BY DEF Drains
<1>4. limit' \in 1 .. NoLimit /\ limitIn' \in [Pools -> 1 .. NoLimit]
  BY <1>1, Lowered DEF TypeOK, Drains
<1>5. Len(waiters) \in Nat /\ scan \in 1 .. Len(waiters)
  BY LenProperties DEF TypeOK, Drains
<1>6. CASE UNCHANGED <<pc, waiters, active, activeIn>> /\ ScansOn(scan + 1, Len(waiters))
  <2>1. scan' \in 0 .. Len(waiters)
    BY <1>5, <1>6 DEF ScansOn
  <2>2. QED
    BY <1>3, <1>4, <1>6, <2>1 DEF TypeOK, links, ledger
<1>7. CASE /\ waiters' = rest /\ ScansOn(scan, Len(waiters) - 1) /\ Goes(c, "granted")
           /\ active' = active + 1 /\ activeIn' = [activeIn EXCEPT ![PoolOf[c]] = @ + 1]
  <2> HIDE DEF rest
  <2>1. waiters' \in Seq(Calls) /\ scan' \in 0 .. Len(waiters')
    BY <1>2, <1>5, <1>7 DEF ScansOn
  <2>2. pc' \in [Calls -> Places]
    BY <1>7 DEF TypeOK, Goes, Places
  <2>3. active' \in Nat /\ activeIn' \in [Pools -> Nat]
    BY <1>7 DEF TypeOK
  <2>4. QED
    BY <1>3, <1>4, <2>1, <2>2, <2>3 DEF TypeOK, links, ledger
<1>8. QED
  BY <1>1, <1>6, <1>7 DEF Drains

-----------------------------------------------------------------------------
\* What each step does to the types.
LEMMA TypeStep ==
  ASSUME IInv, [Next]_vars
  PROVE  TypeOK'
<1> USE CallsAssumption, LimitsAssumption DEF Goes, links, permits, ledger
<1>1. TypeOK /\ Waits /\ Counters /\ LimitsAssumption
  BY DEF IInv
<1>2. ASSUME NEW c \in Calls, Asks(c) \/ Wakes(c) \/ Resumes(c) \/ Abandons(c)
      PROVE  TypeOK'
  <2>1. pc' \in [Calls -> Places]
    BY <1>1, <1>2 DEF Asks, Wakes, Resumes, Abandons, TypeOK, Places
  <2>2. passed' \in SUBSET Calls
    BY <1>1, <1>2 DEF Asks, Wakes, Resumes, Abandons, LinkResolved, TypeOK
  <2>3. chain' \in [Keys -> Seq(Calls)]
    <3>1. KeyOf[c] \in Keys /\ chain[KeyOf[c]] \in Seq(Calls)
      BY <1>1 DEF TypeOK
    <3>2. Append(chain[KeyOf[c]], c) \in Seq(Calls)
      BY <3>1, AppendProperties
    <3>3. \/ UNCHANGED chain
          \/ chain' = [chain EXCEPT ![KeyOf[c]] = Append(chain[KeyOf[c]], c)]
      BY <1>2 DEF Asks, Wakes, Resumes, Abandons
    <3>4. chain \in [Keys -> Seq(Calls)]
      BY <1>1 DEF TypeOK
    <3>5. QED
      BY ONLY <3>2, <3>3, <3>4
  <2>4. UNCHANGED <<cancelled, waiters, scan, permits, ledger>>
    BY <1>2 DEF Asks, Wakes, Resumes, Abandons
  <2>5. QED
    BY <1>1, <2>1, <2>2, <2>3, <2>4 DEF TypeOK
<1>3. ASSUME NEW c \in Calls, AsksPermit(c)
      PROVE  TypeOK'
  <2>1. pc' \in [Calls -> Places]
    BY <1>1, <1>3 DEF AsksPermit, TypeOK, Places
  <2>2. waiters' \in Seq(Calls) /\ scan' \in 0 .. Len(waiters')
    <3>1. CASE waiters' = Append(waiters, c) /\ scan' = 1
      BY <1>1, <3>1, AppendProperties, LenProperties DEF TypeOK
    <3>2. CASE UNCHANGED <<waiters, scan>>
      BY <1>1, <3>2 DEF TypeOK
    <3>3. QED
      BY <1>3, <3>1, <3>2 DEF AsksPermit
  <2>3. UNCHANGED <<cancelled, links, permits, ledger>>
    BY <1>3 DEF AsksPermit
  <2>4. QED
    BY <1>1, <2>1, <2>2, <2>3 DEF TypeOK
<1>4. CASE Drains
  BY <1>1, <1>4, DrainTypes
<1>5. ASSUME NEW c \in Calls, Begins(c) \/ Leaves(c)
      PROVE  TypeOK'
  <2>1. pc' \in [Calls -> Places] /\ chain' \in [Keys -> Seq(Calls)] /\ passed' \in SUBSET Calls
    BY <1>1, <1>5, KeyPassed DEF Begins, Leaves, TypeOK, Places
  <2>2. UNCHANGED <<cancelled, waiters, scan, permits, spent>>
    BY <1>5 DEF Begins, Leaves, NoPermit, ledger
  <2>3. unbounded' \in SUBSET Runs
    BY <1>1, <1>5, CallsAssumption DEF Begins, Leaves, ledger, TypeOK
  <2>4. QED
    BY <1>1, <2>1, <2>2, <2>3 DEF TypeOK
<1>6. ASSUME NEW c \in Calls, Denied(c) \/ Ends(c)
      PROVE  TypeOK'
  <2>1. pc' \in [Calls -> Places] /\ chain' \in [Keys -> Seq(Calls)] /\ passed' \in SUBSET Calls
    BY <1>1, <1>6, KeyPassed DEF Denied, Ends, TypeOK, Places
  <2>2. HasPermit(c) /\ PassesPermit(c) /\ UNCHANGED <<cancelled, waiters>>
    BY <1>6 DEF Denied, Ends, HasPermit
  <2>3. /\ scan' \in 0 .. Len(waiters) /\ active' \in Nat /\ activeIn' \in [Pools -> Nat]
        /\ limit' \in 1 .. NoLimit /\ limitIn' \in [Pools -> 1 .. NoLimit]
    BY <1>1, <2>2, PermitPassed
  <2>4. spent' \in [Runs -> Nat] /\ unbounded' \in SUBSET Runs
    <3>1. CASE Denied(c)
      BY <1>1, <3>1 DEF Denied, TypeOK
    <3>2. CASE Ends(c)
      <4>1. PICK charge \in 0 .. MaxCharge : spent' = [spent EXCEPT ![RunOf[c]] = @ + charge]
        BY <3>2 DEF Ends
      <4>2. unbounded' \in {unbounded, unbounded \cup {RunOf[c]}}
        BY <3>2 DEF Ends
      <4>3. spent' \in [Runs -> Nat]
        BY <1>1, <4>1 DEF TypeOK
      <4>4. QED
        BY <1>1, <4>2, <4>3 DEF TypeOK
    <3>3. QED
      BY <1>6, <3>1, <3>2
  <2>5. QED
    BY <1>1, <2>1, <2>2, <2>3, <2>4 DEF TypeOK
<1>7. ASSUME NEW c \in Calls, Cancels(c)
      PROVE  TypeOK'
  <2>1. pc' \in [Calls -> Places]
    BY <1>1, <1>7 DEF Cancels, TypeOK, Places
  <2>2. waiters' \in Seq(Calls)
    BY <1>1, <1>7, PickProperties DEF Cancels, TypeOK
  <2>3. scan' = 0 /\ cancelled' \in SUBSET Calls
    BY <1>1, <1>7 DEF Cancels, TypeOK
  <2>4. UNCHANGED <<links, permits, ledger>>
    BY <1>7 DEF Cancels
  <2>5. QED
    BY <1>1, <2>1, <2>2, <2>3, <2>4, LenProperties DEF TypeOK
<1>8. CASE UNCHANGED vars
  BY <1>1, <1>8 DEF vars, TypeOK
<1>9. QED
  BY <1>2, <1>3, <1>4, <1>5, <1>6, <1>7, <1>8 DEF Next, Step

-----------------------------------------------------------------------------
\* Links stay in order while calls move on and none is added or resolved.
LEMMA LinksKept ==
  ASSUME TypeOK, Links, UNCHANGED links,
         \A d \in Calls : pc'[d] = pc[d] \/ (Linked(d) /\ Linked(d)' /\ (HasKey(d)' => HasTurn(d)))
  PROVE  Links'
<1>1. UNCHANGED <<chain, passed>>
  BY DEF links
<1>2. \A d \in Calls : /\ Linked(d)' => Linked(d)
                       /\ pc'[d] = "idle" <=> pc[d] = "idle"
                       /\ HasKey(d)' => HasTurn(d)
  BY DEF Links, Linked, HasKey
<1>3. \A d \in Calls : HasTurn(d)' = HasTurn(d)
  BY <1>1 DEF HasTurn
<1>4. \A k \in Keys : \A i \in DOMAIN chain[k] : chain[k][i] \in Calls
  BY ElementOfSeq, LenProperties DEF TypeOK
<1>5. QED
  BY <1>1, <1>2, <1>3, <1>4 DEF Links

\* A call that asks for its key is put behind all links.
LEMMA LinkAdded ==
  ASSUME TypeOK, Links, NEW c \in Calls, pc[c] = "idle", Goes(c, "queued"), UNCHANGED passed,
         chain' = [chain EXCEPT ![KeyOf[c]] = Append(@, c)]
  PROVE  Links'
<1> DEFINE k == KeyOf[c]
           q == chain[k]
           r == Append(q, c)
<1>1. k \in Keys /\ q \in Seq(Calls) /\ Len(q) \in Nat /\ DOMAIN q = 1 .. Len(q)
  BY CallsAssumption, LenProperties DEF TypeOK
<1>2. /\ r \in Seq(Calls) /\ DOMAIN r = 1 .. Len(q) + 1
      /\ \A i \in 1 .. Len(q) : r[i] = q[i]
      /\ r[Len(q) + 1] = c
  BY <1>1, AppendProperties, LenProperties
<1>3. c \notin Range(q)
  BY <1>1 DEF Links, Range
<1>4. chain'[k] = r /\ \A l \in Keys \ {k} : chain'[l] = chain[l]
  BY <1>1 DEF TypeOK
<1> HIDE DEF r
<1>5. IsInjective(q) /\ \A i \in DOMAIN q : KeyOf[q[i]] = k /\ pc[q[i]] # "idle" /\ q[i] \in Calls
  BY <1>1, ElementOfSeq DEF Links
<1>6. IsInjective(r)
  <2>1. \A i \in 1 .. Len(q) : q[i] # c
    BY <1>1, <1>3 DEF Range
  <2>2. SUFFICES ASSUME NEW i \in 1 .. Len(q) + 1, NEW j \in 1 .. Len(q) + 1, r[i] = r[j], i < j
                 PROVE  FALSE
    BY <1>1, <1>2 DEF IsInjective
  <2>3. i \in 1 .. Len(q) /\ (j \in 1 .. Len(q) \/ j = Len(q) + 1)
    BY <1>1, <2>2
  <2>4. CASE j = Len(q) + 1
    BY <1>2, <2>1, <2>2, <2>3, <2>4
  <2>5. CASE j \in 1 .. Len(q)
    <3>1. q[i] = q[j] /\ i \in DOMAIN q /\ j \in DOMAIN q /\ i # j
      BY <1>1, <1>2, <2>2, <2>3, <2>5
    <3>2. QED
      BY <1>5, <3>1 DEF IsInjective
  <2>6. QED
    BY <2>3, <2>4, <2>5
<1>7. pc'[c] = "queued" /\ \A d \in Calls \ {c} : pc'[d] = pc[d]
  BY DEF TypeOK, Goes
<1>8. \A i \in DOMAIN r : KeyOf[r[i]] = k /\ pc'[r[i]] # "idle"
  BY <1>1, <1>2, <1>5, <1>7
<1>9. Range(q) \subseteq Range(r) /\ c \in Range(r)
  BY <1>1, <1>2 DEF Range
<1>10. \A d \in Calls \ {c} : HasTurn(d) => HasTurn(d)'
  <2> SUFFICES ASSUME NEW d \in Calls \ {c}, HasTurn(d) PROVE HasTurn(d)'
    OBVIOUS
  <2>1. KeyOf[d] \in Keys
    BY CallsAssumption
  <2>2. CASE KeyOf[d] = k
    BY <1>1, <1>2, <1>4, <2>2 DEF HasTurn
  <2>3. CASE KeyOf[d] # k
    BY <1>4, <2>1, <2>3 DEF HasTurn
  <2>4. QED
    BY <2>2, <2>3
<1>11. \A d \in Calls : Linked(d)' => d \in Range(chain'[KeyOf[d]]) /\ d \notin passed'
  <2> SUFFICES ASSUME NEW d \in Calls, Linked(d)' PROVE d \in Range(chain'[KeyOf[d]]) /\ d \notin passed
    OBVIOUS
  <2>1. KeyOf[d] \in Keys
    BY CallsAssumption
  <2>2. CASE d = c
    BY <1>4, <1>9, <2>2 DEF Links
  <2>3. CASE d # c
    BY <1>4, <1>7, <1>9, <2>1, <2>3 DEF Links, Linked, HasKey
  <2>4. QED
    BY <2>2, <2>3
<1>12. \A l \in Keys : /\ IsInjective(chain'[l])
                       /\ \A i \in DOMAIN chain'[l] : KeyOf[chain'[l][i]] = l /\ pc'[chain'[l][i]] # "idle"
  <2> SUFFICES ASSUME NEW l \in Keys
               PROVE  /\ IsInjective(chain'[l])
                      /\ \A i \in DOMAIN chain'[l] : KeyOf[chain'[l][i]] = l /\ pc'[chain'[l][i]] # "idle"
    OBVIOUS
  <2>1. CASE l = k
    BY <1>4, <1>6, <1>8, <2>1
  <2>2. CASE l # k
    <3>1. chain'[l] = chain[l] /\ \A i \in DOMAIN chain[l] : chain[l][i] \in Calls
      BY <1>4, <2>2, ElementOfSeq, LenProperties DEF TypeOK
    <3>2. QED
      BY <1>7, <3>1 DEF Links
  <2>3. QED
    BY <2>1, <2>2
<1>13. QED
  BY <1>7, <1>10, <1>11, <1>12 DEF Links, HasKey

\* A link that is resolved frees the turn of the next; when it is the last of its key and
\* had the turn, none that matters is dropped with it.
LEMMA LinkGone ==
  ASSUME TypeOK, Links, NEW c \in Calls, Linked(c), Goes(c, "done"), passed' = passed \cup {c},
         \/ UNCHANGED chain
         \/ HasKey(c) /\ PassesKey(c)
  PROVE  Links'
<1> DEFINE k == KeyOf[c]
           q == chain[k]
<1>1. /\ k \in Keys /\ \A l \in Keys : chain[l] \in Seq(Calls) /\ DOMAIN chain[l] = 1 .. Len(chain[l])
      /\ \A l \in Keys : Len(chain[l]) \in Nat
  BY CallsAssumption, LenProperties DEF TypeOK
<1>2. pc'[c] = "done" /\ \A d \in Calls \ {c} : pc'[d] = pc[d]
  BY DEF TypeOK, Goes
<1>3. /\ \A d \in Calls : Linked(d)' => d # c /\ Linked(d)
      /\ \A d \in Calls : HasKey(d)' => d # c /\ HasKey(d)
      /\ \A d \in Calls : pc'[d] = "idle" => d # c /\ pc[d] = "idle"
      /\ \A d \in Calls : pc[d] # "idle" => pc'[d] # "idle"
  BY <1>2 DEF Linked, HasKey
<1>4. CASE UNCHANGED chain
  <2>1. \A d \in Calls : HasTurn(d) => HasTurn(d)'
    BY <1>4 DEF HasTurn
  <2>2. \A l \in Keys : \A i \in DOMAIN chain[l] : chain[l][i] \in Calls
    BY <1>1, ElementOfSeq
  <2>3. QED
    BY <1>3, <1>4, <2>1, <2>2 DEF Links
<1>5. CASE HasKey(c) /\ q # <<>> /\ Last(q) = c /\ chain' = [chain EXCEPT ![k] = <<>>]
  <2>1. chain'[k] = <<>> /\ \A l \in Keys \ {k} : chain'[l] = chain[l]
    BY <1>1, <1>5 DEF TypeOK
  <2>2. \A d \in Calls : Linked(d) /\ d # c => KeyOf[d] # k
    <3> SUFFICES ASSUME NEW d \in Calls, Linked(d), d # c, KeyOf[d] = k PROVE FALSE
      OBVIOUS
    <3>1. PICK i \in 1 .. Len(q) : q[i] = d
      BY <1>1 DEF Links, Range
    <3>2. q[Len(q)] = c /\ Len(q) \in 1 .. Len(q) /\ i < Len(q)
      BY <1>1, <1>5, <3>1 DEF Last
    <3>3. HasTurn(c)
      BY <1>5 DEF Links
    <3>4. i \in DOMAIN q /\ Len(q) \in DOMAIN q
      BY <1>1, <3>1, <3>2
    <3>5. d \in passed
      BY <3>1, <3>2, <3>3, <3>4 DEF HasTurn
    <3>6. QED
      BY <3>5 DEF Links
  <2>3. \A d \in Calls : HasKey(d)' => HasTurn(d)'
    <3> SUFFICES ASSUME NEW d \in Calls, HasKey(d)' PROVE HasTurn(d)'
      OBVIOUS
    <3>1. HasKey(d) /\ Linked(d) /\ d # c
      BY <1>3 DEF Linked
    <3>2. chain'[KeyOf[d]] = chain[KeyOf[d]]
      BY <2>1, <2>2, <3>1, CallsAssumption
    <3>3. HasTurn(d)
      BY <3>1 DEF Links
    <3>4. QED
      BY <3>2, <3>3 DEF HasTurn
  <2>4. \A d \in Calls : Linked(d)' => d \in Range(chain'[KeyOf[d]]) /\ d \notin passed'
    BY <1>3, <2>1, <2>2, CallsAssumption DEF Links
  <2>5. \A l \in Keys : /\ IsInjective(chain'[l])
                        /\ \A i \in DOMAIN chain'[l] : KeyOf[chain'[l][i]] = l /\ pc'[chain'[l][i]] # "idle"
    <3> SUFFICES ASSUME NEW l \in Keys
                 PROVE  /\ IsInjective(chain'[l])
                        /\ \A i \in DOMAIN chain'[l] : KeyOf[chain'[l][i]] = l /\ pc'[chain'[l][i]] # "idle"
      OBVIOUS
    <3>1. CASE l = k
      BY <2>1, <3>1 DEF IsInjective
    <3>2. CASE l # k
      <4>1. chain'[l] = chain[l] /\ \A i \in DOMAIN chain[l] : chain[l][i] \in Calls
        BY <1>1, <2>1, <3>2, ElementOfSeq
      <4>2. QED
        BY <1>3, <4>1 DEF Links
    <3>3. QED
      BY <3>1, <3>2
  <2>6. QED
    BY <1>3, <2>3, <2>4, <2>5 DEF Links
<1>6. PassesKey(c) => UNCHANGED chain \/ (q # <<>> /\ Last(q) = c /\ chain' = [chain EXCEPT ![k] = <<>>])
  BY <1>1 DEF PassesKey, TypeOK
<1>7. QED
  BY <1>4, <1>5, <1>6

\* No step of a call leaves another link resolved out of turn.
LEMMA LinksStep ==
  ASSUME IInv, [Next]_vars
  PROVE  Links'
<1> USE DEF links
<1>1. TypeOK /\ Links /\ Waits
  BY DEF IInv
<1>2. ASSUME NEW c \in Calls, Asks(c)
      PROVE  Links'
  <2>1. CASE c \in cancelled
    <3>1. pc[c] = "idle" /\ Goes(c, "done") /\ UNCHANGED <<chain, passed>>
      BY <1>2, <2>1 DEF Asks
    <3>2. pc'[c] = "done" /\ \A d \in Calls \ {c} : pc'[d] = pc[d]
      BY <1>1, <3>1 DEF TypeOK, Goes
    <3>3. /\ \A d \in Calls : Linked(d)' => Linked(d)
          /\ \A d \in Calls : HasKey(d)' => HasKey(d)
          /\ \A d \in Calls : HasTurn(d)' = HasTurn(d)
          /\ \A d \in Calls : pc'[d] = "idle" => pc[d] = "idle"
      BY <3>1, <3>2 DEF Linked, HasKey, HasTurn
    <3>4. \A k \in Keys : \A i \in DOMAIN chain[k] : chain[k][i] \in Calls
      BY <1>1, ElementOfSeq, LenProperties DEF TypeOK
    <3>5. QED
      BY <1>1, <3>1, <3>3, <3>4 DEF Links
  <2>2. CASE c \notin cancelled
    BY <1>1, <1>2, <2>2, LinkAdded DEF Asks
  <2>3. QED
    BY <2>1, <2>2
<1>3. ASSUME NEW c \in Calls, Wakes(c) \/ AsksPermit(c) \/ Begins(c)
      PROVE  Links'
  <2>1. UNCHANGED links /\ \A d \in Calls \ {c} : pc'[d] = pc[d]
    BY <1>1, <1>3 DEF Wakes, AsksPermit, Begins, Goes, TypeOK
  <2>2. Linked(c) /\ Linked(c)' /\ (HasKey(c)' => HasTurn(c))
    BY <1>1, <1>3 DEF Wakes, AsksPermit, Begins, Goes, TypeOK, Linked, HasKey, Links
  <2>3. QED
    BY <1>1, <2>1, <2>2, LinksKept
<1>4. ASSUME NEW c \in Calls, Resumes(c)
      PROVE  Links'
  <2>1. CASE c \in cancelled
    BY <1>1, <1>4, <2>1, LinkGone DEF Resumes, Linked, HasKey
  <2>2. CASE c \notin cancelled
    <3>1. UNCHANGED links /\ \A d \in Calls \ {c} : pc'[d] = pc[d]
      BY <1>1, <1>4, <2>2 DEF Resumes, Goes, TypeOK
    <3>2. Linked(c) /\ Linked(c)' /\ (HasKey(c)' => HasTurn(c))
      BY <1>1, <1>4, <2>2 DEF Resumes, Goes, TypeOK, Linked, HasKey, Links
    <3>3. QED
      BY <1>1, <3>1, <3>2, LinksKept
  <2>3. QED
    BY <2>1, <2>2
<1>5. ASSUME NEW c \in Calls, Abandons(c)
      PROVE  Links'
  BY <1>1, <1>5, LinkGone DEF Abandons, LinkResolved, Linked
<1>6. ASSUME NEW c \in Calls, Denied(c) \/ Ends(c) \/ Leaves(c)
      PROVE  Links'
  <2>1. HasKey(c) /\ Linked(c) /\ Goes(c, "done") /\ PassesKey(c)
    BY <1>6 DEF Denied, Ends, Leaves, HasKey, Linked
  <2>2. passed' = passed \cup {c}
    BY <2>1 DEF PassesKey
  <2>3. QED
    BY <1>1, <2>1, <2>2, LinkGone
<1>7. CASE Drains
  <2>1. PICK c \in Calls : c = waiters[scan] /\ pc[c] = "waiting"
    BY <1>1, <1>7, Drained DEF Drains
  <2>2. UNCHANGED links /\ (UNCHANGED pc \/ Goes(c, "granted"))
    BY <1>7, <2>1 DEF Drains
  <2>3. \A d \in Calls \ {c} : pc'[d] = pc[d]
    BY <1>1, <2>2 DEF TypeOK, Goes
  <2>4. pc'[c] = pc[c] \/ (Linked(c) /\ Linked(c)' /\ (HasKey(c)' => HasTurn(c)))
    BY <1>1, <2>1, <2>2 DEF TypeOK, Goes, Linked, HasKey, Links
  <2>5. QED
    BY <1>1, <2>2, <2>3, <2>4, LinksKept
<1>8. ASSUME NEW c \in Calls, Cancels(c)
      PROVE  Links'
  <2>1. UNCHANGED links /\ \A d \in Calls \ {c} : pc'[d] = pc[d]
    BY <1>1, <1>8 DEF Cancels, TypeOK
  <2>2. pc'[c] = pc[c] \/ (Linked(c) /\ Linked(c)' /\ (HasKey(c)' => HasTurn(c)))
    BY <1>1, <1>8 DEF Cancels, TypeOK, Linked, HasKey, Links
  <2>3. QED
    BY <1>1, <2>1, <2>2, LinksKept
<1>9. CASE UNCHANGED vars
  <2>1. UNCHANGED links /\ UNCHANGED pc
    BY <1>9 DEF vars
  <2>2. QED
    BY <1>1, <2>1, LinksKept
<1>10. QED
  BY <1>2, <1>3, <1>4, <1>5, <1>6, <1>7, <1>8, <1>9 DEF Next, Step

-----------------------------------------------------------------------------
\* The waiters are the calls that wait.
LEMMA WaitsStep ==
  ASSUME IInv, [Next]_vars
  PROVE  Waits'
<1>1. TypeOK /\ Waits
  BY DEF IInv
<1>2. waiters \in Seq(Calls) /\ DOMAIN waiters = 1 .. Len(waiters) /\ Len(waiters) \in Nat
  BY <1>1, LenProperties DEF TypeOK
<1>3. ASSUME UNCHANGED waiters, \A d \in Calls : pc'[d] = "waiting" <=> pc[d] = "waiting"
      PROVE  Waits'
  BY <1>1, <1>3 DEF Waits
<1>4. ASSUME NEW c \in Calls, AsksPermit(c)
      PROVE  Waits'
  <2>1. CASE c \in cancelled
    BY <1>1, <1>3, <1>4, <2>1 DEF AsksPermit, Goes, TypeOK
  <2>2. CASE c \notin cancelled
    <3>1. waiters' = Append(waiters, c) /\ pc[c] = "turn" /\ Goes(c, "waiting")
      BY <1>4, <2>2 DEF AsksPermit
    <3>2. /\ DOMAIN waiters' = 1 .. Len(waiters) + 1
          /\ \A i \in 1 .. Len(waiters) : waiters'[i] = waiters[i]
          /\ waiters'[Len(waiters) + 1] = c
      BY <1>2, <3>1, AppendProperties, LenProperties
    <3>3. c \notin Range(waiters) /\ \A i \in 1 .. Len(waiters) : waiters[i] # c
      BY <1>1, <1>2, <3>1 DEF Waits, Range
    <3>4. Range(waiters') = Range(waiters) \cup {c}
      BY <1>2, <3>2 DEF Range
    <3>5. \A i, j \in 1 .. Len(waiters) : waiters[i] = waiters[j] => i = j
      BY <1>1, <1>2 DEF Waits, IsInjective
    <3>6. \A i, j \in 1 .. Len(waiters) + 1 : waiters'[i] = waiters'[j] => i = j
      <4>1. \A i \in 1 .. Len(waiters) + 1 : i \in 1 .. Len(waiters) \/ i = Len(waiters) + 1
        BY <1>2
      <4>2. QED
        BY <3>2, <3>3, <3>5, <4>1
    <3>7. {d \in Calls : pc'[d] = "waiting"} = {d \in Calls : pc[d] = "waiting"} \cup {c}
      BY <1>1, <3>1 DEF TypeOK, Goes
    <3>8. QED
      BY <1>1, <3>2, <3>4, <3>6, <3>7 DEF Waits, IsInjective
  <2>3. QED
    BY <2>1, <2>2
<1>5. CASE Drains
  <2>1. PICK c \in Calls :
          /\ c = waiters[scan] /\ pc[c] = "waiting"
          /\ IsInjective(Pick(waiters, DOMAIN waiters \ {scan}))
          /\ Range(Pick(waiters, DOMAIN waiters \ {scan})) = Range(waiters) \ {c}
    BY <1>1, <1>5, Drained DEF Drains
  <2>2. CASE UNCHANGED <<pc, waiters>>
    BY <1>3, <2>2
  <2>3. CASE waiters' = Pick(waiters, DOMAIN waiters \ {scan}) /\ Goes(c, "granted")
    <3>1. {d \in Calls : pc'[d] = "waiting"} = {d \in Calls : pc[d] = "waiting"} \ {c}
      BY <1>1, <2>3 DEF TypeOK, Goes
    <3>2. QED
      BY <1>1, <2>1, <2>3, <3>1 DEF Waits
  <2>4. QED
    BY <1>5, <2>1, <2>2, <2>3 DEF Drains
<1>6. ASSUME NEW c \in Calls, Cancels(c)
      PROVE  Waits'
  <2> DEFINE I == {i \in DOMAIN waiters : waiters[i] # c}
             rest == Pick(waiters, I)
  <2>1. I \in SUBSET DOMAIN waiters
    OBVIOUS
  <2>2. IsInjective(rest) /\ Range(rest) = {waiters[i] : i \in I}
    BY <1>1, <1>2, <2>1, PickProperties DEF Waits
  <2>3. waiters' = rest
    BY <1>6 DEF Cancels
  <2> HIDE DEF rest
  <2>4. Range(rest) = Range(waiters) \ {c}
    BY <2>2 DEF Range
  <2>5. {d \in Calls : pc'[d] = "waiting"} = {d \in Calls : pc[d] = "waiting"} \ {c}
    BY <1>1, <1>6 DEF Cancels, TypeOK
  <2>6. QED
    BY <1>1, <2>2, <2>3, <2>4, <2>5 DEF Waits
<1>7. ASSUME NEW c \in Calls, Asks(c) \/ Wakes(c) \/ Resumes(c) \/ Abandons(c)
                              \/ Begins(c) \/ Denied(c) \/ Ends(c) \/ Leaves(c)
      PROVE  Waits'
  <2>1. UNCHANGED waiters
    BY <1>7 DEF Asks, Wakes, Resumes, Abandons, Begins, Denied, Ends, Leaves
  <2>2. \A d \in Calls : pc'[d] = "waiting" <=> pc[d] = "waiting"
    BY <1>1, <1>7 DEF Asks, Wakes, Resumes, Abandons, Begins, Denied, Ends, Leaves, Goes, TypeOK
  <2>3. QED
    BY <1>3, <2>1, <2>2
<1>8. CASE UNCHANGED vars
  BY <1>3, <1>8 DEF vars
<1>9. QED
  BY <1>4, <1>5, <1>6, <1>7, <1>8 DEF Next, Step

-----------------------------------------------------------------------------
\* A permit that is given is counted ...
LEMMA HolderAdded ==
  ASSUME TypeOK, Counters, NEW c \in Calls, ~HasPermit(c), Goes(c, "granted"),
         active' = active + 1, activeIn' = [activeIn EXCEPT ![PoolOf[c]] = @ + 1]
  PROVE  Counters' /\ Holders' = Holders \cup {c}
<1>1. Holders' = Holders \cup {c} /\ c \notin Holders
  BY DEF TypeOK, Goes, Holders, HasPermit
<1>2. Cardinality(Holders') = Cardinality(Holders) + 1
  BY <1>1, HoldersFinite, CountOneMore
<1>3. ASSUME NEW p \in Pools
      PROVE  activeIn'[p] = Cardinality(HoldersIn(p)')
  <2>1. CASE p = PoolOf[c]
    <3>1. HoldersIn(p)' = HoldersIn(p) \cup {c} /\ c \notin HoldersIn(p)
      BY <1>1, <2>1 DEF HoldersIn
    <3>2. Cardinality(HoldersIn(p)') = Cardinality(HoldersIn(p)) + 1
      BY <3>1, HoldersFinite, CountOneMore
    <3>3. QED
      BY <2>1, <3>2 DEF Counters, TypeOK
  <2>2. CASE p # PoolOf[c]
    <3>1. HoldersIn(p)' = HoldersIn(p)
      BY <1>1, <2>2 DEF HoldersIn
    <3>2. QED
      BY <2>2, <3>1 DEF Counters, TypeOK
  <2>3. QED
    BY <2>1, <2>2
<1>4. QED
  BY <1>1, <1>2, <1>3 DEF Counters

\* ... and one that is given back no longer is.
LEMMA HolderRemoved ==
  ASSUME TypeOK, Counters, NEW c \in Calls, HasPermit(c), Goes(c, "done"), PassesPermit(c)
  PROVE  Counters' /\ Holders' = Holders \ {c}
<1>1. Holders' = Holders \ {c} /\ c \in Holders
  BY DEF TypeOK, Goes, Holders, HasPermit
<1>2. Cardinality(Holders') = Cardinality(Holders) - 1
  BY <1>1, HoldersFinite, CountOneLess
<1>3. active' = active - 1 /\ activeIn' = [activeIn EXCEPT ![PoolOf[c]] = @ - 1]
  BY DEF PassesPermit
<1>4. ASSUME NEW p \in Pools
      PROVE  activeIn'[p] = Cardinality(HoldersIn(p)')
  <2>1. CASE p = PoolOf[c]
    <3>1. HoldersIn(p)' = HoldersIn(p) \ {c} /\ c \in HoldersIn(p)
      BY <1>1, <2>1 DEF HoldersIn
    <3>2. Cardinality(HoldersIn(p)') = Cardinality(HoldersIn(p)) - 1
      BY <3>1, HoldersFinite, CountOneLess
    <3>3. QED
      BY <1>3, <2>1, <3>2 DEF Counters, TypeOK
  <2>2. CASE p # PoolOf[c]
    <3>1. HoldersIn(p)' = HoldersIn(p)
      BY <1>1, <2>2 DEF HoldersIn
    <3>2. QED
      BY <1>3, <2>2, <3>1 DEF Counters, TypeOK
  <2>3. QED
    BY <2>1, <2>2
<1>5. QED
  BY <1>1, <1>2, <1>3, <1>4 DEF Counters

\* The permits are counted, and nobody holds one beyond the concurrency of its run.
LEMMA PermitsStep ==
  ASSUME IInv, [Next]_vars
  PROVE  Counters' /\ Limits'
<1>1. TypeOK /\ Waits /\ Counters /\ Limits
  BY DEF IInv
<1>2. ASSUME UNCHANGED <<limit, active, activeIn>>, \A d \in Calls : HasPermit(d)' <=> HasPermit(d)
      PROVE  Counters' /\ Limits'
  <2>1. Holders' = Holders /\ \A p : HoldersIn(p)' = HoldersIn(p)
    BY <1>2 DEF Holders, HoldersIn
  <2>2. QED
    BY <1>1, <1>2, <2>1 DEF Counters, Limits
<1>3. CASE Drains
  <2>1. PICK c \in Calls : c = waiters[scan] /\ pc[c] = "waiting"
    BY <1>1, <1>3, Drained DEF Drains
  <2>2. /\ limit' = LimitWith(c) /\ limit' \in Nat /\ limit' <= limit /\ limit' <= LimitOf[RunOf[c]]
        /\ limit \in Nat /\ active \in Nat /\ LimitOf \in [Runs -> Nat] /\ RunOf \in [Calls -> Runs]
    <3>1. limit' = LimitWith(c)
      BY <1>3, <2>1 DEF Drains
    <3>2. LimitWith(c) \in Nat /\ LimitWith(c) <= limit /\ LimitWith(c) <= LimitOf[RunOf[c]]
      BY <1>1, Lowered
    <3>3. limit \in Nat /\ active \in Nat
      BY <1>1 DEF TypeOK
    <3>4. LimitOf \in [Runs -> Nat] /\ RunOf \in [Calls -> Runs]
      BY CallsAssumption, LimitsAssumption
    <3>5. QED
      BY <3>1, <3>2, <3>3, <3>4
  <2>3. CASE UNCHANGED <<pc, active, activeIn>>
    <3>1. Holders' = Holders /\ \A p : HoldersIn(p)' = HoldersIn(p)
      BY <2>3 DEF Holders, HoldersIn, HasPermit
    <3>2. \A d \in Holders : LimitOf[RunOf[d]] \in Nat
      BY <2>2 DEF Holders
    <3>3. QED
      BY <1>1, <2>2, <2>3, <3>1, <3>2 DEF Counters, Limits
  <2>4. CASE /\ ~(active >= LimitWith(c)) /\ Goes(c, "granted")
             /\ active' = active + 1 /\ activeIn' = [activeIn EXCEPT ![PoolOf[c]] = @ + 1]
    <3>1. Counters' /\ Holders' = Holders \cup {c}
      BY <1>1, <2>1, <2>4, HolderAdded DEF HasPermit
    <3>2. active' <= limit'
      BY <2>2, <2>4
    <3>3. \A d \in Holders : LimitOf[RunOf[d]] \in Nat
      BY <2>2 DEF Holders
    <3>4. LimitOf[RunOf[c]] \in Nat /\ active' \in Nat
      BY <2>2, <2>4
    <3>5. QED
      BY <1>1, <2>2, <3>1, <3>2, <3>3, <3>4 DEF Limits
  <2>5. QED
    BY <1>3, <2>1, <2>3, <2>4 DEF Drains
<1>4. ASSUME NEW c \in Calls, Denied(c) \/ Ends(c)
      PROVE  Counters' /\ Limits'
  <2>1. HasPermit(c) /\ Goes(c, "done") /\ PassesPermit(c)
    BY <1>4 DEF Denied, Ends, HasPermit
  <2>2. Counters' /\ Holders' = Holders \ {c}
    BY <1>1, <2>1, HolderRemoved
  <2>3. active' = active - 1 /\ active \in Nat
    BY <1>1, <2>1 DEF PassesPermit, TypeOK
  <2>4. CASE UNCHANGED limit
    <3>1. \A d \in Holders : LimitOf[RunOf[d]] \in Nat
      BY CallsAssumption, LimitsAssumption DEF Holders
    <3>2. QED
      BY <1>1, <2>2, <2>3, <2>4, <3>1 DEF Limits
  <2>5. CASE active = 1
    <3>1. Holders' = {}
      <4>1. IsFiniteSet(Holders')
        BY <2>2, HoldersFinite, FS_RemoveElement
      <4>2. Cardinality(Holders') = 0
        BY <2>2, <2>3, <2>5 DEF Counters
      <4>3. QED
        BY <4>1, <4>2, FS_EmptySet
    <3>2. QED
      BY <2>2, <3>1 DEF Limits
  <2>6. QED
    BY <2>1, <2>4, <2>5 DEF PassesPermit
<1>5. ASSUME NEW c \in Calls, Asks(c) \/ Wakes(c) \/ Resumes(c) \/ Abandons(c) \/ AsksPermit(c)
                              \/ Begins(c) \/ Leaves(c) \/ Cancels(c)
      PROVE  Counters' /\ Limits'
  <2>1. UNCHANGED <<limit, active, activeIn>>
    BY <1>5 DEF Asks, Wakes, Resumes, Abandons, AsksPermit, Begins, Leaves, Cancels, NoPermit, permits
  <2>2. \A d \in Calls : HasPermit(d)' <=> HasPermit(d)
    <3>1. CASE Cancels(c)
      BY <1>1, <3>1 DEF Cancels, TypeOK, HasPermit
    <3>2. CASE ~Cancels(c)
      BY <1>1, <1>5, <3>2 DEF Asks, Wakes, Resumes, Abandons, AsksPermit, Begins, Leaves, Goes, TypeOK, HasPermit
    <3>3. QED
      BY <3>1, <3>2
  <2>3. QED
    BY <1>2, <2>1, <2>2
<1>6. CASE UNCHANGED vars
  BY <1>2, <1>6 DEF vars, permits, HasPermit
<1>7. QED
  BY <1>3, <1>4, <1>5, <1>6 DEF Next, Step

-----------------------------------------------------------------------------
\* What the counters and limits of a call's run and pool are.
LEMMA CallTypes ==
  ASSUME TypeOK
  PROVE  /\ limit \in Nat /\ active \in Nat
         /\ waiters \in Seq(Calls) /\ Len(waiters) \in Nat /\ DOMAIN waiters = 1 .. Len(waiters)
         /\ \A i \in DOMAIN waiters : waiters[i] \in Calls
         /\ \A d \in Calls : /\ PoolOf[d] \in Pools
                             /\ limitIn[PoolOf[d]] \in Nat /\ activeIn[PoolOf[d]] \in Nat
                             /\ LimitOf[RunOf[d]] \in Nat /\ PoolLimitOf[RunOf[d]] \in Nat
<1>1. waiters \in Seq(Calls) /\ Len(waiters) \in Nat /\ DOMAIN waiters = 1 .. Len(waiters)
  BY LenProperties DEF TypeOK
<1>2. \A i \in DOMAIN waiters : waiters[i] \in Calls
  BY <1>1, ElementOfSeq
<1>3. \A d \in Calls : RunOf[d] \in Runs /\ PoolOf[d] \in Pools
  BY CallsAssumption
<1>4. /\ limit \in Nat /\ active \in Nat /\ limitIn \in [Pools -> Nat] /\ activeIn \in [Pools -> Nat]
      /\ LimitOf \in [Runs -> Nat] /\ PoolLimitOf \in [Runs -> Nat]
  BY LimitsAssumption DEF TypeOK
<1>5. QED
  BY <1>1, <1>2, <1>3, <1>4

\* A round of drainNetwork lowers limits and never a counter, so who was seen or refused
\* still is, and the waiter at hand is seen.
LEMMA DrainLowers ==
  ASSUME TypeOK, Waits, Drains
  PROVE  /\ waiters[scan] \in Calls /\ waiters[scan] \in Seen'
         /\ Seen \subseteq Seen' /\ Refused \subseteq Refused'
<1>1. PICK c \in Calls : c = waiters[scan]
  BY Drained DEF Drains
<1> DEFINE p == PoolOf[c]
<1>2. /\ limit' = Smaller(limit, LimitOf[RunOf[c]])
      /\ limitIn' = [limitIn EXCEPT ![p] = Smaller(limitIn[p], PoolLimitOf[RunOf[c]])]
      /\ \/ UNCHANGED <<active, activeIn>>
         \/ active' = active + 1 /\ activeIn' = [activeIn EXCEPT ![p] = @ + 1]
  BY <1>1 DEF Drains, LimitWith, PoolLimitWith
<1>3. \A d \in Calls : /\ PoolOf[d] \in Pools
                      /\ limitIn[PoolOf[d]] \in Nat /\ activeIn[PoolOf[d]] \in Nat
                      /\ LimitOf[RunOf[d]] \in Nat /\ PoolLimitOf[RunOf[d]] \in Nat
  BY CallTypes
<1>4. /\ limit \in Nat /\ active \in Nat /\ limitIn \in [Pools -> 1 .. NoLimit]
      /\ activeIn \in [Pools -> Nat] /\ p \in Pools
  BY <1>3, CallTypes DEF TypeOK
<1>5. limit' \in Nat /\ limit' <= limit /\ limit' <= LimitOf[RunOf[c]]
  BY <1>2, <1>3, <1>4 DEF Smaller
<1>6. /\ \A d \in Calls : limitIn'[PoolOf[d]] \in Nat /\ limitIn'[PoolOf[d]] <= limitIn[PoolOf[d]]
      /\ limitIn'[p] <= PoolLimitOf[RunOf[c]]
  BY <1>2, <1>3, <1>4 DEF Smaller
<1>7. /\ active' \in Nat /\ active' >= active
      /\ \A d \in Calls : activeIn'[PoolOf[d]] \in Nat /\ activeIn'[PoolOf[d]] >= activeIn[PoolOf[d]]
  BY <1>2, <1>3, <1>4
<1>8. c \in Seen'
  BY <1>5, <1>6 DEF Seen
<1>9. ASSUME NEW d \in Calls
      PROVE  (d \in Seen => d \in Seen') /\ (d \in Refused => d \in Refused')
  BY <1>3, <1>4, <1>5, <1>6, <1>7 DEF Seen, Refused
<1>10. Seen \subseteq Calls /\ Refused \subseteq Calls
  BY DEF Seen, Refused
<1>11. QED
  BY <1>1, <1>8, <1>9, <1>10

\* The waiter at hand stays: it is refused, and the loop is past it.
LEMMA DrainRefuses ==
  ASSUME TypeOK, Waits, Sees, Drains, UNCHANGED <<pc, waiters, active, activeIn>>
  PROVE  Sees'
<1> DEFINE c == waiters[scan]
           n == Len(waiters)
<1>1. /\ c \in Calls /\ c \in Seen'
      /\ Seen \subseteq Seen' /\ Refused \subseteq Refused'
  BY DrainLowers
<1>2. /\ n \in Nat /\ DOMAIN waiters = 1 .. n /\ \A i \in 1 .. n : waiters[i] \in Calls
      /\ active \in Nat /\ activeIn[PoolOf[c]] \in Nat /\ PoolOf[c] \in Pools
      /\ scan \in 1 .. n
  BY <1>1, CallTypes DEF TypeOK, Drains
<1>3. active # active + 1
  BY <1>2
<1>4. ScansOn(scan + 1, n) /\ (active >= LimitWith(c) \/ activeIn[PoolOf[c]] >= PoolLimitWith(c))
  BY <1>3 DEF Drains
<1>5. c \in Refused'
  <2>1. limit' = LimitWith(c) /\ limitIn'[PoolOf[c]] = PoolLimitWith(c)
    BY <1>2 DEF Drains, TypeOK
  <2>2. QED
    BY <1>1, <1>4, <2>1 DEF Refused
<1>6. \A i \in 1 .. n : scan' = 0 \/ i < scan' => i < scan \/ i = scan
  BY <1>2, <1>4 DEF ScansOn
<1>7. \A i \in 1 .. n : scan' = 0 \/ i < scan' => waiters[i] \in Seen' \cap Refused'
  BY <1>1, <1>2, <1>5, <1>6 DEF Sees
<1>8. Holders' \subseteq Seen'
  BY <1>1 DEF Sees, Holders, HasPermit
<1>9. \/ \A i \in 1 .. n : waiters[i] \in Seen'
      \/ scan' # 0 /\ \A i \in 1 .. n : i < n => waiters[i] \in Seen' \cap Refused'
  <2>1. CASE \A i \in 1 .. n : waiters[i] \in Seen
    BY <1>1, <1>2, <2>1
  <2>2. CASE \A i \in 1 .. n : i < n => waiters[i] \in Seen \cap Refused
    <3>1. CASE scan' = 0
      BY <1>7, <3>1
    <3>2. CASE scan' # 0
      BY <1>1, <1>2, <2>2, <3>2
    <3>3. QED
      BY <3>1, <3>2
  <2>3. QED
    BY <1>2, <2>1, <2>2 DEF Sees
<1>10. QED
  BY <1>2, <1>7, <1>8, <1>9 DEF Sees

\* The waiter at hand gets its permit: then every other waiter is seen, and so is every
\* call that holds one.
LEMMA DrainGrants ==
  ASSUME TypeOK, Waits, Counters, Sees, Drains, active' = active + 1
  PROVE  /\ Sees' /\ Counters'
         /\ \A d \in Calls : (HasPermit(d) \/ pc[d] = "waiting")' => d \in Seen'
         /\ active' <= limit' /\ activeIn'[PoolOf[waiters[scan]]] <= limitIn'[PoolOf[waiters[scan]]]
         /\ Goes(waiters[scan], "granted")
<1> DEFINE c == waiters[scan]
           n == Len(waiters)
           p == PoolOf[c]
           rest == Pick(waiters, DOMAIN waiters \ {scan})
<1>1. /\ c \in Calls /\ c \in Seen'
      /\ Seen \subseteq Seen' /\ Refused \subseteq Refused'
  BY DrainLowers
<1>2. /\ n \in Nat /\ DOMAIN waiters = 1 .. n /\ \A i \in 1 .. n : waiters[i] \in Calls
      /\ active \in Nat /\ activeIn[p] \in Nat /\ p \in Pools
      /\ limit \in Nat /\ limitIn[p] \in Nat
      /\ LimitOf[RunOf[c]] \in Nat /\ PoolLimitOf[RunOf[c]] \in Nat
      /\ scan \in 1 .. n
  BY <1>1, CallTypes DEF TypeOK, Drains
<1>3. active # active + 1
  BY <1>2
<1>4. /\ ~(active >= LimitWith(c)) /\ ~(activeIn[p] >= PoolLimitWith(c))
      /\ waiters' = rest /\ ScansOn(scan, n - 1) /\ Goes(c, "granted")
      /\ activeIn' = [activeIn EXCEPT ![p] = @ + 1]
      /\ limit' = LimitWith(c) /\ limitIn' = [limitIn EXCEPT ![p] = PoolLimitWith(c)]
  BY <1>3 DEF Drains
<1>5. /\ DOMAIN rest = 1 .. n - 1
      /\ \A i \in 1 .. n - 1 : rest[i] = waiters[IF i < scan THEN i ELSE i + 1]
  BY <1>2, CallTypes, PickOthers
<1>6. /\ Range(rest) = Range(waiters) \ {c} /\ Len(rest) = n - 1 /\ pc[c] = "waiting"
      /\ rest \in Seq(Calls)
  BY Drained DEF Drains
<1> HIDE DEF rest
<1>7. \A i \in 1 .. n : i # scan => waiters[i] \in Seen
  <2>1. CASE \A i \in 1 .. n : waiters[i] \in Seen
    BY <2>1
  <2>2. CASE \A i \in 1 .. n : i < n => waiters[i] \in Seen \cap Refused
    <3>1. c \notin Seen \cap Refused
      BY <1>2, <1>4 DEF Seen, Refused, LimitWith, PoolLimitWith, Smaller
    <3>2. ~(scan < n)
      BY <1>2, <2>2, <3>1
    <3>3. QED
      BY <1>2, <2>2, <3>2
  <2>3. QED
    BY <1>2, <2>1, <2>2 DEF Sees
<1>8. \A i \in 1 .. n - 1 : rest[i] \in Seen'
  <2> SUFFICES ASSUME NEW i \in 1 .. n - 1
               PROVE  rest[i] \in Seen'
    OBVIOUS
  <2> DEFINE j == IF i < scan THEN i ELSE i + 1
  <2>1. j \in 1 .. n /\ j # scan /\ rest[i] = waiters[j]
    BY <1>2, <1>5
  <2>2. QED
    BY <1>1, <1>2, <1>4, <1>7, <2>1
<1>9. \A i \in 1 .. n - 1 : scan' = 0 \/ i < scan' => rest[i] \in Seen' \cap Refused'
  <2> SUFFICES ASSUME NEW i \in 1 .. n - 1, scan' = 0 \/ i < scan'
               PROVE  rest[i] \in Refused'
    BY <1>8
  <2>1. i < scan /\ i \in 1 .. n
    BY <1>2, <1>4 DEF ScansOn
  <2>2. waiters[i] \in Refused
    BY <1>2, <2>1 DEF Sees
  <2>3. QED
    BY <1>1, <1>2, <1>5, <2>1, <2>2
<1>10. Counters' /\ Holders' = Holders \cup {c}
  BY <1>1, <1>4, <1>6, HolderAdded DEF HasPermit
<1>11. Holders' \subseteq Seen'
  BY <1>1, <1>10 DEF Sees, Holders
<1>12. \A d \in Calls : pc'[d] = "waiting" => d \in Seen'
  <2> SUFFICES ASSUME NEW d \in Calls, pc'[d] = "waiting"
               PROVE  d \in Seen'
    OBVIOUS
  <2>1. d # c /\ pc[d] = "waiting"
    BY <1>1, <1>4 DEF Goes, TypeOK
  <2>2. d \in Range(waiters)
    BY <2>1 DEF Waits
  <2>3. PICK i \in 1 .. n : waiters[i] = d
    BY <1>2, <2>2 DEF Range
  <2>4. QED
    BY <1>1, <1>7, <2>1, <2>3
<1>13. active' <= limit' /\ activeIn'[p] <= limitIn'[p]
  <2>1. LimitWith(c) \in Nat /\ PoolLimitWith(c) \in Nat
    BY <1>1, Lowered
  <2>2. activeIn'[p] = activeIn[p] + 1 /\ limitIn'[p] = PoolLimitWith(c)
    BY <1>2, <1>4 DEF TypeOK
  <2>3. QED
    BY <1>2, <1>4, <2>1, <2>2
<1>14. Sees'
  BY <1>4, <1>5, <1>8, <1>9, <1>11 DEF Sees
<1>15. \A d \in Calls : HasPermit(d)' => d \in Seen'
  BY <1>11 DEF Holders
<1>16. QED
  BY <1>4, <1>10, <1>12, <1>13, <1>14, <1>15

\* Every step keeps who is seen and who is refused.
LEMMA SeesStep ==
  ASSUME IInv, [Next]_vars
  PROVE  Sees'
<1> DEFINE n == Len(waiters)
<1>1. TypeOK /\ Waits /\ Counters /\ Sees
  BY DEF IInv
<1>2. /\ n \in Nat /\ waiters \in Seq(Calls) /\ DOMAIN waiters = 1 .. n
      /\ \A i \in 1 .. n : waiters[i] \in Calls
      /\ active \in Nat
  BY <1>1, CallTypes
<1>3. UNCHANGED permits => UNCHANGED <<Seen, Refused>>
  BY DEF Seen, Refused, permits
<1>4. ASSUME UNCHANGED <<waiters, scan, permits>>, \A d \in Calls : HasPermit(d)' <=> HasPermit(d)
      PROVE  Sees'
  <2>1. Holders' = Holders
    BY <1>4 DEF Holders
  <2>2. UNCHANGED <<waiters, scan, limit, limitIn, active, activeIn>>
    BY <1>4 DEF permits
  <2>3. QED
    BY <1>1, <2>1, <2>2 DEF Sees, Seen, Refused
<1>5. ASSUME NEW c \in Calls, AsksPermit(c), c \notin cancelled
      PROVE  Sees'
  <2>1. /\ waiters' = Append(waiters, c) /\ scan' = 1 /\ scan = 0 /\ UNCHANGED permits
        /\ pc[c] = "turn" /\ Goes(c, "waiting")
    BY <1>5 DEF AsksPermit
  <2>2. /\ DOMAIN waiters' = 1 .. n + 1 /\ Len(waiters') = n + 1
        /\ \A i \in 1 .. n : waiters'[i] = waiters[i]
    BY <1>2, <2>1, AppendProperties, LenProperties
  <2>3. Holders' = Holders
    BY <1>1, <2>1 DEF Holders, HasPermit, Goes, TypeOK
  <2>4. \A i \in 1 .. n : waiters[i] \in Seen' \cap Refused'
    BY <1>1, <1>2, <1>3, <2>1 DEF Sees
  <2>5. \A i \in 1 .. n + 1 : ~(i < 1) /\ (i < n + 1 => i \in 1 .. n)
    BY <1>2
  <2>6. Holders' \subseteq Seen'
    BY <1>1, <1>3, <2>1, <2>3 DEF Sees
  <2>7. QED
    BY <2>1, <2>2, <2>4, <2>5, <2>6 DEF Sees
<1>6. CASE Drains
  <2>1. UNCHANGED <<pc, waiters, active, activeIn>> \/ active' = active + 1
    BY <1>6 DEF Drains
  <2>2. QED
    BY <1>1, <1>6, <2>1, DrainRefuses, DrainGrants
<1>7. ASSUME NEW c \in Calls, Denied(c) \/ Ends(c)
      PROVE  Sees'
  <2>1. HasPermit(c) /\ Goes(c, "done") /\ PassesPermit(c) /\ scan = 0 /\ UNCHANGED waiters
    BY <1>7 DEF Denied, Ends, HasPermit
  <2>2. Counters' /\ Holders' = Holders \ {c}
    BY <1>1, <2>1, HolderRemoved
  <2>3. n = 0 \/ scan' = 1
    BY <1>2, <2>1 DEF PassesPermit, ScansOn
  <2>4. CASE UNCHANGED <<limit, limitIn>>
    <3>1. UNCHANGED Seen
      BY <2>4 DEF Seen
    <3>2. \A i \in 1 .. n : ~(i < 1)
      BY <1>2
    <3>3. \A i \in 1 .. n : waiters[i] \in Seen
      BY <1>1, <1>2, <2>1 DEF Sees
    <3>4. \A i \in 1 .. n : ~(scan' = 0 \/ i < scan')
      BY <1>2, <2>3, <3>2
    <3>5. QED
      BY <1>1, <1>2, <2>1, <2>2, <3>1, <3>3, <3>4 DEF Sees
  <2>5. CASE active = 1 /\ waiters = <<>>
    <3>1. active' = active - 1
      BY <2>1 DEF PassesPermit
    <3>2. Holders' = {}
      <4>1. IsFiniteSet(Holders')
        BY <2>2, HoldersFinite, FS_RemoveElement
      <4>2. Cardinality(Holders') = 0
        BY <1>2, <2>2, <2>5, <3>1 DEF Counters
      <4>3. QED
        BY <4>1, <4>2, FS_EmptySet
    <3>3. DOMAIN waiters' = {}
      BY <2>1, <2>5
    <3>4. QED
      BY <3>2, <3>3 DEF Sees
  <2>6. QED
    BY <2>1, <2>4, <2>5 DEF PassesPermit
<1>8. ASSUME NEW c \in Calls, Cancels(c)
      PROVE  Sees'
  <2> DEFINE I == {i \in DOMAIN waiters : waiters[i] # c}
             rest == Pick(waiters, I)
  <2>1. waiters' = rest /\ scan = 0 /\ UNCHANGED scan /\ UNCHANGED permits
    BY <1>8 DEF Cancels
  <2>2. I \in SUBSET DOMAIN waiters
    OBVIOUS
  <2>3. rest \in Seq(Calls) /\ Range(rest) = {waiters[i] : i \in I}
    BY <1>2, <2>2, PickProperties
  <2> HIDE DEF rest
  <2>4. \A j \in DOMAIN rest : \E i \in 1 .. n : rest[j] = waiters[i]
    BY <1>2, <2>3 DEF Range
  <2>5. \A i \in 1 .. n : waiters[i] \in Seen' \cap Refused'
    BY <1>1, <1>2, <1>3, <2>1 DEF Sees
  <2>6. \A j \in DOMAIN rest : rest[j] \in Seen' \cap Refused'
    BY <2>4, <2>5
  <2>7. Holders' = Holders
    BY <1>1, <1>8 DEF Cancels, TypeOK, Holders, HasPermit
  <2>8. Holders' \subseteq Seen'
    BY <1>1, <1>3, <2>1, <2>7 DEF Sees
  <2>9. QED
    BY <2>1, <2>6, <2>8 DEF Sees
<1>9. ASSUME NEW c \in Calls, Asks(c) \/ Wakes(c) \/ Resumes(c) \/ Abandons(c)
                              \/ (AsksPermit(c) /\ c \in cancelled) \/ Begins(c) \/ Leaves(c)
      PROVE  Sees'
  <2>1. UNCHANGED <<waiters, scan, permits>>
    BY <1>9 DEF Asks, Wakes, Resumes, Abandons, AsksPermit, Begins, Leaves, NoPermit
  <2>2. \A d \in Calls : HasPermit(d)' <=> HasPermit(d)
    BY <1>1, <1>9 DEF Asks, Wakes, Resumes, Abandons, AsksPermit, Begins, Leaves, Goes, TypeOK, HasPermit
  <2>3. QED
    BY <1>4, <2>1, <2>2
<1>10. CASE UNCHANGED vars
  BY <1>4, <1>10 DEF vars, permits, HasPermit
<1>11. ASSUME NEW c \in Calls, Asks(c) \/ Step(c) \/ Cancels(c)
       PROVE  Sees'
  <2>1. CASE Denied(c) \/ Ends(c)
    BY <1>7, <2>1
  <2>2. CASE Cancels(c)
    BY <1>8, <2>2
  <2>3. CASE AsksPermit(c)
    <3>1. CASE c \in cancelled
      BY <1>9, <2>3, <3>1
    <3>2. CASE c \notin cancelled
      BY <1>5, <2>3, <3>2
    <3>3. QED
      BY <3>1, <3>2
  <2>4. CASE Asks(c) \/ Wakes(c) \/ Resumes(c) \/ Abandons(c) \/ Begins(c) \/ Leaves(c)
    BY <1>9, <2>4
  <2>5. QED
    BY ONLY <1>11, <2>1, <2>2, <2>3, <2>4 DEF Step
<1>12. QED
  BY <1>6, <1>10, <1>11 DEF Next

-----------------------------------------------------------------------------
\* What is out of a run's calls holds permits, so it is at most its concurrency.
LEMMA FullHouse ==
  ASSUME IInv, NEW c \in Calls, HasPermit(c)
  PROVE  LET r == RunOf[c]
         IN Cardinality({d \in Holders : RunOf[d] = r}) \in 0 .. LimitOf[r]
<1> DEFINE r == RunOf[c]
           House == {d \in Holders : RunOf[d] = r}
<1>1. IsFiniteSet(Holders) /\ House \subseteq Holders
  BY HoldersFinite
<1>2. Cardinality(House) \in Nat /\ Cardinality(House) <= Cardinality(Holders)
  BY <1>1, FS_Subset, FS_CardinalityType
<1>3. Cardinality(Holders) = active /\ active \in Nat
  BY DEF IInv, Counters, TypeOK
<1>4. active <= LimitOf[r] /\ LimitOf[r] \in Nat
  BY CallsAssumption, LimitsAssumption DEF IInv, Limits, Holders
<1>5. QED
  BY <1>2, <1>3, <1>4

\* The price of n calls.
LEMMA Prices ==
  ASSUME NEW m \in Nat, NEW n \in Nat
  PROVE  /\ m * n \in Nat
         /\ n > 0 => m * (n - 1) = m * n - m
         /\ \A k \in 0 .. n : m * k <= m * n
<1>1. \A k \in 0 .. n : m * n = m * k + m * (n - k) /\ m * k \in Nat /\ m * (n - k) \in Nat
  OBVIOUS
<1>2. \A k \in 0 .. n : m * k <= m * n
  BY <1>1
<1>3. QED
  BY <1>2

\* A call begins below the ceiling and joins less than a full house; one that ends moves
\* its price from what is out to what is spent.
LEMMA OvershootStep ==
  ASSUME IInv, [Next]_vars
  PROVE  OvershootBounded'
<1> DEFINE Out(r) == Cardinality(InFlight(r))
           Full(r) == Ceiling[r] + MaxCharge * LimitOf[r]
<1>1. /\ TypeOK /\ OvershootBounded
      /\ \A r \in Runs : /\ Ceiling[r] \in Nat /\ LimitOf[r] \in Nat /\ spent[r] \in Nat
                         /\ MaxCharge * LimitOf[r] \in Nat /\ Full(r) \in Nat
                         /\ Out(r) \in Nat /\ MaxCharge * Out(r) \in Nat
  <2>1. \A r : Out(r) \in Nat
    BY HoldersFinite, FS_CardinalityType
  <2>2. TypeOK /\ OvershootBounded
    BY DEF IInv
  <2>3. QED
    BY <2>1, <2>2, LimitsAssumption, Prices DEF TypeOK
<1>2. SUFFICES ASSUME NEW r \in Runs, Ceiling[r] # NoLimit
               PROVE  spent'[r] + MaxCharge * Cardinality(InFlight(r)') < Full(r)
  BY DEF OvershootBounded
<1>3. spent[r] + MaxCharge * Out(r) < Full(r)
  BY <1>1, <1>2 DEF OvershootBounded
<1>4. ASSUME UNCHANGED spent, \A d \in Calls : pc'[d] = "calling" <=> pc[d] = "calling"
      PROVE  spent'[r] + MaxCharge * Cardinality(InFlight(r)') < Full(r)
  <2>1. InFlight(r)' = InFlight(r)
    BY <1>4 DEF InFlight
  <2>2. QED
    BY <1>3, <1>4, <2>1
<1>5. ASSUME NEW c \in Calls, Begins(c)
      PROVE  spent'[r] + MaxCharge * Cardinality(InFlight(r)') < Full(r)
  <2>1. /\ pc[c] = "granted" /\ pc'[c] = "calling" /\ UNCHANGED spent
        /\ \A d \in Calls \ {c} : pc'[d] = pc[d]
        /\ ~MaySpendNoMore(RunOf[c])
    BY <1>1, <1>5 DEF Begins, Goes, TypeOK, ledger
  <2>2. CASE RunOf[c] = r
    <3>1. spent[r] < Ceiling[r]
      BY <1>1, <1>2, <2>1, <2>2 DEF MaySpendNoMore
    <3>2. InFlight(r)' \subseteq {d \in Holders : RunOf[d] = r}
      BY <2>1 DEF InFlight, Holders, HasPermit
    <3>3. /\ IsFiniteSet({d \in Holders : RunOf[d] = r})
          /\ Cardinality({d \in Holders : RunOf[d] = r}) \in 0 .. LimitOf[r]
      BY <2>1, <2>2, FullHouse, HoldersFinite, FS_Subset DEF HasPermit
    <3>4. Cardinality(InFlight(r)') \in 0 .. LimitOf[r]
      BY <1>1, <3>2, <3>3, FS_Subset, FS_CardinalityType
    <3>5. MaxCharge * Cardinality(InFlight(r)') <= MaxCharge * LimitOf[r]
      BY <1>1, <3>4, Prices, LimitsAssumption
    <3>6. MaxCharge * Cardinality(InFlight(r)') \in Nat
      BY <3>4, Prices, LimitsAssumption
    <3>7. QED
      BY <1>1, <2>1, <3>1, <3>5, <3>6
  <2>3. CASE RunOf[c] # r
    <3>1. InFlight(r)' = InFlight(r)
      BY <2>1, <2>3 DEF InFlight
    <3>2. QED
      BY <1>3, <2>1, <3>1
  <2>4. QED
    BY <2>2, <2>3
<1>6. ASSUME NEW c \in Calls, Ends(c)
      PROVE  spent'[r] + MaxCharge * Cardinality(InFlight(r)') < Full(r)
  <2>1. /\ pc[c] = "calling" /\ pc'[c] = "done"
        /\ \A d \in Calls \ {c} : pc'[d] = pc[d]
    BY <1>1, <1>6 DEF Ends, Goes, TypeOK
  <2>2. \E charge \in 0 .. MaxCharge : spent' = [spent EXCEPT ![RunOf[c]] = @ + charge]
    BY <1>6 DEF Ends
  <2>3. CASE RunOf[c] = r
    <3>1. InFlight(r)' = InFlight(r) \ {c} /\ c \in InFlight(r)
      BY <2>1, <2>3 DEF InFlight
    <3>2. Cardinality(InFlight(r)') = Out(r) - 1 /\ Out(r) > 0
      BY <3>1, HoldersFinite, CountOneLess
    <3>3. MaxCharge * (Out(r) - 1) = MaxCharge * Out(r) - MaxCharge
      BY <1>1, <3>2, Prices, LimitsAssumption
    <3>4. spent'[r] \in Nat /\ spent'[r] <= spent[r] + MaxCharge
      BY <1>1, <2>2, <2>3, LimitsAssumption DEF TypeOK
    <3>5. QED
      BY <1>1, <1>3, <3>2, <3>3, <3>4, LimitsAssumption
  <2>4. CASE RunOf[c] # r
    <3>1. InFlight(r)' = InFlight(r)
      BY <2>1, <2>4 DEF InFlight
    <3>2. spent'[r] = spent[r]
      BY <1>1, <2>2, <2>4 DEF TypeOK
    <3>3. QED
      BY <1>3, <3>1, <3>2
  <2>5. QED
    BY <2>3, <2>4
<1>7. CASE Drains
  <2>1. PICK c \in Calls : c = waiters[scan] /\ pc[c] = "waiting"
    BY <1>7, Drained DEF Drains, IInv
  <2>2. UNCHANGED spent /\ (UNCHANGED pc \/ Goes(c, "granted"))
    BY <1>7, <2>1 DEF Drains, ledger
  <2>3. \A d \in Calls : pc'[d] = "calling" <=> pc[d] = "calling"
    BY <1>1, <2>1, <2>2 DEF TypeOK, Goes
  <2>4. QED
    BY <1>4, <2>2, <2>3
<1>8. ASSUME NEW c \in Calls, Cancels(c)
      PROVE  spent'[r] + MaxCharge * Cardinality(InFlight(r)') < Full(r)
  <2>1. UNCHANGED spent /\ \A d \in Calls : pc'[d] = "calling" <=> pc[d] = "calling"
    BY <1>1, <1>8 DEF Cancels, TypeOK, ledger
  <2>2. QED
    BY <1>4, <2>1
<1>9. ASSUME NEW c \in Calls, Asks(c) \/ Wakes(c) \/ Resumes(c) \/ Abandons(c) \/ AsksPermit(c)
                              \/ Denied(c) \/ Leaves(c)
      PROVE  spent'[r] + MaxCharge * Cardinality(InFlight(r)') < Full(r)
  <2>1. UNCHANGED spent
    BY <1>9 DEF Asks, Wakes, Resumes, Abandons, AsksPermit, Denied, Leaves, ledger
  <2>2. \A d \in Calls : pc'[d] = "calling" <=> pc[d] = "calling"
    BY <1>1, <1>9 DEF Asks, Wakes, Resumes, Abandons, AsksPermit, Denied, Leaves, Goes, TypeOK
  <2>3. QED
    BY <1>4, <2>1, <2>2
<1>10. CASE UNCHANGED vars
  BY <1>4, <1>10 DEF vars, ledger
<1>11. QED
  BY <1>5, <1>6, <1>7, <1>8, <1>9, <1>10 DEF Next, Step

-----------------------------------------------------------------------------
\* Every reachable state satisfies the inductive invariant.
THEOREM Invariance == Spec => []IInv
<1>1. IInv /\ [Next]_vars => IInv'
  BY TypeStep, LinksStep, WaitsStep, PermitsStep, SeesStep, OvershootStep DEF IInv
<1>2. QED
  BY InitOK, <1>1, PTL DEF Spec

\* Calls, links, permits and the ledger are what the code takes them for: the counters of
\* permits, in particular, never go below zero.
THEOREM TypeCorrect == Spec => []TypeOK
<1>1. IInv => TypeOK
  BY DEF IInv
<1>2. QED
  BY Invariance, <1>1, PTL

\* However many calls queue for a physical key, in whatever pools, and whoever of them
\* gives up, acquireSerial lets one through at a time.
THEOREM KeysAreSerial == Spec => []OneCallPerKey
<1>1. IInv => OneCallPerKey
  <2> SUFFICES ASSUME IInv, NEW c \in Calls, NEW d \in Calls,
                      HasKey(c), HasKey(d), KeyOf[c] = KeyOf[d], c # d
               PROVE  FALSE
    BY DEF OneCallPerKey
  <2> DEFINE q == chain[KeyOf[c]]
  <2>1. KeyOf[c] \in Keys /\ DOMAIN q = 1 .. Len(q) /\ Len(q) \in Nat
    BY CallsAssumption, LenProperties DEF IInv, TypeOK
  <2>2. c \in Range(q) /\ d \in Range(q) /\ c \notin passed /\ d \notin passed
    BY DEF IInv, Links, Linked
  <2>3. PICK i \in DOMAIN q, j \in DOMAIN q : q[i] = c /\ q[j] = d
    BY <2>2 DEF Range
  <2>4. HasTurn(c) /\ HasTurn(d)
    BY DEF IInv, Links
  <2>5. i < j \/ j < i
    BY <2>1, <2>3
  <2>6. QED
    BY <2>2, <2>3, <2>4, <2>5 DEF HasTurn
<1>2. QED
  BY Invariance, <1>1, PTL

\* A run passes its ceiling by less than what its concurrency can have out at once, whatever
\* other runs do with the permits meanwhile.
THEOREM CeilingHolds == Spec => []OvershootBounded
<1>1. IInv => OvershootBounded
  BY DEF IInv
<1>2. QED
  BY Invariance, <1>1, PTL

\* The guard around a call: keys are serial, and the ceiling is overshot within bounds.
THEOREM TheGuardHolds == Spec => []GuardHolds
<1>1. OneCallPerKey /\ OvershootBounded => GuardHolds
  BY DEF GuardHolds
<1>2. QED
  BY <1>1, KeysAreSerial, CeilingHolds, PTL

\* No permit overtakes a limit: whenever one is given, the calls that hold one are within
\* the concurrency of every run that then has a call active or waiting, in all and in the
\* pool, though each waiter's limits are taken in only when the loop comes to it.
THEOREM PermitsAreWithinLimits == Spec => PermitsWithinLimits
<1> DEFINE Granted(c) == pc[c] = "waiting" /\ pc'[c] = "granted"
           Within(c) == LET holding == {d \in Calls : HasPermit(d)'}
                        IN \A d \in holding \cup {e \in Calls : pc'[e] = "waiting"} :
                             /\ Cardinality(holding) <= LimitOf[RunOf[d]]
                             /\ PoolOf[d] = PoolOf[c] =>
                                  Cardinality({e \in holding : PoolOf[e] = PoolOf[c]}) <= PoolLimitOf[RunOf[d]]
<1>1. ASSUME IInv, Next, NEW c \in Calls, Granted(c)
      PROVE  Within(c)
  <2>1. TypeOK /\ Waits /\ Counters /\ Sees /\ TypeOK'
    BY <1>1, TypeStep DEF IInv
  <2>2. Drains
    <3>1. ASSUME NEW d \in Calls, Asks(d) \/ Step(d) \/ Cancels(d)
          PROVE  pc'[c] # "granted" \/ pc[c] = "granted"
      <4>1. CASE Cancels(d)
        BY <2>1, <4>1 DEF Cancels, TypeOK
      <4>2. CASE Asks(d) \/ Step(d)
        BY <2>1, <4>2 DEF Asks, Step, Wakes, Resumes, Abandons, AsksPermit, Begins, Denied, Ends,
                          Leaves, Goes, TypeOK
      <4>3. QED
        BY <3>1, <4>1, <4>2
    <3>2. QED
      BY <1>1, <3>1 DEF Next
  <2>3. waiters[scan] \in Calls
    BY <2>1, <2>2, DrainLowers
  <2>4. active' = active + 1
    BY <1>1, <2>2 DEF Drains
  <2>5. /\ Counters' /\ Goes(waiters[scan], "granted")
        /\ \A d \in Calls : (HasPermit(d) \/ pc[d] = "waiting")' => d \in Seen'
        /\ active' <= limit' /\ activeIn'[PoolOf[waiters[scan]]] <= limitIn'[PoolOf[waiters[scan]]]
    BY <2>1, <2>2, <2>4, DrainGrants
  <2>6. c = waiters[scan]
    BY <1>1, <2>1, <2>3, <2>5 DEF Goes, TypeOK
  <2>7. /\ Holders' = {d \in Calls : HasPermit(d)'}
        /\ HoldersIn(PoolOf[c])' = {e \in Holders' : PoolOf[e] = PoolOf[c]}
    BY DEF Holders, HoldersIn
  <2>8. active' = Cardinality(Holders') /\ activeIn'[PoolOf[c]] = Cardinality(HoldersIn(PoolOf[c])')
    BY <2>5, CallsAssumption DEF Counters
  <2>9. ASSUME NEW d \in Calls, HasPermit(d)' \/ pc'[d] = "waiting"
        PROVE  /\ Cardinality(Holders') <= LimitOf[RunOf[d]]
               /\ PoolOf[d] = PoolOf[c] =>
                    Cardinality(HoldersIn(PoolOf[c])') <= PoolLimitOf[RunOf[d]]
    <3>1. limit' <= LimitOf[RunOf[d]] /\ limitIn'[PoolOf[d]] <= PoolLimitOf[RunOf[d]]
      BY <2>5, <2>9 DEF Seen
    <3>2. /\ limit' \in Nat /\ active' \in Nat
          /\ limitIn'[PoolOf[c]] \in Nat /\ activeIn'[PoolOf[c]] \in Nat
      <4>1. /\ limit' \in 1 .. NoLimit /\ limitIn' \in [Pools -> 1 .. NoLimit] /\ NoLimit \in Nat
            /\ active' \in Nat /\ activeIn' \in [Pools -> Nat] /\ PoolOf[c] \in Pools
        BY <2>1, CallsAssumption, LimitsAssumption DEF TypeOK
      <4>2. QED
        BY <4>1
    <3>3. LimitOf[RunOf[d]] \in Nat /\ PoolLimitOf[RunOf[d]] \in Nat
      BY <2>1, CallTypes
    <3>4. QED
      BY <2>5, <2>6, <2>8, <3>1, <3>2, <3>3
  <2>10. QED
    BY <2>7, <2>9
<1>2. IInv /\ [Next]_vars => [\A c \in Calls : Granted(c) => Within(c)]_vars
  BY <1>1
<1>3. QED
  BY Invariance, <1>2, PTL DEF Spec, PermitsWithinLimits

=============================================================================
