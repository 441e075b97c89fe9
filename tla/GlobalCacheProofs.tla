------------------------- MODULE GlobalCacheProofs -------------------------
(***************************************************************************)
(* Proofs about GlobalCache for any names, sites, values and cache size:   *)
(* when a variable that is assigned again is read at one place only, the   *)
(* cache is coherent and cannot be told from plain globals.                *)
(***************************************************************************)
EXTENDS GlobalCache, TLAPS

LEMMA TypeInit == Init => TypeOK
BY CacheAssumption DEF Init, TypeOK, Entry, Index

LEMMA TypeStep == TypeOK /\ [Next]_vars => TypeOK'
<1>. SUFFICES ASSUME TypeOK, [Next]_vars PROVE TypeOK'
  OBVIOUS
<1>. USE CacheAssumption DEF TypeOK, Entry, Index
<1>1. ASSUME NEW s \in Site, LoadHit(s) PROVE TypeOK'
  <2>. PICK i \in Hits(s) : /\ loaded' = cache[i].value /\ cache' = Promote(i)
                            /\ globals' = globals
    BY <1>1 DEF LoadHit
  <2>1. i \in Index
    BY DEF Hits
  <2>2. Promote(i) \in [Index -> Entry]
    BY <2>1 DEF Promote
  <2>. QED  BY <2>1, <2>2
<1>2. ASSUME NEW s \in Site, LoadMiss(s) PROVE TypeOK'
  <2>1. PushFront([site |-> s, value |-> globals[NameOf[s]]]) \in [Index -> Entry]
    BY DEF PushFront
  <2>. QED  BY <1>2, <2>1 DEF LoadMiss
<1>3. ASSUME NEW s \in Site, LoadUndefined(s) PROVE TypeOK'
  BY <1>3 DEF LoadUndefined
<1>4. ASSUME NEW n \in Name, NEW v \in Value, Store(n, v) PROVE TypeOK'
  <2>1. Refreshed(n, v) \in [Index -> Entry]
    BY DEF Refreshed
  <2>. QED  BY <1>4, <2>1 DEF Store
<1>5. CASE UNCHANGED vars
  BY <1>5 DEF vars
<1>. QED  BY <1>1, <1>2, <1>3, <1>4, <1>5 DEF Next, Load

\* The variables keep their types.
THEOREM TypeCorrect == Spec => []TypeOK
BY TypeInit, TypeStep, PTL DEF Spec

-----------------------------------------------------------------------------
\* A hit keeps the invariant: it only rearranges the entries.
LEMMA HitKeepsInv ==
  ASSUME TypeOK, CacheInv, NEW i \in Index, cache' = Promote(i), globals' = globals
  PROVE  CacheInv'
<1>. USE CacheAssumption DEF TypeOK, Index
<1>. DEFINE from == [j \in Index |-> IF j = 1 THEN i ELSE IF j <= i THEN j - 1 ELSE j]
<1>1. \A j \in Index : from[j] \in Index
  OBVIOUS
<1>2. \A j, k \in Index : j # k => from[j] # from[k]
  OBVIOUS
<1>3. \A j \in Index : cache'[j] = cache[from[j]]
  BY DEF Promote
<1>. HIDE DEF from
<1>4. Coherent'
  BY <1>1, <1>3 DEF CacheInv, Coherent
<1>5. CachedOnce'
  BY <1>1, <1>2, <1>3 DEF CacheInv, CachedOnce
<1>. QED  BY <1>4, <1>5 DEF CacheInv

\* A miss keeps the invariant: the new entry is current, and its site was not
\* in the cache.
LEMMA MissKeepsInv ==
  ASSUME TypeOK, CacheInv, NEW s \in Site, LoadMiss(s)
  PROVE  CacheInv'
<1>. USE CacheAssumption DEF TypeOK, Index
<1>1. /\ \A j \in Index : cache'[j] = IF j = 1 THEN [site |-> s, value |-> globals[NameOf[s]]]
                                               ELSE cache[j - 1]
      /\ globals' = globals /\ globals[NameOf[s]] # Absent
      /\ \A j \in Index : cache[j].site # s
  BY DEF LoadMiss, PushFront, Hits
<1>2. Coherent'
  BY <1>1 DEF CacheInv, Coherent
<1>3. CachedOnce'
  BY <1>1 DEF CacheInv, CachedOnce
<1>. QED  BY <1>2, <1>3 DEF CacheInv

\* A store keeps the invariant.  A variable stored for the first time is not
\* cached yet; one stored again is cached for its one reader at most, and that
\* is the entry the search finds.
LEMMA StoreKeepsInv ==
  ASSUME OneReaderPerReassigned, TypeOK, CacheInv,
         NEW n \in Name, NEW v \in Value, Store(n, v)
  PROVE  CacheInv'
<1>. USE CacheAssumption DEF TypeOK, Index, Entry
<1>1. /\ n \in Reassigned \/ globals[n] = Absent
      /\ globals' = [globals EXCEPT ![n] = v]
      /\ cache' = Refreshed(n, v)
  BY DEF Store
<1>2. \A i \in Index : cache'[i].site = cache[i].site
  BY <1>1 DEF Refreshed
<1>3. ASSUME NEW i \in Index, i \in SameName(n)
      PROVE  cache'[i].value = v
  <2>1. n \in Reassigned
    BY <1>1, <1>3 DEF CacheInv, Coherent, SameName
  <2>2. \A j \in SameName(n) : j = i
    BY <2>1, <1>3 DEF CacheInv, CachedOnce, SameName, OneReaderPerReassigned
  <2>3. FirstIn(i, SameName(n))
    BY <2>2, <1>3 DEF FirstIn
  <2>. QED  BY <2>3, <1>1 DEF Refreshed
<1>4. ASSUME NEW i \in Index, i \notin SameName(n)
      PROVE  cache'[i] = cache[i]
  BY <1>1, <1>4 DEF Refreshed, FirstIn
<1>5. Coherent'
  BY <1>1, <1>2, <1>3, <1>4 DEF CacheInv, Coherent, SameName
<1>6. CachedOnce'
  BY <1>2 DEF CacheInv, CachedOnce
<1>. QED  BY <1>5, <1>6 DEF CacheInv

LEMMA InvStep ==
  ASSUME OneReaderPerReassigned
  PROVE  TypeOK /\ CacheInv /\ [Next]_vars => CacheInv'
<1>. SUFFICES ASSUME TypeOK, CacheInv, [Next]_vars PROVE CacheInv'
  OBVIOUS
<1>1. ASSUME NEW s \in Site, LoadHit(s) PROVE CacheInv'
  BY <1>1, HitKeepsInv DEF LoadHit, Hits
<1>2. ASSUME NEW s \in Site, LoadMiss(s) PROVE CacheInv'
  BY <1>2, MissKeepsInv
<1>3. ASSUME NEW s \in Site, LoadUndefined(s) PROVE CacheInv'
  BY <1>3 DEF LoadUndefined, CacheInv, Coherent, CachedOnce
<1>4. ASSUME NEW n \in Name, NEW v \in Value, Store(n, v) PROVE CacheInv'
  BY <1>4, StoreKeepsInv
<1>5. CASE UNCHANGED vars
  BY <1>5 DEF vars, CacheInv, Coherent, CachedOnce
<1>. QED  BY <1>1, <1>2, <1>3, <1>4, <1>5 DEF Next, Load

\* A cached value is the value of its variable, whatever is loaded and stored.
THEOREM CoherentAlways ==
  ASSUME OneReaderPerReassigned
  PROVE  Spec => []CacheInv
<1>1. Init => CacheInv
  BY CacheAssumption DEF Init, CacheInv, Coherent, CachedOnce
<1>. QED  BY <1>1, InvStep, TypeCorrect, PTL DEF Spec

\* The cache cannot be told from plain globals: every load_global yields the
\* value stored last, or r001 when there is none.
THEOREM CacheImplementsGlobals ==
  ASSUME OneReaderPerReassigned
  PROVE  Spec => ImplementsGlobals
<1>1. Init => PlainGlobals!Init
  BY DEF Init, PlainGlobals!Init
<1>2. TypeOK /\ CacheInv /\ [Next]_vars => [PlainGlobals!Next]_(PlainGlobals!globalsVars)
  <2>. SUFFICES ASSUME TypeOK, CacheInv, [Next]_vars
                PROVE  PlainGlobals!Next \/ UNCHANGED PlainGlobals!globalsVars
    OBVIOUS
  <2>. USE CacheAssumption DEF TypeOK, PlainGlobals!Load, PlainGlobals!Store
  <2>1. ASSUME NEW s \in Site, Load(s) PROVE PlainGlobals!Load(NameOf[s])
    <3>1. CASE LoadHit(s)
      BY <3>1 DEF LoadHit, Hits, CacheInv, Coherent
    <3>2. CASE LoadMiss(s) \/ LoadUndefined(s)
      BY <3>2 DEF LoadMiss, LoadUndefined
    <3>. QED  BY <2>1, <3>1, <3>2 DEF Load
  <2>2. ASSUME NEW n \in Name, NEW v \in Value, Store(n, v) PROVE PlainGlobals!Store(n, v)
    BY <2>2 DEF Store
  <2>3. CASE UNCHANGED vars
    BY <2>3 DEF vars, PlainGlobals!globalsVars
  <2>. QED  BY <2>1, <2>2, <2>3 DEF Next, PlainGlobals!Next
<1>. QED
  BY <1>1, <1>2, TypeCorrect, CoherentAlways, PTL DEF Spec, ImplementsGlobals, PlainGlobals!Spec

-----------------------------------------------------------------------------
\* A site leaves the cache only from its last entry: a hit and a store keep every site,
\* a miss pushes all entries but the last one place back.
THEOREM OnlyLastEvicted == Spec => EvictsOnlyLast
<1>1. TypeOK /\ [Next]_vars => [\A s \in CachedSites \ CachedSites' : cache[CacheSize].site = s]_vars
  <2>. SUFFICES ASSUME TypeOK, Next, NEW i \in Index, cache[i].site # NoSite, cache[i].site \notin CachedSites'
                PROVE  i = CacheSize
    BY DEF CachedSites
  <2>. USE CacheAssumption DEF TypeOK, Index
  <2>0. \A j \in Index : cache'[j].site # cache[i].site
    BY DEF CachedSites
  <2>1. ASSUME NEW s \in Site, Load(s) PROVE i = CacheSize
    <3>1. ASSUME NEW k \in Index, cache' = Promote(k) PROVE FALSE
      <4>1. \A j \in Index : cache'[j] = IF j = 1 THEN cache[k] ELSE IF j <= k THEN cache[j - 1] ELSE cache[j]
        BY <3>1 DEF Promote
      <4>2. CASE i = k
        BY <2>0, <4>1, <4>2
      <4>3. CASE i < k
        <5>1. i + 1 \in Index /\ cache'[i + 1] = cache[i]
          BY <4>1, <4>3
        <5>. QED  BY <2>0, <5>1
      <4>4. CASE i > k
        BY <2>0, <4>1, <4>4
      <4>. QED  BY <4>2, <4>3, <4>4
    <3>2. CASE LoadMiss(s)
      <4>1. SUFFICES ASSUME i # CacheSize PROVE FALSE
        OBVIOUS
      <4>2. i + 1 \in Index /\ cache'[i + 1] = cache[i]
        BY <3>2, <4>1 DEF LoadMiss, PushFront
      <4>. QED  BY <2>0, <4>2
    <3>. QED  BY <2>0, <2>1, <3>1, <3>2 DEF Load, LoadHit, LoadUndefined, Hits
  <2>2. ASSUME NEW n \in Name, NEW v \in Value, Store(n, v) PROVE i = CacheSize
    <3>1. cache'[i].site = cache[i].site
      <4>1. cache'[i] = [cache[i] EXCEPT !.value = v] \/ cache'[i] = cache[i]
        BY <2>2 DEF Store, Refreshed
      <4>2. cache[i] \in Entry
        OBVIOUS
      <4>. QED  BY <4>1, <4>2 DEF Entry
    <3>. QED  BY <2>0, <3>1
  <2>. QED  BY <2>1, <2>2 DEF Next
<1>. QED  BY <1>1, TypeCorrect, PTL DEF Spec, EvictsOnlyLast
=============================================================================
