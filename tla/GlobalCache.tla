---------------------------- MODULE GlobalCache ----------------------------
(***************************************************************************)
(* The global variables of src/compiler/vm.zig: a hash map from names to   *)
(* values and, in front of it, a cache of CacheSize entries that           *)
(* load_global consults first.  A name is a string slice.  The cache       *)
(* recognises a name by the slice itself (pointer and length), which is    *)
(* different at every place of the program that names the variable,        *)
(* because the compiler adds a constant for each of them; store_global     *)
(* recognises it by its characters.  A Site is such a slice, that is, a    *)
(* place of the program that loads a global.                               *)
(***************************************************************************)
EXTENDS Naturals

CONSTANTS Name,       \* names of globals
          Site,       \* places of the program that load a global
          NameOf,     \* NameOf[s]: the name loaded at s
          Reassigned, \* names the program stores again after their first store
          Value,
          Absent,     \* no value: the name is not in the map
          Undefined,  \* outcome of a load that stops the program (r001)
          NoSite,     \* the name "" of an entry nothing was put in
          CacheSize   \* entries of global_cache

ASSUME CacheAssumption == /\ NameOf \in [Site -> Name]
                          /\ Reassigned \subseteq Name
                          /\ CacheSize \in Nat \ {0}
                          /\ NoSite \notin Site
                          /\ Absent \notin Value
                          /\ Undefined \notin Value \cup {Absent}

VARIABLES globals, \* VM.globals
          cache,   \* VM.global_cache
          loaded   \* the outcome of the last load_global

vars == <<globals, cache, loaded>>

Index == 1 .. CacheSize
Entry == [site : Site \cup {NoSite}, value : Value \cup {Absent}]

TypeOK == /\ globals \in [Name -> Value \cup {Absent}]
          /\ cache \in [Index -> Entry]
          /\ loaded \in Value \cup {Absent, Undefined}

Init == /\ globals = [n \in Name |-> Absent]
        /\ cache = [i \in Index |-> [site |-> NoSite, value |-> Absent]]
        /\ loaded = Absent

-----------------------------------------------------------------------------
(* cacheGetGlobal and load_global *)

FirstIn(i, S) == i \in S /\ \A j \in S : i <= j

Hits(s) == {i \in Index : cache[i].site = s}

\* Entry i moves to the front, those before it move back one place.
\* Faulty variant: the entries are shifted over the one being moved.
PromoteAfterShift(i) == [j \in Index |-> IF j = 1 THEN cache[IF i = 1 THEN 1 ELSE i - 1]
                                         ELSE IF j <= i THEN cache[j - 1]
                                         ELSE cache[j]]
Promote(i) == [j \in Index |-> IF j = 1 THEN cache[i]
                               ELSE IF j <= i THEN cache[j - 1]
                               ELSE cache[j]]

\* A new entry in front; the last one drops out.
PushFront(e) == [j \in Index |-> IF j = 1 THEN e ELSE cache[j - 1]]

LoadHit(s) == \E i \in Hits(s) : /\ FirstIn(i, Hits(s))
                                 /\ loaded' = cache[i].value
                                 /\ cache' = Promote(i)
                                 /\ UNCHANGED globals

\* Faulty variant: the new entry replaces the front one.
LoadMissOverFront(s) ==
  /\ Hits(s) = {}
  /\ globals[NameOf[s]] # Absent
  /\ loaded' = globals[NameOf[s]]
  /\ cache' = [cache EXCEPT ![1] = [site |-> s, value |-> globals[NameOf[s]]]]
  /\ UNCHANGED globals

LoadMiss(s) == /\ Hits(s) = {}
               /\ globals[NameOf[s]] # Absent
               /\ loaded' = globals[NameOf[s]]
               /\ cache' = PushFront([site |-> s, value |-> globals[NameOf[s]]])
               /\ UNCHANGED globals

\* Faulty variant: the failed look-up is cached.
LoadUndefinedCached(s) ==
  /\ Hits(s) = {}
  /\ globals[NameOf[s]] = Absent
  /\ loaded' = Absent
  /\ cache' = PushFront([site |-> s, value |-> Undefined])
  /\ UNCHANGED globals

\* r001: the run loop returns.
LoadUndefined(s) == /\ Hits(s) = {}
                    /\ globals[NameOf[s]] = Absent
                    /\ loaded' = Undefined
                    /\ UNCHANGED <<globals, cache>>

Load(s) == LoadHit(s) \/ LoadMiss(s) \/ LoadUndefined(s)

-----------------------------------------------------------------------------
(* store_global *)

SameName(n) == {i \in Index : cache[i].site # NoSite /\ NameOf[cache[i].site] = n}

\* The first entry with the name is updated and the search stops there.
Refreshed(n, v) == [i \in Index |-> IF FirstIn(i, SameName(n))
                                      THEN [cache[i] EXCEPT !.value = v]
                                      ELSE cache[i]]

\* Faulty variant: the cache is not told about the store.
StoreBehindCache(n, v) == /\ n \in Reassigned \/ globals[n] = Absent
                          /\ globals' = [globals EXCEPT ![n] = v]
                          /\ UNCHANGED <<cache, loaded>>

Store(n, v) == /\ n \in Reassigned \/ globals[n] = Absent
               /\ globals' = [globals EXCEPT ![n] = v]
               /\ cache' = Refreshed(n, v)
               /\ UNCHANGED loaded

-----------------------------------------------------------------------------
Next == /\ loaded # Undefined
        /\ \/ \E s \in Site : Load(s)
           \/ \E n \in Name, v \in Value : Store(n, v)

Spec == Init /\ [][Next]_vars

-----------------------------------------------------------------------------
(* Properties *)

\* The programs the cache serves correctly: a variable that is assigned again
\* is read at one place only.  Functions, natives and constants are stored
\* once and may be read anywhere.
OneReaderPerReassigned ==
  \A s, t \in Site : NameOf[s] = NameOf[t] /\ NameOf[s] \in Reassigned => s = t

\* Every cached value is the value of its variable, so the order in which
\* sites enter, move in and leave the cache can never be observed.
Coherent == \A i \in Index : cache[i].site # NoSite =>
              /\ globals[NameOf[cache[i].site]] # Absent
              /\ cache[i].value = globals[NameOf[cache[i].site]]

\* A site is cached once: a hit cannot find an older entry of the same site.
CachedOnce == \A i, j \in Index :
                i # j /\ cache[i].site = cache[j].site => cache[i].site = NoSite

\* The inductive invariant behind Coherent.
CacheInv == Coherent /\ CachedOnce

\* A load drops no cached site but the last one, and only to make room.
CachedSites == {cache[i].site : i \in Index} \ {NoSite}
EvictsOnlyLast == [][ \A s \in CachedSites \ CachedSites' :
                        cache[CacheSize].site = s ]_vars

\* The cached globals behave as plain globals: every load yields the value
\* stored last.
PlainGlobals == INSTANCE Globals WITH store <- globals, seen <- loaded
ImplementsGlobals == PlainGlobals!Spec

\* changelogs/v0.4.0.md: "Fixed global cache key comparison to use
\* std.mem.eql slices": a store reaches whatever cached entry has the name, so
\* a load yields the value stored last wherever it stands in the program.
LoadsSeeStores == [][ \A s \in Site : Load(s) => loaded' \in {globals[NameOf[s]], Undefined} ]_vars
=============================================================================
