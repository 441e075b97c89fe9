----------------------------- MODULE AnalysesProofs -----------------------------
(***************************************************************************)
(* Proofs about Analyses, for any function: what the passes compute is     *)
(* what Facts says of it.  fillcfg numbers the reachable blocks and finds  *)
(* their predecessors; filluse counts and lists every use; filldom's       *)
(* iteration ends with the immediate dominators; filllive's ends with what *)
(* some path reads.  A loop is an instance of Loops, with the invariant of *)
(* its turns for Keeps.                                                    *)
(***************************************************************************)
EXTENDS Facts, FiniteSetTheorems, TLAPS

-----------------------------------------------------------------------------
(* Sets of successors *)

\* A proper part of a finite set has fewer elements.
LEMMA StrictlySmaller ==
    ASSUME NEW S, IsFiniteSet(S), NEW T, T \subseteq S, T # S
    PROVE  Cardinality(T) \in Nat /\ Cardinality(S) \in Nat /\ Cardinality(T) < Cardinality(S)
<1>1. IsFiniteSet(T) /\ Cardinality(T) <= Cardinality(S) /\ (Cardinality(S) = Cardinality(T) => S = T) BY FS_Subset
<1>2. Cardinality(T) \in Nat /\ Cardinality(S) \in Nat BY <1>1, FS_CardinalityType
<1> QED BY <1>1, <1>2

\* A pair of elements in a row.
LEMMA RangeOfTwo ==
    ASSUME NEW x, NEW y
    PROVE  Range(<<x>> \o <<y>>) = {x, y}
<1> DEFINE t == <<x>> \o <<y>>
<1>1. <<x>> \in Seq({x, y}) /\ <<y>> \in Seq({x, y}) OBVIOUS
<1>2. t \in Seq({x, y}) /\ Len(t) = 2 /\ t[1] = x /\ t[2] = y BY <1>1
<1>3. DOMAIN t = {1, 2}
  <2>1. DOMAIN t = 1 .. Len(t) BY <1>2
  <2>2. 1 .. 2 = {1, 2} OBVIOUS
  <2> QED BY <2>1, <2>2, <1>2
<1> HIDE DEF t
<1>4. Range(t) = {x, y} BY <1>2, <1>3 DEF Range
<1> QED BY <1>4 DEF t

\* The successors of a block are the targets of its jump.
LEMMA SuccSetIs ==
    ASSUME NEW fn, NEW b
    PROVE  SuccSet(fn, b) = {fn.blk[b].s1, fn.blk[b].s2} \ {0}
<1> DEFINE s1 == fn.blk[b].s1
           s2 == fn.blk[b].s2
           a == IF s1 = 0 THEN <<>> ELSE <<s1>>
           c == IF s2 = 0 THEN <<>> ELSE <<s2>>
<1>1. Succs(fn.blk[b]) = a \o c BY DEF Succs
<1>2. CASE s1 = 0 /\ s2 = 0
  <2>1. a \o c = <<>> BY <1>2
  <2> QED BY <2>1, <1>1, <1>2 DEF SuccSet, Range
<1>3. CASE s1 = 0 /\ s2 # 0
  <2>1. a \o c = <<s2>> BY <1>3
  <2> QED BY <2>1, <1>1, <1>3 DEF SuccSet, Range
<1>4. CASE s1 # 0 /\ s2 = 0
  <2>1. a \o c = <<s1>> BY <1>4
  <2> QED BY <2>1, <1>1, <1>4 DEF SuccSet, Range
<1>5. CASE s1 # 0 /\ s2 # 0
  <2>2. a = <<s1>> /\ c = <<s2>> BY <1>5
  <2> QED BY <2>2, <1>1, <1>5, RangeOfTwo DEF SuccSet
<1> QED BY <1>2, <1>3, <1>4, <1>5

\* Jumps lead to linked blocks.
LEMMA SuccsAreBlocks ==
    ASSUME NEW fn, GraphIsShaped(fn), NEW b \in Blocks(fn)
    PROVE  SuccSet(fn, b) \subseteq Blocks(fn) /\ b \in DOMAIN fn.blk /\ Blocks(fn) \subseteq DOMAIN fn.blk
           /\ IsFiniteSet(Blocks(fn))
<1>1. SuccSet(fn, b) \subseteq Blocks(fn) BY SuccSetIs DEF GraphIsShaped
<1>2. Blocks(fn) \subseteq DOMAIN fn.blk BY DEF GraphIsShaped, Blocks, Range
<1>3. IsFiniteSet(Blocks(fn)) BY <1>2, FS_Subset DEF GraphIsShaped
<1> QED BY <1>1, <1>2, <1>3

-----------------------------------------------------------------------------
(* Paths *)

\* T is not left by an edge, but to a block of shut.
IsClosed(fn, shut, T) == \A c \in T : SuccSet(fn, c) \ shut \subseteq T

PathsOp(x, y, z, a, e) == Grow(x, y, a)
PathsMore(x, y, z, a) == Grow(x, y, a) # a
PathsKeeps(q, n, a) ==
    /\ a \subseteq Blocks(q.fn) \ q.shut /\ {q.b} \ q.shut \subseteq a
    /\ \A T : IsClosed(q.fn, q.shut, T) /\ {q.b} \ q.shut \subseteq T => a \subseteq T
PathsLeft(q, a) == Cardinality(Blocks(q.fn) \ a)
PathLoop == INSTANCE Loops WITH Op <- PathsOp, More <- PathsMore, Keeps <- PathsKeeps, Measure <- PathsLeft

\* PathsFrom is the least set that holds b and is not left but to shut.
LEMMA PathsFromIs ==
    ASSUME NEW fn, GraphIsShaped(fn), NEW b \in Blocks(fn), NEW shut
    PROVE  /\ PathsFrom(fn, b, shut) \subseteq Blocks(fn) \ shut
           /\ b \notin shut => b \in PathsFrom(fn, b, shut)
           /\ IsClosed(fn, shut, PathsFrom(fn, b, shut))
           /\ \A T : IsClosed(fn, shut, T) /\ {b} \ shut \subseteq T => PathsFrom(fn, b, shut) \subseteq T
<1> DEFINE S == SUBSET DOMAIN fn.blk
           s == {b} \ shut
           q == [fn |-> fn, b |-> b, shut |-> shut]
           r == PathLoop!WhileMore(S, fn, shut, 0, s)
<1>1. PathsFrom(fn, b, shut) = r
  BY DEF PathsFrom, PathLoop!WhileMore, PathLoop!While, While, PathLoop!With, With, PathsOp, PathsMore
<1>2. PathsKeeps(q, 0, s) BY DEF PathsKeeps
<1>3. ASSUME NEW a, PathsKeeps(q, 0, a) PROVE a \in S /\ PathsLeft(q, a) \in Nat
  <2>1. a \subseteq Blocks(fn) BY <1>3 DEF PathsKeeps
  <2>2. IsFiniteSet(Blocks(fn)) /\ Blocks(fn) \subseteq DOMAIN fn.blk BY SuccsAreBlocks
  <2>3. IsFiniteSet(Blocks(fn) \ a) BY <2>2, FS_Subset
  <2> QED BY <2>1, <2>2, <2>3, FS_CardinalityType DEF PathsLeft
<1>4. ASSUME NEW a, PathsKeeps(q, 0, a), PathsMore(fn, shut, 0, a)
      PROVE  PathsKeeps(q, 0, PathsOp(fn, shut, 0, a, 0)) /\ PathsLeft(q, PathsOp(fn, shut, 0, a, 0)) < PathsLeft(q, a)
  <2> DEFINE c == Grow(fn, shut, a)
  <2>1. a \subseteq Blocks(fn) \ shut /\ {b} \ shut \subseteq a BY <1>4 DEF PathsKeeps
  <2>2. \A d \in a : SuccSet(fn, d) \subseteq Blocks(fn) BY <2>1, SuccsAreBlocks
  <2>3. a \subseteq c /\ c \subseteq Blocks(fn) \ shut BY <2>1, <2>2 DEF Grow
  <2>4. ASSUME NEW T, IsClosed(fn, shut, T), {b} \ shut \subseteq T PROVE c \subseteq T
    <3>1. a \subseteq T BY <1>4, <2>4 DEF PathsKeeps
    <3> QED BY <3>1, <2>4 DEF Grow, IsClosed
  <2>5. c # a BY <1>4 DEF PathsMore
  <2>6. PathsKeeps(q, 0, c) BY <2>1, <2>3, <2>4 DEF PathsKeeps
  <2>7. PathsLeft(q, c) < PathsLeft(q, a)
    <3>1. IsFiniteSet(Blocks(fn) \ a) BY SuccsAreBlocks, FS_Subset
    <3>2. Blocks(fn) \ c \subseteq Blocks(fn) \ a /\ Blocks(fn) \ c # Blocks(fn) \ a BY <2>1, <2>3, <2>5
    <3>3. q.fn = fn OBVIOUS
    <3> HIDE DEF c, q
    <3> QED BY <3>1, <3>2, <3>3, StrictlySmaller DEF PathsLeft
  <2> QED BY <2>6, <2>7 DEF PathsOp
<1>5. PathsKeeps(q, 0, r) /\ ~ PathsMore(fn, shut, 0, r)
  <2> HIDE DEF S, s, q
  <2> QED BY <1>2, <1>3, <1>4, PathLoop!WhileEnds
<1> HIDE DEF r
<1>6. r \subseteq Blocks(fn) \ shut /\ {b} \ shut \subseteq r
      /\ \A T : IsClosed(fn, shut, T) /\ {b} \ shut \subseteq T => r \subseteq T
  BY <1>5 DEF PathsKeeps
<1>7. Grow(fn, shut, r) = r BY <1>5 DEF PathsMore
<1>8. IsClosed(fn, shut, r) BY <1>7 DEF Grow, IsClosed
<1> QED BY <1>1, <1>6, <1>8

-----------------------------------------------------------------------------
(* Sequences without repetition *)

Distinct(s) == \A m, n \in DOMAIN s : s[m] = s[n] => m = n

\* What is in a sequence.
LEMMA SeqFacts ==
    ASSUME NEW A, NEW s \in Seq(A)
    PROVE  /\ DOMAIN s = 1 .. Len(s) /\ Len(s) \in Nat /\ Range(s) = {s[n] : n \in 1 .. Len(s)}
           /\ Range(s) \subseteq A /\ s \in Seq(Range(s))
BY DEF Range

\* One more element.
LEMMA AppendFacts ==
    ASSUME NEW A, NEW s \in Seq(A), NEW e \in A
    PROVE  /\ Append(s, e) \in Seq(A) /\ Len(Append(s, e)) = Len(s) + 1
           /\ \A n \in 1 .. Len(s) : Append(s, e)[n] = s[n]
           /\ Append(s, e)[Len(s) + 1] = e
           /\ Range(Append(s, e)) = Range(s) \cup {e}
           /\ Distinct(s) /\ e \notin Range(s) => Distinct(Append(s, e))
<1> DEFINE t == Append(s, e)
<1>1. t \in Seq(A) /\ Len(t) = Len(s) + 1 /\ DOMAIN t = 1 .. Len(s) + 1 /\ DOMAIN s = 1 .. Len(s) /\ Len(s) \in Nat OBVIOUS
<1>2. \A n \in 1 .. Len(s) : t[n] = s[n] OBVIOUS
<1>3. t[Len(s) + 1] = e OBVIOUS
<1> HIDE DEF t
<1>4. Range(t) = Range(s) \cup {e} BY <1>1, <1>2, <1>3 DEF Range
<1>5. ASSUME Distinct(s), e \notin Range(s) PROVE Distinct(t)
  <2> SUFFICES ASSUME NEW m \in 1 .. Len(s) + 1, NEW n \in 1 .. Len(s) + 1, t[m] = t[n] PROVE m = n
    BY <1>1 DEF Distinct
  <2>1. \A k \in 1 .. Len(s) : s[k] # e BY <1>1, <1>5 DEF Range
  <2> QED BY <2>1, <1>1, <1>2, <1>3, <1>5 DEF Distinct
<1> QED BY <1>1, <1>2, <1>3, <1>4, <1>5 DEF t

\* A sequence without repetition is as long as its set is large.
LEMMA DistinctCardinality ==
    ASSUME NEW A, NEW s \in Seq(A), Distinct(s)
    PROVE  IsFiniteSet(Range(s)) /\ Cardinality(Range(s)) = Len(s)
<1>1. DOMAIN s = 1 .. Len(s) /\ Len(s) \in Nat OBVIOUS
<1>2. s \in Bijection(1 .. Len(s), Range(s))
  BY <1>1 DEF Bijection, Injection, Surjection, Distinct, Range, IsInjective
<1>3. ExistsBijection(1 .. Len(s), Range(s)) BY <1>2 DEF ExistsBijection
<1>4. IsFiniteSet(1 .. Len(s)) /\ Cardinality(1 .. Len(s)) = Len(s)
  <2>1. 1 \in Int /\ Len(s) \in Int BY <1>1
  <2>2. IsFiniteSet(1 .. Len(s)) /\ Cardinality(1 .. Len(s)) = IF 1 > Len(s) THEN 0 ELSE Len(s) - 1 + 1
    BY <2>1, FS_Interval
  <2> QED BY <2>2, <1>1
<1> QED BY <1>3, <1>4, FS_Bijection

KeptOp(x, y, z, a, e) == IF e \in x THEN Append(a, e) ELSE a
KeptKeeps(q, n, a) ==
    /\ a \in Seq(Range(q.s))
    /\ Range(a) = {q.s[i] : i \in 1 .. n} \cap q.S
    /\ Distinct(q.s) => Distinct(a)
    /\ n # 0 /\ q.s[1] \in q.S => a # <<>> /\ a[1] = q.s[1]
NeverMore(x, y, z, a) == FALSE
Nothing(q, a) == 0
KeptLoop == INSTANCE Loops WITH Op <- KeptOp, More <- NeverMore, Keeps <- KeptKeeps, Measure <- Nothing

\* Kept drops elements and keeps the order.
LEMMA KeptIs ==
    ASSUME NEW A, NEW s \in Seq(A), NEW S
    PROVE  /\ Kept(s, S) \in Seq(A) /\ Range(Kept(s, S)) = Range(s) \cap S
           /\ Distinct(s) => Distinct(Kept(s, S))
           /\ s # <<>> /\ s[1] \in S => Kept(s, S) # <<>> /\ Kept(s, S)[1] = s[1]
<1> DEFINE q == [s |-> s, S |-> S]
           r == KeptLoop!EachTurn(S, 0, 0, <<>>, s)
<1>1. Kept(s, S) = r BY DEF Kept, KeptLoop!EachTurn, KeptLoop!Each, Each, KeptLoop!With, With, KeptOp
<1>2. KeptKeeps(q, 0, <<>>)
  <2>1. Range(<<>>) = {} BY DEF Range
  <2>2. <<>> \in Seq(Range(s)) /\ Distinct(<<>>) BY DEF Distinct
  <2> QED BY <2>1, <2>2 DEF KeptKeeps
<1>3. ASSUME NEW n \in 1 .. Len(s), NEW a, KeptKeeps(q, n - 1, a)
      PROVE  KeptKeeps(q, n, KeptOp(S, 0, 0, a, s[n]))
  <2> DEFINE e == s[n]
             b == KeptOp(S, 0, 0, a, s[n])
  <2>1. e \in Range(s) /\ DOMAIN s = 1 .. Len(s) /\ Len(s) \in Nat BY DEF Range
  <2>2. /\ a \in Seq(Range(s)) /\ Range(a) = {s[i] : i \in 1 .. n - 1} \cap S
        /\ Distinct(s) => Distinct(a)
        /\ n - 1 # 0 /\ s[1] \in S => a # <<>> /\ a[1] = s[1]
    BY <1>3 DEF KeptKeeps
  <2>3. \A i : i \in 1 .. n <=> i \in 1 .. n - 1 \/ i = n OBVIOUS
  <2>4. {s[i] : i \in 1 .. n} = {s[i] : i \in 1 .. n - 1} \cup {e} BY <2>3
  <2>5. CASE e \in S
    <3>1. b = Append(a, e) BY <2>5 DEF KeptOp
    <3>0. e \in Range(s) /\ a \in Seq(Range(s)) BY <2>1, <2>2
    <3> HIDE DEF b, e
    <3>2. b \in Seq(Range(s)) /\ Range(b) = Range(a) \cup {e} /\ (Distinct(a) /\ e \notin Range(a) => Distinct(b))
          /\ Len(b) = Len(a) + 1 /\ (\A i \in 1 .. Len(a) : b[i] = a[i]) /\ b[Len(a) + 1] = e
      BY <3>1, <3>0, AppendFacts
    <3>3. Range(b) = {s[i] : i \in 1 .. n} \cap S BY <3>2, <2>2, <2>4, <2>5
    <3>4. ASSUME Distinct(s) PROVE Distinct(b)
      <4>1. e \notin Range(a) BY <3>4, <2>1, <2>2 DEF Distinct, e
      <4> QED BY <4>1, <3>2, <3>4, <2>2
    <3>5. ASSUME s[1] \in S PROVE b # <<>> /\ b[1] = s[1]
      <4>1. Len(a) \in Nat /\ b # <<>> BY <2>2, <3>2
      <4>2. CASE n - 1 # 0
        <5>1. a # <<>> /\ a[1] = s[1] BY <2>2, <3>5, <4>2
        <5>2. 1 \in 1 .. Len(a) BY <5>1, <2>2
        <5> QED BY <5>1, <5>2, <4>1, <3>2
      <4>3. CASE n - 1 = 0
        <5>1. n = 1 BY <4>3
        <5>2. Range(a) = {} BY <2>2, <5>1
        <5>3. Len(a) = 0 BY <5>2, <2>2 DEF Range
        <5> QED BY <5>1, <5>3, <3>2, <4>1 DEF e
      <4> QED BY <4>2, <4>3
    <3>6. q.s = s /\ q.S = S OBVIOUS
    <3> HIDE DEF q
    <3>7. KeptKeeps(q, n, b) BY <3>2, <3>3, <3>4, <3>5, <3>6 DEF KeptKeeps
    <3> QED BY <3>7 DEF b, e
  <2>6. CASE e \notin S
    <3>1. b = a BY <2>6 DEF KeptOp
    <3>2. Range(a) = {s[i] : i \in 1 .. n} \cap S BY <2>2, <2>4, <2>6
    <3>3. ASSUME s[1] \in S PROVE a # <<>> /\ a[1] = s[1]
      <4>1. n # 1 BY <2>6, <3>3
      <4> QED BY <4>1, <2>2, <3>3
    <3>6. q.s = s /\ q.S = S OBVIOUS
    <3> HIDE DEF q, b
    <3>7. KeptKeeps(q, n, b) BY <2>2, <3>1, <3>2, <3>3, <3>6 DEF KeptKeeps
    <3> QED BY <3>7 DEF b, e
  <2> QED BY <2>5, <2>6
<1>4. Len(s) \in Nat OBVIOUS
<1>5. KeptKeeps(q, Len(s), r)
  <2>1. q.s = s OBVIOUS
  <2> HIDE DEF q
  <2> QED BY <1>2, <1>3, <1>4, KeptLoop!EachKeeps
<1> HIDE DEF r
<1>6. Range(s) = {s[i] : i \in 1 .. Len(s)} BY SeqFacts
<1>7. Seq(Range(s)) \subseteq Seq(A) /\ (s # <<>> => Len(s) # 0) BY SeqFacts
<1> QED BY <1>1, <1>5, <1>6, <1>7 DEF KeptKeeps

\* Paths are those of the jumps.
LEMMA SamePaths ==
    ASSUME NEW f, NEW g, GraphIsShaped(f), GraphIsShaped(g), Blocks(f) = Blocks(g),
           \A b \in Blocks(f) : SuccSet(f, b) = SuccSet(g, b), NEW b \in Blocks(f), NEW shut
    PROVE  PathsFrom(f, b, shut) = PathsFrom(g, b, shut)
<1> DEFINE S == PathsFrom(f, b, shut)
           T == PathsFrom(g, b, shut)
<1>1. /\ S \subseteq Blocks(f) \ shut /\ (b \notin shut => b \in S) /\ IsClosed(f, shut, S)
      /\ \A U : IsClosed(f, shut, U) /\ {b} \ shut \subseteq U => S \subseteq U
  BY PathsFromIs
<1>2. /\ T \subseteq Blocks(g) \ shut /\ (b \notin shut => b \in T) /\ IsClosed(g, shut, T)
      /\ \A U : IsClosed(g, shut, U) /\ {b} \ shut \subseteq U => T \subseteq U
  BY PathsFromIs
<1> HIDE DEF S, T
<1>3. IsClosed(g, shut, S) BY <1>1 DEF IsClosed
<1>4. IsClosed(f, shut, T) BY <1>2 DEF IsClosed
<1>5. S \subseteq T BY <1>1, <1>2, <1>4
<1>6. T \subseteq S BY <1>1, <1>2, <1>3
<1> QED BY <1>5, <1>6 DEF S, T

-----------------------------------------------------------------------------
(* Uses and definitions *)

\* The places a use is at.
Place(u) == <<u.type, u.b, u.at>>
Places(S) == {Place(u) : u \in S}
OfTmp(S, t) == {u \in S : u.t = t}
UseRecords(B, I) == [type : {"phi", "ins", "jmp"}, bid : I, b : B, at : Int]

\* tmp has counted the reads and writes so far; T are the temporaries, U the uses.
Counted(D, T, U, tmp, reads, writes) ==
    /\ IsFiniteSet(reads) /\ IsFiniteSet(writes) /\ T \subseteq D /\ DOMAIN tmp = D
    /\ \A t \in T :
         /\ {"use", "nuse", "ndef"} \subseteq DOMAIN tmp[t]
         /\ tmp[t].use \in Seq(U)
         /\ tmp[t].nuse = Cardinality(OfTmp(reads, t))
         /\ tmp[t].ndef = Cardinality(OfTmp(writes, t))
         /\ Places(Range(tmp[t].use)) = Places(OfTmp(reads, t))

\* One more use.
LEMMA OfTmpAdd ==
    ASSUME NEW S, IsFiniteSet(S), NEW u, u \notin S, NEW t, NEW more, more = S \cup {u}
    PROVE  /\ IsFiniteSet(more)
           /\ u.t # t => OfTmp(more, t) = OfTmp(S, t)
           /\ u.t = t => OfTmp(more, t) = OfTmp(S, t) \cup {u}
           /\ u.t = t => Cardinality(OfTmp(more, t)) = Cardinality(OfTmp(S, t)) + 1
           /\ Cardinality(OfTmp(S, t)) \in Nat
<1>1. IsFiniteSet(S \cup {u}) BY FS_AddElement
<1>2. u.t # t => OfTmp(S \cup {u}, t) = OfTmp(S, t) BY DEF OfTmp
<1>3. u.t = t => OfTmp(S \cup {u}, t) = OfTmp(S, t) \cup {u} BY DEF OfTmp
<1>4. IsFiniteSet(OfTmp(S, t)) BY FS_Subset DEF OfTmp
<1>5. u \notin OfTmp(S, t) BY DEF OfTmp
<1>6. Cardinality(OfTmp(S, t) \cup {u}) = Cardinality(OfTmp(S, t)) + 1 BY <1>4, <1>5, FS_AddElement
<1>7. Cardinality(OfTmp(S, t)) \in Nat BY <1>4, FS_CardinalityType
<1> QED BY <1>1, <1>2, <1>3, <1>6, <1>7

\* Two sets at the same places stay so.
LEMMA PlacesAdd ==
    ASSUME NEW A, NEW B, Places(A) = Places(B), NEW u, NEW v, Place(u) = Place(v)
    PROVE  Places(A \cup {u}) = Places(B \cup {v})
<1>1. Places(A \cup {u}) = Places(A) \cup {Place(u)} BY DEF Places
<1>2. Places(B \cup {v}) = Places(B) \cup {Place(v)} BY DEF Places
<1> QED BY <1>1, <1>2

\* One more element of a list of uses.
LEMMA RangeAppend ==
    ASSUME NEW U, NEW s \in Seq(U), NEW u \in U
    PROVE  Append(s, u) \in Seq(U) /\ Range(Append(s, u)) = Range(s) \cup {u}
<1>1. DOMAIN Append(s, u) = 1 .. Len(s) + 1 /\ DOMAIN s = 1 .. Len(s) /\ Len(s) \in Nat OBVIOUS
<1>2. \A i \in 1 .. Len(s) : Append(s, u)[i] = s[i] OBVIOUS
<1>3. Append(s, u)[Len(s) + 1] = u OBVIOUS
<1> QED BY <1>1, <1>2, <1>3 DEF Range

\* A read is counted.
LEMMA AddUseCounts ==
    ASSUME NEW D, NEW T, NEW U, NEW tmp, NEW reads, NEW writes, Counted(D, T, U, tmp, reads, writes),
           NEW r, NEW use \in U, NEW read, IsTemp(r) => read \notin reads /\ read.t = r[2] /\ r[2] \in T /\ Place(read) = Place(use)
    PROVE  Counted(D, T, U, AddUse(tmp, r, use), reads \cup (IF IsTemp(r) THEN {read} ELSE {}), writes)
<1>0. (IsTmp(r) /\ r[2] >= Tmp0) <=> IsTemp(r) BY TargetAssumption DEF IsTmp, IsTemp, NoTmp
<1>1. CASE ~ IsTemp(r) BY <1>0, <1>1 DEF AddUse
<1>2. CASE IsTemp(r)
  <2> DEFINE x == r[2]
             new == AddUse(tmp, r, use)
             more == reads \cup {read}
  <2>1. x \in T /\ x \in DOMAIN tmp /\ DOMAIN tmp = D /\ read.t = x /\ read \notin reads BY <1>2 DEF Counted
  <2>2. new = [tmp EXCEPT ![x] = [[tmp[x] EXCEPT !.use = Append(@, use)] EXCEPT !.nuse = @ + 1]]
    BY <1>0, <1>2, <2>1 DEF AddUse
  <2>3. DOMAIN new = DOMAIN tmp /\ \A t \in DOMAIN tmp : t # x => new[t] = tmp[t] BY <2>2
  <2>4. new[x] = [[tmp[x] EXCEPT !.use = Append(@, use)] EXCEPT !.nuse = @ + 1] BY <2>1, <2>2
  <2>5. {"use", "nuse", "ndef"} \subseteq DOMAIN tmp[x] BY <2>1 DEF Counted
  <2>6. /\ {"use", "nuse", "ndef"} \subseteq DOMAIN new[x]
        /\ new[x].use = Append(tmp[x].use, use) /\ new[x].nuse = tmp[x].nuse + 1 /\ new[x].ndef = tmp[x].ndef
    BY <2>4, <2>5
  <2>7. tmp[x].use \in Seq(U) BY <2>1 DEF Counted
  <2>8. new[x].use \in Seq(U) /\ Range(new[x].use) = Range(tmp[x].use) \cup {use} BY <2>6, <2>7, RangeAppend
  <2>9. Place(read) = Place(use) BY <1>2
  <2>9a. IsFiniteSet(reads) /\ more = reads \cup {read} BY DEF Counted
  <2>10. \A t : read.t # t => OfTmp(more, t) = OfTmp(reads, t)
    <3> HIDE DEF more, x
    <3> QED BY <2>1, <2>9a, OfTmpAdd
  <2>11. OfTmp(more, x) = OfTmp(reads, x) \cup {read} /\ IsFiniteSet(more)
         /\ Cardinality(OfTmp(more, x)) = Cardinality(OfTmp(reads, x)) + 1
    <3> HIDE DEF x, more
    <3> QED BY <2>1, <2>9a, OfTmpAdd
  <2>12. Places(Range(new[x].use)) = Places(OfTmp(more, x))
    <3>1. Places(Range(tmp[x].use)) = Places(OfTmp(reads, x)) BY <2>1 DEF Counted
    <3> HIDE DEF x, new, more
    <3>2. Range(new[x].use) = Range(tmp[x].use) \cup {use} BY <2>8
    <3>3. OfTmp(more, x) = OfTmp(reads, x) \cup {read} BY <2>11
    <3> QED BY <3>1, <3>2, <3>3, <2>9, PlacesAdd
  <2> HIDE DEF new, more, x
  <2>13. \A t \in T :
         /\ {"use", "nuse", "ndef"} \subseteq DOMAIN new[t]
         /\ new[t].use \in Seq(U)
         /\ new[t].nuse = Cardinality(OfTmp(more, t))
         /\ new[t].ndef = Cardinality(OfTmp(writes, t))
         /\ Places(Range(new[t].use)) = Places(OfTmp(more, t))
    <3> TAKE t \in T
    <3>1. CASE t = x BY <2>1, <2>6, <2>8, <2>11, <2>12, <3>1 DEF Counted
    <3>2. CASE t # x
      <4>1. new[t] = tmp[t] /\ OfTmp(more, t) = OfTmp(reads, t) BY <3>2, <2>1, <2>3, <2>10 DEF Counted
      <4> QED BY <4>1 DEF Counted
    <3> QED BY <3>1, <3>2
  <2>14. Counted(D, T, U, new, more, writes) BY <2>3, <2>11, <2>13 DEF Counted
  <2> QED BY <2>14, <1>2 DEF new, more
<1> QED BY <1>1, <1>2
\* What a definition does not change.
Same(old, new) == {"use", "nuse", "ndef"} \subseteq DOMAIN new /\ new.use = old.use /\ new.nuse = old.nuse

\* A write is counted.
LEMMA AddDefCounts ==
    ASSUME NEW D, NEW T, NEW U, NEW tmp, NEW reads, NEW writes, Counted(D, T, U, tmp, reads, writes),
           NEW x, NEW new, DOMAIN new = D,
           \A t \in T : Same(tmp[t], new[t]) /\ new[t].ndef = IF t = x THEN tmp[t].ndef + 1 ELSE tmp[t].ndef,
           NEW w, w \notin writes, w.t = x
    PROVE  Counted(D, T, U, new, reads, writes \cup {w})
<1> DEFINE more == writes \cup {w}
<1>1. IsFiniteSet(writes) /\ IsFiniteSet(reads) BY DEF Counted
<1>2. IsFiniteSet(more) /\ \A t : (t # x => OfTmp(more, t) = OfTmp(writes, t))
        /\ (t = x => Cardinality(OfTmp(more, t)) = Cardinality(OfTmp(writes, t)) + 1)
  <2>1. more = writes \cup {w} OBVIOUS
  <2>2. w \notin writes /\ w.t = x OBVIOUS
  <2> HIDE DEF more
  <2>3. IsFiniteSet(more) BY <1>1, <2>1, <2>2, OfTmpAdd
  <2>4. \A t : t # x => OfTmp(more, t) = OfTmp(writes, t) BY <1>1, <2>1, <2>2, OfTmpAdd
  <2>5. Cardinality(OfTmp(more, x)) = Cardinality(OfTmp(writes, x)) + 1 BY <1>1, <2>1, <2>2, OfTmpAdd
  <2> QED BY <2>3, <2>4, <2>5
<1> HIDE DEF more
<1>3. \A t \in T : new[t].ndef = Cardinality(OfTmp(more, t)) BY <1>2 DEF Counted
<1>4. Counted(D, T, U, new, reads, more) BY <1>1, <1>2, <1>3 DEF Counted, Same
<1> QED BY <1>4 DEF more

\* What leaves uses and counts alone keeps them right.
LEMMA SameCounts ==
    ASSUME NEW D, NEW T, NEW U, NEW tmp, NEW reads, NEW writes, Counted(D, T, U, tmp, reads, writes),
           NEW new, DOMAIN new = D,
           \A t \in T : Same(tmp[t], new[t]) /\ new[t].ndef = tmp[t].ndef
    PROVE  Counted(D, T, U, new, reads, writes)
BY DEF Counted, Same

-----------------------------------------------------------------------------
(* The loops of filluse *)

UpToN(r, n) == UNION {r[i] : i \in 1 .. n}
\* q.r[i] and q.w[i] are what the i-th element reads and writes.
CountedUpTo(q, n, a) ==
    Counted(q.D, q.T, q.U, a, q.reads \cup UpToN(q.r, n), q.writes \cup UpToN(q.w, n))
PhiArgOp(x, y, z, a, e) == UsePhiArg(x, y, a, e)
PhiArgs == INSTANCE Loops WITH Op <- PhiArgOp, More <- NeverMore, Keeps <- CountedUpTo, Measure <- Nothing
InsArgOp(x, y, z, a, e) == AddUse(a, e, x)
InsArgs == INSTANCE Loops WITH Op <- InsArgOp, More <- NeverMore, Keeps <- CountedUpTo, Measure <- Nothing
PhiOp(x, y, z, a, e) == UsePhi(x, y, a, e)
Phis == INSTANCE Loops WITH Op <- PhiOp, More <- NeverMore, Keeps <- CountedUpTo, Measure <- Nothing
InsOp(x, y, z, a, e) == UseIns(x, y, a, e)
Inss == INSTANCE Loops WITH Op <- InsOp, More <- NeverMore, Keeps <- CountedUpTo, Measure <- Nothing
BlockOp(x, y, z, a, e) == UseBlock(x, a, e)
BlocksLoop == INSTANCE Loops WITH Op <- BlockOp, More <- NeverMore, Keeps <- CountedUpTo, Measure <- Nothing

\* The reads of the first n elements, one at a time.
LEMMA UnionUpTo ==
    ASSUME NEW r, NEW n \in Nat, n # 0
    PROVE  UpToN(r, n) = UpToN(r, n - 1) \cup r[n]
<1>1. \A i : i \in 1 .. n <=> i \in 1 .. n - 1 \/ i = n OBVIOUS
<1>2. \A e : e \in UpToN(r, n) <=> \E i \in 1 .. n : e \in r[i] BY DEF UpToN
<1>3. \A e : e \in UpToN(r, n - 1) <=> \E i \in 1 .. n - 1 : e \in r[i] BY DEF UpToN
<1>4. \A e : e \in UpToN(r, n) <=> e \in UpToN(r, n - 1) \/ e \in r[n]
  <2> TAKE e
  <2>1. (\E i \in 1 .. n : e \in r[i]) <=> (\E i \in 1 .. n - 1 : e \in r[i]) \/ e \in r[n] BY <1>1
  <2> QED BY <2>1, <1>2, <1>3
<1> QED BY <1>4

\* None of none.
LEMMA UnionUpToZero == \A r : UpToN(r, 0) = {}
BY DEF UpToN

\* What the operand k of phi p of block b reads.
PhiArgReads(p, b, k) ==
    IF IsTemp(p.from[k][2]) THEN {Read(p.from[k][2][2], "phi", b, p.to[2], k, p.from[k][1])} ELSE {}

\* An operand of a phi is counted; its class is no matter.
LEMMA UsePhiArgCounts ==
    ASSUME NEW D, NEW T, NEW U, NEW tmp, NEW reads, NEW writes, Counted(D, T, U, tmp, reads, writes),
           NEW f, NEW u \in U, NEW rep, NEW read,
           IsTemp(f[2]) => read \notin reads /\ read.t = f[2][2] /\ f[2][2] \in T /\ Place(read) = Place(u)
    PROVE  Counted(D, T, U, UsePhiArg(u, rep, tmp, f), reads \cup (IF IsTemp(f[2]) THEN {read} ELSE {}), writes)
<1>1. CASE ~ IsTmp(f[2])
  <2>1. ~ IsTemp(f[2]) BY <1>1, TargetAssumption DEF IsTmp, IsTemp, NoTmp
  <2> QED BY <1>1, <2>1 DEF UsePhiArg
<1>2. CASE IsTmp(f[2])
  <2> DEFINE c == PhiCls(tmp, f[2][2])
             one == AddUse(tmp, f[2], u)
             more == reads \cup (IF IsTemp(f[2]) THEN {read} ELSE {})
             new == [one EXCEPT ![c].phi = rep]
  <2>1. Counted(D, T, U, one, more, writes) BY AddUseCounts
  <2>2. UsePhiArg(u, rep, tmp, f) = IF c = rep THEN one ELSE new BY <1>2 DEF UsePhiArg
  <2> HIDE DEF one, more, c
  <2>3. T \subseteq D /\ DOMAIN one = D /\ \A t \in T : {"use", "nuse", "ndef"} \subseteq DOMAIN one[t]
    BY <2>1 DEF Counted
  <2>4. \A t \in T : Same(one[t], new[t]) /\ new[t].ndef = one[t].ndef BY <2>3 DEF Same
  <2>5. DOMAIN new = D BY <2>3
  <2> HIDE DEF new
  <2>6. Counted(D, T, U, new, more, writes) BY <2>1, <2>4, <2>5, SameCounts
  <2>7. Counted(D, T, U, UsePhiArg(u, rep, tmp, f), more, writes) BY <2>1, <2>2, <2>6
  <2> QED BY <2>7 DEF more
<1> QED BY <1>1, <1>2
\* One phi: its operands are read, the temporary is written.
PhiReadsOf(p, b) == UpToN([k \in 1 .. Len(p.from) |-> PhiArgReads(p, b, k)], Len(p.from))

LEMMA UsePhiCounts ==
    ASSUME NEW D, NEW T, NEW U, NEW tmp, NEW reads, NEW writes, Counted(D, T, U, tmp, reads, writes),
           NEW fn, NEW b, NEW p, Len(p.from) \in Nat, Use("phi", fn.id[b], b, p.to[2]) \in U,
           \A k \in 1 .. Len(p.from) : IsTemp(p.from[k][2]) => p.from[k][2][2] \in T,
           PhiReadsOf(p, b) \cap reads = {},
           NEW w, w \notin writes, w.t = p.to[2]
    PROVE  Counted(D, T, U, UsePhi(fn, b, tmp, p), reads \cup PhiReadsOf(p, b), writes \cup {w})
<1> DEFINE to == p.to[2]
           u == Use("phi", fn.id[b], b, to)
           rep == PhiCls(tmp, to)
           def == [tmp EXCEPT ![to].bid = fn.id[b], ![to].ndef = @ + 1, ![to].cls = p.cls]
           s == p.from
           q == [D |-> D, T |-> T, U |-> U, reads |-> reads, writes |-> writes \cup {w},
                 r |-> [k \in 1 .. Len(s) |-> PhiArgReads(p, b, k)], w |-> [k \in 1 .. Len(s) |-> {}]]
<1>1. Counted(D, T, U, def, reads, writes \cup {w})
  <2>1. T \subseteq D /\ DOMAIN tmp = D /\ \A t \in T : {"use", "nuse", "ndef"} \subseteq DOMAIN tmp[t] BY DEF Counted
  <2>2. DOMAIN def = D BY <2>1
  <2>3. \A t \in T : Same(tmp[t], def[t]) /\ def[t].ndef = IF t = to THEN tmp[t].ndef + 1 ELSE tmp[t].ndef
    BY <2>1 DEF Same
  <2>4. w.t = to OBVIOUS
  <2> HIDE DEF def, to
  <2> QED BY <2>2, <2>3, <2>4, AddDefCounts
<1>2. UsePhi(fn, b, tmp, p) = PhiArgs!EachTurn(u, rep, 0, def, s)
  BY DEF UsePhi, PhiArgs!EachTurn, PhiArgs!Each, Each, PhiArgs!With, With, PhiArgOp
<1>3. CountedUpTo(q, 0, def) BY <1>1, UnionUpToZero DEF CountedUpTo
<1>4. ASSUME NEW k \in 1 .. Len(s), NEW a, CountedUpTo(q, k - 1, a)
      PROVE  CountedUpTo(q, k, PhiArgOp(u, rep, 0, a, s[k]))
  <2> DEFINE r1 == reads \cup UpToN(q.r, k - 1)
             w1 == writes \cup {w} \cup UpToN(q.w, k - 1)
             read == Read(s[k][2][2], "phi", b, to, k, s[k][1])
  <2>1. Counted(D, T, U, a, r1, w1) BY <1>4 DEF CountedUpTo
  <2>2. IsTemp(s[k][2]) => read \notin r1 /\ read.t = s[k][2][2] /\ s[k][2][2] \in T /\ Place(read) = Place(u)
    <3>1. ASSUME IsTemp(s[k][2]) PROVE read \notin reads
      BY <3>1 DEF PhiReadsOf, PhiArgReads, UpToN
    <3>2. \A i \in 1 .. k - 1 : read \notin q.r[i] BY DEF PhiArgReads, Read
    <3>3. read.t = s[k][2][2] /\ Place(read) = Place(u) BY DEF Read, Place, Use
    <3>4. IsTemp(s[k][2]) => s[k][2][2] \in T OBVIOUS
    <3> HIDE DEF read, u, q
    <3> QED BY <3>1, <3>2, <3>3, <3>4 DEF UpToN
  <2>3. Counted(D, T, U, UsePhiArg(u, rep, a, s[k]), r1 \cup (IF IsTemp(s[k][2]) THEN {read} ELSE {}), w1)
    <3>1. u \in U OBVIOUS
    <3> HIDE DEF r1, w1, read, u, rep, s
    <3> QED BY <2>1, <2>2, <3>1, UsePhiArgCounts
  <2>4. q.r[k] = IF IsTemp(s[k][2]) THEN {read} ELSE {} BY DEF PhiArgReads
  <2>5. q.w[k] = {} OBVIOUS
  <2>6. UpToN(q.r, k) = UpToN(q.r, k - 1) \cup q.r[k]
        /\ UpToN(q.w, k) = UpToN(q.w, k - 1) \cup q.w[k]
    <3>1. k \in Nat /\ k # 0 OBVIOUS
    <3> HIDE DEF q, s
    <3> QED BY <3>1, UnionUpTo
  <2>7. q.reads = reads /\ q.writes = writes \cup {w} /\ q.D = D /\ q.T = T /\ q.U = U OBVIOUS
  <2> HIDE DEF q, u, read, s, rep
  <2>8. q.reads \cup UpToN(q.r, k) = r1 \cup (IF IsTemp(s[k][2]) THEN {read} ELSE {})
    BY <2>4, <2>6, <2>7
  <2>9. q.writes \cup UpToN(q.w, k) = w1 BY <2>5, <2>6, <2>7
  <2> HIDE DEF r1, w1
  <2> QED BY <2>3, <2>7, <2>8, <2>9 DEF CountedUpTo, PhiArgOp
<1>5. CountedUpTo(q, Len(s), UsePhi(fn, b, tmp, p))
  <2> HIDE DEF q, u, rep, def, s
  <2>1. Len(s) \in Nat BY DEF s
  <2>2. CountedUpTo(q, Len(s), PhiArgs!EachTurn(u, rep, 0, def, s))
    BY <1>3, <1>4, <2>1, PhiArgs!EachKeeps
  <2> QED BY <1>2, <2>2
<1>6. UpToN(q.r, Len(s)) = PhiReadsOf(p, b) BY DEF PhiReadsOf
<1>7. UpToN(q.w, Len(s)) = {} BY DEF UpToN
<1>8. q.reads = reads /\ q.writes = writes \cup {w} /\ q.D = D /\ q.T = T /\ q.U = U OBVIOUS
<1> HIDE DEF q, s
<1> QED BY <1>5, <1>6, <1>7, <1>8 DEF CountedUpTo

\* Counting goes from one element to the next.
LEMMA CountedStep ==
    ASSUME NEW q, NEW k \in Nat, k # 0, NEW new,
           Counted(q.D, q.T, q.U, new, (q.reads \cup UpToN(q.r, k - 1)) \cup q.r[k], (q.writes \cup UpToN(q.w, k - 1)) \cup q.w[k])
    PROVE  CountedUpTo(q, k, new)
<1>1. UpToN(q.r, k) = UpToN(q.r, k - 1) \cup q.r[k] /\ UpToN(q.w, k) = UpToN(q.w, k - 1) \cup q.w[k] BY UnionUpTo
<1>2. (q.reads \cup UpToN(q.r, k - 1)) \cup q.r[k] = q.reads \cup UpToN(q.r, k) BY <1>1
<1>3. (q.writes \cup UpToN(q.w, k - 1)) \cup q.w[k] = q.writes \cup UpToN(q.w, k) BY <1>1
<1> QED BY <1>2, <1>3 DEF CountedUpTo

\* Counting starts with what was counted.
LEMMA CountedStart ==
    ASSUME NEW q, NEW v, Counted(q.D, q.T, q.U, v, q.reads, q.writes)
    PROVE  CountedUpTo(q, 0, v)
BY UnionUpToZero DEF CountedUpTo

\* One instruction: its operands are read, its result is written.
InsArgReads(i, b, n, k) == IF IsTemp(i.arg[k]) THEN {Read(i.arg[k][2], "ins", b, n, k, 0)} ELSE {}
InsReadsOf(i, b, n) == UpToN([k \in 1 .. Len(i.arg) |-> InsArgReads(i, b, n, k)], Len(i.arg))
InsWriteOf(i, b, n) == IF IsTemp(i.to) THEN {[t |-> i.to[2], b |-> b, n |-> n]} ELSE {}

\* What an instruction changes in the entry of the temporary it writes.
Defined(tmp, t, v, d, bid, cls) ==
    [tmp EXCEPT ![t].width = v, ![t].def = d, ![t].bid = bid, ![t].ndef = @ + 1, ![t].cls = cls]
CountedAt(T, t, tmp, new) ==
    \A x \in T : Same(tmp[x], new[x]) /\ new[x].ndef = IF x = t THEN tmp[x].ndef + 1 ELSE tmp[x].ndef
LEMMA EntryDefined ==
    ASSUME NEW tmp, NEW T, T \subseteq DOMAIN tmp, \A x \in T : {"use", "nuse", "ndef"} \subseteq DOMAIN tmp[x], NEW t, NEW v, NEW d, NEW bid, NEW cls
    PROVE  DOMAIN Defined(tmp, t, v, d, bid, cls) = DOMAIN tmp /\ CountedAt(T, t, tmp, Defined(tmp, t, v, d, bid, cls))
<1> DEFINE def == [tmp EXCEPT ![t].width = v, ![t].def = d, ![t].bid = bid, ![t].ndef = @ + 1, ![t].cls = cls]
<1>0. DOMAIN def = DOMAIN tmp OBVIOUS
<1>1. ASSUME NEW x \in T, x # t PROVE def[x] = tmp[x] BY <1>1
<1>2. ASSUME t \in T PROVE Same(tmp[t], def[t]) /\ def[t].ndef = tmp[t].ndef + 1
  <2> DEFINE a == [tmp EXCEPT ![t].width = v]
             c == [a EXCEPT ![t].def = d]
             e == [c EXCEPT ![t].bid = bid]
             f == [e EXCEPT ![t].ndef = @ + 1]
             g == [f EXCEPT ![t].cls = cls]
  <2>1. def = g OBVIOUS
  <2>2. DOMAIN a = DOMAIN tmp /\ a[t] = [tmp[t] EXCEPT !.width = v] BY <1>2
  <2> HIDE DEF a
  <2>3. DOMAIN c = DOMAIN tmp /\ c[t] = [a[t] EXCEPT !.def = d] BY <1>2, <2>2
  <2> HIDE DEF c
  <2>4. DOMAIN e = DOMAIN tmp /\ e[t] = [c[t] EXCEPT !.bid = bid] BY <1>2, <2>3
  <2> HIDE DEF e
  <2>5. DOMAIN f = DOMAIN tmp /\ f[t] = [e[t] EXCEPT !.ndef = @ + 1] BY <1>2, <2>4
  <2> HIDE DEF f
  <2>6. DOMAIN g = DOMAIN tmp /\ g[t] = [f[t] EXCEPT !.cls = cls] BY <1>2, <2>5
  <2> HIDE DEF g, def
  <2>7. {"use", "nuse", "ndef"} \subseteq DOMAIN tmp[t] BY <1>2
  <2>8. {"use", "nuse", "ndef"} \subseteq DOMAIN e[t] /\ e[t].use = tmp[t].use /\ e[t].nuse = tmp[t].nuse
        /\ e[t].ndef = tmp[t].ndef
    BY <2>2, <2>3, <2>4, <2>7
  <2>9. {"use", "nuse", "ndef"} \subseteq DOMAIN g[t] /\ g[t].use = e[t].use /\ g[t].nuse = e[t].nuse
        /\ g[t].ndef = e[t].ndef + 1
    BY <2>5, <2>6, <2>8
  <2> QED BY <2>1, <2>8, <2>9 DEF Same
<1>3. \A x \in T : {"use", "nuse", "ndef"} \subseteq DOMAIN tmp[x] OBVIOUS
<1> HIDE DEF def
<1>4. CountedAt(T, t, tmp, def) BY <1>1, <1>2, <1>3 DEF Same, CountedAt
<1>6. def = Defined(tmp, t, v, d, bid, cls) BY DEF def, Defined
<1> QED BY <1>0, <1>4, <1>6

\* An instruction is counted.
LEMMA UseInsCounts ==
    ASSUME NEW D, NEW T, NEW U, NEW tmp, NEW reads, NEW writes, Counted(D, T, U, tmp, reads, writes),
           NEW fn, NEW b, NEW n, Len(fn.blk[b].ins[n].arg) \in Nat, Use("ins", fn.id[b], b, n) \in U,
           \A k \in 1 .. Len(fn.blk[b].ins[n].arg) : IsTemp(fn.blk[b].ins[n].arg[k]) => fn.blk[b].ins[n].arg[k][2] \in T,
           \A t \in T : t >= Tmp0, fn.blk[b].ins[n].to[1] = "tmp",
           InsReadsOf(fn.blk[b].ins[n], b, n) \cap reads = {},
           InsWriteOf(fn.blk[b].ins[n], b, n) \cap writes = {}
    PROVE  Counted(D, T, U, UseIns(fn, b, tmp, n), reads \cup InsReadsOf(fn.blk[b].ins[n], b, n),
                   writes \cup InsWriteOf(fn.blk[b].ins[n], b, n))
<1> DEFINE i == fn.blk[b].ins[n]
           t == i.to[2]
           u == Use("ins", fn.id[b], b, n)
           def == IF i.to = R THEN tmp
                  ELSE [tmp EXCEPT ![t].width = WidthOf(i), ![t].def = <<b, n>>, ![t].bid = fn.id[b],
                                   ![t].ndef = @ + 1, ![t].cls = i.cls]
           s == i.arg
           w1 == writes \cup InsWriteOf(i, b, n)
           q == [D |-> D, T |-> T, U |-> U, reads |-> reads, writes |-> w1,
                 r |-> [k \in 1 .. Len(s) |-> InsArgReads(i, b, n, k)], w |-> [k \in 1 .. Len(s) |-> {}]]
<1>0. i.to[1] = "tmp" /\ InsWriteOf(i, b, n) \cap writes = {} OBVIOUS
<1>1. Counted(D, T, U, def, reads, w1)
  <2> DEFINE entry == Defined(tmp, t, WidthOf(i), <<b, n>>, fn.id[b], i.cls)
  <2>0. def = IF i.to = R THEN tmp ELSE entry BY DEF Defined
  <2> HIDE DEF def, i
  <2>1. T \subseteq D /\ DOMAIN tmp = D /\ \A x \in T : {"use", "nuse", "ndef"} \subseteq DOMAIN tmp[x] BY DEF Counted
  <2>2. CASE i.to = R
    <3> HIDE DEF entry
    <3>1. ~ IsTemp(i.to) BY <2>2, TargetAssumption DEF IsTemp, R, Tmp, NoTmp
    <3>2. def = tmp /\ w1 = writes BY <2>0, <2>2, <3>1 DEF InsWriteOf
    <3> QED BY <3>2
  <2>3. CASE i.to # R
    <3>0. DOMAIN entry = D /\ CountedAt(T, t, tmp, entry)
      <4> DEFINE v == WidthOf(i)
                 d == <<b, n>>
                 bid == fn.id[b]
                 cls == i.cls
      <4> HIDE DEF t, v, d, bid, cls, entry
      <4>1. /\ DOMAIN Defined(tmp, t, v, d, bid, cls) = DOMAIN tmp
            /\ CountedAt(T, t, tmp, Defined(tmp, t, v, d, bid, cls))
        BY <2>1, EntryDefined
      <4>2. entry = Defined(tmp, t, v, d, bid, cls) BY DEF entry, t, v, d, bid, cls
      <4> QED BY <2>1, <4>1, <4>2
    <3> HIDE DEF entry
    <3>1. DOMAIN entry = D /\ \A x \in T :
            Same(tmp[x], entry[x]) /\ entry[x].ndef = IF x = t THEN tmp[x].ndef + 1 ELSE tmp[x].ndef
      BY <3>0 DEF CountedAt
    <3>2. def = entry BY <2>0, <2>3
    <3>3. CASE IsTemp(i.to)
      <4> DEFINE w == [t |-> i.to[2], b |-> b, n |-> n]
      <4>1. w.t = t /\ w1 = writes \cup {w} /\ w \notin writes BY <1>0, <3>3 DEF InsWriteOf
      <4> HIDE DEF t, w, w1
      <4>2. Counted(D, T, U, entry, reads, w1) BY <3>1, <4>1, AddDefCounts
      <4> QED BY <3>2, <4>2
    <3>4. CASE ~ IsTemp(i.to)
      <4>1. t \notin T BY <1>0, <3>4 DEF IsTemp
      <4>2. \A x \in T : Same(tmp[x], entry[x]) /\ entry[x].ndef = tmp[x].ndef BY <3>1, <4>1
      <4>3. w1 = writes BY <3>4 DEF InsWriteOf
      <4> HIDE DEF w1
      <4> QED BY <3>1, <3>2, <4>2, <4>3, SameCounts
    <3> QED BY <3>3, <3>4
  <2> QED BY <2>2, <2>3
<1>2. UseIns(fn, b, tmp, n) = InsArgs!EachTurn(u, 0, 0, def, s)
  BY DEF UseIns, InsArgs!EachTurn, InsArgs!Each, Each, InsArgs!With, With, InsArgOp
<1>3. CountedUpTo(q, 0, def) BY <1>1, CountedStart
<1>4. ASSUME NEW k \in 1 .. Len(s), NEW a, CountedUpTo(q, k - 1, a)
      PROVE  CountedUpTo(q, k, InsArgOp(u, 0, 0, a, s[k]))
  <2> DEFINE r2 == reads \cup UpToN(q.r, k - 1)
             w2 == w1 \cup UpToN(q.w, k - 1)
             read == Read(s[k][2], "ins", b, n, k, 0)
  <2>1. Counted(D, T, U, a, r2, w2) BY <1>4 DEF CountedUpTo
  <2>2. IsTemp(s[k]) => read \notin r2 /\ read.t = s[k][2] /\ s[k][2] \in T /\ Place(read) = Place(u)
    <3>1. ASSUME IsTemp(s[k]) PROVE read \notin reads
      BY <3>1 DEF InsReadsOf, InsArgReads, UpToN
    <3>2. \A j \in 1 .. k - 1 : read \notin q.r[j]
      <4>1. \A j, e : e \in InsArgReads(i, b, n, j) => e.k = j BY DEF InsArgReads, Read
      <4>2. read.k = k BY DEF Read
      <4>3. \A j \in 1 .. k - 1 : q.r[j] = InsArgReads(i, b, n, j) OBVIOUS
      <4> HIDE DEF q, read, i, s
      <4> QED BY <4>1, <4>2, <4>3
    <3>3. read.t = s[k][2] /\ Place(read) = Place(u) BY DEF Read, Place, Use
    <3>4. IsTemp(s[k]) => s[k][2] \in T OBVIOUS
    <3> HIDE DEF read, u, q
    <3> QED BY <3>1, <3>2, <3>3, <3>4 DEF UpToN
  <2>3. Counted(D, T, U, AddUse(a, s[k], u), r2 \cup (IF IsTemp(s[k]) THEN {read} ELSE {}), w2)
    <3>1. u \in U OBVIOUS
    <3> HIDE DEF r2, w2, read, u, s
    <3> QED BY <2>1, <2>2, <3>1, AddUseCounts
  <2>4. q.r[k] = IF IsTemp(s[k]) THEN {read} ELSE {} BY DEF InsArgReads
  <2>5. q.w[k] = {} /\ q.reads = reads /\ q.writes = w1 /\ q.D = D /\ q.T = T /\ q.U = U /\ k \in Nat /\ k # 0 OBVIOUS
  <2> HIDE DEF q, u, read, s
  <2>6. Counted(q.D, q.T, q.U, AddUse(a, s[k], u), (q.reads \cup UpToN(q.r, k - 1)) \cup q.r[k],
                (q.writes \cup UpToN(q.w, k - 1)) \cup q.w[k])
    <3>1. w2 = (q.writes \cup UpToN(q.w, k - 1)) \cup q.w[k] BY <2>5
    <3> QED BY <2>3, <2>4, <2>5, <3>1
  <2> HIDE DEF r2, w2
  <2> QED BY <2>5, <2>6, CountedStep DEF InsArgOp
<1>5. CountedUpTo(q, Len(s), UseIns(fn, b, tmp, n))
  <2> HIDE DEF q, u, def, s
  <2>1. Len(s) \in Nat BY DEF s
  <2>2. CountedUpTo(q, Len(s), InsArgs!EachTurn(u, 0, 0, def, s)) BY <1>3, <1>4, <2>1, InsArgs!EachKeeps
  <2> QED BY <1>2, <2>2
<1>6. UpToN(q.r, Len(s)) = InsReadsOf(i, b, n) BY DEF InsReadsOf
<1>7. UpToN(q.w, Len(s)) = {} BY DEF UpToN
<1>8. q.reads = reads /\ q.writes = w1 /\ q.D = D /\ q.T = T /\ q.U = U OBVIOUS
<1>9. q.reads \cup UpToN(q.r, Len(s)) = reads \cup InsReadsOf(i, b, n) /\ q.writes \cup UpToN(q.w, Len(s)) = w1
  <2> HIDE DEF q, s, w1, i
  <2> QED BY <1>6, <1>7, <1>8
<1> HIDE DEF q, s
<1> QED BY <1>5, <1>8, <1>9 DEF CountedUpTo

-----------------------------------------------------------------------------
(* One block: its phis, its instructions, its jump *)

PhiWriteOf(p, b) == [t |-> p.to[2], b |-> b, n |-> 0]
PhisReadsOf(blk, b) == UpToN([m \in 1 .. Len(blk.phi) |-> PhiReadsOf(blk.phi[m], b)], Len(blk.phi))
PhisWritesOf(blk, b) == UpToN([m \in 1 .. Len(blk.phi) |-> {PhiWriteOf(blk.phi[m], b)}], Len(blk.phi))
InssReadsOf(blk, b) == UpToN([n \in 1 .. Len(blk.ins) |-> InsReadsOf(blk.ins[n], b, n)], Len(blk.ins))
InssWritesOf(blk, b) == UpToN([n \in 1 .. Len(blk.ins) |-> InsWriteOf(blk.ins[n], b, n)], Len(blk.ins))
JmpReadsOf(blk, b) == IF IsTemp(blk.ja) THEN {Read(blk.ja[2], "jmp", b, 0, 1, 0)} ELSE {}
BlockReadsOf(blk, b) == (PhisReadsOf(blk, b) \cup InssReadsOf(blk, b)) \cup JmpReadsOf(blk, b)
BlockWritesOf(blk, b) == PhisWritesOf(blk, b) \cup InssWritesOf(blk, b)

\* What the proofs need of a block, for the temporaries T and the use records U.
BlockFits(fn, T, U, b) ==
    LET blk == fn.blk[b]
    IN /\ Len(blk.phi) \in Nat /\ Len(blk.ins) \in Nat
       /\ \A m \in 1 .. Len(blk.phi) : LET p == blk.phi[m] IN
            /\ Len(p.from) \in Nat /\ Use("phi", fn.id[b], b, p.to[2]) \in U
            /\ \A k \in 1 .. Len(p.from) : IsTemp(p.from[k][2]) => p.from[k][2][2] \in T
       /\ \A m, j \in 1 .. Len(blk.phi) : blk.phi[m].to[2] = blk.phi[j].to[2] => m = j
       /\ \A n \in 1 .. Len(blk.ins) : LET i == blk.ins[n] IN
            /\ Len(i.arg) \in Nat /\ Use("ins", fn.id[b], b, n) \in U /\ i.to[1] = "tmp"
            /\ \A k \in 1 .. Len(i.arg) : IsTemp(i.arg[k]) => i.arg[k][2] \in T
       /\ Use("jmp", fn.id[b], b, 0) \in U /\ (IsTemp(blk.ja) => blk.ja[2] \in T)

\* The reads of different places are different.
LEMMA PhiReadsAre ==
    \A p, b, u : u \in PhiReadsOf(p, b) => u.type = "phi" /\ u.b = b /\ u.at = p.to[2]
<1>1. \A p, b, k, u : u \in PhiArgReads(p, b, k) => u.type = "phi" /\ u.b = b /\ u.at = p.to[2]
  BY DEF PhiArgReads, Read
<1>2. \A p, b, u : u \in PhiReadsOf(p, b) => \E k : u \in PhiArgReads(p, b, k) BY DEF PhiReadsOf, UpToN
<1> QED BY <1>1, <1>2

\* So are those of the instructions.
LEMMA InsReadsAre ==
    \A i, b, n, u : u \in InsReadsOf(i, b, n) => u.type = "ins" /\ u.b = b /\ u.at = n
<1>1. \A i, b, n, k, u : u \in InsArgReads(i, b, n, k) => u.type = "ins" /\ u.b = b /\ u.at = n
  BY DEF InsArgReads, Read
<1>2. \A i, b, n, u : u \in InsReadsOf(i, b, n) => \E k : u \in InsArgReads(i, b, n, k) BY DEF InsReadsOf, UpToN
<1> QED BY <1>1, <1>2

\* The phis of a block are counted.
LEMMA PhisCount ==
    ASSUME NEW D, NEW T, NEW U, NEW tmp, NEW reads, NEW writes, Counted(D, T, U, tmp, reads, writes),
           NEW fn, NEW b, BlockFits(fn, T, U, b),
           PhisReadsOf(fn.blk[b], b) \cap reads = {}, PhisWritesOf(fn.blk[b], b) \cap writes = {}
    PROVE  Counted(D, T, U, Phis!EachTurn(fn, b, 0, tmp, fn.blk[b].phi),
                   reads \cup PhisReadsOf(fn.blk[b], b), writes \cup PhisWritesOf(fn.blk[b], b))
<1> DEFINE s == fn.blk[b].phi
           q == [D |-> D, T |-> T, U |-> U, reads |-> reads, writes |-> writes,
                 r |-> [m \in 1 .. Len(s) |-> PhiReadsOf(s[m], b)], w |-> [m \in 1 .. Len(s) |-> {PhiWriteOf(s[m], b)}]]
<1>1. CountedUpTo(q, 0, tmp) BY CountedStart
<1>2. ASSUME NEW m \in 1 .. Len(s), NEW a, CountedUpTo(q, m - 1, a)
      PROVE  CountedUpTo(q, m, PhiOp(fn, b, 0, a, s[m]))
  <2> DEFINE r2 == reads \cup UpToN(q.r, m - 1)
             w2 == writes \cup UpToN(q.w, m - 1)
             p == s[m]
  <2>1. Counted(D, T, U, a, r2, w2) BY <1>2 DEF CountedUpTo
  <2>2. \A j \in 1 .. m - 1 : s[j].to[2] # p.to[2] BY DEF BlockFits
  <2>3. PhiReadsOf(p, b) \cap r2 = {}
    <3>1. PhiReadsOf(p, b) \cap reads = {} BY DEF PhisReadsOf, UpToN
    <3>2. \A j \in 1 .. m - 1 : q.r[j] = PhiReadsOf(s[j], b) OBVIOUS
    <3> HIDE DEF q, s, p
    <3> QED BY <3>1, <3>2, <2>2, PhiReadsAre DEF UpToN
  <2>4. PhiWriteOf(p, b) \notin w2 /\ PhiWriteOf(p, b).t = p.to[2]
    <3>1. PhiWriteOf(p, b) \notin writes BY DEF PhisWritesOf, UpToN
    <3>2. \A j \in 1 .. m - 1 : q.w[j] = {PhiWriteOf(s[j], b)} OBVIOUS
    <3>3. \A x : PhiWriteOf(x, b).t = x.to[2] BY DEF PhiWriteOf
    <3> HIDE DEF q, s, p
    <3> QED BY <3>1, <3>2, <3>3, <2>2 DEF UpToN
  <2>5. /\ Len(p.from) \in Nat /\ Use("phi", fn.id[b], b, p.to[2]) \in U
        /\ \A k \in 1 .. Len(p.from) : IsTemp(p.from[k][2]) => p.from[k][2][2] \in T
    BY DEF BlockFits
  <2>6. Counted(D, T, U, UsePhi(fn, b, a, p), r2 \cup PhiReadsOf(p, b), w2 \cup {PhiWriteOf(p, b)})
    <3> DEFINE w == PhiWriteOf(p, b)
    <3>1. w \notin w2 /\ w.t = p.to[2] BY <2>4
    <3> HIDE DEF r2, w2, p, w
    <3>2. Counted(D, T, U, UsePhi(fn, b, a, p), r2 \cup PhiReadsOf(p, b), w2 \cup {w})
      BY <2>1, <2>3, <2>5, <3>1, UsePhiCounts
    <3> QED BY <3>2 DEF w
  <2>7. q.r[m] = PhiReadsOf(p, b) /\ q.w[m] = {PhiWriteOf(p, b)} /\ q.reads = reads /\ q.writes = writes
        /\ q.D = D /\ q.T = T /\ q.U = U /\ m \in Nat /\ m # 0
    OBVIOUS
  <2> HIDE DEF q, s
  <2>8. Counted(q.D, q.T, q.U, UsePhi(fn, b, a, p), (q.reads \cup UpToN(q.r, m - 1)) \cup q.r[m],
                (q.writes \cup UpToN(q.w, m - 1)) \cup q.w[m])
    BY <2>6, <2>7
  <2> HIDE DEF r2, w2
  <2> QED BY <2>7, <2>8, CountedStep DEF PhiOp
<1>3. CountedUpTo(q, Len(s), Phis!EachTurn(fn, b, 0, tmp, s))
  <2>1. Len(s) \in Nat BY DEF BlockFits
  <2> HIDE DEF q, s
  <2> QED BY <1>1, <1>2, <2>1, Phis!EachKeeps
<1>4. UpToN(q.r, Len(s)) = PhisReadsOf(fn.blk[b], b) /\ UpToN(q.w, Len(s)) = PhisWritesOf(fn.blk[b], b)
      /\ q.reads = reads /\ q.writes = writes /\ q.D = D /\ q.T = T /\ q.U = U
  BY DEF PhisReadsOf, PhisWritesOf
<1> HIDE DEF q
<1> QED BY <1>3, <1>4 DEF CountedUpTo

\* The instructions of a block are counted.
LEMMA InssCount ==
    ASSUME NEW D, NEW T, NEW U, NEW tmp, NEW reads, NEW writes, Counted(D, T, U, tmp, reads, writes),
           NEW fn, NEW b, BlockFits(fn, T, U, b), \A t \in T : t >= Tmp0,
           InssReadsOf(fn.blk[b], b) \cap reads = {}, InssWritesOf(fn.blk[b], b) \cap writes = {}
    PROVE  Counted(D, T, U, Inss!EachTurn(fn, b, 0, tmp, [n \in 1 .. Len(fn.blk[b].ins) |-> n]),
                   reads \cup InssReadsOf(fn.blk[b], b), writes \cup InssWritesOf(fn.blk[b], b))
<1> DEFINE ins == fn.blk[b].ins
           s == [n \in 1 .. Len(ins) |-> n]
           q == [D |-> D, T |-> T, U |-> U, reads |-> reads, writes |-> writes,
                 r |-> [n \in 1 .. Len(ins) |-> InsReadsOf(ins[n], b, n)],
                 w |-> [n \in 1 .. Len(ins) |-> InsWriteOf(ins[n], b, n)]]
<1>1. CountedUpTo(q, 0, tmp) BY CountedStart
<1>0. Len(ins) \in Nat BY DEF BlockFits
<1>5. Len(s) = Len(ins) /\ \A n \in 1 .. Len(s) : s[n] = n BY <1>0
<1>2. ASSUME NEW m \in 1 .. Len(s), NEW a, CountedUpTo(q, m - 1, a)
      PROVE  CountedUpTo(q, m, InsOp(fn, b, 0, a, s[m]))
  <2> DEFINE r2 == reads \cup UpToN(q.r, m - 1)
             w2 == writes \cup UpToN(q.w, m - 1)
             i == ins[m]
  <2>0. m \in 1 .. Len(ins) /\ s[m] = m /\ m \in Nat /\ m # 0 BY <1>5
  <2>1. Counted(D, T, U, a, r2, w2) BY <1>2 DEF CountedUpTo
  <2>2. \A j \in 1 .. m - 1 : j # m /\ j \in 1 .. Len(ins) BY <2>0
  <2>3. InsReadsOf(i, b, m) \cap r2 = {}
    <3>1. InsReadsOf(i, b, m) \cap reads = {} BY <2>0 DEF InssReadsOf, UpToN
    <3>2. \A j \in 1 .. m - 1 : q.r[j] = InsReadsOf(ins[j], b, j) BY <2>2
    <3> HIDE DEF q, s, i, ins
    <3> QED BY <3>1, <3>2, <2>2, InsReadsAre DEF UpToN
  <2>4. InsWriteOf(i, b, m) \cap w2 = {}
    <3>1. InsWriteOf(i, b, m) \cap writes = {} BY <2>0 DEF InssWritesOf, UpToN
    <3>2. \A j \in 1 .. m - 1 : q.w[j] = InsWriteOf(ins[j], b, j) BY <2>2
    <3>3. \A x, j, w : w \in InsWriteOf(x, b, j) => w.n = j BY DEF InsWriteOf
    <3> HIDE DEF q, s, i, ins
    <3> QED BY <3>1, <3>2, <3>3, <2>2 DEF UpToN
  <2>5. /\ Len(fn.blk[b].ins[m].arg) \in Nat /\ Use("ins", fn.id[b], b, m) \in U /\ fn.blk[b].ins[m].to[1] = "tmp"
        /\ \A k \in 1 .. Len(fn.blk[b].ins[m].arg) : IsTemp(fn.blk[b].ins[m].arg[k]) => fn.blk[b].ins[m].arg[k][2] \in T
    BY <2>0 DEF BlockFits
  <2>6. Counted(D, T, U, UseIns(fn, b, a, m), r2 \cup InsReadsOf(i, b, m), w2 \cup InsWriteOf(i, b, m))
    <3> HIDE DEF r2, w2, q, s
    <3> QED BY <2>1, <2>3, <2>4, <2>5, UseInsCounts
  <2>7. q.r[m] = InsReadsOf(i, b, m) /\ q.w[m] = InsWriteOf(i, b, m) /\ q.reads = reads /\ q.writes = writes
        /\ q.D = D /\ q.T = T /\ q.U = U
    BY <2>0
  <2> HIDE DEF q, s, i
  <2>8. Counted(q.D, q.T, q.U, UseIns(fn, b, a, m), (q.reads \cup UpToN(q.r, m - 1)) \cup q.r[m],
                (q.writes \cup UpToN(q.w, m - 1)) \cup q.w[m])
    BY <2>6, <2>7
  <2> HIDE DEF r2, w2
  <2> QED BY <2>0, <2>8, CountedStep DEF InsOp
<1>3. CountedUpTo(q, Len(ins), Inss!EachTurn(fn, b, 0, tmp, s))
  <2> HIDE DEF q, s, ins
  <2>1. CountedUpTo(q, Len(s), Inss!EachTurn(fn, b, 0, tmp, s)) BY <1>0, <1>1, <1>2, <1>5, Inss!EachKeeps
  <2> QED BY <2>1, <1>5
<1>4. UpToN(q.r, Len(ins)) = InssReadsOf(fn.blk[b], b) /\ UpToN(q.w, Len(ins)) = InssWritesOf(fn.blk[b], b)
      /\ q.reads = reads /\ q.writes = writes /\ q.D = D /\ q.T = T /\ q.U = U
  BY DEF InssReadsOf, InssWritesOf
<1> HIDE DEF q
<1> QED BY <1>3, <1>4 DEF CountedUpTo

\* A block is counted.
LEMMA UseBlockCounts ==
    ASSUME NEW D, NEW T, NEW U, NEW tmp, NEW reads, NEW writes, Counted(D, T, U, tmp, reads, writes),
           NEW fn, NEW b, BlockFits(fn, T, U, b), \A t \in T : t >= Tmp0,
           BlockReadsOf(fn.blk[b], b) \cap reads = {}, BlockWritesOf(fn.blk[b], b) \cap writes = {}
    PROVE  Counted(D, T, U, UseBlock(fn, tmp, b), reads \cup BlockReadsOf(fn.blk[b], b), writes \cup BlockWritesOf(fn.blk[b], b))
<1> DEFINE blk == fn.blk[b]
           phis == Phis!EachTurn(fn, b, 0, tmp, blk.phi)
           ins == Inss!EachTurn(fn, b, 0, phis, [n \in 1 .. Len(blk.ins) |-> n])
           u == Use("jmp", fn.id[b], b, 0)
           r1 == reads \cup PhisReadsOf(blk, b)
           w1 == writes \cup PhisWritesOf(blk, b)
           r2 == r1 \cup InssReadsOf(blk, b)
           w2 == w1 \cup InssWritesOf(blk, b)
           read == Read(blk.ja[2], "jmp", b, 0, 1, 0)
<1>1. UseBlock(fn, tmp, b) = AddUse(ins, blk.ja, u)
  <2>1. \A v : phis = v => Each(LAMBDA acc, p : UsePhi(fn, b, acc, p), tmp, blk.phi) = v
    BY DEF Phis!EachTurn, Phis!Each, Each, Phis!With, With, PhiOp
  <2>2. \A v : Each(LAMBDA acc, n : UseIns(fn, b, acc, n), v, [n \in 1 .. Len(blk.ins) |-> n])
               = Inss!EachTurn(fn, b, 0, v, [n \in 1 .. Len(blk.ins) |-> n])
    BY DEF Inss!EachTurn, Inss!Each, Each, Inss!With, With, InsOp
  <2> QED BY <2>1, <2>2 DEF UseBlock, With
<1>2. Counted(D, T, U, phis, r1, w1)
  <2>1. PhisReadsOf(blk, b) \cap reads = {} /\ PhisWritesOf(blk, b) \cap writes = {}
    BY DEF BlockReadsOf, BlockWritesOf
  <2> QED BY <2>1, PhisCount
<1>3. \A x : x \in PhisReadsOf(blk, b) => x.type = "phi"
  <2>1. \A x : x \in PhisReadsOf(blk, b) => \E m \in 1 .. Len(blk.phi) : x \in PhiReadsOf(blk.phi[m], b)
    BY DEF PhisReadsOf, UpToN
  <2> QED BY <2>1, PhiReadsAre
<1>4. \A x : x \in InssReadsOf(blk, b) => x.type = "ins"
  <2>1. \A x : x \in InssReadsOf(blk, b) => \E n \in 1 .. Len(blk.ins) : x \in InsReadsOf(blk.ins[n], b, n)
    BY DEF InssReadsOf, UpToN
  <2> QED BY <2>1, InsReadsAre
<1>5. InssReadsOf(blk, b) \cap r1 = {}
  <2>1. InssReadsOf(blk, b) \cap reads = {} BY DEF BlockReadsOf
  <2> QED BY <2>1, <1>3, <1>4
<1>6. InssWritesOf(blk, b) \cap w1 = {}
  <2>1. InssWritesOf(blk, b) \cap writes = {} BY DEF BlockWritesOf
  <2>2. \A x : x \in PhisWritesOf(blk, b) => x.n = 0
    <3>1. \A p : PhiWriteOf(p, b).n = 0 BY DEF PhiWriteOf
    <3>2. \A x : x \in PhisWritesOf(blk, b) => \E m \in 1 .. Len(blk.phi) : x = PhiWriteOf(blk.phi[m], b)
      BY DEF PhisWritesOf, UpToN
    <3> QED BY <3>1, <3>2
  <2>3. \A x : x \in InssWritesOf(blk, b) => x.n # 0
    <3>1. \A i, n, x : x \in InsWriteOf(i, b, n) => x.n = n BY DEF InsWriteOf
    <3>2. \A x : x \in InssWritesOf(blk, b) => \E n \in 1 .. Len(blk.ins) : x \in InsWriteOf(blk.ins[n], b, n)
      BY DEF InssWritesOf, UpToN
    <3> QED BY <3>1, <3>2
  <2> QED BY <2>1, <2>2, <2>3
<1>7. Counted(D, T, U, ins, r2, w2)
  <2> HIDE DEF phis, r1, w1, blk
  <2>1. Counted(D, T, U, ins, r1 \cup InssReadsOf(fn.blk[b], b), w1 \cup InssWritesOf(fn.blk[b], b))
    BY <1>2, <1>5, <1>6, InssCount DEF blk
  <2> QED BY <2>1 DEF blk
<1>8. IsTemp(blk.ja) => read \notin r2 /\ read.t = blk.ja[2] /\ blk.ja[2] \in T /\ Place(read) = Place(u)
  <2>1. read.type = "jmp" /\ read.t = blk.ja[2] /\ Place(read) = Place(u) BY DEF Read, Place, Use
  <2>2. IsTemp(blk.ja) => read \notin reads BY DEF BlockReadsOf, JmpReadsOf
  <2>3. IsTemp(blk.ja) => blk.ja[2] \in T BY DEF BlockFits
  <2> HIDE DEF read, u, blk
  <2> QED BY <2>1, <2>2, <2>3, <1>3, <1>4
<1>9. u \in U BY DEF BlockFits
<1>10. Counted(D, T, U, AddUse(ins, blk.ja, u), r2 \cup (IF IsTemp(blk.ja) THEN {read} ELSE {}), w2)
  <2> HIDE DEF ins, u, r2, w2, read, blk
  <2> QED BY <1>7, <1>8, <1>9, AddUseCounts
<1>11. r2 \cup (IF IsTemp(blk.ja) THEN {read} ELSE {}) = reads \cup BlockReadsOf(blk, b)
       /\ w2 = writes \cup BlockWritesOf(blk, b)
  BY DEF BlockReadsOf, BlockWritesOf, JmpReadsOf
<1> HIDE DEF ins, u, r2, w2, read
<1> QED BY <1>1, <1>10, <1>11

-----------------------------------------------------------------------------
(* The whole function *)

ReadsUpTo(fn, n) == UpToN([m \in 1 .. Len(fn.link) |-> BlockReadsOf(fn.blk[fn.link[m]], fn.link[m])], n)
WritesUpTo(fn, n) == UpToN([m \in 1 .. Len(fn.link) |-> BlockWritesOf(fn.blk[fn.link[m]], fn.link[m])], n)

\* The reads of different blocks are different.
LEMMA BlockReadsAre == \A blk, b, u : u \in BlockReadsOf(blk, b) => u.b = b
<1> SUFFICES ASSUME NEW blk, NEW b, NEW u, u \in BlockReadsOf(blk, b) PROVE u.b = b OBVIOUS
<1>1. CASE u \in PhisReadsOf(blk, b)
  <2>1. \E m \in 1 .. Len(blk.phi) : u \in PhiReadsOf(blk.phi[m], b) BY <1>1 DEF PhisReadsOf, UpToN
  <2> QED BY <2>1, PhiReadsAre
<1>2. CASE u \in InssReadsOf(blk, b)
  <2>1. \E n \in 1 .. Len(blk.ins) : u \in InsReadsOf(blk.ins[n], b, n) BY <1>2 DEF InssReadsOf, UpToN
  <2> QED BY <2>1, InsReadsAre
<1>3. CASE u \in JmpReadsOf(blk, b) BY <1>3 DEF JmpReadsOf, Read
<1> QED BY <1>1, <1>2, <1>3 DEF BlockReadsOf

\* So are the writes.
LEMMA BlockWritesAre == \A blk, b, w : w \in BlockWritesOf(blk, b) => w.b = b
<1> SUFFICES ASSUME NEW blk, NEW b, NEW w, w \in BlockWritesOf(blk, b) PROVE w.b = b OBVIOUS
<1>1. CASE w \in PhisWritesOf(blk, b)
  <2>1. \E m \in 1 .. Len(blk.phi) : w = PhiWriteOf(blk.phi[m], b) BY <1>1 DEF PhisWritesOf, UpToN
  <2> QED BY <2>1 DEF PhiWriteOf
<1>2. CASE w \in InssWritesOf(blk, b)
  <2>1. \E n \in 1 .. Len(blk.ins) : w \in InsWriteOf(blk.ins[n], b, n) BY <1>2 DEF InssWritesOf, UpToN
  <2>2. \A i, n : w \in InsWriteOf(i, b, n) => w.b = b BY DEF InsWriteOf
  <2> QED BY <2>1, <2>2
<1> QED BY <1>1, <1>2 DEF BlockWritesOf

\* All linked blocks are counted.
LEMMA BlocksCount ==
    ASSUME NEW D, NEW T, NEW U, NEW tmp, Counted(D, T, U, tmp, {}, {}), NEW fn, Len(fn.link) \in Nat,
           \A m \in 1 .. Len(fn.link) : BlockFits(fn, T, U, fn.link[m]), \A t \in T : t >= Tmp0,
           \A m, n \in 1 .. Len(fn.link) : fn.link[m] = fn.link[n] => m = n
    PROVE  Counted(D, T, U, BlocksLoop!EachTurn(fn, 0, 0, tmp, fn.link), ReadsUpTo(fn, Len(fn.link)), WritesUpTo(fn, Len(fn.link)))
<1> DEFINE s == fn.link
           rd(m) == BlockReadsOf(fn.blk[s[m]], s[m])
           wr(m) == BlockWritesOf(fn.blk[s[m]], s[m])
           q == [D |-> D, T |-> T, U |-> U, reads |-> {}, writes |-> {},
                 r |-> [m \in 1 .. Len(s) |-> rd(m)], w |-> [m \in 1 .. Len(s) |-> wr(m)]]
<1>1. CountedUpTo(q, 0, tmp) BY CountedStart
<1>2. ASSUME NEW m \in 1 .. Len(s), NEW a, CountedUpTo(q, m - 1, a)
      PROVE  CountedUpTo(q, m, BlockOp(fn, 0, 0, a, s[m]))
  <2> DEFINE r2 == {} \cup UpToN(q.r, m - 1)
             w2 == {} \cup UpToN(q.w, m - 1)
             b == s[m]
  <2>1. Counted(D, T, U, a, r2, w2) BY <1>2 DEF CountedUpTo
  <2>2. \A j \in 1 .. m - 1 : s[j] # b /\ j \in 1 .. Len(s) OBVIOUS
  <2>3. rd(m) \cap r2 = {}
    <3>1. \A j \in 1 .. m - 1 : q.r[j] = BlockReadsOf(fn.blk[s[j]], s[j]) BY <2>2
    <3>2. rd(m) = BlockReadsOf(fn.blk[b], b) OBVIOUS
    <3> HIDE DEF q, s, b, rd
    <3> QED BY <3>1, <3>2, <2>2, BlockReadsAre DEF UpToN
  <2>4. wr(m) \cap w2 = {}
    <3>1. \A j \in 1 .. m - 1 : q.w[j] = BlockWritesOf(fn.blk[s[j]], s[j]) BY <2>2
    <3>2. wr(m) = BlockWritesOf(fn.blk[b], b) OBVIOUS
    <3> HIDE DEF q, s, b, wr
    <3> QED BY <3>1, <3>2, <2>2, BlockWritesAre DEF UpToN
  <2>5. BlockFits(fn, T, U, b) OBVIOUS
  <2>6. Counted(D, T, U, UseBlock(fn, a, b), r2 \cup rd(m), w2 \cup wr(m))
    <3>1. rd(m) = BlockReadsOf(fn.blk[b], b) /\ wr(m) = BlockWritesOf(fn.blk[b], b) OBVIOUS
    <3> HIDE DEF r2, w2, q, b, rd, wr, s
    <3> QED BY <2>1, <2>3, <2>4, <2>5, <3>1, UseBlockCounts
  <2>7. q.r[m] = rd(m) /\ q.w[m] = wr(m) /\ q.reads = {} /\ q.writes = {}
        /\ q.D = D /\ q.T = T /\ q.U = U /\ m \in Nat /\ m # 0
    OBVIOUS
  <2> HIDE DEF q, s, rd, wr
  <2>8. Counted(q.D, q.T, q.U, UseBlock(fn, a, b), (q.reads \cup UpToN(q.r, m - 1)) \cup q.r[m],
                (q.writes \cup UpToN(q.w, m - 1)) \cup q.w[m])
    BY <2>6, <2>7
  <2> HIDE DEF r2, w2
  <2> QED BY <2>7, <2>8, CountedStep DEF BlockOp
<1>3. CountedUpTo(q, Len(s), BlocksLoop!EachTurn(fn, 0, 0, tmp, s))
  <2>1. Len(s) \in Nat OBVIOUS
  <2> HIDE DEF q, s
  <2> QED BY <1>1, <1>2, <2>1, BlocksLoop!EachKeeps
<1>4. q.reads \cup UpToN(q.r, Len(s)) = ReadsUpTo(fn, Len(s)) /\ q.writes \cup UpToN(q.w, Len(s)) = WritesUpTo(fn, Len(s))
      /\ q.D = D /\ q.T = T /\ q.U = U
  BY DEF ReadsUpTo, WritesUpTo
<1> HIDE DEF q
<1> QED BY <1>3, <1>4 DEF CountedUpTo

PhiReadsIn(fn, b) ==
    UNION {{Read(p.from[k][2][2], "phi", b, p.to[2], k, p.from[k][1]) : k \in {j \in DOMAIN p.from : IsTemp(p.from[j][2])}}
             : p \in Range(fn.blk[b].phi)}
InsReadsIn(fn, b) ==
    UNION {{Read(fn.blk[b].ins[n].arg[k][2], "ins", b, n, k, 0) : k \in {j \in {1, 2} : IsTemp(fn.blk[b].ins[n].arg[j])}}
             : n \in DOMAIN fn.blk[b].ins}

\* The places by the loops are the places of the facts.
LEMMA AllReadsUpTo ==
    ASSUME NEW fn, GraphIsShaped(fn), CodeIsShaped(fn)
    PROVE  ReadsUpTo(fn, Len(fn.link)) = AllReads(fn)
<1> DEFINE L == Len(fn.link)
<1>0. fn.link \in Seq(DOMAIN fn.blk) /\ L \in Nat /\ DOMAIN fn.link = 1 .. L BY DEF GraphIsShaped
<1>1. Blocks(fn) = {fn.link[m] : m \in 1 .. L} BY <1>0 DEF Blocks, Range
<1>2. \A u : u \in ReadsUpTo(fn, L) <=> \E b \in Blocks(fn) : u \in BlockReadsOf(fn.blk[b], b)
  BY <1>0, <1>1 DEF ReadsUpTo, UpToN
<1>3. ASSUME NEW b \in Blocks(fn), NEW u
      PROVE  u \in PhisReadsOf(fn.blk[b], b) <=> u \in PhiReadsIn(fn, b)
  <2> DEFINE blk == fn.blk[b]
  <2>1. blk.phi \in Seq(Range(blk.phi)) /\ \A p \in Range(blk.phi) : p.from \in Seq(Range(p.from))
    BY DEF CodeIsShaped, IsSeq
  <2>2. Range(blk.phi) = {blk.phi[m] : m \in 1 .. Len(blk.phi)} BY <2>1 DEF Range
  <2>3. \A p \in Range(blk.phi) : DOMAIN p.from = 1 .. Len(p.from) BY <2>1
  <2>4. u \in PhisReadsOf(blk, b) <=> \E p \in Range(blk.phi) : u \in PhiReadsOf(p, b) BY <2>2 DEF PhisReadsOf, UpToN
  <2>5. \A p : u \in PhiReadsOf(p, b) <=> \E k \in 1 .. Len(p.from) : u \in PhiArgReads(p, b, k)
    BY DEF PhiReadsOf, UpToN
  <2>6. \A p, k : u \in PhiArgReads(p, b, k) <=> IsTemp(p.from[k][2]) /\ u = Read(p.from[k][2][2], "phi", b, p.to[2], k, p.from[k][1])
    BY DEF PhiArgReads
  <2> HIDE DEF blk
  <2>7. \A p \in Range(blk.phi) : u \in PhiReadsOf(p, b)
           <=> u \in {Read(p.from[k][2][2], "phi", b, p.to[2], k, p.from[k][1]) : k \in {j \in DOMAIN p.from : IsTemp(p.from[j][2])}}
    BY <2>3, <2>5, <2>6
  <2>8. u \in PhisReadsOf(blk, b) <=> \E p \in Range(blk.phi) :
           u \in {Read(p.from[k][2][2], "phi", b, p.to[2], k, p.from[k][1]) : k \in {j \in DOMAIN p.from : IsTemp(p.from[j][2])}}
    BY <2>4, <2>7
  <2> QED BY <2>8 DEF blk, PhiReadsIn
<1>4. \A u : u \in PhiReads(fn) <=> \E b \in Blocks(fn) : u \in PhisReadsOf(fn.blk[b], b)
  <2>1. \A u : u \in PhiReads(fn) <=> \E b \in Blocks(fn) : u \in PhiReadsIn(fn, b) BY DEF PhiReads, PhiReadsIn
  <2> QED BY <2>1, <1>3
<1>5. ASSUME NEW b \in Blocks(fn), NEW u
      PROVE  u \in InssReadsOf(fn.blk[b], b) <=> u \in InsReadsIn(fn, b)
  <2> DEFINE ins == fn.blk[b].ins
  <2>1. ins \in Seq(Range(ins)) /\ \A i \in Range(ins) : Len(i.arg) = 2 BY DEF CodeIsShaped, IsSeq
  <2>2. DOMAIN ins = 1 .. Len(ins) /\ \A n \in 1 .. Len(ins) : Len(ins[n].arg) = 2 BY <2>1 DEF Range
  <2>3. u \in InssReadsOf(fn.blk[b], b) <=> \E n \in DOMAIN ins : u \in InsReadsOf(ins[n], b, n)
    BY <2>2 DEF InssReadsOf, UpToN
  <2>4. \A n \in DOMAIN ins : u \in InsReadsOf(ins[n], b, n) <=> \E k \in {1, 2} : u \in InsArgReads(ins[n], b, n, k)
    <3> SUFFICES ASSUME NEW n \in DOMAIN ins
                 PROVE  u \in InsReadsOf(ins[n], b, n) <=> \E k \in {1, 2} : u \in InsArgReads(ins[n], b, n, k) OBVIOUS
    <3>1. u \in InsReadsOf(ins[n], b, n) <=> \E k \in 1 .. Len(ins[n].arg) : u \in InsArgReads(ins[n], b, n, k)
      BY DEF InsReadsOf, UpToN
    <3>2. Len(ins[n].arg) = 2 BY <2>2
    <3>3. \A k : k \in 1 .. 2 <=> k \in {1, 2} OBVIOUS
    <3> QED BY <3>1, <3>2, <3>3
  <2>5. \A n, k : u \in InsArgReads(ins[n], b, n, k) <=> IsTemp(ins[n].arg[k]) /\ u = Read(ins[n].arg[k][2], "ins", b, n, k, 0)
    BY DEF InsArgReads
  <2>6. \A n \in DOMAIN ins : u \in InsReadsOf(ins[n], b, n)
           <=> u \in {Read(ins[n].arg[k][2], "ins", b, n, k, 0) : k \in {j \in {1, 2} : IsTemp(ins[n].arg[j])}}
    BY <2>4, <2>5
  <2> QED BY <2>3, <2>6 DEF InsReadsIn
<1>6. \A u : u \in InsReads(fn) <=> \E b \in Blocks(fn) : u \in InssReadsOf(fn.blk[b], b)
  <2>1. \A u : u \in InsReads(fn) <=> \E b \in Blocks(fn) : u \in InsReadsIn(fn, b) BY DEF InsReads, InsReadsIn
  <2> QED BY <2>1, <1>5
<1>7. \A u : u \in JmpReads(fn) <=> \E b \in Blocks(fn) : u \in JmpReadsOf(fn.blk[b], b)
  BY DEF JmpReads, JmpReadsOf
<1>8. \A u : u \in AllReads(fn) <=> \E b \in Blocks(fn) : u \in BlockReadsOf(fn.blk[b], b)
  BY <1>4, <1>6, <1>7 DEF AllReads, BlockReadsOf
<1> QED BY <1>2, <1>8

\* The writes by the loops are the writes of the facts.
LEMMA AllWritesUpTo ==
    ASSUME NEW fn, GraphIsShaped(fn), CodeIsShaped(fn)
    PROVE  WritesUpTo(fn, Len(fn.link)) = Writes(fn)
<1> DEFINE L == Len(fn.link)
           phis(b) == {[t |-> p.to[2], b |-> b, n |-> 0] : p \in {q \in Range(fn.blk[b].phi) : IsTemp(q.to)}}
           inss(b) == {[t |-> fn.blk[b].ins[n].to[2], b |-> b, n |-> n] :
                         n \in {m \in DOMAIN fn.blk[b].ins : IsTemp(fn.blk[b].ins[m].to)}}
<1>0. fn.link \in Seq(DOMAIN fn.blk) /\ L \in Nat /\ DOMAIN fn.link = 1 .. L BY DEF GraphIsShaped
<1>1. Blocks(fn) = {fn.link[m] : m \in 1 .. L} BY <1>0 DEF Blocks, Range
<1>2. \A w : w \in WritesUpTo(fn, L) <=> \E b \in Blocks(fn) : w \in BlockWritesOf(fn.blk[b], b)
  BY <1>0, <1>1 DEF WritesUpTo, UpToN
<1>3. ASSUME NEW b \in Blocks(fn), NEW w PROVE w \in PhisWritesOf(fn.blk[b], b) <=> w \in phis(b)
  <2> DEFINE blk == fn.blk[b]
  <2>1. blk.phi \in Seq(Range(blk.phi)) /\ \A p \in Range(blk.phi) : IsTemp(p.to) BY DEF CodeIsShaped, IsSeq
  <2>2. Range(blk.phi) = {blk.phi[m] : m \in 1 .. Len(blk.phi)} BY <2>1 DEF Range
  <2>4. w \in PhisWritesOf(blk, b) <=> \E m \in 1 .. Len(blk.phi) : w = PhiWriteOf(blk.phi[m], b)
    BY DEF PhisWritesOf, UpToN
  <2>3. w \in PhisWritesOf(blk, b) <=> \E p \in Range(blk.phi) : w = PhiWriteOf(p, b) BY <2>2, <2>4
  <2> QED BY <2>1, <2>3 DEF PhiWriteOf
<1>4. ASSUME NEW b \in Blocks(fn), NEW w PROVE w \in InssWritesOf(fn.blk[b], b) <=> w \in inss(b)
  <2> DEFINE ins == fn.blk[b].ins
  <2>1. ins \in Seq(Range(ins)) BY DEF CodeIsShaped, IsSeq
  <2>2. DOMAIN ins = 1 .. Len(ins) BY <2>1
  <2>3. w \in InssWritesOf(fn.blk[b], b) <=> \E n \in DOMAIN ins : w \in InsWriteOf(ins[n], b, n)
    BY <2>2 DEF InssWritesOf, UpToN
  <2> QED BY <2>3 DEF InsWriteOf
<1>5. \A w : w \in Writes(fn) <=> \E b \in Blocks(fn) : w \in phis(b) \/ w \in inss(b) BY DEF Writes
<1> HIDE DEF phis, inss
<1> QED BY <1>2, <1>3, <1>4, <1>5 DEF BlockWritesOf

\* Every block fits, for the temporaries of the function.
FnUses(fn) == UseRecords(DOMAIN fn.blk, {fn.id[b] : b \in DOMAIN fn.blk})

LEMMA BlocksFit ==
    ASSUME NEW fn, GraphIsShaped(fn), CodeIsShaped(fn), NEW b \in Blocks(fn)
    PROVE  BlockFits(fn, TmpSet(fn), FnUses(fn), b)
<1> DEFINE blk == fn.blk[b]
           T == TmpSet(fn)
<1>0. b \in DOMAIN fn.blk BY DEF GraphIsShaped, Blocks, Range
<1>1. /\ blk.phi \in Seq(Range(blk.phi)) /\ blk.ins \in Seq(Range(blk.ins))
      /\ \A p \in Range(blk.phi) : p.from \in Seq(Range(p.from)) /\ IsTemp(p.to)
      /\ \A m, n \in DOMAIN blk.phi : blk.phi[m].to[2] = blk.phi[n].to[2] => m = n
      /\ \A i \in Range(blk.ins) : i.arg \in Seq(Range(i.arg)) /\ Len(i.arg) = 2 /\ i.to[1] = "tmp"
  BY DEF CodeIsShaped, IsSeq
<1>2. /\ DOMAIN blk.phi = 1 .. Len(blk.phi) /\ Len(blk.phi) \in Nat
      /\ DOMAIN blk.ins = 1 .. Len(blk.ins) /\ Len(blk.ins) \in Nat BY <1>1
<1>3. \A u \in AllReads(fn) : u.t \in T BY DEF CodeIsShaped
<1>4. \A ty \in {"phi", "ins", "jmp"}, at \in Int : Use(ty, fn.id[b], b, at) \in FnUses(fn)
  BY <1>0 DEF Use, FnUses, UseRecords
<1>5. \A u \in BlockReadsOf(blk, b) : u.t \in T
  <2>1. BlockReadsOf(blk, b) \subseteq ReadsUpTo(fn, Len(fn.link))
    <3>1. fn.link \in Seq(DOMAIN fn.blk) BY DEF GraphIsShaped
    <3>2. PICK m \in 1 .. Len(fn.link) : fn.link[m] = b BY <3>1 DEF Blocks, Range
    <3> QED BY <3>2 DEF ReadsUpTo, UpToN
  <2> QED BY <2>1, <1>3, AllReadsUpTo
<1>6. ASSUME NEW m \in 1 .. Len(blk.phi)
      PROVE  /\ Len(blk.phi[m].from) \in Nat /\ Use("phi", fn.id[b], b, blk.phi[m].to[2]) \in FnUses(fn)
             /\ \A k \in 1 .. Len(blk.phi[m].from) : IsTemp(blk.phi[m].from[k][2]) => blk.phi[m].from[k][2][2] \in T
  <2> DEFINE p == blk.phi[m]
  <2>1. p \in Range(blk.phi) BY <1>2 DEF Range
  <2>2. Len(p.from) \in Nat /\ IsTemp(p.to) BY <1>1, <2>1
  <2>3. p.to[2] \in T
    <3> DEFINE w == [t |-> p.to[2], b |-> b, n |-> 0]
    <3>1. w \in {[t |-> x.to[2], b |-> b, n |-> 0] : x \in {y \in Range(fn.blk[b].phi) : IsTemp(y.to)}} BY <2>1, <2>2
    <3>2. w.t = p.to[2] OBVIOUS
    <3> HIDE DEF w
    <3>3. w \in Writes(fn) BY <3>1 DEF Writes
    <3> QED BY <3>2, <3>3 DEF CodeIsShaped
  <2>4. p.to[2] \in Int BY <2>3 DEF TmpSet
  <2>5. ASSUME NEW k \in 1 .. Len(p.from), IsTemp(p.from[k][2]) PROVE p.from[k][2][2] \in T
    <3> DEFINE u == Read(p.from[k][2][2], "phi", b, p.to[2], k, p.from[k][1])
    <3>1. u \in PhiArgReads(p, b, k) BY <2>5 DEF PhiArgReads
    <3>4. u \in PhiReadsOf(p, b) BY <3>1 DEF PhiReadsOf, UpToN
    <3>5. u \in PhisReadsOf(blk, b) BY <3>4 DEF PhisReadsOf, UpToN
    <3>2. u \in BlockReadsOf(blk, b) BY <3>5 DEF BlockReadsOf
    <3>3. u.t = p.from[k][2][2] BY DEF Read
    <3> HIDE DEF u
    <3> QED BY <3>2, <3>3, <1>5
  <2> QED BY <2>2, <2>4, <2>5, <1>4
<1>7. \A m, j \in 1 .. Len(blk.phi) : blk.phi[m].to[2] = blk.phi[j].to[2] => m = j
  BY <1>1, <1>2
<1>8. ASSUME NEW n \in 1 .. Len(blk.ins)
      PROVE  /\ Len(blk.ins[n].arg) \in Nat /\ Use("ins", fn.id[b], b, n) \in FnUses(fn) /\ blk.ins[n].to[1] = "tmp"
             /\ \A k \in 1 .. Len(blk.ins[n].arg) : IsTemp(blk.ins[n].arg[k]) => blk.ins[n].arg[k][2] \in T
  <2> DEFINE i == blk.ins[n]
  <2>1. i \in Range(blk.ins) BY <1>2 DEF Range
  <2>2. Len(i.arg) = 2 /\ i.to[1] = "tmp" BY <1>1, <2>1
  <2>3. ASSUME NEW k \in 1 .. Len(i.arg), IsTemp(i.arg[k]) PROVE i.arg[k][2] \in T
    <3> DEFINE u == Read(i.arg[k][2], "ins", b, n, k, 0)
    <3>1. u \in InsArgReads(i, b, n, k) BY <2>3 DEF InsArgReads
    <3>4. u \in InsReadsOf(i, b, n) BY <3>1 DEF InsReadsOf, UpToN
    <3>5. u \in InssReadsOf(blk, b) BY <3>4 DEF InssReadsOf, UpToN
    <3>2. u \in BlockReadsOf(blk, b) BY <3>5 DEF BlockReadsOf
    <3>3. u.t = i.arg[k][2] BY DEF Read
    <3> HIDE DEF u
    <3> QED BY <3>2, <3>3, <1>5
  <2>4. Use("ins", fn.id[b], b, n) \in FnUses(fn) BY <1>4
  <2> QED BY <2>2, <2>3, <2>4
<1>9. Use("jmp", fn.id[b], b, 0) \in FnUses(fn) /\ (IsTemp(blk.ja) => blk.ja[2] \in T)
  <2>1. Use("jmp", fn.id[b], b, 0) \in FnUses(fn) BY <1>4
  <2>2. ASSUME IsTemp(blk.ja) PROVE blk.ja[2] \in T
    <3> DEFINE u == Read(blk.ja[2], "jmp", b, 0, 1, 0)
    <3>1. u \in BlockReadsOf(blk, b) BY <2>2 DEF JmpReadsOf, BlockReadsOf
    <3>2. u.t = blk.ja[2] BY DEF Read
    <3> HIDE DEF u
    <3> QED BY <3>1, <3>2, <1>5
  <2> QED BY <2>1, <2>2
<1> HIDE DEF T
<1> QED BY <1>2, <1>6, <1>7, <1>8, <1>9 DEF BlockFits, T

\* filluse, for every function of the right shape: it counts each definition and each
\* use once, and the list of a temporary names exactly the places that read it.
THEOREM FillUseIsRight ==
    ASSUME NEW fn, GraphIsShaped(fn), CodeIsShaped(fn)
    PROVE  /\ CountsAreRight(FillUse(fn)) /\ UsesAreRight(FillUse(fn))
           /\ FillUse(fn) = [fn EXCEPT !.tmp = FillUse(fn).tmp] /\ DOMAIN FillUse(fn).tmp = DOMAIN fn.tmp
           /\ \A t \in TmpSet(fn) : {"use", "nuse", "ndef"} \subseteq DOMAIN FillUse(fn).tmp[t]
<1> DEFINE D == DOMAIN fn.tmp
           T == TmpSet(fn)
           U == FnUses(fn)
           clear == [t \in DOMAIN fn.tmp |->
             IF t < Tmp0 THEN fn.tmp[t]
             ELSE [fn.tmp[t] EXCEPT !.def = <<>>, !.bid = -1, !.ndef = 0, !.nuse = 0, !.cls = "w", !.phi = 0,
                                    !.width = "full", !.use = <<>>]]
           tmp == BlocksLoop!EachTurn(fn, 0, 0, clear, fn.link)
           g == FillUse(fn)
<1>1. g = [fn EXCEPT !.tmp = tmp]
  BY DEF FillUse, BlocksLoop!EachTurn, BlocksLoop!Each, Each, BlocksLoop!With, With, BlockOp
<1>2. \A t \in T : t >= Tmp0 /\ t \in D /\ {"use", "nuse", "ndef"} \subseteq DOMAIN fn.tmp[t]
  BY DEF TmpSet, CodeIsShaped
<1>3. Counted(D, T, U, clear, {}, {})
  <2>1. T \subseteq D /\ DOMAIN clear = D BY <1>2
  <2>2. \A t \in T : ~ (t < Tmp0) BY TargetAssumption DEF TmpSet
  <2>3. \A t \in T : /\ {"use", "nuse", "ndef"} \subseteq DOMAIN clear[t]
                     /\ clear[t].use = <<>> /\ clear[t].nuse = 0 /\ clear[t].ndef = 0
    BY <1>2, <2>2
  <2>4. \A t : OfTmp({}, t) = {} BY DEF OfTmp
  <2>5. Cardinality({}) = 0 /\ IsFiniteSet({}) BY FS_EmptySet
  <2>6. Range(<<>>) = {} /\ Places({}) = {} /\ <<>> \in Seq(U) BY DEF Range, Places
  <2> HIDE DEF clear, D, T, U
  <2> QED BY <2>1, <2>3, <2>4, <2>5, <2>6 DEF Counted
<1>4. /\ Len(fn.link) \in Nat /\ DOMAIN fn.link = 1 .. Len(fn.link)
      /\ \A m, n \in 1 .. Len(fn.link) : fn.link[m] = fn.link[n] => m = n
  BY DEF GraphIsShaped
<1>5. \A m \in 1 .. Len(fn.link) : BlockFits(fn, T, U, fn.link[m])
  <2>1. \A m \in 1 .. Len(fn.link) : fn.link[m] \in Blocks(fn) BY <1>4 DEF Blocks, Range
  <2> QED BY <2>1, BlocksFit
<1>6. Counted(D, T, U, tmp, AllReads(fn), Writes(fn))
  <2> HIDE DEF clear, D, T, U
  <2>1. Counted(D, T, U, tmp, ReadsUpTo(fn, Len(fn.link)), WritesUpTo(fn, Len(fn.link)))
    BY <1>2, <1>3, <1>4, <1>5, BlocksCount
  <2> QED BY <2>1, AllReadsUpTo, AllWritesUpTo
<1> HIDE DEF tmp, g
<1>7. g.tmp = tmp /\ g.blk = fn.blk /\ g.link = fn.link /\ DOMAIN g.tmp = D
  <2>1. DOMAIN tmp = D BY <1>6 DEF Counted
  <2>2. {"link", "blk", "tmp"} \subseteq DOMAIN fn BY DEF GraphIsShaped
  <2> QED BY <1>1, <2>1, <2>2
<1>8. TmpSet(g) = T BY <1>7 DEF TmpSet, NTmp
<1>9. AllReads(g) = AllReads(fn) /\ Writes(g) = Writes(fn)
  BY <1>7 DEF AllReads, PhiReads, InsReads, JmpReads, Writes, Blocks
<1>10. \A t \in T : /\ g.tmp[t].nuse = Cardinality(OfTmp(AllReads(g), t))
                    /\ g.tmp[t].ndef = Cardinality(OfTmp(Writes(g), t))
                    /\ Places(Range(g.tmp[t].use)) = Places(OfTmp(AllReads(g), t))
  BY <1>6, <1>7, <1>9 DEF Counted
<1>11. CountsAreRight(g)
  <2>1. \A t \in T : /\ g.tmp[t].nuse = Cardinality({u \in AllReads(g) : u.t = t})
                     /\ g.tmp[t].ndef = Cardinality({w \in Writes(g) : w.t = t}) BY <1>10 DEF OfTmp
  <2> QED BY <1>8, <2>1 DEF CountsAreRight, With
<1>12. UsesAreRight(g) BY <1>8, <1>10 DEF UsesAreRight, With, OfTmp, Places, Place
<1>13. \A t \in T : {"use", "nuse", "ndef"} \subseteq DOMAIN g.tmp[t] BY <1>6, <1>7 DEF Counted
<1> QED BY <1>1, <1>7, <1>11, <1>12, <1>13 DEF g

-----------------------------------------------------------------------------
(* Sequences the walk takes apart *)

\* A sequence without its last element.
LEMMA FrontFacts ==
    ASSUME NEW A, NEW s \in Seq(A), s # <<>>
    PROVE  /\ Front(s) \in Seq(A) /\ Len(Front(s)) = Len(s) - 1 /\ Len(s) \in Nat /\ Len(s) >= 1
           /\ s[Len(s)] \in A /\ s[Len(s)] \in Range(s)
           /\ \A n \in 1 .. Len(s) - 1 : Front(s)[n] = s[n]
           /\ Range(s) = Range(Front(s)) \cup {s[Len(s)]}
           /\ Distinct(s) => Distinct(Front(s)) /\ s[Len(s)] \notin Range(Front(s))
<1> DEFINE t == Front(s)
           m == Len(s)
<1>1. m \in Nat /\ DOMAIN s = 1 .. m /\ m >= 1 /\ s[m] \in A OBVIOUS
<1>2. t = [i \in 1 .. m - 1 |-> s[i]]
  <2>1. t = SubSeq(s, 1, m - 1) BY DEF Front
  <2> QED BY <2>1, <1>1
<1>3. t \in Seq(A) /\ Len(t) = m - 1 /\ DOMAIN t = 1 .. m - 1 BY <1>1, <1>2
<1>4. \A n \in 1 .. m - 1 : t[n] = s[n] BY <1>2
<1> HIDE DEF t, m
<1>5. \A n \in 1 .. m : n \in 1 .. m - 1 \/ n = m BY <1>1
<1>6. \A n \in 1 .. m - 1 : n \in 1 .. m /\ n # m BY <1>1
<1>7. m \in 1 .. m BY <1>1
<1>8. Range(s) = Range(t) \cup {s[m]} BY <1>1, <1>3, <1>4, <1>5, <1>6, <1>7 DEF Range
<1>9. Distinct(s) => Distinct(t) /\ s[m] \notin Range(t) BY <1>1, <1>3, <1>4, <1>6, <1>7 DEF Range, Distinct
<1> QED BY <1>1, <1>3, <1>4, <1>8, <1>9 DEF t, m

-----------------------------------------------------------------------------
(* The depth-first walk *)

\* c is finished before s, or both are on the path and s is the outer one.
Below(po, c, s) ==
    \/ \E j, k \in DOMAIN po.order : po.order[j] = c /\ po.order[k] = s /\ j <= k
    \/ s \in Range(po.path) /\ c \in Range(po.order)
    \/ \E j, k \in DOMAIN po.path : po.path[j] = s /\ po.path[k] = c /\ j <= k
\* A path leads from s to b through blocks below s.
LeadsBack(fn, po, s, b) ==
    \A T : s \in T /\ (\A c \in T : \A d \in SuccSet(fn, c) : Below(po, d, s) => d \in T) => b \in T

WalkTypes(fn, po) ==
    /\ po = [next |-> po.next, path |-> po.path, order |-> po.order]
    /\ po.next \in [DOMAIN fn.blk -> 0 .. 4] /\ po.path \in Seq(Blocks(fn)) /\ po.order \in Seq(Blocks(fn))
WalkNumbers(fn, po) ==
    /\ Distinct(po.path) /\ Distinct(po.order)
    /\ \A b \in DOMAIN fn.blk : (po.next[b] = 4 <=> b \in Range(po.order)) /\ (po.next[b] \in 1 .. 3 <=> b \in Range(po.path))
WalkEnds(fn, po) ==
    IF po.path = <<>> THEN po.order # <<>> /\ po.order[Len(po.order)] = Start(fn) ELSE po.path[1] = Start(fn)
WalkPath(fn, po) == \A i \in 1 .. Len(po.path) - 1 : po.path[i + 1] \in SuccSet(fn, po.path[i])
WalkSeen(fn, po) ==
    \A b \in Blocks(fn) : \A j \in 1 .. 2 :
      j < po.next[b] => Visited(fn, b)[j] = 0 \/ (Visited(fn, b)[j] \in Blocks(fn) /\ po.next[Visited(fn, b)[j]] # 0)
WalkEdges(fn, po) ==
    \A n \in DOMAIN po.order : \A s \in SuccSet(fn, po.order[n]) :
      (\E m \in DOMAIN po.order : po.order[m] = s /\ m < n) \/ LeadsBack(fn, po, s, po.order[n])
WalkPreds(fn, po) ==
    \A b \in Range(po.order) \ {Start(fn)} : \E p \in Blocks(fn) : b \in SuccSet(fn, p) /\ Below(po, b, p) /\ p # b
WalkReaches(fn, po) == Range(po.path) \cup Range(po.order) \subseteq PathsFrom(fn, Start(fn), {})
WalkIs(fn, po) ==
    /\ WalkTypes(fn, po) /\ WalkNumbers(fn, po) /\ WalkEnds(fn, po) /\ WalkPath(fn, po)
    /\ WalkSeen(fn, po) /\ WalkEdges(fn, po) /\ WalkPreds(fn, po) /\ WalkReaches(fn, po)

\* The first block is linked.
LEMMA StartIsBlock ==
    ASSUME NEW fn, GraphIsShaped(fn)
    PROVE  Start(fn) \in Blocks(fn) /\ Start(fn) \in DOMAIN fn.blk /\ Start(fn) # 0 /\ Blocks(fn) \subseteq DOMAIN fn.blk
<1>1. Start(fn) \in Blocks(fn)
  <2>1. fn.link \in Seq(DOMAIN fn.blk) /\ fn.link # <<>> BY DEF GraphIsShaped
  <2>2. 1 \in DOMAIN fn.link BY <2>1
  <2> QED BY <2>2 DEF Start, Blocks, Range
<1> QED BY <1>1, SuccsAreBlocks DEF GraphIsShaped

\* porec visits the successors of the block.
LEMMA VisitedIs ==
    ASSUME NEW fn, NEW b
    PROVE  SuccSet(fn, b) = {Visited(fn, b)[1], Visited(fn, b)[2]} \ {0}
<1>1. \/ Visited(fn, b) = <<fn.blk[b].s2, fn.blk[b].s1>>
      \/ Visited(fn, b) = <<fn.blk[b].s1, fn.blk[b].s2>> BY DEF Visited
<1>2. {Visited(fn, b)[1], Visited(fn, b)[2]} = {fn.blk[b].s1, fn.blk[b].s2} BY <1>1
<1> QED BY <1>2, SuccSetIs

\* A walk where more is finished: what is below stays below.
LEMMA LeadsBackGrows ==
    ASSUME NEW fn, NEW po, NEW po2, NEW s, NEW b, LeadsBack(fn, po, s, b),
           \A d : Below(po, d, s) => Below(po2, d, s)
    PROVE  LeadsBack(fn, po2, s, b)
BY DEF LeadsBack

\* What is below a block was visited.
LEMMA BelowIsSeen ==
    ASSUME NEW po, NEW c, NEW s, Below(po, c, s)
    PROVE  {c, s} \subseteq Range(po.path) \cup Range(po.order)
BY DEF Below, Range

\* The path itself leads from each of its blocks to the last one.
LEMMA PathLeadsBack ==
    ASSUME NEW fn, NEW po, WalkTypes(fn, po), WalkPath(fn, po), NEW k \in 1 .. Len(po.path)
    PROVE  LeadsBack(fn, po, po.path[k], po.path[Len(po.path)])
<1> DEFINE m == Len(po.path)
<1>1. m \in Nat /\ DOMAIN po.path = 1 .. m /\ k \in Nat /\ k <= m BY DEF WalkTypes
<1>2. SUFFICES ASSUME NEW T, po.path[k] \in T, \A c \in T : \A d \in SuccSet(fn, c) : Below(po, d, po.path[k]) => d \in T
               PROVE  po.path[m] \in T
  BY DEF LeadsBack
<1> DEFINE S == {i \in Nat : k + i <= m => po.path[k + i] \in T}
<1>3. 0 \in S BY <1>1, <1>2
<1>4. ASSUME NEW i \in Nat, i \in S PROVE i + 1 \in S
  <2>1. ASSUME k + (i + 1) <= m PROVE po.path[k + (i + 1)] \in T
    <3>1. po.path[k + i] \in T /\ k + i \in 1 .. m - 1 /\ k + i + 1 = k + (i + 1) BY <1>1, <1>4, <2>1
    <3>2. po.path[k + (i + 1)] \in SuccSet(fn, po.path[k + i]) BY <3>1 DEF WalkPath
    <3>3. k + (i + 1) \in 1 .. m /\ k <= k + (i + 1) BY <1>1, <2>1
    <3>4. Below(po, po.path[k + (i + 1)], po.path[k]) BY <3>3, <1>1 DEF Below
    <3> QED BY <3>1, <3>2, <3>4, <1>2
  <2> QED BY <2>1
<1>5. Nat \subseteq S BY <1>3, <1>4, PathLoop!Induction
<1>6. m - k \in Nat /\ k + (m - k) = m BY <1>1
<1>7. m - k \in S BY <1>5, <1>6
<1> QED BY <1>7, <1>6

\* porec finds a successor missing or visited before.
LEMMA WalkSkips ==
    ASSUME NEW fn, GraphIsShaped(fn), NEW po, WalkIs(fn, po), NEW b, b \in Range(po.path), NEW k \in 1 .. 2, po.next[b] = k,
           Visited(fn, b)[k] = 0 \/ (Visited(fn, b)[k] \in Blocks(fn) /\ po.next[Visited(fn, b)[k]] # 0),
           NEW po2, po2 = [po EXCEPT !.next[b] = k + 1]
    PROVE  WalkIs(fn, po2)
<1>1. b \in Blocks(fn) /\ b \in DOMAIN fn.blk /\ Blocks(fn) \subseteq DOMAIN fn.blk
  <2>1. Range(po.path) \subseteq Blocks(fn) BY SeqFacts DEF WalkIs, WalkTypes
  <2> QED BY <2>1, StartIsBlock
<1>2. po2.next = [po.next EXCEPT ![b] = k + 1] /\ po2.path = po.path /\ po2.order = po.order
      /\ po2 = [next |-> po2.next, path |-> po2.path, order |-> po2.order]
  BY DEF WalkIs, WalkTypes
<1>3. po.next \in [DOMAIN fn.blk -> 0 .. 4] BY DEF WalkIs, WalkTypes
<1>4. po2.next \in [DOMAIN fn.blk -> 0 .. 4]
      /\ \A c \in DOMAIN fn.blk : po2.next[c] = IF c = b THEN k + 1 ELSE po.next[c]
  BY <1>1, <1>2, <1>3
<1>5. WalkTypes(fn, po2) BY <1>2, <1>4 DEF WalkIs, WalkTypes
<1>6. WalkNumbers(fn, po2)
  <2>1. Distinct(po.path) /\ Distinct(po.order) BY DEF WalkIs, WalkNumbers
  <2>2. ASSUME NEW c \in DOMAIN fn.blk
        PROVE  (po2.next[c] = 4 <=> c \in Range(po.order)) /\ (po2.next[c] \in 1 .. 3 <=> c \in Range(po.path))
    <3>1. (po.next[c] = 4 <=> c \in Range(po.order)) /\ (po.next[c] \in 1 .. 3 <=> c \in Range(po.path))
      BY DEF WalkIs, WalkNumbers
    <3>2. k + 1 \in 1 .. 3 /\ k + 1 # 4 /\ k \in 1 .. 3 /\ k # 4 OBVIOUS
    <3>3. CASE c = b BY <3>1, <3>2, <3>3, <1>4
    <3>4. CASE c # b BY <3>1, <3>4, <1>4
    <3> QED BY <3>3, <3>4
  <2> QED BY <1>2, <2>1, <2>2 DEF WalkNumbers
<1>7. WalkEnds(fn, po2) /\ WalkPath(fn, po2) /\ WalkReaches(fn, po2)
  BY <1>2 DEF WalkIs, WalkEnds, WalkPath, WalkReaches
<1>8. WalkSeen(fn, po2)
  <2>1. \A c \in Blocks(fn) : po.next[c] # 0 => po2.next[c] # 0 BY <1>1, <1>4
  <2>2. ASSUME NEW c \in Blocks(fn), NEW j \in 1 .. 2, j < po2.next[c]
        PROVE  Visited(fn, c)[j] = 0 \/ (Visited(fn, c)[j] \in Blocks(fn) /\ po.next[Visited(fn, c)[j]] # 0)
    <3>1. CASE c = b /\ j = k BY <3>1
    <3>2. CASE ~ (c = b /\ j = k)
      <4>1. po.next[c] \in Int BY <1>1, <1>3
      <4>2. j < po.next[c] BY <3>2, <4>1, <2>2, <1>1, <1>4
      <4> QED BY <4>2 DEF WalkIs, WalkSeen
    <3> QED BY <3>1, <3>2
  <2> QED BY <2>1, <2>2 DEF WalkSeen
<1>9. \A c, d : Below(po, c, d) <=> Below(po2, c, d) BY <1>2 DEF Below
<1>10. WalkEdges(fn, po2)
  <2>1. \A d, c : LeadsBack(fn, po, d, c) => LeadsBack(fn, po2, d, c) BY <1>9, LeadsBackGrows
  <2> QED BY <1>2, <2>1 DEF WalkIs, WalkEdges
<1>11. WalkPreds(fn, po2) BY <1>2, <1>9 DEF WalkIs, WalkPreds
<1> QED BY <1>5, <1>6, <1>7, <1>8, <1>10, <1>11 DEF WalkIs

\* Two entries of next change.
LEMMA TwoUpdates ==
    ASSUME NEW D, NEW f \in [D -> 0 .. 4], NEW b \in D, NEW s \in D, NEW k \in 0 .. 4,
           NEW g, g = [f EXCEPT ![b] = k, ![s] = 1]
    PROVE  g \in [D -> 0 .. 4] /\ \A c \in D : g[c] = IF c = s THEN 1 ELSE IF c = b THEN k ELSE f[c]
<1> DEFINE h == [f EXCEPT ![b] = k]
<1>1. h \in [D -> 0 .. 4] /\ \A c \in D : h[c] = IF c = b THEN k ELSE f[c] OBVIOUS
<1>2. g = [h EXCEPT ![s] = 1] /\ 1 \in 0 .. 4 OBVIOUS
<1> HIDE DEF h
<1>3. g \in [D -> 0 .. 4] BY <1>1, <1>2
<1>4. ASSUME NEW c \in D PROVE g[c] = IF c = s THEN 1 ELSE h[c] BY <1>1, <1>2
<1> QED BY <1>1, <1>3, <1>4

\* porec enters a successor.
LEMMA WalkEnters ==
    ASSUME NEW fn, GraphIsShaped(fn), NEW po, WalkIs(fn, po), po.path # <<>>, NEW b, b = po.path[Len(po.path)],
           NEW k \in 1 .. 2, po.next[b] = k,
           NEW s, s = Visited(fn, b)[k], s # 0, po.next[s] = 0,
           NEW po2, po2 = [po EXCEPT !.next = [@ EXCEPT ![b] = k + 1, ![s] = 1], !.path = Append(@, s)]
    PROVE  WalkIs(fn, po2)
<1> DEFINE m == Len(po.path)
<1>1. po.path \in Seq(Blocks(fn)) /\ po.order \in Seq(Blocks(fn)) /\ po.next \in [DOMAIN fn.blk -> 0 .. 4]
      /\ Blocks(fn) \subseteq DOMAIN fn.blk
  BY StartIsBlock DEF WalkIs, WalkTypes
<1>2. b \in Blocks(fn) /\ b \in Range(po.path) /\ m \in Nat /\ m >= 1 BY <1>1, FrontFacts
<1>3. s \in SuccSet(fn, b) BY VisitedIs
<1>4. s \in Blocks(fn) BY <1>2, <1>3, SuccsAreBlocks
<1>5. s # b OBVIOUS
<1>6. po2.next = [po.next EXCEPT ![b] = k + 1, ![s] = 1] /\ po2.path = Append(po.path, s) /\ po2.order = po.order
      /\ po2 = [next |-> po2.next, path |-> po2.path, order |-> po2.order]
  BY DEF WalkIs, WalkTypes
<1>7. po2.next \in [DOMAIN fn.blk -> 0 .. 4]
      /\ \A c \in DOMAIN fn.blk : po2.next[c] = IF c = s THEN 1 ELSE IF c = b THEN k + 1 ELSE po.next[c]
  <2>1. b \in DOMAIN fn.blk /\ s \in DOMAIN fn.blk /\ k + 1 \in 0 .. 4 BY <1>1, <1>2, <1>4
  <2> QED BY <2>1, <1>1, <1>6, TwoUpdates
<1>8. /\ po2.path \in Seq(Blocks(fn)) /\ Len(po2.path) = m + 1
      /\ \A n \in 1 .. m : po2.path[n] = po.path[n]
      /\ po2.path[m + 1] = s
      /\ Range(po2.path) = Range(po.path) \cup {s}
      /\ Distinct(po.path) /\ s \notin Range(po.path) => Distinct(po2.path)
  BY <1>1, <1>4, <1>6, AppendFacts
<1>9. WalkTypes(fn, po2) BY <1>1, <1>6, <1>7, <1>8 DEF WalkTypes
<1>10. s \notin Range(po.path) /\ s \notin Range(po.order)
  <2>1. s \in DOMAIN fn.blk BY <1>1, <1>4
  <2>2. (po.next[s] = 4 <=> s \in Range(po.order)) /\ (po.next[s] \in 1 .. 3 <=> s \in Range(po.path))
    BY <2>1 DEF WalkIs, WalkNumbers
  <2> QED BY <2>2
<1>11. WalkNumbers(fn, po2)
  <2>1. Distinct(po.path) /\ Distinct(po.order) BY DEF WalkIs, WalkNumbers
  <2>2. ASSUME NEW c \in DOMAIN fn.blk
        PROVE  (po2.next[c] = 4 <=> c \in Range(po.order)) /\ (po2.next[c] \in 1 .. 3 <=> c \in Range(po2.path))
    <3>1. (po.next[c] = 4 <=> c \in Range(po.order)) /\ (po.next[c] \in 1 .. 3 <=> c \in Range(po.path))
      BY DEF WalkIs, WalkNumbers
    <3>2. k + 1 \in 1 .. 3 /\ k + 1 # 4 /\ k \in 1 .. 3 /\ k # 4 /\ 1 \in 1 .. 3 /\ 1 # 4 OBVIOUS
    <3>3. CASE c = b BY <3>1, <3>2, <3>3, <1>5, <1>7, <1>8
    <3>4. CASE c = s
      <4>1. po2.next[c] = 1 BY <3>4, <1>7
      <4>2. c \notin Range(po.order) /\ c \in Range(po2.path) BY <3>4, <1>8, <1>10
      <4> QED BY <4>1, <4>2, <3>2
    <3>5. CASE c # b /\ c # s
      <4>1. po2.next[c] = po.next[c] BY <3>5, <1>7
      <4>2. c \in Range(po2.path) <=> c \in Range(po.path) BY <3>5, <1>8
      <4> QED BY <4>1, <4>2, <3>1
    <3> QED BY <3>3, <3>4, <3>5
  <2> QED BY <1>6, <1>8, <1>10, <2>1, <2>2 DEF WalkNumbers
<1>12. WalkEnds(fn, po2)
  <2>1. po2.path # <<>> /\ 1 \in 1 .. m BY <1>2, <1>8
  <2>2. po.path[1] = Start(fn) BY DEF WalkIs, WalkEnds
  <2>3. po2.path[1] = Start(fn) BY <1>8, <2>1, <2>2
  <2> QED BY <2>1, <2>3 DEF WalkEnds
<1>13. WalkPath(fn, po2)
  <2>1. ASSUME NEW i \in 1 .. m PROVE po2.path[i + 1] \in SuccSet(fn, po2.path[i])
    <3>1. CASE i = m BY <3>1, <1>3, <1>8
    <3>2. CASE i # m
      <4>1. i \in 1 .. m - 1 /\ i + 1 \in 1 .. m BY <3>2, <1>2
      <4>2. po.path[i + 1] \in SuccSet(fn, po.path[i]) BY <4>1 DEF WalkIs, WalkPath
      <4> QED BY <4>1, <4>2, <1>8
    <3> QED BY <3>1, <3>2
  <2>2. Len(po2.path) - 1 = m BY <1>8, <1>2
  <2> QED BY <2>1, <2>2 DEF WalkPath
<1>14. WalkSeen(fn, po2)
  <2>1. \A c \in Blocks(fn) : po.next[c] # 0 => po2.next[c] # 0 BY <1>1, <1>7
  <2>2. ASSUME NEW c \in Blocks(fn), NEW j \in 1 .. 2, j < po2.next[c]
        PROVE  Visited(fn, c)[j] = 0 \/ (Visited(fn, c)[j] \in Blocks(fn) /\ po2.next[Visited(fn, c)[j]] # 0)
    <3>1. CASE c = b /\ j = k
      <4>1. po2.next[s] = 1 BY <1>1, <1>4, <1>7
      <4> QED BY <3>1, <4>1, <1>4
    <3>2. CASE ~ (c = b /\ j = k)
      <4>1. po.next[c] \in Int BY <1>1
      <4>2. c # s BY <1>1, <1>4, <1>7, <2>2
      <4>3. j < po.next[c] BY <3>2, <4>1, <4>2, <2>2, <1>1, <1>7
      <4>4. Visited(fn, c)[j] = 0 \/ (Visited(fn, c)[j] \in Blocks(fn) /\ po.next[Visited(fn, c)[j]] # 0)
        BY <4>3 DEF WalkIs, WalkSeen
      <4> QED BY <4>4, <2>1
    <3> QED BY <3>1, <3>2
  <2> QED BY <2>2 DEF WalkSeen
<1>15. \A c, d : Below(po, c, d) => Below(po2, c, d)
  <2>1. DOMAIN po.path = 1 .. m /\ \A j \in 1 .. m : j \in DOMAIN po2.path BY <1>1, <1>2, <1>8
  <2> SUFFICES ASSUME NEW c, NEW d, Below(po, c, d) PROVE Below(po2, c, d) OBVIOUS
  <2>2. CASE \E j, l \in DOMAIN po.order : po.order[j] = c /\ po.order[l] = d /\ j <= l BY <2>2, <1>6 DEF Below
  <2>3. CASE d \in Range(po.path) /\ c \in Range(po.order) BY <2>3, <1>6, <1>8 DEF Below
  <2>4. CASE \E j, l \in DOMAIN po.path : po.path[j] = d /\ po.path[l] = c /\ j <= l BY <2>1, <2>4, <1>8 DEF Below
  <2> QED BY <2>2, <2>3, <2>4 DEF Below
<1>16. WalkEdges(fn, po2)
  <2>1. \A d, c : LeadsBack(fn, po, d, c) => LeadsBack(fn, po2, d, c) BY <1>15, LeadsBackGrows
  <2>2. WalkEdges(fn, po) /\ po2.order = po.order BY <1>6 DEF WalkIs
  <2> QED BY <2>1, <2>2 DEF WalkEdges
<1>17. WalkPreds(fn, po2) BY <1>6, <1>15 DEF WalkIs, WalkPreds
<1>18. WalkReaches(fn, po2)
  <2>1. b \in PathsFrom(fn, Start(fn), {}) BY <1>2 DEF WalkIs, WalkReaches
  <2>2. s \in PathsFrom(fn, Start(fn), {}) BY <2>1, <1>3, PathsFromIs, StartIsBlock DEF IsClosed
  <2> QED BY <2>2, <1>6, <1>8 DEF WalkIs, WalkReaches
<1> QED BY <1>9, <1>11, <1>12, <1>13, <1>14, <1>16, <1>17, <1>18 DEF WalkIs

\* porec returns.
LEMMA WalkReturns ==
    ASSUME NEW fn, GraphIsShaped(fn), NEW po, WalkIs(fn, po), po.path # <<>>, NEW b, b = po.path[Len(po.path)],
           po.next[b] = 3,
           NEW po2, po2 = [next |-> [po.next EXCEPT ![b] = 4], path |-> Front(po.path), order |-> Append(po.order, b)]
    PROVE  WalkIs(fn, po2)
<1> DEFINE m == Len(po.path)
           n == Len(po.order)
<1>1. po.path \in Seq(Blocks(fn)) /\ po.order \in Seq(Blocks(fn)) /\ po.next \in [DOMAIN fn.blk -> 0 .. 4]
      /\ Blocks(fn) \subseteq DOMAIN fn.blk
  BY StartIsBlock DEF WalkIs, WalkTypes
<1>2. /\ b \in Blocks(fn) /\ b \in Range(po.path) /\ m \in Nat /\ m >= 1
      /\ po2.path \in Seq(Blocks(fn)) /\ Len(po2.path) = m - 1
      /\ \A i \in 1 .. m - 1 : po2.path[i] = po.path[i]
      /\ Range(po.path) = Range(po2.path) \cup {b}
      /\ Distinct(po.path) => Distinct(po2.path) /\ b \notin Range(po2.path)
  BY <1>1, FrontFacts
<1>3. /\ po2.order \in Seq(Blocks(fn)) /\ Len(po2.order) = n + 1
      /\ \A i \in 1 .. n : po2.order[i] = po.order[i]
      /\ po2.order[n + 1] = b
      /\ Range(po2.order) = Range(po.order) \cup {b}
      /\ Distinct(po.order) /\ b \notin Range(po.order) => Distinct(po2.order)
  BY <1>1, <1>2, AppendFacts
<1>4. po2.next \in [DOMAIN fn.blk -> 0 .. 4] /\ \A c \in DOMAIN fn.blk : po2.next[c] = IF c = b THEN 4 ELSE po.next[c]
  BY <1>1, <1>2
<1>5. WalkTypes(fn, po2) BY <1>2, <1>3, <1>4 DEF WalkTypes
<1>d. /\ DOMAIN po.path = 1 .. m /\ DOMAIN po2.path = 1 .. m - 1 /\ DOMAIN po.order = 1 .. n /\ DOMAIN po2.order = 1 .. n + 1
      /\ n \in Nat
  BY <1>1, <1>2, <1>3
<1>b. b \notin Range(po.order) /\ Distinct(po.path) /\ Distinct(po.order)
  <2>1. b \in DOMAIN fn.blk BY <1>1, <1>2
  <2>2. po.next[b] = 4 <=> b \in Range(po.order) BY <2>1 DEF WalkIs, WalkNumbers
  <2> QED BY <2>2 DEF WalkIs, WalkNumbers
<1> HIDE DEF m, n
<1>6. WalkNumbers(fn, po2)
  <2>2. ASSUME NEW c \in DOMAIN fn.blk
        PROVE  (po2.next[c] = 4 <=> c \in Range(po2.order)) /\ (po2.next[c] \in 1 .. 3 <=> c \in Range(po2.path))
    <3>1. (po.next[c] = 4 <=> c \in Range(po.order)) /\ (po.next[c] \in 1 .. 3 <=> c \in Range(po.path))
      BY DEF WalkIs, WalkNumbers
    <3>2. 4 \notin 1 .. 3 OBVIOUS
    <3>3. CASE c = b BY <3>2, <3>3, <1>b, <1>2, <1>3, <1>4
    <3>4. CASE c # b
      <4>1. po2.next[c] = po.next[c] BY <3>4, <1>4
      <4>2. (c \in Range(po2.path) <=> c \in Range(po.path)) /\ (c \in Range(po2.order) <=> c \in Range(po.order))
        BY <3>4, <1>2, <1>3
      <4> QED BY <4>1, <4>2, <3>1
    <3> QED BY <3>3, <3>4
  <2> QED BY <1>b, <1>2, <1>3, <2>2 DEF WalkNumbers
<1>7. WalkEnds(fn, po2)
  <2>1. po.path[1] = Start(fn) BY DEF WalkIs, WalkEnds
  <2>2. CASE m = 1
    <3>1. b = Start(fn) BY <2>1, <2>2 DEF m
    <3>2. po2.path = <<>> BY <2>2, <1>2
    <3>3. po2.order # <<>> /\ po2.order[Len(po2.order)] = b BY <1>3, <1>d
    <3> QED BY <3>1, <3>2, <3>3 DEF WalkEnds
  <2>3. CASE m # 1
    <3>1. 1 \in 1 .. m - 1 BY <2>3, <1>2
    <3>2. po2.path # <<>> BY <3>1, <1>2
    <3> QED BY <3>1, <3>2, <2>1, <1>2 DEF WalkEnds
  <2> QED BY <2>2, <2>3
<1>8. WalkPath(fn, po2)
  <2>1. ASSUME NEW i \in 1 .. Len(po2.path) - 1 PROVE po2.path[i + 1] \in SuccSet(fn, po2.path[i])
    <3>1. i \in 1 .. m - 1 /\ i + 1 \in 1 .. m - 1 BY <1>2
    <3>2. po.path[i + 1] \in SuccSet(fn, po.path[i]) BY <3>1 DEF WalkIs, WalkPath, m
    <3> QED BY <3>1, <3>2, <1>2
  <2> QED BY <2>1 DEF WalkPath
<1>9. WalkSeen(fn, po2)
  <2>1. \A c \in Blocks(fn) : po.next[c] # 0 => po2.next[c] # 0 BY <1>1, <1>4
  <2>2. ASSUME NEW c \in Blocks(fn), NEW j \in 1 .. 2, j < po2.next[c]
        PROVE  Visited(fn, c)[j] = 0 \/ (Visited(fn, c)[j] \in Blocks(fn) /\ po.next[Visited(fn, c)[j]] # 0)
    <3>1. po.next[c] \in Int /\ c \in DOMAIN fn.blk BY <1>1
    <3>2. j < po.next[c] BY <3>1, <2>2, <1>4
    <3> QED BY <3>2 DEF WalkIs, WalkSeen
  <2> QED BY <2>1, <2>2 DEF WalkSeen
<1>10. ASSUME NEW c, NEW d, Below(po, c, d) PROVE Below(po2, c, d)
  <2>1. CASE \E j, l \in DOMAIN po.order : po.order[j] = c /\ po.order[l] = d /\ j <= l
    <3>1. PICK j \in 1 .. n, l \in 1 .. n : po.order[j] = c /\ po.order[l] = d /\ j <= l BY <2>1, <1>d
    <3>2. j \in 1 .. n + 1 /\ l \in 1 .. n + 1 BY <1>d
    <3> QED BY <3>1, <3>2, <1>3, <1>d DEF Below
  <2>2. CASE d \in Range(po.path) /\ c \in Range(po.order)
    <3>1. CASE d = b
      <4>1. PICK j \in 1 .. n : po.order[j] = c BY <2>2, <1>d DEF Range
      <4>2. j \in 1 .. n + 1 /\ n + 1 \in 1 .. n + 1 /\ j <= n + 1 BY <1>d
      <4> QED BY <4>1, <4>2, <3>1, <1>3, <1>d DEF Below
    <3>2. CASE d # b BY <2>2, <3>2, <1>2, <1>3 DEF Below
    <3> QED BY <3>1, <3>2
  <2>3. CASE \E j, l \in DOMAIN po.path : po.path[j] = d /\ po.path[l] = c /\ j <= l
    <3>1. PICK j \in 1 .. m, l \in 1 .. m : po.path[j] = d /\ po.path[l] = c /\ j <= l BY <2>3, <1>d
    <3>2. po.path[m] = b BY DEF m
    <3>3. CASE j = m
      <4>1. c = b /\ d = b BY <3>1, <3>2, <3>3
      <4>2. n + 1 \in 1 .. n + 1 BY <1>d
      <4> QED BY <4>1, <4>2, <1>3, <1>d DEF Below
    <3>4. CASE j # m /\ l = m
      <4>1. j \in 1 .. m - 1 BY <3>4, <1>2
      <4>2. d \in Range(po2.path) BY <4>1, <3>1, <1>2, <1>d DEF Range
      <4>3. c = b BY <3>1, <3>2, <3>4
      <4> QED BY <4>2, <4>3, <1>3 DEF Below
    <3>5. CASE j # m /\ l # m
      <4>1. j \in 1 .. m - 1 /\ l \in 1 .. m - 1 BY <3>5, <1>2
      <4> QED BY <4>1, <3>1, <1>2, <1>d DEF Below
    <3> QED BY <3>3, <3>4, <3>5
  <2> QED BY <1>10, <2>1, <2>2, <2>3 DEF Below
<1>11. \A d, c : LeadsBack(fn, po, d, c) => LeadsBack(fn, po2, d, c) BY <1>10, LeadsBackGrows
<1>12. WalkEdges(fn, po2)
  <2>1. ASSUME NEW i \in 1 .. n + 1, NEW s \in SuccSet(fn, po2.order[i])
        PROVE  (\E l \in DOMAIN po2.order : po2.order[l] = s /\ l < i) \/ LeadsBack(fn, po2, s, po2.order[i])
    <3>1. CASE i # n + 1
      <4>1. i \in 1 .. n /\ po2.order[i] = po.order[i] BY <3>1, <1>3, <1>d
      <4>2. (\E l \in DOMAIN po.order : po.order[l] = s /\ l < i) \/ LeadsBack(fn, po, s, po.order[i])
        BY <4>1, <1>d, <2>1 DEF WalkIs, WalkEdges
      <4>3. CASE LeadsBack(fn, po, s, po.order[i]) BY <4>1, <4>3, <1>11
      <4>4. CASE \E l \in DOMAIN po.order : po.order[l] = s /\ l < i
        <5>1. PICK l \in 1 .. n : po.order[l] = s /\ l < i BY <4>4, <1>d
        <5>2. l \in 1 .. n + 1 BY <1>d
        <5> QED BY <5>1, <5>2, <1>3, <1>d
      <4> QED BY <4>2, <4>3, <4>4
    <3>2. CASE i = n + 1
      <4>1. po2.order[i] = b /\ s \in SuccSet(fn, b) BY <3>2, <1>3, <2>1
      <4>2. s \in Blocks(fn) /\ s \in DOMAIN fn.blk BY <4>1, <1>1, <1>2, SuccsAreBlocks
      <4>3. po.next[s] # 0
        <5>1. PICK j \in {1, 2} : s = Visited(fn, b)[j] /\ s # 0 BY <4>1, VisitedIs
        <5>2. j \in 1 .. 2 /\ j < po.next[b] OBVIOUS
        <5> QED BY <5>1, <5>2, <1>2 DEF WalkIs, WalkSeen
      <4>4. s \in Range(po.order) \/ s \in Range(po.path)
        <5>1. (po.next[s] = 4 <=> s \in Range(po.order)) /\ (po.next[s] \in 1 .. 3 <=> s \in Range(po.path))
          BY <4>2 DEF WalkIs, WalkNumbers
        <5>2. po.next[s] \in 0 .. 4 BY <4>2, <1>1
        <5>3. po.next[s] = 4 \/ po.next[s] \in 1 .. 3 BY <4>3, <5>2
        <5> QED BY <5>1, <5>3
      <4>5. CASE s \in Range(po.order)
        <5>1. PICK l \in 1 .. n : po.order[l] = s BY <4>5, <1>d DEF Range
        <5>2. l \in 1 .. n + 1 /\ l < n + 1 BY <1>d
        <5> QED BY <5>1, <5>2, <3>2, <1>3, <1>d
      <4>6. CASE s \in Range(po.path)
        <5>1. PICK l \in 1 .. m : po.path[l] = s BY <4>6, <1>d DEF Range
        <5>2. LeadsBack(fn, po, s, b) BY <5>1, PathLeadsBack DEF WalkIs, m
        <5> QED BY <5>2, <4>1, <1>11
      <4> QED BY <4>4, <4>5, <4>6
    <3> QED BY <3>1, <3>2
  <2> QED BY <2>1, <1>d DEF WalkEdges
<1>13. WalkPreds(fn, po2)
  <2>1. ASSUME NEW c \in Range(po2.order) \ {Start(fn)}
        PROVE  \E p \in Blocks(fn) : c \in SuccSet(fn, p) /\ Below(po2, c, p) /\ p # c
    <3>1. CASE c \in Range(po.order)
      <4>1. \E p \in Blocks(fn) : c \in SuccSet(fn, p) /\ Below(po, c, p) /\ p # c BY <3>1, <2>1 DEF WalkIs, WalkPreds
      <4> QED BY <4>1, <1>10
    <3>2. CASE c = b
      <4>1. m # 1
        <5>1. po.path[1] = Start(fn) BY DEF WalkIs, WalkEnds
        <5> QED BY <5>1, <3>2, <2>1 DEF m
      <4>2. m - 1 \in 1 .. m - 1 /\ m - 1 \in 1 .. m /\ m - 1 + 1 = m BY <4>1, <1>2
      <4> DEFINE p == po.path[m - 1]
      <4>3. b \in SuccSet(fn, p) BY <4>2 DEF WalkIs, WalkPath, m
      <4>4. p \in Range(po2.path) /\ p \in Blocks(fn)
        <5>1. p \in Range(po2.path) BY <4>2, <1>2, <1>d DEF Range
        <5> QED BY <5>1, <1>2, SeqFacts
      <4>5. p # b BY <4>4, <1>b, <1>2
      <4>6. Below(po2, b, p) BY <4>4, <1>3 DEF Below
      <4> QED BY <4>3, <4>4, <4>5, <4>6, <3>2
    <3> QED BY <3>1, <3>2, <2>1, <1>3
  <2> QED BY <2>1 DEF WalkPreds
<1>14. WalkReaches(fn, po2) BY <1>2, <1>3 DEF WalkIs, WalkReaches
<1> QED BY <1>5, <1>6, <1>7, <1>8, <1>9, <1>12, <1>13, <1>14 DEF WalkIs

\* Each step of porec keeps what the walk knows, and goes on.
LEMMA WalkTurn ==
    ASSUME NEW fn, GraphIsShaped(fn), NEW po, WalkIs(fn, po), po.path # <<>>
    PROVE  /\ WalkIs(fn, Porec(fn, po))
           /\ \E b \in Blocks(fn) : Porec(fn, po).next[b] = po.next[b] + 1
           /\ \A b \in Blocks(fn) : Porec(fn, po).next[b] >= po.next[b]
<1> DEFINE b == po.path[Len(po.path)]
           k == po.next[b]
           s == Visited(fn, b)[k]
           po2 == Porec(fn, po)
<1>1. po.path \in Seq(Blocks(fn)) /\ po.next \in [DOMAIN fn.blk -> 0 .. 4] /\ Blocks(fn) \subseteq DOMAIN fn.blk
  BY StartIsBlock DEF WalkIs, WalkTypes
<1>2. b \in Blocks(fn) /\ b \in Range(po.path) BY <1>1, FrontFacts
<1>3. k \in 1 .. 3 /\ b \in DOMAIN fn.blk
  <2>1. b \in DOMAIN fn.blk BY <1>1, <1>2
  <2> QED BY <2>1, <1>2 DEF WalkIs, WalkNumbers
<1>4. \A c \in Blocks(fn) : po.next[c] \in Int BY <1>1
<1>5. CASE k = 3
  <2>1. po2 = [next |-> [po.next EXCEPT ![b] = 4], path |-> Front(po.path), order |-> Append(po.order, b)]
    BY <1>5 DEF Porec
  <2> HIDE DEF po2
  <2>2. WalkIs(fn, po2) BY <2>1, <1>5, WalkReturns
  <2>3. po2.next = [po.next EXCEPT ![b] = 4] BY <2>1
  <2> HIDE DEF b
  <2>4. \A c \in Blocks(fn) : po2.next[c] = IF c = b THEN po.next[c] + 1 ELSE po.next[c] BY <2>3, <1>1, <1>2, <1>5
  <2> QED BY <2>2, <2>4, <1>2, <1>4 DEF po2
<1>6. CASE k # 3 /\ (s = 0 \/ po.next[s] # 0)
  <2>0. k \in 1 .. 2 BY <1>3, <1>6
  <2>1. po2 = [po EXCEPT !.next[b] = k + 1] BY <1>6 DEF Porec
  <2>2. s = 0 \/ (s \in Blocks(fn) /\ po.next[s] # 0)
    <3>1. s # 0 => s \in SuccSet(fn, b) BY <2>0, VisitedIs
    <3> QED BY <3>1, <1>2, <1>6, SuccsAreBlocks
  <2> HIDE DEF po2, b
  <2>3. WalkIs(fn, po2) BY <2>0, <2>1, <2>2, <1>2, WalkSkips
  <2>4. po2.next = [po.next EXCEPT ![b] = k + 1] BY <2>1 DEF WalkIs, WalkTypes
  <2>5. \A c \in Blocks(fn) : po2.next[c] = IF c = b THEN po.next[c] + 1 ELSE po.next[c] BY <2>4, <1>1, <1>2
  <2> QED BY <2>3, <2>5, <1>2, <1>4 DEF po2
<1>7. CASE k # 3 /\ s # 0 /\ po.next[s] = 0
  <2>0. k \in 1 .. 2 BY <1>3, <1>7
  <2>1. po2 = [po EXCEPT !.next = [@ EXCEPT ![b] = k + 1, ![s] = 1], !.path = Append(@, s)] BY <1>7 DEF Porec
  <2>2. s \in Blocks(fn) /\ s # b
    <3>1. s \in SuccSet(fn, b) BY <2>0, <1>7, VisitedIs
    <3> QED BY <3>1, <1>2, <1>3, <1>7, SuccsAreBlocks
  <2> HIDE DEF po2
  <2>3. WalkIs(fn, po2) BY <2>0, <2>1, <1>7, WalkEnters
  <2>4. po2.next = [po.next EXCEPT ![b] = k + 1, ![s] = 1] BY <2>1 DEF WalkIs, WalkTypes
  <2> HIDE DEF b, s
  <2>5. \A c \in Blocks(fn) : po2.next[c] = IF c = s THEN 1 ELSE IF c = b THEN k + 1 ELSE po.next[c]
    <3> DEFINE one == [po.next EXCEPT ![b] = k + 1]
    <3>1. \A c \in Blocks(fn) : one[c] = IF c = b THEN k + 1 ELSE po.next[c] BY <1>1, <1>2
    <3>2. po2.next = [one EXCEPT ![s] = 1] /\ DOMAIN one = DOMAIN fn.blk BY <2>4, <1>1
    <3> HIDE DEF one
    <3>3. \A c \in Blocks(fn) : po2.next[c] = IF c = s THEN 1 ELSE one[c] BY <3>2, <2>2, <1>1
    <3>4. ASSUME NEW c \in Blocks(fn) PROVE po2.next[c] = IF c = s THEN 1 ELSE IF c = b THEN k + 1 ELSE po.next[c]
      <4>1. po2.next[c] = IF c = s THEN 1 ELSE one[c] BY <3>3
      <4>2. one[c] = IF c = b THEN k + 1 ELSE po.next[c] BY <3>1
      <4> QED BY <4>1, <4>2
    <3> QED BY <3>4
  <2>6. po2.next[b] = po.next[b] + 1 BY <2>2, <2>5, <1>2
  <2>7. \A c \in Blocks(fn) : po2.next[c] >= po.next[c] BY <2>2, <2>5, <1>2, <1>4, <1>7
  <2> QED BY <2>3, <2>6, <2>7, <1>2 DEF po2
<1> QED BY <1>5, <1>6, <1>7

WalkOp(x, y, z, a, e) == Porec(x, a)
WalkMore(x, y, z, a) == a.path # <<>>
WalkKeeps(q, n, a) == WalkIs(q, a)
Unwalked(fn, po) == {x \in Blocks(fn) \X (1 .. 4) : po.next[x[1]] < x[2]}
WalkLeft(q, a) == Cardinality(Unwalked(q, a))
WalkLoop == INSTANCE Loops WITH Op <- WalkOp, More <- WalkMore, Keeps <- WalkKeeps, Measure <- WalkLeft

FirstWalk(fn) ==
    [next |-> [b \in DOMAIN fn.blk |-> IF b = Start(fn) THEN 1 ELSE 0], path |-> <<Start(fn)>>, order |-> <<>>]

\* The walk starts right.
LEMMA FirstWalkIs ==
    ASSUME NEW fn, GraphIsShaped(fn)
    PROVE  WalkIs(fn, FirstWalk(fn))
<1> DEFINE po == FirstWalk(fn)
<1>1. /\ po.path = <<Start(fn)>> /\ po.order = <<>> /\ po.next \in [DOMAIN fn.blk -> 0 .. 4]
      /\ \A b \in DOMAIN fn.blk : po.next[b] = IF b = Start(fn) THEN 1 ELSE 0
      /\ po = [next |-> po.next, path |-> po.path, order |-> po.order]
  BY DEF FirstWalk
<1>2. Start(fn) \in Blocks(fn) /\ Start(fn) \in DOMAIN fn.blk /\ Blocks(fn) \subseteq DOMAIN fn.blk BY StartIsBlock
<1> HIDE DEF po
<1>3. po.path \in Seq(Blocks(fn)) /\ po.order \in Seq(Blocks(fn)) /\ Len(po.path) = 1 /\ DOMAIN po.path = {1} /\ DOMAIN po.order = {}
      /\ po.path[1] = Start(fn)
  BY <1>1, <1>2
<1>4. Range(po.path) = {Start(fn)} /\ Range(po.order) = {} BY <1>3 DEF Range
<1>5. WalkTypes(fn, po) BY <1>1, <1>3 DEF WalkTypes
<1>6. WalkNumbers(fn, po)
  <2>1. Distinct(po.path) /\ Distinct(po.order) BY <1>3 DEF Distinct
  <2> QED BY <2>1, <1>1, <1>4 DEF WalkNumbers
<1>7. WalkEnds(fn, po) /\ WalkPath(fn, po) BY <1>1, <1>3 DEF WalkEnds, WalkPath
<1>8. WalkSeen(fn, po)
  <2>1. \A b \in Blocks(fn) : \A j \in 1 .. 2 : ~ (j < po.next[b]) BY <1>1, <1>2
  <2> QED BY <2>1 DEF WalkSeen
<1>9. WalkEdges(fn, po) /\ WalkPreds(fn, po) BY <1>3, <1>4 DEF WalkEdges, WalkPreds
<1>10. WalkReaches(fn, po) BY <1>2, <1>4, PathsFromIs DEF WalkReaches
<1> QED BY <1>5, <1>6, <1>7, <1>8, <1>9, <1>10 DEF WalkIs, po

\* When the walk is over.
LEMMA PostorderIs ==
    ASSUME NEW fn, GraphIsShaped(fn)
    PROVE  \E po : Postorder(fn) = po.order /\ WalkIs(fn, po) /\ po.path = <<>>
<1> DEFINE B == DOMAIN fn.blk
           S == [next : [B -> 0 .. 4], path : Seq(B), order : Seq(B)]
           r == WalkLoop!WhileMore(S, fn, 0, 0, FirstWalk(fn))
<1>1. Postorder(fn) = r.order
  BY DEF Postorder, FirstWalk, WalkLoop!WhileMore, WalkLoop!While, While, WalkLoop!With, With, WalkOp, WalkMore
<1>2. WalkKeeps(fn, 0, FirstWalk(fn)) BY FirstWalkIs DEF WalkKeeps
<1>3. IsFiniteSet(Blocks(fn) \X (1 .. 4))
  <2>0. 1 \in Int /\ 4 \in Int OBVIOUS
  <2>1. IsFiniteSet(1 .. 4) BY <2>0, FS_Interval
  <2>2. IsFiniteSet(Blocks(fn)) BY StartIsBlock, SuccsAreBlocks
  <2> QED BY <2>1, <2>2, FS_Product
<1>4. ASSUME NEW a, WalkKeeps(fn, 0, a) PROVE a \in S /\ WalkLeft(fn, a) \in Nat
  <2>1. WalkTypes(fn, a) BY <1>4 DEF WalkKeeps, WalkIs
  <2>2. Seq(Blocks(fn)) \subseteq Seq(B) BY StartIsBlock
  <2>3. a \in S BY <2>1, <2>2 DEF WalkTypes
  <2>4. IsFiniteSet(Unwalked(fn, a)) BY <1>3, FS_Subset DEF Unwalked
  <2> QED BY <2>3, <2>4, FS_CardinalityType DEF WalkLeft
<1>5. ASSUME NEW a, WalkKeeps(fn, 0, a), WalkMore(fn, 0, 0, a)
      PROVE  WalkKeeps(fn, 0, WalkOp(fn, 0, 0, a, 0)) /\ WalkLeft(fn, WalkOp(fn, 0, 0, a, 0)) < WalkLeft(fn, a)
  <2> DEFINE c == Porec(fn, a)
  <2>1. WalkIs(fn, c) /\ (\E b \in Blocks(fn) : c.next[b] = a.next[b] + 1) /\ \A b \in Blocks(fn) : c.next[b] >= a.next[b]
    BY <1>5, WalkTurn DEF WalkKeeps, WalkMore
  <2>2. WalkIs(fn, a) BY <1>5 DEF WalkKeeps
  <2> HIDE DEF c
  <2>3. \A b \in Blocks(fn) : a.next[b] \in 0 .. 4 /\ c.next[b] \in 0 .. 4
    BY <2>1, <2>2, StartIsBlock DEF WalkIs, WalkTypes
  <2>4. Unwalked(fn, c) \subseteq Unwalked(fn, a)
    <3>1. ASSUME NEW x \in Blocks(fn) \X (1 .. 4), c.next[x[1]] < x[2] PROVE a.next[x[1]] < x[2] BY <3>1, <2>1, <2>3
    <3> QED BY <3>1 DEF Unwalked
  <2>5. Unwalked(fn, c) # Unwalked(fn, a)
    <3>1. PICK b \in Blocks(fn) : c.next[b] = a.next[b] + 1 BY <2>1
    <3> DEFINE x == <<b, a.next[b] + 1>>
    <3>2. a.next[b] + 1 \in 1 .. 4 BY <3>1, <2>3
    <3>3. x \in Unwalked(fn, a) /\ x \notin Unwalked(fn, c) BY <3>1, <3>2, <2>3 DEF Unwalked
    <3> QED BY <3>3
  <2>6. IsFiniteSet(Unwalked(fn, a)) BY <1>3, FS_Subset DEF Unwalked
  <2> QED BY <2>1, <2>4, <2>5, <2>6, StrictlySmaller DEF WalkKeeps, WalkLeft, WalkOp, c
<1>6. WalkKeeps(fn, 0, r) /\ ~ WalkMore(fn, 0, 0, r)
  <2> HIDE DEF S
  <2> QED BY <1>2, <1>4, <1>5, WalkLoop!WhileEnds
<1> HIDE DEF r
<1> QED BY <1>1, <1>6 DEF WalkKeeps, WalkMore

-----------------------------------------------------------------------------
(* fillcfg *)

\* A sequence backwards.
LEMMA ReverseFacts ==
    ASSUME NEW A, NEW s \in Seq(A)
    PROVE  /\ Reverse(s) \in Seq(A) /\ Len(Reverse(s)) = Len(s) /\ Range(Reverse(s)) = Range(s)
           /\ \A i \in 1 .. Len(s) : Reverse(s)[Len(s) - i + 1] = s[i] /\ Reverse(s)[i] = s[Len(s) - i + 1]
           /\ Distinct(s) => Distinct(Reverse(s))
<1> DEFINE n == Len(s)
           r == Reverse(s)
<1>1. n \in Nat /\ DOMAIN s = 1 .. n /\ \A i \in 1 .. n : s[i] \in A OBVIOUS
<1>2. r = [i \in 1 .. n |-> s[n - i + 1]] BY DEF Reverse
<1>3. \A i \in 1 .. n : n - i + 1 \in 1 .. n /\ n - (n - i + 1) + 1 = i BY <1>1
<1> HIDE DEF n, r
<1>4. r \in Seq(A) /\ Len(r) = n /\ DOMAIN r = 1 .. n BY <1>1, <1>2, <1>3
<1>5. \A i \in 1 .. n : r[i] = s[n - i + 1] /\ r[n - i + 1] = s[i] BY <1>2, <1>3
<1>6. Range(r) = Range(s) BY <1>1, <1>3, <1>4, <1>5 DEF Range
<1>7. Distinct(s) => Distinct(r)
  <2> SUFFICES ASSUME Distinct(s), NEW i \in 1 .. n, NEW j \in 1 .. n, r[i] = r[j] PROVE i = j BY <1>4 DEF Distinct
  <2>1. n - i + 1 = n - j + 1 BY <1>1, <1>3, <1>5 DEF Distinct
  <2> QED BY <2>1, <1>1
<1> QED BY <1>4, <1>5, <1>6, <1>7 DEF n, r

\* g is fn with the blocks in the order of a walk that is over.
Numbered(fn, po, g) ==
    /\ g.rpo = Reverse(po.order)
    /\ g.id = [b \in DOMAIN fn.blk |-> SelectInSeq(g.rpo, LAMBDA x : x = b) - 1]
    /\ g.link = Kept(fn.link, Range(g.rpo))
    /\ g.pred = [b \in DOMAIN fn.blk |-> Kept(g.link, {p \in DOMAIN fn.blk : b \in {fn.blk[p].s1, fn.blk[p].s2}})]
    /\ DOMAIN g.blk = DOMAIN fn.blk /\ DOMAIN g = DOMAIN fn /\ g.loop = fn.loop
    /\ \A b \in DOMAIN fn.blk : /\ g.blk[b].s1 = fn.blk[b].s1 /\ g.blk[b].s2 = fn.blk[b].s2
                                /\ DOMAIN g.blk[b] = DOMAIN fn.blk[b]

\* The blocks in the order of a finished walk: their numbers and predecessors are right.
LEMMA NumberedIs ==
    ASSUME NEW fn, GraphIsShaped(fn), NEW po, WalkIs(fn, po), po.path = <<>>, NEW g, Numbered(fn, po, g)
    PROVE  GraphIsShaped(g) /\ OrderIsRight(g) /\ PredsAreRight(g) /\ Blocks(g) \subseteq Blocks(fn) /\ Start(g) = Start(fn)
           /\ \A b \in DOMAIN fn.blk : b \in Blocks(g) <=> g.id[b] >= 0
<1> DEFINE n == Len(po.order)
           B == Blocks(g)
<1>1. /\ po.order \in Seq(Blocks(fn)) /\ Distinct(po.order) /\ po.order # <<>> /\ po.order[n] = Start(fn)
      /\ po.next \in [DOMAIN fn.blk -> 0 .. 4]
      /\ \A b \in DOMAIN fn.blk : po.next[b] = 4 <=> b \in Range(po.order)
  BY DEF WalkIs, WalkTypes, WalkNumbers, WalkEnds
<1>2. n \in Nat /\ n >= 1 /\ DOMAIN po.order = 1 .. n BY <1>1
<1>3. /\ g.rpo \in Seq(Blocks(fn)) /\ Len(g.rpo) = n /\ Range(g.rpo) = Range(po.order)
      /\ \A i \in 1 .. n : g.rpo[n - i + 1] = po.order[i] /\ g.rpo[i] = po.order[n - i + 1]
      /\ Distinct(g.rpo)
  <2>1. g.rpo = Reverse(po.order) BY DEF Numbered
  <2>2. /\ Reverse(po.order) \in Seq(Blocks(fn)) /\ Len(Reverse(po.order)) = Len(po.order)
        /\ Range(Reverse(po.order)) = Range(po.order) /\ Distinct(Reverse(po.order))
        /\ \A i \in 1 .. Len(po.order) : Reverse(po.order)[Len(po.order) - i + 1] = po.order[i]
                                       /\ Reverse(po.order)[i] = po.order[Len(po.order) - i + 1]
    BY <1>1, ReverseFacts
  <2> QED BY <2>1, <2>2
<1>4. DOMAIN g.rpo = 1 .. n BY <1>3
<1>5. fn.link \in Seq(DOMAIN fn.blk) /\ fn.link # <<>> /\ Distinct(fn.link) /\ fn.link[1] = Start(fn) /\ Blocks(fn) = Range(fn.link)
      /\ Blocks(fn) \subseteq DOMAIN fn.blk
  BY StartIsBlock DEF GraphIsShaped, Distinct, Start, Blocks
<1>6. Range(po.order) \subseteq Blocks(fn) BY <1>1, SeqFacts
<1>7. Start(fn) \in Range(po.order) BY <1>1, <1>2 DEF Range
<1> HIDE DEF n
<1>8. /\ g.link \in Seq(DOMAIN fn.blk) /\ Range(g.link) = Range(fn.link) \cap Range(g.rpo) /\ Distinct(g.link)
      /\ g.link # <<>> /\ g.link[1] = Start(fn)
  <2>1. g.link = Kept(fn.link, Range(g.rpo)) BY DEF Numbered
  <2>2. Start(fn) \in Range(g.rpo) BY <1>3, <1>7
  <2> DEFINE S == Range(g.rpo)
  <2> DEFINE l == fn.link
             D == DOMAIN fn.blk
  <2>3. l \in Seq(D) /\ Distinct(l) /\ l # <<>> /\ l[1] \in S BY <2>2, <1>5
  <2> HIDE DEF S, l, D
  <2>4. Kept(l, S) \in Seq(D) /\ Range(Kept(l, S)) = Range(l) \cap S BY <2>3, KeptIs
  <2>5. Distinct(Kept(l, S)) BY <2>3, KeptIs
  <2>6. Kept(l, S) # <<>> /\ Kept(l, S)[1] = l[1] BY <2>3, KeptIs
  <2> QED BY <2>1, <2>4, <2>5, <2>6, <1>5 DEF S, l, D
<1>9. B = Range(po.order) /\ Start(g) = Start(fn) BY <1>3, <1>5, <1>6, <1>8 DEF Blocks, Start
<1>10. \A b \in DOMAIN fn.blk : SuccSet(g, b) = SuccSet(fn, b) BY SuccSetIs DEF Numbered
<1>11. \A b \in B : b \in Blocks(fn) /\ b \in DOMAIN fn.blk BY <1>5, <1>6, <1>9
<1> HIDE DEF B
\* Numbers
<1>12. ASSUME NEW i \in 1 .. n PROVE g.id[po.order[i]] = n - i /\ po.order[i] \in DOMAIN fn.blk
  <2> DEFINE b == po.order[i]
             I == {j \in 1 .. Len(g.rpo) : g.rpo[j] = b}
  <2>1. b \in DOMAIN fn.blk BY <1>2, <1>5, <1>6 DEF Range
  <2>2. n - i + 1 \in 1 .. n /\ g.rpo[n - i + 1] = b BY <1>2, <1>3
  <2>3. I = {n - i + 1} BY <2>2, <1>3, <1>4 DEF Distinct
  <2>4. Min(I) = n - i + 1 BY <2>2, <2>3 DEF Min
  <2>5. SelectInSeq(g.rpo, LAMBDA x : x = b) = n - i + 1 BY <2>3, <2>4 DEF SelectInSeq
  <2>6. g.id[b] = SelectInSeq(g.rpo, LAMBDA x : x = b) - 1 BY <2>1 DEF Numbered
  <2> QED BY <2>1, <2>5, <2>6, <1>2
<1>13. ASSUME NEW b \in DOMAIN fn.blk, b \notin B PROVE g.id[b] = -1
  <2>1. {j \in 1 .. Len(g.rpo) : g.rpo[j] = b} = {} BY <1>13, <1>3, <1>4, <1>9 DEF Range
  <2>2. SelectInSeq(g.rpo, LAMBDA x : x = b) = 0 BY <2>1 DEF SelectInSeq
  <2>3. g.id[b] = SelectInSeq(g.rpo, LAMBDA x : x = b) - 1 BY DEF Numbered
  <2> QED BY <2>2, <2>3
<1>14. ASSUME NEW b \in B PROVE \E i \in 1 .. n : b = po.order[i] /\ g.id[b] = n - i
  <2>1. PICK i \in 1 .. n : b = po.order[i] BY <1>2, <1>9 DEF Range
  <2> QED BY <2>1, <1>12
\* Shape
<1>15. ASSUME NEW b \in B PROVE SuccSet(g, b) \subseteq B
  <2>1. b \in Blocks(fn) /\ b \in DOMAIN fn.blk /\ po.next[b] = 4 BY <1>1, <1>9, <1>11
  <2>2. ASSUME NEW s \in SuccSet(fn, b) PROVE s \in B
    <3>1. PICK j \in {1, 2} : s = Visited(fn, b)[j] /\ s # 0 BY <2>2, VisitedIs
    <3>2. j \in 1 .. 2 /\ j < po.next[b] BY <2>1
    <3>3. s \in Blocks(fn) /\ po.next[s] # 0 BY <2>1, <3>1, <3>2 DEF WalkIs, WalkSeen
    <3>4. s \in DOMAIN fn.blk /\ po.next[s] \in 0 .. 4 BY <3>3, <1>1, <1>5
    <3>5. Range(po.path) = {} BY DEF Range
    <3>6. po.next[s] \notin 1 .. 3 BY <3>4, <3>5 DEF WalkIs, WalkNumbers
    <3>7. po.next[s] = 4 BY <3>3, <3>4, <3>6
    <3> QED BY <3>4, <3>7, <1>1, <1>9
  <2> QED BY <2>1, <2>2, <1>10
<1>16. GraphIsShaped(g)
  <2>1. \A b \in B : {g.blk[b].s1, g.blk[b].s2} \subseteq B \cup {0} BY <1>15, SuccSetIs
  <2>2. DOMAIN g = DOMAIN fn /\ DOMAIN g.blk = DOMAIN fn.blk /\ g.loop = fn.loop BY DEF Numbered
  <2>3. \A m, i \in DOMAIN g.link : g.link[m] = g.link[i] => m = i BY <1>8 DEF Distinct
  <2>4. \A b \in B : g.loop[b] \in Int BY <2>2, <1>11 DEF GraphIsShaped
  <2>5. \A b \in DOMAIN g.blk : {"phi", "ins", "ja", "s1", "s2"} \subseteq DOMAIN g.blk[b]
    BY <2>2 DEF GraphIsShaped, Numbered
  <2> QED BY <2>1, <2>2, <2>3, <2>4, <2>5, <1>8 DEF GraphIsShaped, B
\* Order
<1>17. B = PathsFrom(g, Start(g), {})
  <2> DEFINE T == PathsFrom(g, Start(g), {})
  <2>1. T \subseteq B /\ Start(g) \in T /\ IsClosed(g, {}, T) BY <1>16, StartIsBlock, PathsFromIs DEF B
  <2>2. B \subseteq PathsFrom(fn, Start(fn), {}) BY <1>9 DEF WalkIs, WalkReaches
  <2>3. IsClosed(fn, {}, T) /\ {Start(fn)} \ {} \subseteq T
    <3> HIDE DEF T
    <3> QED BY <2>1, <1>9, <1>10, <1>11 DEF IsClosed
  <2>4. PathsFrom(fn, Start(fn), {}) \subseteq T BY <2>3, StartIsBlock, PathsFromIs
  <2> QED BY <2>1, <2>2, <2>4
<1>18. ASSUME NEW b \in B, NEW s \in SuccSet(g, b), g.id[s] <= g.id[b]
       PROVE  b \in PathsFrom(g, s, {c \in B : g.id[c] < g.id[s]})
  <2> DEFINE shut == {c \in B : g.id[c] < g.id[s]}
             T == PathsFrom(g, s, shut)
  <2>1. s \in B /\ s \in SuccSet(fn, b) BY <1>10, <1>11, <1>15, <1>18
  <2>2. PICK i \in 1 .. n : b = po.order[i] /\ g.id[b] = n - i BY <1>14
  <2>3. PICK k \in 1 .. n : s = po.order[k] /\ g.id[s] = n - k BY <2>1, <1>14
  <2>4. s \notin shut BY <2>3, <1>2
  <2>5. s \in T /\ IsClosed(g, shut, T) /\ T \subseteq B
    <3>0. s \in Blocks(g) BY <2>1 DEF B
    <3> HIDE DEF shut
    <3> QED BY <2>1, <2>4, <3>0, <1>16, PathsFromIs DEF B
  <2>6. LeadsBack(fn, po, s, b)
    <3>1. (\E m \in DOMAIN po.order : po.order[m] = s /\ m < i) \/ LeadsBack(fn, po, s, po.order[i])
      BY <2>1, <2>2, <1>2 DEF WalkIs, WalkEdges
    <3>2. ~ (\E m \in DOMAIN po.order : po.order[m] = s /\ m < i)
      <4> SUFFICES ASSUME NEW m \in 1 .. n, po.order[m] = s, m < i PROVE FALSE BY <1>2
      <4>1. g.id[s] = n - m BY <1>12
      <4> QED BY <4>1, <2>2, <1>2, <1>18
    <3> QED BY <3>1, <3>2, <2>2
  <2>7. ASSUME NEW c \in T, NEW d \in SuccSet(fn, c), Below(po, d, s) PROVE d \in T
    <3>1. c \in B /\ d \in SuccSet(g, c) BY <2>5, <2>7, <1>10, <1>11
    <3>2. \E j, l \in DOMAIN po.order : po.order[j] = d /\ po.order[l] = s /\ j <= l
      <4>1. Range(po.path) = {} /\ DOMAIN po.path = {} BY DEF Range
      <4> QED BY <4>1, <2>7 DEF Below
    <3>3. PICK j \in 1 .. n, l \in 1 .. n : po.order[j] = d /\ po.order[l] = s /\ j <= l BY <3>2, <1>2
    <3>4. g.id[d] = n - j /\ g.id[s] = n - l BY <3>3, <1>12
    <3>5. ~ (g.id[d] < g.id[s]) BY <3>3, <3>4, <1>2
    <3> HIDE DEF T
    <3> QED BY <3>1, <3>5, <2>5 DEF IsClosed
  <2> HIDE DEF T
  <2> QED BY <2>5, <2>6, <2>7 DEF LeadsBack, T
<1>19. ASSUME NEW b \in B \ {Start(g)} PROVE \E p \in PredSet(g, b) : g.id[p] < g.id[b]
  <2>1. PICK p \in Blocks(fn) : b \in SuccSet(fn, p) /\ Below(po, b, p) /\ p # b BY <1>9, <1>19 DEF WalkIs, WalkPreds
  <2>2. \E j, l \in DOMAIN po.order : po.order[j] = b /\ po.order[l] = p /\ j <= l
    <3>1. Range(po.path) = {} /\ DOMAIN po.path = {} BY DEF Range
    <3> QED BY <3>1, <2>1 DEF Below
  <2>3. PICK j \in 1 .. n, l \in 1 .. n : po.order[j] = b /\ po.order[l] = p /\ j <= l BY <2>2, <1>2
  <2>4. g.id[b] = n - j /\ g.id[p] = n - l BY <2>3, <1>12
  <2>5. j # l BY <2>1, <2>3
  <2>6. g.id[p] < g.id[b] BY <2>3, <2>4, <2>5, <1>2
  <2>7. p \in B BY <2>3, <1>2, <1>9 DEF Range
  <2>8. p \in PredSet(g, b) BY <2>1, <2>7, <1>10, <1>11 DEF PredSet, B
  <2> QED BY <2>6, <2>8
<1>20. OrderIsRight(g)
  <2>0. IsSeq(g.rpo) BY <1>3, SeqFacts DEF IsSeq
  <2>1. Range(g.rpo) = B BY <1>3, <1>9
  <2>2. Len(g.rpo) = Cardinality(B) BY <2>1, <1>3, DistinctCardinality
  <2>3. g.rpo[1] = Start(g)
    <3>1. 1 \in 1 .. n /\ n - 1 + 1 = n BY <1>2
    <3>2. g.rpo[1] = po.order[n] BY <3>1, <1>3
    <3>3. po.order[n] = Start(fn) BY <1>1 DEF n
    <3> QED BY <3>2, <3>3, <1>9
  <2>4. ASSUME NEW i \in 1 .. n PROVE g.id[g.rpo[i]] = i - 1
    <3>1. n - i + 1 \in 1 .. n /\ n - (n - i + 1) = i - 1 BY <1>2
    <3>2. g.rpo[i] = po.order[n - i + 1] BY <1>3
    <3> QED BY <3>1, <3>2, <1>12
  <2> QED BY <2>0, <2>1, <2>2, <2>3, <2>4, <1>4, <1>17, <1>18, <1>19 DEF OrderIsRight, B
<1>21. PredsAreRight(g)
  <2> SUFFICES ASSUME NEW b \in B
               PROVE IsSeq(g.pred[b]) /\ Range(g.pred[b]) = PredSet(g, b) /\ Len(g.pred[b]) = Cardinality(PredSet(g, b))
    BY DEF PredsAreRight, B
  <2> DEFINE S == {p \in DOMAIN fn.blk : b \in {fn.blk[p].s1, fn.blk[p].s2}}
  <2>1. g.pred[b] = Kept(g.link, S) BY <1>11 DEF Numbered
  <2>2. PredSet(g, b) = B \cap S
    <3>1. b # 0 BY <1>11 DEF GraphIsShaped
    <3>2. ASSUME NEW p \in B PROVE b \in SuccSet(g, p) <=> p \in S BY <3>1, <1>10, <1>11, SuccSetIs
    <3> HIDE DEF S
    <3> QED BY <3>2 DEF PredSet, B
  <2> HIDE DEF S
  <2>3. g.pred[b] \in Seq(DOMAIN fn.blk) /\ Range(g.pred[b]) = Range(g.link) \cap S /\ Distinct(g.pred[b])
    BY <2>1, <1>8, KeptIs
  <2>4. Range(g.pred[b]) = PredSet(g, b) BY <2>2, <2>3 DEF B, Blocks
  <2>5. Cardinality(Range(g.pred[b])) = Len(g.pred[b]) BY <2>3, DistinctCardinality
  <2>6. IsSeq(g.pred[b]) BY <2>3, SeqFacts DEF IsSeq
  <2> QED BY <2>4, <2>5, <2>6
<1>22. B \subseteq Blocks(fn) BY <1>11
<1>23. ASSUME NEW b \in DOMAIN fn.blk PROVE b \in B <=> g.id[b] >= 0
  <2>1. CASE b \in B
    <3>1. PICK i \in 1 .. n : b = po.order[i] /\ g.id[b] = n - i BY <2>1, <1>14
    <3> QED BY <3>1, <2>1, <1>2
  <2>2. CASE b \notin B BY <2>2, <1>13
  <2> QED BY <2>1, <2>2
<1> QED BY <1>9, <1>16, <1>20, <1>21, <1>22, <1>23 DEF B

\* What fillpreds and fixphis leave of a function whose blocks are numbered.
LEMMA FillRpoIs ==
    ASSUME NEW fn, GraphIsShaped(fn), NEW po, Postorder(fn) = po.order
    PROVE  Numbered(fn, po, FillCfg(fn))
           /\ \E f : /\ FillCfg(fn) = FixPhis(f) /\ f.id = FillCfg(fn).id /\ DOMAIN f = DOMAIN fn
                     /\ f.blk = fn.blk /\ f.tmp = fn.tmp
<1> DEFINE rpo == Reverse(po.order)
           f1 == [fn EXCEPT !.rpo = rpo,
                            !.id = [b \in DOMAIN fn.blk |-> SelectInSeq(rpo, LAMBDA x : x = b) - 1],
                            !.link = Kept(@, Range(rpo))]
           pred == [b \in DOMAIN f1.blk |-> Kept(f1.link, {p \in DOMAIN f1.blk : b \in {f1.blk[p].s1, f1.blk[p].s2}})]
           f2 == [f1 EXCEPT !.pred = pred]
           g == FixPhis(f2)
<1>1. FillRpo(fn) = f1 BY DEF FillRpo, With
<1>2. FillPreds(f1) = f2
  <2> HIDE DEF f1
  <2> QED BY DEF FillPreds
<1>3. FillCfg(fn) = g
  <2> HIDE DEF f1
  <2>1. FillCfg(fn) = FixPhis(FillPreds(f1)) BY <1>1 DEF FillCfg, With
  <2> QED BY <2>1, <1>2
<1>4. {"rpo", "id", "link", "pred", "blk", "loop", "tmp"} \subseteq DOMAIN fn BY DEF GraphIsShaped, Computed
<1>5. /\ f1.rpo = rpo /\ f1.link = Kept(fn.link, Range(rpo)) /\ DOMAIN f1 = DOMAIN fn /\ f1.blk = fn.blk /\ f1.loop = fn.loop
      /\ f1.id = [b \in DOMAIN fn.blk |-> SelectInSeq(rpo, LAMBDA x : x = b) - 1] /\ f1.tmp = fn.tmp
  BY <1>4
<1> HIDE DEF f1
<1>6. /\ f2.rpo = f1.rpo /\ f2.link = f1.link /\ DOMAIN f2 = DOMAIN fn /\ f2.blk = fn.blk /\ f2.loop = fn.loop
      /\ f2.id = f1.id /\ f2.pred = pred /\ f2.tmp = fn.tmp
  BY <1>4, <1>5
<1>7. pred = [b \in DOMAIN fn.blk |-> Kept(f1.link, {p \in DOMAIN fn.blk : b \in {fn.blk[p].s1, fn.blk[p].s2}})]
  BY <1>5
<1> HIDE DEF f2, pred
<1>8. /\ g.rpo = f2.rpo /\ g.link = f2.link /\ DOMAIN g = DOMAIN fn /\ g.loop = f2.loop /\ g.id = f2.id /\ g.pred = f2.pred
      /\ DOMAIN g.blk = DOMAIN fn.blk
      /\ \A b \in DOMAIN fn.blk : /\ g.blk[b].s1 = fn.blk[b].s1 /\ g.blk[b].s2 = fn.blk[b].s2
                                  /\ DOMAIN g.blk[b] = DOMAIN fn.blk[b]
  <2> DEFINE stays(b, x) == f2.id[x[1]] >= 0 /\ b \in {f2.blk[x[1]].s1, f2.blk[x[1]].s2}
             fixed(b, p) == [p EXCEPT !.from = Kept(@, {x \in Range(@) : stays(b, x)})]
             phis(b) == [m \in DOMAIN f2.blk[b].phi |-> fixed(b, f2.blk[b].phi[m])]
             blks == [b \in DOMAIN f2.blk |-> IF f2.id[b] < 0 THEN f2.blk[b] ELSE [f2.blk[b] EXCEPT !.phi = phis(b)]]
  <2>1. g = [f2 EXCEPT !.blk = blks] BY DEF FixPhis
  <2> HIDE DEF phis
  <2>2. /\ DOMAIN blks = DOMAIN fn.blk
        /\ \A b \in DOMAIN fn.blk : /\ blks[b].s1 = fn.blk[b].s1 /\ blks[b].s2 = fn.blk[b].s2
                                    /\ DOMAIN blks[b] = DOMAIN fn.blk[b]
    BY <1>6
  <2> HIDE DEF blks, g
  <2> QED BY <2>1, <2>2, <1>4, <1>6
<1>9. Numbered(fn, po, g)
  <2> HIDE DEF g
  <2>1. g.rpo = Reverse(po.order) /\ g.link = Kept(fn.link, Range(g.rpo)) BY <1>5, <1>6, <1>8
  <2>2. g.id = [b \in DOMAIN fn.blk |-> SelectInSeq(g.rpo, LAMBDA x : x = b) - 1] BY <1>5, <1>6, <1>8
  <2>3. g.pred = [b \in DOMAIN fn.blk |-> Kept(g.link, {p \in DOMAIN fn.blk : b \in {fn.blk[p].s1, fn.blk[p].s2}})]
    BY <1>6, <1>7, <1>8
  <2>4. g.loop = fn.loop BY <1>6, <1>8
  <2> HIDE DEF rpo
  <2> QED BY <2>1, <2>2, <2>3, <2>4, <1>8 DEF Numbered
<1> HIDE DEF g
<1> QED BY <1>3, <1>6, <1>8, <1>9 DEF g

\* fillcfg, for every function of the right shape: the walk of porec ends; it numbers the
\* reachable blocks in a reverse postorder, and pred lists each edge into a block once.
THEOREM FillCfgIsRight ==
    ASSUME NEW fn, GraphIsShaped(fn)
    PROVE  GraphIsShaped(FillCfg(fn)) /\ OrderIsRight(FillCfg(fn)) /\ PredsAreRight(FillCfg(fn))
<1>1. PICK po : Postorder(fn) = po.order /\ WalkIs(fn, po) /\ po.path = <<>> BY PostorderIs
<1>2. Numbered(fn, po, FillCfg(fn)) BY <1>1, FillRpoIs
<1> QED BY <1>1, <1>2, NumberedIs

-----------------------------------------------------------------------------
\* What fixphis leaves of a block: its phis lose operands, and nothing else.
Fixed(old, new) ==
    /\ new.ins = old.ins /\ new.ja = old.ja
    /\ IsSeq(old.phi) => IsSeq(new.phi) /\ DOMAIN new.phi = DOMAIN old.phi
    /\ \A n \in DOMAIN old.phi :
         /\ new.phi[n].to = old.phi[n].to /\ DOMAIN new.phi[n] = DOMAIN old.phi[n]
         /\ IsSeq(old.phi[n].from) => IsSeq(new.phi[n].from) /\ Range(new.phi[n].from) \subseteq Range(old.phi[n].from)

\* fillcfg changes no instruction, and no phi but by dropping operands.
LEMMA CfgFixes ==
    ASSUME NEW fn, GraphIsShaped(fn)
    PROVE  /\ FillCfg(fn).tmp = fn.tmp /\ Blocks(FillCfg(fn)) \subseteq Blocks(fn)
           /\ \A b \in Blocks(FillCfg(fn)) : Fixed(fn.blk[b], FillCfg(fn).blk[b])
<1> DEFINE g == FillCfg(fn)
<1>1. PICK po : Postorder(fn) = po.order /\ WalkIs(fn, po) /\ po.path = <<>> BY PostorderIs
<1>2. Numbered(fn, po, g) BY <1>1, FillRpoIs
<1>3. /\ Blocks(g) \subseteq Blocks(fn) /\ \A b \in DOMAIN fn.blk : b \in Blocks(g) <=> g.id[b] >= 0
      /\ OrderIsRight(g)
  BY <1>1, <1>2, NumberedIs
<1>4. PICK f : g = FixPhis(f) /\ f.id = g.id /\ DOMAIN f = DOMAIN fn /\ f.blk = fn.blk /\ f.tmp = fn.tmp
  BY <1>1, FillRpoIs
<1>5. {"blk", "tmp"} \subseteq DOMAIN f BY <1>4 DEF GraphIsShaped
<1> DEFINE stays(b, x) == f.id[x[1]] >= 0 /\ b \in {f.blk[x[1]].s1, f.blk[x[1]].s2}
           fixed(b, p) == [p EXCEPT !.from = Kept(@, {x \in Range(@) : stays(b, x)})]
           phis(b) == [m \in DOMAIN f.blk[b].phi |-> fixed(b, f.blk[b].phi[m])]
           blks == [b \in DOMAIN f.blk |-> IF f.id[b] < 0 THEN f.blk[b] ELSE [f.blk[b] EXCEPT !.phi = phis(b)]]
<1>6. FixPhis(f) = [f EXCEPT !.blk = blks] BY DEF FixPhis
<1> HIDE DEF blks
<1>7. g.blk = blks /\ g.tmp = fn.tmp BY <1>4, <1>5, <1>6
<1>8. ASSUME NEW b \in Blocks(g) PROVE Fixed(fn.blk[b], g.blk[b])
  <2>1. b \in DOMAIN fn.blk /\ ~ (f.id[b] < 0)
    <3>1. b \in DOMAIN fn.blk
      <4>1. fn.link \in Seq(DOMAIN fn.blk) BY DEF GraphIsShaped
      <4>2. Blocks(fn) \subseteq DOMAIN fn.blk BY <4>1 DEF Blocks, Range
      <4> QED BY <4>2, <1>3, <1>8
    <3>2. PICK n \in DOMAIN g.rpo : b = g.rpo[n] BY <1>3, <1>8 DEF OrderIsRight, Range
    <3>3. g.id[b] = n - 1 /\ n \in Nat /\ n >= 1
      <4>1. DOMAIN g.rpo = 1 .. Len(g.rpo) BY <1>3 DEF OrderIsRight, IsSeq
      <4> QED BY <4>1, <3>2, <1>3 DEF OrderIsRight
    <3> QED BY <3>1, <3>3, <1>4
  <2> DEFINE old == fn.blk[b]
             new == g.blk[b]
  <2>2. new = [old EXCEPT !.phi = phis(b)] BY <1>4, <1>7, <2>1 DEF blks
  <2> HIDE DEF phis
  <2>3. new.ins = old.ins /\ new.ja = old.ja /\ new.phi = phis(b) BY <2>2
  <2>4. DOMAIN phis(b) = DOMAIN old.phi /\ \A n \in DOMAIN old.phi : phis(b)[n] = fixed(b, old.phi[n])
    BY <1>4 DEF phis
  <2> HIDE DEF new, old
  <2>5. ASSUME IsSeq(old.phi) PROVE IsSeq(new.phi) /\ DOMAIN new.phi = DOMAIN old.phi
    <3>1. DOMAIN old.phi = 1 .. Len(old.phi) /\ Len(old.phi) \in Nat BY <2>5 DEF IsSeq
    <3>2. phis(b) = [n \in 1 .. Len(old.phi) |-> phis(b)[n]] BY <2>4, <3>1 DEF phis
    <3>3. DOMAIN phis(b) = DOMAIN old.phi BY <2>4
    <3> DEFINE new_phi == phis(b)
    <3>4. new_phi = [n \in 1 .. Len(old.phi) |-> new_phi[n]] BY <3>2
    <3> HIDE DEF new_phi
    <3>5. IsSeq(new_phi) BY <3>4, <3>1 DEF IsSeq, Range
    <3> QED BY <3>5, <3>3, <2>3 DEF new_phi
  <2>6. ASSUME NEW n \in DOMAIN old.phi, NEW p, p = old.phi[n]
        PROVE  /\ new.phi[n].to = p.to /\ DOMAIN new.phi[n] = DOMAIN p
               /\ IsSeq(p.from) => IsSeq(new.phi[n].from) /\ Range(new.phi[n].from) \subseteq Range(p.from)
    <3> DEFINE S == {x \in Range(p.from) : stays(b, x)}
    <3>1. new.phi[n] = [p EXCEPT !.from = Kept(@, S)] BY <2>3, <2>4, <2>6
    <3>2. ASSUME IsSeq(p.from) PROVE IsSeq(Kept(p.from, S)) /\ Range(Kept(p.from, S)) \subseteq Range(p.from)
      <4>1. p.from \in Seq(Range(p.from)) BY <3>2 DEF IsSeq
      <4> HIDE DEF S
      <4>2. Kept(p.from, S) \in Seq(Range(p.from)) /\ Range(Kept(p.from, S)) = Range(p.from) \cap S BY <4>1, KeptIs
      <4>3. Kept(p.from, S) \in Seq(Range(Kept(p.from, S))) BY <4>2, SeqFacts
      <4> QED BY <4>2, <4>3 DEF IsSeq
    <3> HIDE DEF S
    <3> QED BY <3>1, <3>2
  <2> QED BY <2>3, <2>5, <2>6 DEF Fixed, old, new
<1> QED BY <1>3, <1>7, <1>8 DEF g

-----------------------------------------------------------------------------
(* One instruction, and one block *)

IsCall(i) == i.op = "call" /\ i.arg[2][1] = "call"
InsTo(i) == IF i.to = R THEN {} ELSE {i.to[2]}
InsGen(i) == TmpsOf(i.arg[1]) \cup TmpsOf(i.arg[2]) \cup (IF IsCall(i) THEN ArgRegs(i.arg[2]) \ InsTo(i) ELSE {})
InsKill(i) == InsTo(i) \cup (IF IsCall(i) THEN RetRegs(i.arg[2]) ELSE {})

LiveFields == {"live", "nlv", "gen", "peak"}

\* The peak is only noted.
LEMMA PeakIs ==
    ASSUME NEW acc, DOMAIN acc = LiveFields
    PROVE  Peak(acc).live = acc.live /\ DOMAIN Peak(acc) = LiveFields
BY DEF Peak, LiveFields

\* What is read becomes live.
LEMMA TouchIs ==
    ASSUME NEW acc, DOMAIN acc = LiveFields, NEW S
    PROVE  Touch(acc, S).live = acc.live \cup S /\ DOMAIN Touch(acc, S) = LiveFields
<1> DEFINE c == Cardinality(S \ acc.live)
<1>1. Touch(acc, S) = [acc EXCEPT !.live = @ \cup S, !.gen = @ \cup S, !.nlv = @ + c] BY DEF Touch
<1> HIDE DEF c
<1> QED BY <1>1 DEF LiveFields

\* Backwards over an instruction: what it writes is live no more, what it reads is.
LEMMA LiveInsIs ==
    ASSUME NEW acc, DOMAIN acc = LiveFields, NEW i
    PROVE  LiveIns(acc, i).live = InsGen(i) \cup (acc.live \ InsKill(i)) /\ DOMAIN LiveIns(acc, i) = LiveFields
<1> DEFINE call == i.op = "call" /\ i.arg[2][1] = "call"
           n1 == acc.nlv - NRetRegs(i.arg[2]) + Len(CallerSave)
           one == [acc EXCEPT !.nlv = @ - NRetRegs(i.arg[2]) + Len(CallerSave)]
           inCall == Peak(one)
           before == [inCall EXCEPT !.live = (@ \ RetRegs(i.arg[2])) \cup ArgRegs(i.arg[2]),
                                    !.nlv = @ - Len(CallerSave) + NArgsIn(i.arg[2])]
           def(a) == IF i.to = R THEN a
                     ELSE [a EXCEPT !.live = @ \ {i.to[2]}, !.gen = @ \cup {i.to[2]},
                                    !.nlv = IF i.to[2] \in a.live THEN @ - 1 ELSE @]
           start == IF call THEN before ELSE acc
           done == def(start)
           S == TmpsOf(i.arg[1]) \cup TmpsOf(i.arg[2])
<1>1. LiveIns(acc, i) = Peak(Touch(done, S)) BY DEF LiveIns, With
<1>2. DOMAIN one = LiveFields /\ one.live = acc.live BY DEF LiveFields
<1>3. DOMAIN inCall = LiveFields /\ inCall.live = acc.live
  <2> HIDE DEF one
  <2> QED BY <1>2, PeakIs
<1>4. DOMAIN before = LiveFields /\ before.live = (acc.live \ RetRegs(i.arg[2])) \cup ArgRegs(i.arg[2])
  <2> HIDE DEF inCall
  <2> QED BY <1>3 DEF LiveFields
<1>5. DOMAIN start = LiveFields
      /\ start.live = IF IsCall(i) THEN (acc.live \ RetRegs(i.arg[2])) \cup ArgRegs(i.arg[2]) ELSE acc.live
  <2> HIDE DEF before
  <2> QED BY <1>4 DEF IsCall
<1>6. DOMAIN done = LiveFields /\ done.live = start.live \ InsTo(i)
  <2> HIDE DEF start
  <2>1. CASE i.to = R BY <2>1, <1>5 DEF InsTo
  <2>2. CASE i.to # R BY <2>2, <1>5 DEF InsTo, LiveFields
  <2> QED BY <2>1, <2>2
<1> HIDE DEF done, S
<1>7. DOMAIN Touch(done, S) = LiveFields /\ Touch(done, S).live = done.live \cup S BY <1>6, TouchIs
<1>8. DOMAIN LiveIns(acc, i) = LiveFields /\ LiveIns(acc, i).live = done.live \cup S BY <1>1, <1>7, PeakIs
<1> HIDE DEF start
<1>9. done.live \cup S = InsGen(i) \cup (acc.live \ InsKill(i))
  <2>1. CASE IsCall(i) BY <2>1, <1>5, <1>6 DEF InsGen, InsKill, S
  <2>2. CASE ~ IsCall(i) BY <2>2, <1>5, <1>6 DEF InsGen, InsKill, S
  <2> QED BY <2>1, <2>2
<1> QED BY <1>8, <1>9

\* u is read in the last instructions of ins, from m + 1 on, before it is written there.
ReadIn(ins, m, u) ==
    \E k \in m + 1 .. Len(ins) : u \in InsGen(ins[k]) /\ \A j \in m + 1 .. k - 1 : u \notin InsKill(ins[j])
Untouched(ins, m, u) == \A k \in m + 1 .. Len(ins) : u \notin InsKill(ins[k])

JumpGen(blk) == IF blk.ja[1] = "call" THEN RetRegs(blk.ja) ELSE TmpsOf(blk.ja)

InsLive(x, y, z, a, e) == LiveIns(a, e)
InsLiveKeeps(q, n, a) ==
    /\ DOMAIN a = LiveFields
    /\ \A u : u \in a.live <=> \/ ReadIn(q.blk.ins, Len(q.blk.ins) - n, u)
                               \/ u \in q.out \cup RGlob \cup JumpGen(q.blk) /\ Untouched(q.blk.ins, Len(q.blk.ins) - n, u)
InsLoop == INSTANCE Loops WITH Op <- InsLive, More <- NeverMore, Keeps <- InsLiveKeeps, Measure <- Nothing

\* What a block reads before it writes it, and what it passes on.
LEMMA LiveBlockIs ==
    ASSUME NEW blk, IsSeq(blk.ins), NEW out
    PROVE  \A u : u \in LiveBlock(blk, out).live <=>
                    ReadIn(blk.ins, 0, u) \/ (u \in out \cup RGlob \cup JumpGen(blk) /\ Untouched(blk.ins, 0, u))
<1> DEFINE ins == blk.ins
           N == Len(ins)
           rev == Reverse(ins)
           q == [blk |-> blk, out |-> out]
           here == out \cup RGlob
           jump == IF blk.ja[1] = "call"
                   THEN [live |-> here \cup RetRegs(blk.ja), nlv |-> NRetRegs(blk.ja), gen |-> {}, peak |-> 0]
                   ELSE Touch([live |-> here, nlv |-> Cardinality(here), gen |-> {}, peak |-> 0], TmpsOf(blk.ja))
           first == [jump EXCEPT !.peak = jump.nlv]
           r == InsLoop!EachTurn(0, 0, 0, first, rev)
<1>1. LiveBlock(blk, out) = r
  BY DEF LiveBlock, InsLoop!EachTurn, InsLoop!Each, Each, InsLoop!With, With, InsLive
<1>2. ins \in Seq(Range(ins)) /\ N \in Nat BY DEF IsSeq
<1>3. /\ Len(rev) = N
      /\ \A i \in 1 .. N : rev[i] = ins[N - i + 1]
  BY <1>2 DEF Reverse
<1>4. DOMAIN first = LiveFields /\ first.live = out \cup RGlob \cup JumpGen(blk)
  <2>1. DOMAIN jump = LiveFields /\ jump.live = out \cup RGlob \cup JumpGen(blk)
    <3>1. CASE blk.ja[1] = "call" BY <3>1 DEF JumpGen, LiveFields
    <3>2. CASE blk.ja[1] # "call"
      <4> DEFINE at == [live |-> here, nlv |-> Cardinality(here), gen |-> {}, peak |-> 0]
      <4>1. DOMAIN at = LiveFields /\ at.live = here BY DEF LiveFields
      <4>2. jump = Touch(at, TmpsOf(blk.ja)) BY <3>2
      <4> HIDE DEF at, jump
      <4>3. jump.live = here \cup TmpsOf(blk.ja) /\ DOMAIN jump = LiveFields BY <4>1, <4>2, TouchIs
      <4> QED BY <4>3, <3>2 DEF JumpGen
    <3> QED BY <3>1, <3>2
  <2> HIDE DEF jump
  <2> QED BY <2>1 DEF LiveFields
<1> HIDE DEF first
<1>5. InsLiveKeeps(q, 0, first)
  <2>1. N - 0 + 1 .. N = {} BY <1>2
  <2>2. \A u : ~ ReadIn(ins, N - 0, u) /\ Untouched(ins, N - 0, u) BY <2>1 DEF ReadIn, Untouched
  <2> QED BY <2>2, <1>4 DEF InsLiveKeeps
<1>6. ASSUME NEW n \in 1 .. N, NEW a, InsLiveKeeps(q, n - 1, a) PROVE InsLiveKeeps(q, n, InsLive(0, 0, 0, a, rev[n]))
  <2> DEFINE i == rev[n]
             b == LiveIns(a, i)
             m == N - n
  <2>1. m \in Nat /\ m + 1 \in 1 .. N /\ N - (n - 1) = m + 1 /\ i = ins[m + 1] BY <1>2, <1>3
  <2>2. DOMAIN a = LiveFields
        /\ \A u : u \in a.live <=> ReadIn(ins, m + 1, u) \/ (u \in out \cup RGlob \cup JumpGen(blk) /\ Untouched(ins, m + 1, u))
    BY <1>6, <2>1 DEF InsLiveKeeps
  <2>3. b.live = InsGen(i) \cup (a.live \ InsKill(i)) /\ DOMAIN b = LiveFields BY <2>2, LiveInsIs
  <2> HIDE DEF b, m, i
  <2>4. ASSUME NEW u PROVE Untouched(ins, m, u) <=> u \notin InsKill(i) /\ Untouched(ins, m + 1, u)
    <3>1. \A k : k \in m + 1 .. N <=> k = m + 1 \/ k \in m + 1 + 1 .. N BY <1>2, <2>1
    <3> HIDE DEF ins, N
    <3> QED BY <3>1, <2>1 DEF Untouched, N
  <2>5. ASSUME NEW u PROVE ReadIn(ins, m, u) <=> u \in InsGen(i) \/ (u \notin InsKill(i) /\ ReadIn(ins, m + 1, u))
    <3>1. ASSUME ReadIn(ins, m, u), u \notin InsGen(i) PROVE u \notin InsKill(i) /\ ReadIn(ins, m + 1, u)
      <4>1. PICK k \in m + 1 .. N : u \in InsGen(ins[k]) /\ \A j \in m + 1 .. k - 1 : u \notin InsKill(ins[j])
        BY <3>1 DEF ReadIn
      <4>2. k # m + 1 BY <3>1, <4>1, <2>1
      <4>3. k \in m + 1 + 1 .. N /\ m + 1 \in m + 1 .. k - 1 BY <4>2, <1>2, <2>1
      <4>4. \A j : j \in m + 1 + 1 .. k - 1 => j \in m + 1 .. k - 1 BY <2>1
      <4>5. ReadIn(ins, m + 1, u) BY <4>1, <4>3, <4>4 DEF ReadIn
      <4>6. u \notin InsKill(i) BY <4>1, <4>3, <2>1
      <4> QED BY <4>5, <4>6
    <3>2. ASSUME u \in InsGen(i) PROVE ReadIn(ins, m, u)
      <4>1. m + 1 \in m + 1 .. N /\ m + 1 .. (m + 1) - 1 = {} BY <1>2, <2>1
      <4> QED BY <4>1, <3>2, <2>1 DEF ReadIn
    <3>3. ASSUME u \notin InsKill(i), ReadIn(ins, m + 1, u) PROVE ReadIn(ins, m, u)
      <4>1. PICK k \in m + 1 + 1 .. N : u \in InsGen(ins[k]) /\ \A j \in m + 1 + 1 .. k - 1 : u \notin InsKill(ins[j])
        BY <3>3 DEF ReadIn
      <4>2. k \in m + 1 .. N /\ \A j : j \in m + 1 .. k - 1 => j = m + 1 \/ j \in m + 1 + 1 .. k - 1 BY <2>1, <1>2
      <4>3. \A j \in m + 1 .. k - 1 : u \notin InsKill(ins[j]) BY <4>1, <4>2, <3>3, <2>1
      <4> QED BY <4>1, <4>2, <4>3 DEF ReadIn
    <3> QED BY <3>1, <3>2, <3>3
  <2>6. \A u : u \in b.live <=> ReadIn(ins, m, u) \/ (u \in out \cup RGlob \cup JumpGen(blk) /\ Untouched(ins, m, u))
    BY <2>2, <2>3, <2>4, <2>5
  <2>7. InsLiveKeeps(q, n, b)
    <3>1. q.blk = blk /\ q.out = out OBVIOUS
    <3> HIDE DEF q
    <3> QED BY <2>3, <2>6, <3>1 DEF InsLiveKeeps, m
  <2> QED BY <2>7 DEF InsLive, b, i
<1>7. InsLiveKeeps(q, Len(rev), r)
  <2> HIDE DEF q, rev, ins
  <2> QED BY <1>2, <1>3, <1>5, <1>6, InsLoop!EachKeeps DEF N
<1> HIDE DEF r
<1>8. N - Len(rev) = 0 BY <1>2, <1>3
<1> QED BY <1>1, <1>7, <1>8 DEF InsLiveKeeps

-----------------------------------------------------------------------------
(* What is live of the temporaries *)

WritesPhi(blk, t) == \E p \in Range(blk.phi) : p.to = Tmp(t)

\* Registers come before temporaries.
LEMMA TargetIs == Tmp0 \in Nat /\ 5 < Tmp0 /\ RGlob \subseteq Registers /\ (\A r \in Registers : r < Tmp0)
                  /\ \A c : RetRegs(c) \subseteq Registers
<1>1. Tmp0 \in Nat /\ Tmp0 > 5 BY TargetAssumption
<1>2. RGlob \subseteq Registers BY <1>1 DEF RGlob, RBP, RSP, Registers
<1>3. \A c : RetRegs(c) \subseteq Registers BY <1>1 DEF RetRegs, RAX, RDX, Registers
<1>4. \A r \in Registers : r < Tmp0 BY <1>1 DEF Registers
<1> QED BY <1>1, <1>2, <1>3, <1>4

\* An instruction reads and writes a temporary by its operands only.
LEMMA TempInIns ==
    ASSUME NEW fn, OperandsAreShaped(fn), NEW b \in Blocks(fn), NEW i \in Range(fn.blk[b].ins), NEW t \in TmpSet(fn)
    PROVE  (t \in InsGen(i) <=> t \in TempsIn(i)) /\ (t \in InsKill(i) <=> i.to = Tmp(t))
<1>1. t \in Int /\ t >= Tmp0 /\ t \notin Registers /\ t # 0 BY TargetIs DEF TmpSet
<1>2. i.to = Tmp(i.to[2]) BY DEF OperandsAreShaped
<1>3. IsCall(i) => ArgRegs(i.arg[2]) \subseteq Registers BY DEF OperandsAreShaped, IsCall
<1>4. RetRegs(i.arg[2]) \subseteq Registers BY TargetIs
<1>5. t \in InsTo(i) <=> i.to = Tmp(t) BY <1>1, <1>2 DEF InsTo, R, NoTmp, Tmp
<1>6. t \in InsGen(i) <=> t \in TempsIn(i) BY <1>1, <1>3 DEF InsGen, TempsIn
<1>7. t \in InsKill(i) <=> i.to = Tmp(t) BY <1>1, <1>4, <1>5 DEF InsKill
<1> QED BY <1>6, <1>7

\* So does a jump; a phi writes at the head of its block.
LEMMA TempInJump ==
    ASSUME NEW fn, OperandsAreShaped(fn), NEW b \in Blocks(fn), NEW t \in TmpSet(fn)
    PROVE  (t \in JumpGen(fn.blk[b]) <=> fn.blk[b].ja = Tmp(t)) /\ t \notin RGlob
           /\ (t \in PhiDefs(fn.blk[b]) <=> WritesPhi(fn.blk[b], t))
<1> DEFINE ja == fn.blk[b].ja
           phi == fn.blk[b].phi
<1>1. t \in Int /\ t >= Tmp0 /\ t \notin Registers /\ t # 0 BY TargetIs DEF TmpSet
<1>2. ja[1] # "mem" /\ (IsTmp(ja) => ja = Tmp(ja[2])) BY DEF OperandsAreShaped
<1>3. t \in JumpGen(fn.blk[b]) <=> ja = Tmp(t)
  <2>1. CASE ja[1] = "call"
    <3>1. RetRegs(ja) \subseteq Registers BY TargetIs
    <3>2. ja # Tmp(t) BY <2>1 DEF Tmp
    <3> QED BY <2>1, <3>1, <3>2, <1>1 DEF JumpGen
  <2>2. CASE ja[1] # "call"
    <3>1. JumpGen(fn.blk[b]) = IF IsTmp(ja) THEN {ja[2]} ELSE {} BY <2>2, <1>2 DEF JumpGen, TmpsOf
    <3>2. ja = Tmp(t) => IsTmp(ja) /\ ja[2] = t BY <1>1 DEF Tmp, IsTmp, NoTmp
    <3> HIDE DEF ja
    <3> QED BY <3>1, <3>2, <1>2
  <2> QED BY <2>1, <2>2
<1>4. t \in PhiDefs(fn.blk[b]) <=> WritesPhi(fn.blk[b], t)
  <2>1. \A p \in Range(phi) : p.to = Tmp(p.to[2]) BY DEF OperandsAreShaped
  <2>2. \A p \in Range(phi) : IsTmp(p.to) /\ p.to[2] = t <=> p.to = Tmp(t) BY <2>1, <1>1 DEF Tmp, IsTmp, NoTmp
  <2>3. PhiDefs(fn.blk[b]) = {phi[n].to[2] : n \in {m \in DOMAIN phi : IsTmp(phi[m].to)}} BY DEF PhiDefs
  <2>4. Range(phi) = {phi[n] : n \in DOMAIN phi} BY DEF Range
  <2> HIDE DEF phi
  <2>5. t \in PhiDefs(fn.blk[b]) <=> \E n \in DOMAIN phi : IsTmp(phi[n].to) /\ phi[n].to[2] = t BY <2>3
  <2>6. WritesPhi(fn.blk[b], t) <=> \E n \in DOMAIN phi : phi[n].to = Tmp(t) BY <2>4 DEF WritesPhi, phi
  <2> QED BY <2>2, <2>4, <2>5, <2>6
<1> QED BY <1>1, <1>3, <1>4, TargetIs

\* Reading first, by the instructions in order.
LEMMA TempReads ==
    ASSUME NEW fn, OperandsAreShaped(fn), NEW b \in Blocks(fn), NEW t \in TmpSet(fn)
    PROVE  /\ WritesTemp(fn.blk[b], t) <=> WritesPhi(fn.blk[b], t) \/ ~ Untouched(fn.blk[b].ins, 0, t)
           /\ ReadsFirst(fn.blk[b], t) <=>
                ~ WritesPhi(fn.blk[b], t)
                /\ (ReadIn(fn.blk[b].ins, 0, t) \/ (t \in JumpGen(fn.blk[b]) /\ Untouched(fn.blk[b].ins, 0, t)))
<1> DEFINE ins == fn.blk[b].ins
           N == Len(ins)
           writes == {n \in DOMAIN ins : ins[n].to = Tmp(t)}
           reads == {n \in DOMAIN ins : t \in TempsIn(ins[n])}
           first == IF writes = {} THEN N + 1 ELSE Min(writes)
<1>1. IsSeq(ins) BY DEF OperandsAreShaped
<1>2. N \in Nat /\ DOMAIN ins = 1 .. N BY <1>1 DEF IsSeq
<1>3. \A n \in 1 .. N : ins[n] \in Range(ins) BY <1>2 DEF Range
<1>4. \A n \in 1 .. N : (t \in InsGen(ins[n]) <=> n \in reads) /\ (t \in InsKill(ins[n]) <=> n \in writes)
  BY <1>2, <1>3, TempInIns
<1>5. 0 + 1 .. N = 1 .. N OBVIOUS
<1>6. reads \subseteq 1 .. N /\ writes \subseteq 1 .. N BY <1>2
<1>7. WritesTemp(fn.blk[b], t) <=> WritesPhi(fn.blk[b], t) \/ writes # {}
  <2>1. (\E i \in Range(ins) : i.to = Tmp(t)) <=> writes # {} BY DEF Range
  <2> QED BY <2>1 DEF WritesTemp, WritesPhi
<1>8. ReadsFirst(fn.blk[b], t) <=> ~ WritesPhi(fn.blk[b], t)
                                   /\ ((\E n \in reads : n <= first) \/ (writes = {} /\ fn.blk[b].ja = Tmp(t)))
  BY DEF ReadsFirst, WritesPhi
<1>9. first \in Nat /\ (writes # {} => first \in writes) /\ (\A w \in writes : first <= w) /\ (writes = {} => first = N + 1)
  <2>1. CASE writes = {} BY <2>1, <1>2
  <2>2. CASE writes # {}
    <3>1. writes \subseteq Nat BY <1>6
    <3> HIDE DEF writes
    <3>2. \E n \in writes : \A m \in writes : n <= m BY <2>2, <3>1, PathLoop!Least
    <3>3. first \in writes /\ \A w \in writes : first <= w BY <2>2, <3>2 DEF Min
    <3> QED BY <2>2, <3>1, <3>3
  <2> QED BY <2>1, <2>2
<1>10. t \in JumpGen(fn.blk[b]) <=> fn.blk[b].ja = Tmp(t) BY TempInJump
<1> HIDE DEF reads, writes, first, ins, N
<1>11. Untouched(ins, 0, t) <=> writes = {} BY <1>4, <1>5, <1>6 DEF Untouched, N
<1>12. ReadIn(ins, 0, t) <=> \E n \in reads : n <= first
  <2>1. ReadIn(ins, 0, t) <=> \E n \in reads : \A j \in 1 .. n - 1 : j \notin writes
    <3>1. ReadIn(ins, 0, t) <=> \E n \in 1 .. N : t \in InsGen(ins[n]) /\ \A j \in 1 .. n - 1 : t \notin InsKill(ins[j])
      BY <1>5 DEF ReadIn, N
    <3>2. \A n \in 1 .. N : \A j \in 1 .. n - 1 : j \in 1 .. N BY <1>2
    <3>3. ASSUME NEW n \in 1 .. N
          PROVE  (t \in InsGen(ins[n]) /\ \A j \in 1 .. n - 1 : t \notin InsKill(ins[j]))
                 <=> (n \in reads /\ \A j \in 1 .. n - 1 : j \notin writes)
      BY <3>2, <1>4
    <3> QED BY <3>1, <3>3, <1>6
  <2>2. ASSUME NEW n \in reads PROVE n <= first <=> \A j \in 1 .. n - 1 : j \notin writes
    <3>1. n \in 1 .. N BY <1>6
    <3>2. ASSUME n <= first, NEW j \in 1 .. n - 1 PROVE j \notin writes BY <3>1, <3>2, <1>2, <1>9
    <3>3. ASSUME ~ (n <= first) PROVE \E j \in 1 .. n - 1 : j \in writes
      <4>1. writes # {} BY <3>1, <3>3, <1>2, <1>9
      <4>2. first \in writes /\ first \in 1 .. N BY <4>1, <1>6, <1>9
      <4>3. first \in 1 .. n - 1 BY <4>2, <3>1, <3>3, <1>2
      <4> QED BY <4>2, <4>3
    <3> QED BY <3>2, <3>3
  <2> QED BY <2>1, <2>2
<1> QED BY <1>7, <1>8, <1>10, <1>11, <1>12 DEF ins

\* What is needed on entry of a block, besides what its phis write.
LEMMA TempLive ==
    ASSUME NEW fn, OperandsAreShaped(fn), NEW b \in Blocks(fn), NEW t \in TmpSet(fn), NEW out
    PROVE  t \in LiveBlock(fn.blk[b], out).live \ PhiDefs(fn.blk[b]) <=>
             ReadsFirst(fn.blk[b], t) \/ (t \in out /\ ~ WritesTemp(fn.blk[b], t))
<1>1. IsSeq(fn.blk[b].ins) BY DEF OperandsAreShaped
<1>2. t \in LiveBlock(fn.blk[b], out).live <=>
        ReadIn(fn.blk[b].ins, 0, t) \/ (t \in out \cup RGlob \cup JumpGen(fn.blk[b]) /\ Untouched(fn.blk[b].ins, 0, t))
  BY <1>1, LiveBlockIs
<1> QED BY <1>2, TempReads, TempInJump

-----------------------------------------------------------------------------
(* What some path reads *)

Readers(fn, t) ==
    {b \in Blocks(fn) : ReadsFirst(fn.blk[b], t) \/ (~ WritesTemp(fn.blk[b], t) /\ PhiOf(fn, b, t))}
Shut(fn, t) == {b \in Blocks(fn) \ Readers(fn, t) : WritesTemp(fn.blk[b], t)}
Needs(fn, t, s) == PathsFrom(fn, s, Shut(fn, t)) \cap Readers(fn, t) # {}

\* Needed after a block, by its successors.
LEMMA NeededAfterIs ==
    ASSUME NEW fn, NEW t
    PROVE  NeededAfter(fn, t) = {b \in Blocks(fn) : PhiOf(fn, b, t) \/ \E s \in SuccSet(fn, b) : Needs(fn, t, s)}
BY DEF NeededAfter, Needs, Readers, Shut

\* A set of blocks that passes on what its successors need, and takes what they read,
\* is where t is needed.
LEMMA NeedsComesFrom ==
    ASSUME NEW fn, GraphIsShaped(fn), NEW t, NEW s \in Blocks(fn),
           ReadsFirst(fn.blk[s], t) \/ (~ WritesTemp(fn.blk[s], t) /\ s \in NeededAfter(fn, t))
    PROVE  Needs(fn, t, s)
<1> DEFINE W == Readers(fn, t)
           C == Shut(fn, t)
           T == PathsFrom(fn, s, C)
<1>1. s \notin C => s \in T /\ IsClosed(fn, C, T) BY PathsFromIs
<1>2. CASE s \in W BY <1>1, <1>2 DEF Needs, Shut
<1>3. CASE s \notin W
  <2>1. ~ ReadsFirst(fn.blk[s], t) /\ ~ WritesTemp(fn.blk[s], t) /\ s \in NeededAfter(fn, t) /\ ~ PhiOf(fn, s, t)
    BY <1>3 DEF Readers
  <2>2. PICK d \in SuccSet(fn, s) : Needs(fn, t, d) BY <2>1, NeededAfterIs
  <2>3. s \in T /\ IsClosed(fn, C, T) BY <2>1, <1>1 DEF Shut
  <2>4. d \in Blocks(fn) BY <2>2, SuccsAreBlocks
  <2>5. {d} \ C \subseteq T BY <2>3 DEF IsClosed
  <2> HIDE DEF T
  <2>6. PathsFrom(fn, d, C) \subseteq T BY <2>3, <2>4, <2>5, PathsFromIs
  <2> QED BY <2>2, <2>6 DEF Needs, T
<1> QED BY <1>2, <1>3

\* Nothing less than what some path reads is closed under the rules of the iteration.
LEMMA NeedsIsLeast ==
    ASSUME NEW fn, GraphIsShaped(fn), NEW t, NEW O, O \subseteq Blocks(fn),
           \A b \in Blocks(fn) : PhiOf(fn, b, t) => b \in O,
           \A b \in Blocks(fn) : \A s \in SuccSet(fn, b) :
             ReadsFirst(fn.blk[s], t) \/ (~ WritesTemp(fn.blk[s], t) /\ s \in O) => b \in O
    PROVE  NeededAfter(fn, t) \subseteq O
<1> DEFINE A == {s \in Blocks(fn) : ReadsFirst(fn.blk[s], t) \/ (~ WritesTemp(fn.blk[s], t) /\ s \in O)}
           C == Shut(fn, t)
           T == (Blocks(fn) \ A) \ C
<1>1. ASSUME NEW s \in Blocks(fn), Needs(fn, t, s) PROVE s \in A
  <2> SUFFICES ASSUME s \notin A PROVE FALSE OBVIOUS
  <2>1. {s} \ C \subseteq T BY <1>1
  <2>2. T \cap Readers(fn, t) = {} BY DEF Readers
  <2>3. IsClosed(fn, C, T)
    <3>1. ASSUME NEW c \in T, NEW d \in SuccSet(fn, c), d \in A PROVE FALSE
      <4>1. c \in Blocks(fn) /\ c \notin A /\ c \notin C /\ c \notin Readers(fn, t) BY <2>2
      <4>2. ~ WritesTemp(fn.blk[c], t) BY <4>1 DEF Shut
      <4>3. c \in O BY <4>1, <3>1
      <4> QED BY <4>1, <4>2, <4>3
    <3>2. \A c \in T : SuccSet(fn, c) \subseteq Blocks(fn) BY SuccsAreBlocks
    <3> QED BY <3>1, <3>2 DEF IsClosed
  <2> HIDE DEF T
  <2>4. PathsFrom(fn, s, C) \subseteq T BY <2>1, <2>3, PathsFromIs
  <2> QED BY <2>2, <2>4, <1>1 DEF Needs
<1>2. ASSUME NEW b \in NeededAfter(fn, t) PROVE b \in O
  <2>1. b \in Blocks(fn) /\ (PhiOf(fn, b, t) \/ \E s \in SuccSet(fn, b) : Needs(fn, t, s)) BY NeededAfterIs
  <2>2. CASE PhiOf(fn, b, t) BY <2>1, <2>2
  <2>3. CASE \E s \in SuccSet(fn, b) : Needs(fn, t, s)
    <3>1. PICK s \in SuccSet(fn, b) : Needs(fn, t, s) BY <2>3
    <3>2. s \in Blocks(fn) BY <2>1, <3>1, SuccsAreBlocks
    <3> QED BY <2>1, <3>1, <3>2, <1>1
  <2> QED BY <2>1, <2>2, <2>3
<1> QED BY <1>2

-----------------------------------------------------------------------------
(* The iteration of filllive *)

InTemps(fn, in, b, t) == t \in in[b] \ PhiDefs(fn.blk[b])
LiveFrom(fn, in, b) == UNION {LiveOn(fn, in, b, s) : s \in Range(Succs(fn.blk[b]))}

LiveTypes(fn, l) ==
    /\ l = [in |-> l.in, out |-> l.out, again |-> l.again] /\ l.again \in BOOLEAN
    /\ l.in \in [DOMAIN fn.blk -> SUBSET DOMAIN fn.tmp] /\ l.out \in [DOMAIN fn.blk -> SUBSET DOMAIN fn.tmp]
\* Nothing is live that no path reads, and what a block takes follows from what it gives.
LiveBounds(fn, l) ==
    \A b \in Blocks(fn) :
      /\ l.in[b] \subseteq LiveBlock(fn.blk[b], l.out[b]).live
      /\ \A t \in TmpSet(fn) : t \in l.out[b] => b \in NeededAfter(fn, t)
LiveSettled(fn, l, b) ==
    /\ LiveFrom(fn, l.in, b) \subseteq l.out[b]
    /\ LiveBlock(fn.blk[b], l.out[b]).live \subseteq l.in[b]
LiveGrows(fn, l, m) == \A b \in DOMAIN fn.blk : l.in[b] \subseteq m.in[b] /\ l.out[b] \subseteq m.out[b]

\* More live out of a block, more live into it.
LEMMA LiveBlockGrows ==
    ASSUME NEW blk, IsSeq(blk.ins), NEW X, NEW Y, X \subseteq Y \cup RGlob
    PROVE  LiveBlock(blk, X).live \subseteq LiveBlock(blk, Y).live
BY LiveBlockIs

\* Only temporaries there are become live.
LEMMA LiveBlockInTmp ==
    ASSUME NEW fn, OperandsAreShaped(fn), NEW b \in Blocks(fn), NEW X, X \subseteq DOMAIN fn.tmp
    PROVE  LiveBlock(fn.blk[b], X).live \subseteq DOMAIN fn.tmp
<1> DEFINE blk == fn.blk[b]
<1>1. IsSeq(blk.ins) /\ Registers \subseteq DOMAIN fn.tmp BY DEF OperandsAreShaped
<1>2. ASSUME NEW u, ReadIn(blk.ins, 0, u) PROVE u \in DOMAIN fn.tmp
  <2>1. PICK k \in 0 + 1 .. Len(blk.ins) : u \in InsGen(blk.ins[k]) BY <1>2 DEF ReadIn
  <2>2. blk.ins[k] \in Range(blk.ins) BY <1>1 DEF IsSeq, Range
  <2> DEFINE i == blk.ins[k]
  <2>3. TmpsOf(i.arg[1]) \cup TmpsOf(i.arg[2]) \subseteq DOMAIN fn.tmp /\ (IsCall(i) => ArgRegs(i.arg[2]) \subseteq Registers)
    BY <2>2 DEF OperandsAreShaped, IsCall
  <2> HIDE DEF i
  <2>4. InsGen(i) \subseteq DOMAIN fn.tmp BY <2>3, <1>1 DEF InsGen
  <2> QED BY <2>1, <2>4 DEF i
<1>3. JumpGen(blk) \subseteq DOMAIN fn.tmp
  <2>1. TmpsOf(blk.ja) \subseteq DOMAIN fn.tmp BY DEF OperandsAreShaped
  <2> QED BY <2>1, <1>1, TargetIs DEF JumpGen
<1>4. RGlob \subseteq DOMAIN fn.tmp BY <1>1, TargetIs
<1> HIDE DEF blk
<1> QED BY <1>1, <1>2, <1>3, <1>4, LiveBlockIs DEF blk

\* So do only those at the end of a block.
LEMMA LiveFromInTmp ==
    ASSUME NEW fn, GraphIsShaped(fn), OperandsAreShaped(fn), NEW b \in Blocks(fn),
           NEW in \in [DOMAIN fn.blk -> SUBSET DOMAIN fn.tmp]
    PROVE  LiveFrom(fn, in, b) \subseteq DOMAIN fn.tmp
<1>1. SuccSet(fn, b) \subseteq Blocks(fn) /\ Blocks(fn) \subseteq DOMAIN fn.blk BY SuccsAreBlocks
<1>2. ASSUME NEW s \in SuccSet(fn, b) PROVE LiveOn(fn, in, b, s) \subseteq DOMAIN fn.tmp
  <2>1. PhiUses(fn.blk[s], b) \subseteq DOMAIN fn.tmp BY <1>1 DEF OperandsAreShaped
  <2> QED BY <1>1, <2>1 DEF LiveOn
<1> QED BY <1>2 DEF LiveFrom, SuccSet

LiveStep(x, y, z, acc, b) ==
    LET out == acc.out[b] \cup UNION {LiveOn(x, acc.in, b, s) : s \in Range(Succs(x.blk[b]))}
    IN [acc EXCEPT !.in[b] = LiveBlock(x.blk[b], out).live, !.out[b] = out \cup RGlob]

\* One block has its turn: nothing is live that no path reads, and nothing is taken back.
LEMMA LiveStepIs ==
    ASSUME NEW fn, GraphIsShaped(fn), OperandsAreShaped(fn), NEW b \in Blocks(fn),
           NEW a, LiveTypes(fn, a), LiveBounds(fn, a)
    PROVE  LET c == LiveStep(fn, 0, 0, a, b)
           IN LiveTypes(fn, c) /\ LiveBounds(fn, c) /\ LiveGrows(fn, a, c)
              /\ (c.in = a.in /\ c.out = a.out => LiveSettled(fn, a, b))
<1> DEFINE from == LiveFrom(fn, a.in, b)
           out == a.out[b] \cup from
           in == LiveBlock(fn.blk[b], out).live
           c == LiveStep(fn, 0, 0, a, b)
<1>1. b \in DOMAIN fn.blk /\ Blocks(fn) \subseteq DOMAIN fn.blk /\ SuccSet(fn, b) \subseteq Blocks(fn)
      /\ IsSeq(fn.blk[b].ins) /\ RGlob \subseteq DOMAIN fn.tmp
  BY SuccsAreBlocks, TargetIs DEF OperandsAreShaped
<1>2. /\ a = [in |-> a.in, out |-> a.out, again |-> a.again] /\ a.again \in BOOLEAN
      /\ a.in \in [DOMAIN fn.blk -> SUBSET DOMAIN fn.tmp] /\ a.out \in [DOMAIN fn.blk -> SUBSET DOMAIN fn.tmp]
  BY DEF LiveTypes
<1>3. c = [a EXCEPT !.in[b] = in, !.out[b] = out \cup RGlob] BY DEF LiveStep, LiveFrom
<1>4. out \subseteq DOMAIN fn.tmp BY <1>1, <1>2, LiveFromInTmp
<1>5. in \subseteq DOMAIN fn.tmp BY <1>4, LiveBlockInTmp
<1> HIDE DEF in, out, c, from
<1>6. /\ c.in = [a.in EXCEPT ![b] = in] /\ c.out = [a.out EXCEPT ![b] = out \cup RGlob] /\ c.again = a.again
      /\ c = [in |-> c.in, out |-> c.out, again |-> c.again]
  BY <1>2, <1>3
<1>7. /\ c.in \in [DOMAIN fn.blk -> SUBSET DOMAIN fn.tmp] /\ \A d \in DOMAIN fn.blk : c.in[d] = IF d = b THEN in ELSE a.in[d]
  BY <1>1, <1>2, <1>5, <1>6
<1>8. c.out \in [DOMAIN fn.blk -> SUBSET DOMAIN fn.tmp]
      /\ \A d \in DOMAIN fn.blk : c.out[d] = IF d = b THEN out \cup RGlob ELSE a.out[d]
  BY <1>1, <1>2, <1>4, <1>6
<1>9. LiveTypes(fn, c) BY <1>2, <1>6, <1>7, <1>8 DEF LiveTypes
<1>10. a.in[b] \subseteq in
  <2>1. a.in[b] \subseteq LiveBlock(fn.blk[b], a.out[b]).live BY DEF LiveBounds
  <2>2. a.out[b] \subseteq out \cup RGlob BY DEF out
  <2>3. LiveBlock(fn.blk[b], a.out[b]).live \subseteq in BY <2>2, <1>1, LiveBlockGrows DEF in
  <2> QED BY <2>1, <2>3
<1>11. LiveGrows(fn, a, c)
  <2>1. a.out[b] \subseteq out BY DEF out
  <2> QED BY <2>1, <1>7, <1>8, <1>10 DEF LiveGrows
<1>12. LiveBounds(fn, c)
  <2>1. ASSUME NEW d \in Blocks(fn) PROVE c.in[d] \subseteq LiveBlock(fn.blk[d], c.out[d]).live
    <3>1. d \in DOMAIN fn.blk BY <1>1
    <3>2. CASE d = b
      <4>1. out \subseteq (out \cup RGlob) \cup RGlob OBVIOUS
      <4>2. in \subseteq LiveBlock(fn.blk[b], out \cup RGlob).live BY <4>1, <1>1, LiveBlockGrows DEF in
      <4> QED BY <4>2, <3>1, <3>2, <1>7, <1>8
    <3>3. CASE d # b
      <4>1. c.in[d] = a.in[d] /\ c.out[d] = a.out[d] BY <3>1, <3>3, <1>7, <1>8
      <4> QED BY <4>1 DEF LiveBounds
    <3> QED BY <3>2, <3>3
  <2>2. ASSUME NEW d \in Blocks(fn), NEW t \in TmpSet(fn), t \in c.out[d] PROVE d \in NeededAfter(fn, t)
    <3>1. d \in DOMAIN fn.blk BY <1>1
    <3>2. CASE t \in a.out[d] BY <3>2 DEF LiveBounds
    <3>3. CASE t \notin a.out[d]
      <4>1. d = b /\ t \in from
        <5>1. d = b /\ t \in out \cup RGlob BY <2>2, <3>1, <3>3, <1>8
        <5>2. t \notin RGlob BY TempInJump
        <5> QED BY <5>1, <5>2, <3>3 DEF out
      <4>2. PICK s \in SuccSet(fn, b) : t \in LiveOn(fn, a.in, b, s) BY <4>1 DEF from, LiveFrom, SuccSet
      <4>3. s \in Blocks(fn) BY <4>2, <1>1
      <4>4. CASE t \in PhiUses(fn.blk[s], b)
        <5>1. PhiOf(fn, b, t) BY <4>2, <4>4 DEF PhiOf
        <5> QED BY <5>1, <4>1, NeededAfterIs
      <4>5. CASE t \in a.in[s] \ PhiDefs(fn.blk[s])
        <5>1. t \in LiveBlock(fn.blk[s], a.out[s]).live \ PhiDefs(fn.blk[s]) BY <4>3, <4>5 DEF LiveBounds
        <5>2. ReadsFirst(fn.blk[s], t) \/ (t \in a.out[s] /\ ~ WritesTemp(fn.blk[s], t)) BY <5>1, <4>3, TempLive
        <5>3. ReadsFirst(fn.blk[s], t) \/ (~ WritesTemp(fn.blk[s], t) /\ s \in NeededAfter(fn, t))
          BY <5>2, <4>3 DEF LiveBounds
        <5>4. Needs(fn, t, s) BY <5>3, <4>3, NeedsComesFrom
        <5> QED BY <5>4, <4>1, <4>2, NeededAfterIs
      <4> QED BY <4>2, <4>4, <4>5 DEF LiveOn
    <3> QED BY <3>2, <3>3
  <2> QED BY <2>1, <2>2 DEF LiveBounds
<1>13. ASSUME c.in = a.in, c.out = a.out PROVE LiveSettled(fn, a, b)
  <2>1. a.in[b] = in /\ a.out[b] = out \cup RGlob BY <1>1, <1>7, <1>8, <1>13
  <2>2. from \subseteq a.out[b] BY <2>1 DEF out
  <2>3. LiveBlock(fn.blk[b], a.out[b]).live \subseteq in BY <2>1, <1>1, LiveBlockGrows DEF in
  <2> QED BY <2>1, <2>2, <2>3 DEF LiveSettled, from
<1> QED BY <1>9, <1>11, <1>12, <1>13 DEF c

LiveStepKeeps(q, n, a) ==
    /\ LiveTypes(q.fn, a) /\ LiveBounds(q.fn, a) /\ LiveGrows(q.fn, q.l, a)
    /\ a.in = q.l.in /\ a.out = q.l.out => \A i \in 1 .. n : LiveSettled(q.fn, q.l, q.s[i])
LiveStepLoop == INSTANCE Loops WITH Op <- LiveStep, More <- NeverMore, Keeps <- LiveStepKeeps, Measure <- Nothing

\* Sets that only grow and are equal in the end never changed.
LEMMA GrowsBackAndForth ==
    ASSUME NEW fn, NEW l, NEW a, NEW c, LiveTypes(fn, l), LiveTypes(fn, a), LiveGrows(fn, l, a), LiveGrows(fn, a, c),
           c.in = l.in, c.out = l.out
    PROVE  a.in = l.in /\ a.out = l.out
<1>1. \A b \in DOMAIN fn.blk : a.in[b] = l.in[b] /\ a.out[b] = l.out[b] BY DEF LiveGrows
<1> QED BY <1>1 DEF LiveTypes

\* All blocks have a turn; when nothing changed, every block agrees with its successors.
LEMMA LiveTurnIs ==
    ASSUME NEW fn, GraphIsShaped(fn), OperandsAreShaped(fn), fn.rpo \in Seq(Blocks(fn)), NEW l, LiveTypes(fn, l), LiveBounds(fn, l)
    PROVE  LET m == LiveTurn(fn, l)
           IN /\ LiveTypes(fn, m) /\ LiveBounds(fn, m) /\ LiveGrows(fn, l, m)
              /\ m.again <=> m.in # l.in \/ m.out # l.out
              /\ ~ m.again => \A b \in Range(fn.rpo) : LiveSettled(fn, m, b)
<1> DEFINE s == Reverse(fn.rpo)
           q == [fn |-> fn, l |-> l, s |-> s]
           r == LiveStepLoop!EachTurn(fn, 0, 0, l, s)
           m == LiveTurn(fn, l)
<1>1. m = [r EXCEPT !.again = r.in # l.in \/ r.out # l.out]
  BY DEF LiveTurn, LiveStepLoop!EachTurn, LiveStepLoop!Each, Each, LiveStepLoop!With, With, LiveStep
<1>2. Len(s) = Len(fn.rpo) /\ Len(s) \in Nat /\ \A i \in 1 .. Len(s) : s[i] \in Blocks(fn) /\ s[i] = fn.rpo[Len(s) - i + 1]
  BY DEF Reverse
<1> HIDE DEF s
<1>3. q.fn = fn /\ q.l = l /\ q.s = s OBVIOUS
<1> HIDE DEF q, r
<1>4. LiveStepKeeps(q, 0, l) BY <1>3 DEF LiveStepKeeps, LiveGrows
<1>5. ASSUME NEW i \in 1 .. Len(s), NEW a, LiveStepKeeps(q, i - 1, a)
      PROVE LiveStepKeeps(q, i, LiveStep(fn, 0, 0, a, s[i]))
  <2> DEFINE b == s[i]
             c == LiveStep(fn, 0, 0, a, b)
  <2>1. LiveTypes(fn, a) /\ LiveBounds(fn, a) /\ LiveGrows(fn, l, a)
        /\ (a.in = l.in /\ a.out = l.out => \A j \in 1 .. i - 1 : LiveSettled(fn, l, s[j]))
    BY <1>3, <1>5 DEF LiveStepKeeps
  <2>2. LiveTypes(fn, c) /\ LiveBounds(fn, c) /\ LiveGrows(fn, a, c) /\ (c.in = a.in /\ c.out = a.out => LiveSettled(fn, a, b))
    BY <1>2, <2>1, LiveStepIs
  <2> HIDE DEF c
  <2>3. LiveGrows(fn, l, c) BY <2>1, <2>2 DEF LiveGrows
  <2>4. ASSUME c.in = l.in, c.out = l.out, NEW j \in 1 .. i PROVE LiveSettled(fn, l, s[j])
    <3>1. a.in = l.in /\ a.out = l.out BY <2>1, <2>2, <2>4, GrowsBackAndForth
    <3>2. CASE j \in 1 .. i - 1 BY <3>1, <3>2, <2>1
    <3>3. CASE j = i BY <3>1, <3>3, <2>2, <2>4 DEF LiveSettled
    <3> QED BY <3>2, <3>3
  <2>5. LiveStepKeeps(q, i, c) BY <2>2, <2>3, <2>4, <1>3 DEF LiveStepKeeps
  <2> QED BY <2>5 DEF c
<1>6. LiveStepKeeps(q, Len(s), r)
  <2>1. \A i \in 1 .. Len(s) : \A a : LiveStepKeeps(q, i - 1, a) => LiveStepKeeps(q, i, LiveStep(fn, 0, 0, a, s[i]))
    BY <1>5
  <2> QED BY <1>2, <1>4, <2>1, LiveStepLoop!EachKeeps DEF r
<1>7. LiveTypes(fn, r) /\ LiveBounds(fn, r) /\ LiveGrows(fn, l, r)
      /\ (r.in = l.in /\ r.out = l.out => \A i \in 1 .. Len(s) : LiveSettled(fn, l, s[i]))
  BY <1>3, <1>6 DEF LiveStepKeeps
<1>8. m.in = r.in /\ m.out = r.out /\ m.again = (r.in # l.in \/ r.out # l.out)
      /\ m = [in |-> m.in, out |-> m.out, again |-> m.again]
  BY <1>1, <1>7 DEF LiveTypes
<1> HIDE DEF m
<1>9. LiveTypes(fn, m) /\ LiveBounds(fn, m) /\ LiveGrows(fn, l, m) BY <1>7, <1>8 DEF LiveTypes, LiveBounds, LiveGrows
<1>10. ASSUME ~ m.again, NEW b \in Range(fn.rpo) PROVE LiveSettled(fn, m, b)
  <2>1. PICK i \in 1 .. Len(fn.rpo) : b = fn.rpo[i] BY DEF Range
  <2>2. Len(s) - i + 1 \in 1 .. Len(s) /\ Len(s) - (Len(s) - i + 1) + 1 = i BY <1>2
  <2>3. b = s[Len(s) - i + 1] BY <2>1, <2>2, <1>2
  <2>4. LiveSettled(fn, l, b) BY <2>2, <2>3, <1>7, <1>8, <1>10
  <2> QED BY <2>4, <1>8, <1>10 DEF LiveSettled
<1> QED BY <1>8, <1>9, <1>10 DEF m

LiveFixOp(x, y, z, a, e) == LiveTurn(x, a)
LiveFixMore(x, y, z, a) == a.again
LiveFixKeeps(q, n, a) ==
    LiveTypes(q, a) /\ LiveBounds(q, a) /\ (~ a.again => \A b \in Range(q.rpo) : LiveSettled(q, a, b))
\* What is not live yet on entry, and on exit.
NotIn(fn, a) == {x \in (DOMAIN fn.blk) \X (DOMAIN fn.tmp) : x[2] \notin a.in[x[1]]}
NotOut(fn, a) == {x \in (DOMAIN fn.blk) \X (DOMAIN fn.tmp) : x[2] \notin a.out[x[1]]}
LiveFixLeft(q, a) == Cardinality(NotIn(q, a)) + Cardinality(NotOut(q, a)) + (IF a.again THEN 1 ELSE 0)
LiveFixLoop == INSTANCE Loops WITH Op <- LiveFixOp, More <- LiveFixMore, Keeps <- LiveFixKeeps, Measure <- LiveFixLeft

\* What is not live yet can be counted.
LEMMA NotLiveIsFinite ==
    ASSUME NEW fn, GraphIsShaped(fn), OperandsAreShaped(fn), NEW a
    PROVE  IsFiniteSet(NotIn(fn, a)) /\ Cardinality(NotIn(fn, a)) \in Nat
           /\ IsFiniteSet(NotOut(fn, a)) /\ Cardinality(NotOut(fn, a)) \in Nat
<1>1. IsFiniteSet(DOMAIN fn.blk) BY DEF GraphIsShaped
<1>2. IsFiniteSet(DOMAIN fn.tmp)
  <2>1. DOMAIN fn.tmp = 0 .. NTmp(fn) - 1 /\ NTmp(fn) \in Nat BY DEF OperandsAreShaped
  <2>2. NTmp(fn) - 1 \in Int /\ 0 \in Int BY <2>1
  <2> QED BY <2>1, <2>2, FS_Interval
<1>3. IsFiniteSet((DOMAIN fn.blk) \X (DOMAIN fn.tmp)) BY <1>1, <1>2, FS_Product
<1>4. IsFiniteSet(NotIn(fn, a)) /\ IsFiniteSet(NotOut(fn, a)) BY <1>3, FS_Subset DEF NotIn, NotOut
<1> QED BY <1>4, FS_CardinalityType

\* It gets less with every turn that changes something.
LEMMA NotLiveShrinks ==
    ASSUME NEW fn, NEW a, NEW c, LiveTypes(fn, a), LiveTypes(fn, c), LiveGrows(fn, a, c)
    PROVE  /\ NotIn(fn, c) \subseteq NotIn(fn, a) /\ (c.in # a.in => NotIn(fn, c) # NotIn(fn, a))
           /\ NotOut(fn, c) \subseteq NotOut(fn, a) /\ (c.out # a.out => NotOut(fn, c) # NotOut(fn, a))
<1>1. NotIn(fn, c) \subseteq NotIn(fn, a) BY DEF NotIn, LiveGrows
<1>2. NotOut(fn, c) \subseteq NotOut(fn, a) BY DEF NotOut, LiveGrows
<1>3. ASSUME c.in # a.in PROVE NotIn(fn, c) # NotIn(fn, a)
  <2>1. PICK b \in DOMAIN fn.blk : c.in[b] # a.in[b] BY <1>3 DEF LiveTypes
  <2>2. PICK t \in DOMAIN fn.tmp : t \in c.in[b] /\ t \notin a.in[b] BY <2>1 DEF LiveTypes, LiveGrows
  <2> DEFINE x == <<b, t>>
  <2>3. x \in NotIn(fn, a) /\ x \notin NotIn(fn, c) BY <2>2 DEF NotIn
  <2> QED BY <2>3
<1>4. ASSUME c.out # a.out PROVE NotOut(fn, c) # NotOut(fn, a)
  <2>1. PICK b \in DOMAIN fn.blk : c.out[b] # a.out[b] BY <1>4 DEF LiveTypes
  <2>2. PICK t \in DOMAIN fn.tmp : t \in c.out[b] /\ t \notin a.out[b] BY <2>1 DEF LiveTypes, LiveGrows
  <2> DEFINE x == <<b, t>>
  <2>3. x \in NotOut(fn, a) /\ x \notin NotOut(fn, c) BY <2>2 DEF NotOut
  <2> QED BY <2>3
<1> QED BY <1>1, <1>2, <1>3, <1>4

\* The iteration ends, with every block settled.
LEMMA LiveFixIs ==
    ASSUME NEW fn, GraphIsShaped(fn), OperandsAreShaped(fn), fn.rpo \in Seq(Blocks(fn))
    PROVE  LiveTypes(fn, LiveFix(fn)) /\ LiveBounds(fn, LiveFix(fn))
           /\ \A b \in Range(fn.rpo) : LiveSettled(fn, LiveFix(fn), b)
<1> DEFINE none == [b \in DOMAIN fn.blk |-> {}]
           sets == [DOMAIN fn.blk -> SUBSET (DOMAIN fn.tmp)]
           S == [in : sets, out : sets, again : BOOLEAN]
           first == [in |-> none, out |-> none, again |-> TRUE]
           r == LiveFixLoop!WhileMore(S, fn, 0, 0, first)
<1>1. LiveFix(fn) = r
  BY DEF LiveFix, LiveFixLoop!WhileMore, LiveFixLoop!While, While, LiveFixLoop!With, With, LiveFixOp, LiveFixMore
<1>2. LiveFixKeeps(fn, 0, first)
  <2>1. LiveTypes(fn, first) BY DEF LiveTypes
  <2>2. LiveBounds(fn, first)
    <3>1. Blocks(fn) \subseteq DOMAIN fn.blk BY SuccsAreBlocks
    <3> QED BY <3>1 DEF LiveBounds
  <2> QED BY <2>1, <2>2 DEF LiveFixKeeps
<1>3. ASSUME NEW a, LiveFixKeeps(fn, 0, a) PROVE a \in S /\ LiveFixLeft(fn, a) \in Nat
  <2>1. LiveTypes(fn, a) BY <1>3 DEF LiveFixKeeps
  <2>2. a \in S BY <2>1 DEF LiveTypes
  <2> QED BY <2>2, NotLiveIsFinite DEF LiveFixLeft
<1>4. ASSUME NEW a, LiveFixKeeps(fn, 0, a), LiveFixMore(fn, 0, 0, a)
      PROVE  LiveFixKeeps(fn, 0, LiveFixOp(fn, 0, 0, a, 0)) /\ LiveFixLeft(fn, LiveFixOp(fn, 0, 0, a, 0)) < LiveFixLeft(fn, a)
  <2> DEFINE c == LiveTurn(fn, a)
  <2>1. LiveTypes(fn, a) /\ LiveBounds(fn, a) /\ a.again BY <1>4 DEF LiveFixKeeps, LiveFixMore
  <2>2. /\ LiveTypes(fn, c) /\ LiveBounds(fn, c) /\ LiveGrows(fn, a, c)
        /\ c.again <=> c.in # a.in \/ c.out # a.out
        /\ ~ c.again => \A b \in Range(fn.rpo) : LiveSettled(fn, c, b)
    BY <2>1, LiveTurnIs
  <2> HIDE DEF c
  <2>3. /\ NotIn(fn, c) \subseteq NotIn(fn, a) /\ (c.in # a.in => NotIn(fn, c) # NotIn(fn, a))
        /\ NotOut(fn, c) \subseteq NotOut(fn, a) /\ (c.out # a.out => NotOut(fn, c) # NotOut(fn, a))
    BY <2>1, <2>2, NotLiveShrinks
  <2> DEFINE ia == Cardinality(NotIn(fn, a))
             ic == Cardinality(NotIn(fn, c))
             oa == Cardinality(NotOut(fn, a))
             oc == Cardinality(NotOut(fn, c))
  <2>4. IsFiniteSet(NotIn(fn, a)) /\ IsFiniteSet(NotOut(fn, a)) /\ ia \in Nat /\ ic \in Nat /\ oa \in Nat /\ oc \in Nat
    BY NotLiveIsFinite
  <2>5. ic <= ia /\ oc <= oa BY <2>3, <2>4, FS_Subset
  <2>6. (c.in # a.in => ic < ia) /\ (c.out # a.out => oc < oa) BY <2>3, <2>4, StrictlySmaller
  <2> HIDE DEF ia, ic, oa, oc
  <2>7. LiveFixLeft(fn, c) < LiveFixLeft(fn, a)
    <3>1. LiveFixLeft(fn, c) = ic + oc + (IF c.again THEN 1 ELSE 0) /\ LiveFixLeft(fn, a) = ia + oa + 1
      BY <2>1 DEF LiveFixLeft, ia, ic, oa, oc
    <3>2. CASE c.again
      <4>1. ic + oc < ia + oa BY <3>2, <2>2, <2>4, <2>5, <2>6
      <4> QED BY <4>1, <3>1, <3>2, <2>4
    <3>3. CASE ~ c.again BY <3>1, <3>3, <2>4, <2>5
    <3> QED BY <3>2, <3>3
  <2>8. LiveFixKeeps(fn, 0, c) BY <2>2 DEF LiveFixKeeps
  <2> QED BY <2>7, <2>8 DEF LiveFixOp, c
<1>5. LiveFixKeeps(fn, 0, r) /\ ~ LiveFixMore(fn, 0, 0, r)
  <2> HIDE DEF S, first
  <2> QED BY <1>2, <1>3, <1>4, LiveFixLoop!WhileEnds
<1> HIDE DEF r
<1> QED BY <1>1, <1>5 DEF LiveFixKeeps, LiveFixMore

\* What is live out of a block is what some path reads.
LEMMA LiveOutIs ==
    ASSUME NEW fn, GraphIsShaped(fn), OperandsAreShaped(fn), fn.rpo \in Seq(Blocks(fn)), Range(fn.rpo) = Blocks(fn),
           NEW b \in Blocks(fn)
    PROVE  {t \in LiveFix(fn).out[b] : t >= Tmp0} = {t \in TmpSet(fn) : b \in NeededAfter(fn, t)}
<1> DEFINE l == LiveFix(fn)
<1>1. LiveTypes(fn, l) /\ LiveBounds(fn, l) /\ \A c \in Blocks(fn) : LiveSettled(fn, l, c) BY LiveFixIs
<1> HIDE DEF l
<1>2. b \in DOMAIN fn.blk /\ Blocks(fn) \subseteq DOMAIN fn.blk BY SuccsAreBlocks
<1>3. DOMAIN fn.tmp = 0 .. NTmp(fn) - 1 /\ Tmp0 \in Nat BY TargetIs DEF OperandsAreShaped
<1>4. ASSUME NEW t \in l.out[b], t >= Tmp0 PROVE t \in TmpSet(fn) /\ b \in NeededAfter(fn, t)
  <2>1. t \in DOMAIN fn.tmp BY <1>1, <1>2 DEF LiveTypes
  <2>2. t \in TmpSet(fn)
    <3>1. t \in 0 .. NTmp(fn) - 1 BY <2>1, <1>3
    <3> QED BY <3>1, <1>3, <1>4 DEF TmpSet
  <2> QED BY <2>2, <1>1, <1>4 DEF LiveBounds
<1>5. ASSUME NEW t \in TmpSet(fn), b \in NeededAfter(fn, t) PROVE t \in l.out[b] /\ t >= Tmp0
  <2> DEFINE O == {c \in Blocks(fn) : t \in l.out[c]}
  <2>1. ASSUME NEW c \in Blocks(fn), PhiOf(fn, c, t) PROVE c \in O
    <3>1. PICK s \in SuccSet(fn, c) : t \in PhiUses(fn.blk[s], c) BY <2>1 DEF PhiOf
    <3>2. t \in LiveFrom(fn, l.in, c) BY <3>1 DEF LiveFrom, LiveOn, SuccSet
    <3> QED BY <3>2, <1>1 DEF LiveSettled
  <2>2. ASSUME NEW c \in Blocks(fn), NEW s \in SuccSet(fn, c), ReadsFirst(fn.blk[s], t) \/ (~ WritesTemp(fn.blk[s], t) /\ s \in O)
        PROVE  c \in O
    <3>1. s \in Blocks(fn) BY SuccsAreBlocks
    <3>2. t \in LiveBlock(fn.blk[s], l.out[s]).live \ PhiDefs(fn.blk[s]) BY <2>2, <3>1, TempLive
    <3>3. t \in l.in[s] \ PhiDefs(fn.blk[s]) BY <3>1, <3>2, <1>1 DEF LiveSettled
    <3>4. t \in LiveFrom(fn, l.in, c) BY <3>3 DEF LiveFrom, LiveOn, SuccSet
    <3> QED BY <3>4, <1>1 DEF LiveSettled
  <2>3. O \subseteq Blocks(fn) OBVIOUS
  <2> HIDE DEF O
  <2>4. NeededAfter(fn, t) \subseteq O BY <2>1, <2>2, <2>3, NeedsIsLeast
  <2>5. t >= Tmp0
    <3>1. t \in Tmp0 .. NTmp(fn) - 1 BY DEF TmpSet
    <3> QED BY <3>1
  <2> QED BY <2>4, <2>5, <1>5 DEF O
<1> QED BY <1>4, <1>5 DEF l

\* Liveness reads nothing of a function but its blocks.

LEMMA NeededAfterSame ==
    ASSUME NEW f, NEW g, GraphIsShaped(f), GraphIsShaped(g), SameCode(f, g), NEW t
    PROVE  NeededAfter(f, t) = NeededAfter(g, t)
<1>1. Blocks(f) = Blocks(g) /\ \A b : SuccSet(f, b) = SuccSet(g, b) BY DEF SameCode, Blocks, SuccSet
<1>2. \A b : PhiOf(f, b, t) <=> PhiOf(g, b, t) BY <1>1 DEF PhiOf, SameCode
<1>3. Readers(f, t) = Readers(g, t) BY <1>1, <1>2 DEF Readers, SameCode
<1>4. Shut(f, t) = Shut(g, t) BY <1>1, <1>3 DEF Shut, SameCode
<1>5. \A s \in Blocks(f) : Needs(f, t, s) <=> Needs(g, t, s) BY <1>1, <1>3, <1>4, SamePaths DEF Needs
<1>6. \A b \in Blocks(f) : SuccSet(f, b) \subseteq Blocks(f) BY SuccsAreBlocks
<1>7. NeededAfter(f, t) = {b \in Blocks(f) : PhiOf(f, b, t) \/ \E s \in SuccSet(f, b) : Needs(f, t, s)}
  BY NeededAfterIs
<1>8. NeededAfter(g, t) = {b \in Blocks(g) : PhiOf(g, b, t) \/ \E s \in SuccSet(g, b) : Needs(g, t, s)}
  BY NeededAfterIs
<1>9. ASSUME NEW b \in Blocks(f)
      PROVE  (PhiOf(f, b, t) \/ \E s \in SuccSet(f, b) : Needs(f, t, s))
             <=> (PhiOf(g, b, t) \/ \E s \in SuccSet(g, b) : Needs(g, t, s))
  BY <1>1, <1>2, <1>5, <1>6
<1> QED BY <1>1, <1>7, <1>8, <1>9

\* Nor does the liveness of its results.
LEMMA LivenessSame ==
    ASSUME NEW f, NEW g, GraphIsShaped(f), GraphIsShaped(g), SameCode(f, g), f.out = g.out, LivenessIsRight(f)
    PROVE  LivenessIsRight(g)
<1>1. Blocks(f) = Blocks(g) /\ TmpSet(f) = TmpSet(g) BY DEF SameCode, Blocks, TmpSet, NTmp
<1>2. \A t \in TmpSet(f) : NeededAfter(f, t) = NeededAfter(g, t) BY NeededAfterSame
<1>3. NeededOut(f) = NeededOut(g) BY <1>1, <1>2 DEF NeededOut, With
<1> QED BY <1>1, <1>3 DEF LivenessIsRight, With

\* filllive: the iteration ends, and a temporary is live out of a block exactly when some
\* path from its end reads the temporary before writing it.
THEOREM FillLiveIsRight ==
    ASSUME NEW fn, GraphIsShaped(fn), OperandsAreShaped(fn), fn.rpo \in Seq(Blocks(fn)), Range(fn.rpo) = Blocks(fn)
    PROVE  /\ GraphIsShaped(FillLive(fn)) /\ SameGraph(fn, FillLive(fn)) /\ SameCode(fn, FillLive(fn))
           /\ LivenessIsRight(FillLive(fn))
<1> DEFINE l == LiveFix(fn)
           at == [b \in Range(fn.rpo) |-> LiveBlock(fn.blk[b], l.out[b])]
           gen == [b \in DOMAIN fn.blk |-> IF b \notin DOMAIN at THEN {}
                     ELSE at[b].gen \cup UNION {PhiUses(fn.blk[s], b) : s \in Range(Succs(fn.blk[b]))}]
           nlive == [b \in DOMAIN fn.blk |-> IF b \notin DOMAIN at THEN 0 ELSE at[b].peak]
           g == FillLive(fn)
<1>1. g = [fn EXCEPT !.in = l.in, !.out = l.out, !.gen = gen, !.nlive = nlive]
  <2>1. g = LiveResult(fn, l) BY DEF FillLive, With
  <2>2. LiveResult(fn, l) = [fn EXCEPT !.in = l.in, !.out = l.out, !.gen = gen, !.nlive = nlive]
    BY DEF LiveResult, With
  <2> QED BY <2>1, <2>2
<1> HIDE DEF l, gen, nlive, g
<1>2. Computed \cup {"link", "blk", "tmp"} \subseteq DOMAIN fn BY DEF GraphIsShaped
<1>3. /\ g.link = fn.link /\ g.blk = fn.blk /\ g.tmp = fn.tmp /\ g.loop = fn.loop /\ g.out = l.out /\ DOMAIN g = DOMAIN fn
  BY <1>1, <1>2 DEF Computed
<1>4. GraphIsShaped(g) BY <1>3 DEF GraphIsShaped, Blocks
<1>5. SameCode(fn, g) /\ SameGraph(fn, g)
  <2>1. g.rpo = fn.rpo /\ g.id = fn.id /\ g.pred = fn.pred BY <1>1, <1>2 DEF Computed
  <2> QED BY <2>1, <1>3 DEF SameCode, SameGraph
<1>6. Blocks(g) = Blocks(fn) /\ TmpSet(g) = TmpSet(fn) BY <1>3 DEF Blocks, TmpSet, NTmp
<1>7. \A b \in Blocks(fn) : {t \in g.out[b] : t >= Tmp0} = {t \in TmpSet(fn) : b \in NeededAfter(fn, t)}
  BY <1>3, LiveOutIs DEF l
<1>8. \A t \in TmpSet(fn) : NeededAfter(g, t) = NeededAfter(fn, t) BY <1>4, <1>5, NeededAfterSame
<1>9. LivenessIsRight(g)
  <2>1. NeededOut(g) = [b \in Blocks(fn) |-> {t \in TmpSet(fn) : b \in NeededAfter(fn, t)}]
    <3> DEFINE after == [t \in TmpSet(g) |-> NeededAfter(g, t)]
    <3>1. NeededOut(g) = [b \in Blocks(g) |-> {t \in TmpSet(g) : b \in after[t]}] BY DEF NeededOut, With
    <3>2. \A t \in TmpSet(fn) : after[t] = NeededAfter(fn, t) BY <1>6, <1>8
    <3> HIDE DEF after
    <3>3. \A b : {t \in TmpSet(fn) : b \in after[t]} = {t \in TmpSet(fn) : b \in NeededAfter(fn, t)} BY <3>2
    <3> QED BY <3>1, <3>3, <1>6
  <2> QED BY <2>1, <1>6, <1>7 DEF LivenessIsRight, With
<1> QED BY <1>4, <1>5, <1>9 DEF g

-----------------------------------------------------------------------------
(* Facts are about fields *)

\* The same jumps, the same paths.
LEMMA GraphSame ==
    ASSUME NEW f, NEW g, GraphIsShaped(f), GraphIsShaped(g), SameGraph(f, g)
    PROVE  /\ Blocks(f) = Blocks(g) /\ Start(f) = Start(g) /\ Blocks(f) \subseteq DOMAIN f.blk
           /\ \A b \in Blocks(f) : SuccSet(f, b) = SuccSet(g, b) /\ PredSet(f, b) = PredSet(g, b)
           /\ \A b \in Blocks(f) : \A shut : PathsFrom(f, b, shut) = PathsFrom(g, b, shut)
<1>1. Blocks(f) = Blocks(g) /\ Start(f) = Start(g) BY DEF SameGraph, Blocks, Start
<1>2. Blocks(f) \subseteq DOMAIN f.blk BY DEF GraphIsShaped, Blocks, Range
<1>3. \A b \in Blocks(f) : SuccSet(f, b) = SuccSet(g, b) BY <1>2, SuccSetIs DEF SameGraph
<1>4. \A b : PredSet(f, b) = PredSet(g, b) BY <1>1, <1>3 DEF PredSet
<1>5. \A b \in Blocks(f) : \A shut : PathsFrom(f, b, shut) = PathsFrom(g, b, shut) BY <1>1, <1>3, SamePaths
<1> QED BY <1>1, <1>2, <1>3, <1>4, <1>5

\* The first block is a block.
LEMMA StartIsLinked ==
    ASSUME NEW fn, GraphIsShaped(fn)
    PROVE  Start(fn) \in Blocks(fn)
BY DEF GraphIsShaped, Start, Blocks, Range

\* The order of the blocks is of the jumps.
LEMMA OrderSame ==
    ASSUME NEW f, NEW g, GraphIsShaped(f), GraphIsShaped(g), SameGraph(f, g), OrderIsRight(f)
    PROVE  OrderIsRight(g)
<1>1. /\ Blocks(f) = Blocks(g) /\ Start(f) = Start(g) /\ Start(f) \in Blocks(f)
      /\ \A b \in Blocks(f) : SuccSet(f, b) = SuccSet(g, b) /\ PredSet(f, b) = PredSet(g, b)
      /\ \A b \in Blocks(f) : \A shut : PathsFrom(f, b, shut) = PathsFrom(g, b, shut)
  BY GraphSame, StartIsLinked
<1>2. f.rpo = g.rpo /\ f.id = g.id BY DEF SameGraph
<1>3. \A b \in Blocks(g) : \A s \in SuccSet(g, b) : s \in Blocks(g) BY SuccsAreBlocks
<1>4. ASSUME NEW b \in Blocks(g), NEW s \in SuccSet(g, b), g.id[s] <= g.id[b]
      PROVE  b \in PathsFrom(g, s, {c \in Blocks(g) : g.id[c] < g.id[s]})
  <2>1. b \in PathsFrom(f, s, {c \in Blocks(f) : f.id[c] < f.id[s]}) BY <1>1, <1>2, <1>4 DEF OrderIsRight
  <2> QED BY <2>1, <1>1, <1>2, <1>3
<1>5. \A b \in Blocks(g) \ {Start(g)} : \E p \in PredSet(g, b) : g.id[p] < g.id[b] BY <1>1, <1>2 DEF OrderIsRight
<1>6. Blocks(g) = PathsFrom(g, Start(g), {}) BY <1>1 DEF OrderIsRight
<1>7. /\ IsSeq(g.rpo) /\ Range(g.rpo) = Blocks(g) /\ Len(g.rpo) = Cardinality(Blocks(g)) /\ g.rpo[1] = Start(g)
      /\ \A n \in DOMAIN g.rpo : g.id[g.rpo[n]] = n - 1
  BY <1>1, <1>2 DEF OrderIsRight
<1> QED BY <1>4, <1>5, <1>6, <1>7 DEF OrderIsRight

\* So are the predecessors.
LEMMA PredsSame ==
    ASSUME NEW f, NEW g, GraphIsShaped(f), GraphIsShaped(g), SameGraph(f, g), PredsAreRight(f)
    PROVE  PredsAreRight(g)
<1>1. Blocks(f) = Blocks(g) /\ (\A b \in Blocks(f) : PredSet(f, b) = PredSet(g, b)) /\ f.pred = g.pred
  BY GraphSame DEF SameGraph
<1> QED BY <1>1 DEF PredsAreRight

\* So are the dominators.
LEMMA DominatorsSame ==
    ASSUME NEW f, NEW g, GraphIsShaped(f), GraphIsShaped(g), SameGraph(f, g), f.idom = g.idom, f.dom = g.dom,
           DominatorsAreRight(f)
    PROVE  DominatorsAreRight(g)
<1>1. /\ Blocks(f) = Blocks(g) /\ Start(f) = Start(g) /\ Start(f) \in Blocks(f)
      /\ \A b \in Blocks(f) : \A shut : PathsFrom(f, b, shut) = PathsFrom(g, b, shut)
  BY GraphSame, StartIsLinked
<1>2. Dominated(f) = Dominated(g) BY <1>1 DEF Dominated
<1> QED BY <1>1, <1>2 DEF DominatorsAreRight, With

\* Reads and writes are of the instructions.
LEMMA ReadsSame ==
    ASSUME NEW f, NEW g, SameCode(f, g)
    PROVE  Blocks(f) = Blocks(g) /\ TmpSet(f) = TmpSet(g) /\ AllReads(f) = AllReads(g) /\ Writes(f) = Writes(g)
BY DEF SameCode, Blocks, TmpSet, NTmp, AllReads, PhiReads, InsReads, JmpReads, Writes

\* So are the counts and the lists of uses.
LEMMA UsesSame ==
    ASSUME NEW f, NEW g, SameCode(f, g), f.tmp = g.tmp
    PROVE  /\ CountsAreRight(f) => CountsAreRight(g)
           /\ UsesAreRight(f) => UsesAreRight(g)
<1>1. TmpSet(f) = TmpSet(g) /\ AllReads(f) = AllReads(g) /\ Writes(f) = Writes(g) BY ReadsSame
<1> QED BY <1>1 DEF CountsAreRight, UsesAreRight

\* The shape of the code is of the instructions and the entries in tmp.
LEMMA CodeSame ==
    ASSUME NEW f, NEW g, SameCode(f, g), CodeIsShaped(f),
           \A t \in TmpSet(f) : {"use", "nuse", "ndef"} \subseteq DOMAIN g.tmp[t]
    PROVE  CodeIsShaped(g)
<1>1. Blocks(f) = Blocks(g) /\ TmpSet(f) = TmpSet(g) /\ AllReads(f) = AllReads(g) /\ Writes(f) = Writes(g)
  BY ReadsSame
<1>2. f.blk = g.blk /\ DOMAIN f.tmp = DOMAIN g.tmp BY DEF SameCode
<1> QED BY <1>1, <1>2 DEF CodeIsShaped

-----------------------------------------------------------------------------
(* What an analysis leaves alone *)

\* filluse changes tmp only.
LEMMA FillUseKeeps ==
    ASSUME NEW fn, GraphIsShaped(fn), CodeIsShaped(fn)
    PROVE  /\ GraphIsShaped(FillUse(fn)) /\ CodeIsShaped(FillUse(fn)) /\ SameGraph(fn, FillUse(fn))
           /\ FillUse(fn).idom = fn.idom /\ FillUse(fn).dom = fn.dom
<1> DEFINE g == FillUse(fn)
           tmp == FillUse(fn).tmp
<1>1. /\ g = [fn EXCEPT !.tmp = tmp] /\ g.tmp = tmp /\ DOMAIN g.tmp = DOMAIN fn.tmp
      /\ \A t \in TmpSet(fn) : {"use", "nuse", "ndef"} \subseteq DOMAIN g.tmp[t]
  BY FillUseIsRight
<1> HIDE DEF g, tmp
<1>0. Computed \cup {"link", "blk", "tmp"} \subseteq DOMAIN fn BY DEF GraphIsShaped
<1>2. /\ g.link = fn.link /\ g.blk = fn.blk /\ g.loop = fn.loop /\ g.rpo = fn.rpo /\ g.id = fn.id /\ g.pred = fn.pred
      /\ g.idom = fn.idom /\ g.dom = fn.dom /\ DOMAIN g = DOMAIN fn
  BY <1>0, <1>1 DEF Computed
<1>3. SameGraph(fn, g) /\ SameCode(fn, g) BY <1>1, <1>2 DEF SameGraph, SameCode
<1>4. GraphIsShaped(g) BY <1>2 DEF GraphIsShaped, Blocks
<1>5. CodeIsShaped(g) BY <1>1, <1>3, CodeSame
<1> QED BY <1>2, <1>3, <1>4, <1>5 DEF g

\* filldom changes idom and dom only.
LEMMA FillDomKeeps ==
    ASSUME NEW fn, GraphIsShaped(fn)
    PROVE  /\ GraphIsShaped(FillDom(fn)) /\ SameGraph(fn, FillDom(fn)) /\ SameCode(fn, FillDom(fn))
           /\ FillDom(fn).tmp = fn.tmp /\ FillDom(fn).idom = DomFix(fn)
           /\ FillDom(fn).dom = [d \in DOMAIN fn.blk |-> Reverse(Kept(fn.link, {b \in DOMAIN fn.blk : DomFix(fn)[b] = d}))]
<1> DEFINE idom == DomFix(fn)
           dom == [d \in DOMAIN fn.blk |-> Reverse(Kept(fn.link, {b \in DOMAIN fn.blk : idom[b] = d}))]
           g == FillDom(fn)
<1>1. g = [fn EXCEPT !.idom = idom, !.dom = dom]
  <2> HIDE DEF idom
  <2>1. g = CHOOSE r \in {[fn EXCEPT !.idom = w, !.dom = [d \in DOMAIN fn.blk |-> Reverse(Kept(fn.link, {b \in DOMAIN fn.blk : w[b] = d}))]] : w \in {idom}} : TRUE
    BY DEF FillDom, With, idom
  <2> QED BY <2>1
<1>0. Computed \cup {"link", "blk", "tmp"} \subseteq DOMAIN fn BY DEF GraphIsShaped
<1> HIDE DEF idom, dom, g
<1>2. /\ g.link = fn.link /\ g.blk = fn.blk /\ g.loop = fn.loop /\ g.rpo = fn.rpo /\ g.id = fn.id /\ g.pred = fn.pred
      /\ g.tmp = fn.tmp /\ DOMAIN g = DOMAIN fn /\ g.idom = idom /\ g.dom = dom
  BY <1>0, <1>1 DEF Computed
<1>3. SameGraph(fn, g) /\ SameCode(fn, g) BY <1>2 DEF SameGraph, SameCode
<1>4. GraphIsShaped(g) BY <1>2 DEF GraphIsShaped, Blocks
<1> QED BY <1>2, <1>3, <1>4 DEF g, dom, idom

\* fillcfg leaves the code in shape.
LEMMA FillCfgKeeps ==
    ASSUME NEW fn, GraphIsShaped(fn)
    PROVE  /\ CodeIsShaped(fn) => CodeIsShaped(FillCfg(fn))
           /\ OperandsAreShaped(fn) => OperandsAreShaped(FillCfg(fn))
<1> DEFINE g == FillCfg(fn)
<1>1. g.tmp = fn.tmp /\ Blocks(g) \subseteq Blocks(fn) /\ \A b \in Blocks(g) : Fixed(fn.blk[b], g.blk[b]) BY CfgFixes
<1>2. TmpSet(g) = TmpSet(fn) /\ NTmp(g) = NTmp(fn) BY <1>1 DEF TmpSet, NTmp
<1> HIDE DEF g
<1>3. ASSUME NEW b \in Blocks(g), IsSeq(fn.blk[b].phi),
             \A p \in Range(fn.blk[b].phi) : {"to", "from"} \subseteq DOMAIN p /\ IsSeq(p.from)
      PROVE  /\ b \in Blocks(fn) /\ g.blk[b].ins = fn.blk[b].ins /\ g.blk[b].ja = fn.blk[b].ja
             /\ IsSeq(g.blk[b].phi) /\ DOMAIN g.blk[b].phi = DOMAIN fn.blk[b].phi
             /\ \A n \in DOMAIN fn.blk[b].phi : g.blk[b].phi[n].to = fn.blk[b].phi[n].to
             /\ \A p \in Range(g.blk[b].phi) :
                  /\ {"to", "from"} \subseteq DOMAIN p /\ IsSeq(p.from)
                  /\ \E q \in Range(fn.blk[b].phi) : p.to = q.to /\ Range(p.from) \subseteq Range(q.from)
  <2> DEFINE old == fn.blk[b]
             new == g.blk[b]
  <2>1. Fixed(old, new) /\ b \in Blocks(fn) BY <1>1
  <2>0. IsSeq(old.phi) /\ \A p \in Range(old.phi) : {"to", "from"} \subseteq DOMAIN p /\ IsSeq(p.from) BY <1>3
  <2> HIDE DEF old, new
  <2>2. ASSUME NEW n \in DOMAIN old.phi
        PROVE  /\ new.phi[n].to = old.phi[n].to /\ {"to", "from"} \subseteq DOMAIN new.phi[n]
               /\ IsSeq(new.phi[n].from) /\ Range(new.phi[n].from) \subseteq Range(old.phi[n].from)
    <3>1. old.phi[n] \in Range(old.phi) BY DEF Range
    <3>2. {"to", "from"} \subseteq DOMAIN old.phi[n] /\ IsSeq(old.phi[n].from) BY <2>0, <3>1
    <3> QED BY <2>1, <3>2 DEF Fixed
  <2>3. new.ins = old.ins /\ new.ja = old.ja /\ IsSeq(new.phi) /\ DOMAIN new.phi = DOMAIN old.phi
    BY <2>0, <2>1 DEF Fixed
  <2>4. ASSUME NEW p \in Range(new.phi)
        PROVE  /\ {"to", "from"} \subseteq DOMAIN p /\ IsSeq(p.from)
               /\ \E q \in Range(old.phi) : p.to = q.to /\ Range(p.from) \subseteq Range(q.from)
    <3>1. PICK n \in DOMAIN old.phi : p = new.phi[n] BY <2>3 DEF Range
    <3>2. old.phi[n] \in Range(old.phi) BY DEF Range
    <3> QED BY <3>1, <3>2, <2>2
  <2> QED BY <2>1, <2>2, <2>3, <2>4 DEF old, new
<1>4. ASSUME CodeIsShaped(fn) PROVE CodeIsShaped(g)
  <2>1. ASSUME NEW b \in Blocks(g)
        PROVE  /\ b \in Blocks(fn) /\ g.blk[b].ins = fn.blk[b].ins /\ g.blk[b].ja = fn.blk[b].ja
               /\ IsSeq(g.blk[b].phi) /\ DOMAIN g.blk[b].phi = DOMAIN fn.blk[b].phi
               /\ \A n \in DOMAIN fn.blk[b].phi : g.blk[b].phi[n].to = fn.blk[b].phi[n].to
               /\ \A p \in Range(g.blk[b].phi) :
                    /\ {"to", "from"} \subseteq DOMAIN p /\ IsSeq(p.from)
                    /\ \E q \in Range(fn.blk[b].phi) : p.to = q.to /\ Range(p.from) \subseteq Range(q.from)
    <3>1. b \in Blocks(fn) BY <1>1, <2>1
    <3>2. IsSeq(fn.blk[b].phi) /\ \A p \in Range(fn.blk[b].phi) : {"to", "from"} \subseteq DOMAIN p /\ IsSeq(p.from)
      BY <3>1, <1>4 DEF CodeIsShaped
    <3> QED BY <3>2, <1>3
  <2>2. ASSUME NEW b \in Blocks(g)
        PROVE  /\ IsSeq(g.blk[b].phi) /\ IsSeq(g.blk[b].ins)
               /\ \A p \in Range(g.blk[b].phi) : {"to", "from"} \subseteq DOMAIN p /\ IsSeq(p.from) /\ IsTemp(p.to)
               /\ \A m, n \in DOMAIN g.blk[b].phi : g.blk[b].phi[m].to[2] = g.blk[b].phi[n].to[2] => m = n
               /\ \A i \in Range(g.blk[b].ins) : IsSeq(i.arg) /\ Len(i.arg) = 2 /\ i.to[1] = "tmp"
    <3>1. /\ IsSeq(fn.blk[b].ins)
          /\ \A p \in Range(fn.blk[b].phi) : IsTemp(p.to)
          /\ \A m, n \in DOMAIN fn.blk[b].phi : fn.blk[b].phi[m].to[2] = fn.blk[b].phi[n].to[2] => m = n
          /\ \A i \in Range(fn.blk[b].ins) : IsSeq(i.arg) /\ Len(i.arg) = 2 /\ i.to[1] = "tmp"
      BY <1>4, <2>1 DEF CodeIsShaped
    <3>2. \A p \in Range(g.blk[b].phi) : IsTemp(p.to)
      <4> TAKE p \in Range(g.blk[b].phi)
      <4>1. PICK q \in Range(fn.blk[b].phi) : p.to = q.to BY <2>1
      <4> QED BY <4>1, <3>1
    <3>3. \A m, n \in DOMAIN g.blk[b].phi : g.blk[b].phi[m].to[2] = g.blk[b].phi[n].to[2] => m = n BY <2>1, <3>1
    <3> QED BY <2>1, <3>1, <3>2, <3>3
  <2>3. ASSUME NEW w \in Writes(g) PROVE w.t \in TmpSet(fn)
    <3>1. CASE \E b \in Blocks(g) : \E p \in {q \in Range(g.blk[b].phi) : IsTemp(q.to)} : w = [t |-> p.to[2], b |-> b, n |-> 0]
      <4>1. PICK b \in Blocks(g) : \E p \in Range(g.blk[b].phi) : IsTemp(p.to) /\ w = [t |-> p.to[2], b |-> b, n |-> 0]
        BY <3>1
      <4>0. PICK p \in Range(g.blk[b].phi) : IsTemp(p.to) /\ w = [t |-> p.to[2], b |-> b, n |-> 0] BY <4>1
      <4>2. PICK q \in Range(fn.blk[b].phi) : p.to = q.to BY <2>1
      <4>3. b \in Blocks(fn) /\ IsTemp(q.to) /\ w = [t |-> q.to[2], b |-> b, n |-> 0] BY <4>0, <4>2, <2>1
      <4>4. w \in {[t |-> x.to[2], b |-> b, n |-> 0] : x \in {y \in Range(fn.blk[b].phi) : IsTemp(y.to)}}
        BY <4>2, <4>3
      <4>5. w \in Writes(fn) BY <4>3, <4>4 DEF Writes
      <4> QED BY <4>5, <1>4 DEF CodeIsShaped
    <3>2. CASE \E b \in Blocks(g) : \E n \in {m \in DOMAIN g.blk[b].ins : IsTemp(g.blk[b].ins[m].to)} :
                 w = [t |-> g.blk[b].ins[n].to[2], b |-> b, n |-> n]
      <4>1. PICK b \in Blocks(g) : \E n \in DOMAIN g.blk[b].ins :
                 IsTemp(g.blk[b].ins[n].to) /\ w = [t |-> g.blk[b].ins[n].to[2], b |-> b, n |-> n] BY <3>2
      <4>2. b \in Blocks(fn) /\ g.blk[b].ins = fn.blk[b].ins BY <2>1
      <4>4. w \in {[t |-> fn.blk[b].ins[n].to[2], b |-> b, n |-> n] :
                      n \in {m \in DOMAIN fn.blk[b].ins : IsTemp(fn.blk[b].ins[m].to)}} BY <4>1, <4>2
      <4>3. w \in Writes(fn) BY <4>2, <4>4 DEF Writes
      <4> QED BY <4>3, <1>4 DEF CodeIsShaped
    <3> QED BY <3>1, <3>2 DEF Writes
  <2>4. ASSUME NEW u \in AllReads(g) PROVE u.t \in TmpSet(fn)
    <3>1. CASE u \in PhiReads(g)
      <4>1. PICK b \in Blocks(g) : \E p \in Range(g.blk[b].phi) :
                 \E k \in DOMAIN p.from : IsTemp(p.from[k][2]) /\ u = Read(p.from[k][2][2], "phi", b, p.to[2], k, p.from[k][1])
        BY <3>1 DEF PhiReads
      <4>0. PICK p \in Range(g.blk[b].phi) :
                 \E k \in DOMAIN p.from : IsTemp(p.from[k][2]) /\ u = Read(p.from[k][2][2], "phi", b, p.to[2], k, p.from[k][1])
        BY <4>1
      <4>2. PICK k \in DOMAIN p.from : IsTemp(p.from[k][2]) /\ u.t = p.from[k][2][2] BY <4>0 DEF Read
      <4>3. PICK q \in Range(fn.blk[b].phi) : Range(p.from) \subseteq Range(q.from) BY <2>1
      <4>4. PICK j \in DOMAIN q.from : q.from[j] = p.from[k] BY <4>3 DEF Range
      <4> DEFINE v == Read(q.from[j][2][2], "phi", b, q.to[2], j, q.from[j][1])
      <4>5. v \in PhiReads(fn)
        <5>1. b \in Blocks(fn) BY <2>1
        <5>2. IsTemp(q.from[j][2]) BY <4>2, <4>4
        <5> QED BY <5>1, <5>2 DEF PhiReads
      <4>6. v.t = u.t BY <4>2, <4>4 DEF Read
      <4>7. v \in AllReads(fn) BY <4>5 DEF AllReads
      <4> HIDE DEF v
      <4> QED BY <4>6, <4>7, <1>4 DEF CodeIsShaped
    <3>2. CASE u \in InsReads(g)
      <4>1. \A b \in Blocks(g) : b \in Blocks(fn) /\ g.blk[b].ins = fn.blk[b].ins BY <2>1
      <4>2. u \in InsReads(fn) BY <3>2, <4>1 DEF InsReads
      <4> QED BY <4>2, <1>4 DEF CodeIsShaped, AllReads
    <3>3. CASE u \in JmpReads(g)
      <4>1. \A b \in Blocks(g) : b \in Blocks(fn) /\ g.blk[b].ja = fn.blk[b].ja BY <2>1
      <4>2. u \in JmpReads(fn) BY <3>3, <4>1 DEF JmpReads
      <4> QED BY <4>2, <1>4 DEF CodeIsShaped, AllReads
    <3> QED BY <2>4, <3>1, <3>2, <3>3 DEF AllReads
  <2>5. \A t \in TmpSet(g) : t \in DOMAIN g.tmp /\ {"use", "nuse", "ndef"} \subseteq DOMAIN g.tmp[t]
    BY <1>1, <1>2, <1>4 DEF CodeIsShaped
  <2> QED BY <2>2, <2>3, <2>4, <2>5, <1>2 DEF CodeIsShaped
<1>5. ASSUME OperandsAreShaped(fn) PROVE OperandsAreShaped(g)
  <2>1. ASSUME NEW b \in Blocks(g)
        PROVE  /\ b \in Blocks(fn) /\ g.blk[b].ins = fn.blk[b].ins /\ g.blk[b].ja = fn.blk[b].ja
               /\ IsSeq(g.blk[b].phi) /\ DOMAIN g.blk[b].phi = DOMAIN fn.blk[b].phi
               /\ \A p \in Range(g.blk[b].phi) :
                    /\ {"to", "from"} \subseteq DOMAIN p /\ IsSeq(p.from)
                    /\ \E q \in Range(fn.blk[b].phi) : p.to = q.to /\ Range(p.from) \subseteq Range(q.from)
    <3>1. b \in Blocks(fn) BY <1>1, <2>1
    <3>2. IsSeq(fn.blk[b].phi) /\ \A p \in Range(fn.blk[b].phi) : {"to", "from"} \subseteq DOMAIN p /\ IsSeq(p.from)
      BY <3>1, <1>5 DEF OperandsAreShaped
    <3> QED BY <3>2, <1>3
  <2>2. ASSUME NEW b \in Blocks(g), NEW p \in Range(g.blk[b].phi)
        PROVE  {"to", "from"} \subseteq DOMAIN p /\ IsSeq(p.from) /\ p.to = Tmp(p.to[2]) /\ p.to[2] \in TmpSet(fn)
    <3>1. PICK q \in Range(fn.blk[b].phi) : p.to = q.to BY <2>1, <2>2
    <3>2. q.to = Tmp(q.to[2]) /\ q.to[2] \in TmpSet(fn) BY <1>5, <2>1 DEF OperandsAreShaped
    <3> QED BY <3>1, <3>2, <2>1, <2>2
  <2>3. ASSUME NEW b \in Blocks(g), NEW c \in Blocks(g), NEW t \in PhiUses(g.blk[b], c) PROVE t \in DOMAIN fn.tmp
    <3>1. PICK n \in DOMAIN g.blk[b].phi : \E k \in DOMAIN g.blk[b].phi[n].from :
            LET x == g.blk[b].phi[n].from[k] IN x[1] = c /\ IsTmp(x[2]) /\ t = x[2][2]
      BY <2>3 DEF PhiUses, Range
    <3> DEFINE p == g.blk[b].phi[n]
    <3>2. PICK k \in DOMAIN p.from : p.from[k][1] = c /\ IsTmp(p.from[k][2]) /\ t = p.from[k][2][2] BY <3>1
    <3>3. p \in Range(g.blk[b].phi) /\ p.from[k] \in Range(p.from) BY DEF Range
    <3> HIDE DEF p
    <3>4. PICK q \in Range(fn.blk[b].phi) : Range(p.from) \subseteq Range(q.from) BY <2>1, <3>3
    <3>5. p.from[k] \in UNION {Range(fn.blk[b].phi[m].from) : m \in DOMAIN fn.blk[b].phi} BY <3>3, <3>4 DEF Range
    <3>6. t \in PhiUses(fn.blk[b], c) BY <3>2, <3>5 DEF PhiUses
    <3>7. b \in Blocks(fn) /\ c \in Blocks(fn) BY <2>1
    <3> QED BY <3>6, <3>7, <1>5 DEF OperandsAreShaped
  <2>4. ASSUME NEW b \in Blocks(g)
        PROVE  /\ IsSeq(g.blk[b].ins)
               /\ \A i \in Range(g.blk[b].ins) :
                    /\ i.to = Tmp(i.to[2]) /\ i.to[2] \in DOMAIN g.tmp
                    /\ TmpsOf(i.arg[1]) \cup TmpsOf(i.arg[2]) \subseteq DOMAIN g.tmp
                    /\ i.op = "call" /\ i.arg[2][1] = "call" => ArgRegs(i.arg[2]) \subseteq Registers
               /\ g.blk[b].ja[1] # "mem" /\ TmpsOf(g.blk[b].ja) \subseteq DOMAIN g.tmp
               /\ IsTmp(g.blk[b].ja) => g.blk[b].ja = Tmp(g.blk[b].ja[2])
    BY <2>1, <1>1, <1>5 DEF OperandsAreShaped
  <2>5. NTmp(g) \in Nat /\ DOMAIN g.tmp = 0 .. NTmp(g) - 1 /\ Registers \subseteq DOMAIN g.tmp
    BY <1>1, <1>2, <1>5 DEF OperandsAreShaped
  <2>6. \A b \in Blocks(g) : \A c \in Blocks(g) : PhiUses(g.blk[b], c) \subseteq DOMAIN g.tmp BY <2>3, <1>1
  <2> QED BY <2>1, <2>2, <2>4, <2>5, <2>6, <1>2 DEF OperandsAreShaped
<1> QED BY <1>4, <1>5 DEF g

\* Linking the blocks in their order changes no jump.
LEMMA LinkKeeps ==
    ASSUME NEW fn, GraphIsShaped(fn), OrderIsRight(fn), NEW g, g = [fn EXCEPT !.link = fn.rpo]
    PROVE  GraphIsShaped(g) /\ OrderIsRight(g) /\ (PredsAreRight(fn) => PredsAreRight(g))
<1>1. /\ g.link = fn.rpo /\ g.blk = fn.blk /\ g.loop = fn.loop /\ g.rpo = fn.rpo /\ g.id = fn.id /\ g.pred = fn.pred
      /\ DOMAIN g = DOMAIN fn
  BY DEF GraphIsShaped
<1>2. Blocks(g) = Blocks(fn) /\ Start(g) = Start(fn) BY <1>1 DEF OrderIsRight, Blocks, Start
<1>3. Blocks(fn) \subseteq DOMAIN fn.blk BY DEF GraphIsShaped, Blocks, Range
<1>4. fn.rpo \in Seq(Blocks(fn)) BY DEF OrderIsRight, IsSeq
<1>5. \A m, n \in DOMAIN fn.rpo : fn.rpo[m] = fn.rpo[n] => m = n
  <2>1. DOMAIN fn.rpo = 1 .. Len(fn.rpo) BY <1>4
  <2>2. \A n \in DOMAIN fn.rpo : fn.id[fn.rpo[n]] = n - 1 BY DEF OrderIsRight
  <2> QED BY <2>1, <2>2
<1>6. GraphIsShaped(g)
  <2>1. fn.rpo \in Seq(DOMAIN fn.blk) BY <1>3, <1>4
  <2>2. fn.rpo # <<>>
    <3>1. Blocks(fn) # {} /\ Range(fn.rpo) = Blocks(fn) BY StartIsLinked DEF OrderIsRight
    <3> QED BY <3>1 DEF Range
  <2> QED BY <2>1, <2>2, <1>1, <1>2, <1>5 DEF GraphIsShaped
<1>7. \A b \in Blocks(fn) : SuccSet(fn, b) = SuccSet(g, b) BY <1>1 DEF SuccSet
<1>8. \A b \in Blocks(fn) : \A shut : PathsFrom(fn, b, shut) = PathsFrom(g, b, shut) BY <1>2, <1>6, <1>7, SamePaths
<1>9. \A b : PredSet(fn, b) = PredSet(g, b) BY <1>2, <1>7 DEF PredSet
<1>10. \A b \in Blocks(g) : \A s \in SuccSet(g, b) : s \in Blocks(g) BY <1>6, SuccsAreBlocks
<1>11. ASSUME NEW b \in Blocks(g), NEW s \in SuccSet(g, b), g.id[s] <= g.id[b]
       PROVE  b \in PathsFrom(g, s, {c \in Blocks(g) : g.id[c] < g.id[s]})
  <2>1. b \in PathsFrom(fn, s, {c \in Blocks(fn) : fn.id[c] < fn.id[s]}) BY <1>1, <1>2, <1>7, <1>11 DEF OrderIsRight
  <2> QED BY <2>1, <1>1, <1>2, <1>8, <1>10
<1>12. \A b \in Blocks(g) \ {Start(g)} : \E p \in PredSet(g, b) : g.id[p] < g.id[b]
  BY <1>1, <1>2, <1>9 DEF OrderIsRight
<1>13. Blocks(g) = PathsFrom(g, Start(g), {}) BY <1>2, <1>8, StartIsLinked DEF OrderIsRight
<1>14. OrderIsRight(g) BY <1>1, <1>2, <1>11, <1>12, <1>13 DEF OrderIsRight
<1>15. PredsAreRight(fn) => PredsAreRight(g) BY <1>1, <1>2, <1>9 DEF PredsAreRight
<1> QED BY <1>6, <1>14, <1>15

-----------------------------------------------------------------------------
(* Chains: a block, the block idom names for it, the one named for that, ... *)

Ordered(fn) == GraphIsShaped(fn) /\ OrderIsRight(fn) /\ PredsAreRight(fn)

\* The number of a block is its place in the order.
LEMMA OrderFacts ==
    ASSUME NEW fn, Ordered(fn)
    PROVE  /\ Len(fn.rpo) \in Nat /\ Len(fn.rpo) # 0 /\ fn.rpo \in Seq(Blocks(fn)) /\ Blocks(fn) \subseteq DOMAIN fn.blk
           /\ 0 \notin Blocks(fn) /\ Start(fn) \in Blocks(fn) /\ fn.id[Start(fn)] = 0
           /\ \A b \in Blocks(fn) : fn.id[b] \in 0 .. Len(fn.rpo) - 1 /\ fn.id[b] \in Nat
           /\ \A b, c \in Blocks(fn) : fn.id[b] = fn.id[c] => b = c
           /\ \A n \in 1 .. Len(fn.rpo) : fn.rpo[n] \in Blocks(fn) /\ fn.id[fn.rpo[n]] = n - 1
           /\ \A b \in Blocks(fn) : \E n \in 1 .. Len(fn.rpo) : b = fn.rpo[n]
<1> DEFINE N == Len(fn.rpo)
<1>1. GraphIsShaped(fn) /\ OrderIsRight(fn) BY DEF Ordered
<1>2. Range(fn.rpo) = Blocks(fn) /\ fn.rpo \in Seq(Blocks(fn)) BY <1>1 DEF OrderIsRight, IsSeq
<1>3. Start(fn) \in Blocks(fn) BY <1>1, StartIsLinked
<1>4. DOMAIN fn.rpo = 1 .. N /\ N \in Nat BY <1>2
<1>5. \A b \in Blocks(fn) : \E n \in 1 .. N : b = fn.rpo[n] BY <1>2, <1>4 DEF Range
<1>6. N # 0 BY <1>3, <1>4, <1>5
<1>7. \A n \in 1 .. N : fn.rpo[n] \in Blocks(fn) /\ fn.id[fn.rpo[n]] = n - 1 BY <1>1, <1>2, <1>4 DEF OrderIsRight
<1>8. \A b \in Blocks(fn) : fn.id[b] \in 0 .. N - 1 /\ fn.id[b] \in Nat
  <2> TAKE b \in Blocks(fn)
  <2>1. PICK n \in 1 .. N : b = fn.rpo[n] BY <1>5
  <2>2. fn.id[b] = n - 1 BY <2>1, <1>7
  <2> QED BY <2>2, <1>4
<1>9. ASSUME NEW b \in Blocks(fn), NEW c \in Blocks(fn), fn.id[b] = fn.id[c] PROVE b = c
  <2>1. PICK m \in 1 .. N : b = fn.rpo[m] BY <1>5
  <2>2. PICK n \in 1 .. N : c = fn.rpo[n] BY <1>5
  <2>3. fn.id[b] = m - 1 /\ fn.id[c] = n - 1 BY <2>1, <2>2, <1>7
  <2>4. m = n BY <2>3, <1>9
  <2> QED BY <2>1, <2>2, <2>4
<1>10. fn.id[Start(fn)] = 0
  <2>1. fn.rpo[1] = Start(fn) BY <1>1 DEF OrderIsRight
  <2>2. 1 \in 1 .. N BY <1>4, <1>6
  <2>3. fn.id[fn.rpo[1]] = 1 - 1 BY <2>2, <1>7
  <2> QED BY <2>1, <2>3
<1>11. Blocks(fn) \subseteq DOMAIN fn.blk /\ 0 \notin Blocks(fn)
  <2>1. fn.link \in Seq(DOMAIN fn.blk) /\ 0 \notin DOMAIN fn.blk BY <1>1 DEF GraphIsShaped
  <2> QED BY <2>1 DEF Blocks, Range
<1> QED BY <1>2, <1>3, <1>4, <1>6, <1>7, <1>5, <1>8, <1>9, <1>10, <1>11 DEF N

\* idom names blocks that come earlier; what it names has a block named for it, or is
\* the first one.
Placed(fn, a) == {b \in Blocks(fn) : a[b] # 0 \/ b = Start(fn)}
Tree(fn, a) ==
    /\ a \in [DOMAIN fn.blk -> Blocks(fn) \cup {0}] /\ a[Start(fn)] = 0
    /\ \A b \in DOMAIN fn.blk \ Blocks(fn) : a[b] = 0
    /\ \A b \in Blocks(fn) : a[b] # 0 => fn.id[a[b]] < fn.id[b] /\ a[b] \in Placed(fn, a)

Upward(fn, a, T) == \A x \in T : a[x] # 0 => a[x] \in T
Chain(fn, a, b) == {d \in Blocks(fn) : \A T \in SUBSET Blocks(fn) : b \in T /\ Upward(fn, a, T) => d \in T}

\* A chain is the least set that holds its first block and is closed under idom.
LEMMA ChainLeast ==
    ASSUME NEW fn, NEW a, Tree(fn, a), NEW b \in Blocks(fn)
    PROVE  /\ Chain(fn, a, b) \subseteq Blocks(fn) /\ b \in Chain(fn, a, b) /\ Upward(fn, a, Chain(fn, a, b))
           /\ \A T \in SUBSET Blocks(fn) : b \in T /\ Upward(fn, a, T) => Chain(fn, a, b) \subseteq T
<1>1. \A x \in Blocks(fn) : a[x] \in Blocks(fn) \cup {0}
  <2>1. a \in [DOMAIN fn.blk -> Blocks(fn) \cup {0}] BY DEF Tree
  <2>2. \A x \in DOMAIN fn.blk \ Blocks(fn) : a[x] = 0 BY DEF Tree
  <2>3. \A x \in Blocks(fn) : a[x] # 0 => a[x] \in Blocks(fn) BY DEF Tree, Placed
  <2> QED BY <2>3
<1>2. Upward(fn, a, Chain(fn, a, b))
  <2>1. ASSUME NEW x \in Chain(fn, a, b), a[x] # 0 PROVE a[x] \in Chain(fn, a, b)
    <3>1. a[x] \in Blocks(fn) BY <2>1, <1>1 DEF Chain
    <3>2. \A T \in SUBSET Blocks(fn) : b \in T /\ Upward(fn, a, T) => a[x] \in T BY <2>1 DEF Chain, Upward
    <3> QED BY <3>1, <3>2 DEF Chain
  <2> QED BY <2>1 DEF Upward
<1> QED BY <1>2 DEF Chain

\* The chain of a block on a chain is part of it.
LEMMA ChainOfChain ==
    ASSUME NEW fn, NEW a, Tree(fn, a), NEW b \in Blocks(fn), NEW d \in Chain(fn, a, b)
    PROVE  d \in Blocks(fn) /\ Chain(fn, a, d) \subseteq Chain(fn, a, b)
BY ChainLeast

\* A chain is its first block and the chain of the next.
LEMMA ChainIs ==
    ASSUME NEW fn, NEW a, Tree(fn, a), NEW b \in Blocks(fn)
    PROVE  /\ a[b] = 0 => Chain(fn, a, b) = {b}
           /\ a[b] # 0 => a[b] \in Blocks(fn) /\ Chain(fn, a, b) = {b} \cup Chain(fn, a, a[b])
<1>1. CASE a[b] = 0
  <2>1. Upward(fn, a, {b}) BY <1>1 DEF Upward
  <2>2. Chain(fn, a, b) \subseteq {b} /\ b \in Chain(fn, a, b) BY <2>1, ChainLeast
  <2> QED BY <2>2, <1>1
<1>2. CASE a[b] # 0
  <2> DEFINE c == a[b]
             T == {b} \cup Chain(fn, a, c)
  <2>1. c \in Chain(fn, a, b) BY <1>2, ChainLeast DEF Upward
  <2>2. c \in Blocks(fn) /\ Chain(fn, a, c) \subseteq Chain(fn, a, b) BY <2>1, ChainOfChain
  <2>3. Chain(fn, a, c) \subseteq Blocks(fn) /\ c \in Chain(fn, a, c) /\ Upward(fn, a, Chain(fn, a, c))
    BY <2>2, ChainLeast
  <2>4. T \subseteq Blocks(fn) /\ b \in T /\ Upward(fn, a, T) BY <2>3 DEF Upward
  <2>5. Chain(fn, a, b) \subseteq T /\ b \in Chain(fn, a, b) BY <2>4, ChainLeast
  <2> QED BY <2>2, <2>5, <1>2
<1> QED BY <1>1, <1>2

\* Along a chain the numbers fall.
LEMMA ChainBelow ==
    ASSUME NEW fn, Ordered(fn), NEW a, Tree(fn, a), NEW b \in Blocks(fn), NEW d \in Chain(fn, a, b)
    PROVE  d = b \/ fn.id[d] < fn.id[b]
<1> DEFINE T == {b} \cup {x \in Blocks(fn) : fn.id[x] < fn.id[b]}
<1>1. \A x \in Blocks(fn) : fn.id[x] \in Nat BY OrderFacts
<1>2. ASSUME NEW x \in T, a[x] # 0 PROVE a[x] \in T
  <2>1. x \in Blocks(fn) /\ fn.id[x] <= fn.id[b] BY <1>1
  <2>2. a[x] \in Blocks(fn) /\ fn.id[a[x]] < fn.id[x] BY <2>1, <1>2, ChainIs DEF Tree
  <2>3. fn.id[a[x]] < fn.id[b] BY <2>1, <2>2, <1>1
  <2> QED BY <2>2, <2>3
<1>3. T \in SUBSET Blocks(fn) /\ b \in T /\ Upward(fn, a, T) BY <1>2 DEF Upward
<1>4. d \in T BY <1>3, ChainLeast
<1> QED BY <1>4

\* The chain of a placed block ends with the first block of the function.
LEMMA ChainPlaced ==
    ASSUME NEW fn, Ordered(fn), NEW a, Tree(fn, a), NEW b \in Placed(fn, a)
    PROVE  b \in Blocks(fn) /\ Chain(fn, a, b) \subseteq Placed(fn, a) /\ Start(fn) \in Chain(fn, a, b)
<1>1. Start(fn) \in Blocks(fn) /\ \A x \in Blocks(fn) : fn.id[x] \in Nat BY OrderFacts
<1>2. Placed(fn, a) \subseteq Blocks(fn) BY <1>1 DEF Placed
<1>3. Upward(fn, a, Placed(fn, a)) BY <1>2 DEF Upward, Tree
<1>4. b \in Blocks(fn) /\ Chain(fn, a, b) \subseteq Placed(fn, a) BY <1>2, <1>3, ChainLeast
<1>5. b \in Chain(fn, a, b) /\ Upward(fn, a, Chain(fn, a, b)) BY <1>4, ChainLeast
<1> DEFINE I == {fn.id[x] : x \in Chain(fn, a, b)}
<1>6. I \subseteq Nat /\ I # {} BY <1>1, <1>2, <1>4, <1>5
<1>7. PICK n \in I : \A m \in I : n <= m
  <2> HIDE DEF I
  <2> QED BY <1>6, PathLoop!Least
<1>8. PICK x \in Chain(fn, a, b) : \A y \in Chain(fn, a, b) : fn.id[x] <= fn.id[y] BY <1>7
<1>9. a[x] = 0
  <2>1. SUFFICES ASSUME a[x] # 0 PROVE FALSE OBVIOUS
  <2>2. a[x] \in Chain(fn, a, b) BY <2>1, <1>5 DEF Upward
  <2>3. x \in Blocks(fn) /\ a[x] \in Blocks(fn) BY <2>2, <1>2, <1>4
  <2>4. fn.id[a[x]] < fn.id[x] BY <2>1, <2>3 DEF Tree
  <2>5. fn.id[x] <= fn.id[a[x]] BY <2>2, <1>8
  <2> QED BY <2>3, <2>4, <2>5, <1>1
<1>10. x = Start(fn) BY <1>4, <1>9 DEF Placed
<1> QED BY <1>4, <1>10

-----------------------------------------------------------------------------
(* Dominators, by paths *)

Dominators(fn, b) == {d \in Blocks(fn) : b \notin PathsFrom(fn, Start(fn), {d})}
\* v is reached from u by edges that go forward in the order.
Forward(fn, u, v) ==
    \A T \in SUBSET Blocks(fn) :
      u \in T /\ (\A s \in T : \A t \in SuccSet(fn, s) : fn.id[s] < fn.id[t] => t \in T) => v \in T

\* What dominates a block, other than the block, dominates its predecessors.
LEMMA DominatorsOfPred ==
    ASSUME NEW fn, Ordered(fn), NEW u \in Blocks(fn), NEW v \in SuccSet(fn, u), NEW d \in Dominators(fn, v), d # v
    PROVE  d \in Dominators(fn, u)
<1>1. GraphIsShaped(fn) /\ Start(fn) \in Blocks(fn) BY OrderFacts DEF Ordered
<1>2. IsClosed(fn, {d}, PathsFrom(fn, Start(fn), {d})) BY <1>1, PathsFromIs
<1>3. d \in Blocks(fn) /\ v \notin PathsFrom(fn, Start(fn), {d}) BY DEF Dominators
<1>4. u \notin PathsFrom(fn, Start(fn), {d}) BY <1>2, <1>3 DEF IsClosed
<1> QED BY <1>3, <1>4 DEF Dominators

\* What dominates a block, and is numbered below one that leads forward to it, dominates that one.
LEMMA DominatorsForward ==
    ASSUME NEW fn, Ordered(fn), NEW b \in Blocks(fn), NEW v \in Blocks(fn), Forward(fn, b, v),
           NEW d \in Dominators(fn, v), fn.id[d] < fn.id[b]
    PROVE  d \in Dominators(fn, b)
<1> DEFINE P == PathsFrom(fn, Start(fn), {d})
           T == {u \in P : fn.id[b] <= fn.id[u]}
<1>1. GraphIsShaped(fn) /\ Start(fn) \in Blocks(fn) BY OrderFacts DEF Ordered
<1>2. IsClosed(fn, {d}, P) /\ P \subseteq Blocks(fn) BY <1>1, PathsFromIs
<1>3. d \in Blocks(fn) /\ v \notin P BY DEF Dominators
<1>4. \A x \in Blocks(fn) : fn.id[x] \in Nat BY OrderFacts
<1>5. SUFFICES ASSUME b \in P PROVE FALSE BY <1>3 DEF Dominators
<1>6. b \in T BY <1>5, <1>4
<1>7. ASSUME NEW s \in T, NEW t \in SuccSet(fn, s), fn.id[s] < fn.id[t] PROVE t \in T
  <2>1. s \in P /\ s \in Blocks(fn) /\ fn.id[b] <= fn.id[s] BY <1>2
  <2>2. t \in Blocks(fn) BY <2>1, <1>1, SuccsAreBlocks
  <2>3. fn.id[b] \in Nat /\ fn.id[s] \in Nat /\ fn.id[t] \in Nat /\ fn.id[d] \in Nat BY <2>1, <2>2, <1>3, <1>4
  <2>4. fn.id[b] <= fn.id[t] /\ t # d BY <2>1, <2>3, <1>7
  <2>5. t \in P BY <2>1, <2>4, <1>2, <1>7 DEF IsClosed
  <2> QED BY <2>4, <2>5
<1>8. T \in SUBSET Blocks(fn) BY <1>2
<1>9. v \in T
  <2> HIDE DEF T
  <2> QED BY <1>6, <1>7, <1>8 DEF Forward
<1> QED BY <1>9, <1>3

-----------------------------------------------------------------------------
(* inter: the chains of two blocks meet in its result *)

NearerOp(x, y, z, p, e) == Nearer(x, y, p)
NearerMore(x, y, z, p) == p[1] # p[2]
NearerKeeps(q, n, p) ==
    /\ p \in Placed(q.fn, q.a) \X Placed(q.fn, q.a)
    /\ Chain(q.fn, q.a, p[1]) \cap Chain(q.fn, q.a, p[2]) = q.both
NearerLeft(q, p) == q.fn.id[p[1]] + q.fn.id[p[2]]
InterLoop == INSTANCE Loops WITH Op <- NearerOp, More <- NearerMore, Keeps <- NearerKeeps, Measure <- NearerLeft

\* Of two blocks the later one is not on the chain of the other.
LEMMA StepUp ==
    ASSUME NEW fn, Ordered(fn), NEW a, Tree(fn, a), NEW u \in Placed(fn, a), NEW v \in Placed(fn, a), fn.id[u] < fn.id[v]
    PROVE  a[v] \in Placed(fn, a) /\ fn.id[a[v]] < fn.id[v]
           /\ Chain(fn, a, u) \cap Chain(fn, a, a[v]) = Chain(fn, a, u) \cap Chain(fn, a, v)
<1>1. u \in Blocks(fn) /\ v \in Blocks(fn) BY DEF Placed
<1>2. fn.id[u] \in Nat /\ fn.id[v] \in Nat /\ fn.id[Start(fn)] = 0 BY <1>1, OrderFacts
<1>3. v # Start(fn) BY <1>2
<1>4. a[v] # 0 BY <1>3 DEF Placed
<1>5. a[v] \in Placed(fn, a) /\ fn.id[a[v]] < fn.id[v] BY <1>4, <1>1 DEF Tree
<1>6. Chain(fn, a, v) = {v} \cup Chain(fn, a, a[v]) BY <1>1, <1>4, ChainIs
<1>7. v \notin Chain(fn, a, u)
  <2>1. SUFFICES ASSUME v \in Chain(fn, a, u) PROVE FALSE OBVIOUS
  <2>2. v = u \/ fn.id[v] < fn.id[u] BY <2>1, <1>1, ChainBelow
  <2> QED BY <2>2, <1>2
<1> QED BY <1>5, <1>6, <1>7

\* The chain of inter is what the two chains have in common.
LEMMA InterIs ==
    ASSUME NEW fn, Ordered(fn), NEW a, Tree(fn, a), NEW b1 \in Placed(fn, a), NEW b2 \in Placed(fn, a)
    PROVE  Inter(fn, a, b1, b2) \in Placed(fn, a)
           /\ Chain(fn, a, Inter(fn, a, b1, b2)) = Chain(fn, a, b1) \cap Chain(fn, a, b2)
<1> DEFINE B == DOMAIN fn.blk
           S == B \X B
           q == [fn |-> fn, a |-> a, both |-> Chain(fn, a, b1) \cap Chain(fn, a, b2)]
           s == <<b1, b2>>
           r == InterLoop!WhileMore(S, fn, a, 0, s)
<1>0. q.fn = fn /\ q.a = a /\ q.both = Chain(fn, a, b1) \cap Chain(fn, a, b2) OBVIOUS
<1>1. Placed(fn, a) \subseteq Blocks(fn) /\ Blocks(fn) \subseteq B /\ 0 \notin Blocks(fn) /\ \A x \in Blocks(fn) : fn.id[x] \in Nat
  BY OrderFacts DEF Placed
<1>2. Inter(fn, a, b1, b2) = r[1]
  <2>1. b1 # 0 BY <1>1
  <2> QED BY <2>1 DEF Inter, InterLoop!WhileMore, InterLoop!While, While, InterLoop!With, With, NearerOp, NearerMore
<1>3. NearerKeeps(q, 0, s) BY DEF NearerKeeps
<1> HIDE DEF q
<1>4. ASSUME NEW p, NearerKeeps(q, 0, p) PROVE p \in S /\ NearerLeft(q, p) \in Nat
  <2>1. p \in Placed(fn, a) \X Placed(fn, a) BY <1>4, <1>0 DEF NearerKeeps
  <2>2. p[1] \in Blocks(fn) /\ p[2] \in Blocks(fn) BY <2>1, <1>1
  <2>3. fn.id[p[1]] \in Nat /\ fn.id[p[2]] \in Nat BY <2>2, <1>1
  <2> QED BY <2>1, <2>2, <2>3, <1>0, <1>1 DEF NearerLeft
<1>5. ASSUME NEW p, NearerKeeps(q, 0, p), NearerMore(fn, a, 0, p)
      PROVE  NearerKeeps(q, 0, NearerOp(fn, a, 0, p, 0)) /\ NearerLeft(q, NearerOp(fn, a, 0, p, 0)) < NearerLeft(q, p)
  <2> DEFINE u == p[1]
             v == p[2]
             new == NearerOp(fn, a, 0, p, 0)
  <2>1. p \in Placed(fn, a) \X Placed(fn, a) /\ Chain(fn, a, u) \cap Chain(fn, a, v) = q.both
    BY <1>5, <1>0 DEF NearerKeeps
  <2>2. u \in Placed(fn, a) /\ v \in Placed(fn, a) /\ u \in Blocks(fn) /\ v \in Blocks(fn) BY <2>1, <1>1
  <2>3. fn.id[u] \in Nat /\ fn.id[v] \in Nat BY <2>2, <1>1
  <2>4. fn.id[u] # fn.id[v] BY <2>2, <1>5, OrderFacts DEF NearerMore
  <2> HIDE DEF u, v
  <2>5. CASE fn.id[u] < fn.id[v]
    <3>1. a[v] \in Placed(fn, a) /\ fn.id[a[v]] < fn.id[v]
          /\ Chain(fn, a, u) \cap Chain(fn, a, a[v]) = Chain(fn, a, u) \cap Chain(fn, a, v) BY <2>2, <2>5, StepUp
    <3>2. new = <<u, a[v]>> BY <2>5 DEF NearerOp, Nearer, u, v
    <3>3. fn.id[a[v]] \in Nat BY <3>1, <1>1
    <3>4. new[1] = u /\ new[2] = a[v] /\ new \in Placed(fn, a) \X Placed(fn, a) BY <3>1, <3>2, <2>2
    <3> HIDE DEF new
    <3>5. NearerKeeps(q, 0, new) BY <3>1, <3>4, <2>1, <1>0 DEF NearerKeeps
    <3>6. fn.id[u] + fn.id[a[v]] < fn.id[u] + fn.id[v] BY <3>1, <3>3, <2>3
    <3>7. NearerLeft(q, new) < NearerLeft(q, p) BY <3>4, <3>6, <1>0 DEF NearerLeft, u, v
    <3> QED BY <3>5, <3>7 DEF new
  <2>6. CASE ~ (fn.id[u] < fn.id[v])
    <3>0. fn.id[v] < fn.id[u] BY <2>3, <2>4, <2>6
    <3>1. a[u] \in Placed(fn, a) /\ fn.id[a[u]] < fn.id[u]
          /\ Chain(fn, a, v) \cap Chain(fn, a, a[u]) = Chain(fn, a, v) \cap Chain(fn, a, u) BY <2>2, <3>0, StepUp
    <3>2. new = <<a[u], v>> BY <2>6 DEF NearerOp, Nearer, u, v
    <3>3. fn.id[a[u]] \in Nat BY <3>1, <1>1
    <3>4. new[1] = a[u] /\ new[2] = v /\ new \in Placed(fn, a) \X Placed(fn, a) BY <3>1, <3>2, <2>2
    <3> HIDE DEF new
    <3>8. Chain(fn, a, a[u]) \cap Chain(fn, a, v) = q.both BY <3>1, <2>1
    <3>5. NearerKeeps(q, 0, new) BY <3>8, <3>4, <1>0 DEF NearerKeeps
    <3>6. fn.id[a[u]] + fn.id[v] < fn.id[u] + fn.id[v] BY <3>1, <3>3, <2>3
    <3>7. NearerLeft(q, new) < NearerLeft(q, p) BY <3>4, <3>6, <1>0 DEF NearerLeft, u, v
    <3> QED BY <3>5, <3>7 DEF new
  <2> QED BY <2>5, <2>6
<1>6. NearerKeeps(q, 0, r) /\ ~ NearerMore(fn, a, 0, r)
  <2> HIDE DEF S, s
  <2> QED BY <1>3, <1>4, <1>5, InterLoop!WhileEnds
<1> HIDE DEF r
<1>7. r \in Placed(fn, a) \X Placed(fn, a) /\ Chain(fn, a, r[1]) \cap Chain(fn, a, r[2]) = q.both
  BY <1>6, <1>0 DEF NearerKeeps
<1>8. r[1] = r[2] BY <1>6 DEF NearerMore
<1> QED BY <1>2, <1>7, <1>8, <1>0

\* What the chains of the blocks in S have in common.
Common(fn, a, S) == {d \in Blocks(fn) : \A p \in S : d \in Chain(fn, a, p)}
\* x stands for the blocks in S: the chain of x is what theirs have in common.
Meets(fn, a, S, x) ==
    IF S = {} THEN x = 0 ELSE x \in Placed(fn, a) /\ Chain(fn, a, x) = Common(fn, a, S)

MeetOp(x, y, z, above, p) == Meet(x, y, above, p)
MeetKeeps(q, n, above) == Meets(q.fn, q.a, {q.s[i] : i \in 1 .. n} \cap Placed(q.fn, q.a), above)
MeetLoop == INSTANCE Loops WITH Op <- MeetOp, More <- NeverMore, Keeps <- MeetKeeps, Measure <- Nothing

\* One more predecessor.
LEMMA MeetOne ==
    ASSUME NEW fn, Ordered(fn), NEW a, Tree(fn, a), NEW S, S \subseteq Placed(fn, a), NEW x, Meets(fn, a, S, x),
           NEW p \in Placed(fn, a)
    PROVE  Meets(fn, a, S \cup {p}, Inter(fn, a, x, p))
<1> DEFINE y == Inter(fn, a, x, p)
<1>1. p \in Blocks(fn) /\ 0 \notin Blocks(fn) /\ Chain(fn, a, p) \subseteq Blocks(fn)
  BY OrderFacts, ChainLeast DEF Placed
<1>2. CASE S = {}
  <2>1. y = p BY <1>2 DEF Meets, Inter
  <2>2. Common(fn, a, {p}) = Chain(fn, a, p) BY <1>1 DEF Common
  <2>3. S \cup {p} = {p} BY <1>2
  <2> QED BY <2>1, <2>2, <2>3 DEF Meets
<1>3. CASE S # {}
  <2>1. x \in Placed(fn, a) /\ Chain(fn, a, x) = Common(fn, a, S) BY <1>3 DEF Meets
  <2>2. y \in Placed(fn, a) /\ Chain(fn, a, y) = Chain(fn, a, x) \cap Chain(fn, a, p) BY <2>1, InterIs
  <2>3. Common(fn, a, S \cup {p}) = Common(fn, a, S) \cap Chain(fn, a, p) BY <1>1 DEF Common
  <2> HIDE DEF y
  <2>4. Meets(fn, a, S \cup {p}, y) BY <2>1, <2>2, <2>3 DEF Meets
  <2> QED BY <2>4 DEF y
<1> QED BY <1>2, <1>3

PlacedPreds(fn, a, b) == PredSet(fn, b) \cap Placed(fn, a)

\* A turn of a block: it is put below all its placed predecessors.
LEMMA MeetsIs ==
    ASSUME NEW fn, Ordered(fn), NEW a, Tree(fn, a), NEW b \in Blocks(fn)
    PROVE  \E x : DomStep(fn, a, b) = [a EXCEPT ![b] = x] /\ Meets(fn, a, PlacedPreds(fn, a, b), x)
<1> DEFINE s == fn.pred[b]
           q == [fn |-> fn, a |-> a, s |-> s]
           x == MeetLoop!EachTurn(fn, a, 0, 0, s)
<1>0. q.fn = fn /\ q.a = a /\ q.s = s OBVIOUS
<1>1. DomStep(fn, a, b) = [a EXCEPT ![b] = x]
  BY DEF DomStep, MeetLoop!EachTurn, MeetLoop!Each, Each, MeetLoop!With, With, MeetOp
<1>2. PredsAreRight(fn) /\ 0 \notin Blocks(fn) BY OrderFacts DEF Ordered
<1>3. s \in Seq(PredSet(fn, b)) /\ Range(s) = PredSet(fn, b) BY <1>2 DEF PredsAreRight, IsSeq
<1>4. Len(s) \in Nat /\ DOMAIN s = 1 .. Len(s) BY <1>3
<1>5. {s[i] : i \in 1 .. Len(s)} = PredSet(fn, b) BY <1>3, <1>4 DEF Range
<1> HIDE DEF q, s
<1>6. MeetKeeps(q, 0, 0)
  <2>1. {q.s[i] : i \in 1 .. 0} = {} OBVIOUS
  <2> QED BY <2>1 DEF MeetKeeps, Meets
<1>7. ASSUME NEW n \in 1 .. Len(s), NEW above, MeetKeeps(q, n - 1, above)
      PROVE  MeetKeeps(q, n, MeetOp(fn, a, 0, above, s[n]))
  <2> DEFINE p == s[n]
             S == {s[i] : i \in 1 .. n - 1} \cap Placed(fn, a)
             new == MeetOp(fn, a, 0, above, p)
  <2>1. p \in Blocks(fn) BY <1>3, <1>4 DEF PredSet
  <2>2. Meets(fn, a, S, above) BY <1>7, <1>0 DEF MeetKeeps
  <2>3. \A i : i \in 1 .. n <=> i \in 1 .. n - 1 \/ i = n BY <1>4
  <2>4. {s[i] : i \in 1 .. n} = {s[i] : i \in 1 .. n - 1} \cup {p} BY <2>3
  <2>5. CASE p \in Placed(fn, a)
    <3>1. new = Inter(fn, a, above, p) BY <2>5 DEF MeetOp, Meet, Placed
    <3>2. {s[i] : i \in 1 .. n} \cap Placed(fn, a) = S \cup {p} BY <2>4, <2>5
    <3>3. S \subseteq Placed(fn, a) OBVIOUS
    <3> HIDE DEF S, p, new
    <3>4. Meets(fn, a, S \cup {p}, new) BY <2>2, <2>5, <3>1, <3>3, MeetOne
    <3> QED BY <3>2, <3>4, <1>0 DEF MeetKeeps, new, p
  <2>6. CASE p \notin Placed(fn, a)
    <3>1. new = above BY <2>6, <2>1 DEF MeetOp, Meet, Placed
    <3>2. {s[i] : i \in 1 .. n} \cap Placed(fn, a) = S BY <2>4, <2>6
    <3> HIDE DEF S, p, new
    <3> QED BY <2>2, <3>1, <3>2, <1>0 DEF MeetKeeps, new, p
  <2> QED BY <2>5, <2>6
<1>8. MeetKeeps(q, Len(s), x) BY <1>4, <1>6, <1>7, MeetLoop!EachKeeps
<1> HIDE DEF x
<1>9. Meets(fn, a, PlacedPreds(fn, a, b), x) BY <1>8, <1>5, <1>0 DEF MeetKeeps, PlacedPreds
<1> QED BY <1>1, <1>9

-----------------------------------------------------------------------------
(* What one assignment of filldom's loop changes *)

\* b is put below x, which is as near to the first block as before, or nearer.
Moved(fn, a, b, x, c) ==
    /\ Tree(fn, a) /\ b \in Blocks(fn) /\ b # Start(fn) /\ x \in Placed(fn, a) /\ fn.id[x] < fn.id[b]
    /\ a[b] # 0 => x \in Chain(fn, a, a[b])
    /\ c = [a EXCEPT ![b] = x]

\* Still a tree.
LEMMA MovedIs ==
    ASSUME NEW fn, Ordered(fn), NEW a, NEW b, NEW x, NEW c, Moved(fn, a, b, x, c)
    PROVE  /\ Tree(fn, c) /\ Placed(fn, c) = Placed(fn, a) \cup {b} /\ c[b] = x /\ x # 0 /\ x \in Blocks(fn)
           /\ \A v \in Blocks(fn) : v # b => c[v] = a[v]
<1>1. Placed(fn, a) \subseteq Blocks(fn) /\ Blocks(fn) \subseteq DOMAIN fn.blk /\ 0 \notin Blocks(fn)
  BY OrderFacts DEF Placed
<1>2. /\ a \in [DOMAIN fn.blk -> Blocks(fn) \cup {0}] /\ a[Start(fn)] = 0 /\ x \in Blocks(fn) /\ b \in Blocks(fn) /\ b # Start(fn)
      /\ x \in Placed(fn, a) /\ fn.id[x] < fn.id[b] /\ c = [a EXCEPT ![b] = x]
      /\ \A v \in DOMAIN fn.blk \ Blocks(fn) : a[v] = 0
      /\ \A v \in Blocks(fn) : a[v] # 0 => fn.id[a[v]] < fn.id[v] /\ a[v] \in Placed(fn, a)
  BY <1>1 DEF Moved, Tree
<1>3. c \in [DOMAIN fn.blk -> Blocks(fn) \cup {0}] /\ c[b] = x /\ \A v \in DOMAIN fn.blk : v # b => c[v] = a[v]
  BY <1>2, <1>1
<1>4. Placed(fn, c) = Placed(fn, a) \cup {b} BY <1>1, <1>2, <1>3 DEF Placed
<1>5. Start(fn) \in Blocks(fn) BY OrderFacts
<1>6. c[Start(fn)] = 0 BY <1>1, <1>2, <1>3, <1>5
<1>7. \A v \in DOMAIN fn.blk \ Blocks(fn) : c[v] = 0 BY <1>2, <1>3
<1>8. \A v \in Blocks(fn) : c[v] # 0 => fn.id[c[v]] < fn.id[v] /\ c[v] \in Placed(fn, c) BY <1>1, <1>2, <1>3, <1>4
<1> QED BY <1>1, <1>2, <1>3, <1>4, <1>6, <1>7, <1>8 DEF Tree

\* The chains through b lose what lies between b and x, the others stay.
LEMMA MovedChains ==
    ASSUME NEW fn, Ordered(fn), NEW a, NEW b, NEW x, NEW c, Moved(fn, a, b, x, c)
    PROVE  /\ \A v \in Blocks(fn) : b \notin Chain(fn, a, v) => Chain(fn, c, v) = Chain(fn, a, v)
           /\ Chain(fn, c, b) = {b} \cup Chain(fn, a, x)
           /\ \A v \in Placed(fn, a) : Chain(fn, c, v) \subseteq Chain(fn, a, v)
           /\ \A v \in Blocks(fn) : Chain(fn, a, v) \subseteq Chain(fn, c, v) \cup Chain(fn, a, b)
           /\ \A v \in Blocks(fn) : b \in Chain(fn, a, v) => b \in Chain(fn, c, v)
<1>1. Tree(fn, a) /\ b \in Blocks(fn) /\ x \in Placed(fn, a) /\ fn.id[x] < fn.id[b] /\ (a[b] # 0 => x \in Chain(fn, a, a[b]))
  BY DEF Moved
<1>2. Tree(fn, c) /\ c[b] = x /\ x # 0 /\ x \in Blocks(fn) /\ \A v \in Blocks(fn) : v # b => c[v] = a[v] BY MovedIs
<1>3. ASSUME NEW v \in Blocks(fn), b \notin Chain(fn, a, v) PROVE Chain(fn, c, v) = Chain(fn, a, v)
  <2>1. Chain(fn, a, v) \subseteq Blocks(fn) /\ v \in Chain(fn, a, v) /\ Upward(fn, a, Chain(fn, a, v))
    BY <1>1, ChainLeast
  <2>2. Upward(fn, c, Chain(fn, a, v)) BY <2>1, <1>2, <1>3 DEF Upward
  <2>3. Chain(fn, c, v) \subseteq Chain(fn, a, v) BY <2>1, <2>2, <1>2, ChainLeast
  <2>4. Chain(fn, c, v) \subseteq Blocks(fn) /\ v \in Chain(fn, c, v) /\ Upward(fn, c, Chain(fn, c, v))
    BY <1>2, ChainLeast
  <2>5. Upward(fn, a, Chain(fn, c, v)) BY <2>3, <2>4, <1>2, <1>3 DEF Upward
  <2>6. Chain(fn, a, v) \subseteq Chain(fn, c, v) BY <2>4, <2>5, <1>1, ChainLeast
  <2> QED BY <2>3, <2>6
<1>4. Chain(fn, c, b) = {b} \cup Chain(fn, a, x)
  <2>1. b \notin Chain(fn, a, x)
    <3>1. SUFFICES ASSUME b \in Chain(fn, a, x) PROVE FALSE OBVIOUS
    <3>2. b = x \/ fn.id[b] < fn.id[x] BY <3>1, <1>1, <1>2, ChainBelow
    <3>3. fn.id[b] \in Nat /\ fn.id[x] \in Nat BY <1>1, <1>2, OrderFacts
    <3> QED BY <3>2, <3>3, <1>1
  <2>2. Chain(fn, c, x) = Chain(fn, a, x) BY <1>2, <1>3, <2>1
  <2> QED BY <2>2, <1>1, <1>2, ChainIs
<1>5. ASSUME NEW v \in Placed(fn, a) PROVE Chain(fn, c, v) \subseteq Chain(fn, a, v)
  <2>1. v \in Blocks(fn) BY <1>5 DEF Placed
  <2>2. Chain(fn, a, v) \subseteq Blocks(fn) /\ v \in Chain(fn, a, v) /\ Upward(fn, a, Chain(fn, a, v))
    BY <1>1, <2>1, ChainLeast
  <2>3. b \in Chain(fn, a, v) => x \in Chain(fn, a, v)
    <3>1. SUFFICES ASSUME b \in Chain(fn, a, v) PROVE x \in Chain(fn, a, v) OBVIOUS
    <3>2. b \in Placed(fn, a) BY <3>1, <1>1, <1>5, ChainPlaced
    <3>3. a[b] # 0 BY <3>2 DEF Placed, Moved
    <3>4. a[b] \in Chain(fn, a, v) BY <3>1, <3>3, <2>2 DEF Upward
    <3>5. Chain(fn, a, a[b]) \subseteq Chain(fn, a, v) BY <3>4, <1>1, <2>1, ChainOfChain
    <3> QED BY <3>3, <3>5, <1>1
  <2>4. Upward(fn, c, Chain(fn, a, v)) BY <2>2, <2>3, <1>2 DEF Upward
  <2> QED BY <2>1, <2>2, <2>4, <1>2, ChainLeast
<1>6. ASSUME NEW v \in Blocks(fn) PROVE Chain(fn, a, v) \subseteq Chain(fn, c, v) \cup Chain(fn, a, b)
  <2> DEFINE T == Chain(fn, c, v) \cup Chain(fn, a, b)
  <2>1. Chain(fn, c, v) \subseteq Blocks(fn) /\ v \in Chain(fn, c, v) /\ Upward(fn, c, Chain(fn, c, v))
    BY <1>2, ChainLeast
  <2>2. Chain(fn, a, b) \subseteq Blocks(fn) /\ b \in Chain(fn, a, b) /\ Upward(fn, a, Chain(fn, a, b))
    BY <1>1, ChainLeast
  <2>3. ASSUME NEW y \in T, a[y] # 0 PROVE a[y] \in T
    <3>1. CASE y \in Chain(fn, a, b) BY <3>1, <2>2, <2>3 DEF Upward
    <3>2. CASE y \notin Chain(fn, a, b)
      <4>1. y # b /\ y \in Chain(fn, c, v) /\ y \in Blocks(fn) BY <3>2, <2>1, <2>2
      <4>2. c[y] = a[y] BY <4>1, <1>2
      <4> QED BY <4>1, <4>2, <2>1, <2>3 DEF Upward
    <3> QED BY <3>1, <3>2
  <2>4. T \in SUBSET Blocks(fn) /\ v \in T /\ Upward(fn, a, T) BY <2>1, <2>2, <2>3 DEF Upward
  <2> HIDE DEF T
  <2>5. Chain(fn, a, v) \subseteq T BY <2>4, <1>1, ChainLeast
  <2> QED BY <2>5 DEF T
<1>7. ASSUME NEW v \in Blocks(fn), b \in Chain(fn, a, v) PROVE b \in Chain(fn, c, v)
  <2>1. SUFFICES ASSUME b \notin Chain(fn, c, v) PROVE FALSE OBVIOUS
  <2>2. Chain(fn, c, v) \subseteq Blocks(fn) /\ v \in Chain(fn, c, v) /\ Upward(fn, c, Chain(fn, c, v))
    BY <1>2, ChainLeast
  <2>3. Upward(fn, a, Chain(fn, c, v)) BY <2>1, <2>2, <1>2 DEF Upward
  <2>4. Chain(fn, a, v) \subseteq Chain(fn, c, v) BY <2>2, <2>3, <1>1, ChainLeast
  <2> QED BY <2>1, <2>4, <1>7
<1> QED BY <1>3, <1>4, <1>5, <1>6, <1>7

-----------------------------------------------------------------------------
(* One turn of the loop, when the blocks numbered below k have had their turn *)

Leads(fn, a) == \A b \in Blocks(fn) : a[b] # 0 => Forward(fn, a[b], b)
HoldsDominators(fn, a) == \A v \in Placed(fn, a) : Dominators(fn, v) \subseteq Chain(fn, a, v)
FollowsEdges(fn, k, a) ==
    \A u \in Blocks(fn) : \A v \in SuccSet(fn, u) :
      fn.id[u] < fn.id[v] /\ fn.id[v] < k => Chain(fn, a, v) \ {v} \subseteq Chain(fn, a, u)
IsDeepest(fn, a) ==
    \A b \in Blocks(fn) : a[b] # 0 => \A z \in Common(fn, a, PlacedPreds(fn, a, b)) : fn.id[z] <= fn.id[a[b]]
DomIs(fn, k, a) ==
    /\ Tree(fn, a) /\ Leads(fn, a) /\ HoldsDominators(fn, a) /\ FollowsEdges(fn, k, a) /\ IsDeepest(fn, a)
    /\ \A v \in Blocks(fn) : fn.id[v] < k => v \in Placed(fn, a)

\* Forward and forward again.
LEMMA ForwardTwice ==
    ASSUME NEW fn, NEW u, NEW v, NEW w, Forward(fn, u, v), Forward(fn, v, w)
    PROVE  Forward(fn, u, w)
BY DEF Forward

\* Forward by one edge.
LEMMA ForwardEdge ==
    ASSUME NEW fn, NEW u, NEW v, Forward(fn, u, v), NEW w \in SuccSet(fn, v), fn.id[v] < fn.id[w]
    PROVE  Forward(fn, u, w)
BY DEF Forward

\* A block leads forward to those it is on the chain of.
LEMMA ChainForward ==
    ASSUME NEW fn, NEW a, Tree(fn, a), Leads(fn, a), NEW v \in Blocks(fn), NEW d \in Chain(fn, a, v)
    PROVE  Forward(fn, d, v)
<1> DEFINE T == {u \in Blocks(fn) : Forward(fn, u, v)}
<1>1. v \in T BY DEF Forward
<1>2. ASSUME NEW u \in T, a[u] # 0 PROVE a[u] \in T
  <2>1. u \in Blocks(fn) /\ Forward(fn, u, v) OBVIOUS
  <2>2. a[u] \in Blocks(fn) BY <2>1, <1>2, ChainIs
  <2>3. Forward(fn, a[u], u) BY <2>1, <1>2 DEF Leads
  <2>4. Forward(fn, a[u], v) BY <2>1, <2>3, ForwardTwice
  <2> QED BY <2>2, <2>4
<1>3. T \in SUBSET Blocks(fn) OBVIOUS
<1>4. d \in T
  <2> HIDE DEF T
  <2> QED BY <1>1, <1>2, <1>3, ChainLeast DEF Upward
<1> QED BY <1>4

\* The new dominator of b is on the chain of the old one.
LEMMA StepMoves ==
    ASSUME NEW fn, Ordered(fn), NEW k \in Nat, NEW a, DomIs(fn, k, a), NEW b \in Blocks(fn), fn.id[b] = k, k # 0,
           NEW x, Meets(fn, a, PlacedPreds(fn, a, b), x), NEW c, c = [a EXCEPT ![b] = x]
    PROVE  /\ Moved(fn, a, b, x, c) /\ Forward(fn, x, b) /\ PlacedPreds(fn, a, b) # {}
           /\ Chain(fn, a, x) = Common(fn, a, PlacedPreds(fn, a, b))
<1> DEFINE S == PlacedPreds(fn, a, b)
<1>1. /\ OrderIsRight(fn) /\ GraphIsShaped(fn) /\ Tree(fn, a) /\ Leads(fn, a) /\ FollowsEdges(fn, k, a) /\ IsDeepest(fn, a)
      /\ \A v \in Blocks(fn) : fn.id[v] < k => v \in Placed(fn, a)
  BY DEF Ordered, DomIs
<1>2. fn.id[Start(fn)] = 0 /\ \A v \in Blocks(fn) : fn.id[v] \in Nat BY OrderFacts
<1>3. b # Start(fn) BY <1>2
<1>4. PICK q \in PredSet(fn, b) : fn.id[q] < fn.id[b] BY <1>1, <1>3 DEF OrderIsRight
<1>5. q \in Blocks(fn) /\ b \in SuccSet(fn, q) BY DEF PredSet
<1>6. q \in Placed(fn, a) BY <1>1, <1>4, <1>5
<1>7. q \in S /\ S # {} BY <1>6 DEF PlacedPreds
<1>8. x \in Placed(fn, a) /\ Chain(fn, a, x) = Common(fn, a, S) BY <1>7 DEF Meets
<1>9. x \in Blocks(fn) BY <1>8 DEF Placed
<1>10. x \in Chain(fn, a, x) BY <1>1, <1>9, ChainLeast
<1>11. \A p \in S : x \in Chain(fn, a, p) BY <1>8, <1>10 DEF Common
<1>12. fn.id[x] < fn.id[b]
  <2>1. x = q \/ fn.id[x] < fn.id[q] BY <1>1, <1>5, <1>7, <1>11, ChainBelow
  <2>2. fn.id[x] \in Nat /\ fn.id[q] \in Nat /\ fn.id[b] \in Nat BY <1>2, <1>5, <1>9
  <2> QED BY <2>1, <2>2, <1>4
<1>13. Forward(fn, x, b)
  <2>1. Forward(fn, x, q) BY <1>1, <1>5, <1>7, <1>11, ChainForward
  <2> QED BY <2>1, <1>4, <1>5, ForwardEdge
<1>14. ASSUME a[b] # 0 PROVE x \in Chain(fn, a, a[b])
  <2> DEFINE y == a[b]
             T == {v \in Blocks(fn) : (fn.id[y] <= fn.id[v] /\ fn.id[v] < k /\ x \notin Chain(fn, a, v))
                                      \/ k < fn.id[v]}
  <2>1. y \in Blocks(fn) /\ fn.id[y] < fn.id[b] BY <1>1, <1>14, ChainIs DEF Tree
  <2>2. fn.id[x] <= fn.id[y]
    <3>1. x \in Common(fn, a, S) BY <1>8, <1>10
    <3> QED BY <3>1, <1>1, <1>14 DEF IsDeepest
  <2>3. SUFFICES ASSUME x \notin Chain(fn, a, y) PROVE FALSE OBVIOUS
  <2>4. y \in T BY <2>1, <2>3, <1>2
  <2>5. ASSUME NEW s \in T, NEW t \in SuccSet(fn, s), fn.id[s] < fn.id[t] PROVE t \in T
    <3>1. s \in Blocks(fn) OBVIOUS
    <3>2. t \in Blocks(fn) BY <3>1, <1>1, SuccsAreBlocks
    <3>3. fn.id[s] \in Nat /\ fn.id[t] \in Nat /\ fn.id[y] \in Nat /\ fn.id[x] \in Nat BY <3>1, <3>2, <2>1, <1>2, <1>9
    <3>4. CASE k < fn.id[t] BY <3>2, <3>4
    <3>5. CASE ~ (k < fn.id[t])
      <4>1. fn.id[s] < k BY <2>5, <3>3, <3>5
      <4>2. fn.id[y] <= fn.id[s] /\ x \notin Chain(fn, a, s) BY <4>1, <3>3
      <4>3. s \in Placed(fn, a) BY <1>1, <3>1, <4>1
      <4>4. t # b
        <5>1. SUFFICES ASSUME t = b PROVE FALSE OBVIOUS
        <5>2. s \in S BY <5>1, <3>1, <4>3, <2>5 DEF PlacedPreds, PredSet
        <5> QED BY <5>2, <4>2, <1>11
      <4>5. fn.id[t] # k BY <3>2, <4>4, OrderFacts
      <4>6. fn.id[t] < k BY <3>3, <3>5, <4>5
      <4>7. Chain(fn, a, t) \ {t} \subseteq Chain(fn, a, s) BY <1>1, <3>1, <2>5, <4>6 DEF FollowsEdges
      <4>8. x # t BY <2>2, <2>5, <3>3, <4>2
      <4>9. x \notin Chain(fn, a, t) BY <4>2, <4>7, <4>8
      <4>10. fn.id[y] <= fn.id[t] BY <2>5, <3>3, <4>2
      <4> QED BY <3>2, <4>6, <4>9, <4>10
    <3> QED BY <3>4, <3>5
  <2>6. Forward(fn, y, b) BY <1>1, <1>14 DEF Leads
  <2>7. T \in SUBSET Blocks(fn) OBVIOUS
  <2>8. b \in T
    <3> HIDE DEF T
    <3> QED BY <2>4, <2>5, <2>6, <2>7 DEF Forward
  <2> QED BY <2>8, <1>2
<1> QED BY <1>1, <1>3, <1>7, <1>8, <1>12, <1>13, <1>14 DEF Moved

\* The assignment keeps the invariant; the block has had its turn.
LEMMA MovedKeeps ==
    ASSUME NEW fn, Ordered(fn), NEW k \in Nat, NEW a, DomIs(fn, k, a), NEW b \in Blocks(fn), fn.id[b] = k, k # 0,
           NEW x, NEW c, Moved(fn, a, b, x, c), Forward(fn, x, b), PlacedPreds(fn, a, b) # {},
           Chain(fn, a, x) = Common(fn, a, PlacedPreds(fn, a, b))
    PROVE  DomIs(fn, k + 1, c)
<1> DEFINE S == PlacedPreds(fn, a, b)
<1>1. /\ Tree(fn, a) /\ Leads(fn, a) /\ HoldsDominators(fn, a) /\ FollowsEdges(fn, k, a) /\ IsDeepest(fn, a)
      /\ \A v \in Blocks(fn) : fn.id[v] < k => v \in Placed(fn, a)
  BY DEF DomIs
<1>2. Moved(fn, a, b, x, c) /\ Forward(fn, x, b) /\ S # {} /\ Chain(fn, a, x) = Common(fn, a, S) OBVIOUS
<1>3. /\ Tree(fn, c) /\ Placed(fn, c) = Placed(fn, a) \cup {b} /\ c[b] = x /\ x # 0 /\ x \in Blocks(fn)
      /\ \A v \in Blocks(fn) : v # b => c[v] = a[v]
  BY <1>2, MovedIs
<1>4. /\ \A v \in Blocks(fn) : b \notin Chain(fn, a, v) => Chain(fn, c, v) = Chain(fn, a, v)
      /\ Chain(fn, c, b) = {b} \cup Chain(fn, a, x)
      /\ \A v \in Placed(fn, a) : Chain(fn, c, v) \subseteq Chain(fn, a, v)
      /\ \A v \in Blocks(fn) : Chain(fn, a, v) \subseteq Chain(fn, c, v) \cup Chain(fn, a, b)
      /\ \A v \in Blocks(fn) : b \in Chain(fn, a, v) => b \in Chain(fn, c, v)
  BY <1>2, MovedChains
<1>5. (\A v \in Blocks(fn) : fn.id[v] \in Nat) /\ Placed(fn, a) \subseteq Blocks(fn) BY OrderFacts DEF Placed
<1>6. Leads(fn, c) BY <1>1, <1>2, <1>3 DEF Leads
<1>7. \A v \in Blocks(fn) : fn.id[v] < k + 1 => v \in Placed(fn, c)
  <2> TAKE v \in Blocks(fn)
  <2>1. CASE fn.id[v] = k
    <3>1. v = b BY <2>1, OrderFacts
    <3> QED BY <3>1, <1>3
  <2>2. CASE fn.id[v] # k
    <3>1. fn.id[v] < k + 1 => fn.id[v] < k BY <2>2, <1>5
    <3> QED BY <3>1, <1>1, <1>3
  <2> QED BY <2>1, <2>2
<1>8. Dominators(fn, b) \subseteq Chain(fn, c, b)
  <2> SUFFICES ASSUME NEW d \in Dominators(fn, b), d # b PROVE d \in Chain(fn, a, x) BY <1>4
  <2>1. d \in Blocks(fn) BY DEF Dominators
  <2>2. ASSUME NEW p \in S PROVE d \in Chain(fn, a, p)
    <3>1. p \in Blocks(fn) /\ b \in SuccSet(fn, p) /\ p \in Placed(fn, a) BY DEF PlacedPreds, PredSet
    <3>2. d \in Dominators(fn, p) BY <3>1, DominatorsOfPred
    <3> QED BY <3>1, <3>2, <1>1 DEF HoldsDominators
  <2> QED BY <2>1, <2>2, <1>2 DEF Common
<1>9. HoldsDominators(fn, c)
  <2> SUFFICES ASSUME NEW v \in Placed(fn, a), NEW d \in Dominators(fn, v) PROVE d \in Chain(fn, c, v)
    BY <1>3, <1>8 DEF HoldsDominators
  <2>1. v \in Blocks(fn) /\ d \in Blocks(fn) /\ d \in Chain(fn, a, v) BY <1>1, <1>5 DEF HoldsDominators, Dominators
  <2>2. SUFFICES ASSUME d \notin Chain(fn, c, v) PROVE FALSE OBVIOUS
  <2>3. b \in Chain(fn, a, v) BY <2>1, <2>2, <1>4
  <2>4. b \in Chain(fn, c, v) BY <2>1, <2>3, <1>4
  <2>5. d \in Chain(fn, a, b) /\ d # b BY <2>1, <2>2, <2>4, <1>4
  <2>6. fn.id[d] < fn.id[b] BY <2>5, <1>1, ChainBelow
  <2>7. Forward(fn, b, v) BY <1>1, <2>1, <2>3, ChainForward
  <2>8. d \in Dominators(fn, b) BY <2>1, <2>6, <2>7, DominatorsForward
  <2>9. Chain(fn, c, b) \subseteq Chain(fn, c, v) BY <1>3, <2>1, <2>4, ChainOfChain
  <2> QED BY <2>2, <2>8, <2>9, <1>8
<1>10. ASSUME NEW v \in Blocks(fn), fn.id[v] < k PROVE Chain(fn, c, v) = Chain(fn, a, v)
  <2>1. b \notin Chain(fn, a, v)
    <3>1. SUFFICES ASSUME b \in Chain(fn, a, v) PROVE FALSE OBVIOUS
    <3>2. b = v \/ fn.id[b] < fn.id[v] BY <3>1, <1>1, ChainBelow
    <3> QED BY <3>2, <1>10, <1>5
  <2> QED BY <2>1, <1>4
<1>11. FollowsEdges(fn, k + 1, c)
  <2> SUFFICES ASSUME NEW u \in Blocks(fn), NEW v \in SuccSet(fn, u), fn.id[u] < fn.id[v], fn.id[v] < k + 1
               PROVE  Chain(fn, c, v) \ {v} \subseteq Chain(fn, c, u)
    BY DEF FollowsEdges
  <2>1. GraphIsShaped(fn) BY DEF Ordered
  <2>2. v \in Blocks(fn) BY <2>1, SuccsAreBlocks
  <2>3. fn.id[u] \in Nat /\ fn.id[v] \in Nat BY <2>2, <1>5
  <2>4. fn.id[u] < k BY <2>3
  <2>5. Chain(fn, c, u) = Chain(fn, a, u) BY <2>4, <1>10
  <2>6. CASE fn.id[v] = k
    <3>1. v = b BY <2>2, <2>6, OrderFacts
    <3>2. u \in S BY <2>4, <3>1, <1>1 DEF PlacedPreds, PredSet
    <3>3. Chain(fn, a, x) \subseteq Chain(fn, a, u) BY <3>2, <1>2 DEF Common
    <3> QED BY <3>1, <3>3, <2>5, <1>4
  <2>7. CASE fn.id[v] # k
    <3>1. fn.id[v] < k BY <2>3, <2>7
    <3>2. Chain(fn, c, v) = Chain(fn, a, v) BY <2>2, <3>1, <1>10
    <3> QED BY <3>1, <3>2, <2>5, <1>1 DEF FollowsEdges
  <2> QED BY <2>6, <2>7
<1>12. \A v \in Blocks(fn) : PlacedPreds(fn, a, v) \subseteq PlacedPreds(fn, c, v) BY <1>3 DEF PlacedPreds
<1>13. \A v \in Blocks(fn) : Common(fn, c, PlacedPreds(fn, c, v)) \subseteq Common(fn, a, PlacedPreds(fn, a, v))
  BY <1>12, <1>4 DEF Common, PlacedPreds
<1>14. IsDeepest(fn, c)
  <2> SUFFICES ASSUME NEW v \in Blocks(fn), c[v] # 0, NEW z \in Common(fn, c, PlacedPreds(fn, c, v))
               PROVE  fn.id[z] <= fn.id[c[v]]
    BY DEF IsDeepest
  <2>1. z \in Common(fn, a, PlacedPreds(fn, a, v)) BY <1>13
  <2>2. CASE v = b
    <3>1. z \in Chain(fn, a, x) BY <2>1, <2>2, <1>2
    <3>2. z = x \/ fn.id[z] < fn.id[x] BY <3>1, <1>1, <1>3, ChainBelow
    <3>3. z \in Blocks(fn) BY <2>1 DEF Common
    <3> QED BY <3>2, <3>3, <2>2, <1>3, <1>5
  <2>3. CASE v # b BY <2>1, <2>3, <1>1, <1>3 DEF IsDeepest
  <2> QED BY <2>2, <2>3
<1> QED BY <1>3, <1>6, <1>7, <1>9, <1>11, <1>14 DEF DomIs

\* So does the turn of a block.
LEMMA StepKeeps ==
    ASSUME NEW fn, Ordered(fn), NEW k \in Nat, NEW a, DomIs(fn, k, a), NEW b \in Blocks(fn), fn.id[b] = k, k # 0,
           NEW x, Meets(fn, a, PlacedPreds(fn, a, b), x), NEW c, c = [a EXCEPT ![b] = x]
    PROVE  DomIs(fn, k + 1, c)
BY StepMoves, MovedKeeps

\* It holds before the first turn, when only the first block is placed.
LEMMA FirstDomIs ==
    ASSUME NEW fn, Ordered(fn), NEW a, a = [b \in DOMAIN fn.blk |-> 0]
    PROVE  DomIs(fn, 1, a)
<1>1. Blocks(fn) \subseteq DOMAIN fn.blk /\ Start(fn) \in Blocks(fn) /\ fn.id[Start(fn)] = 0
      /\ (\A v \in Blocks(fn) : fn.id[v] \in Nat) /\ \A b, c \in Blocks(fn) : fn.id[b] = fn.id[c] => b = c
  BY OrderFacts
<1>2. a \in [DOMAIN fn.blk -> Blocks(fn) \cup {0}] /\ \A v \in DOMAIN fn.blk : a[v] = 0 OBVIOUS
<1>3. Tree(fn, a) BY <1>1, <1>2 DEF Tree
<1>4. Placed(fn, a) = {Start(fn)} BY <1>1, <1>2 DEF Placed
<1>5. Leads(fn, a) /\ IsDeepest(fn, a) BY <1>1, <1>2 DEF Leads, IsDeepest
<1>6. HoldsDominators(fn, a)
  <2> SUFFICES ASSUME NEW d \in Dominators(fn, Start(fn)) PROVE d \in Chain(fn, a, Start(fn))
    BY <1>4 DEF HoldsDominators
  <2>1. Start(fn) \in Chain(fn, a, Start(fn)) BY <1>1, <1>3, ChainLeast
  <2>2. GraphIsShaped(fn) BY DEF Ordered
  <2>3. Start(fn) \notin {d} => Start(fn) \in PathsFrom(fn, Start(fn), {d}) BY <2>2, <1>1, PathsFromIs
  <2>4. d = Start(fn) BY <2>3 DEF Dominators
  <2> QED BY <2>1, <2>4
<1>7. FollowsEdges(fn, 1, a)
  <2> SUFFICES ASSUME NEW u \in Blocks(fn), NEW v \in SuccSet(fn, u), fn.id[u] < fn.id[v], fn.id[v] < 1 PROVE FALSE
    BY DEF FollowsEdges
  <2>1. v \in Blocks(fn) BY SuccsAreBlocks DEF Ordered
  <2>2. fn.id[u] \in Nat /\ fn.id[v] \in Nat BY <2>1, <1>1
  <2> QED BY <2>2
<1>8. \A v \in Blocks(fn) : fn.id[v] < 1 => v \in Placed(fn, a)
  <2> TAKE v \in Blocks(fn)
  <2>1. fn.id[v] < 1 => fn.id[v] = 0 BY <1>1
  <2> QED BY <2>1, <1>1, <1>4
<1> QED BY <1>3, <1>5, <1>6, <1>7, <1>8 DEF DomIs

-----------------------------------------------------------------------------
(* The loop ends: no block moves away from the first one *)

Rank(fn, a, b) == IF a[b] = 0 THEN Len(fn.rpo) ELSE fn.id[a[b]]
IsNearer(fn, a, c) ==
    \A b \in Blocks(fn) : Rank(fn, c, b) <= Rank(fn, a, b) /\ (Rank(fn, c, b) = Rank(fn, a, b) => c[b] = a[b])

\* The rank of a block is the number of what it is below.
LEMMA RankIs ==
    ASSUME NEW fn, Ordered(fn), NEW a, Tree(fn, a), NEW b \in Blocks(fn)
    PROVE  Rank(fn, a, b) \in Nat /\ Rank(fn, a, b) <= Len(fn.rpo)
<1>1. Len(fn.rpo) \in Nat /\ \A v \in Blocks(fn) : fn.id[v] \in 0 .. Len(fn.rpo) - 1 BY OrderFacts
<1>2. a[b] # 0 => a[b] \in Blocks(fn) BY ChainIs
<1>3. CASE a[b] = 0 BY <1>1, <1>3 DEF Rank
<1>4. CASE a[b] # 0
  <2>1. fn.id[a[b]] \in 0 .. Len(fn.rpo) - 1 BY <1>1, <1>2, <1>4
  <2> QED BY <2>1, <1>1, <1>4 DEF Rank
<1> QED BY <1>3, <1>4

\* An assignment lowers the rank of its block, or changes nothing.
LEMMA MovedNearer ==
    ASSUME NEW fn, Ordered(fn), NEW a, NEW b, NEW x, NEW c, Moved(fn, a, b, x, c)
    PROVE  IsNearer(fn, a, c)
<1>1. Tree(fn, a) /\ b \in Blocks(fn) /\ (a[b] # 0 => x \in Chain(fn, a, a[b])) BY DEF Moved
<1>2. Tree(fn, c) /\ c[b] = x /\ x # 0 /\ x \in Blocks(fn) /\ \A v \in Blocks(fn) : v # b => c[v] = a[v] BY MovedIs
<1>3. Len(fn.rpo) \in Nat /\ \A v \in Blocks(fn) : fn.id[v] \in 0 .. Len(fn.rpo) - 1 /\ fn.id[v] \in Nat BY OrderFacts
<1>4. ASSUME NEW v \in Blocks(fn), v # b
      PROVE  Rank(fn, c, v) <= Rank(fn, a, v) /\ c[v] = a[v]
  <2>1. c[v] = a[v] BY <1>2, <1>4
  <2>2. Rank(fn, c, v) = Rank(fn, a, v) BY <2>1 DEF Rank
  <2>3. Rank(fn, a, v) \in Nat BY <1>1, RankIs
  <2> QED BY <2>1, <2>2, <2>3
<1>5. Rank(fn, c, b) <= Rank(fn, a, b) /\ (Rank(fn, c, b) = Rank(fn, a, b) => c[b] = a[b])
  <2>1. Rank(fn, c, b) = fn.id[x] BY <1>2 DEF Rank
  <2>2. CASE a[b] = 0
    <3>1. Rank(fn, a, b) = Len(fn.rpo) BY <2>2 DEF Rank
    <3>2. fn.id[x] \in 0 .. Len(fn.rpo) - 1 BY <1>2, <1>3
    <3>3. fn.id[x] < Len(fn.rpo) BY <3>2, <1>3
    <3> QED BY <2>1, <3>1, <3>3, <3>2, <1>3
  <2>3. CASE a[b] # 0
    <3>1. Rank(fn, a, b) = fn.id[a[b]] BY <2>3 DEF Rank
    <3>2. a[b] \in Blocks(fn) BY <1>1, <2>3, ChainIs
    <3>3. x = a[b] \/ fn.id[x] < fn.id[a[b]] BY <1>1, <2>3, <3>2, ChainBelow
    <3>4. fn.id[x] \in Nat /\ fn.id[a[b]] \in Nat BY <1>2, <1>3, <3>2
    <3> QED BY <2>1, <3>1, <3>3, <3>4, <1>2
  <2> QED BY <2>2, <2>3
<1> QED BY <1>4, <1>5 DEF IsNearer

\* Being nearer is an order.
LEMMA NearerTwice ==
    ASSUME NEW fn, Ordered(fn), NEW l, Tree(fn, l), NEW a, Tree(fn, a), NEW c, Tree(fn, c),
           IsNearer(fn, l, a), IsNearer(fn, a, c)
    PROVE  IsNearer(fn, l, c) /\ (c = l => a = l)
<1>1. ASSUME NEW b \in Blocks(fn)
      PROVE  /\ Rank(fn, c, b) <= Rank(fn, l, b) /\ (Rank(fn, c, b) = Rank(fn, l, b) => c[b] = l[b])
             /\ Rank(fn, c, b) = Rank(fn, l, b) => a[b] = l[b]
  <2>1. Rank(fn, l, b) \in Nat /\ Rank(fn, a, b) \in Nat /\ Rank(fn, c, b) \in Nat BY RankIs
  <2>2. /\ Rank(fn, a, b) <= Rank(fn, l, b) /\ (Rank(fn, a, b) = Rank(fn, l, b) => a[b] = l[b])
        /\ Rank(fn, c, b) <= Rank(fn, a, b) /\ (Rank(fn, c, b) = Rank(fn, a, b) => c[b] = a[b])
    BY DEF IsNearer
  <2>3. Rank(fn, c, b) = Rank(fn, l, b) => Rank(fn, a, b) = Rank(fn, l, b) /\ Rank(fn, c, b) = Rank(fn, a, b)
    BY <2>1, <2>2
  <2>4. Rank(fn, c, b) <= Rank(fn, l, b) BY <2>1, <2>2
  <2> QED BY <2>2, <2>3, <2>4
<1>2. ASSUME c = l PROVE a = l
  <2>1. \A b \in Blocks(fn) : a[b] = l[b] BY <1>1, <1>2
  <2>2. \A b \in DOMAIN fn.blk \ Blocks(fn) : a[b] = l[b] BY DEF Tree
  <2>3. a \in [DOMAIN fn.blk -> Blocks(fn) \cup {0}] /\ l \in [DOMAIN fn.blk -> Blocks(fn) \cup {0}] BY DEF Tree
  <2> QED BY <2>1, <2>2, <2>3
<1> QED BY <1>1, <1>2 DEF IsNearer

-----------------------------------------------------------------------------
(* filldom's loop *)

Settled(fn, a, b) == Meets(fn, a, PlacedPreds(fn, a, b), a[b])

DomStepOp(x, y, z, a, b) == DomStep(x, a, b)
DomStepKeeps(q, n, a) ==
    /\ DomIs(q.fn, n + 1, a) /\ IsNearer(q.fn, q.l, a)
    /\ a = q.l => \A i \in 1 .. n : Settled(q.fn, a, q.fn.rpo[i + 1])
DomStepLoop == INSTANCE Loops WITH Op <- DomStepOp, More <- NeverMore, Keeps <- DomStepKeeps, Measure <- Nothing

\* One block has its turn.
LEMMA DomStepIs ==
    ASSUME NEW fn, Ordered(fn), NEW l, Tree(fn, l), NEW n \in Nat, n # 0, n + 1 <= Len(fn.rpo), NEW a, DomIs(fn, n, a),
           IsNearer(fn, l, a), a = l => \A i \in 1 .. n - 1 : Settled(fn, a, fn.rpo[i + 1]),
           NEW b, b = fn.rpo[n + 1], NEW c, c = DomStep(fn, a, b)
    PROVE  /\ DomIs(fn, n + 1, c) /\ IsNearer(fn, l, c)
           /\ c = l => \A i \in 1 .. n : Settled(fn, c, fn.rpo[i + 1])
<1>1. Len(fn.rpo) \in Nat /\ \A i \in 1 .. Len(fn.rpo) : fn.rpo[i] \in Blocks(fn) /\ fn.id[fn.rpo[i]] = i - 1
  BY OrderFacts
<1>2. n + 1 \in 1 .. Len(fn.rpo) BY <1>1
<1>3. b \in Blocks(fn) /\ fn.id[b] = n
  <2>1. b \in Blocks(fn) /\ fn.id[b] = n + 1 - 1 BY <1>1, <1>2
  <2> QED BY <2>1
<1>4. Tree(fn, a) BY DEF DomIs
<1>5. PICK x : DomStep(fn, a, b) = [a EXCEPT ![b] = x] /\ Meets(fn, a, PlacedPreds(fn, a, b), x)
  BY <1>3, <1>4, MeetsIs
<1>6. c = [a EXCEPT ![b] = x] BY <1>5
<1>7. Moved(fn, a, b, x, c) /\ DomIs(fn, n + 1, c) BY <1>3, <1>5, <1>6, StepMoves, StepKeeps
<1>8. Tree(fn, c) /\ IsNearer(fn, a, c) /\ c[b] = x BY <1>7, MovedNearer, MovedIs DEF DomIs
<1>9. IsNearer(fn, l, c) /\ (c = l => a = l) BY <1>4, <1>8, NearerTwice
<1>10. ASSUME c = l PROVE \A i \in 1 .. n : Settled(fn, c, fn.rpo[i + 1])
  <2>1. a = l /\ a = c BY <1>9, <1>10
  <2>2. Settled(fn, c, b) BY <1>5, <1>8, <2>1 DEF Settled
  <2>3. \A i \in 1 .. n - 1 : Settled(fn, c, fn.rpo[i + 1]) BY <2>1
  <2>4. \A i \in 1 .. n : i \in 1 .. n - 1 \/ i = n OBVIOUS
  <2> QED BY <2>2, <2>3, <2>4
<1> QED BY <1>7, <1>9, <1>10

\* For the next turn the blocks start over.
LEMMA DomIsWeaker ==
    ASSUME NEW fn, Ordered(fn), NEW k \in Nat, NEW a, DomIs(fn, k, a), k >= 1
    PROVE  DomIs(fn, 1, a)
<1>1. GraphIsShaped(fn) /\ \A v \in Blocks(fn) : fn.id[v] \in Nat BY OrderFacts DEF Ordered
<1>2. \A v \in Blocks(fn) : fn.id[v] < 1 => fn.id[v] < k BY <1>1
<1>3. \A u \in Blocks(fn) : SuccSet(fn, u) \subseteq Blocks(fn) BY <1>1, SuccsAreBlocks
<1>4. FollowsEdges(fn, 1, a)
  <2> SUFFICES ASSUME NEW u \in Blocks(fn), NEW v \in SuccSet(fn, u), fn.id[u] < fn.id[v], fn.id[v] < 1
               PROVE  Chain(fn, a, v) \ {v} \subseteq Chain(fn, a, u)
    BY DEF FollowsEdges
  <2> QED BY <1>2, <1>3 DEF DomIs, FollowsEdges
<1> QED BY <1>2, <1>4 DEF DomIs

\* A sequence without its first element.
LEMMA TailFacts ==
    ASSUME NEW A, NEW s \in Seq(A), Len(s) # 0
    PROVE  Len(Tail(s)) = Len(s) - 1 /\ \A i \in 1 .. Len(s) - 1 : Tail(s)[i] = s[i + 1]
<1>1. s # <<>> OBVIOUS
<1> QED BY <1>1

\* All blocks have a turn; when nothing changed, every block is below its predecessors.
LEMMA DomTurnIs ==
    ASSUME NEW fn, Ordered(fn), NEW d, DomIs(fn, 1, d.idom)
    PROVE  LET e == DomTurn(fn, d)
           IN /\ e = [idom |-> e.idom, again |-> e.idom # d.idom]
              /\ DomIs(fn, Len(fn.rpo), e.idom) /\ IsNearer(fn, d.idom, e.idom)
              /\ ~ e.again => \A b \in Blocks(fn) \ {Start(fn)} : Settled(fn, e.idom, b)
<1> DEFINE l == d.idom
           s == Tail(fn.rpo)
           N == Len(fn.rpo)
           q == [fn |-> fn, l |-> l]
           r == DomStepLoop!EachTurn(fn, 0, 0, l, s)
<1>0. q.fn = fn /\ q.l = l OBVIOUS
<1>1. DomTurn(fn, d) = [idom |-> r, again |-> r # l]
  BY DEF DomTurn, DomStepLoop!EachTurn, DomStepLoop!Each, Each, DomStepLoop!With, With, DomStepOp
<1>2. /\ N \in Nat /\ N # 0 /\ fn.rpo \in Seq(Blocks(fn)) /\ fn.id[Start(fn)] = 0
      /\ \A n \in 1 .. N : fn.rpo[n] \in Blocks(fn) /\ fn.id[fn.rpo[n]] = n - 1
      /\ \A b \in Blocks(fn) : \E n \in 1 .. N : b = fn.rpo[n]
      /\ Start(fn) \in Blocks(fn)
  BY OrderFacts
<1>3. Len(s) = N - 1 /\ \A i \in 1 .. N - 1 : s[i] = fn.rpo[i + 1]
  <2>1. fn.rpo \in Seq(Blocks(fn)) /\ Len(fn.rpo) # 0 BY <1>2
  <2>2. Len(Tail(fn.rpo)) = Len(fn.rpo) - 1 /\ \A i \in 1 .. Len(fn.rpo) - 1 : Tail(fn.rpo)[i] = fn.rpo[i + 1]
    BY <2>1, TailFacts, Zenon
  <2> QED BY <2>2
<1>4. Tree(fn, l) BY DEF DomIs
<1> HIDE DEF q, s, l
<1>5. DomStepKeeps(q, 0, l)
  <2>1. IsNearer(fn, l, l)
    <3>1. \A b \in Blocks(fn) : Rank(fn, l, b) \in Nat BY <1>4, RankIs
    <3> QED BY <3>1 DEF IsNearer
  <2>2. DomIs(fn, 0 + 1, l) BY DEF l
  <2> QED BY <2>1, <2>2, <1>0 DEF DomStepKeeps
<1>6. ASSUME NEW n \in 1 .. Len(s), NEW a, DomStepKeeps(q, n - 1, a)
      PROVE  DomStepKeeps(q, n, DomStepOp(fn, 0, 0, a, s[n]))
  <2> DEFINE b == s[n]
             c == DomStep(fn, a, b)
  <2>0. n \in 1 .. N - 1 BY <1>3
  <2>1. n \in Nat /\ n # 0 /\ n + 1 <= N /\ n - 1 + 1 = n /\ n \in 1 .. N - 1
    <3> HIDE DEF N
    <3> QED BY <2>0, <1>2
  <2>2. /\ DomIs(fn, n, a) /\ IsNearer(fn, l, a)
        /\ a = l => \A i \in 1 .. n - 1 : Settled(fn, a, fn.rpo[i + 1])
    BY <1>6, <1>0, <2>1 DEF DomStepKeeps
  <2>3. b = fn.rpo[n + 1] BY <1>3, <2>1
  <2> HIDE DEF b
  <2>4. c = DomStep(fn, a, b) OBVIOUS
  <2> HIDE DEF c
  <2>5. /\ DomIs(fn, n + 1, c) /\ IsNearer(fn, l, c)
        /\ c = l => \A i \in 1 .. n : Settled(fn, c, fn.rpo[i + 1])
    BY <1>4, <2>1, <2>2, <2>3, <2>4, DomStepIs
  <2>6. DomStepKeeps(q, n, c) BY <2>5, <1>0 DEF DomStepKeeps
  <2> QED BY <2>6 DEF DomStepOp, b, c
<1>7. Len(s) \in Nat BY <1>2, <1>3
<1>8. DomStepKeeps(q, Len(s), r) BY <1>5, <1>6, <1>7, DomStepLoop!EachKeeps
<1> HIDE DEF r
<1>9. /\ DomIs(fn, N, r) /\ IsNearer(fn, l, r)
      /\ r = l => \A i \in 1 .. N - 1 : Settled(fn, r, fn.rpo[i + 1])
  <2>1. Len(s) + 1 = N /\ Len(s) = N - 1 BY <1>2, <1>3
  <2> QED BY <1>8, <1>0, <2>1 DEF DomStepKeeps
<1>10. ASSUME r = l, NEW b \in Blocks(fn) \ {Start(fn)} PROVE Settled(fn, r, b)
  <2>1. PICK n \in 1 .. N : b = fn.rpo[n] BY <1>2
  <2>2. n # 1
    <3>1. SUFFICES ASSUME n = 1 PROVE FALSE OBVIOUS
    <3>2. fn.id[b] = 1 - 1 BY <2>1, <3>1, <1>2
    <3>3. fn.id[b] = fn.id[Start(fn)] BY <3>2, <1>2
    <3> QED BY <3>3, OrderFacts
  <2>3. n - 1 \in 1 .. N - 1 /\ n - 1 + 1 = n BY <2>2, <1>2
  <2> QED BY <2>1, <2>3, <1>9, <1>10
<1> DEFINE e == DomTurn(fn, d)
<1>11. e = [idom |-> r, again |-> r # l] BY <1>1
<1>12. e.idom = r /\ e.again = (r # l) BY <1>11
<1> HIDE DEF e
<1>13. e = [idom |-> e.idom, again |-> e.idom # l] BY <1>11, <1>12
<1>14. DomIs(fn, N, e.idom) /\ IsNearer(fn, l, e.idom) BY <1>9, <1>12
<1>15. ~ e.again => \A b \in Blocks(fn) \ {Start(fn)} : Settled(fn, e.idom, b) BY <1>10, <1>12
<1> QED BY <1>13, <1>14, <1>15 DEF e, l

DomFixOp(x, y, z, d, e) == DomTurn(x, d)
DomFixMore(x, y, z, d) == d.again
DomFixKeeps(q, n, d) ==
    /\ d = [idom |-> d.idom, again |-> d.again] /\ d.again \in BOOLEAN /\ DomIs(q.fn, 1, d.idom)
    /\ ~ d.again => /\ DomIs(q.fn, Len(q.fn.rpo), d.idom)
                     /\ \A b \in Blocks(q.fn) \ {Start(q.fn)} : Settled(q.fn, d.idom, b)
\* How far the blocks are from the first one.
Far(fn, a) == {r \in Blocks(fn) \X (0 .. Len(fn.rpo)) : r[2] < Rank(fn, a, r[1])}
DomFixLeft(q, d) == Cardinality(Far(q.fn, d.idom)) + (IF d.again THEN 1 ELSE 0)
DomFixLoop == INSTANCE Loops WITH Op <- DomFixOp, More <- DomFixMore, Keeps <- DomFixKeeps, Measure <- DomFixLeft

\* The distance can be counted.
LEMMA FarIsFinite ==
    ASSUME NEW fn, Ordered(fn), NEW a
    PROVE  IsFiniteSet(Far(fn, a)) /\ Cardinality(Far(fn, a)) \in Nat
<1>1. IsFiniteSet(Blocks(fn))
  <2>1. Start(fn) \in Blocks(fn) /\ GraphIsShaped(fn) BY OrderFacts DEF Ordered
  <2> QED BY <2>1, SuccsAreBlocks
<1>2. IsFiniteSet(0 .. Len(fn.rpo))
  <2>1. Len(fn.rpo) \in Nat BY OrderFacts
  <2>2. 0 \in Int /\ Len(fn.rpo) \in Int BY <2>1
  <2> QED BY <2>2, FS_Interval
<1>3. IsFiniteSet(Blocks(fn) \X (0 .. Len(fn.rpo))) BY <1>1, <1>2, FS_Product
<1>4. Far(fn, a) \subseteq Blocks(fn) \X (0 .. Len(fn.rpo)) BY DEF Far
<1>5. IsFiniteSet(Far(fn, a)) BY <1>3, <1>4, FS_Subset
<1> QED BY <1>5, FS_CardinalityType

\* It gets less with every turn that changes something.
LEMMA FarShrinks ==
    ASSUME NEW fn, Ordered(fn), NEW a, Tree(fn, a), NEW c, Tree(fn, c), IsNearer(fn, a, c), c # a
    PROVE  Cardinality(Far(fn, c)) < Cardinality(Far(fn, a))
<1>1. \A b \in Blocks(fn) : /\ Rank(fn, a, b) \in Nat /\ Rank(fn, a, b) <= Len(fn.rpo)
                            /\ Rank(fn, c, b) \in Nat /\ Rank(fn, c, b) <= Len(fn.rpo)
                            /\ Rank(fn, c, b) <= Rank(fn, a, b) /\ (Rank(fn, c, b) = Rank(fn, a, b) => c[b] = a[b])
  BY RankIs DEF IsNearer
<1>2. Far(fn, c) \subseteq Far(fn, a)
  <2> SUFFICES ASSUME NEW r \in Blocks(fn) \X (0 .. Len(fn.rpo)), r[2] < Rank(fn, c, r[1])
               PROVE r[2] < Rank(fn, a, r[1])
    BY DEF Far
  <2>1. r[1] \in Blocks(fn) /\ r[2] \in Int OBVIOUS
  <2> QED BY <2>1, <1>1
<1>3. PICK b \in Blocks(fn) : c[b] # a[b]
  <2>1. SUFFICES ASSUME \A b \in Blocks(fn) : c[b] = a[b] PROVE FALSE OBVIOUS
  <2>2. \A b \in DOMAIN fn.blk \ Blocks(fn) : c[b] = a[b] BY DEF Tree
  <2>3. a \in [DOMAIN fn.blk -> Blocks(fn) \cup {0}] /\ c \in [DOMAIN fn.blk -> Blocks(fn) \cup {0}] BY DEF Tree
  <2>4. a = c BY <2>1, <2>2, <2>3
  <2> QED BY <2>4
<1>4. Rank(fn, c, b) < Rank(fn, a, b) BY <1>1, <1>3
<1> DEFINE r == <<b, Rank(fn, c, b)>>
<1>5. r \in Blocks(fn) \X (0 .. Len(fn.rpo))
  <2>1. Rank(fn, c, b) \in 0 .. Len(fn.rpo)
    <3>1. Len(fn.rpo) \in Nat BY OrderFacts
    <3> QED BY <1>1, <3>1
  <2> QED BY <2>1
<1>6. r[1] = b /\ r[2] = Rank(fn, c, b) OBVIOUS
<1> HIDE DEF r
<1>7. ~ (Rank(fn, c, b) < Rank(fn, c, b)) BY <1>1
<1>8. r \in Far(fn, a) /\ r \notin Far(fn, c) BY <1>4, <1>5, <1>6, <1>7 DEF Far
<1>9. Far(fn, c) # Far(fn, a) BY <1>8
<1>10. IsFiniteSet(Far(fn, a)) BY FarIsFinite
<1> QED BY <1>2, <1>9, <1>10, StrictlySmaller

\* The iteration ends, with every block settled.
LEMMA DomFixIs ==
    ASSUME NEW fn, Ordered(fn)
    PROVE  /\ DomIs(fn, Len(fn.rpo), DomFix(fn))
           /\ \A b \in Blocks(fn) \ {Start(fn)} : Settled(fn, DomFix(fn), b)
<1> DEFINE B == DOMAIN fn.blk
           S == [idom : [B -> B \cup {0}], again : BOOLEAN]
           v == [idom |-> [b \in B |-> 0], again |-> TRUE]
           q == [fn |-> fn]
           r == DomFixLoop!WhileMore(S, fn, 0, 0, v)
<1>0. q.fn = fn OBVIOUS
<1>1. DomFix(fn) = r.idom
  BY DEF DomFix, DomFixLoop!WhileMore, DomFixLoop!While, While, DomFixLoop!With, With, DomFixOp, DomFixMore
<1>2. Len(fn.rpo) \in Nat /\ Len(fn.rpo) >= 1 /\ Blocks(fn) \subseteq B
  <2>1. Len(fn.rpo) \in Nat /\ Len(fn.rpo) # 0 /\ Blocks(fn) \subseteq B BY OrderFacts
  <2> QED BY <2>1
<1>3. DomFixKeeps(q, 0, v)
  <2>1. DomIs(fn, 1, v.idom) BY FirstDomIs
  <2> QED BY <2>1, <1>0 DEF DomFixKeeps
<1> HIDE DEF q
<1>4. ASSUME NEW d, DomFixKeeps(q, 0, d) PROVE d \in S /\ DomFixLeft(q, d) \in Nat
  <2>1. d = [idom |-> d.idom, again |-> d.again] /\ d.again \in BOOLEAN /\ DomIs(fn, 1, d.idom)
    BY <1>4, <1>0 DEF DomFixKeeps
  <2>2. d.idom \in [B -> B \cup {0}] BY <2>1, <1>2 DEF DomIs, Tree
  <2>3. d \in S BY <2>1, <2>2
  <2>4. Cardinality(Far(fn, d.idom)) \in Nat BY FarIsFinite
  <2>5. DomFixLeft(q, d) \in Nat BY <2>4, <1>0 DEF DomFixLeft
  <2> QED BY <2>3, <2>5
<1>5. ASSUME NEW d, DomFixKeeps(q, 0, d), DomFixMore(fn, 0, 0, d)
      PROVE  DomFixKeeps(q, 0, DomFixOp(fn, 0, 0, d, 0)) /\ DomFixLeft(q, DomFixOp(fn, 0, 0, d, 0)) < DomFixLeft(q, d)
  <2> DEFINE e == DomTurn(fn, d)
  <2>1. DomIs(fn, 1, d.idom) /\ d.again = TRUE BY <1>5, <1>0 DEF DomFixKeeps, DomFixMore
  <2>2. /\ e = [idom |-> e.idom, again |-> e.idom # d.idom]
        /\ DomIs(fn, Len(fn.rpo), e.idom) /\ IsNearer(fn, d.idom, e.idom)
        /\ ~ e.again => \A b \in Blocks(fn) \ {Start(fn)} : Settled(fn, e.idom, b)
    BY <2>1, DomTurnIs
  <2> HIDE DEF e
  <2>3. e.again = (e.idom # d.idom) BY <2>2
  <2>4. DomIs(fn, 1, e.idom) BY <2>2, <1>2, DomIsWeaker
  <2>5. DomFixKeeps(q, 0, e) BY <2>2, <2>3, <2>4, <1>0 DEF DomFixKeeps
  <2>6. Cardinality(Far(fn, d.idom)) \in Nat /\ Cardinality(Far(fn, e.idom)) \in Nat BY FarIsFinite
  <2>7. DomFixLeft(q, d) = Cardinality(Far(fn, d.idom)) + 1 BY <2>1, <1>0 DEF DomFixLeft
  <2>8. CASE e.idom = d.idom
    <3>1. DomFixLeft(q, e) = Cardinality(Far(fn, d.idom)) + 0 BY <2>3, <2>8, <1>0 DEF DomFixLeft
    <3> QED BY <3>1, <2>5, <2>6, <2>7 DEF DomFixOp, e
  <2>9. CASE e.idom # d.idom
    <3>1. DomFixLeft(q, e) = Cardinality(Far(fn, e.idom)) + 1 BY <2>3, <2>9, <1>0 DEF DomFixLeft
    <3>2. Tree(fn, d.idom) /\ Tree(fn, e.idom) BY <2>1, <2>4 DEF DomIs
    <3>3. Cardinality(Far(fn, e.idom)) < Cardinality(Far(fn, d.idom)) BY <3>2, <2>2, <2>9, FarShrinks
    <3>4. DomFixLeft(q, e) < DomFixLeft(q, d) BY <3>1, <3>3, <2>6, <2>7
    <3> QED BY <3>4, <2>5 DEF DomFixOp, e
  <2> QED BY <2>8, <2>9
<1>6. DomFixKeeps(q, 0, r) /\ ~ DomFixMore(fn, 0, 0, r)
  <2> HIDE DEF S, v
  <2> QED BY <1>3, <1>4, <1>5, DomFixLoop!WhileEnds
<1> HIDE DEF r
<1>7. ~ r.again BY <1>6 DEF DomFixMore
<1>8. DomIs(fn, Len(fn.rpo), r.idom) /\ \A b \in Blocks(fn) \ {Start(fn)} : Settled(fn, r.idom, b)
  BY <1>6, <1>7, <1>0 DEF DomFixKeeps
<1> QED BY <1>1, <1>8

\* The chains are the dominators.
LEMMA ChainsAreDominators ==
    ASSUME NEW fn, Ordered(fn), NEW b \in Blocks(fn)
    PROVE  Chain(fn, DomFix(fn), b) = Dominators(fn, b)
<1> DEFINE a == DomFix(fn)
<1>1. DomIs(fn, Len(fn.rpo), a) /\ \A c \in Blocks(fn) \ {Start(fn)} : Settled(fn, a, c) BY DomFixIs
<1> HIDE DEF a
<1>2. GraphIsShaped(fn) /\ Tree(fn, a) /\ HoldsDominators(fn, a) BY <1>1 DEF DomIs, Ordered
<1>3. Start(fn) \in Blocks(fn) /\ Len(fn.rpo) \in Nat /\ (\A c \in Blocks(fn) : fn.id[c] \in 0 .. Len(fn.rpo) - 1)
  BY OrderFacts
<1>4. \A c \in Blocks(fn) : c \in Placed(fn, a)
  <2> TAKE c \in Blocks(fn)
  <2>1. fn.id[c] < Len(fn.rpo) BY <1>3
  <2> QED BY <2>1, <1>1 DEF DomIs
<1>5. Dominators(fn, b) \subseteq Chain(fn, a, b) BY <1>2, <1>4 DEF HoldsDominators
<1>6. ASSUME NEW d \in Chain(fn, a, b) PROVE d \in Dominators(fn, b)
  <2> DEFINE T == {c \in Blocks(fn) : d \notin Chain(fn, a, c)}
  <2>1. d \in Blocks(fn) BY <1>6 DEF Chain
  <2>2. {Start(fn)} \ {d} \subseteq T
    <3>1. a[Start(fn)] = 0 BY <1>2 DEF Tree
    <3>2. Chain(fn, a, Start(fn)) = {Start(fn)} BY <3>1, <1>2, <1>3, ChainIs
    <3> QED BY <3>2, <1>3
  <2>3. ASSUME NEW c \in T, NEW s \in SuccSet(fn, c), s # d PROVE s \in T
    <3>1. c \in Blocks(fn) /\ s \in Blocks(fn) /\ d \notin Chain(fn, a, c) BY <1>2, SuccsAreBlocks
    <3>2. CASE s = Start(fn) BY <3>2, <2>2, <2>3
    <3>3. CASE s # Start(fn)
      <4>1. c \in PlacedPreds(fn, a, s) BY <3>1, <1>4 DEF PlacedPreds, PredSet
      <4>2. a[s] \in Placed(fn, a) /\ Chain(fn, a, a[s]) = Common(fn, a, PlacedPreds(fn, a, s))
        BY <4>1, <3>1, <3>3, <1>1 DEF Settled, Meets
      <4>3. a[s] # 0 BY <3>1, <3>3, <1>4 DEF Placed
      <4>4. Chain(fn, a, s) = {s} \cup Chain(fn, a, a[s]) BY <4>3, <3>1, <1>2, ChainIs
      <4>5. d \notin Common(fn, a, PlacedPreds(fn, a, s)) BY <4>1, <3>1 DEF Common
      <4>6. d \notin Chain(fn, a, s) BY <4>2, <4>4, <4>5, <2>3
      <4> QED BY <4>6, <3>1
    <3> QED BY <3>2, <3>3
  <2>4. IsClosed(fn, {d}, T) BY <2>3 DEF IsClosed
  <2>5. PathsFrom(fn, Start(fn), {d}) \subseteq T
    <3> HIDE DEF T
    <3> QED BY <2>2, <2>4, <1>2, <1>3, PathsFromIs
  <2>6. b \notin T BY <1>6
  <2> QED BY <2>1, <2>5, <2>6 DEF Dominators
<1>7. Chain(fn, a, b) \subseteq Dominators(fn, b) BY <1>6
<1> QED BY <1>5, <1>7 DEF a

\* filldom finds the immediate dominators: the iteration over the reverse postorder ends,
\* and what it ends with are the nearest blocks on every path from the first block.
THEOREM FillDomIsRight ==
    ASSUME NEW f, GraphIsShaped(f), OrderIsRight(f), PredsAreRight(f)
    PROVE  DominatorsAreRight(FillDom(f))
<1> DEFINE a == DomFix(f)
           g == FillDom(f)
           B == Blocks(f)
<1>0. Ordered(f) BY DEF Ordered
<1>1. /\ DomIs(f, Len(f.rpo), a) /\ \A b \in B : Chain(f, a, b) = Dominators(f, b)
  BY <1>0, DomFixIs, ChainsAreDominators
<1>2. GraphIsShaped(g) /\ SameGraph(f, g) BY FillDomKeeps
<1>3. /\ Blocks(g) = B /\ Start(g) = Start(f) /\ B \subseteq DOMAIN f.blk /\ Start(f) \in B
      /\ \A b \in B : \A shut : PathsFrom(f, b, shut) = PathsFrom(g, b, shut)
  BY <1>2, GraphSame, StartIsLinked
<1>4. g.idom = a /\ g.dom = [d \in DOMAIN f.blk |-> Reverse(Kept(f.link, {b \in DOMAIN f.blk : a[b] = d}))]
  BY FillDomKeeps
<1> HIDE DEF a, g
<1> DEFINE below == Dominated(g)
           strict(b) == {d \in Blocks(g) \ {b} : b \in below[d]}
<1>5. \A d, b \in B : b \in below[d] <=> d \in Chain(f, a, b) BY <1>1, <1>3 DEF Dominated, Dominators
<1>6. Tree(f, a) /\ \A b \in B : b \in Placed(f, a)
  <2>1. \A c \in B : f.id[c] < Len(f.rpo)
    <3>1. Len(f.rpo) \in Nat /\ \A c \in B : f.id[c] \in 0 .. Len(f.rpo) - 1 BY <1>0, OrderFacts
    <3> QED BY <3>1
  <2> QED BY <2>1, <1>1 DEF DomIs
<1> HIDE DEF below
<1>7. ASSUME NEW b \in B
      PROVE  IF strict(b) = {} THEN a[b] = 0 ELSE a[b] \in strict(b) /\ \A d \in strict(b) : a[b] \in below[d]
  <2>1. \A d : d \in strict(b) <=> d \in B /\ d # b /\ d \in Chain(f, a, b) BY <1>3, <1>5
  <2>2. CASE a[b] = 0
    <3>1. Chain(f, a, b) = {b} BY <2>2, <1>6, ChainIs
    <3> QED BY <3>1, <2>1, <2>2
  <2>3. CASE a[b] # 0
    <3>1. a[b] \in B /\ Chain(f, a, b) = {b} \cup Chain(f, a, a[b]) BY <2>3, <1>6, ChainIs
    <3>2. a[b] \in Chain(f, a, a[b]) BY <3>1, <1>6, ChainLeast
    <3>3. a[b] # b
      <4>1. f.id[a[b]] < f.id[b] BY <2>3, <1>6 DEF Tree
      <4>2. f.id[b] \in Nat BY <1>0, OrderFacts
      <4> QED BY <4>1, <4>2
    <3>4. a[b] \in strict(b) BY <2>1, <3>1, <3>2, <3>3
    <3>5. ASSUME NEW d \in strict(b) PROVE a[b] \in below[d]
      <4>1. d \in B /\ d \in Chain(f, a, a[b]) BY <3>1, <2>1, <3>5
      <4> QED BY <4>1, <3>1, <1>5
    <3> HIDE DEF strict
    <3> QED BY <3>4, <3>5
  <2> QED BY <2>2, <2>3
<1>8. ASSUME NEW d \in B PROVE Range(g.dom[d]) = {b \in B : a[b] = d}
  <2> DEFINE K == Kept(f.link, {b \in DOMAIN f.blk : a[b] = d})
  <2>1. f.link \in Seq(DOMAIN f.blk) BY DEF GraphIsShaped
  <2>2. K \in Seq(DOMAIN f.blk) /\ Range(K) = Range(f.link) \cap {b \in DOMAIN f.blk : a[b] = d} BY <2>1, KeptIs
  <2>3. g.dom[d] = Reverse(K) BY <1>3, <1>4
  <2> HIDE DEF K
  <2>4. Range(Reverse(K)) = Range(K) BY <2>2, ReverseFacts
  <2>5. Range(f.link) = B BY DEF Blocks
  <2> QED BY <2>2, <2>3, <2>4, <2>5, <1>3
<1>9. \A b \in Blocks(g) : IF strict(b) = {} THEN g.idom[b] = 0
                           ELSE g.idom[b] \in strict(b) /\ \A d \in strict(b) : g.idom[b] \in below[d]
  <2> HIDE DEF strict
  <2> QED BY <1>3, <1>4, <1>7
<1>10. \A d \in Blocks(g) : Range(g.dom[d]) = {b \in Blocks(g) : g.idom[b] = d} BY <1>3, <1>4, <1>8
<1> DEFINE good(w) ==
             LET above(b) == {d \in Blocks(g) \ {b} : b \in w[d]}
             IN /\ \A b \in Blocks(g) :
                     IF above(b) = {} THEN g.idom[b] = 0
                     ELSE g.idom[b] \in above(b) /\ \A d \in above(b) : g.idom[b] \in w[d]
                /\ \A d \in Blocks(g) : Range(g.dom[d]) = {b \in Blocks(g) : g.idom[b] = d}
<1>11. good(below) BY <1>9, <1>10
<1>12. DominatorsAreRight(g) = With(below, LAMBDA w : good(w)) BY DEF DominatorsAreRight, below
<1> HIDE DEF good
<1>13. With(below, LAMBDA w : good(w)) = good(below) BY DEF With
<1> QED BY <1>11, <1>12, <1>13 DEF g
=================================================================================
