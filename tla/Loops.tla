-------------------------------- MODULE Loops --------------------------------
(***************************************************************************)
(* What can be said of the loops of Eager: an invariant of the turns holds *)
(* of the result, and a loop with a measure ends.  A fact about one loop   *)
(* is a fact of an instance of this module, with the turn of that loop for *)
(* Op and its invariant for Keeps; x, y and z stand for what the turn      *)
(* reads and does not change, q for what the invariant is about.           *)
(***************************************************************************)
EXTENDS Eager, WellFoundedInduction, TLAPS

CONSTANTS
    Op(_, _, _, _, _),      \* x, y, z, the state and the element: the next state
    More(_, _, _, _),       \* x, y, z and the state: whether a While goes on
    Keeps(_, _, _),         \* q, turns made and the state: the invariant
    Measure(_, _)           \* q and the state: falls in every turn of a While

-----------------------------------------------------------------------------
(* Natural numbers *)

Less == {r \in Nat \X Nat : r[1] < r[2]}

LEMMA LessWF == IsWellFoundedOn(Less, Nat)
BY NatLessThanWellFounded DEF OpToRel, Less

\* A set of numbers has a least one.
LEMMA Least ==
    ASSUME NEW T, T \subseteq Nat, T # {}
    PROVE  \E n \in T : \A m \in T : n <= m
<1>1. \E n \in T : \A m \in T : ~ (<<m, n>> \in Less) BY LessWF, WFMin, Zenon
<1>2. PICK n \in T : \A m \in T : ~ (<<m, n>> \in Less) BY <1>1
<1>3. \A m \in T : ~ (m < n) /\ m \in Nat /\ n \in Nat BY <1>2, Zenon DEF Less
<1> QED BY <1>3

\* A set that holds 0 and the successor of each of its numbers holds all numbers.
LEMMA Induction ==
    ASSUME NEW S, 0 \in S, \A n \in Nat : n \in S => n + 1 \in S
    PROVE  Nat \subseteq S
<1> DEFINE T == Nat \ S
<1>1. SUFFICES ASSUME T # {} PROVE FALSE OBVIOUS
<1>2. PICK n \in T : \A m \in T : n <= m BY <1>1, Least
<1>3. n # 0 /\ n \in Nat OBVIOUS
<1>4. n - 1 \in Nat /\ n - 1 \notin T BY <1>2, <1>3
<1> QED BY <1>2, <1>3, <1>4

-----------------------------------------------------------------------------
(* Each *)

Turn(x, y, z, a, e) == CHOOSE r \in {Op(x, y, z, w, e) : w \in {a}} : TRUE
LEMMA TurnIs == \A x, y, z, a, e : Turn(x, y, z, a, e) = Op(x, y, z, a, e)
BY DEF Turn

\* u holds the states after 0, 1, ..., n elements of s.
UpTo(x, y, z, v, s, n, u) == u = [i \in 0 .. n |-> IF i = 0 THEN v ELSE Turn(x, y, z, u[i - 1], s[i])]

LEMMA UpToExists ==
    ASSUME NEW x, NEW y, NEW z, NEW v, NEW s
    PROVE  \A n \in Nat : \E u : UpTo(x, y, z, v, s, n, u)
<1> DEFINE S == {n \in Nat : \E u : UpTo(x, y, z, v, s, n, u)}
<1>1. 0 \in S
  <2> DEFINE u == [i \in 0 .. 0 |-> v]
  <2>1. UpTo(x, y, z, v, s, 0, u) BY DEF UpTo
  <2> QED BY <2>1, Zenon
<1>2. ASSUME NEW n \in Nat, n \in S PROVE n + 1 \in S
  <2>1. PICK u : UpTo(x, y, z, v, s, n, u) BY <1>2
  <2> DEFINE w == [i \in 0 .. n + 1 |-> IF i = n + 1 THEN Turn(x, y, z, u[n], s[n + 1]) ELSE u[i]]
  <2>2. UpTo(x, y, z, v, s, n + 1, w)
    <3>1. ASSUME NEW i \in 0 .. n + 1 PROVE w[i] = IF i = 0 THEN v ELSE Turn(x, y, z, w[i - 1], s[i])
      <4>1. CASE i = n + 1
        <5>1. w[i] = Turn(x, y, z, u[n], s[n + 1]) /\ w[i - 1] = u[n] BY <4>1
        <5> QED BY <5>1, <4>1
      <4>2. CASE i # n + 1
        <5>1. i \in 0 .. n /\ i - 1 # n + 1 BY <4>2
        <5>2. w[i] = u[i] BY <4>2
        <5>3. u[i] = IF i = 0 THEN v ELSE Turn(x, y, z, u[i - 1], s[i]) BY <2>1, <5>1 DEF UpTo
        <5>4. i # 0 => w[i - 1] = u[i - 1] BY <5>1
        <5> QED BY <5>2, <5>3, <5>4
      <4> QED BY <4>1, <4>2
    <3>2. w = [i \in 0 .. n + 1 |-> w[i]] OBVIOUS
    <3> HIDE DEF w
    <3> QED BY <3>1, <3>2 DEF UpTo
  <2> QED BY <2>2
<1> QED BY <1>1, <1>2, Induction

EachTurn(x, y, z, v, s) == Each(LAMBDA a, e : Op(x, y, z, a, e), v, s)

\* What holds at first, and after each element if before it, holds at the end.
LEMMA EachKeeps ==
    ASSUME NEW x, NEW y, NEW z, NEW q, NEW v, NEW s, Len(s) \in Nat, Keeps(q, 0, v),
           \A i \in 1 .. Len(s) : \A a : Keeps(q, i - 1, a) => Keeps(q, i, Op(x, y, z, a, s[i]))
    PROVE  Keeps(q, Len(s), EachTurn(x, y, z, v, s))
<1> DEFINE n == Len(s)
           u == CHOOSE u : UpTo(x, y, z, v, s, n, u)
<1>1. UpTo(x, y, z, v, s, n, u) BY UpToExists
<1>2. EachTurn(x, y, z, v, s) = u[n] BY DEF EachTurn, Each, UpTo, With, Turn
<1> HIDE DEF u
<1> DEFINE S == {i \in Nat : i <= n => Keeps(q, i, u[i])}
<1>3. 0 \in S BY <1>1 DEF UpTo
<1>4. ASSUME NEW i \in Nat, i \in S PROVE i + 1 \in S
  <2>1. ASSUME i + 1 <= n PROVE Keeps(q, i + 1, u[i + 1])
    <3>1. Keeps(q, i, u[i]) BY <1>4, <2>1
    <3>2. i + 1 \in 1 .. n /\ i + 1 - 1 = i BY <2>1
    <3>3. u[i + 1] = Turn(x, y, z, u[i], s[i + 1]) BY <1>1, <2>1 DEF UpTo
    <3>4. u[i + 1] = Op(x, y, z, u[i], s[i + 1]) BY <3>3, TurnIs, Zenon
    <3>5. \A a : Keeps(q, i + 1 - 1, a) => Keeps(q, i + 1, Op(x, y, z, a, s[i + 1])) BY <3>2
    <3>6. Keeps(q, i, u[i]) => Keeps(q, i + 1, Op(x, y, z, u[i], s[i + 1])) BY <3>5, <3>2
    <3> QED BY <3>1, <3>4, <3>6
  <2> QED BY <2>1
<1>5. Nat \subseteq S BY <1>3, <1>4, Induction
<1>6. Keeps(q, n, u[n]) BY <1>5
<1> QED BY <1>2, <1>6

-----------------------------------------------------------------------------
(* While *)

\* No turn follows x: the loop is over, or the next state is none of the loop's.
Stop(S, x, y, z, a) == ~ More(x, y, z, a) \/ Op(x, y, z, a, 0) \notin S
Closed(S, x, y, z, T) == T \subseteq S /\ \A a \in T : Stop(S, x, y, z, a) \/ Op(x, y, z, a, 0) \in T
\* The states the loop comes through from a on, and those it can end with.
From(S, x, y, z, a) == {b \in S : \A T \in SUBSET S : a \in T /\ Closed(S, x, y, z, T) => b \in T}
Ends(S, x, y, z, a) == {b \in From(S, x, y, z, a) : Stop(S, x, y, z, b)}

LEMMA FromClosed ==
    ASSUME NEW S, NEW x, NEW y, NEW z, NEW a \in S
    PROVE  a \in From(S, x, y, z, a) /\ Closed(S, x, y, z, From(S, x, y, z, a))
BY Zenon DEF From, Closed, Stop

LEMMA EndsOfStop ==
    ASSUME NEW S, NEW x, NEW y, NEW z, NEW a \in S, Stop(S, x, y, z, a)
    PROVE  Ends(S, x, y, z, a) = {a}
<1>1. Closed(S, x, y, z, {a}) BY DEF Closed
<1>2. From(S, x, y, z, a) \subseteq {a} BY <1>1 DEF From
<1> QED BY <1>2, FromClosed DEF Ends

LEMMA EndsOfMore ==
    ASSUME NEW S, NEW x, NEW y, NEW z, NEW a \in S, ~ Stop(S, x, y, z, a)
    PROVE  Ends(S, x, y, z, a) = Ends(S, x, y, z, Op(x, y, z, a, 0))
<1> DEFINE b == Op(x, y, z, a, 0)
           T == From(S, x, y, z, b) \cup {a}
<1>1. b \in S BY DEF Stop
<1>2. b \in From(S, x, y, z, b) /\ Closed(S, x, y, z, From(S, x, y, z, b)) BY <1>1, FromClosed
<1>3. a \in From(S, x, y, z, a) /\ Closed(S, x, y, z, From(S, x, y, z, a)) BY FromClosed
<1>4. Closed(S, x, y, z, T) BY <1>2 DEF Closed
<1>5. From(S, x, y, z, a) \subseteq T BY <1>4 DEF From, Closed
<1>6. b \in From(S, x, y, z, a) BY <1>3 DEF Closed
<1>7. From(S, x, y, z, b) \subseteq From(S, x, y, z, a) BY <1>6, <1>3 DEF From, Closed
<1> QED BY <1>5, <1>7 DEF Ends

Runs(S, x, y, z, run) ==
    run = [a \in S |-> IF More(x, y, z, a)
                        THEN With(Op(x, y, z, a, 0), LAMBDA b : IF b \in S THEN run[b] ELSE a)
                        ELSE a]

LEMMA RunExists ==
    ASSUME NEW S, NEW x, NEW y, NEW z
    PROVE  \E run : Runs(S, x, y, z, run)
<1> DEFINE run == [a \in S |-> CHOOSE b : b \in Ends(S, x, y, z, a)]
<1>1. ASSUME NEW a \in S
      PROVE  run[a] = IF More(x, y, z, a)
                      THEN With(Op(x, y, z, a, 0), LAMBDA b : IF b \in S THEN run[b] ELSE a) ELSE a
  <2>1. CASE Stop(S, x, y, z, a)
    <3>1. run[a] = a BY <2>1, EndsOfStop
    <3> HIDE DEF run
    <3> QED BY <2>1, <3>1 DEF Stop, With
  <2>2. CASE ~ Stop(S, x, y, z, a)
    <3> DEFINE b == Op(x, y, z, a, 0)
    <3>1. b \in S /\ More(x, y, z, a) BY <2>2 DEF Stop
    <3>2. run[a] = run[b] BY <2>2, <3>1, EndsOfMore
    <3> HIDE DEF run
    <3> QED BY <3>1, <3>2 DEF With
  <2> QED BY <2>1, <2>2
<1>2. run = [a \in S |-> run[a]] OBVIOUS
<1> HIDE DEF run
<1> QED BY <1>1, <1>2 DEF Runs

WhileMore(S, x, y, z, s) == While(S, LAMBDA a : More(x, y, z, a), LAMBDA a : Op(x, y, z, a, 0), s)

\* What every turn keeps and the measure bounds holds at the end of the loop, and
\* the loop does end.
LEMMA WhileEnds ==
    ASSUME NEW S, NEW x, NEW y, NEW z, NEW q, NEW s, Keeps(q, 0, s),
           \A a : Keeps(q, 0, a) => a \in S /\ Measure(q, a) \in Nat,
           \A a : Keeps(q, 0, a) /\ More(x, y, z, a)
                  => Keeps(q, 0, Op(x, y, z, a, 0)) /\ Measure(q, Op(x, y, z, a, 0)) < Measure(q, a)
    PROVE  Keeps(q, 0, WhileMore(S, x, y, z, s)) /\ ~ More(x, y, z, WhileMore(S, x, y, z, s))
<1> DEFINE run == CHOOSE run : Runs(S, x, y, z, run)
           good(a) == Keeps(q, 0, run[a]) /\ ~ More(x, y, z, run[a])
<1>1. Runs(S, x, y, z, run) BY RunExists
<1>2. WhileMore(S, x, y, z, s) = run[s] BY DEF WhileMore, While, Runs
<1> HIDE DEF run
<1> DEFINE T == {n \in Nat : \A a : Keeps(q, 0, a) /\ Measure(q, a) <= n => good(a)}
<1>3. ASSUME NEW a, Keeps(q, 0, a), \A b : Keeps(q, 0, b) /\ Measure(q, b) < Measure(q, a) => good(b)
      PROVE  good(a)
  <2>1. a \in S BY <1>3
  <2>2. CASE ~ More(x, y, z, a)
    <3>1. run[a] = a BY <1>1, <2>1, <2>2 DEF Runs
    <3> QED BY <3>1, <2>2, <1>3
  <2>3. CASE More(x, y, z, a)
    <3> DEFINE b == Op(x, y, z, a, 0)
    <3>1. Keeps(q, 0, b) /\ Measure(q, b) < Measure(q, a) BY <1>3, <2>3
    <3>2. b \in S BY <3>1
    <3>3. run[a] = run[b] BY <1>1, <2>1, <2>3, <3>2 DEF Runs, With
    <3> QED BY <3>1, <3>3, <1>3
  <2> QED BY <2>2, <2>3
<1>4. 0 \in T
  <2>1. ASSUME NEW a, Keeps(q, 0, a), Measure(q, a) <= 0 PROVE good(a)
    <3>1. \A b : ~ (Keeps(q, 0, b) /\ Measure(q, b) < Measure(q, a)) BY <2>1
    <3> HIDE DEF good
    <3> QED BY <1>3, <2>1, <3>1
  <2> HIDE DEF good
  <2> QED BY <2>1
<1>5. ASSUME NEW n \in Nat, n \in T PROVE n + 1 \in T
  <2>1. ASSUME NEW a, Keeps(q, 0, a), Measure(q, a) <= n + 1 PROVE good(a)
    <3>1. \A b : Keeps(q, 0, b) /\ Measure(q, b) < Measure(q, a) => Measure(q, b) <= n BY <2>1
    <3>2. \A b : Keeps(q, 0, b) /\ Measure(q, b) <= n => good(b) BY <1>5
    <3> HIDE DEF good
    <3> QED BY <1>3, <2>1, <3>1, <3>2
  <2> HIDE DEF good
  <2> QED BY <2>1
<1>6. Nat \subseteq T BY <1>4, <1>5, Induction
<1>7. good(s) BY <1>6
<1> QED BY <1>2, <1>7
=============================================================================
