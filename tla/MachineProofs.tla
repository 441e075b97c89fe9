---------------------------- MODULE MachineProofs ----------------------------
(***************************************************************************)
(* Proofs about Machine, for any programs, register count, depth and       *)
(* integers: a machine that runs well-formed code stays inside what it was *)
(* given, implements VmCalls, and leaves a caller's registers alone.       *)
(***************************************************************************)
EXTENDS Machine, TLAPS

-----------------------------------------------------------------------------
(* What the operators of Values return *)

\* A value, or an error that is reported.
IsResult(v, chunk, h) == \/ IsError(v) /\ v[2] \in ErrorCodes
                         \/ IsValue(v, chunk, h)

LEMMA ErrorsAreResults ==
  ASSUME NEW e \in ErrorCodes, NEW chunk, NEW h
  PROVE  IsResult(Error(e), chunk, h) /\ IsError(Error(e))
BY DEF IsResult, IsError, Error

LEMMA RepresentableAreInts == Representable \subseteq Int
BY IntMaxAssumption DEF Representable

LEMMA PlainValues ==
  ASSUME NEW chunk, NEW h
  PROVE  /\ IsValue(Nil, chunk, h)
         /\ \A n \in Representable : IsValue(IntV(n), chunk, h)
         /\ \A b \in BOOLEAN : IsValue(BoolV(b), chunk, h)
BY DEF IsValue, Nil, IntV, BoolV, IsHandle

LEMMA ValuesAreNoErrors ==
  ASSUME NEW chunk, NEW h, NEW v, IsValue(v, chunk, h)
  PROVE  IsResult(v, chunk, h) /\ ~ IsError(v)
BY DEF IsResult, IsValue, IsHandle, IsError

LEMMA TruthyIsBoolean ==
  ASSUME NEW chunk, NEW h, NEW v, IsValue(v, chunk, h)
  PROVE  Truthy(v) \in BOOLEAN
BY DEF Truthy, IsValue

LEMMA QuotientIsInt ==
  ASSUME NEW m \in Int, NEW n \in Int, n # 0
  PROVE  Quotient(m, n) \in Int
<1>. DEFINE up == IF m < 0 THEN -m ELSE m
            down == IF n < 0 THEN -n ELSE n
<1>1. up \in Int /\ down \in Int /\ down > 0
  OBVIOUS
<1>2. up \div down \in Int
  BY <1>1
<1>. QED  BY <1>2 DEF Quotient

\* A remainder is nearer to zero than the divisor, so it needs no test.
LEMMA RemainderFits ==
  ASSUME NEW m \in Representable, NEW n \in Representable, n # 0
  PROVE  Remainder(m, n) \in Representable
<1>1. m \in Int /\ n \in Int /\ IntMax \in Nat /\ - IntMax - 1 <= n /\ n <= IntMax
  BY IntMaxAssumption DEF Representable
<1>2. CASE n > 0
  <2>1. m % n \in 0 .. n - 1
    BY <1>1, <1>2
  <2>. QED  BY <1>1, <1>2, <2>1 DEF Remainder, Representable
<1>3. CASE ~ (n > 0)
  <2>. DEFINE d == - n
  <2>1. d \in Int /\ d > 0 /\ d <= IntMax + 1 /\ - m \in Int
    BY <1>1, <1>3
  <2>2. (- m) % d \in 0 .. d - 1
    BY <2>1
  <2>3. - ((- m) % d) \in Representable
    BY <1>1, <2>1, <2>2 DEF Representable
  <2>. QED  BY <1>3, <2>3 DEF Remainder
<1>. QED  BY <1>2, <1>3

LEMMA InRangeIsResult ==
  ASSUME NEW n \in Int, NEW chunk, NEW h
  PROVE  IsResult(InRange(n), chunk, h)
BY PlainValues, ErrorsAreResults, ValuesAreNoErrors DEF InRange, ErrorCodes

LEMMA ArithmeticIsResult ==
  ASSUME NEW chunk, NEW h, NEW a, NEW b, IsValue(a, chunk, h), IsValue(b, chunk, h),
         NEW op \in {"add", "sub", "mul", "div", "mod"}
  PROVE  IsResult(Arithmetic(op, a, b), chunk, h)
<1>1. CASE ~ (IsInt(a) /\ IsInt(b))
  <2>1. Arithmetic(op, a, b) = Error("r003") \/ Arithmetic(op, a, b) = Error("r002")
    BY <1>1 DEF Arithmetic
  <2>. QED  BY <2>1, ErrorsAreResults DEF ErrorCodes
<1>2. CASE IsInt(a) /\ IsInt(b)
  <2>. DEFINE m == a[2]
              n == b[2]
  <2>1. m \in Representable /\ n \in Representable /\ m \in Int /\ n \in Int
    BY <1>2, RepresentableAreInts DEF IsInt, IsValue
  <2>2. m + n \in Int /\ m - n \in Int /\ m * n \in Int
    BY <2>1
  <2>3. n # 0 => Quotient(m, n) \in Int /\ Remainder(m, n) \in Representable
    BY <2>1, QuotientIsInt, RemainderFits
  <2>. HIDE DEF m, n
  <2>4. Arithmetic(op, a, b) =
          CASE op = "add" -> InRange(m + n)
            [] op = "sub" -> InRange(m - n)
            [] op = "mul" -> InRange(m * n)
            [] op = "div" -> IF n = 0 THEN Error("r012") ELSE InRange(Quotient(m, n))
            [] op = "mod" -> IF n = 0 THEN Error("r013") ELSE IntV(Remainder(m, n))
    BY <1>2 DEF Arithmetic, m, n
  <2>5. IsResult(Error("r012"), chunk, h) /\ IsResult(Error("r013"), chunk, h)
    BY ErrorsAreResults DEF ErrorCodes
  <2>6. n # 0 => IsResult(IntV(Remainder(m, n)), chunk, h)
    BY <2>3, PlainValues, ValuesAreNoErrors
  <2>. QED
    BY <2>2, <2>3, <2>4, <2>5, <2>6, InRangeIsResult
<1>. QED  BY <1>1, <1>2

LEMMA LessIsResult ==
  ASSUME NEW chunk, NEW h, NEW a, NEW b
  PROVE  IsResult(Less(a, b), chunk, h) /\ IsResult(Negation(Less(a, b)), chunk, h)
<1>1. (a[2] < b[2]) \in BOOLEAN /\ Comes(a[2], b[2]) \in BOOLEAN
  BY DEF Comes
<1>2. \/ Less(a, b) = Error("r005")
      \/ Less(a, b) = BoolV(a[2] < b[2])
      \/ Less(a, b) = BoolV(Comes(a[2], b[2]))
  BY DEF Less
<1>3. CASE Less(a, b) = Error("r005")
  <2>1. Negation(Less(a, b)) = Error("r005")
    BY <1>3 DEF Negation, IsError, Error
  <2>. QED  BY <1>3, <2>1, ErrorsAreResults DEF ErrorCodes
<1>4. ASSUME NEW c \in BOOLEAN, Less(a, b) = BoolV(c)
      PROVE  IsResult(Less(a, b), chunk, h) /\ IsResult(Negation(Less(a, b)), chunk, h)
  <2>1. Negation(BoolV(c)) = BoolV(~ c)
    BY DEF Negation, BoolV, IsError
  <2>2. (~ c) \in BOOLEAN
    OBVIOUS
  <2>. QED  BY <1>4, <2>1, <2>2, PlainValues, ValuesAreNoErrors
<1>. QED  BY <1>1, <1>2, <1>3, <1>4

LEMMA BinaryIsResult ==
  ASSUME NEW chunk, NEW h, NEW a, NEW b, IsValue(a, chunk, h), IsValue(b, chunk, h), NEW op \in BinaryOps
  PROVE  IsResult(BinaryResult(op, a, b), chunk, h)
<1>1. \A c \in BOOLEAN : IsResult(BoolV(c), chunk, h)
  BY PlainValues, ValuesAreNoErrors
<1>2. CASE op \in {"and", "or"}
  <2>1. Truthy(a) \in BOOLEAN /\ Truthy(b) \in BOOLEAN
    BY TruthyIsBoolean
  <2>2. \/ BinaryResult(op, a, b) = BoolV(Truthy(a) /\ Truthy(b))
        \/ BinaryResult(op, a, b) = BoolV(Truthy(a) \/ Truthy(b))
    BY <1>2 DEF BinaryResult
  <2>. QED  BY <1>1, <2>1, <2>2
<1>3. CASE op \in {"eq", "neq"}
  <2>1. SameValue(a, b) \in BOOLEAN
    BY DEF SameValue
  <2>2. \/ BinaryResult(op, a, b) = BoolV(SameValue(a, b))
        \/ BinaryResult(op, a, b) = BoolV(~ SameValue(a, b))
    BY <1>3 DEF BinaryResult
  <2>. QED  BY <1>1, <2>1, <2>2
<1>4. CASE op \in {"lt", "gt", "lte", "gte"}
  BY <1>4, LessIsResult DEF BinaryResult
<1>5. CASE op \in {"add", "sub", "mul", "div", "mod"}
  <2>1. CASE op = "add" /\ a[1] = "str" /\ b[1] = "str"
    <3>1. a[2] \o b[2] \in Seq(Nat)
      BY <2>1 DEF IsValue
    <3>2. BinaryResult(op, a, b) = StrV(a[2] \o b[2])
      BY <2>1 DEF BinaryResult
    <3>3. \A t \in Seq(Nat) : IsValue(StrV(t), chunk, h)
      BY DEF IsValue, IsHandle, StrV
    <3>. QED  BY <3>1, <3>2, <3>3, ValuesAreNoErrors
  <2>2. CASE ~ (op = "add" /\ a[1] = "str" /\ b[1] = "str")
    <3>1. BinaryResult(op, a, b) = Arithmetic(op, a, b)
      BY <1>5, <2>2 DEF BinaryResult
    <3>. QED  BY <1>5, <3>1, ArithmeticIsResult
  <2>. QED  BY <2>1, <2>2
<1>. QED  BY <1>2, <1>3, <1>4, <1>5 DEF BinaryOps

LEMMA UnaryIsResult ==
  ASSUME NEW chunk, NEW h, NEW a, IsValue(a, chunk, h), NEW op \in {"not", "neg", "try_prop"}
  PROVE  IsResult(UnaryResult(op, a), chunk, h)
<1>1. CASE op = "not"
  <2>1. (~ Truthy(a)) \in BOOLEAN /\ UnaryResult(op, a) = BoolV(~ Truthy(a))
    BY <1>1, TruthyIsBoolean DEF UnaryResult
  <2>. QED  BY <2>1, PlainValues, ValuesAreNoErrors
<1>2. CASE op = "neg"
  <2>1. IsInt(a) => - a[2] \in Int
    <3>1. IsInt(a) => a[2] \in Int
      BY RepresentableAreInts DEF IsInt, IsValue
    <3>. QED  BY <3>1
  <2>2. UnaryResult(op, a) = IF IsInt(a) THEN InRange(- a[2]) ELSE Error("r004")
    BY <1>2 DEF UnaryResult
  <2>3. IsResult(Error("r004"), chunk, h)
    BY ErrorsAreResults DEF ErrorCodes
  <2>. QED  BY <2>1, <2>2, <2>3, InRangeIsResult
<1>3. CASE op = "try_prop"
  <2>1. UnaryResult(op, a) = Error("r010") \/ UnaryResult(op, a) = a
    BY <1>3 DEF UnaryResult
  <2>2. IsResult(Error("r010"), chunk, h)
    BY ErrorsAreResults DEF ErrorCodes
  <2>. QED  BY <2>1, <2>2, ValuesAreNoErrors
<1>. QED  BY <1>1, <1>2, <1>3

-----------------------------------------------------------------------------
(* Sequences and the heap *)

LEMMA SequencesAreSequences ==
  ASSUME NEW S, NEW s \in Seq(S)
  PROVE  IsSequence(s)
<1>1. \A i \in 1 .. Len(s) : s[i] \in ToSet(s)
  BY DEF ToSet
<1>2. s = [i \in 1 .. Len(s) |-> s[i]] /\ Len(s) \in Nat
  OBVIOUS
<1>3. [i \in 1 .. Len(s) |-> s[i]] \in Seq(ToSet(s))
  BY <1>1, <1>2
<1>. QED  BY <1>2, <1>3 DEF IsSequence

LEMMA SequenceFacts ==
  ASSUME NEW s, IsSequence(s)
  PROVE  Len(s) \in Nat /\ DOMAIN s = 1 .. Len(s) /\ s \in Seq(ToSet(s))
BY DEF IsSequence

LEMMA FunctionIsSequence ==
  ASSUME NEW n \in Nat, NEW S, NEW f \in [1 .. n -> S]
  PROVE  IsSequence(f) /\ Len(f) = n
<1>1. f \in Seq(S) /\ Len(f) = n
  OBVIOUS
<1>. QED  BY <1>1, SequencesAreSequences

\* The objects of h are in h2, of the same kind.
Extends(h, h2) == Len(h) <= Len(h2) /\ \A i \in 1 .. Len(h) : h2[i][1] = h[i][1]

LEMMA ValuesStay ==
  ASSUME NEW chunk, NEW h, NEW h2, IsSequence(h), IsSequence(h2), Extends(h, h2),
         NEW v, IsValue(v, chunk, h)
  PROVE  IsValue(v, chunk, h2)
<1>1. Len(h) \in Nat /\ Len(h2) \in Nat
  BY SequenceFacts
<1>. QED  BY <1>1 DEF IsValue, Extends

LEMMA ConstantsAreValues ==
  ASSUME NEW chunk, NEW h, IsSequence(h), NEW v, IsValue(v, chunk, <<>>)
  PROVE  IsValue(v, chunk, h)
<1>1. IsSequence(<<>>) /\ Extends(<<>>, h)
  BY SequenceFacts DEF IsSequence, Extends
<1>. QED  BY <1>1, ValuesStay

LEMMA ObjectsStay ==
  ASSUME NEW chunk, NEW h, NEW h2, IsSequence(h), IsSequence(h2), Extends(h, h2),
         NEW o, IsObject(o, chunk, h)
  PROVE  IsObject(o, chunk, h2)
BY ValuesStay DEF IsObject

LEMMA AppendObject ==
  ASSUME NEW chunk, NEW h, IsHeap(h, chunk), NEW o, IsObject(o, chunk, h)
  PROVE  /\ IsHeap(Append(h, o), chunk) /\ Extends(h, Append(h, o))
         /\ Len(Append(h, o)) = Len(h) + 1 /\ Len(h) \in Nat
         /\ Append(h, o)[Len(h) + 1] = o
<1>. DEFINE S == ToSet(h) \cup {o}
            h2 == Append(h, o)
<1>1. h \in Seq(S) /\ o \in S /\ Len(h) \in Nat
  BY SequenceFacts DEF IsHeap
<1>2. h2 \in Seq(S)
  BY <1>1
<1>3. Len(h2) = Len(h) + 1
  BY <1>1
<1>4. \A i \in 1 .. Len(h) : h2[i] = h[i]
  BY <1>1
<1>5. h2[Len(h) + 1] = o
  BY <1>1
<1>. HIDE DEF S, h2
<1>6. IsSequence(h2)
  BY <1>2, SequencesAreSequences
<1>7. Extends(h, h2)
  BY <1>1, <1>3, <1>4 DEF Extends
<1>8. \A i \in 1 .. Len(h2) : i \in 1 .. Len(h) \/ i = Len(h) + 1
  BY <1>1, <1>3
<1>9. \A i \in 1 .. Len(h2) : IsObject(h2[i], chunk, h2)
  BY <1>4, <1>5, <1>6, <1>7, <1>8, ObjectsStay DEF IsHeap
<1>. QED  BY <1>1, <1>3, <1>5, <1>6, <1>7, <1>9 DEF IsHeap, h2

LEMMA ReplaceObject ==
  ASSUME NEW chunk, NEW h, IsHeap(h, chunk), NEW o, IsObject(o, chunk, h),
         NEW k \in 1 .. Len(h), o[1] = h[k][1]
  PROVE  IsHeap([h EXCEPT ![k] = o], chunk) /\ Extends(h, [h EXCEPT ![k] = o])
<1>. DEFINE S == ToSet(h) \cup {o}
            h2 == [h EXCEPT ![k] = o]
<1>1. h \in Seq(S) /\ o \in S /\ Len(h) \in Nat
  BY SequenceFacts DEF IsHeap
<1>2. h2 \in Seq(S) /\ Len(h2) = Len(h)
  BY <1>1
<1>3. \A i \in 1 .. Len(h) : h2[i] = IF i = k THEN o ELSE h[i]
  BY <1>1
<1>. HIDE DEF S, h2
<1>4. IsSequence(h2)
  BY <1>2, SequencesAreSequences
<1>5. Extends(h, h2)
  BY <1>1, <1>2, <1>3 DEF Extends
<1>6. \A i \in 1 .. Len(h2) : IsObject(h2[i], chunk, h2)
  BY <1>2, <1>3, <1>4, <1>5, ObjectsStay DEF IsHeap
<1>. QED  BY <1>4, <1>5, <1>6 DEF IsHeap, h2

-----------------------------------------------------------------------------
(* Values that open objects *)

LEMMA FinalizedIsValue ==
  ASSUME IsHeap(heap, code), NEW v, IsValue(v, code, heap)
  PROVE  IsValue(Finalized(v), code, heap) /\ ~ (Finalized(v)[1] = "builder")
<1>1. CASE v[1] = "builder"
  <2>1. v[2] \in 1 .. Len(heap) /\ heap[v[2]][1] = "str"
    BY <1>1 DEF IsValue, IsHandle, ObjectKind
  <2>2. IsObject(heap[v[2]], code, heap)
    BY <2>1 DEF IsHeap
  <2>3. heap[v[2]][2] \in Seq(Nat)
    BY <2>1, <2>2 DEF IsObject
  <2>4. Finalized(v) = heap[v[2]]
    BY <1>1 DEF Finalized
  <2>. QED  BY <2>1, <2>3, <2>4 DEF IsValue, IsHandle
<1>2. CASE v[1] # "builder"
  BY <1>2 DEF Finalized
<1>. QED  BY <1>1, <1>2

\* A value that is no handle, or an object.
IsOpen(o) == \/ IsValue(o, code, heap) /\ ~ IsHandle(o)
             \/ IsObject(o, code, heap)

LEMMA OpenedIsOpen ==
  ASSUME IsHeap(heap, code), NEW v, IsValue(v, code, heap)
  PROVE  IsOpen(Opened(v))
<1>1. CASE IsHandle(v)
  <2>1. v[2] \in 1 .. Len(heap)
    BY <1>1 DEF IsValue
  <2>. QED  BY <1>1, <2>1 DEF Opened, IsHeap, IsOpen
<1>2. CASE ~ IsHandle(v)
  BY <1>2 DEF Opened, IsOpen
<1>. QED  BY <1>1, <1>2

LEMMA OpenFacts ==
  ASSUME NEW o, IsOpen(o)
  PROVE  /\ o[1] = "str" => o[2] \in Seq(Nat)
         /\ o[1] = "vec" => IsSequence(o[2]) /\ \A i \in 1 .. Len(o[2]) : IsValue(o[2][i], code, heap)
         /\ o[1] = "struct" => \A f \in DOMAIN o[2] : IsValue(o[2][f], code, heap)
         /\ o[1] \in {"vec", "str"} => Len(o[2]) \in Nat
<1>1. o[1] = "str" => o[2] \in Seq(Nat)
  BY DEF IsOpen, IsObject, IsValue
<1>2. o[1] = "vec" => IsSequence(o[2]) /\ \A i \in 1 .. Len(o[2]) : IsValue(o[2][i], code, heap)
  BY DEF IsOpen, IsObject, IsHandle
<1>3. o[1] = "struct" => \A f \in DOMAIN o[2] : IsValue(o[2][f], code, heap)
  BY DEF IsOpen, IsObject, IsHandle
<1>4. o[1] \in {"vec", "str"} => Len(o[2]) \in Nat
  BY <1>1, <1>2, SequenceFacts
<1>. QED  BY <1>1, <1>2, <1>3, <1>4

LEMMA ElementIsResult ==
  ASSUME NEW o, IsOpen(o), NEW i, IsValue(i, code, heap)
  PROVE  IsResult(ElementOf(o, i), code, heap)
<1>1. IsInt(i) => i[2] \in Int
  BY RepresentableAreInts DEF IsInt, IsValue
<1>2. \A e \in {"r008", "r009", "panic"} : IsResult(Error(e), code, heap)
  BY ErrorsAreResults DEF ErrorCodes
<1>3. CASE /\ IsInt(i) /\ ~ (i[2] < 0) /\ o[1] \in {"vec", "str"} /\ ~ (i[2] >= Len(o[2]))
  <2>. DEFINE k == i[2] + 1
  <2>1. Len(o[2]) \in Nat
    BY <1>3, OpenFacts
  <2>2. k \in 1 .. Len(o[2])
    BY <1>1, <1>3, <2>1
  <2>3. ElementOf(o, i) = IF o[1] = "vec" THEN o[2][k] ELSE <<"char", o[2][k]>>
    BY <1>3 DEF ElementOf
  <2>4. o[1] = "vec" => IsValue(o[2][k], code, heap)
    BY <2>2, OpenFacts
  <2>. HIDE DEF k
  <2>5. IsValue(<<"char", o[2][k]>>, code, heap)
    BY DEF IsValue, IsHandle
  <2>. QED  BY <2>3, <2>4, <2>5, ValuesAreNoErrors
<1>4. CASE ~ (IsInt(i) /\ ~ (i[2] < 0) /\ o[1] \in {"vec", "str"} /\ ~ (i[2] >= Len(o[2])))
  <2>1. ElementOf(o, i) \in {Error(e) : e \in {"r008", "r009", "panic"}}
    BY <1>4 DEF ElementOf
  <2>. QED  BY <1>2, <2>1
<1>. QED  BY <1>3, <1>4

LEMMA LengthIsResult ==
  ASSUME NEW o, IsOpen(o)
  PROVE  IsResult(LengthOf(o), code, heap)
<1>1. IsResult(Error("r009"), code, heap) /\ IsResult(Error("panic"), code, heap)
  BY ErrorsAreResults DEF ErrorCodes
<1>2. CASE o[1] \in {"vec", "str"} /\ ~ (Len(o[2]) > IntMax)
  <2>1. Len(o[2]) \in Nat
    BY <1>2, OpenFacts
  <2>2. Len(o[2]) \in Representable
    BY <1>2, <2>1, IntMaxAssumption DEF Representable
  <2>. QED  BY <1>2, <2>2, PlainValues, ValuesAreNoErrors DEF LengthOf
<1>3. CASE ~ (o[1] \in {"vec", "str"} /\ ~ (Len(o[2]) > IntMax))
  BY <1>1, <1>3 DEF LengthOf
<1>. QED  BY <1>2, <1>3

LEMMA FieldIsResult ==
  ASSUME NEW o, IsOpen(o), NEW f
  PROVE  IsResult(FieldOf(o, f), code, heap)
<1>1. IsResult(Nil, code, heap)
  BY PlainValues, ValuesAreNoErrors
<1>2. o[1] = "struct" /\ f \in DOMAIN o[2] => IsResult(o[2][f], code, heap)
  BY OpenFacts, ValuesAreNoErrors
<1>. QED  BY <1>1, <1>2 DEF FieldOf

\* A native function returns nil, makes a vector, or stops the program.
LEMMA NativeResultFacts ==
  ASSUME NEW chunk, NEW h, NEW n \in Nat, NEW args, Len(args) = n,
         \A i \in 1 .. n : IsValue(args[i], chunk, h),
         NEW f
  PROVE  \/ NativeResult(f, args) = Nil
         \/ NativeResult(f, args) = Error("panic")
         \/ NativeResult(f, args)[1] = "vec" /\ IsObject(NativeResult(f, args), chunk, h)
<1>1. CASE f = "std.range" /\ Len(args) >= 2 /\ IsInt(args[1]) /\ IsInt(args[2])
  <2>. DEFINE lo == args[1][2]
              hi == args[2][2]
              k == IF hi - lo < 0 THEN 0 ELSE hi - lo
              content == [i \in 1 .. hi - lo |-> IntV(lo + i - 1)]
              S == {IntV(m) : m \in Representable}
  <2>1. lo \in Representable /\ hi \in Representable
    <3>1. IsValue(args[1], chunk, h) /\ IsValue(args[2], chunk, h)
      BY <1>1
    <3>. QED  BY <1>1, <3>1 DEF IsInt, IsValue
  <2>2. NativeResult(f, args) = <<"vec", content>> \/ NativeResult(f, args) = Error("panic")
    BY <1>1 DEF NativeResult
  <2>. HIDE DEF lo, hi
  <2>3. lo \in Int /\ hi \in Int /\ IntMax \in Nat /\ - IntMax - 1 <= lo /\ hi <= IntMax
    BY <2>1, IntMaxAssumption DEF Representable
  <2>4. k \in Nat /\ 1 .. hi - lo = 1 .. k
    BY <2>3
  <2>5. \A i \in 1 .. hi - lo : IntV(lo + i - 1) \in S
    <3>1. ASSUME NEW i \in 1 .. hi - lo
          PROVE  lo + i - 1 \in Representable
      <4>1. i \in Int /\ lo <= lo + i - 1 /\ lo + i - 1 <= hi
        BY <2>3
      <4>. QED  BY <2>3, <4>1 DEF Representable
    <3>. QED  BY <3>1
  <2>6. content \in [1 .. hi - lo -> S]
    BY <2>5
  <2>7. \A i \in 1 .. hi - lo : content[i] \in S
    BY <2>6
  <2>8. \A m \in S : IsValue(m, chunk, h)
    BY PlainValues
  <2>. HIDE DEF k, content, S
  <2>9. content \in [1 .. k -> S]
    BY <2>4, <2>6
  <2>10. IsSequence(content) /\ Len(content) = k
    BY <2>4, <2>9, FunctionIsSequence
  <2>11. \A i \in 1 .. Len(content) : IsValue(content[i], chunk, h)
    BY <2>4, <2>7, <2>8, <2>10
  <2>. QED  BY <2>2, <2>10, <2>11 DEF IsObject
<1>2. CASE ~ (f = "std.range" /\ Len(args) >= 2 /\ IsInt(args[1]) /\ IsInt(args[2]))
  BY <1>2 DEF NativeResult
<1>. QED  BY <1>1, <1>2

-----------------------------------------------------------------------------
(* The inductive invariant: what is known of the code at pc, and at the pcs to *)
(* return to.                                                                  *)

T == Translation(program)
Depth == Len(frames)

NotStarted == /\ outcome \in {"source"} \cup Refusals
              /\ code = <<>> /\ globals = <<>> /\ heap = <<>>
              /\ frames = <<>> /\ used = <<>> /\ pc = 0

StackOK == /\ frames[1].base = 0 /\ frames[1].dst = 0
           /\ \A i \in 2 .. Depth : frames[i].dst >= frames[i].base

\* The registers the code counts on have been written: in a suspended frame, once
\* the result is there.
InUseOK ==
  /\ outcome = "running" => T.inUse[Top.fun][pc + 1] \subseteq used[Depth]
  /\ \A i \in 1 .. Depth - 1 :
       T.inUse[frames[i].fun][frames[i].pc + 1] \subseteq used[i] \cup {frames[i + 1].dst - frames[i].base}

Started == /\ outcome \notin {"source"} \cup Refusals
           /\ code = T.chunk /\ WellFormed(T) /\ frames # <<>>
           /\ StackOK /\ InUseOK

IInv == TypeOK /\ (NotStarted \/ Started)

-----------------------------------------------------------------------------
(* Reading the invariant *)

LEMMA RunFacts ==
  ASSUME IInv, outcome = "running"
  PROVE  /\ Started /\ DataOK /\ program \in Program
         /\ Depth \in 1 .. FramesMax /\ Depth \in 1 .. Depth /\ Len(frames) = Depth /\ Len(used) = Depth
         /\ Top = frames[Depth] /\ Top \in Frame
         /\ Top.base \in Register /\ Top.base \in Nat /\ Top.dst \in Register
         /\ used[Depth] \in SUBSET Register /\ used[Depth] \subseteq Nat
         /\ Register \subseteq Nat
<1>1. Started
  BY DEF IInv, NotStarted, Refusals
<1>2. DataOK /\ program \in Program /\ ControlOK
  BY DEF IInv, TypeOK
<1>3. Len(frames) \in Nat /\ Len(frames) # 0 /\ Len(frames) <= FramesMax
  BY <1>1, <1>2 DEF Started, ControlOK
<1>4. Depth \in 1 .. FramesMax /\ Depth \in 1 .. Depth /\ Len(used) = Depth
  BY <1>2, <1>3, MachineAssumption DEF Depth, ControlOK
<1>5. Top = frames[Depth]
  BY DEF Top, Last, Depth
<1>6. frames[Depth] \in Frame /\ used[Depth] \in SUBSET Register
  BY <1>2, <1>4 DEF ControlOK, Depth
<1>7. Register \subseteq Nat
  BY MachineAssumption DEF Register
<1>. QED  BY <1>1, <1>2, <1>4, <1>5, <1>6, <1>7 DEF Frame, Depth

LEMMA CodeFacts ==
  ASSUME WellFormed(T), code = T.chunk, NEW f \in DOMAIN code, NEW p \in Nat, p < Len(code[f])
  PROVE  /\ Len(code[f]) \in 1 .. CodeLength /\ p \in 0 .. Len(code[f]) - 1
         /\ CanRun(T, f, p)
<1>1. Len(code[f]) \in 1 .. CodeLength
  BY DEF WellFormed
<1>2. p \in 0 .. Len(code[f]) - 1
  BY <1>1, MachineAssumption
<1>. QED  BY <1>1, <1>2 DEF WellFormed

LEMMA InstFacts ==
  ASSUME IInv, outcome = "running"
  PROVE  /\ Top.fun \in DOMAIN code /\ pc \in 0 .. Len(code[Top.fun]) - 1 /\ pc \in Nat
         /\ Len(code[Top.fun]) \in 1 .. CodeLength
         /\ Inst = T.chunk[Top.fun][pc + 1]
         /\ CanRun(T, Top.fun, pc)
         /\ T.inUse[Top.fun][pc + 1] \subseteq used[Depth]
<1>1. Started /\ Top \in Frame /\ ControlOK
  BY RunFacts DEF IInv, TypeOK
<1>2. Top.fun \in DOMAIN code
  BY <1>1 DEF Frame
<1>3. pc \in Nat /\ pc < Len(code[Top.fun])
  BY <1>1, MachineAssumption DEF ControlOK
<1>4. Inst = T.chunk[Top.fun][pc + 1]
  BY <1>1 DEF Inst, Started
<1>5. T.inUse[Top.fun][pc + 1] \subseteq used[Depth]
  BY <1>1 DEF Started, InUseOK
<1>. QED  BY <1>1, <1>2, <1>3, <1>4, <1>5, CodeFacts DEF Started

LEMMA RegistersOfInst ==
  ASSUME IInv, outcome = "running"
  PROVE  /\ Inst[1] \in Opcodes
         /\ Sources(Inst) \subseteq Register /\ Target(Inst) \subseteq Register
         /\ \A q \in Successors(pc, Inst) :
              /\ q \in 0 .. Len(code[Top.fun]) - 1
              /\ T.inUse[Top.fun][q + 1] \subseteq InUseAfter(T.inUse[Top.fun][pc + 1], Inst)
<1>1. Started
  BY RunFacts
<1>. QED  BY <1>1, InstFacts DEF CanRun, Started

LEMMA CallFacts ==
  ASSUME IInv, outcome = "running", Inst[1] = "call"
  PROVE  /\ Inst[2] \in Register /\ Inst[3] \in Register /\ Inst[4] \in Nat
         /\ Inst[2] > Inst[3] + Inst[4]
         /\ Inst[3] .. Inst[3] + Inst[4] \subseteq T.inUse[Top.fun][pc + 1]
         /\ Inst[3] .. Inst[3] + Inst[4] \subseteq used[Depth]
         /\ Successors(pc, Inst) = {pc + 1} /\ Target(Inst) = {Inst[2]} /\ Sources(Inst) = {Inst[3]}
<1>1. Successors(pc, Inst) = {pc + 1} /\ Target(Inst) = {Inst[2]} /\ Sources(Inst) = {Inst[3]}
  BY DEF Successors, Target, Sources, BinaryOps
<1>2. Inst[2] \in Register /\ Inst[3] \in Register
  BY <1>1, RegistersOfInst
<1>3. /\ Inst[4] \in Nat /\ Inst[2] > Inst[3] + Inst[4]
      /\ Inst[3] .. Inst[3] + Inst[4] \subseteq T.inUse[Top.fun][pc + 1]
  BY InstFacts DEF CanRun
<1>. QED  BY <1>1, <1>2, <1>3, InstFacts

-----------------------------------------------------------------------------
(* What steps of a kind do to the invariant *)

Endings == {"halted", "returned", "r006", "r007", "no_register"} \cup ErrorCodes

LEMMA StopKeeps ==
  ASSUME IInv, outcome = "running", outcome' \in Endings,
         UNCHANGED <<program, code, registers, frames, pc, globals, heap, used>>
  PROVE  IInv'
<1>1. Started /\ DataOK /\ ControlOK /\ program \in Program
  BY RunFacts DEF IInv, TypeOK
<1>2. DataOK'
  BY <1>1 DEF DataOK
<1>3. outcome' # "running" /\ outcome' \notin {"source"} \cup Refusals
  BY DEF Endings, ErrorCodes, Refusals
<1>4. ControlOK'
  BY <1>1, <1>3 DEF ControlOK, Endings, Frame
<1>5. T' = T /\ Depth' = Depth
  BY DEF T, Depth
<1>6. Started'
  BY <1>1, <1>3, <1>5 DEF Started, StackOK, InUseOK
<1>. QED  BY <1>1, <1>2, <1>4, <1>6 DEF IInv, TypeOK

\* An instruction that goes on in its function.
LEMMA UsesShape ==
  ASSUME IInv, outcome = "running", NEW r \in Register, used' = Uses(r)
  PROVE  /\ used' \in Seq(SUBSET Register) /\ Len(used') = Depth
         /\ \A i \in 1 .. Depth - 1 : used'[i] = used[i]
         /\ used'[Depth] = used[Depth] \cup {r}
<1>1. /\ Depth \in 1 .. Depth /\ Len(used) = Depth /\ Len(frames) = Depth
      /\ used \in Seq(SUBSET Register) /\ used[Depth] \in SUBSET Register
  BY RunFacts DEF IInv, TypeOK, ControlOK
<1>. DEFINE more == used[Depth] \cup {r}
<1>2. used' = [used EXCEPT ![Depth] = more] /\ more \in SUBSET Register
  BY <1>1 DEF Uses
<1>. HIDE DEF more
<1>3. used' \in Seq(SUBSET Register) /\ Len(used') = Depth
  BY <1>1, <1>2
<1>4. \A i \in 1 .. Depth - 1 : used'[i] = used[i]
  BY <1>1, <1>2
<1>5. used'[Depth] = more
  BY <1>1, <1>2
<1>. QED  BY <1>3, <1>4, <1>5 DEF more

LEMMA MoveOn ==
  ASSUME IInv, outcome = "running", UNCHANGED <<program, code, frames, outcome>>,
         pc' \in Successors(pc, Inst),
         \/ used' = used /\ Target(Inst) = {}
         \/ \E r \in Register : used' = Uses(r) /\ Target(Inst) = {r}
  PROVE  ControlOK' /\ Started'
<1>1. /\ Started /\ ControlOK /\ Top \in Frame
      /\ Depth \in 1 .. FramesMax /\ Depth \in 1 .. Depth /\ Len(used) = Depth /\ Len(frames) = Depth
      /\ used[Depth] \in SUBSET Register
  BY RunFacts DEF IInv, TypeOK
<1>2. /\ used' \in Seq(SUBSET Register) /\ Len(used') = Depth
      /\ \A i \in 1 .. Depth - 1 : used'[i] = used[i]
      /\ used'[Depth] = used[Depth] \cup Target(Inst)
  <2>1. CASE used' = used /\ Target(Inst) = {}
    BY <1>1, <2>1 DEF ControlOK
  <2>2. CASE \E r \in Register : used' = Uses(r) /\ Target(Inst) = {r}
    BY <2>2, UsesShape
  <2>. QED  BY <2>1, <2>2
<1>3. /\ Top.fun \in DOMAIN code /\ Len(code[Top.fun]) \in 1 .. CodeLength
      /\ pc' \in 0 .. Len(code[Top.fun]) - 1
      /\ T.inUse[Top.fun][pc' + 1] \subseteq InUseAfter(T.inUse[Top.fun][pc + 1], Inst)
      /\ T.inUse[Top.fun][pc + 1] \subseteq used[Depth]
  BY InstFacts, RegistersOfInst
<1>4. Top' = Top /\ T' = T /\ Depth' = Depth /\ pc' \in Nat
  BY <1>3 DEF Top, T, Depth
<1>5. CanRun(T, Top.fun, pc') /\ Inst' = T.chunk[Top.fun][pc' + 1]
  <2>1. pc' \in Nat /\ pc' < Len(code[Top.fun])
    BY <1>3, MachineAssumption
  <2>2. CanRun(T, Top.fun, pc')
    BY <1>1, <1>3, <2>1, CodeFacts DEF Started
  <2>3. Inst' = code[Top.fun][pc' + 1]
    BY <1>4 DEF Inst
  <2>. QED  BY <2>2, <2>3, <1>1 DEF Started
<1>6. ControlOK'
  <2>1. Inst'[1] \in Opcodes
    BY <1>5 DEF CanRun
  <2>2. pc' \in 0 .. CodeLength /\ pc' < Len(code[Top.fun])
    BY <1>3, MachineAssumption
  <2>. QED  BY <1>1, <1>2, <1>4, <2>1, <2>2 DEF ControlOK, Frame, Depth
<1>7. T.inUse[Top.fun][pc' + 1] \subseteq used'[Depth]
  BY <1>2, <1>3 DEF InUseAfter
<1>8. Started'
  BY <1>1, <1>2, <1>4, <1>7 DEF Started, StackOK, InUseOK
<1>. QED  BY <1>6, <1>8

\* What is written is a value, and objects keep their kinds.
LEMMA DataStep ==
  ASSUME DataOK, UNCHANGED code, IsHeap(heap', code), Extends(heap, heap'),
         DOMAIN registers' = Register,
         \A r \in Register : registers'[r] = registers[r] \/ IsValue(registers'[r], code, heap'),
         \A g \in DOMAIN globals' : \/ g \in DOMAIN globals /\ globals'[g] = globals[g]
                                   \/ IsValue(globals'[g], code, heap')
  PROVE  DataOK'
<1>1. IsSequence(heap) /\ IsSequence(heap')
  BY DEF DataOK, IsHeap
<1>2. \A r \in Register : IsValue(registers'[r], code, heap')
  BY <1>1, ValuesStay DEF DataOK
<1>3. \A g \in DOMAIN globals' : IsValue(globals'[g], code, heap')
  BY <1>1, ValuesStay DEF DataOK
<1>. QED  BY <1>2, <1>3 DEF DataOK

LEMMA HeapUnchanged ==
  ASSUME DataOK, UNCHANGED heap
  PROVE  IsHeap(heap', code) /\ Extends(heap, heap')
<1>1. Len(heap) \in Nat
  BY SequenceFacts DEF DataOK, IsHeap
<1>. QED  BY <1>1 DEF DataOK, Extends

\* An instruction that computes a value, and one that makes or changes an object.
LEMMA YieldKeeps ==
  ASSUME IInv, outcome = "running", NEW r, Target(Inst) = {r}, Successors(pc, Inst) = {pc + 1},
         NEW v, IsResult(v, code, heap), Yield(r, v)
  PROVE  IInv'
<1>1. r \in Register
  BY RegistersOfInst
<1>2. CASE IsError(v)
  <2>1. v[2] \in Endings
    BY <1>2, ValuesAreNoErrors DEF IsResult, Endings
  <2>. QED  BY <1>2, <2>1, StopKeeps DEF Yield, Stop
<1>3. CASE ~ IsError(v) /\ At(r) \notin Register
  BY <1>3, StopKeeps DEF Yield, Stop, Endings
<1>4. CASE ~ IsError(v) /\ At(r) \in Register
  <2>1. /\ registers' = [registers EXCEPT ![At(r)] = v] /\ used' = Uses(r) /\ pc' = pc + 1
        /\ UNCHANGED <<program, code, frames, globals, heap, output, outcome>>
    BY <1>4 DEF Yield
  <2>2. ControlOK' /\ Started'
    BY <1>1, <2>1, MoveOn
  <2>3. DataOK /\ program \in Program /\ IsValue(v, code, heap)
    BY <1>4, RunFacts DEF IsResult
  <2>4. DOMAIN registers' = Register
        /\ \A q \in Register : registers'[q] = registers[q] \/ registers'[q] = v
    BY <2>1, <2>3 DEF DataOK
  <2>5. DataOK'
    BY <2>1, <2>3, <2>4, DataStep, HeapUnchanged
  <2>. QED  BY <2>1, <2>2, <2>3, <2>5 DEF IInv, TypeOK
<1>. QED  BY <1>2, <1>3, <1>4

LEMMA YieldObjectKeeps ==
  ASSUME IInv, outcome = "running", NEW r, Target(Inst) = {r}, Successors(pc, Inst) = {pc + 1},
         NEW kind \in {"builder", "vec", "struct"}, NEW object, IsObject(object, code, heap),
         object[1] = ObjectKind(<<kind, 0>>),
         NEW address, \/ address = NewAddress
                      \/ address \in 1 .. Len(heap) /\ heap[address][1] = object[1],
         YieldObject(r, kind, address, object)
  PROVE  IInv'
<1>1. r \in Register
  BY RegistersOfInst
<1>2. CASE At(r) \notin Register
  BY <1>2, StopKeeps DEF YieldObject, Stop, Endings
<1>3. CASE At(r) \in Register
  <2>. DEFINE handle == <<kind, address>>
  <2>1. /\ registers' = [registers EXCEPT ![At(r)] = handle] /\ used' = Uses(r) /\ pc' = pc + 1
        /\ heap' = IF address > Len(heap) THEN Append(heap, object)
                  ELSE [heap EXCEPT ![address] = object]
        /\ UNCHANGED <<program, code, frames, globals, output, outcome>>
    BY <1>3 DEF YieldObject
  <2>2. ControlOK' /\ Started'
    BY <1>1, <2>1, MoveOn
  <2>3. DataOK /\ program \in Program /\ IsHeap(heap, code)
    BY RunFacts DEF DataOK
  <2>4. /\ IsHeap(heap', code) /\ Extends(heap, heap')
        /\ address \in 1 .. Len(heap') /\ heap'[address][1] = object[1]
    <3>1. Len(heap) \in Nat
      BY <2>3, SequenceFacts DEF IsHeap
    <3>2. CASE address = NewAddress
      <4>1. address = Len(heap) + 1 /\ heap' = Append(heap, object)
        BY <2>1, <3>1, <3>2 DEF NewAddress
      <4>. QED  BY <2>3, <3>1, <4>1, AppendObject
    <3>3. CASE address \in 1 .. Len(heap) /\ heap[address][1] = object[1]
      <4>1. heap' = [heap EXCEPT ![address] = object]
        BY <2>1, <3>1, <3>3
      <4>2. IsHeap(heap', code) /\ Extends(heap, heap')
        BY <2>3, <3>3, <4>1, ReplaceObject
      <4>3. Len(heap') \in Nat
        BY <4>2, SequenceFacts DEF IsHeap
      <4>. QED  BY <3>1, <3>3, <4>2, <4>3 DEF Extends
    <3>. QED  BY <3>2, <3>3
  <2>5. IsValue(handle, code, heap')
    BY <2>4 DEF IsValue, IsHandle, ObjectKind
  <2>. HIDE DEF handle
  <2>6. DOMAIN registers' = Register
        /\ \A q \in Register : registers'[q] = registers[q] \/ registers'[q] = handle
    BY <2>1, <2>3 DEF DataOK
  <2>7. DataOK'
    BY <2>1, <2>3, <2>4, <2>5, <2>6, DataStep
  <2>. QED  BY <2>1, <2>2, <2>3, <2>7 DEF IInv, TypeOK
<1>. QED  BY <1>2, <1>3

\* A jump, taken or not.
LEMMA GotoKeeps ==
  ASSUME IInv, outcome = "running", Target(Inst) = {}, NEW p \in Successors(pc, Inst), Goto(p)
  PROVE  IInv'
<1>1. /\ pc' = p /\ used' = used
      /\ UNCHANGED <<program, code, registers, frames, globals, heap, output, outcome>>
  BY DEF Goto
<1>2. ControlOK' /\ Started'
  BY <1>1, MoveOn
<1>3. DataOK /\ program \in Program
  BY RunFacts
<1>. QED  BY <1>1, <1>2, <1>3 DEF IInv, TypeOK, DataOK

\* A store into an object.
LEMMA ChangeKeeps ==
  ASSUME IInv, outcome = "running", Target(Inst) = {}, Successors(pc, Inst) = {pc + 1},
         NEW kind \in {"vec", "struct"}, NEW r, NEW c, Change(kind, r, c),
         IsValue(Reg(Inst[2]), code, heap),
         Reg(Inst[2])[1] = kind /\ At(r) \in Register => IsObject(<<kind, c>>, code, heap)
  PROVE  IInv'
<1>1. CASE Reg(Inst[2])[1] # kind \/ At(r) \notin Register
  BY <1>1, StopKeeps DEF Change, Stop, Endings, ErrorCodes
<1>2. CASE Reg(Inst[2])[1] = kind /\ At(r) \in Register
  <2>. DEFINE address == Reg(Inst[2])[2]
              object == <<kind, c>>
  <2>1. /\ heap' = [heap EXCEPT ![address] = object] /\ pc' = pc + 1
        /\ UNCHANGED <<program, code, registers, frames, globals, output, outcome, used>>
    BY <1>2 DEF Change
  <2>2. ControlOK' /\ Started'
    BY <2>1, MoveOn
  <2>3. DataOK /\ program \in Program /\ IsHeap(heap, code)
    BY RunFacts DEF DataOK
  <2>4. address \in 1 .. Len(heap) /\ heap[address][1] = kind
    BY <1>2 DEF IsValue, IsHandle, ObjectKind
  <2>5. IsObject(object, code, heap) /\ object[1] = kind
    BY <1>2
  <2>. HIDE DEF address, object
  <2>6. IsHeap(heap', code) /\ Extends(heap, heap')
    BY <2>1, <2>3, <2>4, <2>5, ReplaceObject
  <2>7. DataOK'
    BY <2>1, <2>3, <2>6, DataStep DEF DataOK
  <2>. QED  BY <2>1, <2>2, <2>3, <2>7 DEF IInv, TypeOK
<1>. QED  BY <1>1, <1>2

-----------------------------------------------------------------------------
(* Steps that are steps of VmCalls *)

LEMMA MapFacts ==
  ASSUME frames # <<>>
  PROVE  /\ Calls!Depth = Depth /\ Calls!Base = Top.base /\ Calls!Register = Register
         /\ \A r : Calls!Use(r) = Uses(r)
         /\ Ending = "running" <=> outcome \in {"source", "running"}
<1>1. Calls!Depth = Depth
  BY DEF Calls!Depth, Depth
<1>2. Calls!Base = Top.base
  BY <1>1 DEF Calls!Base, Top, Last, Depth
<1>3. Calls!Register = Register
  BY DEF Calls!Register, Register
<1>4. \A r : Calls!Use(r) = Uses(r)
  BY <1>1 DEF Calls!Use, Uses, Depth
<1>5. Ending = "running" <=> outcome \in {"source", "running"}
  BY DEF Ending
<1>. QED  BY <1>1, <1>2, <1>3, <1>4, <1>5

LEMMA MapsToCompute ==
  ASSUME frames # <<>>, outcome = "running", NEW r \in Register, NEW v \in Callables,
         Top.base + r \in Register, pc + 1 < CodeLength,
         pc' = pc + 1, used' = Uses(r), UNCHANGED <<frames, outcome>>,
         \A q \in Register : Callable(registers'[q]) = IF q = Top.base + r THEN v ELSE Callable(registers[q])
  PROVE  Calls!Next
<1>1. Top' = Top
  BY DEF Top, Last
<1>2. Calls!Compute(r, v)
  BY <1>1, MapFacts DEF Calls!Compute, Ending
<1>. QED  BY <1>2, MapFacts DEF Calls!Next

LEMMA MapsToJump ==
  ASSUME frames # <<>>, outcome = "running", pc' \in Nat, pc' < CodeLength,
         UNCHANGED <<registers, frames, used, outcome>>
  PROVE  Calls!Next
<1>1. Top' = Top
  BY DEF Top, Last
<1>2. Calls!Jump(pc') /\ pc' \in Calls!Position
  BY <1>1, MachineAssumption, MapFacts DEF Calls!Jump, Ending, Calls!Position
<1>. QED  BY <1>2, MapFacts DEF Calls!Next

LEMMA MapsToStop ==
  ASSUME frames # <<>>, outcome = "running", UNCHANGED <<registers, frames, pc, used>>, NEW how, Ending' = how
  PROVE  Calls!Stop(how)
<1>1. Top' = Top
  BY DEF Top, Last
<1>. QED  BY <1>1 DEF Calls!Stop

LEMMA MapsToFails ==
  ASSUME frames # <<>>, outcome = "running", UNCHANGED <<registers, frames, pc, used>>, outcome' \in ErrorCodes
  PROVE  Calls!Next
<1>1. Ending' = "error"
  BY DEF Ending, ErrorCodes
<1>2. Calls!Fails
  BY <1>1, MapsToStop DEF Calls!Fails
<1>. QED  BY <1>2, MapFacts DEF Calls!Next

LEMMA MapsToPastLastRegister ==
  ASSUME frames # <<>>, outcome = "running", UNCHANGED <<registers, frames, pc, used>>, outcome' = "no_register",
         NEW r \in Register, Top.base + r \notin Register
  PROVE  Calls!Next
<1>1. Ending' = "panic"
  BY DEF Ending, ErrorCodes
<1>2. Calls!PastLastRegister(r)
  BY <1>1, MapFacts, MapsToStop DEF Calls!PastLastRegister
<1>. QED  BY <1>2, MapFacts DEF Calls!Next

\* Registers below the frame's keep their values.
KeepsBelow == \A q \in Register : q < Top.base => registers'[q] = registers[q]

LEMMA WriteKeepsBelow ==
  ASSUME DataOK, Register \subseteq Nat, Top.base \in Nat,
         NEW k \in Register, k >= Top.base, NEW v, registers' = [registers EXCEPT ![k] = v]
  PROVE  KeepsBelow
BY DEF DataOK, KeepsBelow

\* What computes a value, makes or changes an object, or jumps is such a step.
LEMMA YieldMaps ==
  ASSUME IInv, outcome = "running", NEW r, Target(Inst) = {r}, Successors(pc, Inst) = {pc + 1},
         NEW v, IsResult(v, code, heap), Yield(r, v)
  PROVE  Calls!Next /\ KeepsBelow
<1>1. /\ r \in Register /\ frames # <<>> /\ At(r) = Top.base + r
      /\ pc + 1 < CodeLength /\ DataOK /\ Started /\ Register \subseteq Nat /\ Top.base \in Nat /\ At(r) >= Top.base
  <2>1. r \in Register /\ pc + 1 \in 0 .. Len(code[Top.fun]) - 1
    BY RegistersOfInst
  <2>2. Len(code[Top.fun]) \in 1 .. CodeLength
    BY InstFacts
  <2>. QED  BY <2>1, <2>2, RunFacts, MachineAssumption DEF At, Started
<1>2. CASE IsError(v)
  <2>1. v[2] \in ErrorCodes
    BY <1>2, ValuesAreNoErrors DEF IsResult
  <2>. QED  BY <1>1, <1>2, <2>1, MapsToFails DEF Yield, Stop, KeepsBelow
<1>3. CASE ~ IsError(v) /\ At(r) \notin Register
  BY <1>1, <1>3, MapsToPastLastRegister DEF Yield, Stop, KeepsBelow
<1>4. CASE ~ IsError(v) /\ At(r) \in Register
  <2>1. /\ registers' = [registers EXCEPT ![At(r)] = v] /\ used' = Uses(r) /\ pc' = pc + 1
        /\ UNCHANGED <<program, code, frames, globals, heap, output, outcome>>
    BY <1>4 DEF Yield
  <2>2. Callable(v) \in Callables
    BY <1>1, <1>4 DEF IsResult, IsValue, Callable, Callables, Started, WellFormed
  <2>3. \A q \in Register : registers'[q] = IF q = Top.base + r THEN v ELSE registers[q]
    BY <1>1, <2>1 DEF DataOK
  <2>4. Calls!Next
    BY <1>1, <1>4, <2>1, <2>2, <2>3, MapsToCompute
  <2>5. KeepsBelow
    BY <1>1, <1>4, <2>1, WriteKeepsBelow
  <2>. QED  BY <2>4, <2>5
<1>. QED  BY <1>2, <1>3, <1>4

LEMMA YieldObjectMaps ==
  ASSUME IInv, outcome = "running", NEW r, Target(Inst) = {r}, Successors(pc, Inst) = {pc + 1},
         NEW kind \in {"builder", "vec", "struct"}, NEW object, NEW address,
         YieldObject(r, kind, address, object)
  PROVE  Calls!Next /\ KeepsBelow
<1>1. /\ r \in Register /\ frames # <<>> /\ At(r) = Top.base + r
      /\ pc + 1 < CodeLength /\ DataOK /\ Register \subseteq Nat /\ Top.base \in Nat /\ At(r) >= Top.base
  <2>1. r \in Register /\ pc + 1 \in 0 .. Len(code[Top.fun]) - 1
    BY RegistersOfInst
  <2>2. Len(code[Top.fun]) \in 1 .. CodeLength
    BY InstFacts
  <2>. QED  BY <2>1, <2>2, RunFacts, MachineAssumption DEF At, Started
<1>2. CASE At(r) \notin Register
  BY <1>1, <1>2, MapsToPastLastRegister DEF YieldObject, Stop, KeepsBelow
<1>3. CASE At(r) \in Register
  <2>. DEFINE handle == <<kind, address>>
  <2>1. /\ registers' = [registers EXCEPT ![At(r)] = handle] /\ used' = Uses(r) /\ pc' = pc + 1
        /\ UNCHANGED <<program, code, frames, globals, output, outcome>>
    BY <1>3 DEF YieldObject
  <2>2. Callable(handle) = NotCallable /\ NotCallable \in Callables
    BY DEF Callable, Callables
  <2>. HIDE DEF handle
  <2>3. \A q \in Register : registers'[q] = IF q = Top.base + r THEN handle ELSE registers[q]
    BY <1>1, <2>1 DEF DataOK
  <2>4. Calls!Next
    BY <1>1, <1>3, <2>1, <2>2, <2>3, MapsToCompute
  <2>5. KeepsBelow
    BY <1>1, <1>3, <2>1, WriteKeepsBelow
  <2>. QED  BY <2>4, <2>5
<1>. QED  BY <1>2, <1>3

LEMMA MoveMaps ==
  ASSUME IInv, outcome = "running", pc' \in Successors(pc, Inst),
         UNCHANGED <<registers, frames, used, outcome>>
  PROVE  Calls!Next /\ KeepsBelow
<1>1. pc' \in 0 .. Len(code[Top.fun]) - 1 /\ Len(code[Top.fun]) \in 1 .. CodeLength /\ frames # <<>>
  BY RegistersOfInst, InstFacts, RunFacts DEF Started
<1>. QED  BY <1>1, MapsToJump, MachineAssumption DEF KeepsBelow

LEMMA ChangeMaps ==
  ASSUME IInv, outcome = "running", Successors(pc, Inst) = {pc + 1},
         NEW kind, NEW r \in Register, NEW c, Change(kind, r, c)
  PROVE  Calls!Next /\ KeepsBelow
<1>1. frames # <<>>
  BY RunFacts DEF Started
<1>2. CASE Reg(Inst[2])[1] # kind
  BY <1>1, <1>2, MapsToFails DEF Change, Stop, ErrorCodes, KeepsBelow
<1>3. CASE Reg(Inst[2])[1] = kind /\ At(r) \notin Register
  BY <1>1, <1>3, MapsToPastLastRegister DEF Change, Stop, At, KeepsBelow
<1>4. CASE Reg(Inst[2])[1] = kind /\ At(r) \in Register
  BY <1>4, MoveMaps DEF Change
<1>. QED  BY <1>2, <1>3, <1>4

-----------------------------------------------------------------------------
(* The instructions that stay in their function: each keeps the invariant, and *)
(* is a step of VmCalls.                                                      *)

LEMMA RegIsValue ==
  ASSUME IInv, outcome = "running", NEW r, At(r) \in Register
  PROVE  IsValue(Reg(r), code, heap)
BY RunFacts DEF DataOK, Reg

LEMMA SourcesAreValues ==
  ASSUME IInv, NEW ops, Decoded(ops)
  PROVE  /\ outcome = "running" /\ Inst[1] \in ops
         /\ \A r \in Sources(Inst) : At(r) \in Register /\ IsValue(Reg(r), code, heap)
BY RegIsValue DEF Decoded

LEMMA ReadsAndWrites ==
  /\ Inst[1] \in {"load_local", "move", "index_len", "get_field", "index_get"} \cup BinaryOps =>
       Inst[3] \in Sources(Inst)
  /\ Inst[1] \in BinaryOps \cup {"index_get"} => Inst[4] \in Sources(Inst)
  /\ Inst[1] \in {"store_local", "store_global", "not", "neg", "try_prop", "jump_if_false",
                  "vec_set", "struct_set", "ret"} => Inst[2] \in Sources(Inst)
  /\ Inst[1] \in {"load_const", "load_local", "move", "load_global", "not", "neg", "try_prop", "new_vec",
                  "index_get", "index_len", "new_struct", "get_field"} \cup BinaryOps => Target(Inst) = {Inst[2]}
  /\ Inst[1] = "store_local" => Target(Inst) = {Inst[3]}
  /\ Inst[1] \in {"store_global", "vec_set", "struct_set", "jump", "jump_if_false"} => Target(Inst) = {}
  /\ Inst[1] = "jump" => Successors(pc, Inst) = {pc + Inst[3]}
  /\ Inst[1] = "jump_if_false" => Successors(pc, Inst) = {pc + 1, pc + Inst[3]}
  /\ Inst[1] \notin {"jump", "jump_if_false", "ret", "halt"} => Successors(pc, Inst) = {pc + 1}
<1>1. Inst[1] \in {"load_local", "move", "index_len", "get_field", "index_get"} \cup BinaryOps =>
        Inst[3] \in Sources(Inst)
  BY DEF Sources, BinaryOps
<1>2. Inst[1] \in BinaryOps \cup {"index_get"} => Inst[4] \in Sources(Inst)
  BY DEF Sources, BinaryOps
<1>3. Inst[1] \in {"store_local", "store_global", "not", "neg", "try_prop", "jump_if_false",
                  "vec_set", "struct_set", "ret"} => Inst[2] \in Sources(Inst)
  BY DEF Sources, BinaryOps
<1>4. Inst[1] \in {"load_const", "load_local", "move", "load_global", "not", "neg", "try_prop", "new_vec",
                  "index_get", "index_len", "new_struct", "get_field"} \cup BinaryOps => Target(Inst) = {Inst[2]}
  BY DEF Target, BinaryOps
<1>5. /\ Inst[1] = "store_local" => Target(Inst) = {Inst[3]}
      /\ Inst[1] \in {"store_global", "vec_set", "struct_set", "jump", "jump_if_false"} => Target(Inst) = {}
  BY DEF Target, BinaryOps
<1>6. /\ Inst[1] = "jump" => Successors(pc, Inst) = {pc + Inst[3]}
      /\ Inst[1] = "jump_if_false" => Successors(pc, Inst) = {pc + 1, pc + Inst[3]}
      /\ Inst[1] \notin {"jump", "jump_if_false", "ret", "halt"} => Successors(pc, Inst) = {pc + 1}
  BY DEF Successors
<1>. QED  BY <1>1, <1>2, <1>3, <1>4, <1>5, <1>6

\* One lemma for each group of instructions.
LEMMA LoadsAndStores ==
  ASSUME IInv, LoadConst \/ LoadLocal \/ StoreLocal \/ LoadGlobal \/ StoreGlobal
  PROVE  IInv' /\ Calls!Next /\ KeepsBelow
<1>1. CASE LoadConst
  <2>1. outcome = "running" /\ Inst[1] = "load_const" /\ Yield(Inst[2], Inst[3])
    BY <1>1 DEF LoadConst, Decoded
  <2>2. Started /\ IsSequence(heap)
    BY <2>1, RunFacts DEF DataOK, IsHeap
  <2>3. IsValue(Inst[3], code, <<>>)
    BY <2>1, <2>2, InstFacts DEF CanRun, Started
  <2>4. IsResult(Inst[3], code, heap)
    BY <2>2, <2>3, ConstantsAreValues, ValuesAreNoErrors
  <2>. QED  BY <2>1, <2>4, ReadsAndWrites, YieldKeeps, YieldMaps
<1>2. CASE LoadLocal
  <2>1. outcome = "running" /\ Inst[1] \in {"load_local", "move"} /\ Yield(Inst[2], Reg(Inst[3]))
    BY <1>2 DEF LoadLocal, Decoded
  <2>2. IsResult(Reg(Inst[3]), code, heap)
    BY <1>2, <2>1, SourcesAreValues, ReadsAndWrites, ValuesAreNoErrors DEF LoadLocal
  <2>. QED  BY <2>1, <2>2, ReadsAndWrites, YieldKeeps, YieldMaps
<1>3. CASE StoreLocal
  <2>1. outcome = "running" /\ Inst[1] = "store_local" /\ Yield(Inst[3], Reg(Inst[2]))
    BY <1>3 DEF StoreLocal, Decoded
  <2>2. IsResult(Reg(Inst[2]), code, heap)
    BY <1>3, <2>1, SourcesAreValues, ReadsAndWrites, ValuesAreNoErrors DEF StoreLocal
  <2>. QED  BY <2>1, <2>2, ReadsAndWrites, YieldKeeps, YieldMaps
<1>4. CASE LoadGlobal
  <2>. DEFINE v == IF Inst[3] \in DOMAIN globals THEN globals[Inst[3]] ELSE Error("r001")
  <2>1. outcome = "running" /\ Inst[1] = "load_global" /\ Yield(Inst[2], v)
    BY <1>4 DEF LoadGlobal, Decoded
  <2>2. IsResult(Error("r001"), code, heap)
    BY ErrorsAreResults DEF ErrorCodes
  <2>3. Inst[3] \in DOMAIN globals => IsResult(globals[Inst[3]], code, heap)
    BY <2>1, RunFacts, ValuesAreNoErrors DEF DataOK
  <2>4. IsResult(v, code, heap)
    BY <2>2, <2>3
  <2>. HIDE DEF v
  <2>. QED  BY <2>1, <2>4, ReadsAndWrites, YieldKeeps, YieldMaps
<1>5. CASE StoreGlobal
  <2>1. /\ outcome = "running" /\ Inst[1] = "store_global"
        /\ globals' = [g \in DOMAIN globals \cup {Inst[3]} |->
                         IF g = Inst[3] THEN Reg(Inst[2]) ELSE globals[g]]
        /\ pc' = pc + 1
        /\ UNCHANGED <<program, code, registers, frames, heap, output, outcome, used>>
    BY <1>5 DEF StoreGlobal, Decoded
  <2>2. IsValue(Reg(Inst[2]), code, heap)
    BY <1>5, <2>1, SourcesAreValues, ReadsAndWrites DEF StoreGlobal
  <2>3. ControlOK' /\ Started'
    BY <2>1, ReadsAndWrites, MoveOn
  <2>4. DataOK /\ program \in Program
    BY <2>1, RunFacts
  <2>5. \A g \in DOMAIN globals' : \/ g \in DOMAIN globals /\ globals'[g] = globals[g]
                                 \/ globals'[g] = Reg(Inst[2])
    BY <2>1
  <2>6. DOMAIN registers' = Register /\ \A r \in Register : registers'[r] = registers[r]
    BY <2>1, <2>4 DEF DataOK
  <2>7. DataOK'
    BY <2>1, <2>2, <2>4, <2>5, <2>6, DataStep, HeapUnchanged
  <2>8. Calls!Next /\ KeepsBelow
    BY <2>1, ReadsAndWrites, MoveMaps
  <2>. QED  BY <2>1, <2>3, <2>4, <2>7, <2>8 DEF IInv, TypeOK
<1>. QED  BY <1>1, <1>2, <1>3, <1>4, <1>5

LEMMA Operators ==
  ASSUME IInv, BinaryOp \/ UnaryOp \/ Jump \/ JumpIfFalse
  PROVE  IInv' /\ Calls!Next /\ KeepsBelow
<1>1. CASE BinaryOp
  <2>. DEFINE a == Finalized(Reg(Inst[3]))
              b == Finalized(Reg(Inst[4]))
  <2>1. outcome = "running" /\ Inst[1] \in BinaryOps /\ Yield(Inst[2], BinaryResult(Inst[1], a, b))
    BY <1>1 DEF BinaryOp, Decoded
  <2>2. IsValue(Reg(Inst[3]), code, heap) /\ IsValue(Reg(Inst[4]), code, heap)
    BY <1>1, <2>1, SourcesAreValues, ReadsAndWrites DEF BinaryOp
  <2>3. IsHeap(heap, code)
    BY <2>1, RunFacts DEF DataOK
  <2>4. IsValue(a, code, heap) /\ IsValue(b, code, heap)
    BY <2>2, <2>3, FinalizedIsValue
  <2>. HIDE DEF a, b
  <2>5. IsResult(BinaryResult(Inst[1], a, b), code, heap)
    BY <2>1, <2>4, BinaryIsResult
  <2>6. Target(Inst) = {Inst[2]} /\ Successors(pc, Inst) = {pc + 1}
    BY <2>1, ReadsAndWrites DEF BinaryOps
  <2>. QED  BY <2>1, <2>5, <2>6, YieldKeeps, YieldMaps
<1>2. CASE UnaryOp
  <2>1. /\ outcome = "running" /\ Inst[1] \in {"not", "neg", "try_prop"}
        /\ Yield(Inst[2], UnaryResult(Inst[1], Reg(Inst[2])))
    BY <1>2 DEF UnaryOp, Decoded
  <2>2. IsValue(Reg(Inst[2]), code, heap)
    BY <1>2, <2>1, SourcesAreValues, ReadsAndWrites DEF UnaryOp
  <2>3. IsResult(UnaryResult(Inst[1], Reg(Inst[2])), code, heap)
    BY <2>1, <2>2, UnaryIsResult
  <2>. QED  BY <2>1, <2>3, ReadsAndWrites, YieldKeeps, YieldMaps
<1>3. CASE Jump
  BY <1>3, ReadsAndWrites, GotoKeeps, MoveMaps DEF Jump, Decoded, Goto
<1>4. CASE JumpIfFalse
  <2>1. /\ outcome = "running" /\ Inst[1] = "jump_if_false"
        /\ \/ Goto(pc + 1)
           \/ Goto(pc + Inst[3])
    BY <1>4 DEF JumpIfFalse, Decoded
  <2>. QED  BY <2>1, ReadsAndWrites, GotoKeeps, MoveMaps DEF Goto
<1>. QED  BY <1>1, <1>2, <1>3, <1>4

LEMMA Concat ==
  ASSUME IInv, ConcatStrings
  PROVE  IInv' /\ Calls!Next /\ KeepsBelow
<1>. DEFINE a == Reg(Inst[3])
            b == Reg(Inst[4])
            address == IF a[1] = "builder" THEN a[2]
                       ELSE IF b[1] = "builder" THEN b[2] ELSE NewAddress
            object == StrV(Finalized(a)[2] \o Finalized(b)[2])
<1>1. /\ outcome = "running" /\ Inst[1] = "add" /\ IsString(a) /\ IsString(b)
      /\ YieldObject(Inst[2], "builder", address, object)
  BY DEF ConcatStrings, IsConcat, Decoded
<1>2. IsValue(a, code, heap) /\ IsValue(b, code, heap)
  BY <1>1, SourcesAreValues, ReadsAndWrites DEF ConcatStrings, IsConcat, BinaryOps
<1>3. IsHeap(heap, code)
  BY <1>1, RunFacts DEF DataOK
<1>4. Finalized(a)[2] \in Seq(Nat) /\ Finalized(b)[2] \in Seq(Nat)
  <2>1. \A v : IsValue(v, code, heap) /\ IsString(v) => Finalized(v)[1] = "str"
    <3>. SUFFICES ASSUME NEW v, IsValue(v, code, heap), IsString(v) PROVE Finalized(v)[1] = "str"
      OBVIOUS
    <3>1. CASE v[1] = "builder"
      BY <3>1 DEF Finalized, IsValue, IsHandle, ObjectKind
    <3>2. CASE v[1] = "str"
      BY <3>2 DEF Finalized
    <3>. QED  BY <3>1, <3>2 DEF IsString
  <2>2. \A v : IsValue(v, code, heap) /\ v[1] = "str" => v[2] \in Seq(Nat)
    BY DEF IsValue
  <2>. QED  BY <1>1, <1>2, <1>3, <2>1, <2>2, FinalizedIsValue
<1>5. IsObject(object, code, heap) /\ object[1] = "str"
  <2>1. Finalized(a)[2] \o Finalized(b)[2] \in Seq(Nat)
    BY <1>4
  <2>. QED  BY <2>1 DEF IsObject, StrV
<1>6. \/ address = NewAddress
      \/ address \in 1 .. Len(heap) /\ heap[address][1] = "str"
  <2>1. \A v : IsValue(v, code, heap) /\ v[1] = "builder" =>
               v[2] \in 1 .. Len(heap) /\ heap[v[2]][1] = "str"
    BY DEF IsValue, IsHandle, ObjectKind
  <2>. QED  BY <1>2, <2>1
<1>7. Target(Inst) = {Inst[2]} /\ Successors(pc, Inst) = {pc + 1}
  BY <1>1, ReadsAndWrites DEF BinaryOps
<1>8. ObjectKind(<<"builder", 0>>) = "str"
  BY DEF ObjectKind
<1>. HIDE DEF a, b, address, object
<1>. QED  BY <1>1, <1>5, <1>6, <1>7, <1>8, YieldObjectKeeps, YieldObjectMaps

LEMMA Objects ==
  ASSUME IInv, NewVec \/ NewStruct \/ VecSet \/ StructSet \/ IndexGet \/ IndexLen \/ GetField
  PROVE  IInv' /\ Calls!Next /\ KeepsBelow
<1>1. CASE NewVec
  <2>. DEFINE content == [i \in 1 .. Inst[3] |-> Nil]
              object == <<"vec", content>>
  <2>1. outcome = "running" /\ Inst[1] = "new_vec" /\ YieldObject(Inst[2], "vec", NewAddress, object)
    BY <1>1 DEF NewVec, Decoded
  <2>2. Inst[3] \in Nat
    BY <2>1, InstFacts DEF CanRun
  <2>3. content \in [1 .. Inst[3] -> {Nil}]
    OBVIOUS
  <2>4. IsSequence(content) /\ Len(content) = Inst[3]
    BY <2>2, <2>3, FunctionIsSequence
  <2>5. \A i \in 1 .. Len(content) : IsValue(content[i], code, heap)
    BY <2>3, <2>4, PlainValues
  <2>. HIDE DEF content
  <2>6. IsObject(object, code, heap) /\ object[1] = "vec" /\ ObjectKind(<<"vec", 0>>) = "vec"
    BY <2>4, <2>5 DEF IsObject, ObjectKind
  <2>. HIDE DEF object
  <2>. QED  BY <2>1, <2>6, ReadsAndWrites, YieldObjectKeeps, YieldObjectMaps
<1>2. CASE NewStruct
  <2>. DEFINE object == <<"struct", <<>>>>
  <2>1. outcome = "running" /\ Inst[1] = "new_struct" /\ YieldObject(Inst[2], "struct", NewAddress, object)
    BY <1>2 DEF NewStruct, Decoded
  <2>2. IsObject(object, code, heap) /\ object[1] = "struct" /\ ObjectKind(<<"struct", 0>>) = "struct"
    BY DEF IsObject, ObjectKind
  <2>. HIDE DEF object
  <2>. QED  BY <2>1, <2>2, ReadsAndWrites, YieldObjectKeeps, YieldObjectMaps
<1>3. CASE VecSet
  <2>. DEFINE content == [Contents EXCEPT ![Inst[3]] = Reg(Inst[4])]
  <2>1. /\ outcome = "running" /\ Inst[1] = "vec_set"
        /\ \/ Goto(pc + 1)
           \/ /\ ~ (Reg(Inst[2])[1] = "vec" /\ Inst[3] \notin DOMAIN Contents)
              /\ Change("vec", Inst[4], content)
    BY <1>3 DEF VecSet, Decoded
  <2>2. IsValue(Reg(Inst[2]), code, heap)
    BY <1>3, <2>1, SourcesAreValues, ReadsAndWrites DEF VecSet
  <2>3. Target(Inst) = {} /\ Successors(pc, Inst) = {pc + 1} /\ Inst[4] \in Register
    BY <2>1, ReadsAndWrites, InstFacts DEF CanRun
  <2>4. CASE Goto(pc + 1)
    BY <2>1, <2>3, <2>4, GotoKeeps, MoveMaps DEF Goto
  <2>5. ASSUME Reg(Inst[2])[1] = "vec", Inst[3] \in DOMAIN Contents, At(Inst[4]) \in Register
        PROVE  IsObject(<<"vec", content>>, code, heap)
    <3>. DEFINE v == Reg(Inst[4])
                S == ToSet(Contents) \cup {v}
    <3>1. IsOpen(Opened(Reg(Inst[2]))) /\ Opened(Reg(Inst[2])) = heap[Reg(Inst[2])[2]]
      BY <2>1, <2>2, <2>5, RunFacts, OpenedIsOpen DEF DataOK, Opened, IsHandle
    <3>2. heap[Reg(Inst[2])[2]][1] = "vec"
      BY <2>2, <2>5 DEF IsValue, IsHandle, ObjectKind
    <3>3. IsSequence(Contents) /\ \A i \in 1 .. Len(Contents) : IsValue(Contents[i], code, heap)
      BY <3>1, <3>2, OpenFacts DEF Contents
    <3>4. IsValue(v, code, heap)
      BY <2>1, <2>5, RegIsValue
    <3>5. Contents \in Seq(S) /\ v \in S /\ Inst[3] \in 1 .. Len(Contents)
      BY <2>5, <3>3, SequenceFacts
    <3>. HIDE DEF v, S
    <3>6. /\ content \in Seq(S) /\ Len(content) = Len(Contents)
          /\ \A i \in 1 .. Len(Contents) : content[i] = IF i = Inst[3] THEN v ELSE Contents[i]
      BY <3>5 DEF v
    <3>. HIDE DEF content
    <3>7. IsSequence(content) /\ \A i \in 1 .. Len(content) : IsValue(content[i], code, heap)
      BY <3>3, <3>4, <3>6, SequencesAreSequences
    <3>. QED  BY <3>7 DEF IsObject
  <2>. HIDE DEF content
  <2>6. CASE ~ Goto(pc + 1)
    BY <2>1, <2>2, <2>3, <2>5, <2>6, ChangeKeeps, ChangeMaps
  <2>. QED  BY <2>4, <2>6
<1>4. CASE StructSet
  <2>. DEFINE v == Reg(Inst[2] + 1)
              content == [f \in DOMAIN Contents \cup {Inst[3]} |-> IF f = Inst[3] THEN v ELSE Contents[f]]
  <2>1. outcome = "running" /\ Inst[1] = "struct_set" /\ Change("struct", Inst[2] + 1, content)
    BY <1>4 DEF StructSet, Decoded
  <2>2. IsValue(Reg(Inst[2]), code, heap)
    BY <1>4, <2>1, SourcesAreValues, ReadsAndWrites DEF StructSet
  <2>3. Target(Inst) = {} /\ Successors(pc, Inst) = {pc + 1} /\ Inst[2] + 1 \in Register
    BY <2>1, ReadsAndWrites, InstFacts DEF CanRun
  <2>4. ASSUME Reg(Inst[2])[1] = "struct", At(Inst[2] + 1) \in Register
        PROVE  IsObject(<<"struct", content>>, code, heap)
    <3>1. IsOpen(Opened(Reg(Inst[2]))) /\ Opened(Reg(Inst[2])) = heap[Reg(Inst[2])[2]]
      BY <2>1, <2>2, <2>4, RunFacts, OpenedIsOpen DEF DataOK, Opened, IsHandle
    <3>2. heap[Reg(Inst[2])[2]][1] = "struct"
      BY <2>2, <2>4 DEF IsValue, IsHandle, ObjectKind
    <3>3. \A f \in DOMAIN Contents : IsValue(Contents[f], code, heap)
      BY <3>1, <3>2, OpenFacts DEF Contents
    <3>4. IsValue(v, code, heap)
      BY <2>1, <2>4, RegIsValue
    <3>. HIDE DEF v
    <3>5. \A f \in DOMAIN content : IsValue(content[f], code, heap)
      BY <3>3, <3>4
    <3>. HIDE DEF content
    <3>. QED  BY <3>5 DEF IsObject
  <2>. HIDE DEF content
  <2>. QED  BY <2>1, <2>2, <2>3, <2>4, ChangeKeeps, ChangeMaps
<1>5. CASE IndexGet
  <2>1. /\ outcome = "running" /\ Inst[1] = "index_get"
        /\ Yield(Inst[2], ElementOf(Opened(Reg(Inst[3])), Reg(Inst[4])))
    BY <1>5 DEF IndexGet, Decoded
  <2>2. IsValue(Reg(Inst[3]), code, heap) /\ IsValue(Reg(Inst[4]), code, heap)
    BY <1>5, <2>1, SourcesAreValues, ReadsAndWrites DEF IndexGet
  <2>3. IsResult(ElementOf(Opened(Reg(Inst[3])), Reg(Inst[4])), code, heap)
    BY <2>1, <2>2, RunFacts, OpenedIsOpen, ElementIsResult DEF DataOK
  <2>. QED  BY <2>1, <2>3, ReadsAndWrites, YieldKeeps, YieldMaps
<1>6. CASE IndexLen
  <2>1. outcome = "running" /\ Inst[1] = "index_len" /\ Yield(Inst[2], LengthOf(Opened(Reg(Inst[3]))))
    BY <1>6 DEF IndexLen, Decoded
  <2>2. IsValue(Reg(Inst[3]), code, heap)
    BY <1>6, <2>1, SourcesAreValues, ReadsAndWrites DEF IndexLen
  <2>3. IsResult(LengthOf(Opened(Reg(Inst[3]))), code, heap)
    BY <2>1, <2>2, RunFacts, OpenedIsOpen, LengthIsResult DEF DataOK
  <2>. QED  BY <2>1, <2>3, ReadsAndWrites, YieldKeeps, YieldMaps
<1>7. CASE GetField
  <2>1. outcome = "running" /\ Inst[1] = "get_field" /\ Yield(Inst[2], FieldOf(Opened(Reg(Inst[3])), Inst[4]))
    BY <1>7 DEF GetField, Decoded
  <2>2. IsValue(Reg(Inst[3]), code, heap)
    BY <1>7, <2>1, SourcesAreValues, ReadsAndWrites DEF GetField
  <2>3. IsResult(FieldOf(Opened(Reg(Inst[3])), Inst[4]), code, heap)
    BY <2>1, <2>2, RunFacts, OpenedIsOpen, FieldIsResult DEF DataOK
  <2>. QED  BY <2>1, <2>3, ReadsAndWrites, YieldKeeps, YieldMaps
<1>. QED  BY <1>1, <1>2, <1>3, <1>4, <1>5, <1>6, <1>7

-----------------------------------------------------------------------------
(* call *)

CallEffect ==
  /\ Depth' = Depth + 1 /\ Len(used') = Depth + 1
  /\ \A i \in 1 .. Depth - 1 : frames'[i] = frames[i] /\ used'[i] = used[i]
  /\ frames'[Depth] = [fun |-> Top.fun, pc |-> pc + 1, base |-> Top.base, dst |-> Top.dst]
  /\ used'[Depth] = {r \in used[Depth] : r <= Inst[3] + Inst[4]}
  /\ frames'[Depth + 1] = [fun |-> Callee[2], pc |-> 0, base |-> NewBase, dst |-> At(Inst[2])]
  /\ used'[Depth + 1] = 0 .. Inst[4] - 1
  /\ frames' \in Seq(Frame) /\ used' \in Seq(SUBSET Register)
  /\ Depth + 1 <= FramesMax

\* What is known where a function is called.
LEMMA CallSite ==
  ASSUME IInv, CallFunction
  PROVE  /\ outcome = "running" /\ Inst[1] = "call"
         /\ Callee[1] = "fun" /\ Callee[2] \in DOMAIN code /\ Callee[2] # Script
         /\ NewBase = Top.base + Inst[3] + 1 + Inst[4] /\ NewBase \in Register
         /\ NewBase + Inst[4] <= RegisterCount /\ NewBase > Top.base
         /\ At(Inst[2]) = Top.base + Inst[2] /\ At(Inst[2]) \in Register /\ At(Inst[2]) >= NewBase
         /\ Depth + 1 <= FramesMax
<1>1. outcome = "running" /\ Inst[1] = "call" /\ Callee[1] = "fun" /\ HasRoom /\ CopiesFit
  BY DEF CallFunction, Decoded
<1>2. Top.base \in Nat /\ Inst[2] \in Nat /\ Inst[3] \in Nat /\ Inst[4] \in Nat /\ Inst[2] > Inst[3] + Inst[4]
  BY <1>1, RunFacts, CallFacts
<1>3. IsValue(Callee, code, heap)
  BY <1>1, SourcesAreValues, CallFacts DEF CallFunction, Callee
<1>4. Callee[2] \in DOMAIN code /\ Callee[2] # Script
  BY <1>1, <1>3 DEF IsValue
<1>5. NewBase = Top.base + Inst[3] + 1 + Inst[4] /\ At(Inst[2]) = Top.base + Inst[2]
  BY DEF NewBase, At
<1>6. NewBase < RegisterCount /\ At(Inst[2]) \in Register /\ NewBase + Inst[4] <= RegisterCount
      /\ Depth < FramesMax /\ Depth \in Nat
  BY <1>1, RunFacts, MachineAssumption DEF HasRoom, CopiesFit, Depth
<1>7. NewBase \in Register /\ NewBase > Top.base /\ At(Inst[2]) >= NewBase /\ Depth + 1 <= FramesMax
  BY <1>2, <1>5, <1>6, MachineAssumption DEF Register
<1>. QED  BY <1>1, <1>4, <1>5, <1>6, <1>7

LEMMA CopiedFromRegisters ==
  ASSUME IInv, CallFunction
  PROVE  \A r \in Register : r \in NewBase .. NewBase + Inst[4] - 1 => r - Inst[4] \in Register
<1>. SUFFICES ASSUME NEW r \in Register, r \in NewBase .. NewBase + Inst[4] - 1
              PROVE  r - Inst[4] \in Register
  OBVIOUS
<1>1. /\ Inst[3] \in Nat /\ Inst[4] \in Nat
      /\ NewBase = Top.base + Inst[3] + 1 + Inst[4] /\ Top.base \in Nat
  BY CallSite, CallFacts, RunFacts
<1>2. r \in Nat /\ r < RegisterCount /\ r >= NewBase
  BY <1>1, MachineAssumption DEF Register
<1>3. r - Inst[4] \in Nat /\ r - Inst[4] < RegisterCount
  BY <1>1, <1>2, MachineAssumption
<1>. QED  BY <1>3, MachineAssumption DEF Register

LEMMA CallShape ==
  ASSUME IInv, CallFunction
  PROVE  CallEffect
<1>. DEFINE new == [fun |-> Callee[2], pc |-> 0, base |-> NewBase, dst |-> At(Inst[2])]
            saved == [fun |-> Top.fun, pc |-> pc + 1, base |-> Top.base, dst |-> Top.dst]
            later == [frames[Depth] EXCEPT !.pc = pc + 1]
            suspended == [frames EXCEPT ![Depth].pc = pc + 1]
            below == {r \in used[Depth] : r <= Inst[3] + Inst[4]}
            kept == [used EXCEPT ![Depth] = below]
<1>1. outcome = "running" /\ Inst[1] = "call"
  BY CallSite
<1>2. /\ Depth \in 1 .. Depth /\ Len(used) = Depth /\ Len(frames) = Depth /\ Depth \in Nat
      /\ frames \in Seq(Frame) /\ used \in Seq(SUBSET Register)
      /\ Top = frames[Depth] /\ Top \in Frame /\ used[Depth] \in SUBSET Register
  BY <1>1, RunFacts DEF IInv, TypeOK, ControlOK
<1>3. frames' = Append(suspended, new) /\ used' = Append(kept, 0 .. Inst[4] - 1)
  BY DEF CallFunction, Depth
<1>4. pc + 1 \in 0 .. CodeLength
  BY <1>1, InstFacts, MachineAssumption
<1>5. /\ suspended \in Seq(Frame) /\ Len(suspended) = Depth
      /\ \A i \in 1 .. Depth - 1 : suspended[i] = frames[i]
      /\ suspended[Depth] = saved
  <2>1. later = saved /\ later \in Frame
    <3>1. frames[Depth] = [fun |-> Top.fun, pc |-> Top.pc, base |-> Top.base, dst |-> Top.dst]
          /\ Top.fun \in DOMAIN code /\ Top.base \in Register /\ Top.dst \in Register
      BY <1>2 DEF Frame
    <3>2. later = saved
      BY <3>1
    <3>3. saved \in Frame
      BY <1>4, <3>1 DEF Frame
    <3>. QED  BY <3>2, <3>3
  <2>2. suspended = [frames EXCEPT ![Depth] = later]
    OBVIOUS
  <2>. HIDE DEF later, suspended, saved
  <2>. QED  BY <1>2, <2>1, <2>2
<1>6. /\ kept \in Seq(SUBSET Register) /\ Len(kept) = Depth
      /\ \A i \in 1 .. Depth - 1 : kept[i] = used[i]
      /\ kept[Depth] = below
  BY <1>2
<1>7. new \in Frame
  BY CallSite, MachineAssumption DEF Frame
<1>8. 0 .. Inst[4] - 1 \in SUBSET Register
  BY <1>1, CallSite, CallFacts, RunFacts, MachineAssumption DEF Register
<1>. HIDE DEF new, saved, suspended, below, kept
<1>9. /\ frames' \in Seq(Frame) /\ Len(frames') = Depth + 1
      /\ \A i \in 1 .. Depth : frames'[i] = suspended[i]
      /\ frames'[Depth + 1] = new
  BY <1>2, <1>3, <1>5, <1>7
<1>10. /\ used' \in Seq(SUBSET Register) /\ Len(used') = Depth + 1
       /\ \A i \in 1 .. Depth : used'[i] = kept[i]
       /\ used'[Depth + 1] = 0 .. Inst[4] - 1
  BY <1>2, <1>3, <1>6, <1>8
<1>11. Depth' = Depth + 1
  BY <1>9 DEF Depth
<1>12. \A i \in 1 .. Depth - 1 : frames'[i] = frames[i] /\ used'[i] = used[i]
  BY <1>2, <1>5, <1>6, <1>9, <1>10
<1>13. frames'[Depth] = saved /\ used'[Depth] = below
  BY <1>2, <1>5, <1>6, <1>9, <1>10
<1>. QED
  BY <1>9, <1>10, <1>11, <1>12, <1>13, CallSite DEF CallEffect, new, saved, below

LEMMA CallKeeps ==
  ASSUME IInv, CallFunction
  PROVE  IInv'
<1>. DEFINE D == Depth
<1>1. /\ outcome = "running" /\ pc' = 0
      /\ UNCHANGED <<program, code, globals, heap, output, outcome>>
      /\ Inst[1] = "call"
  BY CallSite DEF CallFunction
<1>2. /\ Started /\ ControlOK /\ DataOK /\ program \in Program
      /\ D \in Nat /\ D >= 1 /\ D \in 1 .. D /\ Len(used) = D /\ Len(frames) = D
      /\ Top = frames[D] /\ Top.base \in Nat
  BY <1>1, RunFacts DEF IInv, TypeOK
<1>3. CallEffect
  BY CallShape
<1>. HIDE DEF D
<1>4. /\ Depth' = D + 1 /\ Len(frames') = D + 1 /\ Len(used') = D + 1
      /\ \A i \in 1 .. D - 1 : frames'[i] = frames[i] /\ used'[i] = used[i]
      /\ frames'[D] = [fun |-> Top.fun, pc |-> pc + 1, base |-> Top.base, dst |-> Top.dst]
      /\ used'[D] = {r \in used[D] : r <= Inst[3] + Inst[4]}
      /\ frames'[D + 1] = [fun |-> Callee[2], pc |-> 0, base |-> NewBase, dst |-> At(Inst[2])]
      /\ used'[D + 1] = 0 .. Inst[4] - 1
      /\ frames' \in Seq(Frame) /\ used' \in Seq(SUBSET Register) /\ D + 1 <= FramesMax
  BY <1>3 DEF CallEffect, D, Depth
<1>5. T' = T /\ Top' = frames'[D + 1]
  BY <1>1, <1>4 DEF T, Top, Last
<1>6. /\ Callee[2] \in DOMAIN code /\ WellFormed(T) /\ code = T.chunk
      /\ Len(code[Callee[2]]) \in 1 .. CodeLength /\ CanRun(T, Callee[2], 0)
      /\ T.inUse[Callee[2]][1] = {}
  <2>1. Callee[2] \in DOMAIN code /\ WellFormed(T) /\ code = T.chunk
    BY <1>2, CallSite DEF Started
  <2>2. Len(code[Callee[2]]) \in 1 .. CodeLength /\ T.inUse[Callee[2]][1] = {}
    BY <2>1 DEF WellFormed
  <2>. QED  BY <2>1, <2>2, CodeFacts, MachineAssumption
<1>7. Inst'[1] \in Opcodes /\ pc' < Len(code[Top'.fun])
  <2>1. Top'.fun = Callee[2]
    BY <1>4, <1>5
  <2>2. Inst' = code[Callee[2]][1]
    BY <1>1, <2>1 DEF Inst
  <2>3. code[Callee[2]][1][1] \in Opcodes
    BY <1>6 DEF CanRun
  <2>4. Len(code[Callee[2]]) > 0
    BY <1>6, MachineAssumption
  <2>. QED  BY <1>1, <2>1, <2>2, <2>3, <2>4
<1>8. pc + 1 \in 0 .. Len(code[Top.fun]) - 1 /\ Len(code[Top.fun]) \in Nat
      /\ T.inUse[Top.fun][pc + 2] \subseteq InUseAfter(T.inUse[Top.fun][pc + 1], Inst)
      /\ T.inUse[Top.fun][pc + 1] \subseteq used[D] /\ pc \in Nat
  <2>1. /\ pc + 1 \in 0 .. Len(code[Top.fun]) - 1
        /\ T.inUse[Top.fun][(pc + 1) + 1] \subseteq InUseAfter(T.inUse[Top.fun][pc + 1], Inst)
    BY <1>1, RegistersOfInst, CallFacts
  <2>2. T.inUse[Top.fun][pc + 1] \subseteq used[D] /\ pc \in Nat /\ Len(code[Top.fun]) \in 1 .. CodeLength
    BY <1>1, InstFacts DEF D
  <2>3. (pc + 1) + 1 = pc + 2
    BY <2>2
  <2>. QED  BY <2>1, <2>2, <2>3, MachineAssumption
<1>9. \A i \in 2 .. D + 1 : /\ frames'[i].base > frames'[i - 1].base
                           /\ frames'[i - 1].pc < Len(code[frames'[i - 1].fun])
                           /\ frames'[i].dst >= frames'[i].base
  <2>1. ASSUME NEW i \in 2 .. D - 1
        PROVE  /\ frames'[i].base > frames'[i - 1].base
               /\ frames'[i - 1].pc < Len(code[frames'[i - 1].fun])
               /\ frames'[i].dst >= frames'[i].base
    BY <1>2, <1>4, <2>1 DEF ControlOK, Started, StackOK, D
  <2>2. D \in 2 .. D => /\ frames'[D].base > frames'[D - 1].base
                        /\ frames'[D - 1].pc < Len(code[frames'[D - 1].fun])
                        /\ frames'[D].dst >= frames'[D].base
    BY <1>2, <1>4 DEF ControlOK, Started, StackOK, D
  <2>3. /\ frames'[D + 1].base > frames'[D].base
        /\ frames'[D].pc < Len(code[frames'[D].fun])
        /\ frames'[D + 1].dst >= frames'[D + 1].base
    BY <1>4, <1>8, CallSite
  <2>4. \A i \in 2 .. D + 1 : i \in 2 .. D - 1 \/ (i = D /\ D \in 2 .. D) \/ i = D + 1
    BY <1>2
  <2>5. (D + 1) - 1 = D
    BY <1>2
  <2>. QED  BY <2>1, <2>2, <2>3, <2>4, <2>5
<1>10. ControlOK'
  <2>1. Frame' = Frame
    BY <1>1 DEF Frame
  <2>2. frames' # <<>> /\ pc' \in 0 .. CodeLength
    BY <1>1, <1>2, <1>4, MachineAssumption
  <2>. QED  BY <1>1, <1>2, <1>4, <1>7, <1>9, <2>1, <2>2 DEF ControlOK
<1>11. frames'[1].base = 0 /\ frames'[1].dst = 0
  <2>1. frames[1].base = 0 /\ frames[1].dst = 0
    BY <1>2 DEF Started, StackOK
  <2>2. CASE D = 1
    BY <1>2, <1>4, <2>1, <2>2
  <2>3. CASE D # 1
    <3>1. 1 \in 1 .. D - 1
      BY <1>2, <2>3
    <3>. QED  BY <1>4, <2>1, <3>1
  <2>. QED  BY <2>2, <2>3
<1>12. \A i \in 1 .. D : T.inUse[frames'[i].fun][frames'[i].pc + 1]
                          \subseteq used'[i] \cup {frames'[i + 1].dst - frames'[i].base}
  <2>1. ASSUME NEW i \in 1 .. D - 2
        PROVE  T.inUse[frames'[i].fun][frames'[i].pc + 1]
                 \subseteq used'[i] \cup {frames'[i + 1].dst - frames'[i].base}
    <3>1. i \in 1 .. D - 1 /\ i + 1 \in 1 .. D - 1
      BY <1>2
    <3>2. T.inUse[frames[i].fun][frames[i].pc + 1] \subseteq used[i] \cup {frames[i + 1].dst - frames[i].base}
      BY <1>2, <3>1 DEF Started, InUseOK, D
    <3>. QED  BY <1>4, <3>1, <3>2
  <2>2. ASSUME D >= 2
        PROVE  T.inUse[frames'[D - 1].fun][frames'[D - 1].pc + 1]
                 \subseteq used'[D - 1] \cup {frames'[D].dst - frames'[D - 1].base}
    <3>1. D - 1 \in 1 .. D - 1 /\ (D - 1) + 1 = D
      BY <1>2, <2>2
    <3>2. T.inUse[frames[D - 1].fun][frames[D - 1].pc + 1]
            \subseteq used[D - 1] \cup {frames[D].dst - frames[D - 1].base}
      BY <1>2, <3>1 DEF Started, InUseOK, D
    <3>. QED  BY <1>2, <1>4, <3>1, <3>2
  <2>3. T.inUse[frames'[D].fun][frames'[D].pc + 1]
          \subseteq used'[D] \cup {frames'[D + 1].dst - frames'[D].base}
    <3>1. frames'[D].fun = Top.fun /\ frames'[D].pc + 1 = pc + 2 /\ frames'[D].base = Top.base
      BY <1>4, <1>8
    <3>2. frames'[D + 1].dst - frames'[D].base = Inst[2]
      <4>1. Inst[2] \in Nat
        BY <1>1, CallFacts, RunFacts
      <4>. QED  BY <1>2, <1>4, <3>1, <4>1, CallSite
    <3>3. InUseAfter(T.inUse[Top.fun][pc + 1], Inst) \subseteq used'[D] \cup {Inst[2]}
      BY <1>1, <1>4, <1>8, CallFacts DEF InUseAfter
    <3>. QED  BY <1>8, <3>1, <3>2, <3>3
  <2>4. \A i \in 1 .. D : i \in 1 .. D - 2 \/ (i = D - 1 /\ D >= 2) \/ i = D
    BY <1>2
  <2>5. D >= 2 => (D - 1) + 1 = D
    BY <1>2
  <2>. QED  BY <2>1, <2>2, <2>3, <2>4, <2>5
<1>13. T.inUse[Top'.fun][pc' + 1] \subseteq used'[D + 1]
  BY <1>1, <1>4, <1>5, <1>6
<1>14. Started'
  <2>1. (D + 1) - 1 = D /\ frames' # <<>>
    BY <1>2, <1>4
  <2>. QED
    BY <1>1, <1>2, <1>4, <1>5, <1>9, <1>11, <1>12, <1>13, <2>1 DEF Started, StackOK, InUseOK
<1>15. DataOK'
  <2>1. registers' = [r \in Register |-> IF r \in NewBase .. NewBase + Inst[4] - 1
                                            THEN registers[r - Inst[4]] ELSE registers[r]]
    BY DEF CallFunction
  <2>2. \A r \in Register : r \in NewBase .. NewBase + Inst[4] - 1 => r - Inst[4] \in Register
    BY CopiedFromRegisters
  <2>3. \A r \in Register : IsValue(registers'[r], code, heap)
    BY <1>2, <2>1, <2>2 DEF DataOK
  <2>. QED  BY <1>1, <1>2, <2>1, <2>3 DEF DataOK
<1>. QED  BY <1>1, <1>2, <1>10, <1>14, <1>15 DEF IInv, TypeOK

-----------------------------------------------------------------------------
(* ret *)

ReturnEffect ==
  /\ Depth' = Depth - 1 /\ Len(used') = Depth - 1
  /\ \A i \in 1 .. Depth - 1 : frames'[i] = frames[i]
  /\ \A i \in 1 .. Depth - 2 : used'[i] = used[i]
  /\ used'[Depth - 1] = used[Depth - 1] \cup {Top.dst - frames[Depth - 1].base}
  /\ frames' \in Seq(Frame) /\ used' \in Seq(SUBSET Register)

LEMMA ReturnShape ==
  ASSUME IInv, Return
  PROVE  ReturnEffect /\ outcome = "running" /\ Depth \in Nat /\ Depth >= 2
<1>. DEFINE back == Top.dst - frames[Depth - 1].base
            caller == Front(frames)
            kept == Front(used)
            more == kept[Depth - 1] \cup {back}
<1>1. outcome = "running" /\ Len(frames) > 1
  BY DEF Return, Decoded
<1>2. /\ Depth \in Nat /\ Depth >= 2 /\ Len(used) = Depth /\ Len(frames) = Depth
      /\ frames \in Seq(Frame) /\ used \in Seq(SUBSET Register)
      /\ Top = frames[Depth] /\ Top \in Frame /\ Started /\ ControlOK
  BY <1>1, RunFacts DEF IInv, TypeOK, ControlOK, Depth
<1>3. frames' = caller /\ used' = [kept EXCEPT ![Depth - 1] = more]
  BY DEF Return, Depth
<1>4. caller \in Seq(Frame) /\ Len(caller) = Depth - 1 /\ \A i \in 1 .. Depth - 1 : caller[i] = frames[i]
  BY <1>2 DEF Front
<1>5. kept \in Seq(SUBSET Register) /\ Len(kept) = Depth - 1 /\ \A i \in 1 .. Depth - 1 : kept[i] = used[i]
  BY <1>2 DEF Front
<1>6. back \in Register
  <2>1. Depth \in 2 .. Depth /\ Depth - 1 \in 1 .. Depth
    BY <1>2
  <2>2. Top.dst >= Top.base /\ Top.base > frames[Depth - 1].base
    BY <1>2, <2>1 DEF Started, StackOK, ControlOK
  <2>3. Top.dst \in Register /\ Top.base \in Register /\ frames[Depth - 1].base \in Register
    <3>1. frames[Depth - 1] \in Frame
      BY <1>2, <2>1
    <3>. QED  BY <1>2, <3>1 DEF Frame
  <2>. QED  BY <2>2, <2>3, MachineAssumption DEF Register
<1>. HIDE DEF caller, kept, back
<1>7. more \in SUBSET Register /\ Depth - 1 \in 1 .. Depth - 1
  BY <1>2, <1>5, <1>6
<1>. HIDE DEF more
<1>8. used' \in Seq(SUBSET Register) /\ Len(used') = Depth - 1
  BY <1>3, <1>5, <1>7
<1>9. \A i \in 1 .. Depth - 2 : used'[i] = used[i]
  BY <1>2, <1>3, <1>5
<1>10. used'[Depth - 1] = more
  BY <1>2, <1>3, <1>5, <1>7
<1>11. more = used[Depth - 1] \cup {back}
  BY <1>5, <1>7 DEF more
<1>12. Depth' = Depth - 1
  BY <1>3, <1>4 DEF Depth
<1>. QED
  BY <1>1, <1>2, <1>3, <1>4, <1>8, <1>9, <1>10, <1>11, <1>12 DEF ReturnEffect, back

LEMMA ReturnKeeps ==
  ASSUME IInv, Return
  PROVE  IInv'
<1>. DEFINE D == Depth
<1>1. /\ outcome = "running" /\ D \in Nat /\ D >= 2 /\ ReturnEffect /\ Inst[1] = "ret"
      /\ pc' = frames[D - 1].pc /\ registers' = [registers EXCEPT ![Top.dst] = Reg(Inst[2])]
      /\ UNCHANGED <<program, code, globals, heap, output, outcome>>
  BY ReturnShape DEF Return, Decoded, Depth
<1>2. /\ Started /\ ControlOK /\ DataOK /\ program \in Program
      /\ Len(used) = D /\ Len(frames) = D /\ Top = frames[D] /\ D <= FramesMax
      /\ frames \in Seq(Frame)
  BY <1>1, RunFacts, MachineAssumption DEF IInv, TypeOK, ControlOK
<1>. HIDE DEF D
<1>3. /\ Depth' = D - 1 /\ Len(frames') = D - 1 /\ Len(used') = D - 1
      /\ \A i \in 1 .. D - 1 : frames'[i] = frames[i]
      /\ \A i \in 1 .. D - 2 : used'[i] = used[i]
      /\ used'[D - 1] = used[D - 1] \cup {Top.dst - frames[D - 1].base}
      /\ frames' \in Seq(Frame) /\ used' \in Seq(SUBSET Register)
  BY <1>1 DEF ReturnEffect, D, Depth
<1>. DEFINE C == frames[D - 1]
<1>4. T' = T /\ Top' = C /\ D - 1 \in 1 .. D - 1 /\ C \in Frame /\ (D - 1) + 1 = D /\ frames' # <<>>
  BY <1>1, <1>2, <1>3 DEF T, Top, Last
<1>5. C.pc \in Nat /\ C.pc < Len(code[C.fun]) /\ C.fun \in DOMAIN code
  <2>1. D \in 2 .. D
    BY <1>1
  <2>2. C.pc \in 0 .. CodeLength /\ C.fun \in DOMAIN code
    BY <1>4 DEF Frame
  <2>3. C.pc < Len(code[C.fun])
    BY <1>2, <2>1 DEF ControlOK
  <2>. QED  BY <2>2, <2>3, MachineAssumption
<1>6. code[C.fun][C.pc + 1][1] \in Opcodes
  <2>1. CanRun(T, C.fun, C.pc) /\ code = T.chunk
    BY <1>2, <1>5, CodeFacts DEF Started
  <2>. QED  BY <2>1 DEF CanRun
<1>7. T.inUse[C.fun][C.pc + 1] \subseteq used'[D - 1]
  BY <1>2, <1>3, <1>4 DEF Started, InUseOK, D
<1>8. Inst' = code[C.fun][C.pc + 1] /\ pc' = C.pc
  BY <1>1, <1>4 DEF Inst
<1>9. \A i \in 2 .. D - 1 : i - 1 \in 1 .. D - 1 /\ i \in 1 .. D - 1 /\ i \in 2 .. D
  BY <1>1
<1>. HIDE DEF C
<1>10. ControlOK'
  <2>1. Frame' = Frame
    BY <1>1 DEF Frame
  <2>2. pc' \in 0 .. CodeLength
    BY <1>4, <1>8 DEF Frame
  <2>3. D - 1 <= FramesMax
    BY <1>1, <1>2, MachineAssumption
  <2>4. \A i \in 2 .. D - 1 : /\ frames'[i].base > frames'[i - 1].base
                             /\ frames'[i - 1].pc < Len(code[frames'[i - 1].fun])
    BY <1>2, <1>3, <1>9 DEF ControlOK
  <2>. QED
    BY <1>1, <1>2, <1>3, <1>4, <1>5, <1>6, <1>8, <2>1, <2>2, <2>3, <2>4 DEF ControlOK
<1>11. Started'
  <2>1. \A i \in 2 .. D - 1 : frames'[i].dst >= frames'[i].base
    BY <1>2, <1>3, <1>9 DEF Started, StackOK, D
  <2>2. frames'[1].base = 0 /\ frames'[1].dst = 0
    BY <1>1, <1>2, <1>3 DEF Started, StackOK
  <2>3. \A i \in 1 .. (D - 1) - 1 : T.inUse[frames'[i].fun][frames'[i].pc + 1]
                                   \subseteq used'[i] \cup {frames'[i + 1].dst - frames'[i].base}
    <3>. SUFFICES ASSUME NEW i \in 1 .. (D - 1) - 1
                  PROVE  T.inUse[frames'[i].fun][frames'[i].pc + 1]
                           \subseteq used'[i] \cup {frames'[i + 1].dst - frames'[i].base}
      OBVIOUS
    <3>1. i \in 1 .. D - 2 /\ i \in 1 .. D - 1 /\ i + 1 \in 1 .. D - 1
      BY <1>1
    <3>2. T.inUse[frames[i].fun][frames[i].pc + 1] \subseteq used[i] \cup {frames[i + 1].dst - frames[i].base}
      BY <1>2, <3>1 DEF Started, InUseOK, D
    <3>. QED  BY <1>3, <3>1, <3>2
  <2>. QED  BY <1>1, <1>2, <1>3, <1>4, <1>7, <1>8, <2>1, <2>2, <2>3 DEF Started, StackOK, InUseOK
<1>12. DataOK'
  <2>1. IsValue(Reg(Inst[2]), code, heap)
    BY <1>1, SourcesAreValues, ReadsAndWrites DEF Return
  <2>2. DOMAIN registers' = Register
        /\ \A r \in Register : registers'[r] = registers[r] \/ registers'[r] = Reg(Inst[2])
    BY <1>1, <1>2 DEF DataOK
  <2>. QED  BY <1>1, <1>2, <2>1, <2>2, DataStep, HeapUnchanged
<1>. QED  BY <1>1, <1>2, <1>10, <1>11, <1>12 DEF IInv, TypeOK

LEMMA ReturnToRootKeeps ==
  ASSUME IInv, ReturnToRoot
  PROVE  IInv'
<1>1. /\ outcome = "running" /\ outcome' = "returned" /\ Inst[1] = "ret"
      /\ registers' = [registers EXCEPT ![Top.dst] = Reg(Inst[2])] /\ used' = Uses(Top.dst)
      /\ UNCHANGED <<program, code, frames, pc, globals, heap, output>>
  BY DEF ReturnToRoot, Decoded
<1>2. /\ Started /\ ControlOK /\ DataOK /\ program \in Program /\ Top.dst \in Register
      /\ Depth \in 1 .. Depth /\ Len(frames) = Depth
  BY <1>1, RunFacts DEF IInv, TypeOK
<1>3. /\ used' \in Seq(SUBSET Register) /\ Len(used') = Depth
      /\ \A i \in 1 .. Depth - 1 : used'[i] = used[i]
  BY <1>1, <1>2, UsesShape
<1>4. T' = T /\ Depth' = Depth
  BY <1>1 DEF T, Depth
<1>5. ControlOK'
  BY <1>1, <1>2, <1>3 DEF ControlOK, Frame
<1>6. Started'
  BY <1>1, <1>2, <1>3, <1>4 DEF Started, StackOK, InUseOK, Refusals
<1>7. DataOK'
  <2>1. IsValue(Reg(Inst[2]), code, heap)
    BY <1>1, SourcesAreValues, ReadsAndWrites DEF ReturnToRoot
  <2>2. DOMAIN registers' = Register
        /\ \A r \in Register : registers'[r] = registers[r] \/ registers'[r] = Reg(Inst[2])
    BY <1>1, <1>2 DEF DataOK
  <2>. QED  BY <1>1, <1>2, <2>1, <2>2, DataStep, HeapUnchanged
<1>. QED  BY <1>1, <1>2, <1>5, <1>6, <1>7 DEF IInv, TypeOK

-----------------------------------------------------------------------------
(* Native calls, errors, the start *)

LEMMA CallNativeKeeps ==
  ASSUME IInv, CallNative
  PROVE  IInv'
<1>. DEFINE args == [i \in 1 .. Inst[4] |-> Finalized(Arguments[i])]
            result == NativeResult(Callee[2], args)
            v == IF IsHandle(result) THEN <<result[1], NewAddress>> ELSE result
<1>1. /\ outcome = "running" /\ Inst[1] = "call"
      /\ UNCHANGED <<program, code, frames, globals>>
  BY DEF CallNative, Decoded, Stop
<1>2. /\ Inst[2] \in Register /\ Inst[3] \in Nat /\ Inst[4] \in Nat
      /\ Successors(pc, Inst) = {pc + 1} /\ Target(Inst) = {Inst[2]}
      /\ DataOK /\ program \in Program /\ IsHeap(heap, code) /\ Top.base \in Nat
  BY <1>1, CallFacts, RunFacts DEF DataOK
<1>3. CASE /\ outcome' \in {"no_register", "panic"}
           /\ UNCHANGED <<program, code, registers, frames, pc, globals, heap, used>>
  BY <1>1, <1>3, StopKeeps DEF Endings, ErrorCodes
<1>4. CASE /\ NewBase \in Register /\ At(Inst[2]) \in Register /\ ~ IsError(result)
           /\ registers' = [r \in Register |->
                 IF r = At(Inst[2]) THEN v
                 ELSE IF r \in At(Inst[3]) + 1 .. NewBase - 1 THEN args[r - At(Inst[3])] ELSE registers[r]]
           /\ heap' = IF IsHandle(result) THEN Append(heap, result) ELSE heap
           /\ used' = Uses(Inst[2]) /\ pc' = pc + 1 /\ UNCHANGED outcome
  <2>1. ControlOK' /\ Started'
    BY <1>1, <1>2, <1>4, MoveOn
  <2>2. At(Inst[3]) \in Nat /\ NewBase = At(Inst[3]) + 1 + Inst[4]
    BY <1>2 DEF NewBase, At
  <2>3. \A i \in 1 .. Inst[4] : At(Inst[3] + i) = At(Inst[3]) + i
    BY <1>2 DEF At
  <2>4. \A i \in 1 .. Inst[4] : At(Inst[3] + i) \in Register
    <3>1. NewBase \in Nat /\ NewBase < RegisterCount
      BY <1>4, MachineAssumption DEF Register
    <3>2. \A i \in 1 .. Inst[4] : At(Inst[3]) + i \in Nat /\ At(Inst[3]) + i < RegisterCount
      BY <1>2, <2>2, <3>1, MachineAssumption
    <3>3. \A n \in Nat : n < RegisterCount => n \in Register
      BY MachineAssumption DEF Register
    <3>. QED  BY <2>3, <3>2, <3>3
  <2>5. Len(args) = Inst[4] /\ \A i \in 1 .. Inst[4] : IsValue(args[i], code, heap)
    <3>1. ASSUME NEW i \in 1 .. Inst[4]
          PROVE  IsValue(Finalized(Arguments[i]), code, heap)
      <4>1. IsValue(Reg(Inst[3] + i), code, heap)
        BY <1>1, <2>4, <3>1, RegIsValue
      <4>. QED  BY <1>2, <4>1, FinalizedIsValue DEF Arguments
    <3>. QED  BY <1>2, <3>1
  <2>. HIDE DEF args
  <2>6. \/ result = Nil
        \/ result[1] = "vec" /\ IsObject(result, code, heap)
    BY <1>2, <1>4, <2>5, NativeResultFacts DEF IsError, Error
  <2>. HIDE DEF result
  <2>7. IsHeap(heap', code) /\ Extends(heap, heap') /\ IsValue(v, code, heap')
    <3>1. CASE result = Nil
      <4>1. ~ IsHandle(result)
        BY <3>1 DEF IsHandle, Nil
      <4>. QED  BY <1>2, <1>4, <3>1, <4>1, HeapUnchanged, PlainValues
    <3>2. CASE result[1] = "vec" /\ IsObject(result, code, heap)
      <4>1. IsHandle(result) /\ heap' = Append(heap, result)
        BY <1>4, <3>2 DEF IsHandle
      <4>2. /\ IsHeap(heap', code) /\ Extends(heap, heap')
            /\ Len(heap') = Len(heap) + 1 /\ Len(heap) \in Nat /\ heap'[Len(heap) + 1] = result
        BY <1>2, <3>2, <4>1, AppendObject
      <4>3. v = <<"vec", Len(heap) + 1>>
        BY <3>2, <4>1 DEF NewAddress
      <4>4. IsValue(<<"vec", Len(heap) + 1>>, code, heap')
        BY <3>2, <4>2 DEF IsValue, IsHandle, ObjectKind
      <4>. QED  BY <4>2, <4>3, <4>4
    <3>. QED  BY <2>6, <3>1, <3>2
  <2>. HIDE DEF v
  <2>8. ASSUME NEW r \in Register
        PROVE  registers'[r] = registers[r] \/ IsValue(registers'[r], code, heap')
    <3>1. CASE r = At(Inst[2])
      BY <1>4, <2>7, <3>1
    <3>2. CASE r # At(Inst[2]) /\ r \in At(Inst[3]) + 1 .. NewBase - 1
      <4>1. r - At(Inst[3]) \in 1 .. Inst[4]
        BY <1>2, <2>2, <3>2
      <4>2. IsValue(args[r - At(Inst[3])], code, heap)
        BY <2>5, <4>1
      <4>3. registers'[r] = args[r - At(Inst[3])]
        BY <1>4, <3>2
      <4>. QED  BY <1>2, <2>7, <4>2, <4>3, ValuesStay DEF IsHeap
    <3>3. CASE r # At(Inst[2]) /\ r \notin At(Inst[3]) + 1 .. NewBase - 1
      BY <1>4, <3>3
    <3>. QED  BY <3>1, <3>2, <3>3
  <2>9. DOMAIN registers' = Register
    BY <1>4
  <2>10. DataOK'
    BY <1>1, <1>2, <2>7, <2>8, <2>9, DataStep
  <2>. QED  BY <1>1, <1>2, <2>1, <2>10 DEF IInv, TypeOK
<1>5. IsError(result) => result[2] = "panic"
  BY DEF NativeResult, IsError, Error, Nil
<1>. HIDE DEF args, result
<1>. QED  BY <1>3, <1>4, <1>5 DEF CallNative, Stop, args, result

LEMMA EndingsKeep ==
  ASSUME IInv, \/ PastLastRegister \/ CallOverflows \/ CallCopiesPastEnd \/ CallUncallable \/ Halt
  PROVE  IInv'
BY StopKeeps DEF PastLastRegister, CallOverflows, CallCopiesPastEnd, CallUncallable, Halt, Decoded, Stop, Endings

\* The only step of which the code must be known to be well formed.
LEMMA RunSourceKeeps ==
  ASSUME IInv, RunSource, outcome' = "running" => WellFormed(T)
  PROVE  IInv'
<1>1. /\ NotStarted /\ DataOK /\ ControlOK /\ program \in Program
      /\ outcome = "source" /\ outcome' = T.how
      /\ UNCHANGED <<program, registers, pc, heap, output>>
  BY DEF IInv, TypeOK, Started, RunSource, T
<1>2. outcome' \in {"running"} \cup Refusals
  BY <1>1, MachineAssumption DEF T
<1>3. CASE outcome' # "running"
  <2>1. UNCHANGED <<code, globals, frames, used>>
    BY <1>1, <1>3 DEF RunSource, T
  <2>. QED
    BY <1>1, <1>2, <1>3, <2>1 DEF IInv, TypeOK, NotStarted, DataOK, ControlOK, Frame
<1>4. CASE outcome' = "running"
  <2>. DEFINE first == [fun |-> Script, pc |-> 0, base |-> 0, dst |-> 0]
  <2>1. /\ code' = T.chunk /\ globals' = T.globals /\ frames' = <<first>> /\ used' = <<{}>>
        /\ WellFormed(T) /\ T' = T
    BY <1>1, <1>4 DEF RunSource, T
  <2>2. Script \in DOMAIN code' /\ \A g \in DOMAIN globals' : IsValue(globals'[g], code', <<>>)
    BY <2>1 DEF WellFormed
  <2>3. Len(T.chunk[Script]) \in 1 .. CodeLength /\ CanRun(T, Script, 0) /\ T.inUse[Script][1] = {}
    BY <2>1, <2>2, MachineAssumption DEF WellFormed
  <2>4. 0 \in Register /\ 0 \in 0 .. CodeLength /\ 0 < Len(T.chunk[Script])
    BY <2>3, MachineAssumption DEF Register
  <2>5. DataOK'
    <3>1. heap = <<>> /\ heap' = <<>> /\ code = <<>> /\ DOMAIN code = {}
      BY <1>1 DEF NotStarted
    <3>2. \A x : IsValue(x, code, <<>>) => IsValue(x, code', <<>>)
      BY <3>1 DEF IsValue
    <3>3. IsHeap(<<>>, code')
      BY DEF IsHeap, IsSequence
    <3>4. DOMAIN registers = Register /\ \A r \in Register : IsValue(registers[r], code, <<>>)
      BY <1>1, <3>1 DEF DataOK
    <3>. QED  BY <1>1, <2>2, <3>1, <3>2, <3>3, <3>4 DEF DataOK
  <2>6. first \in Frame'
    BY <2>2, <2>4 DEF Frame
  <2>7. Len(frames') = 1 /\ Len(used') = 1 /\ frames'[1] = first /\ Top' = first /\ frames' # <<>>
        /\ frames' \in Seq(Frame') /\ used' \in Seq(SUBSET Register)
    BY <2>1, <2>6 DEF Top, Last
  <2>8. pc = 0 /\ pc' = 0 /\ Inst' = T.chunk[Script][1] /\ Inst'[1] \in Opcodes
    BY <1>1, <2>1, <2>3, <2>7 DEF NotStarted, Inst, CanRun
  <2>9. ControlOK'
    BY <1>1, <1>4, <2>1, <2>4, <2>7, <2>8, MachineAssumption DEF ControlOK
  <2>10. Started'
    BY <1>4, <2>1, <2>3, <2>7, <2>8 DEF Started, StackOK, InUseOK, Depth, Refusals
  <2>. QED  BY <1>1, <2>5, <2>9, <2>10 DEF IInv, TypeOK
<1>. QED  BY <1>3, <1>4

LEMMA IInvInit == Init => IInv
<1>. SUFFICES ASSUME Init PROVE IInv
  OBVIOUS
<1>1. DataOK
  BY PlainValues DEF Init, DataOK, IsHeap, IsSequence
<1>2. ControlOK
  BY MachineAssumption DEF Init, ControlOK
<1>3. NotStarted
  BY DEF Init, NotStarted
<1>. QED  BY <1>1, <1>2, <1>3 DEF Init, IInv, TypeOK

-----------------------------------------------------------------------------
(* Calls, returns and endings as steps of VmCalls *)

LEMMA CallMaps ==
  ASSUME IInv, CallFunction
  PROVE  Calls!Next
<1>. DEFINE a == Inst[2]
            b == Inst[3]
            c == Inst[4]
            mapped == [r \in Register |-> Callable(registers[r])]
<1>1. /\ outcome = "running" /\ Inst[1] = "call" /\ Callee[1] = "fun"
      /\ Callee[2] \in DOMAIN code /\ Callee[2] # Script
      /\ NewBase = Top.base + b + 1 + c /\ NewBase \in Register /\ NewBase + c <= RegisterCount
      /\ At(a) = Top.base + a /\ At(a) \in Register /\ Depth + 1 <= FramesMax
  BY CallSite
<1>2. /\ Started /\ frames # <<>> /\ Top.base \in Nat /\ Depth \in Nat /\ Register \subseteq Nat
      /\ Len(frames) = Depth
  BY <1>1, RunFacts DEF Started
<1>3. /\ a \in Register /\ b \in Register /\ c \in Nat /\ a > b + c /\ b .. b + c \subseteq used[Depth]
      /\ Successors(pc, Inst) = {pc + 1} /\ Sources(Inst) = {b}
  BY <1>1, CallFacts
<1>4. CallEffect
  BY CallShape
<1>5. c \in Register /\ b \in used[Depth] /\ b \in Nat
  BY <1>2, <1>3, MachineAssumption DEF Register
<1>6. Top.base + b \in Register /\ Callee = registers[Top.base + b]
  BY <1>3, SourcesAreValues DEF CallFunction, Callee, Reg, At
<1>7. mapped[Top.base + b] = Callee[2] /\ Callee[2] \in FunctionName
  BY <1>1, <1>2, <1>6 DEF Callable, Started, WellFormed
<1>8. pc + 1 < CodeLength
  BY <1>1, <1>3, RegistersOfInst, InstFacts, MachineAssumption
<1>9. Calls!NewBase(b, c) = NewBase
  BY <1>1, <1>2, MapFacts DEF Calls!NewBase
<1>10. Calls!CallCompiled(a, b, c)
  BY <1>2, <1>3, MapFacts DEF Calls!CallCompiled
<1>11. Calls!HasRoom(b, c)
  BY <1>1, <1>2, <1>9, MapFacts, MachineAssumption DEF Calls!HasRoom, Register
<1>12. /\ frames' = Append([frames EXCEPT ![Depth].pc = pc + 1],
                           [fun |-> Callee[2], pc |-> 0, base |-> NewBase, dst |-> Top.base + a])
       /\ used' = Append([used EXCEPT ![Depth] = {r \in @ : r <= b + c}], 0 .. c - 1)
       /\ pc' = 0 /\ UNCHANGED outcome
  BY <1>1 DEF CallFunction, Depth
<1>13. mapped' = [r \in Register |-> IF r \in NewBase .. NewBase + c - 1 THEN mapped[r - c] ELSE mapped[r]]
  <2>1. \A r \in Register : r \in NewBase .. NewBase + c - 1 => r - c \in Register
    BY CopiedFromRegisters
  <2>2. registers' = [r \in Register |-> IF r \in NewBase .. NewBase + c - 1
                                            THEN registers[r - c] ELSE registers[r]]
    BY DEF CallFunction
  <2>3. ASSUME NEW r \in Register
        PROVE  mapped'[r] = IF r \in NewBase .. NewBase + c - 1 THEN mapped[r - c] ELSE mapped[r]
    BY <2>1, <2>2, <2>3
  <2>4. DOMAIN mapped' = Register
    OBVIOUS
  <2>. QED  BY <2>3, <2>4
<1>14. frames' # <<>> /\ Top'.fun = Callee[2]
  <2>1. Len(frames') = Depth + 1
    BY <1>4 DEF CallEffect, Depth
  <2>. QED  BY <1>2, <1>4, <2>1 DEF CallEffect, Top, Last
<1>15. Calls!CallFunction(a, b, c)
  <2>1. mapped' = Calls!CopyOfArguments(b, c)
    BY <1>9, <1>13, MapFacts, <1>2 DEF Calls!CopyOfArguments
  <2>2. mapped[Calls!Base + b] = Callee[2] /\ Calls!Base + a = Top.base + a /\ Calls!Depth = Depth
        /\ Calls!Register = Register
    BY <1>2, <1>7, MapFacts
  <2>. QED
    BY <1>1, <1>2, <1>7, <1>8, <1>9, <1>10, <1>11, <1>12, <1>14, <2>1, <2>2 DEF Calls!CallFunction, Ending
<1>16. Calls!Call(a, b, c)
  BY <1>15 DEF Calls!Call
<1>. HIDE DEF a, b, c
<1>. QED  BY <1>1, <1>2, <1>3, <1>5, <1>16, MapFacts DEF Calls!Next

LEMMA CallNumbers ==
  ASSUME NEW a \in Register, NEW b \in Register, NEW c \in Nat, a > b + c
  PROVE  a \in Nat /\ b \in Nat /\ c \in Register /\ b + 1 + c \in Register /\ b \in b .. b + c
BY MachineAssumption DEF Register

\* The callee and the arguments of a call, as VmCalls sees them.
LEMMA CalledAs ==
  ASSUME IInv, outcome = "running", Inst[1] = "call", At(Inst[3]) \in Register
  PROVE  /\ frames # <<>> /\ Top.base \in Nat /\ Top.base + Inst[3] \in Register
         /\ Inst[2] \in Register /\ Inst[3] \in Register /\ Inst[4] \in Register
         /\ Inst[3] \in used[Depth] /\ pc + 1 < CodeLength
         /\ Callee = registers[Top.base + Inst[3]] /\ IsValue(Callee, code, heap)
         /\ Callable(Callee) = [r \in Register |-> Callable(registers[r])][Calls!Base + Inst[3]]
         /\ Callee[1] = "fun" => Callable(Callee) \in FunctionName
         /\ Callee[1] = "native" => Callable(Callee) \in Natives
         /\ Callee[1] \notin {"fun", "native"} => Callable(Callee) \notin FunctionName \cup Natives
         /\ Calls!CallCompiled(Inst[2], Inst[3], Inst[4])
         /\ Calls!NewBase(Inst[3], Inst[4]) = NewBase
<1>1. /\ Started /\ frames # <<>> /\ Top.base \in Nat /\ Register \subseteq Nat
  BY RunFacts DEF Started
<1>2. /\ Inst[2] \in Register /\ Inst[3] \in Register /\ Inst[4] \in Nat /\ Inst[2] > Inst[3] + Inst[4]
      /\ Inst[3] .. Inst[3] + Inst[4] \subseteq used[Depth] /\ Successors(pc, Inst) = {pc + 1}
  BY CallFacts
<1>3. Inst[4] \in Register /\ Inst[3] \in used[Depth] /\ Inst[3] \in Nat
  <2>1. Inst[4] \in Register /\ Inst[3] \in Nat /\ Inst[3] \in Inst[3] .. Inst[3] + Inst[4]
    BY <1>2, CallNumbers
  <2>. QED  BY <1>2, <2>1
<1>4. pc + 1 < CodeLength
  BY <1>2, RegistersOfInst, InstFacts, MachineAssumption
<1>5. At(Inst[3]) = Top.base + Inst[3] /\ Callee = registers[Top.base + Inst[3]]
  BY DEF At, Callee, Reg
<1>6. IsValue(Callee, code, heap)
  BY RegIsValue DEF Callee
<1>7. Callable(Callee) = [r \in Register |-> Callable(registers[r])][Calls!Base + Inst[3]]
  BY <1>1, <1>5, MapFacts
<1>8. Callee[1] = "fun" => Callable(Callee) \in FunctionName
  BY <1>1, <1>6 DEF Callable, IsValue, Started, WellFormed
<1>9. Callee[1] = "native" => Callable(Callee) \in Natives
  BY <1>6 DEF Callable, IsValue
<1>10. Callee[1] \notin {"fun", "native"} => Callable(Callee) \notin FunctionName \cup Natives
  BY MachineAssumption DEF Callable, NotCallable, Natives
<1>11. Calls!CallCompiled(Inst[2], Inst[3], Inst[4])
  BY <1>1, <1>2, MapFacts DEF Calls!CallCompiled
<1>12. Calls!NewBase(Inst[3], Inst[4]) = NewBase
  BY <1>1, <1>5, MapFacts DEF Calls!NewBase, NewBase
<1>. QED
  BY <1>1, <1>2, <1>3, <1>4, <1>5, <1>6, <1>7, <1>8, <1>9, <1>10, <1>11, <1>12

LEMMA CallIsNext ==
  ASSUME frames # <<>>, outcome = "running",
         NEW a \in Register, NEW b \in used[Depth], NEW c \in Register, Calls!Call(a, b, c)
  PROVE  Calls!Next
BY MapFacts DEF Calls!Next

LEMMA NativeMaps ==
  ASSUME IInv, CallNative
  PROVE  Calls!Next
<1>. DEFINE args == [i \in 1 .. Inst[4] |-> Finalized(Arguments[i])]
            result == NativeResult(Callee[2], args)
            v == IF IsHandle(result) THEN <<result[1], NewAddress>> ELSE result
            a == Inst[2]
            b == Inst[3]
            c == Inst[4]
<1>1. /\ outcome = "running" /\ Inst[1] = "call" /\ Callee[1] = "native" /\ At(b) \in Register
      /\ UNCHANGED <<program, code, frames, globals>>
  BY CallFacts DEF CallNative, Decoded, Stop
<1>2. /\ frames # <<>> /\ Top.base \in Nat /\ Top.base + b \in Register
      /\ a \in Register /\ b \in Register /\ c \in Register /\ b \in used[Depth] /\ pc + 1 < CodeLength
      /\ Callable(Callee) = [r \in Register |-> Callable(registers[r])][Calls!Base + b]
      /\ Callable(Callee) \in Natives /\ Calls!CallCompiled(a, b, c) /\ DataOK
      /\ a > b + c /\ Top' = Top
  BY <1>1, CalledAs, CallFacts, RunFacts DEF Top, Last
<1>. DEFINE base == Top.base
<1>3. /\ a \in Nat /\ b \in Nat /\ c \in Nat /\ b + 1 + c \in Register /\ base \in Nat
      /\ At(b) = base + b /\ At(a) = base + a /\ NewBase = base + b + 1 + c
  <2>1. c \in Nat
    BY <1>1, CallFacts
  <2>. QED  BY <1>2, <2>1, CallNumbers DEF At, NewBase
<1>. HIDE DEF a, b, c, base
<1>4. CASE outcome' = "no_register" /\ NewBase \notin Register /\ UNCHANGED <<registers, pc, used>>
  <2>1. NewBase = base + (b + 1 + c)
    BY <1>3
  <2>. QED  BY <1>1, <1>2, <1>4, <1>3, <2>1, MapsToPastLastRegister DEF base
<1>5. CASE outcome' = "no_register" /\ At(a) \notin Register /\ UNCHANGED <<registers, pc, used>>
  BY <1>1, <1>2, <1>5, <1>3, MapsToPastLastRegister DEF base
<1>6. CASE /\ NewBase \in Register /\ At(a) \in Register /\ ~ IsError(result)
           /\ registers' = [r \in Register |->
                 IF r = At(a) THEN v
                 ELSE IF r \in At(b) + 1 .. NewBase - 1 THEN args[r - At(b)] ELSE registers[r]]
           /\ used' = Uses(a) /\ pc' = pc + 1 /\ UNCHANGED outcome
  <2>. DEFINE mapped == [r \in Register |-> Callable(registers[r])]
  <2>. HIDE DEF args
  <2>1. At(b) = base + b /\ At(a) = base + a /\ NewBase - 1 = base + b + c /\ At(b) \in Nat
    BY <1>3
  <2>2. ASSUME NEW r \in Register, r \in At(b) + 1 .. NewBase - 1
        PROVE  Callable(args[r - At(b)]) = Callable(registers[r])
    <3>1. r - At(b) \in 1 .. c /\ base + (b + (r - At(b))) = r
      <4>1. r \in Int /\ base + b + 1 <= r /\ r <= base + b + c
        BY <1>3, <2>1, <2>2
      <4>. QED  BY <1>3, <2>1, <4>1
    <3>2. args[r - At(b)] = Finalized(Reg(b + (r - At(b))))
      BY <3>1 DEF Arguments, args, b, c
    <3>3. Reg(b + (r - At(b))) = registers[r]
      BY <3>1 DEF Reg, At, base
    <3>4. IsValue(registers[r], code, heap)
      BY <1>2 DEF DataOK
    <3>5. Callable(Finalized(registers[r])) = Callable(registers[r])
      <4>1. CASE registers[r][1] = "builder"
        BY <3>4, <4>1 DEF Finalized, Callable, IsValue, IsHandle, ObjectKind
      <4>2. CASE registers[r][1] # "builder"
        BY <4>2 DEF Finalized
      <4>. QED  BY <4>1, <4>2
    <3>. QED  BY <3>2, <3>3, <3>5
  <2>3. Callable(v) = NotCallable
    <3>1. result = Nil \/ result[1] = "vec"
      BY <1>6 DEF NativeResult, IsError, Error
    <3>. QED  BY <3>1 DEF Callable, Nil, IsHandle
  <2>. HIDE DEF v
  <2>4. ASSUME NEW r \in Register
        PROVE  mapped'[r] = IF r = base + a THEN NotCallable
                            ELSE IF r \in base + b + 1 .. base + b + c THEN SameCallable[mapped[r]]
                            ELSE mapped[r]
    <3>1. mapped[r] \in Callables
      <4>1. IsValue(registers[r], code, heap)
        BY <1>2 DEF DataOK
      <4>2. DOMAIN code \ {Script} \subseteq FunctionName
        BY <1>1, RunFacts DEF Started, WellFormed
      <4>. QED  BY <4>1, <4>2 DEF Callable, Callables, IsValue
    <3>2. SameCallable[mapped[r]] = mapped[r]
      BY <3>1 DEF SameCallable
    <3>3. mapped'[r] = Callable(registers'[r])
      OBVIOUS
    <3>. QED  BY <1>6, <2>1, <2>2, <2>3, <3>2, <3>3
  <2>5. mapped' = [r \in Register |->
                     IF r = base + a THEN NotCallable
                     ELSE IF r \in base + b + 1 .. base + b + c THEN SameCallable[mapped[r]]
                     ELSE mapped[r]]
    BY <2>4
  <2>6. Calls!CallNative(a, b, c, NotCallable)
    <3>1. Calls!Base = base /\ Calls!Register = Register /\ Calls!Use(a) = Uses(a)
      BY <1>2, MapFacts DEF base
    <3>2. mapped[base + b] \in Natives
      BY <1>2, <3>1 DEF b
    <3>. QED  BY <1>1, <1>2, <1>6, <1>3, <2>5, <3>1, <3>2 DEF Calls!CallNative, Ending
  <2>7. NotCallable \in Callables
    BY DEF Callables
  <2>8. Calls!Call(a, b, c)
    BY <2>6, <2>7 DEF Calls!Call
  <2>. QED  BY <1>1, <1>2, <2>8, CallIsNext
<1>7. CASE outcome' = "panic" /\ UNCHANGED <<registers, pc, used>>
  BY <1>1, <1>2, <1>7, MapsToFails DEF ErrorCodes
<1>8. IsError(result) => result[2] = "panic"
  BY DEF NativeResult, IsError, Error, Nil
<1>. HIDE DEF args, result, v
<1>. QED  BY <1>1, <1>4, <1>5, <1>6, <1>7, <1>8 DEF CallNative, Stop, a, b, c, args, result, v

LEMMA EndingsMap ==
  ASSUME IInv, \/ PastLastRegister \/ CallOverflows \/ CallCopiesPastEnd \/ CallUncallable \/ Halt
  PROVE  Calls!Next
<1>1. outcome = "running" /\ frames # <<>> /\ UNCHANGED <<registers, frames, pc, used>>
  BY RunFacts DEF PastLastRegister, CallOverflows, CallCopiesPastEnd, CallUncallable, Halt, Decoded, Stop, Started
<1>2. CASE PastLastRegister
  <2>1. PICK r \in Sources(Inst) : At(r) \notin Register
    BY <1>2 DEF PastLastRegister
  <2>2. r \in Register /\ outcome' = "no_register"
    BY <1>1, <1>2, RegistersOfInst DEF PastLastRegister, Stop
  <2>. QED  BY <1>1, <2>1, <2>2, MapsToPastLastRegister DEF At
<1>3. CASE CallOverflows
  <2>1. Inst[1] = "call" /\ Callee[1] = "fun" /\ At(Inst[3]) \in Register /\ ~ HasRoom /\ outcome' = "r006"
    BY <1>1, <1>3, CallFacts DEF CallOverflows, Decoded, Stop
  <2>2. ~ Calls!HasRoom(Inst[3], Inst[4])
    BY <1>1, <2>1, CalledAs, MapFacts DEF HasRoom, Calls!HasRoom, Depth
  <2>3. Ending' = "r006"
    BY <2>1 DEF Ending
  <2>4. Calls!CallOverflows(Inst[2], Inst[3], Inst[4])
    BY <1>1, <2>1, <2>2, <2>3, CalledAs, MapsToStop DEF Calls!CallOverflows
  <2>. QED  BY <1>1, <2>1, <2>4, CalledAs, CallIsNext DEF Calls!Call
<1>4. CASE CallCopiesPastEnd
  <2>1. /\ Inst[1] = "call" /\ Callee[1] = "fun" /\ At(Inst[3]) \in Register
        /\ HasRoom /\ ~ CopiesFit /\ outcome' = "no_register"
    BY <1>1, <1>4, CallFacts DEF CallCopiesPastEnd, Decoded, Stop
  <2>2. CASE At(Inst[2]) \notin Register
    BY <1>1, <2>1, <2>2, CalledAs, MapsToPastLastRegister DEF At
  <2>3. CASE At(Inst[2]) \in Register
    <3>1. NewBase \in Nat /\ Inst[4] \in Nat
      BY <1>1, <2>1, CalledAs, RunFacts DEF NewBase, At
    <3>2. NewBase + Inst[4] > RegisterCount
      BY <2>1, <2>3, <3>1, MachineAssumption DEF CopiesFit
    <3>3. Calls!HasRoom(Inst[3], Inst[4])
      BY <1>1, <2>1, CalledAs, MapFacts DEF HasRoom, Calls!HasRoom, Depth
    <3>4. Ending' = "panic"
      BY <2>1 DEF Ending, ErrorCodes
    <3>5. Calls!CallCopiesPastEnd(Inst[2], Inst[3], Inst[4])
      BY <1>1, <2>1, <3>2, <3>3, <3>4, CalledAs, MapsToStop DEF Calls!CallCopiesPastEnd
    <3>. QED  BY <1>1, <2>1, <3>5, CalledAs, CallIsNext DEF Calls!Call
  <2>. QED  BY <2>2, <2>3
<1>5. CASE CallUncallable
  <2>1. /\ Inst[1] = "call" /\ Callee[1] \notin {"fun", "native"} /\ At(Inst[3]) \in Register
        /\ outcome' = "r007"
    BY <1>1, <1>5, CallFacts DEF CallUncallable, Decoded, Stop
  <2>2. Ending' = "r007"
    BY <2>1 DEF Ending
  <2>3. Calls!CallUncallable(Inst[2], Inst[3], Inst[4])
    BY <1>1, <2>1, <2>2, CalledAs, MapsToStop DEF Calls!CallUncallable
  <2>. QED  BY <1>1, <2>1, <2>3, CalledAs, CallIsNext DEF Calls!Call
<1>6. CASE Halt
  <2>1. Inst[1] = "halt" /\ outcome' = "halted"
    BY <1>6 DEF Halt, Decoded, Stop
  <2>2. Top.fun = Script
    BY <1>1, <2>1, InstFacts DEF CanRun
  <2>3. Ending' = "halted"
    BY <2>1 DEF Ending
  <2>4. Calls!Halt
    BY <1>1, <2>2, <2>3, MapsToStop DEF Calls!Halt
  <2>. QED  BY <1>1, <2>4, MapFacts DEF Calls!Next
<1>. QED  BY <1>2, <1>3, <1>4, <1>5, <1>6

LEMMA ReturnMaps ==
  ASSUME IInv, Return
  PROVE  Calls!Next
<1>. DEFINE mapped == [r \in Register |-> Callable(registers[r])]
            d == Inst[2]
<1>1. /\ outcome = "running" /\ Inst[1] = "ret" /\ Len(frames) > 1
      /\ frames' = Front(frames) /\ pc' = frames[Depth - 1].pc
      /\ registers' = [registers EXCEPT ![Top.dst] = Reg(d)]
      /\ used' = [Front(used) EXCEPT ![Depth - 1] = @ \cup {Top.dst - frames[Depth - 1].base}]
      /\ UNCHANGED outcome
  BY DEF Return, Decoded, Depth
<1>2. /\ frames # <<>> /\ Depth \in Nat /\ Depth >= 2 /\ Top = frames[Depth] /\ DataOK /\ Top.dst \in Register
      /\ Len(frames) = Depth /\ ReturnEffect
  BY <1>1, RunFacts, ReturnShape DEF Started
<1>3. d \in Register /\ Top.base + d \in Register /\ Reg(d) = registers[Top.base + d]
  <2>1. d \in Sources(Inst)
    BY <1>1, ReadsAndWrites
  <2>. QED  BY <1>1, <2>1, SourcesAreValues, RegistersOfInst DEF Return, Reg, At
<1>4. Front(frames) = Calls!Pop(frames) /\ Front(used) = Calls!Pop(used)
  BY DEF Front, Calls!Pop
<1>5. frames' # <<>> /\ Top'.fun = frames[Depth - 1].fun
  <2>1. Len(frames') = Depth - 1 /\ Depth - 1 \in 1 .. Depth - 1
    BY <1>2 DEF ReturnEffect, Depth
  <2>2. frames'[Depth - 1] = frames[Depth - 1] /\ Len(frames') # 0
    BY <1>2, <2>1 DEF ReturnEffect
  <2>. QED  BY <2>1, <2>2 DEF Top, Last
<1>. HIDE DEF d
<1>6. mapped' = [mapped EXCEPT ![Top.dst] = mapped[Top.base + d]]
  <2>1. ASSUME NEW r \in Register
        PROVE  mapped'[r] = IF r = Top.dst THEN mapped[Top.base + d] ELSE mapped[r]
    BY <1>1, <1>2, <1>3 DEF DataOK
  <2>. QED  BY <2>1
<1>7. Calls!Depth = Depth /\ Calls!Base = Top.base /\ Calls!Register = Register
  BY <1>2, MapFacts
<1>8. Calls!Return(d)
  BY <1>1, <1>2, <1>3, <1>4, <1>5, <1>6, <1>7 DEF Calls!Return, Ending
<1>. QED  BY <1>1, <1>2, <1>3, <1>8, MapFacts DEF Calls!Next

LEMMA ReturnToRootMaps ==
  ASSUME IInv, ReturnToRoot
  PROVE  Calls!Next
<1>. DEFINE mapped == [r \in Register |-> Callable(registers[r])]
            d == Inst[2]
<1>1. /\ outcome = "running" /\ Inst[1] = "ret" /\ Len(frames) = 1 /\ outcome' = "returned"
      /\ registers' = [registers EXCEPT ![Top.dst] = Reg(d)] /\ used' = Uses(Top.dst)
      /\ UNCHANGED <<frames, pc>>
  BY DEF ReturnToRoot, Decoded
<1>2. frames # <<>> /\ Top = frames[1] /\ Top' = Top /\ DataOK /\ Top.dst \in Register /\ Depth = 1
  BY <1>1, RunFacts DEF Started, Top, Last, Depth
<1>3. d \in Register /\ Top.base + d \in Register /\ Reg(d) = registers[Top.base + d]
  <2>1. d \in Sources(Inst)
    BY <1>1, ReadsAndWrites
  <2>. QED  BY <1>1, <2>1, SourcesAreValues, RegistersOfInst DEF ReturnToRoot, Reg, At
<1>. HIDE DEF d
<1>4. mapped' = [mapped EXCEPT ![Top.dst] = mapped[Top.base + d]]
  <2>1. ASSUME NEW r \in Register
        PROVE  mapped'[r] = IF r = Top.dst THEN mapped[Top.base + d] ELSE mapped[r]
    BY <1>1, <1>2, <1>3 DEF DataOK
  <2>. QED  BY <2>1
<1>5. Ending' = "returned"
  BY <1>1 DEF Ending
<1>6. Calls!ReturnToRoot(d)
  BY <1>1, <1>2, <1>3, <1>4, <1>5, MapFacts DEF Calls!ReturnToRoot
<1>. QED  BY <1>1, <1>2, <1>3, <1>6, MapFacts DEF Calls!Next

\* The start of the top-level code is no step of VmCalls; a source that is refused has failed.
LEMMA RunSourceMaps ==
  ASSUME IInv, RunSource
  PROVE  Calls!Next \/ UNCHANGED Calls!vars
<1>1. /\ NotStarted /\ outcome = "source" /\ outcome' = Translation(program).how /\ program \in Program
      /\ UNCHANGED <<registers, pc>>
  BY DEF IInv, TypeOK, Started, RunSource
<1>2. outcome' \in {"running"} \cup Refusals
  BY <1>1, MachineAssumption
<1>3. CASE outcome' # "running"
  <2>1. frames = <<>> /\ UNCHANGED <<frames, used>> /\ Ending' = "error" /\ Ending = "running"
    BY <1>1, <1>2, <1>3 DEF RunSource, NotStarted, Ending, Refusals
  <2>2. Calls!Fails
    BY <1>1, <2>1 DEF Calls!Fails, Calls!Stop
  <2>. QED  BY <2>1, <2>2 DEF Calls!Next
<1>4. CASE outcome' = "running"
  <2>1. frames = <<>> /\ frames' = BeforeCode /\ used' = <<{}>> /\ Ending' = "running" /\ Ending = "running"
    BY <1>1, <1>4 DEF RunSource, NotStarted, BeforeCode, Ending
  <2>2. frames' # <<>> /\ Top'.fun = Script
    BY <2>1 DEF BeforeCode, Top, Last
  <2>. QED  BY <1>1, <2>1, <2>2 DEF Calls!vars
<1>. QED  BY <1>3, <1>4

LEMMA InitMaps == Init => Calls!Init
<1>. SUFFICES ASSUME Init PROVE Calls!Init
  OBVIOUS
<1>1. /\ frames = <<>> /\ registers = [r \in Register |-> Nil] /\ pc = 0 /\ Ending = "running"
  BY DEF Init, Ending
<1>2. Callable(Nil) = NotCallable /\ NotCallable \in Callables
  BY DEF Callable, Nil, Callables
<1>3. 0 \in 0 .. RegisterCount - 1 /\ 0 .. 0 - 1 = {} /\ Script \in Calls!Code
  BY MachineAssumption DEF Calls!Code
<1>. QED  BY <1>1, <1>2, <1>3 DEF Calls!Init, BeforeCode, Register, Calls!Register

-----------------------------------------------------------------------------
(* A machine that runs well-formed code stays inside what it was given *)

LEMMA IInvStep ==
  ASSUME IInv, [Next]_vars, [(outcome = "source" /\ outcome' = "running") => WellFormed(Translation(program))]_vars
  PROVE  IInv'
<1>1. CASE UNCHANGED vars
  BY <1>1 DEF vars, IInv, TypeOK, DataOK, ControlOK, Frame, NotStarted, Started, StackOK, InUseOK,
              T, Depth, Top, Inst, Last
<1>2. CASE Next
  <2>1. CASE RunSource
    <3>1. outcome = "source" /\ (outcome' = "running" => WellFormed(T))
      BY <2>1 DEF RunSource, vars, T
    <3>. QED  BY <2>1, <3>1, RunSourceKeeps
  <2>2. CASE PastLastRegister \/ CallOverflows \/ CallCopiesPastEnd \/ CallUncallable \/ Halt
    BY <2>2, EndingsKeep
  <2>3. CASE LoadConst \/ LoadLocal \/ StoreLocal \/ LoadGlobal \/ StoreGlobal
    BY <2>3, LoadsAndStores
  <2>4. CASE BinaryOp \/ UnaryOp \/ Jump \/ JumpIfFalse
    BY <2>4, Operators
  <2>5. CASE ConcatStrings
    BY <2>5, Concat
  <2>6. CASE NewVec \/ NewStruct \/ VecSet \/ StructSet \/ IndexGet \/ IndexLen \/ GetField
    BY <2>6, Objects
  <2>7. CASE CallFunction
    BY <2>7, CallKeeps
  <2>8. CASE CallNative
    BY <2>8, CallNativeKeeps
  <2>9. CASE Return
    BY <2>9, ReturnKeeps
  <2>10. CASE ReturnToRoot
    BY <2>10, ReturnToRootKeeps
  <2>. QED
    BY <1>2, <2>1, <2>2, <2>3, <2>4, <2>5, <2>6, <2>7, <2>8, <2>9, <2>10 DEF Next
<1>. QED  BY <1>1, <1>2

LEMMA InvariantHolds == Spec /\ RunsWellFormedCode => []IInv
BY IInvInit, IInvStep, PTL DEF Spec, RunsWellFormedCode

\* Every value, handle, object, frame and pc stays what it must be, for any programs:
\* no run reads a register, an instruction, an object or a saved frame that is not there.
THEOREM TypeCorrect == Spec /\ RunsWellFormedCode => []TypeOK
<1>1. IInv => TypeOK
  BY DEF IInv
<1>. QED  BY <1>1, InvariantHolds, PTL

-----------------------------------------------------------------------------
(* No step writes below the frame it runs in *)

LEMMA CallKeepsBelow ==
  ASSUME IInv, CallFunction
  PROVE  KeepsBelow
<1>1. NewBase > Top.base /\ NewBase \in Nat /\ Top.base \in Nat /\ Register \subseteq Nat
  BY CallSite, RunFacts
<1>2. \A q \in Register : q \notin NewBase .. NewBase + Inst[4] - 1 => registers'[q] = registers[q]
  BY DEF CallFunction
<1>. QED  BY <1>1, <1>2 DEF KeepsBelow

LEMMA NativeKeepsBelow ==
  ASSUME IInv, CallNative
  PROVE  KeepsBelow
<1>1. /\ outcome = "running" /\ Inst[2] \in Nat /\ Inst[3] \in Nat /\ Top.base \in Nat /\ Register \subseteq Nat
  BY CallFacts, RunFacts DEF CallNative, Decoded
<1>2. At(Inst[2]) >= Top.base /\ At(Inst[3]) >= Top.base /\ At(Inst[2]) \in Nat /\ At(Inst[3]) \in Nat
  BY <1>1 DEF At
<1>3. \A q \in Register : q # At(Inst[2]) /\ q \notin At(Inst[3]) + 1 .. NewBase - 1 => registers'[q] = registers[q]
  BY DEF CallNative, Stop
<1>. QED  BY <1>1, <1>2, <1>3 DEF KeepsBelow

LEMMA ReturnKeepsBelow ==
  ASSUME IInv, Return \/ ReturnToRoot
  PROVE  KeepsBelow
<1>1. outcome = "running" /\ registers' = [registers EXCEPT ![Top.dst] = Reg(Inst[2])]
  BY DEF Return, ReturnToRoot, Decoded
<1>2. /\ DataOK /\ Register \subseteq Nat /\ Top.base \in Nat /\ Top.dst \in Register /\ Top = frames[Depth]
      /\ Started /\ Depth \in 1 .. FramesMax
  BY <1>1, RunFacts
<1>3. Top.dst >= Top.base
  <2>1. CASE Depth = 1
    BY <1>2, <2>1 DEF Started, StackOK
  <2>2. CASE Depth # 1
    <3>1. Depth \in 2 .. Depth
      BY <1>2, <2>2, MachineAssumption
    <3>. QED  BY <1>2, <3>1 DEF Started, StackOK
  <2>. QED  BY <2>1, <2>2
<1>. QED  BY <1>1, <1>2, <1>3, WriteKeepsBelow

LEMMA StepsKeepBelow == IInv /\ Next => KeepsBelow
<1>. SUFFICES ASSUME IInv, Next PROVE KeepsBelow
  OBVIOUS
<1>1. CASE RunSource
  BY <1>1 DEF RunSource, KeepsBelow
<1>2. CASE PastLastRegister \/ CallOverflows \/ CallCopiesPastEnd \/ CallUncallable \/ Halt
  BY <1>2 DEF PastLastRegister, CallOverflows, CallCopiesPastEnd, CallUncallable, Halt, Stop, KeepsBelow
<1>. QED
  BY <1>1, <1>2, LoadsAndStores, Operators, Concat, Objects, CallKeepsBelow, NativeKeepsBelow, ReturnKeepsBelow
     DEF Next

-----------------------------------------------------------------------------
(* The machine implements VmCalls, and with it activations that have registers *)
(* of their own                                                                *)

LEMMA StepsAreCalls == IInv /\ [Next]_vars => [Calls!Next]_(Calls!vars)
<1>. SUFFICES ASSUME IInv, [Next]_vars PROVE Calls!Next \/ UNCHANGED Calls!vars
  OBVIOUS
<1>1. CASE UNCHANGED vars
  BY <1>1 DEF vars, Calls!vars, Top, Last, Ending
<1>2. CASE Next
  <2>1. CASE RunSource
    BY <2>1, RunSourceMaps
  <2>2. CASE PastLastRegister \/ CallOverflows \/ CallCopiesPastEnd \/ CallUncallable \/ Halt
    BY <2>2, EndingsMap
  <2>3. CASE LoadConst \/ LoadLocal \/ StoreLocal \/ LoadGlobal \/ StoreGlobal
    BY <2>3, LoadsAndStores
  <2>4. CASE BinaryOp \/ UnaryOp \/ Jump \/ JumpIfFalse
    BY <2>4, Operators
  <2>5. CASE ConcatStrings
    BY <2>5, Concat
  <2>6. CASE NewVec \/ NewStruct \/ VecSet \/ StructSet \/ IndexGet \/ IndexLen \/ GetField
    BY <2>6, Objects
  <2>7. CASE CallFunction
    BY <2>7, CallMaps
  <2>8. CASE CallNative
    BY <2>8, NativeMaps
  <2>9. CASE Return
    BY <2>9, ReturnMaps
  <2>10. CASE ReturnToRoot
    BY <2>10, ReturnToRootMaps
  <2>. QED
    BY <1>2, <2>1, <2>2, <2>3, <2>4, <2>5, <2>6, <2>7, <2>8, <2>9, <2>10 DEF Next
<1>. QED  BY <1>1, <1>2

\* Every run of a program is a run of VmCalls, whose calls find callee and arguments next
\* to each other in registers that were written, and have their result above them.
THEOREM CallsRefined == Spec /\ RunsWellFormedCode => ImplementsCalls
BY InitMaps, StepsAreCalls, InvariantHolds, PTL DEF Spec, ImplementsCalls, Calls!Spec

\* The theorems about VmCalls, of the calls of a machine.
P == INSTANCE VmCallsProofs WITH
  Fun <- FunctionName, Native <- Natives, Script <- Script, Value <- Callables, Nil <- NotCallable,
  Plain <- SameCallable,
  registers <- [r \in Register |-> Callable(registers[r])],
  frames <- IF frames = <<>> THEN BeforeCode ELSE frames,
  code <- IF frames = <<>> THEN Script ELSE Top.fun,
  used <- IF frames = <<>> THEN <<{}>> ELSE used,
  outcome <- Ending

LEMMA CallsAssumption == P!VmAssumption
<1>1. Script \notin Callables
  BY MachineAssumption DEF Callables, Script, Natives, NotCallable
<1>2. FunctionName \cap Natives = {}
  BY MachineAssumption
<1>. QED  BY <1>1, <1>2, MachineAssumption DEF P!VmAssumption, Callables, SameCallable

LEMMA SameInit == Calls!Init => P!Init
BY DEF Calls!Init, P!Init, Calls!Code, P!Code, Calls!Register, P!Register

LEMMA SameVars == UNCHANGED Calls!vars => UNCHANGED P!vars
BY DEF Calls!vars, P!vars

LEMMA SameNames ==
  /\ Calls!Register = P!Register /\ Calls!Position = P!Position
  /\ Calls!Depth = P!Depth /\ Calls!Base = P!Base
  /\ \A r : Calls!Use(r) = P!Use(r)
  /\ \A b, c : Calls!NewBase(b, c) = P!NewBase(b, c)
  /\ \A s : Calls!Pop(s) = P!Pop(s)
BY DEF Calls!Register, P!Register, Calls!Position, P!Position, Calls!Depth, P!Depth, Calls!Base, P!Base,
       Calls!Use, P!Use, Calls!NewBase, P!NewBase, Calls!Pop, P!Pop

LEMMA SameNext == Calls!Next => P!Next
<1>1. \A how : Calls!Stop(how) = P!Stop(how)
  BY DEF Calls!Stop, P!Stop
<1>2. \A r, v : Calls!Compute(r, v) => P!Compute(r, v)
  BY SameNames DEF Calls!Compute, P!Compute
<1>3. \A p : Calls!Jump(p) => P!Jump(p)
  BY DEF Calls!Jump, P!Jump
<1>4. \A r : Calls!PastLastRegister(r) => P!PastLastRegister(r)
  BY <1>1, SameNames DEF Calls!PastLastRegister, P!PastLastRegister
<1>5. (Calls!Fails => P!Fails) /\ (Calls!Halt => P!Halt)
  BY <1>1 DEF Calls!Fails, P!Fails, Calls!Halt, P!Halt
<1>6. \A d : Calls!ReturnToRoot(d) => P!ReturnToRoot(d)
  BY SameNames DEF Calls!ReturnToRoot, P!ReturnToRoot
<1>7. \A d : Calls!Return(d) => P!Return(d)
  BY SameNames DEF Calls!Return, P!Return
<1>8. \A a, b, c : Calls!Call(a, b, c) => P!Call(a, b, c)
  <2>. SUFFICES ASSUME NEW a, NEW b, NEW c, Calls!Call(a, b, c)
                PROVE  P!Call(a, b, c)
    OBVIOUS
  <2>0. (Calls!CallCompiled(a, b, c) => P!CallCompiled(a, b, c)) /\ Calls!HasRoom(b, c) = P!HasRoom(b, c)
    BY SameNames DEF Calls!CallCompiled, P!CallCompiled, Calls!HasRoom, P!HasRoom
  <2>1. CASE Calls!CallFunction(a, b, c)
    <3>1. Calls!CopyOfArguments(b, c) = P!CopyOfArguments(b, c)
      BY SameNames DEF Calls!CopyOfArguments, P!CopyOfArguments
    <3>2. P!CallFunction(a, b, c)
      BY <2>0, <2>1, <3>1, SameNames DEF Calls!CallFunction, P!CallFunction
    <3>. QED  BY <3>2 DEF P!Call
  <2>2. CASE Calls!CallOverflows(a, b, c)
    BY <1>1, <2>0, <2>2, SameNames DEF Calls!CallOverflows, P!CallOverflows, P!Call
  <2>3. CASE Calls!CallCopiesPastEnd(a, b, c)
    BY <1>1, <2>0, <2>3, SameNames DEF Calls!CallCopiesPastEnd, P!CallCopiesPastEnd, P!Call
  <2>4. CASE \E v \in Callables : Calls!CallNative(a, b, c, v)
    <3>1. PICK v \in Callables : Calls!CallNative(a, b, c, v)
      BY <2>4
    <3>2. P!CallNative(a, b, c, v)
      BY <2>0, <3>1, SameNames DEF Calls!CallNative, P!CallNative
    <3>. QED  BY <3>2 DEF P!Call
  <2>5. CASE Calls!CallUncallable(a, b, c)
    BY <1>1, <2>0, <2>5, SameNames DEF Calls!CallUncallable, P!CallUncallable, P!Call
  <2>. QED  BY <2>1, <2>2, <2>3, <2>4, <2>5 DEF Calls!Call
<1>. QED  BY <1>2, <1>3, <1>4, <1>5, <1>6, <1>7, <1>8, SameNames DEF Calls!Next, P!Next

LEMMA RunsAreCalls == Spec /\ RunsWellFormedCode => P!Spec
<1>1. Init => P!Init
  BY InitMaps, SameInit
<1>2. IInv /\ [Next]_vars => [P!Next]_(P!vars)
  <2>1. [Calls!Next]_(Calls!vars) => [P!Next]_(P!vars)
    BY SameNext, SameVars
  <2>. QED  BY <2>1, StepsAreCalls
<1>. QED  BY <1>1, <1>2, InvariantHolds, PTL DEF Spec, P!Spec

\* An activation finds its registers as it left them, at any depth and for any programs:
\* the windows of VmCalls are apart, and a step writes at or above the frame it runs in.
THEOREM CallersKeepTheirRegisters == Spec /\ RunsWellFormedCode => CallerKeepsRegisters
<1>. DEFINE Keeps == \A i \in 1 .. Len(frames) - 1 : \A r \in used[i] :
                       registers'[frames[i].base + r] = registers[frames[i].base + r]
<1>1. P!Spec => []P!WindowInv
  BY CallsAssumption, P!WindowsNeverOverlap
<1>2. IInv /\ P!WindowInv /\ [Next]_vars => [Keeps]_vars
  <2>. SUFFICES ASSUME IInv, P!WindowInv, Next, NEW i \in 1 .. Len(frames) - 1, NEW r \in used[i]
                PROVE  registers'[frames[i].base + r] = registers[frames[i].base + r]
    OBVIOUS
  <2>1. frames # <<>> /\ Len(frames) \in Nat /\ Top = frames[Len(frames)]
    BY DEF IInv, TypeOK, ControlOK, Top, Last
  <2>2. i \in 1 .. Len(frames) /\ Len(frames) \in 1 .. Len(frames) /\ i < Len(frames)
    BY <2>1
  <2>3. P!Depth = Len(frames)
    BY <2>1 DEF P!Depth
  <2>4. frames[i].base + r < Top.base /\ frames[i].base + r \in Register
    <3>1. P!WindowsApart /\ P!FrameInv
      BY DEF P!WindowInv
    <3>2. frames[i].base + r < frames[Len(frames)].base
      BY <2>1, <2>2, <2>3, <3>1 DEF P!WindowsApart
    <3>3. frames[i].base + r \in Register
      BY <2>1, <2>2, <2>3, <3>1 DEF P!FrameInv, P!Register, Register
    <3>. QED  BY <2>1, <3>2, <3>3
  <2>. QED  BY <2>4, StepsKeepBelow DEF KeepsBelow
<1>. QED  BY <1>1, <1>2, RunsAreCalls, InvariantHolds, PTL DEF Spec, CallerKeepsRegisters

\* A compiled program runs as if each activation had registers of its own: what a call
\* computes depends on the callee and its arguments, and changes the caller's result only.
THEOREM ActivationsArePrivate == Spec /\ RunsWellFormedCode => P!ImplementsActivations
BY CallsAssumption, P!CallsImplementActivations, RunsAreCalls, PTL
=============================================================================
