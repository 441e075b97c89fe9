------------------------------- MODULE Values -------------------------------
(***************************************************************************)
(* The values of m4, what its operators compute (the arithmetic,           *)
(* comparison and indexing of src/compiler/vm.zig) and what the native     *)
(* functions return.  A value is a pair of its kind and its contents.      *)
(* Floats are left out.  An error is the value <<"error", its code>>.      *)
(***************************************************************************)
EXTENDS Integers, SequencesExt

CONSTANT IntMax \* the largest integer; the source has 2^63 - 1

ASSUME IntMaxAssumption == IntMax \in Nat

\* The name of the top-level code, next to the names of functions: no identifier.
Script == "top level"

Nil == <<"nil">>
IntV(n) == <<"int", n>>
BoolV(b) == <<"bool", b>>
StrV(s) == <<"str", s>> \* s is a sequence of letters

Error(code) == <<"error", code>>
IsError(v) == v[1] = "error"

IsInt(v) == v[1] = "int"

Truthy(v) == CASE v[1] = "nil"  -> FALSE
               [] v[1] = "bool" -> v[2]
               [] v[1] = "int"  -> v[2] # 0
               [] OTHER         -> TRUE

\* Vectors and structs are compared by identity: what stands for their contents
\* is then the address.
SameValue(a, b) == a[1] = b[1] /\ (a[1] = "nil" \/ a[2] = b[2])

Comes(s, t) == \/ IsStrictPrefix(s, t)
               \/ \E i \in DOMAIN s \cap DOMAIN t :
                    s[i] < t[i] /\ \A j \in 1 .. i - 1 : s[j] = t[j]

Less(a, b) == CASE IsInt(a) /\ IsInt(b)           -> BoolV(a[2] < b[2])
                [] a[1] = "str" /\ b[1] = "str" -> BoolV(Comes(a[2], b[2]))
                [] OTHER                         -> Error("r005")

\* The integers there are, and a result that may not be one of them.
Representable == (-IntMax) - 1 .. IntMax
InRange(n) == IF n \in Representable THEN IntV(n) ELSE Error("r017")

\* Division rounds towards zero.
Quotient(m, n) == LET q == (IF m < 0 THEN -m ELSE m) \div (IF n < 0 THEN -n ELSE n)
                  IN  IF (m < 0) = (n < 0) THEN q ELSE -q

\* The remainder has the sign of the divisor.
Remainder(m, n) == IF n > 0 THEN m % n ELSE - ((- m) % (- n))

Arithmetic(op, a, b) ==
  IF ~ (IsInt(a) /\ IsInt(b)) THEN Error(IF op = "mod" THEN "r003" ELSE "r002")
  ELSE CASE op = "add" -> InRange(a[2] + b[2])
         [] op = "sub" -> InRange(a[2] - b[2])
         [] op = "mul" -> InRange(a[2] * b[2])
         [] op = "div" -> IF b[2] = 0 THEN Error("r012") ELSE InRange(Quotient(a[2], b[2]))
         [] op = "mod" -> IF b[2] = 0 THEN Error("r013") ELSE IntV(Remainder(a[2], b[2]))

Negation(v) == IF IsError(v) THEN v ELSE BoolV(~ v[2])

BinaryResult(op, a, b) ==
  CASE op = "and" -> BoolV(Truthy(a) /\ Truthy(b))
    [] op = "or"  -> BoolV(Truthy(a) \/ Truthy(b))
    [] op = "eq"  -> BoolV(SameValue(a, b))
    [] op = "neq" -> BoolV(~ SameValue(a, b))
    [] op = "lt"  -> Less(a, b)
    [] op = "gt"  -> Less(b, a)
    [] op = "lte" -> Negation(Less(b, a))
    [] op = "gte" -> Negation(Less(a, b))
    [] op = "add" /\ a[1] = "str" /\ b[1] = "str" -> StrV(a[2] \o b[2])
    [] OTHER      -> Arithmetic(op, a, b)

UnaryResult(op, v) ==
  CASE op = "not" -> BoolV(~ Truthy(v))
    [] op = "neg" -> IF IsInt(v) THEN InRange(- v[2]) ELSE Error("r004")
    [] op = "try_prop" -> IF v = Nil THEN Error("r010") ELSE v

\* A negative index does not fit the unsigned type it is cast to: a panic in
\* builds with safety checks, which are the default of build.zig.
ElementOf(v, i) ==
  IF ~ IsInt(i) THEN Error("r009")
  ELSE IF i[2] < 0 THEN Error("panic")
  ELSE IF v[1] \notin {"vec", "str"} THEN Error("r009")
  ELSE IF i[2] >= Len(v[2]) THEN Error("r008")
  ELSE IF v[1] = "vec" THEN v[2][i[2] + 1] ELSE <<"char", v[2][i[2] + 1]>>

LengthOf(v) == IF v[1] \notin {"vec", "str"} THEN Error("r009")
               ELSE IF Len(v[2]) > IntMax THEN Error("panic") ELSE IntV(Len(v[2]))

FieldOf(v, f) == IF v[1] = "struct" /\ f \in DOMAIN v[2] THEN v[2][f] ELSE Nil

\* The native functions a module registers; the other modules have none of these.
NativesOf(module) == CASE module = "std"   -> {<<"std.print", "std.print">>, <<"std.range", "std.range">>}
                       [] module = "range" -> {<<"range.range", "std.range">>}
                       [] OTHER            -> {}
Natives == {"std.print", "std.range"}

\* The globals before a program runs: the natives of the modules it uses at top level.
Registered(stmts) ==
  LET natives == UNION {NativesOf(stmts[i].path) : i \in {j \in 1 .. Len(stmts) : stmts[j].node = "use"}}
  IN  [f \in {n[1] : n \in natives} |-> <<"native", (CHOOSE n \in natives : n[1] = f)[2]>>]

\* What a native function returns: std.range a vector, everything else nil.  The
\* difference of the bounds is an integer too, and may be none of those there are.
NativeResult(f, args) ==
  IF ~ (f = "std.range" /\ Len(args) >= 2 /\ IsInt(args[1]) /\ IsInt(args[2])) THEN Nil
  ELSE IF args[2][2] - args[1][2] > IntMax THEN Error("panic")
  ELSE <<"vec", [i \in 1 .. args[2][2] - args[1][2] |-> IntV(args[1][2] + i - 1)]>>

\* What std.print writes of a value; the text of one that is no literal does not tell
\* which it is.
WriteValue(v) == IF v[1] \in {"nil", "bool", "int", "str", "char"} THEN v ELSE <<"value">>
=============================================================================
