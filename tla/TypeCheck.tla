----------------------------- MODULE TypeCheck -----------------------------
(***************************************************************************)
(* src/compiler/type_check.zig: what `m4c lint` says of a syntax tree.     *)
(*                                                                         *)
(* A type is a tuple that begins with its name.  The types vec, map, opt   *)
(* and res cannot be annotated (the parser makes no such node), so that    *)
(* only vec exists, as the type of a literal or of what std.range returns. *)
(***************************************************************************)
EXTENDS Ast

\* numericSize
NumericSize == [i8 |-> 1, u8 |-> 1, i16 |-> 2, u16 |-> 2, i32 |-> 4, u32 |-> 4, f32 |-> 4,
                i64 |-> 8, u64 |-> 8, f64 |-> 8]
Primitives == DOMAIN NumericSize \cup {"bool", "char", "str", "bytes"}

I32 == <<"i32">>
BoolType == <<"bool">>
StrType == <<"str">>
Void == <<"void">>
VecOf(t) == <<"vec", t>>
Named(x) == <<"named", x>>
FunType(params, returns) == <<"fun", params, returns>>
TypeOfLiteral == [int |-> I32, float |-> <<"f64">>, bool |-> BoolType, str |-> StrType, char |-> <<"char">>, nil |-> Void]

IsNumeric(t) == t[1] \in DOMAIN NumericSize
Wider(t, u) == IF NumericSize[t[1]] >= NumericSize[u[1]] THEN t ELSE u
Comparable(t, u) == \/ IsNumeric(t) /\ IsNumeric(u)
                    \/ t = u /\ t \in {BoolType, StrType}
\* Whatever is wanted as void may be anything.
Compatible(t, wanted) == t = wanted \/ wanted = Void

ArithmeticOps == {"add", "sub", "mul", "div", "mod"}
Orders == {"gt", "lt", "gte", "lte"}
Fits(op, t, u) ==
  CASE op \in ArithmeticOps   -> (IsNumeric(t) /\ IsNumeric(u)) \/ (op = "add" /\ t = StrType /\ u = StrType)
    [] op \in {"eq", "neq"}   -> Comparable(t, u) \/ (t[1] = "named" /\ t = u)
    [] op \in Orders           -> Comparable(t, u)
    [] op \in {"and", "or"}   -> t = BoolType /\ u = BoolType
TypeOfBinary(op, t, u) ==
  IF op \notin ArithmeticOps THEN BoolType
  ELSE IF IsNumeric(t) /\ IsNumeric(u) THEN Wider(t, u)
  ELSE IF Fits(op, t, u) THEN StrType ELSE I32

-----------------------------------------------------------------------------
(***************************************************************************)
(* The state of a check: the environments, innermost last, each a function *)
(* from names to symbols; the declared types; the type the enclosing       *)
(* function returns, if there is one; whether a loop encloses this; the    *)
(* codes of the errors; the type of the expression checked last.           *)
(*                                                                         *)
(* `blind` and `outside` are not in the source.  `blind` collects what the *)
(* checker passed over without looking, as Execution needs to say what its *)
(* verdict is worth; `outside` is how many environments lie outside of the *)
(* enclosing function.                                                     *)
(***************************************************************************)
Checking(defs, natives) ==
  [envs |-> <<natives>>, defs |-> defs, returns |-> <<>>, inLoop |-> FALSE, errors |-> {}, type |-> Void,
   blind |-> {}, outside |-> 0]

TypeError(c, code) == [c EXCEPT !.errors = @ \cup {code}]
Require(c, ok, code) == IF ok THEN c ELSE TypeError(c, code)
Typed(c, t) == [c EXCEPT !.type = t]
Blind(c, why, form) == IF why THEN [c EXCEPT !.blind = @ \cup {form}] ELSE c

\* The innermost environment with the name; 0 if there is none.
EnvOf(c, x) == LET having == {i \in 1 .. Len(c.envs) : x \in DOMAIN c.envs[i]}
               IN  IF having = {} THEN 0 ELSE CHOOSE i \in having : \A j \in having : j <= i
Symbol(c, x) == c.envs[EnvOf(c, x)][x]

\* What declares the name: "let", "for", "param" or "fun".
Define(c, x, t, mutable, by) ==
  [c EXCEPT !.envs[Len(c.envs)] = (x :> [type |-> t, mutable |-> mutable, by |-> by]) @@ @]

Child(c) == [c EXCEPT !.envs = Append(@, <<>>)]

\* Faulty variant: the child's symbols can still be found afterwards.
LeaveOpen(c, checked) == [checked EXCEPT !.returns = c.returns, !.inLoop = c.inLoop, !.outside = c.outside]

\* From what was checked in a child of c back to c's environment.
Leave(c, checked) == [LeaveOpen(c, checked) EXCEPT !.envs = c.envs]
InChild(c, check(_)) == Leave(c, check(Child(c)))

\* resolveTypeExpr, of the one node of an annotation.
Resolve(c, type) ==
  IF type.node = "ident" /\ type.name \in Primitives THEN Typed(c, <<type.name>>)
  ELSE IF type.node = "ident" /\ type.name \in c.defs THEN Typed(c, Named(type.name))
  ELSE Typed(TypeError(c, "t001"), I32)
ResolveOr(c, annotation, default) == IF annotation = <<>> THEN Typed(c, default) ELSE Resolve(c, annotation[1])

-----------------------------------------------------------------------------
(* Expressions *)

RECURSIVE CheckExpr(_, _)

\* Several expressions from left to right, and their types.
CheckEach(c, es) ==
  Each(LAMBDA a, e : With(CheckExpr(a.c, e), LAMBDA d : [c |-> d, types |-> Append(a.types, d.type)]),
       [c |-> c, types |-> <<>>], es)

\* The variable of the top-level code that a function names.
IsOuter(c, x) == /\ EnvOf(c, x) \in 1 .. c.outside
                 /\ Symbol(c, x).by # "fun"

CheckName(c, x) ==
  IF EnvOf(c, x) = 0 THEN Typed(TypeError(c, "t002"), I32)
  ELSE Typed(Blind(c, IsOuter(c, x), "outer"), Symbol(c, x).type)

\* A field is the function of a module, and nothing else.
CheckField(c, e) ==
  LET name == IF e.object.node = "ident" THEN CalleeName(e) ELSE ""
  IN  IF EnvOf(c, name) # 0 THEN Typed(c, Symbol(c, name).type) ELSE Typed(TypeError(c, "t002"), I32)

\* Booleans have no order on the machine.
CheckBinary(c, e) ==
  With(CheckEach(c, <<e.left, e.right>>), LAMBDA a :
    Typed(Require(Blind(a.c, e.op \in Orders /\ a.types[1] = BoolType, "order"), Fits(e.op, a.types[1], a.types[2]), "t007"), TypeOfBinary(e.op, a.types[1], a.types[2])))

CheckUnary(c, e) ==
  With(CheckExpr(c, e.operand), LAMBDA o :
    IF e.op = "not" THEN Typed(Require(o, o.type = BoolType, "t007"), BoolType)
    ELSE IF IsNumeric(o.type) THEN o ELSE Typed(TypeError(o, "t007"), I32))

\* A function that a variable holds is called by the variable's name.
IsHeld(c, e) == e.node = "ident" /\ EnvOf(c, e.name) # 0 /\ Symbol(c, e.name).by # "fun"

CheckCall(c, e) ==
  With(CheckExpr(Blind(c, IsHeld(c, e.callee), "held"), e.callee), LAMBDA f :
    CASE f.type[1] # "fun" -> Typed(TypeError(f, "t001"), Void)
      [] f.type[1] = "fun" /\ Len(e.args) # Len(f.type[2]) -> Typed(TypeError(f, "t001"), f.type[3])
      [] OTHER -> With(CheckEach(f, e.args), LAMBDA a :
                    Typed(Require(a.c, \A i \in 1 .. Len(e.args) : Compatible(a.types[i], f.type[2][i]), "t004"),
                          f.type[3])))

CheckVecLit(c, items) ==
  IF items = <<>> THEN Typed(c, VecOf(I32))
  ELSE With(CheckEach(c, items), LAMBDA a :
         Typed(Require(a.c, \A i \in 2 .. Len(items) : Compatible(a.types[i], a.types[1]), "t001"), VecOf(a.types[1])))

CheckStructLit(c, e) ==
  With(Blind(c, e.fields # <<>>, "operand"), LAMBDA s :
    IF e.type \in c.defs THEN Typed(s, Named(e.type)) ELSE Typed(TypeError(s, "t002"), I32))

CheckAssign(c, e) ==
  IF e.target.node # "ident" THEN Typed(TypeError(c, "t001"), I32)
  ELSE IF EnvOf(c, e.target.name) = 0 THEN Typed(TypeError(c, "t002"), I32)
  ELSE LET symbol == Symbol(c, e.target.name)
       IN  With(CheckExpr(Require(Blind(c, IsOuter(c, e.target.name), "outer"), symbol.mutable, "t008"), e.value),
                LAMBDA v : Typed(Require(v, Compatible(v.type, symbol.type), "t004"), symbol.type))

\* An index and a ? count as i32, and neither their operands nor what a struct
\* literal gives to its fields are looked at.
CheckTree(c, e) ==
  CASE e.node = "lit"        -> Typed(c, TypeOfLiteral[e.value[1]])
    [] e.node = "ident"      -> CheckName(c, e.name)
    [] e.node = "field"      -> CheckField(c, e)
    [] e.node = "binary"     -> CheckBinary(c, e)
    [] e.node = "unary"      -> CheckUnary(c, e)
    [] e.node = "call"       -> CheckCall(c, e)
    [] e.node = "vec_lit"    -> CheckVecLit(c, e.items)
    [] e.node = "struct_lit" -> CheckStructLit(c, e)
    [] e.node = "assign"     -> CheckAssign(c, e)
    [] e.node \in {"index", "try_expr"} -> Typed(Blind(c, TRUE, "operand"), I32)

CheckExpr(c, e) == With(e, LAMBDA tree : CheckTree(c, tree))

-----------------------------------------------------------------------------
(* Statements *)

RECURSIVE CheckStmt(_, _)
CheckStmts(c, stmts) == Each(CheckStmt, c, stmts)
CheckBlock(c, stmts) == InChild(c, LAMBDA d : CheckStmts(d, stmts))

\* A name that another variable of the function has, further out.
Shadows(c, x) == EnvOf(c, x) \in c.outside + 1 .. Len(c.envs) - 1

\* A declared type counts whatever the value is.
CheckLet(c, s) ==
  With(ResolveOr(c, s.type, Void), LAMBDA declared :
  With(CheckExpr(declared, s.value), LAMBDA v :
    LET type == IF s.type = <<>> THEN v.type ELSE declared.type
    IN  Define(Blind(Require(v, Compatible(v.type, type), "t004"), Shadows(c, s.name), "shadow"),
               s.name, type, s.mutable, "let")))

CheckDeclare(c, s) ==
  With(ResolveOr(c, s.type, I32), LAMBDA declared :
    Define(Blind(Blind(declared, TRUE, "unset"), Shadows(c, s.name), "shadow"), s.name, declared.type, s.mutable, "let"))

\* A parameter without a type is an i32, a function without one returns nothing.
ParamTypes(c, s) ==
  Each(LAMBDA a, type : With(ResolveOr(a.c, type, I32), LAMBDA r : [c |-> r, types |-> Append(a.types, r.type)]),
       [c |-> c, types |-> <<>>], s.types)

\* A function may be left at its end, with nothing, whatever it returns.
FallsThrough(s) == Last(s.body).node \notin {"ret", "ret_nothing"}

CheckBody(c, s, params, returns) ==
  InChild(c, LAMBDA d :
    CheckStmts(Each(LAMBDA a, i : Define(a, s.params[i], params[i], FALSE, "param"),
                    [d EXCEPT !.returns = <<returns>>, !.outside = Len(c.envs)],
                    [i \in 1 .. Len(s.params) |-> i]),
               s.body))

CheckFun(c, s) ==
  With(ParamTypes(c, s), LAMBDA a :
  With(ResolveOr(a.c, s.returns, Void), LAMBDA r :
  With(Blind(Blind(Blind(r, EnvOf(c, s.name) # 0, "redefined"),
                   c.outside > 0 \/ c.inLoop, "nested"),
             r.type # Void /\ FallsThrough(s), "end"), LAMBDA b :
    CheckBody(Define(b, s.name, FunType(a.types, r.type), FALSE, "fun"), s, a.types, r.type))))

CheckRet(c, s) ==
  CASE c.returns = <<>>     -> TypeError(c, "t009")
    [] c.returns = <<Void>> -> TypeError(c, "t005")
    [] OTHER -> With(CheckExpr(c, s.value), LAMBDA v : Require(v, Compatible(v.type, c.returns[1]), "t005"))
CheckRetNothing(c) ==
  IF c.returns = <<>> THEN TypeError(c, "t009") ELSE Require(c, c.returns = <<Void>>, "t005")

CheckBranch(c, branch) ==
  With(CheckExpr(c, branch[1]), LAMBDA cond :
    CheckBlock(Require(cond, cond.type = BoolType, "t007"), branch[2]))
CheckIf(c, s) == CheckBlock(Each(CheckBranch, c, s.branches), s.otherwise)

CheckLoop(c, body) == InChild(c, LAMBDA d : CheckBlock([d EXCEPT !.inLoop = TRUE], body))

\* The body of a for over anything but a vec is not looked at.
CheckFor(c, s) ==
  With(CheckExpr(c, s.iterable), LAMBDA v :
    IF v.type[1] # "vec" THEN TypeError(v, "t001")
    ELSE InChild(Blind(v, Shadows(c, s.name) \/ s.name \in DOMAIN Last(c.envs), "shadow"), LAMBDA d :
           CheckBlock(Define([d EXCEPT !.inLoop = TRUE], s.name, v.type[2], FALSE, "for"), s.body)))

CheckStmt(c, s) ==
  CASE s.node = "let"     -> CheckLet(c, s)
    [] s.node = "let_nil" -> CheckDeclare(c, s)
    [] s.node = "fun"     -> CheckFun(c, s)
    [] s.node = "expr"    -> CheckExpr(c, s.expr)
    [] s.node = "if"      -> CheckIf(c, s)
    [] s.node = "loop"    -> CheckLoop(c, s.body)
    [] s.node = "for"     -> CheckFor(c, s)
    [] s.node = "ret"     -> CheckRet(c, s)
    [] s.node = "ret_nothing" -> CheckRetNothing(c)
    [] s.node \in {"continue", "esc"} -> Require(c, c.inLoop, "t001")
    [] s.node \in {"type_decl", "use"} -> Blind(c, c.outside > 0, "nested")

-----------------------------------------------------------------------------
(* Programs *)

\* registerNativeFunctions: name, parameters and result.
NativeSignatures(module) ==
  CASE module = "std"    -> << <<"println", <<Void>>, Void>>, <<"print", <<Void>>, Void>>, <<"readln", <<>>, StrType>>,
                               <<"read", <<>>, StrType>>, <<"readChar", <<>>, <<"char">>>>,
                               <<"range", <<I32, I32>>, VecOf(I32)>> >>
    [] module = "fs"     -> << <<"read", <<StrType>>, StrType>>, <<"write", <<StrType, StrType>>, BoolType>>,
                               <<"exists", <<StrType>>, BoolType>>, <<"delete", <<StrType>>, BoolType>> >>
    [] module = "str"    -> << <<"len", <<StrType>>, I32>>, <<"slice", <<StrType, I32, I32>>, StrType>> >>
    [] module = "thread" -> << <<"spawn", <<StrType>>, Void>>, <<"join", <<I32>>, Void>>, <<"channel", <<>>, Void>>,
                               <<"send", <<I32, I32>>, BoolType>>, <<"recv", <<I32>>, Void>> >>
    [] module = "range"  -> << <<"range", <<I32, I32>>, VecOf(I32)>> >>
    [] OTHER             -> <<>>
NativesUsed(stmts) ==
  Each(LAMBDA env, s :
         IF s.node # "use" THEN env
         ELSE Each(LAMBDA e, f : (s.path \o "." \o f[1] :> [type |-> FunType(f[2], f[3]), mutable |-> FALSE, by |-> "fun"]) @@ e,
                   env, NativeSignatures(s.path)),
       <<>>, stmts)

\* check: the types and modules of the top level first, then all statements.
Check(stmts) ==
  LET defs == {stmts[i].name : i \in {j \in 1 .. Len(stmts) : stmts[j].node = "type_decl"}}
  IN  With(NativesUsed(stmts), LAMBDA natives : CheckStmts(Checking(defs, natives), stmts))
=============================================================================
