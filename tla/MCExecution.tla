---------------------------- MODULE MCExecution ----------------------------
(***************************************************************************)
(* Programs for the parser, the compiler and the machine: trees, and the   *)
(* sources that spell them.  Letters stand for the names of variables; f,  *)
(* g, h and p are functions.                                               *)
(***************************************************************************)
EXTENDS Execution

a == Ident("a")
b == Ident("b")
n == Ident("n")
s == Ident("s")
v == Ident("v")
x == Ident("x")
y == Ident("y")
N(i) == Lit(IntV(i))
S(str) == Lit(StrV(str))
B(bool) == Lit(BoolV(bool))
Bind(name, e) == Let(FALSE, name, <<>>, e)
Mut(name, e) == Let(TRUE, name, <<>>, e)
I32Named == <<Ident("i32")>>
Call(f, args) == CallTo(Ident(f), args)
Show(e) == Do(CallTo(Field(Ident("std"), "print"), <<e>>))
Plus(e1, e2) == Binary("add", e1, e2)
Minus(e1, e2) == Binary("sub", e1, e2)
Below(e1, e2) == Binary("lt", e1, e2)
F(e) == Call("f", <<e>>)
G(e1, e2) == Call("g", <<e1, e2>>)
H(e) == Call("h", <<e>>)
If(cond, then) == IfElse(<< <<cond, then>> >>, <<>>)
UpTo(e) == CallTo(Field(Ident("range"), "range"), <<N(0), e>>)

Procedure(public, f, params, block) == Fun(public, f, params, [i \in 1 .. Len(params) |-> <<>>], <<>>, block)

\* f adds one; g subtracts, in a local of its own; h recurses; p prints and
\* returns nothing from inside a loop, o at its end.  What a call of p gives is not used:
\* a ret without a value gives register 0, which is the argument (compiler.zig:582).
Functions ==
  << Fun(FALSE, "f", <<"a">>, <<I32Named>>, I32Named, <<Ret(Plus(a, N(1)))>>),
     Fun(FALSE, "g", <<"a", "b">>, <<I32Named, <<>>>>, I32Named, <<Bind("c", Minus(a, b)), Ret(Ident("c"))>>),
     Fun(FALSE, "h", <<"a">>, <<<<>>>>, I32Named,
         <<If(Below(a, N(1)), <<Ret(N(0))>>), Ret(Plus(a, H(Minus(a, N(1)))))>>),
     Procedure(FALSE, "p", <<"a">>, <<Mut("b", a), Loop(<<Show(b), If(Below(N(1), b), <<RetNothing>>),
                                                          Do(Assign(b, Plus(b, N(1))))>>)>>),
     Procedure(FALSE, "o", <<"a">>, <<Show(a)>>) >>

Locals == <<Mut("x", N(1)), Bind("v", VecLit(<<N(4), N(5)>>)), Let(TRUE, "s", <<Ident("str")>>, S(<<1>>))>>

\* Every form of expression, with locals and calls as operands.
Expressions ==
  << x, F(x), Plus(F(x), x), Minus(x, F(N(1))), Index(v, N(0)), F(Index(v, N(1))),
     G(F(x), x), G(N(1), Plus(F(x), N(1))), G(Index(v, N(0)), G(N(1), x)),
     Index(VecLit(<<F(x), x, Index(v, x)>>), N(2)),
     Field(StructLit("User", << <<"l", F(x)>>, <<"m", G(x, x)>>, <<"n", x>> >>), "m"),
     Unary("neg", F(x)), Try(Index(v, Minus(x, N(1)))) >>

\* What runs are stopped by, and the operators that are left.
Faults ==
  << Index(v, N(2)), Index(x, N(0)), Index(v, s), Minus(x, s), Binary("mod", s, x), Binary("mod", x, Minus(x, x)), Binary("gte", s, x),
     Unary("neg", s), Below(x, s), Binary("div", x, Minus(x, N(1))),
     Binary("mul", N(6), N(6)), Minus(Minus(N(0), N(20)), N(2)), Ident("u"), Call("u", <<x>>),
     Try(Lit(Nil)), H(N(7)), CallTo(Field(Ident("std"), "range"), <<N(0)>>),
     CallTo(Field(Ident("std"), "range"), <<Minus(N(0), N(20)), N(1)>>) >>
Others ==
  << H(N(1)), Try(x), Unary("not", x), Field(x, "l"), Below(s, S(<<1, 1>>)), Index(s, N(0)),
     Binary("and", Below(x, N(2)), Binary("eq", s, S(<<1>>))), Binary("or", Lit(Nil), Lit(BoolV(FALSE))),
     Binary("div", Minus(N(0), N(7)), N(2)), Binary("mul", F(x), N(3)),
     Binary("mod", Minus(N(0), N(7)), N(3)), Binary("neq", x, s), Binary("gt", F(x), x), Binary("lte", x, x),
     Binary("gte", x, F(x)) >>

Three(cond) == IfElse(<< <<Below(cond, N(2)), <<Show(N(10))>> >>, <<Below(cond, N(4)), <<Show(N(11))>> >> >>,
                      <<Show(N(12)), Show(x)>>)

Bodies ==
  << <<Three(x)>>, <<Three(F(x))>>, <<Three(Index(v, N(1))), Show(x)>>,
     <<Loop(<<Do(Assign(x, Plus(x, N(1)))), If(Below(x, N(4)), <<Continue>>),
              If(Below(N(5), x), <<Esc>>), Show(x)>>), Show(x)>>,
     <<For("n", v, <<Show(G(n, x))>>), Show(x)>>,
     <<For("n", s, <<Show(n)>>)>>,
     <<For("n", x, <<Show(n)>>)>>,
     <<For("n", UpTo(N(3)), <<If(Binary("eq", n, N(2)), <<Esc>>), Show(n)>>), Show(x)>>,
     <<For("n", v, <<For("a", v, <<Show(Plus(n, a))>>)>>), Show(x)>>,
     <<For("n", v, <<Do(Assign(x, Plus(x, n)))>>), Show(x)>>,
     <<For("n", v, <<Loop(<<If(Below(N(6), x), <<Esc>>), Do(Assign(x, Plus(x, N(4))))>>)>>), Show(x)>>,
     <<Loop(<<For("n", v, <<If(Below(n, N(5)), <<Esc>>)>>), Esc>>), Show(x)>>,
     <<For("n", UpTo(N(2)), <<Do(Assign(s, Plus(s, S(<<2>>))))>>), Show(s),
       Do(Assign(s, Plus(S(<<3>>), s))), Show(Plus(s, S(<<4>>)))>>,
     <<Do(Call("p", <<x>>)), Show(x)>>,
     <<Do(Assign(Ident("w"), F(x))), Show(Ident("w")), Do(Call("w", <<>>)), Show(x)>>,
     <<Procedure(FALSE, "main", <<>>, <<Show(N(1))>>), Show(x)>>, <<Procedure(TRUE, "main", <<"a">>, <<Show(a)>>), Show(x)>>,
     <<Declare(TRUE, "y", I32Named), Show(y), Do(Assign(y, x)), Show(y), Ret(y)>>,
     <<RetNothing>>, <<Esc>>, <<Loop(<<Show(x), Procedure(FALSE, "q", <<>>, <<Continue>>)>>)>> >>

\* Locals declared in a block: of functions only.
InFunctions ==
  << <<For("n", v, <<Bind("a", F(n)), Show(a), Show(G(a, n)), Do(Assign(x, Plus(x, a)))>>), Show(x)>>,
     <<If(Below(x, N(2)), <<Bind("a", F(x)), Show(a), Show(x)>>), Bind("b", N(7)), Show(b), Show(x)>>,
     <<Loop(<<Bind("a", F(x)), Do(Assign(x, a)), If(Below(N(3), x), <<Show(a), Esc>>)>>), Show(x)>>,
     <<Procedure(FALSE, "q", <<>>, <<RetNothing>>)>> >>

Prelude == <<Use("std"), Use("range"), TypeDecl("User")>>
AtTopLevel(stmts) == Prelude \o Functions \o Locals \o stmts
InMain(stmts) == Prelude \o Append(Functions, Procedure(TRUE, "main", <<>>, Locals \o stmts))

ForAll(es, Stmts(_)) == [i \in 1 .. Len(es) |-> Stmts(es[i])]
Both(bodies) == ForAll(bodies, AtTopLevel) \o ForAll(bodies, InMain)

Pairs == LET count == Len(Expressions)
         IN  [i \in 1 .. count * count |->
                <<Bind("y", Expressions[1 + (i - 1) \div count]), Show(Expressions[1 + ((i - 1) % count)]),
                  Show(y), Show(x), Show(v)>>]

\* Every operator as an operand of every other, and of what comes before or after an operand.
Operators == <<"add", "sub", "mul", "div", "mod", "eq", "neq", "lt", "gt", "lte", "gte", "and", "or">>
Groups ==
  LET count == Len(Operators)
      grouped(o, q) == << Binary(o, Binary(q, x, N(2)), N(3)), Binary(o, x, Binary(q, N(3), x)) >>
      each(o) == << Unary("neg", Binary(o, x, N(3))), Binary(o, Unary("not", x), Unary("neg", N(4))),
                    Index(VecLit(<<x>>), Binary(o, N(2), N(2))), Try(Binary(o, N(4), x)) >>
  IN  FlattenSeq([i \in 1 .. count * count |->
                    grouped(Operators[1 + (i - 1) \div count], Operators[1 + ((i - 1) % count)])])
        \o FlattenSeq([i \in 1 .. count |-> each(Operators[i])])
        \o << Index(Unary("neg", v), N(0)), Unary("neg", Index(v, N(0))), Unary("not", Unary("neg", x)), Try(Field(s, "l")) >>

\* A sum of a string and an integer is an error on the machine (vm.zig:247) and a string
\* in the documentation (SPEC.md:435): no program has one, nor an index below zero.
IsMixedSum(op, e1, e2) == op = "add" /\ {e1, e2} = {x, s}

\* Every operator on a value of every type, of variables and of literals.
Samples(int, str, vec) == <<int, str, B(TRUE), Lit(Nil), vec, Call("o", <<int>>)>>
Operands ==
  LET samples == Samples(x, s, v)
      count == Len(samples)
      all == FlattenSeq([o \in 1 .. Len(Operators) |-> [i \in 1 .. count * count |->
               Binary(Operators[o], samples[1 + (i - 1) \div count], samples[1 + ((i - 1) % count)])]])
  IN  ForAll(SelectSeq(all, LAMBDA e : ~ IsMixedSum(e.op, e.left, e.right)), LAMBDA e : <<Show(e)>>)

\* A value of every type where one of type t is wanted, and then used as one of type t:
\* for a declaration, an assignment, a parameter, a result and an element.
Wanted == << <<"i32", N(2)>>, <<"str", S(<<2>>)>>, <<"bool", B(FALSE)>> >>
UsedAs(t, e) == CASE t = "i32" -> Show(Minus(e, N(1)))
                  [] t = "str" -> Show(Below(e, S(<<1>>)))
                  [] t = "bool" -> If(Unary("not", e), <<Show(N(1))>>)
Places(t, good, e) ==
  << <<Let(FALSE, "y", <<Ident(t)>>, e), UsedAs(t, y)>>,
     <<Mut("y", good), Do(Assign(y, e)), UsedAs(t, y)>>,
     <<Fun(FALSE, "q", <<"a">>, <<<<Ident(t)>>>>, <<>>, <<UsedAs(t, a)>>), Do(Call("q", <<e>>))>>,
     <<Fun(FALSE, "q", <<>>, <<>>, <<Ident(t)>>, <<Ret(e)>>), UsedAs(t, Call("q", <<>>))>>,
     <<For("n", VecLit(<<good, e>>), <<UsedAs(t, n)>>)>> >>
Conversions ==
  LET samples == Samples(N(3), S(<<3>>), VecLit(<<N(1)>>))
      tried(w) == FlattenSeq(ForAll(samples, LAMBDA e : Places(w[1], w[2], e)))
  IN  FlattenSeq(ForAll(Wanted, tried))
        \o FlattenSeq(ForAll(samples, LAMBDA e :
             << <<If(e, <<Show(N(1))>>)>>, <<IfElse(<< <<B(FALSE), <<Show(N(1))>> >>, <<e, <<Show(N(2))>> >> >>, <<Show(N(3))>>)>>,
                <<Show(Unary("neg", e))>>, <<Show(Unary("not", e))>>, <<For("n", e, <<Show(n)>>)>>,
                <<Bind("y", e), Do(Assign(y, N(1)))>> >>))

\* What lint looks at but the compiler does not.
Q(returns, block) == Fun(FALSE, "q", <<>>, <<>>, returns, block)
AskQ == Show(Minus(Call("q", <<>>), N(1)))
Declarations ==
  << <<Show(a)>>, <<Show(AskQ.expr), Q(I32Named, <<Ret(N(1))>>)>>,
     <<Fun(FALSE, "q", <<"a", "b">>, <<<<Ident("i64")>>, <<>>>>, <<Ident("i64")>>, <<Ret(Plus(b, a))>>), Show(x)>>,
     <<Fun(FALSE, "q", <<"a">>, <<<<Ident("i64")>>>>, I32Named, <<Ret(Plus(a, N(1)))>>), Show(x)>>,
     <<Fun(FALSE, "q", <<>>, <<>>, I32Named, <<RetNothing>>), AskQ>>,
     <<Let(FALSE, "y", <<Ident("nowhere")>>, x), Show(y)>>, <<Let(FALSE, "y", <<N(5)>>, x), Show(y)>>,
     <<Let(FALSE, "y", <<Ident("User")>>, StructLit("User", <<>>)), Show(Binary("eq", y, x))>>,
     <<Do(Assign(Field(x, "l"), N(1)))>>, <<Do(CallTo(Field(Ident("std"), "print"), <<x, x>>))>>,
     <<Do(Call("x", <<>>))>>, <<Show(Index(VecLit(<<>>), N(0)))>>,
     <<For("n", CallTo(Field(Ident("std"), "range"), <<N(0), N(2)>>), <<Show(n)>>)>> >>

\* What lint overlooks, each form where it ends in an error.
Overlooked ==
  << <<Do(StructLit("User", << <<"l", Ident("u")>> >>))>>,
     <<Declare(TRUE, "y", I32Named), Show(Plus(y, N(1)))>>, <<Show(x), Declare(FALSE, "y", <<>>)>>,
     <<Q(I32Named, <<If(B(FALSE), <<Ret(N(1))>>)>>), AskQ>>,
     <<Q(I32Named, <<Ret(x)>>), AskQ>>, <<Q(<<>>, <<Do(Assign(x, N(2)))>>), Do(Call("q", <<>>)), Show(x)>>,
     <<Bind("y", Ident("f")), Show(Call("y", <<N(1)>>))>>,
     <<Q(I32Named, <<Ret(F(N(1)))>>), Fun(FALSE, "f", <<"a">>, <<<<>>>>, <<Ident("str")>>, <<Ret(S(<<1>>))>>), AskQ>> >>
OverlookedInMain ==
  << <<If(Below(x, N(2)), <<Bind("x", S(<<2>>))>>), Show(Minus(x, N(1)))>>,
     <<For("x", VecLit(<<S(<<2>>)>>), <<Show(x)>>), Show(Minus(x, N(1)))>>,
     <<Use("std")>>, <<TypeDecl("User")>> >>

\* Programs that need more than the RegisterCount of the run: by themselves, or where a
\* function is called behind many arguments.  q reads a variable that was not declared
\* on the way to it, whose register is past the last one.
Behind(count, e) == Do(CallTo(Field(Ident("std"), "print"), [i \in 1 .. count + 1 |-> IF i > count THEN e ELSE x]))
Undeclared ==
  Fun(FALSE, "q", <<>>, <<>>, I32Named,
      <<If(B(FALSE), <<Bind("c", N(1)), Bind("d", N(1)), Bind("e", N(1))>>), Ret(Ident("e"))>>)
Tight == << <<Undeclared, Behind(20, Call("q", <<>>))>> >>
         \o FlattenSeq([i \in 1 .. 4 |->
              ForAll(<<F(x), G(x, x), Call("g", <<x, x, x, x>>), Call("o", <<x>>)>>, LAMBDA e : <<Behind(17 + i, e)>>)])

Trees == ForAll(Tight, AtTopLevel)
         \o Both(Pairs)
         \o Both(ForAll(Faults \o Others, LAMBDA e : <<Bind("y", e), Show(y), Show(x), Show(v)>>))
         \o Both(Bodies)
         \o ForAll(InFunctions \o OverlookedInMain, InMain)
         \o ForAll(Operands \o Conversions \o Declarations \o Overlooked, AtTopLevel)
         \o << <<Use("std"), Do(StructLit("User", <<>>)), Show(N(1))>> >>
         \o ForAll(Groups, LAMBDA e : Prelude \o Locals \o <<Show(e)>>)

-----------------------------------------------------------------------------
(* Spelling a tree, with parentheses only where another tree would be meant without. *)

Id(name) == <<"ident", name>>
Num(i) == <<"literal", IntV(i)>>
Spelled == [add |-> <<"plus">>, sub |-> <<"minus">>, mul |-> <<"star">>, div |-> <<"slash">>, mod |-> <<"percent">>,
            eq |-> <<"eq_eq">>, neq |-> <<"bang_eq">>, lt |-> <<"lt">>, gt |-> <<"gt">>, lte |-> <<"lt_eq">>,
            gte |-> <<"gt_eq">>, and |-> <<"and_and">>, or |-> <<"pipe_pipe">>, neg |-> <<"minus">>, not |-> <<"bang">>]
\* The operators from the loosest to the tightest; 7 is a sign, 8 what follows an operand.
Tightness == [or |-> 1, and |-> 2, eq |-> 3, neq |-> 3, lt |-> 4, gt |-> 4, lte |-> 4, gte |-> 4,
              add |-> 5, sub |-> 5, mul |-> 6, div |-> 6, mod |-> 6]
Within(open, toks, close) == <<<<open>>>> \o toks \o <<<<close>>>>
Grouped(isLoose, toks) == IF isLoose THEN Within("lparen", toks, "rparen") ELSE toks
WithCommas(spellings) == Each(LAMBDA done, toks : IF done = <<>> THEN toks ELSE done \o <<<<"comma">>>> \o toks, <<>>, spellings)

RECURSIVE Spell(_, _)
SpellAll(es) == WithCommas([i \in 1 .. Len(es) |-> Spell(es[i], 0)])
\* least: how tight e has to be to stand without parentheses.
Spell(e, least) ==
  CASE e.node = "lit" -> <<<<"literal", e.value>>>>
    [] e.node = "ident" -> <<Id(e.name)>>
    [] e.node = "binary" -> LET t == Tightness[e.op]
                            IN  Grouped(t < least, Spell(e.left, t) \o <<Spelled[e.op]>> \o Spell(e.right, t + 1))
    [] e.node = "unary" -> Grouped(7 < least, <<Spelled[e.op]>> \o Spell(e.operand, 7))
    [] e.node = "call" -> Spell(e.callee, 8) \o Within("lparen", SpellAll(e.args), "rparen")
    [] e.node = "vec_lit" -> Within("lbracket", SpellAll(e.items), "rbracket")
    [] e.node = "index" -> Spell(e.object, 8) \o Within("lbracket", Spell(e.idx, 0), "rbracket")
    [] e.node = "struct_lit" ->
         <<Id(e.type)>> \o Within("lparen", WithCommas([i \in 1 .. Len(e.fields) |->
                             <<Id(e.fields[i][1]), <<"colon">>>> \o Spell(e.fields[i][2], 0)]), "rparen")
    [] e.node = "field" -> Spell(e.object, 8) \o <<<<"dot">>, Id(e.name)>>
    [] e.node = "try_expr" -> Spell(e.operand, 8) \o <<<<"question">>>>
    [] e.node = "assign" -> Spell(e.target, 0) \o <<<<"eq">>>> \o Spell(e.value, 0)

RECURSIVE SpellBlock(_, _)
Headed(col, toks, block) == <<Line(col, toks)>> \o SpellBlock(block, col + 4)
SpellIf(stmt, col) ==
  FlattenSeq([i \in 1 .. Len(stmt.branches) |->
                Headed(col, <<<<IF i = 1 THEN "kw_if" ELSE "kw_elif">>>> \o Spell(stmt.branches[i][1], 0), stmt.branches[i][2])])
    \o IF stmt.otherwise = <<>> THEN <<>> ELSE Headed(col, <<<<"kw_else">>>>, stmt.otherwise)
Declarator(stmt) == IF stmt.mutable THEN <<"kw_mut">> ELSE <<"kw_let">>
SpellType(type) == IF type = <<>> THEN <<>> ELSE Spell(type[1], 9)
SpellStmt(stmt, col) ==
  CASE stmt.node = "let" -> <<Line(col, <<Declarator(stmt), Id(stmt.name)>> \o SpellType(stmt.type) \o <<<<"eq">>>> \o Spell(stmt.value, 0))>>
    [] stmt.node = "let_nil" -> <<Line(col, <<Declarator(stmt), Id(stmt.name)>> \o SpellType(stmt.type))>>
    [] stmt.node = "type_decl" -> <<Line(col, <<<<"kw_type">>, Id(stmt.name)>>), Line(col + 4, <<Id("l"), Id("i32")>>)>>
    [] stmt.node = "expr" -> <<Line(col, Spell(stmt.expr, 0))>>
    [] stmt.node = "if" -> SpellIf(stmt, col)
    [] stmt.node = "loop" -> Headed(col, <<<<"kw_loop">>>>, stmt.body)
    [] stmt.node = "for" -> Headed(col, <<<<"kw_for">>, Id(stmt.name), Id("in")>> \o Spell(stmt.iterable, 0), stmt.body)
    [] stmt.node = "continue" -> <<Line(col, <<<<"kw_continue">>>>)>>
    [] stmt.node = "esc" -> <<Line(col, <<<<"kw_esc">>>>)>>
    [] stmt.node = "ret" -> <<Line(col, <<<<"kw_ret">>>> \o Spell(stmt.value, 0))>>
    [] stmt.node = "ret_nothing" -> <<Line(col, <<<<"kw_ret">>>>)>>
    [] stmt.node = "use" -> <<Line(col, <<<<"kw_use">>, Id(stmt.path)>>)>>
    [] stmt.node = "fun" ->
         Headed(col, (IF stmt.public THEN <<<<"kw_pub">>>> ELSE <<>>) \o <<<<"kw_fun">>, Id(stmt.name)>>
                       \o Within("lparen", WithCommas([i \in 1 .. Len(stmt.params) |->
                             <<Id(stmt.params[i])>> \o SpellType(stmt.types[i])]), "rparen")
                       \o SpellType(stmt.returns), stmt.body)
SpellBlock(stmts, col) == FlattenSeq([i \in 1 .. Len(stmts) |-> SpellStmt(stmts[i], col)])

-----------------------------------------------------------------------------
(* Sources laid out by hand. *)

Printing(toks) == <<Id("std"), <<"dot">>, Id("print"), <<"lparen">>>> \o toks
Printed(toks) == Append(Printing(toks), <<"rparen">>)
UseStd == Line(0, <<<<"kw_use">>, Id("std")>>)
LoopLine(col) == Line(col, <<<<"kw_loop">>>>)

\* Types, comments and blank lines anywhere, blocks indented by 1, 2, 4 and 6, three of
\* them closed by one line.
Indented ==
  [source |->
   << UseStd, EmptyLine,
      Line(0, <<<<"kw_type">>, Id("User")>>), Line(3, <<Id("name"), Id("str")>>), Line(3, <<Id("age"), Id("i32")>>),
      Line(0, <<<<"kw_fun">>, Id("f"), <<"lparen">>, Id("a"), Id("i32"), <<"comma">>, Id("b"), <<"rparen">>, Id("i32")>>),
      Line(2, <<<<"kw_if">>, Id("a"), <<"lt">>, Id("b")>>), EmptyLine,
      Line(8, <<<<"kw_ret">>, Id("a")>>), EmptyLine,
      Line(2, <<<<"kw_elif">>, Id("a"), <<"eq_eq">>, Id("b")>>), Line(4, <<<<"kw_ret">>>>),
      Line(2, <<<<"kw_else">>>>), Line(6, <<<<"kw_ret">>, Id("b")>>),
      Line(0, <<<<"kw_pub">>, <<"kw_fun">>, Id("main"), <<"lparen">>, <<"rparen">>>>),
      LoopLine(4), LoopLine(10), Line(11, Printed(<<Id("f"), <<"lparen">>, Num(2), <<"comma">>, Num(3), <<"rparen">>>>)),
      Line(11, <<<<"kw_esc">>>>), Line(10, <<<<"kw_esc">>>>), Line(4, Printed(<<Num(5)>>)),
      Line(4, <<<<"kw_if">>, Num(1)>>), LoopLine(5), Line(9, <<<<"kw_esc">>>>), EmptyLine,
      Line(0, <<<<"kw_if">>, Num(1)>>), Line(3, Printed(<<Num(7)>>)), Line(3, <<EndOfFile>>) >>,
   tree |->
   << Use("std"), TypeDecl("User"),
      Fun(FALSE, "f", <<"a", "b">>, <<I32Named, <<>>>>, I32Named, <<IfElse(<< <<Below(a, b), <<Ret(a)>> >>, <<Binary("eq", a, b), <<RetNothing>> >> >>, <<Ret(b)>>)>>),
      Procedure(TRUE, "main", <<>>, <<Loop(<<Loop(<<Show(Call("f", <<N(2), N(3)>>)), Esc>>), Esc>>), Show(N(5)),
                                If(N(1), <<Loop(<<Esc>>)>>)>>),
      If(N(1), <<Show(N(7))>>) >> ]

\* Parentheses, one inside the other, broken at any column in the head and the body of a block.
Broken ==
  [source |->
   << UseStd,
      Line(0, <<<<"kw_let">>, Id("u"), Id("User"), <<"eq">>, Id("User"), <<"lparen">>>>),
      Line(4, <<Id("l"), <<"colon">>, <<"lparen">>, Num(1), <<"plus">>>>), Line(2, <<Num(2), <<"rparen">>>>), EmptyLine,
      Line(9, <<Id("m"), <<"colon">>, <<"minus">>, Num(3), <<"comma">>>>), Line(0, <<<<"rparen">>>>),
      Line(0, <<<<"kw_if">>, Id("u"), <<"dot">>, Id("l"), <<"eq_eq">>, <<"lparen">>>>), Line(0, <<Num(3), <<"rparen">>>>),
      Line(2, Printing(<<>>)), Line(0, <<Id("u"), <<"dot">>, Id("m"), <<"rparen">>>>), Line(2, Printed(<<Num(4)>>)),
      Line(0, Printed(<<Num(5)>>)) >>,
   tree |->
   << Use("std"), Let(FALSE, "u", <<Ident("User")>>, StructLit("User", << <<"l", Plus(N(1), N(2))>>, <<"m", Unary("neg", N(3))>> >>)),
      If(Binary("eq", Field(Ident("u"), "l"), N(3)), <<Show(Field(Ident("u"), "m")), Show(N(4))>>), Show(N(5)) >> ]

Refused ==
  << << LoopLine(0), LoopLine(8), Line(12, <<<<"kw_esc">>>>), Line(10, <<<<"kw_esc">>>>) >>,   \* no block has this column
     << LoopLine(0), Line(0, <<<<"kw_esc">>>>) >>,                                             \* nor a block of its own
     << UseStd, Line(4, Printed(<<Num(1)>>)) >>,                                               \* a block of nothing
     << UseStd, Line(2, <<EndOfFile>>) >>,                                                     \* made by spaces only
     << UseStd, Line(0, Printing(<<Num(1)>>)) >>,                                              \* open to the end
     << UseStd, LoopLine(0), Line(4, Append(Printed(<<Num(1)>>), <<"rparen">>)), Line(0, <<<<"kw_esc">>>>) >>, \* never opened
     << Line(0, <<<<"kw_fun">>, Id("f"), <<"lparen">>>>), LoopLine(4), Line(0, <<<<"rparen">>>>) >>,
     << Line(0, <<<<"kw_else">>>>), Line(4, <<Num(1)>>) >>, << Line(0, <<<<"kw_pub">>, <<"kw_let">>, Id("x")>>) >>,
     << Line(0, <<<<"kw_for">>, Id("n"), Id("x"), Id("in")>>), Line(4, <<Num(1)>>) >>,
     << Line(0, <<Num(1), <<"plus">>, <<"star">>, Num(2)>>) >>, << Line(0, <<Num(1), <<"err">>>>) >> >>

\* Every line broken after its first parenthesis; what follows stands left of its block.
BrokenLine(line) ==
  LET open == SelectInSeq(line.toks, LAMBDA tok : tok = <<"lparen">>)
  IN  IF open = 0 THEN <<line>>
      ELSE <<Line(line.col, SubSeq(line.toks, 1, open)), EmptyLine, Line(1, SubSeq(line.toks, open + 1, Len(line.toks)))>>
BreakLines(source) == FlattenSeq([i \in 1 .. Len(source) |-> BrokenLine(source[i])])

-----------------------------------------------------------------------------
MCPrograms == <<>> \o ForAll(Trees, LAMBDA tree : SpellBlock(tree, 0))
              \o ForAll(Both(Bodies), LAMBDA tree : BreakLines(SpellBlock(tree, 0)))
              \o <<Indented.source, Broken.source>> \o Refused
MCWritten == <<>> \o Trees \o Both(Bodies) \o <<Indented.tree, Broken.tree>>
             \o ForAll(Refused, LAMBDA source : IllFormed)

MCLarge == 1 .. Len(Tight)

\* print_indexed of examples/data_structures/vectors_and_iteration.m4
PrintIndexed == <<Mut("i", N(0)),
                  For("n", v, <<Show(Ident("i")), Show(n), Do(Assign(Ident("i"), Plus(Ident("i"), N(1))))>>)>>
MCForWritten == <<>> \o Both(<<PrintIndexed>>)
MCForPrograms == <<>> \o ForAll(MCForWritten, LAMBDA tree : SpellBlock(tree, 0))

\* "for" is iteration (SPEC.md:117): a for over a vector whose body shows the
\* element has shown every one of them when the program stops.
EveryElementShown == ~ Running => {IntV(4), IntV(5)} \subseteq ToSet(output)
=============================================================================
