------------------------------ MODULE Meaning ------------------------------
(***************************************************************************)
(* What an m4 program means, statement by statement: the reference that    *)
(* compiled programs are compared with.  No registers, no jumps: variables *)
(* are a function from names to values, a call evaluates the body with the *)
(* parameters as its only variables, and strings, vectors and structs are  *)
(* values (so two vectors are equal here if their elements are).           *)
(***************************************************************************)
EXTENDS Ast

CONSTANT MaxDepth \* how many calls, the top-level code among them, may be active

(***************************************************************************)
(* The state of an evaluation: variables, globals and functions, the output*)
(* so far, the value of the expression evaluated last, how many calls are  *)
(* active, and how it goes on: "run", or "esc", "continue", "ret" on the   *)
(* way out of a loop or a function, or the code of an error.               *)
(***************************************************************************)
Beginning == [vars |-> <<>>, globals |-> <<>>,
              funs |-> <<>>, out |-> <<>>, val |-> Nil, depth |-> 1, how |-> "run"]

Put(f, x, v) == [y \in DOMAIN f \cup {x} |-> IF y = x THEN v ELSE f[y]]

Goes(m) == m.how = "run"
Give(m, v) == IF ~ Goes(m) THEN m
              ELSE IF IsError(v) THEN [m EXCEPT !.how = v[2]] ELSE [m EXCEPT !.val = v]

\* step(m), unless m is on the way out of something.
Then(m, step(_)) == With(m, LAMBDA n : IF Goes(n) THEN step(n) ELSE n)

Lookup(m, x) == IF x \in DOMAIN m.vars THEN m.vars[x]
                ELSE IF x \in DOMAIN m.globals THEN m.globals[x] ELSE Error("r001")

RECURSIVE Evaluate(_, _), Run(_, _), Repeat(_, _), Choose(_, _, _)

RunAll(m, stmts) == Each(Run, m, stmts)

\* Several expressions, from left to right, and their values.
EvaluateAll(m, es) ==
  Each(LAMBDA a, e : With(Evaluate(a.m, e), LAMBDA n : [m |-> n, vals |-> Append(a.vals, n.val)]),
       [m |-> m, vals |-> <<>>], es)

\* What becomes of the values of several expressions, unless there was an error.
Combine(m, es, value(_)) ==
  With(EvaluateAll(m, es), LAMBDA a : IF Goes(a.m) THEN Give(a.m, value(a.vals)) ELSE a.m)

\* Back from a function that was called with the variables of m.
Back(m, n) == [n EXCEPT !.vars = m.vars, !.depth = m.depth,
                        !.val = IF n.how = "ret" THEN @ ELSE Nil,
                        !.how = IF @ = "ret" THEN "run" ELSE @]

CallNamed(m, f, args) ==
  CASE f[1] = "native" -> Give(IF f[2] = "std.print" THEN [m EXCEPT !.out = @ \o [i \in 1 .. Len(args) |-> WriteValue(args[i])]] ELSE m,
                               NativeResult(f[2], args))
    [] f[1] = "fun" /\ m.depth = MaxDepth -> Give(m, Error("r006"))
    [] f[1] = "fun" /\ m.depth < MaxDepth ->
         LET fun == m.funs[f[2]]
             params == [x \in ToSet(fun.params) |->
                          args[CHOOSE i \in 1 .. Len(args) : fun.params[i] = x]]
         IN  With(RunAll([m EXCEPT !.vars = params, !.depth = @ + 1], fun.body),
                  LAMBDA n : Back(m, n))
    [] OTHER -> Give(m, Error("r007"))

Store(m, x, v) == IF x \in DOMAIN m.vars THEN [m EXCEPT !.vars[x] = v]
                  ELSE [m EXCEPT !.globals = Put(@, x, v)]

\* The fields of a literal, each with its value.
FieldsOf(e, vals) == [f \in {e.fields[i][1] : i \in 1 .. Len(e.fields)} |->
                        vals[CHOOSE i \in 1 .. Len(e.fields) : e.fields[i][1] = f]]

EvaluateTree(m, e) ==
  CASE ~ Goes(m)           -> m
    [] e.node = "lit"      -> Give(m, e.value)
    [] e.node = "ident"    -> Give(m, Lookup(m, e.name))
    [] e.node = "binary"   -> Combine(m, <<e.left, e.right>>,
                                      LAMBDA vals : BinaryResult(e.op, vals[1], vals[2]))
    [] e.node = "unary"    -> Combine(m, <<e.operand>>, LAMBDA vals : UnaryResult(e.op, vals[1]))
    [] e.node = "try_expr" -> Combine(m, <<e.operand>>,
                                      LAMBDA vals : UnaryResult("try_prop", vals[1]))
    [] e.node = "vec_lit"  -> Combine(m, e.items, LAMBDA vals : <<"vec", vals>>)
    [] e.node = "index"    -> Combine(m, <<e.object, e.idx>>,
                                      LAMBDA vals : ElementOf(vals[1], vals[2]))
    [] e.node = "field"    -> Combine(m, <<e.object>>, LAMBDA vals : FieldOf(vals[1], e.name))
    [] e.node = "struct_lit" -> Combine(m, [i \in 1 .. Len(e.fields) |-> e.fields[i][2]],
                                        LAMBDA vals : <<"struct", FieldsOf(e, vals)>>)
    [] e.node = "assign"   -> Then(Evaluate(m, e.value), LAMBDA n : Store(n, e.target.name, n.val))
    [] e.node = "call"     ->
         IF CalleeName(e.callee) \notin DOMAIN m.globals THEN Give(m, Error("r001"))
         ELSE With(EvaluateAll(m, e.args), LAMBDA a :
                IF Goes(a.m) THEN CallNamed(a.m, m.globals[CalleeName(e.callee)], a.vals) ELSE a.m)

Evaluate(m, e) == With(e, LAMBDA tree : EvaluateTree(m, tree))

\* The first branch whose condition holds, or the else block.
Choose(m, branches, otherwise) ==
  IF branches = <<>> THEN RunAll(m, otherwise)
  ELSE Then(Evaluate(m, Head(branches)[1]), LAMBDA n :
         IF Truthy(n.val) THEN RunAll(n, Head(branches)[2])
         ELSE Choose(n, Tail(branches), otherwise))

\* One round of a loop is over: a continue is done with.
Round(m) == IF m.how = "continue" THEN [m EXCEPT !.how = "run"] ELSE m
\* A loop is over: an esc is done with.
Left(m) == IF m.how = "esc" THEN [m EXCEPT !.how = "run"] ELSE m

Repeat(m, body) == With(With(RunAll(m, body), Round), LAMBDA n :
                     IF Goes(n) THEN Repeat(n, body) ELSE Left(n))

Items(v) == IF v[1] = "str" THEN [i \in 1 .. Len(v[2]) |-> <<"char", v[2][i]>>] ELSE v[2]

\* The body once for every item, until one leaves the loop.
ForEach(m, s) ==
  Then(Evaluate(m, s.iterable), LAMBDA n :
    IF IsError(LengthOf(n.val)) THEN Give(n, LengthOf(n.val))
    ELSE With(Each(LAMBDA k, v : IF Goes(k) THEN With(RunAll([k EXCEPT !.vars = Put(@, s.name, v)], s.body), Round)
                                 ELSE k,
                   n, Items(n.val)),
              Left))

Run(m, s) ==
  CASE ~ Goes(m)             -> m
    [] s.node = "let"        -> Then(Evaluate(m, s.value), LAMBDA n :
                                       [n EXCEPT !.vars = Put(@, s.name, n.val)])
    [] s.node = "let_nil"    -> [m EXCEPT !.vars = Put(@, s.name, Nil)]
    [] s.node = "expr"       -> Evaluate(m, s.expr)
    [] s.node = "if"         -> Choose(m, s.branches, s.otherwise)
    [] s.node = "loop"       -> Repeat(m, s.body)
    [] s.node = "for"        -> ForEach(m, s)
    [] s.node \in {"continue", "esc"} -> [m EXCEPT !.how = s.node]
    [] s.node = "ret"        -> Then(Evaluate(m, s.value), LAMBDA n : [n EXCEPT !.how = "ret"])
    [] s.node = "ret_nothing" -> [m EXCEPT !.how = "ret", !.val = Nil]
    [] s.node = "fun"        -> [m EXCEPT !.funs = Put(@, s.name, s),
                                          !.globals = Put(@, s.name, <<"fun", s.name>>)]
    [] OTHER                 -> m

-----------------------------------------------------------------------------
(* Programs *)

RECURSIVE Accepted(_, _, _)

\* Loop keywords stand in a loop of the same function; functions do not nest, and
\* types and modules are declared outside of them.
Accepted(stmts, inLoop, inFun) ==
  \A i \in 1 .. Len(stmts) :
    LET s == stmts[i]
    IN  CASE s.node \in {"continue", "esc"} -> inLoop
          [] s.node = "fun" -> ~ inFun /\ Accepted(s.body, FALSE, TRUE)
          [] s.node \in {"type_decl", "use"} -> ~ inFun
          [] s.node \in {"loop", "for"} -> Accepted(s.body, TRUE, inFun)
          [] s.node = "if" -> /\ Accepted(s.otherwise, inLoop, inFun)
                              /\ \A j \in 1 .. Len(s.branches) :
                                   Accepted(s.branches[j][2], inLoop, inFun)
          [] OTHER -> TRUE

\* A public main without parameters is called after the last statement.
CallMain(m) ==
  IF "main" \in DOMAIN m.funs /\ m.funs["main"].public /\ m.funs["main"].params = <<>>
    THEN CallNamed(m, m.globals["main"], <<>>) ELSE m

\* A program's output and how it ends.
MeaningOf(stmts) ==
  IF ~ Accepted(stmts, FALSE, FALSE) THEN [out |-> <<>>, how |-> "not_compiled"]
  ELSE With(Then(RunAll([Beginning EXCEPT !.globals = Registered(stmts)], stmts), CallMain),
            LAMBDA n : [out |-> n.out,
                        how |-> CASE n.how = "run" -> "halted"
                                  [] n.how = "ret" -> "returned"
                                  [] OTHER -> n.how])
=============================================================================
