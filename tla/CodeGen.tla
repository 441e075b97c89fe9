------------------------------ MODULE CodeGen ------------------------------
(***************************************************************************)
(* src/compiler/compiler.zig: from a syntax tree to bytecode.              *)
(*                                                                         *)
(* The source has every construct twice, for the top-level code            *)
(* (compileLet, ...) and for function bodies (compileStmtToChunk, ...). They*)
(* differ in how a register is allocated, in what a let gives back and in  *)
(* where a for keeps its vector; `top` says which of the two is meant.     *)
(*                                                                         *)
(* An instruction is <<op, a, b, c>>.  A constant stands in the instruction*)
(* instead of in the chunk's table, and load_true, load_false and load_nil *)
(* are load_const of their value.  Positions count from 0, as pc does.     *)
(***************************************************************************)
EXTENDS Ast

(***************************************************************************)
(* The state of a compilation: the code so far, the locals and their slots *)
(* in the order of declaration, the next free register and the highest it  *)
(* has been, the enclosing loops and what each jumps out from, the register*)
(* of the expression compiled last, and whether something could not be     *)
(* compiled.                                                               *)
(***************************************************************************)
Compilation(top, params) ==
  [code |-> <<>>, locals |-> [i \in 1 .. Len(params) |-> <<params[i], i - 1>>],
   regs |-> Len(params), most |-> Len(params), loops |-> <<>>, reg |-> 0,
   funs |-> <<>>, top |-> top, failed |-> FALSE]

Emit(k, op, a, b, c) == [k EXCEPT !.code = Append(@, <<op, a, b, c>>)]
Here(k) == Len(k.code)
Fail(k) == [k EXCEPT !.failed = TRUE]

Slots(k) == {k.locals[i][2] : i \in 1 .. Len(k.locals)}
IsLocal(k, x) == \E i \in 1 .. Len(k.locals) : k.locals[i][1] = x
\* The map of locals keeps the last slot of a name.
SlotOf(k, x) == LET last == CHOOSE i \in 1 .. Len(k.locals) :
                              /\ k.locals[i][1] = x
                              /\ \A j \in i + 1 .. Len(k.locals) : k.locals[j][1] # x
                IN  k.locals[last][2]
AddLocal(k, x, slot) == [k EXCEPT !.locals = Append(@, <<x, slot>>)]

\* The register allocated is left in `reg`.  The top-level code steps over
\* registers that are locals; a function body takes the next one.
AllocReg(k) ==
  LET r == IF k.top
             THEN CHOOSE r \in k.regs .. k.regs + Len(k.locals) :
                    r \notin Slots(k) /\ k.regs .. r - 1 \subseteq Slots(k)
             ELSE k.regs
  IN  [k EXCEPT !.regs = r + 1, !.reg = r, !.most = Max({@, r + 1})]

\* The first register above all locals.
AboveLocals(k) == IF k.locals = <<>> THEN 0
                  ELSE 1 + CHOOSE s \in Slots(k) : \A t \in Slots(k) : t <= s

\* Faulty variant: one instruction too far.
PatchJumpPast(k, at, target) == [k EXCEPT !.code[at + 1][3] = target - at + 1]

\* Jumps are relative to the jump's own position.
PatchJump(k, at, target) == [k EXCEPT !.code[at + 1][3] = target - at]
PatchAll(k, ats) == Each(LAMBDA n, at : PatchJump(n, at, Here(n)), k, ats)

-----------------------------------------------------------------------------
(* Expressions *)

Positions(s) == [i \in 1 .. Len(s) |-> i]

RECURSIVE CompileExpr(_, _)

\* Load x into a new register.
LoadNew(k, op, x) == With(AllocReg(k), LAMBDA n : Emit(n, op, n.reg, x, 0))

CompileIdent(k, x) == IF IsLocal(k, x) THEN LoadNew(k, "load_local", SlotOf(k, x))
                      ELSE LoadNew(k, "load_global", x)

CompileBinary(k, e) ==
  With(CompileExpr(k, e.left), LAMBDA l :
  With(CompileExpr(l, e.right), LAMBDA r :
    [Emit(r, e.op, l.reg, l.reg, r.reg) EXCEPT !.regs = @ - 1, !.reg = l.reg]))

CompileUnary(k, op, e) == With(CompileExpr(k, e), LAMBDA o : Emit(o, op, o.reg, 0, 0))

\* Faulty variant: an argument stays where its value was computed.
CompileArgInPlace(k, e, expected) == CompileExpr(k, e)

\* The i-th argument goes to the i-th register above the callee's.
CompileArg(k, e, expected) ==
  With(CompileExpr(k, e), LAMBDA a :
    IF a.reg = expected THEN a
    ELSE [Emit(a, "move", expected, a.reg, 0) EXCEPT !.regs = a.reg])

CompileCall(k, e) ==
  IF CalleeName(e.callee) = "" THEN Fail(k) ELSE
  With(LoadNew(k, "load_global", CalleeName(e.callee)), LAMBDA callee :
  With(Each(LAMBDA a, i : CompileArg(a, e.args[i], callee.reg + i), callee, Positions(e.args)),
       LAMBDA args : With(AllocReg(args), LAMBDA result :
    Emit(result, "call", result.reg, callee.reg, Len(e.args)))))

\* An assignment to anything but a name is compiled to nothing.
CompileAssign(k, e) ==
  With(CompileExpr(k, e.value), LAMBDA v :
    CASE e.target.node # "ident"      -> v
      [] IsLocal(k, e.target.name)    -> Emit(v, "store_local", v.reg, SlotOf(k, e.target.name), 0)
      [] OTHER                        -> Emit(v, "store_global", v.reg, e.target.name, 0))

CompileVec(k, e) ==
  With(LoadNew(k, "new_vec", Len(e.items)), LAMBDA vec :
    [Each(LAMBDA a, i : With(CompileExpr(a, e.items[i]), LAMBDA item :
            [Emit(item, "vec_set", vec.reg, i, item.reg) EXCEPT !.regs = @ - 1]),
          vec, Positions(e.items)) EXCEPT !.reg = vec.reg])

CompileIndex(k, e) ==
  With(CompileExpr(k, e.object), LAMBDA o :
  With(CompileExpr(o, e.idx), LAMBDA i :
  With(AllocReg(i), LAMBDA r : Emit(r, "index_get", r.reg, o.reg, i.reg))))

\* struct_set finds the value in the register above the struct's.
CompileStruct(k, e) ==
  With(LoadNew(k, "new_struct", 0), LAMBDA struct :
    [Each(LAMBDA a, f : Emit(CompileArg(a, f[2], struct.reg + 1), "struct_set", struct.reg, f[1], 0),
          struct, e.fields) EXCEPT !.regs = struct.reg + 1, !.reg = struct.reg])

CompileField(k, e) ==
  With(CompileExpr(k, e.object), LAMBDA o : Emit(o, "get_field", o.reg, o.reg, e.name))

CompileTree(k, e) ==
  CASE e.node = "lit"        -> LoadNew(k, "load_const", e.value)
    [] e.node = "ident"      -> CompileIdent(k, e.name)
    [] e.node = "binary"     -> CompileBinary(k, e)
    [] e.node = "unary"      -> CompileUnary(k, e.op, e.operand)
    [] e.node = "call"       -> CompileCall(k, e)
    [] e.node = "assign"     -> CompileAssign(k, e)
    [] e.node = "vec_lit"    -> CompileVec(k, e)
    [] e.node = "index"      -> CompileIndex(k, e)
    [] e.node = "struct_lit" -> CompileStruct(k, e)
    [] e.node = "field"      -> CompileField(k, e)
    [] e.node = "try_expr"   -> CompileUnary(k, "try_prop", e.operand)

CompileExpr(k, e) == With(e, LAMBDA tree : CompileTree(k, tree))

-----------------------------------------------------------------------------
(* Statements *)

RECURSIVE CompileStmt(_, _)

CompileStmts(k, stmts) == Each(CompileStmt, k, stmts)

\* The top-level code gives the value's register and all above it back, the
\* local's own among them; AllocReg will step over that one.
CompileLet(k, x, e) ==
  With(CompileExpr(k, e), LAMBDA v :
  With(AllocReg(v), LAMBDA slot :
    [AddLocal(Emit(slot, "move", slot.reg, v.reg, 0), x, slot.reg)
       EXCEPT !.regs = IF k.top THEN v.reg ELSE @]))

CompileDeclare(k, x) ==
  With(LoadNew(k, "load_const", Nil), LAMBDA slot : AddLocal(slot, x, slot.reg))

\* The registers above the last local are free again after an expression.
CompileExprStmt(k, e) ==
  With(CompileExpr(k, e), LAMBDA v : [v EXCEPT !.regs = AboveLocals(v)])

CompileRet(k, e) == With(CompileExpr(k, e), LAMBDA v : Emit(v, "ret", v.reg, 0, 0))

\* One condition and its block, and the jump to the end, which `ends` remembers.
CompileBranch(b, branch) ==
  With(CompileExpr(b.k, branch[1]), LAMBDA cond :
  With(CompileStmts(Emit(cond, "jump_if_false", cond.reg, 0, 0), branch[2]), LAMBDA body :
    [k |-> PatchJump(Emit(body, "jump", 0, 0, 0), Here(cond), Here(body) + 1),
     ends |-> Append(b.ends, Here(body))]))

CompileIf(k, s) ==
  With(Each(CompileBranch, [k |-> k, ends |-> <<>>], s.branches), LAMBDA chain :
    PatchAll(CompileStmts(chain.k, s.otherwise), chain.ends))

OpenLoop(k, start) == [k EXCEPT !.loops = Append(@, [start |-> start, exits |-> <<>>])]

\* Faulty variant: the jumps out keep their placeholder, a jump to themselves.
CloseLoopUnpatched(k) == [Emit(k, "jump", 0, Last(k.loops).start - Here(k), 0)
                            EXCEPT !.loops = Front(@)]

\* The jump back, and the end of the jumps out.
CloseLoop(k) == [PatchAll(Emit(k, "jump", 0, Last(k.loops).start - Here(k), 0), Last(k.loops).exits)
                   EXCEPT !.loops = Front(@)]

CompileLoop(k, body) == With(CompileStmts(OpenLoop(k, Here(k)), body), CloseLoop)

\* A function body keeps the vector in a register taken before it is computed.
CompileIterable(k, e) ==
  IF k.top THEN CompileExpr(k, e)
  ELSE With(AllocReg(k), LAMBDA iter :
       With(CompileExpr(iter, e), LAMBDA v :
         [Emit(v, "move", iter.reg, v.reg, 0) EXCEPT !.regs = @ - 1, !.reg = iter.reg]))

\* The test of a for over the vector in register iter, with its variable in var;
\* it ends where the body's code starts, after the jump to patch.
ForTest(k, iter, var, idx) ==
  With(LoadNew(k, "index_len", iter), LAMBDA len :
  With(AllocReg(len), LAMBDA cmp :
    Emit(Emit(Emit(cmp, "lt", cmp.reg, idx, len.reg), "jump_if_false", cmp.reg, 0, 0),
         "index_get", var, iter, idx)))

\* The end of a for: its index is one more.
ForNext(k, idx) ==
  With(LoadNew(k, "load_const", IntV(1)), LAMBDA one : Emit(one, "add", idx, idx, one.reg))

CompileFor(k, s) ==
  With(CompileIterable(k, s.iterable), LAMBDA iter :
  With(AllocReg(iter), LAMBDA var :
  With(LoadNew(AddLocal(var, s.name, var.reg), "load_const", IntV(0)), LAMBDA idx :
  With(ForTest(idx, iter.reg, var.reg, idx.reg), LAMBDA test :
  With(CompileStmts(OpenLoop(test, Here(idx)), s.body), LAMBDA body :
  With(CloseLoop(ForNext([body EXCEPT !.regs = test.regs], idx.reg)), LAMBDA done :
    PatchJump(done, Here(test) - 2, Here(done))))))))

CompileContinue(k) == IF k.loops = <<>> THEN Fail(k)
                      ELSE Emit(k, "jump", 0, Last(k.loops).start - Here(k), 0)

CompileEsc(k) == IF k.loops = <<>> THEN Fail(k)
                 ELSE Emit([k EXCEPT !.loops[Len(k.loops)].exits = Append(@, Here(k))],
                           "jump", 0, 0, 0)

\* A function's body is compiled on its own; at the end it returns nil.  The
\* function itself becomes a global.  Functions do not nest.
CompileFun(k, s) ==
  With(CompileStmts(Compilation(FALSE, s.params), s.body), LAMBDA body :
  With(LoadNew(k, "load_const", <<"fun", s.name>>), LAMBDA fun :
    IF ~ k.top \/ body.failed THEN Fail(k)
    ELSE [Emit(fun, "store_global", fun.reg, s.name, 0) EXCEPT
            !.regs = @ - 1, !.most = Max({@, body.most}),
            !.funs = (s.name :> Emit(Emit(body, "load_const", 0, Nil, 0), "ret", 0, 0, 0).code) @@ @]))

CompileStmt(k, s) ==
  CASE s.node = "let"      -> CompileLet(k, s.name, s.value)
    [] s.node = "let_nil"  -> CompileDeclare(k, s.name)
    [] s.node = "expr"     -> CompileExprStmt(k, s.expr)
    [] s.node = "if"       -> CompileIf(k, s)
    [] s.node = "loop"     -> CompileLoop(k, s.body)
    [] s.node = "for"      -> CompileFor(k, s)
    [] s.node = "continue" -> CompileContinue(k)
    [] s.node = "esc"      -> CompileEsc(k)
    [] s.node = "ret"      -> CompileRet(k, s.value)
    [] s.node = "ret_nothing" -> Emit(k, "ret", 0, 0, 0)
    [] s.node = "fun"      -> CompileFun(k, s)
    [] s.node \in {"type_decl", "use"} -> IF k.top THEN k ELSE Fail(k)

\* After each statement of the top-level code the free registers start above
\* the locals.
CompileTopLevel(k, s) ==
  With(CompileStmt(k, s), LAMBDA n :
    [n EXCEPT !.regs = IF @ < AboveLocals(n) THEN AboveLocals(n) ELSE @])

HasMain(stmts) == \E i \in 1 .. Len(stmts) :
                    /\ stmts[i].node = "fun" /\ stmts[i].public
                    /\ stmts[i].name = "main" /\ stmts[i].params = <<>>

\* The compiled program: the code of every function and of the top level, and how many
\* registers the compiler counted for one of them.
Compile(stmts) ==
  With(Each(CompileTopLevel, Compilation(TRUE, <<>>), stmts), LAMBDA body :
  With(IF HasMain(stmts) THEN CompileCall(body, CallTo(Ident("main"), <<>>)) ELSE body, LAMBDA called :
    [failed |-> body.failed, most |-> called.most,
     chunk  |-> (Script :> Emit(called, "halt", 0, 0, 0).code) @@ body.funs]))
=============================================================================
