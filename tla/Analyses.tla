------------------------------ MODULE Analyses ------------------------------
(***************************************************************************)
(* What the passes know of a function, computed by passes of their own:    *)
(* the order of the blocks, predecessors and dominators (src/qbe/cfg.c);   *)
(* definitions and uses of the temporaries (src/qbe/ssa.c); which          *)
(* temporaries a block needs on entry and provides on exit, and how many   *)
(* registers it needs at its worst point (src/qbe/live.c).  Loops and      *)
(* recursive functions of the code are Each and While, so that what they   *)
(* compute can be proved (AnalysesProofs).                                 *)
(***************************************************************************)
EXTENDS Abi

Max2(a, b) == IF a > b THEN a ELSE b

\* porec on the path of blocks whose calls have not returned, the innermost last.
\* next[b] is the successor b visits next: 0 before b is entered, 3 when it has
\* none left, 4 when it has returned.  Of two successors the one in fewer loops is
\* the first.
Visited(fn, b) ==
    LET blk == fn.blk[b]
    IN IF blk.s1 # 0 /\ blk.s2 # 0 /\ fn.loop[blk.s1] > fn.loop[blk.s2]
       THEN <<blk.s2, blk.s1>> ELSE <<blk.s1, blk.s2>>
Porec(fn, po) ==
    LET b == po.path[Len(po.path)]
        k == po.next[b]
        s == Visited(fn, b)[k]
    IN IF k = 3 THEN [next |-> [po.next EXCEPT ![b] = 4], path |-> Front(po.path), order |-> Append(po.order, b)]
       ELSE IF s = 0 THEN [po EXCEPT !.next[b] = k + 1]
       ELSE IF po.next[s] # 0 THEN [po EXCEPT !.next[b] = k + 1]
       ELSE [po EXCEPT !.next = [@ EXCEPT ![b] = k + 1, ![s] = 1], !.path = Append(@, s)]
Postorder(fn) ==
    LET B == DOMAIN fn.blk
    IN While([next : [B -> 0 .. 4], path : Seq(B), order : Seq(B)], LAMBDA po : po.path # <<>>,
             LAMBDA po : Porec(fn, po),
             [next |-> [b \in B |-> IF b = Start(fn) THEN 1 ELSE 0], path |-> <<Start(fn)>>, order |-> <<>>]).order

\* fillrpo: numbers the blocks, drops the unreachable ones from the list.
FillRpo(fn) ==
    With(Reverse(Postorder(fn)), LAMBDA rpo :
      [fn EXCEPT !.rpo = rpo,
                 !.id = [b \in DOMAIN fn.blk |-> SelectInSeq(rpo, LAMBDA x : x = b) - 1],
                 !.link = Kept(@, Range(rpo))])

\* Faulty variant: a block that jumps twice to the same place counts twice.
FillPredsTwice(fn) ==
    [fn EXCEPT !.pred = [b \in DOMAIN fn.blk |->
        FlattenSeq([n \in DOMAIN fn.link |->
          LET at == SelectSeq(Succs(fn.blk[fn.link[n]]), LAMBDA s : s = b) IN [k \in DOMAIN at |-> fn.link[n]]])]]
\* fillpreds: a block that jumps twice to the same place counts once.
FillPreds(fn) ==
    [fn EXCEPT !.pred = [b \in DOMAIN fn.blk |->
        Kept(fn.link, {p \in DOMAIN fn.blk : b \in {fn.blk[p].s1, fn.blk[p].s2}})]]

\* fixphis: an argument whose block is gone or no longer jumps here is dropped.
FixPhis(fn) ==
    LET stays(b, f) == fn.id[f[1]] >= 0 /\ b \in {fn.blk[f[1]].s1, fn.blk[f[1]].s2}
        fixed(b, p) == [p EXCEPT !.from = Kept(@, {f \in Range(@) : stays(b, f)})]
    IN [fn EXCEPT !.blk = [b \in DOMAIN fn.blk |->
          IF fn.id[b] < 0 THEN fn.blk[b]
          ELSE [fn.blk[b] EXCEPT !.phi = [n \in DOMAIN @ |-> fixed(b, @[n])]]]]

FillCfg(fn) == With(FillRpo(fn), LAMBDA f : With(FillPreds(f), LAMBDA g : FixPhis(g)))

-----------------------------------------------------------------------------
\* inter: the deepest block above both in the tree idom being built.
Nearer(fn, idom, p) == IF fn.id[p[1]] < fn.id[p[2]] THEN <<p[1], idom[p[2]]>> ELSE <<idom[p[1]], p[2]>>
Inter(fn, idom, b1, b2) ==
    LET B == DOMAIN fn.blk
    IN IF b1 = 0 THEN b2
       ELSE While(B \X B, LAMBDA p : p[1] # p[2], LAMBDA p : Nearer(fn, idom, p), <<b1, b2>>)[1]

\* One turn of filldom's loop: every block but the first, in order, is below its
\* predecessors as far as they are known.
Meet(fn, idom, above, p) == IF idom[p] # 0 \/ p = Start(fn) THEN Inter(fn, idom, above, p) ELSE above
DomStep(fn, idom, b) == [idom EXCEPT ![b] = Each(LAMBDA above, p : Meet(fn, idom, above, p), 0, fn.pred[b])]
DomTurn(fn, d) ==
    With(Each(LAMBDA idom, b : DomStep(fn, idom, b), d.idom, Tail(fn.rpo)), LAMBDA new :
      [idom |-> new, again |-> new # d.idom])
DomFix(fn) ==
    LET B == DOMAIN fn.blk
    IN While([idom : [B -> B \cup {0}], again : BOOLEAN], LAMBDA d : d.again, LAMBDA d : DomTurn(fn, d),
             [idom |-> [b \in B |-> 0], again |-> TRUE]).idom

\* filldom: immediate dominators, and the children of each block in the order
\* the list dom, dlink has them (last found first).
FillDom(fn) ==
    With(DomFix(fn), LAMBDA idom :
      [fn EXCEPT !.idom = idom,
                 !.dom = [d \in DOMAIN fn.blk |-> Reverse(Kept(fn.link, {b \in DOMAIN fn.blk : idom[b] = d}))]])

-----------------------------------------------------------------------------
(* Definitions and uses *)

Use(type, bid, b, at) == [type |-> type, bid |-> bid, b |-> b, at |-> at]
AddUse(tmp, r, u) ==
    IF IsTmp(r) /\ r[2] >= Tmp0 THEN [tmp EXCEPT ![r[2]].use = Append(@, u), ![r[2]].nuse = @ + 1] ELSE tmp

\* phicls: the temporary that stands for the phis t is connected with.
PhiCls(tmp, t) == While(DOMAIN tmp, LAMBDA u : tmp[u].phi # 0, LAMBDA u : tmp[u].phi, t)

WidthOf(i) ==
    LET w == CASE i.op \in DOMAIN LoadWidth -> LoadWidth[i.op]
               [] i.op \in Exts -> ExtWidth[i.op]
               [] i.op \in CmpOps -> "ub"
               [] OTHER -> "full"
    IN IF w \in {"sw", "uw"} /\ i.cls = "w" THEN "full" ELSE w

\* An operand of a phi: it is read, and its phis and this one are one class.
UsePhiArg(u, rep, tmp, f) ==
    IF ~ IsTmp(f[2]) THEN tmp
    ELSE LET c == PhiCls(tmp, f[2][2])
             one == AddUse(tmp, f[2], u)
         IN IF c = rep THEN one ELSE [one EXCEPT ![c].phi = rep]
UsePhi(fn, b, tmp, p) ==
    LET to == p.to[2]
    IN Each(LAMBDA acc, f : UsePhiArg(Use("phi", fn.id[b], b, to), PhiCls(tmp, to), acc, f),
            [tmp EXCEPT ![to].bid = fn.id[b], ![to].ndef = @ + 1, ![to].cls = p.cls], p.from)

UseIns(fn, b, tmp, n) ==
    LET i == fn.blk[b].ins[n]
        t == i.to[2]
        def == IF i.to = R THEN tmp
               ELSE [tmp EXCEPT ![t].width = WidthOf(i), ![t].def = <<b, n>>, ![t].bid = fn.id[b],
                                ![t].ndef = @ + 1, ![t].cls = i.cls]
    IN Each(LAMBDA acc, r : AddUse(acc, r, Use("ins", fn.id[b], b, n)), def, i.arg)

UseBlock(fn, tmp, b) ==
    LET blk == fn.blk[b]
    IN With(Each(LAMBDA acc, p : UsePhi(fn, b, acc, p), tmp, blk.phi), LAMBDA phis :
         With(Each(LAMBDA acc, n : UseIns(fn, b, acc, n), phis, [n \in 1 .. Len(blk.ins) |-> n]), LAMBDA ins :
           AddUse(ins, blk.ja, Use("jmp", fn.id[b], b, 0))))

\* filluse
FillUse(fn) ==
    LET clear == [t \in DOMAIN fn.tmp |->
          IF t < Tmp0 THEN fn.tmp[t]
          ELSE [fn.tmp[t] EXCEPT !.def = <<>>, !.bid = -1, !.ndef = 0, !.nuse = 0, !.cls = "w", !.phi = 0,
                                 !.width = "full", !.use = <<>>]]
    IN [fn EXCEPT !.tmp = Each(LAMBDA tmp, b : UseBlock(fn, tmp, b), clear, fn.link)]

-----------------------------------------------------------------------------
(* Liveness *)

PhiDefs(blk) == {blk.phi[n].to[2] : n \in {m \in DOMAIN blk.phi : IsTmp(blk.phi[m].to)}}
PhiUses(blk, b) == {f[2][2] : f \in {g \in UNION {Range(blk.phi[n].from) : n \in DOMAIN blk.phi} :
                                      g[1] = b /\ IsTmp(g[2])}}
\* Faulty variant: what the phis of s read counts for every edge to s.
LiveOnEveryEdge(fn, in, b, s) == (in[s] \ PhiDefs(fn.blk[s])) \cup UNION {PhiUses(fn.blk[s], p) : p \in DOMAIN fn.blk}
\* liveon: what the end of b needs for the edge to s.
LiveOn(fn, in, b, s) == (in[s] \ PhiDefs(fn.blk[s])) \cup PhiUses(fn.blk[s], b)

\* The temporaries an operand reads: those of its address, if it is one.
TmpsOf(r) == IF r[1] = "mem" THEN {x[2] : x \in {y \in {r[2].base, r[2].index} : IsTmp(y)}}
             ELSE IF IsTmp(r) THEN {r[2]} ELSE {}

\* bset, for each of S: it is read here.
Touch(acc, S) == [acc EXCEPT !.live = @ \cup S, !.gen = @ \cup S, !.nlv = @ + Cardinality(S \ acc.live)]
Peak(acc) == [acc EXCEPT !.peak = Max2(@, acc.nlv)]

\* One instruction, walking backwards.  In the middle of a call every register
\* the callee may change counts as taken.
LiveIns(acc, i) ==
    LET call == i.op = "call" /\ i.arg[2][1] = "call"
        inCall == Peak([acc EXCEPT !.nlv = @ - NRetRegs(i.arg[2]) + Len(CallerSave)])
        before == [inCall EXCEPT !.live = (@ \ RetRegs(i.arg[2])) \cup ArgRegs(i.arg[2]),
                                 !.nlv = @ - Len(CallerSave) + NArgsIn(i.arg[2])]
        def(a) == IF i.to = R THEN a
                  ELSE [a EXCEPT !.live = @ \ {i.to[2]}, !.gen = @ \cup {i.to[2]},
                                 !.nlv = IF i.to[2] \in a.live THEN @ - 1 ELSE @]
    IN With(def(IF call THEN before ELSE acc), LAMBDA a :
         Peak(Touch(a, TmpsOf(i.arg[1]) \cup TmpsOf(i.arg[2]))))

LiveBlock(blk, out) ==
    LET here == out \cup RGlob
        jump == IF blk.ja[1] = "call"
                THEN [live |-> here \cup RetRegs(blk.ja), nlv |-> NRetRegs(blk.ja), gen |-> {}, peak |-> 0]
                ELSE Touch([live |-> here, nlv |-> Cardinality(here), gen |-> {}, peak |-> 0], TmpsOf(blk.ja))
    IN Each(LiveIns, [jump EXCEPT !.peak = jump.nlv], Reverse(blk.ins))

\* One turn of filllive's loop: every block from the last one back.
LiveTurn(fn, l) ==
    LET step(acc, b) ==
          LET out == acc.out[b] \cup UNION {LiveOn(fn, acc.in, b, s) : s \in Range(Succs(fn.blk[b]))}
          IN [acc EXCEPT !.in[b] = LiveBlock(fn.blk[b], out).live, !.out[b] = out \cup RGlob]
    IN With(Each(step, l, Reverse(fn.rpo)), LAMBDA new :
         [new EXCEPT !.again = new.in # l.in \/ new.out # l.out])
LiveFix(fn) ==
    LET none == [b \in DOMAIN fn.blk |-> {}]
        sets == [DOMAIN fn.blk -> SUBSET (DOMAIN fn.tmp)]
    IN While([in : sets, out : sets, again : BOOLEAN], LAMBDA l : l.again, LAMBDA l : LiveTurn(fn, l),
             [in |-> none, out |-> none, again |-> TRUE])

\* filllive.  The code fills gen and nlive in every turn; what remains is what the
\* last turn finds, which changes nothing else.
LiveResult(fn, l) ==
    With([b \in Range(fn.rpo) |-> LiveBlock(fn.blk[b], l.out[b])], LAMBDA at :
      [fn EXCEPT !.in = l.in, !.out = l.out,
                 !.gen = [b \in DOMAIN fn.blk |-> IF b \notin DOMAIN at THEN {}
                            ELSE at[b].gen \cup UNION {PhiUses(fn.blk[s], b) : s \in Range(Succs(fn.blk[b]))}],
                 !.nlive = [b \in DOMAIN fn.blk |-> IF b \notin DOMAIN at THEN 0 ELSE at[b].peak]])
FillLive(fn) == With(LiveFix(fn), LAMBDA l : LiveResult(fn, l))
=============================================================================
