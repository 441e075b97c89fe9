------------------------------ MODULE RegAlloc ------------------------------
(***************************************************************************)
(* Spilling (src/qbe/spill.c): costs of the temporaries, then, block by    *)
(* block from the last one and inside each from its end, which temporaries *)
(* stay in registers and where the others are stored and loaded again.     *)
(* The record a below carries the function, the set v of temporaries in    *)
(* registers at the point reached, the code emitted so far and the next    *)
(* free slots of four and of eight bytes.                                  *)
(*                                                                         *)
(* Register allocation (src/qbe/rega.c).  Blocks are visited from the      *)
(* innermost loops out and each from its end; a map says which register    *)
(* holds which temporary at the point reached.  Where the maps of the two  *)
(* ends of an edge differ, a parallel move is emitted on it.               *)
(***************************************************************************)
EXTENDS Ssa

\* fillcost, aggreg: a loop header gets what its loop touches and needs.  A
\* temporary costs the weight of the loop for every place it is read or written.
FillCost(fn) ==
    LET body(b) == IF \E p \in Range(fn.pred[b]) : fn.id[p] >= fn.id[b] THEN LoopBlocks(fn, b) \cup {b} ELSE {b}
        operands(r) == IF r[1] = "mem" THEN <<r[2].base, r[2].index>> ELSE <<r>>
        use(acc, r, by, n) == IF ~ IsTmp(r) \/ IsReg(r) THEN acc
                              ELSE [acc EXCEPT ![r[2]] = [@ EXCEPT !.nuse = @ + by, !.ndef = @ + 1 - by, !.cost = @ + n]]
        uses(acc, rs, n) == Each(LAMBDA x, r : use(x, r, 1, n), acc, rs)
        phi(acc, p) ==
          Each(LAMBDA x, f : [use(x, f[2], 1, fn.loop[f[1]]) EXCEPT ![p.to[2]].cost = @ + fn.loop[f[1]]],
               use(acc, p.to, 0, 0), p.from)
        ins(acc, i, n) == uses(use(acc, i.to, 0, n), operands(i.arg[1]) \o operands(i.arg[2]), n)
        block(acc, b) ==
          LET n == fn.loop[b]
          IN use(Each(LAMBDA x, i : ins(x, i, n), Each(phi, acc, fn.blk[b].phi), fn.blk[b].ins), fn.blk[b].ja, 1, n)
        fresh == [t \in DOMAIN fn.tmp |-> [fn.tmp[t] EXCEPT !.cost = 0, !.nuse = 0, !.ndef = 0]]
    IN [fn EXCEPT !.gen = [b \in DOMAIN fn.blk |-> UNION {@[x] : x \in body(b)}],
                  !.nlive = [b \in DOMAIN fn.blk |-> Max({@[x] : x \in body(b)})],
                  !.tmp = Each(block, fresh, fn.link)]

\* slot: where t is stored.  Eight-byte slots leave at most one hole of four bytes.
NewSlot(a, t) ==
    LET full == a.slot4 = a.slot8
        wide == a.fn.tmp[t].cls = "l"
        s == a.fn.slot + (IF wide THEN a.slot8 ELSE a.slot4)
    IN CASE a.fn.tmp[t].slot # -1 -> a
         [] t < Tmp0 -> [a EXCEPT !.fn.err = "cannot spill register"]
         [] wide -> [a EXCEPT !.fn.tmp[t].slot = s, !.slot8 = @ + 2, !.slot4 = IF full THEN @ + 2 ELSE @]
         [] OTHER -> [a EXCEPT !.fn.tmp[t].slot = s, !.slot8 = IF full THEN @ + 2 ELSE @,
                               !.slot4 = IF full THEN @ + 1 ELSE a.slot8]
SlotOf(a, t) == a.fn.tmp[t].slot

\* limit: v becomes at most k of S, those of first before the others, then the
\* costliest; equals, which qsort orders as it likes, by their number.
Limit(a, S, k, first) ==
    LET cost(t) == a.fn.tmp[t].cost
        before(x, y) == CASE (x \in first) # (y \in first) -> x \in first
                          [] (x < Tmp0) # (y < Tmp0) -> x < Tmp0
                          [] x >= Tmp0 /\ cost(x) # cost(y) -> cost(x) > cost(y)
                          [] OTHER -> x < y
        order == InOrder(S, before)
        keep == Max({k, 0})
    IN IF Cardinality(S) <= k THEN [a EXCEPT !.v = S]
       ELSE [Each(NewSlot, a, SubSeq(order, keep + 1, Len(order))) EXCEPT !.v = Range(SubSeq(order, 1, keep))]
\* Faulty variant: one more stays than there is room for.
Limit2Over(a, k, first) == Limit(a, a.v, NGpr + 1 - k, first)
\* limit2: k registers are taken.
Limit2(a, k, first) == Limit(a, a.v, NGpr - k, first)

Temps(S) == {t \in S : t >= Tmp0}
Ascending(S) == InOrder(S, <)
\* sethint: what is in a register now had better not be in one of r.
AvoidRegs(a, r) ==
    LET cls == {PhiCls(a.fn.tmp, t) : t \in Temps(a.v)}
    IN [a EXCEPT !.fn.tmp = [t \in DOMAIN @ |-> IF t \in cls THEN [@[t] EXCEPT !.hint.m = @ \cup r] ELSE @[t]]]
\* reloads, store
Reloads(a, u) ==
    Each(LAMBDA x, t : EmitAll(x, <<Ins("load", x.fn.tmp[t].cls, Tmp(t), Slot(SlotOf(x, t)), R)>>),
         Each(NewSlot, a, Ascending(Temps(u \ a.v))), Ascending(Temps(u \ a.v)))
Store(a, r) ==
    IF SlotOf(a, r[2]) = -1 THEN a
    ELSE EmitAll(a, <<Ins(IF a.fn.tmp[r[2]].cls = "l" THEN "storel" ELSE "storew", "w", R, r, Slot(SlotOf(a, r[2])))>>)
Take(a, t) == [a EXCEPT !.v = @ \ {t}]

RegCpy(i) == i.op = "copy" /\ IsReg(i.arg[1])
\* The first of the copies from registers that end at the n-th instruction.
FirstRegCpy(ins, n) == CHOOSE j \in 1 .. n : (\A k \in j .. n : RegCpy(ins[k])) /\ (j = 1 \/ ~ RegCpy(ins[j - 1]))

\* dopm: the copies in group as one instruction.  Across the call before them only
\* registers that calls preserve keep their temporaries.
SpillGroup(a, group, call) ==
    LET one(x, i) == LET y == IF i.to # R /\ i.to[2] \in x.v THEN Store(Take(x, i.to[2]), i.to) ELSE x
                     IN [y EXCEPT !.v = @ \cup {i.arg[1][2]}]
        limited(x) == IF call = <<>> THEN Limit2(x, 0, {})
                      ELSE With(Limit2([x EXCEPT !.v = @ \ RetRegs(call[1].arg[2])], Len(CallerSave), {}), LAMBDA y :
                             [y EXCEPT !.v = @ \cup ArgRegs(call[1].arg[2])])
        avoid(x) == IF call = <<>> THEN {t \in x.v : t < Tmp0} ELSE Range(CallerSave)
    IN With(Each(one, a, Reverse(group)), LAMBDA x :
         With(limited(x), LAMBDA y : EmitAll(Reloads(AvoidRegs(y, avoid(y)), x.v), group)))

\* nmem of ops.h: how many operands may stay in memory.
MemArgs(op) == CASE op \in {"add", "sub", "mul", "and", "or", "xor"} -> 2
                 [] op \in {"neg", "sar", "shr", "shl", "swap", "xidiv", "xdiv", "xcmp", "xtest"} -> 1
                 [] OTHER -> 0

\* Any other instruction: its address and as many operands as memory will not do
\* for come first; an operand that is left out is read from its slot.
SpillIns(a, i) ==
    LET dead == i.to # R /\ i.to[2] \notin a.v
        def == IF i.to = R THEN a.v ELSE IF dead THEN a.v \cup {i.to[2]} ELSE a.v \ {i.to[2]}
        mems == {n \in 1 .. 2 : i.arg[n][1] = "mem"}
        tmps == {n \in 1 .. 2 : IsTmp(i.arg[n])}
        inMem == MemArgs(i.op) - Cardinality(mems)      \* the first so many operands may be slots
        must == {n \in tmps : Cardinality({m \in tmps : m < n}) >= inMem}
        tmp(n) == i.arg[n][2]
        address == UNION {TmpsOf(i.arg[n]) : n \in mems}
        w == (IF dead THEN {i.to[2]} ELSE {}) \cup address \cup {tmp(n) : n \in must}
        v == def \cup address \cup {tmp(n) : n \in tmps}
        liveArg(n) == tmp(n) \in def \/ \E m \in 1 .. n - 1 : tmp(n) \in TmpsOf(i.arg[m])
    IN With(Limit2([a EXCEPT !.v = v], 0, w), LAMBDA x :
         LET out == {n \in tmps : tmp(n) \notin x.v}
             j == [i EXCEPT !.arg = [n \in 1 .. 2 |-> IF n \in out THEN Slot(SlotOf(x, tmp(n))) ELSE @[n]]]
             loaded == Reloads(x, v \ {tmp(n) : n \in {m \in out : ~ liveArg(m)}})
             stored == IF i.to = R THEN loaded
                       ELSE IF i.to[2] < Tmp0 THEN Store(loaded, i.to) ELSE Take(Store(loaded, i.to), i.to[2])
         IN LET e == EmitAll(stored, <<j>>) IN AvoidRegs(e, {t \in e.v : t < Tmp0}))

RECURSIVE SpillCode(_, _, _)
SpillCode(a, ins, n) ==
    IF n = 0 THEN a
    ELSE IF ~ RegCpy(ins[n]) THEN With(SpillIns(a, ins[n]), LAMBDA x : SpillCode(x, ins, n - 1))
    ELSE LET first == FirstRegCpy(ins, n)
             call == IF first > 1 /\ ins[first - 1].op = "call" THEN <<ins[first - 1]>> ELSE <<>>
         IN With(SpillGroup(a, SubSeq(ins, first, n), call), LAMBDA x : SpillCode(x, ins, first - 1))

-----------------------------------------------------------------------------
\* What is in registers at the end of b.  Before a jump back to hd: what the loop
\* uses, then what only lives through it as far as the loop leaves registers.
AtBackEdge(a, b, hd) ==
    LET fn == a.fn
        gen == fn.gen[hd] \cup RGlob
        used == fn.out[b] \cap gen
        through == fn.out[b] \ gen
    IN IF Cardinality(used) < NGpr
       THEN [Limit(a, through, NGpr - (fn.nlive[hd] - Cardinality(through)), {}) EXCEPT !.v = @ \cup used]
       ELSE Limit(a, used, NGpr, {})
\* merge: out of a loop nothing that has a slot is loaded.
Merge(a, b, S, s) ==
    [a EXCEPT !.v = @ \cup IF a.fn.loop[b] <= a.fn.loop[s] THEN S ELSE {t \in S : SlotOf(a, t) = -1}]
AtJump(a, b, blk) ==
    LET on(s) == LiveOn(a.fn, a.fn.in, b, s)
        one == Merge([a EXCEPT !.v = {}], b, on(blk.s1), blk.s1)
    IN IF blk.s2 = 0 THEN Limit2(one, 0, on(blk.s1))
       ELSE Limit2(Merge(one, b, on(blk.s2), blk.s2), 0, on(blk.s1) \cap on(blk.s2))
AtEnd(a, b) ==
    LET blk == a.fn.blk[b]
        back == {s \in Range(Succs(blk)) : a.fn.id[s] <= a.fn.id[b]}
    IN CASE back # {} -> AtBackEdge(a, b, CHOOSE s \in back : \A x \in back : a.fn.id[x] <= a.fn.id[s])
         [] blk.s1 # 0 -> AtJump(a, b, blk)
         [] OTHER -> [a EXCEPT !.v = a.fn.out[b] \cup (IF blk.ja[1] = "call" THEN RetRegs(blk.ja) ELSE {})]

\* A phi in a register is stored if it has a slot; one that is not goes to its slot.
SpillPhi(a, b, n) ==
    LET to == a.fn.blk[b].phi[n].to
    IN CASE to[2] \in a.v -> Store(Take(a, to[2]), to)
         [] to[2] \in a.fn.in[b] ->
              With(NewSlot(a, to[2]), LAMBDA x : [x EXCEPT !.fn.blk[b].phi[n].to = Slot(SlotOf(x, to[2]))])
         [] OTHER -> a

SpillBlock(a0, b) ==
    LET ins == a0.fn.blk[b].ins
        atEnd == With(AtEnd([a0 EXCEPT !.out = <<>>], b), LAMBDA x :
                   [Each(NewSlot, x, Ascending(Temps(x.fn.out[b] \ x.v))) EXCEPT !.fn.out[b] = x.v])
        entry == RGlob \cup (IF b = Start(a0.fn) THEN a0.fn.reg ELSE {})
    IN With(SpillCode(atEnd, ins, Len(ins)), LAMBDA x :
         LET atStart == IF {t \in x.v : t < Tmp0} = entry THEN x ELSE [x EXCEPT !.fn.err = "registers at entry"]
         IN With(Each(LAMBDA y, n : SpillPhi(y, b, n), atStart, [n \in DOMAIN x.fn.blk[b].phi |-> n]), LAMBDA y :
              [y EXCEPT !.fn.in[b] = y.v, !.fn.blk[b].ins = y.out]))

\* spill
Spill(fn) ==
    With(Each(SpillBlock, [fn |-> fn, v |-> {}, out |-> <<>>, slot4 |-> 0, slot8 |-> 0], Reverse(fn.rpo)), LAMBDA a :
      [a.fn EXCEPT !.slot = @ + a.slot8 + (IF a.slot8 % 4 = 0 THEN 0 ELSE a.slot8 % 4)])

-----------------------------------------------------------------------------
(* Register allocation *)

\* A map: pairs <<temporary, register>> in the order they were added, the set b of
\* the temporaries and registers in them, and for a register the temporary that
\* would rather be in it.  The record a below holds one as a.m.
NoMap == [pair |-> <<>>, b |-> {}, wait |-> [r \in Registers |-> 0]]
\* rfind
RFind(m, t) == LET n == SelectInSeq(m.pair, LAMBDA p : p[1] = t) IN IF n = 0 THEN -1 ELSE m.pair[n][2]
Holder(m, r) == m.pair[SelectInSeq(m.pair, LAMBDA p : p[2] = r)][1]
NoLoop == 1000000       \* more than any loop weighs
Wrong(a, what) == [a EXCEPT !.fn.err = what]

\* hint, sethint: all temporaries of a phi share their hint.
HintOf(fn, t) == fn.tmp[PhiCls(fn.tmp, t)].hint.r
SetHint(a, t, r) ==
    LET p == PhiCls(a.fn.tmp, t)
        h == a.fn.tmp[p].hint
    IN IF h.r # -1 /\ h.w <= a.loop THEN a
       ELSE [a EXCEPT !.fn.tmp[p].hint = [h EXCEPT !.r = r, !.w = a.loop], !.fn.tmp[t].visit = -1]

\* radd
MapAdd(a, t, r) ==
    IF a.fn.err # "" THEN a
    ELSE IF t \in a.m.b \/ r \in a.m.b \/ (t < Tmp0 /\ t # r) THEN Wrong(a, "register already allocated")
    ELSE [a EXCEPT !.m.pair = Append(@, <<t, r>>), !.m.b = @ \cup {t, r}, !.used = @ \cup {r}]
\* rfree: a.freed is the register, -1 where t has none.
RFree(a, t) ==
    CASE t \notin a.m.b -> [a EXCEPT !.freed = -1]
      [] RFind(a.m, t) = -1 -> Wrong([a EXCEPT !.freed = -1], "no such mapping")
      [] OTHER -> [a EXCEPT !.freed = RFind(a.m, t), !.m.b = @ \ {t, RFind(a.m, t)},
                            !.m.pair = SelectSeq(@, LAMBDA p : p[1] # t)]

\* ralloctry: a register for t, if try is set only the one it had or hopes for.
RAllocTry(a, t, try) ==
    LET free(r) == r # -1 /\ r \notin a.m.b
        had == a.fn.tmp[t].visit
        hint == HintOf(a.fn, t)
        avoid == a.fn.tmp[PhiCls(a.fn.tmp, t)].hint.m
        any == {r \in Registers : free(r)}
        r == CASE free(had) -> had
               [] free(hint) -> hint
               [] any \ avoid # {} -> Min(any \ avoid)
               [] OTHER -> Min(any)
        wait(x) == LET h == HintOf(x.fn, t) IN IF h \in {-1, r} THEN x ELSE [x EXCEPT !.m.wait[h] = t]
    IN CASE t < Tmp0 \/ t \in a.m.b -> a
         [] ~ free(had) /\ ~ free(hint) /\ (try \/ any = {}) -> IF try THEN a ELSE Wrong(a, "no more regs")
         [] OTHER -> wait([SetHint(MapAdd(a, t, r), t, r) EXCEPT !.fn.tmp[t].visit = r])
RAlloc(a, t) == RAllocTry(a, t, FALSE)
\* The register an operand is in, given that it has been allocated.
RegOf(m, t) == IF t < Tmp0 THEN t ELSE RFind(m, t)
\* rref: where t is, its slot if it is in no register.
RRef(fn, m, t) == IF RFind(m, t) = -1 THEN Slot(fn.tmp[t].slot) ELSE Tmp(RFind(m, t))

-----------------------------------------------------------------------------
\* pmrec: the i-th move of a parallel move, after those that read its target.  p.c
\* is the move a cycle started with, while the cycle is being emitted.
Move(src, dst, cls) == [src |-> src, dst |-> dst, cls |-> cls]
RECURSIVE PmRec(_, _)
PmRec(p, i) ==
    LET x == p.pm[i]
        j == SelectInSeq(p.pm, LAMBDA y : y.dst = x.src)
        k == IF x.cls = "l" THEN "l" ELSE p.k
        q == [p EXCEPT !.k = k]
        emit(y, code) == [y EXCEPT !.out = <<code>> \o @]
        moved(y, c) == [y EXCEPT !.status[i] = "moved", !.c = c]
        swap(y, c) == moved(emit(y, Ins("swap", y.k, R, x.src, x.dst)), c)
        copy(y) == moved(emit(y, Copy(x.cls, x.dst, x.src)), 0)
    IN CASE x.src = x.dst -> moved(p, 0)
         [] j # 0 /\ p.status[j] = "moving" -> swap(q, j)
         [] j # 0 /\ p.status[j] = "to move" ->
              With(PmRec([q EXCEPT !.status[i] = "moving"], j), LAMBDA y :
                CASE y.c = i -> moved(y, 0)
                  [] y.c # 0 -> swap(y, y.c)
                  [] OTHER -> copy(y))
         [] OTHER -> copy(q)
\* pmgen: the code of a parallel move.
PmGen(pm) ==
    Each(LAMBDA p, i : IF p.status[i] # "to move" THEN p ELSE PmRec([p EXCEPT !.k = pm[i].cls], i),
         [pm |-> pm, status |-> [i \in DOMAIN pm |-> "to move"], out |-> <<>>, k |-> "w", c |-> 0],
         [i \in DOMAIN pm |-> i]).out

\* move: t comes to be in register r, and what was there goes elsewhere.
MoveTo(a, r, to) ==
    LET free == IF to = R THEN a ELSE RFree(a, to[2])
        evict(x) == IF r \notin x.m.b THEN x
                    ELSE LET t == Holder(x.m, r)
                         IN With(RAlloc([RFree(x, t) EXCEPT !.m.b = @ \cup {r}], t), LAMBDA y : [y EXCEPT !.m.b = @ \ {r}])
    IN With(evict(free), LAMBDA x : MapAdd(x, IF to = R THEN r ELSE to[2], r))

\* dopm: the copies from registers in group, and the registers the call before them
\* changes, as one parallel move.
RegaGroup(a, group, call) ==
    LET spoilt == IF call = <<>> THEN <<>>
                  ELSE SelectSeq(CallerSave, LAMBDA r : r \notin RetRegs(call[1].arg[2]) \cup RGlob)
        moves(x) ==
          LET had == SelectSeq(x.m.pair, LAMBDA p : RFind(a.m, p[1]) # -1 \/ x.fn.tmp[p[1]].slot # -1)
          IN [n \in DOMAIN had |-> Move(Tmp(had[n][2]), RRef(x.fn, a.m, had[n][1]), x.fn.tmp[had[n][1]].cls)]
        settle(x, i) == LET y == IF i.to = R THEN x ELSE RFree(x, i.to[2])
                            r == i.arg[1][2]
                        IN IF RFind(y.m, r) = -1 THEN MapAdd(y, r, r) ELSE y
    IN With(Each(LAMBDA x, i : MoveTo(x, i.arg[1][2], i.to), a, Reverse(group)), LAMBDA x :
         With(Each(LAMBDA y, r : MoveTo(y, r, R), x, spoilt), LAMBDA y :
           EmitAll(Each(settle, y, group), PmGen(moves(y)))))

\* The temporaries an instruction reads; the ones that have a hint come first.
ReadOrder(fn, i) ==
    LET operands(r) == CASE r[1] = "mem" -> SelectSeq(<<r[2].base, r[2].index>>, IsTmp)
                         [] IsTmp(r) -> <<r>> [] OTHER -> <<>>
    IN Each(LAMBDA s, r : IF HintOf(fn, r[2]) # -1 THEN <<r[2]>> \o s ELSE Append(s, r[2]), <<>>,
            operands(i.arg[1]) \o operands(i.arg[2]))
\* The operands of an instruction, in the registers of m.
InRegisters(m, i) ==
    LET ref(r) == IF IsTmp(r) THEN Tmp(RegOf(m, r[2])) ELSE r
        arg(r) == IF r[1] = "mem" THEN MemRef([r[2] EXCEPT !.base = ref(@), !.index = ref(@)]) ELSE ref(r)
    IN [i EXCEPT !.arg = <<arg(@[1]), arg(@[2])>>]

\* A temporary that waits for the register rf the instruction frees is moved there;
\* until the instruction it stays where it was.
Rehint(a, i, rf) ==
    LET t == IF rf = -1 THEN 0 ELSE a.m.wait[rf]
        late == a.fn.err = "" /\ t # 0 /\ rf \notin a.m.b /\ HintOf(a.fn, t) = rf /\ t \in a.m.b
        rt == RFind(a.m, t)
        back == Copy(a.fn.tmp[t].cls, Tmp(rt), Tmp(rf))
        rename(x) == CASE x = Tmp(rt) -> Tmp(rf)
                       [] x[1] = "mem" -> MemRef([x[2] EXCEPT !.base = IF @ = Tmp(rt) THEN Tmp(rf) ELSE @,
                                                              !.index = IF @ = Tmp(rt) THEN Tmp(rf) ELSE @])
                       [] OTHER -> x
        j == [i EXCEPT !.arg = <<rename(@[1]), rename(@[2])>>]
        code == IF i.op = "copy" /\ i.to = i.arg[1] THEN <<>> ELSE <<IF late THEN j ELSE i>>
    IN IF ~ late THEN EmitAll(a, code)
       ELSE With(RAlloc([RFree(a, t) EXCEPT !.fn.tmp[t].visit = -1], t), LAMBDA x :
              EmitAll([x EXCEPT !.m.wait[rf] = 0], <<back>> \o code))

\* One instruction of doblk.  The result of one nobody reads has no register, and
\* the instruction goes.
RegaIns(a, i) ==
    LET spoilt == SelectSeq(CallerSave, LAMBDA r : r \notin ArgRegs(i.arg[2]) \cup RGlob)
        hinted == IF i.op = "copy" /\ IsReg(i.to) /\ IsTmp(i.arg[1]) THEN SetHint(a, i.arg[1][2], i.to[2]) ELSE a
        def == CASE i.op = "call" -> [Each(RFree, a, spoilt) EXCEPT !.freed = -1]
                 [] i.to = R \/ (IsTmp(i.to) /\ i.to[2] \in RGlob) -> [hinted EXCEPT !.freed = -1]
                 [] OTHER -> RFree(hinted, i.to[2])
    IN With(def, LAMBDA x :
         IF i.op # "call" /\ i.to # R /\ i.to[2] \notin RGlob /\ x.freed = -1 THEN x
         ELSE With(Each(RAlloc, x, ReadOrder(x.fn, i)), LAMBDA y :
                Rehint(y, [InRegisters(y.m, i) EXCEPT !.to = IF x.freed = -1 THEN @ ELSE Tmp(x.freed)], x.freed)))

RECURSIVE RegaCode(_, _, _)
RegaCode(a, ins, n) ==
    IF n = 0 THEN a
    ELSE IF ~ RegCpy(ins[n]) THEN With(RegaIns(a, ins[n]), LAMBDA x : RegaCode(x, ins, n - 1))
    ELSE LET first == FirstRegCpy(ins, n)
             call == IF first > 1 /\ ins[first - 1].op = "call" THEN <<ins[first - 1]>> ELSE <<>>
         IN With(RegaGroup(a, SubSeq(ins, first, n), call), LAMBDA x : RegaCode(x, ins, first - 1))

-----------------------------------------------------------------------------
\* prio2: who gets a register first at the end of a block.
EndOrder(fn, S) ==
    LET had(t) == fn.tmp[t].visit # -1
        hinted(t) == HintOf(fn, t) # -1
        cost(t) == fn.tmp[t].cost
    IN InOrder(S, LAMBDA x, y : CASE had(x) # had(y) -> had(x)
                                       [] hinted(x) # hinted(y) -> hinted(x)
                                       [] cost(x) # cost(y) -> cost(x) > cost(y)
                                       [] OTHER -> x < y)
\* carve: inner loops first, then the last blocks.
Carve(fn) == InOrder(Range(fn.link), LAMBDA x, y : IF fn.loop[x] = fn.loop[y] THEN fn.id[x] > fn.id[y]
                                                        ELSE fn.loop[x] > fn.loop[y])
\* rega, 2: assigns registers in block b; a.beg and a.end are its maps.
RegaBlock(a0, b) ==
    LET fn == a0.fn
        regs == Ascending({t \in fn.out[b] : t < Tmp0})
        order == EndOrder(fn, Temps(fn.out[b]))
        start == Each(LAMBDA x, r : MapAdd(x, r, r), [a0 EXCEPT !.m = NoMap, !.loop = fn.loop[b], !.out = <<>>], regs)
        tried == Each(LAMBDA x, t : RAllocTry(x, t, TRUE), start, order)
    IN IF fn.err # "" THEN a0
       ELSE With(Each(RAlloc, tried, order), LAMBDA x :
              With(RegaCode(x, fn.blk[b].ins, Len(fn.blk[b].ins)), LAMBDA y :
                [y EXCEPT !.end[b] = x.m, !.beg[b] = y.m, !.fn.blk[b].ins = y.out,
                          !.fn.in[b] = y.m.b \ PhiDefs(fn.blk[b])]))

\* rega, 3: when every predecessor of s has a temporary in one and the same register,
\* free where s begins, the copy is made once, in s.
SharedCopies(a, s) ==
    LET m == a.beg[s]
        fn == a.fn
        blk == fn.blk[s]
        phi(t) == SelectInSeq(blk.phi, LAMBDA p : p.to = Tmp(t))
        \* the registers the temporary or the phi t is in where the predecessors end
        from(t) == IF phi(t) # 0 THEN {RFind(a.end[f[1]], f[2][2]) : f \in {g \in Range(blk.phi[phi(t)].from) : IsTmp(g[2])}}
                   ELSE {RFind(a.end[p], t) : p \in Range(fn.pred[s])}
        sole(t) == LET S == from(t) \ {-1} IN IF Cardinality(S) = 1 THEN CHOOSE r \in S : TRUE ELSE -1
        one(x, n) == LET t == m.pair[n][1]
                         r == sole(t)
                     IN IF t < Tmp0 \/ r = -1 \/ r \in x.m.b THEN x
                        ELSE [m |-> [x.m EXCEPT !.pair[n][2] = r, !.b = @ \cup {r}],
                              pm |-> Append(x.pm, Move(Tmp(r), Tmp(m.pair[n][2]), fn.tmp[t].cls))]
    IN IF Len(fn.pred[s]) <= 1 THEN a
       ELSE With(Each(one, [m |-> m, pm |-> <<>>], [n \in DOMAIN m.pair |-> n]), LAMBDA x :
              [a EXCEPT !.beg[s] = x.m, !.fn.blk[s].ins = PmGen(x.pm) \o @])

\* rega, 4: the parallel move of an edge, in a block of its own.
EdgeMoves(a, b, s) ==
    LET fn == a.fn
        phis == SelectSeq(fn.blk[s].phi, LAMBDA p : ~ IsTmp(p.to) \/ RFind(a.beg[s], p.to[2]) # -1)
        at(m, r) == IF IsTmp(r) THEN RRef(fn, m, r[2]) ELSE r
        live == Ascending(Temps(fn.in[s]))
    IN PmGen([n \in DOMAIN phis |-> Move(at(a.end[b], PhiArg(phis[n], b)), at(a.beg[s], phis[n].to), phis[n].cls)]
             \o [n \in DOMAIN live |-> Move(RRef(fn, a.end[b], live[n]), RRef(fn, a.beg[s], live[n]), fn.tmp[live[n]].cls)])
SplitEdge(a, b, s, which) ==
    LET new == Cardinality(DOMAIN a.fn.blk) + 1
        blk == [a.fn.blk[b] EXCEPT !.s1 = IF which = 1 THEN new ELSE @, !.s2 = IF which = 2 THEN new ELSE @]
    IN With(IF s = 0 THEN <<>> ELSE EdgeMoves(a, b, s), LAMBDA code :
         IF code = <<>> THEN a
         ELSE [a EXCEPT !.fn.blk = [@ EXCEPT ![b] = blk] @@ (new :> Blk(<<>>, code, "jmp", R, s, 0)),
                        !.fn.loop = @ @@ (new :> (@[b] + @[s]) \div 2), !.fn.id = @ @@ (new :> 0),
                        !.blist = <<new>> \o @])

\* rega
Rega(fn) ==
    LET fresh == [fn EXCEPT !.tmp = [t \in DOMAIN @ |-> [@[t] EXCEPT
                     !.visit = -1, !.hint.r = IF t < Tmp0 THEN t ELSE -1, !.hint.w = NoLoop]]]
        none == [b \in DOMAIN fn.blk |-> NoMap]
        a0 == [fn |-> fresh, m |-> NoMap, out |-> <<>>, freed |-> -1, used |-> {}, loop |-> NoLoop,
               beg |-> none, end |-> none, blist |-> <<>>]
        start == fn.blk[Start(fn)].ins
        params == SubSeq(start, 1, Cardinality({n \in DOMAIN start : \A k \in 1 .. n : RegCpy(start[k])}))
        hinted == Each(LAMBDA a, i : SetHint(a, i.to[2], i.arg[1][2]), a0, params)
        split(a, b) == With(SplitEdge(a, b, a.fn.blk[b].s1, 1), LAMBDA x : SplitEdge(x, b, x.fn.blk[b].s2, 2))
    IN With(Each(RegaBlock, hinted, Carve(fn)), LAMBDA a :
         IF a.fn.err # "" THEN a.fn
         ELSE With(Each(SharedCopies, a, fn.link), LAMBDA x :
                With(Each(split, x, fn.link), LAMBDA y :
                  [y.fn EXCEPT !.link = @ \o y.blist, !.reg = y.used,
                               !.blk = [b \in DOMAIN @ |-> [@[b] EXCEPT !.phi = <<>>]]])))
=============================================================================
