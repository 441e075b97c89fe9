-------------------------------- MODULE Isel --------------------------------
(***************************************************************************)
(* Instruction selection for amd64 (src/qbe/amd64/isel.c) without floating *)
(* point: locals of constant size get slots, operands the machine does not *)
(* take get copies, divisions and shifts get their fixed registers,        *)
(* address arithmetic moves into loads and stores, and compares feed       *)
(* branches and selects through the flags.  Blocks are rewritten from      *)
(* their end, so "emit" prepends.                                          *)
(***************************************************************************)
EXTENDS Abi

\* ops.h: instructions that set the flags as their result says, and that keep them.
SetsZFlag == {"add", "sub", "neg", "and", "or", "xor", "sar", "shr", "shl", "blit0", "blit1", "xcmp", "xtest"} \cup CmpOps
LeavesFlags == Stores \cup Loads \cup Exts \cup Flags \cup {"copy", "nop", "addr"}

Chuse(fn, r, du) == IF IsTmp(r) THEN [fn EXCEPT !.tmp[r[2]].nuse = @ + du] ELSE fn
RSlot(fn, r) == IF IsTmp(r) THEN fn.tmp[r[2]].slot ELSE -1
\* Faulty variant: a constant that is not a word.
NoImmUnsigned(r) == r[1] = "con" /\ Trunc(r[2], "w") # Long(r[2])
\* noimm: a constant that is not a sign-extended word.
NoImm(r) == r[1] = "con" /\ Trunc(Signed(r[2], "w"), "l") # Long(r[2])

\* fixarg: operand r of class k of instruction op (copy for a phi), the n-th one.
\* What is prepended to the instruction, and the operand it is left with.
FixArg(fn, r, k, op, cls, n) ==
    LET new == Tmp(NTmp(fn))
        via(c, code) == [fn |-> NewTmp(fn, c), arg |-> new, code |-> <<code>>]
        m == r[2]
    IN CASE op = "call" /\ n = 1 /\ r[1] \in {"con", "undef"} -> via("l", Copy("l", new, r))
         [] op # "copy" /\ k = "l" /\ NoImm(r) -> via("l", Copy("l", new, r))
         [] RSlot(fn, r) # -1 -> via("l", Ins("addr", "l", new, Slot(RSlot(fn, r)), R))
         [] r[1] = "addr" /\ ~ (op \in Stores /\ n = 2) /\ op \notin Loads \cup {"call"} ->
              via("l", Ins("addr", "l", new, r, R))
         [] r[1] = "mem" /\ m.base = R /\ m.offset[1] = "addr" ->
              [via("l", Ins("addr", "l", new, m.offset, R)) EXCEPT
                 !.arg = MemRef([m EXCEPT !.offset = Undef, !.base = new])]
         [] op \in Xsels /\ IsCon(r) -> via(cls, Copy(cls, new, r))
         [] OTHER -> [fn |-> fn, arg |-> r, code |-> <<>>]

\* An instruction with its operands fixed, the first operand first.
EmitFixed(acc, i, k1, k2) ==
    With(FixArg(acc.fn, i.arg[1], k1, i.op, i.cls, 1), LAMBDA x :
      With(FixArg(x.fn, i.arg[2], k2, i.op, i.cls, 2), LAMBDA y :
        [EmitAll(acc, y.code \o x.code \o <<[i EXCEPT !.arg = <<x.arg, y.arg>>]>>) EXCEPT !.fn = y.fn]))
EmitIns(acc, i) == EmitFixed(acc, i, ArgCls(i, 1), ArgCls(i, 2))

-----------------------------------------------------------------------------
\* Address arithmetic.  Every temporary of the block has a number saying which
\* patterns its definition matches: 0 a scale, 1 another constant, 2 anything,
\* 3 a product with a scale, 4 and more a sum.
AddTable == <<2,  2,2,  4,4,5,  6,6,8,8,  4,4,9,10,9,  7,7,5,8,9,5,  4,4,12,10,12,12,12,
              4,4,9,10,9,9,12,9,  11,11,5,8,9,5,12,9,5,  7,7,5,8,9,5,12,9,5,5,
              11,11,5,8,9,5,12,9,5,5,5,  4,4,9,10,9,9,12,9,9,9,9,9,  7,7,5,8,9,5,12,9,5,5,5,9,5>>
\* opn
OpN(op, l, r) ==
    LET hi == Max({l, r})
        lo == Min({l, r})
    IN CASE op = "mul" -> IF hi >= 2 /\ lo = 0 THEN 3 ELSE 2
         [] op = "add" -> AddTable[(hi + hi * hi) \div 2 + lo + 1]
         [] OTHER -> 2
\* refn
NumOf(tn, r) == IF r[2] \in DOMAIN tn THEN tn[r[2]] ELSE [n |-> 2, nl |-> 0, nr |-> 0, l |-> R, r |-> R]
RefN(tn, r) ==
    CASE IsTmp(r) -> NumOf(tn, r).n
      [] IsCon(r) -> IF r[1] = "con" /\ r[2] \in {1, 2, 4, 8} THEN 0 ELSE 1
      [] OTHER -> -1
\* anumber
Number(ins) ==
    LET step(tn, i) ==
          LET l == RefN(tn, i.arg[1])
              r == RefN(tn, i.arg[2])
          IN IF i.to = R THEN tn
             ELSE (i.to[2] :> [n |-> OpN(i.op, l, r), nl |-> l, nr |-> r, l |-> i.arg[1], r |-> i.arg[2]]) @@ tn
    IN Each(step, <<>>, ins)

\* The patterns, in the order amatch prefers them: o an offset, b a base, i an
\* index, s a scale; which numbers match, and the program that takes the sum apart.
Patterns == <<
    [name |-> "obis", of |-> {10, 11, 12},
     code |-> <<5,2,10,7,11,19,49,1,1,3,3,3,2,1,3,0,3,1,0,1,3,0,5,1,8,5,25,1,5,1,2,5,13,3,1,1,3,3,3,
                2,0,1,3,3,3,2,26,1,51,1,5,1,6,5,9,1,3,0,51,3,1,1,3,0,45>>],
    [name |-> "obi1", of |-> {7, 9, 10, 11, 12},
     code |-> <<5,3,9,9,10,33,12,35,45,1,5,3,11,9,7,9,4,9,17,1,3,0,3,1,3,2,0,3,1,1,3,0,34,1,37,1,5,2,
                5,7,2,7,8,37,29,1,3,0,1,32>>],
    [name |-> "bis", of |-> {8, 10},
     code |-> <<5,1,8,5,27,1,5,1,2,5,13,3,1,1,3,3,3,2,0,1,3,3,3,2,3,1,0,1,29>>],
    [name |-> "ois", of |-> {6}, code |-> <<1,3,0,1,3,3,3,2,0>>],
    [name |-> "bi1", of |-> {5, 8, 9, 10, 12}, code |-> <<1,3,1,3,2,0>>]>>
\* In a sum of a constant and anything else the operand with the lower number is
\* the constant (pattern ob).
MatchesOb == {4, 6, 7, 11}

\* runmatch: var[1..4] are o, b, i and s.
RECURSIVE RunMatch(_, _, _, _, _, _)
RunMatch(code, tn, pc, ref, stk, var) ==
    LET bc == code[pc]
        d == NumOf(tn, ref)
        popped(v) == RunMatch(code, tn, pc + (IF bc = 3 THEN 2 ELSE 1), Last(stk), Front(stk), v)
        ways == code[pc + 1]
        hit == SelectInSeq([j \in 1 .. ways |-> code[pc + 2 * j]], LAMBDA n : n = d.n)
    IN CASE bc = 0 -> var
         [] bc = 1 /\ d.nl > d.nr -> RunMatch(code, tn, pc + 1, d.r, Append(stk, d.l), var)
         [] bc \in {1, 2} -> RunMatch(code, tn, pc + 1, d.l, Append(stk, d.r), var)
         [] bc = 3 -> LET v == [var EXCEPT ![code[pc + 1] + 1] = ref]
                      IN IF code[pc + 2] = 0 THEN v ELSE popped(v)
         [] bc = 4 -> popped(var)
         [] bc = 5 -> RunMatch(code, tn, pc + (IF hit = 0 THEN code[pc + 2 + 2 * ways] ELSE code[pc + 1 + 2 * hit]),
                               ref, stk, var)
         [] OTHER -> RunMatch(code, tn, bc - 10 + 1, ref, stk, var)

\* adisp: constants of the sum r are moved into c, times the scale.
RECURSIVE ADisp(_, _, _, _)
ADisp(tn, c, r, s) ==
    IF r = R \/ RefN(tn, r) \notin MatchesOb THEN [c |-> c, r |-> r]
    ELSE LET d == tn[r[2]]
             con == IF d.nl > d.nr THEN d.r ELSE d.l
             rest == IF d.nl > d.nr THEN d.l ELSE d.r
             sum == AddCon(c, con, s)
         IN ADisp(tn, IF sum = <<>> THEN c ELSE sum, rest, s)

\* amatch: the address r stands for, <<>> where there is none.  v are the parts a
\* pattern found, b the base without its constants.
AddressFrom(fn, tn, v, b) ==
    LET scale == IF v[4] = R THEN 1 ELSE v[4][2]
        address(x) ==
          LET swap == RSlot(fn, x.r) # -1
              base == IF swap THEN x.r ELSE b.r
          IN IF swap /\ (scale # 1 \/ RSlot(fn, b.r) # -1) THEN <<>>
             ELSE <<[offset |-> x.c, index |-> IF swap THEN b.r ELSE x.r, scale |-> scale,
                     base |-> IF RSlot(fn, base) # -1 THEN Slot(RSlot(fn, base)) ELSE base]>>
    IN With(IF v[1] = R THEN b.c ELSE AddCon(b.c, v[1], 1), LAMBDA off :
         IF off = <<>> THEN <<>> ELSE With(ADisp(tn, off, v[3], scale), address))
RECURSIVE AMatch(_, _, _)
AMatch(fn, tn, r) ==
    LET p == SelectInSeq(Patterns, LAMBDA q : RefN(tn, r) \in q.of)
        parts == IF p = 0 THEN <<R, r, R, R>> ELSE RunMatch(Patterns[p].code, tn, 1, r, <<>>, <<R, R, R, R>>)
        moved(inner, c) == With(AddCon(inner[1].offset, c, 1), LAMBDA sum :
                             IF sum = <<>> THEN <<>> ELSE <<[inner[1] EXCEPT !.offset = sum]>>)
    IN IF ~ IsTmp(r) THEN <<>>
       ELSE With(parts, LAMBDA v : With(ADisp(tn, Undef, v[2], 1), LAMBDA b :
              With(IF p = 0 /\ b.c # Undef THEN AMatch(fn, tn, b.r) ELSE <<>>, LAMBDA inner :
                IF inner # <<>> THEN moved(inner, b.c) ELSE AddressFrom(fn, tn, v, b))))

\* seladdr: the address operand r of a load or a store.
SelAddr(acc, tn, r) ==
    LET sym(a) == a.base # R /\ a.offset[1] = "addr"     \* a symbol and a base do not go together
        alone(a) == IF sym(a) THEN [a EXCEPT !.index = a.base, !.scale = 1, !.base = R] ELSE a
        used(f, m) == Each(LAMBDA g, u : Chuse(g, u[1], u[2]), f, <<<<r, -1>>, <<m.base, 1>>, <<m.index, 1>>>>)
    IN With(AMatch(acc.fn, tn, r), LAMBDA a :
         IF a = <<>> \/ (sym(a[1]) /\ (a[1].index # R \/ ~ IsTmp(a[1].base))) THEN [acc |-> acc, r |-> r]
         ELSE With(alone(a[1]), LAMBDA m : [acc |-> [acc EXCEPT !.fn = used(@, m)], r |-> MemRef(m)]))

-----------------------------------------------------------------------------
\* cmpswap, selcmp: flags for a condition on the operands x and y.
CmpSwaps(x) == IsCon(x)
FlagsFor(c, x) == IF CmpSwaps(x) THEN CmpSwap[c] ELSE c
SelCmp(acc, x0, y0, k, swap) ==
    LET x == IF swap THEN y0 ELSE x0
        y == IF swap THEN x0 ELSE y0
        new == Tmp(NTmp(acc.fn))
    IN IF ~ IsCon(x) THEN EmitFixed(acc, Ins("xcmp", k, R, y, x), k, k)
       ELSE With(FixArg(NewTmp(acc.fn, k), x, k, "copy", k, 1), LAMBDA c :
              With(FixArg(c.fn, y, k, "xcmp", k, 1), LAMBDA a :
                [EmitAll(acc, a.code \o c.code \o <<Copy(k, new, c.arg), Ins("xcmp", k, R, a.arg, new)>>)
                   EXCEPT !.fn = a.fn]))

SelDivision(acc, i) ==
    LET k == i.cls
        signed == i.op \in {"div", "rem"}
        res == IF i.op \in {"div", "udiv"} THEN RAX ELSE RDX
        con == IsCon(i.arg[2])      \* the machine divides by no constant
        new == Tmp(NTmp(acc.fn))
        fn == IF con THEN NewTmp(acc.fn, k) ELSE acc.fn
        by == IF con THEN new ELSE i.arg[2]
    IN With(FixArg(fn, i.arg[1], k, "copy", k, 1), LAMBDA x :
         [EmitAll(acc, (IF con THEN <<Copy(k, new, i.arg[2])>> ELSE <<>>) \o x.code
            \o <<Copy(k, Tmp(RAX), x.arg),
                 IF signed THEN Ins("sign", k, Tmp(RDX), Tmp(RAX), R) ELSE Copy(k, Tmp(RDX), Con(0)),
                 Ins(IF signed THEN "xidiv" ELSE "xdiv", k, R, by, R),
                 Copy(k, R, Tmp(IF res = RAX THEN RDX ELSE RAX)),
                 Copy(k, i.to, Tmp(res))>>) EXCEPT
            !.fn = IF RSlot(x.fn, by) # -1 THEN [x.fn EXCEPT !.err = "unlikely argument"] ELSE x.fn])

SelShift(acc, i) ==
    With(FixArg(acc.fn, i.arg[1], ArgCls(i, 1), i.op, i.cls, 1), LAMBDA x :
      [EmitAll(acc, x.code \o <<Copy("w", Tmp(RCX), i.arg[2]),
                                [i EXCEPT !.arg = <<x.arg, Tmp(RCX)>>],
                                Copy("w", R, Tmp(RCX))>>) EXCEPT
         !.fn = IF RSlot(acc.fn, i.arg[2]) # -1 THEN [x.fn EXCEPT !.err = "unlikely argument"] ELSE x.fn])

\* salloc: memory whose size is only known when the function runs.
SelAlloc(acc0, i) ==
    LET acc == [acc0 EXCEPT !.fn.dynalloc = TRUE]
        n == i.arg[1]
        r0 == Tmp(NTmp(acc.fn))
        r1 == Tmp(NTmp(acc.fn) + 1)
        up == 16 * ((n[2] + 15) \div 16)
    IN IF IsCon(n)
       THEN IF Signed(n[2], "l") < 0 THEN [acc EXCEPT !.fn.err = "invalid alloc size"]
            ELSE EmitAll(acc, <<Ins("salloc", "l", i.to, Con(Long(up)), R)>>)
       ELSE [EmitAll(acc, <<Ins("add", "l", r1, n, Con(15)), Ins("and", "l", r0, r1, Con(Long(-16))),
                            Ins("salloc", "l", i.to, r0, R)>>) EXCEPT
               !.fn = IF RSlot(@, n) # -1 THEN [@ EXCEPT !.err = "unlikely alloc argument"]
                      ELSE NewTmp(NewTmp(@, "l"), "l")]

\* sel: one instruction.  A result nobody uses is not computed.
Unused(fn, i) == /\ IsTmp(i.to) /\ fn.tmp[i.to[2]].nuse = 0
                 /\ ~ IsReg(i.to) /\ ~ IsReg(i.arg[1]) /\ ~ IsReg(i.arg[2])
Emitted == {"call", "salloc", "copy", "add", "sub", "neg", "mul", "and", "or", "xor", "xtest"} \cup Exts \cup Xsels
Sel(acc, tn, i) ==
    CASE i.op = "nop" -> acc
      [] Unused(acc.fn, i) -> [acc EXCEPT !.fn = Chuse(Chuse(@, i.arg[1], -1), i.arg[2], -1)]
      [] i.op \in Divisions -> SelDivision(acc, i)
      [] i.op \in {"sar", "shr", "shl"} -> IF IsCon(i.arg[2]) THEN EmitIns(acc, i) ELSE SelShift(acc, i)
      [] i.op \in Stores \cup Loads ->
           LET at == IF i.op \in Stores THEN 2 ELSE 1
           IN With(SelAddr(acc, tn, i.arg[at]), LAMBDA a : EmitIns(a.acc, [i EXCEPT !.arg[at] = a.r]))
      [] i.op \in Emitted -> EmitIns(acc, i)
      [] i.op \in Allocs -> SelAlloc(acc, i)
      [] i.op \in CmpOps ->
           LET c == CmpTable[i.op]
           IN SelCmp(EmitAll(acc, <<Ins("flag" \o FlagsFor(c[1], i.arg[1]), i.cls, i.to, R, R)>>),
                     i.arg[1], i.arg[2], c[2], CmpSwaps(i.arg[1]))
      [] OTHER -> [acc EXCEPT !.fn.err = "unknown instruction"]

-----------------------------------------------------------------------------
\* flagi: the instruction before the n-th that left the flags, 0 if there is none.
FlagI(ins, n) ==
    LET set == {j \in 1 .. n - 1 : ins[j].op \notin LeavesFlags}
    IN IF set = {} \/ ins[Max(set)].op \notin SetsZFlag THEN 0 ELSE Max(set)

\* seljmp and selsel: how a test of r for zero, after instruction n - 1, becomes a
\* condition on the flags, and what has to come before that they are set by it.
TestOf(acc, r, n) ==
    LET at == FlagI(acc.ins, n)
        fi == acc.ins[at]
        once == acc.fn.tmp[r[2]].nuse = 1
        con(j) == IsCon(fi.arg[j])
    IN CASE at = 0 \/ fi.to # r -> [cond |-> "ine", at |-> 0, by |-> "zero"]
         [] fi.op \in CmpOps -> [cond |-> FlagsFor(CmpTable[fi.op][1], fi.arg[1]), at |-> at,
                                 by |-> IF once THEN "compare" ELSE "flags"]
         [] fi.op = "and" /\ once /\ ~ (con(1) /\ con(2)) -> [cond |-> "ine", at |-> at, by |-> "xtest"]
         [] OTHER -> [cond |-> "ine", at |-> at, by |-> IF once THEN "use" ELSE "flags"]
SetFlagsFor(acc, r, t) ==
    LET fi == IF t.at = 0 THEN Ins("cnew", "w", r, r, Con(0)) ELSE acc.ins[t.at]
        con == IsCon(fi.arg[2])
    IN CASE t.by \in {"zero", "compare"} ->
              [SelCmp(acc, fi.arg[1], fi.arg[2], CmpTable[fi.op][2], t.at # 0 /\ CmpSwaps(fi.arg[1])) EXCEPT
                 !.ins = [j \in DOMAIN @ |-> IF j = t.at THEN Nop ELSE @[j]]]
         [] t.by = "xtest" -> [acc EXCEPT !.ins[t.at] = [@ EXCEPT !.op = "xtest", !.to = R,
                                                           !.arg = IF con THEN <<@[2], @[1]>> ELSE @]]
         [] t.by = "use" -> EmitAll(acc, <<Copy("w", R, r)>>)
         [] t.by = "flags" -> acc

SelJmp(acc, blk) ==
    CASE blk.jt # "jnz" -> acc
      [] blk.s1 = blk.s2 -> [acc EXCEPT !.fn = Chuse(@, blk.ja, -1), !.jt = "jmp"]
      [] ~ IsTmp(blk.ja) -> [acc EXCEPT !.fn.err = "constant branch"]
      [] OTHER -> With(TestOf(acc, blk.ja, Len(acc.ins) + 1), LAMBDA t :
                    SetFlagsFor([acc EXCEPT !.jt = t.cond], blk.ja, t))

\* The last select of a group decides the condition for all of them.
SelSel(acc, n) ==
    LET sel0 == Max({j \in 1 .. n : acc.ins[j].op = "sel0"})
        r == acc.ins[sel0].arg[1]
    IN IF ~ IsTmp(r) THEN [acc EXCEPT !.fn.err = "constant select"]
       ELSE With(TestOf(acc, r, sel0), LAMBDA t :
              [acc EXCEPT !.test = t,
                          !.ins = [j \in DOMAIN @ |-> IF j \in sel0 + 1 .. n THEN [@[j] EXCEPT !.op = "xsel" \o t.cond] ELSE @[j]]])
SelIns(acc0, tn, n) ==
    With(IF acc0.ins[n].op = "sel1" THEN SelSel(acc0, n) ELSE acc0, LAMBDA acc :
      IF acc.ins[n].op = "sel0" THEN SetFlagsFor(acc, acc.ins[n].arg[1], acc.test) ELSE Sel(acc, tn, acc.ins[n]))

\* A phi of a successor takes an operand a copy of which may need emitting here.
PhiArgs(acc, b, s) ==
    LET arg(a, n) ==
          LET p == a.fn.blk[s].phi[n]
              at == PhiArgN(p, b)
          IN With(FixArg(a.fn, p.from[at][2], p.cls, "copy", p.cls, 1), LAMBDA x :
               [EmitAll(a, x.code) EXCEPT !.fn = [x.fn EXCEPT !.blk[s].phi[n].from[at][2] = x.arg]])
    IN Each(arg, acc, [n \in DOMAIN acc.fn.blk[s].phi |-> n])

SelBlock(fn, b) ==
    LET blk == fn.blk[b]
        phis == Each(LAMBDA a, s : PhiArgs(a, b, s), [fn |-> fn, out |-> <<>>, ins |-> blk.ins, jt |-> blk.jt, test |-> <<>>], Succs(blk))
        tn == Number(blk.ins)
    IN With(Each(LAMBDA a, n : SelIns(a, tn, n), SelJmp(phis, blk), Reverse([n \in DOMAIN blk.ins |-> n])), LAMBDA a :
         [a.fn EXCEPT !.blk[b] = [@ EXCEPT !.ins = a.out, !.jt = a.jt,
              !.ja = IF blk.jt = "jnz" THEN R ELSE @, !.s2 = IF a.jt = "jmp" THEN 0 ELSE @]])

\* Fast locals: allocations of the start block, up to the first of each kind whose
\* size is not constant, get slots of four bytes.
FastAllocs(fn) ==
    LET b == Start(fn)
        one(f, n, align) ==
          LET i == f.blk[b].ins[n]
              size == align * ((i.arg[1][2] + align - 1) \div align)
          IN IF Signed(i.arg[1][2], "l") < 0 THEN [f EXCEPT !.err = "invalid alloc size"]
             ELSE [f EXCEPT !.tmp[i.to[2]].slot = f.slot, !.slot = @ + size \div 4, !.blk[b].ins[n] = Nop,
                            !.salign = CASE align = 4 -> 2 [] align = 8 -> 3 [] OTHER -> 4]
        kind(f, al) ==
          LET ins == f.blk[b].ins
              ok == {n \in DOMAIN ins : ins[n].op = al /\ \A k \in 1 .. n : ins[k].op = al => IsCon(ins[k].arg[1])}
          IN Each(LAMBDA g, n : one(g, n, CASE al = "alloc4" -> 4 [] al = "alloc8" -> 8 [] OTHER -> 16),
                  f, InOrder(ok, <))
    IN Each(kind, fn, <<"alloc4", "alloc8", "alloc16">>)

\* amd64_isel
Isel(fn) == Each(SelBlock, FastAllocs(fn), fn.link)
=============================================================================
