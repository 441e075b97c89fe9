-------------------------------- MODULE Gvn --------------------------------
(***************************************************************************)
(* Evaluating an operation on constants at compile time (src/qbe/fold.c),  *)
(* telling which results are copies of an operand (src/qbe/copy.c), and    *)
(* global value numbering (src/qbe/gvn.c): in reverse postorder each phi,  *)
(* instruction and branch is replaced by what it is known to compute.      *)
(* Afterwards a definition may stand in a block that does not dominate its *)
(* uses; Gcm moves it.                                                     *)
(***************************************************************************)
EXTENDS Ssa, Bitwise

-----------------------------------------------------------------------------
(* When is the result of an instruction or a phi one of its operands?  Widths are
   in bits; 32 and 8 stand for BitsOf("w") and ByteBits. *)

WBits == BitsOf("w")
ExtBytes(op) == CASE op \in {"extsb", "extub"} -> 1 [] op \in {"extsh", "extuh"} -> 2 [] OTHER -> 4
\* ext: does it extend with zeros, for which widths is it a copy, how many bits it uses.
ZExt(op) == op \in {"extub", "extuh", "extuw"}
NopW(op) == IF ZExt(op) THEN ByteBits * ExtBytes(op) ELSE ByteBits * ExtBytes(op) - 1
UseW(op) == ByteBits * ExtBytes(op)

\* bitwidth
BitWidth(n) == CHOOSE w \in 0 .. BitsOf("l") : n < 2 ^ w /\ (w = 0 \/ n >= 2 ^ (w - 1))
NarrowCon(r, w) == r[1] = "con" /\ BitWidth(r[2]) <= w

PhiNamed(fn, b, to) == SelectInSeq(fn.blk[b].phi, LAMBDA p : p.to = to)
DefIns(fn, t) == fn.blk[fn.tmp[t].def[1]].ins[fn.tmp[t].def[2]]

\* uwl: does everything that uses r look at its low w bits only?  A phi is
\* looked at once; s.seen remembers it.
RECURSIVE Uwl(_, _, _, _), UwlUse(_, _, _, _, _)
Uwl(fn, r, w, s) ==
    Each(LAMBDA acc, u : IF acc.ok THEN UwlUse(fn, r, w, u, acc) ELSE acc, [s EXCEPT !.ok = TRUE], fn.tmp[r[2]].use)
UwlUse(fn, r, w, u, s) ==
    LET i == fn.blk[u.b].ins[u.at]
        other == IF r = i.arg[1] THEN i.arg[2] ELSE i.arg[1]
    IN CASE u.type = "phi" ->
              IF u.at \in s.seen \/ PhiNamed(fn, u.b, Tmp(u.at)) = 0 THEN s
              ELSE Uwl(fn, Tmp(u.at), w, [s EXCEPT !.seen = @ \cup {u.at}])
         [] u.type = "jmp" -> [s EXCEPT !.ok = FALSE]
         [] OTHER ->
              CASE i.op = "copy" -> Uwl(fn, i.to, w, s)
                [] i.op \in Exts -> IF UseW(i.op) <= w THEN s ELSE Uwl(fn, i.to, w, s)
                [] i.op = "and" -> [s EXCEPT !.ok = NarrowCon(other, w)]
                [] OTHER -> [s EXCEPT !.ok = FALSE]
UseWidthLe(fn, r, w) == Uwl(fn, r, w, [ok |-> TRUE, seen |-> {}]).ok

\* dwl: is the value of r narrower than w bits?  s.seen[t] is the width phi t was
\* last asked for.
RECURSIVE Dwl(_, _, _, _)
Dwl(fn, r, w, s) ==
    LET t == r[2]
        yes == [s EXCEPT !.ok = TRUE]
        no == [s EXCEPT !.ok = FALSE]
        i == DefIns(fn, t)
        by == i.arg[2][2]
        seen == IF t \in DOMAIN s.seen THEN s.seen[t] ELSE 0
        phi == LET b == fn.rpo[fn.tmp[t].bid + 1] IN fn.blk[b].phi[PhiNamed(fn, b, r)]
        shifted == IF w >= WBits THEN w ELSE IF i.op = "sar" THEN Min({WBits - 1, w + by}) ELSE Min({WBits, w + by})
    IN CASE NarrowCon(r, w) -> yes
         [] w <= 0 \/ ~ IsTmp(r) -> no
         [] w > 0 /\ IsTmp(r) ->
            CASE fn.tmp[t].cls # "w" -> no
              [] fn.tmp[t].def = <<>> ->
                   IF seen # 0 /\ seen <= w THEN yes
                   ELSE Each(LAMBDA acc, f : IF acc.ok THEN Dwl(fn, f[2], w, acc) ELSE acc,
                             [yes EXCEPT !.seen = (t :> w) @@ @], phi.from)
              [] i.op = "copy" -> Dwl(fn, i.arg[1], w, s)
              [] i.op \in {"shr", "sar"} ->
                   IF i.arg[2][1] = "con" /\ 0 < by /\ by <= WBits
                   THEN IF i.op = "shr" /\ w + by >= WBits THEN yes ELSE Dwl(fn, i.arg[1], shifted, s)
                   ELSE Dwl(fn, i.arg[1], w, s)
              [] i.op \in CmpOps -> [s EXCEPT !.ok = w >= 1]
              [] i.op = "and" -> With(Dwl(fn, i.arg[1], w, s), LAMBDA d : IF d.ok THEN d ELSE Dwl(fn, i.arg[2], w, d))
              [] i.op \in {"or", "xor"} -> With(Dwl(fn, i.arg[1], w, s), LAMBDA d : IF d.ok THEN Dwl(fn, i.arg[2], w, d) ELSE d)
              [] i.op \in Exts -> IF ZExt(i.op) /\ UseW(i.op) <= w THEN yes ELSE Dwl(fn, i.arg[1], Min({w, NopW(i.op)}), s)
              [] OTHER -> no
DefWidthLe(fn, r, w) == Dwl(fn, r, w, [ok |-> FALSE, seen |-> <<>>]).ok
IsW1(fn, r) == DefWidthLe(fn, r, 1)

\* narrowpars: parameters of which only a byte or a half is used are narrowed on
\* entry, in functions with loops.
NarrowPars(fn) ==
    LET b == Start(fn)
        ins == fn.blk[b].ins
        npar == Max({n \in 0 .. Len(ins) : \A k \in 1 .. n : ins[k].op \in Pars})
        narrow(acc, n) ==
          LET i == ins[n]
              op == IF UseWidthLe(fn, i.to, ByteBits) THEN "extub" ELSE "extuh"
              new == Tmp(NTmp(acc.fn))
          IN IF i.cls # "w" \/ ~ UseWidthLe(fn, i.to, 2 * ByteBits) THEN [acc EXCEPT !.par = Append(@, i), !.ext = Append(@, Nop)]
             ELSE [fn |-> NewTmp(acc.fn, "w"), par |-> Append(acc.par, [i EXCEPT !.to = new]),
                   ext |-> Append(acc.ext, Ins(op, "w", i.to, new, R))]
    IN IF npar = 0 \/ ~ \E c \in Range(fn.link) : fn.loop[c] > 1 THEN fn
       ELSE With(Each(narrow, [fn |-> fn, par |-> <<>>, ext |-> <<>>], [n \in 1 .. npar |-> n]), LAMBDA a :
              [a.fn EXCEPT !.blk[b].ins = a.par \o a.ext \o SubSeq(ins, npar + 1, Len(ins))])

-----------------------------------------------------------------------------
\* cmpeqz: r is the result of comparing something with zero.
CmpEqZ(fn, r) ==
    IF ~ IsTmp(r) \/ fn.tmp[r[2]].def = <<>> THEN <<>>
    ELSE LET i == DefIns(fn, r[2])
         IN IF i.op \in CmpEq /\ i.arg[2] = Con(0)
            THEN <<[arg |-> i.arg[1], cls |-> ArgCls(i, 1), eqval |-> i.op \in EqVal]>> ELSE <<>>

\* branchdom: whoever is in b went from bif to br1.
BranchDom(fn, bif, br1, br2, b) == b # bif /\ Dom(fn, br1, b) /\ ~ Reaches(fn, br2, b, {bif})

\* domzero: what the branch in d says in b of the value it tested: "zero", "nonzero" or "".
DomZero(fn, d, b) ==
    LET blk == fn.blk[d]
    IN CASE BranchDom(fn, d, blk.s1, blk.s2, b) -> "nonzero"
         [] BranchDom(fn, d, blk.s2, blk.s1, b) -> "zero"
         [] OTHER -> ""
Flip(z, yes) == IF yes THEN (IF z = "zero" THEN "nonzero" ELSE "zero") ELSE z

\* zeroval: the same of r in class k, from the branches that dominate b.
RECURSIVE ZeroAbove(_, _, _, _, _)
ZeroAbove(fn, d, b, r, k) ==
    IF d = 0 THEN ""
    ELSE LET ja == fn.blk[d].ja
             cmp == CmpEqZ(fn, ja)
             z == DomZero(fn, d, b)
         IN CASE fn.blk[d].jt = "jnz" /\ r = ja /\ k = "w" /\ z # "" -> z
              [] fn.blk[d].jt = "jnz" /\ cmp # <<>> /\ r = Head(cmp).arg /\ k = Head(cmp).cls /\ z # "" -> Flip(z, Head(cmp).eqval)
              [] OTHER -> ZeroAbove(fn, fn.idom[d], b, r, k)
ZeroVal(fn, b, r, k) == ZeroAbove(fn, fn.idom[b], b, r, k)

Con01(yes) == Con(IF yes THEN 1 ELSE 0)

\* Extensions that copy an operand that is the result of another extension.
ExtCopies == [full |-> {}, sb |-> {"sb", "sh", "sw"}, ub |-> {"ub", "uh", "uw"}, sh |-> {"sh", "sw"},
              uh |-> {"uh", "uw"}, sw |-> {"sw"}, uw |-> {"uw"}]

\* The part of copyref about extensions.
ExtIsCopy(fn, i) ==
    LET t == fn.tmp[i.arg[1][2]]
    IN /\ i.op \in Exts /\ IsTmp(i.arg[1])
       /\ i.cls = "w" \/ t.cls = "l"
       /\ \/ ExtWidth[i.op] \in ExtCopies[t.width]
          \/ /\ t.def = <<>> \/ DefIns(fn, i.arg[1][2]).op \notin Pars
             /\ UseWidthLe(fn, i.to, UseW(i.op))
          \/ DefWidthLe(fn, i.arg[1], NopW(i.op))

\* copyref: what the result of the instruction in block b always is, R if not known.
CopyRef(fn, b, i) ==
    LET x == i.arg[1]
        y == i.arg[2]
        z == ZeroVal(fn, b, x, ArgCls(i, 1))
        mask == y[2]
    IN CASE i.op = "copy" -> x
         [] /\ i.op \in DOMAIN IdVal /\ y = Con(IdVal[i.op])
            /\ i.op \in CmpEq => IsW1(fn, x) -> x
         [] i.op \in Idemp /\ x = y -> x
         [] i.op \in CmpOps /\ x = y -> Con01(i.op \in EqVal)
         [] i.op \in CmpEq /\ y = Con(0) /\ z # "" -> Con01((i.op \in EqVal) = (z = "zero"))
         [] /\ i.op = "and" /\ y[1] = "con"
            /\ mask \in {2 ^ w - 1 : w \in 1 .. BitsOf("l") - 1}
            /\ DefWidthLe(fn, x, BitWidth(mask)) -> x
         [] i.cls = "w" /\ i.op \in {"extsw", "extuw"} -> x
         [] ExtIsCopy(fn, i) -> x
         [] OTHER -> R

\* phicopyref: the same of the n-th phi of block b.
PhiCopyRef(fn, b, n) ==
    LET p == fn.blk[b].phi[n]
        others == {f[2] : f \in Range(p.from)} \ {p.to}
        same == {m \in 1 .. n - 1 : \A f \in Range(p.from) : PhiArg(fn.blk[b].phi[m], f[1]) = f[2]}
        d == fn.idom[b]
        blk == fn.blk[d]
        from(c) == LET fs == SelectSeq(p.from, LAMBDA f : f[2] = Con(c)) IN IF fs = <<>> THEN 0 ELSE Last(fs)[1]
    IN CASE Cardinality(others) <= 1 -> IF others = {} THEN R ELSE CHOOSE r \in others : TRUE
         [] same # {} -> fn.blk[b].phi[Min(same)].to
         [] /\ Len(p.from) = 2 /\ blk.jt = "jnz" /\ IsW1(fn, blk.ja)
            /\ blk.s1 = from(1) /\ blk.s2 = from(0)
            /\ fn.blk[blk.s1].jt = "jmp" /\ fn.blk[blk.s2].jt = "jmp" -> blk.ja
         [] OTHER -> R

-----------------------------------------------------------------------------
(* Folding: a constant holds the bits of a long whatever class it is used with;
   an address is a symbol and an offset; <<>> says that it cannot be done. *)

\* iscon: the constant is the number n in class k.
IsConst(c, k, n) == c[1] = "con" /\ Trunc(c[2], k) = Trunc(n, k)

\* Its bits as a long: of an address, the offset.
BitsIn(c) == CASE c[1] = "con" -> c[2] [] c[1] = "addr" -> c[3] [] OTHER -> 0

Quotient(a, b) ==       \* rounds towards zero, as C does
    LET abs(x) == IF x < 0 THEN -x ELSE x
    IN IF (a < 0) = (b < 0) THEN abs(a) \div abs(b) ELSE -(abs(a) \div abs(b))

\* What is kept of a symbol: <<sym>>, <<>> for a plain number, <<"-">> for failure.
SymbolOf(op, cl, cr) ==
    LET sl == IF cl[1] = "addr" THEN <<cl[2]>> ELSE <<>>
        sr == IF cr[1] = "addr" THEN <<cr[2]>> ELSE <<>>
    IN CASE sl = <<>> /\ sr = <<>> -> <<>>
         [] op = "add" -> IF sl # <<>> /\ sr # <<>> THEN <<"-">> ELSE sl \o sr
         [] op = "sub" -> CASE sr = <<>> -> sl [] sl = sr -> <<>> [] OTHER -> <<"-">>
         [] OTHER -> <<"-">>

\* foldint, its arithmetic on the bits l and r in class k.
FoldBits(op, k, l, r) ==
    LET by == r % BitsOf(k)
        sl == Signed(l, k)
        sr == Signed(r, k)
        low(w) == l % (2 ^ (ByteBits * w))
        sign(w) == LET m == 2 ^ (ByteBits * w) IN IF 2 * low(w) >= m THEN Long(low(w) - m) ELSE low(w)
    IN CASE op = "add" -> Long(l + r) [] op = "sub" -> Long(l - r) [] op = "neg" -> Long(-l)
         [] op = "mul" -> Times(l, r, "l")
         [] op = "div" -> Long(Quotient(sl, sr)) [] op = "rem" -> Long(sl - Quotient(sl, sr) * sr)
         [] op = "udiv" -> Trunc(l, k) \div Trunc(r, k) [] op = "urem" -> Trunc(l, k) % Trunc(r, k)
         [] op = "and" -> l & r [] op = "or" -> l | r [] op = "xor" -> l ^^ r
         [] op = "sar" -> Long(sl \div (2 ^ by)) [] op = "shr" -> Trunc(l, k) \div (2 ^ by)
         [] op = "shl" -> Times(l, 2 ^ by, "l")
         [] op = "extsb" -> sign(1) [] op = "extub" -> low(1) [] op = "extsh" -> sign(2)
         [] op = "extuh" -> low(2) [] op = "extsw" -> sign(4) [] op = "extuw" -> low(4)
         [] op \in CmpOps -> LET c == CmpTable[op] IN IF Holds(c[1], l, r, c[2]) THEN 1 ELSE 0

\* foldint
FoldInt(op, k, cl, cr) ==
    LET sym == SymbolOf(op, cl, cr)
        divides == op \in {"div", "rem", "udiv", "urem"}
        overflow == op \in {"div", "rem"} /\ IsConst(cr, k, -1) /\ IsConst(cl, k, Modulus(k) \div 2)
    IN CASE sym = <<"-">> -> <<>>
         [] divides /\ (IsConst(cr, k, 0) \/ overflow) -> <<>>
         [] OTHER -> LET x == FoldBits(op, k, BitsIn(cl), BitsIn(cr))
                     IN IF sym = <<>> THEN Con(x) ELSE Addr(sym[1], x)

\* opfold: in class w the result keeps 32 bits.
OpFold(op, k, cl, cr) ==
    LET c == FoldInt(op, k, cl, cr)
    IN CASE c = <<>> -> R
         [] k = "w" /\ c[1] = "con" -> Con(Trunc(c[2], "w"))
         [] k = "w" /\ c[1] = "addr" -> Addr(c[2], Trunc(c[3], "w"))
         [] OTHER -> c

\* foldref: what an instruction on constants computes, R if it is not one.
FoldRef(i) ==
    LET right == IF i.arg[2] = R THEN Con(0) ELSE i.arg[2]
    IN IF i.to = R \/ i.op \notin CanFold \/ ~ IsCon(i.arg[1]) \/ ~ IsCon(right) THEN R
       ELSE OpFold(i.op, i.cls, i.arg[1], right)

-----------------------------------------------------------------------------
(* Numbering *)

\* replaceuse
ReplaceUse(fn, u, r1, r2) ==
    LET sub(r) == IF r = r1 THEN r2 ELSE r
        done ==
          CASE u.type = "jmp" -> [fn EXCEPT !.blk[u.b].ja = sub(@)]
            [] u.type = "ins" -> [fn EXCEPT !.blk[u.b].ins[u.at] = Subst(@, r1, r2)]
            [] u.type = "phi" -> [fn EXCEPT !.blk[u.b].phi = [n \in DOMAIN @ |->
                 IF @[n].to # Tmp(u.at) THEN @[n]
                 ELSE [@[n] EXCEPT !.from = [m \in DOMAIN @ |-> <<@[m][1], sub(@[m][2])>>]]]]
    IN [done EXCEPT !.tmp = AddUse(@, r2, u)]
\* replaceuses
ReplaceUses(fn, r1, r2) ==
    With(Each(LAMBDA f, u : ReplaceUse(f, u, r1, r2), fn, fn.tmp[r1[2]].use), LAMBDA f :
      [f EXCEPT !.tmp[r1[2]].use = <<>>, !.tmp[r1[2]].nuse = 0])

\* dedupphi, from the n-th phi of b on.
RECURSIVE DedupPhi(_, _, _)
DedupPhi(fn, b, n) ==
    IF n > Len(fn.blk[b].phi) THEN fn
    ELSE With(PhiCopyRef(fn, b, n), LAMBDA r :
           IF r = R THEN DedupPhi(fn, b, n + 1)
           ELSE DedupPhi([ReplaceUses(fn, fn.blk[b].phi[n].to, r) EXCEPT !.blk[b].phi = RemoveAt(@, n)], b, n))

\* normins: constants of word operands keep 32 bits; of a commutative operation
\* the temporary, or the older one of two, comes first.
NormIns(i) ==
    LET arg == [n \in 1 .. 2 |-> IF ArgCls(i, n) = "w" /\ i.arg[n][1] = "con"
                                 THEN Con(Trunc(i.arg[n][2], "w")) ELSE i.arg[n]]
        swap == \/ IsCon(arg[1]) /\ IsTmp(arg[2])
                \/ IsTmp(arg[1]) /\ IsTmp(arg[2]) /\ arg[1][2] > arg[2][2]
    IN [i EXCEPT !.arg = IF i.op \in Commutes /\ swap THEN <<arg[2], arg[1]>> ELSE arg]

NegCon(k, c) == FoldInt("sub", k, Con(0), c)
Plus(op) == IF op = "sub" THEN "add" ELSE op

\* assoccon: (x + c2) + c1 becomes x + c.
AddedCon(i) == IF i.op = "sub" THEN NegCon(i.cls, i.arg[2]) ELSE i.arg[2]
AssocCon(fn, b, n) ==
    LET i1 == fn.blk[b].ins[n]
        op == Plus(i1.op)
        t2 == fn.tmp[i1.arg[1][2]]
        i2 == fn.blk[t2.def[1]].ins[t2.def[2]]
        summed == With(AddedCon(i1), LAMBDA c1 : With(AddedCon(i2), LAMBDA c2 :
                    IF c1 = <<>> \/ c2 = <<>> THEN <<>> ELSE FoldInt(op, i1.cls, c1, c2)))
        minus(c) == op = "add" /\ c[1] = "con" /\ Signed(c[2], i1.cls) < 0
        new(c) == [i1 EXCEPT !.op = IF minus(c) THEN "sub" ELSE op,
                             !.arg = <<i2.arg[1], IF minus(c) THEN NegCon(i1.cls, c) ELSE c>>]
    IN CASE op \notin Assoc \/ ~ IsTmp(i1.arg[1]) \/ ~ IsCon(i1.arg[2]) -> fn
         [] t2.def = <<>> -> fn
         [] op # Plus(i2.op) \/ ~ IsCon(i2.arg[2]) -> fn
         [] OTHER -> With(summed, LAMBDA c :
              IF c = <<>> THEN fn
              ELSE [fn EXCEPT !.blk[b].ins[n] = new(c), !.tmp = AddUse(@, i2.arg[1], Use("ins", fn.id[b], b, n))])

\* gvndup: the instruction of the table that computes the same, <<>> if none.
SameIns(i, j) == i.op = j.op /\ i.cls = j.cls /\ i.arg = j.arg
Known(acc, i) == LET at == {p \in acc.tbl : SameIns(acc.fn.blk[p[1]].ins[p[2]], i)}
                 IN IF at = {} THEN <<>> ELSE CHOOSE p \in at : TRUE
\* killins
KillIns(fn, b, n, r) == [ReplaceUses(fn, fn.blk[b].ins[n].to, r) EXCEPT !.blk[b].ins[n] = Nop]

\* dedupins; acc.tbl is the table, the places of the instructions in it.
DedupIns(acc, b, n) ==
    LET norm == [acc.fn EXCEPT !.blk[b].ins[n] = NormIns(@)]
        kill(fn, r) == [acc EXCEPT !.fn = KillIns(fn, b, n, r)]
    IN IF norm.blk[b].ins[n].op = "nop" \/ IsPinned(norm.blk[b].ins[n]) THEN [acc EXCEPT !.fn = norm]
       ELSE With(AssocCon(norm, b, n), LAMBDA fn :
              LET i == fn.blk[b].ins[n] IN
              With(CopyRef(fn, b, i), LAMBDA copy :
              With(IF copy # R THEN copy ELSE FoldRef(i), LAMBDA r :
              With(Known(acc, i), LAMBDA known :
                CASE r # R -> kill(fn, r)
                  [] r = R /\ known # <<>> -> kill(fn, fn.blk[known[1]].ins[known[2]].to)
                  [] OTHER -> [fn |-> fn, tbl |-> acc.tbl \cup {<<b, n>>}]))))

\* usecls: the class a use reads r with.
UseCls(fn, u, r, cls) ==
    LET i == fn.blk[u.b].ins[u.at]
        k == {ArgCls(i, n) : n \in {m \in 1 .. 2 : i.arg[m] = r}}
        phi == PhiNamed(fn, u.b, Tmp(u.at))
    IN CASE u.type = "jmp" -> "w"
         [] u.type = "phi" -> IF phi = 0 THEN cls ELSE fn.blk[u.b].phi[phi].cls
         [] OTHER -> IF k = {} THEN cls ELSE IF "l" \in k THEN "l" ELSE "w"

\* propjnz0: where only the edge from bif to s0 leads, r is 0.
PropJnz0(fn, bif, s0, snon0, r, cls) ==
    LET use(f, u) == IF UseCls(f, u, r, cls) = cls /\ BranchDom(f, bif, s0, snon0, f.rpo[u.bid + 1])
                     THEN ReplaceUse(f, u, r, Con(0)) ELSE f
    IN IF Len(fn.pred[s0]) # 1 \/ ~ IsTmp(r) THEN fn ELSE Each(use, fn, fn.tmp[r[2]].use)

\* dedupjmp
DedupJmp(fn, b) ==
    LET blk == fn.blk[b]
        s == <<blk.s1, blk.s2>>
        compared(f) ==
          LET c == CmpEqZ(f, f.blk[b].ja)
              z == IF Head(c).eqval THEN 1 ELSE 2
          IN IF c = <<>> THEN f ELSE PropJnz0(f, b, s[z], s[3 - z], Head(c).arg, Head(c).cls)
        collapse(f) ==
          LET ja == f.blk[b].ja
              z == ZeroVal(f, b, ja, "w")
              to(n) == [f EXCEPT !.blk[b] = [@ EXCEPT !.jt = "jmp", !.ja = R, !.s1 = n, !.s2 = 0]]
          IN CASE s[1] = s[2] -> to(s[1])
               [] ja[1] = "con" -> to(IF ja[2] = 0 THEN s[2] ELSE s[1])
               [] z # "" -> to(IF z = "zero" THEN s[2] ELSE s[1])
               [] OTHER -> f
    IN IF blk.jt # "jnz" THEN fn
       ELSE With(PropJnz0(fn, b, s[2], s[1], blk.ja, "w"), LAMBDA f : With(compared(f), LAMBDA g : collapse(g)))

\* rebuildcfg: what was computed in blocks that are unreachable now may still be
\* in use, and moves to the start block.
RebuildCfg(old, tbl) ==
    With(FillCfg(old), LAMBDA fn :
      LET dead == SelectSeq(old.rpo, LAMBDA b : fn.id[b] < 0)
          active(b) == LET at == SelectSeq([n \in DOMAIN fn.blk[b].ins |-> n], LAMBDA n : <<b, n>> \in tbl)
                       IN [k \in DOMAIN at |-> fn.blk[b].ins[at[k]]]
      IN [fn EXCEPT !.blk[Start(fn)].ins = @ \o FlattenSeq([k \in DOMAIN dead |-> active(dead[k])])])

\* gvn
GvnBlock(acc, b) ==
    With([acc EXCEPT !.fn = DedupPhi(@, b, 1)], LAMBDA phis :
      With(Each(LAMBDA a, n : DedupIns(a, b, n), phis, [n \in DOMAIN phis.fn.blk[b].ins |-> n]), LAMBDA ins :
        [ins EXCEPT !.fn = DedupJmp(@, b)]))
NumberValues(fn0) ==
    With(FillUse(NarrowPars(FillLoop(fn0))), LAMBDA fn :
      IF ~ SsaCheck(fn) THEN [fn EXCEPT !.err = "ssa"]
      ELSE With(Each(GvnBlock, [fn |-> fn, tbl |-> {}], fn.rpo), LAMBDA acc : RebuildCfg(acc.fn, acc.tbl)))
=============================================================================
