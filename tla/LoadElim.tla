------------------------------ MODULE LoadElim ------------------------------
(***************************************************************************)
(* Loads whose value is known on every path (src/qbe/load.c).  A slice is  *)
(* what a load reads: sz bytes at ref + off; a mask is the set of its      *)
(* bytes that are asked for.  What the replacement needs is kept in a log  *)
(* and inserted at the end; a search that fails leaves nothing behind.     *)
(***************************************************************************)
EXTENDS Mem

AllOf(sz) == 0 .. sz - 1
\* The constant with ones in the bytes of a mask.
MaskCon(m) == Con(SumSet({(2 ^ ByteBits - 1) * 2 ^ (ByteBits * i) : i \in m}))
Fails(s) == s.r = R

\* iins: an instruction is put into the log for the place l; its result is s.r.
IIns(s, cls, op, x, y, l) ==
    LET to == Tmp(NTmp(s.fn))
    IN [s EXCEPT !.fn = NewTmp(@, cls), !.r = to, !.inum = @ + 1,
                 !.log = Append(@, [isphi |-> FALSE, num |-> s.inum, b |-> l.b, off |-> l.off,
                                    ins |-> Ins(op, cls, to, x, y)])]
\* cast, mask: s.r in class cls, or only some of its bytes.
Cast(s, cls, l) == IF IsTmp(s.r) /\ s.fn.tmp[s.r[2]].cls = "w" /\ cls = "l"
                   THEN IIns(s, "l", "extuw", s.r, R, l) ELSE s
MaskTo(s, cls, m, l) == With(Cast(s, cls, l), LAMBDA c : IIns(c, cls, "and", c.r, MaskCon(m), l))

AliasKnown(fn, r) == fn.alias[r[2]].type \in {"loc", "esc", "unk"}
\* rebase: the slice in terms of the temporary its address is an offset from.
Rebase(fn, sl) ==
    IF IsTmp(sl.ref) /\ AliasKnown(fn, sl.ref)
    THEN [sl EXCEPT !.ref = Tmp(fn.alias[sl.ref[2]].base), !.off = fn.alias[sl.ref[2]].off]
    ELSE sl
\* killsl: the slice's address is not defined above the definition of r.
KillSl(fn, r, sl) == IsTmp(sl.ref) /\ AliasKnown(fn, sl.ref) /\ r = Tmp(fn.alias[sl.ref[2]].base)

\* load: a new load of the slice, where one may be inserted.
NewLoad(s, sl, m, l) ==
    LET all == m = AllOf(sl.sz)
        cls == IF all THEN sl.cls ELSE IF sl.sz > 4 THEN "l" ELSE "w"
        op == CASE sl.sz = 1 -> "loadub" [] sl.sz = 2 -> "loaduh" [] sl.sz = 4 -> "loaduw" [] OTHER -> "load"
        a == s.fn.alias[sl.ref[2]]
        address ==
          CASE ~ IsTmp(sl.ref) -> [s EXCEPT !.r = sl.ref]
            [] a.type \in {"con", "sym"} -> [s EXCEPT !.r = IF a.type = "con" THEN Con(Long(a.off)) ELSE Addr(a.sym, Long(a.off))]
            [] a.off = 0 -> [s EXCEPT !.r = Tmp(a.base)]
            [] OTHER -> IIns(s, "l", "add", Tmp(a.base), Con(Long(a.off)), l)
    IN With(address, LAMBDA p : With(IIns(p, cls, op, p.r, R, l), LAMBDA q : IF all THEN q ELSE MaskTo(q, cls, m, l)))
\* Load: the search failed at this point.
GiveUp(s, sl, m, il) == IF il.type = "load" THEN NewLoad(s, sl, m, il) ELSE [s EXCEPT !.r = R]

\* The memory the n-th instruction of b reads or writes; a blit is met at its
\* second half.
AccessOf(blk, n) ==
    LET i == blk.ins[n]
        blit == blk.ins[n - 1]
        abs(x) == IF x < 0 THEN -x ELSE x
    IN CASE i.op \in Loads -> [kind |-> "load", sz |-> LoadSz(i), at |-> i.arg[1], val |-> i.to]
         [] i.op \in Stores -> [kind |-> "store", sz |-> StoreSz(i), at |-> i.arg[2], val |-> i.arg[1]]
         [] i.op = "blit1" -> [kind |-> "blit", sz |-> abs(i.arg[1][2]), at |-> blit.arg[2], val |-> blit.arg[1]]
         [] OTHER -> [kind |-> "none"]

\* The bytes of the slice an access that starts delta bytes before it provides.
Provided(sl, sz, delta) == {k \in AllOf(sl.sz) : k + delta \in 0 .. sz - 1}

\* What the n-th instruction means for the search: it ends it without result,
\* provides bytes that are asked for, or is passed over.
Effect(fn, blk, sl, m, n) ==
    LET i == blk.ins[n]
        acc == AccessOf(blk, n)
        al == AliasOf(fn, sl.ref, sl.off, sl.sz, acc.at, acc.sz)
    IN CASE KillSl(fn, i.to, sl) \/ (i.op = "call" /\ Escapes(fn, sl.ref)) -> "ends"
         [] acc.kind = "none" -> "none"
         [] al.is = MustAlias -> IF Provided(sl, acc.sz, al.delta) \cap m = {} THEN "none" ELSE "provides"
         [] al.is = MayAlias /\ acc.kind # "load" -> "ends"
         [] OTHER -> "none"

\* def: the value of the bytes m of the slice in front of instruction n + 1 of
\* block b, with the other bytes zero, for use at il; s.r is R if it is not known.
RECURSIVE Def(_, _, _, _, _, _), DefFrom(_, _, _, _, _, _, _), DefPreds(_, _, _, _, _), DefArg(_, _, _, _, _)

Def(s, sl, m, b, n, il) ==
    LET blk == s.fn.blk[b]
        effects == [k \in 1 .. n |-> Effect(s.fn, blk, sl, m, k)]
        provided(k) ==
          LET acc == AccessOf(blk, k)
          IN DefFrom(s, sl, m, <<b, k>>, il, acc, AliasOf(s.fn, sl.ref, sl.off, sl.sz, acc.at, acc.sz).delta)
    IN With(effects, LAMBDA e : With({0} \cup {k \in 1 .. n : e[k] # "none"}, LAMBDA found :
         CASE found = {0} -> DefPreds(s, sl, m, b, il)
           [] e[Max(found)] = "ends" -> GiveUp(s, sl, m, il)
           [] OTHER -> With(provided(Max(found)), LAMBDA d : IF Fails(d) THEN GiveUp(s, sl, m, il) ELSE d)))

\* The access acc, delta bytes before the slice, provides some of its bytes: they are
\* moved into place, and the others are looked for further up.
DefFrom(s, sl, m, at, il, acc, delta) ==
    LET here == Provided(sl, acc.sz, delta)
        cls == IF sl.sz > 4 THEN "l" ELSE "w"
        skip == IF delta > 0 THEN delta ELSE 0
        avail == acc.sz - skip
        want == IF delta < 0 THEN sl.sz + delta ELSE sl.sz
        sz == IF acc.kind = "blit" THEN Min({avail, want}) ELSE acc.sz
        off == IF acc.kind = "blit" /\ delta > 0 THEN 0 ELSE delta
        by == IF off < 0 THEN -off ELSE off
        c1 == IF off > 0 /\ by + sl.sz > 4 THEN "l" ELSE cls
        source == IF acc.kind = "blit"
                  THEN Def(s, [sl EXCEPT !.ref = acc.val, !.off = skip, !.sz = sz], AllOf(sz), at[1], at[2] - 2, il)
                  ELSE [s EXCEPT !.r = acc.val]
        shift(d) == IF off = 0 THEN d
                    ELSE With(Cast(d, c1, il), LAMBDA c :
                           IIns(c, c1, IF off > 0 THEN "shr" ELSE "shl", c.r, Con(ByteBits * by), il))
        cut(d) == IF ~ here \subseteq m \/ by + sz < sl.sz THEN MaskTo(d, cls, here \cap m, il) ELSE d
        rest(d) == IF m \subseteq here THEN d
                   ELSE With(Def(d, sl, m \ here, at[1], at[2] - (IF acc.kind = "blit" THEN 2 ELSE 1), il), LAMBDA e :
                          IF Fails(e) THEN e ELSE IIns(e, cls, "or", d.r, e.r, il))
        final(d) == IF Fails(d) \/ m # AllOf(sl.sz) THEN d ELSE Cast(d, sl.cls, il)
    IN With(source, LAMBDA d :
         IF Fails(d) THEN d
         ELSE With(shift(d), LAMBDA d1 : With(cut(d1), LAMBDA d2 : With(rest(d2), LAMBDA d3 : final(d3)))))

\* Nothing in the block decides: the value comes from the predecessors, through a
\* new phi where there are several.
DefPreds(s, sl, m, b, il) ==
    LET blk == s.fn.blk[b]
        pred == s.fn.pred[b]
        cls == IF sl.sz > 4 THEN "l" ELSE "w"
        known == SelectInSeq(s.log, LAMBDA e : e.isphi /\ e.b = b /\ e.m.ref = sl.ref /\ e.m.off = sl.off /\ e.m.sz = sl.sz)
        fit(d) == IF m # AllOf(sl.sz) THEN MaskTo(d, cls, m, il) ELSE d
        to == Tmp(NTmp(s.fn))
        new == [s EXCEPT !.fn = NewTmp(@, sl.cls),
                         !.log = Append(@, [isphi |-> TRUE, b |-> b, m |-> sl, phi |-> Phi(to, sl.cls, <<>>)])]
    IN CASE known # 0 -> With([s EXCEPT !.r = s.log[known].phi.to], LAMBDA d :
                           IF m # AllOf(sl.sz) THEN fit(d) ELSE Cast(d, sl.cls, il))
         [] known = 0 /\ (pred = <<>> \/ \E p \in Range(blk.phi) : KillSl(s.fn, p.to, sl)) -> GiveUp(s, sl, m, il)
         [] known = 0 /\ Len(pred) = 1 ->
              LET p == s.fn.blk[pred[1]]
                  l == IF p.s2 # 0 THEN [il EXCEPT !.type = "noload"] ELSE il
              IN With(Def(s, sl, m, pred[1], Len(p.ins), l), LAMBDA d : IF Fails(d) THEN GiveUp(s, sl, m, il) ELSE d)
         [] OTHER ->
              With(Each(LAMBDA acc, p : DefArg(acc, sl, p, Len(new.log), il), [new EXCEPT !.r = to], pred), LAMBDA d :
                IF Fails(d) THEN GiveUp(s, sl, m, il) ELSE fit([d EXCEPT !.r = to]))

\* One argument of the new phi, entry k of the log.
DefArg(s, sl, p, k, il) ==
    LET blk == s.fn.blk[p]
        hoist == blk.s2 = 0 /\ il.type # "noload" /\ s.fn.loop[p] < s.fn.loop[il.b]
        l == [type |-> IF hoist THEN "load" ELSE "noload", b |-> p, off |-> Len(blk.ins)]
    IN IF Fails(s) THEN s
       ELSE With(Def(s, sl, AllOf(sl.sz), p, Len(blk.ins), l), LAMBDA d :
              IF Fails(d) THEN d ELSE [d EXCEPT !.log[k].phi.from = Append(@, <<p, d.r>>)])

-----------------------------------------------------------------------------
\* A load whose value is val becomes a copy or an extension of it.
Replaced(i, val) ==
    LET copy == i.op = "load" \/ (i.op \in {"loadsw", "loaduw"} /\ i.cls = "w")
    IN Ins(IF copy THEN "copy" ELSE CHOOSE e \in Exts : ExtWidth[e] = LoadWidth[i.op], i.cls, i.to, val, R)

\* loadopt
LoadOpt(fn) ==
    LET places == FlattenSeq([k \in DOMAIN fn.link |->
                    LET b == fn.link[k] IN SelectSeq([n \in DOMAIN fn.blk[b].ins |-> <<b, n>>],
                                                     LAMBDA p : fn.blk[b].ins[p[2]].op \in Loads)])
        search(s, p) ==
          LET i == s.fn.blk[p[1]].ins[p[2]]
              sl == Rebase(fn, [ref |-> i.arg[1], off |-> 0, sz |-> LoadSz(i), cls |-> i.cls])
          IN With(Def(s, sl, AllOf(sl.sz), p[1], p[2] - 1, [type |-> "root", b |-> p[1], off |-> p[2] - 1]), LAMBDA d :
               IF Fails(d) THEN s ELSE [d EXCEPT !.val = (p :> d.r) @@ @])
        rebuilt(s, b) ==
          LET log == SelectSeq(s.log, LAMBDA e : e.b = b)
              phis == SelectSeq(log, LAMBDA e : e.isphi)
              before(n) == LET es == SelectSeq(log, LAMBDA e : ~ e.isphi /\ e.off = n) IN [k \in DOMAIN es |-> es[k].ins]
              old(n) == LET i == fn.blk[b].ins[n] IN IF <<b, n>> \in DOMAIN s.val THEN Replaced(i, s.val[<<b, n>>]) ELSE i
              count == Len(fn.blk[b].ins)
          IN [s.fn.blk[b] EXCEPT
                !.phi = Reverse([k \in DOMAIN phis |-> phis[k].phi]) \o @,
                !.ins = FlattenSeq([n \in 1 .. count |-> before(n - 1) \o <<old(n)>>]) \o before(count)]
    IN With(Each(search, [fn |-> fn, log |-> <<>>, inum |-> 0, r |-> R, val |-> <<>>], places), LAMBDA s :
         [s.fn EXCEPT !.blk = [b \in DOMAIN @ |-> IF fn.id[b] < 0 THEN @[b] ELSE rebuilt(s, b)]])
=============================================================================
