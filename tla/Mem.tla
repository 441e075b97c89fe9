-------------------------------- MODULE Mem ---------------------------------
(***************************************************************************)
(* What QBE knows of the addresses in a function (src/qbe/alias.c): each   *)
(* temporary is an offset from a stack slot, a symbol, a constant or       *)
(* something unknown, and a slot is local until its address escapes.       *)
(* fn.alias[t] is the code's tmp[t].alias; .slot names the temporary that  *)
(* allocated, and the escape is recorded there.                            *)
(*                                                                         *)
(* And what it makes of stack slots (src/qbe/mem.c): promote turns slots   *)
(* that are only loaded and stored into temporaries; coalesce kills stores *)
(* nobody reads, slots nobody uses, and lets slots that are never live     *)
(* together share memory.                                                  *)
(***************************************************************************)
EXTENDS Cfg

NBit == 64      \* bytes of a slot that are tracked one by one

MemSize == [b |-> 1, h |-> 2, w |-> 4, l |-> 8]
LoadSz(i) == CASE i.op \in {"loadsb", "loadub"} -> 1 [] i.op \in {"loadsh", "loaduh"} -> 2
               [] i.op \in {"loadsw", "loaduw"} -> 4 [] OTHER -> MemSize[i.cls]
StoreSz(i) == CASE i.op = "storeb" -> 1 [] i.op = "storeh" -> 2 [] i.op = "storew" -> 4 [] OTHER -> 8

\* The bytes off .. off + sz - 1 of a slot that are tracked.
Bytes(off, sz) == (off .. off + sz - 1) \cap (0 .. NBit - 1)

NoAlias == "no"
MayAlias == "may"
MustAlias == "must"

AliasBot == [type |-> "bot", base |-> 0, off |-> 0, slot |-> 0, sym |-> "", sz |-> -1, m |-> {}]
OnStack(a) == a.type \in {"loc", "esc"}

\* getalias: a temporary's alias has the type its slot has now.
GetAlias(fn, r) ==
    CASE r[1] = "tmp" -> LET a == fn.alias[r[2]]
                         IN IF OnStack(a) THEN [a EXCEPT !.type = fn.alias[a.slot].type] ELSE a
      [] r[1] = "addr" -> [AliasBot EXCEPT !.type = "sym", !.sym = r[2], !.off = Signed(r[3], "l")]
      [] r[1] = "con" -> [AliasBot EXCEPT !.type = "con", !.off = Signed(r[2], "l")]
      [] OTHER -> [AliasBot EXCEPT !.type = "con"]

\* alias: may the sp bytes at p + op and the sq bytes at q be the same memory?
\* delta is meaningful where they overlap.
Verdict(ap, sp, aq, sq) ==
    LET ovlap == ap.off < aq.off + sq /\ aq.off < ap.off + sp
        same(yes) == IF yes THEN MustAlias ELSE NoAlias
    IN CASE OnStack(ap) /\ OnStack(aq) -> same(ap.base = aq.base /\ ovlap)
         [] ap.type = "sym" /\ aq.type = "sym" -> IF ap.sym # aq.sym THEN MayAlias ELSE same(ovlap)
         [] \/ ap.type = "con" /\ aq.type = "con"
            \/ ap.type = aq.type /\ ap.base = aq.base -> same(ovlap)
         [] \/ ap.type = "unk" /\ aq.type # "loc"
            \/ aq.type = "unk" /\ ap.type # "loc" -> MayAlias
         [] OTHER -> NoAlias
AliasOf(fn, p, op, sp, q, sq) ==
    With([GetAlias(fn, p) EXCEPT !.off = @ + op], LAMBDA ap : With(GetAlias(fn, q), LAMBDA aq :
      [is |-> Verdict(ap, sp, aq, sq), delta |-> ap.off - aq.off]))

\* Faulty variant: a call may only change memory that is on no stack.
EscapesOutside(fn, r) == \/ ~ IsTmp(r)
                         \/ ~ OnStack(fn.alias[r[2]])
\* escapes
Escapes(fn, r) == \/ ~ IsTmp(r)
                  \/ ~ OnStack(fn.alias[r[2]])
                  \/ fn.alias[fn.alias[r[2]].slot].type = "esc"

\* esc: the address r is passed on, so its slot is no longer local.
Esc(al, r) == IF IsTmp(r) /\ OnStack(al[r[2]]) THEN [al EXCEPT ![al[r[2]].slot].type = "esc"] ELSE al

\* store: the bytes written through r belong to its slot's mask.
MaskStore(al, r, sz) ==
    IF ~ IsTmp(r) \/ al[r[2]].slot = 0 THEN al
    ELSE LET off == al[r[2]].off
             m == IF sz >= NBit \/ off \notin 0 .. NBit - 1 THEN 0 .. NBit - 1 ELSE Bytes(off, sz)
         IN [al EXCEPT ![al[r[2]].slot].m = @ \cup m]

\* What the result of an instruction points to.
AliasOfResult(fn, i) ==
    LET t == i.to[2]
        unknown == [AliasBot EXCEPT !.type = "unk", !.base = t]
        a0 == GetAlias(fn, i.arg[1])
        a1 == GetAlias(fn, i.arg[2])
        size == IF i.arg[1][1] = "con" /\ i.arg[1][2] <= NBit THEN i.arg[1][2] ELSE -1
    IN CASE i.op \in Allocs -> [AliasBot EXCEPT !.type = "loc", !.base = t, !.slot = t, !.sz = size]
         [] i.op = "copy" -> IF a0.slot = 0 /\ a0.type \in {"con", "sym"} THEN [a0 EXCEPT !.base = t] ELSE a0
         [] i.op = "add" /\ a0.type = "con" -> [a1 EXCEPT !.off = @ + a0.off]
         [] i.op = "add" /\ a1.type = "con" -> [a0 EXCEPT !.off = @ + a1.off]
         [] OTHER -> unknown

AliasIns(fn, blk, n) ==
    LET i == blk.ins[n]
        leaks(al) == (i.to = R \/ al[i.to[2]].type = "unk") /\ i.op # "blit0"
        escaped(al) == Each(LAMBDA x, k : IF leaks(x) /\ i.op \notin (IF k = 1 THEN Loads ELSE Stores)
                                          THEN Esc(x, i.arg[k]) ELSE x, al, <<1, 2>>)
        size == LET sz == blk.ins[n + 1].arg[1][2] IN IF sz < 0 THEN -sz ELSE sz
    IN With(IF i.to = R THEN fn.alias ELSE [fn.alias EXCEPT ![i.to[2]] = AliasOfResult(fn, i)], LAMBDA al :
         CASE i.op = "blit1" -> fn.alias
           [] i.op = "blit0" -> MaskStore(al, i.arg[2], size)
           [] i.op \in Stores -> MaskStore(escaped(al), i.arg[2], StoreSz(i))
           [] OTHER -> escaped(al))

\* fillalias
FillAlias(fn0) ==
    LET unknown(p) == p.to[2] :> [AliasBot EXCEPT !.type = "unk", !.base = p.to[2]]
        block(fn, b) ==
          LET blk == fn.blk[b]
              phis == Each(LAMBDA al, p : unknown(p) @@ al, fn.alias, blk.phi)
          IN With(Each(LAMBDA f, n : [f EXCEPT !.alias = AliasIns(f, blk, n)], [fn EXCEPT !.alias = phis],
                       [n \in DOMAIN blk.ins |-> n]), LAMBDA f : [f EXCEPT !.alias = Esc(@, blk.ja)])
        args(al, b) == Each(LAMBDA x, p : Each(LAMBDA y, f : Esc(y, f[2]), x, p.from), al, fn0.blk[b].phi)
    IN With(Each(block, [fn0 EXCEPT !.alias = [t \in DOMAIN fn0.tmp |-> AliasBot]], fn0.rpo), LAMBDA fn :
         [fn EXCEPT !.alias = Each(args, fn.alias, fn.link)])

-----------------------------------------------------------------------------
(* mem.c *)

InsAt(fn, u) == fn.blk[u.b].ins[u.at]

\* The size and class every load and store of slot t agrees on, <<>> when they
\* do not or when the address is used for anything else.
Uniform(fn, t) ==
    LET see(acc, u) ==
          LET l == InsAt(fn, u)
              cls == ArgCls(l, 1)
          IN CASE acc = <<>> \/ u.type # "ins" -> <<>>
               [] l.op \in Loads /\ acc[1] \in {-1, LoadSz(l)} -> <<LoadSz(l), acc[2]>>
               [] /\ l.op \in Stores /\ l.arg[2] = Tmp(t) /\ l.arg[1] # Tmp(t)
                  /\ acc[1] \in {-1, StoreSz(l)} /\ acc[2] \in {"x", cls} -> <<StoreSz(l), cls>>
               [] OTHER -> <<>>
    IN IF fn.tmp[t].ndef # 1 THEN <<>> ELSE Each(see, <<-1, "x">>, fn.tmp[t].use)

\* What a load or store of a promoted slot of class k becomes.
Promoted(l, k) ==
    CASE l.op \in Stores -> Copy(k, l.arg[2], l.arg[1])
      [] l.op \in {"loadsw", "loaduw"} /\ k # "l" -> [l EXCEPT !.op = "copy"]
      [] l.op = "load" -> [l EXCEPT !.op = "copy"]
      [] OTHER -> [l EXCEPT !.op = CHOOSE e \in Exts : ExtWidth[e] = LoadWidth[l.op]]

\* promote
Promote(fn0) ==
    LET slot(fn, n) ==
          LET i == fn.blk[Start(fn)].ins[n]
              t == i.to[2]
              form == Uniform(fn, t)
              stores == Cardinality({m \in DOMAIN fn.tmp[t].use : InsAt(fn, fn.tmp[t].use[m]).op \in Stores})
          IN CASE i.op \notin Allocs \/ fn.err # "" -> fn
               [] form = <<>> -> fn
               [] form[2] = "x" /\ fn.tmp[t].use # <<>> -> [fn EXCEPT !.err = "slot is read but never stored to"]
               [] OTHER -> Each(LAMBDA f, u : [f EXCEPT !.blk[u.b].ins[u.at] = Promoted(@, form[2])],
                                [fn EXCEPT !.blk[Start(fn)].ins[n] = Nop,
                                           !.tmp[t].ndef = @ - 1 + stores, !.tmp[t].nuse = @ - stores],
                                fn.tmp[t].use)
    IN Each(slot, fn0, [n \in DOMAIN fn0.blk[Start(fn0)].ins |-> n])

-----------------------------------------------------------------------------
\* coalesce numbers the instructions downwards from the end of the function.  A
\* range is [a, b), empty when b is 0.
NoRange == [a |-> 0, b |-> 0]
RIn(r, n) == r.a <= n /\ n < r.b
ROverlap(p, q) == p.b # 0 /\ q.b # 0 /\ p.a < q.b /\ q.a < p.b
RAdd(r, n) == CASE r.b = 0 -> [a |-> n, b |-> n + 1] [] n < r.a -> [r EXCEPT !.a = n]
                [] n >= r.b -> [r EXCEPT !.b = n + 1] [] OTHER -> r
LastIp == 100000

\* The slots coalesce may touch: local, of known size, allocated in the start block.
SlotsOf(fn) ==
    LET own(t) == /\ fn.alias[t].type = "loc" /\ fn.alias[t].slot = t /\ fn.alias[t].sz # -1
                  /\ fn.tmp[t].bid = fn.id[Start(fn)]
    IN LET ts == SelectSeq([n \in 1 .. NTmp(fn) - Tmp0 |-> Tmp0 + n - 1], own)
       IN [n \in DOMAIN ts |-> [t |-> ts[n], sz |-> fn.alias[ts[n]].sz, m |-> fn.alias[ts[n]].m,
                                l |-> {}, r |-> NoRange, into |-> 0, st |-> <<>>]]
\* slot: the index of the slot r points into, 0 if it points into none of them.
SlotIn(fn, sl, r) ==
    LET a == GetAlias(fn, r)
    IN IF a.type # "loc" THEN 0 ELSE SelectInSeq(sl, LAMBDA s : s.t = a.base)
OffsetIn(fn, r) == GetAlias(fn, r).off

SlotLoad(fn, acc, r, sz, ip) ==
    LET n == SlotIn(fn, acc.sl, r)
        live(s) == (s.l \cup Bytes(OffsetIn(fn, r), sz)) \cap s.m
    IN IF n = 0 THEN acc
       ELSE [acc EXCEPT !.sl[n] = [@ EXCEPT !.l = live(acc.sl[n]), !.r = IF live(acc.sl[n]) # {} THEN RAdd(@, ip) ELSE @]]
SlotStore(fn, acc, r, sz, ip, at) ==
    LET n == SlotIn(fn, acc.sl, r)
    IN CASE n = 0 -> acc
         [] acc.sl[n].l # {} -> [acc EXCEPT !.sl[n] = [@ EXCEPT !.r = RAdd(@, ip), !.l = @ \ Bytes(OffsetIn(fn, r), sz)]]
         [] OTHER -> [acc EXCEPT !.sl[n].st = Append(@, [ip |-> ip, at |-> at])]

\* One instruction of the walk from the last to the first.
SlotIns(fn, b, acc, n) ==
    LET i == fn.blk[b].ins[n]
        size == LET s == fn.blk[b].ins[n + 1].arg[1][2] IN IF s < 0 THEN -s ELSE s
    IN CASE i.op \in Loads -> SlotLoad(fn, [acc EXCEPT !.ip = @ - 1], i.arg[1], LoadSz(i), acc.ip - 1)
         [] i.op \in Stores -> [SlotStore(fn, acc, i.arg[2], StoreSz(i), acc.ip, <<b, n>>) EXCEPT !.ip = @ - 1]
         [] i.op = "blit0" ->
              [SlotLoad(fn, [SlotStore(fn, acc, i.arg[2], size, acc.ip, <<b, n>>) EXCEPT !.ip = @ - 1],
                        i.arg[1], size, acc.ip - 1) EXCEPT !.blits = Append(@, <<b, n>>)]
         [] OTHER -> acc

LoopEnds(fn) == [b \in DOMAIN fn.blk |->
    IF fn.id[b] < 0 \/ LoopBlocks(fn, b) = {} THEN -1 ELSE Max({fn.id[c] : c \in LoopBlocks(fn, b)})]

SlotBlock(fn, ends, acc, b) ==
    LET n == fn.id[b]
        ip == acc.ip - 1
        enter(s) ==
          LET later == {x \in {fn.id[c] : c \in Range(Succs(fn.blk[b]))} : x > n /\ RIn(s.r, acc.br[x].a)}
          IN IF later = {} THEN [s EXCEPT !.l = {}] ELSE [s EXCEPT !.l = s.m, !.r = RAdd(@, ip)]
        leave(s, end) ==
          IF s.l = {} THEN s
          ELSE [s EXCEPT !.r = IF ends[b] = -1 THEN RAdd(@, end.ip) ELSE RAdd(RAdd(@, end.ip), end.br[ends[b]].b - 1)]
        start == [acc EXCEPT !.ip = ip, !.br = (n :> [a |-> 0, b |-> acc.ip]) @@ @, !.sl = [k \in DOMAIN @ |-> enter(@[k])]]
        indices == Reverse([k \in DOMAIN fn.blk[b].ins |-> k])
    IN With(Each(LAMBDA a, k : SlotIns(fn, b, a, k), start, indices), LAMBDA end :
         [end EXCEPT !.br[n].a = end.ip, !.sl = [k \in DOMAIN @ |-> leave(@[k], end)]])

\* An instruction dies; the second half of a blit dies with the first.
Kill(fn, at) ==
    LET second == fn.blk[at[1]].ins[at[2]].op = "blit0"
    IN [fn EXCEPT !.blk[at[1]].ins = [n \in DOMAIN @ |-> IF n = at[2] \/ (second /\ n = at[2] + 1) THEN Nop ELSE @[n]]]

\* Slots nobody reads go, and everything computed from their address.
RECURSIVE KillSlots(_, _)
KillSlots(fn, stk) ==
    IF stk = <<>> THEN fn
    ELSE LET t == fn.tmp[Last(stk)]
             use(acc, u) ==
               LET i == InsAt(acc.fn, u)
               IN CASE u.type = "jmp" -> [acc EXCEPT !.fn.blk[u.b].jt = "ret0", !.fn.blk[u.b].ja = R]
                    [] i.to # R -> [acc EXCEPT !.stk = Append(@, i.to[2])]
                    [] OTHER -> [acc EXCEPT !.fn = Kill(@, <<u.b, u.at>>)]
         IN IF fn.blk[t.def[1]].ins[t.def[2]].op \in Loads
            THEN KillSlots([fn EXCEPT !.blk[t.def[1]].ins[t.def[2]] = [@ EXCEPT !.op = "copy", !.arg[1] = Undef]], Front(stk))
            ELSE With(Each(use, [fn |-> Kill(fn, t.def), stk |-> Front(stk)], t.use), LAMBDA acc :
                   KillSlots(acc.fn, acc.stk))

\* Slots by decreasing size take in the later ones they never overlap.
Fuse(sl) ==
    LET into(acc, n) ==
          IF acc[n].into # 0 THEN acc
          ELSE LET join(a, k) ==
                     LET clash == \E m \in n .. k - 1 : a.sl[m].into = n /\ ROverlap(a.sl[m].r, a.sl[k].r)
                     IN IF (a.sl[k].into # 0) \/ (a.sl[k].r.b = 0) \/ (ROverlap(a.r, a.sl[k].r) /\ clash) THEN a
                        ELSE [sl |-> [a.sl EXCEPT ![k].into = n], r |-> RAdd(RAdd(a.r, a.sl[k].r.a), a.sl[k].r.b - 1)]
               IN Each(join, [sl |-> [acc EXCEPT ![n].into = n], r |-> acc[n].r],
                       [k \in 1 .. Len(acc) - n |-> n + k]).sl
    IN Each(into, sl, [n \in DOMAIN sl |-> n])

\* The uses of a fused slot become uses of the slot it shares, whose allocation
\* moves up where it would come too late.
SubstSlot(sl, fn, n) ==
    LET t == sl[n].t
        ts == sl[sl[n].into].t
        d == fn.tmp[t].def
        ds == fn.tmp[ts].def
        moved == IF d[2] > ds[2] THEN [fn EXCEPT !.blk[d[1]].ins[d[2]] = Nop]
                 ELSE [fn EXCEPT !.blk[d[1]].ins = [@ EXCEPT ![d[2]] = @[ds[2]], ![ds[2]] = Nop], !.tmp[ts].def = d]
        use(f, u) == IF u.type = "jmp" THEN [f EXCEPT !.blk[u.b].ja = Tmp(ts)]
                     ELSE [f EXCEPT !.blk[u.b].ins[u.at] = Subst(@, Tmp(t), Tmp(ts))]
    IN IF sl[n].into = n THEN fn ELSE Each(use, moved, fn.tmp[t].use)

\* A blit between slots that now share memory copies backwards, or is not needed.
FixBlit(sl, fn, at) ==
    LET i == fn.blk[at[1]].ins[at[2]]
        from == SlotIn(fn, sl, i.arg[1])
        to == SlotIn(fn, sl, i.arg[2])
        off == <<OffsetIn(fn, i.arg[1]), OffsetIn(fn, i.arg[2])>>
    IN CASE i.op # "blit0" -> fn
         [] from = 0 \/ to = 0 -> fn
         [] sl[from].into # sl[to].into -> fn
         [] off[1] < off[2] -> [fn EXCEPT !.blk[at[1]].ins[at[2] + 1].arg[1] = <<"int", -@[2]>>]
         [] off[1] = off[2] -> Kill(fn, at)
         [] OTHER -> fn

\* coalesce
Coalesce(fn) ==
    LET ends == LoopEnds(fn)
        first == [sl |-> SlotsOf(fn), ip |-> LastIp, br |-> <<>>, blits |-> <<>>]
        order(p, q) == p.sz > q.sz \/ (p.sz = q.sz /\ p.r.a < q.r.a)
    IN With(Each(LAMBDA acc, b : SlotBlock(fn, ends, acc, b), first, Reverse(fn.rpo)), LAMBDA live :
         LET dead(s) == SelectSeq(s.st, LAMBDA x : ~ RIn(s.r, x.ip))
             noStores == Each(LAMBDA f, s : Each(LAMBDA g, x : Kill(g, x.at), f, dead(s)), [fn EXCEPT !.loop = ends], live.sl)
             unused == SelectSeq(live.sl, LAMBDA s : s.r.b = 0)
         IN With(KillSlots(noStores, [n \in DOMAIN unused |-> unused[n].t]), LAMBDA killed :
              With(Fuse(SortSeq(SelectSeq(live.sl, LAMBDA s : s.r.b # 0), order)), LAMBDA sl :
                With(Each(LAMBDA f, n : SubstSlot(sl, f, n), killed, [n \in DOMAIN sl |-> n]), LAMBDA f :
                  Each(LAMBDA g, at : FixBlit(sl, g, at), f, live.blits)))))
=============================================================================
