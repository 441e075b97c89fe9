-------------------------------- MODULE Gcm --------------------------------
(***************************************************************************)
(* Global code motion (src/qbe/gcm.c): every instruction that may move     *)
(* goes to the block of the fewest loops between the earliest that has its *)
(* operands and the latest that dominates its uses; what nothing uses      *)
(* goes.  tmp[t].gcmbid is first the earliest block, then the chosen one.  *)
(***************************************************************************)
EXTENDS Ssa

NoBid == -1
BlkOf(fn, bid) == fn.rpo[bid + 1]
DefOf(fn, t) == fn.blk[fn.tmp[t].def[1]].ins[fn.tmp[t].def[2]]
MayMove(fn, t) == fn.tmp[t].def # <<>> /\ ~ IsPinned(DefOf(fn, t))
\* canelim: pinned instructions that go when nothing uses them.
CanElim(i) == i.op \in Loads \cup Allocs \cup Divisions

\* schedearly and earlyins
RECURSIVE SchedEarly(_, _)
BidOf(fn, r) == IF IsTmp(r) THEN fn.tmp[r[2]].gcmbid ELSE 0
Deeper(fn, b0, b1) == IF fn.depth[BlkOf(fn, b0)] < fn.depth[BlkOf(fn, b1)] THEN b1 ELSE b0
SchedEarly(fn, r) ==
    LET t == r[2]
        info == fn.tmp[t]
        i == DefOf(fn, t)
    IN CASE ~ IsTmp(r) -> fn
         [] info.gcmbid # NoBid -> fn
         [] info.def = <<>> -> [fn EXCEPT !.tmp[t].gcmbid = info.bid]
         [] OTHER ->
              With(Each(SchedEarly, [fn EXCEPT !.tmp[t].gcmbid = 0], i.arg), LAMBDA f :
                [f EXCEPT !.tmp[t].gcmbid = IF IsPinned(i) THEN info.bid
                                            ELSE Deeper(f, BidOf(f, i.arg[1]), BidOf(f, i.arg[2]))])

\* earlyblk: what phis, pinned instructions and the jump read.
EarlyBlk(fn, b) ==
    LET blk == fn.blk[b]
        args(p) == [n \in DOMAIN p.from |-> p.from[n][2]]
        roots == FlattenSeq([n \in DOMAIN blk.phi |-> args(blk.phi[n])])
                 \o FlattenSeq([n \in DOMAIN blk.ins |-> IF IsPinned(blk.ins[n]) THEN blk.ins[n].arg ELSE <<>>])
                 \o <<blk.ja>>
    IN Each(SchedEarly, fn, roots)

\* lcabid
LcaBid(fn, b1, b2) ==
    CASE b1 = NoBid -> b2 [] b2 = NoBid -> b1
      [] OTHER -> fn.id[Lca(fn, BlkOf(fn, b1), BlkOf(fn, b2))]

RECURSIVE Up(_, _, _)
Up(fn, b, top) == IF b = top THEN <<b>> ELSE <<b>> \o Up(fn, fn.idom[b], top)
\* bestbid: on the way up from late to early, the first of the blocks in fewest loops.
BestBid(fn, early, late) ==
    IF late = NoBid THEN NoBid
    ELSE fn.id[Each(LAMBDA best, b : IF fn.loop[b] < fn.loop[best] THEN b ELSE best, BlkOf(fn, late),
                    Up(fn, BlkOf(fn, late), BlkOf(fn, early)))]

\* schedlate, with lateins, latephi and latejmp: the block that suits all uses.
RECURSIVE SchedLate(_, _), LateUse(_, _, _)
GcmBid(fn, r) == IF IsTmp(r) THEN fn.tmp[r[2]].gcmbid ELSE NoBid
LateUse(acc, t, u) ==
    LET blk == acc.fn.blk[u.b]
        i == blk.ins[u.at]
        phi == SelectSeq(blk.phi, LAMBDA p : p.to = Tmp(u.at))
        from == SelectSeq(Head(phi).from, LAMBDA f : f[2] = Tmp(t))
        meet(fn, bid) == [fn |-> fn, late |-> LcaBid(fn, acc.late, bid)]
    IN CASE u.type = "jmp" -> meet(acc.fn, IF blk.ja = R THEN NoBid ELSE u.bid)
         [] u.type = "phi" ->
              IF phi = <<>> THEN acc
              ELSE Each(LAMBDA a, f : [a EXCEPT !.late = LcaBid(a.fn, @, a.fn.id[f[1]])], acc, from)
         [] OTHER ->
              With(SchedLate(acc.fn, i.to), LAMBDA fn :
                meet(fn, IF ~ IsPinned(i) THEN GcmBid(fn, i.to)
                         ELSE IF GcmBid(fn, i.to) = NoBid /\ CanElim(i) THEN NoBid ELSE u.bid))
SchedLate(fn, r) ==
    LET t == r[2]
        early == fn.tmp[t].gcmbid
        seen == [fn EXCEPT !.tmp[t].visit = 1]
    IN CASE ~ IsTmp(r) \/ fn.tmp[t].visit = 1 -> fn
         [] early = NoBid -> seen
         [] OTHER ->
              With(Each(LAMBDA acc, u : LateUse(acc, t, u),
                        [fn |-> [seen EXCEPT !.tmp[t].gcmbid = fn.tmp[t].bid], late |-> NoBid], fn.tmp[t].use), LAMBDA acc :
                IF MayMove(acc.fn, t) THEN [acc.fn EXCEPT !.tmp[t].gcmbid = BestBid(acc.fn, early, acc.late)]
                ELSE acc.fn)

\* lateblk: phis nobody uses go.
LateBlk(fn, b) ==
    LET phi(f, p) ==
          With(SchedLate(f, p.to), LAMBDA g :
            IF GcmBid(g, p.to) # NoBid THEN g
            ELSE [g EXCEPT !.blk[b].phi = SelectSeq(@, LAMBDA q : q.to # p.to)])
        ins(f, i) == IF IsPinned(i) THEN SchedLate(f, i.to) ELSE f
    IN With(Each(phi, fn, fn.blk[b].phi), LAMBDA f : Each(ins, f, f.blk[b].ins))

\* addgcmins
AddGcmIns(fn, ins) ==
    Each(LAMBDA f, i : [f EXCEPT !.blk[BlkOf(f, f.tmp[i.to[2]].gcmbid)].ins = Append(@, i)], fn, ins)

\* gcmmove
GcmMove(fn) ==
    LET leaves(t) == LET info == fn.tmp[t]
                     IN info.def # <<>> /\ info.bid # info.gcmbid /\ (MayMove(fn, t) \/ CanElim(DefOf(fn, t)))
        ts == SelectSeq([n \in 1 .. NTmp(fn) - Tmp0 |-> Tmp0 + n - 1], leaves)
        kept == SelectSeq(ts, LAMBDA t : fn.tmp[t].gcmbid # NoBid)
    IN With(Each(LAMBDA f, t : [f EXCEPT !.blk[fn.tmp[t].def[1]].ins[fn.tmp[t].def[2]] = Nop], fn, ts), LAMBDA f :
         AddGcmIns(f, [n \in DOMAIN kept |-> DefOf(fn, kept[n])]))

\* cheap
Cheap(i) == i.op \in {"neg", "add", "sub", "mul", "and", "or", "xor", "sar", "shr", "shl"} \cup CmpOps

\* sinkref: an address or a condition that is cheap to compute is computed again in
\* the block that reads it; acc.out is the code's emission buffer, acc.r the operand.
RECURSIVE SinkRef(_, _, _)
SinkRef(acc, b, r) ==
    LET t == acc.fn.tmp[r[2]]
        i == DefOf(acc.fn, r[2])
        new == Tmp(NTmp(acc.fn))
    IN CASE ~ IsTmp(r) -> [acc EXCEPT !.r = r]
         [] t.def = <<>> \/ t.bid = acc.fn.id[b] -> [acc EXCEPT !.r = r]
         [] IsPinned(i) \/ ~ Cheap(i) -> [acc EXCEPT !.r = r]
         [] OTHER ->
              With(Each(LAMBDA a, x : SinkRef(a, b, x),
                        [acc EXCEPT !.fn = [NewTmp(@, t.cls) EXCEPT !.tmp[new[2]].gcmbid = acc.fn.id[b]],
                                    !.out = <<[i EXCEPT !.to = new]>> \o @], i.arg), LAMBDA a : [a EXCEPT !.r = new])

\* sink
Sink(fn) ==
    LET ins(acc, b, n) ==
          LET i == acc.fn.blk[b].ins[n]
              k == IF i.op \in Loads THEN 1 ELSE 2
          IN IF i.op \notin Loads \cup Stores THEN acc
             ELSE With(SinkRef(acc, b, i.arg[k]), LAMBDA a : [a EXCEPT !.fn.blk[b].ins[n].arg[k] = a.r])
        block(acc, b) ==
          With(Each(LAMBDA a, n : ins(a, b, n), acc, [n \in DOMAIN acc.fn.blk[b].ins |-> n]), LAMBDA a :
            With(SinkRef(a, b, a.fn.blk[b].ja), LAMBDA c : [c EXCEPT !.fn.blk[b].ja = c.r]))
    IN With(Each(block, [fn |-> fn, out |-> <<>>, r |-> R], fn.link), LAMBDA acc : AddGcmIns(acc.fn, acc.out))

\* schedins: an instruction is written out behind the ones of its block that it reads.
RECURSIVE SchedIns(_, _, _, _)
SchedIns(fn, b, acc, n) ==
    LET g == Group(acc.ins, n)
        reads == FlattenSeq([k \in 1 .. g[2] - g[1] + 1 |-> Reads(acc.ins[g[1] + k - 1])])
        here == SelectSeq(reads, LAMBDA r : fn.tmp[r[2]].def # <<>> /\ fn.tmp[r[2]].bid = fn.id[b])
    IN With(Each(LAMBDA a, r : SchedIns(fn, b, a, fn.tmp[r[2]].def[2]), acc, here), LAMBDA a :
         [out |-> a.out \o WithoutNops(SubSeq(a.ins, g[1], g[2])),
          ins |-> [k \in DOMAIN a.ins |-> IF k \in g[1] .. g[2] THEN Nop ELSE a.ins[k]]])
\* schedblk
SchedBlk(fn) ==
    LET order(b) == Each(LAMBDA acc, n : SchedIns(fn, b, acc, n), [ins |-> fn.blk[b].ins, out |-> <<>>],
                         [n \in DOMAIN fn.blk[b].ins |-> n]).out
    IN [fn EXCEPT !.blk = [b \in DOMAIN @ |-> IF fn.id[b] < 0 THEN @[b] ELSE [@[b] EXCEPT !.ins = order(b)]]]

\* gcm
MoveCode(fn0) ==
    LET clear(fn) == [fn EXCEPT !.tmp = [t \in DOMAIN @ |-> [@[t] EXCEPT !.visit = 0, !.gcmbid = NoBid]]]
    IN With(Each(EarlyBlk, clear(FillLoop(FillDepth(fn0))), fn0.rpo), LAMBDA early :
         With(Each(LateBlk, early, early.rpo), LAMBDA late :
           SchedBlk(FillUse(Sink(FillUse(GcmMove(late)))))))
=============================================================================
