-------------------------------- MODULE Cfg ---------------------------------
(***************************************************************************)
(* The flow graph of a function (src/qbe/cfg.c): what passes ask of the    *)
(* dominators filldom found (the analyses themselves are in Analyses), the *)
(* frontier, loops, and the two passes that simplify the graph.            *)
(*                                                                         *)
(* And two passes between optimisation and instruction selection: branches *)
(* around little code become selects (src/qbe/ifopt.c), and block copies   *)
(* and unsigned divisions by powers of two become simpler instructions     *)
(* (src/qbe/simpl.c).  Each operator takes a function and returns it with  *)
(* the fields it fills or the blocks it changes.                           *)
(***************************************************************************)
EXTENDS Analyses

RECURSIVE Climb(_, _, _)
Climb(fn, n, b) == IF fn.id[b] > n THEN Climb(fn, n, fn.idom[b]) ELSE b
Sdom(fn, b1, b2) == b1 # b2 /\ Climb(fn, fn.id[b1], b2) = b1
Dom(fn, b1, b2) == b1 = b2 \/ Sdom(fn, b1, b2)

\* fillfron: from each edge upwards until a block that dominates its target.
RECURSIVE Above(_, _, _)
Above(fn, a, s) == IF Sdom(fn, a, s) THEN {} ELSE {a} \cup Above(fn, fn.idom[a], s)
FillFron(fn) ==
    With({<<b, s>> \in Range(fn.link) \X Range(fn.link) : s \in {fn.blk[b].s1, fn.blk[b].s2}}, LAMBDA edges :
      [fn EXCEPT !.fron = [a \in DOMAIN fn.blk |-> {e[2] : e \in {x \in edges : a \in Above(fn, x[1], x[2])}}]])

RECURSIVE BackTo(_, _, _)
BackTo(fn, hd, body) ==
    LET more == UNION {{p \in Range(fn.pred[b]) : fn.id[p] >= fn.id[hd]} : b \in body}
    IN IF more \subseteq body THEN body ELSE BackTo(fn, hd, body \cup more)
\* loopiter, loopmark: the blocks marked for the loop that hd heads.
LoopBlocks(fn, hd) == BackTo(fn, hd, {p \in Range(fn.pred[hd]) : fn.id[p] >= fn.id[hd]})

\* fillloop, multloop: ten times the weight for each loop around a block.
FillLoop(fn) ==
    [fn EXCEPT !.loop = [b \in DOMAIN fn.blk |->
        IF fn.id[b] < 0 THEN fn.loop[b]
        ELSE 10 ^ Cardinality({hd \in Range(fn.rpo) : b \in LoopBlocks(fn, hd)})]]

\* filldepth, lca
RECURSIVE DepthOf(_, _)
DepthOf(fn, b) == IF fn.idom[b] = 0 THEN 0 ELSE 1 + DepthOf(fn, fn.idom[b])
FillDepth(fn) == [fn EXCEPT !.depth = [b \in DOMAIN fn.blk |-> IF fn.id[b] < 0 THEN -1 ELSE DepthOf(fn, b)]]
RECURSIVE Lca(_, _, _)
Lca(fn, b1, b2) ==
    CASE b1 = 0 -> b2
      [] b2 = 0 -> b1
      [] b1 = b2 -> b1
      [] fn.depth[b1] > fn.depth[b2] -> Lca(fn, fn.idom[b1], b2)
      [] fn.depth[b2] > fn.depth[b1] -> Lca(fn, b1, fn.idom[b2])
      [] OTHER -> Lca(fn, fn.idom[b1], fn.idom[b2])

\* reaches and reachesnotvia: is there a path from b to to that enters no block of
\* shut?  to counts as reached before shut is looked at.
RECURSIVE Reach(_, _, _)
Reach(fn, b, r) ==
    CASE b = r.to -> [r EXCEPT !.yes = TRUE]
      [] b = 0 \/ b \in r.visited \/ r.yes -> r
      [] OTHER -> With(Reach(fn, fn.blk[b].s1, [r EXCEPT !.visited = @ \cup {b}]),
                       LAMBDA one : IF one.yes THEN one ELSE Reach(fn, fn.blk[b].s2, one))
Reaches(fn, b, to, shut) == Reach(fn, b, [to |-> to, visited |-> shut, yes |-> FALSE]).yes

-----------------------------------------------------------------------------
RECURSIVE Find(_, _)
Find(uf, b) == IF b \in DOMAIN uf /\ uf[b] # 0 THEN Find(uf, uf[b]) ELSE b

\* Faulty variant: the new block is not linked behind the others.
AddReturnUnlinked(fn, ret) ==
    [fn EXCEPT !.blk = @ @@ (ret :> Blk(<<>>, <<>>, "ret0", R, 0, 0)), !.id = @ @@ (ret :> -1), !.loop = @ @@ (ret :> 0)]
AddReturn(fn, ret) ==
    [fn EXCEPT !.blk = @ @@ (ret :> Blk(<<>>, <<>>, "ret0", R, 0, 0)), !.id = @ @@ (ret :> -1), !.loop = @ @@ (ret :> 0),
               !.link = Append(@, ret)]

\* simpljmp: one return block for all returns; a jump to an empty block that only
\* jumps goes where that one goes.
SimplJmp(fn) ==
    LET ret == Cardinality(DOMAIN fn.blk) + 1
        toRet(blk) == IF blk.jt = "ret0" THEN [blk EXCEPT !.jt = "jmp", !.s1 = ret] ELSE blk
        merge(acc, b) ==
            LET blk == toRet(acc.blk[b])
                s == Find(acc.uf, blk.s1)
            IN IF blk.ins # <<>> \/ blk.jt # "jmp" THEN [acc EXCEPT !.blk[b] = blk]
               ELSE [blk |-> [acc.blk EXCEPT ![b] = [blk EXCEPT !.s1 = s]],
                     uf |-> IF s = b THEN acc.uf ELSE [acc.uf EXCEPT ![b] = s]]
        final(blk, uf) ==
            LET s1 == IF blk.s1 = 0 THEN 0 ELSE Find(uf, blk.s1)
                s2 == IF blk.s2 = 0 THEN 0 ELSE Find(uf, blk.s2)
            IN IF s1 # 0 /\ s1 = s2 THEN [blk EXCEPT !.jt = "jmp", !.s1 = s1, !.s2 = 0]
               ELSE [blk EXCEPT !.s1 = s1, !.s2 = s2]
    IN With(Each(merge, [blk |-> fn.blk, uf |-> [b \in DOMAIN fn.blk |-> 0]], fn.link), LAMBDA m :
         AddReturn([fn EXCEPT !.blk = [b \in DOMAIN m.blk |-> IF fn.id[b] < 0 THEN m.blk[b] ELSE final(m.blk[b], m.uf)]],
                   ret))

-----------------------------------------------------------------------------
JmpOf(blk) == [jt |-> blk.jt, ja |-> blk.ja, s1 |-> blk.s1, s2 |-> blk.s2]

\* The phis of a block with one predecessor become copies at its end.
PhisToCopies(fn) ==
    Each(LAMBDA f, b :
           IF Len(f.pred[b]) # 1 THEN f
           ELSE LET p == f.pred[b][1]
                    copies == [n \in DOMAIN f.blk[b].phi |->
                                 LET phi == f.blk[b].phi[n] IN Copy(phi.cls, phi.to, PhiArg(phi, p))]
                IN [f EXCEPT !.blk[p].ins = @ \o copies, !.blk[b].phi = <<>>],
         fn, fn.link)

\* One turn of simplcfg's loop at block b: the block it jumps to is appended when
\* b is its only predecessor; a branch to two empty blocks that jump alike goes.
SimplBlock(acc, b) ==
    LET j == acc.jmp[b]
        s == j.s1
        rename(p) == [p EXCEPT !.from = [n \in DOMAIN @ |-> IF n = PhiArgN(p, s) THEN <<b, @[n][2]>> ELSE @[n]]]
        next(c) == c # 0 /\ c \in {acc.jmp[s].s1, acc.jmp[s].s2}
        nophi(c) == c = 0 \/ acc.fn.blk[c].phi = <<>>
    IN CASE b \in acc.dead -> acc
         [] j.jt = "jmp" /\ Len(acc.fn.pred[s]) = 1 ->
              [acc EXCEPT !.fn.blk = [c \in DOMAIN @ |->
                              LET blk == IF next(c) THEN [@[c] EXCEPT !.phi = [n \in DOMAIN @ |-> rename(@[n])]] ELSE @[c]
                              IN IF c = b THEN [blk EXCEPT !.ins = @ \o WithoutNops(acc.fn.blk[s].ins)] ELSE blk],
                          !.empty[b] = @ /\ acc.empty[s],
                          !.dead = @ \cup {s}, !.jmp[b] = acc.jmp[s], !.done = FALSE]
         [] j.jt = "jnz" /\ acc.empty[s] /\ acc.empty[j.s2] /\ acc.jmp[s] = acc.jmp[j.s2]
              /\ nophi(acc.jmp[s].s1) /\ nophi(acc.jmp[s].s2) ->
              [acc EXCEPT !.jmp[b] = acc.jmp[s], !.done = FALSE]
         [] OTHER -> acc

RECURSIVE SimplBlocks(_)
SimplBlocks(acc) ==
    With(Each(SimplBlock, [acc EXCEPT !.done = TRUE], acc.fn.link), LAMBDA new :
      IF new.done THEN new ELSE SimplBlocks(new))

\* simplcfg, but for the fillcfg it ends with (Pipeline!Apply).
SimplCfg(fn) ==
    LET setJmp(blk, j) == [blk EXCEPT !.jt = j.jt, !.ja = j.ja, !.s1 = j.s1, !.s2 = j.s2]
    IN With(PhisToCopies(fn), LAMBDA f :
         With(SimplBlocks([fn |-> f, dead |-> {}, done |-> FALSE,
                           jmp |-> [b \in DOMAIN f.blk |-> JmpOf(f.blk[b])],
                           empty |-> [b \in DOMAIN f.blk |->
                             f.blk[b].phi = <<>> /\ WithoutNops(f.blk[b].ins) = <<>>]]), LAMBDA acc :
           [acc.fn EXCEPT !.blk = [b \in DOMAIN @ |->
              IF b \in acc.dead THEN @[b] ELSE setJmp(@[b], acc.jmp[b])]]))

-----------------------------------------------------------------------------
(* ifopt.c and simpl.c *)

MaxIns == 2
MaxPhis == 2

\* ifgraph: b branches to code that comes together again at once.  then is where
\* it goes for a value other than zero; either side may be b itself.
IfGraph(fn, b) ==
    LET blk == fn.blk[b]
        swap == fn.id[blk.s1] > fn.id[blk.s2]
        s1 == IF swap THEN blk.s2 ELSE blk.s1
        s2 == IF swap THEN blk.s1 ELSE blk.s2
        graph(x, y, join) == [then |-> IF swap THEN y ELSE x, else |-> IF swap THEN x ELSE y, join |-> join]
        side(s) == fn.blk[s].jt = "jmp" /\ Len(fn.pred[s]) = 1
        join == fn.blk[s1].s1
    IN CASE blk.jt # "jnz" -> <<>>
         [] blk.s1 = blk.s2 \/ ~ side(s1) -> <<>>
         [] join = s2 -> IF Len(fn.pred[s2]) = 2 THEN <<graph(s1, b, s2)>> ELSE <<>>
         [] side(s2) /\ fn.blk[s2].s1 = join /\ Len(fn.pred[join]) = 2 -> <<graph(s1, s2, join)>>
         [] OTHER -> <<>>

\* okbranch, okgraph
OkBranch(blk) == LET ins == WithoutNops(blk.ins)
                 IN Len(ins) <= MaxIns /\ \A n \in DOMAIN ins : ~ IsPinned(ins[n])
OkGraph(fn, b, g) == /\ Len(fn.pred[g.join]) = 2 /\ Len(fn.blk[g.join].phi) <= MaxPhis
                     /\ \A s \in {g.then, g.else} \ {b} : OkBranch(fn.blk[s])

\* convert
Convert(fn, b, g) ==
    LET code(s) == IF s = b THEN <<>> ELSE WithoutNops(fn.blk[s].ins)
        phi == fn.blk[g.join].phi
        sel0 == IF phi = <<>> THEN <<>> ELSE <<Ins("sel0", "w", R, fn.blk[b].ja, R)>>
        sel1 == [n \in DOMAIN phi |-> Ins("sel1", phi[n].cls, phi[n].to, PhiArg(phi[n], g.then), PhiArg(phi[n], g.else))]
        ins == WithoutNops(fn.blk[b].ins) \o code(g.then) \o code(g.else) \o sel0 \o sel1
    IN [fn EXCEPT !.blk[b] = Blk(@.phi, ins, "jmp", R, g.join, 0),
                  !.blk[g.join].phi = <<>>, !.pred[g.join] = <<b>>]

\* ifconvert
IfConvert(fn) ==
    LET try(f, b) == With(IfGraph(f, b), LAMBDA g :
                       IF g = <<>> THEN f ELSE IF OkGraph(f, b, Head(g)) THEN Convert(f, b, Head(g)) ELSE f)
    IN Each(try, fn, fn.link)

-----------------------------------------------------------------------------
BlitSteps == <<[st |-> "storel", ld |-> "load", cls |-> "l", size |-> 8],
               [st |-> "storew", ld |-> "load", cls |-> "w", size |-> 4],
               [st |-> "storeh", ld |-> "loaduh", cls |-> "w", size |-> 2],
               [st |-> "storeb", ld |-> "loadub", cls |-> "w", size |-> 1]>>
\* The pieces of a block of sz bytes, the big ones first.
Pieces(sz) ==
    FlattenSeq([k \in 1 .. 4 |->
      LET p == BlitSteps[k]
          left == IF k = 1 THEN sz ELSE sz % BlitSteps[k - 1].size
      IN [n \in 1 .. left \div p.size |-> p]])

\* blit: code is emitted from its end, so the copy runs forwards for sz >= 0.
Blit(acc, src, dst, sz) ==
    LET fwd == sz >= 0
        piece(a, p) ==
          LET off == IF fwd THEN a.off - p.size ELSE a.off
              t == NTmp(a.fn)
          IN [a EXCEPT !.fn = NewTmp(NewTmp(NewTmp(@, "l"), "l"), "l"),
                       !.off = IF fwd THEN off ELSE off + p.size,
                       !.out = <<Ins("add", "l", Tmp(t + 2), src, Con(off)), Ins(p.ld, p.cls, Tmp(t), Tmp(t + 2), R),
                                 Ins("add", "l", Tmp(t + 1), dst, Con(off)), Ins(p.st, "w", R, Tmp(t), Tmp(t + 1))>> \o @]
        size == IF fwd THEN sz ELSE -sz
    IN Each(piece, [acc EXCEPT !.off = IF fwd THEN size ELSE 0], Pieces(size))

\* ins: division and remainder by a power of two.
SimplDivision(i) ==
    LET by == i.arg[2]
        log == IF by[1] = "con" THEN {n \in 0 .. BitsOf("l") - 1 : by[2] = 2 ^ n} ELSE {}
    IN CASE i.op \notin {"udiv", "urem"} \/ log = {} -> i
         [] i.op = "urem" -> [i EXCEPT !.op = "and", !.arg[2] = Con(by[2] - 1)]
         [] i.op = "udiv" -> [i EXCEPT !.op = "shr", !.arg[2] = Con(CHOOSE n \in log : TRUE)]

\* simpl
Simpl(fn) ==
    LET step(acc, b, n) ==
          LET i == acc.fn.blk[b].ins[n]
              blit0 == acc.fn.blk[b].ins[n - 1]
          IN CASE i.op = "blit1" -> Blit(acc, blit0.arg[1], blit0.arg[2], i.arg[1][2])
               [] i.op = "blit0" -> acc
               [] OTHER -> [acc EXCEPT !.out = <<SimplDivision(i)>> \o @]
        block(f, b) ==
          With(Each(LAMBDA a, n : step(a, b, n), [fn |-> f, out |-> <<>>, off |-> 0],
                    Reverse([n \in DOMAIN f.blk[b].ins |-> n])), LAMBDA a : [a.fn EXCEPT !.blk[b].ins = a.out])
    IN Each(block, fn, fn.link)
=============================================================================
