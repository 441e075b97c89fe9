-------------------------------- MODULE Ssa --------------------------------
(***************************************************************************)
(* Liveness (src/qbe/live.c): which temporaries a block needs on entry and *)
(* provides on exit, which it touches, and how many registers it needs at  *)
(* its worst point.  Then definitions and uses of the temporaries, and the *)
(* construction and check of static single assignment form (src/qbe/ssa.c, *)
(* src/qbe/abi.c).                                                         *)
(***************************************************************************)
EXTENDS Cfg

-----------------------------------------------------------------------------
(* Single assignment *)

\* elimsb: arguments, parameters and results narrower than a word become words.
Elimsb(fn) ==
    LET widen(i) == [i EXCEPT !.op = IF @ \in Args THEN "arg" ELSE IF @ \in Pars THEN "par" ELSE @]
    IN [fn EXCEPT !.blk = [b \in DOMAIN @ |->
          [@[b] EXCEPT !.ins = [n \in DOMAIN @ |-> widen(@[n])],
                       !.jt = IF @ \in {"retsb", "retub", "retsh", "retuh"} THEN "retw" ELSE @]]]

-----------------------------------------------------------------------------
-----------------------------------------------------------------------------
\* phiins, the instructions of one block: where t does not leave the block each
\* definition becomes a temporary of its own.
LocalNames(t, acc, b) ==
    LET step(a, n) ==
          LET i0 == a.fn.blk[b].ins[n]
              i == IF a.r = R THEN i0 ELSE Subst(i0, Tmp(t), a.r)
              new == NTmp(a.fn)
          IN CASE i.to # Tmp(t) -> [a EXCEPT !.fn.blk[b].ins[n] = i]
               [] i.to = Tmp(t) /\ t \notin acc.fn.out[b] ->
                    [a EXCEPT !.fn = [NewTmp(@, @.tmp[t].cls) EXCEPT !.blk[b].ins[n] = [i EXCEPT !.to = Tmp(new)]],
                              !.r = Tmp(new)]
               [] OTHER -> [a EXCEPT !.fn.blk[b].ins[n] = i, !.defs = @ \cup {b},
                                     !.k = IF @ = "x" THEN i.cls ELSE IF @ # i.cls THEN "w" ELSE @]
    IN With(Each(step, [acc EXCEPT !.r = R], [n \in DOMAIN acc.fn.blk[b].ins |-> n]), LAMBDA a :
         IF a.r = R THEN a ELSE [a EXCEPT !.fn.blk[b].ja = IF @ = Tmp(t) THEN a.r ELSE @])

\* The blocks that get a phi for t: the iterated frontier of its definitions
\* where t is live.
RECURSIVE PhiBlocks(_, _, _)
PhiBlocks(fn, t, from) ==
    LET more == {a \in UNION {fn.fron[b] : b \in from} : t \in fn.in[a]}
    IN IF more \subseteq from THEN more ELSE PhiBlocks(fn, t, from \cup more)

PhiIns(fn) ==
    LET skip(f, t) == \/ f.tmp[t].phi # 0
                      \/ /\ f.tmp[t].ndef = 1
                         /\ \/ \A n \in DOMAIN f.tmp[t].use : f.tmp[t].use[n].bid = f.tmp[t].bid
                            \/ f.tmp[t].bid = f.id[Start(f)]
        one(f0, t) ==
          LET f == [f0 EXCEPT !.tmp[t].visit = 0]
          IN IF skip(f, t) THEN f
             ELSE With(Each(LAMBDA a, b : LocalNames(t, a, b), [fn |-> f, r |-> R, defs |-> {}, k |-> "x"], f.link), LAMBDA a :
                    LET phis == PhiBlocks(a.fn, t, a.defs)
                    IN IF a.defs = {} THEN a.fn
                       ELSE [a.fn EXCEPT !.tmp[t].visit = t,
                                         !.blk = [b \in DOMAIN @ |->
                                           IF b \in phis THEN [@[b] EXCEPT !.phi = <<Phi(Tmp(t), a.k, <<>>)>> \o @]
                                           ELSE @[b]]])
    IN Each(one, fn, [n \in 1 .. NTmp(fn) - Tmp0 |-> Tmp0 + n - 1])

\* rendef: a new name for a definition of a temporary that is being renamed.
RenDef(acc, r, b) ==
    IF r = R \/ acc.fn.tmp[r[2]].visit = 0 THEN [acc EXCEPT !.r = r]
    ELSE LET t == r[2]
             new == NTmp(acc.fn)
         IN [acc EXCEPT !.fn = [NewTmp(@, @.tmp[t].cls) EXCEPT !.tmp[new].visit = t],
                        !.stk[t] = <<[r |-> Tmp(new), b |-> b]>> \o @, !.r = Tmp(new)]

\* Faulty variant: the newest name, wherever it was defined.
GetStkNewest(acc, r, b) ==
    IF ~ IsTmp(r) \/ acc.fn.tmp[r[2]].visit = 0 THEN [acc EXCEPT !.r = r]
    ELSE [acc EXCEPT !.r = IF acc.stk[r[2]] = <<>> THEN Undef ELSE acc.stk[r[2]][1].r]
\* getstk: the newest name defined in a block that dominates b.
GetStk(acc, r, b) ==
    IF ~ IsTmp(r) \/ acc.fn.tmp[r[2]].visit = 0 THEN [acc EXCEPT !.r = r]
    ELSE LET t == r[2]
             n == SelectInSeq(acc.stk[t], LAMBDA name : Dom(acc.fn, name.b, b))
         IN IF n = 0 THEN [acc EXCEPT !.stk[t] = <<>>, !.r = Undef]
            ELSE [acc EXCEPT !.stk[t] = SubSeq(@, n, Len(@)), !.r = acc.stk[t][n].r]

RECURSIVE RenBlk(_, _)
RenBlk(acc0, b) ==
    LET phiDef(acc, n) == With(RenDef(acc, acc.fn.blk[b].phi[n].to, b), LAMBDA a :
                            [a EXCEPT !.fn.blk[b].phi[n].to = a.r])
        arg(acc, n, m) == With(GetStk(acc, acc.fn.blk[b].ins[n].arg[m], b), LAMBDA a :
                            [a EXCEPT !.fn.blk[b].ins[n].arg[m] = a.r])
        ins(acc, n) == With(arg(acc, n, 1), LAMBDA x : With(arg(x, n, 2), LAMBDA y :
                         With(RenDef(y, y.fn.blk[b].ins[n].to, b), LAMBDA a :
                           [a EXCEPT !.fn.blk[b].ins[n].to = a.r])))
        jump(acc) == With(GetStk(acc, acc.fn.blk[b].ja, b), LAMBDA a : [a EXCEPT !.fn.blk[b].ja = a.r])
        phiArg(s, acc, n) ==
            LET t == acc.fn.tmp[acc.fn.blk[s].phi[n].to[2]].visit
            IN IF t = 0 THEN acc
               ELSE With(GetStk(acc, Tmp(t), b), LAMBDA a :
                      [a EXCEPT !.fn.blk[s].phi[n].from = Append(@, <<b, a.r>>)])
        succ(acc, s) == Each(LAMBDA a, n : phiArg(s, a, n), acc, [n \in DOMAIN acc.fn.blk[s].phi |-> n])
        blk == acc0.fn.blk[b]
        succs == IF blk.s1 = blk.s2 THEN SubSeq(Succs(blk), 1, Len(Succs(blk)) \div 2) ELSE Succs(blk)
    IN With(Each(phiDef, acc0, [n \in DOMAIN blk.phi |-> n]), LAMBDA a1 :
         With(jump(Each(ins, a1, [n \in DOMAIN blk.ins |-> n])), LAMBDA a2 :
           With(Each(succ, a2, succs), LAMBDA a3 :
             Each(RenBlk, a3, a3.fn.dom[b]))))

\* ssa
MakeSsa(fn) ==
    With(FillLive(FillFron(FillDom(fn))), LAMBDA f :
      With(PhiIns(f), LAMBDA g :
        RenBlk([fn |-> g, stk |-> [t \in DOMAIN f.tmp |-> <<>>], r |-> R], Start(g)).fn))

-----------------------------------------------------------------------------
\* phicheck, ssacheck: every use lies behind the one definition.
UseOK(fn, b, n, t, u) ==
    LET bu == fn.rpo[u.bid + 1]
        phi == CHOOSE p \in Range(fn.blk[u.b].phi) : p.to = Tmp(u.at)
    IN CASE u.type = "phi" -> \A f \in Range(phi.from) : f[2] = Tmp(t) => Dom(fn, b, f[1])
         [] bu = b /\ u.type = "ins" -> u.at > n
         [] OTHER -> Dom(fn, b, bu)
SsaCheck(fn) ==
    /\ \A t \in TmpSet(fn) : fn.tmp[t].ndef <= 1 /\ (fn.tmp[t].nuse > 0 => fn.tmp[t].ndef = 1)
    /\ \A b \in Range(fn.link) :
         LET blk == fn.blk[b]
             defs == {<<0, p.to>> : p \in Range(blk.phi)}
                     \cup {<<n, blk.ins[n].to>> : n \in DOMAIN blk.ins}
         IN \A d \in defs : d[2] # R => \A u \in Range(fn.tmp[d[2][2]].use) : UseOK(fn, b, d[1], d[2][2], u)
=============================================================================
