-------------------------------- MODULE Facts --------------------------------
(***************************************************************************)
(* What the passes compute about a function, defined without their         *)
(* algorithms: by paths through the flow graph and by the places where a   *)
(* temporary is written and read.  The comments above the passes           *)
(* ("requires rpo, use") name these facts; nothing here is translated.     *)
(***************************************************************************)
EXTENDS Analyses

IsSeq(s) == s \in Seq(Range(s))
SuccSet(fn, b) == Range(Succs(fn.blk[b]))
Blocks(fn) == Range(fn.link)
PredSet(fn, b) == {p \in Blocks(fn) : b \in SuccSet(fn, p)}

\* The blocks on paths that start in b and enter no block of shut.
Grow(fn, shut, S) == (S \cup UNION {SuccSet(fn, c) : c \in S}) \ shut
PathsFrom(fn, b, shut) ==
    While(SUBSET DOMAIN fn.blk, LAMBDA S : Grow(fn, shut, S) # S, LAMBDA S : Grow(fn, shut, S), {b} \ shut)

\* rpo, pred: every reachable block once; an edge that does not go forward closes a
\* cycle of blocks no earlier than its target.
OrderIsRight(fn) ==
    /\ Blocks(fn) = PathsFrom(fn, Start(fn), {})
    /\ IsSeq(fn.rpo) /\ Range(fn.rpo) = Blocks(fn) /\ Len(fn.rpo) = Cardinality(Blocks(fn)) /\ fn.rpo[1] = Start(fn)
    /\ \A n \in DOMAIN fn.rpo : fn.id[fn.rpo[n]] = n - 1
    /\ \A b \in Blocks(fn) : \A s \in SuccSet(fn, b) :
         fn.id[s] <= fn.id[b] => b \in PathsFrom(fn, s, {c \in Blocks(fn) : fn.id[c] < fn.id[s]})
    /\ \A b \in Blocks(fn) \ {Start(fn)} : \E p \in PredSet(fn, b) : fn.id[p] < fn.id[b]
PredsAreRight(fn) ==
    \A b \in Blocks(fn) :
        IsSeq(fn.pred[b]) /\ Range(fn.pred[b]) = PredSet(fn, b) /\ Len(fn.pred[b]) = Cardinality(PredSet(fn, b))

\* d dominates the blocks that cannot be reached without it.
Dominated(fn) == [d \in Blocks(fn) |-> Blocks(fn) \ PathsFrom(fn, Start(fn), {d})]
DominatorsAreRight(fn) ==
    With(Dominated(fn), LAMBDA below :
      LET strict(b) == {d \in Blocks(fn) \ {b} : b \in below[d]}
      IN /\ \A b \in Blocks(fn) :
              IF strict(b) = {} THEN fn.idom[b] = 0
              ELSE fn.idom[b] \in strict(b) /\ \A d \in strict(b) : fn.idom[b] \in below[d]
         /\ \A d \in Blocks(fn) : Range(fn.dom[d]) = {b \in Blocks(fn) : fn.idom[b] = d})

-----------------------------------------------------------------------------
\* Where temporaries are written, and read; the phis of a block are at 0, its jump
\* is behind its last instruction.
IsTemp(r) == r[1] = "tmp" /\ r[2] >= Tmp0
Writes(fn) ==
    UNION {{[t |-> p.to[2], b |-> b, n |-> 0] : p \in {q \in Range(fn.blk[b].phi) : IsTemp(q.to)}}
           \cup {[t |-> fn.blk[b].ins[n].to[2], b |-> b, n |-> n] :
                   n \in {m \in DOMAIN fn.blk[b].ins : IsTemp(fn.blk[b].ins[m].to)}} : b \in Blocks(fn)}
\* A use is where it is in filluse's list; k tells apart the operands of one place.
Read(t, type, b, at, k, from) == [t |-> t, type |-> type, b |-> b, at |-> at, k |-> k, from |-> from]
PhiReads(fn) ==
    LET of(b, p) == {Read(p.from[k][2][2], "phi", b, p.to[2], k, p.from[k][1]) :
                       k \in {j \in DOMAIN p.from : IsTemp(p.from[j][2])}}
    IN UNION {UNION {of(b, p) : p \in Range(fn.blk[b].phi)} : b \in Blocks(fn)}
InsReads(fn) ==
    LET of(b, n) == {Read(fn.blk[b].ins[n].arg[k][2], "ins", b, n, k, 0) :
                       k \in {j \in {1, 2} : IsTemp(fn.blk[b].ins[n].arg[j])}}
    IN UNION {UNION {of(b, n) : n \in DOMAIN fn.blk[b].ins} : b \in Blocks(fn)}
JmpReads(fn) ==
    {Read(fn.blk[b].ja[2], "jmp", b, 0, 1, 0) : b \in {c \in Blocks(fn) : IsTemp(fn.blk[c].ja)}}
AllReads(fn) == PhiReads(fn) \cup InsReads(fn) \cup JmpReads(fn)

\* A function as every pass finds it: each block is linked once, and jumps to linked
\* blocks; temporaries have their entry in tmp, and a phi is its block's only one for
\* the temporary it writes.
Computed == {"rpo", "id", "pred", "idom", "dom", "loop", "in", "out", "gen", "nlive"}
GraphIsShaped(fn) ==
    /\ Computed \cup {"link", "blk", "tmp"} \subseteq DOMAIN fn
    /\ fn.link \in Seq(DOMAIN fn.blk) /\ fn.link # <<>> /\ IsFiniteSet(DOMAIN fn.blk)
    /\ 0 \notin DOMAIN fn.blk /\ \A b \in DOMAIN fn.blk : {"phi", "ins", "ja", "s1", "s2"} \subseteq DOMAIN fn.blk[b]
    /\ \A m, n \in DOMAIN fn.link : fn.link[m] = fn.link[n] => m = n
    /\ \A b \in Blocks(fn) : {fn.blk[b].s1, fn.blk[b].s2} \subseteq Blocks(fn) \cup {0}
    /\ \A b \in Blocks(fn) : fn.loop[b] \in Int
CodeIsShaped(fn) ==
    /\ \A t \in TmpSet(fn) : t \in DOMAIN fn.tmp /\ {"use", "nuse", "ndef"} \subseteq DOMAIN fn.tmp[t]
    /\ \A b \in Blocks(fn) :
         /\ IsSeq(fn.blk[b].phi) /\ IsSeq(fn.blk[b].ins)
         /\ \A p \in Range(fn.blk[b].phi) : {"to", "from"} \subseteq DOMAIN p /\ IsSeq(p.from) /\ IsTemp(p.to)
         /\ \A m, n \in DOMAIN fn.blk[b].phi : fn.blk[b].phi[m].to[2] = fn.blk[b].phi[n].to[2] => m = n
         /\ \A i \in Range(fn.blk[b].ins) : IsSeq(i.arg) /\ Len(i.arg) = 2 /\ i.to[1] = "tmp"
    /\ \A w \in Writes(fn) : w.t \in TmpSet(fn)
    /\ \A u \in AllReads(fn) : u.t \in TmpSet(fn)

\* The code filllive finds, when calls and phis are in the machine's terms: an operand
\* names temporaries there are, a call registers there are.
OperandsAreShaped(fn) ==
    /\ NTmp(fn) \in Nat /\ DOMAIN fn.tmp = 0 .. NTmp(fn) - 1 /\ Registers \subseteq DOMAIN fn.tmp
    /\ \A b \in Blocks(fn) :
         /\ IsSeq(fn.blk[b].phi) /\ IsSeq(fn.blk[b].ins)
         /\ \A p \in Range(fn.blk[b].phi) :
              {"to", "from"} \subseteq DOMAIN p /\ IsSeq(p.from) /\ p.to = Tmp(p.to[2]) /\ p.to[2] \in TmpSet(fn)
         /\ \A c \in Blocks(fn) : PhiUses(fn.blk[b], c) \subseteq DOMAIN fn.tmp
         /\ \A i \in Range(fn.blk[b].ins) :
              /\ i.to = Tmp(i.to[2]) /\ i.to[2] \in DOMAIN fn.tmp
              /\ TmpsOf(i.arg[1]) \cup TmpsOf(i.arg[2]) \subseteq DOMAIN fn.tmp
              /\ i.op = "call" /\ i.arg[2][1] = "call" => ArgRegs(i.arg[2]) \subseteq Registers
         /\ fn.blk[b].ja[1] # "mem" /\ TmpsOf(fn.blk[b].ja) \subseteq DOMAIN fn.tmp
         /\ IsTmp(fn.blk[b].ja) => fn.blk[b].ja = Tmp(fn.blk[b].ja[2])

\* The same jumps and order of the blocks; the same instructions.
SameGraph(f, g) ==
    /\ f.link = g.link /\ f.rpo = g.rpo /\ f.id = g.id /\ f.pred = g.pred /\ DOMAIN f.blk = DOMAIN g.blk
    /\ \A b \in DOMAIN f.blk : f.blk[b].s1 = g.blk[b].s1 /\ f.blk[b].s2 = g.blk[b].s2
SameCode(f, g) == f.link = g.link /\ f.blk = g.blk /\ DOMAIN f.tmp = DOMAIN g.tmp

CountsAreRight(fn) ==
    /\ With(AllReads(fn), LAMBDA reads : \A t \in TmpSet(fn) : fn.tmp[t].nuse = Cardinality({u \in reads : u.t = t}))
    /\ With(Writes(fn), LAMBDA writes : \A t \in TmpSet(fn) : fn.tmp[t].ndef = Cardinality({w \in writes : w.t = t}))
UsesAreRight(fn) ==
    With(AllReads(fn), LAMBDA reads :
      \A t \in TmpSet(fn) :
        {<<u.type, u.b, u.at>> : u \in Range(fn.tmp[t].use)} = {<<u.type, u.b, u.at>> : u \in {v \in reads : v.t = t}})

\* Static single assignment: one write, which every read lies behind; a phi has an
\* operand for each predecessor, written before that block ends.
IsSsa(fn) ==
    With(Writes(fn), LAMBDA writes : With(Dominated(fn), LAMBDA below :
      LET one(t) == CHOOSE w \in writes : w.t = t
          end(u) == IF u.type = "jmp" THEN Len(fn.blk[u.b].ins) + 1 ELSE u.at
          behind(u, w) == IF u.type = "phi" THEN u.from \in below[w.b]
                          ELSE IF u.b = w.b THEN w.n < end(u) ELSE u.b \in below[w.b]
      IN /\ \A v, w \in writes : v.t = w.t => v = w
         /\ \A u \in AllReads(fn) : (\E w \in writes : w.t = u.t) /\ behind(u, one(u.t))
         /\ \A b \in Blocks(fn) : \A p \in Range(fn.blk[b].phi) :
              {f[1] : f \in Range(p.from)} = PredSet(fn, b) /\ Len(p.from) = Cardinality(PredSet(fn, b))))

-----------------------------------------------------------------------------
\* Liveness by paths, of temporaries; an operand may be an address of two of them.
TempsIn(i) == {t \in TmpsOf(i.arg[1]) \cup TmpsOf(i.arg[2]) : t >= Tmp0}
ReadsFirst(blk, t) ==       \* blk reads t before it writes it
    LET writes == {n \in DOMAIN blk.ins : blk.ins[n].to = Tmp(t)}
        reads == {n \in DOMAIN blk.ins : t \in TempsIn(blk.ins[n])}
        first == IF writes = {} THEN Len(blk.ins) + 1 ELSE Min(writes)
    IN ~ (\E p \in Range(blk.phi) : p.to = Tmp(t))
       /\ ((\E n \in reads : n <= first) \/ (writes = {} /\ blk.ja = Tmp(t)))
WritesTemp(blk, t) == (\E p \in Range(blk.phi) : p.to = Tmp(t)) \/ (\E i \in Range(blk.ins) : i.to = Tmp(t))
PhiOf(fn, b, t) == \E s \in SuccSet(fn, b) : t \in PhiUses(fn.blk[s], b)
\* t is needed at the end of b when a path goes on to a read of it without a write.
NeededAfter(fn, t) ==
    LET wants == {b \in Blocks(fn) : ReadsFirst(fn.blk[b], t) \/ (~ WritesTemp(fn.blk[b], t) /\ PhiOf(fn, b, t))}
        shut == {b \in Blocks(fn) \ wants : WritesTemp(fn.blk[b], t)}
        needs(s) == PathsFrom(fn, s, shut) \cap wants # {}
    IN {b \in Blocks(fn) : PhiOf(fn, b, t) \/ \E s \in SuccSet(fn, b) : needs(s)}
NeededOut(fn) ==
    With([t \in TmpSet(fn) |-> NeededAfter(fn, t)], LAMBDA after :
      [b \in Blocks(fn) |-> {t \in TmpSet(fn) : b \in after[t]}])
LivenessIsRight(fn) ==
    With(NeededOut(fn), LAMBDA out : \A b \in Blocks(fn) : {t \in fn.out[b] : t >= Tmp0} = out[b])
=============================================================================
