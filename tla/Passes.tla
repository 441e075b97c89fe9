-------------------------------- MODULE Passes --------------------------------
(***************************************************************************)
(* The passes of QBE that change a function, in the pipeline: Transform as *)
(* translated from the code, and what the function means after each pass.  *)
(***************************************************************************)
EXTENDS Pipeline, Gvn, Gcm, LoadElim, Isel, Emit

CONSTANT Inputs(_)      \* the arguments a function is tried with

TransformOf(pass, f) ==
    CASE pass = "abi0" -> Elimsb(f)
      [] pass = "promote" -> Promote(f)
      [] pass = "ssa" -> MakeSsa(f)
      [] pass = "ssacheck" -> IF SsaCheck(f) THEN f ELSE [f EXCEPT !.err = "ssa temporary violates ssa invariant"]
      [] pass = "fillalias" -> FillAlias(f)
      [] pass = "loadopt" -> LoadOpt(f)
      [] pass = "coalesce" -> Coalesce(f)
      [] pass = "gvn" -> NumberValues(f)
      [] pass = "simplcfg" -> SimplCfg(f)
      [] pass = "gcm" -> MoveCode(f)
      [] pass = "ifconvert" -> IfConvert(f)
      [] pass = "abi1" -> Abi(f)
      [] pass = "simpl" -> Simpl(f)
      [] pass = "isel" -> Isel(f)
      [] pass = "fillloop" -> FillLoop(f)
      [] pass = "fillcost" -> FillCost(f)
      [] pass = "spill" -> Spill(f)
      [] pass = "rega" -> Rega(f)
      [] pass = "simpljmp" -> SimplJmp(f)
      [] pass = "emit" -> Emit(f)

-----------------------------------------------------------------------------
\* A function keeps its shape: blocks, temporaries and references exist, and no pass
\* ends with an error, for no function here is at fault.
TypeOK ==
    /\ fn.err = "" /\ name \in DOMAIN Functions
    /\ \E n \in 0 .. Len(Passes(opt)) : todo = SubSeq(Passes(opt), n + 1, Len(Passes(opt)))
    /\ \A b \in Blocks(fn) : SuccSet(fn, b) \subseteq DOMAIN fn.blk
    /\ \A w \in Writes(fn) : w.t \in TmpSet(fn)
    /\ \A u \in AllReads(fn) : u.t \in TmpSet(fn)

\* What fn does for each input: the calls it makes with their arguments, how it ends
\* and its result.
RetCls(i) == IF \E blk \in Range(Functions[i].blk) : blk.jt = "retl" THEN "l" ELSE "w"
Behaviour(f, i) ==
    [a \in Inputs(i) |-> [Observed(IF f.code = <<>> THEN RunOf(f, a) ELSE RunMachine(f, a)) EXCEPT
                            !.ret = Trunc(@, RetCls(i))]]
Meanings == [i \in DOMAIN Functions |-> Behaviour(Functions[i], i)]
Left(pass) == Cardinality({n \in DOMAIN todo : todo[n] = pass})
\* After every pass, the last one included, the function behaves as it was written.
\* Between gvn and gcm instructions have no place yet (gvn.c:462, "GCM fixes ssa").
KeepsMeaning == Left("gvn") = Left("gcm") => Behaviour(fn, name) = Meanings[name]

\* After spilling, in and out are what is in registers at the ends of a block.  Back
\* from its end, each instruction finds room for what is there with it; the block
\* starts with what it expects; and what it expects comes in a register or a slot.
RegistersRead(i) == IF i.op = "call" THEN ArgRegs(i.arg[2]) \cup TmpsOf(i.arg[1]) ELSE TmpsOf(i.arg[1]) \cup TmpsOf(i.arg[2])
RegistersSet(i) == IF i.op = "call" THEN RetRegs(i.arg[2]) ELSE TmpsOf(i.to)
FitsRegisters(f) ==
    LET usable == Cardinality(Registers \ RGlob)
        fits(S) == Cardinality(S \ RGlob) <= usable
        step(acc, i) ==
          LET across == acc.live \ (RegistersSet(i) \cup RGlob)
          IN [live |-> across \cup RegistersRead(i),
              fits |-> acc.fits /\ fits(acc.live \cup RegistersSet(i))
                       /\ (i.op = "call" => Cardinality(across) <= Cardinality(CalleeSave))]
        atJump(blk) == IF blk.ja[1] = "call" THEN RetRegs(blk.ja) ELSE TmpsOf(blk.ja)
        temps(S) == {t \in S : t >= Tmp0}
        comes(b, s, t) == t \in f.out[b] \cup PhiDefs(f.blk[s]) \/ f.tmp[t].slot # -1
    IN \A b \in Blocks(f) :
         /\ With(Each(step, [live |-> f.out[b] \cup atJump(f.blk[b]), fits |-> TRUE], Reverse(f.blk[b].ins)), LAMBDA acc :
              acc.fits /\ fits(acc.live) /\ temps(acc.live) \subseteq f.in[b] \cup PhiDefs(f.blk[b]))
         /\ \A s \in SuccSet(f, b) : \A t \in temps(f.in[s]) : comes(b, s, t)
\* Spilling leaves at every point no more live values than there are registers, and
\* across a call no more than a callee restores: rega never runs out (rega.c:130).
NeverOutOfRegisters == todo # <<>> /\ Head(todo) = "rega" => FitsRegisters(fn)
\* Every instruction emitted exists on the machine, on paths no input takes too, and
\* every jump goes to a block whose label is printed.
Assembles ==
    /\ \A n \in DOMAIN fn.code : \A m \in Range(fn.code[n].ins) : Encodable(m)
    /\ \A n \in DOMAIN fn.code : \A j \in Range(fn.code[n].jumps) :
         j.cond \in CmpConds \cup {"jmp"} => \E k \in DOMAIN fn.code : fn.code[k].name = j.to /\ fn.code[k].label
=============================================================================
