-------------------------------- MODULE Abi --------------------------------
(***************************************************************************)
(* The register file QBE compiles for (src/qbe/amd64/targ.c, all.h),       *)
(* general registers only, and calls, parameters and results under the     *)
(* System V convention (sysv.c) for integers and addresses: the first ones *)
(* travel in registers, the others on the stack, which stays aligned.      *)
(* Which registers there are is a parameter: with few of them small        *)
(* functions need spilling.                                                *)
(***************************************************************************)
EXTENDS IL

CONSTANTS
    CallerSave,     \* amd64_sysv_rsave: the registers a call may change, in order
    CalleeSave,     \* amd64_sysv_rclob: the registers a function must restore
    NArgRegs        \* how many of CallerSave, from the first, carry arguments

RAX == 1
RCX == 2
RDX == 3
RBP == Tmp0 - 2
RSP == Tmp0 - 1
RGlob == {RBP, RSP}
Registers == 1 .. Tmp0 - 1
NGpr == Tmp0 - 1            \* NGPR, which counts rbp and rsp

\* What a call reference says: ni arguments in registers, nr results, and
\* whether rax tells how many vector registers a variadic call uses.
CallInfo(ni, nr, al) == CallRef([ni |-> ni, nr |-> nr, al |-> al])
RetRegs(c) == CASE c[2].nr = 0 -> {} [] c[2].nr = 1 -> {RAX} [] OTHER -> {RAX, RDX}
NRetRegs(c) == c[2].nr
ArgRegs(c) == {CallerSave[n] : n \in 1 .. c[2].ni} \cup (IF c[2].al THEN {RAX} ELSE {})
NArgsIn(c) == c[2].ni + (IF c[2].al THEN 1 ELSE 0)

ASSUME TargetAssumption ==
    /\ Tmp0 \in Nat /\ Tmp0 > 5 /\ NArgRegs \in 0 .. Len(CallerSave)
    /\ Range(CallerSave) \cap CalleeSave = {}
    /\ Range(CallerSave) \cup CalleeSave \cup RGlob = Registers
    /\ {RAX, RCX, RDX} \subseteq Range(CallerSave)

-----------------------------------------------------------------------------
(* The calling convention *)

\* argsclass: the first NArgRegs arguments are passed in registers.
InRegs(args) == SubSeq(args, 1, Min({Len(args), NArgRegs}))
StackArgs(args) == SubSeq(args, NArgRegs + 1, Len(args))
\* Bytes of stack the arguments take, a multiple of 16.
StackBytes(args) == LET n == 8 * Len(StackArgs(args)) IN n + (n % 16)
\* Code is emitted from its end.
EmitAll(acc, code) == [acc EXCEPT !.out = code \o @]
EmitSalloc(acc, to, n) == IF n = 0 THEN acc ELSE EmitAll(acc, <<Ins("salloc", "l", to, Con(Long(n)), R)>>)

\* selret: the jump and the copy to rax before it.
SelRet(blk) ==
    IF IsRet(blk.jt) /\ blk.jt # "ret0"
    THEN [jt |-> "ret0", ja |-> CallInfo(0, 1, FALSE),
          code |-> <<Copy(IF blk.jt = "retl" THEN "l" ELSE "w", Tmp(RAX), blk.ja)>>]
    ELSE [jt |-> blk.jt, ja |-> blk.ja, code |-> <<>>]

\* selcall: args are the arg instructions before the call.
SelCall(acc, args, call) ==
    LET stk == StackBytes(args)
        reg == InRegs(args)
        inReg == [n \in DOMAIN reg |-> Copy(reg[n].cls, Tmp(CallerSave[n]), reg[n].arg[1])]
        after == EmitAll(EmitSalloc(acc, R, -stk),
                   Reverse(inReg) \o <<Ins("call", call.cls, R, call.arg[1], CallInfo(Len(reg), 1, FALSE)),
                                       Copy(call.cls, call.to, Tmp(RAX))>>)
        base == NTmp(acc.fn)
        push(a, n) == LET to == NTmp(a.fn)
                      IN EmitAll([a EXCEPT !.fn = NewTmp(@, "l")],
                           <<Ins("add", "l", Tmp(to), Tmp(base), Con(8 * (n - 1))),
                             Ins("storel", "w", R, StackArgs(args)[n].arg[1], Tmp(to))>>)
        start == IF stk = 0 THEN after ELSE [after EXCEPT !.fn = NewTmp(@, "l")]
    IN EmitSalloc(Each(push, start, [n \in DOMAIN StackArgs(args) |-> n]), Tmp(base), stk)

\* selpar: the parameters, the last one first; stack ones are at slots -4, -6, ...
SelPar(pars) ==
    LET reg == InRegs(pars)
        stk == StackArgs(pars)
    IN Reverse([n \in DOMAIN reg |-> Copy(reg[n].cls, reg[n].to, Tmp(CallerSave[n]))]
               \o [n \in DOMAIN stk |-> Ins("load", stk[n].cls, stk[n].to, Slot(-(2 + 2 * n)), R)])

\* A block, backwards; the arg instructions wait for their call.
AbiBlock(fn, b) ==
    LET ins == fn.blk[b].ins
        ret == SelRet(fn.blk[b])
        argsOf(n) == LET first == CHOOSE k \in 1 .. n : (\A j \in k .. n - 1 : ins[j].op \in Args)
                                                        /\ (k = 1 \/ ins[k - 1].op \notin Args)
                     IN SubSeq(ins, first, n - 1)
        step(acc, n) == CASE ins[n].op = "call" -> SelCall(acc, argsOf(n), ins[n])
                          [] ins[n].op \in Args -> acc
                          [] OTHER -> EmitAll(acc, <<ins[n]>>)
    IN With(Each(step, [fn |-> fn, out |-> ret.code], Reverse([n \in DOMAIN ins |-> n])), LAMBDA acc :
         [acc.fn EXCEPT !.blk[b].ins = acc.out, !.blk[b].jt = ret.jt, !.blk[b].ja = ret.ja])

\* amd64_sysv_abi: the start block last.
Abi(fn) ==
    LET start == fn.blk[Start(fn)].ins
        npar == Cardinality({n \in DOMAIN start : \A k \in 1 .. n : start[k].op \in Pars})
        pars == SubSeq(start, 1, npar)
        lowered == [fn EXCEPT !.blk[Start(fn)].ins = SelPar(pars) \o SubSeq(start, npar + 1, Len(start)),
                              !.reg = ArgRegs(CallInfo(Len(InRegs(pars)), 0, FALSE))]
    IN Each(AbiBlock, lowered, Append(Tail(fn.link), Start(fn)))
=============================================================================
