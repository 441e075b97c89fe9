-------------------------------- MODULE Emit --------------------------------
(***************************************************************************)
(* Emission (src/qbe/amd64/emit.c): the frame, two-address instructions    *)
(* and jumps.  What the code prints is kept as a record per instruction,   *)
(* with its operands as references: a register, a constant or an address   *)
(* relative to the frame pointer.                                          *)
(*                                                                         *)
(* And what the emitted instructions do on the machine: the reference that *)
(* emission and the passes before it are compared with, which is not       *)
(* translated from the code.  A word written to a register clears its      *)
(* upper half, a byte leaves the rest.  What the machine or the calling    *)
(* convention does not allow ends the run with a reason of its own.        *)
(***************************************************************************)
EXTENDS RegAlloc, ILMeaning

\* An instruction: op, size, source and destination; cond is the condition, the
\* width or the constant factor of those that have one.
M(op, k, src, dst) == [op |-> op, k |-> k, src |-> src, dst |-> dst, cond |-> ""]
MC(op, k, cond, src, dst) == [M(op, k, src, dst) EXCEPT !.cond = cond]
Xmm15 == Tmp(-1)

\* The frame: its pointer, the registers saved, the bytes for slots and the slots.
Clobbered(fn) == Ascending(CalleeSave \cap fn.reg)
FramePtr(fn) == IF ~ fn.leaf \/ fn.dynalloc THEN RBP ELSE RSP
\* sysv_framesz
FrameSize(fn) ==
    LET odd == IF fn.leaf THEN 0 ELSE Len(Clobbered(fn)) % 2
        f == 4 * ((fn.slot + 3) \div 4)
        pad == IF f > 0 /\ FramePtr(fn) = RSP /\ fn.salign = 4 THEN 2 ELSE 0
    IN 4 * (f + pad) + 8 * odd
Frame(fn) == [ptr |-> FramePtr(fn), saved |-> Clobbered(fn), size |-> FrameSize(fn), slots |-> fn.slot]
\* slot: where slot s is, from the frame pointer.
SlotOffset(fr, s) ==
    LET saved == 8 * Len(fr.saved)
    IN CASE s < 0 -> IF fr.ptr = RSP THEN -4 * s - 8 + fr.size + saved ELSE -4 * s
         [] fr.ptr = RSP -> 4 * s + saved
         [] OTHER -> -4 * (fr.slots - s)

\* emitf: an operand, and one that is an address.
Address(offset, base, index, scale) == MemRef([offset |-> offset, base |-> base, index |-> index, scale |-> scale])
InFrame(fr, s) == Address(Con(Long(SlotOffset(fr, s))), Tmp(fr.ptr), R, 1)
Operand(fr, r) ==
    CASE r[1] = "slot" -> InFrame(fr, r[2])
      [] r[1] = "mem" /\ r[2].base[1] = "slot" ->
           Address(AddCon(r[2].offset, Con(Long(SlotOffset(fr, r[2].base[2]))), 1), Tmp(fr.ptr), r[2].index, r[2].scale)
      [] OTHER -> r
Pointed(fr, r) == CASE IsTmp(r) -> Address(Undef, r, R, 1) [] IsCon(r) -> Address(r, R, R, 1) [] OTHER -> Operand(fr, r)

\* emitins of a copy.
EmitCopy(fr, to, from, k) ==
    LET src == Operand(fr, from)
        dst == Operand(fr, to)
        val == Signed(from[2], "l")
        small == val >= 0 /\ val < Modulus("w")
        imm32 == 2 * val < Modulus("w") /\ 2 * val >= -Modulus("w")
    IN CASE to = R \/ from = R \/ to = from -> <<>>
         [] k = "l" /\ from[1] = "con" /\ IsReg(to) /\ small -> <<M("mov", "w", src, dst)>>
         [] k = "l" /\ from[1] = "con" /\ to[1] = "slot" /\ ~ imm32 ->
              <<M("mov", "w", Con(from[2] % Modulus("w")), dst),
                M("mov", "w", Con(from[2] \div Modulus("w")), Operand(fr, Slot(to[2] + 1)))>>
         [] IsReg(to) /\ from[1] = "addr" -> <<M("lea", k, Pointed(fr, from), dst)>>
         [] to[1] = "slot" /\ from[1] \in {"slot", "mem"} -> <<M("mov", k, src, Xmm15), M("mov", k, Xmm15, dst)>>
         [] OTHER -> <<M("mov", k, src, dst)>>

\* emitf of a format that begins with + or -: the first operand goes to the result.
TwoAddress(fr, i, commutes) ==
    LET x == IF commutes /\ i.arg[2] = i.to THEN i.arg[2] ELSE i.arg[1]
        y == IF commutes /\ i.arg[2] = i.to THEN i.arg[1] ELSE i.arg[2]
    IN IF y = i.to /\ x # i.to THEN <<M("cannot convert", i.cls, R, R)>>
       ELSE EmitCopy(fr, i.to, x, i.cls) \o <<M(i.op, i.cls, Operand(fr, y), Operand(fr, i.to))>>

StoreK == [storeb |-> "b", storeh |-> "h", storew |-> "w", storel |-> "l"]
MachineCode(fr, i) ==
    LET k == i.cls
        x == Operand(fr, i.arg[1])
        y == Operand(fr, i.arg[2])
        to == Operand(fr, i.to)
        neg == (IF i.to = i.arg[1] THEN <<>> ELSE <<M("mov", k, x, to)>>) \o <<M("neg", k, R, to)>>
        con == IF IsCon(i.arg[2]) THEN i.arg[2] ELSE i.arg[1]
        factor == IF IsCon(i.arg[2]) THEN i.arg[1] ELSE i.arg[2]
        cond == Condition("xsel", i.op)
    IN CASE i.op = "nop" -> <<>>
         [] i.op = "copy" -> EmitCopy(fr, i.to, i.arg[1], k)
         [] i.op = "mul" /\ IsCon(con) /\ IsTmp(factor) -> <<MC("mul3", k, con, factor, to)>>
         [] i.op = "mul" /\ IsCon(con) -> TwoAddress(fr, [i EXCEPT !.arg = <<con, factor>>], TRUE)
         [] i.op \in {"add", "and", "or", "xor", "mul"} -> TwoAddress(fr, i, TRUE)
         [] i.op = "sub" /\ i.to = i.arg[2] /\ i.to # i.arg[1] -> <<M("neg", k, R, to), M("add", k, x, to)>>
         [] i.op \in {"sub", "sar", "shr", "shl"} -> TwoAddress(fr, i, FALSE)
         [] i.op = "neg" -> neg
         [] i.op \in Stores -> <<M("mov", StoreK[i.op], x, Pointed(fr, i.arg[2]))>>
         [] i.op = "load" -> <<M("mov", k, Pointed(fr, i.arg[1]), to)>>
         [] i.op \in Loads -> <<MC("movx", k, LoadWidth[i.op], Pointed(fr, i.arg[1]), to)>>
         [] i.op \in Exts -> <<MC("movx", k, ExtWidth[i.op], x, to)>>
         [] i.op = "addr" -> <<M("lea", k, Pointed(fr, i.arg[1]), to)>>
         [] i.op \in {"swap", "xcmp", "xtest"} -> <<M(i.op, k, x, y)>>
         [] i.op \in {"sign", "xdiv", "xidiv"} -> <<M(i.op, k, x, to)>>
         [] i.op \in Flags -> <<MC("set", "b", Condition("flag", i.op), R, to), MC("movx", k, "ub", to, to)>>
         [] i.op \in Xsels /\ i.to = i.arg[2] -> <<MC("cmov", k, cond, x, to)>>
         [] i.op \in Xsels -> (IF i.to = i.arg[1] THEN <<>> ELSE <<M("mov", k, x, to)>>)
                              \o <<MC("cmov", k, CmpNeg[cond], y, to)>>
         [] i.op = "call" -> <<M("call", "l", x, R)>>
         [] i.op = "salloc" -> <<M("sub", "l", x, Tmp(RSP))>> \o EmitCopy(fr, i.to, Tmp(RSP), "l")

Prologue(fr) ==
    (IF fr.ptr = RBP THEN <<M("push", "l", Tmp(RBP), R), M("mov", "l", Tmp(RSP), Tmp(RBP))>> ELSE <<>>)
    \o (IF fr.size = 0 THEN <<>> ELSE <<M("sub", "l", Con(fr.size), Tmp(RSP))>>)
    \o [n \in DOMAIN fr.saved |-> M("push", "l", Tmp(fr.saved[n]), R)]
Epilogue(fr, dynalloc) ==
    LET saved == Reverse(fr.saved)
    IN (IF dynalloc THEN <<M("mov", "l", Tmp(RBP), Tmp(RSP)), M("sub", "l", Con(fr.size + 8 * Len(saved)), Tmp(RSP))>> ELSE <<>>)
       \o [n \in DOMAIN saved |-> M("pop", "l", R, Tmp(saved[n]))]
       \o (CASE fr.ptr = RBP -> <<M("mov", "l", Tmp(RBP), Tmp(RSP)), M("pop", "l", R, Tmp(RBP))>>     \* leave
             [] fr.size > 0 -> <<M("add", "l", Con(fr.size), Tmp(RSP))>>
             [] OTHER -> <<>>)

\* How a block ends, when next is the block after it.
Jump(cond, to) == [cond |-> cond, to |-> to]
Jumps(blk, next) ==
    LET goto(b) == IF b = next THEN <<>> ELSE <<Jump("jmp", b)>>
    IN CASE blk.jt = "ret0" -> <<Jump("ret", 0)>>
         [] blk.jt = "hlt" -> <<Jump("hlt", 0)>>
         [] blk.jt = "jmp" -> goto(blk.s1)
         [] blk.s2 = next -> <<Jump(blk.jt, blk.s1)>>
         [] OTHER -> <<Jump(CmpNeg[blk.jt], blk.s2)>> \o goto(blk.s1)
\* The label of a block is left out when only the block before it goes there.
Labels(fn) ==
    LET falls(n) == \A j \in Range(Jumps(fn.blk[fn.link[n]], fn.link[n + 1])) : j.cond \in CmpConds
    IN {fn.link[n] : n \in {m \in DOMAIN fn.link : Len(fn.pred[fn.link[m]]) > 1 \/ (m > 1 /\ ~ falls(m - 1))}}

\* amd64_sysv_emitfn: the blocks in order, each with its code and its jumps.
Emit(fn) ==
    With(Frame(fn), LAMBDA fr :
      LET blk(n) == fn.blk[fn.link[n]]
          next(n) == IF n = Len(fn.link) THEN 0 ELSE fn.link[n + 1]
          code(n) == FlattenSeq([m \in DOMAIN blk(n).ins |-> MachineCode(fr, blk(n).ins[m])])
      IN [fn EXCEPT !.code = [n \in DOMAIN fn.link |->
            [name |-> fn.link[n], label |-> fn.link[n] \in Labels(fn), jumps |-> Jumps(blk(n), next(n)),
             ins |-> (IF n = 1 THEN Prologue(fr) ELSE <<>>) \o code(n)
                     \o (IF blk(n).jt = "ret0" THEN Epilogue(fr, fn.dynalloc) ELSE <<>>)]]])

-----------------------------------------------------------------------------
(* The machine *)

EntryRsp == ParamBase + 8       \* the return address is there

\* A long immediate has the width of a word; only one operand may be in memory.
Imm32(r) == r[1] = "con" => LET n == Signed(r[2], "l") IN 2 * n < Modulus("w") /\ 2 * n >= -Modulus("w")
Encodable(m) ==
    /\ ~ IsCon(m.dst)
    /\ m.dst[1] = "tmp" \/ m.src[1] # "mem"
    /\ m.k = "l" => Imm32(m.src) \/ (m.op = "mov" /\ IsReg(m.dst))
    /\ m.op \in {"sar", "shr", "shl"} => IsCon(m.src) \/ m.src = Tmp(RCX)

Assign(st, dst, v, k) ==
    LET size == [b |-> 1, h |-> 2, w |-> 4, l |-> 8][k]
        m == 2 ^ (ByteBits * size)
    IN CASE dst[1] = "mem" -> [st EXCEPT !.mem = StoreBytes(@, AddressOf(st, dst), size, v)]
         [] k = "b" -> [st EXCEPT !.env[dst[2]] = (@ - (@ % m)) + (v % m)]
         [] OTHER -> [st EXCEPT !.env[dst[2]] = Trunc(v, k)]

\* At a call the stack pointer is a multiple of 16; arguments are in registers, then
\* on the stack.
MachineCall(st, m) ==
    LET ni == Min({Arity(m.src[2]), NArgRegs})
        args == [n \in 1 .. ni |-> st.env[CallerSave[n]]]
                \o [n \in 1 .. Arity(m.src[2]) - ni |-> LoadBytes(st.mem, st.env[RSP] + 8 * (n - 1), 8)]
    IN IF st.env[RSP] % 16 # 0 THEN [st EXCEPT !.end = "stack misaligned at a call"]
       ELSE With(Callee(m.src[2], args, st.mem), LAMBDA c :
              [SpoilFlags(st) EXCEPT !.mem = c.mem, !.out = Append(@, c.out),
                 !.env = [t \in DOMAIN @ |-> CASE t = RAX -> c.ret [] t \in Range(CallerSave) -> Junk [] OTHER -> @[t]]])

Divide(st, m, d) ==
    LET a == Trunc(st.env[RAX], m.k)
        high == IF m.op = "xidiv" /\ Signed(a, m.k) < 0 THEN Modulus(m.k) - 1 ELSE 0
        by == Value(st, m.src, m.k)
    IN IF by = 0 \/ Trunc(st.env[RDX], m.k) # high THEN [st EXCEPT !.end = "trap"]
       ELSE Assign(Assign(SpoilFlags(st), Tmp(RAX), Arith(d[1], a, by, m.k), m.k), Tmp(RDX), Arith(d[2], a, by, m.k), m.k)

Step(st, m) ==
    LET k == m.k
        src == Value(st, m.src, k)
        dst == Value(st, m.dst, k)
        by == IF m.op \in {"shl", "shr", "sar"} THEN Value(st, m.src, "w") ELSE src
        result(op, a, b) == With(Arith(op, a, b, k), LAMBDA r : Assign(ArithFlags(st, op, r, b, k), m.dst, r, k))
    IN CASE st.end # "no" -> st
         [] ~ Encodable(m) -> [st EXCEPT !.end = "not encodable"]
         [] m.op = "mov" -> Assign(st, m.dst, src, k)
         [] m.op = "movx" ->
              LET v == IF m.src[1] = "mem" THEN LoadBytes(st.mem, AddressOf(st, m.src), SizeOf[m.cond]) ELSE Value(st, m.src, "l")
              IN Assign(st, m.dst, Extend(v, m.cond, k), k)
         [] m.op = "lea" -> Assign(st, m.dst, AddressOf(st, m.src), k)
         [] m.op \in {"add", "sub", "and", "or", "xor", "mul", "sar", "shr", "shl"} -> result(m.op, dst, by)
         [] m.op = "mul3" -> result("mul", src, Value(st, m.cond, k))
         [] m.op = "neg" -> result("neg", dst, 0)
         [] m.op = "xcmp" -> SetFlags(st, dst, src, k)
         [] m.op = "xtest" -> SetFlags(st, src & dst, 0, k)
         [] m.op = "set" -> Assign(st, m.dst, IF FlagHolds(st, m.cond) THEN 1 ELSE 0, "b")
         [] m.op = "cmov" -> Assign(st, m.dst, IF FlagHolds(st, m.cond) THEN src ELSE dst, k)
         [] m.op = "swap" -> Assign(Assign(st, m.src, dst, k), m.dst, src, k)
         [] m.op = "sign" -> Assign(st, m.dst, IF Signed(src, k) < 0 THEN Modulus(k) - 1 ELSE 0, k)
         [] m.op = "xdiv" -> Divide(st, m, <<"udiv", "urem">>)
         [] m.op = "xidiv" -> Divide(st, m, <<"div", "rem">>)
         [] m.op = "push" -> [st EXCEPT !.env[RSP] = @ - 8, !.mem = StoreBytes(@, st.env[RSP] - 8, 8, src)]
         [] m.op = "pop" -> [Assign(st, m.dst, LoadBytes(st.mem, st.env[RSP], 8), "l") EXCEPT !.env[RSP] = @ + 8]
         [] m.op = "call" -> MachineCall(st, m)

\* A function returns with the registers it must keep, and the stack, as they were.
Returned(st, st0) ==
    IF \A t \in CalleeSave \cup {RBP, RSP} : st.env[t] = st0.env[t] THEN "return" ELSE "registers not restored"

RECURSIVE RunFrom(_, _, _, _, _)
RunFrom(code, st0, stn, n, fuel) ==
    With(Each(Step, stn, code[n].ins), LAMBDA st :
      LET to(b) == Min({m \in DOMAIN code : code[m].name = b})
          taken == SelectInSeq(code[n].jumps, LAMBDA j : j.cond \in CmpConds => FlagHolds(st, j.cond))
          jump == code[n].jumps[taken]
          stop(why) == [out |-> st.out, end |-> why, ret |-> st.env[RAX], env |-> st.env]
      IN CASE st.end # "no" -> [stop(st.end) EXCEPT !.ret = 0]
           [] fuel = 0 -> [stop("endless") EXCEPT !.ret = 0]
           [] taken = 0 -> RunFrom(code, st0, st, n + 1, fuel - 1)
           [] jump.cond = "hlt" -> [stop("halt") EXCEPT !.ret = 0]
           [] jump.cond = "ret" -> stop(Returned(st, st0))
           [] ~ code[to(jump.to)].label -> stop("no label")
           [] OTHER -> RunFrom(code, st0, st, to(jump.to), fuel - 1))

RunMachine(fn, args) ==
    LET inReg(t) == {n \in DOMAIN args : n <= NArgRegs /\ CallerSave[n] = t}
        st0 == [env |-> [t \in -1 .. Tmp0 - 1 |->
                           CASE t = RSP -> EntryRsp [] inReg(t) # {} -> args[Min(inReg(t))] [] OTHER -> Long(Junk - t)],
                mem |-> FoldSet(LAMBDA n, m : StoreBytes(m, EntryRsp + 8 * (n - NArgRegs), 8, args[n]), <<>>,
                                {n \in DOMAIN args : n > NArgRegs}),
                out |-> <<>>, flags |-> [a |-> 0, b |-> 0, k |-> "w"], end |-> "no"]
    IN RunFrom(fn.code, st0, st0, 1, MaxBlocks)
=============================================================================
