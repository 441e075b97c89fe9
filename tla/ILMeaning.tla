----------------------------- MODULE ILMeaning -----------------------------
(***************************************************************************)
(* What a function means at any stage of its compilation: the calls it     *)
(* makes with the values it passes, and the result.  This is the reference *)
(* the passes are compared with; it is not translated from the code.       *)
(* Memory is a function from addresses to bytes; a machine register is a   *)
(* temporary below Tmp0; a slot is memory at a fixed place of the frame.   *)
(***************************************************************************)
EXTENDS Abi, Bitwise

CONSTANTS
    Callee(_, _, _),    \* what an external function does: name, arguments, memory
                        \* |-> [ret, mem, out], out the event that is observed
    SymAddr(_),         \* the address of a symbol
    Arity(_),           \* the number of arguments an external function takes
    StackTop,           \* first address above the stack, a multiple of 16
    MaxBlocks           \* blocks executed before a run counts as endless

Junk == Modulus("l") - 3     \* what a call leaves in the registers it may change
\* The frame: slot s >= 0 is at 4 * s from its base; parameters that come on the
\* stack are above it, what the function allocates while it runs below.
ParamBase == StackTop - 128
FrameBase == ParamBase - 256
SlotAddr(s) == IF s < 0 THEN ParamBase - 4 * s ELSE FrameBase + 4 * s

ByteAt(mem, a) == IF a \in DOMAIN mem THEN mem[a] ELSE 0
RECURSIVE LoadBytes(_, _, _)
LoadBytes(mem, a, n) == IF n = 0 THEN 0 ELSE ByteAt(mem, a) + (2 ^ ByteBits) * LoadBytes(mem, a + 1, n - 1)
StoreBytes(mem, a, n, v) ==
    [x \in a .. a + n - 1 |-> (v \div (2 ^ (ByteBits * (x - a)))) % (2 ^ ByteBits)] @@ mem

SizeOf == [sb |-> 1, ub |-> 1, sh |-> 2, uh |-> 2, sw |-> 4, uw |-> 4]
StoreSize == [storeb |-> 1, storeh |-> 2, storew |-> 4, storel |-> 8]
SizeOfCls(k) == IF k = "l" THEN 8 ELSE 4
\* The low bytes of v, extended as w says to class k.
Extend(v, w, k) ==
    LET m == 2 ^ (ByteBits * SizeOf[w])
        low == v % m
    IN IF w \in {"sb", "sh", "sw"} /\ 2 * low >= m THEN Trunc(low - m, k) ELSE low

-----------------------------------------------------------------------------
AddressOf(st, r) ==
    CASE r[1] = "slot" -> SlotAddr(r[2])
      [] r[1] = "mem" ->
           LET m == r[2]
               val(x) == IF x = R THEN 0 ELSE IF x[1] = "slot" THEN SlotAddr(x[2]) ELSE st.env[x[2]]
               off == CASE m.offset[1] = "con" -> m.offset[2]
                        [] m.offset[1] = "addr" -> SymAddr(m.offset[2]) + m.offset[3]
                        [] OTHER -> 0
           IN Long(off + val(m.base) + m.scale * val(m.index))
      [] OTHER -> CASE r[1] = "con" -> Long(r[2])
                    [] r[1] = "addr" -> Long(SymAddr(r[2]) + r[3])
                    [] r[1] = "tmp" -> st.env[r[2]]
                    [] OTHER -> 0
\* The value of an operand of class k; a slot or an address is read from memory.
Value(st, r, k) ==
    IF r[1] \in {"slot", "mem"} THEN LoadBytes(st.mem, AddressOf(st, r), SizeOfCls(k))
    ELSE Trunc(AddressOf(st, r), k)

Arith(op, a, b, k) ==
    LET sa == Signed(a, k)
        sb == Signed(b, k)
        abs(x) == IF x < 0 THEN -x ELSE x
        quot == IF (sa < 0) = (sb < 0) THEN abs(sa) \div abs(sb) ELSE -(abs(sa) \div abs(sb))
        by == b % BitsOf(k)
    IN CASE op = "add" -> Trunc(a + b, k) [] op = "sub" -> Trunc(a - b, k)
         [] op = "neg" -> Trunc(-a, k) [] op = "mul" -> Times(a, b, k)
         [] op = "div" -> Trunc(quot, k) [] op = "rem" -> Trunc(sa - quot * sb, k)
         [] op = "udiv" -> a \div b [] op = "urem" -> a % b
         [] op = "and" -> a & b [] op = "or" -> a | b [] op = "xor" -> a ^^ b
         [] op = "shl" -> Times(a, 2 ^ by, k) [] op = "shr" -> a \div (2 ^ by)
         [] op = "sar" -> Trunc(sa \div (2 ^ by), k)
ArithOps == {"add", "sub", "neg", "mul", "div", "rem", "udiv", "urem", "and", "or", "xor", "shl", "shr", "sar"}
Divides == {"div", "rem", "udiv", "urem"}

Set(st, r, v, k) ==
    CASE r = R -> st
      [] r[1] = "slot" -> [st EXCEPT !.mem = StoreBytes(@, SlotAddr(r[2]), SizeOfCls(k), v)]
      [] OTHER -> [st EXCEPT !.env[r[2]] = v]

\* Flags compare two values; they hold until the next instruction that sets them.
SetFlags(st, a, b, k) == [st EXCEPT !.flags = [a |-> a, b |-> b, k |-> k]]
SpoilFlags(st) == SetFlags(st, 1, 2, "w")
\* What the machine's arithmetic does to the flags: a shift by nothing leaves them.
ArithFlags(st, op, result, by, k) ==
    CASE op \in {"mul", "div", "rem", "udiv", "urem"} -> SpoilFlags(st)
      [] op \in {"shl", "shr", "sar"} /\ by % BitsOf(k) = 0 -> st
      [] OTHER -> SetFlags(st, result, 0, k)
FlagHolds(st, c) == Holds(c, st.flags.a, st.flags.b, st.flags.k)

CallArgs(st, i) ==
    IF i.arg[2][1] = "call"
    THEN [n \in 1 .. i.arg[2][2].ni |-> st.env[CallerSave[n]]]
         \o [n \in 1 .. Arity(i.arg[1][2]) - i.arg[2][2].ni |-> LoadBytes(st.mem, st.env[RSP] + 8 * (n - 1), 8)]
    ELSE st.args
DoCall(st, i) ==
    With(Callee(i.arg[1][2], CallArgs(st, i), st.mem), LAMBDA c :
      LET after == [SpoilFlags(st) EXCEPT !.mem = c.mem, !.out = Append(@, c.out), !.args = <<>>]
      IN IF i.arg[2][1] = "call"
         THEN [after EXCEPT !.env = [t \in DOMAIN @ |->
                 IF t \in Range(CallerSave) THEN (IF t \in RetRegs(i.arg[2]) THEN c.ret ELSE Junk) ELSE @[t]]]
         ELSE Set(after, i.to, Trunc(c.ret, i.cls), i.cls))

\* The stack grows down.
Allocate(st, to, size) ==
    LET p == st.env[RSP] - size IN Set([SpoilFlags(st) EXCEPT !.env[RSP] = p], to, p, "l")

\* A copy from a register to a temporary that has a slot fills the slot too: spill
\* leaves that store to rega.
Exec(st, i) ==
    LET x(k) == Value(st, i.arg[1], k)
        y(k) == Value(st, i.arg[2], k)
        k == i.cls
    IN CASE st.end # "no" -> st
         [] i.op \in Divides /\ y(k) = 0 -> [st EXCEPT !.end = "trap"]
         [] i.op \in ArithOps ->
              LET by == IF i.op \in {"shl", "shr", "sar"} THEN y("w") ELSE y(k)
              IN With(Arith(i.op, x(k), by, k), LAMBDA r : Set(ArithFlags(st, i.op, r, by, k), i.to, r, k))
         [] i.op \in CmpOps -> LET c == CmpTable[i.op]
                               IN Set(st, i.to, IF Holds(c[1], x(c[2]), y(c[2]), c[2]) THEN 1 ELSE 0, k)
         [] i.op \in DOMAIN LoadWidth ->
              LET w == LoadWidth[i.op]
              IN Set(st, i.to, Extend(LoadBytes(st.mem, AddressOf(st, i.arg[1]), SizeOf[w]), w, k), k)
         [] i.op = "load" -> Set(st, i.to, LoadBytes(st.mem, AddressOf(st, i.arg[1]), SizeOfCls(k)), k)
         [] i.op \in Stores ->
              [st EXCEPT !.mem = StoreBytes(@, AddressOf(st, i.arg[2]), StoreSize[i.op], x(ArgCls(i, 1)))]
         [] i.op \in Exts -> Set(st, i.to, Extend(x("w"), ExtWidth[i.op], k), k)
         [] i.op \in Allocs -> Allocate(st, i.to, 16 * ((x("l") + 15) \div 16))
         [] i.op = "salloc" -> Allocate(st, i.to, Signed(x("l"), "l"))
         [] i.op = "copy" -> With(Set(st, i.to, x(k), k), LAMBDA a :
              IF IsReg(i.arg[1]) /\ IsTmp(i.to) /\ st.slot[i.to[2]] # -1 THEN Set(a, Slot(st.slot[i.to[2]]), x(k), k) ELSE a)
         [] i.op = "addr" -> Set(st, i.to, AddressOf(st, i.arg[1]), k)
         [] i.op = "swap" -> Set(Set(st, i.arg[1], y(k), k), i.arg[2], x(k), k)
         [] i.op = "sign" -> Set(st, i.to, IF Signed(x(k), k) < 0 THEN Modulus(k) - 1 ELSE 0, k)
         [] i.op \in {"xidiv", "xdiv"} ->
              IF x(k) = 0 THEN [st EXCEPT !.end = "trap"]
              ELSE LET d == IF i.op = "xidiv" THEN <<"div", "rem">> ELSE <<"udiv", "urem">>
                       a == Trunc(st.env[RAX], k)
                   IN Set(Set(st, Tmp(RAX), Arith(d[1], a, x(k), k), k), Tmp(RDX), Arith(d[2], a, x(k), k), k)
         [] i.op = "xcmp" -> SetFlags(st, y(k), x(k), k)
         [] i.op = "xtest" -> SetFlags(st, x(k) & y(k), 0, k)
         [] i.op \in Flags -> Set(st, i.to, IF FlagHolds(st, Condition("flag", i.op)) THEN 1 ELSE 0, k)
         [] i.op \in Xsels -> Set(st, i.to, IF FlagHolds(st, Condition("xsel", i.op)) THEN x(k) ELSE y(k), k)
         [] i.op = "blit0" -> [st EXCEPT !.from = AddressOf(st, i.arg[1]), !.to = AddressOf(st, i.arg[2])]
         [] i.op = "blit1" ->
              LET size == IF i.arg[1][2] < 0 THEN -i.arg[1][2] ELSE i.arg[1][2]
              IN [st EXCEPT !.mem = [a \in st.to .. st.to + size - 1 |-> ByteAt(st.mem, st.from + a - st.to)] @@ @]
         [] i.op = "sel0" -> [st EXCEPT !.sel = x("w")]
         [] i.op = "sel1" -> Set(st, i.to, IF st.sel # 0 THEN x(k) ELSE y(k), k)
         [] i.op = "par" -> [Set(st, i.to, Trunc(Head(st.pars), k), k) EXCEPT !.pars = Tail(@)]
         [] i.op = "arg" -> [st EXCEPT !.args = Append(@, x(k))]
         [] i.op = "call" -> DoCall(st, i)
         [] i.op = "nop" -> st

\* The phis of a block read what they need before any of them is set.  Once values are
\* spilled, those the block expects in registers and its predecessor leaves in slots
\* are loaded on the way; rega makes the loads.
EnterBlk(st, fn, from, b) ==
    LET phis == fn.blk[b].phi
        live == IF {from, b} \subseteq DOMAIN fn.in THEN fn.in[b] \ fn.out[from] ELSE {}
        reloaded == {t \in live : fn.tmp[t].slot # -1} \ {p.to[2] : p \in Range(phis)}
        entered == Each(LAMBDA acc, p : Set(acc, p.to, Value(st, PhiArg(p, from), p.cls), p.cls), st, phis)
    IN With(entered, LAMBDA e :
         FoldSet(LAMBDA t, acc : Set(acc, Tmp(t), Value(e, Slot(fn.tmp[t].slot), fn.tmp[t].cls), fn.tmp[t].cls), e, reloaded))

\* Every function returns a value; once its returns are lowered it is in rax.
Ret(st, blk) ==
    CASE blk.jt = "retw" -> Value(st, blk.ja, "w")
      [] blk.jt = "retl" -> Value(st, blk.ja, "l")
      [] OTHER -> st.env[RAX]

RECURSIVE Run(_, _, _, _)
Run(fn, st0, b, fuel) ==
    LET blk == fn.blk[b]
    IN With(Each(Exec, st0, blk.ins), LAMBDA st :
         LET goto(s) == Run(fn, EnterBlk(st, fn, b, s), s, fuel - 1)
             taken == CASE blk.jt = "jmp" -> TRUE
                        [] blk.jt = "jnz" -> Value(st, blk.ja, "w") # 0
                        [] blk.jt \in CmpConds -> FlagHolds(st, blk.jt)
         IN CASE st.end # "no" -> [out |-> st.out, end |-> st.end, ret |-> 0, env |-> st.env]
              [] fuel = 0 -> [out |-> st.out, end |-> "endless", ret |-> 0, env |-> st.env]
              [] blk.jt = "hlt" -> [out |-> st.out, end |-> "halt", ret |-> 0, env |-> st.env]
              [] IsRet(blk.jt) -> [out |-> st.out, end |-> "return", ret |-> Ret(st, blk), env |-> st.env]
              [] OTHER -> goto(IF taken THEN blk.s1 ELSE blk.s2))

\* The run of fn for the arguments args.  A function that takes its parameters from
\* registers and the stack finds them there.
RunOf(fn, args) ==
    LET inReg(t) == {n \in DOMAIN args : n <= NArgRegs /\ CallerSave[n] = t}
        stack == {n \in DOMAIN args : n > NArgRegs}
        pushed == FoldSet(LAMBDA n, m : StoreBytes(m, SlotAddr(-2 * (n - NArgRegs) - 2), 8, args[n]), <<>>, stack)
    IN Run(fn,
        [env |-> [t \in DOMAIN fn.tmp |->
                    CASE t = RSP -> FrameBase - 16 [] t = RBP -> FrameBase
                      [] inReg(t) # {} -> args[Min(inReg(t))]
                      [] OTHER -> IF t < Tmp0 THEN Long(Junk - t) ELSE 0],
         mem |-> pushed, slot |-> [t \in DOMAIN fn.tmp |-> fn.tmp[t].slot], out |-> <<>>, args |-> <<>>, pars |-> args,
         sel |-> 0, from |-> 0, to |-> 0, flags |-> [a |-> 0, b |-> 0, k |-> "w"], end |-> "no"],
        Start(fn), MaxBlocks)
Observed(run) == [out |-> run.out, end |-> run.end, ret |-> run.ret]
=============================================================================
