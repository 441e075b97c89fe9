--------------------------------- MODULE IL ---------------------------------
(***************************************************************************)
(* The representation QBE's passes share: a function is a list of blocks,  *)
(* each with phis, instructions and a jump, and a table of temporaries.    *)
(* A reference to a temporary, a constant or a slot is a tuple; constants  *)
(* are interned by the code (getcon, newcon), so a constant is its value.  *)
(* Blocks keep their name b for life; their number in reverse postorder    *)
(* (id) is computed by fillrpo.  0 is the null block.                      *)
(***************************************************************************)
EXTENDS Eager, SequencesExt

\* The elements of S, ordered by before.
InOrder(S, before(_, _)) == SortSeq(FoldSet(LAMBDA e, s : Append(s, e), <<>>, S), before)

CONSTANTS
    ByteBits,   \* bits of a byte (8 in the code): a word is 4 bytes, a long 8
    Tmp0        \* the first temporary that is not a register

NoTmp == 0
Tmp(t) == <<"tmp", t>>
R == Tmp(NoTmp)
Con(n) == <<"con", n>>
Addr(sym, off) == <<"addr", sym, off>>
Undef == <<"undef">>
Slot(n) == <<"slot", n>>
CallRef(info) == <<"call", info>>
MemRef(m) == <<"mem", m>>

IsTmp(r) == r[1] = "tmp" /\ r[2] # NoTmp
IsCon(r) == r[1] \in {"con", "addr", "undef"}
IsReg(r) == IsTmp(r) /\ r[2] < Tmp0

-----------------------------------------------------------------------------
\* Integers of class "w" and "l" are kept modulo their width.
BitsOf(k) == IF k = "l" THEN 8 * ByteBits ELSE 4 * ByteBits
Modulus(k) == 2 ^ BitsOf(k)
Trunc(v, k) == v % Modulus(k)
Signed(v, k) == LET n == Trunc(v, k) IN IF 2 * n >= Modulus(k) THEN n - Modulus(k) ELSE n
Long(v) == v % Modulus("l")
Times(a, b, k) ==       \* without leaving the integers TLC computes with
    LET half == 2 ^ (BitsOf(k) \div 2)
    IN ((((a \div half) * (b % half)) % half) * half + (a % half) * b) % Modulus(k)

-----------------------------------------------------------------------------
\* Conditions of comparisons, and what they say of two unsigned values.
CmpConds == {"ieq", "ine", "isge", "isgt", "isle", "islt", "iuge", "iugt", "iule", "iult"}
CmpNames == [ceq |-> "ieq", cne |-> "ine", csge |-> "isge", csgt |-> "isgt", csle |-> "isle",
             cslt |-> "islt", cuge |-> "iuge", cugt |-> "iugt", cule |-> "iule", cult |-> "iult"]
Holds(c, a, b, k) ==
    LET s == Signed(a, k) - Signed(b, k)
        u == Trunc(a, k) - Trunc(b, k)
    IN CASE c = "ieq" -> u = 0 [] c = "ine" -> u # 0
         [] c = "isge" -> s >= 0 [] c = "isgt" -> s > 0 [] c = "isle" -> s <= 0 [] c = "islt" -> s < 0
         [] c = "iuge" -> u >= 0 [] c = "iugt" -> u > 0 [] c = "iule" -> u <= 0 [] c = "iult" -> u < 0
CmpSwap == [c \in CmpConds |-> CASE c = "isge" -> "isle" [] c = "isgt" -> "islt" [] c = "isle" -> "isge"
                                 [] c = "islt" -> "isgt" [] c = "iuge" -> "iule" [] c = "iugt" -> "iult"
                                 [] c = "iule" -> "iuge" [] c = "iult" -> "iugt" [] OTHER -> c]
CmpNeg == [c \in CmpConds |-> CASE c = "ieq" -> "ine" [] c = "ine" -> "ieq"
                                [] c = "isge" -> "islt" [] c = "isgt" -> "isle" [] c = "isle" -> "isgt"
                                [] c = "islt" -> "isge" [] c = "iuge" -> "iult" [] c = "iugt" -> "iule"
                                [] c = "iule" -> "iugt" [] c = "iult" -> "iuge"]
\* iscmp: op |-> its condition and the class it compares.
CmpTable == [op \in {n \o k : n \in DOMAIN CmpNames, k \in {"w", "l"}} |->
               CHOOSE ck \in CmpConds \X {"w", "l"} :
                 \E n \in DOMAIN CmpNames : ck[1] = CmpNames[n] /\ op = n \o ck[2]]
CmpOps == DOMAIN CmpTable
CmpOp(c, k) == CHOOSE op \in CmpOps : CmpTable[op] = <<c, k>>

LoadWidth == [loadsb |-> "sb", loadub |-> "ub", loadsh |-> "sh", loaduh |-> "uh", loadsw |-> "sw", loaduw |-> "uw"]
ExtWidth == [extsb |-> "sb", extub |-> "ub", extsh |-> "sh", extuh |-> "uh", extsw |-> "sw", extuw |-> "uw"]
Loads == DOMAIN LoadWidth \cup {"load"}
Exts == DOMAIN ExtWidth
Stores == {"storeb", "storeh", "storew", "storel"}
Allocs == {"alloc4", "alloc8", "alloc16"}
Pars == {"par", "parsb", "parub", "parsh", "paruh"}
Args == {"arg", "argsb", "argub", "argsh", "arguh"}
Flags == {"flag" \o c : c \in CmpConds}
Xsels == {"xsel" \o c : c \in CmpConds}
Condition(prefix, name) == CHOOSE c \in CmpConds : name = prefix \o c

\* The columns of the operation table (ops.h).
CanFold == {"add", "sub", "neg", "div", "rem", "udiv", "urem", "mul", "and", "or", "xor",
            "sar", "shr", "shl"} \cup CmpOps \cup Exts
IdVal == [op \in {"add", "sub", "or", "xor", "sar", "shr", "shl", "cnew"} |-> 0]
           @@ [op \in {"div", "udiv", "mul", "ceqw"} |-> 1]
Commutes == {"add", "mul", "and", "or", "xor", "ceqw", "cnew", "ceql", "cnel"}
Assoc == {"add", "and", "or", "xor"}
Idemp == {"and", "or"}
CmpEq == {"ceqw", "cnew", "ceql", "cnel"}
CmpOrd == CmpOps \ CmpEq
EqVal == {op \in CmpOps : CmpTable[op][1] \in {"ieq", "isge", "isle", "iuge", "iule"}}
Pinned == Stores \cup Loads \cup Allocs \cup Pars \cup Args \cup {"blit0", "blit1", "sel0", "sel1", "call"}
Divisions == {"div", "rem", "udiv", "urem"}
\* pinned: an instruction that stays in its block.
IsPinned(i) == i.op \in Pinned \cup Divisions

\* argcls: the class operand n of an instruction is read with.
ArgCls(i, n) ==
    CASE i.op \in CmpOps -> CmpTable[i.op][2]
      [] i.op \in {"sar", "shr", "shl"} /\ n = 2 -> "w"
      [] i.op \in {"storeb", "storeh", "storew"} /\ n = 1 -> "w"
      [] i.op = "storel" /\ n = 1 -> "l"
      [] i.op \in Stores \cup Loads \cup {"call", "blit0", "addr"} -> "l"
      [] i.op \in Exts -> "w"
      [] i.op \in Allocs \cup {"salloc"} -> "l"
      [] i.op \in {"sel0", "blit1"} -> "w"
      [] OTHER -> i.cls

-----------------------------------------------------------------------------
Ins(op, cls, to, x, y) == [op |-> op, cls |-> cls, to |-> to, arg |-> <<x, y>>]
Nop == Ins("nop", "w", R, R, R)
Copy(cls, to, x) == Ins("copy", cls, to, x, R)

Subst(i, from, to) == [i EXCEPT !.arg = [n \in 1 .. 2 |-> IF @[n] = from THEN to ELSE @[n]]]

\* A phi takes from[n][2] when its block is entered from block from[n][1].
Phi(to, cls, from) == [to |-> to, cls |-> cls, from |-> from]
PhiArgN(p, b) == SelectInSeq(p.from, LAMBDA f : f[1] = b)
PhiArg(p, b) == p.from[PhiArgN(p, b)][2]

Blk(phi, ins, jt, ja, s1, s2) ==
    [phi |-> phi, ins |-> ins, jt |-> jt, ja |-> ja, s1 |-> s1, s2 |-> s2]
Succs(blk) == (IF blk.s1 = 0 THEN <<>> ELSE <<blk.s1>>) \o (IF blk.s2 = 0 THEN <<>> ELSE <<blk.s2>>)
IsRet(jt) == jt \in {"retw", "retl", "ret0", "retsb", "retub", "retsh", "retuh"}

\* What a new temporary starts with; the passes fill the rest.
NewTmpInfo(cls) ==
    [cls |-> cls, slot |-> -1, nuse |-> 1, ndef |-> 1, phi |-> 0, bid |-> -1, def |-> <<>>, use |-> <<>>,
     width |-> "full", cost |-> 0, gcmbid |-> -1, visit |-> 0, hint |-> [r |-> -1, w |-> 0, m |-> {}]]
NTmp(fn) == Cardinality(DOMAIN fn.tmp)
TmpSet(fn) == Tmp0 .. NTmp(fn) - 1
\* newtmp: the reference is Tmp(NTmp(fn)).
NewTmp(fn, cls) == [fn EXCEPT !.tmp = @ @@ (NTmp(fn) :> NewTmpInfo(cls))]
Start(fn) == fn.link[1]

\* The instructions of a block that are not nop, as addins and addbins copy them.
WithoutNops(ins) == SelectSeq(ins, LAMBDA i : i.op # "nop")
\* Every reference an instruction or a jump reads, in order.
Reads(i) == SelectSeq(i.arg, IsTmp)

\* addcon: c0 + m * c1 of two constants, <<>> where one relocation cannot say it.
AddCon(c0, c1, m) ==
    LET off(c) == IF c[1] = "con" THEN c[2] ELSE IF c[1] = "addr" THEN c[3] ELSE 0
    IN CASE m # 1 /\ c1[1] = "addr" -> <<>>
         [] c0[1] = "undef" /\ c1[1] = "addr" -> c1
         [] c0[1] = "undef" -> Con(Long(off(c1) * m))
         [] c0[1] = "addr" /\ c1[1] = "addr" -> <<>>
         [] c0[1] = "addr" -> Addr(c0[2], Long(c0[3] + off(c1) * m))
         [] c1[1] = "addr" -> Addr(c1[2], Long(off(c0) + off(c1)))
         [] OTHER -> Con(Long(off(c0) + off(c1) * m))

\* igroup: the first and last index of the instructions that belong with the
\* i-th of a block: a call with its arguments, parameters, a blit, a select.
Group(ins, i) ==
    LET down(S, n) == CHOOSE j \in 1 .. n : (\A k \in j .. n - 1 : ins[k].op \in S)
                                            /\ (j = 1 \/ ins[j - 1].op \notin S)
        up(S, n) == CHOOSE j \in n .. Len(ins) : (\A k \in n + 1 .. j : ins[k].op \in S)
                                                 /\ (j = Len(ins) \/ ins[j + 1].op \notin S)
        op == ins[i].op
    IN CASE op = "blit0" -> <<i, i + 1>>
         [] op = "blit1" -> <<i - 1, i>>
         [] op \in Pars -> <<down(Pars, i), up(Pars, i)>>
         [] op \in Args \cup {"call"} ->
              <<down(Args, i), CHOOSE j \in i .. Len(ins) : ins[j].op = "call" /\ \A k \in i .. j - 1 : ins[k].op # "call">>
         [] op = "sel1" -> <<down({"sel1"}, i) - 1, up({"sel1"}, i)>>
         [] op = "sel0" -> <<i, up({"sel1"}, i)>>
         [] OTHER -> <<i, i>>
=============================================================================
