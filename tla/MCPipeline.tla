----------------------------- MODULE MCPipeline -----------------------------
(***************************************************************************)
(* Functions for the pipeline, small enough to run after every pass and    *)
(* together such that every transformation of every pass happens.  Bytes   *)
(* of two bits keep a long within the integers TLC computes with; six      *)
(* registers, two of them for arguments, make small functions spill.       *)
(***************************************************************************)
EXTENDS Passes

v(k) == Tmp(Tmp0 + k)
c(n) == Con(Long(n))
let(k, op, cls, x, y) == Ins(op, cls, v(k), x, y)
put(op, x, y) == Ins(op, "w", R, x, y)
slot(k, n) == Ins("alloc8", "l", v(k), c(n), R)
var(k) == slot(k, 1)    \* as the code generator of m4 declares a variable (qbe.zig:514)
par(k, cls) == Ins("par", cls, v(k), R, R)
get(k, x) == Ins("load", "l", v(k), x, R)
set(x, y) == put("storel", x, y)
call(k, f, args) == [n \in DOMAIN args |-> Ins("arg", "l", R, args[n], R)]
                      \o <<Ins("call", "l", v(k), Addr(f, 0), R)>>
code(ins, jt, ja, s1, s2) == Blk(<<>>, ins, jt, ja, s1, s2)

\* What the parser leaves of the blocks of a function.
Parsed(blocks) ==
  LET bs == DOMAIN blocks
      last == Max({Tmp0} \cup {i.to[2] : i \in UNION {Range(blocks[b].ins) : b \in bs}})
  IN [link |-> [k \in bs |-> k], blk |-> blocks, err |-> "",
      tmp |-> [t \in 0 .. last |-> [NewTmpInfo("l") EXCEPT !.nuse = 0, !.ndef = 0]],
      rpo |-> <<>>, id |-> [b \in bs |-> -1], loop |-> [b \in bs |-> 0], pred |-> [b \in bs |-> <<>>],
      idom |-> [b \in bs |-> 0], dom |-> [b \in bs |-> <<>>], fron |-> [b \in bs |-> {}], depth |-> [b \in bs |-> -1],
      in |-> [b \in bs |-> {}], out |-> [b \in bs |-> {}], gen |-> [b \in bs |-> {}], nlive |-> [b \in bs |-> 0],
      alias |-> <<>>, slot |-> 0, salign |-> 0, reg |-> {}, dynalloc |-> FALSE, code |-> <<>>,
      leaf |-> \A b \in bs : \A i \in Range(blocks[b].ins) : i.op # "call"]

\* A loop over two variables, with a call in it.
Sum == <<
  code(<<par(0, "l"), var(1), var(2), set(c(0), v(1)), set(v(0), v(2))>>, "jmp", R, 2, 0),
  code(<<get(3, v(2)), let(4, "csltl", "w", c(0), v(3))>>, "jnz", v(4), 3, 4),
  code(<<get(5, v(1)), let(6, "add", "l", v(5), v(3)), set(v(6), v(1)), let(7, "sub", "l", v(3), c(1)),
         set(v(7), v(2))>> \o call(8, "show", <<v(6)>>), "jmp", R, 2, 0),
  code(<<get(9, v(1))>>, "retl", v(9), 0, 0)>>

\* Two variables live at different times share memory; one is read and written in parts.
Parts == <<
  code(<<par(0, "l"), slot(1, 16), slot(2, 16), let(3, "add", "l", v(1), c(8)), set(c(7), v(3)), set(v(0), v(1)),
         let(15, "add", "l", v(1), c(1)), put("storeb", c(2), v(15))>>, "jnz", v(0), 2, 3),
  code(<<put("storeh", c(5), v(1))>>, "jmp", R, 3, 0),
  code(<<get(4, v(3)), get(5, v(1)), let(14, "loadsw", "l", v(1), R), let(6, "add", "l", v(4), v(5)),
         let(7, "add", "l", v(2), c(8)), set(v(6), v(7)), set(v(14), v(2))>>, "jnz", v(5), 4, 5),
  code(<<get(8, v(7)), let(16, "loadub", "w", v(2), R), let(17, "extuw", "l", v(16), R), let(18, "add", "l", v(8), v(17))>>,
       "retl", v(18), 0, 0),
  code(<<let(9, "load", "w", v(2), R), let(10, "extsw", "l", v(9), R)>>, "retl", v(10), 0, 0)>>

\* More values live across calls than a callee saves; arguments and parameters on the stack.
Pressure == <<
  code(<<par(0, "l"), par(1, "l"), par(2, "w")>> \o call(3, "show", <<v(0)>>) \o call(4, "show", <<v(1)>>)
       \o <<let(5, "add", "l", v(3), v(1)), let(13, "extsw", "l", v(2), R), let(6, "mul", "l", v(0), v(13))>>
       \o call(7, "three", <<v(5), v(6), v(4)>>)
       \o <<let(8, "sub", "l", v(7), v(3)), let(9, "xor", "l", v(8), v(4)), let(10, "or", "l", v(9), v(6)),
            let(11, "and", "l", v(10), v(5)), let(12, "add", "l", v(11), v(0))>>, "jnz", v(12), 2, 3),
  code(call(14, "three", <<v(12), v(3), v(0)>>), "retl", v(14), 0, 0),
  code(call(15, "show", <<v(6)>>) \o <<let(16, "add", "l", v(15), v(1))>>, "retl", v(16), 0, 0)>>

\* The greater of two and whether it is odd: selections in place of branches, both signs.
Choose == <<
  code(<<par(0, "l"), par(1, "w"), slot(2, 8), let(3, "extsw", "l", v(1), R), set(v(0), v(2)),
         let(4, "csltl", "w", v(0), v(3))>>, "jnz", v(4), 2, 3),
  code(<<set(v(3), v(2))>>, "jmp", R, 3, 0),
  code(<<get(5, v(2)), let(6, "and", "l", v(5), c(1))>>, "jnz", v(6), 4, 5),
  code(<<let(7, "cugtl", "l", v(0), c(5)), let(8, "add", "l", v(7), v(5))>>, "retl", v(8), 0, 0),
  code(<<let(9, "neg", "l", v(5), R), let(10, "ceqw", "w", v(1), c(0)), let(11, "extuw", "l", v(10), R),
         let(12, "shl", "l", v(9), v(11)), set(v(12), v(2))>>, "jnz", v(10), 6, 7),
  code(<<set(v(9), v(2))>>, "jmp", R, 7, 0),
  code(<<get(13, v(2))>>, "retl", v(13), 0, 0)>>

\* Division uses fixed registers, by a constant and by a variable that may be zero.
Divide2 == <<
  code(<<par(0, "l"), par(1, "l"), let(2, "udiv", "l", v(0), c(4)), let(3, "urem", "l", v(0), c(8)),
         let(4, "cnel", "w", v(1), c(0))>>, "jnz", v(4), 2, 3),
  code(<<let(5, "div", "l", v(0), v(1)), let(6, "rem", "l", v(2), v(1)), let(7, "mul", "l", v(5), c(3)),
         let(8, "add", "l", v(7), v(6)), let(9, "sar", "l", v(8), v(3)), let(15, "mul", "l", v(1), c(5)),
         let(16, "add", "l", v(9), v(15))>>, "retl", v(16), 0, 0),
  code(<<let(10, "urem", "w", v(0), c(3)), let(11, "rem", "w", v(10), c(2)), let(12, "extsw", "l", v(11), R),
         let(13, "add", "l", v(12), v(2)), let(14, "sub", "l", c(1), v(13))>>, "retl", v(14), 0, 0)>>

\* The values of a loop change places at its end: parallel moves, and a swap.
Fibonacci == <<
  code(<<par(0, "l"), slot(1, 8), slot(2, 8), slot(3, 8), set(c(0), v(1)), set(c(1), v(2)), set(v(0), v(3))>>,
       "jmp", R, 2, 0),
  code(<<get(4, v(3))>>, "jnz", v(4), 3, 4),
  code(<<get(5, v(1)), get(6, v(2)), set(v(6), v(1)), set(v(5), v(2)), let(7, "and", "l", v(4), c(1))>>, "jnz", v(7), 5, 6),
  code(<<get(8, v(1)), get(13, v(2)), let(14, "sub", "l", v(8), v(13))>>, "retl", v(14), 0, 0),
  code(<<get(9, v(2)), let(10, "add", "l", v(9), v(6)), set(v(10), v(2))>>, "jmp", R, 6, 0),
  code(<<get(11, v(3)), let(12, "sub", "l", v(11), c(1)), set(v(12), v(3))>>, "jmp", R, 2, 0)>>

\* Nested loops that compute the same values again.
Nested == <<
  code(<<par(0, "l"), par(1, "l"), var(2), var(3), var(4), set(v(0), v(2)), set(c(0), v(4))>>, "jmp", R, 2, 0),
  code(<<get(5, v(2)), let(6, "csgtl", "w", v(5), c(0))>>, "jnz", v(6), 3, 7),
  code(<<set(c(2), v(3))>>, "jmp", R, 4, 0),
  code(<<get(7, v(3))>>, "jnz", v(7), 5, 6),
  code(<<let(8, "mul", "l", v(1), v(1)), let(9, "add", "l", v(8), c(3)), get(10, v(4)), let(11, "add", "l", v(10), v(9)),
         set(v(11), v(4)), get(12, v(3)), let(13, "sub", "l", v(12), c(1)), set(v(13), v(3))>>, "jmp", R, 4, 0),
  code(<<get(14, v(2)), let(15, "sub", "l", v(14), c(1)), set(v(15), v(2))>>, "jmp", R, 2, 0),
  code(<<let(16, "mul", "l", v(1), v(1)), get(17, v(4)), let(18, "add", "l", v(17), v(16)), let(19, "sub", "l", v(18), v(16)),
         let(20, "add", "l", v(19), c(0))>>, "retl", v(20), 0, 0)>>

\* A variable declared in a loop, as m4c writes one: memory of its own for each turn.
Declared == <<
  code(<<par(0, "l"), var(1), set(v(0), v(1))>>, "jmp", R, 2, 0),
  code(<<get(2, v(1)), let(3, "cslel", "w", v(2), c(0))>>, "jnz", v(3), 4, 3),
  code(<<var(4), let(5, "add", "l", v(2), v(2)), set(v(5), v(4)), get(6, v(4))>> \o call(7, "bump", <<v(4)>>)
       \o <<get(8, v(4))>> \o call(11, "show", <<v(8)>>) \o <<let(9, "sub", "l", v(2), c(1)), set(v(9), v(1))>>, "jmp", R, 2, 0),
  code(<<get(10, v(1))>>, "retl", v(10), 0, 0)>>

\* Branches decided before the program runs, extensions of what is narrow already,
\* and a place no path reaches.
Decided == <<
  code(<<par(0, "w"), let(1, "and", "w", v(0), c(3)), let(2, "extsh", "w", v(1), R), let(3, "extub", "l", v(2), R),
         slot(4, 8), set(v(3), v(4)), let(5, "cultw", "w", c(2), c(1))>>, "jnz", v(5), 2, 3),
  code(call(6, "show", <<c(9)>>), "jmp", R, 3, 0),
  code(<<let(7, "ceqw", "w", v(0), c(0))>>, "jnz", v(7), 4, 5),
  code(<<let(8, "add", "w", v(0), c(1)), let(9, "extsw", "l", v(8), R), get(10, v(4)), let(11, "add", "l", v(10), v(9))>>,
       "jnz", v(8), 6, 7),
  code(<<let(12, "mul", "w", v(0), c(4)), let(13, "extuw", "l", v(12), R), let(14, "cnew", "w", v(0), c(0))>>, "jnz", v(14), 6, 8),
  code(<<>>, "jnz", v(0), 7, 7),
  code(<<get(15, v(4)), let(16, "add", "l", v(15), c(200))>>, "retl", v(16), 0, 0),
  code(call(17, "show", <<v(13)>>), "hlt", R, 0, 0)>>

\* A blit, a symbol's memory and addresses the machine computes.
Memory == <<
  code(<<par(0, "l"), slot(1, 16), slot(2, 16), set(v(0), v(1)), let(3, "add", "l", v(1), c(8)), set(c(6), v(3)),
         put("blit0", v(1), v(2)), put("blit1", <<"int", 16>>, R), let(4, "and", "l", v(0), c(1)), let(5, "mul", "l", v(4), c(8)),
         let(6, "add", "l", v(5), v(2)), let(7, "load", "l", v(6), R), let(14, "add", "l", Addr("table", 0), c(8)), let(8, "add", "l", v(5), v(14)),
         set(v(7), v(8)), let(9, "loadsw", "l", v(8), R), let(10, "add", "l", v(7), v(9))>>
       \o call(11, "bump", <<v(2)>>) \o <<get(12, v(8)), let(13, "add", "l", v(12), v(10))>>, "retl", v(13), 0, 0)>>

\* What is stored on one path or another, whole and in parts, is read after they meet.
Forward == <<
  code(<<par(0, "l"), slot(1, 16), let(2, "add", "l", v(1), c(8)), let(3, "add", "l", v(1), c(4)), set(v(0), v(2)),
         put("storew", c(9), v(1)), put("storew", c(6), v(3))>>, "jnz", v(0), 2, 3),
  code(<<set(c(5), v(2)), put("storeb", c(1), v(3)), let(24, "add", "l", v(1), c(3)), put("storeh", c(11), v(24))>>, "jmp", R, 4, 0),
  code(<<let(4, "add", "l", v(1), c(2)), put("storeh", v(0), v(4))>>, "jmp", R, 4, 0),
  code(<<get(5, v(2)), let(6, "loaduh", "w", v(3), R), let(7, "load", "w", v(1), R), let(8, "extuw", "l", v(7), R),
         get(9, v(1)), let(10, "add", "l", v(9), v(8)), let(11, "extuw", "l", v(6), R), let(12, "add", "l", v(11), v(5)),
         let(13, "add", "l", v(12), v(10)), set(c(2), v(2))>>, "jmp", R, 5, 0),
  code(<<get(14, v(2)), let(15, "sub", "l", v(14), c(1)), let(16, "loadsb", "w", v(3), R)>> \o call(17, "show", <<v(14)>>)
         \o <<let(18, "add", "w", v(16), c(1)), put("storeb", v(18), v(3)), set(v(15), v(2))>>, "jnz", v(15), 5, 6),
  code(<<let(19, "loadub", "w", v(3), R), let(20, "extub", "l", v(19), R), let(21, "add", "l", v(20), v(13)), get(22, v(2)),
         let(23, "add", "l", v(21), v(22))>>, "retl", v(23), 0, 0)>>

\* Memory copied whole and read in pieces that do not match the stores.
Blits == <<
  code(<<par(0, "l"), slot(1, 16), slot(2, 16), set(v(0), v(1)), let(3, "add", "l", v(1), c(8)), set(c(1000), v(3)),
         put("blit0", v(1), v(2)), put("blit1", <<"int", 16>>, R), let(4, "add", "l", v(2), c(6)), let(5, "loaduw", "l", v(4), R),
         let(6, "add", "l", v(2), c(3)), let(7, "loaduh", "w", v(6), R), let(8, "extuw", "l", v(7), R), let(9, "loadub", "l", v(2), R)>>,
       "jnz", v(9), 2, 3),
  code(<<let(10, "add", "l", v(2), c(10)), put("storeh", c(6), v(10))>> \o call(11, "show", <<v(5)>>), "jmp", R, 3, 0),
  code(<<let(12, "add", "l", v(2), c(8)), get(13, v(12)), let(14, "add", "l", v(13), v(8)), let(15, "load", "w", v(4), R),
         let(16, "extsw", "l", v(15), R), let(17, "add", "l", v(14), v(16)), slot(18, 16), put("blit0", v(2), v(18)),
         put("blit1", <<"int", 11>>, R), let(19, "add", "l", v(18), c(2)), get(20, v(19)), let(21, "xor", "l", v(20), v(17))>>,
       "retl", v(21), 0, 0)>>

\* What constants make of every operation, and sums and products that are regrouped.
Constants == <<
  code(<<par(0, "l"), let(1, "sub", "l", c(3), c(5)), let(2, "div", "l", v(1), c(-2)), let(3, "rem", "l", c(-7), c(3)),
         let(4, "mul", "l", v(1), v(3)), let(5, "udiv", "l", v(1), c(7)), let(6, "urem", "w", c(250), c(7)),
         let(7, "and", "l", v(5), c(60)), let(8, "or", "l", v(7), v(2)), let(9, "xor", "l", v(8), c(-1)), let(10, "sar", "l", v(9), c(2)),
         let(11, "shr", "w", c(-1), c(3)), let(12, "shl", "w", v(11), c(4)), let(13, "extsb", "w", c(2), R), let(14, "extsh", "w", c(9), R),
         let(15, "extub", "l", v(13), R), let(16, "extuh", "w", v(14), R), let(17, "extsw", "l", v(12), R), let(18, "neg", "l", v(17), R),
         let(19, "csltl", "l", v(18), v(10)), let(20, "cugew", "l", v(16), v(6)), let(48, "mul", "l", v(0), c(3)), let(49, "mul", "l", v(48), c(5))>>
       \o call(21, "three", <<v(10), v(4), v(18)>>) \o call(22, "three", <<v(19), v(20), v(15)>>)
       \o <<let(23, "add", "l", v(0), c(3)), let(24, "sub", "l", v(23), c(9)), let(25, "add", "l", v(24), c(2)), let(26, "sub", "l", v(25), v(49)),
            let(27, "add", "l", v(26), v(26)), let(28, "sub", "l", v(0), v(0)), let(29, "ceql", "w", v(0), v(0)), let(30, "extuw", "l", v(29), R),
            let(31, "and", "l", v(0), v(0)), let(32, "add", "l", v(31), v(28)), let(33, "cnel", "w", v(32), c(0)),
            let(34, "add", "l", Addr("table", 0), c(8)), let(35, "sub", "l", v(34), Addr("table", 0)), let(36, "add", "l", v(35), v(30))>>,
       "jnz", v(33), 2, 3),
  code(<<let(37, "cnel", "l", v(31), c(0)), let(38, "add", "l", v(37), v(36))>> \o call(39, "show", <<v(38)>>), "jmp", R, 3, 0),
  code(<<let(40, "cnew", "w", v(33), c(0)), let(41, "extuw", "l", v(40), R), let(42, "add", "l", v(41), v(27)), let(43, "mul", "l", v(42), c(1)),
         let(44, "shl", "l", v(43), c(0))>>, "retl", v(44), 0, 0)>>

\* Values narrower than their class, masked, shifted and extended again; parameters of which
\* only the low bits are used.
Narrow == <<
  code(<<par(0, "w"), par(1, "l"), par(2, "w"), slot(3, 4), slot(4, 8), let(5, "and", "w", v(0), c(15)), let(6, "extuh", "w", v(5), R),
         let(7, "shr", "w", v(0), c(4)), let(8, "extuh", "w", v(7), R), let(9, "or", "w", v(6), v(8)), let(10, "extuh", "w", v(9), R),
         let(11, "xor", "w", v(10), v(5)), let(12, "extuh", "l", v(11), R), let(13, "extsw", "l", v(0), R), let(14, "sar", "l", v(13), c(1)),
         let(15, "extsw", "l", v(14), R), let(16, "extub", "w", v(2), R), put("storew", v(16), v(3)), set(v(12), v(4)), let(17, "csgtw", "w", v(0), c(3))>>,
       "jnz", v(17), 2, 3),
  code(<<let(18, "and", "w", v(16), c(1)), put("storew", v(18), v(3)), let(19, "extsw", "l", v(10), R), set(v(19), v(4))>>, "jmp", R, 3, 0),
  code(<<let(20, "load", "w", v(3), R), let(21, "extub", "l", v(20), R), get(22, v(4)), let(23, "extuw", "l", v(22), R), let(24, "add", "l", v(21), v(23)),
         let(25, "add", "l", v(24), v(15)), let(26, "and", "l", v(1), c(15)), let(27, "extuh", "l", v(1), R), let(28, "add", "l", v(26), v(27)),
         let(29, "sub", "l", v(25), v(28)), let(30, "shl", "w", v(20), c(2)), let(31, "extub", "w", v(30), R), let(32, "add", "w", v(31), v(29))>>,
       "retw", v(32), 0, 0)>>

\* Words and longs kept on the stack across calls and around a loop; addresses and
\* comparisons that are needed in one branch only.
Crowded == <<
  code(<<par(0, "l"), par(1, "w"), slot(2, 8), let(3, "extsw", "l", v(1), R)>> \o call(4, "show", <<v(0)>>) \o call(5, "show", <<v(3)>>)
       \o <<let(6, "add", "w", v(4), v(1)), let(7, "mul", "w", v(5), v(1)), let(8, "xor", "w", v(6), v(7)), let(9, "add", "l", v(4), v(5)),
            let(10, "and", "l", v(0), c(7)), let(11, "add", "l", v(10), Addr("table", 0)), let(12, "add", "l", v(11), c(8)),
            let(13, "sub", "w", v(8), v(6)), let(14, "neg", "w", v(13), R), set(c(2), v(2))>>, "jmp", R, 2, 0),
  code(call(15, "show", <<v(9)>>) \o <<let(16, "extsw", "l", v(14), R)>> \o call(17, "three", <<v(16), v(9), v(15)>>)
       \o <<get(18, v(2)), let(19, "sub", "l", v(18), c(1)), set(v(19), v(2))>>, "jnz", v(19), 2, 3),
  code(<<let(20, "csltw", "w", v(8), v(13))>>, "jnz", v(20), 4, 5),
  code(<<set(v(9), v(12)), get(21, v(12)), let(22, "load", "w", v(11), R), let(23, "extuw", "l", v(22), R), let(24, "add", "l", v(21), v(23))>>,
       "retl", v(24), 0, 0),
  code(<<let(25, "extsw", "l", v(7), R), let(26, "extuw", "l", v(6), R), let(27, "sub", "l", v(26), v(25)), let(28, "extsw", "l", v(14), R),
         let(29, "add", "l", v(28), v(27))>>, "jnz", v(29), 6, 6),
  code(<<let(30, "extsw", "l", v(8), R), let(31, "add", "l", v(30), v(29))>>, "retl", v(31), 0, 0)>>

FunctionsDef == [sum |-> Parsed(Sum), parts |-> Parsed(Parts), pressure |-> Parsed(Pressure), choose |-> Parsed(Choose),
  divide |-> Parsed(Divide2), fibonacci |-> Parsed(Fibonacci), nested |-> Parsed(Nested), declared |-> Parsed(Declared),
  decided |-> Parsed(Decided), memory |-> Parsed(Memory), forward |-> Parsed(Forward), blits |-> Parsed(Blits),
  constants |-> Parsed(Constants), narrow |-> Parsed(Narrow), crowded |-> Parsed(Crowded)]
InputsDef(i) ==
  CASE i \in {"sum", "parts", "declared", "memory"} -> {<<0>>, <<3>>, <<65534>>}
    [] i = "pressure" -> {<<2, 9, 255>>, <<65535, 1, 0>>}
    [] i = "choose" -> {<<3, 4>>, <<3, 255>>, <<40000, 0>>}
    [] i = "divide" -> {<<65526, 3>>, <<21, 0>>}
    [] i = "fibonacci" -> {<<0>>, <<3>>}
    [] i = "nested" -> {<<0, 3>>, <<2, 5>>}
    [] i \in {"forward", "blits", "constants"} -> {<<0>>, <<11>>, <<65534>>}
    [] i = "narrow" -> {<<2, 9, 255>>, <<255, 65535, 0>>}
    [] i = "crowded" -> {<<2, 9>>, <<65535, 255>>}
    [] i = "decided" -> {<<0>>, <<255>>, <<6>>}
\* bump adds one to what its argument points to, and the others show their arguments.
CalleeDef(f, args, mem) ==
  LET old == LoadBytes(mem, args[1], 8)
      one == Long(args[1] + 1)
  IN IF f = "bump" THEN [ret |-> old, mem |-> StoreBytes(mem, args[1], 8, Long(old + 1)), out |-> <<f, old>>]
     ELSE [ret |-> one, mem |-> mem, out |-> <<f, args>>]
SymAddrDef(s) == 100
ArityDef(f) == IF f = "three" THEN 3 ELSE 1
CallerSaveDef == <<4, 3, 2, 1>>
=============================================================================
