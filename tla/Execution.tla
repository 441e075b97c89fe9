----------------------------- MODULE Execution -----------------------------
(***************************************************************************)
(* Scanner, parser, type checker, compiler and machine together, against   *)
(* what the source was written to say: the properties that relate a run of *)
(* Machine to the tree its source is a layout of, to the meaning of that   *)
(* tree and to what the type checker says of it.                           *)
(***************************************************************************)
EXTENDS Machine, Parser, TypeCheck, CodeGen

CONSTANTS Programs, \* Programs[p]: the lines of a program's source
          Written,  \* Written[p]: the syntax tree that Programs[p] spells
          Large     \* the programs that need more registers than there are

-----------------------------------------------------------------------------
(* From the sources to the code that Machine runs *)

\* The sources, by program: TLC evaluates a constant that is given by a definition anew at each use.
SourceLines == Programs

\* Every source is parsed and, if that succeeds, compiled.
Parses == <<>> \o [p \in DOMAIN SourceLines |-> With(Scan(SourceLines[p]), Parse)]

\* One round over the instructions of a function: what is in use at each is in use after
\* every instruction that leads to it.
Narrowed(chunk, before) ==
  Each(LAMBDA S, p :
         With(InUseAfter(S[p], chunk[p]), LAMBDA after :
           FoldSet(LAMBDA q, U : [U EXCEPT ![q + 1] = @ \cap after], S,
                   Successors(p - 1, chunk[p]) \cap 0 .. Len(chunk) - 1)),
       before, [p \in 1 .. Len(chunk) |-> p])

RECURSIVE InUseFrom(_, _)
InUseFrom(chunk, S) == With(Narrowed(chunk, S), LAMBDA T : IF T = S THEN S ELSE InUseFrom(chunk, T))

\* The registers in use at every instruction of a function, however it is reached.
InUse(chunk) == InUseFrom(chunk, [p \in 1 .. Len(chunk) |-> IF p = 1 THEN {} ELSE Register])

\* The compiler counts the registers of a function in eight bits.
Translate(parse) ==
  IF parse.failed THEN [how |-> "not_parsed"]
  ELSE With(Compile(parse.stmts), LAMBDA compiled :
    CASE compiled.failed                -> [how |-> "not_compiled"]
      [] compiled.most >= RegisterCount -> [how |-> "too_large"]
      [] OTHER -> [how |-> "running", chunk |-> compiled.chunk, globals |-> Registered(parse.stmts),
                   inUse |-> [f \in DOMAIN compiled.chunk |-> InUse(compiled.chunk[f])]])
Translated == With(Parses, LAMBDA parses : <<>> \o [p \in 1 .. Len(parses) |-> Translate(parses[p])])

Compilations == DOMAIN SourceLines
TranslationOf(p) == Translated[p]

ASSUME TranslationAssumption == Program = Compilations /\ \A p \in Program : Translation(p) = Translated[p]

-----------------------------------------------------------------------------
(* Against what was written *)

\* What is written where no program is.
IllFormed == <<[node |-> "ill_formed"]>>

Reference == INSTANCE Meaning WITH MaxDepth <- FramesMax

Running == outcome \in {"source", "running"}

\* What each program means, and whether each is parsed as it was written.
Meanings == With(Written, LAMBDA trees : <<>> \o
  [p \in 1 .. Len(trees) |-> IF trees[p] = IllFormed THEN [out |-> <<>>, how |-> "not_parsed"]
                             ELSE Reference!MeaningOf(trees[p])])
Faithful == With(Written, LAMBDA trees : <<>> \o
  [p \in 1 .. Len(trees) |-> IF trees[p] = IllFormed THEN Parses[p].failed
                             ELSE ~ Parses[p].failed /\ Parses[p].stmts = trees[p]])

\* The parser finds the tree the source was written from: the same operands for each
\* operator, the same statements in each block, however lines are indented and
\* wherever an expression in parentheses is broken; and it refuses what is ill-formed.
ParsesAsWritten == [][outcome = "source" => Faithful[program]]_vars

\* When a program stops it has printed what its source means it to print, and it
\* ends the same way: with halt or ret, with the same error, or refused by the
\* parser or the compiler; or it needed more registers than there are.
RunsAsWritten ==
  [][ ~ Running' => \/ [out |-> output', how |-> outcome'] = Meanings[program]
                    \/ program \in Large /\ outcome' \in {"too_large", "no_register", "r006"} ]_vars

\* What m4c lint says of each program.
Lints == <<>> \o [p \in 1 .. Len(Parses) |->
  IF Parses[p].failed THEN [errors |-> {"p001"}, blind |-> {}] ELSE Check(Parses[p].stmts)]

\* A name that is no global, an operand or index of the wrong type, a call of what is no
\* function; or the compiler gives up.
GoesWrong == {"r001", "r002", "r003", "r004", "r005", "r007", "r009", "not_compiled"}

\* A program that lint passes without having overlooked anything does not go wrong: the
\* types it worked out are those of the values, and the scopes it worked out are those
\* in which the compiler and the machine find names.  What it overlooks is one of nine
\* forms: the operands of an index or a ? and the fields of a struct literal (operand),
\* the order of two booleans (order), a variable without a value (unset), the end of a function with a result (end), a
\* variable of the top level in a function (outer), a call of a variable (held), a
\* declaration in a function or a function in a loop (nested), a variable over another
\* one (shadow), a second function with a name (redefined).
LintedNeverGoesWrong ==
  [][ (Lints[program].errors = {} /\ outcome' \in GoesWrong) => Lints[program].blind # {} ]_vars

\* Every program whose loops end by their meaning ends on the machine too:
\* every jump out of a loop was given its target.
Terminates == <>(~ Running)
=============================================================================
