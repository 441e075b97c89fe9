---------------------------- MODULE Activations ----------------------------
(***************************************************************************)
(* What function calls promise the compiled program: every activation has  *)
(* registers of its own.  A call starts an activation whose first registers*)
(* are the arguments, and nothing the callee does is seen by the caller but*)
(* the value it returns, which arrives in the register the call named; the *)
(* caller goes on after the call with the rest of its registers as it left *)
(* them.                                                                   *)
(*                                                                         *)
(* An activation is its function, the position in its code, the registers  *)
(* it has written and still uses (`regs`, a function on their numbers) and *)
(* the caller's register for its result (`dst`).                           *)
(***************************************************************************)
EXTENDS Naturals, Sequences

CONSTANTS Fun,    \* functions of the program
          Script, \* the program's top-level code
          Value,  \* values, Fun among them
          Plain,  \* Plain[v]: v as a native function is given it
          Register, Position \* numbers of registers, positions in code

VARIABLES stack,  \* the activations, innermost last
          ending  \* "running", or how the run ended

activationVars == <<stack, ending>>

Top == stack[Len(stack)]
SetTop(act) == [stack EXCEPT ![Len(stack)] = act]

\* The same activation at another position, with other registers.
Continue(act, p, regs) == [fun |-> act.fun, pc |-> p, regs |-> regs, dst |-> act.dst]

UpTo(f, m) == [r \in {q \in DOMAIN f : q <= m} |-> f[r]]
With(f, r, v) == [q \in DOMAIN f \cup {r} |-> IF q = r THEN v ELSE f[q]]

\* Register r of the activation read as a value: what it holds if it is in
\* use, and anything otherwise.
Reads(act, r, v) == v \in Value /\ (r \in DOMAIN act.regs => v = act.regs[r])

Init == /\ ending = "running"
        /\ \E f \in Fun \cup {Script}, c \in Register : \E args \in [0 .. c - 1 -> Value] :
             stack = <<[fun |-> f, pc |-> 0, regs |-> args, dst |-> 0]>>

Write(r, v) == /\ stack' = SetTop(Continue(Top, Top.pc + 1, With(Top.regs, r, v)))
               /\ UNCHANGED ending

Jump(p) == /\ stack' = SetTop(Continue(Top, p, Top.regs))
           /\ UNCHANGED ending

\* The callee is in register b and its c arguments follow; the registers above
\* are temporaries the compiler is done with.
HasCallee(b, c) == b .. b + c \subseteq DOMAIN Top.regs

CallFunction(a, b, c) ==
  /\ Top.regs[b] \in Fun
  /\ stack' = Append(
       SetTop(Continue(Top, Top.pc + 1, UpTo(Top.regs, b + c))),
       [fun |-> Top.regs[b], pc |-> 0,
        regs |-> [i \in 0 .. c - 1 |-> Top.regs[b + 1 + i]], dst |-> a])
  /\ UNCHANGED ending

\* A native function is given its arguments in plain form, and that is the form
\* they are left in.
Given(f, b, c) == [r \in DOMAIN f |-> IF r \in b + 1 .. b + c THEN Plain[f[r]] ELSE f[r]]

CallNative(a, b, c, v) ==
  /\ stack' = SetTop(Continue(Top, Top.pc + 1, With(Given(Top.regs, b, c), a, v)))
  /\ UNCHANGED ending

\* The caller continues with the value in the register it asked for.
Return(d) ==
  /\ Len(stack) > 1
  /\ \E v \in Value :
       /\ Reads(Top, d, v)
       /\ LET caller == stack[Len(stack) - 1]
          IN  stack' = Append(SubSeq(stack, 1, Len(stack) - 2),
                              Continue(caller, caller.pc, With(caller.regs, Top.dst, v)))
  /\ UNCHANGED ending

\* The outermost activation's value is left in its register 0, where the run's
\* caller (threadEntry) finds it.
Finish(d) ==
  /\ Len(stack) = 1
  /\ \E v \in Value : /\ Reads(Top, d, v)
                      /\ stack' = SetTop(Continue(Top, Top.pc, With(Top.regs, 0, v)))
  /\ ending' = "returned"

\* An error ends the run, and so does the end of the top-level code.
Stop == /\ ending' \notin {"running", "returned"}
       /\ UNCHANGED stack

Next == /\ ending = "running"
        /\ \/ \E p \in Position : Jump(p)
           \/ \E r \in Register, v \in Value : Write(r, v)
           \/ \E b, c \in Register :
                /\ HasCallee(b, c)
                /\ \E a \in Register : \/ CallFunction(a, b, c)
                                     \/ \E v \in Value : CallNative(a, b, c, v)
           \/ \E d \in Register : Return(d) \/ Finish(d)
           \/ Stop

Spec == Init /\ [][Next]_activationVars
=============================================================================
