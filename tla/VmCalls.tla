------------------------------ MODULE VmCalls ------------------------------
(***************************************************************************)
(* Calls and returns in src/compiler/vm.zig.  All activations share one    *)
(* array of RegisterCount registers: an instruction names a register by its*)
(* distance from the base of the running frame, and a call places the base *)
(* of the new frame just above the callee and the arguments, copies the    *)
(* arguments there and remembers where the caller wants the result.  The   *)
(* run loop keeps the code and the pc of the running frame in variables of *)
(* its own and saves the pc only when it calls.                            *)
(*                                                                         *)
(* Instructions other than call and ret matter only through the register   *)
(* they write and the position they go to.  `used` is history: for every   *)
(* frame, the registers it has written and not given up, the ones whose    *)
(* contents its code may still rely on.                                    *)
(***************************************************************************)
EXTENDS Naturals, Sequences

CONSTANTS Fun,           \* function objects
          Native,        \* native functions
          Script,        \* the top-level code, which is not a value
          Value,         \* values
          Nil,
          Plain,         \* Plain[v]: the string in a string builder v, else v
          RegisterCount, \* REGISTER_COUNT
          FramesMax,     \* FRAMES_MAX
          CodeLength     \* bound: instructions in a chunk

ASSUME VmAssumption == /\ Fun \subseteq Value /\ Native \subseteq Value
                       /\ Fun \cap Native = {} /\ Nil \in Value
                       /\ Script \notin Value
                       /\ Plain \in [Value -> Value]
                       /\ RegisterCount \in Nat \ {0}
                       /\ FramesMax \in Nat \ {0}
                       /\ CodeLength \in Nat \ {0}

Register == 0 .. RegisterCount - 1
Position == 0 .. CodeLength
Code == Fun \cup {Script}

VARIABLES registers, \* VM.registers
          frames,    \* VM.frames up to frame_count
          code,      \* the run loop's `code`, as the function it belongs to
          pc,        \* the run loop's `pc`
          used,      \* history: registers in use, by frame
          outcome    \* "running" or how run() ended

vars == <<registers, frames, code, pc, used, outcome>>

Frame == [fun : Code, pc : Position, base : Register, dst : Register]

TypeOK == /\ registers \in [Register -> Value]
          /\ frames \in Seq(Frame) /\ Len(frames) \in 1 .. FramesMax
          /\ code \in Code
          /\ pc \in Position
          /\ used \in Seq(SUBSET Register) /\ Len(used) = Len(frames)
          /\ outcome \in {"running", "returned", "halted", "error",
                         "r006", "r007", "panic"}

Depth == Len(frames)
Base == frames[Depth].base

\* interpret starts the top-level code; threadEntry starts a function with its
\* arguments in the first registers.
Init == /\ \E c \in Code, n \in 0 .. RegisterCount - 1 :
             /\ c = Script => n = 0
             /\ frames = <<[fun |-> c, pc |-> 0, base |-> 0, dst |-> 0]>>
             /\ code = c
             /\ used = <<0 .. n - 1>>
             /\ registers \in [Register -> Value]
             /\ \A r \in Register : r >= n => registers[r] = Nil
        /\ pc = 0
        /\ outcome = "running"

-----------------------------------------------------------------------------
Stop(how) == /\ outcome' = how
             /\ UNCHANGED <<registers, frames, code, pc, used>>

Use(r) == [used EXCEPT ![Depth] = @ \cup {r}]

\* An instruction that computes a value into register r of the frame.
Compute(r, v) == /\ Base + r \in Register
                 /\ pc + 1 < CodeLength
                 /\ pc' = pc + 1
                 /\ used' = Use(r)
                 /\ registers' = [registers EXCEPT ![Base + r] = v]
                 /\ UNCHANGED <<frames, code, outcome>>

\* An instruction that writes no register: a jump, taken or not, or a store.
Jump(p) == /\ p < CodeLength
           /\ pc' = p
           /\ UNCHANGED <<registers, frames, code, used, outcome>>

\* base + operand is computed in eight bits and checked.
PastLastRegister(r) == /\ Base + r \notin Register
                       /\ Stop("panic")

Fails == Stop("error")

\* The top-level code ends with halt, a function's code with ret.
Halt == /\ code = Script
        /\ Stop("halted")

-----------------------------------------------------------------------------
(* call a b c: callee in b, c arguments after it, result to a *)

\* Compiled code loads the callee and the arguments into consecutive registers
\* and lets the result go to a register above them.
CallCompiled(a, b, c) == /\ a > b + c
                         /\ b .. b + c \subseteq used[Depth]

\* Faulty variant: the new window begins at the last argument.
NewBaseOnLastArgument(b, c) == Base + b + c
NewBase(b, c) == Base + b + 1 + c

\* Register arg_base + i is copied to new_base + i, where arg_base + c = new_base.
CopyOfArguments(b, c) ==
  [r \in Register |-> IF r \in NewBase(b, c) .. NewBase(b, c) + c - 1
                        THEN registers[r - c]
                        ELSE registers[r]]

\* Faulty variant: one frame more than there is room for.
HasRoomOneMore(b, c) == Depth <= FramesMax /\ NewBase(b, c) < RegisterCount
HasRoom(b, c) == Depth < FramesMax /\ NewBase(b, c) < RegisterCount

CallFunction(a, b, c) ==
  /\ CallCompiled(a, b, c)
  /\ pc + 1 < CodeLength
  /\ registers[Base + b] \in Fun
  /\ HasRoom(b, c)
  /\ Base + a \in Register /\ NewBase(b, c) + c <= RegisterCount
  /\ frames' = Append([frames EXCEPT ![Depth].pc = pc + 1],
                      [fun |-> registers[Base + b], pc |-> 0,
                       base |-> NewBase(b, c), dst |-> Base + a])
  /\ registers' = CopyOfArguments(b, c)
  /\ used' = Append([used EXCEPT ![Depth] = {r \in @ : r <= b + c}], 0 .. c - 1)
  /\ code' = registers[Base + b] /\ pc' = 0
  /\ UNCHANGED outcome

CallOverflows(a, b, c) == /\ CallCompiled(a, b, c)
                          /\ registers[Base + b] \in Fun
                          /\ ~ HasRoom(b, c)
                          /\ Stop("r006")

\* The test above does not cover the copies of the arguments: only the first
\* one is sure to have a register.
CallCopiesPastEnd(a, b, c) == /\ CallCompiled(a, b, c)
                              /\ registers[Base + b] \in Fun
                              /\ HasRoom(b, c)
                              /\ NewBase(b, c) + c > RegisterCount
                              /\ Stop("panic")

CallNative(a, b, c, v) ==
  /\ CallCompiled(a, b, c)
  /\ pc + 1 < CodeLength
  /\ registers[Base + b] \in Native
  /\ Base + a \in Register
  /\ registers' = [r \in Register |->
                     IF r = Base + a THEN v
                     ELSE IF r \in Base + b + 1 .. Base + b + c THEN Plain[registers[r]]
                     ELSE registers[r]]
  /\ used' = Use(a)
  /\ pc' = pc + 1
  /\ UNCHANGED <<frames, code, outcome>>

CallUncallable(a, b, c) == /\ CallCompiled(a, b, c)
                           /\ registers[Base + b] \notin Fun \cup Native
                           /\ Stop("r007")

Call(a, b, c) == \/ CallFunction(a, b, c) \/ CallOverflows(a, b, c)
                 \/ CallCopiesPastEnd(a, b, c)
                 \/ \E v \in Value : CallNative(a, b, c, v)
                 \/ CallUncallable(a, b, c)

-----------------------------------------------------------------------------
(* ret d: the value in register d; a ret without an expression names 0 *)

ReturnToRoot(d) == /\ Depth = 1
                   /\ Base + d \in Register
                   /\ registers' = [registers EXCEPT ![frames[1].dst] = registers[Base + d]]
                   /\ used' = Use(frames[1].dst)
                   /\ outcome' = "returned"
                   /\ UNCHANGED <<frames, code, pc>>

Pop(s) == SubSeq(s, 1, Len(s) - 1)

\* Faulty variant: the run loop keeps the callee's code.
ReturnKeepingCode(d) ==
  /\ Depth > 1
  /\ Base + d \in Register
  /\ frames' = Pop(frames)
  /\ pc' = frames[Depth - 1].pc
  /\ registers' = [registers EXCEPT ![frames[Depth].dst] = registers[Base + d]]
  /\ used' = [Pop(used) EXCEPT ![Depth - 1] =
                @ \cup {frames[Depth].dst - frames[Depth - 1].base}]
  /\ UNCHANGED <<code, outcome>>

Return(d) ==
  /\ Depth > 1
  /\ Base + d \in Register
  /\ frames' = Pop(frames)
  /\ code' = frames[Depth - 1].fun
  /\ pc' = frames[Depth - 1].pc
  /\ registers' = [registers EXCEPT ![frames[Depth].dst] = registers[Base + d]]
  /\ used' = [Pop(used) EXCEPT ![Depth - 1] =
                @ \cup {frames[Depth].dst - frames[Depth - 1].base}]
  /\ UNCHANGED outcome

-----------------------------------------------------------------------------
Next == /\ outcome = "running"
        /\ \/ \E r \in Register : (\E v \in Value : Compute(r, v)) \/ PastLastRegister(r)
           \/ \E p \in Position : Jump(p)
           \/ Fails \/ Halt
           \/ \E d \in Register : ReturnToRoot(d) \/ Return(d)
           \/ \E b \in used[Depth], a, c \in Register : Call(a, b, c)

Spec == Init /\ [][Next]_vars

-----------------------------------------------------------------------------
(* Properties *)

\* The windows of the frames lie one above the other: nothing a suspended
\* frame still uses, its callee's arguments included, is in the window of a
\* frame above it.
WindowsApart == \A i, j \in 1 .. Depth : i < j =>
                  \A r \in used[i] : frames[i].base + r < frames[j].base

\* A frame's registers exist; a call's result goes above what the caller still
\* uses, and the run loop executes the innermost frame's code.
FrameInv == /\ \A i \in 1 .. Depth : \A r \in used[i] : frames[i].base + r \in Register
            /\ \A i \in 2 .. Depth : /\ frames[i].dst >= frames[i].base
                                      /\ frames[i].base > frames[i - 1].base
            /\ code = frames[Depth].fun
            /\ frames[1].base = 0 /\ frames[1].dst = 0

WindowInv == WindowsApart /\ FrameInv

\* The shared registers and the saved pcs implement activations with registers
\* of their own.
ActivationOf(i) ==
  [fun  |-> IF i = Depth THEN code ELSE frames[i].fun,
   pc   |-> IF i = Depth THEN pc ELSE frames[i].pc,
   regs |-> [r \in used[i] |-> registers[frames[i].base + r]],
   dst  |-> IF i = 1 THEN 0 ELSE frames[i].dst - frames[i - 1].base]

PrivateRegisters == INSTANCE Activations WITH
                      stack <- [i \in 1 .. Depth |-> ActivationOf(i)],
                      ending <- outcome

ImplementsActivations == PrivateRegisters!Spec

\* changelogs/v0.4.0.md: "validate register window bounds before advancing
\* frames, move pc update to correct point to prevent overflow": a function
\* that is entered has registers for the arguments it is entered with.
ArgumentsHaveRegisters ==
  [][ ~ \E a, b, c \in Register : CallCopiesPastEnd(a, b, c) ]_vars
=============================================================================
