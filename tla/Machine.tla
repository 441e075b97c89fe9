------------------------------ MODULE Machine ------------------------------
(***************************************************************************)
(* The run loop of src/compiler/vm.zig on compiled programs: one action    *)
(* for each instruction, on the registers all activations share, frames,   *)
(* globals, and the objects that values point to: string builders, which   *)
(* concatenation changes in place, vectors and structs.  VmCalls says of   *)
(* code of any kind what a call does to registers; this module runs        *)
(* programs, and implements it (ImplementsCalls).                          *)
(*                                                                         *)
(* An instruction is <<op, a, b, c>>, with a constant or a name in place of*)
(* its number in the chunk's table.  The native functions are std.print,   *)
(* whose effect is the output, and std.range.                              *)
(***************************************************************************)
EXTENDS Values

CONSTANTS Program,
          Translation(_), \* the compiled code of a program, or why there is none
          FunctionName,   \* names of functions
          RegisterCount,  \* REGISTER_COUNT
          FramesMax,      \* FRAMES_MAX
          CodeLength      \* bound: instructions in a chunk

\* What no function is called.
NotCallable == "not callable"

\* Why a source is not run.
Refusals == {"not_parsed", "not_compiled", "too_large"}

\* The names of functions are identifiers.
ASSUME MachineAssumption == /\ FunctionName \cap ({Script, NotCallable} \cup Natives) = {}
                            /\ RegisterCount \in Nat \ {0}
                            /\ FramesMax \in Nat \ {0}
                            /\ CodeLength \in Nat \ {0}
                            /\ \A p \in Program : Translation(p).how \in {"running"} \cup Refusals

VARIABLES program,   \* the program that is run
          code,      \* the compiled code of its functions and of the top level
          registers, \* VM.registers
          frames,    \* VM.frames up to frame_count
          pc,        \* the run loop's pc
          globals,   \* VM.globals
          heap,      \* string builders, vectors and structs by address
          output,    \* what std.print wrote
          outcome,   \* "source", "running", or how the run ended
          used       \* history: registers in use, by frame (see VmCalls)

vars == <<program, code, registers, frames, pc, globals, heap, output, outcome, used>>

Register == 0 .. RegisterCount - 1

-----------------------------------------------------------------------------
(* Compiled code *)

BinaryOps == {"add", "sub", "mul", "div", "mod", "and", "or", "eq", "neq", "lt", "gt", "lte", "gte"}

Opcodes == BinaryOps \cup
  {"load_const", "load_local", "store_local", "load_global", "store_global", "move", "not", "neg", "try_prop",
   "jump", "jump_if_false", "new_vec", "vec_set", "index_get", "index_len", "new_struct", "struct_set",
   "get_field", "call", "ret", "halt"}

\* The registers an instruction reads before anything else.
Sources(inst) ==
  CASE inst[1] \in BinaryOps \cup {"index_get"} -> {inst[3], inst[4]}
    [] inst[1] \in {"load_local", "move", "index_len", "get_field", "call"} -> {inst[3]}
    [] inst[1] \in {"store_local", "store_global", "not", "neg", "try_prop", "jump_if_false",
                    "vec_set", "struct_set", "ret"} -> {inst[2]}
    [] OTHER -> {}

\* The register it writes.
Target(inst) ==
  CASE inst[1] \in BinaryOps \cup {"load_const", "load_local", "move", "load_global", "not", "neg",
         "try_prop", "new_vec", "index_get", "index_len", "new_struct", "get_field", "call"} -> {inst[2]}
    [] inst[1] = "store_local" -> {inst[3]}
    [] OTHER -> {}

\* Where the run loop goes on after the instruction at p; a call returns behind it.
Successors(p, inst) == CASE inst[1] = "jump" -> {p + inst[3]}
                         [] inst[1] = "jump_if_false" -> {p + 1, p + inst[3]}
                         [] inst[1] \in {"ret", "halt"} -> {}
                         [] OTHER -> {p + 1}

\* The registers in use after it, where those of S were in use before.
InUseAfter(S, inst) ==
  (IF inst[1] = "call" THEN {r \in S : r <= inst[3] + inst[4]} ELSE S) \cup Target(inst)

IsHandle(v) == v[1] \in {"builder", "vec", "struct"}
ObjectKind(v) == IF v[1] = "builder" THEN "str" ELSE v[1]

\* A value: an integer fits, a function is one of the code, a handle is the address of an
\* object of its kind.
IsValue(v, chunk, h) ==
  /\ v[1] \in {"nil", "int", "bool", "str", "char", "fun", "native"} \/ IsHandle(v)
  /\ v[1] = "int" => v[2] \in Representable
  /\ v[1] = "bool" => v[2] \in BOOLEAN
  /\ v[1] = "str" => v[2] \in Seq(Nat)
  /\ v[1] = "fun" => v[2] \in DOMAIN chunk \ {Script}
  /\ v[1] = "native" => v[2] \in Natives
  /\ IsHandle(v) => v[2] \in 1 .. Len(h) /\ h[v[2]][1] = ObjectKind(v)

\* The instruction at p of f can be run and leads to instructions of f; a call finds its
\* callee and arguments in registers written before and has its result above them.
\* t.inUse[f][p + 1] is a set of registers that are in use at p however p is reached.
CanRun(t, f, p) ==
  LET inst == t.chunk[f][p + 1]
      inUse == t.inUse[f][p + 1]
  IN  /\ inst[1] \in Opcodes
      /\ inUse \subseteq Register /\ Sources(inst) \subseteq Register /\ Target(inst) \subseteq Register
      /\ \A q \in Successors(p, inst) : /\ q \in 0 .. Len(t.chunk[f]) - 1
                                        /\ t.inUse[f][q + 1] \subseteq InUseAfter(inUse, inst)
      /\ CASE inst[1] = "load_const" -> IsValue(inst[3], t.chunk, <<>>)
           [] inst[1] = "call" -> /\ inst[4] \in Nat /\ inst[2] > inst[3] + inst[4]
                                  /\ inst[3] .. inst[3] + inst[4] \subseteq inUse
           [] inst[1] = "new_vec" -> inst[3] \in Nat
           [] inst[1] = "vec_set" -> inst[3] \in Nat /\ inst[4] \in Register
           [] inst[1] = "struct_set" -> inst[2] + 1 \in Register
           [] inst[1] = "halt" -> f = Script
           [] OTHER -> TRUE

WellFormed(t) ==
  /\ Script \in DOMAIN t.chunk /\ DOMAIN t.chunk \subseteq FunctionName \cup {Script}
  /\ \A f \in DOMAIN t.chunk : /\ Len(t.chunk[f]) \in 1 .. CodeLength
                               /\ t.inUse[f][1] = {}
                               /\ \A p \in 0 .. Len(t.chunk[f]) - 1 : CanRun(t, f, p)
  /\ \A g \in DOMAIN t.globals : IsValue(t.globals[g], t.chunk, <<>>)

-----------------------------------------------------------------------------
Init == /\ program \in Program
        /\ code = <<>>
        /\ registers = [r \in Register |-> Nil]
        /\ frames = <<>>
        /\ pc = 0
        /\ globals = <<>>
        /\ heap = <<>>
        /\ output = <<>>
        /\ outcome = "source"
        /\ used = <<>>

\* runSource, up to the call of interpret: the top-level code is the first frame.
RunSource ==
  /\ outcome = "source"
  /\ LET t == Translation(program)
     IN  /\ outcome' = t.how
         /\ IF t.how # "running" THEN UNCHANGED <<code, globals, frames, used>>
            ELSE /\ code' = t.chunk
                 /\ globals' = t.globals
                 /\ frames' = <<[fun |-> Script, pc |-> 0, base |-> 0, dst |-> 0]>>
                 /\ used' = <<{}>>
  /\ UNCHANGED <<program, registers, pc, heap, output>>

-----------------------------------------------------------------------------
Top == Last(frames)
Inst == code[Top.fun][pc + 1]
At(r) == Top.base + r
Reg(r) == registers[At(r)]

Stop(how) == /\ outcome' = how
             /\ UNCHANGED <<program, code, registers, frames, pc, globals, heap, output, used>>

\* The next instruction is one of these, and the registers it reads exist.
Decoded(ops) == /\ outcome = "running" /\ Inst[1] \in ops
                /\ \A r \in Sources(Inst) : At(r) \in Register

\* base + operand is computed in eight bits and checked.
PastLastRegister == /\ outcome = "running"
                    /\ \E r \in Sources(Inst) : At(r) \notin Register
                    /\ Stop("no_register")

Uses(r) == [used EXCEPT ![Len(frames)] = @ \cup {r}]

\* The next instruction, with v in register r; or the error that v is.
Yield(r, v) == IF IsError(v) THEN Stop(v[2])
               ELSE IF At(r) \notin Register THEN Stop("no_register")
               ELSE /\ registers' = [registers EXCEPT ![At(r)] = v]
                    /\ used' = Uses(r)
                    /\ pc' = pc + 1
                    /\ UNCHANGED <<program, code, frames, globals, heap, output, outcome>>

\* The same for a handle of an object that is made, or changed, at an address.
YieldObject(r, kind, address, object) ==
  IF At(r) \notin Register THEN Stop("no_register")
  ELSE /\ registers' = [registers EXCEPT ![At(r)] = <<kind, address>>]
       /\ heap' = IF address > Len(heap) THEN Append(heap, object)
                  ELSE [heap EXCEPT ![address] = object]
       /\ used' = Uses(r)
       /\ pc' = pc + 1
       /\ UNCHANGED <<program, code, frames, globals, output, outcome>>
NewAddress == Len(heap) + 1

\* The string of a builder in its place, as natives and comparisons see it.
Finalized(v) == IF v[1] = "builder" THEN heap[v[2]] ELSE v
\* The contents of any object in place of its handle.
Opened(v) == IF IsHandle(v) THEN heap[v[2]] ELSE v

LoadConst == Decoded({"load_const"}) /\ Yield(Inst[2], Inst[3])
LoadLocal == Decoded({"load_local", "move"}) /\ Yield(Inst[2], Reg(Inst[3]))
StoreLocal == Decoded({"store_local"}) /\ Yield(Inst[3], Reg(Inst[2]))
LoadGlobal == /\ Decoded({"load_global"})
              /\ Yield(Inst[2], IF Inst[3] \in DOMAIN globals THEN globals[Inst[3]]
                                ELSE Error("r001"))
StoreGlobal == /\ Decoded({"store_global"})
               /\ globals' = [g \in DOMAIN globals \cup {Inst[3]} |->
                                IF g = Inst[3] THEN Reg(Inst[2]) ELSE globals[g]]
               /\ pc' = pc + 1
               /\ UNCHANGED <<program, code, registers, frames, heap, output, outcome, used>>

IsString(v) == v[1] \in {"str", "builder"}
IsConcat == Decoded({"add"}) /\ IsString(Reg(Inst[3])) /\ IsString(Reg(Inst[4]))

BinaryOp == /\ Decoded(BinaryOps) /\ ~ IsConcat
            /\ Yield(Inst[2], BinaryResult(Inst[1], Finalized(Reg(Inst[3])), Finalized(Reg(Inst[4]))))

UnaryOp == /\ Decoded({"not", "neg", "try_prop"})
           /\ Yield(Inst[2], UnaryResult(Inst[1], Reg(Inst[2])))

\* A builder on the left is appended to, one on the right is inserted into, and
\* only two plain strings make a new one.
ConcatStrings ==
  /\ IsConcat
  /\ LET a == Reg(Inst[3])
         b == Reg(Inst[4])
         address == IF a[1] = "builder" THEN a[2]
                    ELSE IF b[1] = "builder" THEN b[2] ELSE NewAddress
     IN  YieldObject(Inst[2], "builder", address, StrV(Finalized(a)[2] \o Finalized(b)[2]))

Goto(p) == /\ pc' = p
           /\ UNCHANGED <<program, code, registers, frames, globals, heap, output, outcome, used>>

Jump == Decoded({"jump"}) /\ Goto(pc + Inst[3])
JumpIfFalse == /\ Decoded({"jump_if_false"})
               /\ Goto(IF Truthy(Reg(Inst[2])) THEN pc + 1 ELSE pc + Inst[3])

NewVec == /\ Decoded({"new_vec"})
          /\ YieldObject(Inst[2], "vec", NewAddress, <<"vec", [i \in 1 .. Inst[3] |-> Nil]>>)
NewStruct == /\ Decoded({"new_struct"})
             /\ YieldObject(Inst[2], "struct", NewAddress, <<"struct", <<>>>>)

\* The contents of the object in register Inst[2] become c, with the value of register r;
\* the handle's kind is checked first.
Change(kind, r, c) ==
  IF Reg(Inst[2])[1] # kind THEN Stop("panic")
  ELSE IF At(r) \notin Register THEN Stop("no_register")
  ELSE /\ heap' = [heap EXCEPT ![Reg(Inst[2])[2]] = <<kind, c>>]
       /\ pc' = pc + 1
       /\ UNCHANGED <<program, code, registers, frames, globals, output, outcome, used>>
Contents == heap[Reg(Inst[2])[2]][2]

\* An element that is not there is not set.
VecSet == /\ Decoded({"vec_set"})
          /\ IF Reg(Inst[2])[1] = "vec" /\ Inst[3] \notin DOMAIN Contents THEN Goto(pc + 1)
             ELSE Change("vec", Inst[4], [Contents EXCEPT ![Inst[3]] = Reg(Inst[4])])
StructSet == /\ Decoded({"struct_set"})
             /\ Change("struct", Inst[2] + 1,
                       [f \in DOMAIN Contents \cup {Inst[3]} |->
                          IF f = Inst[3] THEN Reg(Inst[2] + 1) ELSE Contents[f]])

IndexGet == /\ Decoded({"index_get"})
            /\ Yield(Inst[2], ElementOf(Opened(Reg(Inst[3])), Reg(Inst[4])))
IndexLen == Decoded({"index_len"}) /\ Yield(Inst[2], LengthOf(Opened(Reg(Inst[3]))))
GetField == Decoded({"get_field"}) /\ Yield(Inst[2], FieldOf(Opened(Reg(Inst[3])), Inst[4]))

-----------------------------------------------------------------------------
(* call and ret *)

Callee == Reg(Inst[3])
Arguments == [i \in 1 .. Inst[4] |-> Reg(Inst[3] + i)]

\* Faulty variant: the new window begins at the last argument.
NewBaseOnLast == At(Inst[3]) + Inst[4]

NewBase == At(Inst[3]) + 1 + Inst[4]

\* Faulty variant: one frame too many.
HasRoomForOneMore == Len(frames) <= FramesMax /\ NewBase < RegisterCount

HasRoom == Len(frames) < FramesMax /\ NewBase < RegisterCount
CopiesFit == At(Inst[2]) \in Register /\ NewBase + Inst[4] <= RegisterCount

CallFunction ==
  /\ Decoded({"call"}) /\ Callee[1] = "fun" /\ HasRoom /\ CopiesFit
  /\ frames' = Append([frames EXCEPT ![Len(frames)].pc = pc + 1],
                      [fun |-> Callee[2], pc |-> 0, base |-> NewBase, dst |-> At(Inst[2])])
  /\ registers' = [r \in Register |-> IF r \in NewBase .. NewBase + Inst[4] - 1
                                        THEN registers[r - Inst[4]] ELSE registers[r]]
  /\ used' = Append([used EXCEPT ![Len(frames)] = {r \in @ : r <= Inst[3] + Inst[4]}],
                    0 .. Inst[4] - 1)
  /\ pc' = 0
  /\ UNCHANGED <<program, code, globals, heap, output, outcome>>

CallOverflows == Decoded({"call"}) /\ Callee[1] = "fun" /\ ~ HasRoom /\ Stop("r006")

\* The test of the window covers neither the copies of the arguments, but for the first,
\* nor the register of the result.
CallCopiesPastEnd == Decoded({"call"}) /\ Callee[1] = "fun" /\ HasRoom /\ ~ CopiesFit /\ Stop("no_register")

\* The arguments are finalized before the call; the slice that is passed ends before NewBase.
CallNative ==
  /\ Decoded({"call"}) /\ Callee[1] = "native"
  /\ LET args == [i \in 1 .. Inst[4] |-> Finalized(Arguments[i])]
         result == NativeResult(Callee[2], args)
     IN  IF NewBase \notin Register THEN Stop("no_register")
         ELSE IF IsError(result) THEN Stop(result[2])
         ELSE /\ output' = IF Callee[2] = "std.print" THEN output \o [i \in 1 .. Inst[4] |-> WriteValue(args[i])]
                           ELSE output
              /\ IF At(Inst[2]) \notin Register
                   THEN outcome' = "no_register" /\ UNCHANGED <<registers, heap, used, pc>>
                   ELSE /\ registers' = [r \in Register |->
                             IF r = At(Inst[2]) THEN IF IsHandle(result) THEN <<result[1], NewAddress>> ELSE result
                             ELSE IF r \in At(Inst[3]) + 1 .. NewBase - 1 THEN args[r - At(Inst[3])]
                             ELSE registers[r]]
                        /\ heap' = IF IsHandle(result) THEN Append(heap, result) ELSE heap
                        /\ used' = Uses(Inst[2])
                        /\ pc' = pc + 1
                        /\ UNCHANGED outcome
              /\ UNCHANGED <<program, code, frames, globals>>

CallUncallable == Decoded({"call"}) /\ Callee[1] \notin {"fun", "native"} /\ Stop("r007")

Return ==
  /\ Decoded({"ret"}) /\ Len(frames) > 1
  /\ frames' = Front(frames)
  /\ pc' = frames[Len(frames) - 1].pc
  /\ registers' = [registers EXCEPT ![Top.dst] = Reg(Inst[2])]
  /\ used' = [Front(used) EXCEPT ![Len(frames) - 1] =
                @ \cup {Top.dst - frames[Len(frames) - 1].base}]
  /\ UNCHANGED <<program, code, globals, heap, output, outcome>>

ReturnToRoot ==
  /\ Decoded({"ret"}) /\ Len(frames) = 1
  /\ registers' = [registers EXCEPT ![Top.dst] = Reg(Inst[2])]
  /\ used' = Uses(Top.dst)
  /\ outcome' = "returned"
  /\ UNCHANGED <<program, code, frames, pc, globals, heap, output>>

Halt == Decoded({"halt"}) /\ Stop("halted")

-----------------------------------------------------------------------------
Next == \/ RunSource \/ PastLastRegister
        \/ LoadConst \/ LoadLocal \/ StoreLocal \/ LoadGlobal \/ StoreGlobal
        \/ BinaryOp \/ UnaryOp \/ ConcatStrings \/ Jump \/ JumpIfFalse
        \/ NewVec \/ VecSet \/ IndexGet \/ IndexLen \/ NewStruct \/ StructSet \/ GetField
        \/ CallFunction \/ CallOverflows \/ CallCopiesPastEnd \/ CallNative \/ CallUncallable
        \/ Return \/ ReturnToRoot \/ Halt

Spec == Init /\ [][Next]_vars

\* The interpreter does not stop between instructions.
FairSpec == Spec /\ WF_vars(Next)

-----------------------------------------------------------------------------
(* Properties *)

\* What arithmetic, indexing and the others can report.
ErrorCodes == {"r001", "r002", "r003", "r004", "r005", "r008", "r009", "r010", "r012", "r013", "r017", "panic"}

IsSequence(s) == s \in Seq(ToSet(s))

\* A vector's elements and a struct's fields are values.
IsObject(o, chunk, h) ==
  CASE o[1] = "str"    -> o[2] \in Seq(Nat)
    [] o[1] = "vec"    -> IsSequence(o[2]) /\ \A i \in 1 .. Len(o[2]) : IsValue(o[2][i], chunk, h)
    [] o[1] = "struct" -> \A f \in DOMAIN o[2] : IsValue(o[2][f], chunk, h)
    [] OTHER           -> FALSE

IsHeap(h, chunk) == IsSequence(h) /\ \A i \in 1 .. Len(h) : IsObject(h[i], chunk, h)

\* Every value in a register, a global or an object that is a handle points to an
\* object of its kind, and every function to its code; no integer is outside its range.
DataOK ==
  /\ DOMAIN registers = Register /\ \A r \in Register : IsValue(registers[r], code, heap)
  /\ \A g \in DOMAIN globals : IsValue(globals[g], code, heap)
  /\ IsHeap(heap, code)

Frame == [fun : DOMAIN code, pc : 0 .. CodeLength, base : Register, dst : Register]

\* There are at most FRAMES_MAX frames, each in the register file above its caller's;
\* pc is in the code of the running function, so that the loop of vm.zig never falls off
\* its end nor reads what is no instruction, and so is every pc that was saved.
ControlOK ==
  /\ frames \in Seq(Frame) /\ Len(frames) <= FramesMax
  /\ used \in Seq(SUBSET Register) /\ Len(used) = Len(frames)
  /\ \A i \in 2 .. Len(frames) : /\ frames[i].base > frames[i - 1].base
                                 /\ frames[i - 1].pc < Len(code[frames[i - 1].fun])
  /\ pc \in 0 .. CodeLength
  /\ outcome \in {"source", "running", "halted", "returned", "r006", "r007", "no_register"}
                 \cup Refusals \cup ErrorCodes
  /\ outcome = "running" => /\ frames # <<>>
                            /\ pc < Len(code[Top.fun])
                            /\ Inst[1] \in Opcodes

\* The machine stays inside what it was given.
TypeOK == program \in Program /\ DataOK /\ ControlOK

\* What is run was compiled to well-formed code: every jump lands in its function, a
\* call finds its callee and its arguments in registers that were written on every way to
\* it, next to each other, and leaves its result above them.
RunsWellFormedCode ==
  [][ (outcome = "source" /\ outcome' = "running") => WellFormed(Translation(program)) ]_vars

\* An activation finds its registers as it left them: no instruction of a function it
\* called, and of none those call, writes a register it has written and not given up.
CallerKeepsRegisters ==
  [][ \A i \in 1 .. Len(frames) - 1 : \A r \in used[i] :
        registers'[frames[i].base + r] = registers[frames[i].base + r] ]_vars

-----------------------------------------------------------------------------
(* The machine implements VmCalls: of the values only the callables matter. *)

Callables == FunctionName \cup Natives \cup {NotCallable}
SameCallable == [k \in Callables |-> k]
Callable(v) == IF v[1] \in {"fun", "native"} THEN v[2] ELSE NotCallable
BeforeCode == <<[fun |-> Script, pc |-> 0, base |-> 0, dst |-> 0]>>
Ending == CASE outcome \in {"source", "running"} -> "running"
            [] outcome \in {"halted", "returned", "r006", "r007"} -> outcome
            [] outcome = "no_register" -> "panic"
            [] OTHER -> "error"

Calls == INSTANCE VmCalls WITH
  Fun <- FunctionName, Native <- Natives, Script <- Script, Value <- Callables, Nil <- NotCallable,
  Plain <- SameCallable,
  registers <- [r \in Register |-> Callable(registers[r])],
  frames <- IF frames = <<>> THEN BeforeCode ELSE frames,
  code <- IF frames = <<>> THEN Script ELSE Top.fun,
  used <- IF frames = <<>> THEN <<{}>> ELSE used,
  outcome <- Ending

\* Every run of a program is one of the runs VmCalls studies.
ImplementsCalls == Calls!Spec
=============================================================================
