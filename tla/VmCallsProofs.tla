--------------------------- MODULE VmCallsProofs ---------------------------
(***************************************************************************)
(* Proofs about VmCalls for any program values, register count and depth:  *)
(* the frames' windows never overlap where it matters, and the one array   *)
(* of registers cannot be told from registers private to each activation.  *)
(***************************************************************************)
EXTENDS VmCalls, TLAPS

IInv == TypeOK /\ WindowInv

LEMMA IInvInit == Init => IInv
<1>. SUFFICES ASSUME Init PROVE IInv
  OBVIOUS
<1>1. PICK c \in Code, n \in 0 .. RegisterCount - 1 :
        /\ frames = <<[fun |-> c, pc |-> 0, base |-> 0, dst |-> 0]>>
        /\ code = c
        /\ used = <<0 .. n - 1>>
        /\ registers \in [Register -> Value]
  BY DEF Init
<1>2. TypeOK
  BY <1>1, VmAssumption DEF Init, TypeOK, Frame, Register, Position
<1>3. WindowInv
  BY <1>1, VmAssumption DEF WindowInv, WindowsApart, FrameInv, Depth, Register
<1>. QED  BY <1>2, <1>3 DEF IInv

-----------------------------------------------------------------------------
(* Reading the type invariant *)

LEMMA TopFacts ==
  ASSUME TypeOK
  PROVE  /\ Depth \in 1 .. FramesMax /\ Depth = Len(used) /\ Depth = Len(frames)
         /\ \A i \in 1 .. Depth : /\ frames[i] \in Frame /\ frames[i].base \in Nat
                                  /\ used[i] \in SUBSET Register /\ used[i] \in SUBSET Nat
         /\ Base = frames[Depth].base /\ Base \in Register /\ Base \in Nat
<1>1. Depth \in 1 .. FramesMax /\ Depth = Len(used) /\ Depth = Len(frames)
  BY DEF TypeOK, Depth
<1>2. \A i \in 1 .. Depth : frames[i] \in Frame /\ used[i] \in SUBSET Register
  BY <1>1 DEF TypeOK
<1>3. \A i \in 1 .. Depth : frames[i].base \in Register
  BY <1>2 DEF Frame
<1>4. Register \subseteq Nat
  BY VmAssumption DEF Register
<1>5. Depth \in 1 .. Depth
  BY <1>1, VmAssumption
<1>. QED  BY <1>1, <1>2, <1>3, <1>4, <1>5 DEF Base

\* The running frame writes a register of its window: nobody else notices.
LEMMA UseKeepsWindows ==
  ASSUME TypeOK, WindowInv, NEW r \in Register, Base + r \in Register,
         frames' = frames, code' = code, used' = Use(r)
  PROVE  /\ used' \in Seq(SUBSET Register) /\ Len(used') = Len(used)
         /\ \A i \in 1 .. Depth - 1 : used'[i] = used[i]
         /\ used'[Depth] = used[Depth] \cup {r}
         /\ WindowInv'
<1>0. /\ Depth \in 1 .. FramesMax /\ Depth \in Nat /\ Depth \in 1 .. Depth
      /\ Len(used) = Depth /\ used \in Seq(SUBSET Register)
      /\ used[Depth] \in SUBSET Register /\ Base = frames[Depth].base
  BY TopFacts, VmAssumption DEF TypeOK
<1>. DEFINE more == used[Depth] \cup {r}
<1>1. used' = [used EXCEPT ![Depth] = more] /\ more \in SUBSET Register
  BY <1>0 DEF Use
<1>. HIDE DEF more
<1>2. used' \in Seq(SUBSET Register) /\ Len(used') = Len(used)
  BY <1>0, <1>1
<1>3. /\ \A i \in 1 .. Depth - 1 : used'[i] = used[i]
      /\ used'[Depth] = more
  BY <1>0, <1>1
<1>. USE DEF more
<1>4. Depth' = Depth
  BY DEF Depth
<1>5. WindowsApart'
  <2>. SUFFICES ASSUME NEW i \in 1 .. Depth, NEW j \in 1 .. Depth, i < j, NEW q \in used'[i]
                PROVE  frames[i].base + q < frames[j].base
    BY <1>4 DEF WindowsApart
  <2>1. q \in used[i]
    BY <1>0, <1>3
  <2>. QED  BY <2>1 DEF WindowInv, WindowsApart
<1>6. FrameInv'
  <2>1. \A i \in 1 .. Depth : \A q \in used'[i] : q \in used[i] \/ (i = Depth /\ q = r)
    BY <1>0, <1>3
  <2>. QED  BY <1>0, <1>4, <2>1 DEF WindowInv, FrameInv
<1>. QED  BY <1>2, <1>3, <1>5, <1>6 DEF WindowInv

-----------------------------------------------------------------------------
(* What a call and a return do to the sequences of frames *)

\* After a call the frames below are as before but for the caller's pc, and the
\* caller keeps its registers up to the last argument.
CallEffect(a, b, c) ==
  /\ Depth' = Depth + 1
  /\ Len(used') = Depth + 1
  /\ \A i \in 1 .. Depth - 1 : frames'[i] = frames[i] /\ used'[i] = used[i]
  /\ frames'[Depth] = [fun |-> frames[Depth].fun, pc |-> pc + 1,
                       base |-> Base, dst |-> frames[Depth].dst]
  /\ used'[Depth] = {r \in used[Depth] : r <= b + c}
  /\ frames'[Depth + 1] = [fun |-> registers[Base + b], pc |-> 0,
                           base |-> NewBase(b, c), dst |-> Base + a]
  /\ used'[Depth + 1] = 0 .. c - 1
  /\ code' = registers[Base + b] /\ pc' = 0
  /\ registers' = CopyOfArguments(b, c)
  /\ frames' \in Seq(Frame)
  /\ used' \in Seq(SUBSET Register)
  /\ Depth + 1 <= FramesMax
  /\ NewBase(b, c) \in Register /\ NewBase(b, c) + c <= RegisterCount
  /\ Base + a \in Register
  /\ a > b + c
  /\ b .. b + c \subseteq used[Depth]
  /\ Base \in Nat

LEMMA CallShape ==
  ASSUME TypeOK, NEW a \in Register, NEW b \in Register, NEW c \in Register,
         CallFunction(a, b, c)
  PROVE  CallEffect(a, b, c)
<1>. DEFINE new == [fun |-> registers[Base + b], pc |-> 0,
                    base |-> NewBase(b, c), dst |-> Base + a]
            suspended == [frames EXCEPT ![Depth].pc = pc + 1]
            below == {r \in used[Depth] : r <= b + c}
            kept == [used EXCEPT ![Depth] = below]
            saved == [fun |-> frames[Depth].fun, pc |-> pc + 1,
                      base |-> Base, dst |-> frames[Depth].dst]
<1>1. Depth \in 1 .. FramesMax /\ Len(used) = Depth /\ frames[Depth] \in Frame
  BY DEF TypeOK, Depth
<1>2. Base \in Register /\ Base \in Nat
  BY <1>1, VmAssumption DEF Base, Frame, Register
<1>3. frames' = Append(suspended, new) /\ used' = Append(kept, 0 .. c - 1)
  BY DEF CallFunction
<1>4. /\ HasRoom(b, c) /\ NewBase(b, c) + c <= RegisterCount
      /\ Base + a \in Register /\ a > b + c /\ b .. b + c \subseteq used[Depth]
      /\ pc + 1 < CodeLength /\ registers[Base + b] \in Fun
  BY DEF CallFunction, CallCompiled
<1>5. NewBase(b, c) \in Register /\ Depth + 1 <= FramesMax
  BY <1>1, <1>2, <1>4, VmAssumption DEF HasRoom, NewBase, Register
<1>6. new \in Frame
  BY <1>4, <1>5, VmAssumption DEF Frame, Code, Position
<1>7. pc + 1 \in Position
  BY <1>4, VmAssumption DEF TypeOK, Position
<1>8. /\ suspended \in Seq(Frame) /\ Len(suspended) = Depth
      /\ \A i \in 1 .. Depth - 1 : suspended[i] = frames[i]
      /\ suspended[Depth] = saved
  BY <1>1, <1>7 DEF TypeOK, Depth, Frame, Base
<1>9. /\ kept \in Seq(SUBSET Register) /\ Len(kept) = Depth
      /\ \A i \in 1 .. Depth - 1 : kept[i] = used[i]
      /\ kept[Depth] = below
  BY <1>1 DEF TypeOK, Depth
<1>10. 0 .. c - 1 \in SUBSET Register
  BY VmAssumption DEF Register
<1>. HIDE DEF new, suspended, kept, below, saved
<1>11. /\ frames' \in Seq(Frame) /\ Len(frames') = Depth + 1
       /\ \A i \in 1 .. Depth : frames'[i] = suspended[i]
       /\ frames'[Depth + 1] = new
  BY <1>1, <1>3, <1>6, <1>8
<1>12. /\ used' \in Seq(SUBSET Register) /\ Len(used') = Depth + 1
       /\ \A i \in 1 .. Depth : used'[i] = kept[i]
       /\ used'[Depth + 1] = 0 .. c - 1
  BY <1>1, <1>3, <1>9, <1>10
<1>13. Depth' = Depth + 1
  BY <1>11 DEF Depth
<1>14. code' = registers[Base + b] /\ pc' = 0 /\ registers' = CopyOfArguments(b, c)
  BY DEF CallFunction
<1>15. \A i \in 1 .. Depth - 1 : frames'[i] = frames[i] /\ used'[i] = used[i]
  BY <1>1, <1>8, <1>9, <1>11, <1>12
<1>16. frames'[Depth] = saved /\ used'[Depth] = below
  <2>1. Depth \in 1 .. Depth
    BY <1>1, VmAssumption
  <2>2. frames'[Depth] = suspended[Depth]
    BY <2>1, <1>11
  <2>3. used'[Depth] = kept[Depth]
    BY <2>1, <1>12
  <2>. QED  BY <2>2, <2>3, <1>8, <1>9
<1>17. frames'[Depth + 1] = [fun |-> registers[Base + b], pc |-> 0,
                            base |-> NewBase(b, c), dst |-> Base + a]
  BY <1>11 DEF new
<1>. QED
  BY <1>2, <1>4, <1>5, <1>11, <1>12, <1>13, <1>14, <1>15, <1>16, <1>17 DEF CallEffect, saved, below

\* After a return the frames below the one that is gone are as before, and the
\* caller uses the register of the result as well.
ReturnEffect(d) ==
  /\ Depth > 1 /\ Depth' = Depth - 1
  /\ Len(used') = Depth - 1
  /\ \A i \in 1 .. Depth - 1 : frames'[i] = frames[i]
  /\ \A i \in 1 .. Depth - 2 : used'[i] = used[i]
  /\ used'[Depth - 1] = used[Depth - 1] \cup {frames[Depth].dst - frames[Depth - 1].base}
  /\ frames' \in Seq(Frame)
  /\ used' \in Seq(SUBSET Register)
  /\ code' = frames[Depth - 1].fun /\ pc' = frames[Depth - 1].pc
  /\ registers' = [registers EXCEPT ![frames[Depth].dst] = registers[Base + d]]
  /\ Base + d \in Register
  /\ frames[Depth] \in Frame /\ frames[Depth - 1] \in Frame

LEMMA ReturnShape ==
  ASSUME TypeOK, FrameInv, NEW d \in Register, Return(d)
  PROVE  ReturnEffect(d)
<1>1. Depth > 1 /\ Depth \in 1 .. FramesMax /\ Len(used) = Depth
      /\ frames[Depth] \in Frame /\ frames[Depth - 1] \in Frame
  BY DEF TypeOK, Depth, Return
<1>2. Pop(frames) \in Seq(Frame) /\ Len(Pop(frames)) = Depth - 1
      /\ \A i \in 1 .. Depth - 1 : Pop(frames)[i] = frames[i]
  BY <1>1 DEF TypeOK, Depth, Pop
<1>3. Pop(used) \in Seq(SUBSET Register) /\ Len(Pop(used)) = Depth - 1
      /\ \A i \in 1 .. Depth - 1 : Pop(used)[i] = used[i]
  BY <1>1 DEF TypeOK, Depth, Pop
<1>. DEFINE back == frames[Depth].dst - frames[Depth - 1].base
<1>4. back \in Register
  BY <1>1, VmAssumption DEF FrameInv, Frame, Register
<1>5. /\ frames' = Pop(frames)
      /\ used' = [Pop(used) EXCEPT ![Depth - 1] = @ \cup {back}]
      /\ code' = frames[Depth - 1].fun /\ pc' = frames[Depth - 1].pc
      /\ registers' = [registers EXCEPT ![frames[Depth].dst] = registers[Base + d]]
      /\ Base + d \in Register
  BY DEF Return
<1>. HIDE DEF back
<1>6. /\ used' \in Seq(SUBSET Register) /\ Len(used') = Depth - 1
      /\ \A i \in 1 .. Depth - 2 : used'[i] = used[i]
      /\ used'[Depth - 1] = used[Depth - 1] \cup {back}
  BY <1>1, <1>3, <1>4, <1>5
<1>7. Depth' = Depth - 1
  BY <1>2, <1>5 DEF Depth
<1>. QED  BY <1>1, <1>2, <1>5, <1>6, <1>7 DEF back, ReturnEffect

-----------------------------------------------------------------------------
(* The inductive invariant *)

LEMMA ComputeKeepsIInv ==
  ASSUME IInv, NEW r \in Register, NEW v \in Value, Compute(r, v)
  PROVE  IInv'
<1>1. /\ frames' = frames /\ code' = code /\ outcome' = outcome
      /\ Base + r \in Register
      /\ registers' = [registers EXCEPT ![Base + r] = v]
      /\ used' = Use(r) /\ pc' \in Position
  BY VmAssumption DEF Compute, IInv, TypeOK, Position
<1>. QED  BY <1>1, UseKeepsWindows DEF IInv, TypeOK

LEMMA CallNativeKeepsIInv ==
  ASSUME IInv, NEW a \in Register, NEW b \in Register, NEW c \in Register,
         NEW v \in Value, CallNative(a, b, c, v)
  PROVE  IInv'
<1>1. /\ frames' = frames /\ code' = code /\ outcome' = outcome
      /\ Base + a \in Register
      /\ used' = Use(a) /\ pc' \in Position
  BY VmAssumption DEF CallNative, IInv, TypeOK, Position
<1>2. registers' \in [Register -> Value]
  BY VmAssumption DEF CallNative, IInv, TypeOK
<1>. QED  BY <1>1, <1>2, UseKeepsWindows DEF IInv, TypeOK

\* The new window starts above everything the caller keeps.
LEMMA CallKeepsIInv ==
  ASSUME IInv, NEW a \in Register, NEW b \in Register, NEW c \in Register,
         CallFunction(a, b, c)
  PROVE  IInv'
<1>0. CallEffect(a, b, c)
  BY CallShape DEF IInv
<1>1. Depth \in 1 .. FramesMax /\ Base = frames[Depth].base
  BY DEF IInv, TypeOK, Depth, Base
<1>. DEFINE D == Depth
<1>2. \A i \in 1 .. D + 1 : frames'[i].base = IF i = D + 1 THEN NewBase(b, c) ELSE frames[i].base
  BY <1>1, <1>0 DEF CallEffect, IInv
<1>3. \A i \in 1 .. D + 1 : frames'[i].dst = IF i = D + 1 THEN Base + a ELSE frames[i].dst
  BY <1>1, <1>0 DEF CallEffect, IInv
<1>4. \A i \in 1 .. D : /\ used'[i] \subseteq used[i]
                        /\ i = D => \A r \in used'[i] : r <= b + c
  BY <1>1, <1>0 DEF CallEffect, IInv
<1>5. \A i \in 1 .. D : used[i] \subseteq Nat
  BY <1>1, VmAssumption DEF IInv, TypeOK, Depth, Register
<1>6. used'[D + 1] = 0 .. c - 1
  BY <1>0 DEF CallEffect, IInv
<1>7. Depth' = D + 1
  BY <1>0 DEF CallEffect, IInv
<1>8. /\ Base \in Nat /\ NewBase(b, c) = Base + b + 1 + c
      /\ NewBase(b, c) \in Register /\ NewBase(b, c) + c <= RegisterCount
      /\ a > b + c /\ b \in Nat /\ c \in Nat /\ a \in Nat
  BY <1>0, VmAssumption DEF CallEffect, IInv, NewBase, Register
<1>9. \A i \in 1 .. D : frames[i].base \in Nat
  BY TopFacts DEF IInv
<1>. HIDE DEF D
<1>10. WindowsApart'
  <2>. SUFFICES ASSUME NEW i \in 1 .. D + 1, NEW j \in 1 .. D + 1, i < j,
                       NEW r \in used'[i]
                PROVE  frames'[i].base + r < frames'[j].base
    BY <1>7 DEF WindowsApart
  <2>1. i \in 1 .. D /\ r \in used[i] /\ r \in Nat
    BY <1>1, <1>4, <1>5 DEF D
  <2>2. CASE j \in 1 .. D
    BY <2>1, <2>2, <1>2, <1>1 DEF IInv, WindowInv, WindowsApart, D
  <2>3. CASE j = D + 1 /\ i = D
    BY <2>1, <2>3, <1>1, <1>2, <1>4, <1>8 DEF D
  <2>4. CASE j = D + 1 /\ i < D
    <3>1. frames[i].base + r < Base
      BY <2>1, <2>4, <1>1 DEF IInv, WindowInv, WindowsApart, D
    <3>. QED  BY <3>1, <2>1, <2>4, <1>1, <1>2, <1>8, <1>9 DEF D
  <2>. QED  BY <2>1, <2>2, <2>3, <2>4, <1>1 DEF D
<1>11. FrameInv'
  <2>1. \A i \in 1 .. D + 1 : \A r \in used'[i] : frames'[i].base + r \in Register
    <3>1. \A i \in 1 .. D : \A r \in used'[i] : frames'[i].base + r \in Register
      BY <1>1, <1>2, <1>4 DEF IInv, WindowInv, FrameInv, D
    <3>2. \A r \in used'[D + 1] : frames'[D + 1].base + r \in Register
      <4>1. frames'[D + 1].base = NewBase(b, c)
        BY <1>1, <1>2 DEF D
      <4>. QED  BY <4>1, <1>6, <1>8, VmAssumption DEF Register
    <3>. QED  BY <3>1, <3>2, <1>1 DEF D
  <2>2. \A i \in 2 .. D + 1 : /\ frames'[i].dst >= frames'[i].base
                              /\ frames'[i].base > frames'[i - 1].base
    <3>1. ASSUME NEW i \in 2 .. D
          PROVE  /\ frames'[i].dst >= frames'[i].base
                 /\ frames'[i].base > frames'[i - 1].base
      BY <3>1, <1>1, <1>2, <1>3 DEF IInv, WindowInv, FrameInv, D
    <3>2. /\ frames'[D + 1].dst >= frames'[D + 1].base
          /\ frames'[D + 1].base > frames'[D].base
      BY <1>1, <1>2, <1>3, <1>8 DEF D
    <3>. QED  BY <3>1, <3>2, <1>1 DEF D
  <2>3. code' = frames'[D + 1].fun
    BY <1>0 DEF CallEffect, IInv, D
  <2>4. frames'[1].base = 0 /\ frames'[1].dst = 0
    BY <1>1, <1>2, <1>3 DEF IInv, WindowInv, FrameInv, D
  <2>. QED  BY <2>1, <2>2, <2>3, <2>4, <1>7 DEF FrameInv
<1>12. registers' \in [Register -> Value]
  <2>1. ASSUME NEW r \in Register, r \in NewBase(b, c) .. NewBase(b, c) + c - 1
        PROVE  r - c \in Register
    BY <2>1, <1>8, VmAssumption DEF Register
  <2>. QED  BY <2>1, <1>0 DEF CallEffect, IInv, TypeOK, CopyOfArguments
<1>13. TypeOK'
  <2>1. code' \in Code /\ pc' \in Position /\ outcome' = outcome
    BY VmAssumption DEF CallFunction, Code, Position
  <2>. QED  BY <2>1, <1>1, <1>12, <1>0 DEF CallEffect, IInv, TypeOK, Depth
<1>. QED  BY <1>10, <1>11, <1>13 DEF IInv, WindowInv

LEMMA ReturnKeepsIInv ==
  ASSUME IInv, NEW d \in Register, Return(d)
  PROVE  IInv'
<1>. DEFINE D == Depth
<1>0. ReturnEffect(d)
  BY ReturnShape DEF IInv, WindowInv
<1>1. D \in 2 .. FramesMax /\ Len(used) = D /\ Depth' = D - 1
  BY <1>0 DEF ReturnEffect, IInv, WindowInv, TypeOK, Depth
<1>. HIDE DEF D
<1>2. \A i \in 1 .. D - 1 : frames'[i] = frames[i]
  BY <1>0 DEF ReturnEffect, IInv, WindowInv, D
<1>3. \A i \in 1 .. D - 1 : \A r \in used'[i] :
        r \in used[i] \/ (i = D - 1 /\ frames[i].base + r = frames[D].dst)
  <2>1. \A i \in 1 .. D - 2 : used'[i] = used[i]
    BY <1>0 DEF ReturnEffect, IInv, WindowInv, D
  <2>2. used'[D - 1] = used[D - 1] \cup {frames[D].dst - frames[D - 1].base}
    BY <1>0 DEF ReturnEffect, IInv, WindowInv, D
  <2>3. frames[D - 1].base \in Nat /\ frames[D].dst \in Nat
    BY <1>0, VmAssumption DEF ReturnEffect, IInv, WindowInv, Frame, Register, D
  <2>. QED  BY <1>1, <2>1, <2>2, <2>3
<1>4. WindowsApart'
  <2>. SUFFICES ASSUME NEW i \in 1 .. D - 1, NEW j \in 1 .. D - 1, i < j,
                       NEW r \in used'[i]
                PROVE  frames'[i].base + r < frames'[j].base
    BY <1>1 DEF WindowsApart
  <2>1. r \in used[i]
    BY <1>1, <1>3
  <2>. QED  BY <2>1, <1>1, <1>2 DEF IInv, WindowInv, WindowsApart, D
<1>5. FrameInv'
  <2>1. frames[D].dst \in Register
    BY <1>0 DEF ReturnEffect, IInv, WindowInv, Frame, D
  <2>2. \A i \in 1 .. D - 1 : \A r \in used'[i] : frames'[i].base + r \in Register
    BY <2>1, <1>1, <1>2, <1>3 DEF IInv, WindowInv, FrameInv, D
  <2>3. \A i \in 2 .. D - 1 : /\ frames'[i].dst >= frames'[i].base
                              /\ frames'[i].base > frames'[i - 1].base
    BY <1>1, <1>2 DEF IInv, WindowInv, FrameInv, D
  <2>4. code' = frames'[D - 1].fun
    BY <1>1, <1>2, <1>0 DEF ReturnEffect, IInv, WindowInv, D
  <2>5. frames'[1].base = 0 /\ frames'[1].dst = 0
    BY <1>1, <1>2 DEF IInv, WindowInv, FrameInv, D
  <2>. QED  BY <2>2, <2>3, <2>4, <2>5, <1>1 DEF FrameInv
<1>6. TypeOK'
  <2>1. registers' \in [Register -> Value]
    BY <1>0 DEF ReturnEffect, IInv, WindowInv, TypeOK, Frame
  <2>2. code' \in Code /\ pc' \in Position
    BY <1>0 DEF ReturnEffect, IInv, WindowInv, Frame
  <2>3. outcome' = outcome
    BY DEF Return
  <2>4. /\ frames' \in Seq(Frame) /\ used' \in Seq(SUBSET Register)
        /\ Len(frames') = D - 1 /\ Len(used') = D - 1
    BY <1>0, <1>1 DEF ReturnEffect, Depth, D
  <2>. QED  BY <2>1, <2>2, <2>3, <2>4, <1>1, VmAssumption DEF IInv, TypeOK
<1>. QED  BY <1>4, <1>5, <1>6 DEF IInv, WindowInv

LEMMA ReturnToRootKeepsIInv ==
  ASSUME IInv, NEW d \in Register, ReturnToRoot(d)
  PROVE  IInv'
<1>1. /\ frames' = frames /\ code' = code /\ pc' = pc
      /\ Base + d \in Register /\ outcome' = "returned"
      /\ registers' = [registers EXCEPT ![0] = registers[Base + d]]
      /\ used' = Use(0) /\ Base = 0
  BY DEF ReturnToRoot, IInv, WindowInv, FrameInv, Base
<1>2. 0 \in Register
  BY VmAssumption DEF Register
<1>3. registers' \in [Register -> Value]
  BY <1>1 DEF IInv, TypeOK
<1>. QED  BY <1>1, <1>2, <1>3, UseKeepsWindows DEF IInv, TypeOK

LEMMA StopKeepsIInv ==
  ASSUME IInv, NEW how \in {"halted", "error", "r006", "r007", "panic"}, Stop(how)
  PROVE  IInv'
BY DEF Stop, IInv, TypeOK, WindowInv, WindowsApart, FrameInv, Depth

LEMMA IInvStep == IInv /\ [Next]_vars => IInv'
<1>. SUFFICES ASSUME IInv, [Next]_vars PROVE IInv'
  OBVIOUS
<1>0. used[Depth] \subseteq Register
  BY TopFacts, VmAssumption DEF IInv
<1>1. ASSUME NEW r \in Register, NEW v \in Value, Compute(r, v) PROVE IInv'
  BY <1>1, ComputeKeepsIInv
<1>2. ASSUME NEW r \in Register, PastLastRegister(r) PROVE IInv'
  BY <1>2, StopKeepsIInv DEF PastLastRegister
<1>3. ASSUME NEW p \in Position, Jump(p) PROVE IInv'
  BY <1>3 DEF Jump, IInv, TypeOK, WindowInv, WindowsApart, FrameInv, Depth
<1>4. CASE Fails \/ Halt
  BY <1>4, StopKeepsIInv DEF Fails, Halt
<1>5. ASSUME NEW a \in Register, NEW b \in Register, NEW c \in Register, Call(a, b, c)
      PROVE IInv'
  BY <1>5, CallKeepsIInv, CallNativeKeepsIInv, StopKeepsIInv
  DEF Call, CallOverflows, CallCopiesPastEnd, CallUncallable
<1>6. ASSUME NEW d \in Register, ReturnToRoot(d) \/ Return(d) PROVE IInv'
  BY <1>6, ReturnToRootKeepsIInv, ReturnKeepsIInv
<1>7. CASE UNCHANGED vars
  BY <1>7 DEF vars, IInv, TypeOK, WindowInv, WindowsApart, FrameInv, Depth
<1>. QED  BY <1>0, <1>1, <1>2, <1>3, <1>4, <1>5, <1>6, <1>7 DEF Next

LEMMA IInvAlways == Spec => []IInv
BY IInvInit, IInvStep, PTL DEF Spec

\* The variables keep their types; in particular no more than FramesMax frames
\* are ever in use.
THEOREM TypeCorrect == Spec => []TypeOK
BY IInvAlways, PTL DEF IInv

\* No register a suspended frame still uses lies in the window of a later one.
THEOREM WindowsNeverOverlap == Spec => []WindowInv
BY IInvAlways, PTL DEF IInv

-----------------------------------------------------------------------------
(* The refinement *)

Acts == [i \in 1 .. Depth |-> ActivationOf(i)]

LEMMA ActsFacts ==
  ASSUME IInv
  PROVE  /\ Len(Acts) = Depth /\ Depth \in Nat /\ Depth >= 1
         /\ PrivateRegisters!Top = Acts[Depth]
         /\ \A i \in 1 .. Depth : Acts[i] = ActivationOf(i)
         /\ Acts[Depth] = [fun |-> code, pc |-> pc,
                           regs |-> [r \in used[Depth] |-> registers[Base + r]],
                           dst |-> IF Depth = 1 THEN 0
                                   ELSE frames[Depth].dst - frames[Depth - 1].base]
<1>1. Depth \in Nat /\ Depth >= 1 /\ Depth \in 1 .. Depth
  BY TopFacts, VmAssumption DEF IInv
<1>2. Len(Acts) = Depth
  BY <1>1 DEF Acts
<1>3. \A i \in 1 .. Depth : Acts[i] = ActivationOf(i)
  BY DEF Acts
<1>4. Acts[Depth] = [fun |-> code, pc |-> pc,
                     regs |-> [r \in used[Depth] |-> registers[Base + r]],
                     dst |-> IF Depth = 1 THEN 0
                             ELSE frames[Depth].dst - frames[Depth - 1].base]
  BY <1>1, <1>3 DEF ActivationOf, Base
<1>5. PrivateRegisters!Top = Acts[Depth]
  BY <1>2 DEF PrivateRegisters!Top, Acts
<1>. QED  BY <1>1, <1>2, <1>3, <1>4, <1>5

\* A suspended activation stays as it is when its frame does and no register
\* below the running frame's window is written.
LEMMA SuspendedStays ==
  ASSUME IInv, NEW i \in 1 .. Depth - 1, i # Depth',
         i = 1 \/ frames'[i - 1] = frames[i - 1],
         frames'[i] = frames[i], used'[i] = used[i],
         \A q \in Register : q < Base => registers'[q] = registers[q]
  PROVE  ActivationOf(i)' = ActivationOf(i)
<1>1. i \in 1 .. Depth /\ i < Depth /\ Depth \in 1 .. Depth /\ i # Depth
  BY TopFacts, VmAssumption DEF IInv
<1>2. \A r \in used[i] : registers'[frames[i].base + r] = registers[frames[i].base + r]
  <2>. SUFFICES ASSUME NEW r \in used[i]
                PROVE  registers'[frames[i].base + r] = registers[frames[i].base + r]
    OBVIOUS
  <2>1. frames[i].base + r \in Register
    BY <1>1 DEF IInv, WindowInv, FrameInv
  <2>2. frames[i].base + r < Base
    BY <1>1 DEF IInv, WindowInv, WindowsApart, Base
  <2>. QED  BY <2>1, <2>2
<1>3. [r \in used'[i] |-> registers'[frames'[i].base + r]]
        = [r \in used[i] |-> registers[frames[i].base + r]]
  BY <1>2
<1>. QED  BY <1>1, <1>3 DEF ActivationOf

\* A step that leaves the suspended activations alone replaces the last one.
LEMMA ReplacesTop ==
  ASSUME IInv, Depth' = Depth, NEW new, ActivationOf(Depth)' = new,
         \A i \in 1 .. Depth - 1 : ActivationOf(i)' = ActivationOf(i)
  PROVE  Acts' = PrivateRegisters!SetTop(new)
<1>1. PrivateRegisters!SetTop(new) = [Acts EXCEPT ![Depth] = new]
  BY ActsFacts DEF PrivateRegisters!SetTop, Acts
<1>2. Acts' = [i \in 1 .. Depth |-> ActivationOf(i)']
  BY DEF Acts
<1>3. Depth \in Nat
  BY ActsFacts
<1>4. ASSUME NEW i \in 1 .. Depth
      PROVE  ActivationOf(i)' = IF i = Depth THEN new ELSE ActivationOf(i)
  <2>1. CASE i = Depth
    BY <2>1
  <2>2. CASE i # Depth
    BY <1>3, <2>2
  <2>. QED  BY <2>1, <2>2
<1>5. [Acts EXCEPT ![Depth] = new]
        = [i \in 1 .. Depth |-> IF i = Depth THEN new ELSE ActivationOf(i)]
  BY DEF Acts
<1>. QED  BY <1>1, <1>2, <1>4, <1>5

LEMMA ComputeWrites ==
  ASSUME IInv, NEW r \in Register, NEW v \in Value, Compute(r, v)
  PROVE  PrivateRegisters!Write(r, v)
<1>1. /\ frames' = frames /\ code' = code /\ outcome' = outcome /\ pc' = pc + 1
      /\ Base + r \in Register
      /\ registers' = [registers EXCEPT ![Base + r] = v]
      /\ used' = Use(r)
  BY DEF Compute
<1>2. /\ \A i \in 1 .. Depth - 1 : used'[i] = used[i]
      /\ used'[Depth] = used[Depth] \cup {r}
      /\ Depth' = Depth /\ Base' = Base
      /\ Base \in Nat /\ used[Depth] \in SUBSET Nat /\ Depth \in 1 .. Depth
  <2>1. /\ \A i \in 1 .. Depth - 1 : used'[i] = used[i]
        /\ used'[Depth] = used[Depth] \cup {r}
    BY <1>1, UseKeepsWindows DEF IInv
  <2>2. Depth' = Depth /\ Base' = Base
    BY <1>1 DEF Depth, Base
  <2>3. Base \in Nat /\ used[Depth] \in SUBSET Nat /\ Depth \in 1 .. Depth
    BY TopFacts, VmAssumption DEF IInv
  <2>. QED  BY <2>1, <2>2, <2>3
<1>3. \A i \in 1 .. Depth - 1 : ActivationOf(i)' = ActivationOf(i)
  <2>1. \A q \in Register : q < Base => registers'[q] = registers[q]
    BY <1>1, <1>2, VmAssumption DEF Register, IInv, TypeOK
  <2>. QED  BY <1>1, <1>2, <2>1, SuspendedStays
<1>4. [q \in used[Depth] \cup {r} |-> registers'[Base + q]]
        = PrivateRegisters!With([q \in used[Depth] |-> registers[Base + q]], r, v)
  <2>. SUFFICES ASSUME NEW q \in used[Depth] \cup {r}
                PROVE  registers'[Base + q] = IF q = r THEN v ELSE registers[Base + q]
    BY DEF PrivateRegisters!With
  <2>1. q \in Nat /\ r \in Nat
    BY <1>2, VmAssumption DEF Register
  <2>2. Base + q \in Register
    BY <1>1, <1>2 DEF IInv, WindowInv, FrameInv, Base
  <2>3. registers \in [Register -> Value]
    BY DEF IInv, TypeOK
  <2>. QED  BY <1>1, <1>2, <2>1, <2>2, <2>3
<1>. DEFINE new == [fun |-> code, pc |-> pc + 1,
                    regs |-> PrivateRegisters!With([q \in used[Depth] |-> registers[Base + q]], r, v),
                    dst |-> IF Depth = 1 THEN 0
                            ELSE frames[Depth].dst - frames[Depth - 1].base]
<1>5. ActivationOf(Depth)' = new
  BY <1>1, <1>2, <1>4 DEF ActivationOf, Base
<1>. DEFINE top == [fun |-> code, pc |-> pc,
                    regs |-> [q \in used[Depth] |-> registers[Base + q]],
                    dst |-> IF Depth = 1 THEN 0
                            ELSE frames[Depth].dst - frames[Depth - 1].base]
<1>6. PrivateRegisters!Top = top
  BY ActsFacts
<1>7. PrivateRegisters!Continue(top, top.pc + 1, PrivateRegisters!With(top.regs, r, v)) = new
  BY DEF PrivateRegisters!Continue
<1>. HIDE DEF new, top
<1>8. Acts' = PrivateRegisters!SetTop(new)
  BY <1>2, <1>3, <1>5, ReplacesTop
<1>. QED  BY <1>1, <1>6, <1>7, <1>8 DEF PrivateRegisters!Write, Acts

LEMMA JumpJumps ==
  ASSUME IInv, NEW p \in Position, Jump(p)
  PROVE  PrivateRegisters!Jump(p)
<1>1. /\ frames' = frames /\ code' = code /\ outcome' = outcome /\ pc' = p
      /\ registers' = registers /\ used' = used /\ Depth' = Depth
  BY DEF Jump, Depth
<1>2. \A i \in 1 .. Depth - 1 : ActivationOf(i)' = ActivationOf(i)
  BY <1>1, ActsFacts, SuspendedStays
<1>. DEFINE new == [fun |-> code, pc |-> p,
                    regs |-> [q \in used[Depth] |-> registers[Base + q]],
                    dst |-> IF Depth = 1 THEN 0
                            ELSE frames[Depth].dst - frames[Depth - 1].base]
            top == [fun |-> code, pc |-> pc,
                    regs |-> [q \in used[Depth] |-> registers[Base + q]],
                    dst |-> IF Depth = 1 THEN 0
                            ELSE frames[Depth].dst - frames[Depth - 1].base]
<1>3. ActivationOf(Depth)' = new
  BY <1>1 DEF ActivationOf, Base
<1>4. PrivateRegisters!Top = top
  BY ActsFacts
<1>5. PrivateRegisters!Continue(top, p, top.regs) = new
  BY DEF PrivateRegisters!Continue
<1>. HIDE DEF new, top
<1>6. Acts' = PrivateRegisters!SetTop(new)
  BY <1>1, <1>2, <1>3, ReplacesTop
<1>. QED  BY <1>1, <1>4, <1>5, <1>6 DEF PrivateRegisters!Jump, Acts

LEMMA CallNativeCalls ==
  ASSUME IInv, NEW a \in Register, NEW b \in Register, NEW c \in Register,
         NEW v \in Value, CallNative(a, b, c, v)
  PROVE  PrivateRegisters!HasCallee(b, c) /\ PrivateRegisters!CallNative(a, b, c, v)
<1>1. /\ frames' = frames /\ code' = code /\ outcome' = outcome /\ pc' = pc + 1
      /\ Base + a \in Register /\ b .. b + c \subseteq used[Depth]
      /\ used' = Use(a)
      /\ registers' = [r \in Register |->
                         IF r = Base + a THEN v
                         ELSE IF r \in Base + b + 1 .. Base + b + c THEN Plain[registers[r]]
                         ELSE registers[r]]
      /\ a > b + c
  BY DEF CallNative, CallCompiled
<1>2. /\ \A i \in 1 .. Depth - 1 : used'[i] = used[i]
      /\ used'[Depth] = used[Depth] \cup {a}
      /\ Depth' = Depth /\ Base' = Base
      /\ Base \in Nat /\ used[Depth] \in SUBSET Nat /\ Depth \in 1 .. Depth
  BY <1>1, UseKeepsWindows, TopFacts, VmAssumption DEF IInv, Depth, Base
<1>3. a \in Nat /\ b \in Nat /\ c \in Nat
  BY VmAssumption DEF Register
<1>4. \A i \in 1 .. Depth - 1 : ActivationOf(i)' = ActivationOf(i)
  <2>1. \A q \in Register : q < Base => registers'[q] = registers[q]
    BY <1>1, <1>2, <1>3, VmAssumption DEF Register
  <2>. QED  BY <1>1, <1>2, <2>1, SuspendedStays
<1>. DEFINE regs == [q \in used[Depth] |-> registers[Base + q]]
<1>5. [q \in used[Depth] \cup {a} |-> registers'[Base + q]]
        = PrivateRegisters!With(PrivateRegisters!Given(regs, b, c), a, v)
  <2>. SUFFICES ASSUME NEW q \in used[Depth] \cup {a}
                PROVE  registers'[Base + q] =
                         IF q = a THEN v
                         ELSE IF q \in b + 1 .. b + c THEN Plain[registers[Base + q]]
                         ELSE registers[Base + q]
    BY DEF PrivateRegisters!With, PrivateRegisters!Given
  <2>1. q \in Nat
    BY <1>2, <1>3
  <2>2. Base + q \in Register
    BY <1>1, <1>2 DEF IInv, WindowInv, FrameInv, Base
  <2>3. (Base + q = Base + a) <=> (q = a)
    BY <1>2, <1>3, <2>1
  <2>4. (Base + q \in Base + b + 1 .. Base + b + c) <=> (q \in b + 1 .. b + c)
    BY <1>2, <1>3, <2>1
  <2>. QED  BY <1>1, <2>2, <2>3, <2>4
<1>. DEFINE new == [fun |-> code, pc |-> pc + 1,
                    regs |-> PrivateRegisters!With(PrivateRegisters!Given(regs, b, c), a, v),
                    dst |-> IF Depth = 1 THEN 0
                            ELSE frames[Depth].dst - frames[Depth - 1].base]
            top == [fun |-> code, pc |-> pc, regs |-> regs,
                    dst |-> IF Depth = 1 THEN 0
                            ELSE frames[Depth].dst - frames[Depth - 1].base]
<1>6. ActivationOf(Depth)' = new
  BY <1>1, <1>2, <1>5 DEF ActivationOf, Base
<1>7. PrivateRegisters!Top = top
  BY ActsFacts
<1>8. PrivateRegisters!Continue(top, top.pc + 1,
        PrivateRegisters!With(PrivateRegisters!Given(top.regs, b, c), a, v)) = new
  BY DEF PrivateRegisters!Continue
<1>9. b .. b + c \subseteq DOMAIN top.regs
  BY <1>1
<1>. HIDE DEF new, top, regs
<1>10. Acts' = PrivateRegisters!SetTop(new)
  BY <1>2, <1>4, <1>6, ReplacesTop
<1>. QED
  BY <1>1, <1>7, <1>8, <1>9, <1>10
  DEF PrivateRegisters!CallNative, PrivateRegisters!HasCallee, Acts

LEMMA ReturnToRootFinishes ==
  ASSUME IInv, NEW d \in Register, ReturnToRoot(d)
  PROVE  PrivateRegisters!Finish(d)
<1>. DEFINE v == registers[Base + d]
<1>1. /\ frames' = frames /\ code' = code /\ pc' = pc /\ Depth = 1 /\ Depth' = 1
      /\ Base + d \in Register /\ outcome' = "returned"
      /\ registers' = [registers EXCEPT ![0] = v]
      /\ used' = Use(0) /\ Base = 0 /\ Base' = 0
  BY DEF ReturnToRoot, IInv, WindowInv, FrameInv, Base, Depth
<1>2. 0 \in Register
  BY VmAssumption DEF Register
<1>3. used'[1] = used[1] \cup {0}
  BY <1>1, <1>2, UseKeepsWindows DEF IInv
<1>4. v \in Value
  BY <1>1 DEF IInv, TypeOK
<1>5. used[1] \in SUBSET Nat
  BY <1>1, TopFacts DEF IInv
<1>. DEFINE regs == [q \in used[1] |-> registers[Base + q]]
<1>6. [q \in used[1] \cup {0} |-> registers'[Base + q]]
        = PrivateRegisters!With(regs, 0, v)
  <2>. SUFFICES ASSUME NEW q \in used[1] \cup {0}
                PROVE  registers'[Base + q] = IF q = 0 THEN v ELSE registers[Base + q]
    BY DEF PrivateRegisters!With
  <2>1. Base + q \in Register /\ Base + q = q
    BY <1>1, <1>2, <1>5 DEF IInv, WindowInv, FrameInv, Base
  <2>2. registers \in [Register -> Value]
    BY DEF IInv, TypeOK
  <2>. QED  BY <1>1, <2>1, <2>2
<1>. DEFINE new == [fun |-> code, pc |-> pc,
                    regs |-> PrivateRegisters!With(regs, 0, v), dst |-> 0]
            top == [fun |-> code, pc |-> pc, regs |-> regs, dst |-> 0]
<1>7. ActivationOf(Depth)' = new
  BY <1>1, <1>3, <1>6 DEF ActivationOf, Base
<1>8. PrivateRegisters!Top = top
  BY <1>1, ActsFacts
<1>9. PrivateRegisters!Continue(top, top.pc, PrivateRegisters!With(top.regs, 0, v)) = new
  BY DEF PrivateRegisters!Continue
<1>10. PrivateRegisters!Reads(top, d, v)
  BY <1>4 DEF PrivateRegisters!Reads
<1>11. Len(Acts) = 1
  BY <1>1, ActsFacts
<1>12. \A i \in 1 .. Depth - 1 : ActivationOf(i)' = ActivationOf(i)
  BY <1>1
<1>. HIDE DEF new, top, regs, v
<1>13. Acts' = PrivateRegisters!SetTop(new)
  BY <1>1, <1>7, <1>12, ReplacesTop
<1>. QED
  BY <1>1, <1>4, <1>8, <1>9, <1>10, <1>11, <1>13 DEF PrivateRegisters!Finish, Acts

\* A call in numbers, and where its arguments come from.
LEMMA CallNumbers ==
  ASSUME IInv, NEW a \in Register, NEW b \in Register, NEW c \in Register,
         CallFunction(a, b, c)
  PROVE  /\ a \in Nat /\ b \in Nat /\ c \in Nat /\ RegisterCount \in Nat
         /\ Base \in Nat /\ Depth \in Nat /\ Depth >= 1
         /\ Depth' = Depth + 1 /\ used[Depth] \in SUBSET Nat
         /\ NewBase(b, c) = Base + b + 1 + c /\ NewBase(b, c) + c <= RegisterCount
         /\ a > b + c /\ b .. b + c \subseteq used[Depth]
         /\ registers[Base + b] \in Fun
         /\ \A q \in Register : q < NewBase(b, c) => registers'[q] = registers[q]
         /\ \A i \in 0 .. c - 1 : registers'[NewBase(b, c) + i] = registers[Base + (b + 1 + i)]
<1>0. CallEffect(a, b, c)
  BY CallShape DEF IInv
<1>1. a \in Nat /\ b \in Nat /\ c \in Nat /\ RegisterCount \in Nat
  BY VmAssumption DEF Register
<1>2. Base \in Nat /\ Depth \in Nat /\ Depth >= 1 /\ used[Depth] \in SUBSET Nat
  BY TopFacts DEF IInv
<1>3. /\ Depth' = Depth + 1 /\ NewBase(b, c) + c <= RegisterCount
      /\ a > b + c /\ b .. b + c \subseteq used[Depth]
      /\ registers' = CopyOfArguments(b, c)
  BY <1>0 DEF CallEffect
<1>4. NewBase(b, c) = Base + b + 1 + c /\ registers[Base + b] \in Fun
  BY DEF CallFunction, NewBase
<1>5. \A q \in Register :
        registers'[q] = IF q \in NewBase(b, c) .. NewBase(b, c) + c - 1
                          THEN registers[q - c] ELSE registers[q]
  BY <1>3 DEF CopyOfArguments
<1>6. \A q \in Register : q < NewBase(b, c) => registers'[q] = registers[q]
  BY <1>5, <1>4, <1>1, <1>2, VmAssumption DEF Register
<1>7. ASSUME NEW i \in 0 .. c - 1
      PROVE  registers'[NewBase(b, c) + i] = registers[Base + (b + 1 + i)]
  <2>. DEFINE q == NewBase(b, c) + i
  <2>1. q \in Register
    BY <1>1, <1>2, <1>3, <1>4 DEF Register
  <2>2. q \in NewBase(b, c) .. NewBase(b, c) + c - 1
    BY <1>1, <1>2, <1>4
  <2>3. q - c = Base + (b + 1 + i)
    BY <1>1, <1>2, <1>4
  <2>. HIDE DEF q
  <2>4. registers'[q] = registers[q - c]
    BY <2>1, <2>2, <1>5
  <2>5. registers'[q] = registers[Base + (b + 1 + i)]
    BY <2>3, <2>4
  <2>. QED  BY <2>5 DEF q
<1>. QED  BY <1>1, <1>2, <1>3, <1>4, <1>6, <1>7

\* What the caller keeps, and what the callee starts with.
LEMMA CallerContinues ==
  ASSUME IInv, NEW a \in Register, NEW b \in Register, NEW c \in Register,
         CallFunction(a, b, c), NEW k, k = Depth
  PROVE  ActivationOf(k)' =
           [fun |-> code, pc |-> pc + 1,
            regs |-> PrivateRegisters!UpTo([q \in used[Depth] |-> registers[Base + q]], b + c),
            dst |-> IF Depth = 1 THEN 0 ELSE frames[Depth].dst - frames[Depth - 1].base]
<1>0. CallEffect(a, b, c)
  BY CallShape DEF IInv
<1>1. /\ Depth \in Nat /\ Depth >= 1 /\ Depth' = Depth + 1
      /\ a \in Nat /\ b \in Nat /\ c \in Nat /\ Base \in Nat /\ used[Depth] \in SUBSET Nat
      /\ NewBase(b, c) = Base + b + 1 + c
      /\ \A q \in Register : q < NewBase(b, c) => registers'[q] = registers[q]
  BY CallNumbers
<1>2. used'[Depth] = {r \in used[Depth] : r <= b + c}
  BY <1>0 DEF CallEffect
<1>3. frames'[Depth] = [fun |-> frames[Depth].fun, pc |-> pc + 1,
                        base |-> Base, dst |-> frames[Depth].dst]
  BY <1>0 DEF CallEffect
<1>4. frames[Depth].fun = code
  BY DEF IInv, WindowInv, FrameInv
<1>5. Depth # 1 => frames'[Depth - 1] = frames[Depth - 1]
  <2>1. Depth # 1 => Depth - 1 \in 1 .. Depth - 1
    BY <1>1
  <2>. QED  BY <2>1, <1>0 DEF CallEffect
<1>6. [r \in used'[Depth] |-> registers'[Base + r]]
        = PrivateRegisters!UpTo([q \in used[Depth] |-> registers[Base + q]], b + c)
  <2>. SUFFICES ASSUME NEW r \in used[Depth], r <= b + c
                PROVE  registers'[Base + r] = registers[Base + r]
    BY <1>2 DEF PrivateRegisters!UpTo
  <2>1. Depth \in 1 .. Depth
    BY <1>1
  <2>2. Base + r \in Register /\ r \in Nat
    BY <1>1, <2>1 DEF IInv, WindowInv, FrameInv, Base
  <2>3. Base + r < NewBase(b, c)
    BY <1>1, <2>2
  <2>. QED  BY <2>2, <2>3, <1>1
<1>7. k # Depth'
  BY <1>1
<1>8. ActivationOf(k)' =
        [fun |-> frames'[k].fun, pc |-> frames'[k].pc,
         regs |-> [r \in used'[k] |-> registers'[frames'[k].base + r]],
         dst |-> IF k = 1 THEN 0 ELSE frames'[k].dst - frames'[k - 1].base]
  BY <1>7 DEF ActivationOf
<1>9. /\ frames'[Depth].fun = code /\ frames'[Depth].pc = pc + 1
      /\ frames'[Depth].base = Base /\ frames'[Depth].dst = frames[Depth].dst
  BY <1>3, <1>4
<1>. QED  BY <1>5, <1>6, <1>8, <1>9

LEMMA CalleeStarts ==
  ASSUME IInv, NEW a \in Register, NEW b \in Register, NEW c \in Register,
         CallFunction(a, b, c), NEW k, k = Depth + 1
  PROVE  ActivationOf(k)' =
           [fun |-> registers[Base + b], pc |-> 0,
            regs |-> [i \in 0 .. c - 1 |-> registers[Base + (b + 1 + i)]], dst |-> a]
<1>0. CallEffect(a, b, c)
  BY CallShape DEF IInv
<1>1. /\ Depth \in Nat /\ Depth >= 1 /\ Depth' = Depth + 1 /\ a \in Nat /\ Base \in Nat
      /\ \A i \in 0 .. c - 1 : registers'[NewBase(b, c) + i] = registers[Base + (b + 1 + i)]
  BY CallNumbers
<1>2. used'[k] = 0 .. c - 1 /\ code' = registers[Base + b] /\ pc' = 0
  BY <1>0 DEF CallEffect
<1>3. /\ frames'[k] = [fun |-> registers[Base + b], pc |-> 0,
                       base |-> NewBase(b, c), dst |-> Base + a]
      /\ frames'[Depth] = [fun |-> frames[Depth].fun, pc |-> pc + 1,
                           base |-> Base, dst |-> frames[Depth].dst]
  BY <1>0 DEF CallEffect
<1>4. frames'[k].base = NewBase(b, c) /\ frames'[k].dst = Base + a /\ frames'[Depth].base = Base
  BY <1>3
<1>5. [i \in used'[k] |-> registers'[NewBase(b, c) + i]]
        = [i \in 0 .. c - 1 |-> registers[Base + (b + 1 + i)]]
  BY <1>1, <1>2
<1>6. k = Depth' /\ k # 1 /\ k - 1 = Depth
  BY <1>1
<1>7. ActivationOf(k)' = [fun |-> code', pc |-> pc',
                          regs |-> [i \in used'[k] |-> registers'[frames'[k].base + i]],
                          dst |-> frames'[k].dst - frames'[k - 1].base]
  BY <1>6 DEF ActivationOf
<1>8. frames'[k].dst - frames'[k - 1].base = a
  BY <1>1, <1>4, <1>6
<1>. QED  BY <1>2, <1>4, <1>5, <1>7, <1>8

LEMMA CallFunctionCalls ==
  ASSUME IInv, NEW a \in Register, NEW b \in Register, NEW c \in Register,
         CallFunction(a, b, c)
  PROVE  PrivateRegisters!HasCallee(b, c) /\ PrivateRegisters!CallFunction(a, b, c)
<1>0. CallEffect(a, b, c)
  BY CallShape DEF IInv
<1>1. /\ Depth \in Nat /\ Depth >= 1 /\ Depth' = Depth + 1
      /\ b \in Nat /\ c \in Nat /\ b .. b + c \subseteq used[Depth]
      /\ registers[Base + b] \in Fun /\ Base \in Nat
      /\ NewBase(b, c) = Base + b + 1 + c
      /\ \A q \in Register : q < NewBase(b, c) => registers'[q] = registers[q]
  BY CallNumbers
<1>. DEFINE regs == [q \in used[Depth] |-> registers[Base + q]]
            dst == IF Depth = 1 THEN 0 ELSE frames[Depth].dst - frames[Depth - 1].base
            top == [fun |-> code, pc |-> pc, regs |-> regs, dst |-> dst]
            caller == [fun |-> code, pc |-> pc + 1,
                       regs |-> PrivateRegisters!UpTo(regs, b + c), dst |-> dst]
            callee == [fun |-> registers[Base + b], pc |-> 0,
                       regs |-> [i \in 0 .. c - 1 |-> registers[Base + (b + 1 + i)]], dst |-> a]
<1>2. ASSUME NEW i \in 1 .. Depth - 1 PROVE ActivationOf(i)' = ActivationOf(i)
  <2>1. frames'[i] = frames[i] /\ used'[i] = used[i]
    BY <1>0 DEF CallEffect
  <2>2. i = 1 \/ i - 1 \in 1 .. Depth - 1
    BY <1>1
  <2>3. i = 1 \/ frames'[i - 1] = frames[i - 1]
    BY <1>0, <2>2 DEF CallEffect
  <2>4. i # Depth'
    BY <1>1
  <2>5. \A q \in Register : q < Base => registers'[q] = registers[q]
    BY <1>1, VmAssumption DEF Register
  <2>. QED  BY <2>1, <2>3, <2>4, <2>5, SuspendedStays
<1>3. ASSUME NEW i \in 1 .. Depth + 1
      PROVE  ActivationOf(i)' = IF i = Depth + 1 THEN callee
                                ELSE IF i = Depth THEN caller ELSE ActivationOf(i)
  <2>. HIDE DEF caller, callee
  <2>1. CASE i = Depth + 1
    <3>1. ActivationOf(i)' = callee
      BY <2>1, CalleeStarts DEF callee
    <3>. QED  BY <2>1, <3>1
  <2>2. CASE i = Depth
    <3>1. ActivationOf(i)' = caller
      BY <2>2, CallerContinues DEF caller
    <3>2. i # Depth + 1
      BY <2>2, <1>1
    <3>. QED  BY <2>2, <3>1, <3>2
  <2>3. CASE i \in 1 .. Depth - 1
    <3>1. i # Depth + 1 /\ i # Depth
      BY <2>3, <1>1
    <3>. QED  BY <2>3, <3>1, <1>2
  <2>. QED  BY <1>1, <2>1, <2>2, <2>3
<1>4. PrivateRegisters!Top = top
  BY ActsFacts
<1>5. PrivateRegisters!Continue(top, top.pc + 1, PrivateRegisters!UpTo(top.regs, b + c)) = caller
  BY DEF PrivateRegisters!Continue
<1>6. b \in used[Depth] /\ \A i \in 0 .. c - 1 : b + 1 + i \in used[Depth]
  BY <1>1
<1>7. b .. b + c \subseteq DOMAIN top.regs
  BY <1>1
<1>8. top.regs[b] = registers[Base + b]
  BY <1>6
<1>9. [i \in 0 .. c - 1 |-> top.regs[b + 1 + i]]
        = [i \in 0 .. c - 1 |-> registers[Base + (b + 1 + i)]]
  BY <1>6
<1>10. [fun |-> top.regs[b], pc |-> 0,
        regs |-> [i \in 0 .. c - 1 |-> top.regs[b + 1 + i]], dst |-> a] = callee
  BY <1>8, <1>9
<1>. HIDE DEF top, caller, callee, regs, dst
<1>11. PrivateRegisters!SetTop(caller)
         = [i \in 1 .. Depth |-> IF i = Depth THEN caller ELSE ActivationOf(i)]
  BY ActsFacts DEF PrivateRegisters!SetTop, Acts
<1>12. Acts' = [i \in 1 .. Depth + 1 |-> ActivationOf(i)']
  BY <1>1 DEF Acts
<1>13. Append(PrivateRegisters!SetTop(caller), callee)
         = [i \in 1 .. Depth + 1 |-> IF i = Depth + 1 THEN callee
                                     ELSE IF i = Depth THEN caller ELSE ActivationOf(i)]
  BY <1>1, <1>11
<1>14. Acts' = Append(PrivateRegisters!SetTop(caller), callee)
  BY <1>3, <1>12, <1>13
<1>. QED
  BY <1>0, <1>1, <1>4, <1>5, <1>7, <1>8, <1>10, <1>14
  DEF PrivateRegisters!CallFunction, PrivateRegisters!HasCallee, Acts, CallFunction

LEMMA ReturnReturns ==
  ASSUME IInv, NEW d \in Register, Return(d)
  PROVE  PrivateRegisters!Return(d)
<1>0. ReturnEffect(d)
  BY ReturnShape DEF IInv, WindowInv
<1>. DEFINE v == registers[Base + d]
            k == Depth - 1
            back == frames[Depth].dst - frames[k].base
            regs == [q \in used[k] |-> registers[frames[k].base + q]]
            dst == IF k = 1 THEN 0 ELSE frames[k].dst - frames[k - 1].base
            caller == [fun |-> frames[k].fun, pc |-> frames[k].pc, regs |-> regs, dst |-> dst]
            resumed == [fun |-> frames[k].fun, pc |-> frames[k].pc,
                        regs |-> PrivateRegisters!With(regs, back, v), dst |-> dst]
<1>1. /\ Depth > 1 /\ Depth \in Nat /\ Depth' = Depth - 1 /\ Base \in Nat
      /\ k \in 1 .. Depth - 1 /\ k \in 1 .. Depth /\ k # Depth /\ k + 1 = Depth
  BY <1>0, TopFacts DEF ReturnEffect, IInv
<1>2. /\ registers' = [registers EXCEPT ![frames[Depth].dst] = v]
      /\ Base + d \in Register /\ registers \in [Register -> Value]
      /\ frames[Depth].dst \in Nat /\ frames[k].base \in Nat /\ frames[Depth].dst \in Register
  <2>1. /\ registers' = [registers EXCEPT ![frames[Depth].dst] = v] /\ Base + d \in Register
        /\ frames[Depth] \in Frame /\ frames[k] \in Frame
    BY <1>0 DEF ReturnEffect
  <2>2. frames[Depth].dst \in Register /\ frames[k].base \in Register
    BY <2>1 DEF Frame
  <2>3. Register \subseteq Nat
    BY VmAssumption DEF Register
  <2>. QED  BY <2>1, <2>2, <2>3 DEF IInv, TypeOK
<1>3. frames[Depth].dst >= Base /\ Base > frames[k].base
  <2>1. Depth \in 2 .. Depth
    BY <1>1
  <2>. QED  BY <2>1 DEF IInv, WindowInv, FrameInv, Base
<1>4. back \in Nat /\ frames[k].base + back = frames[Depth].dst
  BY <1>1, <1>2, <1>3
<1>5. \A q \in Register : q # frames[Depth].dst => registers'[q] = registers[q]
  BY <1>2
<1>6. ASSUME NEW i \in 1 .. Depth - 2 PROVE ActivationOf(i)' = ActivationOf(i)
  <2>1. i \in 1 .. Depth - 1 /\ i # Depth' /\ (i = 1 \/ i - 1 \in 1 .. Depth - 2)
    BY <1>1
  <2>2. frames'[i] = frames[i] /\ used'[i] = used[i]
    BY <1>0, <2>1 DEF ReturnEffect
  <2>3. i = 1 \/ frames'[i - 1] = frames[i - 1]
    BY <1>0, <1>1, <2>1 DEF ReturnEffect
  <2>4. \A q \in Register : q < Base => registers'[q] = registers[q]
    BY <1>1, <1>2, <1>3, <1>5, VmAssumption DEF Register
  <2>. QED  BY <2>1, <2>2, <2>3, <2>4, SuspendedStays
<1>7. [q \in used[k] \cup {back} |-> registers'[frames[k].base + q]]
        = PrivateRegisters!With(regs, back, v)
  <2>. SUFFICES ASSUME NEW q \in used[k] \cup {back}
                PROVE  registers'[frames[k].base + q] =
                         IF q = back THEN v ELSE registers[frames[k].base + q]
    BY DEF PrivateRegisters!With
  <2>1. CASE q = back
    <3>1. frames[k].base + q = frames[Depth].dst
      BY <2>1, <1>4
    <3>2. registers'[frames[Depth].dst] = v
      BY <1>2
    <3>. QED  BY <2>1, <3>1, <3>2
  <2>2. CASE q # back
    <3>1. frames[k].base + q \in Register /\ q \in Nat
      BY <2>2, <1>1, VmAssumption DEF IInv, TypeOK, WindowInv, FrameInv, Register, Depth
    <3>2. frames[k].base + q # frames[Depth].dst
      BY <2>2, <3>1, <1>2, <1>4
    <3>. QED  BY <2>2, <3>1, <3>2, <1>5
  <2>. QED  BY <2>1, <2>2
<1>8. ASSUME NEW i, i = Depth - 1 PROVE ActivationOf(i)' = resumed
  <2>1. i = Depth' /\ (i = 1 \/ i - 1 \in 1 .. Depth - 1) /\ i = k
    BY <1>1, <1>8
  <2>2. /\ frames'[i] = frames[i] /\ (i = 1 \/ frames'[i - 1] = frames[i - 1])
        /\ used'[i] = used[k] \cup {back}
        /\ code' = frames[k].fun /\ pc' = frames[k].pc
    BY <1>0, <1>1, <2>1 DEF ReturnEffect
  <2>3. ActivationOf(i)' =
          [fun |-> code', pc |-> pc',
           regs |-> [q \in used'[i] |-> registers'[frames'[i].base + q]],
           dst |-> IF i = 1 THEN 0 ELSE frames'[i].dst - frames'[i - 1].base]
    BY <2>1 DEF ActivationOf
  <2>4. [q \in used'[i] |-> registers'[frames'[i].base + q]]
          = PrivateRegisters!With(regs, back, v)
    BY <2>1, <2>2, <1>7
  <2>5. (IF i = 1 THEN 0 ELSE frames'[i].dst - frames'[i - 1].base) = dst
    BY <2>1, <2>2
  <2>. QED  BY <2>2, <2>3, <2>4, <2>5
<1>9. Acts[k] = caller
  BY <1>1, ActsFacts DEF ActivationOf
<1>10. PrivateRegisters!Top.dst = back /\ PrivateRegisters!Top.regs = [q \in used[Depth] |-> registers[Base + q]]
  BY <1>1, ActsFacts
<1>11. v \in Value
  BY <1>2
<1>12. PrivateRegisters!Reads(PrivateRegisters!Top, d, v)
  BY <1>10, <1>11 DEF PrivateRegisters!Reads
<1>13. PrivateRegisters!Continue(caller, caller.pc, PrivateRegisters!With(caller.regs, back, v)) = resumed
  BY DEF PrivateRegisters!Continue
<1>. HIDE DEF caller, resumed, v, back, regs, dst
<1>14. Acts' = [i \in 1 .. Depth - 1 |-> ActivationOf(i)']
  BY <1>1 DEF Acts
<1>15. Append(SubSeq(Acts, 1, Len(Acts) - 2), resumed)
         = [i \in 1 .. Depth - 1 |-> IF i = Depth - 1 THEN resumed ELSE ActivationOf(i)]
  <2>1. SubSeq(Acts, 1, Len(Acts) - 2) = [i \in 1 .. Depth - 2 |-> ActivationOf(i)]
    BY <1>1, ActsFacts DEF Acts
  <2>. DEFINE lower == [i \in 1 .. Depth - 2 |-> ActivationOf(i)]
  <2>2. Len(lower) = Depth - 2 /\ Depth - 2 \in Nat /\ (Depth - 2) + 1 = Depth - 1
    BY <1>1
  <2>3. Append(lower, resumed) = [i \in 1 .. (Depth - 2) + 1 |->
                                    IF i = (Depth - 2) + 1 THEN resumed ELSE lower[i]]
    BY <2>2
  <2>4. ASSUME NEW i \in 1 .. Depth - 1
        PROVE  (IF i = Depth - 1 THEN resumed ELSE lower[i])
                 = IF i = Depth - 1 THEN resumed ELSE ActivationOf(i)
    BY <1>1
  <2>. QED  BY <2>1, <2>2, <2>3, <2>4
<1>16. ASSUME NEW i \in 1 .. Depth - 1
       PROVE  ActivationOf(i)' = IF i = Depth - 1 THEN resumed ELSE ActivationOf(i)
  <2>1. CASE i = Depth - 1
    BY <2>1, <1>8
  <2>2. CASE i \in 1 .. Depth - 2
    BY <1>1, <2>2, <1>6
  <2>. QED  BY <1>1, <2>1, <2>2
<1>17. Acts' = Append(SubSeq(Acts, 1, Len(Acts) - 2), resumed)
  BY <1>14, <1>15, <1>16
<1>18. Len(Acts) > 1 /\ Len(Acts) - 1 = k
  BY <1>1, ActsFacts
<1>. QED
  BY <1>9, <1>10, <1>11, <1>12, <1>13, <1>17, <1>18
  DEF PrivateRegisters!Return, Acts, Return

LEMMA InitBegins == Init => PrivateRegisters!Init
<1>. SUFFICES ASSUME Init PROVE PrivateRegisters!Init
  OBVIOUS
<1>1. PICK c \in Code, n \in 0 .. RegisterCount - 1 :
        /\ frames = <<[fun |-> c, pc |-> 0, base |-> 0, dst |-> 0]>>
        /\ code = c
        /\ used = <<0 .. n - 1>>
        /\ registers \in [Register -> Value]
  BY DEF Init
<1>2. pc = 0 /\ outcome = "running"
  BY DEF Init
<1>3. Depth = 1
  BY <1>1 DEF Depth
<1>. DEFINE args == [r \in 0 .. n - 1 |-> registers[r]]
<1>4. n \in Register /\ args \in [0 .. n - 1 -> Value]
  BY <1>1, VmAssumption DEF Register
<1>5. [r \in used[1] |-> registers[frames[1].base + r]] = args
  <2>1. used[1] = 0 .. n - 1 /\ frames[1].base = 0
    BY <1>1
  <2>. QED  BY <2>1
<1>6. ActivationOf(1) = [fun |-> c, pc |-> 0, regs |-> args, dst |-> 0]
  BY <1>1, <1>2, <1>3, <1>5 DEF ActivationOf
<1>. HIDE DEF args
<1>7. Acts = <<[fun |-> c, pc |-> 0, regs |-> args, dst |-> 0]>>
  BY <1>3, <1>6 DEF Acts
<1>. QED  BY <1>2, <1>4, <1>7 DEF PrivateRegisters!Init, Acts, Code

LEMMA StopStops ==
  ASSUME IInv, NEW how \in {"halted", "error", "r006", "r007", "panic"}, Stop(how)
  PROVE  PrivateRegisters!Stop
<1>1. Acts' = Acts
  BY DEF Stop, Acts, ActivationOf, Depth
<1>. QED  BY <1>1 DEF Stop, PrivateRegisters!Stop, Acts

\* Every step of the machine is a step on private registers.
LEMMA StepsImplement == IInv /\ [Next]_vars
                          => [PrivateRegisters!Next]_(PrivateRegisters!activationVars)
<1>. SUFFICES ASSUME IInv, [Next]_vars
              PROVE  PrivateRegisters!Next \/ UNCHANGED PrivateRegisters!activationVars
  OBVIOUS
<1>0. used[Depth] \subseteq Register
  BY TopFacts, VmAssumption DEF IInv
<1>1. CASE UNCHANGED vars
  <2>1. Acts' = Acts /\ outcome' = outcome
    BY <1>1 DEF vars, Acts, ActivationOf, Depth
  <2>. QED  BY <2>1 DEF PrivateRegisters!activationVars, Acts
<1>2. ASSUME outcome = "running", NEW r \in Register, NEW v \in Value, Compute(r, v)
      PROVE  PrivateRegisters!Next
  BY <1>2, ComputeWrites DEF PrivateRegisters!Next
<1>3. ASSUME outcome = "running", NEW p \in Position, Jump(p) PROVE PrivateRegisters!Next
  BY <1>3, JumpJumps DEF PrivateRegisters!Next
<1>4. ASSUME outcome = "running", NEW how \in {"halted", "error", "r006", "r007", "panic"}, Stop(how)
      PROVE  PrivateRegisters!Next
  BY <1>4, StopStops DEF PrivateRegisters!Next
<1>5. ASSUME outcome = "running", NEW a \in Register, NEW b \in Register, NEW c \in Register,
             CallFunction(a, b, c)
      PROVE  PrivateRegisters!Next
  BY <1>5, CallFunctionCalls DEF PrivateRegisters!Next
<1>6. ASSUME outcome = "running", NEW a \in Register, NEW b \in Register, NEW c \in Register,
             NEW v \in Value, CallNative(a, b, c, v)
      PROVE  PrivateRegisters!Next
  BY <1>6, CallNativeCalls DEF PrivateRegisters!Next
<1>7. ASSUME outcome = "running", NEW d \in Register, ReturnToRoot(d) \/ Return(d)
      PROVE  PrivateRegisters!Next
  BY <1>7, ReturnToRootFinishes, ReturnReturns DEF PrivateRegisters!Next
<1>8. ASSUME NEW a \in Register, NEW b \in Register, NEW c \in Register, Call(a, b, c)
      PROVE  \/ CallFunction(a, b, c) \/ \E v \in Value : CallNative(a, b, c, v)
             \/ Stop("r006") \/ Stop("r007") \/ Stop("panic")
  BY <1>8 DEF Call, CallOverflows, CallCopiesPastEnd, CallUncallable
<1>. QED
  BY <1>0, <1>1, <1>2, <1>3, <1>4, <1>5, <1>6, <1>7, <1>8 DEF Next, PastLastRegister, Fails, Halt

\* Function calls on the shared registers behave as calls whose activations
\* have registers of their own: what a callee writes is never seen by a caller
\* but for the returned value, and a caller continues where it called.
THEOREM CallsImplementActivations == Spec => ImplementsActivations
<1>1. Init => PrivateRegisters!Init
  BY InitBegins
<1>2. IInv /\ [Next]_vars => [PrivateRegisters!Next]_(PrivateRegisters!activationVars)
  BY StepsImplement
<1>. QED
  BY <1>1, <1>2, IInvAlways, PTL DEF Spec, ImplementsActivations, PrivateRegisters!Spec
=============================================================================
