--------------------------- MODULE ThreadsProofs ---------------------------
(***************************************************************************)
(* Proofs about Threads for any workers, kinds of values, failures, number *)
(* of sends and size of channel: memory is used only while it is alive, is *)
(* accounted for when a spawn fails or a join returns, and what a join     *)
(* returns is the worker's register 0 or nil.                              *)
(***************************************************************************)
EXTENDS Threads, TLAPS

\* The steps of one worker and of main for it, without the disjunctions of Next.
Steps(w) ==
    \/ SpawnCreateHandle(w)
    \/ SpawnNoHandle(w)
    \/ SpawnCreateInfo(w)
    \/ SpawnNoInfo(w)
    \/ SpawnStartThread(w)
    \/ SpawnNoThread(w)
    \/ SpawnStoreThread(w)
    \/ SpawnStoreResult(w)
    \/ ChildSend(w)
    \/ ChildReturns(w)
    \/ ChildStoreResult(w)
    \/ ChildFreeInfo(w)
    \/ ChildLeave(w)
    \/ ChildFails(w)
    \/ JoinBegin(w)
    \/ JoinWait(w)
    \/ JoinClone(w)
    \/ JoinDestroy(w)
    \/ JoinRelease(w)
    \/ MainRecv(w)

LEMMA NextIsSteps == Next <=> \E w \in Worker : Steps(w)
BY DEF Next, Steps, Spawn, ChildRuns, Join

LEMMA TypeInit == Init => TypeOK
BY ThreadsAssumption DEF Init, TypeOK, None, Object, Value

LEMMA TypeStep == TypeOK /\ [Next]_vars => TypeOK'
<1>. SUFFICES ASSUME TypeOK, [Next]_vars PROVE TypeOK'
  OBVIOUS
<1>. USE ThreadsAssumption DEF TypeOK, Object, Value, None, memory, channel
<1>1. ASSUME NEW w \in Worker, SpawnCreateHandle(w) PROVE TypeOK'
  BY <1>1 DEF SpawnCreateHandle
<1>2. ASSUME NEW w \in Worker, SpawnNoHandle(w) PROVE TypeOK'
  BY <1>2 DEF SpawnNoHandle
<1>3. ASSUME NEW w \in Worker, SpawnCreateInfo(w) PROVE TypeOK'
  BY <1>3 DEF SpawnCreateInfo
<1>4. ASSUME NEW w \in Worker, SpawnNoInfo(w) PROVE TypeOK'
  BY <1>4 DEF SpawnNoInfo, SpawnFails
<1>5. ASSUME NEW w \in Worker, SpawnStartThread(w) PROVE TypeOK'
  BY <1>5 DEF SpawnStartThread
<1>6. ASSUME NEW w \in Worker, SpawnNoThread(w) PROVE TypeOK'
  BY <1>6 DEF SpawnNoThread, SpawnFails
<1>7. ASSUME NEW w \in Worker, SpawnStoreThread(w) PROVE TypeOK'
  BY <1>7 DEF SpawnStoreThread
<1>8. ASSUME NEW w \in Worker, SpawnStoreResult(w) PROVE TypeOK'
  BY <1>8 DEF SpawnStoreResult
<1>9. ASSUME NEW w \in Worker, ChildSend(w) PROVE TypeOK'
  BY <1>9 DEF ChildSend
<1>10. ASSUME NEW w \in Worker, ChildReturns(w) PROVE TypeOK'
  BY <1>10 DEF ChildReturns
<1>11. ASSUME NEW w \in Worker, ChildStoreResult(w) PROVE TypeOK'
  <2>1. heap' \subseteq Object
    BY <1>11 DEF ChildStoreResult
  <2>2. PICK r \in Value : result' = [result EXCEPT ![w] = r]
    BY <1>11 DEF ChildStoreResult
  <2>3. childPc' \in [Worker -> {"none", "running", "store", "free_info", "leave", "exited"}]
    BY <1>11 DEF ChildStoreResult
  <2>. QED  BY <1>11, <2>1, <2>2, <2>3 DEF ChildStoreResult
<1>12. ASSUME NEW w \in Worker, ChildFreeInfo(w) PROVE TypeOK'
  BY <1>12 DEF ChildFreeInfo
<1>13. ASSUME NEW w \in Worker, ChildLeave(w) PROVE TypeOK'
  BY <1>13 DEF ChildLeave
<1>14. ASSUME NEW w \in Worker, ChildFails(w) PROVE TypeOK'
  BY <1>14 DEF ChildFails
<1>15. ASSUME NEW w \in Worker, JoinBegin(w) PROVE TypeOK'
  BY <1>15 DEF JoinBegin
<1>16. ASSUME NEW w \in Worker, JoinWait(w) PROVE TypeOK'
  BY <1>16 DEF JoinWait
<1>17. ASSUME NEW w \in Worker, JoinClone(w) PROVE TypeOK'
  BY <1>17 DEF JoinClone
<1>18. ASSUME NEW w \in Worker, JoinDestroy(w) PROVE TypeOK'
  BY <1>18 DEF JoinDestroy
<1>19. ASSUME NEW w \in Worker, JoinRelease(w) PROVE TypeOK'
  BY <1>19 DEF JoinRelease
<1>20. ASSUME NEW w \in Worker, MainRecv(w) PROVE TypeOK'
  BY <1>20 DEF MainRecv
<1>21. CASE UNCHANGED vars
  BY <1>21 DEF vars
<1>. QED  BY <1>1, <1>2, <1>3, <1>4, <1>5, <1>6, <1>7, <1>8, <1>9, <1>10, <1>11, <1>12, <1>13, <1>14, <1>15, <1>16, <1>17, <1>18, <1>19, <1>20, <1>21, NextIsSteps DEF Steps

\* The variables keep their types.
THEOREM TypeCorrect == Spec => []TypeOK
BY TypeInit, TypeStep, PTL DEF Spec

-----------------------------------------------------------------------------
LEMMA LifeInit == Init => LifeInv
<1>. SUFFICES ASSUME Init, NEW w \in Worker PROVE LifeOf(w)
  BY DEF LifeInv
<1>1. spawnPc[w] = "idle" /\ childPc[w] = "none" /\ joinPc[w] = "idle" /\ result[w] = "undefined"
  BY DEF Init
<1>2. heap = {} /\ arena[w] = "none"
  BY DEF Init
<1>. QED  BY <1>1, <1>2 DEF LifeOf, Before, Stored, NeedsMemory

\* A step for one worker leaves what LifeOf says about another one as it was.
SameLife(v) ==
    /\ spawnPc'[v] = spawnPc[v] /\ childPc'[v] = childPc[v] /\ joinPc'[v] = joinPc[v]
    /\ result'[v] = result[v] /\ reg0'[v] = reg0[v] /\ answer'[v] = answer[v] /\ arena'[v] = arena[v]
    /\ \A o \in {"handle", "info", "copy"} : <<o, v>> \in heap' <=> <<o, v>> \in heap

LEMMA OthersKeepLife ==
  ASSUME TypeOK, NEW w \in Worker, Steps(w), NEW v \in Worker, v # w
  PROVE  SameLife(v)
<1>. USE DEF TypeOK, SameLife, memory, channel
<1>1. CASE SpawnCreateHandle(w)
  BY <1>1 DEF SpawnCreateHandle
<1>2. CASE SpawnNoHandle(w)
  BY <1>2 DEF SpawnNoHandle
<1>3. CASE SpawnCreateInfo(w)
  BY <1>3 DEF SpawnCreateInfo
<1>4. CASE SpawnNoInfo(w)
  BY <1>4 DEF SpawnNoInfo, SpawnFails
<1>5. CASE SpawnStartThread(w)
  BY <1>5 DEF SpawnStartThread
<1>6. CASE SpawnNoThread(w)
  BY <1>6 DEF SpawnNoThread, SpawnFails
<1>7. CASE SpawnStoreThread(w)
  BY <1>7 DEF SpawnStoreThread
<1>8. CASE SpawnStoreResult(w)
  BY <1>8 DEF SpawnStoreResult
<1>9. CASE ChildSend(w)
  BY <1>9 DEF ChildSend
<1>10. CASE ChildReturns(w)
  BY <1>10 DEF ChildReturns
<1>11. CASE ChildStoreResult(w)
  <2>1. \A o \in {"handle", "info", "copy"} : <<o, v>> \in heap' <=> <<o, v>> \in heap
    BY <1>11 DEF ChildStoreResult
  <2>. QED  BY <1>11, <2>1 DEF ChildStoreResult
<1>12. CASE ChildFreeInfo(w)
  BY <1>12 DEF ChildFreeInfo
<1>13. CASE ChildLeave(w)
  BY <1>13 DEF ChildLeave
<1>14. CASE ChildFails(w)
  BY <1>14 DEF ChildFails
<1>15. CASE JoinBegin(w)
  BY <1>15 DEF JoinBegin
<1>16. CASE JoinWait(w)
  BY <1>16 DEF JoinWait
<1>17. CASE JoinClone(w)
  BY <1>17 DEF JoinClone
<1>18. CASE JoinDestroy(w)
  BY <1>18 DEF JoinDestroy
<1>19. CASE JoinRelease(w)
  BY <1>19 DEF JoinRelease
<1>20. CASE MainRecv(w)
  BY <1>20 DEF MainRecv
<1>. QED  BY <1>1, <1>2, <1>3, <1>4, <1>5, <1>6, <1>7, <1>8, <1>9, <1>10, <1>11, <1>12, <1>13, <1>14, <1>15, <1>16, <1>17, <1>18, <1>19, <1>20 DEF Steps

LEMMA SameLifeKept ==
  ASSUME NEW v \in Worker, LifeOf(v), SameLife(v)
  PROVE  LifeOf(v)'
BY DEF LifeOf, SameLife

\* For the worker itself, every step moves one of the three program counters and the
\* memory that goes with it.
LEMMA StepKeepsLife ==
  ASSUME TypeOK, NEW w \in Worker, LifeOf(w), Steps(w)
  PROVE  LifeOf(w)'
<1>. USE DEF TypeOK, LifeOf, Before, Stored, NeedsMemory, Value, memory, channel
<1>1. CASE SpawnCreateHandle(w)
  BY <1>1 DEF SpawnCreateHandle
<1>2. CASE SpawnNoHandle(w)
  BY <1>2 DEF SpawnNoHandle
<1>3. CASE SpawnCreateInfo(w)
  BY <1>3 DEF SpawnCreateInfo
<1>4. CASE SpawnNoInfo(w)
  BY <1>4 DEF SpawnNoInfo, SpawnFails
<1>5. CASE SpawnStartThread(w)
  BY <1>5 DEF SpawnStartThread
<1>6. CASE SpawnNoThread(w)
  BY <1>6 DEF SpawnNoThread, SpawnFails
<1>7. CASE SpawnStoreThread(w)
  BY <1>7 DEF SpawnStoreThread
<1>8. CASE SpawnStoreResult(w)
  BY <1>8 DEF SpawnStoreResult
<1>9. CASE ChildSend(w)
  BY <1>9 DEF ChildSend
<1>10. CASE ChildReturns(w)
  BY <1>10 DEF ChildReturns
<1>11. CASE ChildStoreResult(w)
  BY <1>11 DEF ChildStoreResult
<1>12. CASE ChildFreeInfo(w)
  BY <1>12 DEF ChildFreeInfo
<1>13. CASE ChildLeave(w)
  BY <1>13 DEF ChildLeave
<1>14. CASE ChildFails(w)
  BY <1>14 DEF ChildFails
<1>15. CASE JoinBegin(w)
  BY <1>15 DEF JoinBegin
<1>16. CASE JoinWait(w)
  BY <1>16 DEF JoinWait
<1>17. CASE JoinClone(w)
  BY <1>17 DEF JoinClone
<1>18. CASE JoinDestroy(w)
  BY <1>18 DEF JoinDestroy
<1>19. CASE JoinRelease(w)
  BY <1>19 DEF JoinRelease
<1>20. CASE MainRecv(w)
  BY <1>20 DEF MainRecv
<1>. QED  BY <1>1, <1>2, <1>3, <1>4, <1>5, <1>6, <1>7, <1>8, <1>9, <1>10, <1>11, <1>12, <1>13, <1>14, <1>15, <1>16, <1>17, <1>18, <1>19, <1>20 DEF Steps

LEMMA LifeStep == TypeOK /\ LifeInv /\ [Next]_vars => LifeInv'
<1>. SUFFICES ASSUME TypeOK, LifeInv, [Next]_vars, NEW v \in Worker PROVE LifeOf(v)'
  BY DEF LifeInv
<1>0. LifeOf(v)
  BY DEF LifeInv
<1>1. ASSUME NEW w \in Worker, Steps(w) PROVE LifeOf(v)'
  <2>1. CASE v = w
    BY <1>0, <1>1, <2>1, StepKeepsLife
  <2>2. CASE v # w
    BY <1>0, <1>1, <2>2, OthersKeepLife, SameLifeKept
  <2>. QED  BY <2>1, <2>2
<1>2. CASE UNCHANGED vars
  BY <1>0, <1>2 DEF vars, memory, LifeOf
<1>. QED  BY <1>1, <1>2, NextIsSteps

\* What the steps of spawnFn, threadEntry and joinFn say about each other's memory holds
\* after any of them, in any interleaving and with any failures.
THEOREM LifeInvariant == Spec => []LifeInv
BY TypeInit, TypeStep, LifeInit, LifeStep, PTL DEF Spec

\* Nothing is used after it is freed.
THEOREM NothingDangles == Spec => []NoDangling
<1>1. LifeInv => NoDangling
  BY DEF LifeInv, LifeOf, NoDangling, Before, Stored, NeedsMemory
<1>. QED  BY <1>1, LifeInvariant, PTL

\* A spawn that fails and a join that returns leave only the memory the code drops.
THEOREM MemoryIsAccounted == Spec => []MemoryAccounted
<1>1. LifeInv => MemoryAccounted
  BY DEF LifeInv, LifeOf, MemoryAccounted, Before, Stored, NeedsMemory
<1>. QED  BY <1>1, LifeInvariant, PTL

\* A join answers after the worker has ended, with its register 0 or nil.
THEOREM JoinsAnswer == Spec => []JoinAnswers
<1>1. LifeInv => JoinAnswers
  BY DEF LifeInv, LifeOf, JoinAnswers
<1>. QED  BY <1>1, LifeInvariant, PTL
=============================================================================
