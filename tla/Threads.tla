------------------------------ MODULE Threads ------------------------------
(***************************************************************************)
(* The life of spawned threads in src/stdlib/thread.zig: spawnFn allocates *)
(* a handle and a SpawnInfo, starts the operating-system thread and only   *)
(* then fills the handle in; threadEntry runs the function on a virtual    *)
(* machine whose memory is an arena, stores a deep copy of the result in   *)
(* the handle, frees the SpawnInfo and drops the arena; joinFn waits for   *)
(* the thread, copies the result once more and frees copy and handle.      *)
(*                                                                         *)
(* The main thread is in at most one of these calls at a time; the workers *)
(* run beside it.  Worker w sends to main over a channel of its own, which *)
(* is the bounded FIFO that module Channel implements (one sender, one     *)
(* receiver).  Memory is the set `heap` of live page-allocator objects and *)
(* the state of each worker's arena.                                       *)
(***************************************************************************)
EXTENDS Naturals, Sequences

CONSTANTS Worker,   \* the spawn calls the main thread makes
          Kind,     \* kinds of value a worker sends or returns
          Failures, \* what may fail: "memory", "thread" (its start), "function"
          Bound,    \* messages a channel holds: CHANNEL_CAP - 1
          MaxSends  \* bound: sends by each worker

ASSUME ThreadsAssumption == /\ Kind \subseteq {"plain", "heap", "opaque"}
                            /\ Failures \subseteq {"memory", "thread", "function"}
                            /\ Bound \in Nat \ {0}
                            /\ MaxSends \in Nat

(***************************************************************************)
(* What a value is, as far as memory goes: "plain" needs none (a number, a *)
(* boolean, a constant string), "heap" is a string, vec, struct or builder,*)
(* "opaque" is a function or a channel.                                    *)
(***************************************************************************)
NeedsMemory == {"heap", "opaque"}
Value == {"plain", "heap", "opaque", "nil"}

Object == {"handle", "info", "copy"} \X Worker

VARIABLES main,    \* the worker whose spawn or join the main thread is in
          spawnPc, \* step of spawnFn
          childPc, \* step of threadEntry
          joinPc,  \* step of joinFn
          result,  \* ThreadHandleObj.result
          reg0,    \* register 0 of the worker's machine when it stops
          answer,  \* what join returned
          heap,    \* live objects of the page allocator
          arena,   \* the worker's arena: "none", "live", "freed"
          queue,   \* the worker's channel: kinds of the messages in it
          sends,   \* how many messages the worker has sent
          got      \* whether every message main received was still live

memory == <<heap, arena>>
channel == <<queue, sends, got>>
vars == <<main, spawnPc, childPc, joinPc, result, reg0, answer, memory, channel>>

None == "none"

TypeOK ==
  /\ main \in Worker \cup {None}
  /\ spawnPc \in [Worker -> {"idle", "info", "thread", "store_thread",
                             "store_result", "returned", "failed"}]
  /\ childPc \in [Worker -> {"none", "running", "store", "free_info", "leave", "exited"}]
  /\ joinPc \in [Worker -> {"idle", "wait", "clone", "destroy", "release", "returned"}]
  /\ result \in [Worker -> Value \cup {"undefined"}]
  /\ reg0 \in [Worker -> Value]
  /\ answer \in [Worker -> Value \cup {"undefined"}]
  /\ heap \subseteq Object
  /\ arena \in [Worker -> {"none", "live", "freed"}]
  /\ queue \in [Worker -> Seq(Kind)]
  /\ sends \in [Worker -> 0 .. MaxSends]
  /\ got \in BOOLEAN

Init == /\ main = None
        /\ spawnPc = [w \in Worker |-> "idle"]
        /\ childPc = [w \in Worker |-> "none"]
        /\ joinPc = [w \in Worker |-> "idle"]
        /\ result = [w \in Worker |-> "undefined"]
        /\ reg0 = [w \in Worker |-> "nil"]
        /\ answer = [w \in Worker |-> "undefined"]
        /\ heap = {}
        /\ arena = [w \in Worker |-> "none"]
        /\ queue = [w \in Worker |-> <<>>]
        /\ sends = [w \in Worker |-> 0]
        /\ got = TRUE

-----------------------------------------------------------------------------
(* spawnFn *)

SpawnCreateHandle(w) ==
  /\ main = None /\ spawnPc[w] = "idle"
  /\ main' = w
  /\ spawnPc' = [spawnPc EXCEPT ![w] = "info"]
  /\ heap' = heap \cup {<<"handle", w>>}
  /\ UNCHANGED <<childPc, joinPc, result, reg0, answer, arena, channel>>

SpawnNoHandle(w) ==
  /\ "memory" \in Failures
  /\ main = None /\ spawnPc[w] = "idle"
  /\ spawnPc' = [spawnPc EXCEPT ![w] = "failed"]
  /\ UNCHANGED <<main, childPc, joinPc, result, reg0, answer, memory, channel>>

SpawnCreateInfo(w) ==
  /\ spawnPc[w] = "info"
  /\ spawnPc' = [spawnPc EXCEPT ![w] = "thread"]
  /\ heap' = heap \cup {<<"info", w>>}
  /\ UNCHANGED <<main, childPc, joinPc, result, reg0, answer, arena, channel>>

\* Faulty variant: the error path forgets what was allocated before.
SpawnFailsLeaking(w, freed) ==
  /\ spawnPc' = [spawnPc EXCEPT ![w] = "failed"]
  /\ main' = None
  /\ UNCHANGED <<childPc, joinPc, result, reg0, answer, memory, channel>>

\* A failed allocation or thread start frees what spawnFn allocated before it.
SpawnFails(w, freed) ==
  /\ spawnPc' = [spawnPc EXCEPT ![w] = "failed"]
  /\ heap' = heap \ freed
  /\ main' = None
  /\ UNCHANGED <<childPc, joinPc, result, reg0, answer, arena, channel>>

SpawnNoInfo(w) == /\ "memory" \in Failures
                  /\ spawnPc[w] = "info"
                  /\ SpawnFails(w, {<<"handle", w>>})

SpawnNoThread(w) == /\ "thread" \in Failures
                    /\ spawnPc[w] = "thread"
                    /\ SpawnFails(w, {<<"handle", w>>, <<"info", w>>})

SpawnStartThread(w) ==
  /\ spawnPc[w] = "thread"
  /\ spawnPc' = [spawnPc EXCEPT ![w] = "store_thread"]
  /\ childPc' = [childPc EXCEPT ![w] = "running"]
  /\ arena' = [arena EXCEPT ![w] = "live"]
  /\ UNCHANGED <<main, joinPc, result, reg0, answer, heap, channel>>

SpawnStoreThread(w) ==
  /\ spawnPc[w] = "store_thread"
  /\ spawnPc' = [spawnPc EXCEPT ![w] = "store_result"]
  /\ UNCHANGED <<main, childPc, joinPc, result, reg0, answer, memory, channel>>

\* The worker has been running since SpawnStartThread.
SpawnStoreResult(w) ==
  /\ spawnPc[w] = "store_result"
  /\ spawnPc' = [spawnPc EXCEPT ![w] = "returned"]
  /\ result' = [result EXCEPT ![w] = "nil"]
  /\ main' = None
  /\ UNCHANGED <<childPc, joinPc, reg0, answer, memory, channel>>

Spawn(w) == \/ SpawnCreateInfo(w) \/ SpawnNoInfo(w) \/ SpawnStartThread(w)
            \/ SpawnNoThread(w) \/ SpawnStoreThread(w) \/ SpawnStoreResult(w)

-----------------------------------------------------------------------------
(* threadEntry *)

\* Faulty variant: the worker waits with room for one message left.
ChildSendOneShort(w) ==
  /\ childPc[w] = "running"
  /\ sends[w] < MaxSends
  /\ Len(queue[w]) < Bound - 1
  /\ \E k \in Kind : queue' = [queue EXCEPT ![w] = Append(@, k)]
  /\ sends' = [sends EXCEPT ![w] = @ + 1]
  /\ UNCHANGED <<main, spawnPc, childPc, joinPc, result, reg0, answer, memory, got>>

\* The function sends a value of its own; sendFn stores the value as it is.
ChildSend(w) ==
  /\ childPc[w] = "running"
  /\ sends[w] < MaxSends
  /\ Len(queue[w]) < Bound
  /\ \E k \in Kind : queue' = [queue EXCEPT ![w] = Append(@, k)]
  /\ sends' = [sends EXCEPT ![w] = @ + 1]
  /\ UNCHANGED <<main, spawnPc, childPc, joinPc, result, reg0, answer, memory, got>>

\* child_vm.run() ends and the function's value is in register 0.
ChildReturns(w) ==
  /\ childPc[w] = "running" /\ sends[w] = MaxSends
  /\ childPc' = [childPc EXCEPT ![w] = "store"]
  /\ \E v \in Kind : reg0' = [reg0 EXCEPT ![w] = v]
  /\ UNCHANGED <<main, spawnPc, joinPc, result, answer, memory, channel>>

\* Faulty variant: the registers of the worker's machine do not start as nil.
ChildFailsUninitialised(w) ==
  /\ "function" \in Failures
  /\ childPc[w] = "running"
  /\ childPc' = [childPc EXCEPT ![w] = "store"]
  /\ \E v \in Kind \cup {"undefined"} : reg0' = [reg0 EXCEPT ![w] = v]
  /\ UNCHANGED <<main, spawnPc, joinPc, result, answer, memory, channel>>

\* run() ends with an error, which is ignored: register 0 holds whatever the
\* function kept there, its first argument if it has one.
ChildFails(w) ==
  /\ "function" \in Failures
  /\ childPc[w] = "running"
  /\ childPc' = [childPc EXCEPT ![w] = "store"]
  /\ \E v \in Kind \cup {"nil"} : reg0' = [reg0 EXCEPT ![w] = v]
  /\ UNCHANGED <<main, spawnPc, joinPc, result, answer, memory, channel>>

\* Faulty variant: the value itself, still in the arena, instead of a copy.
ChildStoreResultUncopied(w) ==
  /\ childPc[w] = "store"
  /\ childPc' = [childPc EXCEPT ![w] = "free_info"]
  /\ result' = [result EXCEPT ![w] = reg0[w]]
  /\ UNCHANGED <<main, spawnPc, joinPc, reg0, answer, memory, channel>>

\* info.handle.result = cloneValue(registers[0], page_allocator) catch .nil
\* A clone that runs out of memory half way through a vec or a struct keeps the
\* items it has cloned already.
ChildStoreResult(w) ==
  /\ childPc[w] = "store"
  /\ childPc' = [childPc EXCEPT ![w] = "free_info"]
  /\ \/ /\ result' = [result EXCEPT ![w] = reg0[w]]
        /\ heap' = IF reg0[w] \in NeedsMemory THEN heap \cup {<<"copy", w>>} ELSE heap
     \/ /\ "memory" \in Failures
        /\ reg0[w] \in NeedsMemory
        /\ result' = [result EXCEPT ![w] = "nil"]
        /\ heap' \in {heap, heap \cup {<<"copy", w>>}}
  /\ UNCHANGED <<main, spawnPc, joinPc, reg0, answer, arena, channel>>

ChildFreeInfo(w) ==
  /\ childPc[w] = "free_info"
  /\ childPc' = [childPc EXCEPT ![w] = "leave"]
  /\ heap' = heap \ {<<"info", w>>}
  /\ UNCHANGED <<main, spawnPc, joinPc, result, reg0, answer, arena, channel>>

\* The defers: child_vm.deinit, then arena.deinit; then the thread is gone.
ChildLeave(w) ==
  /\ childPc[w] = "leave"
  /\ childPc' = [childPc EXCEPT ![w] = "exited"]
  /\ arena' = [arena EXCEPT ![w] = "freed"]
  /\ UNCHANGED <<main, spawnPc, joinPc, result, reg0, answer, heap, channel>>

ChildRuns(w) == \/ ChildSend(w) \/ ChildReturns(w)
                \/ ChildStoreResult(w) \/ ChildFreeInfo(w) \/ ChildLeave(w)

-----------------------------------------------------------------------------
(* joinFn, called once for a handle that spawn returned *)

JoinBegin(w) ==
  /\ main = None /\ spawnPc[w] = "returned" /\ joinPc[w] = "idle"
  /\ main' = w
  /\ joinPc' = [joinPc EXCEPT ![w] = "wait"]
  /\ UNCHANGED <<spawnPc, childPc, result, reg0, answer, memory, channel>>

\* Faulty variant: join does not wait for the thread.
JoinWaitNot(w) ==
  /\ joinPc[w] = "wait"
  /\ joinPc' = [joinPc EXCEPT ![w] = "clone"]
  /\ UNCHANGED <<main, spawnPc, childPc, result, reg0, answer, memory, channel>>

JoinWait(w) ==
  /\ joinPc[w] = "wait" /\ childPc[w] = "exited"
  /\ joinPc' = [joinPc EXCEPT ![w] = "clone"]
  /\ UNCHANGED <<main, spawnPc, childPc, result, reg0, answer, memory, channel>>

JoinClone(w) ==
  /\ joinPc[w] = "clone"
  /\ joinPc' = [joinPc EXCEPT ![w] = "destroy"]
  /\ \/ answer' = [answer EXCEPT ![w] = result[w]]
     \/ /\ "memory" \in Failures
        /\ result[w] \in NeedsMemory
        /\ answer' = [answer EXCEPT ![w] = "nil"]
  /\ UNCHANGED <<main, spawnPc, childPc, result, reg0, memory, channel>>

\* Faulty variant: the copy of the result is not freed.
JoinDestroyNothing(w) ==
  /\ joinPc[w] = "destroy"
  /\ joinPc' = [joinPc EXCEPT ![w] = "release"]
  /\ UNCHANGED <<main, spawnPc, childPc, result, reg0, answer, memory, channel>>

\* destroyValue frees strings, vecs, structs and builders and nothing else.
JoinDestroy(w) ==
  /\ joinPc[w] = "destroy"
  /\ joinPc' = [joinPc EXCEPT ![w] = "release"]
  /\ heap' = IF result[w] = "heap" THEN heap \ {<<"copy", w>>} ELSE heap
  /\ UNCHANGED <<main, spawnPc, childPc, result, reg0, answer, arena, channel>>

JoinRelease(w) ==
  /\ joinPc[w] = "release"
  /\ joinPc' = [joinPc EXCEPT ![w] = "returned"]
  /\ heap' = heap \ {<<"handle", w>>}
  /\ main' = None
  /\ UNCHANGED <<spawnPc, childPc, result, reg0, answer, arena, channel>>

Join(w) == JoinWait(w) \/ JoinClone(w) \/ JoinDestroy(w) \/ JoinRelease(w)

-----------------------------------------------------------------------------
(* thread.recv by the main thread between its other calls *)

IsLive(k, w) == k \in NeedsMemory => arena[w] = "live"

MainRecv(w) ==
  /\ main = None
  /\ queue[w] # <<>>
  /\ queue' = [queue EXCEPT ![w] = Tail(@)]
  /\ got' = (got /\ IsLive(Head(queue[w]), w))
  /\ UNCHANGED <<main, spawnPc, childPc, joinPc, result, reg0, answer, memory, sends>>

-----------------------------------------------------------------------------
Next == \E w \in Worker : \/ SpawnCreateHandle(w) \/ SpawnNoHandle(w) \/ Spawn(w)
                          \/ ChildRuns(w) \/ ChildFails(w)
                          \/ JoinBegin(w) \/ Join(w)
                          \/ MainRecv(w)

Spec == Init /\ [][Next]_vars

\* Threads inside a call keep running; which calls main makes is up to the
\* program.  A worker's function does end once it has made its sends; nothing
\* obliges it to fail.
FairSpec == /\ Spec
            /\ \A w \in Worker : /\ WF_vars(Spawn(w))
                                 /\ WF_vars(ChildRuns(w))
                                 /\ WF_vars(Join(w))

-----------------------------------------------------------------------------
(* Properties *)

\* Nothing is used after it is freed: spawnFn's late stores and joinFn find
\* the handle, the worker finds its SpawnInfo and the handle, and the result a
\* join copies and frees is a live copy, never memory of the dropped arena.
NoDangling ==
  \A w \in Worker :
    /\ spawnPc[w] \in {"store_thread", "store_result"} => <<"handle", w>> \in heap
    /\ childPc[w] \in {"running", "store"} => /\ <<"info", w>> \in heap
                                              /\ <<"handle", w>> \in heap
                                              /\ arena[w] = "live"
    /\ childPc[w] = "free_info" => <<"info", w>> \in heap
    /\ joinPc[w] \in {"wait", "clone", "destroy", "release"} => <<"handle", w>> \in heap
    /\ joinPc[w] \in {"clone", "destroy"} /\ result[w] \in NeedsMemory
         => <<"copy", w>> \in heap

\* A spawn that failed leaves no object and no thread behind.  After a join
\* the handle and the SpawnInfo are gone, and the worker's copy stays only if
\* spawnFn's late store dropped the pointer, the clone failed half way, or
\* destroyValue does not free it.
MemoryAccounted ==
  \A w \in Worker :
    /\ spawnPc[w] = "failed" =>
         /\ childPc[w] = "none"
         /\ \A o \in {"handle", "info", "copy"} : <<o, w>> \notin heap
    /\ joinPc[w] = "returned" =>
         /\ <<"handle", w>> \notin heap /\ <<"info", w>> \notin heap
         /\ <<"copy", w>> \in heap => result[w] \in {"nil", "opaque"}

\* When a join has returned the worker is gone, and the answer is what the
\* worker left in register 0, or nil: never a value of a function still
\* running, nor the undefined contents of a handle nobody has filled in yet.
JoinAnswers == \A w \in Worker :
                 joinPc[w] = "returned" => /\ childPc[w] = "exited"
                                           /\ answer[w] \in {reg0[w], "nil"}

\* What the steps of the three functions say about each other's memory: the strengthening
\* of the three properties above that each step preserves.  The copy of the result appears
\* only when the worker stores it and is there until join destroys it; SpawnInfo lives from
\* its creation until the worker frees it, the arena as long as the worker's machine.
Before == {"idle", "info", "thread", "failed"}
Stored == {"free_info", "leave", "exited"}
LifeOf(w) ==
    /\ childPc[w] = "none" <=> spawnPc[w] \in Before
    /\ joinPc[w] # "idle" => spawnPc[w] = "returned"
    /\ joinPc[w] \in {"clone", "destroy", "release", "returned"} => childPc[w] = "exited"
    /\ <<"handle", w>> \in heap <=> spawnPc[w] \notin {"idle", "failed"} /\ joinPc[w] # "returned"
    /\ <<"info", w>> \in heap <=> spawnPc[w] = "thread" \/ childPc[w] \in {"running", "store", "free_info"}
    /\ arena[w] = "live" <=> childPc[w] \in {"running", "store", "free_info", "leave"}
    /\ <<"copy", w>> \in heap => childPc[w] \in Stored /\ result[w] \in NeedsMemory \cup {"nil"}
    /\ childPc[w] \in Stored => result[w] \in {reg0[w], "nil"}
    /\ result[w] \in NeedsMemory => childPc[w] \in Stored
    /\ result[w] \in NeedsMemory /\ joinPc[w] \notin {"release", "returned"} => <<"copy", w>> \in heap
    /\ joinPc[w] \in {"release", "returned"} => ~ (result[w] = "heap" /\ <<"copy", w>> \in heap)
    /\ joinPc[w] \in {"destroy", "release", "returned"} => answer[w] \in {reg0[w], "nil"}
\* For every worker, whatever the others and main do in between.
LifeInv == \A w \in Worker : LifeOf(w)

\* A join returns unless its worker is stuck in thread.send on a full channel,
\* which only main, busy joining, could empty.
JoinReturnsUnlessFull == \A w \in Worker :
  (joinPc[w] = "wait") ~> (joinPc[w] = "returned" \/ Len(queue[w]) = Bound)

\* SPEC.md, thread.join: "Returns: the return value of the spawned function".
JoinReturnsResult == \A w \in Worker :
                       joinPc[w] = "returned" => answer[w] = reg0[w]

\* SPEC.md, thread.recv: "Returns: the value sent through the channel"; it is
\* still there when recv returns it.
ReceivesLiveValues == got
=============================================================================
