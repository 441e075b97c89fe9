# TLA+ models of the m4 language implementation

m4 is a small indentation-based language. `m4c file.m4` scans, parses and compiles a
file to register bytecode and executes it on a virtual machine; `m4c build`
generates code in QBE's intermediate language, compiles it with the QBE back end in
`src/qbe/` and links it with a C runtime; `m4c lint` type-checks. The
standard library has threads and channels. This directory holds TLA+ models of
the parts whose correctness depends on the order of steps (threads, the path of a source through scanner, parser,
type checker, compiler and virtual machine, the passes of QBE), TLC configurations
that check them on small instances, and TLAPS proofs for all instances.

## 1. Inventory

Paths are relative to `src/src/`, those of QBE to `src/qbe/`.

| Component | State | Operations | Interacts with | Hard because |
|---|---|---|---|---|
| channels, `stdlib/thread.zig` | ring `buf[64]`, `head`, `tail`, `closed` | `channelFn`, `sendFn`, `recvFn` | the threads that hold the channel | lock-free; slots are plain memory; spinning |
| threads, `stdlib/thread.zig` | `ThreadHandleObj`, `SpawnInfo`, the worker's arena and VM | `spawnFn`, `threadEntry`, `joinFn`, `cloneValue`, `destroyValue` | parent VM, worker VM, page allocator, channels | handle filled in after the start; who frees what, when; partial failure |
| globals, `compiler/vm.zig` | hash map, 4-entry cache | `load_global`, `store_global`, `registerNative` | compiler (one constant per use of a name) | stale cache entries, eviction order |
| calls, `compiler/vm.zig` | 256 registers, 64 frames, local `code`/`pc` | `call`, `ret`, native calls | compiler (register numbers) | windows overlap up to the arguments; unsaved loop variables; limits |
| strings, vecs, structs, `compiler/vm.zig`, `object.zig` | heap objects | concatenation, `vec_set`, `struct_set`, `deinit` | globals, threads | builders changed in place; shared by reference |
| compiler, `compiler/compiler.zig` | locals, `reg_count`, loop stack, chunk | one function per construct, twice (top level, functions) | VM | registers reused while live; jump targets |
| scanner, `compiler/scanner.zig` | indentation stack, pending tokens | `nextToken`, `handleIndent` | parser | one stack for indentation and parentheses |
| parser, `compiler/parser.zig` | two tokens, node arena | Pratt parser | scanner, compiler | precedence, newline skipping, recovery |
| type checker, `compiler/type_check.zig` | nested environments, declared types, enclosing function and loop | a check per construct | parser; `lint` only | its scopes and types are not those of the compiler and the machine |
| QBE generator, `compiler/qbe.zig` | scope map, boxedness of temporaries | emit per construct | runtime | boxedness recorded in text order |
| native build, `compiler/qbe_build.zig` | `.m4_cache` files | build | other builds, `cc` | cached object written non-atomically |
| QBE passes, `runtime/qbe_wrap.c`, `cfg.c ssa.c live.c alias.c` | the function: blocks, temporaries, use lists, order, dominators, live sets, aliases | `wrap_func`: 45 or 61 passes in a fixed order | each other, by facts one computes and another reads | facts go stale when code changes; correctness is that of the whole chain |
| QBE optimisation, `mem.c load.c fold.c copy.c gvn.c gcm.c ifopt.c simpl.c` | the same | promote, loadopt, coalesce, gvn, simplcfg, gcm, ifconvert, simpl | analyses | aliasing, widths, instructions that trap, loops |
| QBE for amd64, `amd64/*.c spill.c rega.c` | registers, slots, flags, frame | abi, isel, spill, rega, emit | the machine and its calling convention | limits of registers, parallel moves, flags, immediates |
| QBE, the rest: `parse.c`, data, `arm64/`, `rv64/`, `minic/` | – | – | the build | – |
| runtime, `runtime/m4rt.c` | boxed values | arithmetic, vecs, strings | generated code | raw against boxed |
| `std`, `range`, `fs`, `str` | – | natives | VM | bounds of ranges |
| CLI, REPL, `compiler/cli.zig` | – | commands | everything | a VM per REPL line, threads outlive it |
| diagnostics, formatter, disassembler, `mein` | – | text, files | – | – |

What makes each correct: a channel is a FIFO that loses, repeats, reorders and
invents nothing and in which nobody waits without reason; join returns the
worker's result and nothing is used after it is freed; a load of a global yields
the value stored last; a call is seen by its caller only as the returned value;
the compiler never hands out a register that is still needed and every jump goes
to the construct it belongs to; indents and dedents balance; generated native
code and bytecode agree; the machine code of a function does what its intermediate
code says, after every pass of the back end, and each pass finds the facts it relies on.

The sources as they are in this tree contain three places a strict compiler
rejects (a switch in `cloneValue` without the `thread_handle` case, a `usize`
stored in the eight-bit `base_reg`, an `if` capturing an error union in
`runtimeError`). The models take the evident meaning of each. The default build
mode is Debug, where an integer that overflows and an index out of bounds stop
the program; the models call that outcome `"panic"`.

## 2. Modules

| Module | Models | Abstraction it implements |
|---|---|---|
| `Channel` | `channelFn`, `sendFn`, `recvFn` | `BoundedFifo` |
| `Threads` | `spawnFn`, `threadEntry`, `joinFn`, and sends and receives at message level | – (its channels are what `Channel` implements) |
| `GlobalCache` | `cacheGetGlobal`, `load_global`, `store_global` | `Globals` |
| `VmCalls` | `call`, `ret`, native calls, frames, register windows | `Activations` |
| `Parser` | `scanner.zig` from lines of tokens to indents and dedents; `parser.zig` | – (`ParsesAsWritten` says that the two invert the spelling of a tree) |
| `Ast`, `CodeGen` | the syntax tree; `compiler.zig` from statements to instructions | – |
| `TypeCheck` | `type_check.zig`: what lint says of a tree, and what it passed over | – (`LintedNeverGoesWrong` says what its verdict is worth) |
| `Values`, `Machine` | operators on values, natives; `runSource`, and the run loop, one action per instruction, for any compiled code | `VmCalls`, and with it `Activations` |
| `Meaning`, `Execution` | an evaluator of the syntax tree; sources parsed and compiled for `Machine`, and the comparison of their runs with it | – (`RunsAsWritten` says that they implement `Meaning`) |
| `Pipeline` | `wrap_func`: the passes of QBE in their order, what each requires, and the contract of those that change the function | – |
| `Passes` | the pass each name stands for, and what a function means after it | – (`KeepsMeaning` says that every pass implements what the function was) |
| `IL` | functions of the intermediate language, constants, `ops.h`, helpers of `util.c` | – |
| `Analyses` | `fillcfg` and `filldom` of `cfg.c`, `filluse` of `ssa.c`, `filllive` of `live.c` | `Facts`, by paths; proved |
| `Cfg`, `Ssa` | the rest of `cfg.c`, `ifopt.c` and `simpl.c`; the rest of `ssa.c` | `Facts`, by paths |
| `Mem`, `LoadElim`, `Gvn`, `Gcm` | `alias.c` and `mem.c`; `load.c`; `copy.c`, `fold.c` and `gvn.c`; `gcm.c` | – |
| `Abi`, `Isel`, `RegAlloc`, `Emit` | `amd64/targ.c` and `amd64/sysv.c`, `amd64/isel.c`, `spill.c` and `rega.c`, `amd64/emit.c` | – |
| `ILMeaning`, `Facts`, the second half of `Emit` | nothing of the code: interpreters of the intermediate language and of the machine code, definitions of the facts | – |
| `Eager`, `Loops` | nothing of the code: sequences walked and loops run, and what can be proved of both | – |

`MC*` modules and their `.cfg` files are instances for TLC, `*Proofs` modules hold
the theorems. Definitions introduced by a comment "Faulty variant" are mutations of the
definition after them; no specification uses them. They document which mistake
each property would notice.

### Channel

Each thread has a program counter (`pc`) and the local variables of the running
call (`lhead`, `ltail`, `lval`). Every atomic load and store and every plain access
to a slot is one action, so any interleaving of the machine instructions that
matter is explored: `SendLoadClosed`, `SendLoadHead`, `SendLoadTail` (with the
full test and the retry), `SendWrite`, `SendPublish`; `RecvLoadHead`, `RecvLoadTail`
(with the empty test), `RecvLoadClosed`, `RecvRead`, `RecvRelease`. Acquire and release
order the slot accesses with the index accesses, so interleaving of these
steps is the whole behaviour as long as slot accesses do not race, which is
what `NoSlotRace` says. No code stores anything but 0 in `closed`, so the paths
for a closed channel have no action. `sent` and `rcvd` are history variables.

### Threads

`main` is the spawn or join the main thread is in; `spawnPc`, `childPc`, `joinPc`
are the steps of the three functions, one action for each statement that another
thread or the allocator can notice. Memory is `heap`, the set of page-allocator
objects alive (handle, SpawnInfo, the copy of the result), and the worker's
`arena`. A value is its kind: plain, heap (string, vec, struct, builder) or opaque
(function, channel), because cloning and destroying tell only these apart.
`Failures` says what may fail: allocations, the start of the thread, the function.
A clone that fails half way may keep items it has already copied.

### GlobalCache

A `Site` is a place in the program that loads a global: the compiler makes a
constant for each, and the cache recognises the constant's slice. `NameOf` gives
its name, by which `store_global` searches. `Reassigned` are the names stored more
than once. The correctness assumption `OneReaderPerReassigned` (used by the proof and
satisfied by the passing instance) is exactly what the run `globals_stale` lacks.

### VmCalls

`frames` is the frame stack, `code` and `pc` the run loop's own variables, which agree
with the frames only if every call and return maintains them. Instructions other
than call, ret and halt are `Compute` (writes one register) and `Jump`; their errors
are `Fails`. `used` is a history variable: for each frame the registers whose contents its
code may still rely on. A call gives up the registers above its arguments, which is how
the compiler generates calls; that compiled programs call in no other way is what `Machine`
shows by implementing this module.
`CallCompiled` is the part of the compiler's convention that the VM relies on: the
callee and arguments are consecutive and the result register is above them.

The refinement `ImplementsActivations` maps frame *i* to an activation with
registers of its own: the function from `used[i]` to the contents of the shared
registers in its window. `Activations` says what a caller may see of a callee.

### Scanner and Parser

A source is a sequence of lines, and a line the column it starts at and its tokens: the characters inside a token decide nothing that is
checked. `Scan` goes through the lines with `indent_stack`, which holds columns and, for each open parenthesis, the sentinel; the
pending tokens need no variable, because the whole token sequence is made at once (the parser never asks the scanner to go back or to change).
What a wrong column leaves behind is kept: the scanner reports an error, forgets where in the line it is, and on the next call takes the rest for a line that is not indented.

`Parser` has an operator for each function of `parser.zig`, from the tokens that are left to the tokens that are left and the node; a refusal
goes through to the end as the Zig error does. `advanceRaw` drops newline and error tokens, so that both are invisible to everything after it (except that an error makes
`parse` fail in the end). An annotation is in the tree as the one node the code makes of it; the types of a struct's fields are parsed and dropped, since nothing reads them.

`MCExecution` spells every tree with the fewest parentheses that keep it apart from other trees, lays it out with a column per level, and
states the pair: the source and the tree. The parser has to find the tree again (`ParsesAsWritten`). To the trees that programs need it adds all pairs of operators
in both groupings, all operators as operands of a sign, a negation, `?` and an index; the same statements with every line broken
after its first parenthesis; and sources laid out by hand: columns 1, 2, 3, 4, 6 and more, several blocks closed by one line, blank lines and comments, spaces at the end of the file,
a struct literal over several lines, and eleven ill-formed ones that have to be refused.

Sources that are left out, because they do not mean what they look like:

- newline tokens never reach the parser (`parser.zig:366`), although `SPEC.md:147` has statements end at them. So a `let` or `mut` without a value or type, and a `ret` without a value that does not end its block, take
  what the next line begins with; and a line that begins with `(`, `[` or `-` continues the one before it;
- a type annotation is one prefix expression (`parser.zig:105`): `vec[i32]` is the annotation `vec`, and `[i32] = ...` a statement of its own;
- an assignment to an element or a field is accepted and compiled to its value only (`compiler.zig:466`).

### CodeGen, Machine and Meaning

`CodeGen` is the compiler as an operator: `Compile(stmts)` yields the instructions of every
function and of the top level. Each construct of the language is one operator that takes the state
of the compilation (code, locals, next free register, loops) and returns the next one, as the
source's functions change `chunk`, `locals`, `reg_count` and `loop_stack`. The source has two copies of
everything; what differs between them is decided by the field `top`, and every program is
compiled both ways. `Meaning` is the reference: no registers, no jumps, no builders. It
shares with `Machine` only `Values`, what an operator does with two values.

`Machine` has one action for what happens before the run (`RunSource`) and one per kind of instruction, on registers, frames, globals and
the objects values point to. Builders, vecs and structs are on a `heap`: concatenation changes a builder in place, and `eq`
compares vecs and structs by address. It knows nothing of the compiler: what a program is compiled to is the constant operator
`Translation`, which `Execution` defines by the scanner, the parser and `CodeGen`. So it describes the run loop on any code, and can be
proved about although the compiler is recursive. An instruction first reads its registers, and `base + operand`
has eight bits: an operand past the last register stops the program (`PastLastRegister`, and the last branch of `Yield`). A call
tests only that the new window begins inside the array, so the copies of the arguments and the result have a stop of their own (`CallCopiesPastEnd`).

`WellFormed` says what code the run loop can be trusted with: jumps land inside the function, operands are registers, `load_const`
loads no handle, and a call finds its callee and its arguments side by side in registers that have been written on every
way to it, and has its result above them. "Written on every way" needs a set of registers for each instruction: `t.inUse`, a
certificate that comes with the code. `CanRun` checks it instruction by instruction, as a bytecode verifier does; `Execution` computes it (`InUse`) as the greatest one there is.
`Machine` reads and writes the map of the globals without the four-entry cache in front of it, which `GlobalCache` models:
`GlobalCacheProofs!CacheImplementsGlobals` says when that makes no difference, and `globals_stale` when it does.

Annotations and mutability are in the tree, but the compiler and `Meaning` ignore types, as `m4c file.m4` does: it
runs no type checker, though `SPEC.md:159` says that bindings and signatures are checked at compile time. Natives are `std.print`, whose arguments
are the observable output, `std.range` and `range.range`, present when the source uses their modules; a dotted callee is the name of a global.
What precedes a run does not depend on the state, so `Translated` holds it for all programs, and TLC evaluates it once.

`MCExecution` builds the programs: every pair of forms of expression with locals, calls and nested literals as operands; every
error; every statement in the contexts where it matters (nested loops, esc from an
inner loop, branches, returns from a loop, recursion, builders); each at top level and in
`main`; and programs that run into the end of the register array in each way there is (`Tight`).

`Meaning` knows nothing of registers, jumps and frames, but it takes what an operator, an index or a native function gives for its operands from `Values`, as the
machine does, and `Values` is translated from the code. So `RunsAsWritten` says that the right operations happen to the right values in the right order and stop where
they should; it cannot say that one operation gives what the documentation promises. Where it is known not to, programs are left out. Some programs are left out, because the code is known to differ from the meaning and one such
program would hide all others:

- a sum of a string and an integer, and a negative index: the machine answers with an error where the documentation promises a value or another error (the list
  in section 3);
- a `for` whose body has a `continue`: it jumps past the increment (`compiler.zig:365`) and never ends;
- a `for` whose body has an expression statement, or an `if` with one, that is not the last statement of the body, unless a local declared in the body
  protects the registers of the loop: that is the run `execution_for`;
- a `let` in a block of the top level (`compiler.zig:197`): a later call moves an argument onto it;
- two variables that hold the same string builder (`vm.zig:609`), whose contents change together;
- names declared twice, calls with a wrong number of arguments, a call of a local variable, the value of a bare `ret` (register 0, whatever it holds),
  equality of vecs and structs (identity), floats.

The remainder of the smallest integer and -1 is taken to be 0; the code tests for this pair in a division (`vm.zig:283`) and not here, and what the
processor makes of it is left out.

`With` and `Each` (module `Eager`) bind a value strictly; TLC would otherwise evaluate a tree's compilation once
for each mention of it. `CodeGen`, `TypeCheck` and `Meaning` need recursive operators over trees, so no module that reaches them holds a theorem.

### TypeCheck

`Check(stmts)` goes through a tree with the environments (innermost last), the declared types, the result type of the
enclosing function, `in_loop`, and the codes reported so far. `Child` and `Leave` are `TypeEnv.child` and the `deinit` after it. An
error does not stop the check, as in the code: the expression gets the type the code gives it (mostly `i32`) and the check goes on.

What does an accepted program guarantee? `LintedNeverGoesWrong` compares lint's verdict with the run: a program lint accepts without
having overlooked anything is not refused by the compiler, names no unknown global, calls only functions and applies operators only to values of
the right types (it can still overflow, divide by zero, leave a vec's bounds or run out of frames). "Overlooked" is a ghost of the model, `blind`: nine forms that the checker passes
without looking, each of which is needed, since the property fails when it is removed:

- *operand*: what stands before an index, in the index or before `?`, and the fields of a struct literal; an index and a `?` are simply `i32` (`type_check.zig:398`);
- *order*: `<` and its kin on booleans (`type_check.zig:424`), which the machine answers with `r005`;
- *unset*: a variable without a value has its type, or `i32`, but holds nil;
- *end*: a function with a result may fall off its end and return nil;
- *outer*: a variable of the top level used in a function. Locals of `main` and variables of top-level blocks are no globals, and even a
  global is set only when its `let` has run;
- *held*: a call of a function that a variable holds: the machine looks up a global of the variable's name;
- *nested*: functions, `use` and `type` inside functions, and functions inside loops: the compiler takes no declaration there;
- *shadow*: a variable of a block stays known to the compiler until the function ends, so an outer one of the same name is hidden after the block;
- *redefined*: the second function of a name replaces the first everywhere on the machine, for lint only from there on.

The programs of `MCExecution` have annotations where lint needs them; about 600 of the 1535 sources are accepted, about 340 of them with nothing
overlooked, and the rest are refused by every kind of check.

### Pipeline and the modules of the passes

The state is a function (`fn`), the passes still to do (`todo`) and the level of optimisation; the one action
applies the next pass. A pass is an operator from functions to functions, because in the code it is one: it runs alone, to
its end, on data nobody else holds, and no other thread or callback sees it half way. What TLC explores is therefore not interleaving but sequence: the
functions of `MCPipeline`, each through the 45 (fast) or 61 (small) passes, with every property evaluated after every pass.

`fn` has the fields of the C structures under their names (`rpo`, `pred`, `idom`, `fron`, `in`, `out`, `tmp[t].use` ...).
They are recomputed only by the passes that recompute them in the code, so a field a pass leaves stale is stale in the model
too: `GraphIsCurrent`, `UsesAreCurrent`, `DominatorsAreCurrent`, `SsaIsCurrent` and `LivenessIsCurrent` compare them with `Facts` whenever
the comment above the next pass says that it requires them. Linked lists and bit sets are sequences and sets; where the order of
a list decides the outcome (uses, predecessors, registers tried) it is kept. Recursion over the flow graph, worklists and
fixed points are the algorithms of the code, not their results; in `Analyses` they are the loops `Each` and `While` of `Eager`, which can be proved about, elsewhere mostly recursive operators. References are tuples that name their kind; a constant holds its value instead of an index.

`ILMeaning` runs a function on an input and yields what can be observed: the calls with their arguments, how it ends
(return, halt, trap, more blocks than `MaxBlocks`) and the result. It interprets every stage: before SSA, with phis, with
fixed registers, with slots, after allocation; a call leaves junk in every register it may change.
The second half of `Emit` does the same for what the first produces, including the flags, the stack pointer and its alignment at calls, the return address
and saved registers. `KeepsMeaning` compares the two after each pass.

`Pipeline` itself knows only the passes that analyse; what the others make of a function is its parameter `Transform`, which `Passes` defines
as translated from the code and `MCPipeline` puts in. `PassesKeepContract` says what the analysing passes rely on: every other pass leaves each block
linked once and every jump to a linked block; before instruction selection, each temporary with its entry in `tmp`; after it, only registers and
temporaries as operands; and the passes that do not touch the graph leave jumps, order and predecessors alone. It is checked after every pass of the run, and the theorems
of section 4 take nothing else of these passes.

Sizes are scaled: a byte has `ByteBits = 2` bits, so a word has 8 and a long 16, and the limits written as powers of two in the code are taken at the same fraction of the width.
The machine has 6 registers to allocate (4 changed by calls, 2 kept) where amd64 has 14,
and passes 2 arguments in registers where it passes 6: small functions spill, pass arguments on the stack, and need cycles of moves.

Not modelled: floating point, aggregates (`:type` parameters and results), variadic calls and environments, line information (`dbgloc`), external, thread-local
and position-independent symbols, the text of the assembly, and other targets. Five kinds of functions are kept out of `MCPipeline` because the vendored
sources are known to miscompile them (each was confirmed by running the binary) and they would hide everything else:

- a branch on the result of a shift by a variable: with a count of zero the shift leaves the flags alone, and the jump tests old ones (`amd64/isel.c:499`, `ops.h` marks
  shifts as setting the zero flag);
- a slot written with `storew` and read with `=l loadsw` or `loaduw`: `promote` makes the load a plain copy and loses the extension (`mem.c:60`);
- an address that adds two symbols: `adisp` goes on when `addcon` refuses, and one is lost (`amd64/isel.c:797`);
- `jnz` of a long constant whose low word is zero: `dedupjmp` looks at all 64 bits, the branch at 32 (`gvn.c:394`);
- in a function without calls an `alloc4` before an `alloc16`: without a frame pointer the offset of the slots
  is from `rsp`, which is not aligned there (`amd64/emit.c:164`), while `doc/il.txt:780` promises alignment.

No run is spent on them: none is about code this repository writes, and the code generator of m4 emits none of these.

## 3. Runs

| Run | Question | Answer and instance |
|---|---|---|
| `channel_spsc` | Is the ring a FIFO of `CHANNEL_CAP - 1` for one sender and one receiver, and does anyone wait without reason? | It is (refinement, invariants), and nobody does under fairness of the running calls. Ring of 3, 5 sends, two messages: every index wraps, full and empty both occur, stale heads occur. |
| `channel_two_senders` | May two threads send? | Violated: receive returns nil nobody sent. |
| `threads_safe` | Use after free, leaks on failure, unfilled results; does join return? | Hold, and join returns unless the worker waits on a full channel. Two workers, two sends each, a channel of one message, all failures. |
| `threads_result` | Does join return the result? | Violated: the late `handle.result = .nil`. |
| `threads_recv` | Is a received value alive? | Violated when the worker has ended. |
| `globals_cache` | Is the cache invisible? | It is, with 5 sites and 4 entries: entries are evicted, reloaded, and promoted from every place. |
| `globals_stale` | … when a reassigned variable is read at two places? | Violated: one of two entries is refreshed. |
| `vm_calls` | Do windows stay apart, are registers private in effect? | They do, they are (refinement): 4 registers, 3 frames, a function, a native, a string builder and one more value. |
| `vm_args` | Are there registers for the arguments of every function entered? | Violated near the last register. |
| `execution_written` | Is a source parsed into the tree it spells, does the compiled program do what it says, and what is lint's word worth? | It is and it does, but for the differences named below: 1535 sources give their tree or are refused as they should; what is run is well-formed code; output and way of ending agree with `Meaning`, at top level and in functions; loops that end by their meaning end on the machine; `pc` stays in the code, integers in their range, and handles point to their objects; callers keep their registers; every run is a run of `VmCalls`; what lint accepts with nothing overlooked does not go wrong (54 547 states). |
| `qbe` | Does the machine code do what the function says, and does each pass find what it requires? | It does, after each pass: 15 functions, both levels, 2 or 3 inputs each (1620 states); no pass runs out of registers; every instruction exists. |
| `execution_for` | Does a `for` visit every element? | Violated: the registers of its index and length are reused after an expression statement in its body. |

The models show seven more places where code and documentation differ; no run
is spent on them because each is visible in one guard:

- `+` of a string and an integer, in either order, ends with `r002` (`vm.zig:247`; the first branch of `Arithmetic`), while `SPEC.md:435` prints
  `line 1` for `"line " + 1`, and `SPEC.md:471` adds an integer to a string too;
- a negative index is cast to an unsigned type and stops the process (`vm.zig:519`; `panic` in `ElementOf`), while `SPEC.md:770`
  has `r008` for any index outside the valid range;
- no native function raises `r015` (`SPEC.md:777`): the modelled ones return nil for arguments they cannot use (`NativeResult`), as the comment
  at `range.zig:14` says;

- the channel has room for `CHANNEL_CAP - 1` = 63 messages (`IsFull`, `thread.zig:154`; `BoundedFifo`
  is instantiated with that bound), while `SPEC.md:639` says 64;
- `r006` is also raised with few frames, when the register window of a call does not fit
  (`CallOverflows`, `vm.zig:437`), while `SPEC.md:768` says it means 64 frames;
- `destroyValue` does not free copies of functions and channels (`JoinDestroy`, `thread.zig:304`; `MemoryAccounted` lets
  exactly these survive a join);
- running a file checks no types (`RunSource` parses, registers and compiles), while `SPEC.md:159` says that bindings and signatures are type-checked at compile time.

Bounds. `Cap = 3` is the smallest ring in which full, empty, part full and wrapped
are four different situations; the proofs cover every `Cap >= 2`. `MaxSends` lets the
indices wrap. Two workers are enough because workers share only the
main thread; a third would add no pair. A channel of one message makes full and
empty both reachable, and two sends make the worker wait. `MemoryKinds` leaves out the plain
values, which behave as heap values that cannot run out of memory. Four cache entries are the source's own number.
Three frames are the least in which a return uncovers a frame that is itself a callee; with 4 registers nested calls, calls with an
argument, and calls that do not fit all occur. `CodeLength = 2` only keeps `pc` finite. No symmetry is used.
`IntMax = 20` makes overflow reachable with small literals and leaves room for every other result; `RegisterCount = 32` is more than
the programs need but for the 17 in `Large`, which run into the end of the registers (when they are compiled, at a call,
and behind one) and may then end differently from their meaning; `CodeLength = 250` is above the longest function; `FramesMax = 4` allows three nested calls below the top level, and one of the programs exceeds it. The programs use at most
three levels of nesting: the compiler's state between constructs is `reg_count`, the locals and the loop stack, and each is in a non-initial state
when the innermost construct is compiled.

The fifteen functions of `MCPipeline` were chosen by the statements of the passes they reach: loops with calls, slots that share memory,
partial overlapping stores, more values than registers across calls, stack arguments, selections, division by constants and by zero, swaps and
rotations of values at the end of a loop, nested loops with common expressions, an allocation inside a loop, constant
branches, blits and addresses with base, index and scale, stored values forwarded whole and in pieces across joins, copies of memory read in
pieces that match no store, every operation on constants, narrow values that are masked and extended, words and longs spilled across calls.
The inputs of each take every branch that can be taken and include the largest values.

Deadlock checking is off where the modelled program ends: when all threads are joined, when
a load fails with r001, when the VM run or the program ends. In `channel_spsc` it is on.

Fairness. `Channel!FairSpec` and `Threads!FairSpec` assume weak fairness of a thread that is
inside a call: the operating system keeps scheduling it (the loops yield), and each step is
always enabled until taken, so strong fairness would add nothing. No thread is assumed to start
another call, and no failure is assumed to happen. `ChildRuns` being fair assumes that the worker's
function ends if its sends do. `Machine!FairSpec` assumes only that the interpreter does not stop between two
instructions; the machine is deterministic.

## 4. Proofs

| Theorem | Says |
|---|---|
| `ChannelProofs!TypeCorrect`, `RingInvariant`, `FifoOrderHolds`, `NoSlotRaceHolds` | the ring's safety for one sender and one receiver, for every capacity, message set and number of sends |
| `ChannelProofs!ChannelImplementsFifo` | the refinement to `BoundedFifo` |
| `GlobalCacheProofs!TypeCorrect`, `CoherentAlways`, `OnlyLastEvicted`, `CacheImplementsGlobals` | only the last entry is dropped; the cache cannot be told from the map, for any cache size, if reassigned names are read at one place |
| `ThreadsProofs!TypeCorrect`, `LifeInvariant`, `NothingDangles`, `MemoryIsAccounted`, `JoinsAnswer` | memory and results of spawned threads, for any number of workers, any failures, any channel size |
| `VmCallsProofs!TypeCorrect`, `WindowsNeverOverlap` | frames and windows, for any number of registers, frames, values |
| `VmCallsProofs!CallsImplementActivations` | the refinement to `Activations` |
| `MachineProofs!TypeCorrect` | on well-formed code `pc` and every saved pc stay in the code, every window in the register array, every handle points to an object of its kind, every integer is in its range, for any programs and any numbers of registers and frames |
| `MachineProofs!CallsRefined` | every run of such code is a run of `VmCalls` |
| `MachineProofs!CallersKeepTheirRegisters` | nothing a callee does, at any depth, changes what a suspended caller still uses |
| `MachineProofs!ActivationsArePrivate` | the machine implements `Activations` |
| `PipelineProofs!TheGraphIsCurrent`, `TheUsesAreCurrent`, `TheLivenessIsCurrent`, `TheDominatorsAreCurrent` | each pass finds the order, predecessors, uses, live sets and dominators of the function as it is then, for any functions and both options, if the passes that change a function keep their contract |
| `AnalysesProofs!FillCfgIsRight`, `FillUseIsRight`, `FillLiveIsRight`, `FillDomIsRight` | each analysis ends and computes the fact it is for, as `Facts` defines it by paths, for every function of the right shape |

*Channel.* `FifoOrder` alone is not inductive: it does not say why the slot a receiver reads holds the
right message. `RingInv` adds `Contents` (the slots between head and tail are the unreceived part of `sent`,
as many as the indices say) and what each thread's locals are worth at each step: the sender's `lhead`
may be stale but only makes the ring look fuller; its `ltail` is the tail, since it is the only sender;
the receiver's `lhead` is the head. The assumption `SPSC` is used exactly there, and
`channel_two_senders` shows that it is needed.

*GlobalCache.* Coherence needs `CachedOnce`, because a store refreshes one entry; with
`OneReaderPerReassigned` one entry is all there can be for a name that changes.

*Threads.* `NoDangling`, `MemoryAccounted` and `JoinAnswers` speak of the moments at which memory is used or a call has returned. `LifeInv` says in between
which step of which function owns what: it ties the program counters of spawn, worker and join to each other and to the objects alive. The one
subtle part is the copy of the result: the late store in `spawnFn` may overwrite the pointer to it, so the copy is there
whenever `result` needs it, but not the other way round. A step for one worker does not touch what `LifeOf` says of another
(`OthersKeepLife`), which is why the proof is for any number of workers and needs nothing about `main`.

*VmCalls.* `WindowsApart` (what a suspended frame uses lies below every window above it) is inductive
only with `FrameInv`: bases increase, a result register is not below its frame's base, `code` is the
innermost frame's function. The refinement proof has one lemma per action; the common part is that a suspended
activation is unchanged when nothing below the running window is written (`SuspendedStays`).

*Machine.* The theorems have one hypothesis besides the specification: `RunsWellFormedCode`. It is about the compiler, whose
recursive operators the prover cannot use; `execution_written` checks it for every one of its programs, and the proofs say what it is worth for
any other. `TypeOK` is not inductive. That `pc` stays in the code after an instruction needs that the code is the
compiled one and that jumps were checked at this position; after a return it needs that the saved pc is a position too; that a call finds a
function and arguments needs that the certificate's registers are in use here, and, in every suspended frame, will be once the result has been stored. So
`IInv` adds `Started` (the code is well-formed; `StackOK`: a result goes to its caller's window or above; `InUseOK`: `T.inUse` at `pc` is in `used`, and at a
saved pc in `used` and the register the result goes to), or `NotStarted` before the run. TLC checked `IInv` on all programs before it was proved. The data part
of it, `DataOK`, is kept because each instruction yields a value or an error (`BinaryIsResult`, `ElementIsResult`, `NativeResultFacts` ...; `RemainderFits` says why `%` alone needs no test), objects only
grow in number and keep their kind (`AppendObject`, `ReplaceObject`), and so a handle never dangles, whoever shares it.

The refinement to `VmCalls` keeps of a value only whether it can be called (`Callable`), and of every instruction but call, ret and halt only the register it
writes, the jump or the error. Each group of instructions has one lemma that proves the invariant, the step of `VmCalls` and `KeepsBelow` (no register below the running frame's base is written)
together. `P` instantiates the module `VmCallsProofs` itself under the same mapping: its theorems then speak of the machine, once its assumption on the constants
is shown to follow (`CallsAssumption`). `WindowInv` obtained in this way and `KeepsBelow` give `CallersKeepTheirRegisters`; the refinement composed with
`CallsImplementActivations` gives `ActivationsArePrivate`.

*Pipeline.* Two hypotheses: `FunctionsAreShaped`, an assumption on what the parser hands over (blocks linked once, jumps to
linked blocks), which TLC evaluates for the functions of `MCPipeline`; and `[]PassesKeepContract`, an invariant of the run `qbe`.
The passes under the contract reach recursive operators and bit operations, which the prover cannot use; the theorems say what the order of the passes and the
five analysing ones are worth for any passes that keep it. `GraphIsCurrent` and the others are far from inductive: they
speak only of what the next pass reads. `Inv` says after how many passes the function is in which state: `Known(opt)[n]` names the facts that are true before
pass `n`, and the table fits the pipeline when each pass finds there what it wants (`Wants`: the comment above it in the code, and what its proof needs), and the next entry holds
only what it keeps or finds out (`Keeps`, `Gives`). So an entry between a pass that breaks a fact and the pass that repairs it does not
have that fact, which is where the order of the passes is used: the faulty variants `BackEndUncounted` and `RoundEarlyDominators` have no table.

*Analyses.* The facts are defined by paths and sets, the passes by loops, and each proof is a loop invariant (lemma `EachKeeps` of `Loops`) and, for a fixed point, a measure (lemma `WhileEnds`).
Induction over the data is done in `Loops` once, over a set of naturals that has no least member (`Least`); each loop of the code instantiates `Loops`, so that
no theorem has an operator for a parameter.

- `porec`: blocks are not entered, on the path of open calls, or done (`WalkIs`). What is done has only successors that were entered; a block that is on the path when an edge
  to it is followed is the start of a cycle of blocks no earlier than it, hence the last part of `OrderIsRight`.
- `filluse`: what was counted so far is what the blocks, phis, instructions and operands passed so far read and write (`Counted`); two places never give the same use, because the phis of a block
  define different temporaries.
- `filllive`: the sets only grow, and nothing is in them that no path reads (`LiveBounds`); when a turn changes nothing, every such path has been followed
  back (`LiveSettled`). The number of pairs of block and temporary not yet in the sets falls in each turn but the last.
- `filldom`: `idom` names earlier blocks only (`Tree`), and a block's chain of ancestors (`Chain`) holds its dominators at all times (`HoldsDominators`). Along an edge that goes forward, the ancestors
  of its target are ancestors of its source (`FollowsEdges`), and each parent is the deepest block its predecessors have in common (`IsDeepest`). When a turn changes
  nothing, that is true of the edges that go back too, so that every ancestor is on every path. A turn moves parents only up (`IsNearer`), hence the end. On graphs that are not reducible
  one turn is not enough, which is why the code iterates and the proof has to.

Model-checked only: liveness (`RecvCompletes`, `SendCompletes`, `NeverBothSpin`, `JoinReturnsUnlessFull`),
which the prover does not do under fairness, `Terminates`; of the passes of QBE `Pipeline!TypeOK`, `PassesKeepContract`, `KeepsMeaning`, `SsaIsCurrent`, `NeverOutOfRegisters` and `Assembles`, which are about all the
passes that change a function (recursive operators over graphs and instructions); and what relates a run to its source: `ParsesAsWritten`, `RunsWellFormedCode`,
`RunsAsWritten` and `LintedNeverGoesWrong` are inductions over syntax trees, and the operators they are about are recursive.

## 5. Not modelled, and the plan

In the order planned:

1. `Boxing` (QBE generator and runtime): which variables are boxed, declared against actual; the functions it generates, run by `ILMeaning`, against
   `Meaning`, so that `Pipeline` takes them on to machine code.
2. `Builders`: aliasing between variables, `deinit`, and strings passed to another thread that lie in the buffer of a builder (`vm.zig:471`).
3. `BuildCache`: concurrent and interrupted builds sharing `.m4_cache`.
4. Composition: REPL lines with threads that outlive their machine.

New runs are to share configurations with the ones here where they ask the same question of more programs; the violation
runs of least weight (`vm_args`) make room where they do not.

A theorem worth proving there: a refinement of `BuildCache`
to a cache that only ever serves complete objects under single, uninterrupted builds.

Left out for good: arithmetic on data beyond what a property needs, diagnostics, formatting, help text,
the `mein` project commands; of the vendored QBE its parser, data, the targets other than amd64 System V, and `minic`.
