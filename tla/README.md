# Box86: a verification development in TLA+

Box86 runs 32-bit x86 Linux programs on ARM. It interprets or translates the
guest's code, calls native libraries in place of the guest's, and keeps its own
view of the guest's memory. This directory models the parts where the program's
state is hardest to reason about: the cache of translated code, the page
protection that keeps it valid, the threads that share it, the two data
structures below it (the interval tree and the allocator), the lazy x86 flags
that interpreter and translator keep between them, and the bridges to native
functions with the mutexes a signal handler drops and takes again.

All line numbers refer to the files under `src/` of the repository;
`PROJECT.json` maps every definition to the lines it models.

## 1. Inventory

| component | source | state | operations | what makes it correct |
|---|---|---|---|---|
| interval tree | `tools/rbtree.c` | nodes `[start, end) -> data` | `rb_set`, `rb_unset`, `rb_get`, `rb_get_end` | intervals disjoint; a set or unset changes its range and nothing else |
| allocator | `custommem.c` 60-611 | arenas, boundary marks, `first`, `maxfree` | `customMalloc`, `customRealloc`, `customFree`, `AllocDynarecMap`, `FreeDynarecMap` | live memory never shared or cut; marks agree; hints exact |
| protection tracking | `custommem.c` 788-1051 | `memprot`, `mapallmem`, `mmapmem`, hot page | `protectDB`, `unprotectDB`, `updateProtection`, `setProtection*`, `freeProtection`, `refreshProtection` | what is tracked, what the host enforces and what the guest asked for agree |
| jump table | `custommem.c` 613-786 | one entry per guest address, two levels | compare-and-swap updates, range scan | direct entries lead to valid blocks |
| dynablocks | `dynarec/dynablock.c` | blocks: `done`, `gone`, `hash`, `previous` | `DBGetBlock`, `InvalidDynablock`, `MarkDynablock`, `FreeDynablock` | no stale block runs; none is freed in use or lost |
| translation | `dynarec/dynarec_arm.c` | `current_helper`, static arrays | `FillBlock`, `CancelBlock`, `CreateEmptyBlock` | one at a time; the result is of the code that is there |
| signal handler | `libtools/signals.c` | `repeated_page`, `glitch*`, `glitch2*` | `my_box86signalhandler` | a fault the dynarec caused is repaired, the guest's own is delivered |
| memory calls | `wrapped/wrappedlibc.c` 3085-3321 | (the above) | `my_mmap`, `my_mmap64`, `my_munmap`, `my_mprotect`, `my_mremap` | blocks and tracking follow the mapping |
| main loop | `dynarec/dynarec.c`, `jump_to_next` | the emulator's registers | `DynaRun`, native jumps | a block runs only when done |
| lazy flags | `dynarec_arm.c`, `dynarec_arm_pass*.c`, `dynarec_arm_helper.*` | `insts[].need_*`, `dyn->f`, `xFlags`, `df` | the passes, `updateNeed`, `READFLAGS`, `SETFLAGS`, transforms at jumps | an instruction reads the flags the x86 program would see, on every path |
| flag values | `emu/x86primop.*`, `x86run_private.c`, `dynarec_arm_emit_*.c` | `df`, `op1`, `op2`, `res`, the flags | each operation three times: interpreted, emitted, deferred | all three give what x86 gives |
| bridges | `tools/bridge.c` | bricks, `bridgemap`, `my_alternates` | `AddBridge`, `CheckBridged`, `AddCheckBridge`, `AddAutomaticBridge` | no bridge shared by two functions or left half written |
| context's mutexes | `box86context.c`, `custommem.c` | mutexes | `unlockMutex`, `relockMutex` | locks dropped by the handler are taken again; nobody waits for ever |
| threads | `libtools/threads.c` | emulators | create, cancel | - |
| ELF loader, librarian | `elfs/`, `librarian/` | libraries, symbol maps | load, relocate, resolve | symbols found in load order, references counted |
| the rest of interpreter and emitters | `emu/`, `dynarec/dynarec_arm_*.c` | registers | one opcode each | the instruction tests' business |
| wrapped libraries, settings | `wrapped/`, `tools/rcfile.c`, `main.c` | - | argument translation, parsing | out of scope |

How they interact. `DynaRun` asks `DBGetBlock` for a block; `DBGetBlock` reads
the jump table and, without an entry, takes `mutex_dyndump` and calls
`FillBlock`, which protects the code's pages (`protectDB`), translates, and
puts the block into the table. Native code jumps through the table without
asking. A guest write to a protected page faults; the handler unprotects the
page and marks its blocks, whose entries then lead to `jmpnext`, which goes
back to `DBGetBlock` to compare hashes. The memory calls free or mark blocks
and update the tracking. The tracking lives in interval trees, the trees'
nodes and the dynablocks in the allocator, the native code in the allocator's
second heap. A block, the interpreter and every call of `UpdateFlags` hand the
flags to each other through `emu->df`. A guest call of a native function goes
through a bridge; bridges are made by any thread that resolves a symbol, also
from a signal handler.

What is hard: every thread reads the table without a lock; the handler runs
between any two instructions and decides on protections that may have changed
since the fault; `DBGetBlock` uses a block after giving up the mutex; the
tracked and the real protection change in two steps; ranges meet at page
boundaries in loops that each treat the end a little differently; the flags of
a block depend on a backward and two forward analyses that must agree; a signal
opens the critical section it interrupts. The 40 hazards are listed in `PROJECT.json` at the lines where they bite.

## 2. Modules

| module | models | state |
|---|---|---|
| `IntervalMap` | abstract map with range set/unset | `map` |
| `RBTree` | `tools/rbtree.c` as a set of intervals | `nodes` |
| `DynaCache` | translation cache, protection, handler, memory calls; one guest thread, several pages | see below |
| `DynaThreads` | one code address shared by several threads, each access to shared state a step | see below |
| `CustomMalloc` | the allocator's arenas and marks | `heap`, `live`, `re` |
| `DynaFlags` | the passes over a block as far as the flags go, then the block running | see below |
| `LazyFlags` | what each operation leaves in the flags, the deferred operation and the destination | `emu`, `out` and what x86 asks for |
| `Bridge` | bridges, alternates, mutexes and signal handlers, several threads | see below |
| `MC*` | TLC instances (symmetry of threads, families of programs) | |
| `RBTreeProofs`, `DynaCacheProofs`, `DynaThreadsProofs`, `CustomMallocProofs`, `DynaFlagsProofs`, `DynaFlagsCodeProofs`, `DynaFlagsRunProofs`, `BridgeProofs` | theorems | |

**RBTree.** A tree is the set of its nodes. Where a node hangs and its colour
do not change what the searches return, so the searches are sets of at most
one node (`PrevAt`, `NodeAt`, `LastAt`), and each exit of `rb_set` is an
operator (`MergePrev`, `SplitPrev`, `Overwrite`). The operators were compared
with the compiled `rbtree.c` over every tree on six addresses and two values:
1713 trees and 107919 calls give the same intervals.

**DynaCache.** `content` is guest memory; `prot` is `memprot` with one of the
tags "D" (`PROT_DYNAREC`), "R" (`PROT_DYNAREC_R`), "N" (`PROT_NEVERCLEAN`),
"-"; `host` is what the kernel enforces; `asked` what the guest last asked for
(a history variable); `jmptbl` the entries, `direct` when they lead to
`db->block`; `cur` the running block; `pend` a write that is being executed;
the rest are the handler's statics. One action per exit of `DBGetBlock`
(`DispatchHot`, `DispatchCreate`, `DispatchRun`, `DispatchValidate`,
`DispatchInvalidate`), per branch of the handler (`FaultProtected`,
`FaultGlitch`, `FaultRefresh`, `GuestSegv`) and per memory call. With one
thread nothing comes between the parts of an operation, so each is one step.
The constant `Guest` says which of a few unusual things the guest does; what
each breaks is in section 5.

**DynaThreads.** The same protocol for one block address on one page, cut at
every access to shared state: `blk` are the `dynablock_t`s with `st` telling
unused, live and freed memory apart, `mutex` is `mutex_dyndump`, `th` holds each
thread's program counter and locals (`locked` is DBGetBlock's trylock, `again`
its second `internalDBGetBlock`). `ProtectPages` is FillBlock's second
`protectDB`, for blocks that go over a page: its test lets through all but those
exactly a page long, the model's block too. Freed blocks are not reused, so that
a use after free shows. `Polite` restricts the guest to the rules for
cross-modifying code: it writes code only while no other thread executes it.

**CustomMalloc.** An arena is its marks by offset, with both copies of each
size (`prev` of a mark repeats `next` of the one before). `live` is a history
variable: what callers hold. `customRealloc` is three steps because it gives
`mutex_blocks` back before it allocates, copies and frees.

**DynaFlags.** One behaviour is one block: pass 0 decodes instruction by
instruction (with `dyn->forward`, the extension past a jump), jumps are
resolved and dead code dropped, `fillPredecessors` goes through the block, `updateNeed`
runs as its own stack of calls (a visit, then a predecessor per step),
passes 1 and 2 follow `dyn->f`, and then the block runs, one micro-operation
at a time, from any state of `df` in which it can be entered. Instructions are
kinds (`Repertoire`): which flags they read and set, with which `SETFLAGS`
state, and how their case writes them. Flag values are not kept, only whether
`xFlags` and `df` hold what the x86 program would see (`run.ok`, `Applied`).
`SafeFlags` is `BOX86_DYNAREC_SAFEFLAGS`: a RET asks for the deferred flags
unless it is 0, and a byte or word shifted by CL tells its predecessors that it
may leave the flags alone (`MAYSETFLAGS`) only if it is 2. The default is 1.

**LazyFlags.** The values that `DynaFlags` leaves out. An operation is run by
the interpreter (`Interp`) or as emitted for some `gen_flags` (`Jit`); a flag is
read at once or after `UpdateFlags`. The reference is written from the x86
manual (`RefArith`, `RefShift`, ...; external in the map), with undefined flags
free, and the program of the model reads no undefined flag. That a translated
operation is given the flags it needs (`READFLAGS`, `SETFLAGS`) is `RunJit`'s
guard; `DynaFlags` is about that. `emit_add32c` and `emit_sub32c` leave out
every flag when the register is ESP and `gen_flags` is X_PEND or X_ALL
(`Ignores`); the history variable `amiss` holds the flags that this, and two
other emitters (`Amiss`), get wrong, until an operation sets them again. Widths
are scaled to 4, 6 and 12 bits: all operands of a byte can then be tried, a byte
still has an even number of bits (which the parity of -1 depends on), and the
product of two words still fills a long. The module uses `Bitwise`, which is
recursive, so nothing is proved about it.

**Bridge.** Each thread is a stack of frames: a call, the handler of a signal
that interrupted it, a call that the guest's handler makes. `AddBridge` is cut
at each access to shared state; `NewBrick` takes `mutex_prot` and, for a tree
node, `mutex_blocks` below `mutex_bridge`. A handler saves and releases what
its thread holds, and takes it again in `relockMutex`'s order or drops the
interrupted call (`siglongjmp`). Nothing masks signals there, so a signal may
arrive at any point and a handler may abandon any call. Two history variables,
which no guard reads, remember the cases in which this does harm: `opened`, the
bricks in which a signal came between the test of `b->sz` and its increment,
and `canceled`, the bridges of calls that `siglongjmp` left. The properties
except these and nothing else; section 5 says what fails without the exceptions.

## 3. Runs

| run | bounds | states | shows |
|---|---|---|---|
| `rbtree` | 6 addresses, 2 values | 1,713 | `WellFormed`, `GetEndUniform`, `SetExact`, `UnsetLocal`, `RefinesTail` |
| `cache` | 3 pages of 4, 2 entries on either side of a page boundary, blocks up to 2 long, a guest that also frees partly (`cross_free`) | 232,960 | `CacheInv`, `Guarded`, `Coherent`, `RunningFresh`, `NoSpuriousSegv` |
| `handler` | 2 pages of 2, a guest with every habit but `exec_none` and `cross_free` | 366,817 | `HostWithinAsked`, `WriteEnds` |
| `shared` | a shared mapping, an untracked host page, loops, a no-dynarec address | 8,992 | `SharedTested`, `Coherent` |
| `threadslive` | 2 threads, 1 block (so that allocation fails), waiting | 259,276 | `OneFills`, `EntryLive`, `EntryInv`, `DispatchEnds` |
| `threadspolite` | 3 threads, 3 blocks, polite guest, no waiting | 118,134 | `QuietCoherent`, `NoSpuriousSegv` |
| `malloc` | 2 threads, arenas of 16 marks, requests 1, 4, 15 (below the threshold, small, larger than an arena), 2 arenas | 595,082 | `TagsAgree`, `HintsExact`, `LiveOwned`, `CopyFits`, `FindExact`, `NoNeedlessArena` |
| `flags` | `SafeFlags` = 2; 2 flags, every block of 3 instructions of 13 kinds, of 3 of 9 kinds with native calls, of 4 around MUL, of 4 that set all or some flags; jumps out or forward | 1,165,674 | `TypeOK`, `ReadsFresh`, `FlagsKept`, `NeedReached`, `NeedEnds` |
| `lazy` | one operation on all operands of a byte and on boundary operands of words and longs, counts 1 to 11, four sets of `gen_flags`; constants added to ESP, `sbbc` and `shrd`, whose flags `Amiss` excepts; two operations on few operands | 83,203 | `DeferredRight`, `DirectRight`, `ResultsAgree` |
| `bridges` | 2 threads, 2 functions, 3 calls, 1 signal anywhere, bricks of 1 bridge | 291,206 | `TypeOK`, `LocksKept`, `SlotsDistinct`, `MapSound`, `Duplicates`, `CallsEnd` |

The bounds are the smallest in which the interesting cases happen. Six
addresses are enough for three intervals with gaps and for every way a range
can start and end in them. Two pages are enough for a block that crosses, a
range that covers a block's start, its end or all of it; a third is needed for
a range that is freed from the middle of an interval over its end. Two threads are
enough for every pair of steps to interleave; three are needed for a fault
whose cause two others change. Two blocks per address let one replace the
other, three make a chain of `previous`. Arenas of 16 marks hold three small
subblocks, so that a freed one has used and free neighbours on both sides; a
request of 15 needs an arena of its own size. Two flags are enough for an
instruction that sets one and keeps the other; three instructions for a
producer, something in between and a reader, the fourth for a join of two
paths. Two operations are enough for one to find what another deferred. Three
calls make two bridges of one function in two threads and a third in a
handler; bricks of one make every second claim grow the list.

`flags` runs with `SafeFlags = 2`, which `system/box86.box86rc` sets for some
programs (lines 118, 153, 156, 159). With the default, 1, the model differs in
one thing, and it is enough to violate `ReadsFresh` and `FlagsKept` (section 5):
a shift by CL, which may leave the flags alone, no longer makes its predecessors
compute them.

Each property has a mutant in `PROJECT.json`: a definition with a plausible
bug (a missed unlock, a scan that starts too late, a size not updated) under
which TLC finds the property violated.

**Fairness.** `DynaCache`: weak fairness of the write instruction. The
processor re-executes a faulting store when the handler returns, until it is
done or the guest's handler has been called. `DynaThreads`: weak fairness of each
thread that is inside `DBGetBlock` or the handler, since the kernel schedules
every thread, and strong fairness of the steps that take `mutex_dyndump`,
since a mutex that is released again and again is obtained in the end.
`DynaFlags`: weak fairness of `updateNeed`, a function that runs until it
returns. `Bridge`: weak fairness of each thread's next step and of the end of
the guest's handler (calls are bounded, so a mutex is not contended for ever).
The guest is under no fairness: it may stop, loop in its own code or write for
ever.

Deadlock is checked in every run but two, where the program of the model ends:
`lazy` after its operations, `bridges` after its calls. In `bridges` two threads
may also be left in `LockCycle`, a deadlock that the code has; any other deadlock
violates `CallsEnd`.

## 4. Theorems

Each holds for every value of the constants that the modules' `ASSUME`s allow
(sizes are positive, sets are not empty, the threads are finitely many), and under what the last column says.

| theorem | says | holds for |
|---|---|---|
| `RBTreeProofs!WellFormedAlways` | intervals stay disjoint and non-empty | |
| `RBTreeProofs!SetExactAlways` | `rb_set` changes exactly its range | |
| `RBTreeProofs!UnsetLocalAlways` | `rb_unset` touches nothing outside its range | |
| `RBTreeProofs!GetEndUniformAlways` | what `rb_get_end` reports holds up to the end it reports | |
| `RBTreeProofs!TreeRefinesTail` | `RBTree` implements `IntervalMap` | |
| `DynaCacheProofs!CacheInvAlways` | tracking, host protection and jump table agree | a `Tame` guest |
| `DynaCacheProofs!GuardedAlways` | pages of direct blocks cannot be written without a fault | a `Tame` guest |
| `DynaCacheProofs!CoherentAlways` | direct blocks are translations of what memory holds | a `Tame` guest |
| `DynaCacheProofs!RunningFreshAlways` | so is the block that runs, after its own writes too | a `Tame` guest, `MaxBlock < PageSize` |
| `DynaCacheProofs!NoSpuriousSegvAlways` | no SIGSEGV for a write the guest may do | a `Tame` guest without `move` |
| `DynaCacheProofs!HostWithinAskedAlways` | the host allows no more than the guest asked for | any guest without `exec_none` and `cross_free` |
| `DynaCacheProofs!SharedTestedAlways` | a block in shared memory is tested each time | no `over`, `move` or `"0"`; blocks on one page |
| `DynaThreadsProofs!EntryInvAlways` | the mutex, the entry and the block being filled | |
| `DynaThreadsProofs!OneFillsAlways` | one thread translates at a time | |
| `DynaThreadsProofs!EntryLiveAlways` | the table never leads to a freed or invalidated block | |
| `DynaThreadsProofs!PoliteInvAlways` | what each thread may rely on at each step | a `Polite` guest |
| `DynaThreadsProofs!QuietCoherentAlways` | a direct entry is the translation of the code there | a `Polite` guest |
| `DynaThreadsProofs!NoSpuriousSegvAlways` | no thread's write gets a SIGSEGV | a `Polite` guest |
| `CustomMallocProofs!MallocInvAlways` | the invariant of arenas, callers and reallocations | |
| `CustomMallocProofs!TagsAgreeAlways` | boundary marks form one consistent chain | |
| `CustomMallocProofs!LiveOwnedAlways` | live memory is never shared, cut or lost | |
| `CustomMallocProofs!CopyFitsAlways` | `customRealloc` copies within both subblocks | |
| `CustomMallocProofs!FindExactAlways` | a native address is traced to its own block | |
| `CustomMallocProofs!HintsExactAlways` | `first` and `maxfree` are exact | |
| `CustomMallocProofs!NoNeedlessArenaAlways` | an arena is added only when none has room | |
| `DynaFlagsProofs!FlagsInvAlways` | the invariant of a block, its needs and its code | |
| `DynaFlagsProofs!TypeOKAlways` | live code leads only to live code, and only live code runs | |
| `DynaFlagsProofs!NeedReachedAlways` | `updateNeed` leaves a solution of its equations | |
| `DynaFlagsRunProofs!ReadsFreshTame` | emitted code reads a flag only when `xFlags` holds it | a `TameBlock` |
| `DynaFlagsRunProofs!FlagsKeptTame` | a block is left with every flag recoverable | a `TameBlock` |
| `BridgeProofs!LocksKeptAlways` | a thread holds the mutexes its innermost call needs | |
| `BridgeProofs!TypeOKAlways` | no brick is overrun, but one that a signal opened | |
| `BridgeProofs!SlotsDistinctAlways` | no two calls get the same bridge, but in a brick that a signal opened | |
| `BridgeProofs!MapSoundAlways` | a bridge in the map is its function's, written or being written, or of a canceled call, or in an opened brick | |
| `BridgeProofs!DuplicatesAlways` | `AddCheckBridge` and `AddAutomaticBridge` make at most one bridge of a function per thread and signal | |

The conditions are the code's, not the proof's: each of them excludes a behaviour
by which TLC finds one of the properties it is asked for violated, and section 5
says which. The run that checks a property has constants that meet its condition.

*The tree.* `WellFormed` is inductive. The work is in lemmas that say, for a
disjoint set of nodes, which addresses the cuts, the merge and the loop's
`Covered` set give up and which they keep; `SetExact` and `UnsetLocal` follow
address by address. For the refinement `MapOf` maps nodes to a function; an
unset maps to `UnsetFrom` with `k` the end of the interval that is left.

*The cache.* `Coherent` is not inductive: a write must be known to fault on
the pages of direct blocks. `CacheInv` adds that. `DirectProtected`: the pages of a
direct block are mapped and tagged. `WritableUntagged`: the host
lets only untagged pages be written. `AskedTracked` and `PendWritable`: a
write in progress is to a page that is tracked as writable, so the fault
handler takes the branch that marks. `ReadOnlyTag`: the "R" branch, which does
not mark, is only for pages that cannot be written. `NeverShared`: nothing
changes memory without a fault. `Guarded` follows from `DirectProtected` and
`WritableUntagged`.

Four more invariants stand on or beside it. `CurInv`: the running block is fresh
and its pages are tagged, so that a write to one of them faults; the handler
then leaves the block if its test for blocks that go over a page works, which is
where blocks shorter than a page are needed. `OpenHost`: a page the guest
may write to is writable in the host unless the dynarec tagged it, so the
handler's first branch repairs every fault the guest may cause; `my_mremap`
breaks it by dropping the tag alone. `WithinInv` relates, page by page, tracked, host and
asked protection; it does without `CacheInv` and thus without `Tame`, but needs that a
readable page that is not tracked, which `protectDB` takes for read-write-execute, is
writable. `TestedInv`: shared pages carry `PROT_NEVERCLEAN` and
blocks that start on such a page are always tested; `OnePage` says that the
page a block starts on is all of it.

*The threads.* `EntryLive` needs to know that whoever publishes a block still
owns it: `FillOwns` says that the block being filled is live, not gone, and
not in the table before it is published; `OneFills` that no second thread
fills or removes the entry in between; `HeldFrom` from where to where
`DBGetBlock` holds the mutex it tried, which `OneFills` needs for the
`need_lock` argument. `PoliteInv` adds what was read and is still true: the hash
a thread has computed, the protection it has asked for, the block it compares,
each from the step that established it to the last that uses it
(`ThreadPolite`); `OneWrites`, that nobody executes while one thread writes, is
what keeps it.

*The allocator.* `TagsAgree` is stated by neighbours; the proofs use `Chained`,
the chain of marks as a whole, with two lemmas for the only ways it changes:
marks vanish (`Join`) and a mark appears (`Split`). An arena is `Sound` when
its chain is and its hints are exact; what `allocBlock` and `freeBlock` do to a
sound arena is said once (`Gains`, `Loses`, `Shrinks`, `Merges`), then lifted to the
heap (`Gets`, `Gives`). `MallocInv` adds `LiveInv`, that what callers hold are
the used subblocks, and `ReInv`: a thread in the middle of `customRealloc`, which has
given the mutex back, still holds used memory that no other thread holds, and
the new subblock is at least as large as the old. The walk backwards of
`getMaxFreeBlock` is a recursive function; that it finds the maximum is shown by
naming its solution and by the least counterexample to any other. On the way
the proof finds that its early return ("no block large enough left") is never taken.

*The flags.* Three layers again. `BlockInv`: the block, from the first decoded
instruction on; `recurse_mark_alive` gives the least set that holds the first instruction
and is closed under its successors, which is all the proof uses of it. `FlowInv`:
while `updateNeed` runs, whatever an instruction `j` needs of a live predecessor `i`
is met, or some call in progress has visited `j` and has `i` still to come, in its
loop over the predecessors or as the instruction before, or the innermost call is
at `i` with that need (`Pending`); and what lies above the instruction of the
outermost call solves its equations. That is why the early return is right: a
call that finds `need_before` unchanged owes its predecessors nothing new. Two
facts about one visit carry it: `NeedOf` drops nothing of what is needed after but X_PEND,
and only where all flags take its place; applied to its own result it changes
nothing. `CodeInv`: the emitted operations are those of `Micro`, and the block
runs in live instructions.

What the emitted code does is proved in two steps, flag by flag. A flag is a pair:
whether `xFlags` holds it, and what `df` would do to it; `Rec` says that
`UpdateFlags` would give its value, `Held` that `xFlags` has it and nothing
deferred would spoil it. `DynaFlagsCodeProofs` is about one instruction:
`InstGood` says that, if its needs solve their equations and the flag is found as
`need_before` and the assumed `dyn->f` say (`Ready`), the code of the instruction
reads the flag only when it is there and leaves it as `need_after` and the new
`dyn->f` say (`End`). It goes through the shapes of `EmitInst` one by one; the code of an
instruction has at most six operations, and `Good6`, `Good5`, ... state this for
what is left of it. `DynaFlagsRunProofs` puts instructions together. `Laid`: the
barriers are where the native calls are, and where control leaves the block the
flags were asked for. `PassInv`: pass 1 has found for each live instruction what
its nominal predecessor left, and pass 2 has emitted from the same `dyn->f`;
it is here that the passes must come to that predecessor first. `RunInv`: the
rest of the running instruction's code is good, and a jump that is taken has its
transform still to do or does not need it. Then each edge hands over what the next
instruction expects (`EdgeReady`), because `updateNeed` reached a solution.

`TameBlock` names the blocks for which this holds: no CMC, MUL or shift by CL;
no RET if `SafeFlags` is 0, when it does not ask for the flags; no jump back to
the first instruction; an instruction's nominal predecessor comes before it;
what follows a native call is reached from the call alone. Loops to any other
instruction are allowed, and so is dead code. Outside these blocks TLC finds
violations, one for each condition (section 5), so none can be dropped as a
whole. MUL and the shifts by CL are in the run: in the families it checks, and
not in all, they keep the flags (the shifts with `SafeFlags = 2` only).

*The bridges.* Five layers. `BaseInv`: calls and handlers alternate on a
thread's stack, and the mutexes a thread holds, with those the handlers saved,
are what the calls below need; it also counts the calls that may still attach a
brick. `RoomInv` bounds the places that calls take, and `CoveredInv` says that a
call which is interrupted between the test of `b->sz` and its increment has its
brick in `opened`: in any other brick the call that is there still holds
`mutex_bridge`, so what it tested is still so. `SlotInv`: in these bricks the
bridges claimed and not yet counted in `b->sz`, claimed and being written, and
free are kept apart. `MapInv`: what the map leads to there is written, or a call
still on some stack is writing it, or `siglongjmp` canceled that call. `CountInv`
needs only the first of these, and so nothing of `opened` and `canceled`: there
are at most as many handlers on the stacks as signals came, so the calls in
progress are at most the threads and the signals; for each function the bridges
that are its own, with the calls that have looked in the map and not yet written
theirs, are no more than that (`Bounded`); and while the map has nothing for the
function, nobody has written a bridge of it (`Fresh`), so a call that looks and
finds nothing can be added to the count.

*Model-checked only.* Liveness (`WriteEnds`, `DispatchEnds`, `NeedEnds`,
`CallsEnd`), which is out of the prover's reach. `ReadsFresh` and `FlagsKept` of blocks
that are not tame: they hold of the families of the run, not of every block.
`LazyFlags`, which is arithmetic of powers of two and uses `Bitwise`.

## 5. Where the code and its words disagree

Two runs are expected to end in a violation; the findings in `PROJECT.json`
give the lines.

* `rbtree_unset`: `rb_unset` of a range that begins inside an interval and
  ends after it leaves the interval's tail set ("else fallthrough",
  `rbtree.c:771`).
* `threads_freed`: a block is freed while another thread is about to read
  `db->done` (`dynablock.c:268` and `:285`).

Further observations, each reached from a passing run by changing its constants
or by leaving out an exception that a property or `Amiss` names:

| change | what fails | why |
|---|---|---|
| `DynaCache.cfg`, `NPages = 2`, `PageSize = 2`, `Entries = {1}`, `Targets = {1, 2}` (so that `MaxBlock = PageSize`) | `RunningFresh` | the test for a block that "goes over the 1st page" clears one address bit instead of the page offset (`dynarec_arm.c:493`) and misses a block exactly a page long |
| `DynaThreadsLive.cfg` with 1 thread, 3 blocks, invariant `NoLostBlock` | `NoLostBlock` | a chain of `previous` blocks is freed two deep only (`dynablock.c:90-91`) |
| `DynaCache.cfg`, `Guest = {"over"}` | `Coherent` | `mmap` with `PROT_EXEC` over code cleans no block (`wrappedlibc.c:3139`, `:3208`) |
| `DynaCache.cfg`, `Guest = {"write_ro"}` | `Coherent` | a fault on a read-only page drops the "R" tag without marking the blocks (`custommem.c:852`; the comment at 823 says "mark all block as dirty") |
| `DynaCacheShared.cfg`, `Perms` with `"0"` | `SharedTested` | no-access `mprotect` forgets `PROT_NEVERCLEAN` (`wrappedlibc.c:3316`) |
| `DynaCacheShared.cfg`, `MaxBlock = 2`, `Heap = {}`, `NoDynarec = {}` | `SharedTested` | `PROT_NEVERCLEAN` is looked up for the first page only (`dynarec_arm.c:668`) |
| `DynaCache.cfg`, `PageSize = 1`, `MaxBlock = 1`, `Entries = {0}`, `Targets = {1}`, `Guest = {"move", "cross_free"}` | `NoSpuriousSegv` | `my_mremap` drops the tag of a page and not the host's protection (`wrappedlibc.c:3239`), and the handler's last retry is remembered by address (`signals.c:951`) |
| `DynaCacheHandler.cfg`, `NPages = 3`, `PageSize = 1`, `Entries = {0, 1}`, `Guest = {"cross_free", "write_ro"}` | `HostWithinAsked` | `rb_unset` leaves a part of the range tracked (`rbtree.c:771`): a page that `mprotect` closed still counts as writable, and `refreshProtection` opens it again when it is written to (`custommem.c:979`) |
| `DynaCacheShared.cfg`, `NPages = 3`, `PageSize = 1`, `Entries = {0, 1}`, `Targets = {0}`, `NoDynarec = {}`, `Heap = {}`, `Guest = {"shared", "move"}` | `SharedTested` | `my_mremap` drops `PROT_NEVERCLEAN` with the other custom flags (`wrappedlibc.c:3239`) |
| `DynaCacheShared.cfg`, `Guest = {"shared", "over"}` | `SharedTested` | `mmap` of a shared file over code cleans no block |
| `DynaCache.cfg`, `Guest = {"shared"}` | `Guarded`, `Coherent`, `RunningFresh` | memory changes without a fault |
| `DynaCacheHandler.cfg`, `Guest` with `"exec_none"` | `HostWithinAsked` | an untracked page is taken for read-write-execute (`custommem.c:805`) |
| `DynaThreadsPolite.cfg`, `Polite = FALSE` | `QuietCoherent` | `isprotectedDB` is asked before the entry is set (`dynarec_arm.c:663`, `dynablock.c:246`) |
| the same | `NoSpuriousSegv` | the retries are counted in variables all threads share (`signals.c:931`, `:951`) |
| `MCDynaFlags`, a family with `add`, `cmc`, `jp`, `ret` | `FlagsKept` | CMC changes `xFlags` without `SET_DFNONE` (`dynarec_arm_00.c:2708-2713`), so a deferred ADD overwrites its carry later |
| `MCDynaFlags`, a family of four of `mul`, `jecxz`, `clc`, `jp`, `ret` | `FlagsKept` | `SETFLAGS` asks `gen_flags & ~A` whether something deferred must be applied first (`dynarec_arm_helper.h:415`) |
| `MCDynaFlags`, a family of four of `add`, `jecxz`, `shlcl`, `clc`, `ret` | `FlagsKept` | a shift by CL whose count is zero skips the `SET_DFNONE` that `dyn->f` then takes for done |
| `MCDynaFlags`, `MaxInsts = 5`, a family of five of `add`, `jc`, `native`, `clc`, `ret` | `FlagsKept` | the instruction after a native call is also a jump's target: as a barrier it asks its predecessors for X_PEND alone, and CLC's `SETFLAGS` applies nothing (`dynarec_arm_helper.h:415`) |
| `MCDynaFlags`, `MaxInsts = 6`, a family of six of `jmp`, `clc`, `jecxz`, `add`, with targets -1, 1 and 3 | `FlagsKept` | an instruction that only later ones reach starts in pass 1 from the `f_exit` that pass 0 left (`dynarec_arm_pass.c:81`), so a jump back to it gets no transform |
| `MCDynaFlags`, `MCForward` with `0` | `ReadsFresh` | a jump back to the first instruction finds the entry's `dyn->f` assumed, without a transform (`dynarec_arm_pass.c:106`) |
| `DynaFlags.cfg`, `SafeFlags = 1`, the default | `ReadsFresh`, `FlagsKept` | `add; shl bl, cl; jc` with a count of zero: the shift is taken to set all flags (`dynarec_arm_00.c:1983`), so the ADD computes none, and it branches over its own; `docs/USAGE.md:168-172` speaks of CALL and RET only |
| `DynaFlags.cfg`, `SafeFlags = 0` | `FlagsKept` | a RET does not ask for the flags (`dynarec_arm_00.c:1619`), which `docs/USAGE.md:170` announces |
| `Amiss` without its first case | `DeferredRight`, `DirectRight` | "special case when doing math on ESP and only PEND is needed: ignoring it!": the flags after `add esp, 4` are those of an older operation when all of them are asked for, as by PUSHF, and when they are deferred (`dynarec_arm_emit_math.c:79-89`, `:213-223`) |
| `Amiss` without the case of `sbbc` | `DirectRight` | `emit_sbb32c` with a small constant computes AF from the wrong operand (`dynarec_arm_emit_math.c:1449`) |
| `Amiss` without the case of `shrd` | `DeferredRight` | `emit_shrd32c` defers as `d_shr32` ("same flags calc as shr32", `dynarec_arm_emit_shift.c:918`), which gives another OF for a count of 1 |
| `TypeOK`, `SlotsDistinct` or `MapSound` of `Bridge` without the exception for `opened` | the same | a signal inside `AddBridge` releases `mutex_bridge`: another call takes the same bridge, or the brick is overrun (`bridge.c:100-106`) |
| `MapSound` without the exception for `canceled` | `MapSound` | a handler that changes the context leaves a bridge that is in the map unwritten (`bridge.c:110`; "whatever was running is canceled", `signals.c:743`) |
| `CallsEnd` without `<>[]LockCycle` | `CallsEnd` | `relockCustommemMutex` takes `mutex_blocks` before `mutex_prot`, `setProtection` the other way round (`custommem.c:1150`) |

Also: the range scan reaches one address, and the intersection test two, past
the end (`custommem.c:631`, `dynablock.c:144`, `:154`), so a neighbour's block
may be freed; `expandBlock` tests the subblock's own fill bit
(`custommem.c:239`, "next block is filled"), so `customRealloc` never grows a
subblock in place; `getMaxFreeBlock`'s early return cannot be taken
(`custommem.c:156`, "no block large enough left").

Of bridges: a second thread's `AddCheckBridge` can return a bridge that the
first has put in the map and not yet written (`bridge.c:110-117`); two bridges
of one function end with the last in `bridgemap` and the first in
`my_alternates`; `kh_get` without the mutex races with `kh_put`.

Of flags, read in the code and outside the runs' families: `flagsCacheTransform`
does nothing for a case in which `flagsCacheNeedsTransform` asks for it; a jump into
the middle of an instruction of the block counts as a jump out of it without
asking for the pending flags; the interpreter's shifts by zero overwrite `df`
(`x86primop.h`, where `rol` and `ror` return early); `emit_shl8` and `emit_shl16`
by CL never clear ZF; `emit_shr16` takes OF from bit 16; `emit_shld32` compares
before it computes the count it compares; `d_rcr8`, `d_rcr16` and `d_rcr32`
take OF from the new carry (`x86run_private.c:366-395`); `idiv8` faults for a
quotient of -128 (`x86primop.c:1157`).

## 6. What the models leave out

Hash collisions of `X31_hash_code`; the `fastpage` option; native code that
writes guest memory (`memcpy` in a wrapped call); a fault inside the handler;
`MarkDynablock`'s path for a block that lost its entry (marking is one step
here); `customMalloc(0)`, which no caller asks for; failure of the host's own
calls; `mremap` that grows or shrinks in place. The abstraction of the
translation is that a block stands for the code read while it was emitted.

In `DynaFlags`: blocks that stop at `00 00` or at an unreadable page, a run of
NOPs skipped with a gap, CALL with its return address, POPF that sets TF, jumps
of instructions that were rolled back, the shifts of a long by CL
(`dynarec_arm_00.c:2096-2121`), which overwrite the flags even for a count of
zero whatever `SafeFlags` is, the flags that a CALL or a REPZ RET declares unknown
(`:2317`, `:2509`). In `LazyFlags`: shifts by CL as emitted,
the deferral of RCL and RCR, the BCD and divide operations, SHLD and SHRD of
words by more than a word. In `Bridge`: a failing `mmap`, `FreeBridge`, the
block of `DBAlternateBlock`, a new arena under `mutex_prot` (`custommem.c:395`),
the partial states of `khash`.

Not modelled at all: the ELF loader, the librarian, callbacks, the malloc
hook, emulated threads' life cycle, guest system calls and TLS (planned or, for
loading and relocation, sequential and run once); the wrapped libraries, which
are most of the repository's lines and are tables and signature translation,
one line per native function, without state of their own that a model could
add to; the opcode by opcode work of decoder, x87, MMX and SSE; printing,
settings and start-up.

## 7. Plan

1. *JumpTable*: the two levels, `create_jmptbl` and the freeing of empty
   tables (`custommem.c:674`), with `DynaThreads`' entry as its abstraction.
2. *Marks*: the walk of `FindDynablockFromNativeAddress` one mark per step
   (`custommem.c:481`).
3. *RBStructure*: rotations and colours of `add_range_next_to` and
   `remove_node`, refining `RBTree`'s set of nodes.
4. *FpuCache*: the x87 and SSE register caches at jumps inside a block, which
   follow the same scheme as `dyn->f`.
5. *Threads and librarian*: emulated threads' life cycle, library reference
   counts and symbol resolution order.
6. Proofs: `ReadsFresh` and `FlagsKept` for the blocks with MUL and shifts by CL in
   which they hold, for which the deferred operation of a predecessor must be
   followed as well as `dyn->f`; the liveness of `updateNeed` as a measure.
