# A verification project for julmalloc

julmalloc replaces `malloc`, `calloc`, `free` and `realloc` (by `LD_PRELOAD`)
with an allocator that keeps one arena on top of `sbrk`. This directory models
it in TLA+, checks the models with TLC, and proves with TLAPS the safety
properties of the segment list and its strategies, of the calls of several
threads, of the byte loops, and of the allocator they make together, down to the
atomicity of `malloc`, `calloc`, `realloc` and `free`.

## The system

| component | code | state | operations |
| --- | --- | --- | --- |
| public functions | `alloc/sources/methods.c` | `storage_lock` | `malloc`, `calloc`, `free`, `realloc` |
| segment list | `memory_mgmt.c`, `linked_list_mgmt.c`, `types.h` | `start`, `first_seg`, `end_addr`, headers and tails in the arena, the program break | `find_free_seg`, `expand_list`, `add_entry`, `remove_segment`, `shrink_segment`, `expand_segment`, `create_list`, `reset_list`, `clear_alloc_storage` |
| strategies | `strats.c` | `last_addr`, `g_alloc_function` | `best_fit`, `worst_fit`, `first_fit`, `next_fit`, `set_alloc_function`, `set_last_addr` |
| copying | `storage.c` | none | `set_mem_zero`, `copy_mem` |
| arithmetic | `utils.c` and conversions everywhere | none | `round_up`, `int` and `size_t` conversions |
| assertions, messages | `utils.c`, `defines.h` | none | `ASSERT`, `a_abort`, `pr_*` |
| unit tests | `unittests/` | the pointer variables of a test | ten programs of calls and comparisons |
| build files | `CMakeLists.txt`, `Doxyfile`, `.clang-tidy` | none | none |

How they interact. `malloc` takes `storage_lock`, asks `find_free_seg` for a
gap and lets `add_entry` put a segment there. `find_free_seg` creates the list
on the first call, otherwise runs the strategy `g_alloc_function` points to,
and falls back to `expand_list`, which moves the break by whole pages. `free`
is `remove_segment` under the lock; it may give pages back, and frees the whole
arena with the last segment. `realloc` reads the segment's size *without* the
lock, then shrinks or grows in place in one critical section, or does
malloc-copy-free in two more with an unlocked copy between them. `calloc`
zeroes after the lock is released. `last_addr` is shared by all of them: every
operation that removes or moves a tail has to keep it on a live one.

What is hard here: pointer splices of a circular list with two node types;
a free-byte counter kept up to date by six pieces of code; page arithmetic at
both ends of the arena; search loops that only the address order of the list
ends; state read before the lock and used inside it; early returns that must
unlock; and conversions to `int`. `PROJECT.json` lists these hazards by line.

What makes each component correct:

- *segment list*: links consistent both ways, sorted by address, counters
  exact, segments disjoint and inside the arena, arena inside the break and in
  pages, `last_addr` live, no assertion fires, no operation on one block
  affects another;
- *strategies*: the search ends and returns exactly the gap it is named for,
  and `nullptr` only if none fits;
- *public functions*: the lock guards the list and is always released, no
  block is lost or shared, block contents survive, sizes read early are still
  true when used, and each call looks to its callers as if it happened at once;
- *copying*: exactly the bytes asked for, whatever the neighbours write
  meanwhile, and a refusal only of what would come out wrong;
- *the whole*: user bytes and the structs between them never damage each other;
- *unit tests*: every address their authors expect;
- *arithmetic*: decisions at machine width are those of unbounded integers.

## The modules

| module | what it is |
| --- | --- |
| `Maps` | adding to and dropping from partial functions |
| `AllocDefs` | layout constants with `LayoutAssumption` (what `unittests/alloc/alignment.c` asserts), `round_up`, `TotalSize`, page rounding |
| `SegList` | the segment list: one action per list operation |
| `Heap` | abstract specification: disjoint aligned blocks, each changed only by operations on itself |
| `MCSegList` | `SegList` with the action properties of the arena and the refinement of `Heap` |
| `Strats` | the four searches, one loop iteration per step, over `SegList` |
| `DefaultStrategy` | `Strats` without `set_alloc_function` |
| `ForeignBreak` | `SegList` in a process where somebody else calls `sbrk` |
| `Calls` | the control of the public functions: where each thread is, what it knows, who holds the lock, who owns which block |
| `Methods` | `Calls` on an abstract heap with byte contents |
| `MallocAPI` | abstract specification: what the four functions are to their callers, each taking effect at one instant |
| `Allocator`, `MCAllocator` | `Calls` on `SegList`, with every byte of the arena: the allocator put together |
| `Storage` | `copy_mem` and `set_mem_zero`, one byte per step |
| `TestScripts`, `UnitTests`, `MCUnitTests` | the programs under `unittests/` as data, and `Strats` driven by them with the real layout |
| `SizeArith`, `MCSizeArith` | size decisions with wrapping `size_t` and `int` |
| `AllocDefsProofs`, `SegListProofs` | proofs about the list: arithmetic, list edits, the invariant |
| `HeapProofs` | `SegList` implements `Heap`; growth and contraction of the arena |
| `StratsProofs` | proofs about the searches |
| `MethodsProofs` | proofs about the calls: their safety, and that they are atomic |
| `AllocatorProofs` | proofs about the allocator put together; instances `HeapProofs` and `MethodsProofs` |
| `StorageProofs` | proofs about the byte loops |
| `SizeArithProofs` | exactness of the size decisions up to `INT_MAX`, for every width |

Composition: `Strats` and `ForeignBreak` extend `SegList`; `UnitTests` extends
`Strats`; `Methods` and `Allocator` both extend `Calls`, and `Allocator`
instantiates `SegList` for its heap. Refinements: `SegList` implements `Heap`,
`Strats` implements `SegList`, `Allocator` implements `Methods`, and `Methods`
implements `MallocAPI`.

How state and actions correspond to the code:

- **Memory** is sparse in `SegList`. `head` and `tail` map the address of every
  live `seg_head_s` and `seg_tail_s` to its fields, under the names of
  `types.h`. Removing a struct removes the address, so reading a stale pointer
  is an application outside the domain and stops TLC; a correct step never does
  it. `Allocator` adds `bytes`, the tag of whoever wrote each byte.
- **Addresses** are numbers, `nullptr` is 0. The list header sits where
  `create_list` rounds the break to; `InitialBreaks` includes unaligned breaks.
- **Actions** of `SegList` are the calls made with `storage_lock` held:
  `FindFreeSeg` (a gap, the first call, growing, or `exit`), `AddEntry`,
  `RemoveSegment` (inner, only, first), `ShrinkSegment`, `ExpandSegment`,
  `ClearAllocStorage`, `ResetLastAddr`. `malloc` is two actions with `call`
  between them, so that what the first promises and the second assumes can be
  stated (`CallFits`). The early `return nullptr` of `create_list` changes
  nothing that is modelled and is a stuttering step there; `Methods` and
  `Allocator` have it as a step of the calling thread.
- **Assertions** are evaluated as the code does; a false one sets
  `status = "aborted"`. `exit(EXIT_FAILURE)` sets it to `"exited"`. Assertions
  that only repeat the assignments above them are left out, as is the branch of
  `add_entry` for a gap too small in an empty list, which its own assertion
  precludes. `sbrk` with a negative argument and `brk` always succeed.
- **`Strats`** keeps the locals of a running search in `scan`. `StartScan` is
  the code before the loop, `ScanAll`, `ScanUp` and `ScanWrap` one iteration,
  `EndScan` the return to `find_free_seg`.
- **`Calls`** has a program counter per thread. A step is what runs between
  two points at which another thread can be noticed: lock, list operation,
  unlock, unlocked header read, unlocked zeroing or copying. Steps that touch
  the heap are given by their control half; `Methods` and `Allocator` conjoin
  the other half. `held` is the clients' view: who owns a pointer, and which
  bytes the owner relies on. `realloc` of a segment of size 0 is left out: no
  segment has that size (`MTypeOK`). A client does not touch a block while it
  is passed to a call.
- **`Methods`** reduces the list to what `Heap` says of it: any free address,
  with or without room to grow.
- **`Allocator`** makes the list's half of each step a step of `SegList`, so
  that the composition follows the list operations by construction, and paints
  the bytes they write. `shrink_segment` and `expand_segment` get the
  *difference* of the sizes realloc read before it took the lock and apply it to
  the header as it is then, with the `ERROR` returns of both and of `copy_mem`.
  `ImplementsMethods` maps the list to `Methods`' blocks and contents. Blocks
  stay with the thread that got them (`Methods` hands them over).
- **`MallocAPI`** knows no lock, no list and no place in a call. `owned` holds
  the clients' blocks with their contents, `calls` what each thread has asked
  for. A call takes its block away from its owner (`Call`), takes effect
  (`malloc`, `calloc`, `free`, `realloc`) and gives a block back (`Return`). The
  mapping from `Methods` is that a call works on its result once it has one,
  and on its argument before (`BlockOf`). The instants at which the calls take
  effect are `malloc`'s unlock, the last zero of `calloc`, `remove_segment` in
  `free`, and in `realloc` the read of a size that needs no change,
  `shrink_segment`, `expand_segment` or the copy; what comes after (the `free` of
  the old block in `realloc`) is not seen. `Return` says when a call may fail:
  `free` never, `realloc` only for more room. `Exit` is `expand_list`'s `exit`. A
  block that no client and no call knows of is invisible here, so that there
  are no leaks is `EveryBlockAccounted` and not `MallocAPI`.
- **`Storage`** starts every byte with a value of its own, and lets another
  thread write any byte outside the two blocks between two iterations.
- **`UnitTests`** runs scripts. A line of a script is one call of a test with
  the comparison made on its result, written as a distance from what another
  pointer variable held. Loops over all sizes up to 10000 are cut down to the
  counters in `SampleRounds`, around every change of the aligned size at the
  lower end and around segments that fill one or two pages exactly. `calloc.c`
  and `free.c` make `malloc.c`'s calls.
- **`ForeignBreak`** adds one `sbrk` by somebody else at any moment.

## The runs

| run | checks | bounds, size |
| --- | --- | --- |
| `seglist` | 12 invariants, `GrowsByNeed`, `ContractsFully`, refinement of `Heap` | 3 segments, sizes {1, 2, 3, 9}, `ALIGNMENT` 2, pages of 16, break up to 70; 124,473 states |
| `strategies` | `STypeOK`, `ReturnsWanted`, `SearchEnds`, `IteratorClimbs`, refinement of `SegList` | 4 segments, sizes {1, 6}, pages of 8, break up to 48; 296,398 states |
| `methods` | 6 invariants, `SomeCallReturns`, `CallReturns`, refinement of `MallocAPI` | 2 threads, one of them writing, 2 addresses, blocks of up to 2 bytes; 289,422 states |
| `allocator_threads` | `ATypeOK`, `MemoryIntact`, `NeverStuck`, refinement of `Methods` | 2 threads, 2 blocks of up to 2 bytes, `ALIGNMENT` 1, pages of 4, break up to 16; 199,769 states up to symmetry |
| `allocator_padded` | `MemoryIntact` | 1 thread that fills its blocks, 2 blocks of up to 3 bytes, `ALIGNMENT` 2, pages of 8, break up to 40; 302,737 states |
| `storage` | `CopyExact`, `ZeroExact`, `RefusesOnlyTheImpossible`, `Returns` | 6 addresses, up to 4 bytes; 16,261 states |
| `unit_tests` | `TestsPass` | ten programs, real layout, pages of 4096; 30,730 states |
| `size_arith` | `ExactUpToIntMax` | `size_t` of 10 bits, `int` of 7, requests around every boundary; 11,802 states |
| `large_request`, `default_strategy`, `no_memory`, `foreign_break` | one documented claim each that the code does not keep | as above, or smaller |

Why the bounds are enough to be interesting. `seglist`: with three segments
there is a first, an inner and a last one; the smallest segment takes 10 bytes
and a page is 16, so gaps occur that are too small for a segment, exactly as
large, and larger than a page; sizes 1 and 2 share a rounded size and 9 makes
the arena grow by more than a page; both an aligned and an unaligned initial
break occur. The proofs below remove these bounds.
`strategies`: four segments leave up to three separate gaps besides the one at
the start, so that ties, a best gap behind a worse one, and next-fit's wrap
around the list header all occur; only termination rests on them, the proofs
remove them for the rest. `methods`: two addresses let a
malloc-copy-free run against another thread's allocation and free, and
ownership may pass between threads; the proofs remove the bounds for all but
the two liveness properties. `allocator_threads`: a page of 4 holds one block, so that the
arena grows and contracts under two threads and a call of either may be between
any two steps of the other's; without padding every byte too many hits a
struct; the proofs remove the bounds, for all but `NeverStuck`.
`allocator_padded`: padding, gaps between 0 and more than a page, and
blocks that are written, resized and moved. `storage`: six addresses give every
way two blocks of up to four bytes can lie. `Writers`, `MaxBlocks`, `MaxSegs`,
`BreakLimit`, `Ptrs`, `MaxSize`, `LastAddr`, `MaxLength`, `Rounds` and
`Programs` are bounds of the models only.

Deadlock is checked in every run but `storage`, whose one call returns and
leaves nothing to do. Elsewhere `Stopped` (or `Finished`) lets the process
stutter after it is gone, and nothing else may stop.

Symmetry. `allocator_threads` treats the threads as interchangeable; they are
model values no definition distinguishes and no liveness is checked there.

Fairness. `Strats` assumes that the searching thread keeps running
(`WF(ScanStep)`, `WF(EndScan)`); it holds the lock and waits for nothing.
`Storage` assumes the same of the thread that copies or zeroes, and nothing of
the others. `Methods` assumes weak fairness of each thread's own steps and of
taking a lock that *stays* free, which is all a default pthread mutex gives. It
does not assume that waiting threads take turns, so a single call may starve
while others keep calling: `SomeCallReturns` claims progress for the system and
`CallReturns` claims it for one call once the others have stopped. Clients are
never forced to call. The other runs check no liveness.

## Where code and documentation differ

- `large_request`: the conversion `(int)total_size` makes any gap "fit" a
  request whose total exceeds `INT_MAX` (`strats.c:48` and its copies), and
  `round_up` wraps at the end of `size_t`; `find_free_seg` then returns a gap
  that is too small. `size_arith` shows that below `INT_MAX` all is exact.
- `default_strategy`: the README names first-fit as the default,
  `memory_mgmt.c:22` sets next-fit.
- `no_memory`: `malloc` expects a null pointer from `find_free_seg` when `sbrk`
  fails and returns it (`methods.c:54`); `expand_list` exits the process
  instead (`memory_mgmt.c:866` and 917; the very first `sbrk` does yield null).
- `foreign_break`: `expand_list` compares the result of `sbrk` with -1 only
  (`memory_mgmt.c:913`) and takes the new pages to follow `end_addr`. When a
  library moved the break in between, `find_free_seg` returns space that is not
  free, against `memory_mgmt.h:29`.

Smaller ones, without a run. `get_prev_reference` is documented for any address
and is right only for the first address of a gap; the allocator passes no other.
A comment in `expand_list.c` says the list is expanded every time; whole pages
last for several requests. In `malloc.c`, `calloc.c` and `free.c` the inner
loops count `i` instead of `j`, so that the blocks they mean to write or free
are mostly left alone, and `array[10000]` is outside its array.

## What is proved

**Segment list.** For every layout allowed by `LayoutAssumption`, every set of
sizes, initial break and number of segments, `SegListProofs` proves that `Spec`
implies the invariance of `TypeOK`, `ListLinked`, `AddressOrder`,
`FirstIsLowest`, `GapAccounting`, `SegmentsDisjoint`, `LastAddrLive`,
`ArenaBacked`, `ArenaInPages`, `AllAligned`, `CallFits`, `NoAbort` and
`EmptyArenaReturned`. The assumptions are `LayoutAssumption` and
`ClientAssumption`, which TLC evaluates in the runs.

No invariant is inductive alone: the order needs the links, the assertion of
`expand_segment` needs the alignment of gaps, disjointness needs the counters.
`IInv` conjoins them with `Unstarted` (nothing exists before the first call).
All list operations reduce to three edits: linking a segment behind a tail
(`Insert`), unlinking one (`Unlink`) and moving a tail (`MoveTail`).
`SegListProofs` first states what an edit does to each segment's tail, successor
and gap, seen as functions of its header (`...View`), then that it keeps the
list ordered and exactly counted (`...Ordered`). The key geometric fact
(`Geometry`) is that a segment with its gap ends before every later segment
begins: local counters and order imply global disjointness without induction
over the list. Then comes one lemma per action, and `NextInv` combines them. `AllocDefsProofs` holds what is needed of `round_up` and page
rounding; products of constants are kept behind lemmas.

**Calls.** For any set of threads, addresses and sizes, `MethodsProofs` proves
the invariance of `MTypeOK`, `LockDiscipline`, `EveryBlockAccounted`,
`DataIntact`, `OldSizeStillTrue` and `PlaceStillFree`, from `CallsAssumption`
and `MethodsAssumption`. What the clients see says nothing of calls under way,
so `MIInv` adds `CallOK` for every thread: how far its call is and which of its
variables are set (`Shape`), the sizes it may rely on (`SizesKnown`: the size
read without the lock, and that a block found too large to stay is smaller than
the new one), and where the data are that its client will get back
(`DataSafe`: in the old block until the copy, in the result after it). `CallOK`
speaks of one thread and the blocks it has in flight; `EveryBlockAccounted`
makes these disjoint from everybody else's, so a step of one thread leaves the
`CallOK` of the others alone (`CallFrame`, `Combine`), and each action's lemma
only has to restore its own.

**Atomicity.** `CallsAreAtomic` proves that `Methods` implements `MallocAPI`:
whatever the threads do, each call hands out an address nobody has, gives
`calloc`'s zeroes and `realloc`'s old bytes, and fails only where that is
allowed. `MIInv` is strong enough for it: that `realloc` to less room has a
result when it gives the lock back, and that one which returns none needed more
room, are conjuncts of `Shape` and `SizesKnown`. A step of one thread does not
change what is seen of the others (`OnlyMine`: their blocks are not in its
flight), so each step's lemma compares its own call before and after: it is the
same (`Unseen`), or what `MallocAPI` makes of it (`Seen`).

**Byte loops.** For every number of addresses and length, `StorageProofs`
proves `CopyExact`, `ZeroExact` and `RefusesOnlyTheImpossible`, from
`StorageAssumption`, by `LoopInvariant`: `i` bytes are done, no other one is
touched, and nothing still to be read has been overwritten.

**Heap.** `HeapProofs` proves that `SegList` implements `Heap`. Each action is
matched with one of the heap's (`AddEntryAllocates`, `RemoveReleases`,
`MoveTailResizes`, and `HeadersKept` for those that leave every header): an edit
changes the size recorded in one header only, and that the blocks are apart
afterwards is `SegmentsDisjoint` in the next state. It also proves
`GrowsByNeed` and `ContractsFully` from `IInv` and the bounds of page rounding.

**Searches.** For every list and every request, `StratsProofs` proves
`ReturnsWanted`, `IteratorClimbs`, `STypeOK` and that `Strats` implements
`SegList`. The strengthened invariant is `ScanOK`: at a loop's tail `t`, the
locals hold the gap to choose among those that start at or below `t` (`UpTo`),
by an order of preference for each strategy (`Preferred`). `NextTail` is where
the address order of the list comes in: nothing lies between a tail and the one
the iterator moves to, and the loop ends exactly when none lies above; hence an
iteration adds one gap to those seen (`SeenNext`) and the last one leaves none
out. What the loop kept is then the `Wanted` of the definition (`ChosenIsWanted`).

**Widths.** `SizeArithProofs` proves `ExactUpToIntMax` for every width of `int`
and `size_t`, from `LimitsAssumption` (the order of `INT_MAX`, `UINT_MAX` and
`SIZE_MAX`, in place of the laws of exponents, which need induction).

**The allocator.** For any set of threads, any layout, sizes, initial break and
number of blocks, `AllocatorProofs` proves that `Allocator` implements
`Methods` (`ImplementsMethods`), `MemoryIntact` and `ATypeOK`, from
`AllocatorAssumption`, `CallsAssumption` and `ArenaAssumption`; the last one is
what `LayoutAssumption` and `ClientAssumption` say, for the constants of
`Allocator`. Nothing is proved twice. `S` instances the proofs about the list,
`P` those about the calls with the list's blocks and bytes for the abstract
heap, and `AInv` conjoins their inductive invariants with what neither can say:

- `PlaceKept`: between `find_free_seg` and `add_entry`, what the list has kept
  is what the thread has kept (the lock sees to it that there is one thread);
- `ArenaIntact`: to whom each byte belongs. Structs lie where the list says,
  and padding, gaps and everything outside a segment are junk, so that a new
  segment holds nothing that anybody relies on;
- `BreakBounded` and `Typed`: the arena ends within the model's memory.

`MemoryIntact` alone is not inductive: that a block's bytes survive the tails
moved beside it needs the order of the list, and that they belong to the right
client needs `EveryBlockAccounted` and `DataIntact` of `P`. Each step is shown
to be a step of the list or to leave it alone, and a step of `Methods`; the
lemmas `NextInv` of the two instances then give their invariants, and the
refinement is already there. What is left for each step is its bytes:
`OneSegment` (a step that writes inside one segment, or in the space it takes
or gives back, leaves the rest of the arena intact), `UserBytesOnly` (one that
writes user bytes only) and `ContentsElsewhere` (all other blocks read the
same). `shrink_segment` and `expand_segment` apply a difference of sizes to the
header; that it comes out as the size asked for is the `SizesKnown` of `P`.

`ListStaysSound` and `BlocksStaySound` restate what the list alone and the
calls alone guarantee for the two together, and `AllocatorCallsAreAtomic` that
the calls are atomic on the real list and its bytes, for every layout.

`ArgumentsStayValid` is the substance of `NeverStuck`, without ENABLED: the
assertions of `add_entry` hold in the place found before, the pointer of `free`
and `realloc` is a segment of the size read without the lock, realloc's test of
the gap and `expand_segment`'s agree, and the blocks `copy_mem` gets do not
overlap, so that `realloc` never meets the `ERROR` that each of the three may
return. It also says that `find_free_seg` is never at the bound `SegList` puts
on the number of segments, so that the bound leaves no behaviour out. It needs
two facts more:

- `NoForgottenPlace`: nobody leaves a place behind that `add_entry` has not
  used;
- `RoomKept`: the blocks in the clients' hands and the calls that have a block
  or may get one are at most `MaxBlocks` together. Every block is with a client
  or in a call, and a call has at most two (realloc's old and new one); a call
  still looking for a place has at most the old one. So fewer than
  `2 * MaxBlocks` segments are live when it looks. The proof counts with the
  cardinality theorems of the library: `OneMore`, `OneLess` and `ThreeParts`
  bound a set that changes by one element and one that three sets cover.

`FirstIsLowest` is proved and not in a run: the highest segment leads to
`first_seg` (`AddressOrder`, `ListLinked`), so the runs check it with these.

Only model-checked: liveness (`SomeCallReturns`, `CallReturns`, `SearchEnds`,
`Returns`) and `NeverStuck`, which rests on ENABLED, are out of the prover's
reach; what `NeverStuck` asks of the list is proved (`ArgumentsStayValid`), that
a step is then enabled is not. `TestsPass` compares addresses along fixed
scripts: evaluating them is TLC's business, and there is nothing to generalise.

## Not modelled

Logging. `NDEBUG` builds (no assertion, otherwise the same while `NoAbort`
holds). Invalid or doubly freed pointers, which the code declares undefined, and
with them `special_free.c`, `special_realloc.c` and `test_that_crash.c`, whose
programs pass such pointers and are expected to crash; the functions of
`add_entry.c` no test calls. What the tests write into their blocks and compare
(the contents are `Methods`' and `Allocator`'s subject). `fork`, and `atexit`
handlers that free memory while `exit` runs under the lock: they belong to the
client program. A kernel that refuses to take pages back (`memory_mgmt.c:528`).
`clear_alloc_storage` called before any allocation or beside other threads: it
takes no lock and is for debugging. Build and documentation settings.

## Plan

1. *(done)* `SegList` and its proofs, `Heap`, `Strats`, `Methods`, `SizeArith`.
2. *(done)* `Calls` and `Allocator`: the threads on the real list, byte by byte;
   `Storage` with its proofs; `UnitTests`; `ForeignBreak`; the proofs of
   `Methods`, of the searches, and of the refinements `SegList` implements
   `Heap` and `Strats` implements `SegList`.
3. *(done)* The inductive invariant of `Allocator`, and from it `ATypeOK`,
   `MemoryIntact`, `ImplementsMethods` and `ArgumentsStayValid` for every number
   of threads and blocks.
4. *(done)* `MallocAPI`: that the calls are atomic, for `Methods` and for
   `Allocator`; and the counting that shows `2 * MaxBlocks` segments to be
   enough, so that the bound of `SegList` is never in the way.
