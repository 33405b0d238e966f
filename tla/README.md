# A TLA+ verification of cpp-memory-allocators

The repository is a set of memory allocators behind one abstract class
(`Allocator.h`): a frame allocator, a stack allocator, a pool allocator, a
general-purpose free-list allocator (`SequentialListAllocator`), a red-black-tree
allocator, a page supplier over virtual memory, and a benchmark that drives them.
Everything runs in one thread and nothing is persisted. What is hard here is not
interleaving of processes but long sequences of legal calls: the allocators keep
their bookkeeping *inside* the memory they manage, so one wrong link is silent
until a much later call follows it.

## 1. Inventory

| Component | State | Operations | Module |
|---|---|---|---|
| `SequentialListAllocator<buffer, pattern>` | `m_size`, `m_end`, `m_llStart`, `m_llEnd`, `m_nVMPages`, `m_initialized`, and the headers of free and allocated blocks in the arena | construction, `Alloc` (first fit, best fit, page expansion), `Free`, `Layout`, `ZeroMem`, `Reset`, `Release`, destruction | `SequentialListAllocator`, `SequentialListSound`, `ArenaContract` |
| `VMLinearAllocator` (page supplier) | `m_reserved`, and which pages are committed | construction, `Alloc`, `Release` | `VMLinearAllocator` |
| `LinearAllocator` (frame) | `m_cur`, `m_free`, `m_initialized` | `Alloc`, `Reset`, `ZeroMem`, `Release`, destruction | `LinearAllocator` |
| `StackAllocator` | `m_cur`, `m_initialized`, a one-byte header before each block | `Alloc`, `Free` (last block), `Reset`, `ZeroMem`, `Release`, destruction | `StackAllocator` |
| `AllocatorBenchmark` | the array of pointers, the round in progress | `Benchmark` with its `ALLOC_`/`FREE_` flags | `AllocatorBenchmark`, `MCAllocatorBenchmark` |
| Address arithmetic (`_fitPadding`, masking) | none | alignment, padding | `MemLayout` |
| `PoolAllocator` | `m_llStart`, `m_pgSize`, and the link in the first word of each free page | construction, `Alloc`, `Free`, `Reset`, `ZeroMem`, `Release`, destruction | `PoolAllocator` |
| `VMAllocator` (page supplier with block headers) | `m_reserved`, which pages are committed, the headers | construction, `Alloc`, `Free`, `Release` | `VMAllocator` |
| `GPCL::DiscreteMultiRBTree` (`Util.h`) | the nodes and the root of a red-black tree of lists | `Insert`, `Delete` | `RBTree`, `DiscreteMultiRBTree`, `RBTreeShape` |
| `RBTreeAllocator` | the same tree, of free blocks by size, its nodes in the blocks; the headers of blocks in use | construction, `Alloc`, `Free` | `RBTree`, `RBTreeAllocator`, `RBTreeShape`, `MCRBTreeAllocator` |
| `SystemAllocator`, `main.cpp`, `Session.vim` | none | pass-through, a demo, an editor file | not modelled |

How they interact: `SequentialListAllocator<VMDYNAMIC>` owns a
`VMLinearAllocator` and calls its `Alloc` when no free block is large enough; the
two must agree on where memory ends (the assert `ERR VMALLOC IS NOT CONTIGUOUS`).
The benchmark calls `Alloc`, `Free`, `Reset` and `Layout` of a
`SequentialListAllocator` and holds the pointers in between. `RBTreeAllocator` does
not use the tree of `Util.h`: it repeats its code, with one difference at line 440.
`VMAllocator` repeats `VMLinearAllocator` and adds a header and `Free`. `VirtualAlloc`,
`VirtualFree`, `malloc` and `free` are outside the repository and appear only by
what they do to the set of mapped addresses.

What makes each component correct:

* free list: the blocks in use are disjoint and keep their headers; the list,
  followed in either direction, is exactly the gaps between them; a request is
  refused only when no gap can serve it; every call ends; nothing reads a word
  nobody wrote as a link;
* page suppliers: what is committed is what the blocks in use need, inside the
  reservation; a new block lies above all others, so that an arena can grow upwards;
* pool: the list leads through the free pages and ends, and every page is free or
  held, not both;
* tree: after each call it is a red-black search tree, every node inserted and not
  deleted can be reached, and every repair ends;
* red-black-tree allocator: the blocks, free and held, tile the buffer, every free
  block can be found in the tree, and a block with room is found;
* frame and stack allocators: blocks are aligned, inside the buffer and disjoint;
  popping gives back exactly what pushing took;
* benchmark: the pointers it holds are exactly the blocks outstanding, and every
  round is carried out.

The hazards, line by line, are in `PROJECT.json`.

## 2. Modules and how they correspond to the code

**`MemLayout`** is the address arithmetic: rounding up by masking, `_fitPadding`,
and the padding both allocators with headers settle on (`BlockPadding`).

**`SequentialListAllocator`** is the core. One address is one 8-byte machine word;
`mem` maps every mapped address to what it holds. A `FreeBlockHeader` is three
words (next, prev, sz), an `AllocatedBlockHeader` two. Bytes that clients write,
or that `malloc` leaves, are `Junk`. The loops of the code (the two-ended searches
of `alloc_*_FIRST_FIT` and `alloc_*_BEST_FIT`, the scan for neighbours in `Free`,
the walk of `Layout`) run one iteration per step, with their local variables in
`call`; the list they walk is whatever the memory says, so a damaged list is
walked as the program would walk it. `_splitBlock` is kept with its reads and
writes in the order of the code, because with a damaged list they can meet the
same words; a step whose block sizes would be read from words it has just linked through
is undefined. `Free` does the same where it merges on both sides or the right (`Merged`):
the link it follows is read after the new header was written. The constants `Buffer` and
`Pattern` select the template instance. A failed assert ends in status `"aborted"`. A step that would read `Junk` as a link
or size, or touch an unmapped address, ends in `"undefined"`, about which nothing
more is said. `live` is a ghost: what clients have been handed and not given back.

**`VMLinearAllocator`** is the supplier, and is instantiated inside the core with
`committed <- DOMAIN mem`. The product `n * m_pgSize` is taken modulo `U32`, and a
commit may fail.

**`SequentialListSound`** names the two paths of `Free` that damage the list,
defines the client that stays off them, and after `Release` calls nothing but the
destructor (`SoundSpec`), states what a whole list is
(`ForwardList`, `BackwardList`), and maps the allocator onto the contract.

**`ArenaContract`** is the abstract specification: no list, only the set of blocks
in use; the gaps are whatever they leave. `Implements` is
`ContractSpec` under the mapping `held <- live`, `end <- m_end`, the request
in progress, and whether the arena is open.

**`AllocatorBenchmark`** runs rounds of allocations and frees over
`SequentialListAllocator`; the shuffles are any order. `MCAllocatorBenchmark`
holds values for its sequence constants.

**`LinearAllocator`**, **`StackAllocator`**: one action per operation.
`m_cur` uninitialized by the constructor that takes a buffer is a choice from
`Garbage`. `Release` and `ZeroMem` do not look at `m_initialized`; on a buffer that is
gone they end in `"undefined"`, here and in the pool.

**`PoolAllocator`** keeps what each word of the buffer holds, since the next page is
read from the page itself: from `ptr`, where `std::align` has moved `m_llStart`, which
need not be where a link was written. `stack` is a history variable, the pages that
ought to be free, and `lost` the ones that `ZeroMem` has cut off.

**`VMAllocator`** extends `VMLinearAllocator`, whose actions it repeats with the blocks
clients hold (`SupplierAlloc` is `Alloc`, `SupplierRelease` is `Release`); `headers` says which of the two classes a behaviour is about, so that
both are held to the same properties.

**`RBTree`** is the tree both copies of the code build: `link` maps a node to its
fields, and `op` holds the operation under way with its local variables. One iteration
of `_insert`'s or `Delete`'s loop, of the repair `_fixup`, of `_smallestInSubtree`, and
one level of the recursion of `_fixDoubleBlack` is a step. A step writes through several
pointers one after the other; each write (`Set`) takes a tree half way through the step to
the next one and notes whether the pointer was one to a node, and a step that follows any
other ends in `"undefined"`. The two copies differ in one test, and the constant
`NephewTestInverted` says which one is meant; rows of the map point into either file.
`llPrev` is written and never read, and is left out.

The code has five steps that damage the tree (section 5). They are modelled like any
other; each also sets the history variable `whole` to `FALSE`, and what is claimed of
the tree is claimed while `whole` holds. The conditions under which they do no harm
are written out (`op.cur # root`, `SwapKeepsShape`, the colour of the nephew).

**`RBTreeShape`** says what a red-black search tree of lists is, by reachability, for
both users: **`DiscreteMultiRBTree`**, which inserts and deletes keys and leaks the heads
of lists as the code does, and **`RBTreeAllocator`**, where the nodes are the free
blocks, keyed by size. There `_rbtreeStrictBestFit` is a step per call, with the calls
that wait for their left branch in `pending`; then `_deleteNode` takes the block off the
tree, `TakeBlock` splits it, and the rest is inserted. `MCRBTreeAllocator` adds the
shape of the tree to the allocator.

The theorems stand in modules of their own: `MemLayoutProofs`, `SequentialListProofs` (the
core, its contract and the benchmark), `BumpAllocatorProofs` (`LinearAllocator` and the two
page suppliers, which only move a pointer up), `StackAllocatorProofs`, `PoolProofs`,
`RBTreeProofs` (the tree itself, whoever uses it), and on top of that
`DiscreteMultiRBTreeProofs` and `RBTreeAllocatorProofs`.

Definitions marked "mutant" are plausible slips in the code: substituting one for
the definition it imitates must make a run fail.

### Abstractions

* In `SequentialListAllocator`, `PoolAllocator` and `RBTreeAllocator` sizes, alignments
  and addresses are in 8-byte words: requests that are not multiples of a word are not
  represented. The frame and stack allocators count bytes.
* A pool has at least one page, and a page holds at least one word; a buffer lies far
  enough from address 0 for `m_end - 2*m_pgSize` not to wrap (`PoolAssumption`).
* In `RBTreeAllocator` the buffer holds at least one node (`RBAssumption`). A step that
  would write outside a block, or read through `NULL`, ends the behaviour.
* Asserts are enabled. A build without them is not described.
* `malloc`, `new` and the first reservation succeed.
* A client frees only pointers it holds, once, and passes a copy (the code sets
  the caller's pointer to `NULL`). `Free(NULL)` returns at once, and is a step only in
  the benchmark.
* After `SequentialListAllocator::Release` the clients have given up their blocks; every
  call may still be made, since only the destructor looks at `m_initialized`.
* `IntMax` and `U32` are constants so that the limits `INT_MAX` and 2^32 can be
  brought into reach.

## 3. What the runs check

All of the bounds are the constants of the `.cfg` files.

| Run | What it shows | Bounds, and why they reach the interesting cases |
|---|---|---|
| `sound_first_fit` | the list is whole in both directions, blocks are disjoint and keep their headers, no call is undefined, and the contract is implemented | 22 words, requests of 1 and 4: up to four free blocks at once, which is what it takes for the scan in `Free` to walk (line 406) before it meets the block; exact fits, splits, and a last remainder too short to split |
| `sound_vmdynamic` | best fit over a growing arena: supplier, arena and contract agree | 6 words growing by pages of 3 to 15, alignments 1 and 4: three free blocks, expansion with and without a last free block, paddings of more than the header, the reservation used up |
| `any_client` | types hold and what is handed out serves the request, even once the list is damaged or zeroed or the pages released | pages of 4, alignments up to a page; damaging frees, `ZeroMem` and calls after `Release` are allowed |
| `benchmark` | the list, forwards, is whole through LIFO, FIFO and `Reset` rounds; these lose no pointer and are carried out | six blocks of three sizes at alignment 4, in sequence and in every order; two rounds or more in each combination that reuses the arena |
| `linear` | blocks are sound through Resets, `m_free` never wraps | 12 words, alignments 1 and 4 |
| `stack` | blocks are sound and popping restores `m_cur` | 12 words, paddings that fit `PadMod` |
| `vm_suppliers` | both suppliers commit what the blocks in use need, and grow upwards | seven pages of 2 in a reservation of 15, which is no multiple of a page; products wrapping modulo 32, to 0 among others; every order of frees, holes under `m_reserved`, failed commits |
| `pool` | the list is the free pages, each once; every page is free, held or cut off | three pages of 4 words from address 10, all three held at once (`MaxHeld`); alignment 2, which every page has, and 4, which shifts the pages by 2 and leaves `m_pgSize` 2, then shorter still, until links are read where there are none |
| `tree` | what `Util.h` builds is a red-black search tree again after each call; nothing is lost; every loop ends | six keys, two nodes of one of them (`Twice`), up to `MaxNodes` = 6 nodes: every case of `_fixup` and `_fixDoubleBlack`, deletions of inner nodes; in a damaged tree insertions go up to `MaxDamaged` = 3 nodes |
| `rb_allocator` | every word has one owner, blocks are sound, every free block can be found | 40 words, requests of 4 to 8 at alignment 2 (blocks of 6 to 10 words, the shortest of which cannot be given back): up to five free blocks, rests exactly as long as a header and one word shorter, lists of equal sizes; `Alloc` from a damaged tree up to `MaxDamaged` = 4 blocks |
| `heap_overlap` (violation) | two live blocks overlap after legal frees | see section 5 |
| `rb_search` (violation) | a request that a free block has room for ends in a read through `NULL` | see section 5 |

`CHECK_DEADLOCK FALSE` is set wherever the program may stop: the arena is
destroyed, an assert failed, a step was undefined, or the benchmark is over.
`vm_suppliers` checks none either, since `VMLinearAllocator::Free` always asserts.

`TypeOK` of `rb_allocator` and of `pool` says more than types: that no free block is
shorter than the node in it, and that neither the list head nor a link ever leaves the
buffer, damaged or not.

**What the runs of the tree leave to each other.** `rb_allocator` fits too few blocks
into its buffer for a deletion of an inner node, a red sibling, or a double black without
a sibling; `tree` reaches all of them. The fall-back of lines 629-641 is never taken in a
tree that is whole: for the left call to return `NULL` its node would have to be a leaf
smaller than the request, and line 625 goes left only if the left node is at least as
large, and every node it goes on to is larger still. Nor does the run reach it in a
damaged tree.

**Fairness.** `WF_vars(Step)`: one thread executes a call, and nothing can keep it
from its next iteration. No client is obliged to make a call. In the benchmark the
client is that same thread, so the whole next-state relation is weakly fair. The tree
needs no fairness for its loops to end: `RepairsClimb` is an action property, that
each step of a loop lowers a natural number.

`sound_first_fit` and `sound_vmdynamic` restrict the client to frees that do not
merge into the first free block and are not appended apart from the last one. This
is a precondition the code does not state; the violations show what happens without it.
`Returning` (every call of the free-list allocator comes to an end) has no run of its
own; it holds of `SoundSpec` with `Buffer = "STATIC_PREALLOC"`, `Pattern = "FIRST_FIT"`,
`Size = 13`, `Sizes = {1, 3}`, `Aligns = {1}` (9,795 states).

## 4. What is proved

TLAPS proves the following for every value of the constants that satisfies the
named assumptions of the modules.

* `MemLayoutProofs!BlockPaddingOk`: the padding aligns the pointer, leaves room
  for the header, and exceeds that room by less than the alignment.
* `SequentialListProofs!TypeCorrect`, `AlwaysServed`: `Spec => []TypeOK` and
  `Spec => []Served`, for any client, including those that damage the list; every step of
  `HeapSpec` and `SoundSpec` is one of `Spec`.
* `SequentialListProofs!ArenaContiguous`: under `RequestsFit` (no request needs
  2^32 bytes of pages) `Spec => []Contiguous`.
* `SequentialListProofs!SoundDisjoint`, `SoundHeaders`, `SoundFaultless`, `SoundForward`,
  `SoundBackward`: under `SoundAssumption`, `SoundSpec` implies each of `[]Disjoint`,
  `[]HeaderIntact`, `[]NoFault`, `[]ForwardList` and `[]BackwardList`, for first and best
  fit, all three kinds of buffer, and any arena, page, sizes and alignments.
* `SequentialListProofs!SoundImplements`: under the same assumption `SoundSpec => Implements`;
  the free-list allocator implements `ArenaContract`.
* `SequentialListProofs!BenchmarkSound`: under the same assumption a run of the benchmark
  whose calls of `Free` stay off the two damaging paths has `[]HoldsWhatItGot`, for any
  sizes, number of tests and flags, `Reset` rounds and failed allocations included.
  `BenchmarkHolds` says the same of every run in which `Alloc` returns no pointer that is
  in use (`Fresh`), damaging frees or not.
* `BumpAllocatorProofs!LinearTypeCorrect`, `StackAllocatorProofs!StackTypeCorrect`:
  `Spec => []TypeOK`, over a caller's buffer as well, with `m_cur` never set.
* `BumpAllocatorProofs!LinearSound`, `StackAllocatorProofs!StackSound` and
  `StackTiled`: for allocators that own their buffer (`~PreAlloc`), the blocks are
  sound and, when every alignment is below `PadMod` and nobody zeroes the headers,
  the stack is tiled. `StackSound` covers `ZeroMem` and narrowed paddings, which
  the run leaves out.
* `BumpAllocatorProofs!SuppliersBacked`, `SuppliersGrowUpwards`: both properties of
  `vm_suppliers`, for any reservation, page size and `U32`. `VmTypeCorrect` and
  `VmReuse` are about `VmSpec`, the supplier as the arena uses it.
* `PoolProofs!PoolTypeCorrect`, for any pool and any request; `PoolSound`,
  `PoolAccounted` and `PoolBlocksSound`, the three other invariants of the run, where
  every page has the alignments asked for (`AlignsFit`).
* `RBTreeAllocatorProofs!RBTypeCorrect`, `RBSound`, `RBBlocksSound`: `Spec` implies
  `[]TypeOK`, `[]Tiled` and `[]BlocksSound`, for any buffer and requests, and either copy
  of the tree, damaged or not. `RBNeverFaults` and `RBFreeBlocksKept`: `[]NoFault` and
  `[]FreeBlocksKept`, which speak of behaviours without a damaging step.
* `DiscreteMultiRBTreeProofs!TypeCorrect`, damaged or not, and `StaysRedBlack`,
  `LosesNothing` and `NeverFaults`, without a damaging step: `Spec` implies `[]TypeOK`,
  `[]RedBlackTree`, `[]NothingLost` and `[]NoFault`, for any keys and any number of nodes.
  `LoopsEnd`: `Spec => RepairsClimb`, so that no loop or recursion over such a tree goes on
  for ever.
* `RBTreeProofs!TreeStepSteady`, `TreeStepSane`, `RestShape`: what the last two modules
  have in common, see below.

`SoundAssumption` has three parts, each a place where the code goes wrong without it
(section 5). No size is 0: the block of an empty request is two words long and cannot
hold the `FreeBlockHeader` of three that `Free` writes into it. `RequestsFit`: the page
supplier multiplies in 32 bits. `IntMax`, best fit's first bound, is not below the
arena's largest size. `SeqAssumption` has the arena start above address 0, since the
code takes 0 for the end of the list.

**The argument for the free list.** `Served` is not inductive: best fit decides on
one step and takes the block on a later one. The invariant is
`IInv == TypeOK /\ SearchOK /\ Served`, where `SearchOK` says that the block kept so far
still holds a size and is long enough. No step writes memory while a search is in
progress, which is what carries `SearchOK` along. `SplitBlockOk` gives the types and
lengths `_splitBlock` leaves, `TakeBlockOk` the tail all three allocation paths
share, and `ExpandPagesEnough` that the page count is never too small; one lemma per
group of actions then feeds `NextInv`. `Contiguous` is inductive given `TypeOK`, since
`PagesDoNotWrap` makes the supplier's 32-bit product equal the arena's 64-bit one.

**The argument for a whole list.** The list is not followed at all: no induction over
its length is needed. The free blocks are *defined* from the blocks in use:
`Starts(U, end)` is the set of places where a gap between the blocks `U` begins. `Tiles`
says that, with the sizes in their headers, these cover what `U` leaves, and that no two
of them touch; `Linked` says that `next` and `prev` of each are its neighbours in the
set, and `m_llStart` and `m_llEnd` its least and greatest member. Both are statements
about one or two blocks at a time, so that each step disturbs the places it writes and
nothing else. `ForwardList` and `BackwardList` follow from them between calls.

Inside a call two things are out of step. While `Free` still looks for the place of its
block (`call.op = "scan"`), that block is no longer `live` and not yet free; `Used` counts
it among the blocks in use. And the loops know something of where they have been, which
is `CallOK`: the two ends of a search have passed only blocks that do not serve the
request (`SearchedSoFar`), a request on its way to fresh pages fits no block at all
(`NoneFits`), the scan's two pointers stand on free blocks on either side of the block
(`Scanned`), the walk of `Layout` stands on a free block until it ends (`Printed`). With this and bounds on the
arena's end, `SInv` is inductive beside `IInv` and `Contiguous`; the conjunction is
`AllInv`. TLC checks it too, when a module that extends `SequentialListProofs` takes
it as an invariant under the constants of the two `sound` runs, and any for the
benchmark, which that module extends as well.

The heart of it are four changes of a tiling and what they do to the links: a block is
taken from a free one, whole or from its low end (`TakeTiles`), given back and merged
with what it touches (`GiveTiles`), the arena grows (`GrowTiles`), and a header changes
hands (`LinkReplace` and its kin). Above them is one lemma per action, and for the scan
in `Free` one per outcome of an iteration. The two damaging frees are not
sound steps, and the proof needs exactly this.

**The argument for the refinement.** `AllInv` holds of both states of a step, and each
step has a lemma: accepting a call is `Ask`, the step that takes a block is `Grant`, or
`GrowAndGrant` with fresh pages, the end of a search without them is `Refuse`, `Free` is
`GiveBack` at once, whatever its scan does later, `Reset` is `Clear`, `Release` and
the destructor are `Close`, and all other iterations stutter. `Refuse` needs the whole
invariant: the contract refuses only if no gap can serve the request, and `SearchedSoFar`
says that the two ends have met without missing one.

**The argument for the benchmark.** `HoldsWhatItGot` speaks of the frees only; `BInv`
says what the array holds in every phase. `Holding(ptr, S, live)` is that the slots of `S`
which are not `NULL` hold the pointers of the blocks in use, each once. While slots are
filled `S` is the slots answered so far (`Answered`, one fewer than were asked for while a
call runs), so that the slot an answer is stored in is the next one; while they are freed
it is `todo`; during `Layout` nothing is in use. Every slot asks for one of the sizes
(`SlotSizes`, by division), and every free is of a block in use, so the benchmark is a
client of `Spec` (`BenchIsClient`) and `IInv` holds of it; with `SoundNext` so does
`AllInv`. The one fact needed of the allocator is `Fresh`, which `SoundIsFresh` gets from
the tiling: a block is cut from a free one, which lies apart from every block in use. TLC
finds `BInv` and `Fresh` true of the instance of `benchmark`, where LIFO rounds do damage
the list; that instance with the FIFO flag alone takes sound steps only.

**The argument for the stack.** `BlocksSound` needs that no free moves `m_cur` below
the blocks that remain, and that must hold when the stored padding is *smaller* than
the real one (narrowed or zeroed): it errs upwards only. `IInv` in
`StackAllocatorProofs` says so. For `LinearAllocator` the link between `m_cur` and
`m_free` is `m_cur + m_free <= m_end`: `Reset` breaks equality, never the bound.

**The argument for the suppliers.** `Backed` is inductive with the types: `Alloc` puts
its pages at `m_reserved`, which no block exceeds, and `Free` takes away exactly
the interval of one block, which by disjointness meets no other. Lowering `m_reserved`
to the start of the last block keeps it above the others for the same reason.

**The argument for the pool.** `IInv` adds `Unshifted` to the three invariants: with the
alignments of `AlignsFit`, `std::align` moves nothing. The list is described by the
history `stack`, position by position, instead of by following links: `Alloc` pops it,
`Free` pushes the boundary below the pointer (`BoundaryBelow` is the page itself, by a
lemma on division), and `Reset` replaces it by the pages in order.

**The argument for the red-black-tree allocator.** Which block the tree yields cannot
matter: `Tiled` must hold when the tree is damaged as well. So the invariant says nothing
of colours or order. Besides the three properties it has `Shape` (the fields of `op` that
a step may rely on), `Linked` (the nodes are the free blocks, but for the one being
inserted), `Waiting` (what `pending` may hold) and `Chosen` (the block a deletion was
started for is free, and has room for the request at the padding that was computed). No
tree step makes or removes a node: `RBTreeProofs!SetKeeps` says it of a write, and the
lemmas on the domain of the links carry it through rotations, swaps and repairs, so that
`TreeStepKeeps` disposes of the tree in one lemma. What is left is arithmetic: a block
split in two, or given back whole, covers the same words (`TakeBlockTiles`, `FreeTiles`).

**The argument for the red-black tree.** The properties of the runs speak of the tree by
reachability (`Below`, `Path`, `Listed`), which no single write can be followed through.
So the proofs carry the answers along as witnesses: a set `H` of heads and a function `D`
that says of each which heads are at or below it, tied to the links by conditions on a
node and its neighbours (`IsTree`); a black height `bh` that is the same through either
child (`Weighted`); a rank for the lists (`Listing`). A rotation changes `D` in two
places (`RotatedBelow`), and that the rest of it stays right is first-order
(`RotateTree`, `RotateOrdered`, `RotateWeighted`); likewise a new leaf, a node that is
taken out, one that takes another's place, and the swap with the right child. Left and
right are handled at once: the facts are about two fields `f` and `g`, and `EitherSide`
turns the tree over.

`Steady` says what holds between two steps, by what the operation is about to do
(`Phase`). At rest: a red-black tree, and every node in one list of it (`AtRest`). On the
way down: every head passed sends the key the same way (`Descending`). In the repair of
an insertion: at most `op.cur` is red under red (`Repairing`). In a deletion the weights
`w` that `Weighted` counts need not be the colours: the leaf that is to go counts
nothing and the node the double black has climbed to counts one more (`Doubled`), which
is what makes each case of `_fixDoubleBlack` a step that keeps the count; after a swap
the node may be out of order, and may have to borrow the colour it left behind
(`AfterSwap`). `TreeStepSteady` is then one lemma per action, `ReadsFine` that no step of
such a tree reads what is not a node. The hypothesis `whole'` is used at exactly the
five places of section 5.

`RestShape` leads back to the properties: what the level-by-level walk of `RBTreeShape`
collects is the least set closed under the links (`ReachIs`) and so `D[a]` (`BelowIs`);
the black nodes on the path to a node, and the black height below it, make up the black
height of the root (`BlacksAre`). Where these need an induction it is by a least element
of a set of finite sets or of numbers, for which the library's facts about strict
subsets and `WFMin` suffice (`MinSubset`, `MinNat`): among the nodes for which a
claim failed, one would be the nearest to the root, or the first in its list.

`RepairsClimb` needs no invariant beyond this one. `Variant` counts nodes by reachability;
`MeasuredAlways` says that it is the same number read off the witnesses: the heads below
`op.cur`, or those above it (`Up`). A child has fewer heads below it and a parent fewer
above it (`ChildLess`, `ParentLess`). A rotation takes the node it lowers out of the way to
the one it raises and puts no other there (`RotateUp`), which settles both rotations of an
insertion's repair; one under a red sibling leaves the double black under a red parent,
where the variant is 1. `StepClimbs` puts the cases together: a step that stays in its loop
is one of these five, and every other step changes `op.pc`.

`TypeOK` holds of damaged trees as well and is carried by `Sane`: every write puts an
address, or none, where an address belongs.

The two users add what they do outside the tree's own steps. `Delete` of `Util.h` looks
for its key, and its invariant says where the key would have to be (`Finding`), so that
the failing assert of line 170 means that it is not there (`Gone`). In `RBTreeAllocator`,
`TreeKept` says that the search stands on a node, and that the nodes waiting in `pending`
lie one below the left branch of the other (`Searched`); with that the node it comes back
to is still a free block. Taking a block off the tree and inserting the rest leave the
other nodes where they were (`FreedRest`).

**Only model-checked.**

* `HoldsWhatItGot` of benchmark rounds that take the damaging paths: that `Fresh` holds of
  them as well is known of the instance only.
* `Completes` and `Returning`, because liveness under fairness is beyond the prover.

## 5. Where the code disagrees with what is said of it

Two disagreements have a run of their own and are listed with their quotations
in `PROJECT.json`:

* `SequentialListAllocator.cpp:385` links to the pointer instead of the block;
  live blocks come to overlap (`heap_overlap`).
* `RBTreeAllocator.cpp:619` goes right from a node that has no room, and line 601 reads
  the size of the null child there before line 603 tests for it (`rb_search`). The demo of
  `main.cpp` followed by one more `Alloc(64, 8)` does it, and is what the run does in words
  over a smaller buffer: the block given back, of 80 bytes, is the left child of the rest;
  the search goes to it, finds that nothing would be left over, and goes on to its right.

Five steps of the red-black tree damage it. They are the ones that set `whole` to
`FALSE`; with `UNCHANGED whole` in place of any of them the run `tree` (or
`rb_allocator`, for the first) fails:

* `RBTreeAllocator.cpp:440`: `!sibling->left && sibling->left->color` reads through
  `NULL` when there is no left nephew, and when there is one takes the right nephew
  whatever its colour. `Util.h:310` has the test without the `!`.
* Inserting a key equal to the root's (`Util.h:217`, `RBTreeAllocator.cpp:186`): parent and
  children are linked to the new head and `root` is not, so the new node is never found.
  `Util.h:35` says "A RB Tree that allows multiple inserts with the same key".
* Deleting the head of the root's list (`Util.h:139`, `RBTreeAllocator.cpp:365`): `root` still
  points to the node that was taken off.
* Deleting the root when it has one child (`Util.h:383`, `RBTreeAllocator.cpp:508`): the child
  keeps its parent link and its colour, so that the root is red or leads to a freed node.
* Deleting a node with two children (`Util.h:419`, `RBTreeAllocator.cpp:533`): the swap does
  not exchange the colours, dereferences the parent of the root, and is written for a
  successor that is the right child. `SwapKeepsShape` has the cases in which it does no
  harm. The commented-out test of `main.cpp`, which deletes 40 from 30, 20, 40, 50, 35,
  is not one of them.

Others were met while modelling and can be reproduced by changing the constants or the
properties of a `.cfg`:

* `SequentialListAllocator.cpp:363` leaves the end of the list, or a `prev`, on the
  absorbed block: LIFO frees after best-fit allocations damage the list, although
  `SequentialListAllocator.h:24` says "2-10X faster free in a LIFO or FIFO order"
  (`BenchSpec` with `ForwardList`, `Buffer = "STATIC"`, `Pattern = "BEST_FIT"`, `Size = 24`,
  `Sizes = {1, 2}`, `Aligns = {1}`, `Alignment = 1`, `NTests = 2`, `AllocSize` of
  `<<1, 2>>` and `Flags` of SEQ and RANDOM with LIFO).
  After first fit it is the other direction that goes: `m_llEnd` stays on the absorbed
  block (`BackwardList` with the constants of `benchmark`).
* `SequentialListAllocator.cpp:350` writes three words into a block of two (`SoundSpec` with
  `HeaderIntact`, `Size = 16` and `Sizes = {0, 1}`).
* `LinearAllocator.cpp:59` does not restore `m_free`, although `Allocator.h:31` says "reset
  allocator state" (`LinearAllocator` with `ResetRestores`).
* `VMAllocator.cpp:54` says "thus, we can guarantee that every new allocation starts from
  the END in suballocators": not once blocks are freed in the order they were allocated in
  (`StartsAtTheEnd`).
* `RBTreeAllocator.cpp:112` writes a node of seven words into any block that is given back,
  and blocks of six are handed out (`FreeOverruns`).
* `_rbtreeStrictBestFit` is not best fit: when the left child is too small and a node to the
  right of that is not, it takes a larger block than it must.
* `Util.h:159` leaks the head of a longer list.
* `PoolAllocator.cpp:78`: an alignment that pages do not have changes `m_pgSize` for good;
  the next link is read where none was written (`AllocReadsJunk`), or `m_pgSize` reaches 0
  and line 95 divides by it (`FreeFaults`).
* `Layout` can follow a cycle for ever after the link of line 385 (`HeapSpec`
  with the property `Returning`), and line 460 can store through a null `prevBlock`
  (a benchmark whose `Flags` include a `"RAND"` free, with `NoFault`).
* The 32-bit product of `VMLinearAllocator.cpp:26` against the 64-bit one of
  `SequentialListAllocator.cpp:309`: `Contiguous` fails
  with, for instance, `U32 = 16`, `PageSize = 4` and a request of 17. `RequestsFit` is the assumption that excludes this.
* `INT_MAX` as best fit's first bound (`SequentialListAllocator.cpp:207`): in a
  static arena, an `IntMax` below its size makes `Implements` fail; in a growing one
  `NoFault` fails first, as the negative page count is converted.
* `m_cur` unset by the constructors over a caller's buffer
  (`LinearAllocator.cpp:12`, `StackAllocator.cpp:10`): `PreAlloc = TRUE` with any
  `Garbage` makes `BlocksSound` fail.
* A second `Release` frees the buffer again (`LinearAllocator.cpp:54`,
  `StackAllocator.cpp:76`, `PoolAllocator.cpp:108`, `SequentialListAllocator.cpp:500`):
  status `"undefined"` is reached.
* Paddings of 256 and more lose their high bits (`StackAllocator.cpp:55`): an
  alignment above `PadMod` makes `Tiled` fail.
* A failed commit leaves a hole (`VMLinearAllocator.cpp:36`): the addresses below
  `m_reserved` are then not all committed.

## 6. Plan

The order is by how much of the program depends on the part. Done: address
arithmetic; the free-list allocator, its supplier and its contract; the
benchmark; the frame, stack and pool allocators; both page suppliers; the tree of
`Util.h` and the red-black-tree allocator; the theorems of section 4. Next: a contract
for `RBTreeAllocator`. `ArenaContract` does not fit: its gaps are merged, while here
blocks that touch stay apart, so that the free blocks would have to be part of its state.

**Not modelled.** `SystemAllocator` passes every call on to `_aligned_malloc` and
`_aligned_free` and has no state; `main.cpp` is a fixed sequence of calls that the
run `rb_allocator` contains; `Session.vim` is no part of the program. The `Layout`
functions other than that of the free list only print; `_rbtreeFindKey` is never called.
