----------------------- MODULE SequentialListAllocator -----------------------
(***************************************************************************)
(* SequentialListAllocator<_ALLOC_BUFFER, _ALLOC_PATTERN>: an arena whose   *)
(* free blocks form a doubly linked list in address order, the links and    *)
(* sizes being stored in the free memory itself.                            *)
(*                                                                          *)
(* The unit of addresses and sizes is one machine word of 8 bytes.  mem is  *)
(* the arena, word by word: a free block starts with FreeBlockHeader (next, *)
(* prev, sz), the two words below an allocated pointer are its              *)
(* AllocatedBlockHeader (sz, padding), and everything a client may have     *)
(* written, or nobody has, is Junk.  Every loop of the code is run one      *)
(* iteration per step, its local variables being kept in call.              *)
(*                                                                          *)
(* A step that would read Junk as a link or a size, or touch an address     *)
(* that is not mapped, has no defined outcome: status becomes "undefined"   *)
(* and nothing is said of what follows.  A failed assert is "aborted".      *)
(***************************************************************************)
EXTENDS MemLayout

CONSTANTS
  Buffer,       \* "STATIC", "STATIC_PREALLOC" or "VMDYNAMIC"
  Pattern,      \* "FIRST_FIT" or "BEST_FIT"
  Base,         \* m_start
  Size,         \* the constructor's sz
  Sizes,        \* the sizes clients ask for
  Aligns,       \* the alignments clients ask for
  IntMax,       \* INT_MAX, the bound best fit starts from
  PageSize, ReserveSize, U32

NULL == 0
Junk == -1
allocHeaderSize == 2
freeHeaderSize == 3

ASSUME SeqAssumption ==
  /\ Buffer \in {"STATIC", "STATIC_PREALLOC", "VMDYNAMIC"}
  /\ Pattern \in {"FIRST_FIT", "BEST_FIT"}
  /\ Base \in Nat \ {NULL} /\ Size \in Nat /\ freeHeaderSize <= Size
  /\ Sizes \subseteq Nat /\ Aligns \subseteq Nat \ {0}
  /\ IntMax \in Nat /\ PageSize \in Nat \ {0} /\ ReserveSize \in Nat
  /\ U32 \in Nat \ {0}

VARIABLES
  mem,                  \* the mapped words, [address -> word]
  m_size, m_end, m_llStart, m_llEnd, m_nVMPages, m_initialized,
  m_reserved,           \* of the VMLinearAllocator
  call,                 \* the call in progress and its local variables
  live,                 \* what clients hold: [ptr, sz, al, lo, hi]
  status                \* "ok", "destroyed", "undefined", "aborted"

sizeVars == <<m_size, m_end, m_nVMPages, m_reserved>>
vars == <<mem, m_size, m_end, m_llStart, m_llEnd, m_nVMPages, m_initialized,
          m_reserved, call, live, status>>

Vm == INSTANCE VMLinearAllocator WITH VmStart <- Base, committed <- DOMAIN mem

Returned(p) == [op |-> "idle", result |-> p]
CeilDiv(x, y) == (x + y - 1) \div y

(***************************************************************************)
(* Headers.                                                                *)
(***************************************************************************)
Mapped(a) == a \in DOMAIN mem
Known(a) == Mapped(a) /\ mem[a] # Junk
KnownHeader(b) == Known(b) /\ Known(b + 1) /\ Known(b + 2)

NextOf(b) == mem[b]
PrevOf(b) == mem[b + 1]
SizeOf(b) == mem[b + 2]

WriteHeader(m, b, next, prev, sz) ==
  [m EXCEPT ![b] = next, ![b + 1] = prev, ![b + 2] = sz]

Junked(m, lo, hi) == [a \in DOMAIN m |-> IF a \in lo..hi THEN Junk ELSE m[a]]

OnlyCallChanges ==
  /\ UNCHANGED <<mem, m_llStart, m_llEnd, m_initialized, live, status>>
  /\ UNCHANGED sizeVars

Undefined ==
  /\ status' = "undefined"
  /\ UNCHANGED <<mem, m_size, m_end, m_llStart, m_llEnd, m_nVMPages,
                 m_initialized, m_reserved, call, live>>

(***************************************************************************)
(* Construction: one free block spans the arena (build).                   *)
(***************************************************************************)
InitialPages == CeilDiv(Size, PageSize)
InitialSize == IF Buffer = "VMDYNAMIC" THEN InitialPages * PageSize ELSE Size
Blank == IF Buffer = "VMDYNAMIC" THEN 0 ELSE Junk   \* committed pages are zeroed

\* The supplier can commit the first pages.
ASSUME ArenaAssumption ==
  Buffer = "VMDYNAMIC" => InitialSize < U32 /\ Base + InitialSize <= Vm!VmEnd

Built(m, size) == WriteHeader(m, Base, NULL, NULL, size)

Init ==
  /\ m_size = InitialSize
  /\ m_end = Base + InitialSize
  /\ mem = Built([a \in Base..(Base + InitialSize - 1) |-> Blank], InitialSize)
  /\ m_llStart = Base
  /\ m_llEnd = Base
  /\ m_nVMPages = IF Buffer = "VMDYNAMIC" THEN InitialPages ELSE 0
  /\ m_reserved = IF Buffer = "VMDYNAMIC" THEN Base + InitialSize ELSE Base
  /\ m_initialized = TRUE
  /\ call = Returned(NULL)
  /\ live = {}
  /\ status = "ok"

(***************************************************************************)
(* _splitBlock: take [block, ptr + sz) out of the free block.  m is the     *)
(* memory and first, last the list ends it works on; the result adds got,   *)
(* the size recorded for the allocated block.                               *)
(***************************************************************************)
SplitBlock(m, first, last, block, prevBlock, ptr, sz) ==
  LET next      == m[block]
      size      == m[block + 2]
      remaining == block + size - ptr - sz
      newBlock  == ptr + sz
      splits    == remaining >= freeHeaderSize
      heir      == IF splits THEN newBlock ELSE next
      m1 == IF splits THEN WriteHeader(m, newBlock, next, m[block + 1], remaining) ELSE m
      m2 == IF prevBlock # NULL THEN [m1 EXCEPT ![prevBlock] = heir] ELSE m1
      \* block's next is read again once prevBlock is linked
      m3 == IF m2[block] # NULL
            THEN [m2 EXCEPT ![m2[block] + 1] = IF splits THEN newBlock ELSE prevBlock]
            ELSE m2
  IN [mem   |-> m3,
      first |-> IF prevBlock # NULL THEN first ELSE heir,
      last  |-> IF m2[block] # NULL THEN last ELSE IF splits THEN newBlock ELSE prevBlock,
      got   |-> IF splits THEN sz ELSE size + block - ptr]

\* Everything the split reads holds a value, and everything it and the
\* allocation header write is mapped.  A block that is not split has its size
\* read again once its neighbours are linked: a link stored there is no size.
SplitDefined(m, block, prevBlock, ptr, sz) ==
  /\ {block, block + 1, block + 2, ptr - 2, ptr - 1} \subseteq DOMAIN m
  /\ m[block] # Junk /\ m[block + 1] # Junk /\ m[block + 2] # Junk
  /\ prevBlock = NULL \/ prevBlock \in DOMAIN m
  /\ m[block] = NULL \/ m[block] + 1 \in DOMAIN m
  /\ block + m[block + 2] - ptr - sz >= freeHeaderSize =>
       {ptr + sz, ptr + sz + 1, ptr + sz + 2} \subseteq DOMAIN m
  /\ block + m[block + 2] - ptr - sz < freeHeaderSize =>
       block + 2 \notin {prevBlock, m[block] + 1}

\* The tail every allocation shares: split, write the AllocatedBlockHeader,
\* return ptr.  The client owns the sz words it asked for.
TakeBlock(m, first, last, block, prevBlock, padding, sz, al) ==
  LET ptr   == block + padding
      split == SplitBlock(m, first, last, block, prevBlock, ptr, sz)
      m1    == [split.mem EXCEPT ![ptr - 2] = split.got, ![ptr - 1] = padding]
  IN /\ mem' = Junked(m1, ptr, ptr + sz - 1)
     /\ m_llStart' = split.first
     /\ m_llEnd' = split.last
     /\ live' = live \cup {[ptr |-> ptr, sz |-> sz, al |-> al,
                            lo |-> block, hi |-> ptr + split.got]}
     /\ call' = Returned(ptr)
     /\ UNCHANGED <<m_initialized, status>>

(***************************************************************************)
(* Alloc: the two-ended search through the free list.                      *)
(***************************************************************************)
Ready == status = "ok" /\ call.op = "idle"

Alloc(sz, al) ==
  /\ Ready
  /\ call' = [op |-> "search", sz |-> sz, al |-> al, S |-> m_llStart, E |-> m_llEnd,
              best |-> NULL, min |-> IntMax]
  /\ OnlyCallChanges
\* _fitToBlock
PaddingIn(block) == BlockPadding(block, call.al, allocHeaderSize)
Leftover(block) == SizeOf(block) - (PaddingIn(block) + call.sz)

Searching == status = "ok" /\ call.op = "search"

\* Mutant: the ends are compared, not tested for NULL.
InRangeUntested == call.S <= call.E

InRange == call.S # NULL /\ call.E # NULL /\ call.S <= call.E

Take(block) ==
  IF SplitDefined(mem, block, PrevOf(block), block + PaddingIn(block), call.sz)
  THEN /\ TakeBlock(mem, m_llStart, m_llEnd, block, PrevOf(block), PaddingIn(block),
                    call.sz, call.al)
       /\ UNCHANGED sizeVars
  ELSE Undefined

\* Mutant: an exact fit is turned down.
FirstFitHitStrict ==
  IF Leftover(call.S) > 0 THEN call.S
  ELSE IF call.S # call.E /\ Leftover(call.E) > 0 THEN call.E ELSE NULL

\* One iteration of alloc_STATIC_FIRST_FIT: the low end is tried first.
FirstFitHit ==
  IF Leftover(call.S) >= 0 THEN call.S
  ELSE IF call.S # call.E /\ Leftover(call.E) >= 0 THEN call.E ELSE NULL

\* The words this iteration reads to decide hold values.
FirstFitDecides ==
  /\ Known(call.S + 2)
  /\ Leftover(call.S) < 0 => Known(call.E + 2)

\* Mutant: the two ends are not moved.
WalkNowhere(c) == call' = c

Walk(c) == call' = [c EXCEPT !.S = NextOf(call.S), !.E = PrevOf(call.E)]

FirstFitTakes ==
  /\ Searching /\ Pattern = "FIRST_FIT" /\ InRange
  /\ FirstFitDecides
  /\ FirstFitHit # NULL
  /\ Take(FirstFitHit)

FirstFitWalks ==
  /\ Searching /\ Pattern = "FIRST_FIT" /\ InRange
  /\ FirstFitDecides /\ Known(call.S) /\ Known(call.E + 1)
  /\ FirstFitHit = NULL
  /\ Walk(call)
  /\ OnlyCallChanges

\* Mutant: the block looked at last wins.
TighterLatest(c, block) ==
  IF Leftover(block) >= 0 THEN [c EXCEPT !.best = block, !.min = Leftover(block)] ELSE c

\* Mutant: a block that is too short counts as a tight fit.
TighterUnsigned(c, block) ==
  IF Leftover(block) < c.min THEN [c EXCEPT !.best = block, !.min = Leftover(block)] ELSE c

\* One iteration of alloc_STATIC_BEST_FIT: keep the tighter of the two ends.
Tighter(c, block) ==
  IF Leftover(block) >= 0 /\ Leftover(block) < c.min
  THEN [c EXCEPT !.best = block, !.min = Leftover(block)] ELSE c

BestFitDecides ==
  /\ Known(call.S + 2) /\ Known(call.E + 2)
  /\ Known(call.S) /\ Known(call.E + 1)

BestFitWalks ==
  /\ Searching /\ Pattern = "BEST_FIT" /\ InRange
  /\ BestFitDecides
  /\ Walk(Tighter(Tighter(call, call.S), call.E))
  /\ OnlyCallChanges

BestFitTakes ==
  /\ Searching /\ Pattern = "BEST_FIT" /\ ~InRange
  /\ call.best # NULL
  /\ Take(call.best)

SearchUndefined ==
  /\ Searching /\ InRange
  /\ IF Pattern = "FIRST_FIT"
     THEN ~(FirstFitDecides /\ (FirstFitHit = NULL => Known(call.S) /\ Known(call.E + 1)))
     ELSE ~BestFitDecides
  /\ Undefined

\* No block: NULL, or a request for pages.
SearchFails ==
  /\ Searching /\ ~InRange
  /\ call.best = NULL
  /\ call' = IF Buffer = "VMDYNAMIC"
             THEN [op |-> "expand", sz |-> call.sz, al |-> call.al]
             ELSE Returned(NULL)
  /\ OnlyCallChanges

(***************************************************************************)
(* alloc_VMDYNAMIC_VMEXPAND: grow the arena at its end.                    *)
(***************************************************************************)
Expanding == status = "ok" /\ call.op = "expand"
LastIsFree == m_llEnd # NULL /\ m_llEnd + SizeOf(m_llEnd) = m_end

ExpandBlock == IF LastIsFree THEN m_llEnd ELSE m_end

\* Mutant: the last free block, when extended, becomes its own predecessor.
ExpandPrevLast == m_llEnd

ExpandPrev == IF LastIsFree THEN PrevOf(m_llEnd) ELSE m_llEnd
ExpandPadding == PaddingIn(ExpandBlock)
\* The bytes that decide n; the first case counts the alignment gap twice.
ExpandNeeds ==
  IF LastIsFree THEN AlignUp(ExpandBlock, call.al) + ExpandPadding + call.sz - m_end
  ELSE call.sz + ExpandPadding

\* Mutant: the page count is rounded down.
ExpandPagesFloor == ExpandNeeds \div PageSize

ExpandPages == CeilDiv(ExpandNeeds, PageSize)

\* An unsigned difference below zero has no int32_t value.
ExpandDefined ==
  /\ m_llEnd # NULL => Known(m_llEnd + 2)
  /\ LastIsFree => Known(m_llEnd + 1) /\ ExpandNeeds >= 0
  /\ m_llEnd # NULL => Mapped(m_llEnd)

\* The arena with n more pages, the last free block (or a new one) covering them.
Expanded(n) ==
  LET linked == IF LastIsFree \/ m_llEnd = NULL THEN mem
                ELSE [mem EXCEPT ![m_llEnd] = m_end]
      wider  == [a \in DOMAIN mem \cup Vm!VmPages(n) |-> IF Mapped(a) THEN linked[a] ELSE Blank]
  IN WriteHeader(wider, ExpandBlock, NULL, ExpandPrev, m_end - ExpandBlock + n * PageSize)

Expand ==
  /\ Expanding /\ ExpandDefined
  /\ LET n     == ExpandPages
         empty == m_llStart = NULL \/ m_llEnd = NULL
         m     == Expanded(n)
         ptr   == ExpandBlock + ExpandPadding
     IN /\ Vm!VmFits(n) /\ Vm!CommitSize(n) > 0 /\ m_reserved = m_end
        /\ IF SplitDefined(m, ExpandBlock, ExpandPrev, ptr, call.sz)
           THEN /\ TakeBlock(m, IF empty THEN ExpandBlock ELSE m_llStart,
                             IF empty THEN ExpandBlock ELSE m_llEnd,
                             ExpandBlock, ExpandPrev, ExpandPadding, call.sz, call.al)
                /\ Vm!VmCommits(n)
                /\ m_nVMPages' = m_nVMPages + n
                /\ m_end' = m_end + n * PageSize
                /\ m_size' = m_size + n * PageSize
           ELSE Undefined

ExpandUndefined == Expanding /\ ~ExpandDefined /\ Undefined

\* assert(n > 0), or assert(vmAlloc == m_end): the supplier returned NULL (the
\* reservation is used up, or the system commits no more pages), or has started
\* over since Release.
ExpandAborts ==
  /\ Expanding /\ ExpandDefined
  /\ status' = "aborted"
  /\ UNCHANGED <<mem, m_llStart, m_llEnd, m_initialized, call, live>>
  /\ UNCHANGED sizeVars

(***************************************************************************)
(* Free: put a block back in address order and coalesce.  h is the block's  *)
(* first word and len its length, padding included.                         *)
(***************************************************************************)
Forget(p) == live' = {b \in live : b.ptr # p}

BlockOf(p) == p - mem[p - 1]

\* Mutant: the padding is not given back.
LenOfBare(p) == mem[p - 2]

LenOf(p) == mem[p - 2] + mem[p - 1]
HeaderFits(h) == {h, h + 1, h + 2} \subseteq DOMAIN mem

Freeing(p) == Ready /\ p # NULL /\ Known(p - 2) /\ Known(p - 1)
Returns == call' = Returned(NULL) /\ UNCHANGED <<m_initialized, status>> /\ UNCHANGED sizeVars

FreeIntoEmpty(p) ==
  /\ Freeing(p) /\ m_llStart = NULL
  /\ HeaderFits(BlockOf(p))
  /\ mem' = WriteHeader(mem, BlockOf(p), NULL, NULL, LenOf(p))
  /\ m_llStart' = BlockOf(p) /\ m_llEnd' = BlockOf(p)
  /\ Forget(p) /\ Returns

BeforeFirst(p) == m_llStart # NULL /\ BlockOf(p) < m_llStart
AfterLast(p) == m_llStart # NULL /\ BlockOf(p) >= m_llStart /\ BlockOf(p) > m_llEnd
Between(p) == m_llStart # NULL /\ m_llStart < BlockOf(p) /\ BlockOf(p) < m_llEnd

\* "freed block will be the first element in the LL"
MeetsFirst(p) == BlockOf(p) + LenOf(p) = m_llStart
FrontDefined(p) ==
  /\ HeaderFits(BlockOf(p))
  /\ IF MeetsFirst(p) THEN Known(m_llStart) /\ Known(m_llStart + 2) ELSE Mapped(m_llStart + 1)

FreeFront(p) ==
  LET h == BlockOf(p)
  IN /\ Freeing(p) /\ BeforeFirst(p) /\ FrontDefined(p)
     /\ mem' = IF MeetsFirst(p)
               THEN WriteHeader(mem, h, NextOf(m_llStart), NULL, LenOf(p) + SizeOf(m_llStart))
               ELSE WriteHeader([mem EXCEPT ![m_llStart + 1] = h], h, m_llStart, NULL, LenOf(p))
     /\ m_llStart' = h
     /\ UNCHANGED m_llEnd
     /\ Forget(p) /\ Returns

\* Mutant: a block apart from the last free one is merged into it.
MeetsLastLoose(p) == m_llEnd + SizeOf(m_llEnd) <= BlockOf(p)

\* "last element in LL"; the link stored is ptr, not the block.
MeetsLast(p) == m_llEnd + SizeOf(m_llEnd) = BlockOf(p)
BackDefined(p) ==
  /\ Known(m_llEnd + 2) /\ Mapped(m_llEnd)
  /\ ~MeetsLast(p) => HeaderFits(BlockOf(p))

FreeBack(p) ==
  LET h == BlockOf(p)
  IN /\ Freeing(p) /\ AfterLast(p) /\ BackDefined(p)
     /\ mem' = IF MeetsLast(p)
               THEN [mem EXCEPT ![m_llEnd] = NULL, ![m_llEnd + 2] = @ + LenOf(p)]
               ELSE WriteHeader([mem EXCEPT ![m_llEnd] = p], h, NULL, m_llEnd, LenOf(p))
     /\ m_llEnd' = IF MeetsLast(p) THEN m_llEnd ELSE h
     /\ UNCHANGED m_llStart
     /\ Forget(p) /\ Returns

FreeMiddle(p) ==
  /\ Freeing(p) /\ Between(p)
  /\ Known(m_llStart) /\ Known(m_llEnd + 1)
  /\ call' = [op |-> "scan", h |-> BlockOf(p), len |-> LenOf(p),
              S |-> NextOf(m_llStart), Sp |-> m_llStart,
              E |-> PrevOf(m_llEnd), Ep |-> m_llEnd]
  /\ Forget(p)
  /\ UNCHANGED <<mem, m_llStart, m_llEnd, m_initialized, status>>
  /\ UNCHANGED sizeVars

\* The final else: the block is already an end of the list.
FreeIgnored(p) ==
  /\ Freeing(p) /\ m_llStart # NULL
  /\ ~BeforeFirst(p) /\ ~AfterLast(p) /\ ~Between(p)
  /\ Forget(p) /\ Returns
  /\ UNCHANGED <<mem, m_llStart, m_llEnd>>

FreeDefined(p) ==
  /\ Known(p - 2) /\ Known(p - 1)
  /\ m_llStart = NULL => HeaderFits(BlockOf(p))
  /\ BeforeFirst(p) => FrontDefined(p)
  /\ AfterLast(p) => BackDefined(p)
  /\ Between(p) => Known(m_llStart) /\ Known(m_llEnd + 1)

FreeUndefined(p) == Ready /\ p # NULL /\ ~FreeDefined(p) /\ Undefined

Free(p) ==
  \/ FreeIntoEmpty(p) \/ FreeFront(p) \/ FreeBack(p) \/ FreeMiddle(p)
  \/ FreeIgnored(p) \/ FreeUndefined(p)

(***************************************************************************)
(* The scan for the neighbours of a block freed in the middle of the list. *)
(***************************************************************************)
Scanning == status = "ok" /\ call.op = "scan"
ScanGoesOn == call.S # NULL /\ call.E # NULL

\* <<block, prevBlock>>: the free neighbours above and below, when found.
Neighbours ==
  IF ~ScanGoesOn THEN <<NULL, NULL>>
  ELSE IF call.S > call.h THEN <<call.S, call.Sp>>
  ELSE <<call.Ep, call.E>>

ScanStops == ScanGoesOn => call.S > call.h \/ call.E < call.h
AlreadyFree == ScanGoesOn /\ ~ScanStops /\ call.h \in {call.S, call.E}

ScanWalks ==
  /\ Scanning /\ ~ScanStops /\ ~AlreadyFree
  /\ Known(call.S) /\ Known(call.E + 1)
  /\ call' = [call EXCEPT !.Sp = call.S, !.S = NextOf(call.S),
                          !.Ep = call.E, !.E = PrevOf(call.E)]
  /\ OnlyCallChanges

ScanReturns ==
  /\ Scanning /\ AlreadyFree
  /\ Returns
  /\ UNCHANGED <<mem, m_llStart, m_llEnd, live>>

\* Mutant: a free block anywhere on the left is merged with.
AdjacentLeftLoose(prevBlock) == prevBlock # NULL /\ prevBlock + SizeOf(prevBlock) <= call.h

\* Mutant: the end of the block on the left is missed by one.
AdjacentLeftOff(prevBlock) == prevBlock # NULL /\ prevBlock + SizeOf(prevBlock) + 1 = call.h

AdjacentLeft(prevBlock) == prevBlock # NULL /\ prevBlock + SizeOf(prevBlock) = call.h
AdjacentRight(block) == block # NULL /\ call.h + call.len = block

\* What a merge with block has stored by the time it reads block's next for the
\* last time: with prevBlock too, and without it (the size is stored first).
MergedBoth(block, prevBlock) ==
  LET longer == [mem EXCEPT ![prevBlock + 2] = @ + call.len + SizeOf(block)]
  IN [longer EXCEPT ![prevBlock] = longer[block]]

MergedRight(block, prevBlock) ==
  LET sized == [mem EXCEPT ![call.h + 2] = call.len + SizeOf(block)]
  IN [sized EXCEPT ![call.h] = sized[block], ![call.h + 1] = sized[block + 1],
                   ![prevBlock] = call.h]

Merged(block, prevBlock) ==
  IF AdjacentLeft(prevBlock) THEN MergedBoth(block, prevBlock)
  ELSE MergedRight(block, prevBlock)

\* With no neighbours found the code stores through a null prevBlock.
InsertDefined ==
  LET block == Neighbours[1]
      prevBlock == Neighbours[2]
  IN /\ Mapped(prevBlock) /\ Known(prevBlock + 2)
     /\ IF AdjacentRight(block)
        THEN /\ KnownHeader(block)
             /\ LET next == Merged(block, prevBlock)[block]
                IN next # NULL => Mapped(next + 1)
        ELSE AdjacentLeft(prevBlock) \/ Mapped(block + 1)
     /\ AdjacentLeft(prevBlock) \/ HeaderFits(call.h)

\* Relink what followed block to the block that now covers it.
Relink(m, next, to) == IF next = NULL THEN m ELSE [m EXCEPT ![next + 1] = to]

Insert ==
  LET block == Neighbours[1]
      prevBlock == Neighbours[2]
      left  == AdjacentLeft(prevBlock)
      right == AdjacentRight(block)
      merged == Merged(block, prevBlock)
  IN /\ Scanning /\ ScanStops /\ InsertDefined
     /\ mem' =
          CASE right -> Relink(merged, merged[block], IF left THEN prevBlock ELSE call.h)
            [] left /\ ~right -> [mem EXCEPT ![prevBlock + 2] = @ + call.len]
            [] OTHER ->
                 [WriteHeader(mem, call.h, block, prevBlock, call.len)
                    EXCEPT ![prevBlock] = call.h, ![block + 1] = call.h]
     /\ m_llEnd' = IF right /\ block = m_llEnd
                   THEN IF left THEN prevBlock ELSE call.h ELSE m_llEnd
     /\ Returns
     /\ UNCHANGED <<m_llStart, live>>

ScanUndefined ==
  /\ Scanning
  /\ \/ ScanStops /\ ~InsertDefined
     \/ ~ScanStops /\ ~AlreadyFree /\ ~(Known(call.S) /\ Known(call.E + 1))
  /\ Undefined

(***************************************************************************)
(* Layout: print the free list, following next from the first block.       *)
(***************************************************************************)
Layout ==
  /\ Ready
  /\ call' = [op |-> "layout", block |-> m_llStart]
  /\ OnlyCallChanges

Printing == status = "ok" /\ call.op = "layout"

LayoutWalks ==
  /\ Printing /\ call.block # NULL
  /\ Known(call.block) /\ HeaderFits(call.block)
  /\ call' = [call EXCEPT !.block = NextOf(@)]
  /\ OnlyCallChanges

LayoutReturns ==
  /\ Printing /\ call.block = NULL
  /\ Returns
  /\ UNCHANGED <<mem, m_llStart, m_llEnd, live>>

LayoutUndefined ==
  /\ Printing /\ call.block # NULL
  /\ ~(Known(call.block) /\ HeaderFits(call.block))
  /\ Undefined

(***************************************************************************)
(* ZeroMem, Reset, Release and destruction.                                *)
(***************************************************************************)
\* Release has not given the memory away.
Owned == DOMAIN mem # {}

Zeroed == [a \in DOMAIN mem |-> 0]

\* The headers are zeroed with the rest.
ZeroMem ==
  /\ Ready /\ Owned
  /\ mem' = Zeroed
  /\ Returns
  /\ UNCHANGED <<m_llStart, m_llEnd, live>>

\* Mutant: the first block is not set again.
ResetKeepsFirst ==
  /\ Ready /\ Owned
  /\ mem' = Built(Zeroed, m_size)
  /\ m_llEnd' = Base
  /\ live' = {}
  /\ UNCHANGED m_llStart
  /\ Returns

Reset ==
  /\ Ready /\ Owned
  /\ mem' = Built(Zeroed, m_size)
  /\ m_llStart' = Base /\ m_llEnd' = Base
  /\ live' = {}
  /\ Returns

\* Clients give up their blocks, although a buffer of their own stays as it is.
GiveBack ==
  /\ m_initialized' = FALSE
  /\ live' = {}
  /\ CASE Buffer = "STATIC" -> mem' = <<>> /\ UNCHANGED m_reserved
       [] Buffer = "STATIC_PREALLOC" -> UNCHANGED <<mem, m_reserved>>
       [] Buffer = "VMDYNAMIC" -> mem' = <<>> /\ Vm!VmRelease
  /\ UNCHANGED <<m_size, m_end, m_llStart, m_llEnd, m_nVMPages, call>>

\* A buffer the allocator owns can be freed once; the supplier starts over each time.
Release ==
  /\ Ready
  /\ Buffer = "STATIC" => m_initialized
  /\ GiveBack
  /\ UNCHANGED status

\* Nothing but the destructor looks at m_initialized: ZeroMem and Reset write to
\* memory that is gone, and a second Release frees it again.
WriteAfterRelease ==
  /\ Ready /\ ~Owned
  /\ Undefined

Destroy ==
  /\ \/ Ready /\ m_initialized /\ GiveBack
     \/ /\ Ready /\ ~m_initialized
        /\ UNCHANGED <<mem, m_size, m_end, m_llStart, m_llEnd, m_nVMPages,
                       m_initialized, m_reserved, call, live>>
  /\ status' = "destroyed"

(***************************************************************************)
(* The code's own steps, and a client that calls it.                       *)
(***************************************************************************)
Step ==
  \/ FirstFitTakes \/ FirstFitWalks \/ BestFitWalks \/ BestFitTakes
  \/ SearchUndefined \/ SearchFails
  \/ Expand \/ ExpandUndefined \/ ExpandAborts
  \/ ScanWalks \/ ScanReturns \/ Insert \/ ScanUndefined
  \/ LayoutWalks \/ LayoutReturns \/ LayoutUndefined

AllocOrFree ==
  \/ \E sz \in Sizes, al \in Aligns : Alloc(sz, al)
  \/ \E b \in live : Free(b.ptr)

Next ==
  \/ Step \/ AllocOrFree
  \/ Layout \/ ZeroMem \/ Reset \/ Release \/ WriteAfterRelease \/ Destroy

\* A call runs to its end once it is made; nobody has to make one.
Spec == Init /\ [][Next]_vars /\ WF_vars(Step)

\* A client that only allocates, frees what it holds once, in any order, and
\* prints the layout.
HeapSpec == Init /\ [][Step \/ AllocOrFree \/ Layout]_vars /\ WF_vars(Step)

-----------------------------------------------------------------------------
Words == Nat \cup {Junk}

CallTypes ==
  [op : {"idle"}, result : Nat]
  \cup [op : {"search"}, sz : Sizes, al : Aligns, S : Nat, E : Nat, best : Nat, min : Nat]
  \cup [op : IF Buffer = "VMDYNAMIC" THEN {"expand"} ELSE {}, sz : Sizes, al : Aligns]
  \cup [op : {"scan"}, h : Nat, len : Nat, S : Nat, Sp : Nat, E : Nat, Ep : Nat]
  \cup [op : {"layout"}, block : Nat]

\* Every variable keeps its type, whatever the client does: a link or a size
\* is a natural number or Junk, and the locals of a call are never Junk.
TypeOK ==
  /\ mem \in [DOMAIN mem -> Words]
  /\ DOMAIN mem \subseteq Nat
  /\ m_size \in Nat /\ m_end \in Nat /\ m_nVMPages \in Nat /\ m_reserved \in Nat
  /\ m_llStart \in Nat /\ m_llEnd \in Nat
  /\ m_initialized \in BOOLEAN
  /\ call \in CallTypes
  /\ live \subseteq [ptr : Nat, sz : Sizes, al : Aligns, lo : Nat, hi : Nat]
  /\ status \in {"ok", "destroyed", "undefined", "aborted"}

\* What a client asked for it has, by whichever of the three searches and
\* however damaged the list: the pointer is aligned, the header fits below it,
\* and the block recorded for it is long enough.
Served ==
  \A b \in live :
    /\ b.ptr % b.al = 0
    /\ b.ptr - b.lo >= allocHeaderSize
    /\ b.ptr + b.sz <= b.hi

\* The arena and the page supplier agree: the arena ends where the next pages
\* will be committed, every word of it is mapped, and m_size and m_nVMPages
\* count it ("ERR VMALLOC IS NOT CONTIGUOUS").
Contiguous ==
  status = "ok" /\ m_initialized =>
    /\ DOMAIN mem = Base..(m_end - 1)
    /\ m_end = Base + m_size
    /\ Buffer = "VMDYNAMIC" => m_reserved = m_end /\ m_size = m_nVMPages * PageSize

\* No request needs pages of 4 GiB in total, the product VMLinearAllocator
\* computes in 32 bits: sz, padding, the alignment gap counted twice, one page.
RequestsFit ==
  Buffer = "VMDYNAMIC" =>
    \A sz \in Sizes, al \in Aligns : sz + 2 * al + allocHeaderSize + PageSize <= U32

\* No two blocks in use share a word.
Disjoint == \A b, c \in live : b # c => b.hi <= c.lo \/ c.hi <= b.lo

\* Every block in use keeps the header Free will read.
HeaderIntact ==
  status = "ok" =>
    \A b \in live : mem[b.ptr - 1] = b.ptr - b.lo /\ mem[b.ptr - 2] = b.hi - b.ptr

\* No call reads an undefined word or touches unmapped memory.
NoFault == status # "undefined"

\* Every call comes to an end.
Returning == (call.op # "idle") ~> (call.op = "idle" \/ status # "ok")

=============================================================================
