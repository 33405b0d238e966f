--------------------------- MODULE PoolAllocator ---------------------------
(***************************************************************************)
(* PoolAllocator: pages of one size, the free ones linked through their    *)
(* first word.  Alloc passes m_llStart and m_pgSize to std::align by        *)
(* reference, so an alignment the page does not have moves the one and      *)
(* shrinks the other for good.  One address is an 8-byte word.              *)
(***************************************************************************)
EXTENDS MemLayout, FiniteSets, Sequences

CONSTANTS
  Start,        \* m_start
  Size,         \* m_size
  PgSz,         \* the constructor's pgSz
  Sizes,        \* the sizes clients ask for
  Aligns,       \* the alignments clients ask for
  PreAlloc,     \* m_preAlloc: which of the two constructors ran
  MaxHeld,      \* bound: how many blocks clients hold at once
  Junk          \* what malloc leaves and clients write

NULL == 0

\* The assert of both constructors, at least one page, and a buffer far enough from
\* address 0 for m_end - 2*m_pgSize not to wrap around.
ASSUME PoolAssumption ==
  /\ PgSz \in Nat \ {0} /\ Size \in Nat \ {0} /\ Size % PgSz = 0
  /\ Start \in Nat /\ Start >= PgSz
  /\ Sizes \subseteq Nat /\ Aligns \subseteq Nat \ {0}
  /\ PreAlloc \in BOOLEAN /\ MaxHeld \in Nat /\ Junk \notin Nat

m_end == Start + Size
Arena == Start..(m_end - 1)

VARIABLES
  m_llStart, m_pgSize, m_initialized,
  mem,          \* what each word of the buffer holds, as far as Alloc may read it
  held,         \* what clients hold: [ptr, sz, al, page], page being the m_llStart
                \* it was taken from
  stack,        \* history: the pages that ought to be free, next one last
  lost,         \* history: the free pages ZeroMem has cut off the list (both
                \* histories are kept while the pool is Unshifted)
  status        \* "ok"; "aborted" by an assert; "undefined"; "destroyed"

vars == <<m_llStart, m_pgSize, m_initialized, mem, held, stack, lost, status>>

\* Mutant: the last page but one is not linked to the last.
LinkedShort(pg) == {a \in Arena : (a - Start) % pg = 0 /\ a < m_end - 2 * pg}

\* The list buildLinkedList leaves in memory m when pages are pg words.
Linked(pg) == {a \in Arena : (a - Start) % pg = 0 /\ a <= m_end - 2 * pg}

BuildLinkedList(m, pg) ==
  [a \in Arena |-> IF a = m_end - pg THEN NULL
                   ELSE IF a \in Linked(pg) THEN a + pg ELSE m[a]]

\* The pool has its pages as long as nobody asked for an alignment they do not have.
Unshifted == m_pgSize = PgSz

NPages == Size \div PgSz
AllPages == [i \in 1..NPages |-> Start + (NPages - i) * PgSz]

Init ==
  /\ m_llStart = Start /\ m_pgSize = PgSz /\ m_initialized = TRUE
  /\ held = {} /\ lost = {}
  /\ mem = BuildLinkedList([a \in Arena |-> Junk], PgSz)
  /\ stack = AllPages
  /\ status = "ok"

Usable == status = "ok" /\ m_initialized
CanAlloc == Usable /\ m_llStart # NULL /\ Cardinality(held) < MaxHeld

Pop(s) == SubSeq(s, 1, Len(s) - 1)
Pages == {stack[i] : i \in 1..Len(stack)}

\* std::align(alignment, sz, m_llStart, m_pgSize) finds room in the page.
AlignFits(sz, al) == AlignUp(m_llStart, al) + sz <= m_llStart + m_pgSize

\* What clients may have written once they are given sz words at ptr.
Overwritten(ptr, sz) == [a \in Arena |-> IF a \in ptr..(ptr + sz - 1) THEN Junk ELSE mem[a]]
-----------------------------------------------------------------------------
\* Mutant: m_llStart stays where std::align left it.
AllocKeepsHead(sz, al) ==
  LET ptr == AlignUp(m_llStart, al)
  IN /\ CanAlloc /\ AlignFits(sz, al)
     /\ ptr \in Arena /\ mem[ptr] # Junk
     /\ m_llStart' = ptr
     /\ m_pgSize' = m_pgSize - (ptr - m_llStart)
     /\ held' = held \cup {[ptr |-> ptr, sz |-> sz, al |-> al, page |-> m_llStart]}
     /\ stack' = Pop(stack)
     /\ UNCHANGED <<m_initialized, lost, status, mem>>

\* The next link is read at the aligned address.  Alloc returns NULL, and nothing
\* changes, once m_llStart is NULL or the pool released.
Alloc(sz, al) ==
  LET ptr == AlignUp(m_llStart, al)
  IN /\ CanAlloc /\ AlignFits(sz, al)
     /\ ptr \in Arena /\ mem[ptr] # Junk
     /\ m_llStart' = mem[ptr]
     /\ m_pgSize' = m_pgSize - (ptr - m_llStart)
     /\ mem' = Overwritten(ptr, sz)
     /\ held' = held \cup {[ptr |-> ptr, sz |-> sz, al |-> al, page |-> m_llStart]}
     /\ stack' = Pop(stack)
     /\ UNCHANGED <<m_initialized, lost, status>>

\* assert(sz <= m_pgSize), or "Linear allocator full!"
AllocAborts(sz, al) ==
  /\ CanAlloc /\ ~AlignFits(sz, al)
  /\ status' = "aborted"
  /\ UNCHANGED <<m_llStart, m_pgSize, m_initialized, mem, held, stack, lost>>

\* There is no link where std::align moved m_llStart to.
AllocReadsJunk(sz, al) ==
  LET ptr == AlignUp(m_llStart, al)
  IN /\ CanAlloc /\ AlignFits(sz, al)
     /\ ptr \notin Arena \/ mem[ptr] = Junk
     /\ status' = "undefined"
     /\ UNCHANGED <<m_llStart, m_pgSize, m_initialized, mem, held, stack, lost>>

\* Mutant: relative to m_start, which is not added back.
BoundaryBelowRelative(ptr) == ((ptr - Start) \div m_pgSize) * m_pgSize

\* Free shifts the pointer back to the page boundary, as m_pgSize now is.
BoundaryBelow(ptr) == ((ptr - Start) \div m_pgSize) * m_pgSize + Start

Free(b) ==
  /\ Usable /\ b \in held /\ m_pgSize > 0
  /\ mem' = [mem EXCEPT ![BoundaryBelow(b.ptr)] = m_llStart]
  /\ m_llStart' = BoundaryBelow(b.ptr)
  /\ held' = held \ {b}
  /\ stack' = IF Unshifted THEN Append(stack, BoundaryBelow(b.ptr)) ELSE stack
  /\ UNCHANGED <<m_pgSize, m_initialized, lost, status>>

\* The modulus divides by zero.
FreeFaults ==
  /\ Usable /\ held # {} /\ m_pgSize = 0
  /\ status' = "undefined"
  /\ UNCHANGED <<m_llStart, m_pgSize, m_initialized, mem, held, stack, lost>>

\* Mutant: the list starts where it was left.
ResetKeepsHead ==
  /\ status = "ok"
  /\ IF m_initialized /\ m_pgSize > 0
     THEN /\ mem' = BuildLinkedList(mem, m_pgSize)
          /\ held' = {} /\ lost' = {} /\ stack' = AllPages
          /\ UNCHANGED <<status, m_llStart>>
     ELSE status' = "undefined" /\ UNCHANGED <<m_llStart, mem, held, stack, lost>>
  /\ UNCHANGED <<m_pgSize, m_initialized>>

\* Reset does not look at m_initialized: after Release the buffer is gone.  The loop
\* of buildLinkedList never ends over pages of no words.
Reset ==
  /\ status = "ok"
  /\ IF m_initialized /\ m_pgSize > 0
     THEN /\ mem' = BuildLinkedList(mem, m_pgSize)
          /\ m_llStart' = Start
          /\ held' = {} /\ lost' = {} /\ stack' = AllPages
          /\ UNCHANGED status
     ELSE status' = "undefined" /\ UNCHANGED <<m_llStart, mem, held, stack, lost>>
  /\ UNCHANGED <<m_pgSize, m_initialized>>

\* The links are zeroed too: the list ends at its first page.  ZeroMem does not look
\* at m_initialized: after Release it writes to a buffer that is gone.
ZeroMem ==
  /\ status = "ok"
  /\ IF m_initialized
     THEN /\ mem' = [a \in Arena |-> 0]
          /\ stack' = IF m_llStart = NULL THEN <<>> ELSE <<m_llStart>>
          /\ lost' = lost \cup (Pages \ {m_llStart})
          /\ UNCHANGED status
     ELSE status' = "undefined" /\ UNCHANGED <<mem, stack, lost>>
  /\ UNCHANGED <<m_llStart, m_pgSize, m_initialized, held>>

\* Does nothing to a client's buffer, and frees the other one every time.
Release ==
  /\ status = "ok" /\ ~PreAlloc
  /\ m_initialized' = FALSE
  /\ held' = {}
  /\ status' = IF m_initialized THEN "ok" ELSE "undefined"
  /\ UNCHANGED <<m_llStart, m_pgSize, mem, stack, lost>>

\* The destructor frees the buffer unless it is the client's or gone.
Destroy ==
  /\ status = "ok"
  /\ held' = IF PreAlloc THEN held ELSE {}
  /\ status' = "destroyed"
  /\ UNCHANGED <<m_llStart, m_pgSize, m_initialized, mem, stack, lost>>

Next ==
  \/ \E sz \in Sizes, al \in Aligns :
       Alloc(sz, al) \/ AllocAborts(sz, al) \/ AllocReadsJunk(sz, al)
  \/ \E b \in held : Free(b)
  \/ FreeFaults \/ Reset \/ ZeroMem \/ Release \/ Destroy

Spec == Init /\ [][Next]_vars
-----------------------------------------------------------------------------
\* Every variable keeps its type, even once the pages have been shifted.
TypeOK ==
  /\ m_llStart \in Arena \cup {NULL}
  /\ m_pgSize \in 0..PgSz
  /\ m_initialized \in BOOLEAN
  /\ mem \in [Arena -> Arena \cup {NULL, Junk}]
  /\ held \subseteq [ptr : Arena, sz : Sizes, al : Aligns, page : Arena]
  /\ stack \in Seq(Arena)
  /\ lost \subseteq Arena
  /\ status \in {"ok", "aborted", "undefined", "destroyed"}

PageStarts == {a \in Arena : (a - Start) % PgSz = 0}
HeldPages == {b.page : b \in held}

\* Followed from m_llStart the links lead through the free pages, last freed first,
\* and end; no page comes twice, whatever was freed, zeroed or reset.
FreeList ==
  Usable /\ Unshifted =>
    /\ m_llStart = IF stack = <<>> THEN NULL ELSE stack[Len(stack)]
    /\ \A i \in 1..Len(stack) : mem[stack[i]] = IF i = 1 THEN NULL ELSE stack[i - 1]
    /\ \A i, j \in 1..Len(stack) : i # j => stack[i] # stack[j]

\* Every page is free, held or cut off by ZeroMem, and only one of these: no page
\* is handed out while it is held, and none leaks any other way.
PagesAccounted ==
  Usable /\ Unshifted =>
    /\ Pages \cup HeldPages \cup lost = PageStarts
    /\ Pages \cap HeldPages = {} /\ Pages \cap lost = {} /\ HeldPages \cap lost = {}

\* A block is aligned and lies in a page of its own.
BlocksSound ==
  Unshifted =>
    /\ \A b \in held : b.ptr % b.al = 0 /\ b.ptr = b.page /\ b.sz <= PgSz
    /\ \A b, c \in held : b # c => b.page # c.page

=============================================================================
