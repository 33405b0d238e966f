---------------------------- MODULE VMAllocator ----------------------------
(***************************************************************************)
(* VMAllocator: the page supplier with a header in front of every block, so *)
(* that blocks can be given back one by one.  It repeats the code of         *)
(* VMLinearAllocator; headers says which of the two a behaviour is about,    *)
(* and both are held to the same properties.  The state of a supplier is the *)
(* supplier's (supplierVars, state), so that proofs about all the allocators *)
(* that only move a pointer up can stand in one module.                      *)
(***************************************************************************)
EXTENDS VMLinearAllocator

VARIABLES
  headers,      \* TRUE: VMAllocator; FALSE: VMLinearAllocator
  blocks,       \* what clients hold: [page, n], n being what the header says
  state         \* "ok"; "aborted" by an assert; "undefined"

supplierVars == <<m_reserved, committed, headers, blocks, state>>

SupplierInit ==
  /\ VmInit
  /\ headers \in BOOLEAN
  /\ blocks = {}
  /\ state = "ok"

EndOf(b) == b.page + CommitSize(b.n)
PagesOf(b) == b.page..(EndOf(b) - 1)

\* The client holds a pointer past the header, when there is one.
SupplierAlloc(n) ==
  /\ state = "ok"
  /\ VmCommits(n)
  /\ blocks' = blocks \cup {[page |-> m_reserved, n |-> n]}
  /\ UNCHANGED <<headers, state>>

\* VirtualAlloc commits nothing: VMAllocator writes its header through NULL, the
\* other one returns NULL.  m_reserved has moved on.
AllocUnbacked(n) ==
  /\ state = "ok"
  /\ VmCommitFails(n)
  /\ state' = IF headers THEN "undefined" ELSE "ok"
  /\ UNCHANGED <<headers, blocks>>

\* Mutant: m_reserved is lowered whichever block is freed.
FreeLowersAlways(b) ==
  /\ state = "ok" /\ headers /\ b \in blocks
  /\ m_reserved' = b.page
  /\ committed' = committed \ PagesOf(b)
  /\ blocks' = blocks \ {b}
  /\ UNCHANGED <<headers, state>>

\* Mutant: a page too few is decommitted.
FreeShort(b) ==
  /\ state = "ok" /\ headers /\ b \in blocks
  /\ m_reserved' = IF EndOf(b) = m_reserved THEN b.page ELSE m_reserved
  /\ committed' = committed \ (b.page..(EndOf(b) - PageSize - 1))
  /\ blocks' = blocks \ {b}
  /\ UNCHANGED <<headers, state>>

\* The size is read from the header; m_reserved is lowered under the last block only.
Free(b) ==
  /\ state = "ok" /\ headers /\ b \in blocks
  /\ m_reserved' = IF EndOf(b) = m_reserved THEN b.page ELSE m_reserved
  /\ committed' = committed \ PagesOf(b)
  /\ blocks' = blocks \ {b}
  /\ UNCHANGED <<headers, state>>

\* VMLinearAllocator::Free only asserts.
FreeAborts ==
  /\ state = "ok" /\ ~headers
  /\ state' = "aborted"
  /\ UNCHANGED <<m_reserved, committed, headers, blocks>>

SupplierRelease ==
  /\ state = "ok"
  /\ VmRelease
  /\ blocks' = {}
  /\ UNCHANGED <<headers, state>>

SupplierNext ==
  \/ \E n \in 1..(U32 - 1) : SupplierAlloc(n) \/ AllocUnbacked(n)
  \/ \E b \in blocks : Free(b)
  \/ FreeAborts \/ SupplierRelease

SupplierSpec == SupplierInit /\ [][SupplierNext]_supplierVars

-----------------------------------------------------------------------------
\* The memory that is committed is what the blocks in use need, no more and no
\* less, and no two blocks share an address: through any order of frees, failed
\* commits and releases nothing stays committed that nobody holds, and no address
\* is handed out while it is held.
Backed ==
  /\ committed = UNION {PagesOf(b) : b \in blocks}
  /\ \A b, c \in blocks : b # c => EndOf(b) <= c.page \/ EndOf(c) <= b.page
  /\ \A b \in blocks : VmStart <= b.page /\ EndOf(b) <= m_reserved /\ 0 < CommitSize(b.n)

\* A block is handed out above every block in use, whatever was freed before it.
NewestHighest == [][\A b \in blocks' \ blocks, c \in blocks : EndOf(c) <= b.page]_supplierVars

\* What the comment at VMAllocator.cpp:53 has Free guarantee: the next block
\* starts where the last one in use ends.  Not so once blocks are freed in the
\* order they were allocated in.
StartsAtTheEnd ==
  state = "ok" /\ headers =>
    m_reserved = VmStart \/ \E b \in blocks : EndOf(b) = m_reserved

=============================================================================
