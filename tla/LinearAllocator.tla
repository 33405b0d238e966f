--------------------------- MODULE LinearAllocator ---------------------------
(***************************************************************************)
(* LinearAllocator, the frame allocator: m_cur only moves up, Free does     *)
(* nothing, and Reset takes m_cur back to the start.  What the buffer holds *)
(* is left out: it does not matter here.                                    *)
(***************************************************************************)
EXTENDS MemLayout

CONSTANTS
  Start,        \* m_start
  Size,         \* m_size
  Sizes,        \* the sizes clients ask for
  Aligns,       \* the alignments clients ask for
  PreAlloc,     \* m_preAlloc: which of the two constructors ran
  Garbage       \* what an uninitialized m_cur may hold

ASSUME LinearAssumption ==
  /\ Start \in Nat /\ Size \in Nat
  /\ Sizes \subseteq Nat /\ Aligns \subseteq Nat \ {0}
  /\ PreAlloc \in BOOLEAN /\ Garbage \subseteq Nat

VARIABLES
  m_cur, m_free, m_initialized,
  live,         \* what clients hold since the last Reset: [ptr, sz, al, lo]
  status        \* "ok"; "aborted" by an assert; "undefined" after a second free()
                \* of the buffer, or a write to it once it is gone; "destroyed"

vars == <<m_cur, m_free, m_initialized, live, status>>

m_end == Start + Size

\* The constructor that is given a buffer leaves m_cur alone.
Init ==
  /\ m_cur \in IF PreAlloc THEN Garbage ELSE {Start}
  /\ m_free = Size
  /\ m_initialized = TRUE
  /\ live = {}
  /\ status = "ok"

Usable == status = "ok" /\ m_initialized

\* Mutant: the alignment gap is not counted.
FitsBare(sz, al) == sz <= m_free

\* Mutant: the size of the buffer is taken for what is left of it.
FitsSize(sz, al) == AlignUp(m_cur, al) - m_cur + sz <= Size

\* std::align(alignment, sz, m_cur, m_free) finds room.
Fits(sz, al) == AlignUp(m_cur, al) - m_cur + sz <= m_free

Alloc(sz, al) ==
  LET ptr == AlignUp(m_cur, al)
  IN /\ Usable /\ Fits(sz, al)
     /\ m_free' = m_free - (ptr - m_cur) - sz
     /\ m_cur' = ptr + sz
     /\ live' = live \cup {[ptr |-> ptr, sz |-> sz, al |-> al, lo |-> m_cur]}
     /\ UNCHANGED <<m_initialized, status>>

\* assert(false && "Linear allocator full!")
AllocFull(sz, al) ==
  /\ Usable /\ ~Fits(sz, al)
  /\ status' = "aborted"
  /\ UNCHANGED <<m_cur, m_free, m_initialized, live>>

Reset ==
  /\ status = "ok"
  /\ m_cur' = Start
  /\ live' = {}
  /\ UNCHANGED <<m_free, m_initialized, status>>

\* ZeroMem does not look at m_initialized: after Release the buffer is gone.
ZeroMem ==
  /\ status = "ok"
  /\ status' = IF m_initialized THEN "ok" ELSE "undefined"
  /\ UNCHANGED <<m_cur, m_free, m_initialized, live>>

\* free(m_start), which the second call does again.
Release ==
  /\ status = "ok" /\ ~PreAlloc
  /\ m_initialized' = FALSE
  /\ live' = {}
  /\ status' = IF m_initialized THEN "ok" ELSE "undefined"
  /\ UNCHANGED <<m_cur, m_free>>

\* The destructor frees the buffer unless it is the client's or gone.
Destroy ==
  /\ status = "ok"
  /\ live' = IF PreAlloc THEN live ELSE {}
  /\ status' = "destroyed"
  /\ UNCHANGED <<m_cur, m_free, m_initialized>>

Next ==
  \/ \E sz \in Sizes, al \in Aligns : Alloc(sz, al) \/ AllocFull(sz, al)
  \/ Reset \/ ZeroMem \/ Release \/ Destroy

Spec == Init /\ [][Next]_vars

-----------------------------------------------------------------------------
Blocks == [ptr : Nat, sz : Sizes, al : Aligns, lo : Nat]

\* Every variable keeps its type; m_free never wraps below zero.
TypeOK ==
  /\ m_cur \in Nat /\ m_free \in Nat
  /\ m_initialized \in BOOLEAN
  /\ live \subseteq Blocks
  /\ status \in {"ok", "aborted", "undefined", "destroyed"}

\* Blocks handed out since the last Reset are aligned, lie in the buffer and
\* do not overlap, however often m_cur was taken back while m_free was not.
BlocksSound ==
  /\ \A b \in live : b.ptr % b.al = 0 /\ Start <= b.ptr /\ b.ptr + b.sz <= m_end
  /\ \A b, c \in live : b # c => b.ptr + b.sz <= c.ptr \/ c.ptr + c.sz <= b.ptr

\* A Reset gives the whole buffer back (Reset, which leaves m_free as it was).
ResetRestores == live = {} /\ Usable => m_free = Size

=============================================================================
