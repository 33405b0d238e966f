--------------------------- MODULE StackAllocator ---------------------------
(***************************************************************************)
(* StackAllocator: every block is preceded by a one-byte header holding the *)
(* padding in front of it, from which Free recomputes the m_cur the block   *)
(* was allocated at.  Clients free the last block only (README.md:10).      *)
(* m_free is written (StackAllocator.cpp:57) and never read: left out.      *)
(***************************************************************************)
EXTENDS MemLayout, Sequences

CONSTANTS
  Start,        \* m_start
  Size,         \* m_size
  Sizes,        \* the sizes clients ask for
  Aligns,       \* the alignments clients ask for
  PadMod,       \* 2^8: AllocHeader::padding is a uint8_t
  PreAlloc,     \* m_preAlloc: which of the two constructors ran
  Garbage       \* what an uninitialized m_cur may hold

headerSize == 1

ASSUME StackAssumption ==
  /\ Start \in Nat /\ Size \in Nat
  /\ Sizes \subseteq Nat /\ Aligns \subseteq Nat \ {0}
  /\ PadMod \in Nat \ {0}
  /\ PreAlloc \in BOOLEAN /\ Garbage \subseteq Nat

VARIABLES
  m_cur, m_initialized,
  stack,        \* what clients hold, oldest first: [ptr, sz, al, lo, padding]
  status        \* "ok"; "aborted" by an assert; "undefined" after a second free()
                \* of the buffer, or a write to it once it is gone; "destroyed"

vars == <<m_cur, m_initialized, stack, status>>

m_end == Start + Size

\* The constructor that is given a buffer leaves m_cur alone.
Init ==
  /\ m_cur \in IF PreAlloc THEN Garbage ELSE {Start}
  /\ m_initialized = TRUE
  /\ stack = <<>>
  /\ status = "ok"

Usable == status = "ok" /\ m_initialized

PaddingFor(al) == BlockPadding(m_cur, al, headerSize)

\* Mutant: the padding is not counted.
FitsBare(sz, al) == m_cur + sz <= m_end

Fits(sz, al) == m_cur + PaddingFor(al) + sz <= m_end

\* The header keeps the low byte of the padding.
Alloc(sz, al) ==
  LET ptr == m_cur + PaddingFor(al)
  IN /\ Usable /\ Fits(sz, al)
     /\ m_cur' = ptr + sz
     /\ stack' = Append(stack, [ptr |-> ptr, sz |-> sz, al |-> al, lo |-> m_cur,
                                padding |-> PaddingFor(al) % PadMod])
     /\ UNCHANGED <<m_initialized, status>>

\* assert(false && "Stack allocator full!")
AllocFull(sz, al) ==
  /\ Usable /\ ~Fits(sz, al)
  /\ status' = "aborted"
  /\ UNCHANGED <<m_cur, m_initialized, stack>>

Top == stack[Len(stack)]

\* Mutant: the padding is not given back.
FreeKeepsPadding ==
  /\ Usable /\ stack # <<>>
  /\ m_cur' = Top.ptr
  /\ stack' = SubSeq(stack, 1, Len(stack) - 1)
  /\ UNCHANGED <<m_initialized, status>>

\* Mutant: the operands of the subtraction are swapped.
FreeSwapped ==
  /\ Usable /\ stack # <<>>
  /\ m_cur' = Top.padding - Top.ptr
  /\ stack' = SubSeq(stack, 1, Len(stack) - 1)
  /\ UNCHANGED <<m_initialized, status>>

Free ==
  /\ Usable /\ stack # <<>>
  /\ m_cur' = Top.ptr - Top.padding
  /\ stack' = SubSeq(stack, 1, Len(stack) - 1)
  /\ UNCHANGED <<m_initialized, status>>

Reset ==
  /\ status = "ok"
  /\ m_cur' = Start
  /\ stack' = <<>>
  /\ UNCHANGED <<m_initialized, status>>

\* The headers are zeroed with the rest of the buffer.  ZeroMem does not look at
\* m_initialized: after Release it writes to a buffer that is gone.
ZeroMem ==
  /\ status = "ok"
  /\ stack' = [i \in 1..Len(stack) |-> [stack[i] EXCEPT !.padding = 0]]
  /\ status' = IF m_initialized THEN "ok" ELSE "undefined"
  /\ UNCHANGED <<m_cur, m_initialized>>

\* free(m_start), which the second call does again.
Release ==
  /\ status = "ok" /\ ~PreAlloc
  /\ m_initialized' = FALSE
  /\ stack' = <<>>
  /\ status' = IF m_initialized THEN "ok" ELSE "undefined"
  /\ UNCHANGED m_cur

\* The destructor frees the buffer unless it is the client's or gone.
Destroy ==
  /\ status = "ok"
  /\ stack' = IF PreAlloc THEN stack ELSE <<>>
  /\ status' = "destroyed"
  /\ UNCHANGED <<m_cur, m_initialized>>

CoreNext ==
  \/ \E sz \in Sizes, al \in Aligns : Alloc(sz, al) \/ AllocFull(sz, al)
  \/ Free \/ Reset \/ Release \/ Destroy

Next == CoreNext \/ ZeroMem

Spec == Init /\ [][Next]_vars

\* A client that does not zero the memory it has blocks in.
CoreSpec == Init /\ [][CoreNext]_vars

-----------------------------------------------------------------------------
Blocks == [ptr : Nat, sz : Sizes, al : Aligns, lo : Nat, padding : 0..(PadMod - 1)]

\* Every variable keeps its type.
TypeOK ==
  /\ m_cur \in Nat
  /\ m_initialized \in BOOLEAN
  /\ stack \in Seq(Blocks)
  /\ status \in {"ok", "aborted", "undefined", "destroyed"}

\* Where the block above the first n starts.
HeightAfter(n) == IF n = 0 THEN Start ELSE stack[n].ptr + stack[n].sz

\* The blocks in use tile the buffer from its start to m_cur: popping a block
\* takes m_cur back to exactly where it was pushed, so that nothing leaks.
Tiled ==
  Usable =>
    /\ m_cur = HeightAfter(Len(stack))
    /\ \A i \in 1..Len(stack) : stack[i].lo = HeightAfter(i - 1)

\* Each block is aligned, lies in the buffer above its own header, and starts
\* where the blocks under it have ended, even when the headers Free reads were
\* zeroed or had lost the high bits of the padding.
BlocksSound ==
  \A i \in 1..Len(stack) :
    /\ stack[i].ptr % stack[i].al = 0
    /\ stack[i].ptr >= stack[i].lo + headerSize
    /\ stack[i].lo >= HeightAfter(i - 1)
    /\ stack[i].ptr + stack[i].sz <= m_end

=============================================================================
