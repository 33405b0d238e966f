------------------------- MODULE BumpAllocatorProofs -------------------------
(***************************************************************************)
(* Proofs about the allocators that only move a pointer up.                 *)
(* LinearAllocator: for every buffer, set of sizes and set of alignments,    *)
(* where the blocks lie, when the allocator was built by the constructor    *)
(* that sets m_cur.  VMLinearAllocator and VMAllocator, the page suppliers: *)
(* for every reservation and page size, and however the 32-bit products     *)
(* wrap, which memory is committed and where the next block starts.         *)
(***************************************************************************)
EXTENDS LinearAllocator, VMAllocator, MemLayoutProofs

-----------------------------------------------------------------------------
(* LinearAllocator. *)

\* m_free never promises more than lies between m_cur and the end.  It may
\* promise less: a Reset leaves it as it was.
Bounded == Start <= m_cur /\ m_free <= Size /\ m_cur + m_free <= m_end

\* Blocks handed out lie below m_cur.
Below == \A b \in live : b.ptr + b.sz <= m_cur

IInv == TypeOK /\ Bounded /\ Below /\ BlocksSound

\* The invariant holds of a buffer just allocated.
LEMMA InitInv == ~PreAlloc /\ Init => IInv
BY LinearAssumption DEF Init, IInv, TypeOK, Bounded, Below, BlocksSound, m_end, Blocks

\* An allocation keeps it.
LEMMA AllocInv ==
  ASSUME IInv, NEW sz \in Sizes, NEW al \in Aligns, Alloc(sz, al)
  PROVE  IInv'
<1> DEFINE ptr == AlignUp(m_cur, al)
           new == [ptr |-> ptr, sz |-> sz, al |-> al, lo |-> m_cur]
<1>1. /\ m_cur \in Nat /\ m_free \in Nat /\ Start \in Nat /\ Size \in Nat
      /\ sz \in Nat /\ al \in Nat \ {0}
  BY LinearAssumption DEF IInv, TypeOK
<1>2. ptr \in Nat /\ ptr % al = 0 /\ m_cur <= ptr
  BY <1>1, AlignUpLeast
<1>3. /\ ptr - m_cur + sz <= m_free
      /\ m_free' = m_free - (ptr - m_cur) - sz
      /\ m_cur' = ptr + sz
      /\ live' = live \cup {new}
      /\ m_initialized' = m_initialized /\ status' = status
  BY DEF Alloc, Fits
<1>4. new \in Blocks
  BY <1>1, <1>2 DEF Blocks
<1> HIDE DEF ptr
<1>5. Bounded'
  BY <1>1, <1>2, <1>3 DEF IInv, Bounded, m_end
<1>6. ptr + sz <= m_end /\ Start <= ptr
  BY <1>1, <1>2, <1>3 DEF IInv, Bounded, m_end
<1>7. TypeOK'
  <2>1. live' \subseteq Blocks
    <3> HIDE DEF new
    <3> QED BY <1>3, <1>4 DEF IInv, TypeOK
  <2>2. m_free' \in Nat /\ m_cur' \in Nat
    BY <1>1, <1>2, <1>3
  <2> QED BY <1>3, <2>1, <2>2 DEF IInv, TypeOK
<1>8. \A b \in live : b.ptr + b.sz <= m_cur /\ b.ptr \in Nat /\ b.sz \in Nat
  BY LinearAssumption DEF IInv, Below, TypeOK, Blocks
<1>9. Below'
  <2>1. \A b \in live : b.ptr + b.sz <= m_cur'
    BY <1>1, <1>2, <1>3, <1>8
  <2>2. new.ptr + new.sz <= m_cur'
    BY <1>1, <1>2, <1>3
  <2> HIDE DEF new
  <2> QED BY <1>3, <2>1, <2>2 DEF Below
<1>10. BlocksSound'
  <2>1. \A b \in live : b.ptr + b.sz <= new.ptr
    BY <1>1, <1>2, <1>8
  <2>2. new.ptr % new.al = 0 /\ Start <= new.ptr /\ new.ptr + new.sz <= m_end
    BY <1>2, <1>6
  <2> HIDE DEF new
  <2> QED BY <1>3, <2>1, <2>2 DEF IInv, BlocksSound, m_end
<1> QED BY <1>5, <1>7, <1>9, <1>10 DEF IInv

\* So does every other step.
LEMMA NextInv == IInv /\ [Next]_vars => IInv'
<1> SUFFICES ASSUME IInv, [Next]_vars PROVE IInv'
  OBVIOUS
<1>1. ASSUME NEW sz \in Sizes, NEW al \in Aligns, Alloc(sz, al) PROVE IInv'
  BY <1>1, AllocInv
<1>2. ASSUME NEW sz \in Sizes, NEW al \in Aligns, AllocFull(sz, al) PROVE IInv'
  BY <1>2 DEF AllocFull, IInv, TypeOK, Bounded, Below, BlocksSound, m_end
<1>3. CASE Reset
  BY <1>3, LinearAssumption DEF Reset, IInv, TypeOK, Bounded, Below, BlocksSound, m_end
<1>4. CASE Release
  BY <1>4 DEF Release, IInv, TypeOK, Bounded, Below, BlocksSound, m_end
<1>5. CASE Destroy
  BY <1>5 DEF Destroy, IInv, TypeOK, Bounded, Below, BlocksSound, m_end
<1>6. CASE ZeroMem
  BY <1>6 DEF ZeroMem, IInv, TypeOK, Bounded, Below, BlocksSound, m_end
<1>7. CASE UNCHANGED vars
  BY <1>7 DEF vars, IInv, TypeOK, Bounded, Below, BlocksSound, m_end
<1> QED BY <1>1, <1>2, <1>3, <1>4, <1>5, <1>6, <1>7 DEF Next

\* The types need no such buffer.
LEMMA AllocTypes ==
  ASSUME TypeOK, NEW sz \in Sizes, NEW al \in Aligns, Alloc(sz, al)
  PROVE  TypeOK'
<1> DEFINE ptr == AlignUp(m_cur, al)
           new == [ptr |-> ptr, sz |-> sz, al |-> al, lo |-> m_cur]
<1>1. /\ m_cur \in Nat /\ m_free \in Nat /\ sz \in Nat /\ al \in Nat \ {0}
  BY LinearAssumption DEF TypeOK
<1>2. ptr \in Nat /\ m_cur <= ptr
  BY <1>1, AlignUpLeast
<1>3. /\ ptr - m_cur + sz <= m_free
      /\ m_free' = m_free - (ptr - m_cur) - sz
      /\ m_cur' = ptr + sz
      /\ live' = live \cup {new}
      /\ m_initialized' = m_initialized /\ status' = status
  BY DEF Alloc, Fits
<1>4. new \in Blocks
  BY <1>1, <1>2 DEF Blocks
<1> HIDE DEF ptr, new
<1>5. m_free' \in Nat /\ m_cur' \in Nat
  BY <1>1, <1>2, <1>3
<1> QED BY <1>3, <1>4, <1>5 DEF TypeOK

\* Whichever constructor ran, and whatever it left in m_cur, m_free never wraps.
THEOREM LinearTypeCorrect == Spec => []TypeOK
<1>1. Init => TypeOK
  BY LinearAssumption DEF Init, TypeOK
<1>2. TypeOK /\ [Next]_vars => TypeOK'
  <2> SUFFICES ASSUME TypeOK, [Next]_vars PROVE TypeOK'
    OBVIOUS
  <2>1. ASSUME NEW sz \in Sizes, NEW al \in Aligns, Alloc(sz, al) PROVE TypeOK'
    BY <2>1, AllocTypes
  <2>2. ASSUME NEW sz \in Sizes, NEW al \in Aligns, AllocFull(sz, al) PROVE TypeOK'
    BY <2>2 DEF AllocFull, TypeOK
  <2>3. CASE Reset \/ ZeroMem \/ Release \/ Destroy
    BY <2>3, LinearAssumption DEF Reset, ZeroMem, Release, Destroy, TypeOK
  <2>4. CASE UNCHANGED vars
    BY <2>4 DEF vars, TypeOK
  <2> QED BY <2>1, <2>2, <2>3, <2>4 DEF Next
<1> QED BY <1>1, <1>2, PTL DEF Spec

\* Blocks handed out by the allocator are aligned, inside its buffer and apart
\* from each other, after any number of Resets that leave m_free behind.
THEOREM LinearSound ==
  ASSUME ~PreAlloc
  PROVE  Spec => []BlocksSound
<1>1. Init => IInv
  BY InitInv
<1>2. IInv => BlocksSound
  BY DEF IInv
<1> QED BY <1>1, <1>2, NextInv, PTL DEF Spec

-----------------------------------------------------------------------------
(* The page suppliers. *)

\* A product taken modulo 2^32 is still an amount of memory.
LEMMA AmountsType ==
  ASSUME NEW n \in Nat
  PROVE  CommitSize(n) \in Nat /\ VmEnd \in Nat /\ VmStart <= VmEnd
<1>1. U32 \in Nat \ {0} /\ PageSize \in Nat \ {0} /\ ReserveSize \in Nat /\ VmStart \in Nat
  BY VmAssumption
<1>2. ASSUME NEW k \in Nat PROVE k % U32 \in Nat
  BY <1>1, DivisionFacts
<1>3. CommitSize(n) \in Nat
  BY <1>1, <1>2 DEF CommitSize
<1>4. NumPages \in Nat
  <2>1. ReserveSize \div PageSize \in Nat
    BY <1>1, DivisionFacts
  <2> QED BY <1>2, <2>1 DEF NumPages
<1>5. (NumPages * PageSize) % U32 \in Nat
  BY <1>1, <1>2, <1>4
<1> QED BY <1>1, <1>3, <1>5 DEF VmEnd

\* Every step keeps m_reserved in the reservation and what is committed below it.
LEMMA VmNextType == VmTypeOK /\ [VmNext]_vmVars => VmTypeOK'
<1> SUFFICES ASSUME VmTypeOK, [VmNext]_vmVars PROVE VmTypeOK'
  OBVIOUS
<1>1. /\ VmStart \in Nat /\ VmEnd \in Nat /\ VmStart <= VmEnd
      /\ m_reserved \in Nat /\ VmStart <= m_reserved
  BY VmAssumption, AmountsType, 0 \in Nat DEF VmTypeOK
<1>2. ASSUME NEW n \in 1..(U32 - 1), VmCommits(n) \/ VmCommitFails(n)
      PROVE  VmTypeOK'
  <2>1. n \in Nat
    BY VmAssumption
  <2>2. CommitSize(n) \in Nat
    BY <2>1, AmountsType
  <2>3. /\ m_reserved' = m_reserved + CommitSize(n) /\ m_reserved + CommitSize(n) <= VmEnd
        /\ committed' \subseteq committed \cup VmPages(n)
    BY <1>2 DEF VmCommits, VmCommitFails, VmFits
  <2>4. m_reserved' \in VmStart..VmEnd
    BY <1>1, <2>2, <2>3
  <2>5. committed \cup VmPages(n) \subseteq VmStart..(m_reserved' - 1)
    <3>1. m_reserved' - 1 = m_reserved + CommitSize(n) - 1 /\ m_reserved - 1 <= m_reserved' - 1
      BY <1>1, <2>2, <2>3
    <3>2. VmPages(n) \subseteq VmStart..(m_reserved' - 1)
      BY <1>1, <2>2, <3>1 DEF VmPages
    <3>3. VmStart..(m_reserved - 1) \subseteq VmStart..(m_reserved' - 1)
      BY <1>1, <2>2, <2>3
    <3> QED BY <3>2, <3>3 DEF VmTypeOK
  <2> QED BY <2>3, <2>4, <2>5 DEF VmTypeOK, VmEnd, NumPages
<1>3. CASE VmRelease
  BY <1>1, <1>3 DEF VmRelease, VmTypeOK, VmEnd, NumPages
<1>4. CASE UNCHANGED vmVars
  BY <1>4 DEF vmVars, VmTypeOK, VmEnd, NumPages
<1> QED BY <1>2, <1>3, <1>4 DEF VmNext

\* m_reserved never leaves the reservation, however the 32-bit products wrap, and
\* nothing above it is committed.
THEOREM VmTypeCorrect == VmSpec => []VmTypeOK
<1>1. VmInit => VmTypeOK
  BY VmAssumption, AmountsType, 0 \in Nat DEF VmInit, VmTypeOK
<1> QED BY <1>1, VmNextType, PTL DEF VmSpec

\* Addresses come round again only after everything was decommitted.
THEOREM VmReuse == VmSpec => VmReusesOnlyReleased
<1>1. VmTypeOK /\ [VmNext]_vmVars => [m_reserved' < m_reserved => committed' = {}]_vmVars
  <2> SUFFICES ASSUME VmTypeOK, VmNext, m_reserved' < m_reserved PROVE committed' = {}
    OBVIOUS
  <2>1. /\ VmStart \in Nat /\ m_reserved \in Nat
    BY VmAssumption, AmountsType, 0 \in Nat DEF VmTypeOK
  <2>2. ASSUME NEW n \in 1..(U32 - 1), VmCommits(n) \/ VmCommitFails(n) PROVE FALSE
    <3>1. n \in Nat
      BY VmAssumption
    <3>2. CommitSize(n) \in Nat
      BY <3>1, AmountsType
    <3> QED BY <2>1, <2>2, <3>2 DEF VmCommits, VmCommitFails
  <2>3. CASE VmRelease
    BY <2>3 DEF VmRelease, VmTypeOK
  <2> QED BY <2>2, <2>3 DEF VmNext
<1> QED BY <1>1, VmTypeCorrect, PTL DEF VmSpec, VmReusesOnlyReleased

-----------------------------------------------------------------------------
BlocksType == blocks \subseteq [page : Nat, n : 1..(U32 - 1)]

\* The properties of the run.
SupplierInv == VmTypeOK /\ BlocksType /\ Backed

\* What is known of the numbers while the invariant holds.
LEMMA BlockNumbers ==
  ASSUME SupplierInv
  PROVE  /\ VmStart \in Nat /\ VmEnd \in Nat /\ m_reserved \in Nat /\ VmStart <= m_reserved
         /\ m_reserved <= VmEnd
         /\ \A n \in 1..(U32 - 1) : n \in Nat /\ CommitSize(n) \in Nat
         /\ \A b \in blocks : b.page \in Nat /\ b.n \in 1..(U32 - 1) /\ CommitSize(b.n) \in Nat \ {0}
                              /\ EndOf(b) \in Nat /\ EndOf(b) = b.page + CommitSize(b.n)
                              /\ VmStart <= b.page /\ EndOf(b) <= m_reserved
<1>1. VmStart \in Nat /\ U32 \in Nat \ {0}
  BY VmAssumption
<1>2. \A n \in 1..(U32 - 1) : n \in Nat /\ CommitSize(n) \in Nat
  BY <1>1, AmountsType
<1>3. VmEnd \in Nat /\ VmStart <= VmEnd
  BY AmountsType, 0 \in Nat
<1>4. m_reserved \in VmStart..VmEnd
  BY DEF SupplierInv, VmTypeOK
<1>5. \A b \in blocks : b.page \in Nat /\ b.n \in 1..(U32 - 1)
  BY DEF SupplierInv, BlocksType
<1>6. \A b \in blocks : VmStart <= b.page /\ EndOf(b) <= m_reserved /\ 0 < CommitSize(b.n)
  BY DEF SupplierInv, Backed
<1> QED BY <1>1, <1>2, <1>3, <1>4, <1>5, <1>6 DEF EndOf

\* A block is committed above every other.
LEMMA AllocKeeps ==
  ASSUME SupplierInv, NEW n \in 1..(U32 - 1), SupplierAlloc(n)
  PROVE  BlocksType' /\ Backed' /\ \A c \in blocks : EndOf(c) <= m_reserved
<1> PICK b : b = [page |-> m_reserved, n |-> n]
  OBVIOUS
<1>1. /\ committed' = committed \cup VmPages(n) /\ m_reserved' = m_reserved + CommitSize(n)
      /\ blocks' = blocks \cup {b} /\ CommitSize(n) > 0
  BY DEF SupplierAlloc, VmCommits
<1>2. b.page = m_reserved /\ b.n = n
  OBVIOUS
<1>3. BlocksType'
  BY <1>1, BlockNumbers DEF SupplierInv, BlocksType
<1>4. PagesOf(b) = VmPages(n) /\ EndOf(b) = m_reserved'
  <2>1. EndOf(b) = m_reserved + CommitSize(n)
    BY <1>2 DEF EndOf
  <2>2. PagesOf(b) = m_reserved..(EndOf(b) - 1)
    BY <1>2 DEF PagesOf
  <2>3. VmPages(n) = m_reserved..(m_reserved + CommitSize(n) - 1)
    BY DEF VmPages
  <2>4. EndOf(b) = m_reserved'
    BY <1>1, <2>1
  <2>5. PagesOf(b) = m_reserved..(m_reserved + CommitSize(n) - 1)
    <3>1. m_reserved \in Nat /\ CommitSize(n) \in Nat
      BY BlockNumbers
    <3> QED BY <2>1, <2>2, <3>1
  <2>6. PagesOf(b) = VmPages(n)
    BY <2>3, <2>5
  <2> QED BY <2>4, <2>6
<1>5. committed' = UNION {PagesOf(c) : c \in blocks'}
  BY <1>1, <1>4 DEF SupplierInv, Backed
<1>6. \A c \in blocks : EndOf(c) <= m_reserved /\ EndOf(c) <= m_reserved'
  BY <1>1, BlockNumbers
<1>7. \A c, d \in blocks' : c # d => EndOf(c) <= d.page \/ EndOf(d) <= c.page
  BY <1>1, <1>2, <1>6 DEF SupplierInv, Backed
<1>8. \A c \in blocks' : VmStart <= c.page /\ EndOf(c) <= m_reserved' /\ 0 < CommitSize(c.n)
  BY <1>1, <1>2, <1>4, <1>6, BlockNumbers
<1> QED BY <1>3, <1>5, <1>6, <1>7, <1>8 DEF Backed, PagesOf, EndOf, CommitSize

\* Intervals of which one ends before the other starts share nothing.
LEMMA Apart ==
  ASSUME NEW i \in Int, NEW j \in Int, NEW k \in Int, NEW l \in Int, j <= k \/ l <= i
  PROVE  (i..(j - 1)) \cap (k..(l - 1)) = {}
OBVIOUS

\* The block freed is the only one that loses memory, and m_reserved is lowered
\* under no block.
LEMMA FreeKeeps ==
  ASSUME SupplierInv, NEW b \in blocks, Free(b)
  PROVE  VmTypeOK' /\ BlocksType' /\ Backed'
<1>1. /\ m_reserved' = IF EndOf(b) = m_reserved THEN b.page ELSE m_reserved
      /\ committed' = committed \ PagesOf(b) /\ blocks' = blocks \ {b}
  BY DEF Free
<1>2. /\ VmStart \in Nat /\ VmEnd \in Nat /\ m_reserved \in Nat /\ m_reserved <= VmEnd
      /\ VmStart <= m_reserved
      /\ \A c \in blocks : c.page \in Nat /\ c.n \in 1..(U32 - 1) /\ CommitSize(c.n) \in Nat \ {0}
                           /\ EndOf(c) \in Nat /\ EndOf(c) = c.page + CommitSize(c.n)
                           /\ VmStart <= c.page /\ EndOf(c) <= m_reserved
  BY BlockNumbers
<1>3. \A c \in blocks' : c \in blocks /\ c # b /\ (EndOf(c) <= b.page \/ EndOf(b) <= c.page)
  BY <1>1 DEF SupplierInv, Backed
<1>4. \A c \in blocks' : PagesOf(c) \cap PagesOf(b) = {}
  <2> SUFFICES ASSUME NEW c \in blocks' PROVE PagesOf(c) \cap PagesOf(b) = {}
    OBVIOUS
  <2>1. PagesOf(c) = c.page..(EndOf(c) - 1) /\ PagesOf(b) = b.page..(EndOf(b) - 1)
    BY DEF PagesOf
  <2>2. c \in blocks /\ (EndOf(c) <= b.page \/ EndOf(b) <= c.page)
    BY <1>3
  <2>3. c.page \in Int /\ EndOf(c) \in Int /\ b.page \in Int /\ EndOf(b) \in Int
    BY <1>2, <2>2
  <2> QED BY <2>1, <2>2, <2>3, Apart
<1>5. committed' = UNION {PagesOf(c) : c \in blocks'}
  <2>1. committed = UNION {PagesOf(c) : c \in blocks}
    BY DEF SupplierInv, Backed
  <2>2. \A x : x \in UNION {PagesOf(c) : c \in blocks} <=> \E c \in blocks : x \in PagesOf(c)
    OBVIOUS
  <2>3. \A x : x \in UNION {PagesOf(c) : c \in blocks'} <=> \E c \in blocks' : x \in PagesOf(c)
    OBVIOUS
  <2>4. \A x : x \in committed' <=> \E c \in blocks' : x \in PagesOf(c)
    BY <1>1, <1>4, <2>1, <2>2
  <2> QED BY <2>3, <2>4
<1>6. m_reserved' \in VmStart..VmEnd /\ \A c \in blocks' : EndOf(c) <= m_reserved'
  <2>1. CASE EndOf(b) = m_reserved
    <3>1. \A c \in blocks' : EndOf(c) <= b.page
      BY <1>2, <1>3, <2>1
    <3> QED BY <1>1, <1>2, <2>1, <3>1
  <2>2. CASE EndOf(b) # m_reserved
    BY <1>1, <1>2, <1>3, <2>2
  <2> QED BY <2>1, <2>2
<1>7. committed' \subseteq VmStart..(m_reserved' - 1)
  <2> SUFFICES ASSUME NEW c \in blocks', NEW x \in PagesOf(c) PROVE x \in VmStart..(m_reserved' - 1)
    BY <1>5
  <2>1. PagesOf(c) = c.page..(EndOf(c) - 1)
    BY DEF PagesOf
  <2> QED BY <1>2, <1>3, <1>6, <2>1
<1>8. BlocksType'
  BY <1>1 DEF SupplierInv, BlocksType
<1>9. \A c, d \in blocks' : c # d => EndOf(c) <= d.page \/ EndOf(d) <= c.page
  BY <1>3 DEF SupplierInv, Backed
<1>10. VmTypeOK'
  BY <1>6, <1>7 DEF VmTypeOK, VmEnd, NumPages
<1> QED BY <1>2, <1>3, <1>5, <1>6, <1>8, <1>9, <1>10 DEF Backed, PagesOf, EndOf, CommitSize

\* Every step keeps the invariant.
LEMMA SupplierKeeps == SupplierInv /\ [SupplierNext]_supplierVars => SupplierInv'
<1> SUFFICES ASSUME SupplierInv, [SupplierNext]_supplierVars PROVE SupplierInv'
  OBVIOUS
<1>1. ASSUME NEW n \in 1..(U32 - 1), SupplierAlloc(n) PROVE SupplierInv'
  <2>1. VmTypeOK'
    BY <1>1, VmNextType DEF SupplierInv, SupplierAlloc, VmNext
  <2> QED BY <1>1, <2>1, AllocKeeps DEF SupplierInv
<1>2. ASSUME NEW n \in 1..(U32 - 1), AllocUnbacked(n) PROVE SupplierInv'
  <2>1. VmTypeOK'
    BY <1>2, VmNextType DEF SupplierInv, AllocUnbacked, VmNext
  <2>2. blocks' = blocks /\ committed' = committed /\ m_reserved' = m_reserved + CommitSize(n)
    BY <1>2 DEF AllocUnbacked, VmCommitFails
  <2>3. \A b \in blocks : EndOf(b) <= m_reserved'
    BY <2>2, BlockNumbers
  <2>4. Backed'
    BY <2>2, <2>3 DEF SupplierInv, Backed, PagesOf, EndOf, CommitSize
  <2> QED BY <2>1, <2>2, <2>4 DEF SupplierInv, BlocksType
<1>3. ASSUME NEW b \in blocks, Free(b) PROVE SupplierInv'
  BY <1>3, FreeKeeps DEF SupplierInv
<1>4. CASE SupplierRelease
  <2>1. VmTypeOK'
    BY <1>4, VmNextType DEF SupplierInv, SupplierRelease, VmNext
  <2>2. committed' = committed \ (VmStart..(m_reserved - 1)) /\ blocks' = {}
    BY <1>4 DEF SupplierRelease, VmRelease
  <2>3. committed' = {}
    BY <2>2 DEF SupplierInv, VmTypeOK
  <2> QED BY <2>1, <2>2, <2>3 DEF SupplierInv, Backed, BlocksType
<1>5. CASE FreeAborts \/ UNCHANGED supplierVars
  <2>1. UNCHANGED <<m_reserved, committed, blocks>>
    BY <1>5 DEF FreeAborts, supplierVars
  <2>2. VmTypeOK'
    BY <2>1 DEF SupplierInv, VmTypeOK, VmEnd, NumPages
  <2> QED BY <2>1, <2>2 DEF SupplierInv, Backed, BlocksType, PagesOf, EndOf, CommitSize
<1> QED BY <1>1, <1>2, <1>3, <1>4, <1>5 DEF SupplierNext

LEMMA SupplierInvariant == SupplierSpec => []SupplierInv
<1>1. SupplierInit => SupplierInv
  <2> SUFFICES ASSUME SupplierInit PROVE SupplierInv
    OBVIOUS
  <2>1. VmTypeOK
    BY VmAssumption, AmountsType, 0 \in Nat DEF SupplierInit, VmInit, VmTypeOK
  <2> QED BY <2>1 DEF SupplierInit, VmInit, SupplierInv, Backed, BlocksType
<1> QED BY <1>1, SupplierKeeps, PTL DEF SupplierSpec

\* Both suppliers stay inside their reservation, and the memory they have committed
\* is that of the blocks in use, which share no address.
THEOREM SuppliersBacked == SupplierSpec => [](VmTypeOK /\ Backed)
<1>1. SupplierInv => VmTypeOK /\ Backed
  BY DEF SupplierInv
<1> QED BY <1>1, SupplierInvariant, PTL

\* A block is handed out above every block in use.
THEOREM SuppliersGrowUpwards == SupplierSpec => NewestHighest
<1>1. SupplierInv /\ [SupplierNext]_supplierVars => [\A b \in blocks' \ blocks, c \in blocks : EndOf(c) <= b.page]_supplierVars
  <2> SUFFICES ASSUME SupplierInv, SupplierNext, NEW b \in blocks' \ blocks, NEW c \in blocks
               PROVE  EndOf(c) <= b.page
    OBVIOUS
  <2>1. ASSUME NEW n \in 1..(U32 - 1), SupplierAlloc(n) PROVE EndOf(c) <= b.page
    BY <2>1, AllocKeeps DEF SupplierAlloc
  <2>2. CASE \/ \E n \in 1..(U32 - 1) : AllocUnbacked(n)
             \/ \E d \in blocks : Free(d)
             \/ FreeAborts \/ SupplierRelease
    BY <2>2 DEF AllocUnbacked, Free, FreeAborts, SupplierRelease
  <2> QED BY <2>1, <2>2 DEF SupplierNext
<1> QED BY <1>1, SupplierInvariant, PTL DEF SupplierSpec, NewestHighest

=============================================================================
