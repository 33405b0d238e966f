-------------------------- MODULE VMLinearAllocator --------------------------
(***************************************************************************)
(* The page supplier behind SequentialListAllocator<VMDYNAMIC>: it reserves *)
(* a range of virtual addresses once and commits pages from its low end, in *)
(* order.  VirtualAlloc and VirtualFree are outside the repository; what    *)
(* they do is visible here only as the set of committed addresses.          *)
(***************************************************************************)
EXTENDS Integers

CONSTANTS
  VmStart,      \* what VirtualAlloc(MEM_RESERVE) returned, m_start
  PageSize,     \* m_pgSize
  ReserveSize,  \* the constructor's sz
  U32           \* 2^32: DWORD and uint32_t products are taken modulo U32

ASSUME VmAssumption ==
  /\ VmStart \in Nat /\ PageSize \in Nat \ {0}
  /\ ReserveSize \in Nat /\ U32 \in Nat \ {0}

VARIABLES
  m_reserved,   \* first address of the reservation not yet handed out
  committed     \* addresses backed by memory

vmVars == <<m_reserved, committed>>

\* ceil() of an integer quotient is that quotient; DWORD * uint32_t has 32 bits.
NumPages == (ReserveSize \div PageSize) % U32
VmEnd == VmStart + ((NumPages * PageSize) % U32)

CommitSize(n) == (n * PageSize) % U32

VmInit ==
  /\ m_reserved = VmStart
  /\ committed = {}

\* Mutant: only the start of the pages is compared with the end.
VmFitsStart(n) == n > 0 /\ m_reserved < VmEnd

\* The test against m_end, n > 0 being asserted.
VmFits(n) == n > 0 /\ m_reserved + CommitSize(n) <= VmEnd

\* Where the pages lie: the old m_reserved is returned.
VmPages(n) == m_reserved..(m_reserved + CommitSize(n) - 1)

\* Mutant: the pages are committed and not counted off.
VmCommitsAgain(n) ==
  /\ VmFits(n) /\ CommitSize(n) > 0
  /\ committed' = committed \cup VmPages(n)
  /\ UNCHANGED m_reserved

\* Alloc: VirtualAlloc(MEM_COMMIT) succeeds; it never does for 0 bytes.
VmCommits(n) ==
  /\ VmFits(n) /\ CommitSize(n) > 0
  /\ committed' = committed \cup VmPages(n)
  /\ m_reserved' = m_reserved + CommitSize(n)

\* Alloc: the system commits nothing and NULL is returned; m_reserved moves on.
VmCommitFails(n) ==
  /\ VmFits(n)
  /\ m_reserved' = m_reserved + CommitSize(n)
  /\ UNCHANGED committed

VmRelease ==
  /\ committed' = committed \ (VmStart..(m_reserved - 1))
  /\ m_reserved' = VmStart

VmNext ==
  \/ \E n \in 1..(U32 - 1) : VmCommits(n) \/ VmCommitFails(n)
  \/ VmRelease

VmSpec == VmInit /\ [][VmNext]_vmVars

-----------------------------------------------------------------------------
\* m_reserved stays in the reservation, and only what was handed out is backed
\* by memory.
VmTypeOK ==
  /\ m_reserved \in VmStart..VmEnd
  /\ committed \subseteq VmStart..(m_reserved - 1)

\* Addresses are handed out a second time only once everything was decommitted:
\* Release gives back all of it, the pages a failed commit skipped included.
VmReusesOnlyReleased == [][m_reserved' < m_reserved => committed' = {}]_vmVars

=============================================================================
