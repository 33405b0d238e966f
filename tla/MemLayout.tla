----------------------------- MODULE MemLayout -----------------------------
(***************************************************************************)
(* The address arithmetic shared by the allocators: rounding an address up *)
(* to an alignment and leaving room for a header in front of the pointer   *)
(* that is handed out.  Alignments are powers of two (every Alloc asserts  *)
(* it), so masking with ~(alignment - 1) is rounding down to a multiple.   *)
(***************************************************************************)
EXTENDS Integers

\* (x + al - 1) & ~(al - 1)
AlignUp(x, al) == ((x + al - 1) \div al) * al

\* _fitPadding: padding already aligns the pointer; widen it by whole
\* alignments until a header of hdr units fits in front of the pointer.
FitPadding(padding, al, hdr) ==
  IF padding >= hdr THEN padding
  ELSE IF (hdr - padding) % al = 0 THEN hdr
  ELSE padding + al * (1 + (hdr - padding) \div al)

\* The padding _fitToBlock and StackAllocator::Alloc settle on for a block.
BlockPadding(block, al, hdr) == FitPadding(AlignUp(block, al) - block, al, hdr)

=============================================================================
