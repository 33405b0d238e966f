------------------------- MODULE MCRBTreeAllocator -------------------------
(***************************************************************************)
(* RBTreeAllocator with the shape of its tree.                              *)
(***************************************************************************)
EXTENDS RBTreeAllocator, RBTreeShape

\* Between calls every free block can be found: it is in the tree, or in the list of a
\* node of its size, and the tree is a red-black search tree.
FreeBlocksKept ==
  whole /\ op.pc = "idle" => SearchTree /\ Balanced /\ Lists /\ Listed = DOMAIN key

=============================================================================
