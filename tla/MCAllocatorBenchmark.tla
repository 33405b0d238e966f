------------------------ MODULE MCAllocatorBenchmark ------------------------
(***************************************************************************)
(* Values for the sequences AllocatorBenchmark is parameterized by.         *)
(***************************************************************************)
EXTENDS AllocatorBenchmark

ThreeSizes == <<1, 2, 4>>

Both == <<"SEQ", "RANDOM">>

\* The combinations of ALLOC_ and FREE_ flags without FREE_RAND that matter: each
\* free order after allocations in sequence and at random, both orders in turn,
\* and no FREE_ flag at all.
NoRAND ==
  {[alloc |-> <<"SEQ">>, free |-> <<"LIFO", "FIFO">>],
   [alloc |-> <<"RANDOM">>, free |-> <<"LIFO">>],
   [alloc |-> <<"RANDOM">>, free |-> <<"FIFO">>],
   [alloc |-> Both, free |-> <<>>]}

=============================================================================
