------------------------- MODULE SequentialListSound -------------------------
(***************************************************************************)
(* The part of SequentialListAllocator's behaviour in which its free list   *)
(* is right.  Two of the paths through Free damage the list: merging into   *)
(* the first free block (line 363) leaves the next block's prev, or m_llEnd,*)
(* on the block that was absorbed, and appending apart from the last one    *)
(* (line 385) links to the pointer instead of the block.  Every other call, *)
(* in any order, keeps the list equal to the gaps between the blocks in     *)
(* use; SoundSpec is the allocator with a client that stays off those two,  *)
(* and calls nothing but the destructor after Release.                      *)
(***************************************************************************)
EXTENDS SequentialListAllocator

MergesIntoFirst(p) == BeforeFirst(p) /\ MeetsFirst(p)
AppendsApart(p) == AfterLast(p) /\ ~MeetsLast(p)

SoundFree ==
  \E b \in live :
    ~MergesIntoFirst(b.ptr) /\ ~AppendsApart(b.ptr) /\ Free(b.ptr)

SoundNext ==
  \/ Step
  \/ m_initialized /\ \E sz \in Sizes, al \in Aligns : Alloc(sz, al)
  \/ SoundFree
  \/ m_initialized /\ (Layout \/ Reset \/ Release)
  \/ Destroy

SoundSpec == Init /\ [][SoundNext]_vars /\ WF_vars(Step)

-----------------------------------------------------------------------------
NoRequest == [sz |-> NULL, al |-> NULL]

Contract == INSTANCE ArenaContract WITH
  Header <- allocHeaderSize, MinFree <- freeHeaderSize,
  Tightest <- (Pattern = "BEST_FIT"), Growing <- (Buffer = "VMDYNAMIC"),
  None <- NoRequest,
  held <- live, end <- m_end,
  asked <- IF call.op \in {"search", "expand"} THEN [sz |-> call.sz, al |-> call.al]
           ELSE NoRequest,
  open <- m_initialized /\ status \in {"ok", "aborted"}

\* Every call does what the contract allows: whatever the search order, the
\* splits and the merges, a request is granted from a gap between the blocks in
\* use (a tightest one under best fit), refused only when no gap can serve it,
\* and met with new pages only then.  An "undefined" step closes the arena in the
\* contract, which is why NoFault is checked beside it.
Implements == Contract!ContractSpec

GapStarts == {g[1] : g \in Contract!Gaps}
LowestOf(S) == IF S = {} THEN NULL ELSE CHOOSE x \in S : \A y \in S : x <= y
HighestOf(S) == IF S = {} THEN NULL ELSE CHOOSE x \in S : \A y \in S : y <= x

Idling == status = "ok" /\ m_initialized /\ call.op = "idle"

\* Followed by next, the free list is exactly the gaps between the blocks in
\* use, in address order, each with its whole length: nothing is lost,
\* nothing is listed twice, and no two neighbours are left uncoalesced.
ForwardList ==
  Idling =>
    /\ m_llStart = LowestOf(GapStarts)
    /\ \A g \in Contract!Gaps :
         /\ SizeOf(g[1]) = g[2] - g[1]
         /\ NextOf(g[1]) = LowestOf({x \in GapStarts : x > g[1]})

\* Followed by prev from m_llEnd it is the same list.
BackwardList ==
  Idling =>
    /\ m_llEnd = HighestOf(GapStarts)
    /\ \A g \in Contract!Gaps : PrevOf(g[1]) = HighestOf({x \in GapStarts : x < g[1]})

=============================================================================
