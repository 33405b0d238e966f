------------------------ MODULE SequentialListProofs ------------------------
(***************************************************************************)
(* Proofs about SequentialListAllocator, for every arena size, set of       *)
(* request sizes and alignments, buffer kind and fit policy; and about the  *)
(* benchmark that calls it, for every number of tests and set of flags.     *)
(***************************************************************************)
EXTENDS AllocatorBenchmark, MemLayoutProofs, FiniteSetTheorems

\* The block best fit has kept so far can serve the request.
SearchOK ==
  status = "ok" /\ call.op = "search" /\ call.best # NULL =>
    Known(call.best + 2) /\ Leftover(call.best) >= 0

IInv == TypeOK /\ SearchOK /\ Served

\* A step that neither grows the arena nor gives it back.
SameArena == DOMAIN mem' = DOMAIN mem /\ UNCHANGED sizeVars /\ UNCHANGED m_initialized

USE DEF NULL, Junk, allocHeaderSize, freeHeaderSize

-----------------------------------------------------------------------------
\* Writing a word anywhere keeps the memory's type.
LEMMA WriteType ==
  ASSUME NEW D, NEW m \in [D -> Words], NEW k, NEW v \in Words
  PROVE  [m EXCEPT ![k] = v] \in [D -> Words]
OBVIOUS

\* So does writing a free block's header.
LEMMA WriteHeaderType ==
  ASSUME NEW D, NEW m \in [D -> Words], NEW b,
         NEW next \in Words, NEW prev \in Words, NEW sz \in Words
  PROVE  WriteHeader(m, b, next, prev, sz) \in [D -> Words]
BY DEF WriteHeader

\* CeilDiv rounds up to enough pages, and by less than one page.
LEMMA CeilDivOk ==
  ASSUME NEW x \in Nat, NEW y \in Nat \ {0}
  PROVE  /\ CeilDiv(x, y) \in Nat
         /\ x <= CeilDiv(x, y) * y
         /\ CeilDiv(x, y) * y < x + y
<1> DEFINE q == CeilDiv(x, y)
<1>1. AlignUp(x, y) = q * y
  BY DEF AlignUp, CeilDiv
<1>2. q \in Nat
  BY DivisionFacts, x + y - 1 \in Nat DEF CeilDiv
<1> QED BY <1>1, <1>2, AlignUpLeast

\* A call in progress has the locals of its kind.
LEMMA CallFields ==
  ASSUME call \in CallTypes
  PROVE  /\ call.op = "search" => call \in [op : {"search"}, sz : Sizes, al : Aligns,
                                            S : Nat, E : Nat, best : Nat, min : Nat]
         /\ call.op = "expand" => call \in [op : {"expand"}, sz : Sizes, al : Aligns]
                                  /\ Buffer = "VMDYNAMIC"
         /\ call.op = "scan" => call \in [op : {"scan"}, h : Nat, len : Nat, S : Nat,
                                          Sp : Nat, E : Nat, Ep : Nat]
         /\ call.op = "layout" => call \in [op : {"layout"}, block : Nat]
BY DEF CallTypes

\* What _splitBlock leaves: memory and list ends of the right type, and a
\* block that is at least as long as was asked.
LEMMA SplitBlockOk ==
  ASSUME NEW D, NEW m \in [D -> Words],
         NEW first \in Nat, NEW last \in Nat, NEW block \in Nat, NEW prevBlock \in Nat,
         NEW at \in Nat, NEW sz \in Nat,
         m[block] \in Nat, m[block + 1] \in Nat, m[block + 2] \in Nat,
         block + m[block + 2] - at - sz >= 0
  PROVE  LET r == SplitBlock(m, first, last, block, prevBlock, at, sz)
         IN /\ r.mem \in [D -> Words]
            /\ r.first \in Nat /\ r.last \in Nat
            /\ r.got \in Nat /\ sz <= r.got
<1> DEFINE next      == m[block]
           size      == m[block + 2]
           remaining == block + size - at - sz
           newBlock  == at + sz
           splits    == remaining >= freeHeaderSize
           heir      == IF splits THEN newBlock ELSE next
           m1 == IF splits THEN WriteHeader(m, newBlock, next, m[block + 1], remaining) ELSE m
           m2 == IF prevBlock # NULL THEN [m1 EXCEPT ![prevBlock] = heir] ELSE m1
           m3 == IF m2[block] # NULL
                 THEN [m2 EXCEPT ![m2[block] + 1] = IF splits THEN newBlock ELSE prevBlock]
                 ELSE m2
           r  == SplitBlock(m, first, last, block, prevBlock, at, sz)
<1>1. /\ r.mem = m3
      /\ r.first = IF prevBlock # NULL THEN first ELSE heir
      /\ r.last = IF m2[block] # NULL THEN last ELSE IF splits THEN newBlock ELSE prevBlock
      /\ r.got = IF splits THEN sz ELSE size + block - at
  BY DEF SplitBlock
<1>2. remaining \in Nat /\ newBlock \in Nat /\ heir \in Nat
  OBVIOUS
<1>3. m1 \in [D -> Words]
  <2>1. next \in Words /\ m[block + 1] \in Words /\ remaining \in Words
    BY <1>2 DEF Words
  <2> QED BY <2>1, WriteHeaderType
<1>4. m2 \in [D -> Words]
  <2>1. heir \in Words
    BY <1>2 DEF Words
  <2> HIDE DEF heir, m1
  <2> QED BY <2>1, <1>3, WriteType
<1>5. m3 \in [D -> Words]
  <2> DEFINE w == IF splits THEN newBlock ELSE prevBlock
             k == m2[block] + 1
  <2>1. w \in Words
    BY <1>2 DEF Words
  <2>2. m3 = m2 \/ m3 = [m2 EXCEPT ![k] = w]
    OBVIOUS
  <2> HIDE DEF m2, m3, w, k
  <2> QED BY <2>1, <2>2, <1>4, WriteType
<1>6. r.first \in Nat /\ r.last \in Nat
  <2> HIDE DEF m2, r
  <2> QED BY <1>1, <1>2
<1>7. r.got \in Nat /\ sz <= r.got
  <2>1. remaining >= 0 /\ size + block - at = remaining + sz
    BY <1>2
  <2> HIDE DEF r
  <2> QED BY <1>1, <2>1
<1> HIDE DEF m3, r
<1> QED BY <1>1, <1>5, <1>6, <1>7 DEF r

\* The padding of a block: room for the header, and an aligned pointer.
LEMMA PaddingOk ==
  ASSUME TypeOK, call.op \in {"search", "expand"}, NEW block \in Nat
  PROVE  /\ call.al \in Nat \ {0} /\ call.sz \in Nat
         /\ call.al \in Aligns /\ call.sz \in Sizes
         /\ PaddingIn(block) \in Nat
         /\ PaddingIn(block) >= 2
         /\ (block + PaddingIn(block)) % call.al = 0
<1>1. call.al \in Aligns /\ call.sz \in Sizes
  BY CallFields DEF TypeOK
<1>2. call.al \in Nat \ {0} /\ call.sz \in Nat
  BY <1>1, SeqAssumption
<1> QED BY <1>1, <1>2, BlockPaddingOk DEF PaddingIn

\* The tail every allocation shares: given a block that is long enough, it
\* keeps the memory's type and hands out a block that serves the request.
LEMMA TakeBlockOk ==
  ASSUME TypeOK, Served, NEW D, NEW m \in [D -> Words], D \subseteq Nat,
         NEW first \in Nat, NEW last \in Nat, NEW block \in Nat, NEW prevBlock \in Nat,
         NEW padding \in Nat, NEW sz \in Sizes, NEW al \in Aligns,
         padding >= 2, (block + padding) % al = 0,
         m[block] \in Nat, m[block + 1] \in Nat, m[block + 2] \in Nat,
         m[block + 2] - (padding + sz) >= 0,
         TakeBlock(m, first, last, block, prevBlock, padding, sz, al)
  PROVE  /\ mem' \in [D -> Words]
         /\ m_llStart' \in Nat /\ m_llEnd' \in Nat
         /\ live' \subseteq [ptr : Nat, sz : Sizes, al : Aligns, lo : Nat, hi : Nat]
         /\ call' \in CallTypes /\ call'.op = "idle"
         /\ m_initialized' = m_initialized /\ status' = status
         /\ Served'
<1> DEFINE at == block + padding
           r   == SplitBlock(m, first, last, block, prevBlock, at, sz)
           m1  == [r.mem EXCEPT ![at - 2] = r.got, ![at - 1] = padding]
           new == [ptr |-> at, sz |-> sz, al |-> al, lo |-> block, hi |-> at + r.got]
<1>1. at \in Nat /\ sz \in Nat
  BY SeqAssumption
<1>2. block + m[block + 2] - at - sz >= 0
  BY <1>1
<1> HIDE DEF r
<1>3. /\ r.mem \in [D -> Words] /\ r.first \in Nat /\ r.last \in Nat
      /\ r.got \in Nat /\ sz <= r.got
  <2> HIDE DEF at
  <2> QED BY <1>1, <1>2, SplitBlockOk DEF r
<1>4. /\ mem' = Junked(m1, at, at + sz - 1)
      /\ m_llStart' = r.first /\ m_llEnd' = r.last
      /\ live' = live \cup {new}
      /\ call' = Returned(at)
      /\ m_initialized' = m_initialized /\ status' = status
  BY DEF TakeBlock, r
<1>5. m1 \in [D -> Words]
  <2>1. r.got \in Words /\ padding \in Words
    BY <1>3 DEF Words
  <2> HIDE DEF at
  <2> QED BY <2>1, <1>3, WriteType
<1>6. mem' \in [D -> Words]
  <2> HIDE DEF m1, at
  <2> QED BY <1>4, <1>5 DEF Junked, Words
<1>7. new \in [ptr : Nat, sz : Sizes, al : Aligns, lo : Nat, hi : Nat]
  BY <1>1, <1>3
<1>8. live' \subseteq [ptr : Nat, sz : Sizes, al : Aligns, lo : Nat, hi : Nat]
  <2> HIDE DEF new
  <2> QED BY <1>4, <1>7 DEF TypeOK
<1>9. call' \in CallTypes /\ call'.op = "idle"
  BY <1>1, <1>4 DEF Returned, CallTypes
<1>10. Served'
  <2>1. new.ptr % new.al = 0 /\ new.ptr - new.lo >= 2 /\ new.ptr + new.sz <= new.hi
    BY <1>1, <1>3
  <2> HIDE DEF new
  <2> QED BY <2>1, <1>4 DEF Served
<1> HIDE DEF m1, new
<1> QED BY <1>3, <1>4, <1>6, <1>8, <1>9, <1>10

-----------------------------------------------------------------------------
\* The arena the constructor asks for has a size.
LEMMA InitialSizeType == InitialPages \in Nat /\ InitialSize \in Nat
<1>1. InitialPages \in Nat
  BY SeqAssumption, CeilDivOk DEF InitialPages
<1> QED BY <1>1, SeqAssumption DEF InitialSize

\* The initial state.
LEMMA InitInv == Init => IInv
<1> SUFFICES ASSUME Init PROVE IInv
  OBVIOUS
<1>1. InitialSize \in Nat
  BY InitialSizeType
<1>2. InitialPages \in Nat
  BY InitialSizeType
<1> DEFINE arena == [a \in Base..(Base + InitialSize - 1) |-> Blank]
<1>3. arena \in [DOMAIN arena -> Words] /\ DOMAIN arena \subseteq Nat
  BY <1>1, SeqAssumption DEF Blank, Words
<1>4. mem \in [DOMAIN arena -> Words]
  <2>1. 0 \in Words /\ InitialSize \in Words
    BY <1>1 DEF Words
  <2>2. mem = WriteHeader(arena, Base, 0, 0, InitialSize)
    BY DEF Init, Built
  <2> HIDE DEF arena
  <2> QED BY <1>3, <2>1, <2>2, WriteHeaderType
<1> HIDE DEF arena
<1>5. TypeOK
  <2>1. call \in CallTypes
    BY DEF Init, CallTypes, Returned
  <2>2. mem \in [DOMAIN mem -> Words] /\ DOMAIN mem \subseteq Nat
    BY <1>3, <1>4
  <2>3. m_size \in Nat /\ m_end \in Nat /\ m_nVMPages \in Nat /\ m_reserved \in Nat
    BY <1>1, <1>2, SeqAssumption DEF Init
  <2> QED BY <2>1, <2>2, <2>3, SeqAssumption DEF Init, TypeOK
<1>6. SearchOK /\ Served
  BY DEF Init, SearchOK, Served, Returned
<1> QED BY <1>5, <1>6 DEF IInv

\* A step with no defined outcome leaves everything but the status alone.
LEMMA UndefinedInv ==
  ASSUME IInv, Undefined
  PROVE  IInv' /\ SameArena
<1>1. TypeOK'
  BY DEF IInv, TypeOK, Undefined
<1>2. SearchOK' /\ Served'
  BY DEF IInv, SearchOK, Served, Undefined
<1> QED BY <1>1, <1>2 DEF IInv, SameArena, Undefined, sizeVars

\* A step that changes the call's locals only, outside the search for a block.
LEMMA CallOnlyInv ==
  ASSUME IInv, OnlyCallChanges, call' \in CallTypes, call'.op # "search"
  PROVE  IInv' /\ SameArena
<1>1. TypeOK'
  BY DEF IInv, TypeOK, OnlyCallChanges, sizeVars
<1>2. SearchOK' /\ Served'
  BY DEF IInv, SearchOK, Served, OnlyCallChanges
<1> QED BY <1>1, <1>2 DEF IInv, SameArena, OnlyCallChanges

\* A block that is long enough is taken.
LEMMA TakeInv ==
  ASSUME IInv, Searching, NEW block \in Nat, Leftover(block) >= 0, Take(block)
  PROVE  IInv' /\ SameArena
<1> DEFINE padding == PaddingIn(block)
<1>1. CASE ~SplitDefined(mem, block, PrevOf(block), block + padding, call.sz)
  BY <1>1, UndefinedInv DEF Take
<1>2. CASE SplitDefined(mem, block, PrevOf(block), block + padding, call.sz)
  <2>1. /\ TakeBlock(mem, m_llStart, m_llEnd, block, PrevOf(block), padding, call.sz, call.al)
        /\ UNCHANGED sizeVars
    BY <1>2 DEF Take
  <2>2. TypeOK /\ Served /\ call.op = "search"
    BY DEF IInv, Searching
  <2>3. /\ call.sz \in Sizes /\ call.al \in Aligns /\ padding \in Nat
        /\ padding >= 2 /\ (block + padding) % call.al = 0
    BY <2>2, PaddingOk
  <2> HIDE DEF padding
  <2>4. /\ mem \in [DOMAIN mem -> Words] /\ DOMAIN mem \subseteq Nat
        /\ m_llStart \in Nat /\ m_llEnd \in Nat
    BY <2>2 DEF TypeOK
  <2>5. mem[block] \in Nat /\ mem[block + 1] \in Nat /\ mem[block + 2] \in Nat
    BY <1>2, <2>4 DEF SplitDefined, Words
  <2>6. mem[block + 2] - (padding + call.sz) >= 0 /\ PrevOf(block) \in Nat
    BY <2>5 DEF Leftover, SizeOf, PrevOf, padding
  <2>7. /\ mem' \in [DOMAIN mem -> Words]
        /\ m_llStart' \in Nat /\ m_llEnd' \in Nat
        /\ live' \subseteq [ptr : Nat, sz : Sizes, al : Aligns, lo : Nat, hi : Nat]
        /\ call' \in CallTypes /\ call'.op = "idle"
        /\ m_initialized' = m_initialized /\ status' = status
        /\ Served'
    BY <2>1, <2>2, <2>3, <2>4, <2>5, <2>6, TakeBlockOk
  <2>8. TypeOK'
    BY <2>1, <2>2, <2>4, <2>7 DEF TypeOK, sizeVars
  <2> QED BY <2>1, <2>7, <2>8 DEF IInv, SearchOK, SameArena
<1> QED BY <1>1, <1>2

\* The call of Alloc.
LEMMA AllocInv ==
  ASSUME IInv, NEW sz \in Sizes, NEW al \in Aligns, Alloc(sz, al)
  PROVE  IInv' /\ SameArena
<1>1. call' \in CallTypes /\ call'.best = NULL
  BY SeqAssumption DEF IInv, TypeOK, Alloc, CallTypes
<1>2. TypeOK'
  BY <1>1 DEF IInv, TypeOK, Alloc, OnlyCallChanges, sizeVars
<1>3. SearchOK' /\ Served'
  BY <1>1 DEF IInv, SearchOK, Served, Alloc, OnlyCallChanges
<1> QED BY <1>2, <1>3 DEF IInv, SameArena, Alloc, OnlyCallChanges

\* Moving both ends of the search on.
LEMMA WalkInv ==
  ASSUME IInv, Searching, OnlyCallChanges, Known(call.S), Known(call.E + 1),
         NEW c, Walk(c),
         c \in [op : {"search"}, sz : Sizes, al : Aligns,
                S : Nat, E : Nat, best : Nat, min : Nat],
         c.sz = call.sz, c.al = call.al,
         c.best # NULL => Known(c.best + 2) /\ Leftover(c.best) >= 0
  PROVE  IInv' /\ SameArena
<1>1. NextOf(call.S) \in Nat /\ PrevOf(call.E) \in Nat
  BY DEF IInv, TypeOK, Known, Mapped, NextOf, PrevOf, Words
<1>2. /\ call' \in [op : {"search"}, sz : Sizes, al : Aligns,
                     S : Nat, E : Nat, best : Nat, min : Nat]
      /\ call'.best = c.best /\ call'.sz = call.sz /\ call'.al = call.al
  BY <1>1 DEF Walk
<1>3. TypeOK'
  BY <1>2 DEF IInv, TypeOK, OnlyCallChanges, sizeVars, CallTypes
<1>4. SearchOK'
  BY <1>2 DEF SearchOK, OnlyCallChanges, Known, Mapped, Leftover, PaddingIn, SizeOf
<1>5. Served'
  BY DEF IInv, Served, OnlyCallChanges
<1> QED BY <1>3, <1>4, <1>5 DEF IInv, SameArena, OnlyCallChanges

\* The search through the free list, first fit or best fit, to its end.
LEMMA SearchInv ==
  ASSUME IInv,
         \/ FirstFitTakes \/ FirstFitWalks \/ BestFitWalks \/ BestFitTakes
         \/ SearchUndefined \/ SearchFails
  PROVE  IInv' /\ SameArena
<1>1. /\ status = "ok"
      /\ call \in [op : {"search"}, sz : Sizes, al : Aligns,
                   S : Nat, E : Nat, best : Nat, min : Nat]
  BY CallFields DEF IInv, TypeOK, Searching, FirstFitTakes, FirstFitWalks, BestFitWalks,
     BestFitTakes, SearchUndefined, SearchFails
<1>2. CASE FirstFitTakes
  <2>1. FirstFitHit \in Nat /\ Leftover(FirstFitHit) >= 0
    BY <1>1, <1>2 DEF FirstFitTakes, FirstFitHit
  <2> QED BY <1>2, <2>1, TakeInv DEF FirstFitTakes
<1>3. CASE FirstFitWalks
  <2>1. call.best # NULL => Known(call.best + 2) /\ Leftover(call.best) >= 0
    BY <1>1 DEF IInv, SearchOK
  <2> QED BY <1>1, <1>3, <2>1, WalkInv DEF FirstFitWalks
<1>4. CASE BestFitWalks
  <2> DEFINE c1 == Tighter(call, call.S)
             c2 == Tighter(c1, call.E)
             Shape == [op : {"search"}, sz : Sizes, al : Aligns,
                       S : Nat, E : Nat, best : Nat, min : Nat]
             Fits(c) == /\ c \in Shape /\ c.sz = call.sz /\ c.al = call.al
                        /\ c.best # NULL => Known(c.best + 2) /\ Leftover(c.best) >= 0
  <2>1. ASSUME NEW c, Fits(c), NEW block \in Nat, Known(block + 2)
        PROVE  Fits(Tighter(c, block))
    <3>1. CASE ~(Leftover(block) >= 0 /\ Leftover(block) < c.min)
      BY <2>1, <3>1 DEF Tighter
    <3>2. CASE Leftover(block) >= 0 /\ Leftover(block) < c.min
      <4>1. Leftover(block) \in Nat
        <5>1. SizeOf(block) \in Nat
          BY <2>1 DEF IInv, TypeOK, Known, Mapped, SizeOf, Words
        <5>2. PaddingIn(block) \in Nat /\ call.sz \in Nat
          BY <1>1, <2>1, PaddingOk DEF IInv
        <5> QED BY <3>2, <5>1, <5>2 DEF Leftover
      <4>2. Tighter(c, block) = [c EXCEPT !.best = block, !.min = Leftover(block)]
        BY <3>2 DEF Tighter
      <4> QED BY <2>1, <3>2, <4>1, <4>2
    <3> QED BY <3>1, <3>2
  <2>2. Fits(call)
    BY <1>1 DEF IInv, SearchOK
  <2>3. Known(call.S + 2) /\ Known(call.E + 2)
    BY <1>4 DEF BestFitWalks, BestFitDecides
  <2> HIDE DEF Fits
  <2>4. Fits(c1)
    BY <1>1, <2>1, <2>2, <2>3
  <2>5. Fits(c2)
    <3> HIDE DEF c1
    <3> QED BY <1>1, <2>1, <2>3, <2>4
  <2>6. Walk(c2) /\ OnlyCallChanges /\ Searching /\ Known(call.S) /\ Known(call.E + 1)
    BY <1>4 DEF BestFitWalks, BestFitDecides
  <2> HIDE DEF c2
  <2> QED BY <2>5, <2>6, WalkInv DEF Fits
<1>5. CASE BestFitTakes
  <2>1. call.best \in Nat /\ Leftover(call.best) >= 0
    BY <1>1, <1>5 DEF IInv, SearchOK, BestFitTakes
  <2> QED BY <1>5, <2>1, TakeInv DEF BestFitTakes
<1>6. CASE SearchUndefined
  BY <1>6, UndefinedInv DEF SearchUndefined
<1>7. CASE SearchFails
  <2>1. call' \in CallTypes /\ call'.op # "search"
    BY <1>1, <1>7 DEF SearchFails, Returned, CallTypes
  <2> QED BY <1>7, <2>1, CallOnlyInv DEF SearchFails
<1> QED BY <1>2, <1>3, <1>4, <1>5, <1>6, <1>7

\* The pages asked for cover the request behind the block it is carved from.
LEMMA ExpandPagesEnough ==
  ASSUME TypeOK, call.op = "expand", ExpandDefined
  PROVE  /\ ExpandBlock \in Nat /\ ExpandPadding \in Nat
         /\ m_end - ExpandBlock \in Nat
         /\ ExpandPages \in Nat
         /\ ExpandPages * PageSize \in Nat
         /\ ExpandPages * PageSize >= ExpandNeeds
         /\ m_end - ExpandBlock + ExpandPages * PageSize - (ExpandPadding + call.sz) >= 0
<1>1. m_end \in Nat /\ m_llEnd \in Nat
  BY DEF TypeOK
<1>2. ExpandBlock \in Nat /\ m_end - ExpandBlock \in Nat
  <2>1. CASE LastIsFree
    <3>1. SizeOf(m_llEnd) \in Nat
      BY <2>1 DEF TypeOK, ExpandDefined, LastIsFree, Known, Mapped, SizeOf, Words
    <3> QED BY <1>1, <2>1, <3>1 DEF ExpandBlock, LastIsFree
  <2>2. CASE ~LastIsFree
    BY <1>1, <2>2 DEF ExpandBlock
  <2> QED BY <2>1, <2>2
<1>3. ExpandPadding \in Nat /\ call.al \in Nat \ {0} /\ call.sz \in Nat
  BY <1>2, PaddingOk DEF ExpandPadding
<1> DEFINE up == AlignUp(ExpandBlock, call.al)
<1>4. up \in Nat /\ up >= ExpandBlock
  BY <1>2, <1>3, AlignUpLeast
<1>5. /\ ExpandNeeds \in Nat
      /\ m_end - ExpandBlock + ExpandNeeds - (ExpandPadding + call.sz) >= 0
  <2>1. CASE LastIsFree
    <3>1. ExpandNeeds = up + ExpandPadding + call.sz - m_end /\ ExpandNeeds >= 0
      BY <2>1 DEF ExpandNeeds, ExpandDefined
    <3> HIDE DEF up
    <3> QED BY <1>1, <1>2, <1>3, <1>4, <3>1
  <2>2. CASE ~LastIsFree
    BY <1>1, <1>2, <1>3, <2>2 DEF ExpandNeeds
  <2> QED BY <2>1, <2>2
<1>6. ExpandPages \in Nat /\ ExpandPages * PageSize >= ExpandNeeds
  BY <1>5, CeilDivOk, SeqAssumption DEF ExpandPages
<1>7. ExpandPages * PageSize \in Nat
  BY <1>6, SeqAssumption
<1> QED BY <1>1, <1>2, <1>3, <1>5, <1>6, <1>7

\* The arena grown by n pages, its last free block covering them, has the
\* memory's type.
LEMMA ExpandedOk ==
  ASSUME TypeOK, ExpandDefined, NEW n \in Nat, n * PageSize \in Nat,
         ExpandBlock \in Nat, m_end - ExpandBlock \in Nat,
         NEW D, D = DOMAIN mem \cup Vm!VmPages(n)
  PROVE  /\ Expanded(n) \in [D -> Words]
         /\ D \subseteq Nat
         /\ ExpandPrev \in Nat
<1> DEFINE linked == IF LastIsFree \/ m_llEnd = NULL THEN mem
                     ELSE [mem EXCEPT ![m_llEnd] = m_end]
           wider  == [a \in DOMAIN mem \cup Vm!VmPages(n) |->
                        IF Mapped(a) THEN linked[a] ELSE Blank]
<1>1. linked \in [DOMAIN mem -> Words]
  BY DEF TypeOK, Words
<1>2. Blank \in Words
  BY DEF Blank, Words
<1>3. wider \in [D -> Words]
  <2> HIDE DEF linked
  <2> QED BY <1>1, <1>2 DEF Mapped
<1>4. D \subseteq Nat
  <2>1. m_reserved \in Nat /\ DOMAIN mem \subseteq Nat
    BY DEF TypeOK
  <2>2. Vm!CommitSize(n) \in Nat
    BY SeqAssumption, DivisionFacts DEF Vm!CommitSize
  <2> QED BY <2>1, <2>2 DEF Vm!VmPages
<1>5. ExpandPrev \in Nat
  BY DEF TypeOK, ExpandDefined, ExpandPrev, Known, Mapped, PrevOf, Words
<1>6. Expanded(n) = WriteHeader(wider, ExpandBlock, NULL, ExpandPrev,
                                m_end - ExpandBlock + n * PageSize)
  BY DEF Expanded
<1>7. NULL \in Words /\ ExpandPrev \in Words /\ m_end - ExpandBlock + n * PageSize \in Words
  BY <1>5 DEF Words
<1> HIDE DEF wider
<1> QED BY <1>3, <1>4, <1>5, <1>6, <1>7, WriteHeaderType

\* Growing the arena by VMEXPAND and taking the block from what was added.
LEMMA ExpandInv ==
  ASSUME IInv, Expand \/ ExpandUndefined \/ ExpandAborts
  PROVE  IInv'
<1>1. CASE Expand
  <2> DEFINE n   == ExpandPages
             m   == Expanded(n)
             D   == DOMAIN mem \cup Vm!VmPages(n)
             at == ExpandBlock + ExpandPadding
             first == IF m_llStart = NULL \/ m_llEnd = NULL THEN ExpandBlock ELSE m_llStart
             last  == IF m_llStart = NULL \/ m_llEnd = NULL THEN ExpandBlock ELSE m_llEnd
  <2>1. /\ TypeOK /\ Served /\ call.op = "expand" /\ ExpandDefined
    BY <1>1 DEF Expand, Expanding, IInv
  <2>2. CASE ~SplitDefined(m, ExpandBlock, ExpandPrev, at, call.sz)
    BY <1>1, <2>2, UndefinedInv DEF Expand
  <2>3. CASE SplitDefined(m, ExpandBlock, ExpandPrev, at, call.sz)
    <3>1. /\ TakeBlock(m, first, last, ExpandBlock, ExpandPrev, ExpandPadding,
                       call.sz, call.al)
          /\ Vm!VmCommits(n)
          /\ m_nVMPages' = m_nVMPages + n
          /\ m_end' = m_end + n * PageSize
          /\ m_size' = m_size + n * PageSize
      BY <1>1, <2>3 DEF Expand
    <3>2. /\ ExpandBlock \in Nat /\ ExpandPadding \in Nat
          /\ m_end - ExpandBlock \in Nat
          /\ n \in Nat /\ n * PageSize \in Nat
          /\ m_end - ExpandBlock + n * PageSize - (ExpandPadding + call.sz) >= 0
      BY <2>1, ExpandPagesEnough
    <3>3. /\ call.sz \in Sizes /\ call.al \in Aligns
          /\ ExpandPadding >= 2 /\ at % call.al = 0
      BY <2>1, <3>2, PaddingOk DEF ExpandPadding
    <3> HIDE DEF n
    <3>4. m \in [D -> Words] /\ D \subseteq Nat /\ ExpandPrev \in Nat
      BY <2>1, <3>2, ExpandedOk
    <3>5. /\ ExpandBlock \in D /\ ExpandBlock + 1 \in D /\ ExpandBlock + 2 \in D
          /\ m[ExpandBlock] \in Nat /\ m[ExpandBlock + 1] \in Nat
          /\ m[ExpandBlock + 2] \in Nat
      <4> HIDE DEF m, D
      <4> QED BY <2>3, <3>4 DEF SplitDefined, Words
    <3>6. m[ExpandBlock + 2] = m_end - ExpandBlock + n * PageSize
      BY <3>2, <3>5 DEF Expanded, WriteHeader
    <3>7. first \in Nat /\ last \in Nat
      BY <2>1, <3>2 DEF TypeOK
    <3>8. m[ExpandBlock + 2] - (ExpandPadding + call.sz) >= 0
      <4>1. call.sz \in Nat /\ m_end \in Nat /\ PageSize \in Nat
        BY <2>1, <3>3, SeqAssumption DEF TypeOK
      <4> HIDE DEF m
      <4> QED BY <3>2, <3>6, <4>1
    <3> HIDE DEF m, D, first, last
    <3>9. /\ mem' \in [D -> Words]
          /\ m_llStart' \in Nat /\ m_llEnd' \in Nat
          /\ live' \subseteq [ptr : Nat, sz : Sizes, al : Aligns, lo : Nat, hi : Nat]
          /\ call' \in CallTypes /\ call'.op = "idle"
          /\ m_initialized' = m_initialized /\ status' = status
          /\ Served'
      BY <2>1, <3>1, <3>2, <3>3, <3>4, <3>5, <3>7, <3>8, TakeBlockOk
    <3>10. m_reserved' \in Nat
      <4>1. Vm!CommitSize(n) \in Nat
        BY <3>2, SeqAssumption, DivisionFacts DEF Vm!CommitSize
      <4>2. m_reserved' = m_reserved + Vm!CommitSize(n)
        BY <3>1 DEF Vm!VmCommits
      <4> QED BY <2>1, <4>1, <4>2 DEF TypeOK
    <3>11. m_nVMPages' \in Nat /\ m_end' \in Nat /\ m_size' \in Nat
      BY <2>1, <3>1, <3>2 DEF TypeOK
    <3>12. TypeOK'
      BY <2>1, <3>4, <3>9, <3>10, <3>11 DEF TypeOK
    <3> QED BY <3>9, <3>12 DEF IInv, SearchOK
  <2> QED BY <2>2, <2>3
<1>2. CASE ExpandUndefined
  BY <1>2, UndefinedInv DEF ExpandUndefined
<1>3. CASE ExpandAborts
  <2>1. TypeOK'
    BY <1>3 DEF IInv, TypeOK, ExpandAborts, sizeVars
  <2>2. SearchOK' /\ Served'
    BY <1>3 DEF IInv, SearchOK, Served, ExpandAborts
  <2> QED BY <2>1, <2>2 DEF IInv
<1> QED BY <1>1, <1>2, <1>3

\* A step after which no call is in progress and no block has been added keeps
\* the invariant if it keeps the memory's type.
LEMMA ReturnInv ==
  ASSUME IInv,
         mem' \in [DOMAIN mem -> Words], m_llStart' \in Nat, m_llEnd' \in Nat,
         live' \subseteq live, Returns
  PROVE  IInv' /\ SameArena
<1>1. call' = [op |-> "idle", result |-> NULL]
  BY DEF Returns, Returned
<1>2. call' \in CallTypes /\ call'.op = "idle"
  BY <1>1 DEF CallTypes
<1>3. TypeOK'
  BY <1>2 DEF IInv, TypeOK, Returns, sizeVars
<1>4. SearchOK' /\ Served'
  BY <1>2 DEF IInv, SearchOK, Served
<1> QED BY <1>3, <1>4 DEF IInv, SameArena, Returns

\* Where a block being freed lies is read from its header: numbers, when known.
LEMMA FreeingTypes ==
  ASSUME TypeOK, NEW p \in Nat, Freeing(p)
  PROVE  /\ mem[p - 1] \in Nat /\ mem[p - 2] \in Nat
         /\ LenOf(p) \in Nat /\ BlockOf(p) \in Int
         /\ HeaderFits(BlockOf(p)) => BlockOf(p) \in Nat
<1>1. mem[p - 1] \in Nat /\ mem[p - 2] \in Nat
  BY DEF TypeOK, Freeing, Known, Mapped, Words
<1> QED BY <1>1 DEF LenOf, BlockOf, HeaderFits, TypeOK

\* Freeing a block, in each of the places the list is changed at.
LEMMA FreeInv ==
  ASSUME IInv, NEW p \in Nat, Free(p)
  PROVE  IInv' /\ SameArena
<1> DEFINE h   == BlockOf(p)
           len == LenOf(p)
<1>1. /\ TypeOK /\ m_llStart \in Nat /\ m_llEnd \in Nat
      /\ mem \in [DOMAIN mem -> Words] /\ DOMAIN mem \subseteq Nat
  BY DEF IInv, TypeOK
<1>2. Freeing(p) => /\ len \in Nat /\ h \in Int
                    /\ HeaderFits(h) => h \in Nat
  BY <1>1, FreeingTypes
<1>3. Forget(p) => live' \subseteq live
  BY DEF Forget
<1>4. 0 \in Words /\ Nat \subseteq Words
  BY DEF Words
<1> HIDE DEF h, len
<1>5. CASE FreeIntoEmpty(p)
  <2>1. /\ h \in Nat /\ len \in Nat
        /\ mem' = WriteHeader(mem, h, 0, 0, len)
        /\ m_llStart' = h /\ m_llEnd' = h /\ live' \subseteq live /\ Returns
    BY <1>2, <1>3, <1>5 DEF FreeIntoEmpty, h, len
  <2>2. mem' \in [DOMAIN mem -> Words]
    BY <1>1, <1>4, <2>1, WriteHeaderType
  <2> QED BY <2>1, <2>2, ReturnInv
<1>6. CASE FreeFront(p)
  <2>1. /\ h \in Nat /\ len \in Nat
        /\ m_llStart' = h /\ m_llEnd' = m_llEnd /\ live' \subseteq live /\ Returns
    BY <1>2, <1>3, <1>6 DEF FreeFront, FrontDefined, h
  <2>2. mem' \in [DOMAIN mem -> Words]
    <3>1. CASE MeetsFirst(p)
      <4>1. mem' = WriteHeader(mem, h, NextOf(m_llStart), 0, len + SizeOf(m_llStart))
        BY <1>6, <3>1 DEF FreeFront, h, len
      <4>2. NextOf(m_llStart) \in Nat /\ SizeOf(m_llStart) \in Nat
        BY <1>1, <1>6, <3>1 DEF FreeFront, FrontDefined, Known, Mapped, NextOf, SizeOf, Words
      <4>3. len + SizeOf(m_llStart) \in Nat
        BY <2>1, <4>2
      <4> QED BY <1>1, <1>4, <4>1, <4>2, <4>3, WriteHeaderType
    <3>2. CASE ~MeetsFirst(p)
      <4>1. mem' = WriteHeader([mem EXCEPT ![m_llStart + 1] = h], h, m_llStart, 0, len)
        BY <1>6, <3>2 DEF FreeFront, h, len
      <4>2. [mem EXCEPT ![m_llStart + 1] = h] \in [DOMAIN mem -> Words]
        BY <1>1, <1>4, <2>1
      <4> QED BY <1>1, <1>4, <2>1, <4>1, <4>2, WriteHeaderType
    <3> QED BY <3>1, <3>2
  <2> QED BY <1>1, <2>1, <2>2, ReturnInv
<1>7. CASE FreeBack(p)
  <2>1. /\ len \in Nat /\ live' \subseteq live /\ Returns /\ m_llStart' = m_llStart
    BY <1>2, <1>3, <1>7 DEF FreeBack
  <2>2. CASE MeetsLast(p)
    <3>1. mem' = [mem EXCEPT ![m_llEnd] = 0, ![m_llEnd + 2] = @ + len] /\ m_llEnd' = m_llEnd
      BY <1>7, <2>2 DEF FreeBack, len
    <3>2. /\ m_llEnd + 2 \in DOMAIN mem /\ mem[m_llEnd + 2] \in Nat
      BY <1>1, <1>7 DEF FreeBack, BackDefined, Known, Mapped, Words
    <3>3. mem' \in [DOMAIN mem -> Words]
      BY <1>1, <1>4, <2>1, <3>1, <3>2
    <3> QED BY <1>1, <2>1, <3>1, <3>3, ReturnInv
  <2>3. CASE ~MeetsLast(p)
    <3>1. /\ mem' = WriteHeader([mem EXCEPT ![m_llEnd] = p], h, 0, m_llEnd, len)
          /\ m_llEnd' = h /\ h \in Nat
      BY <1>2, <1>7, <2>3 DEF FreeBack, BackDefined, h, len
    <3>2. [mem EXCEPT ![m_llEnd] = p] \in [DOMAIN mem -> Words]
      BY <1>1, <1>4
    <3>3. mem' \in [DOMAIN mem -> Words]
      BY <1>1, <1>4, <2>1, <3>1, <3>2, WriteHeaderType
    <3> QED BY <1>1, <2>1, <3>1, <3>3, ReturnInv
  <2> QED BY <2>2, <2>3
<1>8. CASE FreeMiddle(p)
  <2>1. /\ len \in Nat /\ h \in Int /\ m_llStart < h
        /\ NextOf(m_llStart) \in Nat /\ PrevOf(m_llEnd) \in Nat
    BY <1>1, <1>2, <1>8 DEF FreeMiddle, Between, Known, Mapped, NextOf, PrevOf, Words, h
  <2>2. h \in Nat
    BY <1>1, <2>1
  <2>3. call' = [op |-> "scan", h |-> h, len |-> len,
                 S |-> NextOf(m_llStart), Sp |-> m_llStart,
                 E |-> PrevOf(m_llEnd), Ep |-> m_llEnd]
    BY <1>8 DEF FreeMiddle, h, len
  <2>4. call' \in CallTypes /\ call'.op = "scan"
    BY <1>1, <2>1, <2>2, <2>3 DEF CallTypes
  <2>5. TypeOK'
    BY <1>1, <1>3, <1>8, <2>4 DEF TypeOK, FreeMiddle, sizeVars
  <2>6. SearchOK' /\ Served'
    BY <1>3, <1>8, <2>4 DEF IInv, SearchOK, Served, FreeMiddle
  <2> QED BY <1>8, <2>5, <2>6 DEF IInv, SameArena, FreeMiddle
<1>9. CASE FreeIgnored(p)
  BY <1>1, <1>3, <1>9, ReturnInv DEF FreeIgnored
<1>10. CASE FreeUndefined(p)
  BY <1>10, UndefinedInv DEF FreeUndefined
<1> QED BY <1>5, <1>6, <1>7, <1>8, <1>9, <1>10 DEF Free

\* The scan for the neighbours of a freed block, and its insertion.
LEMMA ScanInv ==
  ASSUME IInv, ScanWalks \/ ScanReturns \/ Insert \/ ScanUndefined
  PROVE  IInv' /\ SameArena
<1>1. /\ TypeOK /\ m_llStart \in Nat /\ m_llEnd \in Nat
      /\ mem \in [DOMAIN mem -> Words] /\ DOMAIN mem \subseteq Nat
  BY DEF IInv, TypeOK
<1>2. call \in [op : {"scan"}, h : Nat, len : Nat, S : Nat, Sp : Nat, E : Nat, Ep : Nat]
  BY <1>1, CallFields DEF TypeOK, Scanning, ScanWalks, ScanReturns, Insert, ScanUndefined
<1>3. 0 \in Words /\ Nat \subseteq Words
  BY DEF Words
<1>4. CASE ScanWalks
  <2>1. NextOf(call.S) \in Nat /\ PrevOf(call.E) \in Nat
    BY <1>1, <1>4 DEF ScanWalks, Known, Mapped, NextOf, PrevOf, Words
  <2>2. call' \in CallTypes /\ call'.op = "scan"
    BY <1>2, <1>4, <2>1 DEF ScanWalks, CallTypes
  <2> QED BY <1>4, <2>2, CallOnlyInv DEF ScanWalks
<1>5. CASE ScanReturns
  BY <1>1, <1>5, ReturnInv DEF ScanReturns
<1>6. CASE Insert
  <2> DEFINE block     == Neighbours[1]
             prevBlock == Neighbours[2]
             left  == AdjacentLeft(prevBlock)
             right == AdjacentRight(block)
             sum   == call.len + SizeOf(block)
             sized == [mem EXCEPT ![call.h + 2] = sum]
             total == mem[prevBlock + 2] + call.len + SizeOf(block)
             longer == [mem EXCEPT ![prevBlock + 2] = total]
             both  == [longer EXCEPT ![prevBlock] = longer[block]]
             onlyLeft == [mem EXCEPT ![prevBlock + 2] = @ + call.len]
             onlyRight == [sized EXCEPT ![call.h] = sized[block],
                                        ![call.h + 1] = sized[block + 1],
                                        ![prevBlock] = call.h]
             neither == [WriteHeader(mem, call.h, block, prevBlock, call.len)
                           EXCEPT ![prevBlock] = call.h, ![block + 1] = call.h]
  <2>1. block \in Nat /\ prevBlock \in Nat
    BY <1>2 DEF Neighbours
  <2>2. /\ left /\ right => mem' = Relink(both, both[block], prevBlock)
        /\ left /\ ~right => mem' = onlyLeft
        /\ ~left /\ right => mem' = Relink(onlyRight, onlyRight[block], call.h)
        /\ ~left /\ ~right => mem' = neither
        /\ m_llEnd' = IF right /\ block = m_llEnd
                      THEN IF left THEN prevBlock ELSE call.h ELSE m_llEnd
        /\ Returns /\ m_llStart' = m_llStart /\ live' = live
        /\ InsertDefined
    BY <1>6 DEF Insert, Merged, MergedBoth, MergedRight
  <2>3. prevBlock + 2 \in DOMAIN mem /\ mem[prevBlock + 2] \in Nat
    BY <1>1, <2>2 DEF InsertDefined, Known, Mapped, Words
  <2>4. right => /\ block \in DOMAIN mem /\ block + 1 \in DOMAIN mem
                 /\ SizeOf(block) \in Nat
    BY <1>1, <2>2 DEF InsertDefined, KnownHeader, Known, Mapped, Words, SizeOf
  <2>5. ASSUME NEW m \in [DOMAIN mem -> Words], NEW x, NEW to \in Nat
        PROVE  Relink(m, x, to) \in [DOMAIN mem -> Words]
    BY <1>3, <2>5 DEF Relink
  <2>6. m_llEnd' \in Nat
    BY <1>1, <1>2, <2>1, <2>2
  <2> HIDE DEF block, prevBlock, left, right
  <2>7. CASE left /\ right
    <3>1. both \in [DOMAIN mem -> Words]
      <4>1. total \in Words
        BY <1>2, <1>3, <2>3, <2>4, <2>7
      <4> HIDE DEF total
      <4>2. longer \in [DOMAIN mem -> Words]
        BY <1>1, <4>1, WriteType
      <4> HIDE DEF longer
      <4>3. longer[block] \in Words
        BY <2>4, <2>7, <4>2
      <4> QED BY <4>2, <4>3, WriteType
    <3>2. mem' = Relink(both, both[block], prevBlock)
      BY <2>2, <2>7
    <3> HIDE DEF both
    <3>3. mem' \in [DOMAIN mem -> Words]
      BY <2>1, <2>5, <3>1, <3>2
    <3> QED BY <1>1, <2>2, <2>6, <3>3, ReturnInv
  <2>8. CASE left /\ ~right
    <3>1. onlyLeft \in [DOMAIN mem -> Words]
      BY <1>1, <1>2, <1>3, <2>3
    <3>2. mem' = onlyLeft
      BY <2>2, <2>8
    <3> HIDE DEF onlyLeft
    <3> QED BY <1>1, <2>2, <2>6, <3>1, <3>2, ReturnInv
  <2>9. CASE ~left /\ right
    <3>1. sized \in [DOMAIN mem -> Words]
      <4>1. sum \in Words
        BY <1>2, <1>3, <2>4, <2>9
      <4> HIDE DEF sum
      <4> QED BY <1>1, <4>1, WriteType
    <3>2. sized[block] \in Words /\ sized[block + 1] \in Words
      <4> HIDE DEF sized
      <4> QED BY <2>4, <2>9, <3>1
    <3>3. onlyRight \in [DOMAIN mem -> Words]
      <4> HIDE DEF sized
      <4> QED BY <1>2, <1>3, <3>1, <3>2
    <3>4. mem' = Relink(onlyRight, onlyRight[block], call.h)
      BY <2>2, <2>9
    <3> HIDE DEF onlyRight
    <3>5. mem' \in [DOMAIN mem -> Words]
      BY <1>2, <2>5, <3>3, <3>4
    <3> QED BY <1>1, <2>2, <2>6, <3>5, ReturnInv
  <2>10. CASE ~left /\ ~right
    <3>1. WriteHeader(mem, call.h, block, prevBlock, call.len) \in [DOMAIN mem -> Words]
      BY <1>1, <1>2, <1>3, <2>1, WriteHeaderType
    <3>2. neither \in [DOMAIN mem -> Words]
      BY <1>2, <1>3, <3>1
    <3>3. mem' = neither
      BY <2>2, <2>10
    <3> HIDE DEF neither
    <3> QED BY <1>1, <2>2, <2>6, <3>2, <3>3, ReturnInv
  <2> QED BY <2>7, <2>8, <2>9, <2>10
<1>7. CASE ScanUndefined
  BY <1>7, UndefinedInv DEF ScanUndefined
<1> QED BY <1>4, <1>5, <1>6, <1>7

\* Layout.
LEMMA LayoutInv ==
  ASSUME IInv, Layout \/ LayoutWalks \/ LayoutReturns \/ LayoutUndefined
  PROVE  IInv' /\ SameArena
<1>1. TypeOK
  BY DEF IInv
<1>2. CASE Layout
  <2>1. call' \in CallTypes /\ call'.op # "search"
    BY <1>1, <1>2 DEF TypeOK, Layout, CallTypes
  <2> QED BY <1>2, <2>1, CallOnlyInv DEF Layout
<1>3. CASE LayoutWalks
  <2>1. call \in [op : {"layout"}, block : Nat] /\ NextOf(call.block) \in Nat
    BY <1>1, <1>3, CallFields DEF LayoutWalks, Printing, TypeOK, Known, Mapped, NextOf, Words
  <2>2. call' \in CallTypes /\ call'.op # "search"
    BY <1>3, <2>1 DEF LayoutWalks, CallTypes
  <2> QED BY <1>3, <2>2, CallOnlyInv DEF LayoutWalks
<1>4. CASE LayoutReturns
  BY <1>1, <1>4, ReturnInv DEF LayoutReturns, TypeOK
<1>5. CASE LayoutUndefined
  BY <1>5, UndefinedInv DEF LayoutUndefined
<1> QED BY <1>2, <1>3, <1>4, <1>5

\* ZeroMem and Reset rewrite the arena.
LEMMA WholeArenaInv ==
  ASSUME IInv, ZeroMem \/ Reset
  PROVE  IInv' /\ SameArena
<1>1. Zeroed \in [DOMAIN mem -> Words]
  BY DEF Zeroed, Words
<1>2. CASE ZeroMem
  BY <1>1, <1>2, ReturnInv DEF ZeroMem, IInv, TypeOK
<1>3. CASE Reset
  <2>1. 0 \in Words /\ m_size \in Words
    BY DEF IInv, TypeOK, Words
  <2>2. Built(Zeroed, m_size) \in [DOMAIN mem -> Words]
    BY <1>1, <2>1, WriteHeaderType DEF Built
  <2> QED BY <1>3, <2>2, SeqAssumption, ReturnInv DEF Reset
<1> QED BY <1>2, <1>3

\* Release and the destructor.
LEMMA EndInv ==
  ASSUME IInv, Release \/ Destroy
  PROVE  IInv'
<1>1. TypeOK /\ Served
  BY DEF IInv
<1>2. CASE Ready /\ GiveBack /\ (status' = status \/ status' = "destroyed")
  <2>1. mem' = mem \/ mem' = <<>>
    BY <1>2, SeqAssumption DEF GiveBack
  <2>2. mem' \in [DOMAIN mem' -> Words] /\ DOMAIN mem' \subseteq Nat
    <3>1. CASE mem' = mem
      BY <1>1, <3>1 DEF TypeOK
    <3>2. CASE mem' = <<>>
      <4>1. <<>> \in [DOMAIN <<>> -> Words] /\ DOMAIN <<>> \subseteq Nat
        OBVIOUS
      <4> QED BY <3>2, <4>1
    <3> QED BY <2>1, <3>1, <3>2
  <2>3. m_reserved' \in Nat
    BY <1>1, <1>2, SeqAssumption DEF GiveBack, TypeOK, Vm!VmRelease
  <2>4. TypeOK'
    BY <1>1, <1>2, <2>2, <2>3 DEF TypeOK, GiveBack
  <2>5. SearchOK' /\ Served'
    BY <1>2 DEF SearchOK, Served, Ready, GiveBack
  <2> QED BY <2>4, <2>5 DEF IInv
<1>3. CASE /\ UNCHANGED <<mem, m_size, m_end, m_llStart, m_llEnd, m_nVMPages,
                          m_initialized, m_reserved, call, live>>
           /\ status' = "destroyed"
  <2>1. TypeOK'
    BY <1>1, <1>3 DEF TypeOK
  <2>2. SearchOK' /\ Served'
    BY <1>1, <1>3 DEF SearchOK, Served
  <2> QED BY <2>1, <2>2 DEF IInv
<1> QED BY <1>2, <1>3 DEF Release, Destroy

-----------------------------------------------------------------------------
\* Every step of the allocator and of any client keeps the invariant.
LEMMA NextInv == IInv /\ [Next]_vars => IInv'
<1> SUFFICES ASSUME IInv, [Next]_vars PROVE IInv'
  OBVIOUS
<1>1. CASE Step
  BY <1>1, SearchInv, ExpandInv, ScanInv, LayoutInv DEF Step
<1>2. CASE AllocOrFree
  <2>1. ASSUME NEW sz \in Sizes, NEW al \in Aligns, Alloc(sz, al) PROVE IInv'
    BY <2>1, AllocInv
  <2>2. ASSUME NEW b \in live, Free(b.ptr) PROVE IInv'
    <3>1. b.ptr \in Nat
      BY DEF IInv, TypeOK
    <3> QED BY <2>2, <3>1, FreeInv
  <2> QED BY <1>2, <2>1, <2>2 DEF AllocOrFree
<1>3. CASE Layout
  BY <1>3, LayoutInv
<1>4. CASE ZeroMem \/ Reset
  BY <1>4, WholeArenaInv
<1>5. CASE Release \/ Destroy
  BY <1>5, EndInv
<1>6. CASE WriteAfterRelease
  BY <1>6, UndefinedInv DEF WriteAfterRelease
<1>7. CASE UNCHANGED vars
  <2>1. TypeOK'
    BY <1>7 DEF IInv, TypeOK, vars
  <2>2. SearchOK' /\ Served'
    BY <1>7 DEF IInv, SearchOK, Served, vars, Known, Mapped, Leftover, PaddingIn, SizeOf
  <2> QED BY <2>1, <2>2 DEF IInv
<1> QED BY <1>1, <1>2, <1>3, <1>4, <1>5, <1>6, <1>7 DEF Next

\* The inductive invariant holds of every behaviour.
THEOREM Invariance == Spec => []IInv
BY InitInv, NextInv, PTL DEF Spec

\* Type correctness: no link, size or local variable of a call is ever Junk or
\* negative, whatever a client does.
THEOREM TypeCorrect == Spec => []TypeOK
<1>1. IInv => TypeOK
  BY DEF IInv
<1> QED BY <1>1, Invariance, PTL

\* Whatever the state of the free list, every block handed out is aligned,
\* leaves room for its header and is as long as was asked, by first fit, by
\* best fit and from new pages.
THEOREM AlwaysServed == Spec => []Served
<1>1. IInv => Served
  BY DEF IInv
<1> QED BY <1>1, Invariance, PTL

-----------------------------------------------------------------------------
\* The 32-bit product of the pages asked for is their true size.
LEMMA PagesDoNotWrap ==
  ASSUME RequestsFit, TypeOK, call.op = "expand", ExpandDefined
  PROVE  Vm!CommitSize(ExpandPages) = ExpandPages * PageSize
<1>1. /\ call.sz \in Sizes /\ call.al \in Aligns
      /\ call.sz \in Nat /\ call.al \in Nat \ {0}
  BY ExpandPagesEnough, PaddingOk
<1>2. /\ ExpandBlock \in Nat /\ ExpandPadding \in Nat /\ m_end - ExpandBlock \in Nat
      /\ ExpandPages \in Nat /\ ExpandPages * PageSize \in Nat
  BY ExpandPagesEnough
<1>3. m_end \in Nat
  BY DEF TypeOK
<1>4. ExpandPadding < allocHeaderSize + call.al
  BY <1>1, <1>2, BlockPaddingOk DEF ExpandPadding, PaddingIn
<1>5. ExpandNeeds \in Nat /\ ExpandNeeds < call.sz + 2 * call.al + allocHeaderSize
  <2> DEFINE up == AlignUp(ExpandBlock, call.al)
  <2>1. up \in Nat /\ up < ExpandBlock + call.al
    BY <1>1, <1>2, AlignUpLeast
  <2>2. CASE LastIsFree
    <3>1. ExpandNeeds = up + ExpandPadding + call.sz - m_end /\ ExpandNeeds >= 0
      BY <2>2 DEF ExpandNeeds, ExpandDefined
    <3> HIDE DEF up
    <3> QED BY <1>1, <1>2, <1>3, <1>4, <2>1, <3>1
  <2>3. CASE ~LastIsFree
    BY <1>1, <1>2, <1>4, <2>3 DEF ExpandNeeds
  <2> QED BY <2>2, <2>3
<1>6. ExpandPages * PageSize < ExpandNeeds + PageSize
  BY <1>5, CeilDivOk, SeqAssumption DEF ExpandPages
<1>7. call.sz + 2 * call.al + allocHeaderSize + PageSize <= U32
  BY <1>1, CallFields DEF RequestsFit, TypeOK
<1>8. ExpandPages * PageSize \in 0..(U32 - 1)
  BY <1>1, <1>2, <1>5, <1>6, <1>7, SeqAssumption
<1> DEFINE total == ExpandPages * PageSize
<1>9. total % U32 = total
  <2>1. total \in 0..(U32 - 1)
    BY <1>8
  <2> HIDE DEF total
  <2> QED BY <2>1, SeqAssumption
<1> QED BY <1>9 DEF Vm!CommitSize

\* The arena is built contiguous.
LEMMA InitContiguous == Init => Contiguous
<1> SUFFICES ASSUME Init PROVE Contiguous
  OBVIOUS
<1> DEFINE arena == [a \in Base..(Base + InitialSize - 1) |-> Blank]
<1>1. DOMAIN mem = Base..(m_end - 1) /\ m_end = Base + m_size
  <2>1. mem = Built(arena, InitialSize) /\ m_end = Base + InitialSize /\ m_size = InitialSize
    BY DEF Init
  <2>2. DOMAIN arena = Base..(Base + InitialSize - 1)
    OBVIOUS
  <2> HIDE DEF arena
  <2>3. DOMAIN mem = DOMAIN arena
    BY <2>1 DEF Built, WriteHeader
  <2>4. m_end - 1 = Base + InitialSize - 1
    BY <2>1, InitialSizeType, SeqAssumption
  <2> QED BY <2>1, <2>2, <2>3, <2>4
<1>2. Buffer = "VMDYNAMIC" => m_reserved = m_end /\ m_size = m_nVMPages * PageSize
  BY SeqAssumption DEF Init, InitialSize
<1> QED BY <1>1, <1>2 DEF Contiguous

\* It stays so: only Expand moves its end, by whole pages and by as much as the
\* supplier.
LEMMA NextContiguous ==
  ASSUME RequestsFit, IInv, Contiguous, [Next]_vars
  PROVE  Contiguous'
<1>1. CASE SameArena /\ (status' = "ok" => status = "ok")
  BY <1>1 DEF SameArena, sizeVars, Contiguous
<1>2. CASE status' # "ok" \/ ~m_initialized'
  BY <1>2 DEF Contiguous
<1>3. CASE Expand /\ status' = "ok" /\ m_initialized'
  <2> DEFINE n == ExpandPages
  <2>1. /\ status = "ok" /\ m_initialized
        /\ TypeOK /\ call.op = "expand" /\ ExpandDefined
    BY <1>3 DEF Expand, Expanding, TakeBlock, Undefined, IInv
  <2>2. /\ Vm!VmCommits(n)
        /\ m_nVMPages' = m_nVMPages + n
        /\ m_end' = m_end + n * PageSize
        /\ m_size' = m_size + n * PageSize
    BY <1>3 DEF Expand, Undefined
  <2>3. Vm!CommitSize(n) = n * PageSize
    BY <2>1, PagesDoNotWrap
  <2>4. n \in Nat /\ n * PageSize \in Nat
    BY <2>1, ExpandPagesEnough
  <2>5. Buffer = "VMDYNAMIC"
    BY <2>1, CallFields DEF TypeOK
  <2>6. /\ DOMAIN mem = Base..(m_end - 1) /\ m_end = Base + m_size
        /\ m_reserved = m_end /\ m_size = m_nVMPages * PageSize
    BY <2>1, <2>5 DEF Contiguous
  <2>7. /\ DOMAIN mem' = DOMAIN mem \cup (m_reserved..(m_reserved + n * PageSize - 1))
        /\ m_reserved' = m_reserved + n * PageSize
    BY <2>2, <2>3 DEF Vm!VmCommits, Vm!VmPages
  <2>8. m_end \in Nat /\ m_size \in Nat /\ m_nVMPages \in Nat
    BY <2>1 DEF TypeOK
  <2> DEFINE added == n * PageSize
  <2>9. m_nVMPages' * PageSize = m_nVMPages * PageSize + added
    <3> HIDE DEF n
    <3> QED BY <2>2, <2>4, <2>8, SeqAssumption
  <2>10. added \in Nat
    BY <2>4
  <2>11. DOMAIN mem' = Base..(m_end' - 1)
    <3>1. m_end' = m_end + added /\ m_reserved = m_end
      BY <2>2, <2>6
    <3>2. DOMAIN mem' = (Base..(m_end - 1)) \cup (m_end..(m_end + added - 1))
      BY <2>6, <2>7
    <3>3. Base <= m_end
      BY <2>6, <2>8, SeqAssumption
    <3> HIDE DEF added
    <3> QED BY <2>8, <2>10, <3>1, <3>2, <3>3, SeqAssumption
  <2>12. m_end' = Base + m_size' /\ m_reserved' = m_end' /\ m_size' = m_nVMPages' * PageSize
    <3>1. /\ m_end' = m_end + added /\ m_size' = m_size + added
          /\ m_reserved' = m_reserved + added
      BY <2>2, <2>7
    <3> HIDE DEF added
    <3> QED BY <2>6, <2>8, <2>9, <2>10, <3>1, SeqAssumption
  <2> QED BY <2>11, <2>12 DEF Contiguous
<1>4. CASE Step
  <2>1. CASE Expand
    BY <1>2, <1>3, <2>1
  <2>2. CASE ExpandAborts
    BY <1>2, <2>2 DEF ExpandAborts
  <2>3. CASE ExpandUndefined
    BY <1>2, <2>3 DEF ExpandUndefined, Undefined
  <2>4. CASE \/ FirstFitTakes \/ FirstFitWalks \/ BestFitWalks \/ BestFitTakes
             \/ SearchUndefined \/ SearchFails
    <3>1. SameArena /\ status = "ok"
      BY <2>4, SearchInv DEF Searching, FirstFitTakes, FirstFitWalks, BestFitWalks,
         BestFitTakes, SearchUndefined, SearchFails
    <3> QED BY <1>1, <3>1
  <2>5. CASE ScanWalks \/ ScanReturns \/ Insert \/ ScanUndefined
    <3>1. SameArena /\ status = "ok"
      BY <2>5, ScanInv DEF Scanning, ScanWalks, ScanReturns, Insert, ScanUndefined
    <3> QED BY <1>1, <3>1
  <2>6. CASE LayoutWalks \/ LayoutReturns \/ LayoutUndefined
    <3>1. SameArena /\ status = "ok"
      BY <2>6, LayoutInv DEF Printing, LayoutWalks, LayoutReturns, LayoutUndefined
    <3> QED BY <1>1, <3>1
  <2> QED BY <1>4, <2>1, <2>2, <2>3, <2>4, <2>5, <2>6 DEF Step
<1>5. CASE AllocOrFree
  <2>1. ASSUME NEW sz \in Sizes, NEW al \in Aligns, Alloc(sz, al)
        PROVE  SameArena /\ status = "ok"
    BY <2>1, AllocInv DEF Alloc, Ready
  <2>2. ASSUME NEW b \in live, Free(b.ptr)
        PROVE  SameArena /\ status = "ok"
    <3>1. b.ptr \in Nat
      BY DEF IInv, TypeOK
    <3>2. status = "ok"
      BY <2>2 DEF Free, FreeIntoEmpty, FreeFront, FreeBack, FreeMiddle, FreeIgnored,
         FreeUndefined, Freeing, Ready
    <3> QED BY <2>2, <3>1, <3>2, FreeInv
  <2> QED BY <1>1, <1>5, <2>1, <2>2 DEF AllocOrFree
<1>6. CASE Layout \/ ZeroMem \/ Reset
  BY <1>1, <1>6, LayoutInv, WholeArenaInv DEF Layout, ZeroMem, Reset, Ready
<1>7. CASE Release \/ WriteAfterRelease \/ Destroy
  BY <1>2, <1>7 DEF Release, GiveBack, WriteAfterRelease, Undefined, Destroy
<1>8. CASE UNCHANGED vars
  BY <1>8 DEF Contiguous, vars
<1> QED BY <1>4, <1>5, <1>6, <1>7, <1>8 DEF Next

\* While no request reaches 4 GiB, the arena and the page supplier agree, so the
\* assert that new pages start at m_end can fail only when there are none.
THEOREM ArenaContiguous ==
  ASSUME RequestsFit
  PROVE  Spec => []Contiguous
<1>1. IInv /\ Contiguous /\ [Next]_vars => (IInv /\ Contiguous)'
  BY NextInv, NextContiguous
<1> QED BY InitInv, InitContiguous, <1>1, PTL DEF Spec

-----------------------------------------------------------------------------
(***************************************************************************)
(* The free list of SoundSpec.                                             *)
(*                                                                         *)
(* Which words are free is not read off the list: the free blocks are the  *)
(* gaps the blocks in use leave (FreeBlocks), so that there is nothing to  *)
(* follow and nothing recursive.  Tiles says that these gaps, with the     *)
(* sizes written in them, and the blocks in use cover the arena; Linked    *)
(* that next and prev of each lead to its neighbours in address order.     *)
(***************************************************************************)

Interval(lo, hi) == [lo |-> lo, hi |-> hi]

\* The blocks no free one may touch: those in use, and the one Free has been
\* called for and whose place in the list it still looks for.
Used == live \cup (IF call.op = "scan" THEN {Interval(call.h, call.h + call.len)} ELSE {})

\* The words of the arena.
Arena(end) == Base..(end - 1)

\* u is a block from lo up to hi.
Spans(u, lo, hi) == u.lo = lo /\ u.hi = hi

\* Where the gaps between the blocks U begin.
Starts(U, end) ==
  {a \in Base..(end - 1) : /\ a = Base \/ \E u \in U : u.hi = a
                           /\ \A u \in U : u.hi <= a \/ a < u.lo}

FreeBlocks == Starts(Used, m_end)

\* The free blocks F, each up to e, and the blocks U cover the arena up to end,
\* each word once; no two free blocks touch.
Tiles(F, e, U, end) ==
  /\ \A a \in F : a \in Nat /\ e[a] \in Nat /\ Base <= a /\ a + 3 <= e[a] /\ e[a] <= end
  /\ \A a, b \in F : a < b => e[a] < b
  /\ \A u \in U : u.lo \in Nat /\ u.hi \in Nat /\ Base <= u.lo /\ u.lo + 3 <= u.hi /\ u.hi <= end
  /\ \A u, v \in U : u # v => u.hi <= v.lo \/ v.hi <= u.lo
  /\ \A u \in U, a \in F : u.hi <= a \/ e[a] <= u.lo
  /\ \A x \in Base..(end - 1) : \/ \E a \in F : a <= x /\ x < e[a]
                                \/ \E u \in U : u.lo <= x /\ x < u.hi

\* n is the next of a in F, or NULL when there is none; p is the one before a.
IsNext(F, a, n) ==
  /\ n = 0 => \A b \in F : b <= a
  /\ n # 0 => n \in F /\ a < n /\ \A b \in F : b <= a \/ n <= b
IsPrev(F, a, p) ==
  /\ p = 0 => \A b \in F : a <= b
  /\ p # 0 => p \in F /\ p < a /\ \A b \in F : b <= p \/ a <= b

\* The links nx and pv join F in address order, from first to last.
Linked(F, nx, pv, first, last) ==
  /\ \A a \in F : a \in Nat /\ a # 0
  /\ \A a \in F : IsNext(F, a, nx[a]) /\ IsPrev(F, a, pv[a])
  /\ IF F = {} THEN first = 0 /\ last = 0
     ELSE /\ first \in F /\ \A a \in F : first <= a
          /\ last \in F /\ \A a \in F : a <= last

\* Where the links led to g they now lead to heir, going up, and to back, going
\* down.
Bypassed(F, nx, pv, first, last, g, heir, back, nx1, pv1, first1, last1) ==
  /\ \A a \in F \ {g} : /\ nx1[a] = IF a = pv[g] THEN heir ELSE nx[a]
                       /\ pv1[a] = IF a = nx[g] THEN back ELSE pv[a]
  /\ first1 = IF pv[g] = 0 THEN heir ELSE first
  /\ last1 = IF nx[g] = 0 THEN back ELSE last

\* h is linked in between p and n, either of which may be NULL.
Joined(F, nx, pv, first, last, p, h, n, nx1, pv1, first1, last1) ==
  /\ \A a \in F : /\ nx1[a] = IF a = p THEN h ELSE nx[a]
                 /\ pv1[a] = IF a = n THEN h ELSE pv[a]
  /\ nx1[h] = n /\ pv1[h] = p
  /\ first1 = IF p = 0 THEN h ELSE first
  /\ last1 = IF n = 0 THEN h ELSE last

\* What the headers of the free blocks say.
Ends(F, m) == [a \in F |-> a + m[a + 2]]
Nexts(F, m) == [a \in F |-> m[a]]
Prevs(F, m) == [a \in F |-> m[a + 1]]

WholeList(F, m, U, end, first, last) ==
  /\ Tiles(F, Ends(F, m), U, end)
  /\ Linked(F, Nexts(F, m), Prevs(F, m), first, last)

\* The arena does not start at NULL.
LEMMA BaseType == Base \in Nat /\ Base # 0
BY SeqAssumption

\* The words of the arena, one by one.
LEMMA ArenaWords ==
  ASSUME NEW end \in Nat, NEW x
  PROVE  x \in Arena(end) <=> x \in Nat /\ Base <= x /\ x < end
BY BaseType DEF Arena

\* The free blocks that tile the arena with U start where the gaps of U start.
LEMMA TilesStarts ==
  ASSUME NEW F, NEW e, NEW U, NEW end \in Nat, Tiles(F, e, U, end)
  PROVE  F = Starts(U, end)
<1>1. ASSUME NEW a \in F PROVE a \in Starts(U, end)
  <2>1. a \in Base..(end - 1)
    BY BaseType DEF Tiles
  <2>2. \A u \in U : u.hi <= a \/ a < u.lo
    BY DEF Tiles
  <2>3. ASSUME a # Base PROVE \E u \in U : u.hi = a
    <3>1. a - 1 \in Base..(end - 1)
      BY BaseType, <2>1, <2>3
    <3>2. ~ \E b \in F : b <= a - 1 /\ a - 1 < e[b]
      BY DEF Tiles
    <3>3. PICK u \in U : u.lo <= a - 1 /\ a - 1 < u.hi
      BY <3>1, <3>2 DEF Tiles
    <3>4. u.hi = a
      BY <3>3, <2>2 DEF Tiles
    <3> QED BY <3>4
  <2> QED BY <2>1, <2>2, <2>3 DEF Starts
<1>2. ASSUME NEW a \in Starts(U, end) PROVE a \in F
  <2>1. /\ a \in Base..(end - 1)
        /\ a = Base \/ \E u \in U : u.hi = a
        /\ \A u \in U : u.hi <= a \/ a < u.lo
    BY DEF Starts
  <2>2. ~ \E u \in U : u.lo <= a /\ a < u.hi
    BY <2>1, BaseType DEF Tiles
  <2>3. PICK b \in F : b <= a /\ a < e[b]
    BY <2>1, <2>2 DEF Tiles
  <2>4. b = a
    BY <2>1, <2>3, BaseType DEF Tiles
  <2> QED BY <2>4
<1> QED BY <1>1, <1>2

\* Taking the low end of a free block, or all of it, keeps the tiling.
LEMMA TakeTiles ==
  ASSUME NEW F, NEW e, NEW U, NEW end \in Nat, Tiles(F, e, U, end),
         NEW g \in F, NEW u, NEW mid \in Nat, Spans(u, g, mid), g + 3 <= mid,
         NEW F1, NEW e1,
         \/ mid = e[g] /\ F1 = F \ {g}
         \/ mid + 3 <= e[g] /\ F1 = (F \ {g}) \cup {mid} /\ e1[mid] = e[g],
         \A a \in F \ {g} : e1[a] = e[a]
  PROVE  Tiles(F1, e1, U \cup {u}, end)
<1> DEFINE V == U \cup {u}
<1>9. u.lo = g /\ u.hi = mid
  BY DEF Spans
<1>0. \A a \in F \ {g} : a < mid \/ e[g] < a
  BY DEF Tiles
<1>00. mid \notin F \ {g}
  BY <1>0 DEF Tiles
<1>1. ASSUME NEW a \in F1
      PROVE  a \in Nat /\ e1[a] \in Nat /\ Base <= a /\ a + 3 <= e1[a] /\ e1[a] <= end
  <2>1. CASE a \in F \ {g}
    BY <2>1 DEF Tiles
  <2>2. CASE a \notin F \ {g}
    <3>1. a = mid /\ mid + 3 <= e[g] /\ e1[a] = e[g]
      BY <2>2
    <3>2. g \in Nat /\ e[g] \in Nat /\ Base <= g /\ e[g] <= end
      BY DEF Tiles
    <3> QED BY <3>1, <3>2, BaseType
  <2> QED BY <2>1, <2>2
<1>2. \A a, b \in F1 : a < b => e1[a] < b
  BY DEF Tiles
<1>3. \A v \in V : v.lo \in Nat /\ v.hi \in Nat /\ Base <= v.lo /\ v.lo + 3 <= v.hi /\ v.hi <= end
  BY <1>9 DEF Tiles
<1>4. \A v, w \in V : v # w => v.hi <= w.lo \/ w.hi <= v.lo
  BY <1>9 DEF Tiles
<1>5. \A v \in V, a \in F1 : v.hi <= a \/ e1[a] <= v.lo
  BY <1>9 DEF Tiles
<1>6. ASSUME NEW x \in Base..(end - 1)
      PROVE  \/ \E a \in F1 : a <= x /\ x < e1[a]
             \/ \E v \in V : v.lo <= x /\ x < v.hi
  <2>1. CASE \E v \in U : v.lo <= x /\ x < v.hi
    BY <2>1
  <2>2. CASE \E a \in F : a <= x /\ x < e[a]
    BY <1>9, <2>2, BaseType DEF Tiles
  <2> QED BY <2>1, <2>2 DEF Tiles
<1> HIDE DEF V
<1> QED BY <1>1, <1>2, <1>3, <1>4, <1>5, <1>6 DEF Tiles, V

\* Given back, the block from h up to hi starts a free one at s, reaching to t.
LowEnd(F, e, h, s) ==
  \/ s = h /\ \A a \in F : e[a] # h
  \/ s \in F /\ e[s] = h
HighEnd(F, e, hi, t) ==
  \/ t = hi /\ hi \notin F
  \/ hi \in F /\ t = e[hi]

\* Giving a block back, merged with the free blocks it touches, keeps the tiling.
LEMMA GiveTiles ==
  ASSUME NEW F, NEW e, NEW V, NEW u, u \notin V, NEW end \in Nat, Tiles(F, e, V \cup {u}, end),
         NEW h, NEW hi, Spans(u, h, hi),
         NEW s, LowEnd(F, e, h, s), NEW t, HighEnd(F, e, hi, t),
         NEW e1, e1[s] = t, \A a \in F : a # s /\ a # hi => e1[a] = e[a]
  PROVE  Tiles((F \ {hi}) \cup {s}, e1, V, end)
<1>91. u.lo = h /\ u.hi = hi
  BY DEF Spans
<1>92. \/ s = u.lo /\ \A a \in F : e[a] # u.lo
       \/ s \in F /\ e[s] = u.lo
  BY <1>91 DEF LowEnd
<1>93. \/ t = u.hi /\ u.hi \notin F
       \/ u.hi \in F /\ t = e[u.hi]
  BY <1>91 DEF HighEnd
<1>94. \A a \in F \ {s, u.hi} : e1[a] = e[a]
  BY <1>91
<1> DEFINE F1 == (F \ {u.hi}) \cup {s}
<1>0. /\ u.lo \in Nat /\ u.hi \in Nat /\ Base <= u.lo /\ u.lo + 3 <= u.hi /\ u.hi <= end
  BY DEF Tiles
<1>1. s \in Nat /\ t \in Nat /\ Base <= s /\ s <= u.lo /\ u.hi <= t /\ t <= end
  BY <1>0, <1>92, <1>93, BaseType DEF Tiles
<1>2. \A a \in F \ {s, u.hi} : e[a] < s \/ t < a
  <2> TAKE a \in F \ {s, u.hi}
  <2>1. u.hi <= a \/ e[a] <= u.lo
    BY DEF Tiles
  <2>2. a \in Nat /\ e[a] \in Nat /\ a + 3 <= e[a]
    BY DEF Tiles
  <2>3. CASE u.hi <= a
    <3>1. u.hi < a
      BY <1>0, <2>2, <2>3
    <3>2. u.hi \in F => e[u.hi] < a
      BY <3>1 DEF Tiles
    <3> QED BY <1>93, <3>1, <3>2
  <2>4. CASE e[a] <= u.lo
    <3>1. CASE s = u.lo /\ \A b \in F : e[b] # u.lo
      BY <1>0, <2>2, <2>4, <3>1
    <3>2. CASE s \in F /\ e[s] = u.lo
      <4>1. \/ a < s /\ e[a] < s
            \/ s < a /\ e[s] < a
        BY <1>1, <2>2, <3>2 DEF Tiles
      <4> QED BY <1>0, <2>2, <2>4, <3>2, <4>1
    <3> QED BY <1>92, <3>1, <3>2
  <2> QED BY <2>1, <2>3, <2>4
<1>3. ASSUME NEW a \in F1
      PROVE  a \in Nat /\ e1[a] \in Nat /\ Base <= a /\ a + 3 <= e1[a] /\ e1[a] <= end
  <2>1. CASE a = s
    BY <1>0, <1>92, <1>93, <1>94, <1>1, <2>1, BaseType
  <2>2. CASE a # s
    BY <1>92, <1>93, <1>94, <2>2 DEF Tiles
  <2> QED BY <2>1, <2>2
<1>4. ASSUME NEW a \in F1, NEW b \in F1, a < b PROVE e1[a] < b
  <2>1. CASE a = s
    BY <1>0, <1>92, <1>93, <1>94, <1>1, <1>2, <1>3, <1>4, <2>1 DEF Tiles
  <2>2. CASE b = s
    BY <1>0, <1>92, <1>93, <1>94, <1>1, <1>2, <1>3, <1>4, <2>2 DEF Tiles
  <2>3. CASE a # s /\ b # s
    BY <1>92, <1>93, <1>94, <1>4, <2>3 DEF Tiles
  <2> QED BY <2>1, <2>2, <2>3
<1>5. \A v \in V : v.lo \in Nat /\ v.hi \in Nat /\ Base <= v.lo /\ v.lo + 3 <= v.hi /\ v.hi <= end
  BY DEF Tiles
<1>6. \A v, w \in V : v # w => v.hi <= w.lo \/ w.hi <= v.lo
  BY DEF Tiles
<1>7. ASSUME NEW v \in V, NEW a \in F1 PROVE v.hi <= a \/ e1[a] <= v.lo
  <2>1. CASE a # s
    BY <1>92, <1>93, <1>94, <2>1 DEF Tiles
  <2>2. CASE a = s
    <3>1. v.hi <= u.lo \/ u.hi <= v.lo
      BY DEF Tiles
    <3>2. v.hi <= s \/ u.hi <= v.lo
      BY <1>0, <1>92, <1>93, <1>94, <1>1, <1>5, <3>1 DEF Tiles
    <3>3. v.hi <= s \/ t <= v.lo
      BY <1>0, <1>92, <1>93, <1>94, <1>1, <1>5, <3>2 DEF Tiles
    <3> QED BY <2>2, <3>3
  <2> QED BY <2>1, <2>2
<1>8. ASSUME NEW x \in Base..(end - 1)
      PROVE  \/ \E a \in F1 : a <= x /\ x < e1[a]
             \/ \E v \in V : v.lo <= x /\ x < v.hi
  <2>1. CASE s <= x /\ x < t
    BY <2>1
  <2>2. CASE ~(s <= x /\ x < t)
    <3>1. ~(u.lo <= x /\ x < u.hi)
      BY <1>0, <1>92, <1>93, <1>94, <1>1, <2>2, BaseType
    <3>2. ~(s \in F /\ s <= x /\ x < e[s])
      BY <1>0, <1>92, <1>93, <1>94, <1>1, <2>2, BaseType DEF Tiles
    <3>3. ~(u.hi \in F /\ u.hi <= x /\ x < e[u.hi])
      BY <1>0, <1>92, <1>93, <1>94, <1>1, <2>2, BaseType DEF Tiles
    <3> QED BY <1>92, <1>93, <1>94, <3>1, <3>2, <3>3 DEF Tiles
  <2> QED BY <2>1, <2>2
<1> HIDE DEF F1
<1>9. Tiles(F1, e1, V, end)
  BY <1>3, <1>4, <1>5, <1>6, <1>7, <1>8 DEF Tiles
<1> QED BY <1>9, <1>91 DEF F1

\* More words at the end of the arena, as a free block or as part of the last one,
\* keep the tiling.
LEMMA GrowTiles ==
  ASSUME NEW F, NEW e, NEW U, NEW end \in Nat, Tiles(F, e, U, end),
         NEW end1 \in Nat, NEW l, LowEnd(F, e, end, l),
         l + 3 <= end1, end < end1, Base <= end,
         NEW e1, e1[l] = end1, \A a \in F \ {l} : e1[a] = e[a]
  PROVE  Tiles(F \cup {l}, e1, U, end1)
<1> DEFINE F1 == F \cup {l}
<1>0. \/ l = end /\ \A a \in F : e[a] # end
      \/ l \in F /\ e[l] = end
  BY DEF LowEnd
<1>1. l \in Nat /\ Base <= l
  BY <1>0, BaseType DEF Tiles
<1>2. \A a \in F \ {l} : e[a] < l
  BY <1>0, <1>1 DEF Tiles
<1>3. \A a \in F1 : a \in Nat /\ e1[a] \in Nat /\ Base <= a /\ a + 3 <= e1[a] /\ e1[a] <= end1
  BY <1>0, <1>1 DEF Tiles
<1>4. ASSUME NEW a \in F1, NEW b \in F1, a < b PROVE e1[a] < b
  <2>1. a # l
    BY <1>0, <1>1, <1>2, <1>3, <1>4 DEF Tiles
  <2>2. CASE b = l
    BY <1>0, <1>2, <2>1, <2>2
  <2>3. CASE b # l
    BY <1>4, <2>1, <2>3 DEF Tiles
  <2> QED BY <2>2, <2>3
<1>5. \A v \in U : v.lo \in Nat /\ v.hi \in Nat /\ Base <= v.lo /\ v.lo + 3 <= v.hi /\ v.hi <= end1
  BY DEF Tiles
<1>6. \A v, w \in U : v # w => v.hi <= w.lo \/ w.hi <= v.lo
  BY DEF Tiles
<1>7. \A v \in U, a \in F1 : v.hi <= a \/ e1[a] <= v.lo
  BY <1>0, <1>1 DEF Tiles
<1>8. ASSUME NEW x \in Base..(end1 - 1)
      PROVE  \/ \E a \in F1 : a <= x /\ x < e1[a]
             \/ \E v \in U : v.lo <= x /\ x < v.hi
  <2>1. CASE l <= x
    BY <2>1
  <2>2. CASE x < l
    <3>1. x \in Base..(end - 1)
      BY <1>0, <1>1, <2>2, BaseType DEF Tiles
    <3>2. ~(l \in F /\ l <= x)
      BY <1>0, <1>1, <2>2, BaseType
    <3> QED BY <3>1, <3>2 DEF Tiles
  <2> QED BY <1>0, <1>1, <2>1, <2>2, BaseType
<1> HIDE DEF F1
<1> QED BY <1>3, <1>4, <1>5, <1>6, <1>7, <1>8 DEF Tiles, F1

\* Only the bounds of a block matter to the tiling.
LEMMA SwapTiles ==
  ASSUME NEW F, NEW e, NEW V, NEW u, NEW v, NEW end, Tiles(F, e, V \cup {u}, end),
         u \notin V, v.lo = u.lo, v.hi = u.hi
  PROVE  Tiles(F, e, V \cup {v}, end)
<1>1. \A w \in V : u # w
  OBVIOUS
<1> QED BY <1>1 DEF Tiles

\* next and prev are inverse, and 0 only at the ends.
LEMMA LinkInverse ==
  ASSUME NEW F, NEW nx, NEW pv, NEW first, NEW last, Linked(F, nx, pv, first, last),
         NEW a \in F
  PROVE  /\ nx[a] \in F \cup {0} /\ pv[a] \in F \cup {0}
         /\ nx[a] # 0 => a < nx[a] /\ pv[nx[a]] = a
         /\ pv[a] # 0 => pv[a] < a /\ nx[pv[a]] = a
         /\ nx[a] = 0 <=> a = last
         /\ pv[a] = 0 <=> a = first
<1>1. IsNext(F, a, nx[a]) /\ IsPrev(F, a, pv[a]) /\ (\A b \in F : b \in Nat /\ b # 0)
  BY DEF Linked
<1>2. nx[a] # 0 => nx[a] \in F /\ a < nx[a] /\ \A b \in F : b <= a \/ nx[a] <= b
  BY <1>1 DEF IsNext
<1>3. pv[a] # 0 => pv[a] \in F /\ pv[a] < a /\ \A b \in F : b <= pv[a] \/ a <= b
  BY <1>1 DEF IsPrev
<1>4. ASSUME nx[a] # 0 PROVE pv[nx[a]] = a
  <2> DEFINE n == nx[a]
  <2>1. n \in F /\ IsPrev(F, n, pv[n]) /\ a < n
    BY <1>2, <1>4 DEF Linked
  <2>2. pv[n] # 0
    BY <1>1, <2>1 DEF IsPrev
  <2>3. pv[n] \in F /\ pv[n] < n /\ \A b \in F : b <= pv[n] \/ n <= b
    BY <2>1, <2>2 DEF IsPrev
  <2> HIDE DEF n
  <2>4. a <= pv[n]
    BY <1>1, <2>1, <2>3
  <2>5. pv[n] <= a
    BY <1>1, <1>2, <1>4, <2>1, <2>3 DEF n
  <2> QED BY <1>1, <2>3, <2>4, <2>5 DEF n
<1>5. ASSUME pv[a] # 0 PROVE nx[pv[a]] = a
  <2> DEFINE p == pv[a]
  <2>1. p \in F /\ IsNext(F, p, nx[p]) /\ p < a
    BY <1>3, <1>5 DEF Linked
  <2>2. nx[p] # 0
    BY <1>1, <2>1 DEF IsNext
  <2>3. nx[p] \in F /\ p < nx[p] /\ \A b \in F : b <= p \/ nx[p] <= b
    BY <2>1, <2>2 DEF IsNext
  <2> HIDE DEF p
  <2>4. nx[p] <= a
    BY <1>1, <2>1, <2>3
  <2>5. a <= nx[p]
    BY <1>1, <1>3, <1>5, <2>1, <2>3 DEF p
  <2> QED BY <1>1, <2>3, <2>4, <2>5 DEF p
<1>6. nx[a] = 0 <=> a = last
  BY <1>1 DEF IsNext, Linked
<1>7. pv[a] = 0 <=> a = first
  BY <1>1 DEF IsPrev, Linked
<1> QED BY <1>2, <1>3, <1>4, <1>5, <1>6, <1>7

\* A block put in another's place, between the same neighbours, keeps the list.
LEMMA LinkReplace ==
  ASSUME NEW F, NEW nx, NEW pv, NEW first, NEW last, Linked(F, nx, pv, first, last),
         NEW g \in F, NEW h \in Nat \ {0}, h \notin F,
         \A a \in F \ {g} : (a < g /\ a < h) \/ (g < a /\ h < a),
         NEW nx1, nx1[h] = nx[g], NEW pv1, pv1[h] = pv[g], NEW first1, NEW last1,
         Bypassed(F, nx, pv, first, last, g, h, h, nx1, pv1, first1, last1)
  PROVE  Linked((F \ {g}) \cup {h}, nx1, pv1, first1, last1)
<1> DEFINE F1 == (F \ {g}) \cup {h}
<1>0. (\A a \in F : a \in Nat /\ a # 0) /\ (\A a \in F1 : a \in Nat /\ a # 0)
  BY DEF Linked
<1>9. /\ \A a \in F \ {g} : /\ nx1[a] = IF a = pv[g] THEN h ELSE nx[a]
                            /\ pv1[a] = IF a = nx[g] THEN h ELSE pv[a]
      /\ first1 = IF pv[g] = 0 THEN h ELSE first
      /\ last1 = IF nx[g] = 0 THEN h ELSE last
  BY DEF Bypassed
<1>1. \A a \in F : IsNext(F, a, nx[a]) /\ IsPrev(F, a, pv[a])
  BY DEF Linked
<1>2. IsNext(F1, h, nx1[h])
  BY <1>0, <1>9, <1>1 DEF IsNext
<1>3. IsPrev(F1, h, pv1[h])
  BY <1>0, <1>9, <1>1 DEF IsPrev
<1>4. ASSUME NEW a \in F \ {g} PROVE IsNext(F1, a, nx1[a])
  <2>1. CASE a = pv[g]
    <3>1. nx1[a] = h /\ nx[a] = g
      BY <1>0, <1>9, <2>1, LinkInverse
    <3>2. a < g /\ (\A b \in F : b <= a \/ g <= b)
      BY <1>0, <1>9, <1>1, <3>1 DEF IsNext
    <3> QED BY <1>0, <1>9, <3>1, <3>2 DEF IsNext
  <2>2. CASE a # pv[g]
    <3>1. nx1[a] = nx[a] /\ nx[a] # g
      BY <1>0, <1>9, <2>2, LinkInverse
    <3>2. IsNext(F, a, nx[a])
      BY <1>1
    <3> QED BY <1>0, <1>9, <3>1, <3>2 DEF IsNext
  <2> QED BY <2>1, <2>2
<1>5. ASSUME NEW a \in F \ {g} PROVE IsPrev(F1, a, pv1[a])
  <2>1. CASE a = nx[g]
    <3>1. pv1[a] = h /\ pv[a] = g
      BY <1>0, <1>9, <2>1, LinkInverse
    <3>2. g < a /\ (\A b \in F : b <= g \/ a <= b)
      BY <1>0, <1>9, <1>1, <3>1 DEF IsPrev
    <3> QED BY <1>0, <1>9, <3>1, <3>2 DEF IsPrev
  <2>2. CASE a # nx[g]
    <3>1. pv1[a] = pv[a] /\ pv[a] # g
      BY <1>0, <1>9, <2>2, LinkInverse
    <3>2. IsPrev(F, a, pv[a])
      BY <1>1
    <3> QED BY <1>0, <1>9, <3>1, <3>2 DEF IsPrev
  <2> QED BY <2>1, <2>2
<1>6. first1 \in F1 /\ \A a \in F1 : first1 <= a
  <2>1. pv[g] = 0 <=> g = first
    BY LinkInverse
  <2> QED BY <1>0, <1>9, <2>1 DEF Linked
<1>7. last1 \in F1 /\ \A a \in F1 : a <= last1
  <2>1. nx[g] = 0 <=> g = last
    BY LinkInverse
  <2> QED BY <1>0, <1>9, <2>1 DEF Linked
<1> QED BY <1>0, <1>9, <1>2, <1>3, <1>4, <1>5, <1>6, <1>7 DEF Linked

\* Leading the neighbours of a block past it removes it from the list.
LEMMA LinkRemove ==
  ASSUME NEW F, NEW nx, NEW pv, NEW first, NEW last, Linked(F, nx, pv, first, last),
         NEW g \in F,
         NEW nx1, NEW pv1, NEW first1, NEW last1,
         Bypassed(F, nx, pv, first, last, g, nx[g], pv[g], nx1, pv1, first1, last1)
  PROVE  Linked(F \ {g}, nx1, pv1, first1, last1)
<1> DEFINE F1 == F \ {g}
<1>0. (\A a \in F : a \in Nat /\ a # 0) /\ (\A a \in F1 : a \in Nat /\ a # 0)
  BY DEF Linked
<1>9. /\ \A a \in F \ {g} : /\ nx1[a] = IF a = pv[g] THEN nx[g] ELSE nx[a]
                            /\ pv1[a] = IF a = nx[g] THEN pv[g] ELSE pv[a]
      /\ first1 = IF pv[g] = 0 THEN nx[g] ELSE first
      /\ last1 = IF nx[g] = 0 THEN pv[g] ELSE last
  BY DEF Bypassed
<1>1. \A a \in F : IsNext(F, a, nx[a]) /\ IsPrev(F, a, pv[a])
  BY DEF Linked
<1>2. IsNext(F, g, nx[g]) /\ IsPrev(F, g, pv[g])
  BY <1>1
<1>4. ASSUME NEW a \in F1 PROVE IsNext(F1, a, nx1[a])
  <2>1. CASE a = pv[g]
    <3>1. nx1[a] = nx[g] /\ nx[a] = g
      BY <1>0, <1>9, <2>1, LinkInverse
    <3>2. a < g /\ (\A b \in F : b <= a \/ g <= b)
      BY <1>0, <1>9, <1>1, <3>1 DEF IsNext
    <3> QED BY <1>0, <1>9, <1>2, <3>1, <3>2 DEF IsNext
  <2>2. CASE a # pv[g]
    <3>1. nx1[a] = nx[a] /\ nx[a] # g
      BY <1>0, <1>9, <2>2, LinkInverse
    <3>2. IsNext(F, a, nx[a])
      BY <1>1
    <3> QED BY <1>0, <1>9, <3>1, <3>2 DEF IsNext
  <2> QED BY <2>1, <2>2
<1>5. ASSUME NEW a \in F1 PROVE IsPrev(F1, a, pv1[a])
  <2>1. CASE a = nx[g]
    <3>1. pv1[a] = pv[g] /\ pv[a] = g
      BY <1>0, <1>9, <2>1, LinkInverse
    <3>2. g < a /\ (\A b \in F : b <= g \/ a <= b)
      BY <1>0, <1>9, <1>1, <3>1 DEF IsPrev
    <3> QED BY <1>0, <1>9, <1>2, <3>1, <3>2 DEF IsPrev
  <2>2. CASE a # nx[g]
    <3>1. pv1[a] = pv[a] /\ pv[a] # g
      BY <1>0, <1>9, <2>2, LinkInverse
    <3>2. IsPrev(F, a, pv[a])
      BY <1>1
    <3> QED BY <1>0, <1>9, <3>1, <3>2 DEF IsPrev
  <2> QED BY <2>1, <2>2
<1>6. IF F1 = {} THEN first1 = 0 ELSE first1 \in F1 /\ \A a \in F1 : first1 <= a
  <2>1. CASE pv[g] = 0
    BY <1>0, <1>9, <1>2, <2>1 DEF IsNext, IsPrev
  <2>2. CASE pv[g] # 0
    BY <1>0, <1>9, <1>2, <2>2 DEF Linked, IsPrev
  <2> QED BY <2>1, <2>2
<1>7. IF F1 = {} THEN last1 = 0 ELSE last1 \in F1 /\ \A a \in F1 : a <= last1
  <2>1. CASE nx[g] = 0
    BY <1>0, <1>9, <1>2, <2>1 DEF IsNext, IsPrev
  <2>2. CASE nx[g] # 0
    BY <1>0, <1>9, <1>2, <2>2 DEF Linked, IsNext
  <2> QED BY <2>1, <2>2
<1> QED BY <1>0, <1>9, <1>4, <1>5, <1>6, <1>7 DEF Linked

\* Linking a block in between the two it lies between keeps the list.
LEMMA LinkInsert ==
  ASSUME NEW F, NEW nx, NEW pv, NEW first, NEW last, Linked(F, nx, pv, first, last),
         NEW h \in Nat \ {0}, h \notin F,
         NEW n, IsNext(F, h, n), NEW p, IsPrev(F, h, p),
         NEW nx1, NEW pv1, NEW first1, NEW last1,
         Joined(F, nx, pv, first, last, p, h, n, nx1, pv1, first1, last1)
  PROVE  Linked(F \cup {h}, nx1, pv1, first1, last1)
<1> DEFINE F1 == F \cup {h}
<1>0. (\A a \in F : a \in Nat /\ a # 0) /\ (\A a \in F1 : a \in Nat /\ a # 0)
  BY DEF Linked
<1>9. /\ \A a \in F : /\ nx1[a] = IF a = p THEN h ELSE nx[a]
                      /\ pv1[a] = IF a = n THEN h ELSE pv[a]
      /\ nx1[h] = n /\ pv1[h] = p
      /\ first1 = IF p = 0 THEN h ELSE first
      /\ last1 = IF n = 0 THEN h ELSE last
  BY DEF Joined
<1>1. \A a \in F : IsNext(F, a, nx[a]) /\ IsPrev(F, a, pv[a])
  BY DEF Linked
<1>2. IsNext(F1, h, nx1[h]) /\ IsPrev(F1, h, pv1[h])
  BY <1>0, <1>9 DEF IsNext, IsPrev
<1>3. ASSUME NEW a \in F PROVE IsNext(F1, a, nx1[a])
  <2>0. IsNext(F, a, nx[a])
    BY <1>1
  <2>1. CASE a = p
    <3>1. a < h /\ nx1[a] = h /\ \A b \in F : b <= a \/ h <= b
      BY <1>0, <1>9, <2>1 DEF IsPrev
    <3> QED BY <1>0, <1>9, <3>1 DEF IsNext
  <2>2. CASE a # p
    <3>1. nx1[a] = nx[a]
      BY <1>9, <2>2
    <3>2. a < h => p # 0 /\ p \in F /\ a < p /\ p < h
      BY <1>0, <1>9, <2>2 DEF IsPrev
    <3> QED BY <1>0, <1>9, <2>0, <3>1, <3>2 DEF IsNext
  <2> QED BY <2>1, <2>2
<1>4. ASSUME NEW a \in F PROVE IsPrev(F1, a, pv1[a])
  <2>0. IsPrev(F, a, pv[a])
    BY <1>1
  <2>1. CASE a = n
    <3>1. h < a /\ pv1[a] = h /\ \A b \in F : b <= h \/ a <= b
      BY <1>0, <1>9, <2>1 DEF IsNext
    <3> QED BY <1>0, <1>9, <3>1 DEF IsPrev
  <2>2. CASE a # n
    <3>1. pv1[a] = pv[a]
      BY <1>9, <2>2
    <3>2. h < a => n # 0 /\ n \in F /\ n < a /\ h < n
      BY <1>0, <1>9, <2>2 DEF IsNext
    <3> QED BY <1>0, <1>9, <2>0, <3>1, <3>2 DEF IsPrev
  <2> QED BY <2>1, <2>2
<1>5. first1 \in F1 /\ \A a \in F1 : first1 <= a
  BY <1>0, <1>9 DEF Linked, IsPrev
<1>6. last1 \in F1 /\ \A a \in F1 : a <= last1
  BY <1>0, <1>9 DEF Linked, IsNext
<1> QED BY <1>0, <1>9, <1>2, <1>3, <1>4, <1>5, <1>6 DEF Linked

\* What a whole list says of its block a, word by word.
InList(F, m, U, end, first, last, a) ==
  /\ a \in Nat /\ a # 0 /\ Base <= a
  /\ a \in Arena(end) /\ a + 1 \in Arena(end) /\ a + 2 \in Arena(end)
  /\ m[a] \in Nat /\ m[a + 1] \in Nat /\ m[a + 2] \in Nat
  /\ 3 <= m[a + 2] /\ a + m[a + 2] <= end
  /\ m[a] # 0 => /\ m[a] \in F /\ a + m[a + 2] < m[a] /\ m[m[a] + 1] = a
                 /\ \A b \in F : b <= a \/ m[a] <= b
  /\ m[a + 1] # 0 => /\ m[a + 1] \in F /\ m[a + 1] + m[m[a + 1] + 2] < a
                     /\ m[m[a + 1]] = a
                     /\ \A b \in F : b <= m[a + 1] \/ a <= b
  /\ m[a] = 0 <=> a = last
  /\ m[a + 1] = 0 <=> a = first
  /\ first \in F /\ first <= a /\ last \in F /\ a <= last
  /\ \A b \in F : a < b => a + m[a + 2] < b
  /\ \A u \in U : u.hi <= a \/ a + m[a + 2] <= u.lo

\* It says this of each of them.
LEMMA ListFacts ==
  ASSUME NEW F, NEW U, NEW end \in Nat, NEW m \in [Arena(end) -> Words],
         NEW first, NEW last, WholeList(F, m, U, end, first, last), NEW a \in F
  PROVE  InList(F, m, U, end, first, last, a)
<1> DEFINE e == Ends(F, m)
           nx == Nexts(F, m)
           pv == Prevs(F, m)
<1>1. \A b \in F : e[b] = b + m[b + 2] /\ nx[b] = m[b] /\ pv[b] = m[b + 1]
  BY DEF Ends, Nexts, Prevs
<1>2. Tiles(F, e, U, end) /\ Linked(F, nx, pv, first, last)
  BY DEF WholeList
<1> HIDE DEF e, nx, pv
<1>3. ASSUME NEW b \in F
      PROVE  /\ b \in Nat /\ b # 0 /\ Base <= b
             /\ b \in Arena(end) /\ b + 1 \in Arena(end) /\ b + 2 \in Arena(end)
             /\ m[b + 2] \in Nat
             /\ 3 <= m[b + 2] /\ b + m[b + 2] <= end
  <2>1. /\ b \in Nat /\ e[b] \in Nat /\ Base <= b /\ b + 3 <= e[b] /\ e[b] <= end
        /\ e[b] = b + m[b + 2]
    BY <1>1, <1>2 DEF Tiles
  <2>2. b \in Arena(end) /\ b + 1 \in Arena(end) /\ b + 2 \in Arena(end)
    BY <2>1, BaseType, ArenaWords
  <2>3. m[b + 2] \in Int
    BY <2>2 DEF Words
  <2> QED BY <2>1, <2>2, <2>3, BaseType
<1>4. /\ nx[a] \in F \cup {0} /\ pv[a] \in F \cup {0}
      /\ nx[a] # 0 => a < nx[a] /\ pv[nx[a]] = a
      /\ pv[a] # 0 => pv[a] < a /\ nx[pv[a]] = a
      /\ nx[a] = 0 <=> a = last
      /\ pv[a] = 0 <=> a = first
  BY <1>2, LinkInverse
<1>5. \A b, c \in F : b < c => e[b] < c
  BY <1>2 DEF Tiles
<1>6. m[a] \in Nat /\ m[a + 1] \in Nat
  BY <1>1, <1>3, <1>4
<1>7. IsNext(F, a, nx[a]) /\ IsPrev(F, a, pv[a])
  BY <1>2 DEF Linked
<1>8. m[a] # 0 => /\ m[a] \in F /\ a + m[a + 2] < m[a] /\ m[m[a] + 1] = a
                  /\ \A b \in F : b <= a \/ m[a] <= b
  BY <1>1, <1>4, <1>5, <1>7 DEF IsNext
<1>9. m[a + 1] # 0 => /\ m[a + 1] \in F /\ m[a + 1] + m[m[a + 1] + 2] < a
                      /\ m[m[a + 1]] = a
                      /\ \A b \in F : b <= m[a + 1] \/ a <= b
  BY <1>1, <1>4, <1>5, <1>7 DEF IsPrev
<1>10. first \in F /\ first <= a /\ last \in F /\ a <= last
  BY <1>2 DEF Linked
<1>11. \A u \in U : u.hi <= a \/ a + m[a + 2] <= u.lo
  BY <1>1, <1>2 DEF Tiles
<1> QED BY <1>1, <1>3, <1>4, <1>5, <1>6, <1>8, <1>9, <1>10, <1>11 DEF InList

\* What an allocation writes: the block's neighbours in the list are relinked to
\* the remainder, or to each other when there is none; the remainder and the
\* allocated block have their headers; every other word is as it was, or lies
\* in the block handed out.
Taken(D, m, first, last, g, padding, sz, al, hi, at, got, heir, back) ==
  /\ mem' \in [D -> Words]
  /\ \A x \in D : x < g \/ hi <= x =>
       mem'[x] = IF x = m[g + 1] THEN heir
                 ELSE IF m[g] # 0 /\ x = m[g] + 1 THEN back ELSE m[x]
  /\ hi - (at + sz) >= 3 =>
       /\ mem'[at + sz] = m[g] /\ mem'[at + sz + 1] = m[g + 1]
       /\ mem'[at + sz + 2] = hi - (at + sz)
  /\ mem'[at - 1] = padding /\ mem'[at - 2] = got
  /\ m_llStart' = IF m[g + 1] = 0 THEN heir ELSE first
  /\ m_llEnd' = IF m[g] = 0 THEN back ELSE last
  /\ live' = live \cup {[ptr |-> at, sz |-> sz, al |-> al, lo |-> g, hi |-> at + got]}
  /\ call' = Returned(at)
  /\ UNCHANGED <<m_initialized, status>>

\* What TakeBlock (_splitBlock and the allocation header) writes, word by word.
LEMMA TakeWrites ==
  ASSUME NEW D, NEW m \in [D -> Words], D \subseteq Nat, 0 \notin D,
         NEW first, NEW last, NEW g \in Nat, NEW padding \in Nat, 2 <= padding,
         NEW sz \in Nat, 1 <= sz, NEW al,
         m[g] \in Nat, m[g + 1] \in Nat, m[g + 2] \in Nat,
         NEW hi, hi = g + m[g + 2], \A x \in g..(hi - 1) : x \in D,
         g + padding + sz <= hi,
         m[g] # 0 => hi < m[g] /\ m[g] + 1 \in D,
         m[g + 1] # 0 => m[g + 1] + 2 < g /\ m[g + 1] \in D,
         NEW at, at = g + padding,
         NEW got, got = IF hi - (at + sz) >= 3 THEN sz ELSE hi - at,
         NEW heir, heir = IF hi - (at + sz) >= 3 THEN at + sz ELSE m[g],
         NEW back, back = IF hi - (at + sz) >= 3 THEN at + sz ELSE m[g + 1],
         TakeBlock(m, first, last, g, m[g + 1], padding, sz, al)
  PROVE  Taken(D, m, first, last, g, padding, sz, al, hi, at, got, heir, back)
<1> DEFINE next      == m[g]
           prev      == m[g + 1]
           remaining == g + m[g + 2] - at - sz
           newBlock  == at + sz
           splits    == remaining >= freeHeaderSize
           m1 == IF splits THEN WriteHeader(m, newBlock, next, prev, remaining) ELSE m
           m2 == IF prev # NULL THEN [m1 EXCEPT ![prev] = heir] ELSE m1
           m3 == IF m2[g] # NULL
                 THEN [m2 EXCEPT ![m2[g] + 1] = IF splits THEN newBlock ELSE prev]
                 ELSE m2
           r  == SplitBlock(m, first, last, g, prev, at, sz)
           m4 == [r.mem EXCEPT ![at - 2] = r.got, ![at - 1] = padding]
<1>1. /\ remaining = hi - (at + sz) /\ remaining \in Nat /\ newBlock \in Nat
      /\ splits <=> hi - (at + sz) >= 3
      /\ at \in Nat /\ hi \in Nat /\ g + 2 <= at /\ g + 3 <= newBlock /\ newBlock <= hi
  OBVIOUS
<1>2. heir = IF splits THEN newBlock ELSE next
  BY <1>1
<1>3. /\ r.mem = m3
      /\ r.first = IF prev # NULL THEN first ELSE heir
      /\ r.last = IF m2[g] # NULL THEN last ELSE IF splits THEN newBlock ELSE prev
      /\ r.got = IF splits THEN sz ELSE m[g + 2] + g - at
  BY <1>2 DEF SplitBlock
<1>4. /\ mem' = Junked(m4, at, at + sz - 1)
      /\ m_llStart' = r.first /\ m_llEnd' = r.last
      /\ live' = live \cup {[ptr |-> at, sz |-> sz, al |-> al, lo |-> g, hi |-> at + r.got]}
      /\ call' = Returned(at)
      /\ UNCHANGED <<m_initialized, status>>
  BY DEF TakeBlock
<1> HIDE DEF r
<1>5. r.got = got
  BY <1>1, <1>3
<1>6. /\ m1 \in [D -> Words]
      /\ \A x \in D : m1[x] = IF splits /\ x = newBlock THEN next
                              ELSE IF splits /\ x = newBlock + 1 THEN prev
                              ELSE IF splits /\ x = newBlock + 2 THEN remaining
                              ELSE m[x]
  <2>1. next \in Words /\ prev \in Words /\ remaining \in Words
    BY <1>1 DEF Words
  <2>2. CASE splits
    <3>1. m1 = WriteHeader(m, newBlock, next, prev, remaining)
      BY <2>2
    <3>2. newBlock \in Nat
      BY <1>1
    <3> HIDE DEF next, prev, remaining, newBlock, splits, m1
    <3>3. m1 \in [D -> Words]
      BY <2>1, <3>1, WriteHeaderType
    <3>4. \A x \in D : m1[x] = IF x = newBlock THEN next
                             ELSE IF x = newBlock + 1 THEN prev
                             ELSE IF x = newBlock + 2 THEN remaining ELSE m[x]
      BY <3>1, <3>2 DEF WriteHeader
    <3> QED BY <2>2, <3>3, <3>4
  <2>3. CASE ~splits
    <3>1. m1 = m
      BY <2>3
    <3> HIDE DEF m1, splits
    <3> QED BY <2>3, <3>1
  <2> QED BY <2>2, <2>3
<1>7. heir \in Words /\ back \in Words
  BY <1>1 DEF Words
<1> HIDE DEF m1
<1>8. /\ m2 \in [D -> Words]
      /\ \A x \in D : m2[x] = IF x = prev THEN heir ELSE m1[x]
  BY <1>6, <1>7
<1> HIDE DEF m2
<1>9. m2[g] = next
  <2>1. g \in D /\ g # prev
    BY <1>1
  <2> QED BY <1>1, <1>6, <1>8, <2>1
<1>10. /\ m3 \in [D -> Words]
       /\ \A x \in D : m3[x] = IF next # 0 /\ x = next + 1 THEN back ELSE m2[x]
  <2>1. back = IF splits THEN newBlock ELSE prev
    BY <1>1
  <2>2. m3 = IF next # NULL THEN [m2 EXCEPT ![next + 1] = back] ELSE m2
    BY <1>9, <2>1
  <2> HIDE DEF m3, next, prev
  <2> QED BY <1>7, <1>8, <2>2
<1> HIDE DEF m3
<1>11. /\ m4 \in [D -> Words]
       /\ \A x \in D : m4[x] = IF x = at - 1 THEN padding
                               ELSE IF x = at - 2 THEN got ELSE m3[x]
  <2>1. padding \in Words /\ got \in Words
    BY <1>1 DEF Words
  <2> QED BY <1>1, <1>3, <1>5, <1>10, <2>1
<1> HIDE DEF m4
<1>12. /\ mem' \in [D -> Words]
       /\ \A x \in D : mem'[x] = IF x \in at..(at + sz - 1) THEN Junk ELSE m4[x]
  BY <1>4, <1>11 DEF Junked, Words
<1>13. ASSUME NEW x \in D, x < g \/ hi <= x
       PROVE  mem'[x] = IF x = prev THEN heir
                        ELSE IF next # 0 /\ x = next + 1 THEN back ELSE m[x]
  <2>1. x \in Nat /\ x \notin at..(at + sz - 1) /\ x # at - 1 /\ x # at - 2
    BY <1>1, <1>13
  <2>2. mem'[x] = m3[x]
    BY <1>11, <1>12, <2>1
  <2>3. splits => x # newBlock /\ x # newBlock + 1 /\ x # newBlock + 2
    BY <1>1, <1>13, <2>1
  <2>4. m1[x] = m[x]
    BY <1>6, <2>3
  <2>5. x = prev => ~(next # 0 /\ x = next + 1)
    BY <1>1
  <2> QED BY <1>8, <1>10, <2>2, <2>4, <2>5
<1>14. ASSUME splits
       PROVE  /\ mem'[newBlock] = next /\ mem'[newBlock + 1] = prev
              /\ mem'[newBlock + 2] = remaining
  <2>1. newBlock \in D /\ newBlock + 1 \in D /\ newBlock + 2 \in D
    BY <1>1, <1>14
  <2>2. ASSUME NEW x \in D, x \in {newBlock, newBlock + 1, newBlock + 2}
        PROVE  mem'[x] = m1[x]
    <3>1. /\ x \in Nat /\ x \notin at..(at + sz - 1) /\ x # at - 1 /\ x # at - 2
          /\ x # prev /\ ~(next # 0 /\ x = next + 1)
      BY <1>1, <1>14, <2>2
    <3> QED BY <1>8, <1>10, <1>11, <1>12, <3>1
  <2> HIDE DEF newBlock, next, prev, remaining
  <2> QED BY <1>1, <1>6, <1>14, <2>1, <2>2
<1>15. mem'[at - 1] = padding /\ mem'[at - 2] = got
  <2>1. at - 1 \in D /\ at - 2 \in D
    BY <1>1
  <2>2. at - 1 \notin at..(at + sz - 1) /\ at - 2 \notin at..(at + sz - 1)
    BY <1>1
  <2> QED BY <1>1, <1>11, <1>12, <2>1, <2>2
<1>16. /\ m_llStart' = IF prev = 0 THEN heir ELSE first
       /\ m_llEnd' = IF next = 0 THEN back ELSE last
  BY <1>1, <1>3, <1>4, <1>9
<1> HIDE DEF m1, m2, m3, m4, r
<1> QED BY <1>1, <1>4, <1>5, <1>12, <1>13, <1>14, <1>15, <1>16 DEF Taken

\* The blocks of a whole list are the gaps between the blocks in use.
LEMMA ListStarts ==
  ASSUME NEW F, NEW m, NEW U, NEW end \in Nat, NEW first, NEW last,
         WholeList(F, m, U, end, first, last)
  PROVE  F = Starts(U, end)
BY TilesStarts DEF WholeList

\* What is linked in place of g, of which the words from mid on stay free.
Heir(m, g, mid) == IF mid = g + m[g + 2] THEN m[g] ELSE mid
Back(m, g, mid) == IF mid = g + m[g + 2] THEN m[g + 1] ELSE mid

\* Outside g, m1 differs from m where next of the block before g and prev of the
\* block after it are stored; what stays free of g has a header.
NeighboursRelinked(m, m1, end, g, mid) ==
  \A x \in Arena(end) : x < g \/ g + m[g + 2] <= x =>
    m1[x] = IF x = m[g + 1] THEN Heir(m, g, mid)
            ELSE IF m[g] # 0 /\ x = m[g] + 1 THEN Back(m, g, mid) ELSE m[x]

Relinked(m, m1, end, g, mid, first, last, first1, last1) ==
  /\ NeighboursRelinked(m, m1, end, g, mid)
  /\ mid # g + m[g + 2] => /\ m1[mid] = m[g] /\ m1[mid + 1] = m[g + 1]
                           /\ m1[mid + 2] = g + m[g + 2] - mid
  /\ first1 = IF m[g + 1] = 0 THEN Heir(m, g, mid) ELSE first
  /\ last1 = IF m[g] = 0 THEN Back(m, g, mid) ELSE last

\* No word of the blocks U has changed.
WordsKept(U, m, m1) == \A u \in U, x \in Nat : u.lo <= x /\ x < u.hi => m1[x] = m[x]

\* Taking a block out of a whole list: with its neighbours linked to what remains
\* of it, or to each other, the list is whole, and no word in use has changed.
LEMMA TakeWhole ==
  ASSUME NEW end \in Nat, NEW m \in [Arena(end) -> Words], NEW U,
         NEW first, NEW last, NEW F, WholeList(F, m, U, end, first, last),
         NEW g \in F, NEW u, NEW mid \in Nat, Spans(u, g, mid), g + 3 <= mid,
         mid = g + m[g + 2] \/ mid + 3 <= g + m[g + 2],
         NEW m1, NEW first1, NEW last1,
         Relinked(m, m1, end, g, mid, first, last, first1, last1)
  PROVE  /\ WholeList(Starts(U \cup {u}, end), m1, U \cup {u}, end, first1, last1)
         /\ WordsKept(U, m, m1)
<1> DEFINE hi == g + m[g + 2]
           splits == mid # hi
           heir == Heir(m, g, mid)
           back == Back(m, g, mid)
<1>00. g \in Nat /\ m[g + 2] \in Nat
  <2>1. InList(F, m, U, end, first, last, g)
    BY ListFacts
  <2> QED BY <2>1 DEF InList
<1>0. /\ hi = g + m[g + 2]
      /\ splits => mid + 3 <= hi
      /\ ~splits => mid = hi
      /\ heir = IF splits THEN mid ELSE m[g]
      /\ back = IF splits THEN mid ELSE m[g + 1]
      /\ splits => m1[mid] = m[g] /\ m1[mid + 1] = m[g + 1] /\ m1[mid + 2] = hi - mid
      /\ first1 = IF m[g + 1] = 0 THEN heir ELSE first
      /\ last1 = IF m[g] = 0 THEN back ELSE last
  <2>1. /\ heir = IF mid = g + m[g + 2] THEN m[g] ELSE mid
        /\ back = IF mid = g + m[g + 2] THEN m[g + 1] ELSE mid
    BY DEF Heir, Back
  <2>21. mid # hi => /\ m1[mid] = m[g] /\ m1[mid + 1] = m[g + 1]
                       /\ m1[mid + 2] = hi - mid
    BY <1>00 DEF Relinked
  <2>22. first1 = IF m[g + 1] = 0 THEN heir ELSE first
    BY DEF Relinked
  <2>2. last1 = IF m[g] = 0 THEN back ELSE last
    BY DEF Relinked
  <2> HIDE DEF heir, back
  <2>3. mid # hi => mid + 3 <= hi
    OBVIOUS
  <2>4. (mid = hi) <=> (mid = g + m[g + 2])
    OBVIOUS
  <2> HIDE DEF hi
  <2>5. hi = g + m[g + 2]
    BY DEF hi
  <2> QED BY <2>1, <2>2, <2>21, <2>22, <2>3, <2>4, <2>5
<1>01. \A x \in Arena(end) : x < g \/ hi <= x =>
         m1[x] = IF x = m[g + 1] THEN heir
                 ELSE IF m[g] # 0 /\ x = m[g] + 1 THEN back ELSE m[x]
  BY DEF Relinked, NeighboursRelinked
<1> HIDE DEF hi, splits, heir, back
<1>2. /\ g \in Nat /\ g # 0 /\ Base <= g
      /\ m[g] \in Nat /\ m[g + 1] \in Nat /\ m[g + 2] \in Nat
      /\ 3 <= m[g + 2] /\ hi \in Nat /\ hi <= end
      /\ m[g] # 0 => m[g] \in F /\ hi < m[g] /\ m[m[g] + 1] = g
      /\ m[g + 1] # 0 => /\ m[g + 1] \in F /\ m[g + 1] + m[m[g + 1] + 2] < g
                         /\ m[m[g + 1]] = g
      /\ \A w \in U : w.hi <= g \/ hi <= w.lo
  <2>1. InList(F, m, U, end, first, last, g)
    BY ListFacts
  <2> QED BY <1>0, <2>1 DEF InList
<1>3. \A x \in Arena(end) : x \in Nat /\ x # 0
  BY BaseType, ArenaWords
<1>4. ASSUME NEW a \in F
      PROVE  /\ a \in Nat /\ a # 0
             /\ a \in Arena(end) /\ a + 1 \in Arena(end) /\ a + 2 \in Arena(end)
             /\ m[a] \in Nat /\ m[a + 1] \in Nat /\ m[a + 2] \in Nat /\ 3 <= m[a + 2]
             /\ \A b \in F : a < b => a + m[a + 2] < b
             /\ \A w \in U : w.hi <= a \/ a + m[a + 2] <= w.lo
  <2>1. InList(F, m, U, end, first, last, a)
    BY ListFacts
  <2> QED BY <2>1 DEF InList
<1>5. \A a, b \in F : a # b => a + 3 <= b \/ b + 3 <= a
  <2> SUFFICES ASSUME NEW a \in F, NEW b \in F, a < b PROVE a + 3 <= b
    BY <1>4
  <2> QED BY <1>4
<1>10. ASSUME NEW a \in F \ {g}
       PROVE  /\ m1[a] = IF a = m[g + 1] THEN heir ELSE m[a]
              /\ m1[a + 1] = IF a = m[g] THEN back ELSE m[a + 1]
              /\ m1[a + 2] = m[a + 2]
  <2>1. a + 2 < g \/ hi <= a
    BY <1>0, <1>2, <1>4, <1>5
  <2>2. /\ m[g] # 0 => a # m[g] + 1 /\ a + 2 # m[g] + 1
        /\ a + 1 # m[g + 1] /\ a + 2 # m[g + 1]
    BY <1>2, <1>4, <1>5
  <2>3. a # 0 /\ a \in Arena(end) /\ a + 1 \in Arena(end) /\ a + 2 \in Arena(end) /\ a \in Nat
    BY <1>4
  <2> QED BY <1>01, <1>2, <2>1, <2>2, <2>3
<1>11. ASSUME NEW v \in U, NEW x \in Nat, v.lo <= x, x < v.hi
       PROVE  m1[x] = m[x]
  <2>1. v.lo \in Nat /\ v.hi \in Nat /\ Base <= v.lo /\ v.hi <= end
    BY DEF WholeList, Tiles
  <2>2. x \in Arena(end)
    BY <1>11, <2>1, BaseType, ArenaWords
  <2>5. x < g \/ hi <= x
    BY <1>2, <1>11, <2>1
  <2>3. ASSUME NEW a \in F PROVE x < a \/ a + 3 <= x
    BY <1>4, <1>11, <2>1
  <2>4. x # m[g + 1] /\ (m[g] # 0 => x # m[g] + 1)
    BY <1>2, <1>3, <2>2, <2>3
  <2> QED BY <1>01, <2>2, <2>4, <2>5
<1> DEFINE F1 == IF splits THEN (F \ {g}) \cup {mid} ELSE F \ {g}
<1>12. Tiles(F1, Ends(F1, m1), U \cup {u}, end)
  <2> DEFINE e == Ends(F, m)
             e1 == Ends(F1, m1)
  <2>1. Tiles(F, e, U, end)
    BY DEF WholeList
  <2>2. e[g] = hi
    BY <1>0 DEF Ends
  <2>3. \A a \in F \ {g} : e1[a] = e[a]
    BY <1>10 DEF Ends
  <2>4. splits => e1[mid] = hi
    BY <1>0, <1>2 DEF Ends
  <2>5. \/ mid = e[g] /\ F1 = F \ {g}
        \/ mid + 3 <= e[g] /\ F1 = (F \ {g}) \cup {mid} /\ e1[mid] = e[g]
    BY <1>0, <2>2, <2>4
  <2> HIDE DEF e, e1, F1
  <2>6. Tiles(F1, e1, U \cup {u}, end)
    BY <2>1, <2>3, <2>5, TakeTiles
  <2> QED BY <2>6 DEF e1
<1>13. Linked(F1, Nexts(F1, m1), Prevs(F1, m1), first1, last1)
  <2> DEFINE nx == Nexts(F, m)
             pv == Prevs(F, m)
             nx1 == Nexts(F1, m1)
             pv1 == Prevs(F1, m1)
  <2>1. Linked(F, nx, pv, first, last)
    BY DEF WholeList
  <2>2. nx[g] = m[g] /\ pv[g] = m[g + 1]
    BY DEF Nexts, Prevs
  <2>3. \A a \in F \ {g} : /\ nx1[a] = IF a = pv[g] THEN heir ELSE nx[a]
                           /\ pv1[a] = IF a = nx[g] THEN back ELSE pv[a]
    <3>1. \A a \in F \ {g} : nx[a] = m[a] /\ pv[a] = m[a + 1]
      BY DEF Nexts, Prevs
    <3>2. \A a \in F \ {g} : nx1[a] = m1[a] /\ pv1[a] = m1[a + 1]
      BY DEF Nexts, Prevs
    <3> HIDE DEF nx, pv, nx1, pv1
    <3> QED BY <1>10, <2>2, <3>1, <3>2
  <2>4. /\ first1 = IF pv[g] = 0 THEN heir ELSE first
        /\ last1 = IF nx[g] = 0 THEN back ELSE last
    BY <1>0, <2>2
  <2>5. CASE splits
    <3> DEFINE h == mid
    <3>1. F1 = (F \ {g}) \cup {h} /\ heir = h /\ back = h
      BY <1>0, <2>5
    <3>2. nx1[h] = nx[g] /\ pv1[h] = pv[g]
      BY <1>0, <2>2, <2>5, <3>1 DEF Nexts, Prevs
    <3>3. h \in Nat \ {0} /\ g < h /\ h < hi
      BY <1>0, <1>2, <2>5
    <3>4. h \notin F /\ \A a \in F \ {g} : (a < g /\ a < h) \/ (g < a /\ h < a)
      BY <1>0, <1>2, <1>4, <3>3
    <3> HIDE DEF h, nx, pv, nx1, pv1, F1
    <3>5. Bypassed(F, nx, pv, first, last, g, h, h, nx1, pv1, first1, last1)
      BY <2>3, <2>4, <3>1 DEF Bypassed
    <3>6. Linked((F \ {g}) \cup {h}, nx1, pv1, first1, last1)
      BY <2>1, <3>2, <3>3, <3>4, <3>5, LinkReplace
    <3> QED BY <3>1, <3>6 DEF nx1, pv1
  <2>6. CASE ~splits
    <3>1. F1 = F \ {g} /\ heir = nx[g] /\ back = pv[g]
      BY <1>0, <2>2, <2>6
    <3> HIDE DEF nx, pv, nx1, pv1, F1
    <3>2. Bypassed(F, nx, pv, first, last, g, nx[g], pv[g], nx1, pv1, first1, last1)
      BY <2>3, <2>4, <3>1 DEF Bypassed
    <3>3. Linked(F \ {g}, nx1, pv1, first1, last1)
      BY <2>1, <3>2, LinkRemove
    <3> QED BY <3>1, <3>3 DEF nx1, pv1
  <2> QED BY <2>5, <2>6
<1>14. WholeList(F1, m1, U \cup {u}, end, first1, last1)
  BY <1>12, <1>13 DEF WholeList
<1>15. F1 = Starts(U \cup {u}, end)
  <2> HIDE DEF F1
  <2> QED BY <1>14, ListStarts
<1> HIDE DEF F1
<1> QED BY <1>11, <1>14, <1>15 DEF WordsKept

\* A block in use has its header in its own words, two of them below the pointer.
HasHeader(m, b) ==
  /\ b.ptr \in Nat /\ b.lo \in Nat /\ b.hi \in Nat /\ b.lo + 2 <= b.ptr /\ b.ptr < b.hi
  /\ m[b.ptr - 1] = b.ptr - b.lo /\ m[b.ptr - 2] = b.hi - b.ptr

HeadersIn(m, B) == \A b \in B : HasHeader(m, b)

\* The memory m of an arena up to end, the blocks U in use, B those with a header.
SoundArena(m, end, U, B, first, last) ==
  /\ m \in [Arena(end) -> Words]
  /\ WholeList(Starts(U, end), m, U, end, first, last)
  /\ HeadersIn(m, B)

\* Headers stay when the words of the blocks do.
LEMMA HeadersKept ==
  ASSUME NEW m, NEW B, HeadersIn(m, B), NEW m1, WordsKept(B, m, m1)
  PROVE  HeadersIn(m1, B)
<1> SUFFICES ASSUME NEW b \in B PROVE HasHeader(m1, b)
  BY DEF HeadersIn
<1>1. HasHeader(m, b)
  BY DEF HeadersIn
<1>2. /\ b.ptr - 1 \in Nat /\ b.lo <= b.ptr - 1 /\ b.ptr - 1 < b.hi
      /\ b.ptr - 2 \in Nat /\ b.lo <= b.ptr - 2 /\ b.ptr - 2 < b.hi
  BY <1>1 DEF HasHeader
<1>3. m1[b.ptr - 1] = m[b.ptr - 1] /\ m1[b.ptr - 2] = m[b.ptr - 2]
  BY <1>2 DEF WordsKept
<1> QED BY <1>1, <1>3 DEF HasHeader

\* A free block that is long enough can be taken without a fault.
LEMMA TakeDefined ==
  ASSUME NEW end \in Nat, NEW m \in [Arena(end) -> Words], NEW F, NEW U,
         NEW first, NEW last, WholeList(F, m, U, end, first, last), NEW g \in F,
         NEW padding \in Nat, 2 <= padding, NEW sz \in Nat, 1 <= sz,
         m[g + 2] - (padding + sz) >= 0
  PROVE  SplitDefined(m, g, m[g + 1], g + padding, sz)
<1>1. /\ g \in Nat /\ Base <= g
      /\ m[g] \in Nat /\ m[g + 1] \in Nat /\ m[g + 2] \in Nat
      /\ g + m[g + 2] <= end /\ m[g] \in F \cup {0} /\ m[g + 1] \in F \cup {0}
  <2>1. InList(F, m, U, end, first, last, g)
    BY ListFacts
  <2> QED BY <2>1 DEF InList
<1>2. ASSUME NEW a \in F PROVE a \in Arena(end) /\ a + 1 \in Arena(end)
  <2>1. InList(F, m, U, end, first, last, a)
    BY ListFacts
  <2> QED BY <2>1 DEF InList
<1>3. ASSUME NEW x \in Nat, g <= x, x < g + m[g + 2] PROVE x \in Arena(end)
  BY <1>1, <1>3, BaseType, ArenaWords
<1> DEFINE at == g + padding
<1>4. /\ g \in Arena(end) /\ g + 1 \in Arena(end) /\ g + 2 \in Arena(end)
      /\ at - 2 \in Arena(end) /\ at - 1 \in Arena(end)
  BY <1>1, <1>3
<1>5. ASSUME g + m[g + 2] - at - sz >= 3
      PROVE  /\ at + sz \in Arena(end) /\ at + sz + 1 \in Arena(end)
             /\ at + sz + 2 \in Arena(end)
  BY <1>1, <1>3, <1>5
<1>6. DOMAIN m = Arena(end)
  OBVIOUS
<1>7. m[g + 1] = 0 \/ m[g + 1] \in Arena(end)
  BY <1>1, <1>2
<1>8. m[g] = 0 \/ m[g] + 1 \in Arena(end)
  BY <1>1, <1>2
<1>9. m[g] # -1 /\ m[g + 1] # -1 /\ m[g + 2] # -1
  BY <1>1
<1>10. g + 2 # m[g + 1] /\ g + 2 # m[g] + 1
  <2>1. /\ 3 <= m[g + 2] /\ (m[g] # 0 => g + m[g + 2] < m[g])
        /\ m[g + 1] # 0 => m[g + 1] + m[m[g + 1] + 2] < g /\ m[m[g + 1] + 2] \in Nat
    <3>1. ASSUME NEW a \in F PROVE InList(F, m, U, end, first, last, a)
      BY ListFacts
    <3> QED BY <3>1 DEF InList
  <2> QED BY <1>1, <2>1
<1> HIDE DEF at
<1>11. SplitDefined(m, g, m[g + 1], at, sz)
  BY <1>4, <1>5, <1>6, <1>7, <1>8, <1>9, <1>10 DEF SplitDefined
<1> QED BY <1>11 DEF at

\* A step that adds new to the blocks in use, in an arena up to end that stays
\* sound, and returns.
HandsOut(new, end) ==
  /\ live' = live \cup {new}
  /\ SoundArena(mem', end, live', live', m_llStart', m_llEnd')
  /\ call'.op = "idle" /\ m_initialized' = m_initialized /\ status' = status

\* Taking a block keeps the arena sound; only the list end the split does not
\* reach may be wrong before it.
LEMMA TakeSound ==
  ASSUME NEW end \in Nat, NEW m, NEW first, NEW last,
         SoundArena(m, end, live, live, first, last),
         NEW g \in Starts(live, end), NEW lastOrOld, m[g] # 0 => lastOrOld = last,
         NEW padding \in Nat, 2 <= padding, NEW sz \in Nat, 1 <= sz, NEW al,
         m[g + 2] - (padding + sz) >= 0,
         NEW new, new = [ptr |-> g + padding, sz |-> sz, al |-> al, lo |-> g,
                         hi |-> IF m[g + 2] - (padding + sz) >= 3
                                THEN g + padding + sz ELSE g + m[g + 2]],
         TakeBlock(m, first, lastOrOld, g, m[g + 1], padding, sz, al)
  PROVE  HandsOut(new, end)
<1> DEFINE F == Starts(live, end)
           hi == g + m[g + 2]
           at == g + padding
           splits == hi - (at + sz) >= 3
           got == IF splits THEN sz ELSE hi - at
           heir == IF splits THEN at + sz ELSE m[g]
           back == IF splits THEN at + sz ELSE m[g + 1]
           mid == at + got
<1>1. /\ m \in [Arena(end) -> Words] /\ WholeList(F, m, live, end, first, last)
      /\ HeadersIn(m, live)
  BY DEF SoundArena
<1>2. InList(F, m, live, end, first, last, g)
  BY <1>1, ListFacts
<1>3. /\ g \in Nat /\ g # 0 /\ Base <= g
      /\ m[g] \in Nat /\ m[g + 1] \in Nat /\ m[g + 2] \in Nat /\ 3 <= m[g + 2] /\ hi <= end
      /\ m[g] # 0 => m[g] \in F /\ hi < m[g]
      /\ m[g + 1] # 0 => /\ m[g + 1] \in F /\ m[g + 1] + m[m[g + 1] + 2] < g
  BY <1>2 DEF InList
<1>4. ASSUME NEW a \in F
      PROVE  a \in Nat /\ a \in Arena(end) /\ a + 1 \in Arena(end) /\ m[a + 2] \in Nat /\ 3 <= m[a + 2]
  <2>1. InList(F, m, live, end, first, last, a)
    BY <1>1, ListFacts
  <2> QED BY <2>1 DEF InList
<1>5. /\ m[g] # 0 => m[g] + 1 \in Arena(end)
      /\ m[g + 1] # 0 => m[g + 1] \in Arena(end) /\ m[g + 1] + 2 < g
  BY <1>3, <1>4
<1>6. \A x \in g..(hi - 1) : x \in Arena(end)
  BY <1>3, BaseType, ArenaWords
<1>7. Arena(end) \subseteq Nat /\ 0 \notin Arena(end)
  BY BaseType, ArenaWords
<1>8. /\ g + padding + sz <= hi /\ at \in Nat /\ hi \in Nat /\ got \in Nat /\ mid \in Nat
      /\ splits \in BOOLEAN /\ g + 3 <= mid
      /\ splits => mid = at + sz /\ mid + 3 <= hi
      /\ ~splits => mid = hi
      /\ new = [ptr |-> at, sz |-> sz, al |-> al, lo |-> g, hi |-> mid]
  BY <1>3
<1> HIDE DEF F, hi, at, splits, got, heir, back, mid
<1>9. Taken(Arena(end), m, first, lastOrOld, g, padding, sz, al, hi, at, got, heir, back)
  <2>1. hi = g + m[g + 2]
    BY DEF hi
  <2>2. at = g + padding
    BY DEF at
  <2>3. /\ got = IF hi - (at + sz) >= 3 THEN sz ELSE hi - at
        /\ heir = IF hi - (at + sz) >= 3 THEN at + sz ELSE m[g]
        /\ back = IF hi - (at + sz) >= 3 THEN at + sz ELSE m[g + 1]
    BY DEF got, heir, back, splits
  <2>4. m[g] # 0 => hi < m[g] /\ m[g] + 1 \in Arena(end)
    BY <1>3, <1>5
  <2> QED BY <1>1, <1>3, <1>5, <1>6, <1>7, <1>8, <2>1, <2>2, <2>3, <2>4, TakeWrites
<1>10. live' = live \cup {new}
  BY <1>8, <1>9 DEF mid, Taken
<1>11. /\ WholeList(Starts(live \cup {new}, end), mem', live \cup {new}, end, m_llStart', m_llEnd')
       /\ WordsKept(live, m, mem')
  <2>1. Spans(new, g, mid)
    BY <1>8 DEF Spans
  <2>2. Relinked(m, mem', end, g, mid, first, last, m_llStart', m_llEnd')
    <3>1. hi = g + m[g + 2] /\ (splits <=> mid # hi)
      BY <1>8 DEF hi
    <3>2. heir = Heir(m, g, mid) /\ back = Back(m, g, mid)
      BY <1>8, <3>1 DEF heir, back, Heir, Back
    <3>3. mid # hi => mem'[mid] = m[g] /\ mem'[mid + 1] = m[g + 1] /\ mem'[mid + 2] = hi - mid
      BY <1>8, <1>9, <3>1 DEF splits, Taken
    <3>4. /\ m_llStart' = IF m[g + 1] = 0 THEN Heir(m, g, mid) ELSE first
          /\ m_llEnd' = IF m[g] = 0 THEN Back(m, g, mid) ELSE last
      BY <1>9, <3>2 DEF Taken
    <3>5. \A x \in Arena(end) : x < g \/ hi <= x =>
            mem'[x] = IF x = m[g + 1] THEN Heir(m, g, mid)
                      ELSE IF m[g] # 0 /\ x = m[g] + 1 THEN Back(m, g, mid) ELSE m[x]
      BY <1>9, <3>2 DEF Taken
    <3>6. NeighboursRelinked(m, mem', end, g, mid)
      BY <3>1, <3>5 DEF NeighboursRelinked
    <3> QED BY <1>3, <1>8, <3>1, <3>3, <3>4, <3>6 DEF Relinked
  <2>3. mid = g + m[g + 2] \/ mid + 3 <= g + m[g + 2]
    BY <1>8 DEF hi
  <2>4. g \in F
    BY DEF F
  <2> QED BY <1>1, <1>8, <2>1, <2>2, <2>3, <2>4, TakeWhole
<1>12. HeadersIn(mem', live \cup {new})
  <2>1. HeadersIn(mem', live)
    BY <1>1, <1>11, HeadersKept
  <2>2. HasHeader(mem', new)
    <3>1. /\ new.ptr = at /\ new.lo = g /\ new.hi = mid
      BY <1>8
    <3>2. g + 2 <= at /\ at < mid /\ at - g = padding /\ mid - at = got
      BY <1>3, <1>8 DEF at, mid, splits, got
    <3> HIDE DEF at, mid, got
    <3> QED BY <1>3, <1>8, <1>9, <3>1, <3>2 DEF HasHeader, Taken
  <2> QED BY <2>1, <2>2 DEF HeadersIn
<1>13. call'.op = "idle" /\ m_initialized' = m_initialized /\ status' = status
  BY <1>9 DEF Returned, Taken
<1>14. mem' \in [Arena(end) -> Words]
  BY <1>9 DEF Taken
<1> QED BY <1>10, <1>11, <1>12, <1>13, <1>14 DEF SoundArena, HandsOut

\* The block u among those in use of a whole list, from h up to t: its words are
\* apart from every free block, as are those of two free blocks.
LEMMA GivenFacts ==
  ASSUME NEW end \in Nat, NEW m \in [Arena(end) -> Words], NEW U, NEW u \in U,
         NEW first, NEW last, NEW F, WholeList(F, m, U, end, first, last),
         NEW h, NEW t, Spans(u, h, t)
  PROVE  /\ h \in Nat /\ h # 0 /\ t \in Nat /\ Base <= h /\ h + 3 <= t /\ t <= end
         /\ h \in Arena(end) /\ h + 1 \in Arena(end) /\ h + 2 \in Arena(end)
         /\ \A a \in F : a + m[a + 2] <= h \/ t <= a
<1>1. u.lo = h /\ u.hi = t
  BY DEF Spans
<1>2. h \in Nat /\ t \in Nat /\ Base <= h /\ h + 3 <= t /\ t <= end
  BY <1>1 DEF WholeList, Tiles
<1>3. h # 0 /\ h \in Arena(end) /\ h + 1 \in Arena(end) /\ h + 2 \in Arena(end)
  BY <1>2, BaseType, ArenaWords
<1>4. ASSUME NEW a \in F PROVE a + m[a + 2] <= h \/ t <= a
  <2>1. InList(F, m, U, end, first, last, a)
    BY ListFacts
  <2> QED BY <1>1, <2>1 DEF InList
<1> QED BY <1>2, <1>3, <1>4

\* A free block of a whole list has its header inside the arena, and lies apart
\* from the others.
LEMMA FreeFacts ==
  ASSUME NEW end \in Nat, NEW m \in [Arena(end) -> Words], NEW U,
         NEW first, NEW last, NEW F, WholeList(F, m, U, end, first, last), NEW a \in F
  PROVE  /\ a \in Nat /\ a # 0
         /\ a \in Arena(end) /\ a + 1 \in Arena(end) /\ a + 2 \in Arena(end)
         /\ m[a] \in Nat /\ m[a + 1] \in Nat /\ m[a + 2] \in Nat /\ 3 <= m[a + 2]
         /\ a + m[a + 2] <= end
         /\ \A b \in F : a < b => a + m[a + 2] < b
         /\ \A b \in F : a # b => a + 3 <= b \/ b + 3 <= a
<1>1. ASSUME NEW b \in F PROVE InList(F, m, U, end, first, last, b)
  BY ListFacts
<1>2. ASSUME NEW b \in F
      PROVE  /\ b \in Nat /\ b # 0
             /\ b \in Arena(end) /\ b + 1 \in Arena(end) /\ b + 2 \in Arena(end)
             /\ m[b] \in Nat /\ m[b + 1] \in Nat /\ m[b + 2] \in Nat /\ 3 <= m[b + 2]
             /\ b + m[b + 2] <= end
             /\ \A c \in F : b < c => b + m[b + 2] < c
  BY <1>1 DEF InList
<1>3. ASSUME NEW b \in F, a # b PROVE a + 3 <= b \/ b + 3 <= a
  BY <1>2, <1>3
<1> QED BY <1>2, <1>3

\* A word that belongs neither to u nor to the first three of a free block, in
\* particular every word of the other blocks in use.
Elsewhere(F, end, h, t, x) ==
  /\ x \in Arena(end) /\ x # 0
  /\ x < h \/ t <= x
  /\ \A a \in F : x < a \/ a + 3 <= x

\* The words of a block in use are in no free block and not in a block given back.
LEMMA OtherWords ==
  ASSUME NEW end \in Nat, NEW m \in [Arena(end) -> Words], NEW V, NEW u, u \notin V,
         NEW first, NEW last, NEW F, WholeList(F, m, V \cup {u}, end, first, last),
         NEW h, NEW t, Spans(u, h, t),
         NEW v \in V, NEW x \in Nat, v.lo <= x, x < v.hi
  PROVE  Elsewhere(F, end, h, t, x)
<1>1. /\ v.lo \in Nat /\ v.hi \in Nat /\ Base <= v.lo /\ v.hi <= end
      /\ v.hi <= u.lo \/ u.hi <= v.lo
  BY DEF WholeList, Tiles
<1>2. x \in Arena(end) /\ x # 0
  BY <1>1, BaseType, ArenaWords
<1>3. x < h \/ t <= x
  <2>1. h \in Nat /\ t \in Nat
    BY GivenFacts
  <2>2. v.hi <= h \/ t <= v.lo
    BY <1>1 DEF Spans
  <2> QED BY <1>1, <2>1, <2>2
<1>4. ASSUME NEW a \in F PROVE x < a \/ a + 3 <= x
  <2>1. InList(F, m, V \cup {u}, end, first, last, a)
    BY ListFacts
  <2>2. a \in Nat /\ m[a + 2] \in Nat /\ 3 <= m[a + 2] /\ (v.hi <= a \/ a + m[a + 2] <= v.lo)
    BY <2>1 DEF InList
  <2> QED BY <1>1, <2>2
<1> QED BY <1>2, <1>3, <1>4 DEF Elsewhere

\* m1 is m with h linked in between p and n, as a block up to t.
InsertedWords(m, m1, end, p, h, n) ==
  \A x \in Arena(end) : x < h \/ h + 3 <= x =>
    m1[x] = IF x = p THEN h ELSE IF n # 0 /\ x = n + 1 THEN h ELSE m[x]
Inserted(m, m1, end, p, h, n, t, first, last, first1, last1) ==
  /\ InsertedWords(m, m1, end, p, h, n)
  /\ m1[h] = n /\ m1[h + 1] = p /\ m1[h + 2] = t - h
  /\ first1 = IF p = 0 THEN h ELSE first
  /\ last1 = IF n = 0 THEN h ELSE last

\* Giving back a block that touches no free one.
LEMMA GiveApart ==
  ASSUME NEW end \in Nat, NEW m \in [Arena(end) -> Words], NEW V, NEW u, u \notin V,
         NEW first, NEW last, NEW F, WholeList(F, m, V \cup {u}, end, first, last),
         NEW h, NEW t, Spans(u, h, t),
         NEW p, IsPrev(F, h, p), p # 0 => p + m[p + 2] # h,
         NEW n, IsNext(F, h, n), n # t,
         NEW m1, NEW first1, NEW last1,
         Inserted(m, m1, end, p, h, n, t, first, last, first1, last1)
  PROVE  /\ WholeList(Starts(V, end), m1, V, end, first1, last1)
         /\ WordsKept(V, m, m1)
<1>1. /\ h \in Nat /\ h # 0 /\ t \in Nat /\ Base <= h /\ h + 3 <= t /\ t <= end
      /\ \A a \in F : a + m[a + 2] <= h \/ t <= a
  BY GivenFacts
<1>2. ASSUME NEW a \in F
      PROVE  /\ a \in Nat /\ a # 0
             /\ a \in Arena(end) /\ a + 1 \in Arena(end) /\ a + 2 \in Arena(end)
             /\ m[a] \in Nat /\ m[a + 1] \in Nat /\ m[a + 2] \in Nat /\ 3 <= m[a + 2]
             /\ \A b \in F : a < b => a + m[a + 2] < b
             /\ \A b \in F : a # b => a + 3 <= b \/ b + 3 <= a
  BY FreeFacts
<1>3. /\ p \in F \cup {0} /\ n \in F \cup {0} /\ (p # 0 => p < h) /\ (n # 0 => h < n)
      /\ \A b \in F : (p = 0 => h <= b) /\ (p # 0 => b <= p \/ h <= b)
      /\ \A b \in F : (n = 0 => b <= h) /\ (n # 0 => b <= h \/ n <= b)
  BY DEF IsPrev, IsNext
<1>4. /\ m1[h] = n /\ m1[h + 1] = p /\ m1[h + 2] = t - h
      /\ first1 = IF p = 0 THEN h ELSE first
      /\ last1 = IF n = 0 THEN h ELSE last
  BY <1>1 DEF Inserted
<1>5. \A x \in Arena(end) : x < h \/ h + 3 <= x =>
        m1[x] = IF x = p THEN h ELSE IF n # 0 /\ x = n + 1 THEN h ELSE m[x]
  BY DEF Inserted, InsertedWords
<1>6. ASSUME NEW a \in F
      PROVE  /\ m1[a] = IF a = p THEN h ELSE m[a]
             /\ m1[a + 1] = IF a = n THEN h ELSE m[a + 1]
             /\ m1[a + 2] = m[a + 2]
  <2>1. a + 3 <= h \/ h + 3 <= a
    BY <1>1, <1>2
  <2>2. /\ n # 0 => a # n + 1 /\ a + 2 # n + 1
        /\ a + 1 # p /\ a + 2 # p
    BY <1>2, <1>3
  <2>3. m1[a] = IF a = p THEN h ELSE m[a]
    BY <1>1, <1>2, <1>5, <2>1, <2>2
  <2>4. m1[a + 1] = IF a = n THEN h ELSE m[a + 1]
    <3>1. a + 1 \in Arena(end) /\ (a + 1 < h \/ h + 3 <= a + 1)
      BY <1>1, <1>2, <2>1
    <3>2. a \in Nat /\ a # 0 /\ n \in Nat
      BY <1>2, <1>3
    <3>3. m1[a + 1] = IF a + 1 = p THEN h ELSE IF n # 0 /\ a + 1 = n + 1 THEN h ELSE m[a + 1]
      BY <1>5, <3>1
    <3> QED BY <2>2, <3>2, <3>3
  <2>5. m1[a + 2] = m[a + 2]
    <3>1. a + 2 \in Arena(end) /\ (a + 2 < h \/ h + 3 <= a + 2)
      BY <1>1, <1>2, <2>1
    <3> QED BY <1>5, <2>2, <3>1
  <2> QED BY <2>3, <2>4, <2>5
<1>7. WordsKept(V, m, m1)
  <2> SUFFICES ASSUME NEW v \in V, NEW x \in Nat, v.lo <= x, x < v.hi PROVE m1[x] = m[x]
    BY DEF WordsKept
  <2>1. /\ x \in Arena(end) /\ x # 0 /\ (x < h \/ t <= x)
        /\ \A a \in F : x < a \/ a + 3 <= x
    <3>1. Elsewhere(F, end, h, t, x)
      BY OtherWords
    <3> QED BY <3>1 DEF Elsewhere
  <2>2. x # p /\ (n # 0 => x # n + 1)
    BY <1>2, <1>3, <2>1
  <2> QED BY <1>1, <1>5, <2>1, <2>2
<1> DEFINE F1 == F \cup {h}
<1>8. \A a \in F : a + m[a + 2] # h
  BY <1>1, <1>2, <1>3
<1>9. t \notin F
  BY <1>1, <1>2, <1>3
<1>10. h \notin F
  BY <1>1, <1>2
<1>11. Tiles(F1, Ends(F1, m1), V, end)
  <2> DEFINE e == Ends(F, m)
             e1 == Ends(F1, m1)
  <2>1. Tiles(F, e, V \cup {u}, end)
    BY DEF WholeList
  <2>2. \A a \in F : e[a] # h /\ e1[a] = e[a]
    BY <1>6, <1>8 DEF Ends
  <2>3. e1[h] = t
    BY <1>1, <1>4 DEF Ends
  <2> HIDE DEF e, e1, F1
  <2>4. LowEnd(F, e, h, h)
    BY <2>2 DEF LowEnd
  <2>7. HighEnd(F, e, t, t)
    BY <1>9 DEF HighEnd
  <2>5. Tiles((F \ {t}) \cup {h}, e1, V, end)
    BY <2>1, <2>2, <2>3, <2>4, <2>7, GiveTiles
  <2>6. (F \ {t}) \cup {h} = F1
    BY <1>9 DEF F1
  <2> QED BY <2>5, <2>6 DEF e1
<1>12. Linked(F1, Nexts(F1, m1), Prevs(F1, m1), first1, last1)
  <2> DEFINE nx == Nexts(F, m)
             pv == Prevs(F, m)
             nx1 == Nexts(F1, m1)
             pv1 == Prevs(F1, m1)
  <2>1. Linked(F, nx, pv, first, last)
    BY DEF WholeList
  <2>2. \A a \in F : /\ nx[a] = m[a] /\ pv[a] = m[a + 1]
                     /\ nx1[a] = m1[a] /\ pv1[a] = m1[a + 1]
    BY DEF Nexts, Prevs
  <2>3. nx1[h] = n /\ pv1[h] = p
    BY <1>4 DEF Nexts, Prevs
  <2> HIDE DEF nx, pv, nx1, pv1, F1
  <2>4. \A a \in F : /\ nx1[a] = IF a = p THEN h ELSE nx[a]
                     /\ pv1[a] = IF a = n THEN h ELSE pv[a]
    BY <1>6, <2>2
  <2>5. Joined(F, nx, pv, first, last, p, h, n, nx1, pv1, first1, last1)
    BY <1>4, <2>3, <2>4 DEF Joined
  <2>6. Linked(F \cup {h}, nx1, pv1, first1, last1)
    BY <1>1, <1>10, <2>1, <2>5, LinkInsert
  <2> QED BY <2>6 DEF F1, nx1, pv1
<1>13. WholeList(F1, m1, V, end, first1, last1)
  BY <1>11, <1>12 DEF WholeList
<1> HIDE DEF F1
<1>14. F1 = Starts(V, end)
  BY <1>13, ListStarts
<1> QED BY <1>7, <1>13, <1>14

\* m1 is m with p longer, up to t.
Lengthened(m, m1, end, p, t) ==
  /\ m1[p + 2] = t - p
  /\ \A x \in Arena(end) : x # p + 2 => m1[x] = m[x]

\* Giving back a block that only the free block p below it touches.
LEMMA GiveLeft ==
  ASSUME NEW end \in Nat, NEW m \in [Arena(end) -> Words], NEW V, NEW u, u \notin V,
         NEW first, NEW last, NEW F, WholeList(F, m, V \cup {u}, end, first, last),
         NEW h, NEW t, Spans(u, h, t), t \notin F,
         NEW p \in F, p + m[p + 2] = h,
         NEW m1, Lengthened(m, m1, end, p, t)
  PROVE  /\ WholeList(Starts(V, end), m1, V, end, first, last)
         /\ WordsKept(V, m, m1)
<1>1. /\ h \in Nat /\ h # 0 /\ t \in Nat /\ Base <= h /\ h + 3 <= t /\ t <= end
  BY GivenFacts
<1>2. ASSUME NEW a \in F
      PROVE  /\ a \in Nat /\ a # 0
             /\ a \in Arena(end) /\ a + 1 \in Arena(end) /\ a + 2 \in Arena(end)
             /\ m[a] \in Nat /\ m[a + 1] \in Nat /\ m[a + 2] \in Nat
             /\ \A b \in F : a # b => a + 3 <= b \/ b + 3 <= a
  BY FreeFacts
<1>3. m1[p + 2] = t - p
  BY DEF Lengthened
<1>4. ASSUME NEW a \in F
      PROVE  m1[a] = m[a] /\ m1[a + 1] = m[a + 1] /\ (a # p => m1[a + 2] = m[a + 2])
  <2>1. a # p + 2 /\ a + 1 # p + 2 /\ (a # p => a + 2 # p + 2)
    BY <1>2
  <2> QED BY <1>2, <2>1 DEF Lengthened
<1>5. WordsKept(V, m, m1)
  <2> SUFFICES ASSUME NEW v \in V, NEW x \in Nat, v.lo <= x, x < v.hi PROVE m1[x] = m[x]
    BY DEF WordsKept
  <2>1. /\ x \in Arena(end) /\ x # 0 /\ (x < h \/ t <= x)
        /\ \A a \in F : x < a \/ a + 3 <= x
    <3>1. Elsewhere(F, end, h, t, x)
      BY OtherWords
    <3> QED BY <3>1 DEF Elsewhere
  <2>2. x # p + 2
    BY <1>2, <2>1
  <2> QED BY <2>1, <2>2 DEF Lengthened
<1>6. Tiles(F, Ends(F, m1), V, end)
  <2> DEFINE e == Ends(F, m)
             e1 == Ends(F, m1)
  <2>1. Tiles(F, e, V \cup {u}, end)
    BY DEF WholeList
  <2>2. \A a \in F : a # p => e1[a] = e[a]
    BY <1>4 DEF Ends
  <2>3. e1[p] = t /\ e[p] = h
    BY <1>1, <1>2, <1>3 DEF Ends
  <2> HIDE DEF e, e1
  <2>4. LowEnd(F, e, h, p)
    BY <2>3 DEF LowEnd
  <2>5. HighEnd(F, e, t, t)
    BY DEF HighEnd
  <2>6. Tiles((F \ {t}) \cup {p}, e1, V, end)
    BY <2>1, <2>2, <2>3, <2>4, <2>5, GiveTiles
  <2>7. (F \ {t}) \cup {p} = F
    OBVIOUS
  <2> QED BY <2>6, <2>7 DEF e1
<1>7. Linked(F, Nexts(F, m1), Prevs(F, m1), first, last)
  <2>1. Nexts(F, m1) = Nexts(F, m) /\ Prevs(F, m1) = Prevs(F, m)
    BY <1>4 DEF Nexts, Prevs
  <2> QED BY <2>1 DEF WholeList
<1>8. WholeList(F, m1, V, end, first, last)
  BY <1>6, <1>7 DEF WholeList
<1>9. F = Starts(V, end)
  BY <1>8, ListStarts
<1> QED BY <1>5, <1>8, <1>9

\* m1 is m with heir, up to the end of the free block t, in the list in its place.
Replaced(m, m1, end, heir, t, first, last, first1, last1) ==
  /\ InsertedWords(m, m1, end, m[t + 1], heir, m[t])
  /\ m1[heir] = m[t] /\ m1[heir + 1] = m[t + 1] /\ m1[heir + 2] = t + m[t + 2] - heir
  /\ first1 = IF m[t + 1] = 0 THEN heir ELSE first
  /\ last1 = IF m[t] = 0 THEN heir ELSE last

\* Giving back a block that only the free block t above it touches.
LEMMA GiveRight ==
  ASSUME NEW end \in Nat, NEW m \in [Arena(end) -> Words], NEW V, NEW u, u \notin V,
         NEW first, NEW last, NEW F, WholeList(F, m, V \cup {u}, end, first, last),
         NEW h, NEW t, Spans(u, h, t), t \in F,
         m[t + 1] # 0 => m[t + 1] + m[m[t + 1] + 2] # h,
         NEW m1, NEW first1, NEW last1,
         Replaced(m, m1, end, h, t, first, last, first1, last1)
  PROVE  /\ WholeList(Starts(V, end), m1, V, end, first1, last1)
         /\ WordsKept(V, m, m1)
<1> DEFINE p == m[t + 1]
           n == m[t]
<1>1. /\ h \in Nat /\ h # 0 /\ t \in Nat /\ Base <= h /\ h + 3 <= t /\ t <= end
      /\ \A a \in F : a + m[a + 2] <= h \/ t <= a
  BY GivenFacts
<1>2. ASSUME NEW a \in F
      PROVE  /\ a \in Nat /\ a # 0
             /\ a \in Arena(end) /\ a + 1 \in Arena(end) /\ a + 2 \in Arena(end)
             /\ m[a] \in Nat /\ m[a + 1] \in Nat /\ m[a + 2] \in Nat /\ 3 <= m[a + 2]
             /\ \A b \in F : a < b => a + m[a + 2] < b
             /\ \A b \in F : a # b => a + 3 <= b \/ b + 3 <= a
  BY FreeFacts
<1>3. /\ p \in F \cup {0} /\ n \in F \cup {0} /\ (p # 0 => p < t) /\ (n # 0 => t < n)
      /\ \A b \in F : (p = 0 => t <= b) /\ (p # 0 => b <= p \/ t <= b)
  <2>1. Linked(F, Nexts(F, m), Prevs(F, m), first, last)
    BY DEF WholeList
  <2>2. IsNext(F, t, Nexts(F, m)[t]) /\ IsPrev(F, t, Prevs(F, m)[t])
    BY <2>1 DEF Linked
  <2>3. Nexts(F, m)[t] = n /\ Prevs(F, m)[t] = p
    BY DEF Nexts, Prevs
  <2>4. IsNext(F, t, n) /\ IsPrev(F, t, p)
    BY <2>2, <2>3
  <2> HIDE DEF n, p
  <2> QED BY <2>4 DEF IsNext, IsPrev
<1>4. /\ m1[h] = n /\ m1[h + 1] = p /\ m1[h + 2] = t + m[t + 2] - h
      /\ first1 = IF p = 0 THEN h ELSE first
      /\ last1 = IF n = 0 THEN h ELSE last
  BY <1>1, <1>2 DEF Replaced
<1>5. \A x \in Arena(end) : x < h \/ h + 3 <= x =>
        m1[x] = IF x = p THEN h ELSE IF n # 0 /\ x = n + 1 THEN h ELSE m[x]
  BY DEF Replaced, InsertedWords
<1> HIDE DEF p, n
<1>6. ASSUME NEW a \in F
      PROVE  /\ m1[a] = IF a = p THEN h ELSE m[a]
             /\ m1[a + 1] = IF a = n THEN h ELSE m[a + 1]
             /\ m1[a + 2] = m[a + 2]
  <2>1. a + 3 <= h \/ h + 3 <= a
    BY <1>1, <1>2
  <2>2. /\ n # 0 => a # n + 1 /\ a + 2 # n + 1
        /\ a + 1 # p /\ a + 2 # p
    BY <1>2, <1>3
  <2>3. m1[a] = IF a = p THEN h ELSE m[a]
    BY <1>1, <1>2, <1>5, <2>1, <2>2
  <2>4. m1[a + 1] = IF a = n THEN h ELSE m[a + 1]
    <3>1. a + 1 \in Arena(end) /\ (a + 1 < h \/ h + 3 <= a + 1)
      BY <1>1, <1>2, <2>1
    <3>2. a \in Nat /\ a # 0 /\ n \in Nat
      BY <1>2, <1>3
    <3>3. m1[a + 1] = IF a + 1 = p THEN h ELSE IF n # 0 /\ a + 1 = n + 1 THEN h ELSE m[a + 1]
      BY <1>5, <3>1
    <3> QED BY <2>2, <3>2, <3>3
  <2>5. m1[a + 2] = m[a + 2]
    <3>1. a + 2 \in Arena(end) /\ (a + 2 < h \/ h + 3 <= a + 2)
      BY <1>1, <1>2, <2>1
    <3> QED BY <1>5, <2>2, <3>1
  <2> QED BY <2>3, <2>4, <2>5
<1>7. WordsKept(V, m, m1)
  <2> SUFFICES ASSUME NEW v \in V, NEW x \in Nat, v.lo <= x, x < v.hi PROVE m1[x] = m[x]
    BY DEF WordsKept
  <2>1. /\ x \in Arena(end) /\ x # 0 /\ (x < h \/ t <= x)
        /\ \A a \in F : x < a \/ a + 3 <= x
    <3>1. Elsewhere(F, end, h, t, x)
      BY OtherWords
    <3> QED BY <3>1 DEF Elsewhere
  <2>2. x # p /\ (n # 0 => x # n + 1)
    BY <1>2, <1>3, <2>1
  <2> QED BY <1>1, <1>5, <2>1, <2>2
<1> DEFINE F1 == (F \ {t}) \cup {h}
<1>8. \A a \in F : a + m[a + 2] # h
  <2> SUFFICES ASSUME NEW a \in F, a + m[a + 2] = h PROVE FALSE
    OBVIOUS
  <2>1. a < t /\ p # 0 /\ a <= p /\ p < t
    BY <1>1, <1>2, <1>3
  <2>2. p + m[p + 2] # h
    BY <2>1 DEF p
  <2>3. p \in F /\ a < p
    BY <1>2, <1>3, <2>1, <2>2
  <2>4. p + m[p + 2] <= h \/ t <= p
    BY <1>1, <2>3
  <2> QED BY <1>1, <1>2, <2>1, <2>3, <2>4
<1>9. h \notin F
  BY <1>1, <1>2
<1>10. \A a \in F \ {t} : (a < t /\ a < h) \/ (t < a /\ h < a)
  BY <1>1, <1>2
<1>11. Tiles(F1, Ends(F1, m1), V, end)
  <2> DEFINE e == Ends(F, m)
             e1 == Ends(F1, m1)
  <2>1. Tiles(F, e, V \cup {u}, end)
    BY DEF WholeList
  <2>2. \A a \in F : a # t => e1[a] = e[a]
    BY <1>6 DEF Ends
  <2>3. \A a \in F : e[a] # h
    BY <1>8 DEF Ends
  <2>4. e1[h] = t + m[t + 2] /\ e[t] = t + m[t + 2]
    BY <1>1, <1>2, <1>4 DEF Ends
  <2> HIDE DEF e, e1, F1
  <2>5. LowEnd(F, e, h, h)
    BY <2>3 DEF LowEnd
  <2>6. HighEnd(F, e, t, e[t])
    BY DEF HighEnd
  <2>7. Tiles((F \ {t}) \cup {h}, e1, V, end)
    BY <2>1, <2>2, <2>4, <2>5, <2>6, GiveTiles
  <2> QED BY <2>7 DEF e1, F1
<1>12. Linked(F1, Nexts(F1, m1), Prevs(F1, m1), first1, last1)
  <2> DEFINE nx == Nexts(F, m)
             pv == Prevs(F, m)
             nx1 == Nexts(F1, m1)
             pv1 == Prevs(F1, m1)
  <2>1. Linked(F, nx, pv, first, last)
    BY DEF WholeList
  <2>2. \A a \in F : nx[a] = m[a] /\ pv[a] = m[a + 1]
    BY DEF Nexts, Prevs
  <2>3. \A a \in F \ {t} : nx1[a] = m1[a] /\ pv1[a] = m1[a + 1]
    BY DEF Nexts, Prevs
  <2>4. nx1[h] = n /\ pv1[h] = p
    BY <1>4 DEF Nexts, Prevs
  <2>5. nx[t] = n /\ pv[t] = p
    BY <2>2 DEF n, p
  <2> HIDE DEF nx, pv, nx1, pv1, F1
  <2>6. \A a \in F \ {t} : /\ nx1[a] = IF a = pv[t] THEN h ELSE nx[a]
                           /\ pv1[a] = IF a = nx[t] THEN h ELSE pv[a]
    BY <1>6, <2>2, <2>3, <2>5
  <2>7. Bypassed(F, nx, pv, first, last, t, h, h, nx1, pv1, first1, last1)
    BY <1>4, <2>5, <2>6 DEF Bypassed
  <2>8. nx1[h] = nx[t] /\ pv1[h] = pv[t] /\ h \in Nat \ {0}
    BY <1>1, <2>4, <2>5
  <2>9. Linked((F \ {t}) \cup {h}, nx1, pv1, first1, last1)
    BY <1>9, <1>10, <2>1, <2>7, <2>8, LinkReplace
  <2> QED BY <2>9 DEF F1, nx1, pv1
<1>13. WholeList(F1, m1, V, end, first1, last1)
  BY <1>11, <1>12 DEF WholeList
<1> HIDE DEF F1
<1>14. F1 = Starts(V, end)
  BY <1>13, ListStarts
<1> QED BY <1>7, <1>13, <1>14

\* m1 is m with p reaching to the end of the free block t, which leaves the list.
Bridged(m, m1, end, p, t, last, last1) ==
  /\ m1[p + 2] = t + m[t + 2] - p
  /\ \A x \in Arena(end) : x # p + 2 =>
       m1[x] = IF x = p THEN m[t] ELSE IF m[t] # 0 /\ x = m[t] + 1 THEN p ELSE m[x]
  /\ last1 = IF m[t] = 0 THEN p ELSE last

\* Giving back a block between two free ones.
LEMMA GiveBoth ==
  ASSUME NEW end \in Nat, NEW m \in [Arena(end) -> Words], NEW V, NEW u, u \notin V,
         NEW first, NEW last, NEW F, WholeList(F, m, V \cup {u}, end, first, last),
         NEW h, NEW t, Spans(u, h, t), t \in F,
         NEW p \in F, p + m[p + 2] = h,
         NEW m1, NEW last1, Bridged(m, m1, end, p, t, last, last1)
  PROVE  /\ WholeList(Starts(V, end), m1, V, end, first, last1)
         /\ WordsKept(V, m, m1)
<1> DEFINE n == m[t]
<1>1. /\ h \in Nat /\ h # 0 /\ t \in Nat /\ Base <= h /\ h + 3 <= t /\ t <= end
      /\ \A a \in F : a + m[a + 2] <= h \/ t <= a
  BY GivenFacts
<1>2. ASSUME NEW a \in F
      PROVE  /\ a \in Nat /\ a # 0
             /\ a \in Arena(end) /\ a + 1 \in Arena(end) /\ a + 2 \in Arena(end)
             /\ m[a] \in Nat /\ m[a + 1] \in Nat /\ m[a + 2] \in Nat /\ 3 <= m[a + 2]
             /\ \A b \in F : a < b => a + m[a + 2] < b
             /\ \A b \in F : a # b => a + 3 <= b \/ b + 3 <= a
  BY FreeFacts
<1>3. /\ n \in F \cup {0} /\ (n # 0 => t < n)
      /\ m[t + 1] = p /\ p < h
  <2>1. Linked(F, Nexts(F, m), Prevs(F, m), first, last)
    BY DEF WholeList
  <2>2. IsNext(F, t, Nexts(F, m)[t]) /\ IsPrev(F, t, Prevs(F, m)[t])
    BY <2>1 DEF Linked
  <2>3. Nexts(F, m)[t] = n /\ Prevs(F, m)[t] = m[t + 1]
    BY DEF Nexts, Prevs
  <2>4. IsNext(F, t, n) /\ IsPrev(F, t, m[t + 1])
    BY <2>2, <2>3
  <2>5. p < h
    BY <1>1, <1>2
  <2> DEFINE q == m[t + 1]
  <2> HIDE DEF n, q
  <2>6. IsPrev(F, t, q)
    BY <2>4 DEF q
  <2>7. q # 0 /\ q \in F /\ q < t /\ \A b \in F : b <= q \/ t <= b
    BY <1>1, <1>2, <2>5, <2>6 DEF IsPrev
  <2>8. p <= q
    BY <1>1, <1>2, <2>5, <2>7
  <2>9. q + m[q + 2] <= h
    BY <1>1, <1>2, <2>7
  <2>10. ~(p < q)
    BY <1>1, <1>2, <2>7, <2>9
  <2>11. p = q
    BY <1>2, <2>7, <2>8, <2>10
  <2> QED BY <2>4, <2>5, <2>11 DEF IsNext, q
<1>4. m1[p + 2] = t + m[t + 2] - p /\ last1 = IF n = 0 THEN p ELSE last
  BY <1>1, <1>2 DEF Bridged
<1>5. \A x \in Arena(end) : x # p + 2 =>
        m1[x] = IF x = p THEN n ELSE IF n # 0 /\ x = n + 1 THEN p ELSE m[x]
  BY DEF Bridged
<1> HIDE DEF n
<1>6. ASSUME NEW a \in F
      PROVE  /\ m1[a] = IF a = p THEN n ELSE m[a]
             /\ m1[a + 1] = IF a = n THEN p ELSE m[a + 1]
             /\ a # p => m1[a + 2] = m[a + 2]
  <2>1. a # p + 2 /\ a + 1 # p + 2 /\ (a # p => a + 2 # p + 2)
    BY <1>2
  <2>2. /\ n # 0 => a # n + 1 /\ a + 2 # n + 1
        /\ a + 1 # p /\ a + 2 # p
    BY <1>2, <1>3
  <2>3. m1[a] = IF a = p THEN n ELSE m[a]
    BY <1>2, <1>5, <2>1, <2>2
  <2>4. m1[a + 1] = IF a = n THEN p ELSE m[a + 1]
    <3>1. a \in Nat /\ a # 0 /\ n \in Nat /\ a + 1 \in Arena(end)
      BY <1>2, <1>3
    <3>2. m1[a + 1] = IF a + 1 = p THEN n ELSE IF n # 0 /\ a + 1 = n + 1 THEN p ELSE m[a + 1]
      BY <1>5, <2>1, <3>1
    <3> QED BY <2>2, <3>1, <3>2
  <2>5. a # p => m1[a + 2] = m[a + 2]
    BY <1>2, <1>5, <2>1, <2>2
  <2> QED BY <2>3, <2>4, <2>5
<1>7. WordsKept(V, m, m1)
  <2> SUFFICES ASSUME NEW v \in V, NEW x \in Nat, v.lo <= x, x < v.hi PROVE m1[x] = m[x]
    BY DEF WordsKept
  <2>1. /\ x \in Arena(end) /\ x # 0 /\ (x < h \/ t <= x)
        /\ \A a \in F : x < a \/ a + 3 <= x
    <3>1. Elsewhere(F, end, h, t, x)
      BY OtherWords
    <3> QED BY <3>1 DEF Elsewhere
  <2>2. x # p /\ x # p + 2 /\ (n # 0 => x # n + 1)
    BY <1>2, <1>3, <2>1
  <2> QED BY <1>5, <2>1, <2>2
<1> DEFINE F1 == F \ {t}
<1>8. p \in F1 /\ p # t
  BY <1>1, <1>2, <1>3
<1>9. Tiles(F1, Ends(F1, m1), V, end)
  <2> DEFINE e == Ends(F, m)
             e1 == Ends(F1, m1)
  <2>1. Tiles(F, e, V \cup {u}, end)
    BY DEF WholeList
  <2>2. \A a \in F : a # p /\ a # t => e1[a] = e[a]
    BY <1>6 DEF Ends
  <2>3. e1[p] = t + m[t + 2] /\ e[t] = t + m[t + 2] /\ e[p] = h
    BY <1>1, <1>2, <1>4, <1>8 DEF Ends
  <2> HIDE DEF e, e1
  <2>4. LowEnd(F, e, h, p)
    BY <2>3 DEF LowEnd
  <2>5. HighEnd(F, e, t, e[t])
    BY DEF HighEnd
  <2>6. Tiles((F \ {t}) \cup {p}, e1, V, end)
    <3> HIDE DEF F1
    <3> QED BY <2>1, <2>2, <2>3, <2>4, <2>5, GiveTiles
  <2>7. (F \ {t}) \cup {p} = F1
    BY <1>8
  <2> QED BY <2>6, <2>7 DEF e1
<1>10. Linked(F1, Nexts(F1, m1), Prevs(F1, m1), first, last1)
  <2> DEFINE nx == Nexts(F, m)
             pv == Prevs(F, m)
             nx1 == Nexts(F1, m1)
             pv1 == Prevs(F1, m1)
  <2>1. Linked(F, nx, pv, first, last)
    BY DEF WholeList
  <2>2. \A a \in F : nx[a] = m[a] /\ pv[a] = m[a + 1]
    BY DEF Nexts, Prevs
  <2>3. \A a \in F \ {t} : nx1[a] = m1[a] /\ pv1[a] = m1[a + 1]
    BY DEF Nexts, Prevs
  <2>4. nx[t] = n /\ pv[t] = p
    BY <1>3, <2>2 DEF n
  <2> HIDE DEF nx, pv, nx1, pv1
  <2>5. \A a \in F \ {t} : /\ nx1[a] = IF a = pv[t] THEN nx[t] ELSE nx[a]
                           /\ pv1[a] = IF a = nx[t] THEN pv[t] ELSE pv[a]
    BY <1>6, <2>2, <2>3, <2>4
  <2>6. pv[t] # 0
    BY <1>2, <2>4
  <2>7. Bypassed(F, nx, pv, first, last, t, nx[t], pv[t], nx1, pv1, first, last1)
    BY <1>4, <2>4, <2>5, <2>6 DEF Bypassed
  <2> HIDE DEF F1
  <2>8. Linked(F \ {t}, nx1, pv1, first, last1)
    BY <2>1, <2>7, LinkRemove
  <2> QED BY <2>8 DEF F1, nx1, pv1
<1>11. WholeList(F1, m1, V, end, first, last1)
  BY <1>9, <1>10 DEF WholeList
<1> HIDE DEF F1
<1>12. F1 = Starts(V, end)
  BY <1>11, ListStarts
<1> QED BY <1>7, <1>11, <1>12

\* Growing the arena by lengthening the free block at its end.
LEMMA GrowLast ==
  ASSUME NEW end \in Nat, NEW m \in [Arena(end) -> Words], NEW U,
         NEW first, NEW last, NEW F, WholeList(F, m, U, end, first, last),
         NEW p \in F, p + m[p + 2] = end,
         NEW end1 \in Nat, end < end1, NEW m1, Lengthened(m, m1, end, p, end1)
  PROVE  /\ WholeList(Starts(U, end1), m1, U, end1, first, last)
         /\ WordsKept(U, m, m1)
<1>2. ASSUME NEW a \in F
      PROVE  /\ a \in Nat /\ a # 0 /\ Base <= a
             /\ a \in Arena(end) /\ a + 1 \in Arena(end) /\ a + 2 \in Arena(end)
             /\ m[a + 2] \in Nat /\ 3 <= m[a + 2]
             /\ \A b \in F : a # b => a + 3 <= b \/ b + 3 <= a
             /\ \A u \in U : u.hi <= a \/ a + m[a + 2] <= u.lo
  <2>1. InList(F, m, U, end, first, last, a)
    BY ListFacts
  <2>2. \A b \in F : a # b => a + 3 <= b \/ b + 3 <= a
    BY FreeFacts
  <2> QED BY <2>1, <2>2 DEF InList
<1>3. m1[p + 2] = end1 - p /\ end1 - p \in Nat /\ p + 3 <= end1 /\ Base <= end
  BY <1>2, BaseType DEF Lengthened
<1>4. ASSUME NEW a \in F
      PROVE  m1[a] = m[a] /\ m1[a + 1] = m[a + 1] /\ (a # p => m1[a + 2] = m[a + 2])
  <2>1. a # p + 2 /\ a + 1 # p + 2 /\ (a # p => a + 2 # p + 2)
    BY <1>2
  <2> QED BY <1>2, <2>1 DEF Lengthened
<1>5. WordsKept(U, m, m1)
  <2> SUFFICES ASSUME NEW v \in U, NEW x \in Nat, v.lo <= x, x < v.hi PROVE m1[x] = m[x]
    BY DEF WordsKept
  <2>1. v.lo \in Nat /\ v.hi \in Nat /\ Base <= v.lo /\ v.hi <= end
    BY DEF WholeList, Tiles
  <2>2. x \in Arena(end)
    BY <2>1, BaseType, ArenaWords
  <2>3. x < p \/ p + 3 <= x
    BY <1>2, <2>1
  <2>4. x # p + 2
    BY <1>2, <2>3
  <2> QED BY <2>2, <2>4 DEF Lengthened
<1>6. Tiles(F, Ends(F, m1), U, end1)
  <2> DEFINE e == Ends(F, m)
             e1 == Ends(F, m1)
  <2>1. Tiles(F, e, U, end)
    BY DEF WholeList
  <2>2. \A a \in F : a # p => e1[a] = e[a]
    BY <1>4 DEF Ends
  <2>3. e1[p] = end1 /\ e[p] = end
    BY <1>2, <1>3 DEF Ends
  <2> HIDE DEF e, e1
  <2>4. LowEnd(F, e, end, p)
    BY <2>3 DEF LowEnd
  <2>5. Tiles(F \cup {p}, e1, U, end1)
    BY <1>3, <2>1, <2>2, <2>3, <2>4, GrowTiles
  <2>6. F \cup {p} = F
    OBVIOUS
  <2> QED BY <2>5, <2>6 DEF e1
<1>7. Linked(F, Nexts(F, m1), Prevs(F, m1), first, last)
  <2>1. Nexts(F, m1) = Nexts(F, m) /\ Prevs(F, m1) = Prevs(F, m)
    BY <1>4 DEF Nexts, Prevs
  <2> QED BY <2>1 DEF WholeList
<1>8. WholeList(F, m1, U, end1, first, last)
  BY <1>6, <1>7 DEF WholeList
<1>9. F = Starts(U, end1)
  BY <1>8, ListStarts
<1> QED BY <1>5, <1>8, <1>9

\* m1 is m with a free block at end, up to end1, linked in after last.
Appended(m, m1, end, end1, last) ==
  /\ m1[end] = 0 /\ m1[end + 1] = last /\ m1[end + 2] = end1 - end
  /\ \A x \in Arena(end) : m1[x] = IF x = last THEN end ELSE m[x]

\* Growing the arena by a free block of its own.
LEMMA GrowNew ==
  ASSUME NEW end \in Nat, NEW m \in [Arena(end) -> Words], NEW U, Base + 3 <= end,
         NEW first, NEW last, NEW F, WholeList(F, m, U, end, first, last),
         last # 0 => last + m[last + 2] # end,
         NEW end1 \in Nat, end + 3 <= end1, NEW m1, Appended(m, m1, end, end1, last),
         NEW first1, first1 = IF last = 0 THEN end ELSE first
  PROVE  /\ WholeList(Starts(U, end1), m1, U, end1, first1, end)
         /\ WordsKept(U, m, m1)
         /\ end \in Starts(U, end1)
<1>1. end # 0 /\ Base <= end
  BY BaseType
<1>2. ASSUME NEW a \in F
      PROVE  /\ a \in Nat /\ a # 0 /\ Base <= a
             /\ a \in Arena(end) /\ a + 1 \in Arena(end) /\ a + 2 \in Arena(end)
             /\ m[a + 2] \in Nat /\ 3 <= m[a + 2] /\ a + m[a + 2] <= end
             /\ last \in F /\ a <= last /\ \A b \in F : a < b => a + m[a + 2] < b
             /\ \A b \in F : a # b => a + 3 <= b \/ b + 3 <= a
             /\ \A u \in U : u.hi <= a \/ a + m[a + 2] <= u.lo
  <2>1. InList(F, m, U, end, first, last, a)
    BY ListFacts
  <2>2. \A b \in F : a # b => a + 3 <= b \/ b + 3 <= a
    BY FreeFacts
  <2> QED BY <2>1, <2>2 DEF InList
<1>3. last \in F \cup {0} /\ (last = 0 => F = {})
  BY <1>2 DEF WholeList, Linked
<1>4. ASSUME NEW a \in F PROVE a + m[a + 2] # end /\ a < end
  BY <1>2, <1>3
<1>5. ASSUME NEW a \in F
      PROVE  /\ m1[a] = IF a = last THEN end ELSE m[a]
             /\ m1[a + 1] = m[a + 1] /\ m1[a + 2] = m[a + 2]
  <2>1. a + 1 # last /\ a + 2 # last
    BY <1>2, <1>3
  <2> QED BY <1>2, <2>1 DEF Appended
<1>6. WordsKept(U, m, m1)
  <2> SUFFICES ASSUME NEW v \in U, NEW x \in Nat, v.lo <= x, x < v.hi PROVE m1[x] = m[x]
    BY DEF WordsKept
  <2>1. v.lo \in Nat /\ v.hi \in Nat /\ Base <= v.lo /\ v.hi <= end
    BY DEF WholeList, Tiles
  <2>2. x \in Arena(end) /\ x # 0
    BY <2>1, BaseType, ArenaWords
  <2>3. ASSUME NEW a \in F PROVE x # a
    BY <1>2, <2>1
  <2>4. x # last
    BY <1>3, <2>2, <2>3
  <2> QED BY <2>2, <2>4 DEF Appended
<1> DEFINE F1 == F \cup {end}
<1>7. Tiles(F1, Ends(F1, m1), U, end1)
  <2> DEFINE e == Ends(F, m)
             e1 == Ends(F1, m1)
  <2>1. Tiles(F, e, U, end)
    BY DEF WholeList
  <2>2. \A a \in F : e1[a] = e[a] /\ e[a] # end
    BY <1>4, <1>5 DEF Ends
  <2>3. e1[end] = end1
    BY DEF Ends, Appended
  <2> HIDE DEF e, e1
  <2>4. LowEnd(F, e, end, end)
    BY <2>2 DEF LowEnd
  <2>5. Tiles(F \cup {end}, e1, U, end1)
    <3> HIDE DEF F1
    <3> QED BY <1>1, <2>1, <2>2, <2>3, <2>4, GrowTiles
  <2> QED BY <2>5 DEF e1
<1>8. Linked(F1, Nexts(F1, m1), Prevs(F1, m1), first1, end)
  <2> DEFINE nx == Nexts(F, m)
             pv == Prevs(F, m)
             nx1 == Nexts(F1, m1)
             pv1 == Prevs(F1, m1)
  <2>1. Linked(F, nx, pv, first, last)
    BY DEF WholeList
  <2>2. \A a \in F : /\ nx[a] = m[a] /\ pv[a] = m[a + 1]
                     /\ nx1[a] = m1[a] /\ pv1[a] = m1[a + 1]
    BY DEF Nexts, Prevs
  <2>3. nx1[end] = 0 /\ pv1[end] = last
    BY DEF Nexts, Prevs, Appended
  <2>4. IsNext(F, end, 0) /\ IsPrev(F, end, last)
    BY <1>2, <1>3, <1>4 DEF IsNext, IsPrev
  <2>5. end \notin F /\ end \in Nat \ {0} /\ 0 \notin F
    BY <1>1, <1>2, <1>4
  <2> HIDE DEF nx, pv, nx1, pv1, F1
  <2>6. \A a \in F : /\ nx1[a] = IF a = last THEN end ELSE nx[a]
                     /\ pv1[a] = IF a = 0 THEN end ELSE pv[a]
    BY <1>5, <2>2, <2>5
  <2>7. Joined(F, nx, pv, first, last, last, end, 0, nx1, pv1, first1, end)
    BY <2>3, <2>6 DEF Joined
  <2>8. Linked(F \cup {end}, nx1, pv1, first1, end)
    BY <2>1, <2>4, <2>5, <2>7, LinkInsert
  <2> QED BY <2>8 DEF F1, nx1, pv1
<1>9. WholeList(F1, m1, U, end1, first1, end)
  BY <1>7, <1>8 DEF WholeList
<1>10. end \in F1
  OBVIOUS
<1> HIDE DEF F1
<1>11. F1 = Starts(U, end1)
  BY <1>9, ListStarts
<1> QED BY <1>6, <1>9, <1>10, <1>11

\* The arena as it is built: one free block.
LEMMA BuiltWhole ==
  ASSUME NEW end \in Nat, Base + 3 <= end, NEW m,
         m[Base] = 0, m[Base + 1] = 0, m[Base + 2] = end - Base
  PROVE  /\ WholeList(Starts({}, end), m, {}, end, Base, Base)
         /\ HeadersIn(m, {})
<1>1. Tiles({Base}, Ends({Base}, m), {}, end)
  BY BaseType DEF Tiles, Ends
<1>2. Linked({Base}, Nexts({Base}, m), Prevs({Base}, m), Base, Base)
  BY BaseType DEF Linked, IsNext, IsPrev, Nexts, Prevs
<1>3. WholeList({Base}, m, {}, end, Base, Base)
  BY <1>1, <1>2 DEF WholeList
<1>4. {Base} = Starts({}, end)
  BY <1>3, ListStarts
<1> QED BY <1>3, <1>4 DEF HeadersIn

-----------------------------------------------------------------------------
(***************************************************************************)
(* What a call in progress knows of the list, and the invariant.           *)
(***************************************************************************)
\* The search keeping c leaves the free block a behind: it is too short, or no
\* tighter than the best so far.
PassedOver(c, a) ==
  \/ Leftover(a) < 0
  \/ Pattern = "BEST_FIT" /\ c.best # NULL /\ c.min <= Leftover(a)

\* What best fit has kept.
BestSoFar(c) ==
  /\ c.best = NULL => c.min = IntMax
  /\ c.best # NULL => /\ Pattern = "BEST_FIT" /\ c.best \in FreeBlocks
                      /\ Leftover(c.best) >= 0 /\ c.min = Leftover(c.best)

\* The blocks below S and those above E have been passed over.
SearchedSoFar ==
  call.op = "search" =>
    /\ call.S # NULL => /\ call.S \in FreeBlocks
                        /\ \A a \in FreeBlocks : a < call.S => PassedOver(call, a)
    /\ call.E # NULL => /\ call.E \in FreeBlocks
                        /\ \A a \in FreeBlocks : call.E < a => PassedOver(call, a)
    /\ call.S = NULL \/ call.E = NULL => \A a \in FreeBlocks : PassedOver(call, a)
    /\ BestSoFar(call)

\* Pages are asked for when no block is long enough.
NoneFits == call.op = "expand" => \A a \in FreeBlocks : Leftover(a) < 0

\* The block given back lies between the two ends of the scan, apart from the
\* blocks in use.
Scanned ==
  call.op = "scan" =>
    /\ call.Sp \in FreeBlocks /\ call.Sp < call.h /\ call.S = NextOf(call.Sp)
    /\ call.Ep \in FreeBlocks /\ call.h < call.Ep /\ call.E = PrevOf(call.Ep)
    /\ \A b \in live : b.hi <= call.h \/ call.h + call.len <= b.lo

Printed == call.op = "layout" => call.block = NULL \/ call.block \in FreeBlocks

CallOK == SearchedSoFar /\ NoneFits /\ Scanned /\ Printed

\* The largest arena: the constructor's, or the whole reservation.
ArenaLimit == IF Buffer = "VMDYNAMIC" THEN Vm!VmEnd - Base ELSE Size

\* The inductive invariant: nothing has gone wrong, the blocks in use lie apart,
\* and while the arena is there its free list is whole and the call in progress
\* knows what it needs of it.
SInv ==
  /\ status # "undefined"
  /\ Disjoint
  /\ status = "ok" /\ m_initialized =>
       /\ SoundArena(mem, m_end, Used, live, m_llStart, m_llEnd)
       /\ CallOK
       /\ Base + 3 <= m_end /\ m_end <= Base + ArenaLimit
  /\ status = "ok" /\ ~m_initialized => live = {} /\ call.op = "idle"

\* What the proof asks of the parameters: no request is empty (a block of two
\* words cannot become a free one), none overflows the page supplier's 32-bit
\* product, and best fit's first bound is above every block.
SoundAssumption ==
  /\ 0 \notin Sizes
  /\ RequestsFit
  /\ Pattern = "BEST_FIT" => ArenaLimit <= IntMax

SoundNow == IInv /\ SInv /\ status = "ok" /\ m_initialized

\* Outside a scan the blocks no free one may touch are those in use.
LEMMA UsedIsLive == call.op # "scan" => Used = live
BY DEF Used

\* Outside a scan the blocks no free one may touch are those in use.
LEMMA UsedNextIsLive == call'.op # "scan" => Used' = live'
BY DEF Used

\* What the invariant says of an arena that is initialized and in order.
LEMMA NowFacts ==
  ASSUME SoundNow
  PROVE  /\ m_end \in Nat /\ mem \in [Arena(m_end) -> Words] /\ DOMAIN mem = Arena(m_end)
         /\ WholeList(FreeBlocks, mem, Used, m_end, m_llStart, m_llEnd)
         /\ HeadersIn(mem, live)
         /\ CallOK /\ Base + 3 <= m_end /\ m_end <= Base + ArenaLimit
         /\ TypeOK /\ Served /\ m_llStart \in Nat /\ m_llEnd \in Nat
<1>1. SoundArena(mem, m_end, Used, live, m_llStart, m_llEnd)
  BY DEF SoundNow, SInv
<1>2. mem \in [Arena(m_end) -> Words]
  BY <1>1 DEF SoundArena
<1>3. DOMAIN mem = Arena(m_end)
  BY <1>2
<1>4. /\ WholeList(FreeBlocks, mem, Used, m_end, m_llStart, m_llEnd)
      /\ HeadersIn(mem, live)
  BY <1>1 DEF SoundArena, FreeBlocks
<1>5. CallOK /\ Base + 3 <= m_end /\ m_end <= Base + ArenaLimit
  BY DEF SoundNow, SInv
<1>6. TypeOK /\ Served
  BY DEF SoundNow, IInv
<1> QED BY <1>2, <1>3, <1>4, <1>5, <1>6 DEF TypeOK

\* The header of a free block can be read and written, and leads to others.
LEMMA FreeKnown ==
  ASSUME SoundNow, NEW a \in FreeBlocks
  PROVE  /\ a \in Nat /\ a # 0 /\ Base <= a
         /\ Known(a) /\ Known(a + 1) /\ Known(a + 2) /\ HeaderFits(a)
         /\ NextOf(a) \in Nat /\ PrevOf(a) \in Nat /\ SizeOf(a) \in Nat
         /\ 3 <= SizeOf(a) /\ a + SizeOf(a) <= m_end
         /\ NextOf(a) \in FreeBlocks \cup {0} /\ PrevOf(a) \in FreeBlocks \cup {0}
         /\ NextOf(a) # 0 => a < NextOf(a) /\ \A b \in FreeBlocks : b <= a \/ NextOf(a) <= b
         /\ PrevOf(a) # 0 => PrevOf(a) < a /\ \A b \in FreeBlocks : b <= PrevOf(a) \/ a <= b
         /\ NextOf(a) = 0 <=> a = m_llEnd
         /\ PrevOf(a) = 0 <=> a = m_llStart
         /\ m_llStart \in FreeBlocks /\ m_llStart <= a
         /\ m_llEnd \in FreeBlocks /\ a <= m_llEnd
         /\ \A b \in FreeBlocks : a < b => a + SizeOf(a) < b
         /\ \A u \in Used : u.hi <= a \/ a + SizeOf(a) <= u.lo
<1>1. DOMAIN mem = Arena(m_end)
  BY NowFacts
<1>2. InList(FreeBlocks, mem, Used, m_end, m_llStart, m_llEnd, a)
  BY NowFacts, ListFacts
<1>3. /\ a \in Nat /\ a # 0 /\ Base <= a
      /\ a \in Arena(m_end) /\ a + 1 \in Arena(m_end) /\ a + 2 \in Arena(m_end)
      /\ mem[a] \in Nat /\ mem[a + 1] \in Nat /\ mem[a + 2] \in Nat
      /\ 3 <= mem[a + 2] /\ a + mem[a + 2] <= m_end
  BY <1>2 DEF InList
<1>4. Known(a) /\ Known(a + 1) /\ Known(a + 2) /\ HeaderFits(a)
  BY <1>1, <1>3 DEF Known, Mapped, HeaderFits
<1>5. mem[a] # 0 => /\ mem[a] \in FreeBlocks /\ a < mem[a]
                   /\ \A b \in FreeBlocks : b <= a \/ mem[a] <= b
  <2>1. mem[a] # 0 => /\ mem[a] \in FreeBlocks /\ a + mem[a + 2] < mem[a]
                      /\ \A b \in FreeBlocks : b <= a \/ mem[a] <= b
    BY <1>2 DEF InList
  <2> QED BY <1>3, <2>1
<1>6. mem[a + 1] # 0 => /\ mem[a + 1] \in FreeBlocks /\ mem[a + 1] < a
                        /\ \A b \in FreeBlocks : b <= mem[a + 1] \/ a <= b
  <2>1. mem[a + 1] # 0 => /\ mem[a + 1] \in FreeBlocks
                          /\ mem[a + 1] + mem[mem[a + 1] + 2] < a
                          /\ \A b \in FreeBlocks : b <= mem[a + 1] \/ a <= b
    BY <1>2 DEF InList
  <2>2. ASSUME NEW b \in FreeBlocks PROVE mem[b + 2] \in Nat
    <3>1. InList(FreeBlocks, mem, Used, m_end, m_llStart, m_llEnd, b)
      BY NowFacts, ListFacts
    <3> QED BY <3>1 DEF InList
  <2>3. mem[a + 1] # 0 => mem[mem[a + 1] + 2] \in Nat
    BY <2>1, <2>2
  <2> QED BY <1>3, <2>1, <2>3
<1>7. /\ mem[a] = 0 <=> a = m_llEnd
      /\ mem[a + 1] = 0 <=> a = m_llStart
      /\ m_llStart \in FreeBlocks /\ m_llStart <= a
      /\ m_llEnd \in FreeBlocks /\ a <= m_llEnd
      /\ \A b \in FreeBlocks : a < b => a + mem[a + 2] < b
      /\ \A u \in Used : u.hi <= a \/ a + mem[a + 2] <= u.lo
  BY <1>2 DEF InList
<1> QED BY <1>3, <1>4, <1>5, <1>6, <1>7 DEF NextOf, PrevOf, SizeOf

\* The ends of the list.
LEMMA EndsKnown ==
  ASSUME SoundNow
  PROVE  /\ m_llStart = 0 <=> FreeBlocks = {}
         /\ m_llEnd = 0 <=> FreeBlocks = {}
         /\ m_llStart # 0 => m_llStart \in FreeBlocks /\ \A a \in FreeBlocks : m_llStart <= a
         /\ m_llEnd # 0 => m_llEnd \in FreeBlocks /\ \A a \in FreeBlocks : a <= m_llEnd
<1>1. Linked(FreeBlocks, Nexts(FreeBlocks, mem), Prevs(FreeBlocks, mem), m_llStart, m_llEnd)
  BY NowFacts DEF WholeList
<1> QED BY <1>1 DEF Linked

\* The invariant in the next state, from its parts.
LEMMA SInvNext ==
  ASSUME SoundArena(mem', m_end', Used', live', m_llStart', m_llEnd'), CallOK',
         Base + 3 <= m_end', m_end' <= Base + ArenaLimit,
         status' = "ok", m_initialized'
  PROVE  SInv'
<1>1. \A u, v \in Used' : u # v => u.hi <= v.lo \/ v.hi <= u.lo
  BY DEF SoundArena, WholeList, Tiles
<1>2. live' \subseteq Used'
  BY DEF Used
<1>3. Disjoint'
  BY <1>1, <1>2 DEF Disjoint
<1>4. ArenaLimit' = ArenaLimit
  BY DEF ArenaLimit, Vm!VmEnd, Vm!NumPages
<1> QED BY <1>3, <1>4 DEF SInv

\* A step that changes nothing but the call's locals.
LEMMA CallSInv ==
  ASSUME SoundNow, OnlyCallChanges, Used' = Used, CallOK'
  PROVE  SInv'
<1>1. /\ mem' = mem /\ m_end' = m_end /\ live' = live
      /\ m_llStart' = m_llStart /\ m_llEnd' = m_llEnd
      /\ status' = "ok" /\ m_initialized'
  BY DEF OnlyCallChanges, sizeVars, SoundNow
<1>2. SoundArena(mem', m_end', Used', live', m_llStart', m_llEnd')
  BY <1>1 DEF SoundNow, SInv
<1> QED BY <1>1, <1>2, NowFacts, SInvNext

-----------------------------------------------------------------------------
(***************************************************************************)
(* The search.                                                             *)
(***************************************************************************)
\* What would be left of a block depends on the memory and on the request.
LEMMA LeftoverSame ==
  ASSUME mem' = mem, call'.sz = call.sz, call'.al = call.al, NEW a
  PROVE  Leftover(a)' = Leftover(a)
BY DEF Leftover, PaddingIn, SizeOf

\* Alloc starts a search that has passed over nothing yet.
LEMMA AllocSInv ==
  ASSUME SoundNow, NEW sz \in Sizes, NEW al \in Aligns, Alloc(sz, al)
  PROVE  SInv'
<1>1. /\ call.op = "idle" /\ OnlyCallChanges
      /\ call' = [op |-> "search", sz |-> sz, al |-> al, S |-> m_llStart, E |-> m_llEnd,
                  best |-> NULL, min |-> IntMax]
  BY DEF Alloc, Ready
<1>2. Used' = Used
  BY <1>1 DEF Used, OnlyCallChanges
<1>3. FreeBlocks' = FreeBlocks
  BY <1>1, <1>2 DEF FreeBlocks, OnlyCallChanges, sizeVars
<1>4. /\ call'.op = "search" /\ call'.S = m_llStart /\ call'.E = m_llEnd
      /\ call'.best = 0 /\ call'.min = IntMax
  BY <1>1
<1>5. SearchedSoFar'
  <2>1. \A a \in FreeBlocks : a \in Nat
    BY FreeKnown
  <2>2. /\ m_llStart = 0 \/ m_llEnd = 0 => FreeBlocks = {}
        /\ m_llStart # 0 => m_llStart \in FreeBlocks /\ \A a \in FreeBlocks : ~(a < m_llStart)
        /\ m_llEnd # 0 => m_llEnd \in FreeBlocks /\ \A a \in FreeBlocks : ~(m_llEnd < a)
    BY <2>1, EndsKnown, NowFacts
  <2>3. BestSoFar(call)'
    BY <1>4 DEF BestSoFar
  <2> QED BY <1>3, <1>4, <2>2, <2>3 DEF SearchedSoFar
<1>6. CallOK'
  BY <1>4, <1>5 DEF CallOK, NoneFits, Scanned, Printed
<1> QED BY <1>1, <1>2, <1>6, CallSInv

\* Moving on from both ends, with c the best so far: what was passed over still
\* is, and so are the two blocks left behind.
LEMMA WalkSInv ==
  ASSUME SoundNow, call.op = "search", InRange, OnlyCallChanges, NEW c, Walk(c),
         c \in [op : {"search"}, sz : Sizes, al : Aligns,
                S : Nat, E : Nat, best : Nat, min : Nat],
         c.sz = call.sz, c.al = call.al,
         \A a \in FreeBlocks : PassedOver(call, a) => PassedOver(c, a),
         PassedOver(c, call.S), PassedOver(c, call.E), BestSoFar(c)
  PROVE  SInv'
<1> DEFINE S == call.S
           E == call.E
<1>1. /\ S \in FreeBlocks /\ \A a \in FreeBlocks : a < S => PassedOver(call, a)
      /\ E \in FreeBlocks /\ \A a \in FreeBlocks : E < a => PassedOver(call, a)
  BY NowFacts DEF CallOK, SearchedSoFar, InRange
<1>2. /\ call'.op = "search" /\ call'.sz = call.sz /\ call'.al = call.al
      /\ call'.S = NextOf(S) /\ call'.E = PrevOf(E)
      /\ call'.best = c.best /\ call'.min = c.min
  BY DEF Walk
<1>3. Used' = Used /\ mem' = mem
  BY <1>2 DEF Used, OnlyCallChanges
<1>4. FreeBlocks' = FreeBlocks
  BY <1>3 DEF FreeBlocks, OnlyCallChanges, sizeVars
<1>5. \A a : Leftover(a)' = Leftover(a)
  BY <1>2, <1>3, LeftoverSame
<1>6. \A a : PassedOver(c, a) => PassedOver(call, a)'
  BY <1>2, <1>5 DEF PassedOver
<1> HIDE DEF S, E
<1>7. /\ NextOf(S) # 0 => NextOf(S) \in FreeBlocks /\ S < NextOf(S)
      /\ \A b \in FreeBlocks : NextOf(S) # 0 => b <= S \/ NextOf(S) <= b
      /\ \A b \in FreeBlocks : NextOf(S) = 0 => b <= S
      /\ NextOf(S) \in Nat
  BY <1>1, FreeKnown
<1>8. /\ PrevOf(E) # 0 => PrevOf(E) \in FreeBlocks /\ PrevOf(E) < E
      /\ \A b \in FreeBlocks : PrevOf(E) # 0 => b <= PrevOf(E) \/ E <= b
      /\ \A b \in FreeBlocks : PrevOf(E) = 0 => E <= b
      /\ PrevOf(E) \in Nat
  BY <1>1, FreeKnown
<1>9. \A a \in FreeBlocks : a \in Nat
  BY FreeKnown
<1>10. ASSUME NEW a \in FreeBlocks, a <= S \/ E <= a
       PROVE  PassedOver(call, a)'
  <2>1. a < S \/ a = S \/ a = E \/ E < a
    BY <1>1, <1>9, <1>10
  <2> QED BY <1>1, <1>6, <2>1 DEF S, E
<1>11. NextOf(S) # 0 => \A a \in FreeBlocks : a < NextOf(S) => PassedOver(call, a)'
  BY <1>7, <1>9, <1>10
<1>12. PrevOf(E) # 0 => \A a \in FreeBlocks : PrevOf(E) < a => PassedOver(call, a)'
  BY <1>8, <1>9, <1>10
<1>13. NextOf(S) = 0 \/ PrevOf(E) = 0 => \A a \in FreeBlocks : PassedOver(call, a)'
  BY <1>7, <1>8, <1>10
<1>14. BestSoFar(call)'
  BY <1>2, <1>4, <1>5 DEF BestSoFar
<1>15. SearchedSoFar'
  BY <1>2, <1>4, <1>7, <1>8, <1>11, <1>12, <1>13, <1>14 DEF SearchedSoFar
<1>16. CallOK'
  BY <1>2, <1>15 DEF CallOK, NoneFits, Scanned, Printed
<1> QED BY <1>3, <1>16, CallSInv

\* First fit walks on when neither end of what is left can serve the request.
LEMMA FirstFitWalksSInv ==
  ASSUME SoundNow, FirstFitWalks
  PROVE  SInv'
<1>1. /\ call.op = "search" /\ InRange /\ OnlyCallChanges /\ Walk(call) /\ FirstFitHit = 0
  BY DEF FirstFitWalks, Searching
<1>2. call \in [op : {"search"}, sz : Sizes, al : Aligns,
                S : Nat, E : Nat, best : Nat, min : Nat]
  BY <1>1, NowFacts, CallFields DEF TypeOK
<1>3. Leftover(call.S) < 0 /\ Leftover(call.E) < 0
  <2>1. call.S # 0 /\ call.E # 0 /\ call.S \in FreeBlocks /\ call.E \in FreeBlocks
    BY <1>1, NowFacts DEF CallOK, SearchedSoFar, InRange
  <2>2. ASSUME NEW a \in FreeBlocks PROVE Leftover(a) \in Int
    <3>1. a \in Nat /\ SizeOf(a) \in Nat
      BY FreeKnown
    <3>2. PaddingIn(a) \in Nat /\ call.sz \in Nat
      BY <1>1, <3>1, NowFacts, PaddingOk
    <3> QED BY <3>1, <3>2 DEF Leftover
  <2> QED BY <1>1, <2>1, <2>2 DEF FirstFitHit
<1>4. PassedOver(call, call.S) /\ PassedOver(call, call.E)
  BY <1>3 DEF PassedOver
<1>5. BestSoFar(call)
  BY <1>1, NowFacts DEF CallOK, SearchedSoFar
<1> QED BY <1>1, <1>2, <1>4, <1>5, WalkSInv

\* Best fit's first bound is above every block of the arena.
LEMMA LeftoverBounded ==
  ASSUME SoundAssumption, SoundNow, call.op = "search", Pattern = "BEST_FIT",
         NEW a \in FreeBlocks
  PROVE  Leftover(a) \in Int /\ Leftover(a) < IntMax
<1>1. /\ a \in Nat /\ SizeOf(a) \in Nat /\ Base <= a /\ a + SizeOf(a) <= m_end
  BY FreeKnown
<1>2. PaddingIn(a) \in Nat /\ 2 <= PaddingIn(a) /\ call.sz \in Nat
  BY <1>1, NowFacts, PaddingOk
<1>3. m_end \in Nat /\ m_end <= Base + ArenaLimit
  BY NowFacts
<1>4. ArenaLimit \in Int
  BY SeqAssumption, DivisionFacts DEF ArenaLimit, Vm!VmEnd, Vm!NumPages
<1>5. ArenaLimit <= IntMax
  BY DEF SoundAssumption
<1>6. SizeOf(a) <= IntMax
  BY <1>1, <1>3, <1>4, <1>5, BaseType, SeqAssumption
<1> QED BY <1>1, <1>2, <1>6, SeqAssumption DEF Leftover

\* Looking at one more block passes it over, and forgets nothing.
LEMMA TighterKeeps ==
  ASSUME SoundAssumption, SoundNow, call.op = "search", Pattern = "BEST_FIT",
         NEW c \in [op : {"search"}, sz : Sizes, al : Aligns,
                    S : Nat, E : Nat, best : Nat, min : Nat],
         BestSoFar(c), NEW block \in FreeBlocks
  PROVE  /\ Tighter(c, block) \in [op : {"search"}, sz : Sizes, al : Aligns,
                                   S : Nat, E : Nat, best : Nat, min : Nat]
         /\ Tighter(c, block).sz = c.sz /\ Tighter(c, block).al = c.al
         /\ BestSoFar(Tighter(c, block))
         /\ PassedOver(Tighter(c, block), block)
         /\ \A a \in FreeBlocks : PassedOver(c, a) => PassedOver(Tighter(c, block), a)
<1>1. block \in Nat /\ block # 0
  BY FreeKnown
<1>2. \A a \in FreeBlocks : Leftover(a) \in Int /\ Leftover(a) < IntMax
  BY LeftoverBounded
<1> DEFINE d == Tighter(c, block)
<1>3. CASE Leftover(block) >= 0 /\ Leftover(block) < c.min
  <2>1. d = [c EXCEPT !.best = block, !.min = Leftover(block)]
    BY <1>3 DEF Tighter
  <2>2. Leftover(block) \in Nat
    BY <1>2, <1>3
  <2>3. /\ d \in [op : {"search"}, sz : Sizes, al : Aligns,
                  S : Nat, E : Nat, best : Nat, min : Nat]
        /\ d.sz = c.sz /\ d.al = c.al /\ d.best = block /\ d.min = Leftover(block)
    BY <1>1, <2>1, <2>2
  <2> HIDE DEF d
  <2>4. BestSoFar(d)
    BY <1>1, <1>3, <2>3 DEF BestSoFar
  <2>5. PassedOver(d, block)
    BY <1>1, <1>2, <2>3 DEF PassedOver
  <2>6. ASSUME NEW a \in FreeBlocks, PassedOver(c, a) PROVE PassedOver(d, a)
    <3>1. CASE Leftover(a) < 0
      BY <3>1 DEF PassedOver
    <3>2. CASE c.best # 0 /\ c.min <= Leftover(a)
      <4>1. Leftover(block) <= Leftover(a)
        BY <1>2, <1>3, <3>2
      <4> QED BY <1>1, <2>3, <4>1 DEF PassedOver
    <3> QED BY <2>6, <3>1, <3>2 DEF PassedOver
  <2> QED BY <2>3, <2>4, <2>5, <2>6 DEF d
<1>4. CASE ~(Leftover(block) >= 0 /\ Leftover(block) < c.min)
  <2>1. d = c
    BY <1>4 DEF Tighter
  <2>2. PassedOver(c, block)
    <3>1. CASE Leftover(block) < 0
      BY <3>1 DEF PassedOver
    <3>2. CASE ~(Leftover(block) < 0)
      <4>1. c.min <= Leftover(block)
        BY <1>2, <1>4, <3>2
      <4>2. c.best # 0
        BY <1>2, <4>1, SeqAssumption DEF BestSoFar
      <4> QED BY <4>1, <4>2 DEF PassedOver
    <3> QED BY <3>1, <3>2
  <2> HIDE DEF d
  <2>3. /\ d \in [op : {"search"}, sz : Sizes, al : Aligns,
                  S : Nat, E : Nat, best : Nat, min : Nat]
        /\ d.sz = c.sz /\ d.al = c.al /\ BestSoFar(d) /\ PassedOver(d, block)
        /\ \A a \in FreeBlocks : PassedOver(c, a) => PassedOver(d, a)
    BY <2>1, <2>2
  <2> QED BY <2>3 DEF d
<1> QED BY <1>3, <1>4

\* Best fit walks on with the tighter of the two ends remembered.
LEMMA BestFitWalksSInv ==
  ASSUME SoundAssumption, SoundNow, BestFitWalks
  PROVE  SInv'
<1> DEFINE Shape == [op : {"search"}, sz : Sizes, al : Aligns,
                     S : Nat, E : Nat, best : Nat, min : Nat]
           c1 == Tighter(call, call.S)
           c2 == Tighter(c1, call.E)
<1>1. /\ call.op = "search" /\ Pattern = "BEST_FIT" /\ InRange /\ OnlyCallChanges /\ Walk(c2)
  BY DEF BestFitWalks, Searching
<1>2. call \in Shape
  BY <1>1, NowFacts, CallFields DEF TypeOK
<1>3. call.S \in FreeBlocks /\ call.E \in FreeBlocks /\ BestSoFar(call)
  BY <1>1, NowFacts DEF CallOK, SearchedSoFar, InRange
<1>4. /\ c1 \in Shape /\ c1.sz = call.sz /\ c1.al = call.al
      /\ BestSoFar(c1) /\ PassedOver(c1, call.S)
      /\ \A a \in FreeBlocks : PassedOver(call, a) => PassedOver(c1, a)
  BY <1>1, <1>2, <1>3, TighterKeeps
<1> HIDE DEF c1
<1>5. /\ c2 \in Shape /\ c2.sz = c1.sz /\ c2.al = c1.al
      /\ BestSoFar(c2) /\ PassedOver(c2, call.E)
      /\ \A a \in FreeBlocks : PassedOver(c1, a) => PassedOver(c2, a)
  BY <1>1, <1>3, <1>4, TighterKeeps
<1> HIDE DEF c2
<1>6. PassedOver(c2, call.S) /\ \A a \in FreeBlocks : PassedOver(call, a) => PassedOver(c2, a)
  BY <1>3, <1>4, <1>5
<1> QED BY <1>1, <1>4, <1>5, <1>6, WalkSInv

\* When the search is over every free block has been passed over.
LEMMA SearchOver ==
  ASSUME SoundNow, call.op = "search", ~InRange, NEW a \in FreeBlocks
  PROVE  PassedOver(call, a)
<1>1. SearchedSoFar
  BY NowFacts DEF CallOK
<1>2. CASE call.S = 0 \/ call.E = 0
  BY <1>1, <1>2 DEF SearchedSoFar
<1>3. CASE call.S # 0 /\ call.E # 0
  <2>1. ~(call.S <= call.E) /\ call.S \in FreeBlocks /\ call.E \in FreeBlocks
    BY <1>1, <1>3 DEF SearchedSoFar, InRange
  <2>2. a \in Nat /\ call.S \in Nat /\ call.E \in Nat
    BY <2>1, FreeKnown
  <2>3. a < call.S \/ call.E < a
    BY <2>1, <2>2
  <2> QED BY <1>1, <1>3, <2>3 DEF SearchedSoFar
<1> QED BY <1>2, <1>3

\* The search fails: nothing is free that is long enough.
LEMMA SearchFailsSInv ==
  ASSUME SoundNow, SearchFails
  PROVE  SInv'
<1>1. /\ call.op = "search" /\ ~InRange /\ call.best = 0 /\ OnlyCallChanges
      /\ call' = IF Buffer = "VMDYNAMIC"
                 THEN [op |-> "expand", sz |-> call.sz, al |-> call.al]
                 ELSE [op |-> "idle", result |-> 0]
  BY DEF SearchFails, Searching, Returned
<1>2. call'.op \in {"expand", "idle"}
  BY <1>1
<1>3. Used' = Used /\ mem' = mem
  BY <1>1, <1>2 DEF Used, OnlyCallChanges
<1>4. FreeBlocks' = FreeBlocks
  BY <1>1, <1>3 DEF FreeBlocks, OnlyCallChanges, sizeVars
<1>5. \A a \in FreeBlocks : Leftover(a) < 0
  BY <1>1, SearchOver DEF PassedOver
<1>6. NoneFits'
  <2>1. call'.op = "expand" => call'.sz = call.sz /\ call'.al = call.al
    BY <1>1
  <2>2. call'.op = "expand" => \A a : Leftover(a)' = Leftover(a)
    BY <1>3, <2>1, LeftoverSame
  <2> QED BY <1>4, <1>5, <2>2 DEF NoneFits
<1>7. CallOK'
  BY <1>2, <1>6 DEF CallOK, SearchedSoFar, Scanned, Printed
<1> QED BY <1>1, <1>3, <1>7, CallSInv

\* The search never reads a damaged header.
LEMMA SearchNeverUndefined ==
  ASSUME SoundNow
  PROVE  ~SearchUndefined
<1> SUFFICES ASSUME SearchUndefined PROVE FALSE
  OBVIOUS
<1>1. call.op = "search" /\ InRange
  BY DEF SearchUndefined, Searching
<1>2. call.S \in FreeBlocks /\ call.E \in FreeBlocks
  BY <1>1, NowFacts DEF CallOK, SearchedSoFar, InRange
<1>3. /\ Known(call.S) /\ Known(call.S + 2)
      /\ Known(call.E + 1) /\ Known(call.E + 2)
  BY <1>2, FreeKnown
<1> QED BY <1>3 DEF SearchUndefined, FirstFitDecides, BestFitDecides

-----------------------------------------------------------------------------
(***************************************************************************)
(* Taking a block, with or without new pages.                              *)
(***************************************************************************)
\* The block cut from the low end of the free block a.
CutFrom(a) ==
  [ptr |-> a + PaddingIn(a), sz |-> call.sz, al |-> call.al, lo |-> a,
   hi |-> IF Leftover(a) >= 3 THEN a + PaddingIn(a) + call.sz ELSE a + SizeOf(a)]

\* A free block that is long enough is taken without a fault.
LEMMA TakeSInv ==
  ASSUME SoundAssumption, SoundNow, call.op = "search", NEW g \in FreeBlocks,
         Leftover(g) >= 0, Take(g)
  PROVE  /\ SInv'
         /\ live' = live \cup {CutFrom(g)} /\ call'.op = "idle"
         /\ m_end' = m_end /\ m_initialized' /\ status' = "ok"
<1>1. /\ m_end \in Nat /\ mem \in [Arena(m_end) -> Words]
      /\ SoundArena(mem, m_end, live, live, m_llStart, m_llEnd)
      /\ WholeList(FreeBlocks, mem, live, m_end, m_llStart, m_llEnd)
      /\ FreeBlocks = Starts(live, m_end)
  BY NowFacts, UsedIsLive DEF SoundNow, SInv, FreeBlocks
<1>2. g \in Nat
  BY FreeKnown
<1>3. PaddingIn(g) \in Nat /\ 2 <= PaddingIn(g) /\ call.sz \in Nat /\ 1 <= call.sz
  <2>1. PaddingIn(g) \in Nat /\ 2 <= PaddingIn(g) /\ call.sz \in Nat /\ call.sz \in Sizes
    BY <1>2, NowFacts, PaddingOk
  <2> QED BY <2>1 DEF SoundAssumption
<1> DEFINE padding == PaddingIn(g)
           sz == call.sz
           al == call.al
<1>4. mem[g + 2] - (padding + sz) >= 0
  BY DEF Leftover, SizeOf
<1>5. CutFrom(g) = [ptr |-> g + padding, sz |-> sz, al |-> al, lo |-> g,
                    hi |-> IF mem[g + 2] - (padding + sz) >= 3
                           THEN g + padding + sz ELSE g + mem[g + 2]]
  BY DEF CutFrom, Leftover, SizeOf
<1> HIDE DEF padding, sz, al
<1>6. SplitDefined(mem, g, mem[g + 1], g + padding, sz)
  BY <1>1, <1>3, <1>4, TakeDefined DEF padding, sz
<1>7. /\ TakeBlock(mem, m_llStart, m_llEnd, g, mem[g + 1], padding, sz, al)
      /\ UNCHANGED sizeVars
  BY <1>6 DEF Take, PrevOf, padding, sz, al
<1>8. /\ live' = live \cup {CutFrom(g)}
      /\ SoundArena(mem', m_end, live', live', m_llStart', m_llEnd')
      /\ call'.op = "idle" /\ m_initialized' = m_initialized /\ status' = status
  <2>1. padding \in Nat /\ 2 <= padding /\ sz \in Nat /\ 1 <= sz
    BY <1>3 DEF padding, sz
  <2> DEFINE new == CutFrom(g)
  <2> HIDE DEF new
  <2>2. new = [ptr |-> g + padding, sz |-> sz, al |-> al, lo |-> g,
               hi |-> IF mem[g + 2] - (padding + sz) >= 3
                      THEN g + padding + sz ELSE g + mem[g + 2]]
    BY <1>5 DEF new
  <2>3. g \in Starts(live, m_end)
    BY <1>1
  <2>4. HandsOut(new, m_end)
    BY <1>1, <1>4, <1>7, <2>1, <2>2, <2>3, TakeSound
  <2> QED BY <2>4 DEF HandsOut, new
<1>9. m_end' = m_end
  BY <1>7 DEF sizeVars
<1>10. CallOK'
  BY <1>8 DEF CallOK, SearchedSoFar, NoneFits, Scanned, Printed
<1>11. Used' = live'
  BY <1>8, UsedNextIsLive
<1>12. status' = "ok" /\ m_initialized'
  BY <1>8 DEF SoundNow
<1>13. SInv'
  <2>1. SoundArena(mem', m_end', Used', live', m_llStart', m_llEnd')
    BY <1>8, <1>9, <1>11
  <2> QED BY <1>9, <1>10, <1>12, <2>1, NowFacts, SInvNext
<1> QED BY <1>8, <1>9, <1>12, <1>13

\* First fit takes a block that fits.
LEMMA FirstFitHitFits ==
  ASSUME SoundNow, FirstFitTakes
  PROVE  /\ call.op = "search" /\ FirstFitHit \in FreeBlocks
         /\ Leftover(FirstFitHit) >= 0 /\ Take(FirstFitHit)
<1>1. call.op = "search" /\ InRange /\ FirstFitHit # 0 /\ Take(FirstFitHit)
  BY DEF FirstFitTakes, Searching
<1>2. call.S \in FreeBlocks /\ call.E \in FreeBlocks
  BY <1>1, NowFacts DEF CallOK, SearchedSoFar, InRange
<1> QED BY <1>1, <1>2 DEF FirstFitHit

\* So does best fit, and none is tighter.
LEMMA BestFitBestFits ==
  ASSUME SoundNow, BestFitTakes
  PROVE  /\ call.op = "search" /\ call.best \in FreeBlocks
         /\ Leftover(call.best) >= 0 /\ Take(call.best)
         /\ \A a \in FreeBlocks : Leftover(a) < 0 \/ Leftover(call.best) <= Leftover(a)
<1>1. call.op = "search" /\ ~InRange /\ call.best # 0 /\ Take(call.best)
  BY DEF BestFitTakes, Searching
<1>2. BestSoFar(call)
  BY <1>1, NowFacts DEF CallOK, SearchedSoFar
<1>3. ASSUME NEW a \in FreeBlocks PROVE Leftover(a) < 0 \/ Leftover(call.best) <= Leftover(a)
  <2>1. PassedOver(call, a)
    BY <1>1, SearchOver
  <2> QED BY <1>1, <1>2, <2>1 DEF PassedOver, BestSoFar
<1> QED BY <1>1, <1>2, <1>3 DEF BestSoFar

\* Both searches take a free block that is long enough.
LEMMA TakesSInv ==
  ASSUME SoundAssumption, SoundNow, FirstFitTakes \/ BestFitTakes
  PROVE  SInv'
BY FirstFitHitFits, BestFitBestFits, TakeSInv

\* The request does not fit the last free block, so pages are really needed.
LEMMA ExpandNeedsMore ==
  ASSUME SoundAssumption, SoundNow, Expanding
  PROVE  /\ ExpandDefined /\ ExpandNeeds > 0
         /\ ~LastIsFree => ExpandNeeds >= 3
         /\ LastIsFree => m_llEnd \in FreeBlocks
         /\ call.op = "expand" /\ call.sz \in Sizes /\ call.al \in Aligns
         /\ call.sz \in Nat /\ 1 <= call.sz
<1>1. call.op = "expand" /\ TypeOK /\ m_end \in Nat
  BY NowFacts DEF Expanding
<1>2. /\ call.sz \in Sizes /\ call.al \in Aligns
      /\ call.sz \in Nat /\ 1 <= call.sz /\ call.al \in Nat \ {0}
  BY <1>1, CallFields, SeqAssumption DEF TypeOK, SoundAssumption
<1>3. m_llEnd # 0 => m_llEnd \in FreeBlocks
  BY EndsKnown
<1>4. m_llEnd # 0 => Known(m_llEnd) /\ Known(m_llEnd + 1) /\ Known(m_llEnd + 2)
  BY <1>3, FreeKnown
<1>5. CASE LastIsFree
  <2>1. m_llEnd \in FreeBlocks /\ m_llEnd + SizeOf(m_llEnd) = m_end
    BY <1>3, <1>5 DEF LastIsFree
  <2>2. m_llEnd \in Nat /\ SizeOf(m_llEnd) \in Nat
    BY <2>1, FreeKnown
  <2>3. Leftover(m_llEnd) < 0
    BY <1>1, <2>1, NowFacts DEF CallOK, NoneFits
  <2>4. PaddingIn(m_llEnd) \in Nat
    BY <1>1, <2>2, PaddingOk
  <2>5. AlignUp(m_llEnd, call.al) \in Nat /\ m_llEnd <= AlignUp(m_llEnd, call.al)
    BY <1>2, <2>2, AlignUpLeast
  <2>6. ExpandNeeds = AlignUp(m_llEnd, call.al) + PaddingIn(m_llEnd) + call.sz - m_end
    BY <1>5 DEF ExpandNeeds, ExpandBlock, ExpandPadding
  <2>7. ExpandNeeds > 0 /\ ExpandNeeds >= 0
    BY <1>1, <1>2, <2>1, <2>2, <2>3, <2>4, <2>5, <2>6 DEF Leftover
  <2>8. ExpandDefined
    BY <1>4, <1>5, <2>7 DEF ExpandDefined, Known, LastIsFree
  <2> QED BY <1>1, <1>2, <1>5, <2>1, <2>7, <2>8
<1>6. CASE ~LastIsFree
  <2>1. PaddingIn(m_end) \in Nat /\ 2 <= PaddingIn(m_end)
    BY <1>1, PaddingOk
  <2>2. ExpandNeeds = call.sz + PaddingIn(m_end)
    BY <1>6 DEF ExpandNeeds, ExpandBlock, ExpandPadding
  <2>3. ExpandNeeds >= 3 /\ ExpandNeeds > 0
    BY <1>2, <2>1, <2>2
  <2>4. ExpandDefined
    BY <1>4, <1>6 DEF ExpandDefined, Known
  <2> QED BY <1>1, <1>2, <1>6, <2>3, <2>4
<1> QED BY <1>5, <1>6

\* The arena after n pages more, before the block is taken: as the list has it,
\* its last block ends the arena.
Wider(n) == m_end + n * PageSize
FirstWider == IF m_llStart = NULL \/ m_llEnd = NULL THEN ExpandBlock ELSE m_llStart

\* What Expanded writes.
LEMMA ExpandedWords ==
  ASSUME SoundNow, Contiguous, Expanding, ExpandDefined,
         NEW n \in Nat, n * PageSize \in Nat, Vm!CommitSize(n) = n * PageSize,
         ~LastIsFree => 3 <= n * PageSize
  PROVE  /\ Expanded(n) \in [Arena(Wider(n)) -> Words]
         /\ Expanded(n)[ExpandBlock] = 0 /\ Expanded(n)[ExpandBlock + 1] = ExpandPrev
         /\ Expanded(n)[ExpandBlock + 2] = Wider(n) - ExpandBlock
         /\ LastIsFree => Lengthened(mem, Expanded(n), m_end, m_llEnd, Wider(n))
         /\ ~LastIsFree => Appended(mem, Expanded(n), m_end, Wider(n), m_llEnd)
<1>1. /\ m_end \in Nat /\ mem \in [Arena(m_end) -> Words] /\ DOMAIN mem = Arena(m_end)
      /\ TypeOK /\ m_llEnd \in Nat /\ Base + 3 <= m_end
  BY NowFacts
<1>2. call.op = "expand" /\ m_reserved = m_end
  <2>1. call.op = "expand"
    BY DEF Expanding
  <2>2. Buffer = "VMDYNAMIC"
    BY <1>1, <2>1, CallFields DEF TypeOK
  <2> QED BY <2>1, <2>2 DEF Contiguous, SoundNow
<1>3. ExpandBlock \in Nat /\ m_end - ExpandBlock \in Nat
  BY <1>1, <1>2, ExpandPagesEnough
<1>4. Wider(n) \in Nat /\ m_end <= Wider(n)
  BY <1>1 DEF Wider
<1>5. DOMAIN mem \cup Vm!VmPages(n) = Arena(Wider(n))
  <2>1. Vm!VmPages(n) = m_end..(m_end + n * PageSize - 1)
    BY <1>2 DEF Vm!VmPages
  <2> QED BY <1>1, <1>4, <2>1, SeqAssumption DEF Arena, Wider
<1>6. Expanded(n) \in [Arena(Wider(n)) -> Words]
  BY <1>1, <1>3, <1>5, ExpandedOk
<1> DEFINE linked == IF LastIsFree \/ m_llEnd = NULL THEN mem
                     ELSE [mem EXCEPT ![m_llEnd] = m_end]
           wider  == [a \in DOMAIN mem \cup Vm!VmPages(n) |->
                        IF Mapped(a) THEN linked[a] ELSE Blank]
           b == ExpandBlock
<1>7. /\ Expanded(n) = WriteHeader(wider, b, 0, ExpandPrev, m_end - b + n * PageSize)
      /\ DOMAIN wider = Arena(Wider(n))
  BY <1>5 DEF Expanded
<1>8. \A x \in Arena(m_end) :
         wider[x] = IF LastIsFree \/ x # m_llEnd THEN mem[x] ELSE m_end
  <2>1. Arena(m_end) \subseteq Arena(Wider(n)) /\ 0 \notin Arena(m_end)
    BY <1>1, <1>4, SeqAssumption DEF Arena
  <2>2. \A x \in Arena(m_end) : linked[x] = IF LastIsFree \/ x # m_llEnd THEN mem[x] ELSE m_end
    BY <1>1, <2>1
  <2> HIDE DEF linked
  <2> QED BY <1>1, <1>5, <2>1, <2>2 DEF Mapped
<1>9. b \in Arena(Wider(n)) /\ b + 1 \in Arena(Wider(n)) /\ b + 2 \in Arena(Wider(n))
  <2>1. CASE LastIsFree
    <3>1. m_llEnd \in FreeBlocks
      BY <2>1, EndsKnown DEF LastIsFree
    <3>2. b \in Arena(m_end) /\ b + 1 \in Arena(m_end) /\ b + 2 \in Arena(m_end)
      BY <1>1, <2>1, <3>1, FreeKnown DEF ExpandBlock, HeaderFits
    <3> QED BY <1>1, <1>4, <3>2, SeqAssumption DEF Arena
  <2>2. CASE ~LastIsFree
    BY <1>1, <1>4, <2>2, SeqAssumption DEF Arena, ExpandBlock, Wider
  <2> QED BY <2>1, <2>2
<1> HIDE DEF wider, b
<1>10. m_end - b + n * PageSize = Wider(n) - b
  BY <1>1, <1>3 DEF Wider, b
<1>11. \A x \in Arena(Wider(n)) :
         Expanded(n)[x] = IF x = b THEN 0 ELSE IF x = b + 1 THEN ExpandPrev
                          ELSE IF x = b + 2 THEN Wider(n) - b ELSE wider[x]
  <2>1. b \in Nat
    BY <1>3 DEF b
  <2> QED BY <1>7, <1>10, <2>1 DEF WriteHeader
<1>12. /\ Expanded(n)[b] = 0 /\ Expanded(n)[b + 1] = ExpandPrev
       /\ Expanded(n)[b + 2] = Wider(n) - b
  <2>1. b \in Nat
    BY <1>3 DEF b
  <2> QED BY <1>9, <1>11, <2>1
<1>13. ASSUME NEW x \in Arena(m_end) PROVE x \in Arena(Wider(n)) /\ x \in Nat /\ x < m_end
  BY <1>1, <1>4, SeqAssumption DEF Arena
<1>14. ASSUME LastIsFree PROVE Lengthened(mem, Expanded(n), m_end, m_llEnd, Wider(n))
  <2>1. b = m_llEnd /\ m_llEnd \in FreeBlocks /\ ExpandPrev = mem[m_llEnd + 1]
    BY <1>14, EndsKnown DEF LastIsFree, ExpandBlock, ExpandPrev, PrevOf, b
  <2>2. mem[m_llEnd] = 0
    BY <2>1, FreeKnown DEF NextOf
  <2>3. ASSUME NEW x \in Arena(m_end), x # m_llEnd + 2 PROVE Expanded(n)[x] = mem[x]
    BY <1>8, <1>11, <1>13, <1>14, <2>1, <2>2, <2>3
  <2> QED BY <1>12, <2>1, <2>3 DEF Lengthened
<1>15. ASSUME ~LastIsFree PROVE Appended(mem, Expanded(n), m_end, Wider(n), m_llEnd)
  <2>1. b = m_end /\ ExpandPrev = m_llEnd
    BY <1>15 DEF ExpandBlock, ExpandPrev, b
  <2>2. ASSUME NEW x \in Arena(m_end)
        PROVE  Expanded(n)[x] = IF x = m_llEnd THEN m_end ELSE mem[x]
    <3>1. x # b /\ x # b + 1 /\ x # b + 2
      BY <1>1, <1>13, <2>1
    <3> QED BY <1>8, <1>11, <1>13, <1>15, <3>1
  <2> QED BY <1>12, <2>1, <2>2 DEF Appended
<1> QED BY <1>6, <1>12, <1>14, <1>15 DEF b

\* The grown arena is sound, and its last block is the one to take from.
LEMMA WiderSound ==
  ASSUME SoundNow, Contiguous, Expanding, ExpandDefined,
         NEW n \in Nat, n * PageSize \in Nat, Vm!CommitSize(n) = n * PageSize,
         0 < n * PageSize, ~LastIsFree => 3 <= n * PageSize
  PROVE  /\ SoundArena(Expanded(n), Wider(n), live, live, FirstWider, ExpandBlock)
         /\ ExpandBlock \in Starts(live, Wider(n))
<1>1. /\ m_end \in Nat /\ mem \in [Arena(m_end) -> Words]
      /\ WholeList(FreeBlocks, mem, live, m_end, m_llStart, m_llEnd)
      /\ FreeBlocks = Starts(live, m_end) /\ HeadersIn(mem, live)
      /\ Base + 3 <= m_end
  BY NowFacts, UsedIsLive DEF Expanding, FreeBlocks
<1>2. Wider(n) \in Nat /\ m_end < Wider(n) /\ (~LastIsFree => m_end + 3 <= Wider(n))
  BY <1>1 DEF Wider
<1> DEFINE m == Expanded(n)
           end1 == Wider(n)
<1>3. /\ m \in [Arena(end1) -> Words]
      /\ LastIsFree => Lengthened(mem, m, m_end, m_llEnd, end1)
      /\ ~LastIsFree => Appended(mem, m, m_end, end1, m_llEnd)
  BY ExpandedWords
<1> HIDE DEF m, end1
<1>4. CASE LastIsFree
  <2>1. /\ m_llEnd \in FreeBlocks /\ m_llEnd + mem[m_llEnd + 2] = m_end
        /\ m_llStart # 0 /\ m_llEnd # 0
    BY <1>4, EndsKnown DEF LastIsFree, SizeOf
  <2>2. WholeList(Starts(live, end1), m, live, end1, m_llStart, m_llEnd) /\ WordsKept(live, mem, m)
    <3>1. end1 \in Nat /\ m_end < end1
      BY <1>2 DEF end1
    <3> QED BY <1>1, <1>3, <1>4, <2>1, <3>1, GrowLast
  <2>3. HeadersIn(m, live)
    BY <1>1, <2>2, HeadersKept
  <2>4. m_llEnd \in Starts(live, end1)
    <3>1. m_end - 1 < end1 - 1 /\ end1 \in Nat
      BY <1>1, <1>2 DEF end1
    <3> QED BY <1>1, <2>1, <3>1, SeqAssumption DEF Starts
  <2>5. ExpandBlock = m_llEnd /\ FirstWider = m_llStart
    BY <1>4, <2>1 DEF ExpandBlock, FirstWider
  <2> QED BY <1>3, <2>2, <2>3, <2>4, <2>5 DEF SoundArena, m, end1
<1>5. CASE ~LastIsFree
  <2>1. m_llEnd # 0 => m_llEnd + mem[m_llEnd + 2] # m_end
    BY <1>5 DEF LastIsFree, SizeOf
  <2>2. ExpandBlock = m_end /\ FirstWider = IF m_llEnd = 0 THEN m_end ELSE m_llStart
    BY <1>5, EndsKnown DEF ExpandBlock, FirstWider
  <2>3. /\ WholeList(Starts(live, end1), m, live, end1, FirstWider, m_end)
        /\ WordsKept(live, mem, m) /\ m_end \in Starts(live, end1)
    <3>1. end1 \in Nat /\ m_end + 3 <= end1
      BY <1>2, <1>5 DEF end1
    <3> QED BY <1>1, <1>3, <1>5, <2>1, <2>2, <3>1, GrowNew
  <2>4. HeadersIn(m, live)
    BY <1>1, <2>3, HeadersKept
  <2> QED BY <1>3, <2>2, <2>3, <2>4 DEF SoundArena, m, end1
<1> QED BY <1>4, <1>5

\* Expand takes its block without a fault.
LEMMA ExpandSInv ==
  ASSUME SoundAssumption, SoundNow, Contiguous, Expand
  PROVE  /\ SInv' /\ call'.op = "idle"
         /\ m_end' > m_end /\ m_initialized' /\ status' = "ok"
         /\ live' = live \cup
              {[ptr |-> ExpandBlock + ExpandPadding, sz |-> call.sz, al |-> call.al,
                lo |-> ExpandBlock,
                hi |-> IF m_end' - ExpandBlock - (ExpandPadding + call.sz) >= 3
                       THEN ExpandBlock + ExpandPadding + call.sz ELSE m_end']}
         /\ m_end' - ExpandBlock - (ExpandPadding + call.sz) >= 0
<1> DEFINE n == ExpandPages
           g == ExpandBlock
           padding == ExpandPadding
           sz == call.sz
           al == call.al
           m == Expanded(n)
           end1 == Wider(n)
<1>1. /\ Expanding /\ ExpandDefined /\ TypeOK /\ m_end \in Nat /\ m_end <= Base + ArenaLimit
      /\ call.op = "expand" /\ call.sz \in Nat /\ 1 <= call.sz
      /\ ExpandNeeds > 0 /\ (~LastIsFree => ExpandNeeds >= 3)
  BY ExpandNeedsMore, NowFacts DEF Expand
<1>2. /\ g \in Nat /\ padding \in Nat /\ m_end - g \in Nat
      /\ n \in Nat /\ n * PageSize \in Nat /\ n * PageSize >= ExpandNeeds
      /\ m_end - g + n * PageSize - (padding + sz) >= 0
  BY <1>1, ExpandPagesEnough
<1>3. 2 <= padding
  BY <1>1, <1>2, PaddingOk DEF ExpandPadding
<1>4. Vm!CommitSize(n) = n * PageSize
  BY <1>1, PagesDoNotWrap DEF SoundAssumption
<1>5. ExpandNeeds \in Int
  <2>1. call.al \in Nat \ {0}
    BY <1>1, <1>2, PaddingOk
  <2>2. AlignUp(g, call.al) \in Nat
    BY <1>2, <2>1, AlignUpLeast
  <2> HIDE DEF g, padding
  <2> QED BY <1>1, <1>2, <2>2 DEF ExpandNeeds, g, padding
<1>6. 0 < n * PageSize /\ (~LastIsFree => 3 <= n * PageSize)
  BY <1>1, <1>2, <1>5
<1>7. SoundArena(m, end1, live, live, FirstWider, g) /\ g \in Starts(live, end1)
  BY <1>1, <1>2, <1>4, <1>6, WiderSound
<1>8. m[g] = 0 /\ m[g + 1] = ExpandPrev /\ m[g + 2] = end1 - g
  BY <1>1, <1>2, <1>4, <1>6, ExpandedWords
<1>9. end1 = m_end + n * PageSize /\ end1 \in Nat /\ m_end < end1
  BY <1>1, <1>2, <1>6 DEF Wider
<1> HIDE DEF m, end1
<1>10. m[g + 2] - (padding + sz) >= 0
  <2> HIDE DEF n, g, padding, sz
  <2>1. sz \in Nat
    BY <1>1 DEF sz
  <2> QED BY <1>1, <1>2, <1>8, <1>9, <2>1
<1>11. SplitDefined(m, g, m[g + 1], g + padding, sz)
  <2>1. m \in [Arena(end1) -> Words] /\ WholeList(Starts(live, end1), m, live, end1, FirstWider, g)
    BY <1>7 DEF SoundArena
  <2> HIDE DEF g, padding, sz
  <2>2. sz \in Nat /\ 1 <= sz
    BY <1>1 DEF sz
  <2> QED BY <1>2, <1>3, <1>7, <1>9, <1>10, <2>1, <2>2, TakeDefined
<1> DEFINE old == IF m_llStart = NULL \/ m_llEnd = NULL THEN ExpandBlock ELSE m_llEnd
<1>12. /\ TakeBlock(m, FirstWider, old, g, m[g + 1], padding, sz, al)
       /\ Vm!VmFits(n) /\ m_end' = end1 /\ m_reserved = m_end
  BY <1>8, <1>9, <1>11 DEF Expand, FirstWider, m
<1> HIDE DEF old
<1> DEFINE new == [ptr |-> g + padding, sz |-> sz, al |-> al, lo |-> g,
                   hi |-> IF m[g + 2] - (padding + sz) >= 3
                          THEN g + padding + sz ELSE g + m[g + 2]]
<1>13. /\ live' = live \cup {new}
       /\ SoundArena(mem', end1, live', live', m_llStart', m_llEnd')
       /\ call'.op = "idle" /\ m_initialized' = m_initialized /\ status' = status
  <2> DEFINE new1 == new
             first == FirstWider
             last == g
  <2> HIDE DEF g, padding, sz, al, new1, first, last
  <2>1. new1 = [ptr |-> g + padding, sz |-> sz, al |-> al, lo |-> g,
                hi |-> IF m[g + 2] - (padding + sz) >= 3
                       THEN g + padding + sz ELSE g + m[g + 2]]
    BY DEF new1
  <2>2. sz \in Nat /\ 1 <= sz
    BY <1>1 DEF sz
  <2>3. m[g] # 0 => old = last
    BY <1>8
  <2>4. padding \in Nat /\ end1 \in Nat
    BY <1>2, <1>9
  <2>5. TakeBlock(m, first, old, g, m[g + 1], padding, sz, al)
    BY <1>12 DEF first
  <2>6. HandsOut(new1, end1)
    <3>1. SoundArena(m, end1, live, live, first, last) /\ g \in Starts(live, end1)
      BY <1>7 DEF first, last
    <3> QED BY <1>3, <1>10, <2>1, <2>2, <2>3, <2>4, <2>5, <3>1, TakeSound
  <2> QED BY <2>6 DEF HandsOut, new1
<1>14. end1 <= Base + ArenaLimit
  <2>1. Buffer = "VMDYNAMIC"
    BY <1>1, CallFields DEF TypeOK
  <2>2. end1 <= Vm!VmEnd
    BY <1>4, <1>9, <1>12 DEF Vm!VmFits
  <2>3. Vm!VmEnd \in Int
    BY SeqAssumption, DivisionFacts DEF Vm!VmEnd, Vm!NumPages
  <2> QED BY <1>9, <2>1, <2>2, <2>3, SeqAssumption DEF ArenaLimit
<1>15. CallOK'
  BY <1>13 DEF CallOK, SearchedSoFar, NoneFits, Scanned, Printed
<1>16. SInv'
  <2>1. Used' = live'
    BY <1>13, UsedNextIsLive
  <2>2. SoundArena(mem', m_end', Used', live', m_llStart', m_llEnd')
    BY <1>12, <1>13, <2>1
  <2>3. status' = "ok" /\ m_initialized'
    BY <1>13 DEF SoundNow
  <2>4. Base + 3 <= m_end' /\ m_end' <= Base + ArenaLimit
    BY <1>1, <1>9, <1>12, <1>14, NowFacts, SeqAssumption
  <2> QED BY <1>15, <2>2, <2>3, <2>4, SInvNext
<1>17. new = [ptr |-> g + padding, sz |-> sz, al |-> al, lo |-> g,
              hi |-> IF m_end' - g - (padding + sz) >= 3 THEN g + padding + sz ELSE m_end']
  BY <1>2, <1>8, <1>9, <1>12
<1>18. m_end' - g - (padding + sz) >= 0
  BY <1>8, <1>10, <1>12
<1> HIDE DEF new
<1> QED BY <1>9, <1>12, <1>13, <1>16, <1>17, <1>18 DEF SoundNow

\* The assert that fails leaves everything else as it was.
LEMMA ExpandAbortsSInv ==
  ASSUME SoundNow, ExpandAborts
  PROVE  SInv'
BY DEF ExpandAborts, SInv, SoundNow, Disjoint

\* What _vmExpand reads before it grows the arena holds values.
LEMMA ExpandNeverUndefined ==
  ASSUME SoundAssumption, SoundNow
  PROVE  ~ExpandUndefined
BY ExpandNeedsMore DEF ExpandUndefined

-----------------------------------------------------------------------------
(***************************************************************************)
(* Free.                                                                   *)
(***************************************************************************)
\* From the pointer Free finds the block a client holds, and forgets no other.
LEMMA BlockKnown ==
  ASSUME SoundNow, Ready, NEW b \in live
  PROVE  /\ b.ptr \in Nat /\ b.ptr # 0 /\ Known(b.ptr - 2) /\ Known(b.ptr - 1)
         /\ BlockOf(b.ptr) = b.lo /\ LenOf(b.ptr) = b.hi - b.lo /\ HeaderFits(b.lo)
         /\ b.lo \in Nat /\ b.hi \in Nat /\ b.lo + 3 <= b.hi /\ b.hi <= m_end
         /\ \A a \in FreeBlocks : a + SizeOf(a) <= b.lo \/ b.hi <= a
         /\ \A c \in live : c # b => c.hi <= b.lo \/ b.hi <= c.lo
         /\ {c \in live : c.ptr # b.ptr} = live \ {b}
<1>1. /\ m_end \in Nat /\ mem \in [Arena(m_end) -> Words] /\ DOMAIN mem = Arena(m_end)
      /\ WholeList(FreeBlocks, mem, live, m_end, m_llStart, m_llEnd)
      /\ HeadersIn(mem, live)
  BY NowFacts, UsedIsLive DEF Ready
<1>2. HasHeader(mem, b)
  BY <1>1 DEF HeadersIn
<1>3. /\ b.lo \in Nat /\ b.hi \in Nat /\ Base <= b.lo /\ b.lo + 3 <= b.hi /\ b.hi <= m_end
      /\ b.lo \in Arena(m_end) /\ b.lo + 1 \in Arena(m_end) /\ b.lo + 2 \in Arena(m_end)
      /\ \A a \in FreeBlocks : a + mem[a + 2] <= b.lo \/ b.hi <= a
  <2>1. Spans(b, b.lo, b.hi)
    BY DEF Spans
  <2> DEFINE h == b.lo
             t == b.hi
  <2>2. Spans(b, h, t)
    BY <2>1
  <2>3. Base <= b.lo
    BY <1>1 DEF WholeList, Tiles
  <2> HIDE DEF h, t
  <2>4. /\ h \in Nat /\ t \in Nat /\ h + 3 <= t /\ t <= m_end
        /\ h \in Arena(m_end) /\ h + 1 \in Arena(m_end) /\ h + 2 \in Arena(m_end)
        /\ \A a \in FreeBlocks : a + mem[a + 2] <= h \/ t <= a
    BY <1>1, <2>2, GivenFacts
  <2> QED BY <2>3, <2>4 DEF h, t
<1>4. /\ b.ptr \in Nat /\ b.lo + 2 <= b.ptr /\ b.ptr < b.hi
      /\ mem[b.ptr - 1] = b.ptr - b.lo /\ mem[b.ptr - 2] = b.hi - b.ptr
  BY <1>2 DEF HasHeader
<1>5. b.ptr # 0 /\ b.ptr - 2 \in Arena(m_end) /\ b.ptr - 1 \in Arena(m_end)
  <2>1. b.ptr # 0 /\ b.ptr - 2 \in Nat /\ b.ptr - 1 \in Nat
    BY <1>3, <1>4
  <2>2. Base <= b.ptr - 2 /\ b.ptr - 1 < m_end
    BY <1>1, <1>3, <1>4, BaseType
  <2>3. Base <= b.ptr - 1 /\ b.ptr - 2 < m_end
    BY <1>1, <1>4, <2>2, BaseType
  <2> QED BY <1>1, <2>1, <2>2, <2>3, ArenaWords
<1>6. Known(b.ptr - 2) /\ Known(b.ptr - 1)
  BY <1>1, <1>3, <1>4, <1>5 DEF Known, Mapped
<1>7. BlockOf(b.ptr) = b.lo /\ LenOf(b.ptr) = b.hi - b.lo
  BY <1>3, <1>4 DEF BlockOf, LenOf
<1>8. HeaderFits(b.lo)
  BY <1>1, <1>3 DEF HeaderFits
<1>9. \A c \in live : c # b => c.hi <= b.lo \/ b.hi <= c.lo
  BY <1>1 DEF WholeList, Tiles
<1>10. ASSUME NEW c \in live, c # b PROVE c.ptr # b.ptr
  <2>1. HasHeader(mem, c)
    BY <1>1 DEF HeadersIn
  <2>2. c.ptr \in Nat /\ c.lo \in Nat /\ c.hi \in Nat /\ c.lo + 2 <= c.ptr /\ c.ptr < c.hi
    BY <2>1 DEF HasHeader
  <2>3. c.hi <= b.lo \/ b.hi <= c.lo
    BY <1>9, <1>10
  <2> QED BY <1>3, <1>4, <2>2, <2>3
<1>11. {c \in live : c.ptr # b.ptr} = live \ {b}
  BY <1>10
<1> QED BY <1>3, <1>4, <1>5, <1>6, <1>7, <1>8, <1>9, <1>11 DEF SizeOf

\* After a call that returns and adds no block, in an arena whose list is whole.
LEMMA ReturnsSInv ==
  ASSUME SoundNow, IInv', SameArena, Returns, live' \subseteq live,
         WholeList(Starts(live', m_end), mem', live', m_end, m_llStart', m_llEnd'),
         WordsKept(live', mem, mem')
  PROVE  /\ SInv' /\ call'.op = "idle"
         /\ m_end' = m_end /\ m_initialized' /\ status' = "ok"
<1>1. call'.op = "idle" /\ m_end' = m_end /\ m_initialized' /\ status' = "ok"
  BY DEF SoundNow, Returns, Returned, sizeVars
<1>2. Used' = live'
  BY <1>1, UsedNextIsLive
<1>3. mem' \in [Arena(m_end) -> Words]
  <2>1. mem' \in [DOMAIN mem' -> Words]
    BY DEF IInv, TypeOK
  <2>2. DOMAIN mem' = Arena(m_end)
    BY NowFacts DEF SameArena
  <2> QED BY <2>1, <2>2
<1>4. HeadersIn(mem', live')
  <2>1. HeadersIn(mem, live')
    BY NowFacts DEF HeadersIn
  <2> QED BY <2>1, HeadersKept
<1>5. SoundArena(mem', m_end', Used', live', m_llStart', m_llEnd')
  BY <1>1, <1>2, <1>3, <1>4 DEF SoundArena
<1>6. CallOK'
  BY <1>1 DEF CallOK, SearchedSoFar, NoneFits, Scanned, Printed
<1> QED BY <1>1, <1>5, <1>6, NowFacts, SInvNext

\* The list of which b is given back, in the words of the lemmas above.
LEMMA GivenList ==
  ASSUME SoundNow, Ready, NEW b \in live, Forget(b.ptr)
  PROVE  /\ live' = live \ {b} /\ b \notin live'
         /\ m_end \in Nat /\ mem \in [Arena(m_end) -> Words]
         /\ WholeList(FreeBlocks, mem, live' \cup {b}, m_end, m_llStart, m_llEnd)
         /\ Spans(b, b.lo, b.hi)
<1>1. live' = live \ {b}
  BY BlockKnown DEF Forget
<1>2. live' \cup {b} = live
  BY <1>1
<1>3. WholeList(FreeBlocks, mem, live, m_end, m_llStart, m_llEnd)
  BY NowFacts, UsedIsLive DEF Ready
<1> QED BY <1>1, <1>2, <1>3, NowFacts DEF Spans

\* Into an empty list, or in front of it.
LEMMA FreeFirstSInv ==
  ASSUME SoundNow, NEW b \in live, ~MergesIntoFirst(b.ptr), IInv', SameArena,
         FreeIntoEmpty(b.ptr) \/ FreeFront(b.ptr)
  PROVE  SInv' /\ live' = live \ {b}
<1> DEFINE h == b.lo
           t == b.hi
           n == m_llStart
<1>1. /\ Ready /\ Forget(b.ptr) /\ Returns
  BY DEF FreeIntoEmpty, FreeFront, Freeing
<1>2. /\ h \in Nat /\ t \in Nat /\ h + 3 <= t
      /\ BlockOf(b.ptr) = h /\ LenOf(b.ptr) = t - h /\ HeaderFits(h)
  BY <1>1, BlockKnown
<1>3. /\ live' = live \ {b} /\ b \notin live'
      /\ m_end \in Nat /\ mem \in [Arena(m_end) -> Words]
      /\ WholeList(FreeBlocks, mem, live' \cup {b}, m_end, m_llStart, m_llEnd)
      /\ Spans(b, h, t)
  BY <1>1, GivenList
<1>4. n # 0 => n \in FreeBlocks /\ n \in Nat /\ \A a \in FreeBlocks : n <= a /\ a \in Nat
  BY EndsKnown, FreeKnown
<1>5. n = 0 => FreeBlocks = {}
  BY EndsKnown
<1>6. n # 0 => h < n /\ n # t
  BY <1>2 DEF FreeIntoEmpty, FreeFront, BeforeFirst, MergesIntoFirst, MeetsFirst
<1>7. n # t
  BY <1>2, <1>6
<1>8. IsPrev(FreeBlocks, h, 0) /\ IsNext(FreeBlocks, h, n)
  <2>1. CASE n = 0
    BY <1>5, <2>1 DEF IsPrev, IsNext
  <2>2. CASE n # 0
    <3>1. \A a \in FreeBlocks : h <= a /\ n <= a
      BY <1>2, <1>4, <1>6, <2>2
    <3> QED BY <1>4, <1>6, <2>2, <3>1 DEF IsPrev, IsNext
  <2> QED BY <2>1, <2>2
<1>9. /\ mem' = WriteHeader(IF n = 0 THEN mem ELSE [mem EXCEPT ![n + 1] = h], h, n, 0, t - h)
      /\ m_llStart' = h /\ m_llEnd' = IF n = 0 THEN h ELSE m_llEnd
  <2>1. CASE FreeIntoEmpty(b.ptr)
    BY <1>2, <2>1 DEF FreeIntoEmpty
  <2>2. CASE FreeFront(b.ptr)
    <3>1. ~MeetsFirst(b.ptr)
      BY <2>2 DEF FreeFront, MergesIntoFirst
    <3> QED BY <1>2, <2>2, <3>1 DEF FreeFront, BeforeFirst
  <2> QED BY <2>1, <2>2
<1> HIDE DEF h, t, n
<1>10. Inserted(mem, mem', m_end, 0, h, n, t, m_llStart, m_llEnd, m_llStart', m_llEnd')
  <2>1. h \in DOMAIN mem /\ h + 1 \in DOMAIN mem /\ h + 2 \in DOMAIN mem
    BY <1>2 DEF HeaderFits
  <2>2. mem'[h] = n /\ mem'[h + 1] = 0 /\ mem'[h + 2] = t - h
    BY <1>2, <1>9, <2>1 DEF WriteHeader
  <2>3. ASSUME NEW x \in Arena(m_end), x < h \/ h + 3 <= x
        PROVE  mem'[x] = IF x = 0 THEN h ELSE IF n # 0 /\ x = n + 1 THEN h ELSE mem[x]
    <3>1. x \in Nat /\ x # 0
      BY <1>3, SeqAssumption DEF Arena
    <3>2. x # h /\ x # h + 1 /\ x # h + 2
      BY <1>2, <2>3, <3>1
    <3> QED BY <1>3, <1>9, <3>1, <3>2 DEF WriteHeader
  <2> QED BY <1>9, <2>2, <2>3 DEF Inserted, InsertedWords
<1>11. /\ WholeList(Starts(live', m_end), mem', live', m_end, m_llStart', m_llEnd')
       /\ WordsKept(live', mem, mem')
  <2> DEFINE p == 0
  <2>1. IsPrev(FreeBlocks, h, p) /\ (p # 0 => p + mem[p + 2] # h)
    BY <1>8
  <2>2. Inserted(mem, mem', m_end, p, h, n, t, m_llStart, m_llEnd, m_llStart', m_llEnd')
    BY <1>10
  <2> HIDE DEF p
  <2> QED BY <1>3, <1>7, <1>8, <2>1, <2>2, GiveApart
<1> QED BY <1>1, <1>3, <1>11, ReturnsSInv

\* Merged into the last free block.
LEMMA FreeLastSInv ==
  ASSUME SoundNow, NEW b \in live, ~AppendsApart(b.ptr), IInv', SameArena,
         FreeBack(b.ptr)
  PROVE  SInv' /\ live' = live \ {b}
<1> DEFINE h == b.lo
           t == b.hi
           p == m_llEnd
<1>1. /\ Ready /\ Forget(b.ptr) /\ Returns /\ AfterLast(b.ptr) /\ MeetsLast(b.ptr)
  BY DEF FreeBack, Freeing, AppendsApart
<1>2. /\ h \in Nat /\ t \in Nat /\ h + 3 <= t
      /\ BlockOf(b.ptr) = h /\ LenOf(b.ptr) = t - h
  BY <1>1, BlockKnown
<1>3. /\ live' = live \ {b} /\ b \notin live'
      /\ m_end \in Nat /\ mem \in [Arena(m_end) -> Words]
      /\ WholeList(FreeBlocks, mem, live' \cup {b}, m_end, m_llStart, m_llEnd)
      /\ Spans(b, h, t)
  BY <1>1, GivenList
<1>4. p \in FreeBlocks /\ \A a \in FreeBlocks : a <= p
  BY <1>1, EndsKnown DEF AfterLast
<1>5. /\ p \in Nat /\ p \in DOMAIN mem /\ p + 2 \in DOMAIN mem
      /\ mem[p] = 0 /\ mem[p + 2] \in Nat
  BY <1>4, FreeKnown DEF HeaderFits, NextOf, SizeOf
<1>6. p + mem[p + 2] = h /\ p < h
  BY <1>1, <1>2 DEF MeetsLast, AfterLast, SizeOf
<1>7. t \notin FreeBlocks
  <2>1. ~(t <= p)
    BY <1>2, <1>5, <1>6
  <2> QED BY <1>4, <2>1
<1>8. /\ mem' = [mem EXCEPT ![p] = 0, ![p + 2] = @ + (t - h)]
      /\ m_llStart' = m_llStart /\ m_llEnd' = m_llEnd
  BY <1>1, <1>2 DEF FreeBack
<1> HIDE DEF h, t, p
<1>9. Lengthened(mem, mem', m_end, p, t)
  <2>1. mem'[p + 2] = mem[p + 2] + (t - h)
    BY <1>5, <1>8
  <2>2. mem'[p + 2] = t - p
    BY <1>2, <1>5, <1>6, <2>1
  <2>3. \A x \in Arena(m_end) : x # p + 2 => mem'[x] = mem[x]
    BY <1>3, <1>5, <1>8
  <2> QED BY <2>2, <2>3 DEF Lengthened
<1>10. /\ WholeList(Starts(live', m_end), mem', live', m_end, m_llStart, m_llEnd)
       /\ WordsKept(live', mem, mem')
  BY <1>3, <1>4, <1>6, <1>7, <1>9, GiveLeft DEF p
<1> QED BY <1>1, <1>3, <1>8, <1>10, ReturnsSInv

\* Between the ends: nothing is written yet, the scan begins.
LEMMA FreeMiddleSInv ==
  ASSUME SoundNow, NEW b \in live, IInv', SameArena, FreeMiddle(b.ptr)
  PROVE  SInv' /\ live' = live \ {b}
<1> DEFINE h == b.lo
           t == b.hi
<1>1. /\ Ready /\ Forget(b.ptr) /\ Between(b.ptr)
      /\ mem' = mem /\ m_llStart' = m_llStart /\ m_llEnd' = m_llEnd /\ m_end' = m_end
      /\ m_initialized' /\ status' = "ok"
  BY DEF FreeMiddle, Freeing, SoundNow, sizeVars
<1>2. /\ h \in Nat /\ t \in Nat /\ h + 3 <= t
      /\ BlockOf(b.ptr) = h /\ LenOf(b.ptr) = t - h
      /\ \A c \in live : c # b => c.hi <= h \/ t <= c.lo
  BY <1>1, BlockKnown
<1>3. /\ live' = live \ {b} /\ b \notin live'
      /\ m_end \in Nat /\ mem \in [Arena(m_end) -> Words]
      /\ WholeList(FreeBlocks, mem, live' \cup {b}, m_end, m_llStart, m_llEnd)
  BY <1>1, GivenList
<1>4. /\ call'.op = "scan" /\ call'.h = h /\ call'.len = t - h
      /\ call'.Sp = m_llStart /\ call'.S = NextOf(m_llStart)
      /\ call'.Ep = m_llEnd /\ call'.E = PrevOf(m_llEnd)
  BY <1>2 DEF FreeMiddle
<1>5. Used' = live' \cup {Interval(h, t)}
  <2>1. h + (t - h) = t
    BY <1>2
  <2> QED BY <1>4, <2>1 DEF Used
<1> DEFINE v == Interval(h, t)
<1>6. Tiles(FreeBlocks, Ends(FreeBlocks, mem), live' \cup {v}, m_end)
  <2>1. v.lo = b.lo /\ v.hi = b.hi
    BY DEF Interval
  <2>2. Tiles(FreeBlocks, Ends(FreeBlocks, mem), live' \cup {b}, m_end)
    BY <1>3 DEF WholeList
  <2> HIDE DEF v
  <2> QED BY <1>3, <2>1, <2>2, SwapTiles
<1>7. FreeBlocks' = FreeBlocks
  <2>1. FreeBlocks = Starts(Used', m_end)
    BY <1>3, <1>5, <1>6, TilesStarts
  <2> QED BY <1>1, <2>1 DEF FreeBlocks
<1>8. SoundArena(mem', m_end', Used', live', m_llStart', m_llEnd')
  <2>1. WholeList(FreeBlocks, mem, Used', m_end, m_llStart, m_llEnd)
    BY <1>3, <1>5, <1>6 DEF WholeList
  <2>2. HeadersIn(mem, live')
    BY <1>3, NowFacts DEF HeadersIn
  <2>3. FreeBlocks = Starts(Used', m_end)
    BY <1>1, <1>7 DEF FreeBlocks
  <2> QED BY <1>1, <1>3, <2>1, <2>2, <2>3 DEF SoundArena
<1>9. CallOK'
  <2>1. m_llStart < h /\ h < m_llEnd /\ m_llStart # 0
    BY <1>1, <1>2 DEF Between
  <2>2. m_llStart \in FreeBlocks /\ m_llEnd \in FreeBlocks
    BY <2>1, EndsKnown
  <2>3. h + (t - h) = t
    BY <1>2
  <2>4. \A c \in live' : c.hi <= h \/ t <= c.lo
    BY <1>2, <1>3
  <2>5. NextOf(m_llStart)' = NextOf(m_llStart) /\ PrevOf(m_llEnd)' = PrevOf(m_llEnd)
    BY <1>1 DEF NextOf, PrevOf
  <2>6. Scanned'
    <3>1. call'.S = NextOf(call.Sp)' /\ call'.E = PrevOf(call.Ep)'
      BY <1>1, <1>4 DEF NextOf, PrevOf
    <3>2. call'.h + call'.len = t
      BY <1>4, <2>3
    <3> QED BY <1>4, <1>7, <2>1, <2>2, <2>4, <3>1, <3>2 DEF Scanned
  <2> QED BY <1>4, <2>6 DEF CallOK, SearchedSoFar, NoneFits, Printed
<1> QED BY <1>1, <1>3, <1>8, <1>9, NowFacts, SInvNext

\* Free finds a place for every block in use, and its way there.
LEMMA FreeAlwaysPlaces ==
  ASSUME SoundNow, NEW b \in live
  PROVE  ~FreeIgnored(b.ptr) /\ ~FreeUndefined(b.ptr)
<1> SUFFICES ASSUME Ready PROVE ~FreeIgnored(b.ptr) /\ ~FreeUndefined(b.ptr)
  BY DEF FreeIgnored, FreeUndefined, Freeing
<1> DEFINE h == b.lo
<1>1. /\ h \in Nat /\ b.hi \in Nat /\ h + 3 <= b.hi /\ BlockOf(b.ptr) = h /\ HeaderFits(h)
      /\ Known(b.ptr - 2) /\ Known(b.ptr - 1)
      /\ \A a \in FreeBlocks : a + SizeOf(a) <= h \/ b.hi <= a
  BY BlockKnown
<1>2. \A a \in FreeBlocks : a \in Nat /\ SizeOf(a) \in Nat /\ 3 <= SizeOf(a)
  BY FreeKnown
<1>3. h \notin FreeBlocks
  BY <1>1, <1>2
<1>4. m_llStart # 0 => /\ m_llStart \in FreeBlocks /\ m_llEnd \in FreeBlocks
                       /\ m_llStart \in Nat /\ m_llEnd \in Nat
  BY EndsKnown, <1>2
<1>5. ~FreeIgnored(b.ptr)
  <2> SUFFICES ASSUME m_llStart # 0, ~BeforeFirst(b.ptr), ~AfterLast(b.ptr), ~Between(b.ptr)
               PROVE  FALSE
    BY DEF FreeIgnored
  <2>1. ~(h < m_llStart) /\ ~(m_llStart <= h /\ m_llEnd < h) /\ ~(m_llStart < h /\ h < m_llEnd)
    BY <1>1, <1>4 DEF BeforeFirst, AfterLast, Between
  <2>2. h = m_llStart \/ h = m_llEnd
    BY <1>1, <1>4, <2>1
  <2> QED BY <1>3, <1>4, <2>2
<1>6. m_llStart # 0 =>
        /\ Known(m_llStart) /\ Known(m_llStart + 2) /\ Mapped(m_llStart + 1)
        /\ Mapped(m_llEnd) /\ Known(m_llEnd + 1) /\ Known(m_llEnd + 2)
  BY <1>4, FreeKnown DEF Known
<1>7. FreeDefined(b.ptr)
  BY <1>1, <1>6 DEF FreeDefined, BeforeFirst, AfterLast, Between, FrontDefined, BackDefined
<1> QED BY <1>5, <1>7 DEF FreeUndefined

\* Free, off its two damaging paths, gives back the block and keeps the list whole.
LEMMA FreeSInv ==
  ASSUME SoundNow, NEW b \in live, ~MergesIntoFirst(b.ptr), ~AppendsApart(b.ptr), Free(b.ptr)
  PROVE  SInv' /\ live' = live \ {b}
<1>1. b.ptr \in Nat
  BY NowFacts DEF TypeOK
<1>2. IInv' /\ SameArena
  BY <1>1, FreeInv DEF SoundNow
<1>3. \/ FreeIntoEmpty(b.ptr) \/ FreeFront(b.ptr)
      \/ FreeBack(b.ptr) \/ FreeMiddle(b.ptr)
  BY FreeAlwaysPlaces DEF Free
<1> QED BY <1>2, <1>3, FreeFirstSInv, FreeLastSInv, FreeMiddleSInv

-----------------------------------------------------------------------------
(***************************************************************************)
(* The scan for the neighbours of a freed block, and its insertion.        *)
(***************************************************************************)
\* While it lasts: the block [h, t) given back lies strictly between two free
\* blocks, and no free block covers it.
LEMMA ScanFacts ==
  ASSUME SoundNow, Scanning
  PROVE  LET h == call.h
             t == call.h + call.len
         IN /\ call \in [op : {"scan"}, h : Nat, len : Nat, S : Nat, Sp : Nat, E : Nat, Ep : Nat]
            /\ h \in Nat /\ t \in Nat /\ h # 0 /\ h + 3 <= t /\ HeaderFits(h)
            /\ call.Sp \in FreeBlocks /\ call.Sp < h /\ call.S = NextOf(call.Sp)
            /\ call.Ep \in FreeBlocks /\ h < call.Ep /\ call.E = PrevOf(call.Ep)
            /\ call.S \in FreeBlocks /\ call.E \in FreeBlocks
            /\ h \notin FreeBlocks
            /\ \A a \in FreeBlocks : a + SizeOf(a) <= h \/ t <= a
            /\ Interval(h, t) \notin live /\ Used = live \cup {Interval(h, t)}
<1> DEFINE h == call.h
           t == call.h + call.len
           u == Interval(h, t)
<1>1. /\ call \in [op : {"scan"}, h : Nat, len : Nat, S : Nat, Sp : Nat, E : Nat, Ep : Nat]
      /\ call.op = "scan"
  BY NowFacts, CallFields DEF Scanning, TypeOK
<1>2. /\ call.Sp \in FreeBlocks /\ call.Sp < h /\ call.S = NextOf(call.Sp)
      /\ call.Ep \in FreeBlocks /\ h < call.Ep /\ call.E = PrevOf(call.Ep)
      /\ \A b \in live : b.hi <= h \/ t <= b.lo
  BY <1>1, NowFacts DEF CallOK, Scanned
<1>3. Used = live \cup {u} /\ u \in Used /\ Spans(u, h, t)
  BY <1>1 DEF Used, Spans, Interval
<1>4. h \in Nat /\ t \in Nat
  BY <1>1
<1> HIDE DEF h, t, u
<1>5. /\ h # 0 /\ h + 3 <= t
      /\ h \in Arena(m_end) /\ h + 1 \in Arena(m_end) /\ h + 2 \in Arena(m_end)
      /\ \A a \in FreeBlocks : a + mem[a + 2] <= h \/ t <= a
  BY <1>3, NowFacts, GivenFacts
<1>6. HeaderFits(h)
  BY <1>5, NowFacts DEF HeaderFits
<1>7. \A a \in FreeBlocks : a \in Nat /\ SizeOf(a) \in Nat /\ 3 <= SizeOf(a)
  BY FreeKnown
<1>8. h \notin FreeBlocks
  <2>1. \A a \in FreeBlocks : a + SizeOf(a) <= h \/ t <= a
    BY <1>5 DEF SizeOf
  <2> QED BY <1>4, <1>5, <1>7, <2>1
<1>9. u \notin live
  <2>1. u.hi = t /\ u.lo = h
    BY <1>3 DEF Spans
  <2>2. ~(t <= h)
    BY <1>4, <1>5
  <2> QED BY <1>2, <2>1, <2>2
<1>10. call.S \in FreeBlocks /\ call.E \in FreeBlocks
  <2>1. call.Sp \in Nat /\ call.Ep \in Nat /\ call.Sp < call.Ep
    BY <1>2, <1>4, <1>7
  <2>2. NextOf(call.Sp) # 0
    <3>1. call.Sp # m_llEnd
      <4>1. call.Ep <= m_llEnd
        BY <1>2, FreeKnown
      <4> QED BY <2>1, <4>1
    <3> QED BY <1>2, <3>1, FreeKnown
  <2>3. PrevOf(call.Ep) # 0
    <3>1. call.Ep # m_llStart
      <4>1. m_llStart <= call.Sp
        BY <1>2, FreeKnown
      <4> QED BY <2>1, <4>1
    <3> QED BY <1>2, <3>1, FreeKnown
  <2> QED BY <1>2, <2>2, <2>3, FreeKnown
<1>11. \A a \in FreeBlocks : a + SizeOf(a) <= h \/ t <= a
  BY <1>5 DEF SizeOf
<1> QED BY <1>1, <1>2, <1>3, <1>4, <1>5, <1>6, <1>8, <1>9, <1>10, <1>11 DEF h, t, u

\* The block given back is in nobody's hands and not yet on the list, so the scan
\* never finds it there.
LEMMA NeverAlreadyFree ==
  ASSUME SoundNow
  PROVE  ~ScanReturns
<1> SUFFICES ASSUME ScanReturns PROVE FALSE
  OBVIOUS
<1>1. Scanning /\ call.h \in {call.S, call.E}
  BY DEF ScanReturns, AlreadyFree
<1> QED BY <1>1, ScanFacts

\* The scan walks on with the freed block still between its two ends.
LEMMA ScanWalksSInv ==
  ASSUME SoundNow, ScanWalks
  PROVE  SInv'
<1>1. /\ Scanning /\ ~ScanStops /\ OnlyCallChanges
      /\ call' = [call EXCEPT !.Sp = call.S, !.S = NextOf(call.S),
                              !.Ep = call.E, !.E = PrevOf(call.E)]
  BY DEF ScanWalks
<1>2. /\ call \in [op : {"scan"}, h : Nat, len : Nat, S : Nat, Sp : Nat, E : Nat, Ep : Nat]
      /\ call.S \in FreeBlocks /\ call.E \in FreeBlocks /\ call.h \notin FreeBlocks
  BY <1>1, ScanFacts
<1>3. /\ call'.op = "scan" /\ call'.h = call.h /\ call'.len = call.len
      /\ call'.Sp = call.S /\ call'.S = NextOf(call.S)
      /\ call'.Ep = call.E /\ call'.E = PrevOf(call.E)
  BY <1>1, <1>2
<1>4. call.S < call.h /\ call.h < call.E
  <2>1. ~(call.S > call.h) /\ ~(call.E < call.h)
    BY <1>1 DEF ScanStops
  <2>2. call.S # call.h /\ call.E # call.h /\ call.S \in Nat /\ call.E \in Nat /\ call.h \in Nat
    BY <1>2
  <2> QED BY <2>1, <2>2
<1>5. mem' = mem /\ live' = live /\ m_end' = m_end /\ call.op = "scan"
  BY <1>1, <1>2 DEF OnlyCallChanges, sizeVars
<1>6. Used' = Used
  BY <1>3, <1>5 DEF Used
<1>7. FreeBlocks' = FreeBlocks
  BY <1>5, <1>6 DEF FreeBlocks
<1>8. Scanned'
  <2>1. \A b \in live : b.hi <= call.h \/ call.h + call.len <= b.lo
    BY <1>5, NowFacts DEF CallOK, Scanned
  <2>2. NextOf(call.S)' = NextOf(call'.S) /\ PrevOf(call.E)' = PrevOf(call'.E)
    BY <1>5 DEF NextOf, PrevOf
  <2>3. NextOf(call.Sp)' = NextOf(call.S) /\ PrevOf(call.Ep)' = PrevOf(call.E)
    BY <1>3, <1>5 DEF NextOf, PrevOf
  <2> QED BY <1>2, <1>3, <1>4, <1>5, <1>7, <2>1, <2>3 DEF Scanned
<1>9. CallOK'
  BY <1>3, <1>8 DEF CallOK, SearchedSoFar, NoneFits, Printed
<1> QED BY <1>1, <1>6, <1>9, CallSInv

\* The scan stops between the two free blocks next to the one given back.
Surround(p, n) ==
  /\ p \in FreeBlocks /\ n \in FreeBlocks
  /\ p \in Nat /\ n \in Nat /\ p # 0 /\ n # 0
  /\ p + 3 <= call.h /\ p + SizeOf(p) <= call.h /\ call.h + call.len <= n
  /\ NextOf(p) = n /\ PrevOf(n) = p
  /\ IsPrev(FreeBlocks, call.h, p) /\ IsNext(FreeBlocks, call.h, n)

\* Where the scan stops it has the two free neighbours of the freed block.
LEMMA NeighboursFound ==
  ASSUME SoundNow, Scanning, ScanStops
  PROVE  Surround(Neighbours[2], Neighbours[1])
<1> DEFINE h == call.h
           t == call.h + call.len
<1>1. /\ h \in Nat /\ t \in Nat /\ h + 3 <= t
      /\ call.Sp \in FreeBlocks /\ call.Sp < h /\ call.S = NextOf(call.Sp)
      /\ call.Ep \in FreeBlocks /\ h < call.Ep /\ call.E = PrevOf(call.Ep)
      /\ call.S \in FreeBlocks /\ call.E \in FreeBlocks
      /\ \A a \in FreeBlocks : a + SizeOf(a) <= h \/ t <= a
  BY ScanFacts
<1>2. \A a \in FreeBlocks : a \in Nat /\ a # 0 /\ SizeOf(a) \in Nat /\ 3 <= SizeOf(a)
  BY FreeKnown
<1>3. ASSUME NEW a \in FreeBlocks
      PROVE  /\ NextOf(a) # 0 => /\ PrevOf(NextOf(a)) = a
                               /\ \A b \in FreeBlocks : b <= a \/ NextOf(a) <= b
             /\ PrevOf(a) # 0 => /\ NextOf(PrevOf(a)) = a
                               /\ \A b \in FreeBlocks : b <= PrevOf(a) \/ a <= b
  <2>1. InList(FreeBlocks, mem, Used, m_end, m_llStart, m_llEnd, a)
    BY NowFacts, ListFacts
  <2> QED BY <2>1 DEF InList, NextOf, PrevOf
<1>4. ASSUME NEW p \in FreeBlocks, NEW n \in FreeBlocks, p < h, h < n,
             NextOf(p) = n, PrevOf(n) = p, \A b \in FreeBlocks : b <= p \/ n <= b
      PROVE  Surround(p, n)
  <2>1. p \in Nat /\ n \in Nat /\ p # 0 /\ n # 0 /\ SizeOf(p) \in Nat /\ 3 <= SizeOf(p)
        /\ SizeOf(n) \in Nat
    BY <1>2
  <2>2. p + SizeOf(p) <= h
    BY <1>1, <1>4, <2>1
  <2>3. t <= n
    BY <1>1, <1>4, <2>1
  <2>4. p + 3 <= h
    BY <1>1, <2>1, <2>2
  <2>5. IsPrev(FreeBlocks, h, p)
    <3>1. \A b \in FreeBlocks : b <= p \/ h <= b
      BY <1>1, <1>2, <1>4, <2>1
    <3> QED BY <1>4, <2>1, <3>1 DEF IsPrev
  <2>6. IsNext(FreeBlocks, h, n)
    <3>1. \A b \in FreeBlocks : b <= h \/ n <= b
      BY <1>1, <1>2, <1>4, <2>1
    <3> QED BY <1>4, <2>1, <3>1 DEF IsNext
  <2> QED BY <1>4, <2>1, <2>2, <2>3, <2>4, <2>5, <2>6 DEF Surround
<1>5. call.S # 0 /\ call.E # 0
  BY <1>1, <1>2
<1>6. CASE call.S > call.h
  <2>1. Neighbours[1] = call.S /\ Neighbours[2] = call.Sp
    BY <1>5, <1>6 DEF Neighbours, ScanGoesOn
  <2>2. call.Sp < h /\ h < call.S
    BY <1>1, <1>2, <1>6
  <2>3. PrevOf(call.S) = call.Sp /\ \A b \in FreeBlocks : b <= call.Sp \/ call.S <= b
    BY <1>1, <1>3, <1>5
  <2> QED BY <1>1, <1>4, <2>1, <2>2, <2>3
<1>7. CASE ~(call.S > call.h)
  <2>1. Neighbours[1] = call.Ep /\ Neighbours[2] = call.E
    BY <1>5, <1>7 DEF Neighbours, ScanGoesOn
  <2>2. call.E < h
    BY <1>5, <1>7 DEF ScanStops, ScanGoesOn
  <2>3. NextOf(call.E) = call.Ep /\ \A b \in FreeBlocks : b <= call.E \/ call.Ep <= b
    BY <1>1, <1>3, <1>5
  <2> QED BY <1>1, <1>4, <2>1, <2>2, <2>3
<1> QED BY <1>6, <1>7

\* What Insert does with those two.
InsertWrites(p, n) ==
  LET left  == AdjacentLeft(p)
      right == AdjacentRight(n)
      next  == NextOf(n)
      sized == [mem EXCEPT ![call.h + 2] = call.len + SizeOf(n)]
  IN /\ left /\ right =>
          mem' = Relink([mem EXCEPT ![p + 2] = @ + call.len + SizeOf(n), ![p] = next], next, p)
     /\ left /\ ~right => mem' = [mem EXCEPT ![p + 2] = @ + call.len]
     /\ ~left /\ right =>
          mem' = Relink([sized EXCEPT ![call.h] = sized[n], ![call.h + 1] = sized[n + 1],
                                      ![p] = call.h], next, call.h)
     /\ ~left /\ ~right =>
          mem' = [WriteHeader(mem, call.h, n, p, call.len) EXCEPT ![p] = call.h, ![n + 1] = call.h]
     /\ m_llEnd' = IF right /\ n = m_llEnd THEN IF left THEN p ELSE call.h ELSE m_llEnd
     /\ m_llStart' = m_llStart /\ live' = live

\* The words of the three blocks are apart, and what the code asks of them is
\* whether they touch.
LEMMA SurroundFacts ==
  ASSUME SoundNow, Scanning, NEW p, NEW n, Surround(p, n), NEW h, h = call.h,
         NEW t, t = call.h + call.len
  PROVE  /\ m_end \in Nat /\ mem \in [Arena(m_end) -> Words] /\ DOMAIN mem = Arena(m_end)
         /\ WholeList(FreeBlocks, mem, live \cup {Interval(h, t)}, m_end, m_llStart, m_llEnd)
         /\ Interval(h, t) \notin live /\ Spans(Interval(h, t), h, t)
         /\ h \in Nat /\ t \in Nat /\ h + 3 <= t /\ t <= n /\ call.len \in Nat /\ t = h + call.len
         /\ h \in Arena(m_end) /\ h + 1 \in Arena(m_end) /\ h + 2 \in Arena(m_end)
         /\ p \in Arena(m_end) /\ p + 2 \in Arena(m_end)
         /\ n \in Arena(m_end) /\ n + 1 \in Arena(m_end) /\ n + 2 \in Arena(m_end)
         /\ mem[p] = n /\ mem[n + 1] = p /\ mem[p + 2] \in Nat /\ mem[n + 2] \in Nat
         /\ mem[n] \in Nat /\ (mem[n] = 0 <=> n = m_llEnd)
         /\ mem[n] # 0 => n + 3 <= mem[n] /\ mem[n] + 1 \in Arena(m_end)
         /\ AdjacentLeft(p) <=> p + mem[p + 2] = h
         /\ AdjacentRight(n) <=> t = n
<1>1. /\ m_end \in Nat /\ mem \in [Arena(m_end) -> Words] /\ DOMAIN mem = Arena(m_end)
      /\ WholeList(FreeBlocks, mem, Used, m_end, m_llStart, m_llEnd)
  BY NowFacts
<1>2. /\ Used = live \cup {Interval(h, t)} /\ Interval(h, t) \notin live
      /\ h \in Nat /\ t \in Nat /\ h + 3 <= t /\ HeaderFits(h) /\ call.len \in Nat
  <2>1. call.len \in Nat
    BY ScanFacts
  <2> QED BY <2>1, ScanFacts
<1>3. Spans(Interval(h, t), h, t)
  BY DEF Spans, Interval
<1>4. /\ p \in FreeBlocks /\ n \in FreeBlocks /\ p # 0 /\ n # 0 /\ t <= n
      /\ NextOf(p) = n /\ PrevOf(n) = p
  BY DEF Surround
<1>5. /\ h \in Arena(m_end) /\ h + 1 \in Arena(m_end) /\ h + 2 \in Arena(m_end)
  BY <1>1, <1>2 DEF HeaderFits
<1>6. ASSUME NEW a \in FreeBlocks
      PROVE  /\ a \in Arena(m_end) /\ a + 1 \in Arena(m_end) /\ a + 2 \in Arena(m_end)
             /\ mem[a] \in Nat /\ mem[a + 2] \in Nat /\ a \in Nat
             /\ mem[a] = 0 <=> a = m_llEnd
  BY <1>1, FreeKnown DEF HeaderFits, NextOf, SizeOf
<1>7. mem[n] # 0 => n + 3 <= mem[n] /\ mem[n] + 1 \in Arena(m_end)
  <2>1. mem[n] # 0 => mem[n] \in FreeBlocks /\ n < mem[n]
    BY <1>4, FreeKnown DEF NextOf
  <2>2. mem[n] # 0 => n + SizeOf(n) < mem[n]
    BY <1>4, <2>1, FreeKnown
  <2>3. SizeOf(n) \in Nat /\ 3 <= SizeOf(n)
    BY <1>4, FreeKnown
  <2>4. mem[n] # 0 => n + 3 <= mem[n]
    BY <1>4, <1>6, <2>2, <2>3
  <2> QED BY <1>6, <2>1, <2>4
<1> QED BY <1>1, <1>2, <1>3, <1>4, <1>5, <1>6, <1>7
     DEF AdjacentLeft, AdjacentRight, NextOf, PrevOf, SizeOf

\* What a merge stores leaves the next of the block on the right as it was.
LEMMA MergedNext ==
  ASSUME SoundNow, Scanning, NEW p, NEW n, Surround(p, n), AdjacentRight(n)
  PROVE  /\ Merged(n, p)[n] = NextOf(n)
         /\ AdjacentLeft(p) =>
              Merged(n, p) = [mem EXCEPT ![p + 2] = @ + call.len + SizeOf(n), ![p] = NextOf(n)]
<1> DEFINE h == call.h
           sum == call.len + SizeOf(n)
           total == mem[p + 2] + call.len + SizeOf(n)
<1>1. /\ mem \in [Arena(m_end) -> Words]
      /\ h \in Nat /\ h + 3 <= n /\ n \in Arena(m_end)
      /\ p \in Arena(m_end) /\ p + 2 \in Arena(m_end)
  <2> DEFINE t == call.h + call.len
             u == Interval(h, t)
  <2>1. /\ mem \in [Arena(m_end) -> Words]
        /\ WholeList(FreeBlocks, mem, live \cup {u}, m_end, m_llStart, m_llEnd)
        /\ h \in Nat /\ t \in Nat /\ h + 3 <= t /\ n \in Arena(m_end) /\ t = n
        /\ p \in Arena(m_end) /\ p + 2 \in Arena(m_end)
    BY SurroundFacts
  <2> QED BY <2>1
<1>2. p \in Nat /\ n \in Nat /\ p + 3 <= h
  BY DEF Surround
<1>3. n # p /\ n # p + 2 /\ n # h /\ n # h + 1 /\ n # h + 2 /\ p # p + 2
  BY <1>1, <1>2
<1> HIDE DEF sum, total
<1>4. CASE AdjacentLeft(p)
  <2> DEFINE longer == [mem EXCEPT ![p + 2] = total]
  <2>1. longer[n] = mem[n]
    BY <1>1, <1>3
  <2>2. Merged(n, p) = [longer EXCEPT ![p] = mem[n]]
    BY <1>1, <1>4, <2>1 DEF Merged, MergedBoth, total
  <2>3. Merged(n, p)[n] = mem[n]
    BY <1>1, <1>3, <2>1, <2>2
  <2> QED BY <1>1, <2>2, <2>3 DEF NextOf, total
<1>5. CASE ~AdjacentLeft(p)
  <2> DEFINE sized == [mem EXCEPT ![h + 2] = sum]
  <2>1. sized[n] = mem[n] /\ DOMAIN sized = Arena(m_end)
    BY <1>1, <1>3
  <2>2. Merged(n, p) = [sized EXCEPT ![h] = sized[n], ![h + 1] = sized[n + 1], ![p] = h]
    BY <1>5 DEF Merged, MergedRight, sum
  <2> HIDE DEF sized, h
  <2> QED BY <1>1, <1>3, <1>5, <2>1, <2>2 DEF NextOf
<1> QED BY <1>4, <1>5

\* Insert writes as InsertWrites says, of the neighbours the scan found.
LEMMA InsertDoes ==
  ASSUME SoundNow, Insert, Surround(Neighbours[2], Neighbours[1])
  PROVE  InsertWrites(Neighbours[2], Neighbours[1])
<1> DEFINE p == Neighbours[2]
           n == Neighbours[1]
           merged == Merged(n, p)
<1>1. /\ Scanning
      /\ AdjacentRight(n) =>
           mem' = Relink(merged, merged[n], IF AdjacentLeft(p) THEN p ELSE call.h)
      /\ AdjacentLeft(p) /\ ~AdjacentRight(n) => mem' = [mem EXCEPT ![p + 2] = @ + call.len]
      /\ ~AdjacentLeft(p) /\ ~AdjacentRight(n) =>
           mem' = [WriteHeader(mem, call.h, n, p, call.len) EXCEPT ![p] = call.h, ![n + 1] = call.h]
      /\ m_llEnd' = IF AdjacentRight(n) /\ n = m_llEnd
                    THEN IF AdjacentLeft(p) THEN p ELSE call.h ELSE m_llEnd
      /\ m_llStart' = m_llStart /\ live' = live
  BY DEF Insert
<1> HIDE DEF p, n, merged
<1>2. Surround(p, n)
  BY DEF p, n
<1>3. AdjacentRight(n) =>
        /\ merged[n] = NextOf(n)
        /\ AdjacentLeft(p) =>
             merged = [mem EXCEPT ![p + 2] = @ + call.len + SizeOf(n), ![p] = NextOf(n)]
  BY <1>1, <1>2, MergedNext DEF merged
<1>4. ~AdjacentLeft(p) =>
        merged = [[mem EXCEPT ![call.h + 2] = call.len + SizeOf(n)]
                    EXCEPT ![call.h] = [mem EXCEPT ![call.h + 2] = call.len + SizeOf(n)][n],
                           ![call.h + 1] = [mem EXCEPT ![call.h + 2] = call.len + SizeOf(n)][n + 1],
                           ![p] = call.h]
  BY DEF merged, Merged, MergedRight
<1>5. InsertWrites(p, n)
  BY <1>1, <1>3, <1>4 DEF InsertWrites
<1> QED BY <1>5 DEF p, n

\* Each of the four ways to insert leaves a whole list.
Inserts ==
  /\ WholeList(Starts(live, m_end), mem', live, m_end, m_llStart', m_llEnd')
  /\ WordsKept(live, mem, mem')

\* The freed block joins the free blocks on both sides of it.
LEMMA InsertBoth ==
  ASSUME SoundNow, Scanning, NEW p, NEW n, Surround(p, n), InsertWrites(p, n),
         AdjacentLeft(p), AdjacentRight(n)
  PROVE  Inserts
<1> DEFINE h == call.h
           t == call.h + call.len
           u == Interval(h, t)
           next == mem[n]
           len == call.len
<1>1. /\ m_end \in Nat /\ mem \in [Arena(m_end) -> Words]
      /\ WholeList(FreeBlocks, mem, live \cup {u}, m_end, m_llStart, m_llEnd)
      /\ u \notin live /\ Spans(u, h, t)
      /\ h \in Nat /\ t \in Nat /\ h + 3 <= t /\ len \in Nat /\ t = h + len
      /\ p \in Arena(m_end) /\ p + 2 \in Arena(m_end)
      /\ mem[p + 2] \in Nat /\ mem[n + 2] \in Nat
      /\ next \in Nat /\ (next = 0 <=> n = m_llEnd)
      /\ next # 0 => n + 3 <= next /\ next + 1 \in Arena(m_end)
      /\ p + mem[p + 2] = h /\ t = n
  BY SurroundFacts
<1>2. p \in FreeBlocks /\ n \in FreeBlocks /\ p \in Nat /\ n \in Nat /\ p + 3 <= h
  BY DEF Surround
<1>3. /\ mem' = Relink([mem EXCEPT ![p + 2] = @ + len + mem[n + 2], ![p] = next], next, p)
      /\ m_llEnd' = IF next = 0 THEN p ELSE m_llEnd
      /\ m_llStart' = m_llStart
  BY <1>1 DEF InsertWrites, NextOf, SizeOf
<1> HIDE DEF h, t, u, next, len
<1>4. Bridged(mem, mem', m_end, p, t, m_llEnd, m_llEnd')
  <2>1. mem[p + 2] + len + mem[n + 2] = t + mem[t + 2] - p
    BY <1>1, <1>2
  <2>2. next # 0 => next + 1 # p + 2 /\ next + 1 # p
    BY <1>1, <1>2
  <2>3. mem'[p + 2] = t + mem[t + 2] - p
    BY <1>1, <1>2, <1>3, <2>1, <2>2 DEF Relink
  <2>4. ASSUME NEW x \in Arena(m_end), x # p + 2
        PROVE  mem'[x] = IF x = p THEN next ELSE IF next # 0 /\ x = next + 1 THEN p ELSE mem[x]
    BY <1>1, <1>2, <1>3, <2>2, <2>4 DEF Relink
  <2>5. next = mem[t]
    BY <1>1 DEF next
  <2> QED BY <1>3, <2>3, <2>4, <2>5 DEF Bridged
<1>5. t \in FreeBlocks
  BY <1>1, <1>2
<1> QED BY <1>1, <1>2, <1>3, <1>4, <1>5, GiveBoth DEF Inserts

\* It joins the one on its left.
LEMMA InsertLeft ==
  ASSUME SoundNow, Scanning, NEW p, NEW n, Surround(p, n), InsertWrites(p, n),
         AdjacentLeft(p), ~AdjacentRight(n)
  PROVE  Inserts
<1> DEFINE h == call.h
           t == call.h + call.len
           u == Interval(h, t)
           len == call.len
<1>1. /\ m_end \in Nat /\ mem \in [Arena(m_end) -> Words]
      /\ WholeList(FreeBlocks, mem, live \cup {u}, m_end, m_llStart, m_llEnd)
      /\ u \notin live /\ Spans(u, h, t)
      /\ h \in Nat /\ t \in Nat /\ h + 3 <= t /\ len \in Nat /\ t = h + len /\ t <= n
      /\ p + 2 \in Arena(m_end) /\ mem[p + 2] \in Nat
      /\ p + mem[p + 2] = h /\ t # n
  BY SurroundFacts
<1>2. /\ p \in FreeBlocks /\ n \in FreeBlocks /\ p \in Nat /\ n \in Nat
      /\ IsNext(FreeBlocks, h, n) /\ n # 0
  BY DEF Surround
<1>3. /\ mem' = [mem EXCEPT ![p + 2] = @ + len]
      /\ m_llEnd' = m_llEnd /\ m_llStart' = m_llStart
  BY DEF InsertWrites
<1> HIDE DEF h, t, u, len
<1>4. Lengthened(mem, mem', m_end, p, t)
  <2>1. mem[p + 2] + len = t - p
    BY <1>1, <1>2
  <2> QED BY <1>1, <1>3, <2>1 DEF Lengthened
<1>5. t \notin FreeBlocks
  <2>1. ~(t <= h) /\ ~(n <= t)
    BY <1>1, <1>2
  <2>2. \A b \in FreeBlocks : b <= h \/ n <= b
    BY <1>2 DEF IsNext
  <2> QED BY <2>1, <2>2
<1>6. /\ WholeList(Starts(live, m_end), mem', live, m_end, m_llStart, m_llEnd)
      /\ WordsKept(live, mem, mem')
  BY <1>1, <1>2, <1>4, <1>5, GiveLeft
<1> QED BY <1>3, <1>6 DEF Inserts

\* It joins the one on its right.
LEMMA InsertRight ==
  ASSUME SoundNow, Scanning, NEW p, NEW n, Surround(p, n), InsertWrites(p, n),
         ~AdjacentLeft(p), AdjacentRight(n)
  PROVE  Inserts
<1> DEFINE h == call.h
           t == call.h + call.len
           u == Interval(h, t)
           next == mem[n]
           len == call.len
           sized == [mem EXCEPT ![h + 2] = len + mem[n + 2]]
<1>1. /\ m_end \in Nat /\ mem \in [Arena(m_end) -> Words]
      /\ WholeList(FreeBlocks, mem, live \cup {u}, m_end, m_llStart, m_llEnd)
      /\ u \notin live /\ Spans(u, h, t)
      /\ h \in Nat /\ t \in Nat /\ h + 3 <= t /\ len \in Nat /\ t = h + len
      /\ h \in Arena(m_end) /\ h + 1 \in Arena(m_end) /\ h + 2 \in Arena(m_end)
      /\ p \in Arena(m_end)
      /\ mem[n + 1] = p /\ mem[n + 2] \in Nat
      /\ next \in Nat /\ (next = 0 <=> n = m_llEnd)
      /\ next # 0 => n + 3 <= next /\ next + 1 \in Arena(m_end)
      /\ p + mem[p + 2] # h /\ t = n
  BY SurroundFacts
<1>2. p \in FreeBlocks /\ n \in FreeBlocks /\ p \in Nat /\ n \in Nat /\ p # 0 /\ p + 3 <= h
  BY DEF Surround
<1>3. /\ mem' = Relink([sized EXCEPT ![h] = sized[n], ![h + 1] = sized[n + 1], ![p] = h], next, h)
      /\ m_llEnd' = IF next = 0 THEN h ELSE m_llEnd
      /\ m_llStart' = m_llStart
  BY <1>1 DEF InsertWrites, NextOf, SizeOf
<1> HIDE DEF h, t, u, next, len
<1>4. sized[n] = next /\ sized[n + 1] = p
  BY <1>1, <1>2 DEF next
<1> DEFINE m1 == [sized EXCEPT ![h] = next, ![h + 1] = p, ![p] = h]
<1>5. mem' = Relink(m1, next, h)
  BY <1>3, <1>4
<1>6. /\ m1[h] = next /\ m1[h + 1] = p /\ m1[h + 2] = len + mem[n + 2]
      /\ \A x \in Arena(m_end) : x # h /\ x # h + 1 /\ x # h + 2 =>
           m1[x] = IF x = p THEN h ELSE mem[x]
      /\ DOMAIN m1 = Arena(m_end)
  BY <1>1, <1>2
<1> HIDE DEF m1, sized
<1>7. next # 0 => next + 1 # h /\ next + 1 # h + 1 /\ next + 1 # h + 2 /\ next + 1 # p
  BY <1>1, <1>2
<1>8. /\ mem'[h] = next /\ mem'[h + 1] = p /\ mem'[h + 2] = len + mem[n + 2]
  BY <1>5, <1>6, <1>7 DEF Relink
<1>9. ASSUME NEW x \in Arena(m_end), x < h \/ h + 3 <= x
      PROVE  mem'[x] = IF x = p THEN h ELSE IF next # 0 /\ x = next + 1 THEN h ELSE mem[x]
  <2>1. x # h /\ x # h + 1 /\ x # h + 2
    <3>1. x \in Nat
      BY <1>1, BaseType DEF Arena
    <3> QED BY <1>1, <1>9, <3>1
  <2> QED BY <1>5, <1>6, <1>7, <2>1 DEF Relink
<1>10. Replaced(mem, mem', m_end, h, t, m_llStart, m_llEnd, m_llStart', m_llEnd')
  <2>1. len + mem[n + 2] = t + mem[t + 2] - h
    BY <1>1, <1>2
  <2>2. next = mem[t] /\ p = mem[t + 1]
    BY <1>1 DEF next
  <2>3. InsertedWords(mem, mem', m_end, p, h, next)
    BY <1>9 DEF InsertedWords
  <2> QED BY <1>2, <1>3, <1>8, <2>1, <2>2, <2>3 DEF Replaced
<1>11. t \in FreeBlocks /\ (mem[t + 1] # 0 => mem[t + 1] + mem[mem[t + 1] + 2] # h)
  BY <1>1, <1>2
<1> QED BY <1>1, <1>10, <1>11, GiveRight DEF Inserts

\* It stands alone between its two neighbours.
LEMMA InsertNeither ==
  ASSUME SoundNow, Scanning, NEW p, NEW n, Surround(p, n), InsertWrites(p, n),
         ~AdjacentLeft(p), ~AdjacentRight(n)
  PROVE  Inserts
<1> DEFINE h == call.h
           t == call.h + call.len
           u == Interval(h, t)
           len == call.len
<1>1. /\ m_end \in Nat /\ mem \in [Arena(m_end) -> Words]
      /\ WholeList(FreeBlocks, mem, live \cup {u}, m_end, m_llStart, m_llEnd)
      /\ u \notin live /\ Spans(u, h, t)
      /\ h \in Nat /\ t \in Nat /\ h + 3 <= t /\ t <= n /\ len \in Nat /\ t = h + len
      /\ h \in Arena(m_end) /\ h + 1 \in Arena(m_end) /\ h + 2 \in Arena(m_end)
      /\ p \in Arena(m_end) /\ n + 1 \in Arena(m_end)
      /\ p + mem[p + 2] # h /\ t # n
  BY SurroundFacts
<1>2. /\ p \in Nat /\ n \in Nat /\ p # 0 /\ n # 0 /\ p + 3 <= h
      /\ IsPrev(FreeBlocks, h, p) /\ IsNext(FreeBlocks, h, n)
  BY DEF Surround
<1>3. /\ mem' = [WriteHeader(mem, h, n, p, len) EXCEPT ![p] = h, ![n + 1] = h]
      /\ m_llEnd' = m_llEnd /\ m_llStart' = m_llStart
  BY DEF InsertWrites
<1> HIDE DEF h, t, u, len
<1>4. mem'[h] = n /\ mem'[h + 1] = p /\ mem'[h + 2] = t - h
  BY <1>1, <1>2, <1>3 DEF WriteHeader
<1>5. ASSUME NEW x \in Arena(m_end), x < h \/ h + 3 <= x
      PROVE  mem'[x] = IF x = p THEN h ELSE IF n # 0 /\ x = n + 1 THEN h ELSE mem[x]
  <2>1. x # h /\ x # h + 1 /\ x # h + 2
    <3>1. x \in Nat
      BY <1>1, BaseType DEF Arena
    <3> QED BY <1>1, <1>5, <3>1
  <2>2. p # n + 1
    BY <1>1, <1>2
  <2> QED BY <1>1, <1>2, <1>3, <2>1, <2>2 DEF WriteHeader
<1>6. Inserted(mem, mem', m_end, p, h, n, t, m_llStart, m_llEnd, m_llStart', m_llEnd')
  BY <1>2, <1>3, <1>4, <1>5 DEF Inserted, InsertedWords
<1>7. n # t /\ (p # 0 => p + mem[p + 2] # h)
  BY <1>1
<1> QED BY <1>1, <1>2, <1>6, <1>7, GiveApart DEF Inserts

\* Putting the freed block in its place keeps the list whole, whatever it touches.
LEMMA InsertSInv ==
  ASSUME SoundNow, Insert
  PROVE  SInv' /\ live' = live
<1> DEFINE p == Neighbours[2]
           n == Neighbours[1]
<1>1. Returns /\ Scanning /\ ScanStops /\ live' = live
  BY DEF Insert
<1>2. Surround(p, n)
  BY <1>1, NeighboursFound
<1>3. InsertWrites(p, n)
  BY <1>2, InsertDoes
<1> HIDE DEF p, n
<1>4. Inserts
  BY <1>1, <1>2, <1>3, InsertBoth, InsertLeft, InsertRight, InsertNeither
<1>5. IInv' /\ SameArena
  BY ScanInv DEF SoundNow
<1> QED BY <1>1, <1>3, <1>4, <1>5, ReturnsSInv DEF Inserts

\* The scan reads and writes nothing it should not.
LEMMA ScanNeverUndefined ==
  ASSUME SoundNow
  PROVE  ~ScanUndefined
<1> SUFFICES ASSUME ScanUndefined PROVE FALSE
  OBVIOUS
<1>1. Scanning
  BY DEF ScanUndefined
<1>2. CASE ScanStops /\ ~InsertDefined
  <2> DEFINE p == Neighbours[2]
             n == Neighbours[1]
  <2>1. Surround(p, n)
    BY <1>1, <1>2, NeighboursFound
  <2> HIDE DEF p, n
  <2>2. p \in FreeBlocks /\ n \in FreeBlocks
    BY <2>1 DEF Surround
  <2>3. Mapped(p) /\ Known(p + 2) /\ KnownHeader(n) /\ Mapped(n + 1)
    BY <2>2, FreeKnown DEF Known, KnownHeader
  <2>4. NextOf(n) # 0 => Mapped(NextOf(n) + 1)
    <3>1. NextOf(n) # 0 => NextOf(n) \in FreeBlocks
      BY <2>2, FreeKnown
    <3> QED BY <3>1, FreeKnown DEF Known
  <2>5. HeaderFits(call.h)
    BY <1>1, ScanFacts
  <2>6. AdjacentRight(n) => Merged(n, p)[n] = NextOf(n)
    BY <1>1, <2>1, MergedNext
  <2> QED BY <1>2, <2>3, <2>4, <2>5, <2>6 DEF InsertDefined, p, n
<1>3. CASE ~(Known(call.S) /\ Known(call.E + 1))
  <2>1. call.S \in FreeBlocks /\ call.E \in FreeBlocks
    BY <1>1, ScanFacts
  <2> QED BY <1>3, <2>1, FreeKnown
<1> QED BY <1>2, <1>3 DEF ScanUndefined

-----------------------------------------------------------------------------
(***************************************************************************)
(* Layout, Reset, the end of the arena, and the invariant put together.    *)
(***************************************************************************)
\* Printing follows next from one free block to another.
LEMMA LayoutSInv ==
  ASSUME SoundNow, Layout \/ LayoutWalks \/ LayoutReturns
  PROVE  SInv'
<1>1. m_llStart = 0 \/ m_llStart \in FreeBlocks
  BY EndsKnown
<1>2. call.op = "layout" => call.block = 0 \/ call.block \in FreeBlocks
  BY NowFacts DEF CallOK, Printed
<1>3. /\ OnlyCallChanges /\ call.op \in {"idle", "layout"} /\ call'.op \in {"idle", "layout"}
      /\ call'.op = "layout" => call'.block = 0 \/ call'.block \in FreeBlocks
  <2>1. CASE Layout
    BY <1>1, <2>1 DEF Layout, Ready
  <2>2. CASE LayoutWalks
    <3>1. call \in [op : {"layout"}, block : Nat] /\ call.block \in FreeBlocks
      BY <1>2, <2>2, NowFacts, CallFields DEF LayoutWalks, Printing, TypeOK
    <3>2. call'.op = "layout" /\ call'.block = NextOf(call.block) /\ OnlyCallChanges
      BY <2>2, <3>1 DEF LayoutWalks
    <3> QED BY <3>1, <3>2, FreeKnown
  <2>3. CASE LayoutReturns
    BY <2>3 DEF LayoutReturns, Printing, Returns, Returned, OnlyCallChanges
  <2> QED BY <2>1, <2>2, <2>3
<1>4. Used' = Used
  BY <1>3 DEF Used, OnlyCallChanges
<1>5. FreeBlocks' = FreeBlocks
  BY <1>3, <1>4 DEF FreeBlocks, OnlyCallChanges, sizeVars
<1>6. CallOK'
  BY <1>3, <1>5 DEF CallOK, SearchedSoFar, NoneFits, Scanned, Printed
<1> QED BY <1>3, <1>4, <1>6, CallSInv

\* Layout only follows links to free blocks.
LEMMA LayoutNeverUndefined ==
  ASSUME SoundNow
  PROVE  ~LayoutUndefined
<1> SUFFICES ASSUME LayoutUndefined PROVE FALSE
  OBVIOUS
<1>1. call.block \in FreeBlocks
  BY NowFacts DEF LayoutUndefined, Printing, CallOK, Printed
<1> QED BY <1>1, FreeKnown DEF LayoutUndefined

\* Reset builds the arena anew.
LEMMA ResetSInv ==
  ASSUME SoundNow, Contiguous, Reset
  PROVE  SInv'
<1>1. /\ mem' = Built(Zeroed, m_size) /\ m_llStart' = Base /\ m_llEnd' = Base
      /\ live' = {} /\ call'.op = "idle" /\ m_end' = m_end
      /\ m_initialized' /\ status' = "ok"
  BY DEF Reset, Returns, Returned, sizeVars, SoundNow
<1>2. /\ m_end \in Nat /\ DOMAIN mem = Arena(m_end) /\ Base + 3 <= m_end
      /\ m_end = Base + m_size /\ m_size \in Nat
  BY NowFacts DEF SoundNow, Contiguous, TypeOK
<1>3. Zeroed \in [Arena(m_end) -> Words]
  BY <1>2 DEF Zeroed, Words
<1>4. mem' \in [Arena(m_end) -> Words]
  <2>1. 0 \in Words /\ m_size \in Words
    BY <1>2 DEF Words
  <2> QED BY <1>1, <1>3, <2>1, WriteHeaderType DEF Built
<1>5. mem'[Base] = 0 /\ mem'[Base + 1] = 0 /\ mem'[Base + 2] = m_end - Base
  <2>1. Base \in Arena(m_end) /\ Base + 1 \in Arena(m_end) /\ Base + 2 \in Arena(m_end)
    BY <1>2, BaseType, ArenaWords
  <2>2. mem'[Base] = 0 /\ mem'[Base + 1] = 0 /\ mem'[Base + 2] = m_size
    BY <1>1, <1>3, <2>1, BaseType DEF Built, WriteHeader
  <2> QED BY <1>2, <2>2, BaseType
<1>6. WholeList(Starts({}, m_end), mem', {}, m_end, Base, Base) /\ HeadersIn(mem', {})
  BY <1>2, <1>5, BuiltWhole
<1>7. SoundArena(mem', m_end', Used', live', m_llStart', m_llEnd')
  BY <1>1, <1>4, <1>6, UsedNextIsLive DEF SoundArena
<1>8. CallOK'
  BY <1>1 DEF CallOK, SearchedSoFar, NoneFits, Scanned, Printed
<1> QED BY <1>1, <1>7, <1>8, NowFacts, SInvNext

\* Release and the destructor leave nothing in use.
LEMMA EndSInv ==
  ASSUME SInv, Release \/ Destroy
  PROVE  SInv'
<1>1. CASE Release
  BY <1>1 DEF Release, GiveBack, Ready, SInv, Disjoint
<1>2. CASE Destroy
  BY <1>2 DEF Destroy, GiveBack, Ready, SInv, Disjoint
<1> QED BY <1>1, <1>2

\* The constructor.
LEMMA InitialSizeFits ==
  /\ InitialSize \in Nat /\ 3 <= InitialSize /\ InitialSize <= ArenaLimit
<1>1. InitialSize \in Nat
  BY InitialSizeType
<1>2. CASE Buffer = "VMDYNAMIC"
  <2>1. InitialPages \in Nat /\ Size <= InitialPages * PageSize
    BY SeqAssumption, CeilDivOk DEF InitialPages
  <2>2. Base + InitialSize <= Vm!VmEnd
    BY <1>2, ArenaAssumption
  <2>3. Vm!VmEnd \in Int
    BY SeqAssumption, DivisionFacts DEF Vm!VmEnd, Vm!NumPages
  <2>4. InitialSize <= ArenaLimit
    BY <1>1, <1>2, <2>2, <2>3, BaseType DEF ArenaLimit
  <2>5. InitialSize = InitialPages * PageSize
    BY <1>2 DEF InitialSize
  <2>6. 3 <= InitialSize
    BY <1>1, <2>1, <2>5, SeqAssumption
  <2> QED BY <1>1, <2>4, <2>6
<1>3. CASE Buffer # "VMDYNAMIC"
  BY <1>3, SeqAssumption DEF InitialSize, ArenaLimit
<1> QED BY <1>2, <1>3

\* The constructor's arena is one free block.
LEMMA InitSInv == Init => SInv
<1> SUFFICES ASSUME Init PROVE SInv
  OBVIOUS
<1>1. /\ m_end = Base + InitialSize /\ m_llStart = Base /\ m_llEnd = Base
      /\ live = {} /\ call.op = "idle" /\ status = "ok" /\ m_initialized
  BY DEF Init, Returned
<1>2. m_end \in Nat /\ Base + 3 <= m_end /\ m_end <= Base + ArenaLimit
  <2>1. ArenaLimit \in Int
    BY SeqAssumption, DivisionFacts DEF ArenaLimit, Vm!VmEnd, Vm!NumPages
  <2> QED BY <1>1, <2>1, InitialSizeFits, BaseType
<1> DEFINE arena == [a \in Base..(Base + InitialSize - 1) |-> Blank]
<1>3. mem = WriteHeader(arena, Base, 0, 0, InitialSize)
  BY DEF Init, Built
<1>4. arena \in [Arena(m_end) -> Words]
  <2>1. Base..(Base + InitialSize - 1) = Arena(m_end)
    BY <1>1, InitialSizeFits, BaseType DEF Arena
  <2> QED BY <2>1 DEF Blank, Words
<1> HIDE DEF arena
<1>5. mem \in [Arena(m_end) -> Words]
  <2>1. 0 \in Words /\ InitialSize \in Words
    BY InitialSizeFits DEF Words
  <2> QED BY <1>3, <1>4, <2>1, WriteHeaderType
<1>6. mem[Base] = 0 /\ mem[Base + 1] = 0 /\ mem[Base + 2] = m_end - Base
  <2>1. Base \in Arena(m_end) /\ Base + 1 \in Arena(m_end) /\ Base + 2 \in Arena(m_end)
    BY <1>2, BaseType, ArenaWords
  <2>2. mem[Base] = 0 /\ mem[Base + 1] = 0 /\ mem[Base + 2] = InitialSize
    BY <1>3, <1>4, <2>1, BaseType DEF WriteHeader
  <2> QED BY <1>1, <2>2, BaseType, InitialSizeFits
<1>7. WholeList(Starts({}, m_end), mem, {}, m_end, Base, Base) /\ HeadersIn(mem, {})
  BY <1>2, <1>6, BuiltWhole
<1>8. SoundArena(mem, m_end, Used, live, m_llStart, m_llEnd)
  BY <1>1, <1>5, <1>7, UsedIsLive DEF SoundArena
<1>9. CallOK
  BY <1>1 DEF CallOK, SearchedSoFar, NoneFits, Scanned, Printed
<1> QED BY <1>1, <1>2, <1>8, <1>9 DEF SInv, Disjoint

\* A call in progress, or a client that may make one, is in an arena that is there.
LEMMA OnlyNow ==
  ASSUME IInv, SInv
  PROVE  /\ Step => SoundNow
         /\ SoundFree => SoundNow
         /\ m_initialized /\ Ready => SoundNow
<1>1. Step => status = "ok" /\ call.op # "idle"
  BY DEF Step, FirstFitTakes, FirstFitWalks, BestFitWalks, BestFitTakes, SearchUndefined,
     SearchFails, Expand, ExpandUndefined, ExpandAborts, ScanWalks, ScanReturns, Insert,
     ScanUndefined, LayoutWalks, LayoutReturns, LayoutUndefined,
     Searching, Expanding, Scanning, Printing
<1>2. SoundFree => status = "ok" /\ live # {}
  BY DEF SoundFree, Free, FreeIntoEmpty, FreeFront, FreeBack, FreeMiddle, FreeIgnored,
     FreeUndefined, Freeing, Ready
<1>3. status = "ok" /\ (call.op # "idle" \/ live # {}) => m_initialized
  BY DEF SInv
<1> QED BY <1>1, <1>2, <1>3 DEF SoundNow, Ready

\* No step of a call loses the list.
LEMMA StepSInv ==
  ASSUME SoundAssumption, SoundNow, Contiguous, Step
  PROVE  SInv'
<1>1. CASE FirstFitTakes \/ BestFitTakes
  BY <1>1, TakesSInv
<1>2. CASE FirstFitWalks
  BY <1>2, FirstFitWalksSInv
<1>3. CASE BestFitWalks
  BY <1>3, BestFitWalksSInv
<1>4. CASE SearchFails
  BY <1>4, SearchFailsSInv
<1>5. CASE Expand
  BY <1>5, ExpandSInv
<1>6. CASE ExpandAborts
  BY <1>6, ExpandAbortsSInv
<1>7. CASE ScanWalks
  BY <1>7, ScanWalksSInv
<1>8. CASE Insert
  BY <1>8, InsertSInv
<1>9. CASE LayoutWalks \/ LayoutReturns
  BY <1>9, LayoutSInv
<1>10. CASE SearchUndefined \/ ExpandUndefined \/ ScanUndefined \/ LayoutUndefined \/ ScanReturns
  BY <1>10, SearchNeverUndefined, ExpandNeverUndefined, ScanNeverUndefined,
     LayoutNeverUndefined, NeverAlreadyFree
<1> QED BY <1>1, <1>2, <1>3, <1>4, <1>5, <1>6, <1>7, <1>8, <1>9, <1>10 DEF Step

\* Every step of the allocator and of a sound client keeps the invariant.
LEMMA NextSInv ==
  ASSUME SoundAssumption, IInv, Contiguous, SInv, [SoundNext]_vars
  PROVE  SInv'
<1>1. CASE Step
  BY <1>1, OnlyNow, StepSInv
<1>2. CASE m_initialized /\ \E sz \in Sizes, al \in Aligns : Alloc(sz, al)
  <2>1. PICK sz \in Sizes, al \in Aligns : Alloc(sz, al)
    BY <1>2
  <2>2. SoundNow
    BY <1>2, <2>1, OnlyNow DEF Alloc
  <2> QED BY <2>1, <2>2, AllocSInv
<1>3. CASE SoundFree
  <2>1. PICK b \in live : ~MergesIntoFirst(b.ptr) /\ ~AppendsApart(b.ptr) /\ Free(b.ptr)
    BY <1>3 DEF SoundFree
  <2> QED BY <1>3, <2>1, OnlyNow, FreeSInv
<1>4. CASE m_initialized /\ Layout
  BY <1>4, OnlyNow, LayoutSInv DEF Layout
<1>5. CASE m_initialized /\ Reset
  BY <1>5, OnlyNow, ResetSInv DEF Reset
<1>6. CASE Release \/ Destroy
  BY <1>6, EndSInv
<1>7. CASE UNCHANGED vars
  <2>1. Used' = Used /\ FreeBlocks' = FreeBlocks
    BY <1>7 DEF vars, Used, FreeBlocks
  <2>2. CallOK' = CallOK
    BY <1>7, <2>1 DEF vars, CallOK, SearchedSoFar, BestSoFar, PassedOver, NoneFits, Scanned,
       Printed, Leftover, PaddingIn, SizeOf, NextOf, PrevOf
  <2>3. Disjoint' = Disjoint /\ ArenaLimit' = ArenaLimit
    BY <1>7 DEF vars, Disjoint, ArenaLimit, Vm!VmEnd, Vm!NumPages
  <2> QED BY <1>7, <2>1, <2>2, <2>3 DEF vars, SInv
<1> QED BY <1>1, <1>2, <1>3, <1>4, <1>5, <1>6, <1>7 DEF SoundNext

\* The invariant of the sound client's behaviours.
AllInv == IInv /\ Contiguous /\ SInv

\* The constructors establish it.
LEMMA InitAllInv == ASSUME SoundAssumption, Init PROVE AllInv
BY InitInv, InitContiguous, InitSInv DEF AllInv

\* Every step of the sound client preserves it.
LEMMA NextAllInv ==
  ASSUME SoundAssumption, AllInv, [SoundNext]_vars
  PROVE  AllInv'
<1>1. [Next]_vars
  <2>1. SoundFree => AllocOrFree
    BY DEF SoundFree, AllocOrFree
  <2> QED BY <2>1 DEF SoundNext, Next, AllocOrFree
<1> QED BY <1>1, NextInv, NextContiguous, NextSInv DEF AllInv, SoundAssumption

\* The invariant holds of every state a sound client can bring about.
LEMMA SoundInvariance ==
  ASSUME SoundAssumption
  PROVE  SoundSpec => []AllInv
<1>1. Init => AllInv
  BY InitAllInv
<1>2. AllInv /\ [SoundNext]_vars => AllInv'
  BY NextAllInv
<1> QED BY <1>1, <1>2, PTL DEF SoundSpec

-----------------------------------------------------------------------------
(***************************************************************************)
(* The free list and the gaps of the contract.                             *)
(***************************************************************************)
\* Where the gap that begins at a ends, a block in use or the arena's end follows.
LEMMA GapEnds ==
  ASSUME NEW F, NEW e, NEW U, NEW end \in Nat, Tiles(F, e, U, end), NEW a \in F
  PROVE  e[a] = end \/ \E u \in U : u.lo = e[a]
<1>1. /\ a \in Nat /\ e[a] \in Nat /\ Base <= a /\ a + 3 <= e[a] /\ e[a] <= end
  BY DEF Tiles
<1>2. SUFFICES ASSUME e[a] # end PROVE \E u \in U : u.lo = e[a]
  OBVIOUS
<1>3. e[a] \in Base..(end - 1)
  BY <1>1, <1>2, BaseType
<1>4. \/ \E f \in F : f <= e[a] /\ e[a] < e[f]
      \/ \E u \in U : u.lo <= e[a] /\ e[a] < u.hi
  BY <1>3 DEF Tiles
<1>5. ASSUME NEW f \in F, f <= e[a], e[a] < e[f] PROVE FALSE
  <2>1. f \in Nat /\ e[f] \in Nat /\ (f < a => e[f] < a) /\ (a < f => e[a] < f)
    BY DEF Tiles
  <2>2. a < f \/ a = f \/ f < a
    BY <1>1, <2>1
  <2> QED BY <1>1, <1>5, <2>1, <2>2
<1>6. ASSUME NEW u \in U, u.lo <= e[a], e[a] < u.hi PROVE u.lo = e[a]
  <2>1. u.lo \in Nat /\ u.hi \in Nat /\ (u.hi <= a \/ e[a] <= u.lo)
    BY DEF Tiles
  <2> QED BY <1>1, <1>6, <2>1
<1> QED BY <1>4, <1>5, <1>6

\* The gaps the contract sees are the free blocks, each with its length.
LEMMA GapsAreFree ==
  ASSUME SoundNow, call.op # "scan"
  PROVE  Contract!Gaps = {<<a, a + SizeOf(a)>> : a \in FreeBlocks}
<1> DEFINE F == FreeBlocks
           e == Ends(FreeBlocks, mem)
           Lows == {Base} \cup {b.hi : b \in live}
           Highs == {m_end} \cup {b.lo : b \in live}
           IsGap(lo, hi) == lo < hi /\ \A b \in live : b.hi <= lo \/ hi <= b.lo
<1>1. Contract!Gaps = {g \in Lows \X Highs : IsGap(g[1], g[2])}
  BY DEF Contract!Gaps
<1>2. /\ m_end \in Nat /\ Tiles(F, e, live, m_end) /\ F = Starts(live, m_end)
  BY NowFacts, UsedIsLive DEF WholeList, FreeBlocks
<1>3. \A a \in F : e[a] = a + SizeOf(a)
  BY DEF Ends, SizeOf
<1> HIDE DEF e, F
<1>4. ASSUME NEW a \in F PROVE a \in Lows /\ e[a] \in Highs /\ IsGap(a, e[a])
  <2>1. a = Base \/ \E u \in live : u.hi = a
    BY <1>2 DEF Starts
  <2>2. e[a] = m_end \/ \E u \in live : u.lo = e[a]
    BY <1>2, GapEnds
  <2>3. a \in Nat /\ e[a] \in Nat /\ a + 3 <= e[a] /\ \A u \in live : u.hi <= a \/ e[a] <= u.lo
    BY <1>2 DEF Tiles
  <2> QED BY <2>1, <2>2, <2>3
<1>5. ASSUME NEW lo \in Lows, NEW hi \in Highs, IsGap(lo, hi) PROVE lo \in F /\ hi = e[lo]
  <2>1. \A u \in live : /\ u.lo \in Nat /\ u.hi \in Nat /\ Base <= u.lo
                        /\ u.lo + 3 <= u.hi /\ u.hi <= m_end
    BY <1>2 DEF Tiles
  <2>2. lo \in Nat /\ hi \in Nat /\ Base <= lo /\ hi <= m_end /\ lo < hi
    <3>1. lo \in Nat /\ Base <= lo
      <4>1. CASE lo = Base
        BY <4>1, BaseType
      <4>2. ASSUME NEW u \in live, lo = u.hi PROVE lo \in Nat /\ Base <= lo
        BY <2>1, <4>2, BaseType
      <4> QED BY <4>1, <4>2
    <3>2. hi \in Nat /\ hi <= m_end
      <4>1. CASE hi = m_end
        BY <1>2, <4>1
      <4>2. ASSUME NEW u \in live, hi = u.lo PROVE hi \in Nat /\ hi <= m_end
        BY <1>2, <2>1, <4>2
      <4> QED BY <4>1, <4>2
    <3> QED BY <1>5, <3>1, <3>2
  <2>3. \A u \in live : u.hi <= lo \/ hi <= u.lo
    BY <1>5
  <2>4. lo \in F
    <3>1. lo \in Base..(m_end - 1)
      BY <1>2, <2>2, BaseType
    <3>2. \A u \in live : u.hi <= lo \/ lo < u.lo
      BY <2>1, <2>2, <2>3
    <3> QED BY <1>2, <3>1, <3>2 DEF Starts
  <2>5. /\ e[lo] \in Nat /\ lo + 3 <= e[lo] /\ e[lo] <= m_end
        /\ \A u \in live : u.hi <= lo \/ e[lo] <= u.lo
    BY <1>2, <2>4 DEF Tiles
  <2>6. ~(hi < e[lo])
    <3>1. SUFFICES ASSUME hi < e[lo] PROVE FALSE
      OBVIOUS
    <3>2. hi # m_end
      BY <1>2, <2>2, <2>5, <3>1
    <3>3. PICK u \in live : u.lo = hi
      BY <3>2
    <3> QED BY <2>1, <2>2, <2>5, <3>1, <3>3
  <2>7. ~(e[lo] < hi)
    <3>1. SUFFICES ASSUME e[lo] < hi PROVE FALSE
      OBVIOUS
    <3>2. e[lo] # m_end
      BY <1>2, <2>2, <2>5, <3>1
    <3>3. PICK u \in live : u.lo = e[lo]
      BY <1>2, <2>4, <3>2, GapEnds
    <3> QED BY <2>1, <2>2, <2>3, <2>5, <3>1, <3>3
  <2> QED BY <2>2, <2>4, <2>5, <2>6, <2>7
<1>6. {g \in Lows \X Highs : IsGap(g[1], g[2])} = {<<a, e[a]>> : a \in F}
  <2> HIDE DEF Lows, Highs, IsGap
  <2> QED BY <1>4, <1>5
<1>7. {<<a, e[a]>> : a \in F} = {<<a, a + SizeOf(a)>> : a \in F}
  BY <1>3
<1> QED BY <1>1, <1>6, <1>7 DEF F

\* The contract's gaps start at the free blocks.
LEMMA GapStartsAreFree ==
  ASSUME SoundNow, call.op # "scan"
  PROVE  GapStarts = FreeBlocks
<1>1. GapStarts = {g[1] : g \in {<<a, a + SizeOf(a)>> : a \in FreeBlocks}}
  BY GapsAreFree DEF GapStarts
<1>2. \A a \in FreeBlocks : <<a, a + SizeOf(a)>>[1] = a
  OBVIOUS
<1> QED BY <1>1, <1>2

\* The least and the greatest of a set are what CHOOSE picks.
LEMMA LowestIs ==
  ASSUME NEW S, \A y \in S : y \in Nat, NEW x \in S, \A y \in S : x <= y
  PROVE  LowestOf(S) = x
<1>1. \E z \in S : \A y \in S : z <= y
  OBVIOUS
<1> DEFINE c == CHOOSE z \in S : \A y \in S : z <= y
<1>2. c \in S /\ \A y \in S : c <= y
  BY <1>1
<1>3. LowestOf(S) = c
  BY DEF LowestOf
<1> HIDE DEF c
<1> QED BY <1>2, <1>3

\* The highest of a set is the one above the others.
LEMMA HighestIs ==
  ASSUME NEW S, \A y \in S : y \in Nat, NEW x \in S, \A y \in S : y <= x
  PROVE  HighestOf(S) = x
<1>1. \E z \in S : \A y \in S : y <= z
  OBVIOUS
<1> DEFINE c == CHOOSE z \in S : \A y \in S : y <= z
<1>2. c \in S /\ \A y \in S : y <= c
  BY <1>1
<1>3. HighestOf(S) = c
  BY DEF HighestOf
<1> HIDE DEF c
<1> QED BY <1>2, <1>3

\* An empty set has neither; the list ends are NULL then.
LEMMA NoLowest == LowestOf({}) = 0 /\ HighestOf({}) = 0
BY DEF LowestOf, HighestOf

\* Between calls the list is the contract's gaps, whichever way it is followed.
LEMMA ListBothWays ==
  ASSUME SoundNow, call.op = "idle"
  PROVE  ForwardList /\ BackwardList
<1>1. /\ Contract!Gaps = {<<a, a + SizeOf(a)>> : a \in FreeBlocks}
      /\ GapStarts = FreeBlocks
  BY GapsAreFree, GapStartsAreFree
<1>2. \A a \in FreeBlocks : a \in Nat
  BY FreeKnown
<1>3. m_llStart = LowestOf(FreeBlocks) /\ m_llEnd = HighestOf(FreeBlocks)
  <2>1. CASE FreeBlocks = {}
    BY <2>1, EndsKnown, NoLowest
  <2>2. CASE FreeBlocks # {}
    BY <1>2, <2>2, EndsKnown, LowestIs, HighestIs
  <2> QED BY <2>1, <2>2
<1>4. ASSUME NEW a \in FreeBlocks
      PROVE  /\ NextOf(a) = LowestOf({x \in FreeBlocks : x > a})
             /\ PrevOf(a) = HighestOf({x \in FreeBlocks : x < a})
  <2>1. /\ a \in Nat /\ NextOf(a) \in Nat /\ PrevOf(a) \in Nat
        /\ NextOf(a) # 0 => /\ NextOf(a) \in FreeBlocks /\ a < NextOf(a)
                            /\ \A b \in FreeBlocks : b <= a \/ NextOf(a) <= b
        /\ PrevOf(a) # 0 => /\ PrevOf(a) \in FreeBlocks /\ PrevOf(a) < a
                            /\ \A b \in FreeBlocks : b <= PrevOf(a) \/ a <= b
        /\ NextOf(a) = 0 => \A b \in FreeBlocks : b <= a
        /\ PrevOf(a) = 0 => \A b \in FreeBlocks : a <= b
    BY FreeKnown
  <2> DEFINE Above == {x \in FreeBlocks : x > a}
             Below == {x \in FreeBlocks : x < a}
  <2>2. NextOf(a) = LowestOf(Above)
    <3>1. CASE NextOf(a) = 0
      <4>1. \A x \in FreeBlocks : ~(x > a)
        BY <1>2, <2>1, <3>1
      <4>2. Above = {}
        BY <4>1
      <4> HIDE DEF Above
      <4> QED BY <3>1, <4>2, NoLowest
    <3>2. CASE NextOf(a) # 0
      <4>1. NextOf(a) \in Above
        BY <2>1, <3>2
      <4>2. \A y \in Above : y \in Nat /\ NextOf(a) <= y
        BY <1>2, <2>1, <3>2
      <4> HIDE DEF Above
      <4> QED BY <4>1, <4>2, LowestIs
    <3> QED BY <3>1, <3>2
  <2>3. PrevOf(a) = HighestOf(Below)
    <3>1. CASE PrevOf(a) = 0
      <4>1. \A x \in FreeBlocks : ~(x < a)
        BY <1>2, <2>1, <3>1
      <4>2. Below = {}
        BY <4>1
      <4> HIDE DEF Below
      <4> QED BY <3>1, <4>2, NoLowest
    <3>2. CASE PrevOf(a) # 0
      <4>1. PrevOf(a) \in Below
        BY <2>1, <3>2
      <4>2. \A y \in Below : y \in Nat /\ y <= PrevOf(a)
        BY <1>2, <2>1, <3>2
      <4> HIDE DEF Below
      <4> QED BY <4>1, <4>2, HighestIs
    <3> QED BY <3>1, <3>2
  <2> QED BY <2>2, <2>3
<1>5. ASSUME NEW g \in Contract!Gaps
      PROVE  /\ g[1] \in FreeBlocks /\ g[2] - g[1] = SizeOf(g[1])
  <2>1. PICK a \in FreeBlocks : g = <<a, a + SizeOf(a)>>
    BY <1>1
  <2>2. a \in Nat /\ SizeOf(a) \in Nat
    BY FreeKnown
  <2> QED BY <2>1, <2>2
<1> QED BY <1>1, <1>3, <1>4, <1>5 DEF ForwardList, BackwardList

-----------------------------------------------------------------------------
\* No two blocks in use share a word, whatever was freed between and in whatever
\* order the two-ended searches, the splits, the merges and new pages came.
THEOREM SoundDisjoint ==
  ASSUME SoundAssumption
  PROVE  SoundSpec => []Disjoint
<1>1. AllInv => Disjoint
  BY DEF AllInv, SInv
<1> QED BY <1>1, SoundInvariance, PTL

\* Every block in use keeps, until it is freed, the header Free will read.
THEOREM SoundHeaders ==
  ASSUME SoundAssumption
  PROVE  SoundSpec => []HeaderIntact
<1>1. AllInv => HeaderIntact
  <2> SUFFICES ASSUME AllInv, status = "ok", NEW b \in live
               PROVE  mem[b.ptr - 1] = b.ptr - b.lo /\ mem[b.ptr - 2] = b.hi - b.ptr
    BY DEF HeaderIntact
  <2>1. SoundNow
    BY DEF AllInv, SInv, SoundNow
  <2>2. HasHeader(mem, b)
    BY <2>1, NowFacts DEF HeadersIn
  <2> QED BY <2>2 DEF HasHeader
<1> QED BY <1>1, SoundInvariance, PTL

\* No call of the sound client reads a word that is no link or size, or touches
\* memory that is not mapped.
THEOREM SoundFaultless ==
  ASSUME SoundAssumption
  PROVE  SoundSpec => []NoFault
<1>1. AllInv => NoFault
  BY DEF AllInv, SInv, NoFault
<1> QED BY <1>1, SoundInvariance, PTL

\* Followed by next the free list is exactly the gaps between the blocks in use.
THEOREM SoundForward ==
  ASSUME SoundAssumption
  PROVE  SoundSpec => []ForwardList
<1>1. AllInv => ForwardList
  <2>1. ASSUME AllInv, Idling PROVE ForwardList
    BY <2>1, ListBothWays DEF AllInv, Idling, SoundNow
  <2> QED BY <2>1 DEF ForwardList
<1> QED BY <1>1, SoundInvariance, PTL

\* Followed by prev it is the same list.
THEOREM SoundBackward ==
  ASSUME SoundAssumption
  PROVE  SoundSpec => []BackwardList
<1>1. AllInv => BackwardList
  <2>1. ASSUME AllInv, Idling PROVE BackwardList
    BY <2>1, ListBothWays DEF AllInv, Idling, SoundNow
  <2> QED BY <2>1 DEF BackwardList
<1> QED BY <1>1, SoundInvariance, PTL

-----------------------------------------------------------------------------
(***************************************************************************)
(* SoundSpec implements ArenaContract: the step of the contract that each  *)
(* step takes.                                                             *)
(***************************************************************************)
\* The contract's variables, as SequentialListSound maps them.
Request == IF call.op \in {"search", "expand"} THEN [sz |-> call.sz, al |-> call.al]
           ELSE NoRequest
IsOpen == m_initialized /\ status \in {"ok", "aborted"}

ContractStep == [Contract!ContractNext]_(Contract!contractVars)

\* A step the contract does not see.
LEMMA Stutters ==
  ASSUME live' = live, m_end' = m_end, Request' = Request, IsOpen' = IsOpen
  PROVE  ContractStep
BY DEF ContractStep, Contract!contractVars, Request, IsOpen

\* A request is not the absence of one.
LEMMA Requested ==
  ASSUME SoundNow, call.op \in {"search", "expand"}
  PROVE  /\ Request = [sz |-> call.sz, al |-> call.al] /\ Request # NoRequest
         /\ Request.sz = call.sz /\ Request.al = call.al
         /\ call.sz \in Nat /\ call.al \in Nat \ {0}
<1>1. call.sz \in Nat /\ call.al \in Nat \ {0}
  <2>1. call.sz \in Sizes /\ call.al \in Aligns
    BY NowFacts, CallFields DEF TypeOK
  <2> QED BY <2>1, SeqAssumption
<1>2. [sz |-> call.sz, al |-> call.al] # NoRequest
  <2>1. [sz |-> call.sz, al |-> call.al].al # NoRequest.al
    BY <1>1 DEF NoRequest
  <2> QED BY <2>1
<1> QED BY <1>1, <1>2 DEF Request

\* Only a search, or an expansion, is a request in the contract.
LEMMA NotRequested ==
  ASSUME call.op \notin {"search", "expand"}
  PROVE  Request = NoRequest
BY DEF Request

\* The same of the next state.
LEMMA NotRequestedNext ==
  ASSUME call'.op \notin {"search", "expand"}
  PROVE  Request' = NoRequest
BY DEF Request, NoRequest

\* An arena in order is open.
LEMMA OpenNow ==
  ASSUME SoundNow
  PROVE  IsOpen
BY DEF SoundNow, IsOpen

\* The contract computes paddings as the code does.
LEMMA SamePadding ==
  ASSUME NEW b, NEW al, NEW h
  PROVE  Contract!BlockPadding(b, al, h) = BlockPadding(b, al, h)
BY DEF Contract!BlockPadding, Contract!FitPadding, Contract!AlignUp,
       BlockPadding, FitPadding, AlignUp

\* Of a free block the contract's Spare is what would be left of it, and the
\* block cut from it is the one the contract grants.
LEMMA SpareIsLeftover ==
  ASSUME SoundNow, call.op \in {"search", "expand"}, NEW a \in FreeBlocks
  PROVE  /\ <<a, a + SizeOf(a)>> \in Contract!Gaps
         /\ Contract!Spare(<<a, a + SizeOf(a)>>, call.sz, call.al) = Leftover(a)
         /\ Contract!BlockIn(<<a, a + SizeOf(a)>>, call.sz, call.al) = CutFrom(a)
<1> DEFINE g == <<a, a + SizeOf(a)>>
<1>1. g \in Contract!Gaps
  BY GapsAreFree
<1>2. a \in Nat /\ SizeOf(a) \in Nat
  BY FreeKnown
<1>3. PaddingIn(a) \in Nat /\ call.sz \in Nat
  BY <1>2, NowFacts, PaddingOk
<1>4. g[1] = a /\ g[2] = a + SizeOf(a)
  OBVIOUS
<1>5. PaddingIn(a) = BlockPadding(a, call.al, allocHeaderSize)
  BY DEF PaddingIn
<1> HIDE DEF g
<1>6. Contract!Spare(g, call.sz, call.al) = Leftover(a)
  <2>1. Contract!Spare(g, call.sz, call.al) = g[2] - (g[1] + PaddingIn(a) + call.sz)
    BY <1>4, <1>5, SamePadding DEF Contract!Spare
  <2> QED BY <1>2, <1>3, <1>4, <2>1 DEF Leftover
<1>7. Contract!BlockIn(g, call.sz, call.al) = CutFrom(a)
  BY <1>4, <1>5, <1>6, SamePadding DEF Contract!BlockIn, CutFrom
<1> QED BY <1>1, <1>6, <1>7 DEF g

\* Every gap is a free block.
LEMMA GapIsFree ==
  ASSUME SoundNow, call.op \in {"search", "expand"}, NEW g \in Contract!Gaps
  PROVE  \E a \in FreeBlocks : /\ g = <<a, a + SizeOf(a)>>
                               /\ Contract!Spare(g, call.sz, call.al) = Leftover(a)
<1>1. PICK a \in FreeBlocks : g = <<a, a + SizeOf(a)>>
  BY GapsAreFree
<1> QED BY <1>1, SpareIsLeftover

\* Alloc asks.
LEMMA AllocImplements ==
  ASSUME SoundNow, NEW sz \in Sizes, NEW al \in Aligns, Alloc(sz, al)
  PROVE  ContractStep
<1>1. /\ call.op = "idle" /\ call'.op = "search" /\ call'.sz = sz /\ call'.al = al
      /\ live' = live /\ m_end' = m_end /\ m_initialized' = m_initialized /\ status' = status
  BY DEF Alloc, Ready, OnlyCallChanges, sizeVars
<1>2. Request = NoRequest
  BY <1>1, NotRequested
<1>3. Request' # NoRequest
  <2>1. Request' = [sz |-> sz, al |-> al]
    BY <1>1 DEF Request
  <2>2. [sz |-> sz, al |-> al].al # NoRequest.al
    BY SeqAssumption DEF NoRequest
  <2> QED BY <2>1, <2>2
<1>4. IsOpen /\ IsOpen' = IsOpen
  BY <1>1, OpenNow DEF IsOpen
<1>5. Contract!Ask
  BY <1>1, <1>2, <1>3, <1>4 DEF Contract!Ask, Request, IsOpen, NoRequest
<1> QED BY <1>5 DEF ContractStep, Contract!ContractNext

\* A block is taken: the contract grants it, from a tightest gap under best fit.
LEMMA TakesImplement ==
  ASSUME SoundAssumption, SoundNow, call.op = "search", NEW a \in FreeBlocks,
         Leftover(a) >= 0, Take(a),
         Pattern = "BEST_FIT" => \A c \in FreeBlocks : Leftover(c) < 0 \/ Leftover(a) <= Leftover(c)
  PROVE  ContractStep
<1> DEFINE g == <<a, a + SizeOf(a)>>
<1>1. /\ live' = live \cup {CutFrom(a)} /\ call'.op = "idle"
      /\ m_end' = m_end /\ m_initialized' /\ status' = "ok"
  BY TakeSInv
<1>2. Request.sz = call.sz /\ Request.al = call.al /\ Request # NoRequest
  BY Requested
<1>3. Request' = NoRequest
  BY <1>1, NotRequestedNext
<1>4. IsOpen /\ IsOpen' = IsOpen
  BY <1>1, OpenNow DEF IsOpen
<1>5. /\ g \in Contract!Gaps /\ Contract!Spare(g, call.sz, call.al) = Leftover(a)
      /\ Contract!BlockIn(g, call.sz, call.al) = CutFrom(a)
  BY SpareIsLeftover
<1> HIDE DEF g
<1>6. g \in Contract!Suitable(call.sz, call.al)
  BY <1>5 DEF Contract!Suitable
<1>7. ASSUME NEW h \in Contract!Suitable(call.sz, call.al), Pattern = "BEST_FIT"
      PROVE  Contract!Spare(g, call.sz, call.al) <= Contract!Spare(h, call.sz, call.al)
  <2>1. h \in Contract!Gaps /\ Contract!Spare(h, call.sz, call.al) >= 0
    BY DEF Contract!Suitable
  <2>2. PICK c \in FreeBlocks : Contract!Spare(h, call.sz, call.al) = Leftover(c)
    BY <2>1, GapIsFree
  <2>3. Leftover(a) <= Leftover(c)
    <3>1. Leftover(c) \in Int
      <4>1. c \in Nat /\ SizeOf(c) \in Nat
        BY FreeKnown
      <4>2. PaddingIn(c) \in Nat /\ call.sz \in Nat
        BY <4>1, NowFacts, PaddingOk
      <4> QED BY <4>1, <4>2 DEF Leftover
    <3>2. ~(Leftover(c) < 0)
      BY <2>1, <2>2, <3>1
    <3> QED BY <1>7, <3>2
  <2> QED BY <1>5, <2>2, <2>3
<1>8. Contract!Grant
  <2>1. /\ IsOpen /\ Request # NoRequest
        /\ \E d \in Contract!Suitable(Request.sz, Request.al) :
             /\ Pattern = "BEST_FIT" =>
                  \A h \in Contract!Suitable(Request.sz, Request.al) :
                    Contract!Spare(d, Request.sz, Request.al)
                      <= Contract!Spare(h, Request.sz, Request.al)
             /\ live' = live \cup {Contract!BlockIn(d, Request.sz, Request.al)}
        /\ Request' = NoRequest
        /\ m_end' = m_end /\ IsOpen' = IsOpen
    BY <1>1, <1>2, <1>3, <1>4, <1>5, <1>6, <1>7
  <2> QED BY <2>1 DEF Contract!Grant, Request, IsOpen
<1> QED BY <1>8 DEF ContractStep, Contract!ContractNext

\* No gap is suitable when no free block is long enough.
LEMMA NoneSuitable ==
  ASSUME SoundNow, call.op \in {"search", "expand"}, \A a \in FreeBlocks : Leftover(a) < 0
  PROVE  Contract!Suitable(call.sz, call.al) = {}
<1>1. ASSUME NEW g \in Contract!Gaps, Contract!Spare(g, call.sz, call.al) >= 0 PROVE FALSE
  <2>1. PICK a \in FreeBlocks : Contract!Spare(g, call.sz, call.al) = Leftover(a)
    BY GapIsFree
  <2>2. a \in Nat /\ SizeOf(a) \in Nat
    BY FreeKnown
  <2>3. PaddingIn(a) \in Nat /\ call.sz \in Nat
    BY <2>2, NowFacts, PaddingOk
  <2>4. Leftover(a) \in Int
    BY <2>2, <2>3 DEF Leftover
  <2> QED BY <1>1, <2>1, <2>4
<1> QED BY <1>1 DEF Contract!Suitable

\* A request is refused only when no gap can serve it; or it is passed on.
LEMMA FailsImplement ==
  ASSUME SoundNow, SearchFails
  PROVE  ContractStep
<1>1. /\ call.op = "search" /\ ~InRange /\ call.best = 0
      /\ live' = live /\ m_end' = m_end /\ m_initialized' = m_initialized /\ status' = status
      /\ call' = IF Buffer = "VMDYNAMIC"
                 THEN [op |-> "expand", sz |-> call.sz, al |-> call.al]
                 ELSE [op |-> "idle", result |-> 0]
  BY DEF SearchFails, Searching, Returned, OnlyCallChanges, sizeVars
<1>2. IsOpen /\ IsOpen' = IsOpen
  BY <1>1, OpenNow DEF IsOpen
<1>3. Request = [sz |-> call.sz, al |-> call.al] /\ Request # NoRequest
      /\ Request.sz = call.sz /\ Request.al = call.al
  BY <1>1, Requested
<1>4. CASE Buffer = "VMDYNAMIC"
  <2>1. Request' = Request
    <3>1. call'.op = "expand" /\ call'.sz = call.sz /\ call'.al = call.al
      BY <1>1, <1>4
    <3> QED BY <1>3, <3>1 DEF Request
  <2> QED BY <1>1, <1>2, <2>1, Stutters
<1>5. CASE Buffer # "VMDYNAMIC"
  <2>1. Request' = NoRequest
    BY <1>1, <1>5, NotRequestedNext
  <2>2. \A a \in FreeBlocks : Leftover(a) < 0
    BY <1>1, SearchOver DEF PassedOver
  <2>3. Contract!Suitable(Request.sz, Request.al) = {}
    BY <1>1, <1>3, <2>2, NoneSuitable
  <2>4. Contract!Refuse
    BY <1>1, <1>2, <1>3, <1>5, <2>1, <2>3 DEF Contract!Refuse, Request, IsOpen
  <2> QED BY <2>4 DEF ContractStep, Contract!ContractNext
<1> QED BY <1>4, <1>5

\* The arena grows for a request no gap can serve, and serves it from its end.
LEMMA ExpandImplements ==
  ASSUME SoundAssumption, SoundNow, Contiguous, Expand
  PROVE  ContractStep
<1> DEFINE lo == ExpandBlock
           g == <<lo, m_end'>>
           sz == call.sz
           al == call.al
<1>1. /\ call'.op = "idle" /\ m_end' > m_end /\ m_initialized' /\ status' = "ok"
      /\ live' = live \cup
           {[ptr |-> lo + ExpandPadding, sz |-> sz, al |-> al, lo |-> lo,
             hi |-> IF m_end' - lo - (ExpandPadding + sz) >= 3
                    THEN lo + ExpandPadding + sz ELSE m_end']}
      /\ m_end' - lo - (ExpandPadding + sz) >= 0
  BY ExpandSInv
<1>2. Expanding /\ call.op = "expand" /\ TypeOK /\ m_end \in Nat
  BY NowFacts DEF Expand, Expanding
<1>3. Request.sz = sz /\ Request.al = al /\ Request # NoRequest
  BY <1>2, Requested
<1>4. Request' = NoRequest
  BY <1>1, NotRequestedNext
<1>5. IsOpen /\ IsOpen' = IsOpen
  BY <1>1, OpenNow DEF IsOpen
<1>6. Buffer = "VMDYNAMIC"
  BY <1>2, CallFields DEF TypeOK
<1>7. Contract!Suitable(sz, al) = {}
  <2>1. \A a \in FreeBlocks : Leftover(a) < 0
    BY <1>2, NowFacts DEF CallOK, NoneFits
  <2> QED BY <1>2, <2>1, NoneSuitable
<1>8. lo \in {d[1] : d \in {h \in Contract!Gaps : h[2] = m_end}} \cup {m_end}
  <2>1. CASE LastIsFree
    <3>1. lo = m_llEnd /\ m_llEnd + SizeOf(m_llEnd) = m_end /\ m_llEnd \in FreeBlocks
      BY <2>1, EndsKnown DEF ExpandBlock, LastIsFree
    <3>2. <<lo, m_end>> \in Contract!Gaps
      BY <1>2, <3>1, SpareIsLeftover
    <3>3. <<lo, m_end>>[1] = lo /\ <<lo, m_end>>[2] = m_end
      OBVIOUS
    <3> QED BY <3>2, <3>3
  <2>2. CASE ~LastIsFree
    BY <2>2 DEF ExpandBlock
  <2> QED BY <2>1, <2>2
<1>9. /\ lo \in Nat /\ ExpandPadding \in Nat /\ sz \in Nat /\ m_end' \in Nat
      /\ ExpandPadding = BlockPadding(lo, al, allocHeaderSize)
  <2>1. ExpandDefined
    BY DEF Expand
  <2>2. lo \in Nat /\ ExpandPadding \in Nat
    BY <1>2, <2>1, ExpandPagesEnough
  <2>3. m_end' \in Nat
    BY NextInv DEF SoundNow, IInv, TypeOK, Next, Step
  <2> QED BY <1>2, <2>2, <2>3, Requested DEF ExpandPadding, PaddingIn
<1> HIDE DEF lo, sz, al
<1>10. g[1] = lo /\ g[2] = m_end'
  OBVIOUS
<1> HIDE DEF g
<1>11. Contract!Spare(g, sz, al) = m_end' - lo - (ExpandPadding + sz)
  <2>1. Contract!Spare(g, sz, al) = m_end' - (lo + ExpandPadding + sz)
    BY <1>9, <1>10, SamePadding DEF Contract!Spare
  <2> QED BY <1>9, <2>1
<1>12. Contract!BlockIn(g, sz, al) =
         [ptr |-> lo + ExpandPadding, sz |-> sz, al |-> al, lo |-> lo,
          hi |-> IF m_end' - lo - (ExpandPadding + sz) >= 3
                 THEN lo + ExpandPadding + sz ELSE m_end']
  BY <1>9, <1>10, <1>11, SamePadding DEF Contract!BlockIn
<1>13. Contract!GrowAndGrant
  <2>1. /\ IsOpen /\ Request # NoRequest /\ Buffer = "VMDYNAMIC" /\ m_end' > m_end
        /\ Contract!Suitable(Request.sz, Request.al) = {}
        /\ \E x \in {d[1] : d \in {h \in Contract!Gaps : h[2] = m_end}} \cup {m_end} :
             /\ Contract!Spare(<<x, m_end'>>, Request.sz, Request.al) >= 0
             /\ live' = live \cup {Contract!BlockIn(<<x, m_end'>>, Request.sz, Request.al)}
        /\ Request' = NoRequest /\ IsOpen' = IsOpen
    <3>1. Contract!Spare(<<lo, m_end'>>, sz, al) >= 0
      BY <1>1, <1>11 DEF g, lo, sz
    <3>2. live' = live \cup {Contract!BlockIn(<<lo, m_end'>>, sz, al)}
      BY <1>1, <1>12 DEF g, lo, sz, al
    <3> QED BY <1>1, <1>3, <1>4, <1>5, <1>6, <1>7, <1>8, <3>1, <3>2
  <2> QED BY <2>1 DEF Contract!GrowAndGrant, Request, IsOpen
<1> QED BY <1>13 DEF ContractStep, Contract!ContractNext

\* What the contract sees of a walk: nothing.
LEMMA WalksStutter ==
  ASSUME SoundAssumption, SoundNow, FirstFitWalks \/ BestFitWalks \/ ScanWalks \/ LayoutWalks
  PROVE  ContractStep
<1>1. OnlyCallChanges
  BY DEF FirstFitWalks, BestFitWalks, ScanWalks, LayoutWalks
<1>2. live' = live /\ m_end' = m_end /\ IsOpen' = IsOpen
  BY <1>1 DEF OnlyCallChanges, sizeVars, IsOpen
<1>3. Request' = Request
  <2>1. CASE FirstFitWalks
    <3>1. call \in [op : {"search"}, sz : Sizes, al : Aligns,
                    S : Nat, E : Nat, best : Nat, min : Nat]
      BY <2>1, NowFacts, CallFields DEF FirstFitWalks, Searching, TypeOK
    <3>2. call'.op = call.op /\ call'.sz = call.sz /\ call'.al = call.al
      BY <2>1, <3>1 DEF FirstFitWalks, Walk
    <3> QED BY <3>2 DEF Request, NoRequest
  <2>2. CASE BestFitWalks
    <3> DEFINE Shape == [op : {"search"}, sz : Sizes, al : Aligns,
                         S : Nat, E : Nat, best : Nat, min : Nat]
               c1 == Tighter(call, call.S)
               c2 == Tighter(c1, call.E)
    <3>1. call \in Shape /\ Walk(c2)
      BY <2>2, NowFacts, CallFields DEF BestFitWalks, Searching, TypeOK
    <3>2. /\ call.op = "search" /\ Pattern = "BEST_FIT"
          /\ call.S \in FreeBlocks /\ call.E \in FreeBlocks /\ BestSoFar(call)
      BY <2>2, NowFacts DEF BestFitWalks, Searching, CallOK, SearchedSoFar, InRange
    <3>3. c1 \in Shape /\ c1.sz = call.sz /\ c1.al = call.al /\ BestSoFar(c1)
      BY <3>1, <3>2, TighterKeeps
    <3> HIDE DEF c1
    <3>4. c2 \in Shape /\ c2.sz = c1.sz /\ c2.al = c1.al
      BY <3>2, <3>3, TighterKeeps
    <3> HIDE DEF c2
    <3>5. call'.op = call.op /\ call'.sz = call.sz /\ call'.al = call.al
      BY <3>1, <3>2, <3>3, <3>4 DEF Walk
    <3> QED BY <3>5 DEF Request, NoRequest
  <2>3. CASE ScanWalks
    <3>1. call \in [op : {"scan"}, h : Nat, len : Nat, S : Nat, Sp : Nat, E : Nat, Ep : Nat]
      BY <2>3, NowFacts, CallFields DEF ScanWalks, Scanning, TypeOK
    <3>2. call.op = "scan" /\ call'.op = "scan"
      BY <2>3, <3>1 DEF ScanWalks
    <3> QED BY <3>2, NotRequested, NotRequestedNext
  <2>4. CASE LayoutWalks
    <3>1. call \in [op : {"layout"}, block : Nat]
      BY <2>4, NowFacts, CallFields DEF LayoutWalks, Printing, TypeOK
    <3>2. call.op = "layout" /\ call'.op = "layout"
      BY <2>4, <3>1 DEF LayoutWalks
    <3> QED BY <3>2, NotRequested, NotRequestedNext
  <2> QED BY <2>1, <2>2, <2>3, <2>4
<1> QED BY <1>2, <1>3, Stutters

\* Nor does it see the calls that only look, or the end of a scan: what Free
\* gives back it gives back at once.
LEMMA ReturnsStutter ==
  ASSUME SoundNow, ScanReturns \/ Insert \/ Layout \/ LayoutReturns \/ ExpandAborts
  PROVE  ContractStep
<1>1. live' = live
  BY InsertSInv DEF ScanReturns, Layout, LayoutReturns, ExpandAborts, OnlyCallChanges
<1>2. m_end' = m_end
  BY DEF ScanReturns, Insert, Layout, LayoutReturns, ExpandAborts, Returns,
     OnlyCallChanges, sizeVars
<1>3. IsOpen' = IsOpen
  BY DEF ScanReturns, Insert, Layout, LayoutReturns, ExpandAborts, Returns, OnlyCallChanges,
     IsOpen, SoundNow
<1>4. Request' = Request
  <2>1. CASE ExpandAborts
    BY <2>1 DEF ExpandAborts, Request, NoRequest
  <2>2. CASE ScanReturns \/ Insert \/ Layout \/ LayoutReturns
    <3>1. call.op \notin {"search", "expand"} /\ call'.op \notin {"search", "expand"}
      BY <2>2 DEF ScanReturns, Insert, Layout, LayoutReturns, Returns, Returned,
         Scanning, Printing, Ready
    <3> QED BY <3>1, NotRequested, NotRequestedNext
  <2> QED BY <2>1, <2>2
<1> QED BY <1>1, <1>2, <1>3, <1>4, Stutters

\* The code's own steps.
LEMMA StepImplements ==
  ASSUME SoundAssumption, SoundNow, Contiguous, Step
  PROVE  ContractStep
<1>1. CASE FirstFitTakes
  <2>1. call.op = "search" /\ FirstFitHit \in FreeBlocks /\ Leftover(FirstFitHit) >= 0
        /\ Take(FirstFitHit) /\ Pattern # "BEST_FIT"
    BY <1>1, FirstFitHitFits DEF FirstFitTakes, Searching
  <2> QED BY <2>1, TakesImplement
<1>2. CASE BestFitTakes
  <2>1. call.op = "search" /\ call.best \in FreeBlocks /\ Leftover(call.best) >= 0
        /\ Take(call.best)
        /\ \A c \in FreeBlocks : Leftover(c) < 0 \/ Leftover(call.best) <= Leftover(c)
    BY <1>2, BestFitBestFits DEF BestFitTakes, Searching
  <2> QED BY <2>1, TakesImplement
<1>3. CASE FirstFitWalks \/ BestFitWalks \/ ScanWalks \/ LayoutWalks
  BY <1>3, WalksStutter
<1>4. CASE SearchFails
  BY <1>4, FailsImplement
<1>5. CASE Expand
  BY <1>5, ExpandImplements
<1>6. CASE ScanReturns \/ Insert \/ LayoutReturns \/ ExpandAborts
  BY <1>6, ReturnsStutter
<1>7. ~SearchUndefined /\ ~ExpandUndefined /\ ~ScanUndefined /\ ~LayoutUndefined
  BY SearchNeverUndefined, ExpandNeverUndefined, ScanNeverUndefined, LayoutNeverUndefined
<1> QED BY <1>1, <1>2, <1>3, <1>4, <1>5, <1>6, <1>7 DEF Step

\* A block freed is one block given back.
LEMMA FreeImplements ==
  ASSUME SoundNow, NEW b \in live, ~MergesIntoFirst(b.ptr), ~AppendsApart(b.ptr), Free(b.ptr)
  PROVE  ContractStep
<1>1. live' = live \ {b}
  BY FreeSInv
<1>2. \/ FreeIntoEmpty(b.ptr) \/ FreeFront(b.ptr)
      \/ FreeBack(b.ptr) \/ FreeMiddle(b.ptr)
  BY FreeAlwaysPlaces DEF Free
<1>3. /\ call.op = "idle" /\ call'.op \in {"idle", "scan"}
      /\ m_end' = m_end /\ m_initialized' = m_initialized /\ status' = status
  BY <1>2 DEF FreeIntoEmpty, FreeFront, FreeBack, FreeMiddle, Freeing, Ready, Returns,
     Returned, sizeVars
<1>4. Request = NoRequest /\ Request' = NoRequest
  BY <1>3, NotRequested, NotRequestedNext
<1>5. IsOpen /\ IsOpen' = IsOpen
  BY <1>3, OpenNow DEF IsOpen
<1>6. Contract!GiveBack
  BY <1>1, <1>3, <1>4, <1>5 DEF Contract!GiveBack, Request, IsOpen
<1> QED BY <1>6 DEF ContractStep, Contract!ContractNext

\* Reset takes every block back.
LEMMA ResetImplements ==
  ASSUME SoundNow, Reset
  PROVE  ContractStep
<1>1. /\ live' = {} /\ call.op = "idle" /\ call'.op = "idle"
      /\ m_end' = m_end /\ m_initialized' = m_initialized /\ status' = status
  BY DEF Reset, Ready, Returns, Returned, sizeVars
<1>2. Request = NoRequest /\ Request' = NoRequest
  BY <1>1, NotRequested, NotRequestedNext
<1>3. IsOpen /\ IsOpen' = IsOpen
  BY <1>1, OpenNow DEF IsOpen
<1>4. Contract!Clear
  BY <1>1, <1>2, <1>3 DEF Contract!Clear, Request, IsOpen
<1> QED BY <1>4 DEF ContractStep, Contract!ContractNext

\* Release, and the destructor of an arena not released, close it.
LEMMA EndImplements ==
  ASSUME SInv, (Release /\ m_initialized) \/ Destroy
  PROVE  ContractStep
<1>1. /\ call' = call /\ m_end' = m_end
      /\ status = "ok" /\ (m_initialized => live' = {})
      /\ (~m_initialized => live' = live)
  BY DEF Release, Destroy, GiveBack, Ready
<1>2. Request' = Request
  BY <1>1 DEF Request, NoRequest
<1>3. IsOpen' = FALSE
  BY DEF Release, Destroy, GiveBack, IsOpen
<1>4. CASE m_initialized
  <2>1. IsOpen
    BY <1>1, <1>4 DEF IsOpen
  <2>2. Contract!Close
    BY <1>1, <1>2, <1>3, <1>4, <2>1 DEF Contract!Close, Request, IsOpen
  <2> QED BY <2>2 DEF ContractStep, Contract!ContractNext
<1>5. CASE ~m_initialized
  <2>1. IsOpen' = IsOpen
    BY <1>3, <1>5 DEF IsOpen
  <2> QED BY <1>1, <1>2, <1>5, <2>1, Stutters
<1> QED BY <1>4, <1>5

\* Every step is a step of the contract or invisible to it.
LEMMA NextImplements ==
  ASSUME SoundAssumption, AllInv, [SoundNext]_vars
  PROVE  ContractStep
<1>1. IInv /\ SInv /\ Contiguous
  BY DEF AllInv
<1>2. CASE Step
  BY <1>1, <1>2, OnlyNow, StepImplements
<1>3. CASE m_initialized /\ \E sz \in Sizes, al \in Aligns : Alloc(sz, al)
  <2>1. PICK sz \in Sizes, al \in Aligns : Alloc(sz, al)
    BY <1>3
  <2>2. SoundNow
    BY <1>1, <1>3, <2>1, OnlyNow DEF Alloc
  <2> QED BY <2>1, <2>2, AllocImplements
<1>4. CASE SoundFree
  <2>1. PICK b \in live : ~MergesIntoFirst(b.ptr) /\ ~AppendsApart(b.ptr) /\ Free(b.ptr)
    BY <1>4 DEF SoundFree
  <2> QED BY <1>1, <1>4, <2>1, OnlyNow, FreeImplements
<1>5. CASE m_initialized /\ Layout
  BY <1>1, <1>5, OnlyNow, ReturnsStutter DEF Layout
<1>6. CASE m_initialized /\ Reset
  BY <1>1, <1>6, OnlyNow, ResetImplements DEF Reset
<1>7. CASE (m_initialized /\ Release) \/ Destroy
  BY <1>1, <1>7, EndImplements
<1>8. CASE UNCHANGED vars
  <2>1. live' = live /\ m_end' = m_end /\ Request' = Request /\ IsOpen' = IsOpen
    BY <1>8 DEF vars, Request, NoRequest, IsOpen
  <2> QED BY <2>1, Stutters
<1> QED BY <1>2, <1>3, <1>4, <1>5, <1>6, <1>7, <1>8 DEF SoundNext

\* The constructor's arena is the contract's first.
LEMMA InitImplements ==
  ASSUME Init
  PROVE  Contract!ContractInit
<1>1. /\ live = {} /\ call.op = "idle" /\ m_end = Base + InitialSize
      /\ m_initialized /\ status = "ok"
  BY DEF Init, Returned
<1>2. m_end > Base
  BY <1>1, InitialSizeFits, BaseType
<1> QED BY <1>1, <1>2 DEF Contract!ContractInit

\* The allocator with a sound client implements the contract: every grant comes
\* from a gap between the blocks in use (a tightest one under best fit), a request
\* is refused or met with new pages only when no gap can serve it, and Free gives
\* back exactly the block it is given.
THEOREM SoundImplements ==
  ASSUME SoundAssumption
  PROVE  SoundSpec => Implements
<1>1. AllInv /\ [SoundNext]_vars => [Contract!ContractNext]_(Contract!contractVars)
  BY NextImplements DEF ContractStep
<1> QED BY <1>1, InitImplements, SoundInvariance, PTL
        DEF SoundSpec, Implements, Contract!ContractSpec

-----------------------------------------------------------------------------
(***************************************************************************)
(* The benchmark, whose rounds call the allocator and keep its answers.     *)
(***************************************************************************)
\* Of the slots S of the array f those that are not NULL hold the pointers of the
\* blocks L, each in one slot.
Holding(f, S, L) ==
  /\ {f[i] : i \in {j \in S : f[j] # NULL}} = {b.ptr : b \in L}
  /\ \A i, j \in S : f[i] # NULL /\ f[i] = f[j] => i = j

\* How many slots are no longer in T.
Filled(T) == Cardinality(Slots) - Cardinality(T)

\* The slots whose request has been answered.
Answered == 1..(IF call.op = "idle" THEN Filled(todo) ELSE Filled(todo) - 1)

\* In every phase of a round: what the array holds, and which call may be running.
BInv ==
  /\ ptr = [i \in Slots |-> ptr[i]] /\ todo \subseteq Slots
  /\ phase \in {"alloc", "reset", "free", "layout"}
  /\ status = "ok" =>
       /\ phase = "alloc" => /\ call.op \in {"idle", "search", "expand"}
                             /\ call.op # "idle" => todo # Slots
                             /\ Holding(ptr, Answered, live)
       /\ phase = "reset" => call.op = "idle"
       /\ phase = "free" => call.op \in {"idle", "scan"} /\ Holding(ptr, todo, live)
       /\ phase = "layout" => call.op \in {"idle", "layout"} /\ live = {}

\* The pointer Alloc returns is not that of a block in use.
Fresh ==
  call.op \in {"search", "expand"} /\ call'.op = "idle" =>
    \A b \in live : b.ptr # call'.result

benchAll == <<vars, benchVars>>

\* A slot is one of NTests for one of the sizes.
LEMMA SlotSizes ==
  ASSUME NEW i \in Slots
  PROVE  SizeAt(i) \in Sizes /\ Alignment \in Aligns
<1> DEFINE q == (i - 1) \div NTests
           L == Len(AllocSize)
<1>1. NTests \in Nat \ {0} /\ AllocSize \in Seq(Sizes) /\ Alignment \in Aligns /\ L \in Nat
  BY BenchmarkAssumption
<1>2. i - 1 \in Nat /\ i - 1 < NTests * L /\ NTests * L \in Nat
  BY <1>1 DEF Slots
<1>3. q \in Nat /\ NTests * q <= i - 1
  <2>1. /\ q \in Nat /\ (i - 1) % NTests \in 0..(NTests - 1)
        /\ i - 1 = NTests * q + ((i - 1) % NTests)
    BY <1>1, <1>2, DivisionFacts
  <2> HIDE DEF q
  <2>2. NTests * q \in Nat
    BY <1>1, <2>1
  <2> QED BY <1>2, <2>1, <2>2
<1> HIDE DEF q, L
<1>4. q < L
  <2>1. ASSUME L <= q PROVE NTests * L <= NTests * q
    <3>1. q - L \in Nat
      BY <1>1, <1>3, <2>1
    <3>2. NTests * (q - L) \in Nat /\ NTests * q = NTests * L + NTests * (q - L)
      BY <1>1, <1>3, <3>1
    <3>3. NTests * q \in Nat
      BY <1>1, <1>3
    <3> QED BY <1>2, <3>2, <3>3
  <2>2. NTests * q \in Nat
    BY <1>1, <1>3
  <2> QED BY <1>1, <1>2, <1>3, <2>1, <2>2
<1>5. AllocSize[q + 1] \in Sizes
  BY <1>1, <1>3, <1>4 DEF L
<1> QED BY <1>1, <1>5 DEF SizeAt, q

\* How many slots there are.
LEMMA SlotCount ==
  /\ IsFiniteSet(Slots) /\ Cardinality(Slots) \in Nat
  /\ Slots = 1..Cardinality(Slots)
<1> DEFINE n == NTests * Len(AllocSize)
<1>1. n \in Nat
  BY BenchmarkAssumption
<1>2. Slots = 1..n
  BY DEF Slots
<1> HIDE DEF n
<1> QED BY <1>1, <1>2, FS_Interval

\* A slot less to ask for is a slot more that is filled.
LEMMA FilledFacts ==
  ASSUME NEW T, T \subseteq Slots
  PROVE  /\ Filled(T) \in 0..Cardinality(Slots)
         /\ Filled({}) = Cardinality(Slots) /\ Filled(Slots) = 0
         /\ T # Slots => Filled(T) \in Slots
         /\ \A i \in T : Filled(T \ {i}) = Filled(T) + 1
<1>1. /\ IsFiniteSet(Slots) /\ Cardinality(Slots) \in Nat /\ Slots = 1..Cardinality(Slots)
  BY SlotCount
<1>2. /\ IsFiniteSet(T) /\ Cardinality(T) <= Cardinality(Slots)
      /\ Cardinality(Slots) = Cardinality(T) => Slots = T
  BY <1>1, FS_Subset
<1>3. Cardinality(T) \in Nat
  BY <1>2, FS_CardinalityType
<1>4. Cardinality({}) = 0
  BY FS_EmptySet
<1>5. ASSUME NEW i \in T PROVE Cardinality(T \ {i}) = Cardinality(T) - 1
  BY <1>2, FS_RemoveElement
<1>6. Filled(T) \in 0..Cardinality(Slots)
  BY <1>1, <1>2, <1>3 DEF Filled
<1>7. ASSUME T # Slots PROVE Filled(T) \in 1..Cardinality(Slots)
  BY <1>1, <1>2, <1>3, <1>7 DEF Filled
<1>8. ASSUME NEW i \in T PROVE Filled(T \ {i}) = Filled(T) + 1
  BY <1>1, <1>3, <1>5 DEF Filled
<1>9. Filled({}) = Cardinality(Slots) /\ Filled(Slots) = 0
  BY <1>1, <1>4 DEF Filled
<1> QED BY <1>1, <1>6, <1>7, <1>8, <1>9

\* An answer of NULL fills a slot with nothing.
LEMMA HoldingNull ==
  ASSUME NEW f, NEW n \in Nat \ {0}, NEW L, Holding(f, 1..(n - 1), L),
         NEW g, g[n] = NULL, \A i \in 1..(n - 1) : g[i] = f[i]
  PROVE  Holding(g, 1..n, L)
<1>1. {j \in 1..n : g[j] # NULL} = {j \in 1..(n - 1) : f[j] # NULL}
  <2>1. \A j : j \in 1..n <=> j \in 1..(n - 1) \/ j = n
    OBVIOUS
  <2> QED BY <2>1
<1>2. {g[i] : i \in {j \in 1..n : g[j] # NULL}} = {f[i] : i \in {j \in 1..(n - 1) : f[j] # NULL}}
  BY <1>1
<1>3. ASSUME NEW i \in 1..n, NEW j \in 1..n, g[i] # NULL, g[i] = g[j] PROVE i = j
  <2>1. i \in 1..(n - 1) /\ j \in 1..(n - 1)
    BY <1>3
  <2> QED BY <1>3, <2>1 DEF Holding
<1> QED BY <1>2, <1>3 DEF Holding

\* A pointer that is not in use yet fills a slot of its own.
LEMMA HoldingTaken ==
  ASSUME NEW f, NEW n \in Nat \ {0}, NEW L, Holding(f, 1..(n - 1), L),
         NEW u, u.ptr # NULL, \A b \in L : b.ptr # u.ptr,
         NEW g, g[n] = u.ptr, \A i \in 1..(n - 1) : g[i] = f[i]
  PROVE  Holding(g, 1..n, L \cup {u})
<1> DEFINE Old == {j \in 1..(n - 1) : f[j] # NULL}
<1>1. {j \in 1..n : g[j] # NULL} = Old \cup {n}
  <2>1. \A j : j \in 1..n <=> j \in 1..(n - 1) \/ j = n
    OBVIOUS
  <2> QED BY <2>1
<1>2. {f[i] : i \in Old} = {b.ptr : b \in L}
  BY DEF Holding
<1>3. \A i \in Old : g[i] = f[i]
  OBVIOUS
<1>4. \A i \in Old : f[i] # u.ptr
  <2> SUFFICES ASSUME NEW i \in Old PROVE f[i] # u.ptr
    OBVIOUS
  <2>1. f[i] \in {b.ptr : b \in L}
    BY <1>2
  <2> QED BY <2>1
<1> HIDE DEF Old
<1>5. {g[i] : i \in Old \cup {n}} = {b.ptr : b \in L \cup {u}}
  <2>1. {g[i] : i \in Old \cup {n}} = {f[i] : i \in Old} \cup {u.ptr}
    BY <1>3
  <2>2. {b.ptr : b \in L \cup {u}} = {b.ptr : b \in L} \cup {u.ptr}
    OBVIOUS
  <2> QED BY <1>2, <2>1, <2>2
<1>6. ASSUME NEW i \in 1..n, NEW j \in 1..n, g[i] # NULL, g[i] = g[j] PROVE i = j
  <2>1. i \in Old \cup {n} /\ j \in Old \cup {n}
    BY <1>1, <1>6
  <2>2. CASE i \in Old /\ j \in Old
    BY <1>3, <1>6, <2>2 DEF Holding, Old
  <2>3. CASE i = n \/ j = n
    BY <1>3, <1>4, <1>6, <2>1, <2>3
  <2> QED BY <2>1, <2>2, <2>3
<1> QED BY <1>1, <1>5, <1>6 DEF Holding

\* A slot given back leaves the others, and the blocks they hold.
LEMMA HoldingGiven ==
  ASSUME NEW f, NEW S, NEW L, Holding(f, S, L), NEW i \in S
  PROVE  /\ f[i] = NULL => Holding(f, S \ {i}, L)
         /\ f[i] # NULL => /\ Holding(f, S \ {i}, {b \in L : b.ptr # f[i]})
                           /\ \E b \in L : b.ptr = f[i]
<1> DEFINE F == {j \in S : f[j] # NULL}
           G == {j \in S \ {i} : f[j] # NULL}
<1>1. {f[j] : j \in F} = {b.ptr : b \in L}
  BY DEF Holding
<1>2. \A j, k \in S : f[j] # NULL /\ f[j] = f[k] => j = k
  BY DEF Holding
<1>3. ASSUME f[i] = NULL PROVE Holding(f, S \ {i}, L)
  <2>1. G = F
    BY <1>3
  <2> QED BY <1>1, <1>2, <2>1 DEF Holding
<1>4. ASSUME f[i] # NULL
      PROVE  /\ Holding(f, S \ {i}, {b \in L : b.ptr # f[i]})
             /\ \E b \in L : b.ptr = f[i]
  <2>1. i \in F /\ G = F \ {i}
    BY <1>4
  <2>2. \A j \in G : f[j] # f[i]
    BY <1>2, <1>4
  <2> HIDE DEF F, G
  <2>3. f[i] \in {b.ptr : b \in L}
    BY <1>1, <2>1
  <2>4. {f[j] : j \in G} = {f[j] : j \in F} \ {f[i]}
    BY <2>1, <2>2
  <2>5. {b.ptr : b \in {c \in L : c.ptr # f[i]}} = {b.ptr : b \in L} \ {f[i]}
    OBVIOUS
  <2>6. {f[j] : j \in G} = {b.ptr : b \in {c \in L : c.ptr # f[i]}}
    BY <1>1, <2>4, <2>5
  <2> QED BY <1>2, <2>3, <2>6 DEF Holding, G
<1> QED BY <1>3, <1>4

\* What an iteration of a search, or the growth of the arena, answers: nothing yet,
\* NULL, or the pointer of a block that is in use from now on.
Answers ==
  \/ live' = live /\ call'.op \in {"search", "expand"}
  \/ live' = live /\ call'.op = "idle" /\ call'.result = NULL
  \/ /\ call'.op = "idle" /\ call'.result # NULL
     /\ \E u : u.ptr = call'.result /\ live' = live \cup {u}

\* The tail every allocation shares answers with the pointer.
LEMMA TakeBlockAnswers ==
  ASSUME NEW m, NEW first, NEW last, NEW block \in Nat, NEW prevBlock, NEW padding \in Nat,
         padding >= 2, NEW sz, NEW al,
         TakeBlock(m, first, last, block, prevBlock, padding, sz, al)
  PROVE  Answers
<1> DEFINE r == SplitBlock(m, first, last, block, prevBlock, block + padding, sz)
           new == [ptr |-> block + padding, sz |-> sz, al |-> al,
                   lo |-> block, hi |-> block + padding + r.got]
<1>1. live' = live \cup {new} /\ call' = [op |-> "idle", result |-> block + padding]
  BY DEF TakeBlock, Returned
<1>2. new.ptr = block + padding /\ block + padding # NULL
  OBVIOUS
<1> HIDE DEF new
<1>3. call'.op = "idle" /\ call'.result = block + padding
  BY <1>1
<1> QED BY <1>1, <1>2, <1>3 DEF Answers

\* A search that has found its block takes it.
LEMMA TakeAnswers ==
  ASSUME TypeOK, call.op = "search", NEW block \in Nat, Take(block), status = "ok", status' = "ok"
  PROVE  Answers
<1>1. TakeBlock(mem, m_llStart, m_llEnd, block, PrevOf(block), PaddingIn(block), call.sz, call.al)
  BY DEF Take, Undefined
<1>2. PaddingIn(block) \in Nat /\ PaddingIn(block) >= 2
  BY PaddingOk
<1> QED BY <1>1, <1>2, TakeBlockAnswers

\* A walk through the list goes on searching.
LEMMA WalksSearchOn ==
  ASSUME TypeOK, FirstFitWalks \/ BestFitWalks
  PROVE  call'.op = "search" /\ live' = live
<1>1. call.op = "search"
  BY DEF FirstFitWalks, BestFitWalks, Searching
<1>2. call \in [op : {"search"}, sz : Sizes, al : Aligns, S : Nat, E : Nat, best : Nat, min : Nat]
  BY <1>1, CallFields DEF TypeOK
<1>3. ASSUME NEW c, NEW b, "op" \in DOMAIN c, c.op = "search"
      PROVE  "op" \in DOMAIN Tighter(c, b) /\ Tighter(c, b).op = "search"
  BY <1>3 DEF Tighter
<1>4. CASE FirstFitWalks
  <2>1. call' = [call EXCEPT !.S = NextOf(call.S), !.E = PrevOf(call.E)] /\ live' = live
    BY <1>4 DEF FirstFitWalks, Walk, OnlyCallChanges
  <2> QED BY <1>2, <2>1
<1>5. CASE BestFitWalks
  <2> DEFINE c1 == Tighter(call, call.S)
             c2 == Tighter(c1, call.E)
  <2>1. live' = live /\ Walk(c2)
    BY <1>5 DEF BestFitWalks, OnlyCallChanges
  <2>2. "op" \in DOMAIN call
    BY <1>2
  <2> HIDE DEF c1
  <2>3. "op" \in DOMAIN c1 /\ c1.op = "search"
    BY <1>1, <1>3, <2>2 DEF c1
  <2> HIDE DEF c2
  <2>4. "op" \in DOMAIN c2 /\ c2.op = "search"
    BY <1>3, <2>3 DEF c2
  <2> QED BY <2>1, <2>4 DEF Walk
<1> QED BY <1>4, <1>5

\* Every step on the way to an answer.
LEMMA SearchAnswers ==
  ASSUME TypeOK, Step, call.op \in {"search", "expand"}, status' = "ok"
  PROVE  Answers
<1>1. call.op = "search" =>
        call \in [op : {"search"}, sz : Sizes, al : Aligns, S : Nat, E : Nat, best : Nat, min : Nat]
  BY CallFields DEF TypeOK
<1>2. CASE FirstFitTakes
  <2>1. status = "ok" /\ call.op = "search" /\ FirstFitHit # NULL /\ Take(FirstFitHit)
    BY <1>2 DEF FirstFitTakes, Searching
  <2>2. FirstFitHit \in Nat
    BY <1>1, <2>1 DEF FirstFitHit
  <2> QED BY <2>1, <2>2, TakeAnswers
<1>3. CASE BestFitTakes
  <2>1. status = "ok" /\ call.op = "search" /\ Take(call.best)
    BY <1>3 DEF BestFitTakes, Searching
  <2>2. call.best \in Nat
    BY <1>1, <2>1
  <2> QED BY <2>1, <2>2, TakeAnswers
<1>4. CASE FirstFitWalks \/ BestFitWalks
  BY <1>4, WalksSearchOn DEF Answers
<1>5. CASE SearchFails
  BY <1>5 DEF SearchFails, OnlyCallChanges, Returned, Answers
<1>6. CASE Expand
  <2> DEFINE m == Expanded(ExpandPages)
             empty == m_llStart = NULL \/ m_llEnd = NULL
  <2>1. call.op = "expand" /\ status = "ok" /\ ExpandDefined
    BY <1>6 DEF Expand, Expanding
  <2>2. TakeBlock(m, IF empty THEN ExpandBlock ELSE m_llStart,
                  IF empty THEN ExpandBlock ELSE m_llEnd,
                  ExpandBlock, ExpandPrev, ExpandPadding, call.sz, call.al)
    BY <1>6, <2>1 DEF Expand, Undefined
  <2>3. ExpandBlock \in Nat
    BY <2>1, ExpandPagesEnough
  <2>4. ExpandPadding \in Nat /\ ExpandPadding >= 2
    BY <2>1, <2>3, PaddingOk DEF ExpandPadding
  <2> HIDE DEF m, empty
  <2> QED BY <2>2, <2>3, <2>4, TakeBlockAnswers
<1>7. ~SearchUndefined /\ ~ExpandUndefined /\ ~ExpandAborts
  BY DEF SearchUndefined, ExpandUndefined, ExpandAborts, Undefined
<1>8. /\ ~ScanWalks /\ ~ScanReturns /\ ~Insert /\ ~ScanUndefined
      /\ ~LayoutWalks /\ ~LayoutReturns /\ ~LayoutUndefined
  BY DEF ScanWalks, ScanReturns, Insert, ScanUndefined, LayoutWalks, LayoutReturns,
     LayoutUndefined, Scanning, Printing
<1> QED BY <1>2, <1>3, <1>4, <1>5, <1>6, <1>7, <1>8 DEF Step

\* The steps of Free and of Layout leave the blocks in use alone.
LEMMA OthersAnswer ==
  ASSUME TypeOK, Step, call.op \notin {"search", "expand"}, status' = "ok"
  PROVE  /\ live' = live /\ call.op \in {"scan", "layout"}
         /\ call'.op \in {call.op, "idle"}
<1>1. CASE ScanWalks
  <2>1. call \in [op : {"scan"}, h : Nat, len : Nat, S : Nat, Sp : Nat, E : Nat, Ep : Nat]
    BY <1>1, CallFields DEF TypeOK, ScanWalks, Scanning
  <2>2. call'.op = "scan"
    BY <1>1, <2>1 DEF ScanWalks
  <2> QED BY <1>1, <2>1, <2>2 DEF ScanWalks, OnlyCallChanges
<1>2. CASE LayoutWalks
  <2>1. call \in [op : {"layout"}, block : Nat]
    BY <1>2, CallFields DEF TypeOK, LayoutWalks, Printing
  <2>2. call'.op = "layout"
    BY <1>2, <2>1 DEF LayoutWalks
  <2> QED BY <1>2, <2>1, <2>2 DEF LayoutWalks, OnlyCallChanges
<1>3. CASE ScanReturns \/ Insert \/ LayoutReturns
  BY <1>3 DEF ScanReturns, Insert, LayoutReturns, Scanning, Printing, Returns, Returned
<1>4. ~ScanUndefined /\ ~LayoutUndefined
  BY DEF ScanUndefined, LayoutUndefined, Undefined, Scanning, Printing
<1>5. /\ ~FirstFitTakes /\ ~FirstFitWalks /\ ~BestFitWalks /\ ~BestFitTakes
      /\ ~SearchUndefined /\ ~SearchFails /\ ~Expand /\ ~ExpandUndefined /\ ~ExpandAborts
  BY DEF FirstFitTakes, FirstFitWalks, BestFitWalks, BestFitTakes, SearchUndefined,
     SearchFails, Expand, ExpandUndefined, ExpandAborts, Searching, Expanding
<1> QED BY <1>1, <1>2, <1>3, <1>4, <1>5 DEF Step

\* Free gives up the pointer's blocks at once, whatever scan it begins.
LEMMA FreeAnswers ==
  ASSUME NEW p, Free(p), status' = "ok"
  PROVE  live' = {b \in live : b.ptr # p} /\ call'.op \in {"idle", "scan"}
<1>1. \/ FreeIntoEmpty(p) \/ FreeFront(p) \/ FreeBack(p) \/ FreeMiddle(p) \/ FreeIgnored(p)
  BY DEF Free, FreeUndefined, Undefined, Ready
<1> QED BY <1>1 DEF FreeIntoEmpty, FreeFront, FreeBack, FreeMiddle, FreeIgnored, Forget,
        Returns, Returned

-----------------------------------------------------------------------------
\* A call of Free is made of an allocator that is in order.
LEMMA StepsAreMade ==
  /\ Step => status = "ok"
  /\ \A p : Free(p) => status = "ok" /\ call.op = "idle"
<1>1. Step => status = "ok"
  BY DEF Step, FirstFitTakes, FirstFitWalks, BestFitWalks, BestFitTakes, SearchUndefined,
     SearchFails, Expand, ExpandUndefined, ExpandAborts, ScanWalks, ScanReturns, Insert,
     ScanUndefined, LayoutWalks, LayoutReturns, LayoutUndefined,
     Searching, Expanding, Scanning, Printing
<1>2. \A p : Free(p) => status = "ok" /\ call.op = "idle"
  BY DEF Free, FreeIntoEmpty, FreeFront, FreeBack, FreeMiddle, FreeIgnored, FreeUndefined,
     Freeing, Ready
<1> QED BY <1>1, <1>2

\* The constructors, before the first round.
LEMMA InitBInv == BenchInit => BInv
<1> SUFFICES ASSUME BenchInit PROVE BInv
  OBVIOUS
<1>1. /\ ptr = [i \in Slots |-> NULL] /\ todo = Slots /\ phase = "alloc"
      /\ call.op = "idle" /\ live = {}
  BY DEF BenchInit, Init, Returned
<1>2. Answered = 1..0
  BY <1>1, FilledFacts DEF Answered
<1>3. Holding(ptr, 1..0, {})
  BY DEF Holding
<1> QED BY <1>1, <1>2, <1>3 DEF BInv

\* A request more.
LEMMA AskForKeeps ==
  ASSUME BInv, NEW i \in Slots, AskFor(i)
  PROVE  BInv'
<1>1. /\ phase = "alloc" /\ i \in todo /\ status = "ok" /\ call.op = "idle"
      /\ call'.op = "search" /\ live' = live
      /\ todo' = todo \ {i} /\ ptr' = ptr /\ phase' = phase
  BY DEF AskFor, Alloc, Ready, OnlyCallChanges
<1>2. todo \subseteq Slots /\ Holding(ptr, Answered, live) /\ ptr = [j \in Slots |-> ptr[j]]
  BY <1>1 DEF BInv
<1>3. Filled(todo) \in Int /\ Filled(todo') = Filled(todo) + 1
  <2>1. /\ Filled(todo) \in 0..Cardinality(Slots) /\ Cardinality(Slots) \in Nat
        /\ Filled(todo \ {i}) = Filled(todo) + 1
    BY <1>1, <1>2, SlotCount, FilledFacts
  <2> QED BY <1>1, <2>1
<1>4. Answered' = Answered
  BY <1>1, <1>3 DEF Answered
<1>5. todo' # Slots /\ todo' \subseteq Slots
  BY <1>1, <1>2
<1> QED BY <1>1, <1>2, <1>4, <1>5 DEF BInv

\* An answer more, or an iteration of whatever call is running.
LEMMA AllocatorStepKeeps ==
  ASSUME TypeOK, BInv, Fresh, AllocatorStep
  PROVE  BInv'
<1> DEFINE n == Filled(todo)
<1>1. Step /\ status = "ok" /\ phase' = phase /\ todo' = todo
  BY StepsAreMade DEF AllocatorStep
<1>2. ptr' = IF phase = "alloc" /\ call'.op = "idle"
             THEN [ptr EXCEPT ![n] = call'.result] ELSE ptr
  BY DEF AllocatorStep, CurrentSlot, Filled
<1>3. /\ ptr = [j \in Slots |-> ptr[j]] /\ todo \subseteq Slots
      /\ phase \in {"alloc", "reset", "free", "layout"}
  BY DEF BInv
<1>4. ptr' = [j \in Slots |-> ptr'[j]]
  BY <1>2, <1>3
<1>5. CASE status' # "ok"
  BY <1>1, <1>3, <1>4, <1>5 DEF BInv
<1>6. CASE status' = "ok" /\ call.op \in {"search", "expand"}
  <2>1. phase = "alloc" /\ todo # Slots /\ Holding(ptr, Answered, live)
    BY <1>1, <1>3, <1>6 DEF BInv
  <2>2. n \in Slots /\ n \in Nat \ {0} /\ \A j \in 1..(n - 1) : j \in Slots
    BY <1>3, <2>1, SlotCount, FilledFacts
  <2>3. Answered = 1..(n - 1)
    BY <1>6 DEF Answered
  <2> HIDE DEF n
  <2>4. Holding(ptr, 1..(n - 1), live)
    BY <2>1, <2>3
  <2>5. Answers
    BY <1>1, <1>6, SearchAnswers
  <2>6. CASE live' = live /\ call'.op \in {"search", "expand"}
    <3>1. Answered' = 1..(n - 1) /\ ptr' = ptr
      BY <1>1, <1>2, <2>6 DEF Answered, n
    <3> QED BY <1>1, <1>3, <2>1, <2>4, <2>6, <3>1 DEF BInv
  <2>7. CASE call'.op = "idle"
    <3>1. Answered' = 1..n
      BY <1>1, <2>7 DEF Answered, n
    <3>2. ptr'[n] = call'.result /\ \A j \in 1..(n - 1) : ptr'[j] = ptr[j]
      BY <1>2, <1>3, <2>1, <2>2, <2>7
    <3>3. Holding(ptr', 1..n, live')
      <4>1. CASE live' = live /\ call'.result = NULL
        BY <2>2, <2>4, <3>2, <4>1, HoldingNull
      <4>2. CASE call'.result # NULL /\ \E u : u.ptr = call'.result /\ live' = live \cup {u}
        <5>1. PICK u : u.ptr = call'.result /\ live' = live \cup {u}
          BY <4>2
        <5>2. \A b \in live : b.ptr # u.ptr
          BY <1>6, <2>7, <5>1 DEF Fresh
        <5> QED BY <2>2, <2>4, <3>2, <4>2, <5>1, <5>2, HoldingTaken
      <4> QED BY <2>5, <2>7, <4>1, <4>2 DEF Answers
    <3> QED BY <1>1, <1>3, <1>4, <2>1, <2>7, <3>1, <3>3 DEF BInv
  <2> QED BY <2>5, <2>6, <2>7 DEF Answers
<1>7. CASE status' = "ok" /\ call.op \notin {"search", "expand"}
  <2>1. live' = live /\ call.op \in {"scan", "layout"} /\ call'.op \in {call.op, "idle"}
    BY <1>1, <1>7, OthersAnswer
  <2>2. \/ phase = "free" /\ call.op = "scan" /\ Holding(ptr, todo, live)
        \/ phase = "layout" /\ call.op = "layout" /\ live = {}
    BY <1>1, <1>3, <2>1 DEF BInv
  <2>3. ptr' = ptr
    BY <1>2, <2>2
  <2> QED BY <1>1, <1>3, <2>1, <2>2, <2>3 DEF BInv
<1> QED BY <1>5, <1>6, <1>7

\* A slot is given back.
LEMMA GiveBackSlotKeeps ==
  ASSUME BInv, NEW i \in Slots, GiveBackSlot(i)
  PROVE  BInv'
<1>1. /\ phase = "free" /\ i \in todo /\ status = "ok" /\ call.op = "idle"
      /\ todo' = todo \ {i} /\ ptr' = ptr /\ phase' = phase
  BY DEF GiveBackSlot, Ready
<1>2. /\ ptr = [j \in Slots |-> ptr[j]] /\ todo \subseteq Slots /\ Holding(ptr, todo, live)
  BY <1>1 DEF BInv
<1>3. CASE ptr[i] = NULL
  <2>1. live' = live /\ call' = call /\ status' = status
    BY <1>3 DEF GiveBackSlot, vars
  <2>2. Holding(ptr, todo \ {i}, live)
    BY <1>1, <1>2, <1>3, HoldingGiven
  <2> QED BY <1>1, <1>2, <2>1, <2>2 DEF BInv
<1>4. CASE ptr[i] # NULL /\ status' = "ok"
  <2>1. live' = {b \in live : b.ptr # ptr[i]} /\ call'.op \in {"idle", "scan"}
    BY <1>4, FreeAnswers DEF GiveBackSlot
  <2>2. Holding(ptr, todo \ {i}, live')
    BY <1>1, <1>2, <1>4, <2>1, HoldingGiven
  <2> QED BY <1>1, <1>2, <2>1, <2>2 DEF BInv
<1>5. CASE status' # "ok"
  BY <1>1, <1>2, <1>5 DEF BInv
<1> QED BY <1>3, <1>4, <1>5

\* The steps of the benchmark between its calls of Alloc and Free.
LEMMA RoundKeeps ==
  ASSUME BInv, AllAllocated \/ ResetAll \/ AllFreed \/ NextRound
  PROVE  BInv'
<1>1. ptr' = ptr /\ ptr = [j \in Slots |-> ptr[j]] /\ todo \subseteq Slots
  BY DEF BInv, AllAllocated, ResetAll, AllFreed, NextRound
<1>2. CASE AllAllocated
  <2>1. /\ status = "ok" /\ call.op = "idle" /\ phase = "alloc" /\ todo = {}
        /\ phase' \in {"reset", "free"} /\ todo' = Slots
        /\ live' = live /\ call' = call /\ status' = status
    BY <1>2 DEF AllAllocated, Ready, vars
  <2>2. Answered = Slots
    BY <2>1, SlotCount, FilledFacts DEF Answered
  <2>3. Holding(ptr, Slots, live)
    BY <2>1, <2>2 DEF BInv
  <2> QED BY <1>1, <2>1, <2>3 DEF BInv
<1>3. CASE ResetAll
  <2>1. live' = {} /\ call'.op = "idle" /\ phase' = "free" /\ todo' = {}
    BY <1>3 DEF ResetAll, Reset, Returns, Returned
  <2>2. Holding(ptr, {}, {})
    BY DEF Holding
  <2> QED BY <1>1, <2>1, <2>2 DEF BInv
<1>4. CASE AllFreed
  <2>1. /\ status = "ok" /\ phase = "free" /\ todo = {} /\ live' = live
        /\ call'.op = "layout" /\ phase' = "layout" /\ todo' = todo
    BY <1>4 DEF AllFreed, Layout, Ready, OnlyCallChanges
  <2>2. Holding(ptr, {}, live)
    BY <2>1 DEF BInv
  <2>3. {b.ptr : b \in live} = {}
    BY <2>2 DEF Holding
  <2>4. live = {}
    BY <2>3
  <2> QED BY <1>1, <2>1, <2>4 DEF BInv
<1>5. CASE NextRound
  <2>1. /\ status = "ok" /\ call.op = "idle" /\ phase = "layout" /\ phase' = "alloc"
        /\ todo' = Slots /\ live' = live /\ call' = call
    BY <1>5 DEF NextRound, Ready, vars
  <2>2. live = {}
    BY <2>1 DEF BInv
  <2>3. Answered' = 1..0
    BY <2>1, FilledFacts DEF Answered
  <2>4. Holding(ptr, 1..0, {})
    BY DEF Holding
  <2> QED BY <1>1, <2>1, <2>2, <2>3, <2>4 DEF BInv
<1> QED BY <1>2, <1>3, <1>4, <1>5

\* Every step of the benchmark that is handed no pointer twice.
LEMMA NextBInv ==
  ASSUME TypeOK, BInv, [BenchNext]_benchAll, [Fresh]_vars
  PROVE  BInv'
<1>1. CASE AllocatorStep
  <2>1. Fresh
    <3>1. CASE UNCHANGED vars
      BY <3>1 DEF Fresh, vars
    <3> QED BY <3>1
  <2> QED BY <1>1, <2>1, AllocatorStepKeeps
<1>2. CASE UNCHANGED benchAll
  BY <1>2 DEF benchAll, benchVars, vars, BInv, Answered
<1> QED BY <1>1, <1>2, AskForKeeps, GiveBackSlotKeeps, RoundKeeps DEF BenchNext

\* The benchmark is one of the clients of Spec: it frees only blocks in use.
LEMMA BenchIsClient ==
  ASSUME BInv, [BenchNext]_benchAll
  PROVE  [Next]_vars
<1>1. ASSUME NEW i \in Slots, AskFor(i) PROVE Next
  BY <1>1, SlotSizes DEF AskFor, Next, AllocOrFree
<1>2. ASSUME NEW i \in Slots, GiveBackSlot(i) PROVE [Next]_vars
  <2>1. CASE ptr[i] = NULL
    BY <1>2, <2>1 DEF GiveBackSlot
  <2>2. CASE ptr[i] # NULL
    <3>1. Free(ptr[i]) /\ phase = "free" /\ i \in todo
      BY <1>2, <2>2 DEF GiveBackSlot
    <3>2. Holding(ptr, todo, live)
      BY <3>1, StepsAreMade DEF BInv
    <3>3. PICK b \in live : b.ptr = ptr[i]
      BY <2>2, <3>1, <3>2, HoldingGiven
    <3> QED BY <3>1, <3>3 DEF Next, AllocOrFree
  <2> QED BY <2>1, <2>2
<1>3. AllocatorStep => Next
  BY DEF AllocatorStep, Next
<1>4. AllAllocated \/ ResetAll \/ AllFreed \/ NextRound => [Next]_vars
  BY DEF AllAllocated, ResetAll, AllFreed, NextRound, Next
<1>5. UNCHANGED benchAll => UNCHANGED vars
  BY DEF benchAll
<1> QED BY <1>1, <1>2, <1>3, <1>4, <1>5 DEF BenchNext

\* The property is what the invariant says of the second half of a round.
LEMMA BInvHolds == BInv => HoldsWhatItGot
<1> SUFFICES ASSUME BInv, Ready, phase = "free"
             PROVE  LET left == {i \in todo : ptr[i] # NULL}
                    IN /\ {ptr[i] : i \in left} = {b.ptr : b \in live}
                       /\ \A i, j \in left : ptr[i] = ptr[j] => i = j
  BY DEF HoldsWhatItGot
<1>1. Holding(ptr, todo, live)
  BY DEF BInv, Ready
<1> QED BY <1>1 DEF Holding

\* The allocator with a sound client hands out no pointer of a block in use.
LEMMA SoundIsFresh ==
  ASSUME SoundAssumption, AllInv, [SoundNext]_vars
  PROVE  Fresh
<1> SUFFICES ASSUME call.op \in {"search", "expand"}, call'.op = "idle", NEW b \in live
             PROVE  b.ptr # call'.result
  BY DEF Fresh
<1>1. Step
  <2>1. /\ \A sz, al : ~Alloc(sz, al)
        /\ ~SoundFree /\ ~Layout /\ ~Reset /\ ~Release /\ ~Destroy
    BY StepsAreMade DEF Alloc, SoundFree, Layout, Reset, Release, Destroy, Ready
  <2>2. ~UNCHANGED vars
    BY DEF vars
  <2> QED BY <2>1, <2>2 DEF SoundNext
<1>2. SoundNow /\ Contiguous /\ TypeOK /\ Served
  BY <1>1, OnlyNow DEF AllInv, IInv
<1>3. /\ b.ptr \in Nat /\ b.lo \in Nat /\ b.hi \in Nat /\ b.sz \in Nat
      /\ b.lo + 2 <= b.ptr /\ b.ptr <= b.hi
  <2>1. b.ptr \in Nat /\ b.lo \in Nat /\ b.hi \in Nat /\ b.sz \in Nat
    BY <1>2, SeqAssumption DEF TypeOK
  <2> QED BY <1>2, <2>1 DEF Served
<1>4. b \in Used
  BY DEF Used
<1>5. ASSUME NEW a \in FreeBlocks, Leftover(a) >= 0, Take(a), call.op = "search"
      PROVE  b.ptr # call'.result
  <2>1. /\ a \in Nat /\ SizeOf(a) \in Nat /\ (b.hi <= a \/ a + SizeOf(a) <= b.lo)
    BY <1>2, <1>4, <1>5, FreeKnown
  <2>2. PaddingIn(a) \in Nat /\ PaddingIn(a) >= 2 /\ call.sz \in Nat
    BY <1>2, <2>1, PaddingOk
  <2>3. a + 2 <= a + PaddingIn(a) /\ a + PaddingIn(a) <= a + SizeOf(a)
    BY <1>5, <2>1, <2>2 DEF Leftover
  <2>4. call'.result = a + PaddingIn(a)
    <3>1. \/ TakeBlock(mem, m_llStart, m_llEnd, a, PrevOf(a), PaddingIn(a), call.sz, call.al)
          \/ call' = call
      BY <1>5 DEF Take, Undefined
    <3>2. call' # call
      BY <1>5
    <3> QED BY <3>1, <3>2 DEF TakeBlock, Returned
  <2> QED BY <1>3, <2>1, <2>2, <2>3, <2>4
<1>6. CASE FirstFitTakes
  BY <1>2, <1>5, <1>6, FirstFitHitFits
<1>7. CASE BestFitTakes
  BY <1>2, <1>5, <1>7, BestFitBestFits
<1>8. CASE Expand
  <2>1. call'.result = ExpandBlock + ExpandPadding
    <3> DEFINE empty == m_llStart = NULL \/ m_llEnd = NULL
               m == Expanded(ExpandPages)
               first == IF empty THEN ExpandBlock ELSE m_llStart
               last == IF empty THEN ExpandBlock ELSE m_llEnd
    <3>1. \/ TakeBlock(m, first, last, ExpandBlock, ExpandPrev, ExpandPadding, call.sz, call.al)
          \/ call' = call
      BY <1>8 DEF Expand, Undefined
    <3> HIDE DEF m, first, last
    <3>2. call' # call
      BY <1>8
    <3> QED BY <3>1, <3>2 DEF TakeBlock, Returned
  <2>2. /\ ExpandBlock \in Nat /\ ExpandPadding \in Nat /\ ExpandPadding >= 2
    <3>1. ExpandDefined /\ call.op = "expand"
      BY <1>8 DEF Expand, Expanding
    <3>2. ExpandBlock \in Nat
      BY <1>2, <3>1, ExpandPagesEnough
    <3> QED BY <1>2, <3>1, <3>2, PaddingOk, ExpandPagesEnough DEF ExpandPadding
  <2>3. m_end \in Nat /\ b.hi <= m_end
    BY <1>2, <1>4, NowFacts DEF WholeList, Tiles
  <2>4. CASE LastIsFree
    <3>1. m_llEnd \in FreeBlocks /\ ExpandBlock = m_llEnd /\ m_llEnd + SizeOf(m_llEnd) = m_end
      BY <1>2, <2>4, EndsKnown DEF LastIsFree, ExpandBlock
    <3>2. b.hi <= m_llEnd \/ m_end <= b.lo
      BY <1>2, <1>4, <3>1, FreeKnown
    <3> QED BY <1>3, <2>1, <2>2, <2>3, <3>1, <3>2
  <2>5. CASE ~LastIsFree
    <3>1. ExpandBlock = m_end
      BY <2>5 DEF ExpandBlock
    <3> QED BY <1>3, <2>1, <2>2, <2>3, <3>1
  <2> QED BY <2>4, <2>5
<1>9. CASE SearchFails
  <2>1. call'.result = 0
    BY <1>9 DEF SearchFails, Returned
  <2> QED BY <1>3, <2>1
<1>10. ~SearchUndefined /\ ~ExpandUndefined
  BY <1>2, SearchNeverUndefined, ExpandNeverUndefined
<1>11. ~FirstFitWalks /\ ~BestFitWalks /\ ~ExpandAborts
  BY <1>2, WalksSearchOn DEF ExpandAborts
<1>12. /\ ~ScanWalks /\ ~ScanReturns /\ ~Insert /\ ~ScanUndefined
       /\ ~LayoutWalks /\ ~LayoutReturns /\ ~LayoutUndefined
  BY DEF ScanWalks, ScanReturns, Insert, ScanUndefined, LayoutWalks, LayoutReturns,
     LayoutUndefined, Scanning, Printing
<1> QED BY <1>1, <1>6, <1>7, <1>8, <1>9, <1>10, <1>11, <1>12 DEF Step

-----------------------------------------------------------------------------
\* As long as no call of Alloc returns a pointer that is in use, the pointers the
\* benchmark has yet to free are distinct and are exactly the blocks outstanding:
\* for any sizes, flags and shuffles, whatever becomes of the free list.
THEOREM BenchmarkHolds == BenchSpec /\ [][Fresh]_vars => []HoldsWhatItGot
<1>1. BenchInit => IInv /\ BInv
  BY InitInv, InitBInv DEF BenchInit
<1>2. IInv /\ BInv /\ [BenchNext]_benchAll /\ [Fresh]_vars => IInv' /\ BInv'
  <2> SUFFICES ASSUME IInv, BInv, [BenchNext]_benchAll, [Fresh]_vars PROVE IInv' /\ BInv'
    OBVIOUS
  <2>1. BInv'
    BY NextBInv DEF IInv
  <2> QED BY <2>1, BenchIsClient, NextInv
<1>3. BInv => HoldsWhatItGot
  BY BInvHolds
<1> QED BY <1>1, <1>2, <1>3, PTL DEF BenchSpec, benchAll

\* So they are in every run of the benchmark whose frees stay off the two paths that
\* damage the list, in rounds that end in Reset as well.
THEOREM BenchmarkSound ==
  ASSUME SoundAssumption
  PROVE  BenchSpec /\ [][SoundNext]_vars => []HoldsWhatItGot
<1>1. BenchInit => AllInv /\ BInv
  BY InitAllInv, InitBInv DEF BenchInit
<1>2. AllInv /\ BInv /\ [BenchNext]_benchAll /\ [SoundNext]_vars => AllInv' /\ BInv'
  <2> SUFFICES ASSUME AllInv, BInv, [BenchNext]_benchAll, [SoundNext]_vars
               PROVE  AllInv' /\ BInv'
    OBVIOUS
  <2>1. [Fresh]_vars
    BY SoundIsFresh
  <2>2. BInv'
    BY <2>1, NextBInv DEF AllInv, IInv
  <2> QED BY <2>2, NextAllInv
<1>3. BInv => HoldsWhatItGot
  BY BInvHolds
<1> QED BY <1>1, <1>2, <1>3, PTL DEF BenchSpec, benchAll

=============================================================================
