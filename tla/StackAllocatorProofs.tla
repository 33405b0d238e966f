------------------------ MODULE StackAllocatorProofs ------------------------
(***************************************************************************)
(* Proofs about StackAllocator, for every buffer, set of sizes and set of   *)
(* alignments; where the blocks lie, when the allocator was built by the    *)
(* constructor that sets m_cur.                                             *)
(***************************************************************************)
EXTENDS StackAllocator, MemLayoutProofs

\* The padding a header records never exceeds the gap it stands in, so Free
\* never takes m_cur below the start of the block it frees.
PaddingShort ==
  \A i \in 1..Len(stack) : stack[i].padding <= stack[i].ptr - stack[i].lo

\* Blocks lie above the start of the buffer and below m_cur.
Above ==
  /\ HeightAfter(Len(stack)) <= m_cur
  /\ Start <= m_cur
  /\ \A i \in 1..Len(stack) : Start <= stack[i].lo

\* What holds of any buffer, and what is added when m_cur started at its start.
TypeInv == TypeOK /\ PaddingShort
IInv == TypeInv /\ Above /\ BlocksSound

USE DEF headerSize

\* Every block ends at a height that is a number.
LEMMA HeightType ==
  ASSUME TypeOK, NEW n \in 0..Len(stack)
  PROVE  HeightAfter(n) \in Nat
<1>1. CASE n = 0
  BY <1>1, StackAssumption DEF HeightAfter
<1>2. CASE n # 0
  <2>1. stack[n] \in Blocks
    BY <1>2 DEF TypeOK
  <2>2. stack[n].ptr \in Nat /\ stack[n].sz \in Nat
    BY <2>1, StackAssumption DEF Blocks
  <2> QED BY <1>2, <2>2 DEF HeightAfter
<1> QED BY <1>1, <1>2

\* What an allocation pushes.
LEMMA AllocFacts ==
  ASSUME TypeOK, NEW sz \in Sizes, NEW al \in Aligns, Alloc(sz, al)
  PROVE  /\ PaddingFor(al) \in Nat /\ PaddingFor(al) >= 1 /\ PaddingFor(al) < 1 + al
         /\ (m_cur + PaddingFor(al)) % al = 0
         /\ sz \in Nat
         /\ m_cur + PaddingFor(al) + sz <= m_end
         /\ PaddingFor(al) % PadMod \in 0..(PadMod - 1)
         /\ PaddingFor(al) % PadMod <= PaddingFor(al)
         /\ PaddingFor(al) < PadMod => PaddingFor(al) % PadMod = PaddingFor(al)
         /\ [ptr |-> m_cur + PaddingFor(al), sz |-> sz, al |-> al, lo |-> m_cur,
             padding |-> PaddingFor(al) % PadMod] \in Blocks
<1>1. m_cur \in Nat /\ al \in Nat \ {0} /\ sz \in Nat /\ PadMod \in Nat \ {0}
  BY StackAssumption DEF TypeOK
<1>2. /\ PaddingFor(al) \in Nat /\ PaddingFor(al) >= 1 /\ PaddingFor(al) < 1 + al
      /\ (m_cur + PaddingFor(al)) % al = 0
  BY <1>1, BlockPaddingOk DEF PaddingFor
<1>3. m_cur + PaddingFor(al) + sz <= m_end
  BY DEF Alloc, Fits
<1> DEFINE p == PaddingFor(al)
<1> HIDE DEF p
<1>4. p \in Nat
  BY <1>2 DEF p
<1>5. /\ p % PadMod \in 0..(PadMod - 1) /\ p % PadMod <= p
      /\ p < PadMod => p % PadMod = p
  <2>1. p \div PadMod \in Nat /\ p = PadMod * (p \div PadMod) + (p % PadMod)
    BY <1>1, <1>4, DivisionFacts
  <2>2. p % PadMod \in 0..(PadMod - 1)
    BY <1>1, <1>4, DivisionFacts
  <2>3. PadMod * (p \div PadMod) >= 0
    BY <1>1, <2>1
  <2>4. p < PadMod => p % PadMod = p
    <3> SUFFICES ASSUME p < PadMod PROVE p % PadMod = p
      OBVIOUS
    <3>1. p \in 0..(PadMod - 1) /\ PadMod * 0 + p = p
      BY <1>1, <1>4
    <3>2. (PadMod * 0 + p) % PadMod = p
      BY <1>1, <3>1, ModUnique, 0 \in Int
    <3> QED BY <3>1, <3>2
  <2>5. p % PadMod <= p
    <3> DEFINE r == p % PadMod
               k == PadMod * (p \div PadMod)
    <3>1. r \in Int /\ k \in Int /\ k >= 0 /\ p = k + r
      BY <1>1, <2>1, <2>2, <2>3
    <3> HIDE DEF r, k
    <3>2. r <= p
      BY <1>4, <3>1
    <3> QED BY <3>2 DEF r
  <2> QED BY <2>2, <2>4, <2>5
<1>6. [ptr |-> m_cur + p, sz |-> sz, al |-> al, lo |-> m_cur,
       padding |-> p % PadMod] \in Blocks
  BY <1>1, <1>4, <1>5 DEF Blocks
<1> QED BY <1>1, <1>2, <1>3, <1>5, <1>6 DEF p

\* The invariant holds of a buffer just allocated.
LEMMA InitInv == ~PreAlloc /\ Init => IInv
BY StackAssumption DEF Init, IInv, TypeInv, TypeOK, PaddingShort, Above, BlocksSound, HeightAfter

\* What a push leaves: the new block on top of the others, where they were.
LEMMA PushFacts ==
  ASSUME TypeInv, NEW sz \in Sizes, NEW al \in Aligns, Alloc(sz, al)
  PROVE  /\ Len(stack') = Len(stack) + 1 /\ \A i \in 1..Len(stack) : stack'[i] = stack[i]
         /\ stack'[Len(stack) + 1].ptr = m_cur + PaddingFor(al) /\ stack'[Len(stack) + 1].sz = sz
         /\ stack'[Len(stack) + 1].al = al /\ stack'[Len(stack) + 1].lo = m_cur
         /\ m_cur \in Nat /\ m_cur' = m_cur + PaddingFor(al) + sz
         /\ \A i \in 0..Len(stack) : HeightAfter(i)' = HeightAfter(i)
         /\ TypeInv'
<1> DEFINE p   == PaddingFor(al)
           new == [ptr |-> m_cur + p, sz |-> sz, al |-> al, lo |-> m_cur,
                   padding |-> p % PadMod]
           n   == Len(stack)
<1>1. p \in Nat /\ p % PadMod <= p /\ sz \in Nat /\ new \in Blocks
  BY AllocFacts DEF TypeInv
<1>2. /\ m_cur' = m_cur + p + sz /\ stack' = Append(stack, new)
      /\ m_initialized' = m_initialized /\ status' = status
  BY DEF Alloc
<1>3. m_cur \in Nat /\ stack \in Seq(Blocks) /\ n \in Nat
  BY DEF TypeInv, TypeOK
<1> HIDE DEF p
<1>4. /\ new.ptr = m_cur + p /\ new.sz = sz /\ new.al = al /\ new.lo = m_cur
      /\ new.padding = p % PadMod
  OBVIOUS
<1>5. p % PadMod \in Int
  BY <1>1, <1>4 DEF Blocks
<1> HIDE DEF new
<1>6. /\ Len(stack') = n + 1 /\ stack'[n + 1] = new
      /\ \A i \in 1..n : stack'[i] = stack[i]
  BY <1>1, <1>2, <1>3
<1>7. TypeOK'
  BY <1>1, <1>2, <1>3 DEF TypeInv, TypeOK
<1>8. PaddingShort'
  <2>1. new.padding <= new.ptr - new.lo
    BY <1>1, <1>3, <1>4, <1>5
  <2> QED BY <1>3, <1>6, <2>1 DEF TypeInv, PaddingShort
<1>9. \A i \in 0..n : HeightAfter(i)' = HeightAfter(i)
  BY <1>3, <1>6 DEF HeightAfter
<1> QED BY <1>2, <1>3, <1>4, <1>6, <1>7, <1>8, <1>9 DEF TypeInv, p

\* Pushing a block keeps the invariant.
LEMMA AllocInv ==
  ASSUME IInv, NEW sz \in Sizes, NEW al \in Aligns, Alloc(sz, al)
  PROVE  IInv'
<1> DEFINE p == PaddingFor(al)
           n == Len(stack)
           new == stack'[n + 1]
<1>1. /\ p \in Nat /\ p >= 1 /\ (m_cur + p) % al = 0 /\ sz \in Nat
      /\ m_cur + p + sz <= m_end
  BY AllocFacts DEF IInv, TypeInv
<1>2. /\ Len(stack') = n + 1 /\ \A i \in 1..n : stack'[i] = stack[i]
      /\ new.ptr = m_cur + p /\ new.sz = sz /\ new.al = al /\ new.lo = m_cur
      /\ m_cur \in Nat /\ m_cur' = m_cur + p + sz
      /\ \A i \in 0..n : HeightAfter(i)' = HeightAfter(i)
      /\ TypeInv'
  BY PushFacts DEF IInv
<1>0. n \in Nat
  BY DEF IInv, TypeInv, TypeOK
<1> HIDE DEF p
<1>3. Above'
  <2>1. HeightAfter(Len(stack))' = m_cur'
    BY <1>0, <1>1, <1>2 DEF HeightAfter
  <2>2. m_cur' \in Nat /\ Start <= m_cur'
    BY <1>1, <1>2, StackAssumption DEF IInv, Above
  <2>3. ASSUME NEW i \in 1..(n + 1) PROVE Start <= stack'[i].lo
    <3>1. CASE i = n + 1
      BY <1>2, <3>1 DEF IInv, Above
    <3>2. CASE i \in 1..n
      BY <1>2, <3>2 DEF IInv, Above
    <3> QED BY <1>0, <3>1, <3>2
  <2> QED BY <1>0, <1>2, <2>1, <2>2, <2>3 DEF Above
<1>4. BlocksSound'
  <2>1. /\ new.ptr % new.al = 0 /\ new.ptr >= new.lo + headerSize
        /\ new.lo >= HeightAfter(n) /\ new.ptr + new.sz <= m_end
    BY <1>0, <1>1, <1>2, HeightType DEF IInv, TypeInv, Above
  <2> SUFFICES ASSUME NEW i \in 1..(n + 1)
               PROVE  /\ stack'[i].ptr % stack'[i].al = 0
                      /\ stack'[i].ptr >= stack'[i].lo + headerSize
                      /\ stack'[i].lo >= HeightAfter(i - 1)'
                      /\ stack'[i].ptr + stack'[i].sz <= m_end
    BY <1>0, <1>2 DEF BlocksSound, m_end
  <2>2. CASE i = n + 1
    BY <1>0, <1>2, <2>1, <2>2
  <2>3. CASE i \in 1..n
    <3>1. stack'[i] = stack[i] /\ HeightAfter(i - 1)' = HeightAfter(i - 1)
      BY <1>0, <1>2, <2>3
    <3> QED BY <2>3, <3>1 DEF IInv, BlocksSound
  <2> QED BY <1>0, <2>2, <2>3
<1> QED BY <1>2, <1>3, <1>4 DEF IInv

\* Popping removes the last block and leaves the others where they were.
LEMMA PopFacts ==
  ASSUME TypeOK, Free
  PROVE  /\ stack' \in Seq(Blocks) /\ Len(stack') = Len(stack) - 1
         /\ \A i \in 1..(Len(stack) - 1) : stack'[i] = stack[i]
         /\ \A i \in 0..(Len(stack) - 1) :
              HeightAfter(i)' = HeightAfter(i) /\ HeightAfter(i) \in Nat
<1> DEFINE n == Len(stack)
<1>1. stack \in Seq(Blocks) /\ stack # <<>> /\ n \in Nat \ {0}
  BY DEF TypeOK, Free
<1>2. stack' = SubSeq(stack, 1, n - 1)
  BY DEF Free
<1>3. /\ stack' \in Seq(Blocks) /\ Len(stack') = n - 1
      /\ \A i \in 1..(n - 1) : stack'[i] = stack[i]
  <2>1. n - 1 \in Nat /\ n - 1 <= Len(stack)
    BY <1>1
  <2>2. SubSeq(stack, 1, n - 1) = [i \in 1..(n - 1) |-> stack[i]]
    BY <1>1
  <2>3. \A i \in 1..(n - 1) : stack[i] \in Blocks
    BY <1>1
  <2>4. [i \in 1..(n - 1) |-> stack[i]] \in [1..(n - 1) -> Blocks]
    BY <2>3
  <2>5. /\ [i \in 1..(n - 1) |-> stack[i]] \in Seq(Blocks)
        /\ Len([i \in 1..(n - 1) |-> stack[i]]) = n - 1
    BY <2>1, <2>4
  <2> QED BY <1>2, <2>2, <2>5
<1>4. \A i \in 0..(n - 1) : HeightAfter(i)' = HeightAfter(i) /\ HeightAfter(i) \in Nat
  BY <1>1, <1>3, HeightType DEF HeightAfter
<1> QED BY <1>3, <1>4

\* Popping takes m_cur down by what the header records, never below the block.
LEMMA PopTypes ==
  ASSUME TypeInv, Free
  PROVE  /\ TypeInv' /\ m_cur' \in Nat /\ m_cur' >= stack[Len(stack)].lo
         /\ stack[Len(stack)].lo \in Nat
<1> DEFINE n   == Len(stack)
           top == stack[n]
<1>1. stack \in Seq(Blocks) /\ stack # <<>> /\ n \in Nat \ {0}
  BY DEF TypeInv, TypeOK, Free
<1>2. /\ m_cur' = top.ptr - top.padding
      /\ m_initialized' = m_initialized /\ status' = status
  BY DEF Free, Top
<1>3. top \in Blocks
  BY <1>1
<1>4. /\ top.ptr \in Nat /\ top.lo \in Nat /\ top.padding \in Nat
      /\ top.padding <= top.ptr - top.lo
  BY <1>1, <1>3 DEF Blocks, TypeInv, PaddingShort
<1> HIDE DEF top
<1>5. /\ stack' \in Seq(Blocks) /\ Len(stack') = n - 1
      /\ \A i \in 1..(n - 1) : stack'[i] = stack[i]
  BY PopFacts DEF TypeInv
<1>6. m_cur' \in Nat /\ m_cur' >= top.lo
  BY <1>2, <1>4
<1>7. TypeOK'
  BY <1>2, <1>5, <1>6 DEF TypeInv, TypeOK
<1>8. PaddingShort'
  BY <1>1, <1>5 DEF TypeInv, PaddingShort
<1> QED BY <1>4, <1>6, <1>7, <1>8 DEF TypeInv, top

\* Popping the last block keeps it, whatever padding its header still records.
LEMMA FreeInv ==
  ASSUME IInv, Free
  PROVE  IInv'
<1> DEFINE n  == Len(stack)
           lo == stack[n].lo
<1>1. stack \in Seq(Blocks) /\ stack # <<>> /\ n \in Nat \ {0}
  BY DEF IInv, TypeInv, TypeOK, Free
<1>2. lo >= HeightAfter(n - 1) /\ Start <= lo
  BY <1>1 DEF IInv, BlocksSound, Above
<1>3. TypeInv' /\ m_cur' \in Nat /\ m_cur' >= lo /\ lo \in Nat
  BY PopTypes DEF IInv
<1> HIDE DEF lo
<1>4. Len(stack') = n - 1 /\ \A i \in 1..(n - 1) : stack'[i] = stack[i]
  BY PopFacts DEF IInv, TypeInv
<1>5. \A i \in 0..(n - 1) : HeightAfter(i)' = HeightAfter(i) /\ HeightAfter(i) \in Nat
  BY PopFacts DEF IInv, TypeInv
<1>6. Above'
  <2>1. n - 1 \in 0..(n - 1)
    BY <1>1
  <2>2. HeightAfter(Len(stack))' = HeightAfter(n - 1) /\ HeightAfter(n - 1) \in Nat
    BY <1>4, <1>5, <2>1 DEF HeightAfter
  <2>3. m_cur' >= HeightAfter(n - 1) /\ m_cur' >= Start
    BY <1>2, <1>3, <2>2, StackAssumption
  <2>4. \A i \in 1..(n - 1) : Start <= stack'[i].lo
    BY <1>1, <1>4 DEF IInv, Above
  <2> QED BY <1>4, <2>2, <2>3, <2>4 DEF Above
<1>7. BlocksSound'
  <2> SUFFICES ASSUME NEW i \in 1..(n - 1)
               PROVE  /\ stack'[i].ptr % stack'[i].al = 0
                      /\ stack'[i].ptr >= stack'[i].lo + headerSize
                      /\ stack'[i].lo >= HeightAfter(i - 1)'
                      /\ stack'[i].ptr + stack'[i].sz <= m_end
    BY <1>4 DEF BlocksSound, m_end
  <2>1. stack'[i] = stack[i] /\ HeightAfter(i - 1)' = HeightAfter(i - 1)
    BY <1>1, <1>4, <1>5
  <2> QED BY <1>1, <2>1 DEF IInv, BlocksSound
<1> QED BY <1>3, <1>6, <1>7 DEF IInv

\* Zeroing the headers leaves the blocks where they are.
LEMMA ZeroMemTypes ==
  ASSUME TypeInv, ZeroMem
  PROVE  /\ TypeInv' /\ m_cur' = m_cur /\ Len(stack') = Len(stack)
         /\ \A i \in 1..Len(stack) : /\ stack'[i].ptr = stack[i].ptr /\ stack'[i].sz = stack[i].sz
                                     /\ stack'[i].al = stack[i].al /\ stack'[i].lo = stack[i].lo
<1> DEFINE n == Len(stack)
<1>1. stack \in Seq(Blocks) /\ n \in Nat
  BY DEF TypeInv, TypeOK
<1>2. /\ stack' = [i \in 1..n |-> [stack[i] EXCEPT !.padding = 0]]
      /\ m_cur' = m_cur /\ m_initialized' = m_initialized /\ status' \in {"ok", "undefined"}
  BY DEF ZeroMem
<1>3. \A i \in 1..n : /\ stack'[i] \in Blocks
                       /\ stack'[i].ptr = stack[i].ptr /\ stack'[i].sz = stack[i].sz
                       /\ stack'[i].al = stack[i].al /\ stack'[i].lo = stack[i].lo
                       /\ stack'[i].padding = 0
  <2>1. 0 \in 0..(PadMod - 1)
    BY StackAssumption
  <2> SUFFICES ASSUME NEW i \in 1..n
               PROVE  /\ stack'[i] \in Blocks
                      /\ stack'[i].ptr = stack[i].ptr /\ stack'[i].sz = stack[i].sz
                      /\ stack'[i].al = stack[i].al /\ stack'[i].lo = stack[i].lo
                      /\ stack'[i].padding = 0
    OBVIOUS
  <2>2. stack[i] \in Blocks
    BY <1>1
  <2>3. stack'[i] = [stack[i] EXCEPT !.padding = 0]
    BY <1>2
  <2> QED BY <2>1, <2>2, <2>3 DEF Blocks
<1>4. stack' \in Seq(Blocks) /\ Len(stack') = n
  BY <1>1, <1>2, <1>3
<1>5. TypeOK'
  BY <1>2, <1>4 DEF TypeInv, TypeOK
<1>6. ASSUME NEW i \in 1..n
      PROVE  /\ stack[i].ptr \in Nat /\ stack[i].lo \in Nat
             /\ stack[i].ptr >= stack[i].lo
  <2>1. stack[i] \in Blocks
    BY <1>1
  <2>2. stack[i].ptr \in Nat /\ stack[i].lo \in Nat /\ stack[i].padding \in Nat
    BY <2>1 DEF Blocks
  <2>3. stack[i].padding <= stack[i].ptr - stack[i].lo
    BY DEF TypeInv, PaddingShort
  <2> QED BY <2>2, <2>3
<1>7. PaddingShort'
  BY <1>3, <1>4, <1>6 DEF PaddingShort
<1> QED BY <1>2, <1>3, <1>4, <1>5, <1>7 DEF TypeInv

\* So the invariant is kept.
LEMMA ZeroMemInv ==
  ASSUME IInv, ZeroMem
  PROVE  IInv'
<1> DEFINE n == Len(stack)
<1>1. stack \in Seq(Blocks) /\ n \in Nat
  BY DEF IInv, TypeInv, TypeOK
<1>2. /\ TypeInv' /\ m_cur' = m_cur /\ Len(stack') = n
      /\ \A i \in 1..n : /\ stack'[i].ptr = stack[i].ptr /\ stack'[i].sz = stack[i].sz
                         /\ stack'[i].al = stack[i].al /\ stack'[i].lo = stack[i].lo
  BY ZeroMemTypes DEF IInv
<1>3. \A i \in 0..n : HeightAfter(i)' = HeightAfter(i)
  BY <1>1, <1>2 DEF HeightAfter
<1>4. Above'
  <2>1. HeightAfter(Len(stack))' = HeightAfter(n)
    BY <1>1, <1>2, <1>3 DEF HeightAfter
  <2>2. \A i \in 1..n : Start <= stack'[i].lo
    BY <1>2 DEF IInv, Above
  <2> QED BY <1>2, <2>1, <2>2 DEF IInv, Above
<1>5. BlocksSound'
  BY <1>1, <1>2, <1>3 DEF IInv, BlocksSound, m_end
<1> QED BY <1>2, <1>4, <1>5 DEF IInv

\* A stack with no blocks keeps it wherever m_cur is left.
LEMMA EmptiedTypes ==
  ASSUME TypeInv, Reset \/ Release \/ Destroy
  PROVE  TypeInv' /\ (stack' = <<>> \/ stack' = stack) /\ m_cur' \in {m_cur, Start}
<1>1. /\ m_cur' \in {m_cur, Start} /\ m_initialized' \in {m_initialized, FALSE}
      /\ status' \in {"ok", "undefined", "destroyed"}
      /\ stack' = <<>> \/ (stack' = stack /\ m_cur' = m_cur)
  BY DEF Reset, Release, Destroy
<1>2. m_cur' \in Nat /\ m_initialized' \in BOOLEAN
  <2>1. m_cur \in Nat /\ Start \in Nat /\ m_initialized \in BOOLEAN
    BY StackAssumption DEF TypeInv, TypeOK
  <2>2. m_cur' \in Nat
    BY <1>1, <2>1
  <2>3. m_initialized' \in BOOLEAN
    BY <1>1, <2>1, Zenon
  <2> QED BY <2>2, <2>3
<1>3. stack' \in Seq(Blocks)
  <2>1. <<>> \in Seq(Blocks) /\ stack \in Seq(Blocks)
    BY DEF TypeInv, TypeOK
  <2> QED BY <1>1, <2>1, Zenon
<1>4. TypeOK'
  BY <1>1, <1>2, <1>3 DEF TypeOK
<1>5. PaddingShort'
  <2>1. CASE stack' = <<>>
    BY <2>1 DEF PaddingShort
  <2>2. CASE stack' = stack
    BY <2>2 DEF TypeInv, PaddingShort
  <2> QED BY <1>1, <2>1, <2>2
<1> QED BY <1>1, <1>4, <1>5 DEF TypeInv

\* And the invariant.
LEMMA EmptiedInv ==
  ASSUME IInv, Reset \/ Release \/ Destroy
  PROVE  IInv'
<1>1. TypeInv' /\ m_cur' \in {m_cur, Start} /\ m_cur \in Nat /\ Start \in Nat
  BY EmptiedTypes, StackAssumption DEF IInv, TypeInv, TypeOK
<1>2. m_cur' >= Start
  BY <1>1 DEF IInv, Above
<1>3. CASE stack' = <<>>
  BY <1>1, <1>2, <1>3 DEF IInv, Above, BlocksSound, HeightAfter
<1>4. CASE stack' = stack /\ m_cur' = m_cur
  BY <1>1, <1>4 DEF IInv, Above, BlocksSound, HeightAfter, m_end
<1> QED BY <1>3, <1>4 DEF Reset, Release, Destroy

\* A step that keeps the blocks and m_cur keeps the types.
LEMMA StayTypes ==
  ASSUME TypeInv,
         (\E sz \in Sizes, al \in Aligns : AllocFull(sz, al)) \/ UNCHANGED vars
  PROVE  TypeInv' /\ stack' = stack /\ m_cur' = m_cur
BY DEF AllocFull, vars, TypeInv, TypeOK, PaddingShort

\* Every step keeps the types.
LEMMA NextTypes == TypeInv /\ [Next]_vars => TypeInv'
<1> SUFFICES ASSUME TypeInv, [Next]_vars PROVE TypeInv'
  OBVIOUS
<1>1. ASSUME NEW sz \in Sizes, NEW al \in Aligns, Alloc(sz, al) PROVE TypeInv'
  BY <1>1, PushFacts
<1>2. ASSUME NEW sz \in Sizes, NEW al \in Aligns, AllocFull(sz, al) PROVE TypeInv'
  BY <1>2, StayTypes
<1>3. CASE Free
  BY <1>3, PopTypes
<1>4. CASE Reset \/ Release \/ Destroy
  BY <1>4, EmptiedTypes
<1>5. CASE ZeroMem
  BY <1>5, ZeroMemTypes
<1>6. CASE UNCHANGED vars
  BY <1>6, StayTypes
<1> QED BY <1>1, <1>2, <1>3, <1>4, <1>5, <1>6 DEF Next, CoreNext

\* Every step keeps the invariant.
LEMMA NextInv == IInv /\ [Next]_vars => IInv'
<1> SUFFICES ASSUME IInv, [Next]_vars PROVE IInv'
  OBVIOUS
<1>1. ASSUME NEW sz \in Sizes, NEW al \in Aligns, Alloc(sz, al) PROVE IInv'
  BY <1>1, AllocInv
<1>2. ASSUME (\E sz \in Sizes, al \in Aligns : AllocFull(sz, al)) \/ UNCHANGED vars PROVE IInv'
  <2>1. TypeInv' /\ stack' = stack /\ m_cur' = m_cur
    BY <1>2, StayTypes DEF IInv
  <2>2. Above' /\ BlocksSound'
    BY <2>1 DEF IInv, Above, BlocksSound, HeightAfter, m_end
  <2> QED BY <2>1, <2>2 DEF IInv
<1>3. CASE Free
  BY <1>3, FreeInv
<1>4. CASE Reset \/ Release \/ Destroy
  BY <1>4, EmptiedInv
<1>5. CASE ZeroMem
  BY <1>5, ZeroMemInv
<1> QED BY <1>1, <1>2, <1>3, <1>4, <1>5 DEF Next, CoreNext

\* Whichever constructor ran, whatever it left in m_cur and whatever the headers
\* have come to hold: Free never takes m_cur below zero.
THEOREM StackTypeCorrect == Spec => []TypeOK
<1>1. Init => TypeInv
  BY StackAssumption DEF Init, TypeInv, TypeOK, PaddingShort
<1>2. TypeInv => TypeOK
  BY DEF TypeInv
<1> QED BY <1>1, <1>2, NextTypes, PTL DEF Spec

\* Whatever a client allocates, pops, zeroes, resets or releases, every block it
\* holds is aligned, inside the buffer, above its header and above the end of
\* the block under it: a header that lost its padding can leak, never overlap.
THEOREM StackSound ==
  ASSUME ~PreAlloc
  PROVE  Spec => []BlocksSound
<1>1. Init => IInv
  BY InitInv
<1>2. IInv /\ [Next]_vars => IInv'
  BY NextInv
<1>3. IInv => BlocksSound
  BY DEF IInv
<1> QED BY <1>1, <1>2, <1>3, PTL DEF Spec

-----------------------------------------------------------------------------
\* The headers are as the pushes left them, and each block was pushed where the
\* one under it ends.
Exact ==
  /\ Usable => m_cur = HeightAfter(Len(stack))
  /\ \A i \in 1..Len(stack) :
       stack[i].padding = stack[i].ptr - stack[i].lo /\ stack[i].lo = HeightAfter(i - 1)

\* A push whose padding fits its header keeps them so.
LEMMA AllocExact ==
  ASSUME IInv, Exact, NEW sz \in Sizes, NEW al \in Aligns, al < PadMod, Alloc(sz, al)
  PROVE  Exact'
<1> DEFINE p   == PaddingFor(al)
           new == [ptr |-> m_cur + p, sz |-> sz, al |-> al, lo |-> m_cur,
                   padding |-> p % PadMod]
           n   == Len(stack)
<1>1. m_cur \in Nat /\ stack \in Seq(Blocks) /\ n \in Nat /\ al \in Nat /\ PadMod \in Nat
  BY StackAssumption DEF IInv, TypeInv, TypeOK
<1>2. p \in Nat /\ sz \in Nat /\ p < 1 + al /\ (p < PadMod => p % PadMod = p) /\ new \in Blocks
  BY AllocFacts DEF IInv, TypeInv
<1>3. p % PadMod = p
  BY <1>1, <1>2
<1>4. m_cur' = m_cur + p + sz /\ stack' = Append(stack, new) /\ Usable
  BY DEF Alloc
<1> HIDE DEF p
<1>5. /\ new.ptr = m_cur + p /\ new.sz = sz /\ new.lo = m_cur /\ new.padding = p
  BY <1>3
<1> HIDE DEF new
<1>6. /\ Len(stack') = n + 1 /\ stack'[n + 1] = new
      /\ \A i \in 1..n : stack'[i] = stack[i]
  BY <1>1, <1>2, <1>4
<1>7. \A i \in 0..n : HeightAfter(i)' = HeightAfter(i)
  BY <1>1, <1>6 DEF HeightAfter
<1>8. m_cur' = HeightAfter(Len(stack))'
  BY <1>1, <1>2, <1>4, <1>5, <1>6 DEF HeightAfter
<1>9. ASSUME NEW i \in 1..(n + 1)
      PROVE  /\ stack'[i].padding = stack'[i].ptr - stack'[i].lo
             /\ stack'[i].lo = HeightAfter(i - 1)'
  <2>1. CASE i = n + 1
    BY <1>1, <1>2, <1>4, <1>5, <1>6, <1>7, <2>1 DEF Exact
  <2>2. CASE i \in 1..n
    <3>1. stack'[i] = stack[i] /\ HeightAfter(i - 1)' = HeightAfter(i - 1)
      BY <1>1, <1>6, <1>7, <2>2
    <3> QED BY <2>2, <3>1 DEF Exact
  <2> QED BY <1>1, <2>1, <2>2
<1> QED BY <1>6, <1>8, <1>9 DEF Exact

\* So does a pop: the padding in the header leads back to where the block began.
LEMMA FreeExact ==
  ASSUME IInv, Exact, Free
  PROVE  Exact'
<1> DEFINE n   == Len(stack)
           top == stack[n]
<1>1. n \in Nat \ {0} /\ top \in Blocks
  BY DEF IInv, TypeInv, TypeOK, Free
<1>2. m_cur' = top.ptr - top.padding
  BY DEF Free, Top
<1>3. /\ top.ptr \in Int /\ top.lo \in Int
      /\ top.padding = top.ptr - top.lo /\ top.lo = HeightAfter(n - 1)
  BY <1>1 DEF Exact, Blocks
<1> HIDE DEF top
<1>4. m_cur' = HeightAfter(n - 1)
  BY <1>2, <1>3
<1>5. /\ Len(stack') = n - 1
      /\ \A i \in 1..(n - 1) : stack'[i] = stack[i]
      /\ \A i \in 0..(n - 1) : HeightAfter(i)' = HeightAfter(i)
  BY PopFacts DEF IInv, TypeInv
<1>6. m_cur' = HeightAfter(Len(stack))'
  <2>1. n - 1 \in 0..(n - 1)
    BY <1>1
  <2> QED BY <1>4, <1>5, <2>1 DEF HeightAfter
<1>7. ASSUME NEW i \in 1..(n - 1)
      PROVE  /\ stack'[i].padding = stack'[i].ptr - stack'[i].lo
             /\ stack'[i].lo = HeightAfter(i - 1)'
  <2>1. stack'[i] = stack[i] /\ HeightAfter(i - 1)' = HeightAfter(i - 1)
    BY <1>1, <1>5
  <2> QED BY <1>1, <2>1 DEF Exact
<1> QED BY <1>5, <1>6, <1>7 DEF Exact

\* When every alignment fits in the byte of the header and nobody zeroes it,
\* the blocks tile the buffer: popping gives back all that pushing took.
THEOREM StackTiled ==
  ASSUME ~PreAlloc, \A al \in Aligns : al < PadMod
  PROVE  CoreSpec => []Tiled
<1>1. Init => IInv /\ Exact
  <2>1. ASSUME Init PROVE Exact
    BY <2>1 DEF Init, Exact, HeightAfter
  <2> QED BY <2>1, InitInv
<1>2. IInv /\ Exact /\ [CoreNext]_vars => IInv' /\ Exact'
  <2> SUFFICES ASSUME IInv, Exact, [CoreNext]_vars PROVE IInv' /\ Exact'
    OBVIOUS
  <2>1. IInv'
    BY NextInv DEF Next
  <2>2. ASSUME NEW sz \in Sizes, NEW al \in Aligns, Alloc(sz, al) PROVE Exact'
    BY <2>2, AllocExact
  <2>3. ASSUME NEW sz \in Sizes, NEW al \in Aligns, AllocFull(sz, al) PROVE Exact'
    BY <2>3 DEF AllocFull, Exact, HeightAfter, Usable
  <2>4. ASSUME Free PROVE Exact'
    BY <2>4, FreeExact
  <2>5. ASSUME Reset PROVE Exact'
    BY <2>5 DEF Reset, Exact, HeightAfter
  <2>6. ASSUME Release \/ Destroy PROVE Exact'
    BY <2>6 DEF Release, Destroy, Exact, HeightAfter, Usable
  <2>7. ASSUME UNCHANGED vars PROVE Exact'
    BY <2>7 DEF vars, Exact, HeightAfter, Usable
  <2> QED BY <2>1, <2>2, <2>3, <2>4, <2>5, <2>6, <2>7 DEF CoreNext
<1>3. Exact => Tiled
  BY DEF Exact, Tiled
<1> QED BY <1>1, <1>2, <1>3, PTL DEF CoreSpec

=============================================================================
