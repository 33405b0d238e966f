----------------------------- MODULE PoolProofs -----------------------------
(***************************************************************************)
(* Proofs about PoolAllocator, for every buffer and page size: types hold    *)
(* for any client, and pages are handed out once at a time as long as every *)
(* alignment asked for divides the page size and the buffer's address.      *)
(***************************************************************************)
EXTENDS PoolAllocator, MemLayoutProofs

\* The constants as numbers, and the pages as multiples.
LEMMA Numbers ==
  /\ Start \in Nat \ {0} /\ Size \in Nat \ {0} /\ PgSz \in Nat \ {0} /\ NPages \in Nat \ {0}
  /\ Size = PgSz * NPages /\ m_end \in Nat
<1>1. PgSz \in Nat \ {0} /\ Size \in Nat \ {0} /\ Size % PgSz = 0 /\ Start \in Nat /\ Start >= PgSz
  BY PoolAssumption
<1>2. /\ Size \div PgSz \in Nat
      /\ Size = PgSz * (Size \div PgSz) + (Size % PgSz)
  BY <1>1, DivisionFacts
<1> DEFINE n == Size \div PgSz
<1>3. n \in Nat /\ Size = PgSz * n
  BY <1>1, <1>2
<1> HIDE DEF n
<1>4. n # 0
  BY <1>1, <1>3
<1>5. NPages = n
  BY DEF NPages, n
<1> QED BY <1>1, <1>3, <1>4, <1>5 DEF m_end

\* The k-th page of the pool starts k page sizes above Start.
LEMMA PageNumber ==
  ASSUME NEW k \in 0..(NPages - 1)
  PROVE  /\ Start + k * PgSz \in PageStarts
         /\ Start + k * PgSz + PgSz <= m_end
<1>1. k \in Nat /\ k + 1 <= NPages /\ k * PgSz \in Nat
  BY Numbers
<1>2. (k + 1) * PgSz <= NPages * PgSz
  BY <1>1, Numbers
<1>3. k * PgSz + PgSz <= Size
  BY <1>1, <1>2, Numbers
<1>4. Start + k * PgSz \in Arena
  BY <1>1, <1>3, Numbers DEF Arena, m_end
<1>5. (PgSz * k + 0) % PgSz = 0
  BY <1>1, Numbers, ModUnique, 0 \in 0..(PgSz - 1)
<1>6. (Start + k * PgSz) - Start = PgSz * k + 0
  BY <1>1, Numbers
<1> QED BY <1>3, <1>4, <1>5, <1>6, Numbers DEF PageStarts, m_end

\* Every page is the k-th one for some k.
LEMMA NumberOfPage ==
  ASSUME NEW a \in PageStarts
  PROVE  \E k \in 0..(NPages - 1) : a = Start + k * PgSz
<1>1. a \in Nat /\ a - Start \in Nat /\ (a - Start) % PgSz = 0 /\ a < m_end
  BY Numbers DEF PageStarts, Arena
<1> DEFINE k == (a - Start) \div PgSz
<1>2. k \in Nat /\ a - Start = PgSz * k + 0
  BY <1>1, Numbers, DivisionFacts
<1> HIDE DEF k
<1>3. a = Start + k * PgSz
  BY <1>1, <1>2, Numbers
<1>4. PgSz * k < PgSz * NPages
  BY <1>1, <1>2, Numbers DEF m_end
<1>5. k < NPages
  BY <1>2, <1>4, Numbers
<1> QED BY <1>2, <1>3, <1>5, Numbers

\* The page boundary below an address of the buffer is in the buffer.
LEMMA BoundaryInArena ==
  ASSUME TypeOK, m_pgSize > 0, NEW a \in Arena
  PROVE  BoundaryBelow(a) \in Arena
<1>1. a \in Nat /\ a - Start \in Nat /\ m_pgSize \in Nat \ {0}
  BY Numbers DEF Arena, TypeOK
<1> DEFINE q == (a - Start) \div m_pgSize
           r == (a - Start) % m_pgSize
<1>2. q \in Nat /\ r \in 0..(m_pgSize - 1) /\ a - Start = m_pgSize * q + r
  BY <1>1, DivisionFacts
<1>3. BoundaryBelow(a) = q * m_pgSize + Start
  BY DEF BoundaryBelow
<1> HIDE DEF q, r
<1>4. q * m_pgSize = m_pgSize * q /\ m_pgSize * q \in Nat
  BY <1>1, <1>2
<1> QED BY <1>1, <1>2, <1>3, <1>4, Numbers DEF Arena

\* Two pages do not overlap.
LEMMA PagesApart ==
  ASSUME NEW a \in PageStarts, NEW b \in PageStarts, a # b
  PROVE  a + PgSz <= b \/ b + PgSz <= a
<1>1. PICK j \in 0..(NPages - 1) : a = Start + j * PgSz
  BY NumberOfPage
<1>2. PICK k \in 0..(NPages - 1) : b = Start + k * PgSz
  BY NumberOfPage
<1>3. j \in Nat /\ k \in Nat /\ j # k
  BY <1>1, <1>2, Numbers
<1>4. CASE j + 1 <= k
  <2>1. (j + 1) * PgSz <= k * PgSz /\ (j + 1) * PgSz = j * PgSz + PgSz
    BY <1>3, <1>4, Numbers
  <2>2. j * PgSz \in Nat /\ k * PgSz \in Nat
    BY <1>3, Numbers
  <2> QED BY <1>1, <1>2, <2>1, <2>2, Numbers
<1>5. CASE k + 1 <= j
  <2>1. (k + 1) * PgSz <= j * PgSz /\ (k + 1) * PgSz = k * PgSz + PgSz
    BY <1>3, <1>5, Numbers
  <2>2. j * PgSz \in Nat /\ k * PgSz \in Nat
    BY <1>3, Numbers
  <2> QED BY <1>1, <1>2, <2>1, <2>2, Numbers
<1> QED BY <1>3, <1>4, <1>5

\* The pages in the order buildLinkedList leaves them in: all of them, each once.
LEMMA AllPagesFacts ==
  /\ AllPages \in Seq(Arena) /\ Len(AllPages) = NPages
  /\ \A i \in 1..NPages : AllPages[i] = Start + (NPages - i) * PgSz /\ AllPages[i] \in PageStarts
  /\ \A i, j \in 1..NPages : i # j => AllPages[i] # AllPages[j]
  /\ {AllPages[i] : i \in 1..NPages} = PageStarts
<1>1. ASSUME NEW i \in 1..NPages
      PROVE  AllPages[i] = Start + (NPages - i) * PgSz /\ AllPages[i] \in PageStarts
  <2>1. NPages - i \in 0..(NPages - 1)
    BY Numbers
  <2> QED BY <2>1, PageNumber DEF AllPages
<1>2. AllPages \in [1..NPages -> Arena]
  BY <1>1 DEF AllPages, PageStarts
<1>3. AllPages \in Seq(Arena) /\ Len(AllPages) = NPages
  BY <1>2, Numbers DEF AllPages
<1>4. ASSUME NEW i \in 1..NPages, NEW j \in 1..NPages, i < j
      PROVE  AllPages[i] # AllPages[j]
  <2>1. NPages - j + 1 <= NPages - i /\ NPages - i \in Nat /\ NPages - j \in Nat
    BY <1>4, Numbers
  <2>2. (NPages - j + 1) * PgSz <= (NPages - i) * PgSz
    BY <2>1, Numbers
  <2>3. (NPages - j + 1) * PgSz = (NPages - j) * PgSz + PgSz
    BY <2>1, Numbers
  <2>4. (NPages - j) * PgSz \in Nat /\ (NPages - i) * PgSz \in Nat
    BY <2>1, Numbers
  <2> QED BY <1>1, <2>2, <2>3, <2>4, Numbers
<1>5. ASSUME NEW a \in PageStarts
      PROVE  \E i \in 1..NPages : AllPages[i] = a
  <2>1. PICK k \in 0..(NPages - 1) : a = Start + k * PgSz
    BY NumberOfPage
  <2>2. NPages - k \in 1..NPages /\ NPages - (NPages - k) = k
    BY Numbers
  <2>3. AllPages[NPages - k] = Start + (NPages - (NPages - k)) * PgSz
    BY <1>1, <2>2
  <2> QED BY <2>1, <2>2, <2>3
<1>6. \A i, j \in 1..NPages : i # j => AllPages[i] # AllPages[j]
  <2>1. \A i, j \in 1..NPages : i # j => i < j \/ j < i
    BY Numbers
  <2> QED BY <1>4, <2>1
<1> QED BY <1>1, <1>3, <1>5, <1>6

\* What buildLinkedList writes, whatever the buffer held.
LEMMA FreshList ==
  ASSUME NEW m \in [Arena -> Arena \cup {NULL, Junk}]
  PROVE  /\ BuildLinkedList(m, PgSz) \in [Arena -> Arena \cup {NULL, Junk}]
         /\ \A i \in 1..NPages : BuildLinkedList(m, PgSz)[AllPages[i]]
                                   = IF i = 1 THEN NULL ELSE AllPages[i - 1]
         /\ AllPages[NPages] = Start
<1>1. ASSUME NEW a \in Arena, a \in Linked(PgSz) PROVE a + PgSz \in Arena
  BY <1>1, Numbers DEF Linked, Arena
<1>2. BuildLinkedList(m, PgSz) \in [Arena -> Arena \cup {NULL, Junk}]
  BY <1>1 DEF BuildLinkedList
<1>3. (NPages - 1) * PgSz = NPages * PgSz - PgSz
  BY Numbers
<1>4. AllPages[1] = m_end - PgSz /\ AllPages[1] \in Arena
  <2>1. 1 \in 1..NPages
    BY Numbers
  <2> QED BY <2>1, AllPagesFacts, <1>3, Numbers DEF m_end, PageStarts
<1>5. ASSUME NEW i \in 1..NPages, i # 1
      PROVE  BuildLinkedList(m, PgSz)[AllPages[i]] = AllPages[i - 1]
  <2> DEFINE k == NPages - i
  <2>1. k \in Nat /\ i - 1 \in 1..NPages /\ NPages - (i - 1) = k + 1 /\ k + 1 <= NPages - 1
    BY <1>5, Numbers
  <2>2. AllPages[i] = Start + k * PgSz /\ AllPages[i] \in PageStarts
    BY AllPagesFacts
  <2>3. AllPages[i - 1] = Start + (k + 1) * PgSz
    BY <2>1, AllPagesFacts
  <2> HIDE DEF k
  <2>4. (k + 1) * PgSz = k * PgSz + PgSz /\ k * PgSz \in Nat
    BY <2>1, Numbers
  <2>5. (k + 1) * PgSz <= (NPages - 1) * PgSz
    BY <2>1, Numbers
  <2>6. AllPages[i] <= m_end - 2 * PgSz
    BY <1>3, <2>2, <2>4, <2>5, Numbers DEF m_end
  <2>7. AllPages[i] \in Linked(PgSz) /\ AllPages[i] # m_end - PgSz /\ AllPages[i] \in Arena
    BY <2>2, <2>6, Numbers DEF Linked, PageStarts, Arena
  <2> QED BY <2>2, <2>3, <2>4, <2>7, Numbers DEF BuildLinkedList
<1>6. AllPages[NPages] = Start
  <2>1. NPages \in 1..NPages /\ (NPages - NPages) * PgSz = 0
    BY Numbers
  <2> QED BY <2>1, AllPagesFacts, Numbers
<1>7. BuildLinkedList(m, PgSz)[AllPages[1]] = NULL
  BY <1>4 DEF BuildLinkedList
<1> QED BY <1>2, <1>5, <1>6, <1>7

-----------------------------------------------------------------------------
\* Popping and pushing a sequence.
LEMMA PopPush ==
  ASSUME NEW S, NEW s \in Seq(S)
  PROVE  /\ s # <<>> => /\ Pop(s) \in Seq(S) /\ Len(Pop(s)) = Len(s) - 1
                        /\ \A i \in 1..(Len(s) - 1) : Pop(s)[i] = s[i]
         /\ s = <<>> => Pop(s) = <<>>
         /\ \A x \in S : /\ Append(s, x) \in Seq(S) /\ Len(Append(s, x)) = Len(s) + 1
                         /\ Append(s, x)[Len(s) + 1] = x
                         /\ \A i \in 1..Len(s) : Append(s, x)[i] = s[i]
<1>1. CASE s # <<>>
  <2>1. Len(s) \in Nat \ {0}
    BY <1>1
  <2>2. Pop(s) = [i \in 1..(Len(s) - 1) |-> s[i]]
    <3>1. Pop(s) = [i \in 1..(Len(s) - 1 - 1 + 1) |-> s[1 + i - 1]]
      BY <2>1 DEF Pop
    <3>2. Len(s) - 1 - 1 + 1 = Len(s) - 1 /\ \A i \in 1..(Len(s) - 1) : 1 + i - 1 = i
      BY <2>1
    <3> QED BY <3>1, <3>2
  <2> QED BY <1>1, <2>1, <2>2
<1>2. CASE s = <<>>
  BY <1>2 DEF Pop
<1>3. ASSUME NEW x \in S
      PROVE  /\ Append(s, x) \in Seq(S) /\ Len(Append(s, x)) = Len(s) + 1
             /\ Append(s, x)[Len(s) + 1] = x
             /\ \A i \in 1..Len(s) : Append(s, x)[i] = s[i]
  OBVIOUS
<1> QED BY <1>1, <1>2, <1>3

\* Types hold after every step, whatever the alignments asked for.
LEMMA NextType == TypeOK /\ [Next]_vars => TypeOK'
<1> SUFFICES ASSUME TypeOK, [Next]_vars PROVE TypeOK'
  OBVIOUS
<1> USE DEF TypeOK
<1>1. ASSUME NEW sz \in Sizes, NEW al \in Aligns, Alloc(sz, al) PROVE TypeOK'
  <2> DEFINE ptr == AlignUp(m_llStart, al)
  <2>1. /\ m_llStart \in Arena /\ ptr \in Arena /\ mem[ptr] # Junk
        /\ AlignFits(sz, al) /\ m_llStart' = mem[ptr] /\ m_pgSize' = m_pgSize - (ptr - m_llStart)
        /\ mem' = Overwritten(ptr, sz) /\ stack' = Pop(stack)
        /\ held' = held \cup {[ptr |-> ptr, sz |-> sz, al |-> al, page |-> m_llStart]}
        /\ UNCHANGED <<m_initialized, lost, status>>
    BY <1>1 DEF Alloc, CanAlloc
  <2>2. m_llStart \in Nat /\ al \in Nat \ {0} /\ sz \in Nat
    BY <2>1, PoolAssumption, Numbers DEF Arena
  <2>3. m_llStart <= ptr /\ ptr \in Nat
    BY <2>2, AlignUpLeast
  <2>4. ptr + sz <= m_llStart + m_pgSize
    BY <2>1 DEF AlignFits
  <2> HIDE DEF ptr
  <2>5. m_pgSize' \in 0..PgSz
    BY <2>1, <2>2, <2>3, <2>4, Numbers
  <2>6. m_llStart' \in Arena \cup {NULL}
    BY <2>1
  <2>7. mem' \in [Arena -> Arena \cup {NULL, Junk}]
    BY <2>1 DEF Overwritten
  <2>8. stack' \in Seq(Arena)
    BY <2>1, PopPush
  <2>9. held' \subseteq [ptr : Arena, sz : Sizes, al : Aligns, page : Arena]
    BY <2>1
  <2> QED BY <2>1, <2>5, <2>6, <2>7, <2>8, <2>9
<1>2. ASSUME NEW b \in held, Free(b) PROVE TypeOK'
  <2>1. b.ptr \in Arena /\ m_pgSize > 0
    BY <1>2 DEF Free
  <2>2. BoundaryBelow(b.ptr) \in Arena
    BY <2>1, BoundaryInArena
  <2>3. Append(stack, BoundaryBelow(b.ptr)) \in Seq(Arena)
    BY <2>2, PopPush
  <2>4. /\ mem' = [mem EXCEPT ![BoundaryBelow(b.ptr)] = m_llStart]
        /\ m_llStart' = BoundaryBelow(b.ptr) /\ held' = held \ {b}
        /\ stack' = IF Unshifted THEN Append(stack, BoundaryBelow(b.ptr)) ELSE stack
        /\ UNCHANGED <<m_pgSize, m_initialized, lost, status>>
    BY <1>2 DEF Free
  <2> QED BY <2>2, <2>3, <2>4
<1>3. CASE Reset
  <2>1. CASE m_initialized /\ m_pgSize > 0
    <3>1. BuildLinkedList(mem, m_pgSize) \in [Arena -> Arena \cup {NULL, Junk}]
      <4>1. ASSUME NEW a \in Linked(m_pgSize) PROVE a + m_pgSize \in Arena
        BY <2>1, Numbers DEF Linked, Arena
      <4> QED BY <4>1 DEF BuildLinkedList
    <3>2. Start \in Arena
      BY Numbers DEF Arena, m_end
    <3> QED BY <1>3, <2>1, <3>1, <3>2, AllPagesFacts DEF Reset
  <2>2. CASE ~(m_initialized /\ m_pgSize > 0)
    BY <1>3, <2>2 DEF Reset
  <2> QED BY <2>1, <2>2
<1>4. CASE ZeroMem /\ ~m_initialized
  BY <1>4 DEF ZeroMem
<1>5. CASE ZeroMem /\ m_initialized
  <2>1. <<>> \in Seq(Arena) /\ (m_llStart \in Arena => <<m_llStart>> \in Seq(Arena))
    OBVIOUS
  <2>2. stack' \in Seq(Arena)
    BY <1>5, <2>1 DEF ZeroMem
  <2>3. Pages \subseteq Arena
    BY DEF Pages
  <2>4. mem' \in [Arena -> Arena \cup {NULL, Junk}]
    BY <1>5 DEF ZeroMem, NULL
  <2> QED BY <1>5, <2>2, <2>3, <2>4 DEF ZeroMem
<1>6. ASSUME NEW sz \in Sizes, NEW al \in Aligns, AllocAborts(sz, al) \/ AllocReadsJunk(sz, al)
      PROVE  TypeOK'
  BY <1>6 DEF AllocAborts, AllocReadsJunk
<1>7. CASE FreeFaults \/ Release \/ Destroy
  BY <1>7 DEF FreeFaults, Release, Destroy
<1>8. CASE UNCHANGED vars
  BY <1>8 DEF vars
<1> QED BY <1>1, <1>2, <1>3, <1>4, <1>5, <1>6, <1>7, <1>8 DEF Next

\* For any client, alignments that pages do not have included, every variable keeps
\* its type: no link ever leads out of the buffer.
THEOREM PoolTypeCorrect == Spec => []TypeOK
<1>1. Init => TypeOK
  <2> SUFFICES ASSUME Init PROVE TypeOK
    OBVIOUS
  <2>1. [a \in Arena |-> Junk] \in [Arena -> Arena \cup {NULL, Junk}]
    OBVIOUS
  <2>2. mem \in [Arena -> Arena \cup {NULL, Junk}]
    BY <2>1, FreshList DEF Init
  <2>3. Start \in Arena /\ PgSz \in 0..PgSz
    BY Numbers DEF Arena, m_end
  <2> QED BY <2>2, <2>3, AllPagesFacts DEF Init, TypeOK
<1> QED BY <1>1, NextType, PTL DEF Spec

-----------------------------------------------------------------------------
\* Clients ask for alignments every page has.
AlignsFit == \A al \in Aligns : PgSz % al = 0 /\ Start % al = 0

\* The properties of the run, and that m_pgSize is what it was.
IInv == TypeOK /\ Unshifted /\ FreeList /\ PagesAccounted /\ BlocksSound

\* std::align has nothing to do at the start of a page.
LEMMA PagesAligned ==
  ASSUME AlignsFit, NEW al \in Aligns, NEW a \in PageStarts
  PROVE  a % al = 0 /\ AlignUp(a, al) = a
<1>1. al \in Nat \ {0} /\ PgSz % al = 0 /\ Start % al = 0 /\ a \in Nat
  BY PoolAssumption, Numbers DEF AlignsFit, PageStarts, Arena
<1>2. PICK k \in 0..(NPages - 1) : a = Start + k * PgSz
  BY NumberOfPage
<1> DEFINE s == Start \div al
           p == PgSz \div al
<1>3. s \in Nat /\ Start = al * s + 0 /\ p \in Nat /\ PgSz = al * p + 0
  <2>1. s \in Nat /\ Start = al * s + (Start % al)
    BY <1>1, Numbers, DivisionFacts
  <2>2. p \in Nat /\ PgSz = al * p + (PgSz % al)
    BY <1>1, Numbers, DivisionFacts
  <2> QED BY <1>1, <2>1, <2>2
<1> HIDE DEF s, p
<1>4. k \in Nat
  BY Numbers
<1>5. a = al * (s + k * p) + 0 /\ s + k * p \in Nat
  <2>1. k * PgSz = al * (k * p) /\ k * p \in Nat
    BY <1>1, <1>3, <1>4
  <2> DEFINE m == k * p
  <2>2. m \in Nat /\ k * PgSz = al * m
    BY <2>1
  <2> HIDE DEF m
  <2>3. a = al * (s + m) + 0
    BY <1>1, <1>2, <1>3, <2>2
  <2> QED BY <1>3, <2>2, <2>3 DEF m
<1> DEFINE q == s + k * p
<1>6. q \in Nat /\ a = al * q + 0
  BY <1>5
<1> HIDE DEF q
<1>7. a % al = 0
  BY <1>1, <1>6, ModUnique, 0 \in 0..(al - 1)
<1>8. /\ AlignUp(a, al) \in Nat /\ AlignUp(a, al) % al = 0
      /\ a <= AlignUp(a, al) /\ AlignUp(a, al) < a + al
  BY <1>1, AlignUpLeast
<1> DEFINE up == AlignUp(a, al)
           u == up \div al
<1>9. u \in Nat /\ up = al * u + 0
  BY <1>1, <1>8, DivisionFacts
<1> HIDE DEF up, u
<1>10. up = a
  <2>1. al * q <= al * u /\ al * u < al * (q + 1)
    BY <1>1, <1>6, <1>8, <1>9 DEF up
  <2>2. q <= u /\ u < q + 1
    BY <1>1, <1>6, <1>9, <2>1
  <2>3. q = u
    BY <1>6, <1>9, <2>2
  <2> QED BY <1>6, <1>9, <2>3
<1> QED BY <1>7, <1>10 DEF up

\* The head of a list that is not empty is the last page of the history.
LEMMA HeadIsFree ==
  ASSUME IInv, CanAlloc
  PROVE  /\ stack # <<>> /\ Len(stack) \in Nat \ {0}
         /\ m_llStart = stack[Len(stack)] /\ m_llStart \in Pages
         /\ m_llStart \in PageStarts /\ m_llStart \notin HeldPages /\ m_llStart \notin lost
<1>1. Usable /\ Unshifted /\ m_llStart # NULL /\ FreeList /\ PagesAccounted /\ TypeOK
  BY DEF IInv, CanAlloc
<1>2. stack # <<>>
  BY <1>1 DEF FreeList
<1>3. Len(stack) \in Nat \ {0}
  BY <1>1, <1>2 DEF TypeOK
<1>4. m_llStart = stack[Len(stack)] /\ m_llStart \in Pages
  BY <1>1, <1>2, <1>3 DEF FreeList, Pages
<1> QED BY <1>1, <1>2, <1>3, <1>4 DEF PagesAccounted

\* An allocation takes the page at the head of the list and nothing else.
LEMMA AllocKeeps ==
  ASSUME IInv, TypeOK', AlignsFit, NEW sz \in Sizes, NEW al \in Aligns, Alloc(sz, al)
  PROVE  IInv'
<1> DEFINE page == m_llStart
           n == Len(stack)
           b == [ptr |-> page, sz |-> sz, al |-> al, page |-> page]
<1>1. /\ CanAlloc /\ Usable /\ Unshifted /\ TypeOK /\ FreeList /\ PagesAccounted /\ BlocksSound
  BY DEF IInv, Alloc, CanAlloc
<1>2. /\ stack # <<>> /\ n \in Nat \ {0} /\ page = stack[n] /\ page \in Pages
      /\ page \in PageStarts /\ page \notin HeldPages /\ page \notin lost
  BY <1>1, HeadIsFree
<1>3. page % al = 0 /\ AlignUp(m_llStart, al) = page
  BY <1>2, PagesAligned
<1>4. page \in Nat /\ sz \in Nat
  BY <1>2, PoolAssumption, Numbers DEF PageStarts, Arena
<1>5. /\ m_llStart' = mem[page] /\ m_pgSize' = m_pgSize - (page - page)
      /\ mem' = Overwritten(page, sz) /\ held' = held \cup {b} /\ stack' = Pop(stack)
      /\ UNCHANGED <<m_initialized, lost, status>>
      /\ page + sz <= page + m_pgSize
  BY <1>3 DEF Alloc, AlignFits
<1>6. Unshifted' /\ sz <= PgSz
  BY <1>1, <1>4, <1>5, Numbers DEF Unshifted
<1>7. /\ stack' \in Seq(Arena) /\ Len(stack') = n - 1
      /\ \A i \in 1..(n - 1) : stack'[i] = stack[i]
  BY <1>1, <1>2, <1>5, PopPush DEF TypeOK
<1>8. \A i \in 1..n : stack[i] \in PageStarts
  BY <1>1 DEF PagesAccounted, Pages
<1>9. \A i, j \in 1..n : i # j => stack[i] # stack[j]
  BY <1>1 DEF FreeList
<1>10. \A i \in 1..(n - 1) : stack[i] # page
  BY <1>2, <1>9
<1>11. ASSUME NEW i \in 1..(n - 1) PROVE mem'[stack[i]] = mem[stack[i]]
  <2>1. stack[i] \in PageStarts /\ stack[i] # page
    BY <1>2, <1>8, <1>10
  <2>2. stack[i] + PgSz <= page \/ page + PgSz <= stack[i]
    BY <1>2, <2>1, PagesApart
  <2>3. stack[i] \in Arena /\ stack[i] \in Nat
    BY <2>1, Numbers DEF PageStarts, Arena
  <2>4. stack[i] \notin page..(page + sz - 1)
    BY <1>4, <1>6, <2>2, <2>3, Numbers
  <2> QED BY <1>5, <2>3, <2>4 DEF Overwritten
<1>12. FreeList'
  <2>1. \A i \in 1..n : mem[stack[i]] = IF i = 1 THEN NULL ELSE stack[i - 1]
    BY <1>1 DEF FreeList
  <2>2. m_llStart' = IF stack' = <<>> THEN NULL ELSE stack'[Len(stack')]
    <3>1. CASE n = 1
      <4>1. stack' = <<>> /\ mem[page] = NULL
        BY <1>2, <1>7, <2>1, <3>1
      <4> QED BY <4>1, <1>5
    <3>2. CASE n # 1
      <4>1. n - 1 \in 1..(n - 1) /\ stack' # <<>>
        BY <1>2, <1>7, <3>2
      <4>2. n \in 1..n
        BY <1>2
      <4>3. mem[page] = stack[n - 1]
        BY <1>2, <2>1, <3>2, <4>2
      <4> QED BY <4>1, <4>3, <1>5, <1>7
    <3> QED BY <3>1, <3>2
  <2>3. \A i \in 1..Len(stack') : mem'[stack'[i]] = IF i = 1 THEN NULL ELSE stack'[i - 1]
    <3> SUFFICES ASSUME NEW i \in 1..(n - 1)
                 PROVE  mem'[stack'[i]] = IF i = 1 THEN NULL ELSE stack'[i - 1]
      BY <1>7
    <3>1. mem'[stack'[i]] = mem[stack[i]] /\ i \in 1..n
      BY <1>2, <1>7, <1>11
    <3>2. i # 1 => i - 1 \in 1..(n - 1)
      BY <1>2
    <3> QED BY <1>7, <2>1, <3>1, <3>2
  <2>4. \A i, j \in 1..Len(stack') : i # j => stack'[i] # stack'[j]
    BY <1>2, <1>7, <1>9
  <2> QED BY <2>2, <2>3, <2>4 DEF FreeList
<1>13. Pages' = Pages \ {page}
  <2>1. Pages' = {stack[i] : i \in 1..(n - 1)}
    BY <1>7 DEF Pages
  <2>2. Pages = {stack[i] : i \in 1..(n - 1)} \cup {page}
    <3>1. \A i \in 1..n : i \in 1..(n - 1) \/ i = n
      BY <1>2
    <3>2. \A i \in 1..(n - 1) : i \in 1..n
      BY <1>2
    <3> QED BY <1>2, <3>1, <3>2 DEF Pages
  <2> QED BY <1>10, <2>1, <2>2
<1>14. HeldPages' = HeldPages \cup {page}
  <2>1. b.page = page
    OBVIOUS
  <2> HIDE DEF b
  <2> QED BY <1>5, <2>1 DEF HeldPages
<1>15. PagesAccounted'
  BY <1>1, <1>2, <1>5, <1>13, <1>14 DEF PagesAccounted, PageStarts
<1>16. BlocksSound'
  <2>1. \A c \in held : c.page # page
    BY <1>2 DEF HeldPages
  <2> QED BY <1>1, <1>3, <1>5, <1>6, <2>1 DEF BlocksSound
<1> QED BY <1>6, <1>12, <1>15, <1>16 DEF IInv

\* A free puts the block's page back at the head of the list.
LEMMA FreeKeeps ==
  ASSUME IInv, TypeOK', NEW b \in held, Free(b)
  PROVE  IInv'
<1> DEFINE n == Len(stack)
<1>1. Usable /\ Unshifted /\ TypeOK /\ FreeList /\ PagesAccounted /\ BlocksSound
  BY DEF IInv, Free
<1>2. b.ptr = b.page /\ b.page \in HeldPages /\ b.page \in PageStarts /\ b.page \notin Pages
  BY <1>1 DEF BlocksSound, PagesAccounted, HeldPages
<1> DEFINE page == b.page
<1>3. BoundaryBelow(b.ptr) = page
  <2>1. page - Start \in Nat /\ (page - Start) % PgSz = 0
    BY <1>2, Numbers DEF PageStarts, Arena
  <2> DEFINE q == (page - Start) \div PgSz
  <2>2. q \in Nat /\ page - Start = PgSz * q + 0
    BY <2>1, Numbers, DivisionFacts
  <2>3. BoundaryBelow(b.ptr) = q * PgSz + Start
    BY <1>1, <1>2 DEF BoundaryBelow, Unshifted
  <2> HIDE DEF q
  <2>4. page \in Nat
    BY <1>2, Numbers DEF PageStarts, Arena
  <2> HIDE DEF page
  <2>5. q * PgSz = PgSz * q /\ PgSz * q \in Nat
    BY <2>2, Numbers
  <2> QED BY <2>2, <2>3, <2>4, <2>5, Numbers
<1>4. /\ mem' = [mem EXCEPT ![page] = m_llStart] /\ m_llStart' = page
      /\ held' = held \ {b} /\ stack' = Append(stack, page)
      /\ UNCHANGED <<m_pgSize, m_initialized, lost, status>>
  BY <1>1, <1>3 DEF Free
<1>5. page \in Arena /\ n \in Nat
  BY <1>1, <1>2 DEF PageStarts, TypeOK
<1>6. /\ Len(stack') = n + 1 /\ stack'[n + 1] = page
      /\ \A i \in 1..n : stack'[i] = stack[i]
  BY <1>1, <1>4, <1>5, PopPush DEF TypeOK
<1>7. \A i \in 1..n : stack[i] \in Pages /\ stack[i] # page /\ stack[i] \in Arena
  BY <1>1, <1>2 DEF Pages, TypeOK
<1>8. FreeList'
  <2>1. stack' # <<>>
    BY <1>5, <1>6
  <2>2. \A i \in 1..(n + 1) : mem'[stack'[i]] = IF i = 1 THEN NULL ELSE stack'[i - 1]
    <3> SUFFICES ASSUME NEW i \in 1..(n + 1)
                 PROVE  mem'[stack'[i]] = IF i = 1 THEN NULL ELSE stack'[i - 1]
      OBVIOUS
    <3>1. CASE i = n + 1
      <4>1. mem'[stack'[i]] = m_llStart
        BY <1>1, <1>4, <1>5, <1>6, <3>1 DEF TypeOK
      <4>2. CASE n = 0
        BY <1>1, <3>1, <4>1, <4>2 DEF FreeList, TypeOK
      <4>3. CASE n # 0
        <5>1. stack # <<>> /\ n \in 1..n /\ i - 1 = n /\ i # 1
          BY <1>5, <3>1, <4>3
        <5>2. m_llStart = stack[n]
          BY <1>1, <5>1 DEF FreeList
        <5> QED BY <1>6, <4>1, <5>1, <5>2
      <4> QED BY <4>2, <4>3
    <3>2. CASE i \in 1..n
      <4>1. mem'[stack'[i]] = mem[stack[i]]
        BY <1>1, <1>4, <1>6, <1>7, <3>2 DEF TypeOK
      <4>2. i # 1 => i - 1 \in 1..n
        BY <1>5, <3>2
      <4> QED BY <1>1, <1>6, <3>2, <4>1, <4>2 DEF FreeList
    <3> QED BY <1>5, <3>1, <3>2
  <2>3. \A i, j \in 1..(n + 1) : i # j => stack'[i] # stack'[j]
    <3>1. \A i \in 1..(n + 1) : i \in 1..n \/ i = n + 1
      BY <1>5
    <3>2. \A i, j \in 1..n : i # j => stack[i] # stack[j]
      BY <1>1 DEF FreeList
    <3> QED BY <1>6, <1>7, <3>1, <3>2
  <2> QED BY <1>4, <1>6, <2>1, <2>2, <2>3 DEF FreeList
<1>9. Pages' = Pages \cup {page}
  <2>1. \A i \in 1..(n + 1) : i \in 1..n \/ i = n + 1
    BY <1>5
  <2>2. n + 1 \in 1..(n + 1) /\ \A i \in 1..n : i \in 1..(n + 1)
    BY <1>5
  <2> QED BY <1>6, <2>1, <2>2 DEF Pages
<1>10. HeldPages' = HeldPages \ {page}
  BY <1>1, <1>4 DEF HeldPages, BlocksSound
<1>11. PagesAccounted'
  BY <1>1, <1>2, <1>4, <1>9, <1>10 DEF PagesAccounted, PageStarts
<1>12. BlocksSound' /\ Unshifted'
  BY <1>1, <1>4 DEF BlocksSound, Unshifted
<1> QED BY <1>8, <1>11, <1>12 DEF IInv

\* Reset gives every page back, in the order of construction.
LEMMA ResetKeeps ==
  ASSUME IInv, TypeOK', Reset
  PROVE  IInv'
<1>1. TypeOK /\ Unshifted /\ BlocksSound
  BY DEF IInv
<1>2. CASE m_initialized
  <2>1. m_pgSize = PgSz /\ m_pgSize > 0
    BY <1>1, Numbers DEF Unshifted
  <2>2. /\ mem' = BuildLinkedList(mem, PgSz) /\ m_llStart' = Start
        /\ held' = {} /\ lost' = {} /\ stack' = AllPages
        /\ UNCHANGED <<status, m_pgSize, m_initialized>>
    BY <1>2, <2>1 DEF Reset
  <2>3. /\ \A i \in 1..NPages : mem'[AllPages[i]] = IF i = 1 THEN NULL ELSE AllPages[i - 1]
        /\ AllPages[NPages] = Start
    BY <1>1, <2>2, FreshList DEF TypeOK
  <2>4. stack' # <<>>
    BY <2>2, AllPagesFacts, Numbers
  <2>5. FreeList'
    BY <2>2, <2>3, <2>4, AllPagesFacts DEF FreeList
  <2>6. PagesAccounted'
    BY <2>2, AllPagesFacts DEF PagesAccounted, Pages, HeldPages, PageStarts
  <2>7. BlocksSound' /\ Unshifted'
    BY <2>1, <2>2 DEF BlocksSound, Unshifted
  <2> QED BY <2>5, <2>6, <2>7 DEF IInv
<1>3. CASE ~m_initialized
  BY <1>1, <1>3 DEF Reset, IInv, FreeList, PagesAccounted, Usable, BlocksSound, Unshifted
<1> QED BY <1>2, <1>3

\* ZeroMem ends the list at its first page; the others are accounted for as lost.
LEMMA ZeroedKeeps ==
  ASSUME IInv, TypeOK', ZeroMem, m_initialized
  PROVE  IInv'
<1>1. Usable /\ Unshifted /\ TypeOK /\ FreeList /\ PagesAccounted /\ BlocksSound
  BY DEF IInv, ZeroMem, Usable
<1>2. /\ mem' = [a \in Arena |-> 0]
      /\ stack' = IF m_llStart = NULL THEN <<>> ELSE <<m_llStart>>
      /\ lost' = lost \cup (Pages \ {m_llStart})
      /\ UNCHANGED <<m_llStart, m_pgSize, m_initialized, held, status>>
  BY DEF ZeroMem
<1>3. CASE m_llStart = NULL
  <2>1. stack = <<>>
    <3>1. ASSUME stack # <<>> PROVE FALSE
      <4>1. Len(stack) \in 1..Len(stack)
        BY <1>1, <3>1 DEF TypeOK
      <4>2. stack[Len(stack)] \in Arena
        BY <1>1, <4>1 DEF TypeOK
      <4>3. stack[Len(stack)] = 0
        BY <1>1, <1>3, <3>1 DEF FreeList, NULL
      <4> QED BY <4>2, <4>3, Numbers DEF Arena
    <3> QED BY <3>1
  <2>2. Pages = {} /\ Pages' = {} /\ lost' = lost
    BY <1>2, <1>3, <2>1 DEF Pages
  <2>3. FreeList'
    BY <1>2, <1>3 DEF FreeList
  <2> QED BY <1>1, <1>2, <2>2, <2>3 DEF IInv, PagesAccounted, BlocksSound, Unshifted, HeldPages, PageStarts, Usable
<1>4. CASE m_llStart # NULL
  <2>1. stack # <<>> /\ m_llStart = stack[Len(stack)]
    BY <1>1, <1>4 DEF FreeList
  <2>2. m_llStart \in Pages
    BY <1>1, <2>1 DEF TypeOK, Pages
  <2>3. stack' = <<m_llStart>> /\ Len(stack') = 1 /\ stack'[1] = m_llStart /\ m_llStart \in Arena
    BY <1>1, <1>2, <1>4 DEF TypeOK
  <2>4. Pages' = {m_llStart}
    BY <2>3 DEF Pages
  <2>5. FreeList'
    BY <1>2, <2>3 DEF FreeList, NULL
  <2>6. PagesAccounted'
    BY <1>1, <1>2, <2>2, <2>4 DEF PagesAccounted, HeldPages, PageStarts, Usable, Unshifted
  <2> QED BY <1>1, <1>2, <2>5, <2>6 DEF IInv, BlocksSound, Unshifted
<1> QED BY <1>3, <1>4

\* After Release it ends what is claimed of the pool.
LEMMA ZeroMemKeeps ==
  ASSUME IInv, TypeOK', ZeroMem
  PROVE  IInv'
<1>1. CASE m_initialized
  BY <1>1, ZeroedKeeps
<1>2. CASE ~m_initialized
  BY <1>2 DEF ZeroMem, IInv, FreeList, PagesAccounted, Usable, BlocksSound, Unshifted
<1> QED BY <1>1, <1>2

\* Calls that end the pool's life, or that fail, change nothing the invariant is about.
LEMMA OthersKeep ==
  ASSUME IInv, TypeOK',
         \/ \E sz \in Sizes, al \in Aligns : AllocAborts(sz, al) \/ AllocReadsJunk(sz, al)
         \/ FreeFaults \/ Release \/ Destroy \/ UNCHANGED vars
  PROVE  IInv'
<1>1. Unshifted' /\ BlocksSound'
  BY DEF IInv, AllocAborts, AllocReadsJunk, FreeFaults, Release, Destroy, vars, Unshifted, BlocksSound
<1>2. FreeList' /\ PagesAccounted'
  <2>1. CASE \/ \E sz \in Sizes, al \in Aligns : AllocAborts(sz, al) \/ AllocReadsJunk(sz, al)
             \/ FreeFaults \/ Release \/ Destroy
    <3>1. ~Usable'
      BY <2>1 DEF AllocAborts, AllocReadsJunk, FreeFaults, Release, Destroy, Usable
    <3> QED BY <3>1 DEF FreeList, PagesAccounted
  <2>2. CASE UNCHANGED vars
    <3>1. FreeList'
      BY <2>2 DEF IInv, vars, FreeList, Usable, Unshifted
    <3>2. PagesAccounted'
      BY <2>2 DEF IInv, vars, PagesAccounted, Usable, Unshifted, Pages, HeldPages
    <3> QED BY <3>1, <3>2
  <2> QED BY <2>1, <2>2
<1> QED BY <1>1, <1>2 DEF IInv

\* A pool whose alignments fit its pages keeps the invariant.
LEMMA PoolInvariance ==
  ASSUME AlignsFit
  PROVE  Spec => []IInv
<1>1. Init /\ TypeOK => IInv
  <2> SUFFICES ASSUME Init, TypeOK PROVE IInv
    OBVIOUS
  <2>1. [a \in Arena |-> Junk] \in [Arena -> Arena \cup {NULL, Junk}]
    OBVIOUS
  <2>2. /\ stack = AllPages /\ m_llStart = Start /\ held = {} /\ lost = {} /\ m_pgSize = PgSz
        /\ \A i \in 1..NPages : mem[AllPages[i]] = IF i = 1 THEN NULL ELSE AllPages[i - 1]
        /\ AllPages[NPages] = Start
    BY <2>1, FreshList DEF Init
  <2>3. stack # <<>>
    BY <2>2, AllPagesFacts, Numbers
  <2>4. FreeList
    BY <2>2, <2>3, AllPagesFacts DEF FreeList
  <2>5. PagesAccounted
    BY <2>2, AllPagesFacts DEF PagesAccounted, Pages, HeldPages
  <2> QED BY <2>2, <2>4, <2>5 DEF IInv, BlocksSound, Unshifted
<1>2. IInv /\ TypeOK' /\ [Next]_vars => IInv'
  BY AllocKeeps, FreeKeeps, ResetKeeps, ZeroMemKeeps, OthersKeep DEF Next
<1> QED BY <1>1, <1>2, PoolTypeCorrect, PTL DEF Spec

\* However often such a pool is zeroed or reset, the list is the free pages, each
\* once, the last one freed first.
THEOREM PoolSound ==
  ASSUME AlignsFit
  PROVE  Spec => []FreeList
<1>1. IInv => FreeList
  BY DEF IInv
<1> QED BY <1>1, PoolInvariance, PTL

\* Every page of it is free, held or cut off by ZeroMem, and only one of these.
THEOREM PoolAccounted ==
  ASSUME AlignsFit
  PROVE  Spec => []PagesAccounted
<1>1. IInv => PagesAccounted
  BY DEF IInv
<1> QED BY <1>1, PoolInvariance, PTL

\* No two of its blocks share a page, and each is aligned and fits in its page.
THEOREM PoolBlocksSound ==
  ASSUME AlignsFit
  PROVE  Spec => []BlocksSound
<1>1. IInv => BlocksSound
  BY DEF IInv
<1> QED BY <1>1, PoolInvariance, PTL

=============================================================================
