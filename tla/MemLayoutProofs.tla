-------------------------- MODULE MemLayoutProofs --------------------------
(***************************************************************************)
(* What the address arithmetic of MemLayout computes, for every address,    *)
(* alignment and header size.                                               *)
(***************************************************************************)
EXTENDS MemLayout, TLAPS

\* Division with remainder: every address is a multiple of the alignment plus
\* a remainder below it.
LEMMA DivisionFacts ==
  ASSUME NEW x \in Nat, NEW a \in Nat \ {0}
  PROVE /\ x \div a \in Nat
        /\ x % a \in 0..(a-1)
        /\ x = a * (x \div a) + (x % a)
OBVIOUS

\* The remainder of such a sum is the part below the alignment.
LEMMA ModUnique ==
  ASSUME NEW q \in Int, NEW a \in Nat \ {0}, NEW r \in 0..(a-1)
  PROVE  (a*q + r) % a = r
OBVIOUS

\* Rounding up: AlignUp gives an aligned address at or above x, less than one
\* alignment away.
LEMMA AlignUpLeast ==
  ASSUME NEW x \in Nat, NEW al \in Nat \ {0}
  PROVE  /\ AlignUp(x, al) \in Nat
         /\ AlignUp(x, al) % al = 0
         /\ x <= AlignUp(x, al)
         /\ AlignUp(x, al) < x + al
<1> DEFINE q == (x + al - 1) \div al
<1>1. x + al - 1 \in Nat OBVIOUS
<1>2. /\ q \in Nat
      /\ (x + al - 1) % al \in 0..(al-1)
      /\ x + al - 1 = al * q + ((x + al - 1) % al)
  BY <1>1, DivisionFacts
<1>3. AlignUp(x, al) = al * q + 0 /\ q * al \in Nat /\ q*al = al*q
  BY <1>2 DEF AlignUp
<1>4. (al * q + 0) % al = 0
  BY <1>2, ModUnique, 0 \in 0..(al-1)
<1> HIDE DEF q
<1> QED BY <1>2, <1>3, <1>4

\* _fitPadding: the widened padding leaves room for the header, keeps the
\* pointer aligned, and is the least that does.
LEMMA FitPaddingOk ==
  ASSUME NEW block \in Nat, NEW padding \in Nat, NEW al \in Nat \ {0}, NEW hdr \in Nat,
         (block + padding) % al = 0
  PROVE /\ FitPadding(padding, al, hdr) \in Nat
        /\ FitPadding(padding, al, hdr) >= hdr
        /\ FitPadding(padding, al, hdr) >= padding
        /\ (block + FitPadding(padding, al, hdr)) % al = 0
        /\ \A p \in Nat : p >= hdr /\ p >= padding /\ (block + p) % al = 0
                            => FitPadding(padding, al, hdr) <= p
        /\ FitPadding(padding, al, hdr) = padding \/ FitPadding(padding, al, hdr) < hdr + al
<1>1. CASE padding >= hdr
  BY <1>1 DEF FitPadding
<1>2. CASE padding < hdr /\ (hdr - padding) % al = 0
  <2>1. FitPadding(padding, al, hdr) = hdr
    BY <1>2 DEF FitPadding
  <2> DEFINE u == (block + padding) \div al
             v == (hdr - padding) \div al
  <2>2. u \in Nat /\ block + padding = al * u + 0
    BY DivisionFacts
  <2>3. v \in Nat /\ hdr - padding = al * v + 0
    BY <1>2, DivisionFacts, hdr - padding \in Nat
  <2>4. block + hdr = al * (u + v) + 0
    <3> HIDE DEF u, v
    <3> QED BY <2>2, <2>3
  <2>5. (al * (u + v) + 0) % al = 0
    BY <2>2, <2>3, ModUnique, 0 \in 0..(al-1)
  <2> QED BY <1>2, <2>1, <2>4, <2>5
<1>3. CASE padding < hdr /\ (hdr - padding) % al # 0
  <2> DEFINE d == hdr - padding
             u == (block + padding) \div al
             v == d \div al
             r == d % al
  <2>1. FitPadding(padding, al, hdr) = padding + al * (1 + v)
    BY <1>3 DEF FitPadding
  <2>2. u \in Nat /\ block + padding = al * u + 0
    BY DivisionFacts
  <2>3. v \in Nat /\ r \in 1..(al-1) /\ d = al * v + r
    <3>1. d \in Nat
      BY <1>3
    <3>2. v \in Nat /\ r \in 0..(al-1) /\ d = al * v + r
      <4> HIDE DEF d
      <4> QED BY <3>1, DivisionFacts
    <3>3. r # 0
      BY <1>3
    <3> QED BY <3>2, <3>3
  <2>3a. hdr - padding = al * v + r
    BY <2>3
  <2> HIDE DEF u, v, r, d
  <2>4. al * (1 + v) = al * v + al /\ al * v \in Nat
    BY <2>3
  <2>5. block + (padding + al * (1 + v)) = al * (u + 1 + v) + 0
    BY <2>2, <2>3
  <2>6. (al * (u + 1 + v) + 0) % al = 0
    BY <2>2, <2>3, ModUnique, 0 \in 0..(al-1)
  <2>7. ASSUME NEW p \in Nat, p >= hdr, p >= padding, (block + p) % al = 0
        PROVE  padding + al * (1 + v) <= p
    <3> DEFINE w == (block + p) \div al
    <3>1. w \in Nat /\ block + p = al * w + 0
      BY <2>7, DivisionFacts
    <3> HIDE DEF w
    <3>2. p - padding = al * (w - u)
      BY <3>1, <2>2
    <3>3. al * v < al * (w - u)
      BY <3>2, <2>3, <2>3a, <2>4, <2>7
    <3>4. v < w - u
      BY <3>3, <3>1, <2>2, <2>3
    <3>5. al * (1 + v) <= al * (w - u)
      BY <3>4, <3>1, <2>2, <2>3
    <3> QED BY <3>5, <3>2, <2>3
  <2> QED BY <1>3, <2>1, <2>3, <2>3a, <2>4, <2>5, <2>6, <2>7
<1> QED BY <1>1, <1>2, <1>3

\* The padding an allocation settles on: the pointer is aligned, a header fits
\* below it, no smaller padding would do both, and it is less than a header and
\* one alignment.
THEOREM BlockPaddingOk ==
  ASSUME NEW block \in Nat, NEW al \in Nat \ {0}, NEW hdr \in Nat
  PROVE  /\ BlockPadding(block, al, hdr) \in Nat
         /\ BlockPadding(block, al, hdr) >= hdr
         /\ (block + BlockPadding(block, al, hdr)) % al = 0
         /\ \A p \in Nat : p >= hdr /\ block + p >= AlignUp(block, al)
                             /\ (block + p) % al = 0
                             => BlockPadding(block, al, hdr) <= p
         /\ BlockPadding(block, al, hdr) < hdr + al
<1> DEFINE up == AlignUp(block, al)
           gap == up - block
<1>1. up \in Nat /\ up % al = 0 /\ block <= up /\ up < block + al
  BY AlignUpLeast
<1>2. gap \in Nat /\ block + gap = up /\ gap < al
  <2> HIDE DEF up
  <2> QED BY <1>1
<1>3. (block + gap) % al = 0
  BY <1>1, <1>2
<1>4. BlockPadding(block, al, hdr) = FitPadding(gap, al, hdr)
  BY DEF BlockPadding
<1>5. \A p \in Nat : block + p >= up => p >= gap
  <2> HIDE DEF up
  <2> QED BY <1>1
<1> HIDE DEF gap
<1>6. /\ FitPadding(gap, al, hdr) \in Nat
      /\ FitPadding(gap, al, hdr) >= hdr
      /\ (block + FitPadding(gap, al, hdr)) % al = 0
      /\ \A p \in Nat : p >= hdr /\ p >= gap /\ (block + p) % al = 0
                         => FitPadding(gap, al, hdr) <= p
      /\ FitPadding(gap, al, hdr) < hdr + al
  BY <1>2, <1>3, FitPaddingOk
<1> QED BY <1>4, <1>5, <1>6

=============================================================================
