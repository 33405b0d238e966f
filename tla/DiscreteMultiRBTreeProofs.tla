--------------------- MODULE DiscreteMultiRBTreeProofs ---------------------
(***************************************************************************)
(* DiscreteMultiRBTree, for every set of keys and every number of          *)
(* addresses: in every behaviour that has not gone through one of the      *)
(* damaging steps of README section 5 the tree is red-black between two    *)
(* operations, holds what was inserted and not deleted, and reads nothing  *)
(* that is not a node. The invariant adds to what RBTreeProofs says of the *)
(* tree where the search of Delete has come to.                            *)
(***************************************************************************)
EXTENDS DiscreteMultiRBTree, RBTreeProofs

\* What the loop of Delete knows: a node of the key is below the one it has come to.
Finding(H, D) ==
  /\ AtRest(Tree, key, DOMAIN link \ leaked, H, D) /\ op.cur \in H \cup {NULL}
  /\ \A h \in H : key[h] = sought => h \in D[op.cur]

\* Where it stops without one, no node has the key.
Gone == \A a \in DOMAIN key \ leaked : key[a] # sought

\* What holds of a tree that no step has damaged, by what the operation is
\* about to do.
WholeTree ==
  /\ op.pc = "find" => Usable(Tree) /\ IsFiniteSet(Dom(Tree)) /\ \E H, D : Finding(H, D)
  /\ op.pc = "aborted" => Gone
  /\ op.pc \notin {"find", "aborted"} => Steady(Tree, key, leaked, op)

\* Every node there is has a key, and links that lead to addresses, damaged or not.
NodesFit ==
  /\ Sane(Tree, key, Addresses, leaked, op) /\ \A a \in DOMAIN key : key[a] \in Keys
  /\ whole \in BOOLEAN /\ sought \in {NULL} \cup Keys

\* The invariant: NodesFit always, the tree as long as it is whole.
IInv == NodesFit /\ (whole => WholeTree)

\* The constants are positive numbers.
LEMMA AddressesFit == Keys \subseteq Nat \ {0} /\ Addresses \subseteq Nat \ {0}
BY TreeAssumption DEF Addresses, Places

-----------------------------------------------------------------------------
(* The steps of Insert and Delete.                                          *)

\* The empty tree.
LEMMA InitIInv == Init => IInv
<1> SUFFICES ASSUME Init PROVE IInv
  OBVIOUS
<1>1. /\ DOMAIN key = {} /\ DOMAIN link = {} /\ root = NULL /\ op = Idle /\ leaked = {} /\ whole = TRUE
      /\ sought = NULL
  BY DEF Init, Empty
<1>2. Tree = [link |-> link, root |-> NULL, ok |-> TRUE] /\ Tree.link = link /\ Tree.root = NULL
      /\ Dom(Tree) = {} /\ Root(Tree) = NULL
  BY <1>1 DEF Tree, Dom, Root
<1>3. Sane(Tree, key, Addresses, leaked, op)
  <2>1. Fits(Tree, Addresses, {}, Nexts(Tree))
    BY <1>1, <1>2, StoppedFits DEF Fits
  <2> QED BY <2>1, <1>1, <1>2, StoppedFits DEF Sane
<1>4. Usable(Tree) /\ IsFiniteSet(Dom(Tree))
  BY <1>1, <1>2, FS_EmptySet DEF Usable, Dom
<1> DEFINE D == [x \in {NULL} |-> {}]
<1>d. D \in [{} \cup {NULL} -> SUBSET {}] /\ D[NULL] = {}
  OBVIOUS
<1> HIDE DEF D
<1>5. IsTree(Tree, {}, D)
  BY <1>2, <1>d DEF IsTree, IsTreeBy
<1>6. \E bh : Weighted(Tree, {}, bh, Plain(Tree, {}))
  <2> DEFINE b == [x \in {NULL} |-> 0]
  <2>1. b \in [{} \cup {NULL} -> Nat] /\ b[NULL] = 0
    OBVIOUS
  <2> HIDE DEF b
  <2>2. Weighted(Tree, {}, b, Plain(Tree, {}))
    BY <2>1 DEF Weighted, Plain
  <2> QED BY <2>2
<1>7. HasListing(Tree, {}, {}, key)
  <2> DEFINE r == [x \in {} |-> 0]
  <2>1. r \in [{} -> Nat]
    OBVIOUS
  <2> HIDE DEF r
  <2>2. Listing(Tree, {}, {}, key, r)
    BY <2>1 DEF Listing
  <2> QED BY <2>2 DEF HasListing
<1>8. AtRest(Tree, key, {}, {}, D)
  BY <1>2, <1>5, <1>6, <1>7 DEF AtRest, Sound, RedBlack, Colored, Ordered, RedsApart, RootBlack
<1>9. Dom(Tree) \ leaked = {} /\ leaked \subseteq Dom(Tree)
  BY <1>1, <1>2
<1>10. Steady(Tree, key, leaked, op)
  BY <1>1, <1>4, <1>8, <1>9, RestSteady
<1>11. WholeTree
  BY <1>1, <1>10, IdleParts DEF WholeTree
<1> QED BY <1>1, <1>3, <1>11 DEF IInv, NodesFit

\* Between two operations the tree is at rest.
LEMMA IdleSteady ==
  ASSUME IInv, whole, op.pc = "idle"
  PROVE  /\ Usable(Tree) /\ IsFiniteSet(Dom(Tree)) /\ Dom(Tree) = DOMAIN link /\ leaked \subseteq DOMAIN link
         /\ \E H, D : AtRest(Tree, key, DOMAIN link \ leaked, H, D)
<1>1. Steady(Tree, key, leaked, op)
  BY DEF IInv, WholeTree
<1>2. Dom(Tree) = DOMAIN link
  BY TreeParts DEF Dom
<1>3. PICK H, D : Phase(Tree, key, Dom(Tree) \ Out(op, leaked), H, D, op)
  BY <1>1, SteadyParts
<1>4. AtRest(Tree, key, DOMAIN link \ leaked, H, D)
  BY <1>2, <1>3 DEF Phase, Out
<1> QED BY <1>1, <1>2, <1>4, SteadyParts

\* Insert takes an address that is no node and starts the descent.
LEMMA InsertIInv ==
  ASSUME IInv, NEW k \in Keys, Insert(k)
  PROVE  IInv'
<1>1. PICK a \in Places(k) \ DOMAIN key : key' = Add(key, a, k) /\ op' = StartInsert(a)
  BY DEF Insert
<1>2. op.pc = "idle" /\ link' = link /\ root' = root /\ whole' = whole /\ sought' = sought /\ leaked' = leaked
      /\ Tree' = Tree
  BY DEF Insert, Tree
<1>3. Sane(Tree, key, Addresses, leaked, op) /\ DOMAIN link = DOMAIN key /\ DOMAIN Tree.link = DOMAIN link
      /\ leaked \subseteq DOMAIN key
  BY <1>2, TreeParts DEF IInv, NodesFit, Sane
<1>4. a \in Addresses /\ a # NULL /\ a \notin DOMAIN link /\ k \in Int
  BY <1>1, <1>3, AddressesFit DEF Addresses, NULL
<1>5. DOMAIN key' = DOMAIN key \cup {a} /\ key'[a] = k /\ \A x \in DOMAIN key : key'[x] = key[x]
  <2> DEFINE m == Add(key, a, k)
  <2>1. DOMAIN m = DOMAIN key \cup {a} /\ m[a] = k /\ \A x \in DOMAIN key : x # a => m[x] = key[x]
    BY Zenon DEF Add
  <2> HIDE DEF m
  <2>2. key' = m
    BY <1>1 DEF m
  <2> QED BY <1>1, <2>1, <2>2
<1>6. OpFits(op', Addresses) /\ op'.pc = "descend" /\ op'.node = a /\ op'.cur = root /\ op'.parent = NULL
  <2>1. a \in Spots(Addresses) /\ root \in Spots(Addresses) /\ NULL \in Spots(Addresses)
    BY <1>3, <1>4, SaneParts DEF Spots
  <2>2. op' = [pc |-> "descend", node |-> a, cur |-> root, parent |-> NULL]
    BY <1>1 DEF StartInsert
  <2> DEFINE r == [pc |-> "descend", node |-> a, cur |-> root, parent |-> NULL]
  <2>3. OpFits(r, Addresses) /\ r.pc = "descend" /\ r.node = a /\ r.cur = root /\ r.parent = NULL
    BY <2>1, OpMade
  <2> HIDE DEF r
  <2>4. op' = r
    BY <2>2 DEF r
  <2> QED BY <2>3, <2>4
<1>7. Sane(Tree', key', Addresses, leaked, op')
  <2>1. DOMAIN key' \subseteq Addresses /\ leaked \subseteq DOMAIN key' /\ op'.node \in DOMAIN key' \ leaked
        /\ DOMAIN key' = DOMAIN link \cup {op'.node}
    BY <1>1, <1>3, <1>4, <1>5, <1>6 DEF Sane
  <2> QED BY <1>2, <1>3, <1>6, <2>1 DEF Sane
<1>8. ASSUME whole PROVE Steady(Tree', key', leaked, op')
  <2>1. PICK H, D : AtRest(Tree, key, DOMAIN link \ leaked, H, D)
    BY <1>2, <1>8, IdleSteady
  <2>2. AtRest(Tree, key', DOMAIN link \ leaked, H, D)
    <3> DEFINE N == DOMAIN link \ leaked
    <3>1. \A x \in N : key'[x] = key[x]
      BY <1>3, <1>5
    <3> HIDE DEF N
    <3>2. AtRest(Tree, key, N, H, D)
      BY <2>1 DEF N
    <3> DEFINE m == key'
    <3> HIDE DEF m
    <3>3. AtRest(Tree, m, N, H, D)
      BY <3>1, <3>2, SameKeysRest DEF m
    <3> QED BY <3>3 DEF m, N
  <2>3. /\ Usable(Tree) /\ IsFiniteSet(Dom(Tree)) /\ Dom(Tree) = DOMAIN link /\ leaked \subseteq DOMAIN link
    BY <1>2, <1>8, IdleSteady
  <2>4. Descending(Tree, key', DOMAIN link \ leaked, H, D, op')
    BY <2>2, <2>3, <1>2, <1>4, <1>5, <1>6 DEF Descending, Root, Tree
  <2>5. Phase(Tree, key', Dom(Tree) \ Out(op', leaked), H, D, op')
    BY <2>3, <2>4, <1>6 DEF Phase, Out
  <2>6. OpRecord(op')
    BY <1>6 DEF OpFits
  <2> QED BY <1>2, <2>3, <2>5, <2>6 DEF Steady
<1>9. NodesFit'
  <2>1. \A x \in DOMAIN key' : key'[x] \in Keys
    BY <1>5 DEF IInv, NodesFit
  <2> QED BY <1>2, <1>7, <2>1 DEF IInv, NodesFit
<1>10. whole' => WholeTree'
  BY <1>2, <1>6, <1>8 DEF WholeTree
<1> QED BY <1>9, <1>10 DEF IInv

\* The search for a key and what comes of it change no node.
LEMMA SearchFits ==
  ASSUME NodesFit, op.pc \in {"idle", "find"}, UNCHANGED <<key, link, root, whole, leaked>>,
         sought' \in {NULL} \cup Keys, OpFits(op', Addresses), op'.pc \in {"find", "aborted", "delete"}
  PROVE  NodesFit' /\ Tree' = Tree
<1>1. Tree' = Tree
  BY DEF Tree
<1>2. Sane(Tree', key', Addresses, leaked', op')
  BY <1>1 DEF NodesFit, Sane
<1> QED BY <1>1, <1>2 DEF NodesFit

\* Delete starts the search.
LEMMA DeleteIInv ==
  ASSUME IInv, NEW k \in Keys, Delete(k)
  PROVE  IInv'
<1>1. op.pc = "idle" /\ UNCHANGED <<key, link, root, whole, leaked>> /\ sought' = k
  BY DEF Delete
<1>2. OpFits(op', Addresses) /\ op'.pc = "find" /\ op'.cur = root
  <2> DEFINE r == [pc |-> "find", node |-> NULL, cur |-> root, parent |-> NULL]
  <2>1. root \in Spots(Addresses) /\ NULL \in Spots(Addresses)
    BY SaneParts, StoppedFits DEF IInv, NodesFit
  <2>2. OpFits(r, Addresses) /\ r.pc = "find" /\ r.cur = root
    BY <2>1, OpMade
  <2>3. op' = r
    BY DEF Delete, Idle
  <2> HIDE DEF r
  <2> QED BY <2>2, <2>3
<1>3. NodesFit' /\ Tree' = Tree
  BY <1>1, <1>2, SearchFits DEF IInv
<1>4. ASSUME whole PROVE WholeTree'
  <2>1. PICK H, D : AtRest(Tree, key, DOMAIN link \ leaked, H, D)
    BY <1>1, <1>4, IdleSteady
  <2>2. Root(Tree) \in H \cup {NULL} /\ D[Root(Tree)] = H
    BY <2>1 DEF AtRest, Sound, RedBlack, IsTree, IsTreeBy
  <2>3. Finding(H, D)'
    BY <1>1, <1>2, <1>3, <2>1, <2>2 DEF Finding, Root, Tree
  <2>4. Usable(Tree) /\ IsFiniteSet(Dom(Tree))
    BY <1>1, <1>4, IdleSteady
  <2> QED BY <1>2, <1>3, <2>3, <2>4 DEF WholeTree
<1> QED BY <1>1, <1>3, <1>4 DEF IInv

\* One step of the search: to the side of the key, or the head of its list.
LEMMA FindIInv ==
  ASSUME IInv, Find
  PROVE  IInv'
<1> DEFINE c == op.cur
           side == IF sought > key[c] THEN "right" ELSE "left"
           next == Field(c, side)
<1>1. /\ op.pc = "find" /\ c # NULL /\ UNCHANGED <<key, link, root, whole, sought, leaked>>
      /\ op' = IF sought = key[c] THEN StartDelete(c) ELSE CurSet(op, next)
  BY DEF Find, At, CurSet
<1>2. c \in Spots(Addresses) /\ next \in Spots(Addresses) /\ NULL \in Spots(Addresses) /\ OpFits(op, Addresses)
  BY SaneParts, StoppedFits DEF IInv, NodesFit
<1>3. OpFits(StartDelete(c), Addresses) /\ StartDelete(c).pc = "delete" /\ StartDelete(c).node = c
  <2> DEFINE r == [pc |-> "delete", node |-> c, cur |-> NULL, parent |-> NULL]
  <2> HIDE DEF c
  <2>1. OpFits(r, Addresses) /\ r.pc = "delete" /\ r.node = c
    BY <1>2, OpMade
  <2>2. StartDelete(c) = r
    BY DEF StartDelete
  <2> HIDE DEF r
  <2> QED BY <2>1, <2>2
<1>4. OpFits(CurSet(op, next), Addresses) /\ CurSet(op, next).pc = "find" /\ CurSet(op, next).cur = next
  <2> HIDE DEF next
  <2>1. OpFits(CurSet(op, next), Addresses) /\ CurSet(op, next).pc = op.pc
    BY <1>2, CurSetFits
  <2>2. CurSet(op, next).cur = next
    BY <1>2 DEF CurSet, OpFits, OpRecord
  <2> QED BY <1>1, <2>1, <2>2
<1>5. NodesFit' /\ Tree' = Tree
  <2>1. OpFits(op', Addresses) /\ op'.pc \in {"find", "aborted", "delete"}
    <3>1. CASE sought = key[c]
      BY <3>1, <1>1, <1>3
    <3>2. CASE sought # key[c]
      BY <3>2, <1>1, <1>4
    <3> QED BY <3>1, <3>2
  <2> QED BY <1>1, <2>1, SearchFits DEF IInv, NodesFit
<1>6. ASSUME whole PROVE WholeTree'
  <2>1. PICK H, D : Finding(H, D)
    BY <1>1, <1>6 DEF IInv, WholeTree
  <2>2. Usable(Tree) /\ IsFiniteSet(Dom(Tree))
    BY <1>1, <1>6 DEF IInv, WholeTree
  <2>3. /\ AtRest(Tree, key, DOMAIN link \ leaked, H, D) /\ c \in H /\ \A h \in H : key[h] = sought => h \in D[c]
        /\ Dom(Tree) = DOMAIN link
    BY <1>1, <2>1, TreeParts DEF Finding, Dom
  <2>4. leaked \subseteq DOMAIN link /\ DOMAIN link = DOMAIN key
    BY <1>1, TreeParts DEF IInv, NodesFit, Sane
  <2>5. CASE sought = key[c]
    <3>1. op'.pc = "delete" /\ op'.node = c /\ OpRecord(op')
      BY <1>1, <1>3, <2>5 DEF OpFits
    <3>2. Deleting(Tree, key, DOMAIN link \ leaked, H, D, op')
      BY <2>3, <3>1 DEF Deleting, AtRest
    <3>3. Phase(Tree, key, Dom(Tree) \ Out(op', leaked), H, D, op')
      BY <2>3, <3>1, <3>2 DEF Phase, Out
    <3>4. Steady(Tree, key, leaked, op')
      BY <2>2, <2>3, <2>4, <3>1, <3>3 DEF Steady
    <3> QED BY <1>1, <1>5, <3>1, <3>4 DEF WholeTree
  <2>6. CASE sought # key[c]
    <3>1. op'.pc = "find" /\ op'.cur = next
      BY <1>1, <1>4, <2>6
    <3>2. IsTree(Tree, H, D) /\ Ordered(Tree, H, D, key, {}) /\ H \subseteq DOMAIN key
      BY <2>3, <2>4 DEF AtRest, Sound, RedBlack, HasListing, Listing
    <3>3. /\ D \in [H \cup {NULL} -> SUBSET H]
          /\ Get(Tree, c, side) \in H \cup {NULL} /\ side \in Sides /\ next = Get(Tree, c, side)
          /\ \A b \in H : b \in D[c] => b = c \/ b \in D[Get(Tree, c, "left")] \/ b \in D[Get(Tree, c, "right")]
      BY <3>2, <2>3 DEF IsTree, IsTreeBy, Sides, Field
    <3>4. /\ \A b \in D[Get(Tree, c, "left")] : key[b] < key[c]
          /\ \A b \in D[Get(Tree, c, "right")] : key[c] < key[b]
      BY <3>2, <2>3 DEF Ordered, Beside, Sides
    <3>5. ASSUME NEW h \in H, key[h] = sought PROVE h \in D[next]
      <4>1. h \in D[c] /\ h # c
        BY <2>3, <2>6, <3>5
      <4>2. key[c] \in Int /\ key[h] \in Int
        <5>1. key[c] \in Keys /\ key[h] \in Keys
          BY <2>3, <3>2 DEF IInv, NodesFit
        <5>2. \A x \in Keys : x \in Int
          BY AddressesFit
        <5> QED BY <5>1, <5>2
      <4>3. CASE h \in D[Get(Tree, c, "left")]
        <5>1. key[h] < key[c]
          BY <4>3, <3>4
        <5>2. ~(sought > key[c])
          BY <5>1, <4>2, <3>5
        <5> QED BY <5>2, <4>3, <3>3
      <4>4. CASE h \in D[Get(Tree, c, "right")]
        <5>1. key[c] < key[h]
          BY <4>4, <3>4
        <5>2. sought > key[c]
          BY <5>1, <4>2, <3>5
        <5> QED BY <5>2, <4>4, <3>3
      <4> QED BY <4>1, <4>3, <4>4, <3>3
    <3>6. Finding(H, D)'
      BY <1>1, <1>5, <2>3, <3>1, <3>3, <3>5 DEF Finding
    <3> QED BY <1>5, <2>2, <3>1, <3>6 DEF WholeTree
  <2> QED BY <2>5, <2>6
<1> QED BY <1>1, <1>5, <1>6 DEF IInv

\* The search that ends at NULL has looked at the only place the key could be:
\* no node the tree knows has it, so the assert fails as it should.
LEMMA MissingIInv ==
  ASSUME IInv, Missing
  PROVE  IInv'
<1>1. op.pc = "find" /\ op.cur = NULL /\ UNCHANGED <<key, link, root, whole, sought, leaked>>
      /\ op' = [Idle EXCEPT !.pc = "aborted"]
  BY DEF Missing
<1>2. OpFits(op', Addresses) /\ op'.pc = "aborted"
  <2>1. op' = PcSet(Idle, "aborted")
    BY <1>1 DEF PcSet
  <2> DEFINE r == PcSet(Idle, "aborted")
  <2>2. OpFits(r, Addresses) /\ r.pc = "aborted"
    BY StoppedFits, PcSetFits
  <2> HIDE DEF r
  <2>3. op' = r
    BY <2>1 DEF r
  <2> QED BY <2>2, <2>3
<1>3. NodesFit' /\ Tree' = Tree
  BY <1>1, <1>2, SearchFits DEF IInv, NodesFit
<1>4. ASSUME whole PROVE Gone
  <2>1. PICK H, D : Finding(H, D)
    BY <1>1, <1>4 DEF IInv, WholeTree
  <2>2. Usable(Tree) /\ DOMAIN link = DOMAIN key /\ Dom(Tree) = DOMAIN link
    BY <1>1, <1>4, TreeParts DEF IInv, WholeTree, NodesFit, Sane, Dom
  <2>3. AtRest(Tree, key, DOMAIN link \ leaked, H, D) /\ \A h \in H : key[h] = sought => h \in D[NULL]
    BY <1>1, <2>1 DEF Finding
  <2>4. D[NULL] = {} /\ HasListing(Tree, H, DOMAIN link \ leaked, key)
    BY <2>3 DEF AtRest, Sound, RedBlack, IsTree, IsTreeBy
  <2>5. NULL \notin DOMAIN link \ leaked
    BY <2>2 DEF Usable
  <2>6. ASSUME NEW a \in DOMAIN key \ leaked PROVE key[a] # sought
    <3>1. \E h \in H : key[h] = key[a]
      BY <2>2, <2>4, <2>5, ListKeys
    <3> QED BY <3>1, <2>3, <2>4
  <2> QED BY <2>6 DEF Gone
<1>5. whole => WholeTree'
  BY <1>1, <1>2, <1>4 DEF WholeTree, Gone
<1> QED BY <1>1, <1>3, <1>5 DEF IInv

\* What Delete knows when it has taken op.node out of the tree.
LEMMA OutSteady ==
  ASSUME IInv, whole, op.pc \in {"deleted", "unlinked"}
  PROVE  /\ Usable(Tree) /\ IsFiniteSet(Dom(Tree)) /\ Dom(Tree) = DOMAIN link /\ leaked \subseteq DOMAIN link
         /\ op.node \in DOMAIN link
         /\ \E H, D : AtRest(Tree, key, DOMAIN link \ (leaked \cup {op.node}), H, D)
<1>1. Steady(Tree, key, leaked, op)
  BY DEF IInv, WholeTree
<1>2. Dom(Tree) = DOMAIN link
  BY TreeParts DEF Dom
<1>3. PICK H, D : Phase(Tree, key, Dom(Tree) \ Out(op, leaked), H, D, op)
  BY <1>1, SteadyParts
<1>4. AtRest(Tree, key, DOMAIN link \ (leaked \cup {op.node}), H, D) /\ op.node \in DOMAIN link
  BY <1>2, <1>3 DEF Phase, Out
<1> QED BY <1>1, <1>2, <1>4, SteadyParts

\* The node a deletion took out is freed.
LEMMA FreeNodeIInv ==
  ASSUME IInv, FreeNode
  PROVE  IInv'
<1> DEFINE a == op.node
<1>1. /\ op.pc = "deleted" /\ key' = Drop(key, a) /\ link' = Drop(link, a) /\ op' = Idle
      /\ root' = root /\ whole' = whole /\ sought' = sought /\ leaked' = leaked
  BY DEF FreeNode
<1>2. Tree' = Freed(a)
  BY <1>1 DEF Tree, Freed
<1>3. /\ Sane(Tree, key, Addresses, leaked, op) /\ DOMAIN link = DOMAIN key /\ leaked \subseteq DOMAIN key
      /\ DOMAIN key \subseteq Addresses /\ Field(a, "next") = NULL
      /\ \A x \in leaked \cap DOMAIN link : Get(Tree, x, "next") # NULL
  BY <1>1, TreeParts DEF IInv, NodesFit, Sane, Field
<1>4. a \notin leaked
  BY <1>3 DEF Field
<1>5. DOMAIN key' = DOMAIN key \ {a} /\ \A x \in DOMAIN key' : key'[x] = key[x]
  BY <1>1, Zenon DEF Drop
<1> HIDE DEF a
<1>6. /\ Dom(Freed(a)) = DOMAIN link \ {a} /\ Freed(a).link = Drop(link, a)
      /\ \A x, f : x # a => Get(Freed(a), x, f) = Get(Tree, x, f)
      /\ Usable(Tree) => Usable(Freed(a))
  BY FreedGets, Zenon
<1>7. Sane(Tree', key', Addresses, leaked', op')
  <2>1. Fits(Freed(a), Addresses, DOMAIN link \ {a}, Nexts(Freed(a)))
    BY <1>3, SaneParts, FreedFits
  <2>2. DOMAIN Freed(a).link = DOMAIN link \ {a}
    BY <1>6 DEF Dom
  <2>3. \A x \in leaked : Get(Freed(a), x, "next") # NULL
    BY <1>3, <1>4, <1>6
  <2>4. Sane(Freed(a), key', Addresses, leaked, Idle)
    BY <2>1, <2>2, <2>3, <1>3, <1>4, <1>5, StoppedFits DEF Sane
  <2> QED BY <2>4, <1>1, <1>2
<1>8. NodesFit'
  <2>1. \A x \in DOMAIN key' : key'[x] \in Keys
    BY <1>5 DEF IInv, NodesFit
  <2> QED BY <1>1, <1>7, <2>1 DEF IInv, NodesFit
<1>9. ASSUME whole PROVE Steady(Tree', key', leaked', op')
  <2> DEFINE N == DOMAIN link \ (leaked \cup {a})
  <2>1. PICK H, D : AtRest(Tree, key, N, H, D)
    BY <1>1, <1>9, OutSteady DEF a
  <2>2. Usable(Tree) /\ IsFiniteSet(Dom(Tree)) /\ Dom(Tree) = DOMAIN link
    BY <1>1, <1>9, OutSteady
  <2> DEFINE m == key'
  <2>3. \A x \in N : m[x] = key[x]
    BY <1>3, <1>5
  <2>4. a \notin N /\ N \subseteq DOMAIN link /\ N = Dom(Freed(a)) \ leaked /\ leaked \subseteq Dom(Freed(a))
    BY <1>3, <1>4, <1>6
  <2> HIDE DEF N, m
  <2>5. AtRest(Freed(a), m, N, H, D)
    BY <2>1, <2>3, <2>4, FreedRest
  <2>6. Usable(Freed(a)) /\ IsFiniteSet(Dom(Freed(a)))
    BY <2>2, <1>6, FS_Subset
  <2>7. Steady(Freed(a), m, leaked, Idle)
    BY <2>4, <2>5, <2>6, RestSteady
  <2> QED BY <2>7, <1>1, <1>2 DEF m
<1>10. whole' => WholeTree'
  BY <1>1, <1>9, IdleParts DEF WholeTree
<1> QED BY <1>8, <1>10 DEF IInv

\* The same where the code returns without freeing it.
LEMMA LeakNodeIInv ==
  ASSUME IInv, LeakNode
  PROVE  IInv'
<1> DEFINE a == op.node
           out == leaked \cup {a}
<1>1. /\ op.pc = "unlinked" /\ leaked' = out /\ op' = Idle
      /\ key' = key /\ link' = link /\ root' = root /\ whole' = whole /\ sought' = sought
  BY DEF LeakNode
<1>2. Tree' = Tree
  BY <1>1 DEF Tree
<1>3. /\ Sane(Tree, key, Addresses, leaked, op) /\ DOMAIN link = DOMAIN key /\ leaked \subseteq DOMAIN key
      /\ a \in DOMAIN link /\ Get(Tree, a, "next") # NULL
      /\ \A x \in leaked \cap DOMAIN link : Get(Tree, x, "next") # NULL
  BY <1>1, TreeParts DEF IInv, NodesFit, Sane
<1>4. out \subseteq DOMAIN link
  BY <1>3
<1>5. Sane(Tree, key, Addresses, out, Idle)
  BY <1>3, <1>4, TreeParts, StoppedFits DEF Sane
<1>6. NodesFit'
  BY <1>1, <1>2, <1>5 DEF IInv, NodesFit
<1>7. ASSUME whole PROVE Steady(Tree, key, out, Idle)
  <2> DEFINE N == DOMAIN link \ out
  <2>1. PICK H, D : AtRest(Tree, key, N, H, D)
    BY <1>1, <1>7, OutSteady
  <2>2. Usable(Tree) /\ IsFiniteSet(Dom(Tree)) /\ Dom(Tree) = DOMAIN link
    BY <1>1, <1>7, OutSteady
  <2> HIDE DEF out
  <2> QED BY <2>1, <2>2, <1>4, RestSteady
<1>8. whole' => WholeTree'
  BY <1>1, <1>2, <1>7, IdleParts DEF WholeTree
<1> QED BY <1>6, <1>8 DEF IInv

\* No step of the tree can be taken where Delete looks for its node.
LEMMA TreeStepIInv ==
  ASSUME IInv, TreeStep, UNCHANGED <<sought, leaked>>
  PROVE  IInv'
<1>1. Sane(Tree', key', Addresses, leaked', op')
  BY TreeStepSane DEF IInv, NodesFit
<1>2. key' = key /\ sought' = sought /\ leaked' = leaked
  BY DEF TreeStep, Descend, PushEqual, AttachRoot, Attach, Fixup, FixupEnds, UnlinkHead, DeleteLeaf,
       DeleteWithChild, DeleteInner, Smallest, Swap, NoSibling, RedSibling, BlackSiblingRedNephew,
       BlackSibling, FixedAtRoot, UnlinkLeaf, Undefined, Becomes
<1>3. NodesFit'
  BY <1>1, <1>2, TreeStepWhole DEF IInv, NodesFit
<1>4. ASSUME whole' PROVE WholeTree'
  <2>1. whole /\ WholeTree
    BY <1>4, DamageStays DEF IInv
  <2>2. op.pc \notin {"find", "aborted"}
    <3>1. SUFFICES ASSUME op.pc \in {"find", "aborted"} PROVE FALSE
      OBVIOUS
    <3>2. ~(Reads \subseteq DOMAIN link)
      BY <3>1, TreeStepWhere
    <3>3. op.pc = "find"
      BY <3>1, <3>2 DEF Reads
    <3>4. Reads = {op.cur} \ {NULL}
      BY <3>3 DEF Reads
    <3>5. PICK H, D : Finding(H, D)
      BY <2>1, <3>3 DEF WholeTree
    <3>6. H \subseteq DOMAIN link /\ op.cur \in H \cup {NULL}
      BY <3>5 DEF Finding, AtRest, Sound, HasListing, Listing
    <3> QED BY <3>2, <3>4, <3>6
  <2>3. Steady(Tree', key', leaked, op')
    BY <2>1, <2>2, <1>4, TreeStepSteady DEF WholeTree
  <2>4. op'.pc \notin {"find", "aborted"}
    <3>1. \E H, D : Phase(Tree', key', Dom(Tree') \ Out(op', leaked), H, D, op')
      BY <2>3 DEF Steady
    <3> QED BY <3>1 DEF Phase
  <2> QED BY <1>2, <2>3, <2>4 DEF WholeTree
<1> QED BY <1>3, <1>4 DEF IInv

\* Nothing changes.
LEMMA StutterIInv ==
  ASSUME IInv, UNCHANGED vars
  PROVE  IInv'
BY DEF IInv, NodesFit, WholeTree, Finding, Gone, vars, treeVars, Tree

\* Every step keeps the invariant.
LEMMA Inductive == IInv /\ [Next]_vars => IInv'
BY InsertIInv, DeleteIInv, FindIInv, MissingIInv, FreeNodeIInv, LeakNodeIInv, TreeStepIInv, StutterIInv DEF Next

\* The invariant holds of every behaviour: the tree is red-black at rest, and
\* in the middle of an operation what Steady says.
THEOREM Invariance == Spec => []IInv
BY InitIInv, Inductive, PTL DEF Spec

\* What the runs check follows: the types, ...
LEMMA FitType == IInv => TypeOK
<1> SUFFICES ASSUME IInv PROVE TypeOK
  OBVIOUS
<1>1. /\ Sane(Tree, key, Addresses, leaked, op) /\ Fits(Tree, Addresses, DOMAIN link, Nexts(Tree))
      /\ \A a \in DOMAIN key : key[a] \in Keys
      /\ whole \in BOOLEAN /\ sought \in {NULL} \cup Keys
  BY SaneParts DEF IInv, NodesFit
<1>2. /\ DOMAIN key \subseteq Addresses /\ DOMAIN link \subseteq DOMAIN key /\ leaked \subseteq DOMAIN key
      /\ op.pc = "idle" => DOMAIN link = DOMAIN key
  BY <1>1, TreeParts DEF Sane
<1>3. /\ \A a \in DOMAIN link : link[a] \in Links(Addresses)
      /\ root \in Spots(Addresses)
  BY <1>1, TreeParts DEF Fits
<1> QED BY <1>1, <1>2, <1>3 DEF TypeOK, Links, Spots

\* ... the shape of the tree and what its lists hold, ...
LEMMA FitShape == IInv => RedBlackTree /\ NothingLost
<1> SUFFICES ASSUME IInv, Resting PROVE SearchTree /\ Balanced /\ Lists /\ Listed = DOMAIN key \ leaked
  BY DEF RedBlackTree, NothingLost
<1>1. whole /\ op.pc = "idle"
  BY DEF Resting
<1>2. PICK H, D : AtRest(Tree, key, DOMAIN link \ leaked, H, D)
  BY <1>1, IdleSteady
<1>3. Usable(Tree) /\ IsFiniteSet(Nodes) /\ DOMAIN link = DOMAIN key
  BY <1>1, IdleSteady, TreeParts DEF Nodes, IInv, NodesFit, Sane
<1> QED BY <1>2, <1>3, RestShape

\* ... and that nothing is read that is not there.
LEMMA FitFault == IInv => NoFault
<1> SUFFICES ASSUME IInv, whole PROVE op.pc # "undefined" /\ (op.pc = "aborted" => Gone)
  BY DEF NoFault, Gone
<1>1. op.pc = "aborted" => Gone
  BY DEF IInv, WholeTree
<1>2. op.pc # "undefined"
  <2>1. SUFFICES ASSUME op.pc = "undefined" PROVE FALSE
    OBVIOUS
  <2>2. Steady(Tree, key, leaked, op)
    BY <2>1 DEF IInv, WholeTree
  <2> QED BY <2>1, <2>2 DEF Steady, Phase
<1> QED BY <1>1, <1>2

\* Nodes and links stay what their types say, in a damaged tree too.
THEOREM TypeCorrect == Spec => []TypeOK
BY Invariance, FitType, PTL

\* Between two operations the tree is a balanced search tree.
THEOREM StaysRedBlack == Spec => []RedBlackTree
BY Invariance, FitShape, PTL

\* What was inserted and not deleted is in the tree or in a list under its key.
THEOREM LosesNothing == Spec => []NothingLost
BY Invariance, FitShape, PTL

\* Insert and Delete follow no pointer that leads nowhere, and Delete finds what is there.
THEOREM NeverFaults == Spec => []NoFault
BY Invariance, FitFault, PTL

-----------------------------------------------------------------------------
(* Every loop ends. RepairsClimb's variant counts nodes that can be reached; *)
(* the steps are shown of the same numbers read off the tree H, D.           *)

\* The heads on the way from the root to a, a among them.
Up(H, D, a) == {h \in H : a \in D[h]}

\* Variant, by the witnesses of the proofs.
Measure(t, H, D, o) ==
  CASE o.pc \in {"find", "descend", "smallest"} -> Cardinality(D[o.cur])
    [] o.pc = "fixup" -> Cardinality(Up(H, D, o.cur))
    [] o.pc = "fixdb" ->
         IF Get(t, o.cur, "parent") # NULL /\ Get(t, Get(t, o.cur, "parent"), "color") = RED THEN 1
         ELSE 2 * Cardinality(Up(H, D, o.cur))
    [] OTHER -> 0

\* Where the operation stands at a head, or at the end of a way down, they agree.
Measured ==
  Usable(Tree) /\ IsFiniteSet(Dom(Tree)) =>
    \A H, D :
      IsTree(Tree, H, D) /\ (op.cur \in H \/ (op.cur = NULL /\ op.pc \in {"find", "descend", "smallest"}))
        => Variant = Measure(Tree, H, D, op)

LEMMA MeasuredAlways == Measured
<1> SUFFICES ASSUME Usable(Tree), IsFiniteSet(Dom(Tree)), NEW H, NEW D, IsTree(Tree, H, D),
                    op.cur \in H \/ (op.cur = NULL /\ op.pc \in {"find", "descend", "smallest"})
             PROVE  Variant = Measure(Tree, H, D, op)
  BY DEF Measured
<1>1. Dom(Tree) = Nodes /\ IsFiniteSet(Nodes) /\ NULL \notin Nodes /\ D[NULL] = {}
  BY NodesOf DEF Usable, IsTree, IsTreeBy
<1>2. Below(NULL) = {}
  <2> DEFINE F == {"left", "right"}
             K == {}
  <2>1. /\ {NULL} \cap Nodes \subseteq K
        /\ \A a \in K \cap Nodes, f \in F : link[a][f] \in Nodes => link[a][f] \in K
    BY <1>1
  <2>2. Reach({NULL}, F) \subseteq K
    <3> HIDE DEF K, F
    <3> QED BY <1>1, <2>1, ReachIs
  <2> QED BY <2>2 DEF Below
<1>3. \A a \in H : Below(a) = D[a]
  BY <1>1, BelowIs
<1>4. Heads = H
  BY <1>1, HeadsAre
<1>5. \A a \in H : Path(a) = Up(H, D, a)
  BY <1>3, <1>4 DEF Path, Up
<1>6. CASE op.pc \in {"find", "descend", "smallest"}
  <2>1. Below(op.cur) = D[op.cur]
    BY <1>1, <1>2, <1>3
  <2>2. Variant = Cardinality(Below(op.cur))
    BY <1>6 DEF Variant
  <2>3. Measure(Tree, H, D, op) = Cardinality(D[op.cur])
    BY <1>6 DEF Measure
  <2> QED BY <2>1, <2>2, <2>3
<1>7. CASE op.pc = "fixup"
  <2>1. Path(op.cur) = Up(H, D, op.cur)
    BY <1>5, <1>7
  <2>2. Variant = Cardinality(Path(op.cur))
    BY <1>7 DEF Variant
  <2>3. Measure(Tree, H, D, op) = Cardinality(Up(H, D, op.cur))
    BY <1>7 DEF Measure
  <2> QED BY <2>1, <2>2, <2>3
<1>8. CASE op.pc = "fixdb"
  <2>1. Path(op.cur) = Up(H, D, op.cur)
    BY <1>5, <1>8
  <2> DEFINE p == Get(Tree, op.cur, "parent")
             red == p # NULL /\ Get(Tree, p, "color") = RED
  <2>2. IsRed(Field(op.cur, "parent")) <=> red
    BY DEF IsRed, Field
  <2>3. Variant = IF IsRed(Field(op.cur, "parent")) THEN 1 ELSE 2 * Cardinality(Path(op.cur))
    BY <1>8 DEF Variant
  <2>4. Measure(Tree, H, D, op) = IF red THEN 1 ELSE 2 * Cardinality(Up(H, D, op.cur))
    BY <1>8 DEF Measure
  <2> HIDE DEF red
  <2> QED BY <2>1, <2>2, <2>3, <2>4
<1>9. CASE op.pc \notin {"find", "descend", "smallest", "fixup", "fixdb"}
  <2>1. Variant = 0
    BY <1>9 DEF Variant
  <2>2. Measure(Tree, H, D, op) = 0
    BY <1>9 DEF Measure
  <2> QED BY <2>1, <2>2
<1> QED BY <1>6, <1>7, <1>8, <1>9

\* A set with less in it counts less.
LEMMA CountsLess ==
  ASSUME NEW S, IsFiniteSet(S), NEW T, T \subseteq S, NEW x \in S, x \notin T
  PROVE  Cardinality(T) \in Nat /\ Cardinality(S) \in Nat /\ Cardinality(T) < Cardinality(S)
<1>1. IsFiniteSet(T) /\ Cardinality(T) <= Cardinality(S) /\ Cardinality(T) # Cardinality(S)
  BY FS_Subset
<1>2. Cardinality(T) \in Nat /\ Cardinality(S) \in Nat
  BY <1>1, FS_CardinalityType
<1> QED BY <1>1, <1>2

\* There is less below a child, ...
LEMMA ChildLess ==
  ASSUME NEW t, NEW H, NEW D, IsTree(t, H, D), IsFiniteSet(H), NEW a \in H, NEW s \in Sides
  PROVE  Cardinality(D[Get(t, a, s)]) < Cardinality(D[a])
<1>1. /\ D \in [H \cup {NULL} -> SUBSET H] /\ a \in D[a] /\ a \notin D[Get(t, a, s)]
      /\ Get(t, a, s) \in H \cup {NULL}
      /\ \A b \in H : b \in D[Get(t, a, s)] => b \in D[a]
  BY DEF IsTree, IsTreeBy, Sides
<1>2. D[a] \subseteq H /\ D[Get(t, a, s)] \subseteq D[a]
  BY <1>1
<1>3. IsFiniteSet(D[a])
  BY <1>2, FS_Subset
<1> QED BY <1>1, <1>2, <1>3, CountsLess

\* ... and less above a parent.
LEMMA ParentLess ==
  ASSUME NEW t, NEW H, NEW D, IsTree(t, H, D), IsFiniteSet(H), NEW p \in H, NEW s \in Sides,
         NEW c \in H, c = Get(t, p, s)
  PROVE  /\ Cardinality(Up(H, D, p)) \in Nat /\ Cardinality(Up(H, D, c)) \in Nat
         /\ Cardinality(Up(H, D, p)) < Cardinality(Up(H, D, c))
<1>1. c \in D[c] /\ p \notin D[c] /\ p \in D[p]
  BY DEF IsTree, IsTreeBy, Sides
<1>2. c \in D[p]
  BY <1>1 DEF IsTree, IsTreeBy, Sides
<1>3. Up(H, D, p) \subseteq Up(H, D, c)
  BY <1>2 DEF IsTree, IsTreeBy, Up
<1>4. c \in Up(H, D, c) /\ c \notin Up(H, D, p) /\ Up(H, D, c) \subseteq H
  BY <1>1 DEF Up
<1>5. IsFiniteSet(Up(H, D, c))
  BY <1>4, FS_Subset
<1> QED BY <1>3, <1>4, <1>5, CountsLess

\* A rotation puts nothing above the node it raises that was not above it, and
\* takes the one it lowers away.
LEMMA RotateUp ==
  ASSUME NEW t, NEW H, NEW D, Usable(t), IsTree(t, H, D), NEW p \in H, NEW f \in Sides,
         NEW c, c = Get(t, p, Other(f)), c # NULL
  PROVE  /\ Usable(Rotate(t, p, f)) /\ Dom(Rotate(t, p, f)) = Dom(t) /\ c \in H /\ c # p
         /\ Rotated(t, Rotate(t, p, f), p, f, Other(f))
         /\ \E E : /\ IsTree(Rotate(t, p, f), H, E)
                   /\ Up(H, E, c) \subseteq Up(H, D, c) \cup {c} /\ p \notin Up(H, E, c)
<1> DEFINE r == Rotate(t, p, f)
           g == Other(f)
           E == RotatedBelow(t, H, D, p, f, g)
           d == Get(t, c, f)
           e == Get(t, p, f)
           h == Get(t, c, g)
           u == Get(t, p, "parent")
<1>d. c = Get(t, p, g) /\ d = Get(t, c, f) /\ e = Get(t, p, f) /\ h = Get(t, c, g) /\ g = Other(f)
      /\ u = Get(t, p, "parent") /\ E = RotatedBelow(t, H, D, p, f, g) /\ r = Rotate(t, p, f)
  OBVIOUS
<1> HIDE DEF r, g, E, d, e, h, u
<1>1. Usable(r) /\ Rotated(t, r, p, f, g) /\ IsTree(r, H, E)
  BY <1>d, RotateKeepsTree
<1>2. f # g /\ IsTreeBy(t, H, D, f, g)
  BY <1>d, EitherSide DEF Other, Sides
<1>3. RotateBefore(t, H, D, p, c, d, e, h) /\ RotateAfter(t, r, H, D, p, f, g, c, d, e, h, u, E)
  BY <1>1, <1>2, <1>d, RotateFacts
<1>4. c \in H /\ c # p /\ c \notin D[d] /\ c \notin D[e]
  BY <1>3 DEF RotateBefore
<1>5. E[p] = {p} \cup D[e] \cup D[d] /\ \A x \in H \cup {NULL} : x # c /\ x # p => E[x] = D[x]
  BY <1>3 DEF RotateAfter
<1>6. c \notin E[p]
  BY <1>4, <1>5
<1>7. Up(H, E, c) \subseteq Up(H, D, c) \cup {c} /\ p \notin Up(H, E, c)
  BY <1>5, <1>6 DEF Up
<1>8. Dom(r) = Dom(t)
  BY <1>1 DEF Rotated
<1> QED BY <1>1, <1>4, <1>7, <1>8, <1>d

\* Colours written after it do not matter.
LEMMA PaintTree ==
  ASSUME NEW t, Usable(t), NEW H, NEW D, IsTree(t, H, D), NEW a \in H, NEW v
  PROVE  LET s == Set(t, a, "color", v)
         IN  Usable(s) /\ Dom(s) = Dom(t) /\ IsTree(s, H, D) /\ SameLinks(t, s)
             /\ \A b : Get(s, b, "color") = IF b = a THEN v ELSE Get(t, b, "color")
<1> DEFINE s == Set(t, a, "color", v)
<1>1. a \in Dom(t)
  BY DEF IsTree, IsTreeBy
<1>2. /\ Usable(s) /\ Dom(s) = Dom(t) /\ Root(s) = Root(t)
      /\ \A b, g : g \in Fields => Get(s, b, g) = IF b = a /\ g = "color" THEN v ELSE Get(t, b, g)
  BY <1>1, SetGets DEF Fields
<1> HIDE DEF s
<1>3. SameLinks(t, s)
  BY <1>2 DEF SameLinks, Fields
<1>4. \A b : Get(s, b, "color") = IF b = a THEN v ELSE Get(t, b, "color")
  BY <1>2 DEF Fields
<1>5. IsTree(s, H, D)
  BY <1>3, SameTree
<1> QED BY <1>2, <1>3, <1>4, <1>5 DEF s

-----------------------------------------------------------------------------
\* Where a loop stands: at a head, or at the end of a way down.
Standing(o, H) == o.cur \in H \/ (o.cur = NULL /\ o.pc \in {"find", "descend", "smallest"})

\* From the tree t and the operation o to s and n what is left of the loop gets less.
Falls(t, o, s, n) ==
  \E H, D, E : /\ IsTree(t, H, D) /\ Standing(o, H)
               /\ Usable(s) /\ Dom(s) = Dom(t) /\ IsTree(s, H, E) /\ Standing(n, H)
               /\ Measure(s, H, E, n) < Measure(t, H, D, o)

LEMMA FallsLess ==
  ASSUME Measured, Measured', Usable(Tree), IsFiniteSet(Dom(Tree)), Falls(Tree, op, Tree', op')
  PROVE  Variant' < Variant
<1>1. PICK H, D, E : /\ IsTree(Tree, H, D) /\ Standing(op, H)
                     /\ Usable(Tree') /\ Dom(Tree') = Dom(Tree) /\ IsTree(Tree', H, E) /\ Standing(op', H)
                     /\ Measure(Tree', H, E, op') < Measure(Tree, H, D, op)
  BY DEF Falls
<1>2. Variant = Measure(Tree, H, D, op)
  BY <1>1 DEF Measured, Standing
<1>3. Variant' = Measure(Tree', H, E, op')
  BY <1>1 DEF Measured, Standing
<1> QED BY <1>1, <1>2, <1>3

\* One step down.
LEMMA DownFalls ==
  ASSUME NEW t, NEW o, NEW n, NEW H, NEW D, NEW s \in Sides, Usable(t), IsFiniteSet(Dom(t)), IsTree(t, H, D),
         o.cur \in H, o.pc \in {"find", "descend", "smallest"}, n.pc = o.pc, n.cur = Get(t, o.cur, s)
  PROVE  Falls(t, o, t, n)
<1>1. IsFiniteSet(H) /\ n.cur \in H \cup {NULL}
  BY TreeLinks, FS_Subset DEF Sides
<1>2. Cardinality(D[n.cur]) < Cardinality(D[o.cur])
  BY <1>1, ChildLess
<1>3. Measure(t, H, D, n) < Measure(t, H, D, o)
  BY <1>2 DEF Measure
<1> QED BY <1>1, <1>3 DEF Falls, Standing

\* A rotation that raises the child q of g, and the colours changing places.
LEMMA TurnedUp ==
  ASSUME NEW t, NEW H, NEW D, Usable(t), IsTree(t, H, D), NEW g \in H, NEW f \in Sides,
         NEW q, q = Get(t, g, f), q # NULL
  PROVE  LET r == Rotate(t, g, Other(f))
             s == Set(Set(r, q, "color", Get(r, g, "color")), g, "color", Get(r, q, "color"))
         IN  /\ Usable(s) /\ Dom(s) = Dom(t) /\ q \in H
             /\ \E E : IsTree(s, H, E) /\ Up(H, E, q) \subseteq Up(H, D, q) \cup {q} /\ g \notin Up(H, E, q)
<1> DEFINE r == Rotate(t, g, Other(f))
           v == Get(r, g, "color")
           w == Get(r, q, "color")
           s1 == Set(r, q, "color", v)
           s == Set(s1, g, "color", w)
<1>1. Other(f) \in Sides /\ Other(Other(f)) = f
  BY DEF Other, Sides
<1>2. /\ Usable(r) /\ Dom(r) = Dom(t) /\ q \in H
      /\ \E E : /\ IsTree(r, H, E)
                /\ Up(H, E, q) \subseteq Up(H, D, q) \cup {q} /\ g \notin Up(H, E, q)
  BY <1>1, RotateUp
<1> HIDE DEF r, v, w
<1>3. PICK E : /\ IsTree(r, H, E)
               /\ Up(H, E, q) \subseteq Up(H, D, q) \cup {q} /\ g \notin Up(H, E, q)
  BY <1>2
<1>4. Usable(s1) /\ Dom(s1) = Dom(r) /\ IsTree(s1, H, E)
  BY <1>2, <1>3, PaintTree
<1> HIDE DEF s1
<1>5. Usable(s) /\ Dom(s) = Dom(s1) /\ IsTree(s, H, E)
  BY <1>4, PaintTree
<1> HIDE DEF s
<1>6. /\ Usable(s) /\ Dom(s) = Dom(t) /\ q \in H
      /\ \E F : IsTree(s, H, F) /\ Up(H, F, q) \subseteq Up(H, D, q) \cup {q} /\ g \notin Up(H, F, q)
  BY <1>2, <1>3, <1>4, <1>5
<1> QED BY <1>6 DEF s, s1, v, w, r

\* One iteration of the repair after an insertion: up to the grandparent, or to the
\* node a rotation has raised.
LEMMA FixupFalls ==
  ASSUME NEW out, Steady(Tree, key, out, op), Fixup
  PROVE  Falls(Tree, op, Tree', op')
<1> DEFINE N == Dom(Tree) \ out
           c == op.cur
           p == Get(Tree, c, "parent")
           g == Get(Tree, p, "parent")
           f == IF p = Get(Tree, g, "left") THEN "left" ELSE "right"
           u == Get(Tree, g, Other(f))
           inner == c = Get(Tree, p, Other(f))
           t1 == IF inner THEN Rotate(Tree, p, f) ELSE Tree
           q == IF inner THEN Get(t1, p, "parent") ELSE p
           t2 == Rotate(t1, g, Other(f))
           s1 == Set(Set(Set(Tree, g, "color", RED), p, "color", BLACK), u, "color", BLACK)
           s2 == Set(Set(t2, q, "color", Get(t2, g, "color")), g, "color", Get(t2, q, "color"))
<1>0. /\ op.pc = "fixup" /\ RedUnderRed
      /\ \/ Get(Tree, u, "color") = RED /\ Becomes(s1, [op EXCEPT !.cur = g])
         \/ Get(Tree, u, "color") = BLACK /\ Becomes(s2, [op EXCEPT !.cur = q])
  BY DEF Fixup, At, Field
<1>1. PICK H, D : /\ Repairing(Tree, key, N, H, D, op)
                  /\ Usable(Tree) /\ IsFiniteSet(Dom(Tree)) /\ out \subseteq Dom(Tree) /\ OpRecord(op)
  BY <1>0, FixupParts
<1>2. c # Root(Tree) /\ Get(Tree, c, "color") = RED /\ Get(Tree, p, "color") = RED
  BY <1>0 DEF RedUnderRed, Field, Root, Tree
<1>d. c = op.cur /\ p = Get(Tree, c, "parent") /\ g = Get(Tree, p, "parent")
      /\ f = (IF p = Get(Tree, g, "left") THEN "left" ELSE "right") /\ u = Get(Tree, g, Other(f))
  OBVIOUS
<1> HIDE DEF c, p, g, f, u
<1>3. Around(Tree, H, c, p, g, f)
  BY <1>1, <1>2, <1>d, FixupAround
<1>4. IsTree(Tree, H, D) /\ NULL \notin H /\ IsFiniteSet(H)
  <2>1. IsTree(Tree, H, D)
    BY <1>1 DEF Repairing, Sound, RedBlack
  <2> QED BY <2>1, <1>1, TreeLinks, FS_Subset
<1>5. /\ f \in Sides /\ Other(f) \in Sides /\ g \in H /\ p \in H /\ c \in H /\ p = Get(Tree, g, f) /\ p # NULL /\ c # NULL
      /\ c = Get(Tree, p, f) \/ c = Get(Tree, p, Other(f))
  BY <1>3, <1>4 DEF Around, Other, Sides
<1>6. /\ Cardinality(Up(H, D, p)) \in Nat /\ Cardinality(Up(H, D, c)) \in Nat /\ Cardinality(Up(H, D, g)) \in Nat
      /\ Cardinality(Up(H, D, p)) < Cardinality(Up(H, D, c))
      /\ Cardinality(Up(H, D, g)) < Cardinality(Up(H, D, p))
  BY <1>4, <1>5, ParentLess
<1>7. Measure(Tree, H, D, op) = Cardinality(Up(H, D, c)) /\ Standing(op, H)
  BY <1>0, <1>5 DEF Measure, Standing, c
<1>8. ASSUME NEW s, Usable(s), Dom(s) = Dom(Tree), NEW z \in H, Becomes(s, [op EXCEPT !.cur = z]),
             NEW E, IsTree(s, H, E), Cardinality(Up(H, E, z)) < Cardinality(Up(H, D, c))
      PROVE  Falls(Tree, op, Tree', op')
  <2>1. Tree' = s /\ op' = [op EXCEPT !.cur = z]
    BY <1>8, BecomesTree
  <2>2. op'.pc = "fixup" /\ op'.cur = z
    BY <2>1, <1>0, <1>1 DEF OpRecord
  <2>3. Measure(s, H, E, op') = Cardinality(Up(H, E, z)) /\ Standing(op', H)
    BY <2>2 DEF Measure, Standing
  <2> QED BY <2>1, <2>3, <1>4, <1>7, <1>8 DEF Falls
<1>9. CASE Get(Tree, u, "color") = RED /\ Becomes(s1, [op EXCEPT !.cur = g])
  <2>1. u \in H
    <3>1. u \in H \cup {NULL}
      BY <1>4, <1>5, <1>d, TreeLinks DEF Sides
    <3>2. u # NULL
      <4>1. SUFFICES ASSUME u = NULL PROVE FALSE
        OBVIOUS
      <4>2. Get(Tree, NULL, "color") = NULL
        BY <1>1 DEF Usable, Get, Dom
      <4> QED BY <4>1, <4>2, <1>9 DEF NULL, RED
    <3> QED BY <3>1, <3>2
  <2> DEFINE a == Set(Tree, g, "color", RED)
             b == Set(a, p, "color", BLACK)
  <2>2. Usable(a) /\ Dom(a) = Dom(Tree) /\ IsTree(a, H, D)
    BY <1>1, <1>4, <1>5, PaintTree
  <2> HIDE DEF a
  <2>3. Usable(b) /\ Dom(b) = Dom(a) /\ IsTree(b, H, D)
    BY <2>2, <1>5, PaintTree
  <2>e. s1 = Set(b, u, "color", BLACK)
    BY DEF a
  <2> HIDE DEF b, s1
  <2>4. Usable(s1) /\ Dom(s1) = Dom(b) /\ IsTree(s1, H, D)
    BY <2>1, <2>3, <2>e, PaintTree
  <2>5. Cardinality(Up(H, D, g)) < Cardinality(Up(H, D, c))
    BY <1>6
  <2> QED BY <2>2, <2>3, <2>4, <2>5, <1>5, <1>8, <1>9
<1>10. CASE Get(Tree, u, "color") = BLACK /\ Becomes(s2, [op EXCEPT !.cur = q])
  <2>0. /\ c \in Up(H, D, c) /\ p \in Up(H, D, c) /\ p \in Up(H, D, p) /\ c \notin Up(H, D, p) /\ IsFiniteSet(Up(H, D, c))
        /\ Up(H, D, p) \subseteq Up(H, D, c)
    <3>1. c \in D[c] /\ p \in D[p] /\ p \notin D[c]
      BY <1>4, <1>5 DEF IsTree, IsTreeBy, Sides, Other
    <3>2. c \in D[p]
      BY <3>1, <1>4, <1>5 DEF IsTree, IsTreeBy, Sides, Other
    <3>3. \A x \in H : p \in D[x] => c \in D[x]
      BY <3>2, <1>4, <1>5 DEF IsTree, IsTreeBy
    <3>4. Up(H, D, c) \subseteq H
      BY DEF Up
    <3> QED BY <3>1, <3>2, <3>3, <3>4, <1>4, <1>5, FS_Subset DEF Up
  <2>1. /\ Usable(s2) /\ Dom(s2) = Dom(Tree) /\ q \in H
        /\ \E E : IsTree(s2, H, E) /\ Up(H, E, q) \subseteq Up(H, D, c) /\ \E x \in Up(H, D, c) : x \notin Up(H, E, q)
    <3>1. CASE inner
      <4>0. t1 = Rotate(Tree, p, f) /\ c = Get(Tree, p, Other(f)) /\ inner
        BY <3>1
      <4> HIDE DEF t1
      <4>1. /\ Usable(t1) /\ Dom(t1) = Dom(Tree) /\ c # p /\ Rotated(Tree, t1, p, f, Other(f))
            /\ \E E : IsTree(t1, H, E) /\ Up(H, E, c) \subseteq Up(H, D, c) \cup {c} /\ p \notin Up(H, E, c)
        BY <4>0, <1>1, <1>4, <1>5, RotateUp
      <4>2. PICK E : IsTree(t1, H, E) /\ Up(H, E, c) \subseteq Up(H, D, c) \cup {c} /\ p \notin Up(H, E, c)
        BY <4>1
      <4>3. Get(t1, p, "parent") = c /\ Get(t1, g, f) = c
        <5>1. Get(t1, p, "parent") = c
          BY <4>0, <4>1 DEF Rotated
        <5>2. g # p /\ g # c
          <6>1. g \notin D[p] /\ p \in D[p] /\ c \in D[p]
            <7>1. g \notin D[p] /\ p \in D[p]
              BY <1>4, <1>5 DEF IsTree, IsTreeBy, Sides
            <7> QED BY <7>1, <2>0 DEF Up
          <6> QED BY <6>1
        <5>3. Get(t1, g, f) = c
          BY <4>0, <4>1, <5>2, <1>5, <1>d DEF Rotated
        <5> QED BY <5>1, <5>3
      <4>4. q = c
        BY <4>0, <4>3
      <4> HIDE DEF q
      <4>5. /\ Usable(s2) /\ Dom(s2) = Dom(t1) /\ q \in H
            /\ \E F : IsTree(s2, H, F) /\ Up(H, F, q) \subseteq Up(H, E, q) \cup {q} /\ g \notin Up(H, F, q)
        BY <4>1, <4>2, <4>3, <4>4, <1>5, TurnedUp
      <4>6. PICK F : IsTree(s2, H, F) /\ Up(H, F, q) \subseteq Up(H, E, q) \cup {q}
        BY <4>5
      <4>7. Up(H, F, q) \subseteq Up(H, D, c) /\ p \notin Up(H, F, q)
        BY <4>1, <4>2, <4>4, <4>6, <2>0
      <4> HIDE DEF s2
      <4> QED BY <4>1, <4>5, <4>6, <4>7, <2>0
    <3>2. CASE ~inner
      <4>1. t1 = Tree /\ q = p
        BY <3>2
      <4> HIDE DEF t1, q
      <4>2. /\ Usable(s2) /\ Dom(s2) = Dom(Tree) /\ q \in H
            /\ \E F : IsTree(s2, H, F) /\ Up(H, F, q) \subseteq Up(H, D, q) \cup {q} /\ g \notin Up(H, F, q)
        BY <4>1, <1>1, <1>4, <1>5, TurnedUp
      <4> HIDE DEF s2
      <4>3. PICK F : IsTree(s2, H, F) /\ Up(H, F, q) \subseteq Up(H, D, q) \cup {q}
        BY <4>2
      <4>4. Up(H, F, q) \subseteq Up(H, D, c) /\ c \notin Up(H, F, q)
        <5>1. c # p
          BY <2>0
        <5> QED BY <5>1, <4>1, <4>3, <2>0
      <4> QED BY <4>2, <4>3, <4>4, <2>0
    <3> QED BY <3>1, <3>2
  <2> HIDE DEF s2, q
  <2>2. PICK E : IsTree(s2, H, E) /\ Up(H, E, q) \subseteq Up(H, D, c) /\ \E x \in Up(H, D, c) : x \notin Up(H, E, q)
    BY <2>1
  <2>3. Cardinality(Up(H, E, q)) < Cardinality(Up(H, D, c))
    BY <2>0, <2>2, CountsLess
  <2> QED BY <2>1, <2>2, <2>3, <1>8, <1>10
<1> QED BY <1>0, <1>9, <1>10

\* A red sibling: the rotation leaves the double black under a red parent.
LEMMA RedSiblingFalls ==
  ASSUME NEW out, Steady(Tree, key, out, op), RedSibling
  PROVE  Falls(Tree, op, Tree', op')
<1> DEFINE c == op.cur
<1>1. op.pc = "fixdb" /\ c # root
  BY DEF RedSibling, AtDoubleBlack, At
<1>2. PICK H, D, f, bh, p, s : DoubleBlackAt(out, H, D, f, bh, p, s)
  BY <1>1, DoubleBlackThere
<1>3. /\ IsTree(Tree, H, D) /\ Colored(Tree, H) /\ RedsApart(Tree, H, {}) /\ f \in Sides /\ Other(Other(f)) = f
      /\ c \in H /\ p \in H /\ s \in H /\ p = Get(Tree, c, "parent") /\ c = Get(Tree, p, f) /\ s = Get(Tree, p, Other(f))
      /\ c # s /\ c # p /\ s # p
  BY <1>2 DEF DoubleBlackAt, Black2, BlackAround, Other, Sides
<1>4. /\ p = Field(c, "parent") /\ s = Sibling(c) /\ Side(s) = Other(f) /\ p # NULL /\ s # NULL
      /\ Usable(Tree) /\ IsFiniteSet(Dom(Tree)) /\ OpRecord(op)
  BY <1>2 DEF DoubleBlackAt
<1> HIDE DEF c
<1> DEFINE t1 == Set(Tree, p, "color", RED)
           t2 == Set(t1, s, "color", BLACK)
           r == Rotate(t2, p, f)
<1>5. Get(Tree, s, "color") = RED /\ Becomes(r, op)
  BY <1>3, <1>4 DEF RedSibling, IsRed, Field, c
<1>6. /\ Usable(t1) /\ Dom(t1) = Dom(Tree) /\ IsTree(t1, H, D) /\ SameLinks(Tree, t1)
      /\ \A x : Get(t1, x, "color") = IF x = p THEN RED ELSE Get(Tree, x, "color")
  BY <1>3, <1>4, PaintTree
<1> HIDE DEF t1
<1>7. /\ Usable(t2) /\ Dom(t2) = Dom(t1) /\ IsTree(t2, H, D) /\ SameLinks(t1, t2)
      /\ \A x : Get(t2, x, "color") = IF x = s THEN BLACK ELSE Get(t1, x, "color")
  BY <1>3, <1>6, PaintTree
<1> HIDE DEF t2
<1>8. s = Get(t2, p, Other(f)) /\ p = Get(t2, c, "parent") /\ Get(t2, p, "color") = RED
  <2>1. \A x, y : y \in {"parent", "left", "right", "next"} => Get(t2, x, y) = Get(Tree, x, y)
    BY <1>6, <1>7 DEF SameLinks
  <2>2. s = Get(t2, p, Other(f))
    BY <2>1, <1>3 DEF Other
  <2>3. p = Get(t2, c, "parent")
    BY <2>1, <1>3
  <2>4. Get(t2, p, "color") = RED
    BY <1>3, <1>6, <1>7
  <2> QED BY <2>2, <2>3, <2>4
<1>9. Usable(r) /\ Dom(r) = Dom(t2) /\ Rotated(t2, r, p, f, Other(f)) /\ \E E : IsTree(r, H, E)
  <2>1. Usable(t2) /\ IsTree(t2, H, D) /\ p \in H /\ f \in Sides /\ s = Get(t2, p, Other(f)) /\ s # NULL
    BY <1>3, <1>4, <1>7, <1>8
  <2>2. /\ Usable(Rotate(t2, p, f)) /\ Dom(Rotate(t2, p, f)) = Dom(t2)
        /\ Rotated(t2, Rotate(t2, p, f), p, f, Other(f)) /\ \E E : IsTree(Rotate(t2, p, f), H, E)
    BY <2>1, RotateUp
  <2> QED BY <2>2
<1> HIDE DEF r
<1>10. PICK E : IsTree(r, H, E)
  BY <1>9
<1>11. Get(r, c, "parent") = p /\ Get(r, p, "color") = RED
  BY <1>3, <1>8, <1>9 DEF Rotated
<1>12. Tree' = r /\ op' = op
  BY <1>5, <1>9, BecomesTree
<1>13. Measure(r, H, E, op) = 1 /\ Standing(op, H)
  BY <1>1, <1>3, <1>4, <1>11 DEF Measure, Standing, c
<1>14. Get(Tree, p, "color") = BLACK
  BY <1>3, <1>4, <1>5 DEF Colored, RedsApart, BLACK, RED, Other, Sides
<1>15. Measure(Tree, H, D, op) = 2 * Cardinality(Up(H, D, c))
  BY <1>1, <1>3, <1>14 DEF Measure, c, BLACK, RED
<1>16. /\ Cardinality(Up(H, D, p)) \in Nat /\ Cardinality(Up(H, D, c)) \in Nat
       /\ Cardinality(Up(H, D, p)) < Cardinality(Up(H, D, c))
  <2>1. IsFiniteSet(H)
    BY <1>3, <1>4, TreeLinks, FS_Subset
  <2> QED BY <2>1, <1>3, ParentLess
<1> DEFINE i == Cardinality(Up(H, D, p))
           j == Cardinality(Up(H, D, c))
<1>17. 1 < 2 * j
  <2>1. i \in Nat /\ j \in Nat /\ i < j
    BY <1>16
  <2> HIDE DEF i, j
  <2> QED BY <2>1
<1> QED BY <1>3, <1>6, <1>7, <1>9, <1>10, <1>12, <1>13, <1>15, <1>17 DEF Falls

\* A black sibling without red children: the double black goes to a black parent.
LEMMA BlackSiblingFalls ==
  ASSUME NEW out, Steady(Tree, key, out, op), BlackSibling, op'.pc = op.pc
  PROVE  Falls(Tree, op, Tree', op')
<1> DEFINE c == op.cur
<1>1. op.pc = "fixdb" /\ c # root
  BY DEF BlackSibling, AtDoubleBlack, At
<1>2. PICK H, D, f, bh, p, s : DoubleBlackAt(out, H, D, f, bh, p, s)
  BY <1>1, DoubleBlackThere
<1>3. /\ IsTree(Tree, H, D) /\ f \in Sides
      /\ c \in H /\ p \in H /\ s \in H /\ p = Get(Tree, c, "parent") /\ c = Get(Tree, p, f)
  BY <1>2 DEF DoubleBlackAt, Black2, BlackAround
<1>4. /\ p = Field(c, "parent") /\ s = Sibling(c) /\ p # NULL
      /\ Usable(Tree) /\ IsFiniteSet(Dom(Tree)) /\ OpRecord(op)
  BY <1>2 DEF DoubleBlackAt
<1> HIDE DEF c
<1> DEFINE t1 == Set(Tree, s, "color", RED)
           r == Set(t1, p, "color", BLACK)
<1>5. Becomes(r, IF Get(Tree, p, "color") = RED THEN Unlink ELSE [op EXCEPT !.cur = p])
  BY <1>4 DEF BlackSibling, IsRed, Field, c
<1>6. Usable(t1) /\ Dom(t1) = Dom(Tree) /\ IsTree(t1, H, D)
  BY <1>3, <1>4, PaintTree
<1> HIDE DEF t1
<1>7. Usable(r) /\ Dom(r) = Dom(t1) /\ IsTree(r, H, D)
  BY <1>3, <1>6, PaintTree
<1> HIDE DEF r
<1>8. Tree' = r /\ op' = IF Get(Tree, p, "color") = RED THEN Unlink ELSE [op EXCEPT !.cur = p]
  BY <1>5, <1>7, BecomesTree
<1>9. Get(Tree, p, "color") # RED
  <2>1. Unlink.pc = "unlink"
    BY <1>4, UnlinkParts
  <2> QED BY <2>1, <1>1, <1>8
<1>10. op'.pc = "fixdb" /\ op'.cur = p
  BY <1>1, <1>4, <1>8, <1>9 DEF OpRecord
<1>11. Standing(op, H) /\ Standing(op', H)
  BY <1>3, <1>10 DEF Standing, c
<1> DEFINE i == Cardinality(Up(H, D, p))
           j == Cardinality(Up(H, D, c))
<1>12. i \in Nat /\ j \in Nat /\ i < j
  <2>1. IsFiniteSet(H)
    BY <1>3, <1>4, TreeLinks, FS_Subset
  <2> QED BY <2>1, <1>3, ParentLess
<1>13. 0 < i
  <2>1. p \in Up(H, D, p) /\ Up(H, D, p) \subseteq H
    BY <1>3 DEF IsTree, IsTreeBy, Up
  <2>2. IsFiniteSet(Up(H, D, p))
    BY <2>1, <1>3, <1>4, TreeLinks, FS_Subset
  <2> QED BY <2>1, <2>2, <1>12, FS_EmptySet
<1>14. Measure(Tree, H, D, op) = 2 * j
  BY <1>1, <1>3, <1>9 DEF Measure, c
<1>15. Measure(r, H, D, op') \in {1, 2 * i}
  BY <1>10 DEF Measure
<1> HIDE DEF i, j
<1>16. Measure(r, H, D, op') < Measure(Tree, H, D, op)
  BY <1>12, <1>13, <1>14, <1>15
<1> QED BY <1>3, <1>6, <1>7, <1>8, <1>11, <1>16 DEF Falls

\* A step of the tree that stays in its loop.
LEMMA TreeStepFalls ==
  ASSUME NEW out, Steady(Tree, key, out, op), TreeStep, op.pc # "idle", op.pc # "undefined", op'.pc = op.pc
  PROVE  Falls(Tree, op, Tree', op')
<1>1. Usable(Tree) /\ IsFiniteSet(Dom(Tree)) /\ OpRecord(op) /\ Idle.pc = "idle" /\ Failed.pc = "undefined"
  BY SteadyParts, IdleParts DEF Failed, Idle
<1>2. ASSUME NEW t, NEW o, Becomes(t, o) PROVE op' = o \/ op'.pc = "undefined"
  BY <1>1, <1>2 DEF Becomes
<1>3. \A x : [op EXCEPT !.pc = x].pc = x
  BY <1>1 DEF OpRecord
<1>4. CASE Descend
  <2>1. op.pc = "descend" /\ op.cur # NULL /\ Tree' = Tree
        /\ op' = [op EXCEPT !.parent = op.cur, !.cur = Get(Tree, op.cur, Towards(key, op.node, op.cur))]
    BY <1>4 DEF Descend, At, Tree, Field, Towards
  <2>2. op'.cur = Get(Tree, op.cur, Towards(key, op.node, op.cur)) /\ Towards(key, op.node, op.cur) \in Sides
    BY <2>1, <1>1 DEF OpRecord, Towards, Sides
  <2>3. PICK H, D : Descending(Tree, key, Dom(Tree) \ out, H, D, op)
    <3>1. PICK H, D : Phase(Tree, key, Dom(Tree) \ Out(op, out), H, D, op)
      BY SteadyParts
    <3> QED BY <3>1, <2>1 DEF Phase, Out
  <2>4. IsTree(Tree, H, D) /\ op.cur \in H
    <3>1. IsTree(Tree, H, D)
      BY <2>3 DEF Descending, AtRest, Sound, RedBlack
    <3>2. op.cur = Root(Tree) \/ (op.parent \in H /\ op.cur = Get(Tree, op.parent, Towards(key, op.node, op.parent)))
      BY <2>3 DEF Descending
    <3> QED BY <3>1, <3>2, <2>1, TreeLinks DEF Towards
  <2> QED BY <1>1, <2>1, <2>2, <2>4, DownFalls
<1>5. CASE Smallest
  <2>1. op.pc = "smallest" /\ Tree' = Tree /\ op' = [op EXCEPT !.cur = Get(Tree, op.cur, "left")]
    BY <1>5 DEF Smallest, At, Tree, Field
  <2>2. op'.cur = Get(Tree, op.cur, "left") /\ "left" \in Sides
    BY <2>1, <1>1 DEF OpRecord, Sides
  <2>3. PICK H, D : Seeking(Tree, key, Dom(Tree) \ out, H, D, op)
    BY <2>1, SeekingParts
  <2>4. IsTree(Tree, H, D) /\ op.cur \in H
    <3>1. IsTree(Tree, H, D) /\ op.node \in H /\ op.cur \in D[Get(Tree, op.node, "right")]
      BY <2>3 DEF Seeking, AtRest, Sound, RedBlack
    <3> QED BY <3>1, TreeLinks
  <2> QED BY <1>1, <2>1, <2>2, <2>4, DownFalls
<1>6. CASE Fixup
  BY <1>6, FixupFalls
<1>7. CASE RedSibling
  BY <1>7, RedSiblingFalls
<1>8. CASE BlackSibling
  BY <1>8, BlackSiblingFalls
<1>9. CASE NoSibling
  <2>1. op.pc = "fixdb" /\ op.cur # root /\ Sibling(op.cur) = NULL
    BY <1>9 DEF NoSibling, AtDoubleBlack, At
  <2>2. Sibling(op.cur) # NULL
    BY <2>1, DoubleBlackThere DEF DoubleBlackAt
  <2> QED BY <2>1, <2>2
<1>10. CASE PushEqual
  BY <1>2, <1>1, <1>10 DEF PushEqual, At
<1>11. CASE AttachRoot
  BY <1>2, <1>1, <1>11 DEF AttachRoot, At
<1>12. CASE Attach
  <2> DEFINE o == IF Field(op.parent, "parent") = NULL THEN Idle
                  ELSE [op EXCEPT !.pc = "fixup", !.cur = op.node]
  <2>1. o.pc \in {"idle", "fixup"}
    BY <1>1 DEF OpRecord
  <2>2. op.pc = "descend" /\ (op' = o \/ op'.pc = "undefined")
    BY <1>2, <1>12 DEF Attach, At
  <2> HIDE DEF o
  <2> QED BY <2>1, <2>2
<1>13. CASE FixupEnds
  BY <1>2, <1>1, <1>13 DEF FixupEnds, At
<1>14. CASE UnlinkHead
  BY <1>2, <1>3, <1>14 DEF UnlinkHead, At
<1>15. CASE DeleteLeaf
  <2>1. op.pc = "delete" /\ (op' = Deleted \/ op' = FixDoubleBlack(op.node, Field(op.node, "parent")) \/ op'.pc = "undefined")
    BY <1>2, <1>15 DEF DeleteLeaf, Alone, At
  <2>2. Deleted.pc = "deleted" /\ \A x, y : FixDoubleBlack(x, y).pc = "fixdb"
    BY <1>1 DEF Deleted, FixDoubleBlack, OpRecord
  <2> QED BY <2>1, <2>2
<1>16. CASE DeleteWithChild
  <2>1. op.pc = "delete" /\ (op' = Deleted \/ (\E x : op' = FixDoubleBlack(x, NULL)) \/ op'.pc = "undefined")
    BY <1>2, <1>16 DEF DeleteWithChild, Alone, At
  <2>2. Deleted.pc = "deleted" /\ \A x, y : FixDoubleBlack(x, y).pc = "fixdb"
    BY <1>1 DEF Deleted, FixDoubleBlack, OpRecord
  <2> QED BY <2>1, <2>2
<1>17. CASE DeleteInner
  <2>1. op'.pc = "smallest"
    BY <1>1, <1>17 DEF DeleteInner, OpRecord
  <2> QED BY <2>1, <1>17 DEF DeleteInner, Alone, At
<1>18. CASE Swap
  BY <1>2, <1>3, <1>18 DEF Swap, At
<1>19. CASE BlackSiblingRedNephew
  <2>1. op.pc = "fixdb" /\ (op' = Failed \/ op' = Unlink \/ op'.pc = "undefined")
    BY <1>2, <1>19 DEF BlackSiblingRedNephew, AtDoubleBlack, At
  <2>2. Unlink.pc = "unlink"
    BY <1>3 DEF Unlink
  <2> QED BY <1>1, <2>1, <2>2
<1>20. CASE FixedAtRoot
  BY <1>3, <1>20 DEF FixedAtRoot, Unlink, At
<1>21. CASE UnlinkLeaf
  <2>1. op.pc = "unlink" /\ (op' = Deleted \/ op'.pc = "undefined")
    BY <1>2, <1>21 DEF UnlinkLeaf, At
  <2>2. Deleted.pc = "deleted"
    BY <1>3 DEF Deleted
  <2> QED BY <2>1, <2>2
<1>22. CASE Undefined
  BY <1>1, <1>22 DEF Undefined
<1> QED BY <1>4, <1>5, <1>6, <1>7, <1>8, <1>9, <1>10, <1>11, <1>12, <1>13, <1>14, <1>15, <1>16, <1>17, <1>18,
           <1>19, <1>20, <1>21, <1>22 DEF TreeStep

\* The search of Delete as well.
LEMMA FindFalls ==
  ASSUME IInv, whole, Find, op'.pc = op.pc
  PROVE  Usable(Tree) /\ IsFiniteSet(Dom(Tree)) /\ Falls(Tree, op, Tree', op')
<1> DEFINE c == op.cur
           side == IF sought > key[c] THEN "right" ELSE "left"
<1>1. /\ op.pc = "find" /\ c # NULL /\ Tree' = Tree
      /\ op' = IF sought = key[c] THEN StartDelete(c) ELSE CurSet(op, Get(Tree, c, side))
  BY DEF Find, At, CurSet, Tree, Field
<1>2. PICK H, D : Finding(H, D)
  BY <1>1 DEF IInv, WholeTree
<1>3. Usable(Tree) /\ IsFiniteSet(Dom(Tree)) /\ OpRecord(op)
  BY <1>1 DEF IInv, WholeTree, NodesFit, Sane, OpFits
<1>4. IsTree(Tree, H, D) /\ c \in H
  BY <1>1, <1>2 DEF Finding, AtRest, Sound, RedBlack
<1>5. sought # key[c]
  BY <1>1 DEF StartDelete
<1>6. op'.cur = Get(Tree, c, side) /\ side \in Sides
  BY <1>1, <1>3, <1>5 DEF CurSet, OpRecord, Sides
<1> HIDE DEF side
<1> QED BY <1>1, <1>3, <1>4, <1>6, DownFalls

\* Every step that does not leave its loop leaves it less to do.
LEMMA StepClimbs ==
  ASSUME IInv, Measured, Measured', Next, Running, whole', op'.pc = op.pc
  PROVE  Variant' < Variant
<1>1. op.pc \notin {"idle", "aborted", "undefined"}
  BY DEF Running
<1>2. CASE Find
  <2>1. whole
    BY <1>2 DEF Find
  <2> QED BY <1>2, <2>1, FindFalls, FallsLess
<1>3. CASE TreeStep
  <2>1. whole
    BY <1>3, DamageStays
  <2>2. op.pc # "find"
    <3>1. SUFFICES ASSUME op.pc = "find" PROVE FALSE
      OBVIOUS
    <3>2. ~(Reads \subseteq DOMAIN link)
      BY <1>3, <3>1, TreeStepWhere
    <3>3. Reads = {op.cur} \ {NULL}
      BY <3>1 DEF Reads
    <3>4. PICK H, D : Finding(H, D)
      BY <2>1, <3>1 DEF IInv, WholeTree
    <3>5. H \subseteq DOMAIN link /\ op.cur \in H \cup {NULL}
      BY <3>4 DEF Finding, AtRest, Sound, HasListing, Listing
    <3> QED BY <3>2, <3>3, <3>5
  <2>3. Steady(Tree, key, leaked, op)
    BY <1>1, <2>1, <2>2 DEF IInv, WholeTree
  <2> QED BY <1>1, <1>3, <2>3, TreeStepFalls, SteadyParts, FallsLess
<1>4. ~(\E k \in Keys : Insert(k) \/ Delete(k))
  BY <1>1 DEF Insert, Delete
<1>5. ~Missing
  BY <1>1 DEF Missing, Idle
<1>6. ~FreeNode /\ ~LeakNode
  BY <1>1, IdleParts DEF FreeNode, LeakNode
<1> QED BY <1>2, <1>3, <1>4, <1>5, <1>6 DEF Next

\* No loop and no recursion of the tree goes on for ever: each pass leaves less to do.
THEOREM LoopsEnd == Spec => RepairsClimb
<1>1. IInv /\ Measured /\ Measured' /\ [Next]_vars
        => [Running /\ whole' /\ op'.pc = op.pc => Variant' < Variant]_vars
  BY StepClimbs
<1> QED BY <1>1, Invariance, MeasuredAlways, PTL DEF Spec, RepairsClimb

=============================================================================
