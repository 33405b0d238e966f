----------------------- MODULE RBTreeAllocatorProofs -----------------------
(***************************************************************************)
(* What RBTreeAllocator keeps for every buffer, whatever its clients ask   *)
(* for and give back. However the tree is damaged on the way: TypeOK,      *)
(* Tiled and BlocksSound; their strengthening IInv says of every step of   *)
(* the tree which nodes it knows and which block it is about to take. As   *)
(* long as the tree is whole: NoFault and FreeBlocksKept; WInv adds what   *)
(* RBTreeProofs says of the tree, and where the search for a block has     *)
(* come to and what it has left for later.                                 *)
(***************************************************************************)
EXTENDS MCRBTreeAllocator, RBTreeProofs, MemLayoutProofs, SequenceTheorems

\* The steps of _deleteNode, during which op.node is the block that Alloc takes.
DeletePCs == {"delete", "smallest", "fixdb", "unlink", "deleted", "unlinked"}

\* Where the allocator can be.
PCs == {"idle", "search", "descend", "fixup", "unserved", "undefined"} \cup DeletePCs

\* The operation is a record with these four fields.
Shape ==
  /\ op = [pc |-> op.pc, node |-> op.node, cur |-> op.cur, parent |-> op.parent]
  /\ op.pc \in PCs

\* A node is linked once _rbtreeInsert has attached it, and until its block is taken.
Linked ==
  /\ DOMAIN link \subseteq DOMAIN key
  /\ op.pc \notin {"descend", "undefined"} => DOMAIN link = DOMAIN key
  /\ op.pc = "descend" => op.node \in DOMAIN key /\ DOMAIN key = DOMAIN link \cup {op.node}

\* The calls that wait have a free block each.
Waiting ==
  /\ op.pc = "search" => pending \in Seq(DOMAIN key)
  /\ op.pc \notin {"search", "unserved", "undefined"} => pending = <<>>

\* The block about to be taken is free, and it has room.
Chosen ==
  /\ req = [sz |-> req.sz, al |-> req.al, pad |-> req.pad]
  /\ op.pc \in DeletePCs \cup {"search"} => req.sz \in Sizes /\ req.al \in Aligns
  /\ op.pc \in DeletePCs =>
       /\ op.node \in DOMAIN key
       /\ req.pad = BlockPadding(op.node, req.al, allocHeaderSize)
       /\ key[op.node] > req.pad + req.sz

IInv == TypeOK /\ Tiled /\ BlocksSound /\ Shape /\ Linked /\ Waiting /\ Chosen

-----------------------------------------------------------------------------
(* The tree's operators write to nodes and make none.                       *)

\* None of them makes a node or loses one: a new root, ...
LEMMA SetRootKeeps ==
  ASSUME NEW t, NEW a
  PROVE  SetRoot(t, a).link = t.link
BY DEF SetRoot

\* ... a child replaced, ...
LEMMA ReplaceChildKeeps ==
  ASSUME NEW t, NEW u, NEW p, NEW c
  PROVE  DOMAIN ReplaceChild(t, u, p, c).link = DOMAIN t.link
BY SetKeeps DEF ReplaceChild

\* (The insertion is the one that adds its node.)
LEMMA WithNodeLinks == DOMAIN WithNode.link = DOMAIN link \cup {op.node}
BY DEF WithNode, Add

\* ... a rotation, ...
LEMMA RotateKeeps ==
  ASSUME NEW t, NEW p, NEW side
  PROVE  DOMAIN Rotate(t, p, side).link = DOMAIN t.link
<1> DEFINE c == Get(t, p, Other(side))
           g == Get(t, c, side)
           t1 == Set(t, p, Other(side), g)
           t2 == IF g = NULL THEN t1 ELSE Set(t1, g, "parent", p)
           u == Get(t2, p, "parent")
           t3 == Set(t2, c, "parent", u)
           t4 == IF u = NULL THEN SetRoot(t3, c) ELSE ReplaceChild(t3, u, p, c)
           t5 == Set(t4, c, side, p)
<1>1. Rotate(t, p, side) = Set(t5, p, "parent", c)
  BY Zenon DEF Rotate
<1>2. DOMAIN t1.link = DOMAIN t.link
  BY SetKeeps
<1>3. DOMAIN t2.link = DOMAIN t1.link
  <2> HIDE DEF t1
  <2> QED BY SetKeeps
<1>4. DOMAIN t3.link = DOMAIN t2.link
  <2> HIDE DEF t2
  <2> QED BY SetKeeps
<1>5. DOMAIN t4.link = DOMAIN t3.link
  <2> HIDE DEF t3
  <2> QED BY SetRootKeeps, ReplaceChildKeeps
<1>6. DOMAIN t5.link = DOMAIN t4.link
  <2> HIDE DEF t4
  <2> QED BY SetKeeps
<1> HIDE DEF t1, t2, t3, t4, t5
<1> QED BY <1>1, <1>2, <1>3, <1>4, <1>5, <1>6, SetKeeps

\* ... a node in another one's place, ...
LEMMA TakePlaceKeeps ==
  ASSUME NEW t, NEW a, NEW b
  PROVE  DOMAIN TakePlace(t, a, b).link = DOMAIN t.link
<1> DEFINE l == Get(t, a, "left")
           r == Get(t, a, "right")
           u == Get(t, a, "parent")
           t1 == Set(Set(Set(Set(t, b, "color", Get(t, a, "color")), b, "left", l), b, "right", r),
                     b, "parent", u)
           t2 == IF u = NULL THEN t1 ELSE ReplaceChild(t1, u, a, b)
           t3 == IF l = NULL THEN t2 ELSE Set(t2, l, "parent", b)
<1>1. TakePlace(t, a, b) = IF r = NULL THEN t3 ELSE Set(t3, r, "parent", b)
  BY DEF TakePlace
<1>2. DOMAIN t1.link = DOMAIN t.link
  <2> HIDE DEF l, r, u
  <2> QED BY SetKeeps
<1>3. DOMAIN t2.link = DOMAIN t1.link
  <2> HIDE DEF t1
  <2> QED BY ReplaceChildKeeps
<1>4. DOMAIN t3.link = DOMAIN t2.link
  <2> HIDE DEF t2
  <2> QED BY SetKeeps
<1> HIDE DEF t1, t2, t3
<1> QED BY <1>1, <1>2, <1>3, <1>4, SetKeeps

\* ... a swap, ...
LEMMA SwapNodesKeeps ==
  ASSUME NEW node, NEW subst
  PROVE  DOMAIN SwapNodes(node, subst).link = DOMAIN link
<1> DEFINE l == Field(subst, "left")
           r == Field(subst, "right")
           t1 == ReplaceChild(Tree, Field(node, "parent"), node, subst)
           t2 == IF l = NULL THEN t1 ELSE Set(t1, l, "parent", node)
           t3 == IF r = NULL THEN t2 ELSE Set(t2, r, "parent", node)
           t4 == Set(Set(Set(t3, node, "parent", subst),
                     node, "left", Get(t3, subst, "left")), node, "right", Get(t3, subst, "right"))
           t5 == Set(t4, subst, "parent", Field(node, "parent"))
           side == IF Field(node, "left") = subst THEN "left" ELSE "right"
           kept == Field(node, Other(side))
<1>1. SwapNodes(node, subst)
        = Set(Set(Set(t5, subst, side, node), subst, Other(side), kept), kept, "parent", subst)
  BY DEF SwapNodes
<1>2. DOMAIN t1.link = DOMAIN link
  BY ReplaceChildKeeps, TreeParts
<1>3. DOMAIN t2.link = DOMAIN t1.link
  <2> HIDE DEF t1
  <2> QED BY SetKeeps
<1>4. DOMAIN t3.link = DOMAIN t2.link
  <2> HIDE DEF t2
  <2> QED BY SetKeeps
<1>5. DOMAIN t4.link = DOMAIN t3.link
  <2> HIDE DEF t3
  <2> QED BY SetKeeps
<1>6. DOMAIN t5.link = DOMAIN t4.link
  <2> HIDE DEF t4
  <2> QED BY SetKeeps
<1> HIDE DEF t1, t2, t3, t4, t5
<1> QED BY <1>1, <1>2, <1>3, <1>4, <1>5, <1>6, SetKeeps

\* ... the rotations of a repair.
LEMMA TurnToKeeps ==
  ASSUME NEW s, NEW side
  PROVE  DOMAIN TurnTo(s, side).link = DOMAIN link
<1> DEFINE p == Field(op.cur, "parent")
           n == Field(s, side)
           outer == Rotate(Set(Set(Tree, n, "color", Field(s, "color")), s, "color", Field(p, "color")),
                           p, Other(side))
           inner == Rotate(Rotate(Set(Tree, n, "color", Field(p, "color")), s, Other(side)), p, side)
<1>1. TurnTo(s, side) = Set(IF side = Side(s) THEN outer ELSE inner, p, "color", BLACK)
  BY DEF TurnTo
<1>2. DOMAIN outer.link = DOMAIN link
  BY RotateKeeps, SetKeeps, TreeParts
<1>3. DOMAIN inner.link = DOMAIN link
  BY RotateKeeps, SetKeeps, TreeParts
<1> HIDE DEF outer, inner
<1> QED BY <1>1, <1>2, <1>3, SetKeeps

-----------------------------------------------------------------------------
(* What a step of the tree may do to what IInv looks at.                    *)

\* The local variables are changed one by one.
LEMMA OpFields ==
  ASSUME Shape, NEW p, NEW c, NEW q
  PROVE  /\ [op EXCEPT !.pc = p] = [pc |-> p, node |-> op.node, cur |-> op.cur, parent |-> op.parent]
         /\ [op EXCEPT !.cur = c] = [pc |-> op.pc, node |-> op.node, cur |-> c, parent |-> op.parent]
         /\ [op EXCEPT !.pc = p, !.cur = c]
              = [pc |-> p, node |-> op.node, cur |-> c, parent |-> op.parent]
         /\ [op EXCEPT !.parent = q, !.cur = c]
              = [pc |-> op.pc, node |-> op.node, cur |-> c, parent |-> q]
         /\ [op EXCEPT !.pc = p, !.cur = c, !.parent = q]
              = [pc |-> p, node |-> op.node, cur |-> c, parent |-> q]
<1>1. PICK a, b, d, e : op = [pc |-> a, node |-> b, cur |-> d, parent |-> e]
  BY DEF Shape
<1>2. op.pc = a /\ op.node = b /\ op.cur = d /\ op.parent = e
  BY <1>1
<1>3. [op EXCEPT !.pc = p] = [pc |-> p, node |-> b, cur |-> d, parent |-> e]
  BY <1>1
<1>4. [op EXCEPT !.cur = c] = [pc |-> a, node |-> b, cur |-> c, parent |-> e]
  BY <1>1
<1>5. [op EXCEPT !.pc = p, !.cur = c] = [pc |-> p, node |-> b, cur |-> c, parent |-> e]
  <2>1. PICK x : x = [op EXCEPT !.pc = p]
    OBVIOUS
  <2>2. [op EXCEPT !.pc = p, !.cur = c] = [x EXCEPT !.cur = c]
    BY <2>1, Zenon
  <2>3. x = [pc |-> p, node |-> b, cur |-> d, parent |-> e]
    BY <1>3, <2>1
  <2>4. [x EXCEPT !.cur = c] = [pc |-> p, node |-> b, cur |-> c, parent |-> e]
    BY <2>3
  <2> QED BY <2>2, <2>4
<1>6. [op EXCEPT !.parent = q, !.cur = c] = [pc |-> a, node |-> b, cur |-> c, parent |-> q]
  <2>1. PICK x : x = [op EXCEPT !.parent = q]
    OBVIOUS
  <2>2. [op EXCEPT !.parent = q, !.cur = c] = [x EXCEPT !.cur = c]
    BY <2>1, Zenon
  <2>3. x = [pc |-> a, node |-> b, cur |-> d, parent |-> q]
    BY <1>1, <2>1
  <2>4. [x EXCEPT !.cur = c] = [pc |-> a, node |-> b, cur |-> c, parent |-> q]
    BY <2>3
  <2> QED BY <2>2, <2>4
<1>7. [op EXCEPT !.pc = p, !.cur = c, !.parent = q] = [pc |-> p, node |-> b, cur |-> c, parent |-> q]
  <2>1. PICK x : x = [op EXCEPT !.pc = p, !.cur = c]
    OBVIOUS
  <2>2. [op EXCEPT !.pc = p, !.cur = c, !.parent = q] = [x EXCEPT !.parent = q]
    BY <2>1, Zenon
  <2>3. x = [pc |-> p, node |-> b, cur |-> c, parent |-> e]
    BY <1>5, <2>1, Zenon
  <2>4. [x EXCEPT !.parent = q] = [pc |-> p, node |-> b, cur |-> c, parent |-> q]
    BY <2>3
  <2> QED BY <2>2, <2>4, Zenon
<1> QED BY <1>2, <1>3, <1>4, <1>5, <1>6, <1>7

\* The node under way stays the same, and only the insertion's is linked.
TreeKeeps ==
  /\ key' = key
  /\ Shape'
  /\ \/ op'.pc = "undefined" /\ link' = link
     \/ op.pc = "descend" /\ op' = [op EXCEPT !.parent = op'.parent, !.cur = op'.cur] /\ link' = link
     \/ op.pc = "descend" /\ op'.pc \in {"idle", "fixup"} /\ DOMAIN link' = DOMAIN link \cup {op.node}
     \/ op.pc = "fixup" /\ op'.pc \in {"idle", "fixup"} /\ DOMAIN link' = DOMAIN link
     \/ /\ op.pc \in DeletePCs /\ op'.pc \in DeletePCs
        /\ op'.node = op.node /\ DOMAIN link' = DOMAIN link

\* A step ends with the tree it made, or undefined.
LEMMA BecomesKeeps ==
  ASSUME NEW t, NEW o, Becomes(t, o)
  PROVE  /\ key' = key
         /\ \/ op' = o /\ DOMAIN link' = DOMAIN t.link
            \/ op' = Failed /\ link' = link
BY DEF Becomes

\* The records of a fault and of nothing under way.
LEMMA FailedShape ==
  /\ Failed = [pc |-> "undefined", node |-> NULL, cur |-> NULL, parent |-> NULL]
  /\ Idle = [pc |-> "idle", node |-> NULL, cur |-> NULL, parent |-> NULL]
BY DEF Failed, Idle

\* _rbtreeInsert links the node and no other one.
LEMMA InsertKeeps ==
  ASSUME Shape, Descend \/ PushEqual \/ AttachRoot \/ Attach \/ Fixup \/ FixupEnds
  PROVE  TreeKeeps
<1>1. CASE Descend
  <2>1. PICK q, c : op' = [op EXCEPT !.parent = q, !.cur = c]
    BY <1>1 DEF Descend
  <2> QED BY <1>1, <2>1, OpFields DEF Descend, At, TreeKeeps, Shape, PCs
<1>2. CASE PushEqual
  <2>1. Becomes(Set(TakePlace(WithNode, op.cur, op.node), op.node, "next", op.cur), Idle)
    BY <1>2 DEF PushEqual
  <2>2. DOMAIN Set(TakePlace(WithNode, op.cur, op.node), op.node, "next", op.cur).link
          = DOMAIN link \cup {op.node}
    BY SetKeeps, TakePlaceKeeps, WithNodeLinks
  <2>3. op.pc = "descend"
    BY <1>2 DEF PushEqual, At
  <2> QED BY <2>1, <2>2, <2>3, BecomesKeeps, FailedShape DEF TreeKeeps, Shape, PCs
<1>3. CASE AttachRoot
  <2>1. Becomes(SetRoot(WithNode, op.node), Idle) /\ op.pc = "descend"
    BY <1>3 DEF AttachRoot, At
  <2>2. DOMAIN SetRoot(WithNode, op.node).link = DOMAIN link \cup {op.node}
    BY SetRootKeeps, WithNodeLinks
  <2> QED BY <2>1, <2>2, BecomesKeeps, FailedShape DEF TreeKeeps, Shape, PCs
<1>4. CASE Attach
  <2>1. PICK side : Becomes(Set(Set(Set(WithNode, op.node, "parent", op.parent), op.node, "color", RED),
                                op.parent, side, op.node),
                            IF Field(op.parent, "parent") = NULL THEN Idle
                            ELSE [op EXCEPT !.pc = "fixup", !.cur = op.node])
    BY <1>4 DEF Attach
  <2>2. DOMAIN Set(Set(Set(WithNode, op.node, "parent", op.parent), op.node, "color", RED),
                   op.parent, side, op.node).link = DOMAIN link \cup {op.node}
    BY SetKeeps, WithNodeLinks
  <2>3. op.pc = "descend"
    BY <1>4 DEF Attach, At
  <2>4. [op EXCEPT !.pc = "fixup", !.cur = op.node]
          = [pc |-> "fixup", node |-> op.node, cur |-> op.node, parent |-> op.parent]
    BY OpFields
  <2> QED BY <2>1, <2>2, <2>3, <2>4, BecomesKeeps, FailedShape DEF TreeKeeps, Shape, PCs
<1>5. CASE Fixup
  <2>1. PICK t, c : Becomes(t, [op EXCEPT !.cur = c]) /\ DOMAIN t.link = DOMAIN link
    <3> DEFINE p == Field(op.cur, "parent")
               g == Field(p, "parent")
               side == IF p = Field(g, "left") THEN "left" ELSE "right"
               uncle == Field(g, Other(side))
               inner == op.cur = Field(p, Other(side))
               t1 == IF inner THEN Rotate(Tree, p, side) ELSE Tree
               q == IF inner THEN Get(t1, p, "parent") ELSE p
               t2 == Rotate(t1, g, Other(side))
    <3>1. \/ Becomes(Set(Set(Set(Tree, g, "color", RED), p, "color", BLACK), uncle, "color", BLACK),
                     [op EXCEPT !.cur = g])
          \/ Becomes(Set(Set(t2, q, "color", Get(t2, g, "color")), g, "color", Get(t2, q, "color")),
                     [op EXCEPT !.cur = q])
      BY <1>5 DEF Fixup
    <3>2. DOMAIN t1.link = DOMAIN link
      BY RotateKeeps, TreeParts
    <3>3. DOMAIN t2.link = DOMAIN link
      <4> HIDE DEF t1
      <4> QED BY <3>2, RotateKeeps
    <3> HIDE DEF t2, q, uncle, g, p
    <3>4. DOMAIN Set(Set(Set(Tree, g, "color", RED), p, "color", BLACK), uncle, "color", BLACK).link
            = DOMAIN link
      BY SetKeeps, TreeParts
    <3>5. DOMAIN Set(Set(t2, q, "color", Get(t2, g, "color")), g, "color", Get(t2, q, "color")).link
            = DOMAIN link
      BY SetKeeps, <3>3
    <3> QED BY <3>1, <3>4, <3>5
  <2>2. op.pc = "fixup"
    BY <1>5 DEF Fixup, At
  <2>3. [op EXCEPT !.cur = c] = [pc |-> op.pc, node |-> op.node, cur |-> c, parent |-> op.parent]
    BY OpFields
  <2> QED BY <2>1, <2>2, <2>3, BecomesKeeps, FailedShape DEF TreeKeeps, Shape, PCs
<1>6. CASE FixupEnds
  <2>1. Becomes(Set(Tree, root, "color", BLACK), Idle) /\ op.pc = "fixup"
    BY <1>6 DEF FixupEnds, At
  <2>2. DOMAIN Set(Tree, root, "color", BLACK).link = DOMAIN link
    BY SetKeeps, TreeParts
  <2> QED BY <2>1, <2>2, BecomesKeeps, FailedShape DEF TreeKeeps, Shape, PCs
<1> QED BY <1>1, <1>2, <1>3, <1>4, <1>5, <1>6

\* What a deletion goes on with: the same node.
GoesOn(o) ==
  /\ o.pc \in DeletePCs /\ o.node = op.node
  /\ o = [pc |-> o.pc, node |-> o.node, cur |-> o.cur, parent |-> o.parent]

\* What the steps of a deletion make of the operation goes on with it.
LEMMA DeletionOps ==
  ASSUME Shape, op.pc \in DeletePCs, NEW p \in DeletePCs, NEW c, NEW q
  PROVE  /\ GoesOn(op)
         /\ GoesOn([op EXCEPT !.pc = p])
         /\ GoesOn([op EXCEPT !.cur = c])
         /\ GoesOn([op EXCEPT !.pc = p, !.cur = c])
         /\ GoesOn([op EXCEPT !.pc = p, !.cur = c, !.parent = q])
<1>1. GoesOn(op)
  BY DEF GoesOn, Shape
<1>2. ASSUME NEW r \in DeletePCs, NEW d, NEW e
      PROVE  GoesOn([pc |-> r, node |-> op.node, cur |-> d, parent |-> e])
  BY <1>2 DEF GoesOn
<1>3. op.pc \in DeletePCs
  OBVIOUS
<1>4. GoesOn([op EXCEPT !.pc = p])
  <2>1. GoesOn([pc |-> p, node |-> op.node, cur |-> op.cur, parent |-> op.parent])
    BY <1>2, <1>3
  <2>2. [op EXCEPT !.pc = p] = [pc |-> p, node |-> op.node, cur |-> op.cur, parent |-> op.parent]
    BY OpFields, Zenon
  <2> QED BY <2>1, <2>2, Zenon
<1>5. GoesOn([op EXCEPT !.cur = c])
  <2>1. GoesOn([pc |-> op.pc, node |-> op.node, cur |-> c, parent |-> op.parent])
    BY <1>2, <1>3
  <2>2. [op EXCEPT !.cur = c] = [pc |-> op.pc, node |-> op.node, cur |-> c, parent |-> op.parent]
    BY OpFields, Zenon
  <2> QED BY <2>1, <2>2, Zenon
<1>6. GoesOn([op EXCEPT !.pc = p, !.cur = c])
  <2>1. GoesOn([pc |-> p, node |-> op.node, cur |-> c, parent |-> op.parent])
    BY <1>2, <1>3
  <2>2. [op EXCEPT !.pc = p, !.cur = c] = [pc |-> p, node |-> op.node, cur |-> c, parent |-> op.parent]
    BY OpFields, Zenon
  <2> QED BY <2>1, <2>2, Zenon
<1>7. GoesOn([op EXCEPT !.pc = p, !.cur = c, !.parent = q])
  <2>1. GoesOn([pc |-> p, node |-> op.node, cur |-> c, parent |-> q])
    BY <1>2, <1>3
  <2>2. [op EXCEPT !.pc = p, !.cur = c, !.parent = q] = [pc |-> p, node |-> op.node, cur |-> c, parent |-> q]
    BY OpFields, Zenon
  <2> QED BY <2>1, <2>2, Zenon
<1> QED BY <1>1, <1>4, <1>5, <1>6, <1>7, Zenon

\* _deleteNode writes to nodes, whatever its repairs do.
LEMMA DeletionStep ==
  ASSUME Shape, op.pc \in DeletePCs, NEW t, DOMAIN t.link = DOMAIN link,
         NEW o, Becomes(t, o), GoesOn(o)
  PROVE  TreeKeeps
BY BecomesKeeps, FailedShape DEF GoesOn, TreeKeeps, Shape, PCs

\* A step that only moves the operation keeps the nodes.
LEMMA DeletionGoesOn ==
  ASSUME Shape, op.pc \in DeletePCs, GoesOn(op'), UNCHANGED <<key, link>>
  PROVE  TreeKeeps
BY DEF GoesOn, TreeKeeps, Shape, PCs

\* The steps of a deletion keep the nodes.
LEMMA DeleteKeeps ==
  ASSUME Shape,
         UnlinkHead \/ DeleteLeaf \/ DeleteWithChild \/ DeleteInner \/ Smallest \/ Swap
  PROVE  TreeKeeps
<1>0. op.pc \in DeletePCs
  BY DEF UnlinkHead, DeleteLeaf, DeleteWithChild, DeleteInner, Smallest, Swap, Alone, At, DeletePCs
<1>1. CASE UnlinkHead
  <2>1. Becomes(TakePlace(Tree, op.node, Field(op.node, "next")), [op EXCEPT !.pc = "unlinked"])
    BY <1>1 DEF UnlinkHead
  <2> QED BY <1>0, <2>1, TakePlaceKeeps, TreeParts, DeletionOps, DeletionStep DEF DeletePCs
<1>2. CASE DeleteLeaf
  <2> DEFINE node == op.node
             parent == Field(node, "parent")
             sibling == Sibling(node)
             t == IF sibling = NULL THEN Tree ELSE Set(Tree, sibling, "color", RED)
  <2>1. \/ Becomes(SetRoot(Tree, NULL), Deleted)
        \/ Becomes(Tree, FixDoubleBlack(node, parent))
        \/ Becomes(ReplaceChild(t, parent, node, NULL), Deleted)
    BY <1>2 DEF DeleteLeaf
  <2>2. DOMAIN t.link = DOMAIN link
    BY SetKeeps, TreeParts
  <2>3. Deleted = [op EXCEPT !.pc = "deleted"]
        /\ FixDoubleBlack(node, parent) = [op EXCEPT !.pc = "fixdb", !.cur = node, !.parent = parent]
    BY DEF Deleted, FixDoubleBlack
  <2> HIDE DEF t, parent, node
  <2>4. DOMAIN SetRoot(Tree, NULL).link = DOMAIN link
        /\ DOMAIN ReplaceChild(t, parent, node, NULL).link = DOMAIN link
    BY <2>2, SetRootKeeps, ReplaceChildKeeps, TreeParts
  <2>5. CASE Becomes(SetRoot(Tree, NULL), Deleted)
    BY <1>0, <2>3, <2>4, <2>5, DeletionOps, DeletionStep DEF DeletePCs
  <2>6. CASE Becomes(Tree, FixDoubleBlack(node, parent))
    <3>1. GoesOn([op EXCEPT !.pc = "fixdb", !.cur = node, !.parent = parent])
      BY <1>0, "fixdb" \in DeletePCs, DeletionOps DEF DeletePCs
    <3>2. GoesOn(FixDoubleBlack(node, parent))
      BY <2>3, <3>1, Zenon
    <3> QED BY <1>0, <3>2, <2>6, TreeParts, DeletionStep
  <2>7. CASE Becomes(ReplaceChild(t, parent, node, NULL), Deleted)
    BY <1>0, <2>3, <2>4, <2>7, DeletionOps, DeletionStep DEF DeletePCs
  <2> QED BY <2>1, <2>5, <2>6, <2>7
<1>3. CASE DeleteWithChild
  <2> DEFINE node == op.node
             parent == Field(node, "parent")
             subst == OnlyChild(node)
             t == Set(ReplaceChild(Tree, parent, node, subst), subst, "parent", parent)
  <2>1. \/ Becomes(SetRoot(Tree, subst), Deleted)
        \/ Becomes(t, FixDoubleBlack(subst, NULL))
        \/ Becomes(Set(t, subst, "color", BLACK), Deleted)
    BY <1>3 DEF DeleteWithChild
  <2> HIDE DEF parent, node, subst
  <2>2. DOMAIN t.link = DOMAIN link
    BY SetKeeps, ReplaceChildKeeps, TreeParts
  <2>3. Deleted = [op EXCEPT !.pc = "deleted"]
        /\ FixDoubleBlack(subst, NULL) = [op EXCEPT !.pc = "fixdb", !.cur = subst, !.parent = NULL]
    BY DEF Deleted, FixDoubleBlack
  <2> HIDE DEF t
  <2>4. DOMAIN SetRoot(Tree, subst).link = DOMAIN link
        /\ DOMAIN Set(t, subst, "color", BLACK).link = DOMAIN link
    BY <2>2, SetRootKeeps, SetKeeps, TreeParts
  <2>5. CASE Becomes(SetRoot(Tree, subst), Deleted)
    BY <1>0, <2>3, <2>4, <2>5, DeletionOps, DeletionStep DEF DeletePCs
  <2>6. CASE Becomes(t, FixDoubleBlack(subst, NULL))
    <3>1. GoesOn([op EXCEPT !.pc = "fixdb", !.cur = subst, !.parent = NULL])
      BY <1>0, "fixdb" \in DeletePCs, DeletionOps DEF DeletePCs
    <3>2. GoesOn(FixDoubleBlack(subst, NULL))
      BY <2>3, <3>1, Zenon
    <3> QED BY <1>0, <3>2, <2>2, <2>6, DeletionStep
  <2>7. CASE Becomes(Set(t, subst, "color", BLACK), Deleted)
    BY <1>0, <2>3, <2>4, <2>7, DeletionOps, DeletionStep DEF DeletePCs
  <2> QED BY <2>1, <2>5, <2>6, <2>7
<1>4. CASE DeleteInner
  <2>1. PICK c : op' = [op EXCEPT !.pc = "smallest", !.cur = c] /\ UNCHANGED <<key, link>>
    BY <1>4 DEF DeleteInner
  <2> QED BY <1>0, <2>1, DeletionOps, DeletionGoesOn DEF DeletePCs
<1>5. CASE Smallest
  <2>1. PICK c : op' = [op EXCEPT !.cur = c] /\ UNCHANGED <<key, link>>
    BY <1>5 DEF Smallest
  <2> QED BY <1>0, <2>1, DeletionOps, DeletionGoesOn
<1>6. CASE Swap
  <2>1. Becomes(SwapNodes(op.node, op.cur), [op EXCEPT !.pc = "delete"])
    BY <1>6 DEF Swap
  <2> QED BY <1>0, <2>1, SwapNodesKeeps, DeletionOps, DeletionStep DEF DeletePCs
<1> QED BY <1>1, <1>2, <1>3, <1>4, <1>5, <1>6

\* So does the repair of a double black.
LEMMA RepairKeeps ==
  ASSUME Shape,
         \/ NoSibling \/ RedSibling \/ BlackSiblingRedNephew \/ BlackSibling \/ FixedAtRoot
         \/ UnlinkLeaf
  PROVE  TreeKeeps
<1>0. op.pc \in DeletePCs /\ GoesOn(op)
  <2>1. op.pc \in {"fixdb", "unlink"}
    BY DEF NoSibling, RedSibling, BlackSiblingRedNephew, BlackSibling, FixedAtRoot, UnlinkLeaf,
           AtDoubleBlack, At
  <2>2. op.pc \in DeletePCs
    BY <2>1 DEF DeletePCs
  <2> QED BY <2>2, DeletionOps
<1>1. GoesOn(Unlink) /\ GoesOn(Deleted)
  <2>1. "unlink" \in DeletePCs /\ "deleted" \in DeletePCs
    BY DEF DeletePCs
  <2>2. GoesOn([op EXCEPT !.pc = "unlink"]) /\ GoesOn([op EXCEPT !.pc = "deleted"])
    BY <1>0, <2>1, DeletionOps
  <2> QED BY <2>2 DEF Unlink, Deleted
<1>2. ASSUME NEW c PROVE GoesOn([op EXCEPT !.cur = c])
  BY <1>0, DeletionOps
<1>3. CASE NoSibling
  <2>1. PICK c : op' = [op EXCEPT !.cur = c] /\ UNCHANGED <<key, link>>
    BY <1>3 DEF NoSibling
  <2> QED BY <1>0, <1>2, <2>1, DeletionGoesOn
<1>4. CASE RedSibling
  <2>1. PICK p, s, side :
          Becomes(Rotate(Set(Set(Tree, p, "color", RED), s, "color", BLACK), p, side), op)
    BY <1>4 DEF RedSibling
  <2>2. DOMAIN Rotate(Set(Set(Tree, p, "color", RED), s, "color", BLACK), p, side).link = DOMAIN link
    BY RotateKeeps, SetKeeps, TreeParts
  <2> QED BY <1>0, <2>1, <2>2, DeletionStep
<1>5. CASE BlackSiblingRedNephew
  <2>1. PICK s, side : Becomes(Tree, Failed) \/ Becomes(TurnTo(s, side), Unlink)
    BY <1>5 DEF BlackSiblingRedNephew
  <2>2. CASE Becomes(Tree, Failed)
    <3>1. key' = key /\ op' = Failed /\ link' = link
      BY <2>2, TreeParts DEF Becomes
    <3> QED BY <3>1, FailedShape DEF TreeKeeps, Shape, PCs
  <2>3. CASE Becomes(TurnTo(s, side), Unlink)
    BY <1>0, <1>1, <2>3, TurnToKeeps, DeletionStep
  <2> QED BY <2>1, <2>2, <2>3
<1>6. CASE BlackSibling
  <2>1. PICK p, s, o :
          /\ Becomes(Set(Set(Tree, s, "color", RED), p, "color", BLACK), o)
          /\ o = Unlink \/ o = [op EXCEPT !.cur = p]
    BY <1>6 DEF BlackSibling
  <2>2. DOMAIN Set(Set(Tree, s, "color", RED), p, "color", BLACK).link = DOMAIN link
    BY SetKeeps, TreeParts
  <2>3. GoesOn(o)
    BY <1>1, <1>2, <2>1
  <2> QED BY <1>0, <2>1, <2>2, <2>3, DeletionStep
<1>7. CASE FixedAtRoot
  BY <1>0, <1>1, <1>7, DeletionGoesOn DEF FixedAtRoot
<1>8. CASE UnlinkLeaf
  <2>1. PICK t : t = IF op.parent = NULL THEN Tree ELSE ReplaceChild(Tree, op.parent, op.node, NULL)
    OBVIOUS
  <2>2. DOMAIN t.link = DOMAIN link
    BY <2>1, ReplaceChildKeeps, TreeParts
  <2>3. Becomes(t, Deleted)
    BY <1>8, <2>1 DEF UnlinkLeaf
  <2> QED BY <1>0, <1>1, <2>2, <2>3, DeletionStep
<1> QED BY <1>3, <1>4, <1>5, <1>6, <1>7, <1>8

\* So does every step of the tree, but for the node an insertion adds.
LEMMA TreeStepKeeps ==
  ASSUME Shape, TreeStep
  PROVE  TreeKeeps
<1>1. CASE Undefined
  BY <1>1, FailedShape DEF Undefined, TreeKeeps, Shape, PCs
<1> QED BY <1>1, InsertKeeps, DeleteKeeps, RepairKeeps DEF TreeStep

-----------------------------------------------------------------------------
(* The blocks.                                                              *)

\* Free blocks are ranges of the buffer, large enough for a node.
LEMMA FreeRanges ==
  ASSUME IInv
  PROVE  /\ Start \in Nat \ {0} /\ Size \in Nat
         /\ \A a \in DOMAIN key : a \in Nat /\ key[a] \in Nat /\ key[a] >= 7 /\ a \in FreeWords(a)
         /\ \A b \in live : b.ptr \in Nat /\ b.pad \in Nat /\ b.sz \in Nat
BY RBAssumption DEF IInv, TypeOK, Arena, NodeWords, FreeWords

\* An interval cut in two.
LEMMA RangeSplits ==
  ASSUME NEW i \in Int, NEW j \in Int, NEW n \in Int, i < n, n <= j
  PROVE  n..j \cup i..(n - 1) = i..j /\ n..j \cap i..(n - 1) = {}
OBVIOUS

\* Alloc: the block falls apart into what the client gets and what is left of it.
LEMMA TakeBlockTiles ==
  ASSUME IInv, TakeBlock
  PROVE  /\ Tiled' /\ BlocksSound'
         /\ DOMAIN key' \subseteq Arena
         /\ \A a \in DOMAIN key' : key'[a] \in NodeWords..Size
         /\ live' \subseteq [ptr : Arena, pad : 0..Size, sz : 0..Size, req : Sizes, al : Aligns]
<1>1. PICK b, ptr, rest, new :
        /\ b = op.node /\ ptr = b + req.pad /\ rest = key[b] - (req.pad + req.sz)
        /\ live' = live \cup {new}
        /\ new = [ptr |-> ptr, pad |-> req.pad, req |-> req.sz, al |-> req.al,
                  sz |-> IF rest >= freeHeaderSize THEN req.sz ELSE req.sz + rest]
        /\ key' = IF rest >= freeHeaderSize THEN Add(Drop(key, b), ptr + req.sz, rest) ELSE Drop(key, b)
  BY DEF TakeBlock
<1>2. /\ b \in DOMAIN key /\ req.pad = BlockPadding(b, req.al, 2) /\ key[b] > req.pad + req.sz
      /\ req.sz \in Sizes /\ req.al \in Aligns
  BY <1>1 DEF IInv, Chosen, TakeBlock, DeletePCs, allocHeaderSize
<1>3. /\ b \in Nat /\ key[b] \in Nat /\ req.sz \in Nat /\ req.al \in Nat \ {0}
      /\ req.pad \in Nat /\ req.pad >= 2 /\ (b + req.pad) % req.al = 0
      /\ ptr \in Nat /\ rest \in Nat /\ rest > 0
  <2>1. b \in Nat /\ key[b] \in Nat /\ req.sz \in Nat /\ req.al \in Nat \ {0}
    BY <1>2, FreeRanges, RBAssumption
  <2>2. req.pad \in Nat /\ req.pad >= 2 /\ (b + req.pad) % req.al = 0
    <3>1. /\ BlockPadding(b, req.al, 2) \in Nat /\ BlockPadding(b, req.al, 2) >= 2
          /\ (b + BlockPadding(b, req.al, 2)) % req.al = 0
      BY <2>1, 2 \in Nat, BlockPaddingOk, Zenon
    <3> QED BY <1>2, <3>1
  <2>3. ptr \in Nat
    BY <1>1, <2>1, <2>2
  <2> QED BY <1>1, <1>2, <2>1, <2>2, <2>3
<1>4. /\ new.ptr = ptr /\ new.pad = req.pad /\ new.req = req.sz /\ new.al = req.al
      /\ new.sz \in Nat /\ new.sz >= req.sz
      /\ rest < freeHeaderSize => new.sz = req.sz + rest
      /\ rest >= freeHeaderSize => new.sz = req.sz
  BY <1>1, <1>3 DEF freeHeaderSize
<1>5. FreeWords(b) = b..(b + key[b] - 1) /\ FreeWords(b) \subseteq Arena
  BY <1>2 DEF FreeWords, IInv, Tiled
<1>6. /\ ptr - req.pad = b /\ ptr + req.sz + rest = b + key[b] /\ ptr = b + req.pad
      /\ freeHeaderSize = 8
  BY <1>1, <1>3 DEF freeHeaderSize
<1>7. /\ \A a \in DOMAIN key \ {b} : a \in DOMAIN Drop(key, b) /\ Drop(key, b)[a] = key[a]
      /\ DOMAIN Drop(key, b) = DOMAIN key \ {b}
  BY DEF Drop
<1>8. HeldWords(new) = b..(ptr + new.sz - 1)
  BY <1>4, <1>6 DEF HeldWords
<1>8a. PICK k, sz, pad, z : k = key[b] /\ sz = req.sz /\ pad = req.pad /\ z = new.sz
  OBVIOUS
\* The same in plain numbers.
<1>8b. /\ b \in Nat /\ k \in Nat /\ sz \in Nat /\ pad \in Nat /\ ptr \in Nat /\ rest \in Nat /\ z \in Nat
       /\ pad >= 2 /\ rest > 0 /\ ptr = b + pad /\ ptr + sz + rest = b + k
       /\ rest < 8 => z = sz + rest
       /\ rest >= 8 => z = sz
       /\ FreeWords(b) = b..(b + k - 1) /\ HeldWords(new) = b..(ptr + z - 1)
  BY <1>8a, <1>3, <1>4, <1>5, <1>6, <1>8
<1>9. /\ \A a, c \in DOMAIN key : a # c => FreeWords(a) \cap FreeWords(c) = {}
      /\ \A d, c \in live : d # c => HeldWords(d) \cap HeldWords(c) = {}
      /\ \A a \in DOMAIN key, d \in live : FreeWords(a) \cap HeldWords(d) = {}
      /\ \A w : w \in Arena <=> \/ \E a \in DOMAIN key : w \in FreeWords(a)
                                \/ \E d \in live : w \in HeldWords(d)
  BY DEF IInv, Tiled
<1>10. /\ \A a, c \in DOMAIN key' : a # c => FreeWords(a)' \cap FreeWords(c)' = {}
       /\ \A d, c \in live' : d # c => HeldWords(d) \cap HeldWords(c) = {}
       /\ \A a \in DOMAIN key', d \in live' : FreeWords(a)' \cap HeldWords(d) = {}
       /\ \A w : w \in Arena <=> \/ \E a \in DOMAIN key' : w \in FreeWords(a)'
                                 \/ \E d \in live' : w \in HeldWords(d)
       /\ \A a \in DOMAIN key' : a \in Arena /\ key'[a] \in NodeWords..Size
  <2>1. CASE rest < freeHeaderSize
    <3>1. key' = Drop(key, b)
      BY <1>1, <1>3, <1>6, <2>1
    <3>2. /\ DOMAIN key' = DOMAIN key \ {b}
          /\ \A a \in DOMAIN key' : key'[a] = key[a] /\ FreeWords(a)' = FreeWords(a)
      BY <1>7, <3>1 DEF FreeWords
    <3>3. HeldWords(new) = FreeWords(b)
      <4>1. ptr + z - 1 = b + k - 1
        BY <1>8b, <1>6, <2>1
      <4> QED BY <1>8b, <4>1
    <3>4. \A a, c \in DOMAIN key' : a # c => FreeWords(a)' \cap FreeWords(c)' = {}
      BY <1>9, <3>2
    <3>5. \A d, c \in live' : d # c => HeldWords(d) \cap HeldWords(c) = {}
      BY <1>1, <1>2, <1>9, <3>3
    <3>6. \A a \in DOMAIN key', d \in live' : FreeWords(a)' \cap HeldWords(d) = {}
      BY <1>1, <1>2, <1>9, <3>2, <3>3
    <3>7. \A w : w \in Arena <=> \/ \E a \in DOMAIN key' : w \in FreeWords(a)'
                                 \/ \E d \in live' : w \in HeldWords(d)
      BY <1>1, <1>2, <1>9, <3>2, <3>3
    <3>8. \A a \in DOMAIN key' : a \in Arena /\ key'[a] \in NodeWords..Size
      BY <3>2 DEF IInv, TypeOK
    <3> QED BY <3>4, <3>5, <3>6, <3>7, <3>8
  <2>2. CASE rest >= freeHeaderSize
    <3>1. PICK n : n = ptr + sz
      OBVIOUS
    <3>2. n \in Nat /\ b < n /\ n <= b + k - 1 /\ n + rest = b + k /\ ptr + z = n /\ z = sz
      <4>1. rest >= 8
        BY <1>6, <2>2
      <4>2. z = sz /\ n \in Nat /\ ptr + z = n
        BY <4>1, <1>8b, <3>1
      <4>3. b < n /\ n + rest = b + k
        BY <1>8b, <3>1
      <4> QED BY <4>1, <4>2, <4>3, <1>8b
    <3>3. key' = Add(Drop(key, b), n, rest)
      BY <1>1, <1>8a, <2>2, <3>1
    <3>4. n \in FreeWords(b) /\ n \notin DOMAIN key
      <4>1. n \in FreeWords(b)
        BY <3>2, <1>8b
      <4>2. n # b
        BY <3>2, <1>8b
      <4> QED BY <4>1, <4>2, <1>2, <1>9, FreeRanges
    <3>5. /\ DOMAIN key' = (DOMAIN key \ {b}) \cup {n}
          /\ key'[n] = rest
          /\ \A a \in DOMAIN key \ {b} : key'[a] = key[a] /\ FreeWords(a)' = FreeWords(a)
      BY <1>7, <3>3, <3>4 DEF Add, FreeWords
    <3>6. FreeWords(n)' = n..(b + k - 1) /\ HeldWords(new) = b..(n - 1)
      <4>1. FreeWords(n)' = n..(n + rest - 1)
        BY <3>5 DEF FreeWords
      <4>2. n + rest - 1 = b + k - 1 /\ ptr + z - 1 = n - 1
        BY <3>2, <1>8b
      <4> QED BY <4>1, <4>2, <1>8b
    <3>7. FreeWords(n)' \cap HeldWords(new) = {} /\ FreeWords(n)' \cup HeldWords(new) = FreeWords(b)
      <4>1. n \in Nat /\ b + k - 1 \in Int
        BY <3>2, <1>8b
      <4>2. n..(b + k - 1) \cup b..(n - 1) = b..(b + k - 1) /\ n..(b + k - 1) \cap b..(n - 1) = {}
        BY <3>2, <4>1, <1>8b, RangeSplits
      <4> QED BY <4>2, <3>6, <1>8b
    <3>8. \A a, c \in DOMAIN key' : a # c => FreeWords(a)' \cap FreeWords(c)' = {}
      BY <1>2, <1>9, <3>5, <3>7
    <3>9. \A d, c \in live' : d # c => HeldWords(d) \cap HeldWords(c) = {}
      BY <1>1, <1>2, <1>9, <3>7
    <3>10. \A a \in DOMAIN key', d \in live' : FreeWords(a)' \cap HeldWords(d) = {}
      BY <1>1, <1>2, <1>9, <3>5, <3>7
    <3>11. \A w : w \in Arena <=> \/ \E a \in DOMAIN key' : w \in FreeWords(a)'
                                  \/ \E d \in live' : w \in HeldWords(d)
      BY <1>1, <1>2, <1>9, <3>5, <3>7
    <3>12. \A a \in DOMAIN key' : a \in Arena /\ key'[a] \in NodeWords..Size
      <4>1. n \in Arena
        BY <1>5, <3>4
      <4>2. rest \in NodeWords..Size
        BY <1>2, <1>3, <1>6, <2>2, FreeRanges DEF IInv, TypeOK, NodeWords
      <4> QED BY <3>5, <4>1, <4>2 DEF IInv, TypeOK
    <3> QED BY <3>8, <3>9, <3>10, <3>11, <3>12
  <2> QED BY <1>3, <1>6, <2>1, <2>2
<1>11. Tiled'
  <2>1. UNION ({FreeWords(a)' : a \in DOMAIN key'} \cup {HeldWords(d) : d \in live'}) = Arena
    BY <1>10
  <2> QED BY <1>10, <2>1 DEF Tiled, HeldWords, Arena
<1>12. BlocksSound'
  <2>1. new.ptr % new.al = 0 /\ new.pad >= allocHeaderSize /\ new.req <= new.sz
    BY <1>3, <1>4, <1>6 DEF allocHeaderSize
  <2> QED BY <1>1, <2>1 DEF IInv, BlocksSound, allocHeaderSize
<1>13. new \in [ptr : Arena, pad : 0..Size, sz : 0..Size, req : Sizes, al : Aligns]
  <2>1. ptr \in Arena
    <3>1. k > pad + sz
      BY <1>2, <1>8a
    <3>2. ptr \in b..(b + k - 1)
      BY <1>8b, <3>1
    <3> QED BY <1>5, <1>8b, <3>2
  <2>2. req.pad \in 0..Size /\ new.sz \in 0..Size
    BY <1>2, <1>3, <1>4, <1>6, FreeRanges DEF IInv, TypeOK
  <2>3. new = [ptr |-> ptr, pad |-> req.pad, req |-> req.sz, al |-> req.al, sz |-> new.sz]
    BY <1>1
  <2> QED BY <1>2, <2>1, <2>2, <2>3
<1>14. live' \subseteq [ptr : Arena, pad : 0..Size, sz : 0..Size, req : Sizes, al : Aligns]
  BY <1>1, <1>13 DEF IInv, TypeOK
<1> QED BY <1>10, <1>11, <1>12, <1>14

\* Free: what a client held is one free block.
LEMMA FreeTiles ==
  ASSUME IInv, NEW b \in live, Free(b)
  PROVE  /\ Tiled' /\ BlocksSound'
         /\ DOMAIN key' \subseteq Arena
         /\ \A a \in DOMAIN key' : key'[a] \in NodeWords..Size
         /\ DOMAIN key' = DOMAIN key \cup {b.ptr - b.pad}
         /\ live' \subseteq [ptr : Arena, pad : 0..Size, sz : 0..Size, req : Sizes, al : Aligns]
<1>1. PICK n, e : n = b.ptr - b.pad /\ e = b.pad + b.sz
  OBVIOUS
<1>2. e >= 7 /\ live' = live \ {b} /\ key' = Add(key, n, e)
  BY <1>1 DEF Free, Extent, NodeWords
<1>3. b.ptr \in Nat /\ b.pad \in Nat /\ b.sz \in Nat /\ Start \in Nat /\ Size \in Nat
  BY FreeRanges
<1>4. n \in Int /\ e \in Nat /\ HeldWords(b) = n..(n + e - 1)
  BY <1>1, <1>3 DEF HeldWords
<1>5. /\ \A a, c \in DOMAIN key : a # c => FreeWords(a) \cap FreeWords(c) = {}
      /\ \A d, c \in live : d # c => HeldWords(d) \cap HeldWords(c) = {}
      /\ \A a \in DOMAIN key, d \in live : FreeWords(a) \cap HeldWords(d) = {}
      /\ \A w : w \in Arena <=> \/ \E a \in DOMAIN key : w \in FreeWords(a)
                                \/ \E d \in live : w \in HeldWords(d)
  BY DEF IInv, Tiled
<1>6. n \in HeldWords(b) /\ (n + e - 1) \in HeldWords(b) /\ HeldWords(b) \subseteq Arena
  BY <1>2, <1>4, <1>5
<1>7. n \in Arena /\ e \in NodeWords..Size
  <2>1. n \in Arena /\ (n + e - 1) \in Arena
    BY <1>6
  <2>2. n >= Start /\ n + e - 1 <= Start + Size - 1
    BY <2>1, <1>3, <1>4 DEF Arena
  <2>3. e <= Size
    BY <2>2, <1>3, <1>4
  <2> QED BY <2>1, <2>3, <1>2, <1>3, <1>4 DEF NodeWords
<1>8. n \notin DOMAIN key
  BY <1>5, <1>6, FreeRanges
<1>9. /\ DOMAIN key' = DOMAIN key \cup {n}
      /\ key'[n] = e
      /\ \A a \in DOMAIN key : key'[a] = key[a] /\ FreeWords(a)' = FreeWords(a)
  BY <1>2, <1>8 DEF Add, FreeWords
<1>10. FreeWords(n)' = HeldWords(b)
  BY <1>4, <1>9 DEF FreeWords
<1>11. \A a, c \in DOMAIN key' : a # c => FreeWords(a)' \cap FreeWords(c)' = {}
  BY <1>5, <1>9, <1>10
<1>12. \A d, c \in live' : d # c => HeldWords(d) \cap HeldWords(c) = {}
  BY <1>2, <1>5
<1>13. \A a \in DOMAIN key', d \in live' : FreeWords(a)' \cap HeldWords(d) = {}
  BY <1>2, <1>5, <1>9, <1>10
<1>14. \A w : w \in Arena <=> \/ \E a \in DOMAIN key' : w \in FreeWords(a)'
                              \/ \E d \in live' : w \in HeldWords(d)
  BY <1>2, <1>5, <1>9, <1>10
<1>15. Tiled'
  <2>1. UNION ({FreeWords(a)' : a \in DOMAIN key'} \cup {HeldWords(d) : d \in live'}) = Arena
    BY <1>14
  <2> QED BY <1>11, <1>12, <1>13, <2>1 DEF Tiled, HeldWords, Arena
<1>16. BlocksSound'
  BY <1>2 DEF IInv, BlocksSound, allocHeaderSize
<1>17. \A a \in DOMAIN key' : a \in Arena /\ key'[a] \in NodeWords..Size
  BY <1>7, <1>9 DEF IInv, TypeOK
<1> QED BY <1>1, <1>2, <1>9, <1>15, <1>16, <1>17 DEF IInv, TypeOK

-----------------------------------------------------------------------------
(* The search, the steps of the tree, and all of Next.                      *)

\* A step of the tree, or of the search, leaves the blocks alone.
LEMMA BlocksStay ==
  ASSUME IInv, UNCHANGED <<key, live>>
  PROVE  /\ Tiled' /\ BlocksSound'
         /\ DOMAIN key' \subseteq Arena
         /\ \A a \in DOMAIN key' : key'[a] \in NodeWords..Size
         /\ live' \subseteq [ptr : Arena, pad : 0..Size, sz : 0..Size, req : Sizes, al : Aligns]
BY DEF IInv, Tiled, BlocksSound, FreeWords, HeldWords, TypeOK

\* Alloc starts at the root, and may end unserved.
LEMMA SearchOps ==
  ASSUME NEW c
  PROVE  [Idle EXCEPT !.pc = "search", !.cur = c]
           = [pc |-> "search", node |-> NULL, cur |-> c, parent |-> NULL]
<1>1. PICK x : x = [Idle EXCEPT !.pc = "search"]
  OBVIOUS
<1>2. x = [pc |-> "search", node |-> NULL, cur |-> NULL, parent |-> NULL]
  BY <1>1, FailedShape
<1>3. [Idle EXCEPT !.pc = "search", !.cur = c] = [x EXCEPT !.cur = c]
  BY <1>1, Zenon
<1>4. [x EXCEPT !.cur = c] = [pc |-> "search", node |-> NULL, cur |-> c, parent |-> NULL]
  BY <1>2
<1> QED BY <1>3, <1>4

\* The record of a request that was turned down.
LEMMA UnservedShape == Unserved = [pc |-> "unserved", node |-> NULL, cur |-> NULL, parent |-> NULL]
BY FailedShape DEF Unserved

\* The search settles on a free block that has room for what is asked for.
LEMMA ChooseKeeps ==
  ASSUME IInv, op.pc = "search", NEW a \in DOMAIN key, HasRoom(a), Choose(a), pending' = <<>>,
         UNCHANGED <<key, link, whole, live>>
  PROVE  IInv'
<1>1. PICK pad : pad = BlockPadding(a, req.al, 2)
  OBVIOUS
<1>2. /\ op' = [pc |-> "delete", node |-> a, cur |-> NULL, parent |-> NULL]
      /\ req' = [sz |-> req.sz, al |-> req.al, pad |-> pad]
  BY <1>1 DEF Choose, StartDelete, IInv, Chosen, PaddingIn, allocHeaderSize
<1>3. a \in Nat /\ key[a] \in Nat /\ req.sz \in Sizes /\ req.al \in Aligns
  BY FreeRanges DEF IInv, Chosen
<1>4. req.sz \in Nat /\ req.al \in Nat \ {0}
  BY <1>3, RBAssumption
<1>5. pad \in Nat
  BY <1>1, <1>3, <1>4, 2 \in Nat, BlockPaddingOk, Zenon
<1>6. key[a] > pad + req.sz
  <2>1. key[a] - (pad + req.sz) > 0
    BY <1>1 DEF HasRoom, PaddingIn, allocHeaderSize
  <2> QED BY <2>1, <1>3, <1>4, <1>5
<1>7. Chosen'
  BY <1>1, <1>2, <1>3, <1>6 DEF Chosen, DeletePCs, allocHeaderSize
<1>8. Shape' /\ Linked' /\ Waiting'
  BY <1>2 DEF IInv, Shape, PCs, DeletePCs, Linked, Waiting
<1>9. TypeOK'
  BY <1>2, BlocksStay DEF IInv, TypeOK
<1> QED BY <1>7, <1>8, <1>9, BlocksStay DEF IInv

\* The search goes on at another node.
LEMMA SearchGoesOn ==
  ASSUME IInv, op.pc = "search", NEW c, op' = [op EXCEPT !.cur = c],
         pending' \in Seq(DOMAIN key), UNCHANGED <<key, link, whole, live, req>>
  PROVE  IInv'
<1>1. op' = [pc |-> "search", node |-> op.node, cur |-> c, parent |-> op.parent]
  BY OpFields DEF IInv
<1>2. Shape' /\ Linked' /\ Waiting' /\ Chosen'
  BY <1>1 DEF IInv, Shape, PCs, DeletePCs, Linked, Waiting, Chosen
<1>3. TypeOK'
  BY <1>1, BlocksStay DEF IInv, TypeOK
<1> QED BY <1>2, <1>3, BlocksStay DEF IInv

\* Alloc writes through NULL, or the program is past what its source defines.
LEMMA StopKeeps ==
  ASSUME IInv, op' \in {Unserved, Failed}, op' = Failed \/ op.pc = "search",
         whole' \in BOOLEAN, UNCHANGED <<key, link, live, req>>
  PROVE  IInv'
<1>1. /\ op' = [pc |-> op'.pc, node |-> op'.node, cur |-> op'.cur, parent |-> op'.parent]
      /\ (op'.pc = "unserved" /\ op.pc = "search") \/ op'.pc = "undefined"
  <2>1. CASE op' = Unserved
    BY <2>1, UnservedShape, FailedShape
  <2>2. CASE op' = Failed
    BY <2>2, FailedShape
  <2> QED BY <2>1, <2>2
<1>2. Shape' /\ Linked' /\ Waiting' /\ Chosen'
  BY <1>1 DEF IInv, Shape, PCs, DeletePCs, Linked, Waiting, Chosen
<1>3. TypeOK'
  BY <1>1, BlocksStay DEF IInv, TypeOK
<1> QED BY <1>2, <1>3, BlocksStay DEF IInv

\* The steps of the search change no block.
LEMMA SearchKeeps ==
  ASSUME IInv,
         SearchTakes \/ SearchRight \/ SearchLeft \/ SearchFails \/ NoBranch \/ SearchUndefined
  PROVE  IInv'
<1>1. op.pc = "search" /\ pending \in Seq(DOMAIN key) /\ whole \in BOOLEAN
  BY DEF SearchTakes, SearchRight, SearchLeft, SearchFails, NoBranch, SearchUndefined,
         Searching, IInv, Waiting, TypeOK
<1>2. Searching => op.cur \in DOMAIN key
  BY DEF Searching, SearchDefined, SearchReads
<1>3. CASE SearchTakes
  BY <1>1, <1>2, <1>3, ChooseKeeps DEF SearchTakes
<1>4. CASE SearchRight
  BY <1>1, <1>4, SearchGoesOn DEF SearchRight
<1>5. CASE SearchLeft
  <2>1. Append(pending, op.cur) \in Seq(DOMAIN key)
    BY <1>1, <1>2, <1>5 DEF SearchLeft
  <2> QED BY <1>1, <1>5, <2>1, SearchGoesOn DEF SearchLeft
<1>6. CASE SearchFails
  <2>1. CASE pending = <<>>
    BY <1>1, <1>6, <2>1, StopKeeps DEF SearchFails
  <2>2. CASE pending # <<>>
    <3>1. PICK a : a = pending[Len(pending)] /\ FallBack(a)
      BY <1>6, <2>2 DEF SearchFails
    <3>2. Len(pending) \in Nat \ {0} /\ a \in DOMAIN key
      BY <1>1, <2>2, <3>1
    <3>3. SubSeq(pending, 1, Len(pending) - 1) \in Seq(DOMAIN key)
      BY <1>1, <3>2
    <3>4. UNCHANGED <<key, link, whole, live>>
      BY <1>6 DEF SearchFails
    <3>5. CASE HasRoom(a) /\ Choose(a) /\ pending' = <<>>
      BY <1>1, <3>2, <3>4, <3>5, ChooseKeeps
    <3>6. CASE ~HasRoom(a)
      BY <1>1, <3>1, <3>3, <3>4, <3>6, SearchGoesOn DEF FallBack
    <3> QED BY <3>1, <3>5, <3>6 DEF FallBack
  <2> QED BY <2>1, <2>2
<1>7. CASE NoBranch
  BY <1>1, <1>7, StopKeeps DEF NoBranch
<1>8. CASE SearchUndefined
  BY <1>1, <1>8, StopKeeps DEF SearchUndefined
<1> QED BY <1>3, <1>4, <1>5, <1>6, <1>7, <1>8

\* Nor do the steps of the tree.
LEMMA TreeStepInv ==
  ASSUME IInv, TreeStep, UNCHANGED <<live, req, pending>>
  PROVE  IInv'
<1>1. TreeKeeps /\ whole' \in BOOLEAN
  BY TreeStepKeeps, TreeStepWhole DEF IInv, TypeOK
<1>2. key' = key /\ Shape'
  BY <1>1 DEF TreeKeeps
<1>3. CASE op'.pc = "undefined" /\ link' = link
  <2>1. Linked' /\ Waiting' /\ Chosen'
    BY <1>2, <1>3 DEF IInv, Linked, Waiting, Chosen, DeletePCs
  <2> QED BY <1>1, <1>2, <1>3, <2>1, BlocksStay DEF IInv, TypeOK, Linked
<1>4. CASE op.pc = "descend" /\ op' = [op EXCEPT !.parent = op'.parent, !.cur = op'.cur] /\ link' = link
  <2>1. PICK c, q : op' = [op EXCEPT !.parent = q, !.cur = c]
    BY <1>4, Zenon
  <2>2. op' = [pc |-> op.pc, node |-> op.node, cur |-> c, parent |-> q]
    BY <2>1, OpFields, Zenon DEF IInv
  <2>3. op'.pc = "descend" /\ op'.node = op.node
    BY <1>4, <2>2
  <2>4. Linked' /\ Waiting' /\ Chosen'
    BY <1>2, <1>4, <2>3 DEF IInv, Linked, Waiting, Chosen, DeletePCs
  <2> QED BY <1>1, <1>2, <2>3, <2>4, BlocksStay DEF IInv, TypeOK, Linked
<1>5. CASE op.pc = "descend" /\ op'.pc \in {"idle", "fixup"} /\ DOMAIN link' = DOMAIN link \cup {op.node}
  <2>1. Linked' /\ Waiting' /\ Chosen'
    BY <1>2, <1>5 DEF IInv, Linked, Waiting, Chosen, DeletePCs
  <2> QED BY <1>1, <1>2, <1>5, <2>1, BlocksStay DEF IInv, TypeOK, Linked
<1>6. CASE op.pc = "fixup" /\ op'.pc \in {"idle", "fixup"} /\ DOMAIN link' = DOMAIN link
  <2>1. Linked' /\ Waiting' /\ Chosen'
    BY <1>2, <1>6 DEF IInv, Linked, Waiting, Chosen, DeletePCs
  <2> QED BY <1>1, <1>2, <1>6, <2>1, BlocksStay DEF IInv, TypeOK, Linked
<1>7. CASE /\ op.pc \in DeletePCs /\ op'.pc \in DeletePCs
           /\ op'.node = op.node /\ DOMAIN link' = DOMAIN link
  <2>1. Linked' /\ Waiting' /\ Chosen'
    BY <1>2, <1>7 DEF IInv, Linked, Waiting, Chosen, DeletePCs
  <2> QED BY <1>1, <1>2, <1>7, <2>1, BlocksStay DEF IInv, TypeOK, Linked, DeletePCs
<1> QED BY <1>1, <1>3, <1>4, <1>5, <1>6, <1>7 DEF TreeKeeps

\* IInv is inductive.
LEMMA NextKeeps == IInv /\ [Next]_vars => IInv'
<1> SUFFICES ASSUME IInv, [Next]_vars PROVE IInv'
  OBVIOUS
<1>1. ASSUME NEW sz \in Sizes, NEW al \in Aligns, Alloc(sz, al) PROVE IInv'
  <2>1. /\ op' = [pc |-> "search", node |-> NULL, cur |-> root, parent |-> NULL]
        /\ req' = [sz |-> sz, al |-> al, pad |-> 0]
        /\ op.pc = "idle" /\ pending' = pending /\ UNCHANGED <<key, link, whole, live>>
    BY <1>1, SearchOps DEF Alloc
  <2>2. pending' \in Seq(DOMAIN key)
    BY <2>1 DEF IInv, Waiting
  <2>3. Shape' /\ Linked' /\ Waiting' /\ Chosen'
    BY <2>1, <2>2 DEF IInv, Shape, PCs, DeletePCs, Linked, Waiting, Chosen
  <2>4. TypeOK'
    BY <2>1, BlocksStay DEF IInv, TypeOK
  <2> QED BY <2>1, <2>3, <2>4, BlocksStay DEF IInv
<1>2. CASE SearchTakes \/ SearchRight \/ SearchLeft \/ SearchFails \/ NoBranch \/ SearchUndefined
  BY <1>2, SearchKeeps
<1>3. CASE TakeBlock
  <2>1. /\ op.pc \in {"deleted", "unlinked"} /\ DOMAIN link = DOMAIN key
        /\ op.node \in DOMAIN key /\ pending = <<>> /\ whole \in BOOLEAN
    BY <1>3 DEF TakeBlock, IInv, Linked, Chosen, Waiting, DeletePCs, TypeOK
  <2>2. PICK n, rest :
          /\ link' = Drop(link, op.node) /\ UNCHANGED <<req, pending, whole>>
          /\ \/ key' = Add(Drop(key, op.node), n, rest) /\ op' = StartInsert(n)
             \/ key' = Drop(key, op.node) /\ op' = Idle
    BY <1>3 DEF TakeBlock
  <2>3. \/ /\ op' = [pc |-> "descend", node |-> n, cur |-> root, parent |-> NULL]
           /\ DOMAIN key' = DOMAIN link' \cup {n}
        \/ /\ op' = [pc |-> "idle", node |-> NULL, cur |-> NULL, parent |-> NULL]
           /\ DOMAIN key' = DOMAIN link'
    BY <2>1, <2>2, FailedShape DEF StartInsert, Add, Drop
  <2>4. op'.pc \in {"descend", "idle"} /\ Shape'
    BY <2>3 DEF Shape, PCs
  <2>5. Linked'
    BY <2>3 DEF Linked
  <2>6. Waiting' /\ Chosen'
    BY <2>1, <2>2, <2>4 DEF IInv, DeletePCs, Waiting, Chosen
  <2> QED BY <1>3, <2>1, <2>2, <2>3, <2>4, <2>5, <2>6, TakeBlockTiles DEF IInv, TypeOK
<1>4. ASSUME NEW b \in live, Free(b) PROVE IInv'
  <2>1. /\ op.pc = "idle" /\ DOMAIN link = DOMAIN key /\ pending = <<>> /\ whole \in BOOLEAN
        /\ UNCHANGED <<link, whole, req, pending>>
    BY <1>4 DEF Free, IInv, Linked, Waiting, TypeOK
  <2>2. /\ op' = [pc |-> "descend", node |-> b.ptr - b.pad, cur |-> root, parent |-> NULL]
        /\ DOMAIN key' = DOMAIN link' \cup {b.ptr - b.pad}
    BY <1>4, <2>1, FreeTiles DEF Free, StartInsert
  <2>3. Shape' /\ Linked' /\ Waiting' /\ Chosen'
    BY <2>1, <2>2 DEF IInv, Shape, PCs, DeletePCs, Linked, Waiting, Chosen
  <2> QED BY <1>4, <2>1, <2>2, <2>3, FreeTiles DEF IInv, TypeOK
<1>5. ASSUME NEW b \in live, FreeOverruns(b) PROVE IInv'
  BY <1>5, StopKeeps DEF FreeOverruns
<1>6. CASE TreeStep /\ UNCHANGED <<live, req, pending>>
  BY <1>6, TreeStepInv
<1>7. CASE UNCHANGED vars
  <2>1. Shape' /\ Linked' /\ Waiting' /\ Chosen'
    BY <1>7 DEF vars, treeVars, IInv, Shape, Linked, Waiting, Chosen
  <2> QED BY <1>7, <2>1, BlocksStay DEF vars, treeVars, IInv, TypeOK
<1> QED BY <1>1, <1>2, <1>3, <1>4, <1>5, <1>6, <1>7 DEF Next

\* The invariant holds of a buffer just allocated: one free block.
LEMMA InitKeeps == Init => IInv
<1> SUFFICES ASSUME Init PROVE IInv
  OBVIOUS
<1>1. /\ DOMAIN key = {Start} /\ DOMAIN link = {Start} /\ key[Start] = Size
      /\ Start \in Nat /\ Size \in Nat /\ Size >= 7 /\ Start \in Arena
  BY RBAssumption DEF Init, NodeWords, Arena
<1>2. op = [pc |-> "idle", node |-> NULL, cur |-> NULL, parent |-> NULL]
  BY FailedShape DEF Init
<1>3. Shape /\ Linked /\ Waiting /\ Chosen
  BY <1>1, <1>2 DEF Init, Shape, PCs, Linked, Waiting, Chosen, NoReq, DeletePCs
<1>4. TypeOK
  BY <1>1, <1>2 DEF Init, TypeOK, NodeWords
<1>5. FreeWords(Start) = Arena
  BY <1>1 DEF FreeWords, Arena
<1>6. Tiled /\ BlocksSound
  BY <1>1, <1>5 DEF Init, Tiled, BlocksSound
<1> QED BY <1>3, <1>4, <1>6 DEF IInv

-----------------------------------------------------------------------------
(* The tree, as long as it is whole.                                        *)

\* What the search for a block knows of a tree at rest: each call that waits has a node
\* of the tree, and the calls it has made since, c the last one, are in its left branch.
Searched(c, p, H, D) ==
  /\ AtRest(Tree, key, DOMAIN link, H, D) /\ c \in H \cup {NULL}
  /\ \A i \in 1..Len(p) : p[i] \in H
  /\ \A i, j \in 1..Len(p) : i < j => p[j] \in D[Get(Tree, p[i], "left")]
  /\ c # NULL => \A i \in 1..Len(p) : c \in D[Get(Tree, p[i], "left")]

\* A whole tree is usable while it is searched, and steady otherwise.
TreeKept ==
  /\ op.pc = "search" => Usable(Tree) /\ IsFiniteSet(Dom(Tree)) /\ \E H, D : Searched(op.cur, pending, H, D)
  /\ op.pc \notin {"search", "unserved"} => Steady(Tree, key, {}, op)

\* The invariant with the tree.
WInv == IInv /\ (whole => TreeKept)

\* Between calls the tree is at rest and has every free block.
LEMMA IdleRest ==
  ASSUME WInv, whole, op.pc = "idle"
  PROVE  /\ Usable(Tree) /\ IsFiniteSet(Dom(Tree)) /\ Dom(Tree) = DOMAIN link /\ DOMAIN link = DOMAIN key
         /\ \E H, D : AtRest(Tree, key, DOMAIN link, H, D)
<1>1. Steady(Tree, key, {}, op)
  BY DEF WInv, TreeKept
<1>2. Dom(Tree) = DOMAIN link
  BY TreeParts DEF Dom
<1>3. PICK H, D : Phase(Tree, key, Dom(Tree) \ Out(op, {}), H, D, op)
  BY <1>1, SteadyParts
<1>4. AtRest(Tree, key, DOMAIN link, H, D)
  <2>1. Dom(Tree) \ Out(op, {}) = DOMAIN link
    BY <1>2 DEF Out
  <2> QED BY <1>3, <2>1 DEF Phase
<1> QED BY <1>1, <1>2, <1>4, SteadyParts DEF WInv, IInv, Linked

\* And when the block that is taken is out of it, every other one.
LEMMA TakenRest ==
  ASSUME WInv, whole, op.pc \in {"deleted", "unlinked"}
  PROVE  /\ Usable(Tree) /\ IsFiniteSet(Dom(Tree)) /\ Dom(Tree) = DOMAIN link /\ DOMAIN link = DOMAIN key
         /\ op.node \in DOMAIN link /\ \E H, D : AtRest(Tree, key, DOMAIN link \ {op.node}, H, D)
<1>1. Steady(Tree, key, {}, op)
  BY DEF WInv, TreeKept
<1>2. Dom(Tree) = DOMAIN link
  BY TreeParts DEF Dom
<1>3. PICK H, D : Phase(Tree, key, Dom(Tree) \ Out(op, {}), H, D, op)
  BY <1>1, SteadyParts
<1>4. Dom(Tree) \ Out(op, {}) = DOMAIN link \ {op.node}
  BY <1>2 DEF Out
<1>5. AtRest(Tree, key, DOMAIN link \ {op.node}, H, D) /\ op.node \in DOMAIN link
  BY <1>2, <1>3, <1>4 DEF Phase
<1> QED BY <1>1, <1>2, <1>5, SteadyParts DEF WInv, IInv, Linked

\* A block that has become free can be attached to a tree at rest.
LEMMA InsertSteady ==
  ASSUME NEW t, NEW k, NEW H, NEW D, NEW n, NEW o, Usable(t), IsFiniteSet(Dom(t)),
         AtRest(t, k, Dom(t), H, D), n \notin Dom(t), n # NULL, k[n] \in Int,
         o = [pc |-> "descend", node |-> n, cur |-> Root(t), parent |-> NULL]
  PROVE  Steady(t, k, {}, o)
<1>1. o.pc = "descend" /\ o.node = n /\ o.cur = Root(t) /\ o.parent = NULL /\ OpRecord(o)
  BY DEF OpRecord
<1>2. Descending(t, k, Dom(t), H, D, o)
  BY <1>1 DEF Descending
<1>3. Dom(t) \ Out(o, {}) = Dom(t)
  BY <1>1 DEF Out
<1>4. Phase(t, k, Dom(t) \ Out(o, {}), H, D, o)
  BY <1>1, <1>2, <1>3 DEF Phase
<1> QED BY <1>1, <1>4 DEF Steady

\* A node of a tree at rest can be taken out of it.
LEMMA DeleteSteady ==
  ASSUME NEW t, NEW k, NEW H, NEW D, NEW n \in H, NEW o, Usable(t), IsFiniteSet(Dom(t)),
         AtRest(t, k, Dom(t), H, D), o = StartDelete(n)
  PROVE  Steady(t, k, {}, o)
<1>1. o.pc = "delete" /\ o.node = n /\ OpRecord(o)
  BY DEF OpRecord, StartDelete
<1>2. Deleting(t, k, Dom(t), H, D, o)
  BY <1>1 DEF Deleting, AtRest
<1>3. Dom(t) \ Out(o, {}) = Dom(t)
  BY <1>1 DEF Out
<1>4. Phase(t, k, Dom(t) \ Out(o, {}), H, D, o)
  BY <1>1, <1>2, <1>3 DEF Phase
<1> QED BY <1>1, <1>4 DEF Steady

\* What is in a node's branch is in the left branch of every node it is in itself.
LEMMA BranchWithin ==
  ASSUME NEW t, NEW H, NEW D, IsTree(t, H, D), NEW x \in H, NEW a \in H, NEW s \in {"left", "right"},
         Get(t, a, s) # NULL, a \in D[Get(t, x, "left")]
  PROVE  Get(t, a, s) \in D[Get(t, x, "left")]
<1>1. PICK c : c = Get(t, a, s)
  OBVIOUS
<1>2. PICK y : y = Get(t, x, "left")
  OBVIOUS
<1>3. y # NULL
  BY <1>2 DEF IsTree, IsTreeBy
<1>4. c \in H /\ y \in H
  BY <1>1, <1>2, <1>3 DEF IsTree, IsTreeBy
<1>5. c \in D[c]
  BY <1>4 DEF IsTree, IsTreeBy
<1>6. c \in D[a]
  BY <1>1, <1>4, <1>5 DEF IsTree, IsTreeBy
<1>7. c \in D[y]
  BY <1>2, <1>4, <1>6 DEF IsTree, IsTreeBy
<1> QED BY <1>1, <1>2, <1>7

\* The tree that is searched is a tree, and Field reads what Get does.
LEMMA SearchedTree ==
  ASSUME NEW c, NEW p, NEW H, NEW D, Searched(c, p, H, D)
  PROVE  /\ IsTree(Tree, H, D) /\ NULL \notin H /\ H \subseteq DOMAIN link
         /\ \A a \in H, s \in {"left", "right"} : Field(a, s) = Get(Tree, a, s) /\ Field(a, s) \in H \cup {NULL}
<1>1. IsTree(Tree, H, D)
  BY DEF Searched, AtRest, Sound, RedBlack
<1>2. H \subseteq Dom(Tree) /\ Dom(Tree) = DOMAIN link
  BY <1>1, TreeParts DEF IsTree, IsTreeBy, Dom
<1> QED BY <1>1, <1>2 DEF IsTree, IsTreeBy, Field

\* A call for the right branch, of the node that was looked at or of one that waited.
LEMMA SearchedRight ==
  ASSUME NEW c, NEW p \in Seq(DOMAIN key), NEW H, NEW D, Searched(c, p, H, D), c # NULL
  PROVE  Searched(Field(c, "right"), p, H, D)
<1>1. c \in H
  BY DEF Searched
<1>2. PICK d : d = Field(c, "right") /\ d = Get(Tree, c, "right") /\ d \in H \cup {NULL}
  BY <1>1, SearchedTree
<1>3. ASSUME d # NULL, NEW i \in 1..Len(p) PROVE d \in D[Get(Tree, p[i], "left")]
  <2>1. p[i] \in H /\ c \in D[Get(Tree, p[i], "left")]
    BY <1>3 DEF Searched
  <2> QED BY <2>1, <1>1, <1>2, <1>3, SearchedTree, BranchWithin
<1>4. Searched(d, p, H, D)
  BY <1>2, <1>3 DEF Searched
<1> QED BY <1>2, <1>4

\* A call for the left branch, during which the node that was looked at waits.
LEMMA SearchedLeft ==
  ASSUME NEW c, NEW p \in Seq(DOMAIN key), NEW H, NEW D, Searched(c, p, H, D), c # NULL
  PROVE  Searched(Field(c, "left"), Append(p, c), H, D)
<1>1. c \in H
  BY DEF Searched
<1>2. PICK d : d = Field(c, "left") /\ d = Get(Tree, c, "left") /\ d \in H \cup {NULL}
  BY <1>1, SearchedTree
<1>3. PICK q : q = Append(p, c)
  OBVIOUS
<1>4. Len(p) \in Nat /\ Len(q) = Len(p) + 1 /\ q[Len(p) + 1] = c /\ \A i \in 1..Len(p) : q[i] = p[i]
  BY <1>3
<1>5. \A i \in 1..Len(q) : i \in 1..Len(p) \/ i = Len(p) + 1
  BY <1>4
<1>6. \A i \in 1..Len(q) : q[i] \in H
  BY <1>1, <1>4, <1>5 DEF Searched
<1>7. ASSUME NEW i \in 1..Len(q), NEW j \in 1..Len(q), i < j PROVE q[j] \in D[Get(Tree, q[i], "left")]
  <2>1. i \in 1..Len(p)
    BY <1>4, <1>7
  <2>2. q[i] = p[i] /\ c \in D[Get(Tree, p[i], "left")]
    BY <2>1, <1>4 DEF Searched
  <2>3. CASE j = Len(p) + 1
    BY <2>2, <2>3, <1>4
  <2>4. CASE j \in 1..Len(p)
    BY <2>1, <2>2, <2>4, <1>4, <1>7 DEF Searched
  <2> QED BY <2>3, <2>4, <1>5
<1>8. ASSUME d # NULL, NEW i \in 1..Len(q) PROVE d \in D[Get(Tree, q[i], "left")]
  <2>1. CASE i = Len(p) + 1
    <3>1. d \in H /\ d \in D[d]
      BY <1>2, <1>8, SearchedTree DEF IsTree, IsTreeBy
    <3> QED BY <3>1, <2>1, <1>2, <1>4
  <2>2. CASE i \in 1..Len(p)
    <3>1. p[i] \in H /\ c \in D[Get(Tree, p[i], "left")] /\ q[i] = p[i]
      BY <2>2, <1>4 DEF Searched
    <3>2. d \in D[Get(Tree, p[i], "left")]
      BY <3>1, <1>1, <1>2, <1>8, SearchedTree, BranchWithin
    <3> QED BY <3>1, <3>2
  <2> QED BY <2>1, <2>2, <1>5
<1>9. Searched(d, q, H, D)
  BY <1>2, <1>6, <1>7, <1>8 DEF Searched
<1> QED BY <1>2, <1>3, <1>9

\* The innermost call that waits goes on when its left branch has failed.
LEMMA SearchedBack ==
  ASSUME NEW c, NEW p \in Seq(DOMAIN key), NEW H, NEW D, Searched(c, p, H, D), p # <<>>
  PROVE  /\ p[Len(p)] \in H
         /\ Searched(p[Len(p)], SubSeq(p, 1, Len(p) - 1), H, D)
         /\ SubSeq(p, 1, Len(p) - 1) \in Seq(DOMAIN key)
<1>1. PICK n : n = Len(p)
  OBVIOUS
<1>2. n \in Nat /\ n > 0 /\ n \in 1..Len(p)
  BY <1>1
<1>3. PICK q : q = SubSeq(p, 1, n - 1)
  OBVIOUS
<1>4. q \in Seq(DOMAIN key) /\ Len(q) = n - 1 /\ \A i \in 1..(n - 1) : q[i] = p[i]
  BY <1>1, <1>2, <1>3
<1>5. \A i \in 1..(n - 1) : i \in 1..Len(p) /\ i < n
  BY <1>1, <1>2
<1>6. p[n] \in H
  BY <1>2 DEF Searched
<1>7. \A i \in 1..Len(q) : q[i] \in H
  BY <1>4, <1>5 DEF Searched
<1>8. \A i, j \in 1..Len(q) : i < j => q[j] \in D[Get(Tree, q[i], "left")]
  BY <1>4, <1>5 DEF Searched
<1>9. \A i \in 1..Len(q) : p[n] \in D[Get(Tree, q[i], "left")]
  BY <1>2, <1>4, <1>5 DEF Searched
<1>10. Searched(p[n], q, H, D)
  BY <1>6, <1>7, <1>8, <1>9 DEF Searched
<1> QED BY <1>1, <1>3, <1>4, <1>6, <1>10

\* What WInv says while a block is sought.
LEMMA SearchParts ==
  ASSUME WInv, whole, op.pc = "search"
  PROVE  /\ Usable(Tree) /\ IsFiniteSet(Dom(Tree)) /\ Dom(Tree) = DOMAIN link /\ DOMAIN link = DOMAIN key
         /\ pending \in Seq(DOMAIN key) /\ \E H, D : Searched(op.cur, pending, H, D)
BY TreeParts DEF WInv, TreeKept, IInv, Linked, Waiting, Dom

\* The node the search has settled on can be deleted.
LEMMA ChooseSteady ==
  ASSUME WInv, whole, op.pc = "search", NEW c, NEW p, NEW H, NEW D, Searched(c, p, H, D), NEW a \in H, Choose(a),
         UNCHANGED <<key, link, root, whole>>
  PROVE  TreeKept'
<1>1. AtRest(Tree, key, Dom(Tree), H, D)
  BY SearchParts DEF Searched
<1>2. op' = StartDelete(a) /\ op'.pc = "delete"
  BY DEF Choose, StartDelete
<1> DEFINE o == op'
<1>3. o = StartDelete(a)
  BY <1>2
<1> HIDE DEF o
<1>4. Steady(Tree, key, {}, o)
  BY <1>1, <1>3, SearchParts, DeleteSteady
<1>5. Tree' = Tree /\ key' = key
  BY DEF Tree
<1> QED BY <1>2, <1>4, <1>5 DEF o, TreeKept

\* The search goes on.
LEMMA MovesKept ==
  ASSUME WInv, whole, op.pc = "search", NEW c, NEW H, NEW D, op' = [op EXCEPT !.cur = c],
         UNCHANGED <<key, link, root, whole>>, NEW p, pending' = p, Searched(c, p, H, D)
  PROVE  TreeKept'
<1>1. op' = [pc |-> "search", node |-> op.node, cur |-> c, parent |-> op.parent]
  BY OpFields DEF WInv, IInv
<1>2. op'.pc = "search" /\ op'.cur = c
  BY <1>1
<1>3. Tree' = Tree /\ key' = key /\ link' = link
  BY DEF Tree
<1>4. Searched(op.cur, pending, H, D)'
  BY <1>2, <1>3 DEF Searched
<1>5. Usable(Tree) /\ IsFiniteSet(Dom(Tree))
  BY SearchParts
<1> QED BY <1>2, <1>3, <1>4, <1>5 DEF TreeKept

\* A search that has come to a node reads nothing but nodes, and calls for none twice.
LEMMA SearchIsDefined ==
  ASSUME WInv, whole, op.pc = "search", op.cur # NULL
  PROVE  SearchDefined
<1>1. PICK H, D : Searched(op.cur, pending, H, D)
  BY SearchParts
<1>t. IsTree(Tree, H, D) /\ H \subseteq DOMAIN link
  BY <1>1, SearchedTree
<1>2. op.cur \in H /\ H \subseteq DOMAIN key
  <2>1. op.cur \in H
    BY <1>1 DEF Searched
  <2> QED BY <2>1, <1>t, SearchParts
<1>3. SearchReads \subseteq DOMAIN key
  <2>1. Field(op.cur, "left") \in H \cup {NULL}
    BY <1>1, <1>2, SearchedTree
  <2> QED BY <2>1, <1>2 DEF SearchReads
<1>4. ASSUME NEW i \in 1..Len(pending) PROVE pending[i] # op.cur
  <2>1. pending[i] \in H /\ op.cur \in D[Get(Tree, pending[i], "left")]
    BY <1>1 DEF Searched
  <2>2. pending[i] \notin D[Get(Tree, pending[i], "left")]
    BY <2>1, <1>t DEF IsTree, IsTreeBy
  <2> QED BY <2>1, <2>2
<1> QED BY <1>3, <1>4 DEF SearchDefined

\* The steps of the search keep the tree: each goes to a node of it, or back to
\* a branch that is pending.
LEMMA SearchWhole ==
  ASSUME WInv, SearchTakes \/ SearchRight \/ SearchLeft \/ SearchFails \/ NoBranch \/ SearchUndefined, whole'
  PROVE  TreeKept'
<1>1. op.pc = "search" /\ whole /\ UNCHANGED <<key, link, root, whole>>
  BY DEF SearchTakes, SearchRight, SearchLeft, SearchFails, NoBranch, SearchUndefined, Searching
<1>2. PICK H, D : Searched(op.cur, pending, H, D)
  BY <1>1, SearchParts
<1>3. pending \in Seq(DOMAIN key) /\ DOMAIN link = DOMAIN key /\ Usable(Tree)
  BY <1>1, SearchParts
<1>4. Searching => op.cur # NULL /\ op.cur \in H
  <2>1. NULL \notin DOMAIN key
    BY <1>3, TreeParts DEF Usable, Dom
  <2>2. Searching => op.cur \in DOMAIN key
    BY DEF Searching, SearchDefined, SearchReads
  <2> QED BY <2>1, <2>2, <1>2 DEF Searched
<1>5. CASE SearchTakes
  BY <1>1, <1>2, <1>4, <1>5, ChooseSteady DEF SearchTakes
<1>6. CASE SearchRight
  <2>1. PICK d : d = Field(op.cur, "right") /\ op' = [op EXCEPT !.cur = d] /\ pending' = pending
    BY <1>6 DEF SearchRight
  <2>2. Searched(d, pending, H, D)
    BY <2>1, <1>2, <1>3, <1>4, <1>6, SearchedRight DEF SearchRight
  <2> QED BY <2>1, <2>2, <1>1, MovesKept
<1>7. CASE SearchLeft
  <2>1. PICK d, q : /\ d = Field(op.cur, "left") /\ op' = [op EXCEPT !.cur = d]
                    /\ q = Append(pending, op.cur) /\ pending' = q
    BY <1>7 DEF SearchLeft
  <2>2. Searched(d, q, H, D)
    BY <2>1, <1>2, <1>3, <1>4, <1>7, SearchedLeft DEF SearchLeft
  <2> QED BY <2>1, <2>2, <1>1, MovesKept
<1>8. CASE SearchFails
  <2>1. CASE pending = <<>>
    <3>1. op' = Unserved
      BY <1>8, <2>1 DEF SearchFails
    <3> QED BY <3>1, UnservedShape DEF TreeKept
  <2>2. CASE pending # <<>>
    <3>1. PICK a : a = pending[Len(pending)]
      OBVIOUS
    <3>2. PICK q : q = SubSeq(pending, 1, Len(pending) - 1)
      OBVIOUS
    <3>3. FallBack(a)
      BY <1>8, <2>2, <3>1 DEF SearchFails
    <3>4. a \in H /\ Searched(a, q, H, D) /\ q \in Seq(DOMAIN key)
      BY <1>2, <1>3, <2>2, <3>1, <3>2, SearchedBack
    <3>5. CASE HasRoom(a) /\ Choose(a)
      BY <1>1, <3>4, <3>5, ChooseSteady
    <3>6. CASE ~HasRoom(a)
      <4>1. PICK d : d = Field(a, "right") /\ op' = [op EXCEPT !.cur = d]
        BY <3>3, <3>6 DEF FallBack
      <4>2. pending' = q
        BY <3>1, <3>2, <3>3, <3>6 DEF FallBack
      <4>3. a # NULL
        BY <1>2, <3>4, SearchedTree
      <4>4. Searched(d, q, H, D)
        BY <3>4, <4>1, <4>3, SearchedRight
      <4> QED BY <4>1, <4>2, <4>4, <1>1, MovesKept
    <3> QED BY <3>3, <3>5, <3>6 DEF FallBack
  <2> QED BY <2>1, <2>2
<1>9. CASE NoBranch
  <2>1. op' = Unserved
    BY <1>9 DEF NoBranch
  <2> QED BY <2>1, UnservedShape DEF TreeKept
<1>10. CASE SearchUndefined
  BY <1>1, <1>10, SearchIsDefined DEF SearchUndefined
<1> QED BY <1>5, <1>6, <1>7, <1>8, <1>9, <1>10

\* Alloc begins at the root, and nothing waits.
LEMMA AllocWhole ==
  ASSUME WInv, NEW sz \in Sizes, NEW al \in Aligns, Alloc(sz, al), whole'
  PROVE  TreeKept'
<1>1. /\ op.pc = "idle" /\ UNCHANGED <<key, link, root, whole, pending>> /\ pending = <<>> /\ whole
      /\ op' = [pc |-> "search", node |-> NULL, cur |-> root, parent |-> NULL]
  BY SearchOps DEF Alloc, WInv, IInv, Waiting
<1>2. op'.pc = "search" /\ op'.cur = root /\ Tree' = Tree /\ Root(Tree) = root
  BY <1>1 DEF Tree, Root
<1>3. PICK H, D : AtRest(Tree, key, DOMAIN link, H, D)
  BY <1>1, IdleRest
<1>4. root \in H \cup {NULL}
  BY <1>2, <1>3 DEF AtRest, Sound, RedBlack, IsTree, IsTreeBy
<1>5. Searched(op.cur, pending, H, D)'
  BY <1>1, <1>2, <1>3, <1>4 DEF Searched
<1>6. Usable(Tree) /\ IsFiniteSet(Dom(Tree))
  BY <1>1, IdleRest
<1> QED BY <1>2, <1>5, <1>6 DEF TreeKept

\* The node of the block that is taken is gone; what is left of the block is a new one.
LEMMA TakeBlockWhole ==
  ASSUME WInv, TakeBlock, whole'
  PROVE  TreeKept'
<1>1. PICK n, rest :
        /\ op.pc \in {"deleted", "unlinked"} /\ link' = Drop(link, op.node) /\ UNCHANGED <<root, whole>> /\ whole
        /\ \/ /\ key' = Add(Drop(key, op.node), n, rest) /\ op' = StartInsert(n)
              /\ n = op.node + req.pad + req.sz /\ rest = key[op.node] - (req.pad + req.sz)
              /\ rest >= freeHeaderSize
           \/ key' = Drop(key, op.node) /\ op' = Idle
  BY DEF TakeBlock
<1>2. PICK b : b = op.node
  OBVIOUS
<1>3. PICK H, D : AtRest(Tree, key, DOMAIN link \ {b}, H, D)
  BY <1>1, <1>2, TakenRest
<1>4. /\ Usable(Tree) /\ IsFiniteSet(Dom(Tree)) /\ Dom(Tree) = DOMAIN link /\ DOMAIN link = DOMAIN key
      /\ b \in DOMAIN link
  BY <1>1, <1>2, TakenRest
<1>5. Tree' = Freed(b)
  BY <1>1, <1>2 DEF Tree, Freed
<1>6. Usable(Freed(b)) /\ IsFiniteSet(Dom(Freed(b))) /\ Dom(Freed(b)) = DOMAIN link \ {b}
      /\ Root(Freed(b)) = root
  <2>1. Usable(Freed(b)) /\ Dom(Freed(b)) = DOMAIN link \ {b} /\ Root(Freed(b)) = Root(Tree)
    BY <1>4, FreedGets
  <2>2. Root(Tree) = root
    BY TreeParts DEF Root
  <2> QED BY <2>1, <2>2, <1>4, FS_Subset
<1>7. CASE key' = Drop(key, op.node) /\ op' = Idle
  <2>1. PICK m : m = key'
    OBVIOUS
  <2>2. \A x \in DOMAIN link \ {b} : m[x] = key[x]
    BY <2>1, <1>2, <1>4, <1>7, DropIs
  <2>3. AtRest(Freed(b), m, DOMAIN link \ {b}, H, D)
    BY <1>3, <2>2, FreedRest
  <2>4. Dom(Freed(b)) \ {} = DOMAIN link \ {b}
    BY <1>6
  <2>5. Steady(Freed(b), m, {}, Idle)
    BY <2>3, <2>4, <1>6, RestSteady
  <2> QED BY <2>1, <2>5, <1>5, <1>7, FailedShape DEF TreeKept
<1>8. CASE /\ key' = Add(Drop(key, op.node), n, rest) /\ op' = StartInsert(n)
           /\ n = op.node + req.pad + req.sz /\ rest = key[op.node] - (req.pad + req.sz)
           /\ rest >= freeHeaderSize
  <2>1. PICK m : m = key'
    OBVIOUS
  <2>2. n \notin DOMAIN link /\ n # NULL /\ rest \in Int
    <3>1. b \in DOMAIN key /\ req.pad = BlockPadding(b, req.al, 2) /\ req.sz \in Sizes /\ req.al \in Aligns
          /\ key[b] > req.pad + req.sz
      BY <1>1, <1>2 DEF WInv, IInv, Chosen, DeletePCs, allocHeaderSize
    <3>2. b \in Nat \ {0} /\ key[b] \in Nat
      BY <3>1, FreeRanges, RBAssumption DEF WInv, IInv, TypeOK, Arena
    <3>3. req.sz \in Nat /\ req.al \in Nat \ {0}
      BY <3>1, RBAssumption
    <3>4. req.pad \in Nat /\ req.pad > 0
      <4>1. b \in Nat
        BY <3>2
      <4>2. BlockPadding(b, req.al, 2) \in Nat /\ BlockPadding(b, req.al, 2) >= 2
        BY <4>1, <3>3, 2 \in Nat, BlockPaddingOk, Zenon
      <4> QED BY <4>2, <3>1
    <3>5. rest \in Int /\ rest > 0 /\ n \in Nat /\ n > b /\ n <= b + key[b] - 1
      BY <1>2, <1>8, <3>2, <3>3, <3>4 DEF freeHeaderSize
    <3>6. n \in FreeWords(b) /\ n # b
      BY <3>2, <3>5 DEF FreeWords
    <3>7. n \notin DOMAIN key
      <4>1. SUFFICES ASSUME n \in DOMAIN key PROVE FALSE
        OBVIOUS
      <4>2. n \in FreeWords(n)
        BY <4>1, FreeRanges DEF WInv
      <4>3. FreeWords(n) \cap FreeWords(b) = {}
        BY <4>1, <3>1, <3>6 DEF WInv, IInv, Tiled
      <4> QED BY <4>2, <4>3, <3>6
    <3> QED BY <3>2, <3>5, <3>7, <1>4 DEF NULL
  <2>3. m[n] = rest /\ \A x \in DOMAIN link \ {b} : m[x] = key[x]
    <3>1. PICK d : d = Drop(key, b)
      OBVIOUS
    <3>2. DOMAIN d = DOMAIN key \ {b} /\ \A x \in DOMAIN key \ {b} : d[x] = key[x]
      BY <3>1, DropIs
    <3>3. m = Add(d, n, rest)
      BY <2>1, <3>1, <1>2, <1>8
    <3>4. m[n] = rest /\ \A x \in DOMAIN d : x # n => m[x] = d[x]
      BY <3>3 DEF Add
    <3> QED BY <3>2, <3>4, <2>2, <1>4
  <2>4. AtRest(Freed(b), m, DOMAIN link \ {b}, H, D)
    BY <1>3, <2>3, FreedRest
  <2>5. n \notin Dom(Freed(b)) /\ m[n] \in Int
    BY <1>6, <2>2, <2>3
  <2> DEFINE o == op'
  <2>6. o = [pc |-> "descend", node |-> n, cur |-> Root(Freed(b)), parent |-> NULL]
    BY <1>6, <1>8 DEF StartInsert
  <2>7. o.pc = "descend"
    BY <2>6
  <2> HIDE DEF o
  <2>8. Steady(Freed(b), m, {}, o)
    <3>1. AtRest(Freed(b), m, Dom(Freed(b)), H, D)
      BY <1>6, <2>4
    <3> QED BY <3>1, <1>6, <2>2, <2>5, <2>6, InsertSteady
  <2> QED BY <1>5, <2>1, <2>7, <2>8 DEF o, TreeKept
<1> QED BY <1>1, <1>7, <1>8

\* What a client gives back is a block of its own, which no node is for yet.
LEMMA FreeWhole ==
  ASSUME WInv, NEW b \in live, Free(b), whole'
  PROVE  TreeKept'
<1>1. PICK n, e : n = b.ptr - b.pad /\ e = b.pad + b.sz
  OBVIOUS
<1>2. /\ op.pc = "idle" /\ e >= 7 /\ key' = Add(key, n, e) /\ UNCHANGED <<link, root, whole>> /\ whole
      /\ op' = [pc |-> "descend", node |-> n, cur |-> root, parent |-> NULL]
  BY <1>1 DEF Free, Extent, NodeWords, StartInsert
<1>3. b.ptr \in Nat /\ b.pad \in Nat /\ b.sz \in Nat /\ Start \in Nat \ {0} /\ Size \in Nat
  BY FreeRanges DEF WInv
<1>4. n \in Int /\ e \in Nat /\ HeldWords(b) = n..(n + e - 1) /\ n \in HeldWords(b)
  BY <1>1, <1>2, <1>3 DEF HeldWords
<1>5. n # NULL
  <2>1. n \in Arena
    BY <1>4 DEF WInv, IInv, Tiled
  <2> QED BY <2>1, <1>3 DEF Arena, NULL
<1>6. n \notin DOMAIN key
  <2>1. SUFFICES ASSUME n \in DOMAIN key PROVE FALSE
    OBVIOUS
  <2>2. n \in FreeWords(n)
    BY <2>1, FreeRanges DEF WInv
  <2>3. FreeWords(n) \cap HeldWords(b) = {}
    BY <2>1 DEF WInv, IInv, Tiled
  <2> QED BY <2>2, <2>3, <1>4
<1>7. PICK m : m = key'
  OBVIOUS
<1>8. m[n] = e /\ \A x \in DOMAIN key : m[x] = key[x]
  BY <1>2, <1>6, <1>7 DEF Add
<1>9. /\ Usable(Tree) /\ IsFiniteSet(Dom(Tree)) /\ Dom(Tree) = DOMAIN link /\ DOMAIN link = DOMAIN key
      /\ Root(Tree) = root
  BY <1>2, IdleRest, TreeParts DEF Root
<1>10. PICK H, D : AtRest(Tree, key, DOMAIN link, H, D)
  BY <1>2, IdleRest
<1>11. AtRest(Tree, m, Dom(Tree), H, D)
  BY <1>8, <1>9, <1>10, SameKeysRest
<1> DEFINE o == op'
<1>12. o = [pc |-> "descend", node |-> n, cur |-> Root(Tree), parent |-> NULL] /\ o.pc = "descend"
  BY <1>2, <1>9
<1> HIDE DEF o
<1>13. n \notin Dom(Tree) /\ m[n] \in Int
  BY <1>4, <1>6, <1>8, <1>9
<1>14. Steady(Tree, m, {}, o)
  BY <1>5, <1>9, <1>11, <1>12, <1>13, InsertSteady
<1>15. Tree' = Tree
  BY <1>2 DEF Tree
<1> QED BY <1>7, <1>12, <1>14, <1>15 DEF o, TreeKept

\* The steps of the tree are the ones of RBTreeProofs, with nothing leaked.
LEMMA TreeStepKept ==
  ASSUME WInv, TreeStep, whole'
  PROVE  TreeKept'
<1>1. whole /\ TreeKept
  BY DamageStays DEF WInv
<1>2. op.pc \notin {"search", "unserved"}
  <2>1. SUFFICES ASSUME op.pc \in {"search", "unserved"} PROVE FALSE
    OBVIOUS
  <2>2. Reads = {}
    BY <2>1 DEF Reads
  <2> QED BY <2>1, <2>2, TreeStepWhere
<1>3. Steady(Tree', key', {}, op')
  <2>1. Steady(Tree, key, {}, op)
    BY <1>1, <1>2 DEF TreeKept
  <2> QED BY <2>1, TreeStepSteady
<1>4. op'.pc \notin {"search", "unserved"}
  <2>1. PICK t, k, o : t = Tree' /\ k = key' /\ o = op'
    OBVIOUS
  <2>2. Steady(t, k, {}, o)
    BY <1>3, <2>1
  <2>3. PICK H, D : Phase(t, k, Dom(t) \ Out(o, {}), H, D, o)
    BY <2>2, SteadyParts
  <2>4. o.pc \notin {"search", "unserved"}
    BY <2>3 DEF Phase
  <2> QED BY <2>1, <2>4
<1> QED BY <1>3, <1>4 DEF TreeKept

\* The first tree: one free block, which is all of the buffer.
LEMMA InitWhole == Init => TreeKept
<1> SUFFICES ASSUME Init PROVE TreeKept
  OBVIOUS
<1>1. /\ DOMAIN link = {Start} /\ link[Start] = Fresh /\ root = Start /\ op = Idle
      /\ Start # NULL /\ key[Start] \in Int
  BY RBAssumption DEF Init, NULL
<1>2. /\ Tree = [link |-> link, root |-> root, ok |-> TRUE] /\ Tree.link = link /\ Tree.root = root
      /\ Dom(Tree) = {Start} /\ Root(Tree) = Start
  BY <1>1 DEF Tree, Dom, Root
<1>3. Fresh.parent = NULL /\ Fresh.left = NULL /\ Fresh.right = NULL /\ Fresh.color = BLACK /\ Fresh.next = NULL
      /\ DOMAIN Fresh = Fields
  BY DEF Fresh, Fields
<1>4. \A f : Get(Tree, Start, f) = Fresh[f]
  BY <1>1, <1>2 DEF Get
<1>5. /\ Get(Tree, Start, "parent") = NULL /\ Get(Tree, Start, "left") = NULL /\ Get(Tree, Start, "right") = NULL
      /\ Get(Tree, Start, "color") = BLACK /\ Get(Tree, Start, "next") = NULL
  BY <1>3, <1>4
<1>6. Usable(Tree) /\ IsFiniteSet(Dom(Tree))
  BY <1>1, <1>2, <1>3, FS_Singleton DEF Usable
<1> DEFINE H == {Start}
           D == [x \in H \cup {NULL} |-> IF x = NULL THEN {} ELSE H]
           bh == [x \in H \cup {NULL} |-> IF x = NULL THEN 0 ELSE 1]
           rank == [x \in H |-> 0]
<1>7. D \in [H \cup {NULL} -> SUBSET H] /\ D[NULL] = {} /\ D[Start] = H
  BY <1>1
<1>8. bh \in [H \cup {NULL} -> Nat] /\ bh[NULL] = 0 /\ bh[Start] = 1
  BY <1>1
<1>9. rank \in [H -> Nat]
  OBVIOUS
<1> HIDE DEF D, bh, rank
<1>10. IsTree(Tree, H, D)
  BY <1>1, <1>2, <1>5, <1>7 DEF IsTree, IsTreeBy
<1>11. Weighted(Tree, H, bh, Plain(Tree, H))
  <2>1. Plain(Tree, H) \in [H -> Nat] /\ Plain(Tree, H)[Start] = 1
    BY <1>5 DEF Plain
  <2> QED BY <2>1, <1>5, <1>8 DEF Weighted, Sides
<1>12. HasListing(Tree, H, H, key)
  <2>1. Listing(Tree, H, H, key, rank)
    BY <1>2, <1>5, <1>9 DEF Listing
  <2> QED BY <2>1 DEF HasListing
<1>13. Colored(Tree, H) /\ Ordered(Tree, H, D, key, {}) /\ RedsApart(Tree, H, {}) /\ RootBlack(Tree)
  <2>1. RootBlack(Tree) /\ Colored(Tree, H) /\ RedsApart(Tree, H, {})
    BY <1>2, <1>5 DEF Colored, RedsApart, RootBlack, Sides
  <2>2. Ordered(Tree, H, D, key, {})
    BY <1>1, <1>5, <1>7 DEF Ordered, Sides
  <2> QED BY <2>1, <2>2
<1>14. AtRest(Tree, key, H, H, D)
  BY <1>10, <1>11, <1>12, <1>13 DEF AtRest, Sound, RedBlack
<1>15. AtRest(Tree, key, Dom(Tree) \ {}, H, D)
  BY <1>2, <1>14
<1>16. Steady(Tree, key, {}, Idle)
  <2> HIDE DEF H
  <2> QED BY <1>6, <1>15, RestSteady
<1> QED BY <1>1, <1>16, FailedShape DEF TreeKept

\* WInv is inductive.
LEMMA WholeKept == WInv /\ [Next]_vars => WInv'
<1> SUFFICES ASSUME WInv, [Next]_vars PROVE WInv'
  OBVIOUS
<1>1. IInv'
  BY NextKeeps DEF WInv
<1>2. SUFFICES ASSUME whole' PROVE TreeKept'
  BY <1>1 DEF WInv
<1>3. ASSUME NEW sz \in Sizes, NEW al \in Aligns, Alloc(sz, al) PROVE TreeKept'
  BY <1>2, <1>3, AllocWhole
<1>4. CASE SearchTakes \/ SearchRight \/ SearchLeft \/ SearchFails \/ NoBranch \/ SearchUndefined
  BY <1>2, <1>4, SearchWhole
<1>5. CASE TakeBlock
  BY <1>2, <1>5, TakeBlockWhole
<1>6. ASSUME NEW b \in live, Free(b) PROVE TreeKept'
  BY <1>2, <1>6, FreeWhole
<1>7. ASSUME NEW b \in live, FreeOverruns(b) PROVE TreeKept'
  BY <1>2, <1>7 DEF FreeOverruns
<1>8. CASE TreeStep
  BY <1>2, <1>8, TreeStepKept
<1>9. CASE UNCHANGED vars
  <2>1. UNCHANGED <<Tree, key, link, op, pending>> /\ whole
    BY <1>2, <1>9 DEF vars, treeVars, Tree
  <2>2. TreeKept
    BY <2>1 DEF WInv
  <2> QED BY <2>1, <2>2 DEF TreeKept, Searched
<1> QED BY <1>3, <1>4, <1>5, <1>6, <1>7, <1>8, <1>9 DEF Next

\* Every step of the allocator and of its clients keeps the invariant.
LEMMA RBInvariance == Spec => []IInv
BY InitKeeps, NextKeeps, PTL DEF Spec

\* Whatever becomes of the tree's links, every variable keeps its type: the sizes of
\* the free blocks and what clients hold, the calls that wait and the one in progress.
THEOREM RBTypeCorrect == Spec => []TypeOK
<1>1. IInv => TypeOK
  BY DEF IInv
<1> QED BY <1>1, RBInvariance, PTL

\* For every buffer of at least a node, every set of sizes and alignments, and
\* whichever test of the nephew the tree was built with: however clients allocate and
\* give back, and whatever becomes of the tree's links, _splitBlock and Free neither
\* lose a word of the buffer nor give one to two blocks.
THEOREM RBSound == Spec => []Tiled
<1>1. IInv => Tiled
  BY DEF IInv
<1> QED BY <1>1, RBInvariance, PTL

\* And every block handed out is aligned, large enough and has its header in front
\* of it.
THEOREM RBBlocksSound == Spec => []BlocksSound
<1>1. IInv => BlocksSound
  BY DEF IInv
<1> QED BY <1>1, RBInvariance, PTL

\* However clients allocate and give back blocks, the tree is at rest between calls and
\* whole in between, until one of the steps that damage it.
LEMMA WholeInvariance == Spec => []WInv
<1>1. Init => WInv
  BY InitKeeps, InitWhole DEF WInv
<1> QED BY <1>1, WholeKept, PTL DEF Spec

\* The search of Alloc, the rebalancing and the deletion follow no pointer to NULL or
\* to memory that is not a free block, and no call of the search is for a node that
\* waits: until the tree is damaged, no step of the program is undefined.
THEOREM RBNeverFaults == Spec => []NoFault
<1>1. WInv => NoFault
  <2> SUFFICES ASSUME WInv, whole, op.pc = "undefined" PROVE FALSE
    BY DEF NoFault
  <2>1. PICK H, D : Phase(Tree, key, Dom(Tree) \ Out(op, {}), H, D, op)
    <3>1. Steady(Tree, key, {}, op)
      BY DEF WInv, TreeKept
    <3> QED BY <3>1, SteadyParts
  <2> QED BY <2>1 DEF Phase
<1> QED BY <1>1, WholeInvariance, PTL

\* For every buffer, sizes and alignments, and either test of the nephew: between calls
\* every free block, however blocks were split and given back, is in the tree or in the
\* list of a node of its size, and the tree is a red-black search tree.
THEOREM RBFreeBlocksKept == Spec => []FreeBlocksKept
<1>1. WInv => FreeBlocksKept
  <2> SUFFICES ASSUME WInv, whole, op.pc = "idle"
               PROVE  SearchTree /\ Balanced /\ Lists /\ Listed = DOMAIN key
    BY DEF FreeBlocksKept
  <2>1. PICK H, D : AtRest(Tree, key, DOMAIN link, H, D)
    BY IdleRest
  <2>2. Usable(Tree) /\ IsFiniteSet(Nodes) /\ DOMAIN link = DOMAIN key
    BY IdleRest DEF Nodes
  <2> QED BY <2>1, <2>2, RestShape
<1> QED BY <1>1, WholeInvariance, PTL

=============================================================================
