------------------------------- MODULE RBTree -------------------------------
(***************************************************************************)
(* The red-black tree that GPCL::DiscreteMultiRBTree and RBTreeAllocator    *)
(* each carry a copy of: nodes of one key form a list, and the head of the  *)
(* list is the node in the tree.  Every iteration of a loop and every level *)
(* of a recursion is a step.  llPrev is written and never read: it is left  *)
(* out.                                                                     *)
(***************************************************************************)
EXTENDS Integers, FiniteSets

CONSTANT NephewTestInverted   \* which copy: RBTreeAllocator.cpp:440 has a "!" too many

ASSUME RBTreeAssumption == NephewTestInverted \in BOOLEAN

NULL == 0
BLACK == 0
RED == 1

VARIABLES
  key,          \* the key of every node there is; nodes are known by address
  link,         \* the other fields of every node, once it is attached
  root,
  op,           \* the operation under way and its local variables
  whole         \* history: no step so far was one of those that damage the tree
                \* (README, section 5)

treeVars == <<key, link, root, op, whole>>

\* What an insertion writes into its node; nothing is known of the node before.
Fresh == [parent |-> NULL, left |-> NULL, right |-> NULL, color |-> BLACK, next |-> NULL]

Idle == [pc |-> "idle", node |-> NULL, cur |-> NULL, parent |-> NULL]
Failed == [Idle EXCEPT !.pc = "undefined"]

\* A tree half way through a step; ok says that no pointer to something that is not
\* a node was followed.
Tree == [link |-> link, root |-> root, ok |-> TRUE]

\* A field read through a pointer, and one written: where there is no node the write
\* goes nowhere, and ok remembers it.
Get(t, a, f) == IF a \in DOMAIN t.link THEN t.link[a][f] ELSE NULL
Write(m, a, f, v) == [x \in DOMAIN m |-> IF x = a THEN [m[x] EXCEPT ![f] = v] ELSE m[x]]
Written(t, a, f, v) ==
  [link |-> Write(t.link, a, f, v), root |-> t.root, ok |-> t.ok /\ a \in DOMAIN t.link]

Set(t, a, f, v) == Written(t, a, f, v)
SetRoot(t, a) == [link |-> t.link, root |-> a, ok |-> t.ok]
Field(a, f) == Get(Tree, a, f)

\* The step leaves the tree t and goes on with o.
Becomes(t, o) ==
  /\ link' = IF t.ok THEN t.link ELSE link
  /\ root' = IF t.ok THEN t.root ELSE root
  /\ op' = IF t.ok THEN o ELSE Failed
  /\ UNCHANGED key

Add(f, a, v) == [x \in DOMAIN f \cup {a} |-> IF x = a THEN v ELSE f[x]]
Drop(f, a) == [x \in DOMAIN f \ {a} |-> f[x]]
WithNode == [link |-> Add(link, op.node, Fresh), root |-> root, ok |-> TRUE]

Other(side) == IF side = "left" THEN "right" ELSE "left"

\* u's link to p becomes one to c; every place that does this looks at the left first.
ReplaceChild(t, u, p, c) == Set(t, u, IF Get(t, u, "left") = p THEN "left" ELSE "right", c)

\* Mutant: the inner grandchild keeps its parent.
RotateLeavesGrandchild(t, p, side) ==
  LET c == Get(t, p, Other(side))
      t1 == Set(t, p, Other(side), Get(t, c, side))
      u == Get(t1, p, "parent")
      t3 == Set(t1, c, "parent", u)
      t4 == IF u = NULL THEN SetRoot(t3, c) ELSE ReplaceChild(t3, u, p, c)
  IN  Set(Set(t4, c, side, p), p, "parent", c)

\* _rbtreeRotateLeft and _rbtreeRotateRight: p goes down to `side`.
Rotate(t, p, side) ==
  LET c == Get(t, p, Other(side))
      g == Get(t, c, side)
      t1 == Set(t, p, Other(side), g)
      t2 == IF g = NULL THEN t1 ELSE Set(t1, g, "parent", p)
      u == Get(t2, p, "parent")
      t3 == Set(t2, c, "parent", u)
      t4 == IF u = NULL THEN SetRoot(t3, c) ELSE ReplaceChild(t3, u, p, c)
  IN  Set(Set(t4, c, side, p), p, "parent", c)

\* The head of a list is replaced: b takes a's colour and links, and a's neighbours
\* their links to a; root is not one of them.
TakePlace(t, a, b) ==
  LET l == Get(t, a, "left")  r == Get(t, a, "right")  u == Get(t, a, "parent")
      t1 == Set(Set(Set(Set(t, b, "color", Get(t, a, "color")), b, "left", l), b, "right", r),
                b, "parent", u)
      t2 == IF u = NULL THEN t1 ELSE ReplaceChild(t1, u, a, b)
      t3 == IF l = NULL THEN t2 ELSE Set(t2, l, "parent", b)
  IN  IF r = NULL THEN t3 ELSE Set(t3, r, "parent", b)

Sibling(a) ==
  LET p == Field(a, "parent")
  IN  IF p = NULL THEN NULL
      ELSE IF Field(p, "left") = a THEN Field(p, "right") ELSE Field(p, "left")

\* The pointers that the next step reads through before it writes anything.
Reads ==
  LET parent == Field(op.cur, "parent")
      grand == Field(parent, "parent")
      sibling == Sibling(op.cur)
  IN  CASE op.pc \in {"descend", "find"} -> {op.cur} \ {NULL}
        [] op.pc = "fixup" /\ op.cur # root ->
             {op.cur} \cup (IF Field(op.cur, "color") = BLACK THEN {}
                            ELSE {parent} \cup (IF Field(parent, "color") = BLACK THEN {}
                                 ELSE {grand} \cup ({Field(grand, "left"), Field(grand, "right")} \ {NULL})))
        [] op.pc = "delete" ->
             {op.node} \cup ({Field(op.node, "left"), Field(op.node, "right")} \ {NULL})
        [] op.pc = "smallest" -> {op.cur}
        [] op.pc = "fixdb" /\ op.cur # root ->
             {op.cur} \cup ({parent, sibling} \ {NULL})
             \cup (IF sibling = NULL THEN {}
                   ELSE {Field(sibling, "parent")}
                        \cup ({Field(sibling, "left"), Field(sibling, "right")} \ {NULL}))
        [] OTHER -> {}

At(pc) == op.pc = pc /\ Reads \subseteq DOMAIN link
-----------------------------------------------------------------------------
\* _rbtreeInsert: node, which the caller has just made, is to be attached.
StartInsert(node) == [pc |-> "descend", node |-> node, cur |-> root, parent |-> NULL]

Descend ==
  /\ At("descend") /\ op.cur # NULL
  /\ key[op.node] # key[op.cur]
  /\ op' = [op EXCEPT !.parent = op.cur,
                      !.cur = Field(op.cur, IF key[op.node] > key[op.cur] THEN "right" ELSE "left")]
  /\ UNCHANGED <<key, link, root, whole>>

\* Mutant: what is there already is not added again.
PushEqualNot ==
  /\ At("descend") /\ op.cur # NULL
  /\ key[op.node] = key[op.cur]
  /\ op' = Idle
  /\ UNCHANGED <<key, link, root, whole>>

\* Mutant: what was listed under the key is forgotten.
PushEqualAlone ==
  /\ At("descend") /\ op.cur # NULL
  /\ key[op.node] = key[op.cur]
  /\ Becomes(Set(TakePlace(WithNode, op.cur, op.node), op.node, "next", Field(op.cur, "next")), Idle)
  /\ whole' = (whole /\ op.cur # root)

\* A node of the key is there: the new one goes in front of it.
PushEqual ==
  /\ At("descend") /\ op.cur # NULL
  /\ key[op.node] = key[op.cur]
  /\ Becomes(Set(TakePlace(WithNode, op.cur, op.node), op.node, "next", op.cur), Idle)
  /\ whole' = (whole /\ op.cur # root)

AttachRoot ==
  /\ At("descend") /\ op.cur = NULL /\ op.parent = NULL
  /\ Becomes(SetRoot(WithNode, op.node), Idle)
  /\ UNCHANGED whole

\* Attached as a red leaf; nothing to repair under the root.
Attach ==
  /\ At("descend") /\ op.cur = NULL /\ op.parent # NULL
  /\ LET side == IF key[op.node] > key[op.parent] THEN "right" ELSE "left"
     IN  Becomes(Set(Set(Set(WithNode, op.node, "parent", op.parent), op.node, "color", RED),
                     op.parent, side, op.node),
                 IF Field(op.parent, "parent") = NULL THEN Idle
                 ELSE [op EXCEPT !.pc = "fixup", !.cur = op.node])
  /\ UNCHANGED whole

RedUnderRed ==
  op.cur # root /\ Field(op.cur, "color") = RED /\ Field(Field(op.cur, "parent"), "color") = RED

\* One iteration of _rbtreeFixup: the uncle is red, or there are one or two rotations.
Fixup ==
  /\ At("fixup") /\ RedUnderRed
  /\ LET p == Field(op.cur, "parent")
         g == Field(p, "parent")
         side == IF p = Field(g, "left") THEN "left" ELSE "right"
         uncle == Field(g, Other(side))
         inner == op.cur = Field(p, Other(side))
         t1 == IF inner THEN Rotate(Tree, p, side) ELSE Tree
         q == IF inner THEN Get(t1, p, "parent") ELSE p
         t2 == Rotate(t1, g, Other(side))
     IN  \/ /\ Field(uncle, "color") = RED
            /\ Becomes(Set(Set(Set(Tree, g, "color", RED), p, "color", BLACK), uncle, "color", BLACK),
                       [op EXCEPT !.cur = g])
         \/ /\ Field(uncle, "color") = BLACK
            /\ Becomes(Set(Set(t2, q, "color", Get(t2, g, "color")), g, "color", Get(t2, q, "color")),
                       [op EXCEPT !.cur = q])
  /\ UNCHANGED whole

FixupEnds ==
  /\ At("fixup") /\ ~RedUnderRed
  /\ Becomes(Set(Tree, root, "color", BLACK), Idle)
  /\ UNCHANGED whole
-----------------------------------------------------------------------------
\* _deleteNode: the head of a longer list goes and the next node takes its place;
\* a node alone is deleted from the tree.
UnlinkHead ==
  /\ At("delete") /\ Field(op.node, "next") # NULL
  /\ Becomes(TakePlace(Tree, op.node, Field(op.node, "next")), [op EXCEPT !.pc = "unlinked"])
  /\ whole' = (whole /\ op.node # root)

StartDelete(node) == [pc |-> "delete", node |-> node, cur |-> NULL, parent |-> NULL]

Deleted == [op EXCEPT !.pc = "deleted"]
FixDoubleBlack(node, parent) == [op EXCEPT !.pc = "fixdb", !.cur = node, !.parent = parent]

Alone == At("delete") /\ Field(op.node, "next") = NULL
Children(a) == {Field(a, "left"), Field(a, "right")} \ {NULL}
BothChildren(a) == Field(a, "left") # NULL /\ Field(a, "right") # NULL
OnlyChild(a) == IF Field(a, "left") # NULL THEN Field(a, "left") ELSE Field(a, "right")

\* _rbtreeDelete of a leaf.  One that is black stays attached until the double black
\* is gone.
DeleteLeaf ==
  /\ Alone /\ Children(op.node) = {}
  /\ LET node == op.node
         parent == Field(node, "parent")
         sibling == Sibling(node)
         t == IF sibling = NULL THEN Tree ELSE Set(Tree, sibling, "color", RED)
     IN  \/ node = root /\ Becomes(SetRoot(Tree, NULL), Deleted)
         \/ /\ node # root /\ Field(node, "color") = BLACK
            /\ Becomes(Tree, FixDoubleBlack(node, parent))
         \/ /\ node # root /\ Field(node, "color") = RED
            /\ Becomes(ReplaceChild(t, parent, node, NULL), Deleted)
  /\ UNCHANGED whole

\* _rbtreeDelete of a node with one child, which moves up.
DeleteWithChild ==
  /\ Alone /\ Children(op.node) # {} /\ ~BothChildren(op.node)
  /\ LET node == op.node
         parent == Field(node, "parent")
         subst == OnlyChild(node)
         t == Set(ReplaceChild(Tree, parent, node, subst), subst, "parent", parent)
     IN  \/ node = root /\ Becomes(SetRoot(Tree, subst), Deleted)
         \/ /\ node # root /\ {Field(node, "color"), Field(subst, "color")} = {BLACK}
            /\ Becomes(t, FixDoubleBlack(subst, NULL))
         \/ /\ node # root /\ {Field(node, "color"), Field(subst, "color")} # {BLACK}
            /\ Becomes(Set(t, subst, "color", BLACK), Deleted)
  /\ whole' = (whole /\ op.node # root)

\* _rbtreeDelete of a node with two children: _smallestInSubtree of the right one
\* is to change places with it.
DeleteInner ==
  /\ Alone /\ BothChildren(op.node)
  /\ op' = [op EXCEPT !.pc = "smallest", !.cur = Field(op.node, "right")]
  /\ UNCHANGED <<key, link, root, whole>>

Smallest ==
  /\ At("smallest") /\ Field(op.cur, "left") # NULL
  /\ op' = [op EXCEPT !.cur = Field(op.cur, "left")]
  /\ UNCHANGED <<key, link, root, whole>>

\* Mutant: the parent of the two does not learn of it.
SwapNodesApart(node, subst) ==
  LET r == Field(subst, "right")
      t3 == IF r = NULL THEN Tree ELSE Set(Tree, r, "parent", node)
      t4 == Set(Set(Set(t3, node, "parent", subst), node, "left", NULL), node, "right", r)
      t5 == Set(Set(t4, subst, "parent", Field(node, "parent")), subst, "right", node)
  IN  Set(Set(t5, subst, "left", Field(node, "left")), Field(node, "left"), "parent", subst)

\* _rbtreeSwapNodes, written for a successor that is a child: it leaves the links
\* below the other ones, and all colours, where they were.
SwapNodes(node, subst) ==
  LET l == Field(subst, "left")  r == Field(subst, "right")
      t1 == ReplaceChild(Tree, Field(node, "parent"), node, subst)
      t2 == IF l = NULL THEN t1 ELSE Set(t1, l, "parent", node)
      t3 == IF r = NULL THEN t2 ELSE Set(t2, r, "parent", node)
      t4 == Set(Set(Set(t3, node, "parent", subst),
                    node, "left", Get(t3, subst, "left")), node, "right", Get(t3, subst, "right"))
      t5 == Set(t4, subst, "parent", Field(node, "parent"))
      side == IF Field(node, "left") = subst THEN "left" ELSE "right"
      kept == Field(node, Other(side))
  IN  Set(Set(Set(t5, subst, side, node), subst, Other(side), kept), kept, "parent", subst)

\* The swaps that keep the shape: with a right child of the node's colour, or of a
\* black leaf with a red node whose other child is a leaf as well.
SwapKeepsShape(node, subst) ==
  /\ node # root /\ subst = Field(node, "right")
  /\ \/ Field(node, "color") = Field(subst, "color")
     \/ /\ Field(node, "color") = RED
        /\ Children(subst) = {} /\ Children(Field(node, "left")) = {}

Swap ==
  /\ At("smallest") /\ Field(op.cur, "left") = NULL
  /\ Becomes(SwapNodes(op.node, op.cur), [op EXCEPT !.pc = "delete"])
  /\ whole' = (whole /\ SwapKeepsShape(op.node, op.cur))
-----------------------------------------------------------------------------
\* _rbtreeFixDoubleBlack(op.cur), one level of the recursion each: up to the parent,
\* a rotation that makes the sibling black, or an end.
AtDoubleBlack == At("fixdb") /\ op.cur # root
Side(a) == IF Field(Field(a, "parent"), "left") = a THEN "left" ELSE "right"
IsRed(a) == a # NULL /\ Field(a, "color") = RED
Unlink == [op EXCEPT !.pc = "unlink"]

NoSibling ==
  /\ AtDoubleBlack /\ Sibling(op.cur) = NULL
  /\ op' = [op EXCEPT !.cur = Field(op.cur, "parent")]
  /\ UNCHANGED <<key, link, root, whole>>

RedSibling ==
  /\ AtDoubleBlack
  /\ LET p == Field(op.cur, "parent")  s == Sibling(op.cur)
     IN  /\ IsRed(s)
         /\ Becomes(Rotate(Set(Set(Tree, p, "color", RED), s, "color", BLACK), p, Other(Side(s))), op)
  /\ UNCHANGED whole

RedNephew(s) == IsRed(Field(s, "left")) \/ IsRed(Field(s, "right"))

\* The nephew the code turns to.  With the test inverted it reads the colour of a
\* left nephew that is not there, and takes the right one whenever there is a left.
Nephew(s) ==
  IF NephewTestInverted THEN IF Field(s, "left") = NULL THEN "none" ELSE "right"
  ELSE IF IsRed(Field(s, "left")) THEN "left" ELSE "right"

TurnTo(s, side) ==
  LET p == Field(op.cur, "parent")
      n == Field(s, side)
      outer == Rotate(Set(Set(Tree, n, "color", Field(s, "color")), s, "color", Field(p, "color")),
                      p, Other(side))
      inner == Rotate(Rotate(Set(Tree, n, "color", Field(p, "color")), s, Other(side)), p, side)
  IN  Set(IF side = Side(s) THEN outer ELSE inner, p, "color", BLACK)

BlackSiblingRedNephew ==
  /\ AtDoubleBlack
  /\ LET s == Sibling(op.cur)
     IN  /\ s # NULL /\ ~IsRed(s) /\ RedNephew(s)
         /\ IF Nephew(s) = "none" THEN Becomes(Tree, Failed)
            ELSE Becomes(TurnTo(s, Nephew(s)), Unlink)
         /\ whole' = (whole /\ Nephew(s) # "none" /\ IsRed(Field(s, Nephew(s))))

\* Mutant: the double black is not passed on to a black parent.
BlackSiblingStays ==
  /\ AtDoubleBlack
  /\ LET p == Field(op.cur, "parent")  s == Sibling(op.cur)
     IN  /\ s # NULL /\ ~IsRed(s) /\ ~RedNephew(s)
         /\ Becomes(Set(Set(Tree, s, "color", RED), p, "color", BLACK),
                    IF IsRed(p) THEN Unlink ELSE op)
  /\ UNCHANGED whole

BlackSibling ==
  /\ AtDoubleBlack
  /\ LET p == Field(op.cur, "parent")  s == Sibling(op.cur)
     IN  /\ s # NULL /\ ~IsRed(s) /\ ~RedNephew(s)
         /\ Becomes(Set(Set(Tree, s, "color", RED), p, "color", BLACK),
                    IF IsRed(p) THEN Unlink ELSE [op EXCEPT !.cur = p])
  /\ UNCHANGED whole

FixedAtRoot ==
  /\ At("fixdb") /\ op.cur = root
  /\ op' = Unlink
  /\ UNCHANGED <<key, link, root, whole>>

\* Mutant: the parent of a black leaf keeps it.
UnlinkLeafNot ==
  /\ At("unlink")
  /\ Becomes(Tree, Deleted)
  /\ UNCHANGED whole

\* Back in _rbtreeDelete of a black leaf: its parent lets go of it.
UnlinkLeaf ==
  /\ At("unlink")
  /\ Becomes(IF op.parent = NULL THEN Tree ELSE ReplaceChild(Tree, op.parent, op.node, NULL), Deleted)
  /\ UNCHANGED whole

\* A step that reads through a pointer to something that is not a node.
Undefined ==
  /\ ~(Reads \subseteq DOMAIN link)
  /\ op' = Failed
  /\ UNCHANGED <<key, link, root, whole>>

TreeStep ==
  \/ Descend \/ PushEqual \/ AttachRoot \/ Attach \/ Fixup \/ FixupEnds
  \/ UnlinkHead \/ DeleteLeaf \/ DeleteWithChild \/ DeleteInner \/ Smallest \/ Swap
  \/ NoSibling \/ RedSibling \/ BlackSiblingRedNephew \/ BlackSibling \/ FixedAtRoot
  \/ UnlinkLeaf \/ Undefined

=============================================================================
