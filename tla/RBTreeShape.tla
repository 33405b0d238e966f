---------------------------- MODULE RBTreeShape ----------------------------
(***************************************************************************)
(* What a red-black tree of lists is, for the trees both copies of the code *)
(* build.                                                                    *)
(***************************************************************************)
EXTENDS RBTree

Nodes == DOMAIN link

\* The nodes that the fields F of those of S lead to, and those that can be reached so.
Onward(S, F) == {link[a][f] : a \in S, f \in F} \cap Nodes
Reach(S, F) ==
  LET level[d \in 0..Cardinality(Nodes)] ==
        IF d = 0 THEN S \cap Nodes ELSE Onward(level[d - 1], F)
  IN  UNION {level[d] : d \in DOMAIN level}

Below(a) == Reach({a}, {"left", "right"})
Heads == Below(root)
Listed == Reach(Heads, {"next"})

\* The nodes on the way from the root to a, a among them.
Path(a) == {h \in Heads : a \in Below(h)}
Blacks(a) == Cardinality({h \in Path(a) : link[h].color = BLACK})

\* A search tree whose parent links mirror the child links: no node has two parents.
SearchTree ==
  /\ root = NULL \/ (root \in Nodes /\ link[root].parent = NULL)
  /\ \A a \in Heads, side \in {"left", "right"} :
       link[a][side] # NULL =>
         /\ link[a][side] \in Nodes /\ link[link[a][side]].parent = a
         /\ \A b \in Below(link[a][side]) : IF side = "left" THEN key[b] < key[a] ELSE key[a] < key[b]

\* The root is black, no red node has a red child, and every place where a node
\* could be attached has as many black nodes above it.
Balanced ==
  /\ root # NULL => link[root].color = BLACK
  /\ \A a \in Heads : link[a].color = RED => \A c \in Children(a) : link[c].color = BLACK
  /\ \A a, b \in {h \in Heads : ~BothChildren(h)} : Blacks(a) = Blacks(b)

\* Nodes of one key are listed under one head, and no list runs into another.
Lists ==
  /\ \A a \in Listed : link[a].next # NULL =>
       /\ link[a].next \in Listed \ Heads
       /\ key[link[a].next] = key[a]
  /\ \A a, b \in Listed : a # b => link[a].next # link[b].next \/ link[a].next = NULL

=============================================================================
