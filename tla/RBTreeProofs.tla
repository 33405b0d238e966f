---------------------------- MODULE RBTreeProofs ----------------------------
(***************************************************************************)
(* What the steps of the red-black tree keep, for trees of any size. Two   *)
(* things are carried from step to step. Steady is about a tree no step    *)
(* has damaged: at rest it is a red-black tree whose heads have everything *)
(* in their lists, and in the middle of an insertion or a deletion it is   *)
(* one but for what Phase says. Sane holds damaged or not: links lead to   *)
(* addresses, and the operation is at one of them. TreeStepSteady and      *)
(* TreeStepSane say that every step keeps them; RestShape says that a      *)
(* steady tree is what RBTreeShape looks for by walking through it.        *)
(***************************************************************************)
EXTENDS RBTreeShape, FiniteSetTheorems, WellFoundedInduction, TLAPS

\* The fields of a node the tree reads and writes, and the two that lead down.
Fields == {"parent", "left", "right", "color", "next"}
Sides == {"left", "right"}

\* The nodes a tree has memory of, and the node at its root.
Dom(t) == DOMAIN t.link
Root(t) == t.root

\* A tree no step has been undefined in, whose nodes have all the fields.
Usable(t) ==
  /\ t = [link |-> t.link, root |-> t.root, ok |-> TRUE]
  /\ NULL \notin Dom(t)
  /\ \A a \in Dom(t) : Fields \subseteq DOMAIN t.link[a]

\* Set is the write with no condition around it.
LEMMA SetIsWritten ==
  ASSUME NEW t, NEW a, NEW f, NEW v
  PROVE  Set(t, a, f, v) = Written(t, a, f, v)
BY Zenon DEF Set

\* What Set makes of a tree, field by field, ...
LEMMA SetLink ==
  ASSUME NEW t, NEW a, NEW f, NEW v
  PROVE  Set(t, a, f, v) = [link |-> Write(t.link, a, f, v), root |-> t.root,
                            ok |-> (t.ok /\ a \in DOMAIN t.link)]
BY SetIsWritten, Zenon DEF Written

\* ... and the same read off each of them.
LEMMA SetParts ==
  ASSUME NEW t, NEW a, NEW f, NEW v
  PROVE  /\ Set(t, a, f, v).link = Write(t.link, a, f, v)
         /\ Set(t, a, f, v).root = t.root
         /\ Set(t, a, f, v).ok = (t.ok /\ a \in DOMAIN t.link)
<1> DEFINE m == Write(t.link, a, f, v)
           r == t.root
           o == (t.ok /\ a \in DOMAIN t.link)
           s == Set(t, a, f, v)
<1>1. s = [link |-> m, root |-> r, ok |-> o]
  BY SetLink
<1> HIDE DEF m, r, o, s
<1>2. s.link = m /\ s.root = r /\ s.ok = o
  BY <1>1
<1> QED BY <1>2, Zenon DEF m, r, o, s

\* A write makes no node.
LEMMA WriteDomain ==
  ASSUME NEW m, NEW a, NEW f, NEW v
  PROVE  DOMAIN Write(m, a, f, v) = DOMAIN m
BY Zenon DEF Write

\* A write changes the one node it is made to.
LEMMA WriteParts ==
  ASSUME NEW m, NEW a, NEW f, NEW v
  PROVE  /\ DOMAIN Write(m, a, f, v) = DOMAIN m
         /\ \A x \in DOMAIN m : x # a => Write(m, a, f, v)[x] = m[x]
         /\ a \in DOMAIN m => Write(m, a, f, v)[a] = [m[a] EXCEPT ![f] = v]
BY Zenon DEF Write

\* What EXCEPT does to a record, when the field is not known by name.
LEMMA ExceptParts ==
  ASSUME NEW r, NEW f \in DOMAIN r, NEW v
  PROVE  /\ DOMAIN [r EXCEPT ![f] = v] = DOMAIN r
         /\ [r EXCEPT ![f] = v][f] = v
         /\ \A g \in DOMAIN r : g # f => [r EXCEPT ![f] = v][g] = r[g]
OBVIOUS

\* A write changes the one field it is made to.
LEMMA WriteGets ==
  ASSUME NEW m, NEW a \in DOMAIN m, NEW f \in Fields, NEW v,
         \A x \in DOMAIN m : Fields \subseteq DOMAIN m[x]
  PROVE  /\ \A x \in DOMAIN m : Fields \subseteq DOMAIN Write(m, a, f, v)[x]
         /\ \A x \in DOMAIN m, g \in Fields :
              Write(m, a, f, v)[x][g] = IF x = a /\ g = f THEN v ELSE m[x][g]
<1> DEFINE n == Write(m, a, f, v)
           r == m[a]
           s == [r EXCEPT ![f] = v]
<1>1. Fields \subseteq DOMAIN r
  OBVIOUS
<1>2. n[a] = s /\ \A x \in DOMAIN m : x # a => n[x] = m[x]
  BY WriteParts
<1> HIDE DEF n, r
<1>3. /\ DOMAIN s = DOMAIN r /\ s[f] = v
      /\ \A g \in DOMAIN r : g # f => s[g] = r[g]
  BY <1>1, ExceptParts
<1> HIDE DEF s
<1>4. r = m[a]
  BY DEF r
<1>5. \A x \in DOMAIN m : Fields \subseteq DOMAIN n[x]
  BY <1>1, <1>2, <1>3, Zenon
<1>6. ASSUME NEW x \in DOMAIN m, NEW g \in Fields
      PROVE  n[x][g] = IF x = a /\ g = f THEN v ELSE m[x][g]
  <2>1. g \in DOMAIN r
    BY <1>1
  <2>2. CASE x = a
    BY <1>2, <1>3, <1>4, <2>1, <2>2, Zenon
  <2>3. CASE x # a
    BY <1>2, <2>3, Zenon
  <2> QED BY <2>2, <2>3
<1> QED BY <1>5, <1>6, Zenon DEF n

\* Get reads the field, or 0 where there is no node.
LEMMA GetIs ==
  ASSUME NEW t, NEW b, NEW g
  PROVE  Get(t, b, g) = IF b \in DOMAIN t.link THEN t.link[b][g] ELSE 0
BY Zenon DEF Get, NULL

\* Set on a node of a usable tree leaves it usable, and is read back in that
\* field of that node only.
LEMMA SetGets ==
  ASSUME NEW t, Usable(t), NEW a \in Dom(t), NEW f \in Fields, NEW v
  PROVE  /\ Usable(Set(t, a, f, v))
         /\ Dom(Set(t, a, f, v)) = Dom(t)
         /\ Root(Set(t, a, f, v)) = Root(t)
         /\ \A b, g : g \in Fields =>
              Get(Set(t, a, f, v), b, g) = IF b = a /\ g = f THEN v ELSE Get(t, b, g)
<1> DEFINE s == Set(t, a, f, v)
           m == t.link
           n == Write(m, a, f, v)
<1>0. t.ok = TRUE
  <2> DEFINE r == t.root
  <2>1. t = [link |-> m, root |-> r, ok |-> TRUE]
    BY Zenon DEF Usable
  <2> HIDE DEF r, m
  <2> QED BY <2>1
<1>1. a \in DOMAIN m /\ \A x \in DOMAIN m : Fields \subseteq DOMAIN m[x]
  BY Zenon DEF Usable, Dom
<1>2. s.link = n /\ s.root = t.root /\ s = [link |-> n, root |-> t.root, ok |-> (t.ok /\ a \in DOMAIN m)]
  <2> HIDE DEF s, n, m
  <2> QED BY SetParts, SetLink DEF s, n, m
<1>3. (t.ok /\ a \in DOMAIN m) = TRUE
  <2> HIDE DEF m
  <2> QED BY <1>0, <1>1
<1>10. s = [link |-> n, root |-> t.root, ok |-> TRUE]
  <2> HIDE DEF s, n, m
  <2> QED BY <1>2, <1>3, Zenon
<1>4. /\ \A b, g : Get(s, b, g) = IF b \in DOMAIN n THEN n[b][g] ELSE 0
      /\ \A b, g : Get(t, b, g) = IF b \in DOMAIN m THEN m[b][g] ELSE 0
  BY <1>2, GetIs, Zenon
<1> HIDE DEF n, m
<1>5. DOMAIN n = DOMAIN m
  BY WriteDomain DEF n
<1>6. /\ \A x \in DOMAIN m : Fields \subseteq DOMAIN n[x]
      /\ \A x \in DOMAIN m, g \in Fields : n[x][g] = IF x = a /\ g = f THEN v ELSE m[x][g]
  BY <1>1, WriteGets DEF n
<1>7. Dom(s) = Dom(t) /\ Root(s) = Root(t) /\ Usable(s)
  <2> HIDE DEF s
  <2>1. DOMAIN t.link = DOMAIN m
    BY Zenon DEF m
  <2>2. s = [link |-> s.link, root |-> s.root, ok |-> TRUE]
    BY <1>2, <1>10, Zenon
  <2> QED BY <2>1, <2>2, <1>2, <1>5, <1>6, Zenon DEF Dom, Root, Usable
<1> HIDE DEF s
<1>8. \A b, g : g \in Fields => Get(s, b, g) = IF b = a /\ g = f THEN v ELSE Get(t, b, g)
  <2> TAKE b, g
  <2> HAVE g \in Fields
  <2>1. CASE b \in DOMAIN m
    <3>1. n[b][g] = IF b = a /\ g = f THEN v ELSE m[b][g]
      BY <2>1, <1>6, Zenon
    <3>2. Get(s, b, g) = n[b][g] /\ Get(t, b, g) = m[b][g]
      BY <2>1, <1>4, <1>5, Zenon
    <3> QED BY <3>1, <3>2, Zenon
  <2>2. CASE b \notin DOMAIN m
    BY <2>2, <1>1, <1>4, <1>5, Zenon
  <2> QED BY <2>1, <2>2
<1> QED BY <1>7, <1>8, Zenon DEF s

\* SetRoot moves the root and nothing else.
LEMMA SetRootGets ==
  ASSUME NEW t, Usable(t), NEW r
  PROVE  /\ Usable(SetRoot(t, r))
         /\ Dom(SetRoot(t, r)) = Dom(t)
         /\ Root(SetRoot(t, r)) = r
         /\ \A b, g : Get(SetRoot(t, r), b, g) = Get(t, b, g)
<1> DEFINE s == SetRoot(t, r)
           m == t.link
           o == t.ok
           q == t.root
<1>0. o = TRUE
  <2>1. t = [link |-> m, root |-> q, ok |-> TRUE]
    BY Zenon DEF Usable
  <2> HIDE DEF q, m
  <2> QED BY <2>1
<1>1. s = [link |-> m, root |-> r, ok |-> o]
  BY Zenon DEF SetRoot
<1> HIDE DEF s, m, o, q
<1>2. s.link = m /\ s.root = r /\ s = [link |-> s.link, root |-> s.root, ok |-> TRUE]
  BY <1>0, <1>1
<1>3. s.link = t.link
  BY <1>2, Zenon DEF m
<1>4. \A b, g : Get(s, b, g) = Get(t, b, g)
  BY <1>3, GetIs, Zenon
<1> QED BY <1>2, <1>3, <1>4, Zenon DEF s, Dom, Root, Usable

\* A step that ends in Becomes(t, o) leaves the tree t and the operation o.
LEMMA BecomesTree ==
  ASSUME NEW t, NEW o, Usable(t), Becomes(t, o)
  PROVE  Tree' = t /\ op' = o /\ key' = key
<1> DEFINE m == t.link
           r == t.root
<1>1. t = [link |-> m, root |-> r, ok |-> TRUE]
  BY Zenon DEF Usable
<1>2. t.ok = TRUE
  <2> HIDE DEF m, r
  <2> QED BY <1>1
<1>3. link' = m /\ root' = r /\ op' = o /\ key' = key
  BY <1>2, Zenon DEF Becomes
<1>4. Tree' = [link |-> link', root |-> root', ok |-> TRUE]
  BY Zenon DEF Tree
<1> QED BY <1>1, <1>3, <1>4, Zenon

\* NULL is read wherever there is no node.
LEMMA GetOutside ==
  ASSUME NEW t, NEW b, b \notin Dom(t), NEW g
  PROVE  Get(t, b, g) = NULL
BY Zenon DEF Get, Dom

\* ReplaceChild(t, u, p, c) writes c into the field of u that held p, the right
\* one unless p is the left child.
LEMMA ReplaceChildGets ==
  ASSUME NEW t, Usable(t), NEW u \in Dom(t), NEW p, NEW c
  PROVE  /\ Usable(ReplaceChild(t, u, p, c))
         /\ Dom(ReplaceChild(t, u, p, c)) = Dom(t)
         /\ Root(ReplaceChild(t, u, p, c)) = Root(t)
         /\ \A b, g : g \in Fields =>
              Get(ReplaceChild(t, u, p, c), b, g)
                = IF b = u /\ g = (IF Get(t, u, "left") = p THEN "left" ELSE "right") THEN c
                  ELSE Get(t, b, g)
<1> DEFINE sd == IF Get(t, u, "left") = p THEN "left" ELSE "right"
<1>1. sd \in Fields
  BY DEF Fields
<1>2. ReplaceChild(t, u, p, c) = Set(t, u, sd, c)
  BY Zenon DEF ReplaceChild
<1> HIDE DEF sd
<1> QED BY <1>1, <1>2, SetGets DEF sd

\* WithNode adds the node to be inserted, with nothing in its fields.
LEMMA WithNodeGets ==
  ASSUME Usable(Tree), op.node \notin Dom(Tree), op.node # NULL
  PROVE  /\ Usable(WithNode)
         /\ Dom(WithNode) = Dom(Tree) \cup {op.node}
         /\ Root(WithNode) = Root(Tree)
         /\ \A g \in Fields : Get(WithNode, op.node, g) = 0
         /\ \A b, g : b # op.node => Get(WithNode, b, g) = Get(Tree, b, g)
<1> DEFINE s == WithNode
           n == Add(link, op.node, Fresh)
<1>1. Tree = [link |-> link, root |-> root, ok |-> TRUE] /\ s = [link |-> n, root |-> root, ok |-> TRUE]
  BY Zenon DEF Tree, WithNode
<1>2. DOMAIN n = DOMAIN link \cup {op.node} /\ \A x \in DOMAIN n : n[x] = IF x = op.node THEN Fresh ELSE link[x]
  BY Zenon DEF Add
<1>3. DOMAIN Fresh = Fields /\ \A g \in Fields : Fresh[g] = 0
  BY DEF Fresh, Fields, NULL, BLACK
<1> HIDE DEF n, s
<1>4. Tree.link = link /\ Tree.root = root /\ s.link = n /\ s.root = root /\ s = [link |-> s.link, root |-> s.root, ok |-> TRUE]
  BY <1>1
<1>5. \A a \in DOMAIN link : Fields \subseteq DOMAIN link[a]
  BY <1>4, Zenon DEF Usable, Dom
<1>6. \A a \in DOMAIN n : Fields \subseteq DOMAIN n[a]
  BY <1>2, <1>3, <1>5, Zenon
<1>7. /\ \A b, g : Get(s, b, g) = IF b \in DOMAIN n THEN n[b][g] ELSE 0
      /\ \A b, g : Get(Tree, b, g) = IF b \in DOMAIN link THEN link[b][g] ELSE 0
  BY <1>4, GetIs, Zenon
<1>8. \A g \in Fields : Get(s, op.node, g) = 0
  <2>1. op.node \in DOMAIN n /\ n[op.node] = Fresh
    BY <1>2, Zenon
  <2> QED BY <2>1, <1>3, <1>7, Zenon
<1>9. \A b, g : b # op.node => Get(s, b, g) = Get(Tree, b, g)
  <2> TAKE b, g
  <2> HAVE b # op.node
  <2>1. CASE b \in DOMAIN link
    <3>1. b \in DOMAIN n /\ n[b] = link[b]
      BY <2>1, <1>2, Zenon
    <3> QED BY <2>1, <3>1, <1>7, Zenon
  <2>2. CASE b \notin DOMAIN link
    <3>1. b \notin DOMAIN n
      BY <2>2, <1>2, Zenon
    <3> QED BY <2>2, <3>1, <1>7, Zenon
  <2> QED BY <2>1, <2>2
<1>10. Dom(s) = Dom(Tree) \cup {op.node} /\ Root(s) = Root(Tree)
  BY <1>2, <1>4, Zenon DEF Dom, Root
<1>11. Usable(s)
  <2>1. NULL \notin Dom(s)
    BY <1>10 DEF Usable
  <2> QED BY <2>1, <1>4, <1>6, Zenon DEF Usable, Dom
<1> QED BY <1>8, <1>9, <1>10, <1>11, Zenon DEF s

-----------------------------------------------------------------------------
(* The tree: H are its nodes, and D[a] are those at and below a. *)

\* The heads H hang together from the root by parent, f and g: a child's parent
\* is its parent, each head is below its parent, and D says which heads are
\* below which, so that no head is below two children or below itself.
IsTreeBy(t, H, D, f, g) ==
  /\ NULL \notin H /\ H \subseteq Dom(t)
  /\ D \in [H \cup {NULL} -> SUBSET H] /\ D[NULL] = {}
  /\ Root(t) \in H \cup {NULL} /\ D[Root(t)] = H
  /\ Root(t) # NULL => Get(t, Root(t), "parent") = NULL
  /\ \A a \in H : a # Root(t) =>
       /\ Get(t, a, "parent") \in H
       /\ a = Get(t, Get(t, a, "parent"), f) \/ a = Get(t, Get(t, a, "parent"), g)
  /\ \A a \in H, s \in {f, g} : Get(t, a, s) # NULL =>
       Get(t, a, s) \in H /\ Get(t, Get(t, a, s), "parent") = a
  /\ \A a \in H : a \in D[a] /\ a \notin D[Get(t, a, f)] /\ a \notin D[Get(t, a, g)]
  /\ \A a, b \in H : b \in D[a] <=> b = a \/ b \in D[Get(t, a, f)] \/ b \in D[Get(t, a, g)]
  /\ \A a, b \in H : b \notin D[Get(t, a, f)] \/ b \notin D[Get(t, a, g)]
  /\ \A a, b, c \in H : b \in D[a] /\ c \in D[b] => c \in D[a]
  /\ \A a, b \in H : b \in D[a] /\ b # a => Get(t, b, "parent") \in D[a]

\* The tree's own fields.  Everything a rotation does one way it also does the
\* other way round, so the facts about one are proved for (f, g) and hold of
\* both.
IsTree(t, H, D) == IsTreeBy(t, H, D, "left", "right")

\* A tree read in a mirror is a tree.
LEMMA Mirror ==
  ASSUME NEW t, NEW H, NEW D, NEW f, NEW g
  PROVE  IsTreeBy(t, H, D, f, g) <=> IsTreeBy(t, H, D, g, f)
BY DEF IsTreeBy

\* So a tree may be read from whichever side a step works on.
LEMMA EitherSide ==
  ASSUME NEW t, NEW H, NEW D, NEW s \in Sides
  PROVE  IsTree(t, H, D) <=> IsTreeBy(t, H, D, s, Other(s))
BY Mirror DEF IsTree, Sides, Other

\* s is t with p rotated down to its side f; g is the other side.
Rotated(t, s, p, f, g) ==
  LET c == Get(t, p, g)
      d == Get(t, c, f)
      u == Get(t, p, "parent")
  IN  /\ Dom(s) = Dom(t)
      /\ Root(s) = IF Root(t) = p THEN c ELSE Root(t)
      /\ \A x, y : y \in {f, g} =>
           Get(s, x, y) = IF x = p /\ y = g THEN d
                          ELSE IF x = c /\ y = f THEN p
                          ELSE IF x = u /\ Get(t, x, y) = p THEN c ELSE Get(t, x, y)
      /\ \A x : Get(s, x, "parent") = IF x = p THEN c ELSE IF x = c THEN u
                                      ELSE IF x = d /\ d # NULL THEN p ELSE Get(t, x, "parent")
      /\ \A x : Get(s, x, "color") = Get(t, x, "color") /\ Get(s, x, "next") = Get(t, x, "next")

\* Rotate, which goes through six writes in the code, is the change Rotated
\* says, on either side.
LEMMA RotateIs ==
  ASSUME NEW t, NEW H, NEW D, Usable(t), IsTree(t, H, D), NEW p \in H, NEW f \in Sides,
         Get(t, p, Other(f)) # NULL
  PROVE  Usable(Rotate(t, p, f)) /\ Rotated(t, Rotate(t, p, f), p, f, Other(f))
<1> DEFINE g == Other(f)
           c == Get(t, p, g)
           d == Get(t, c, f)
           t1 == Set(t, p, g, d)
           t2 == IF d = NULL THEN t1 ELSE Set(t1, d, "parent", p)
           u == Get(t2, p, "parent")
           t3 == Set(t2, c, "parent", u)
           t4 == IF u = NULL THEN SetRoot(t3, c) ELSE ReplaceChild(t3, u, p, c)
           t5 == Set(t4, c, f, p)
           t6 == Set(t5, p, "parent", c)
           v == Get(t, p, "parent")
<1>0. Rotate(t, p, f) = t6
  BY Zenon DEF Rotate
<1>1. /\ f \in Fields /\ g \in Fields /\ f # g /\ {f, g} = {"left", "right"}
      /\ "parent" \in Fields /\ f # "parent" /\ g # "parent"
      /\ f # "color" /\ g # "color" /\ f # "next" /\ g # "next" /\ "color" \in Fields /\ "next" \in Fields
      /\ "left" \in Fields /\ "right" \in Fields
  BY DEF Sides, Other, Fields
<1>2. IsTreeBy(t, H, D, f, g) /\ c # NULL
  BY EitherSide
<1> HIDE DEF g
<1>3. /\ p \in Dom(t) /\ c \in H /\ c \in Dom(t) /\ c # p /\ Get(t, c, "parent") = p
      /\ d # NULL => d \in H /\ d \in Dom(t) /\ d # p /\ d # c /\ Get(t, d, "parent") = c
      /\ v # NULL => v \in H /\ v \in Dom(t) /\ v # p /\ v # c /\ v # d
      /\ v = NULL <=> Root(t) = p
      /\ v # NULL => p = Get(t, v, f) \/ p = Get(t, v, g)
      /\ v # NULL => p # Get(t, v, f) \/ p # Get(t, v, g)
  <2>1. p \in Dom(t) /\ c \in H /\ c \in Dom(t) /\ c # p /\ Get(t, c, "parent") = p
    <3>1. c \in H /\ Get(t, c, "parent") = p
      <4>1. \A a \in H, s \in {f, g} : Get(t, a, s) # NULL =>
              Get(t, a, s) \in H /\ Get(t, Get(t, a, s), "parent") = a
        BY <1>2 DEF IsTreeBy
      <4> QED BY <1>2, <4>1
    <3>2. c \in D[c] /\ p \notin D[c]
      BY <1>2, <3>1 DEF IsTreeBy, c
    <3> QED BY <1>2, <3>1, <3>2 DEF IsTreeBy
  <2>2. d # NULL => d \in H /\ d \in Dom(t) /\ Get(t, d, "parent") = c /\ d # c /\ d # p
    <3> HAVE d # NULL
    <3>1. d \in H /\ Get(t, d, "parent") = c
      BY <1>2, <2>1 DEF IsTreeBy, d
    <3>2. d \in D[d] /\ c \notin D[d] /\ d \in D[c]
      BY <1>2, <2>1, <3>1 DEF IsTreeBy, d
    <3>3. p \notin D[c]
      BY <1>2 DEF IsTreeBy, c
    <3>4. d \in Dom(t)
      BY <1>2, <3>1 DEF IsTreeBy
    <3> QED BY <3>1, <3>2, <3>3, <3>4
  <2>3. v = NULL <=> Root(t) = p
    BY <1>2 DEF IsTreeBy, v
  <2>4. v # NULL => v \in H /\ v \in Dom(t) /\ (p = Get(t, v, f) \/ p = Get(t, v, g))
    BY <1>2, <2>3 DEF IsTreeBy, v
  <2>5. v # NULL => p # Get(t, v, f) \/ p # Get(t, v, g)
    BY <1>2, <2>4 DEF IsTreeBy
  <2>6. v # NULL => v # p /\ v # c /\ v # d
    <3> HAVE v # NULL
    <3>1. p \in D[v]
      BY <1>2, <2>4 DEF IsTreeBy
    <3>2. c \in D[p] /\ (d # NULL => d \in D[p]) /\ v \notin D[p]
      BY <1>2, <2>1, <2>2, <2>4 DEF IsTreeBy, c, d
    <3> QED BY <3>1, <3>2, <2>4, <1>2 DEF IsTreeBy
  <2> QED BY <2>1, <2>2, <2>3, <2>4, <2>5, <2>6
<1> HIDE DEF c, d, t1, t2, u, t3, t4, t5, t6, v
<1>4. /\ Usable(t1) /\ Dom(t1) = Dom(t) /\ Root(t1) = Root(t)
      /\ \A x, y : y \in Fields => Get(t1, x, y) = IF x = p /\ y = g THEN d ELSE Get(t, x, y)
  BY <1>1, <1>3, SetGets DEF t1
<1>5. /\ Usable(t2) /\ Dom(t2) = Dom(t) /\ Root(t2) = Root(t)
      /\ \A x, y : y \in Fields => Get(t2, x, y) = IF x = d /\ d # NULL /\ y = "parent" THEN p ELSE Get(t1, x, y)
  BY <1>1, <1>3, <1>4, SetGets DEF t2
<1>6. u = v
  BY <1>1, <1>3, <1>4, <1>5 DEF u, v
<1>7. /\ Usable(t3) /\ Dom(t3) = Dom(t) /\ Root(t3) = Root(t)
      /\ \A x, y : y \in Fields => Get(t3, x, y) = IF x = c /\ y = "parent" THEN u ELSE Get(t2, x, y)
  BY <1>1, <1>3, <1>5, SetGets DEF t3
<1>8. /\ Usable(t4) /\ Dom(t4) = Dom(t) /\ Root(t4) = (IF u = NULL THEN c ELSE Root(t))
      /\ \A x, y : y \in Fields => Get(t4, x, y) =
           IF u # NULL /\ x = u /\ y = (IF Get(t3, u, "left") = p THEN "left" ELSE "right") THEN c ELSE Get(t3, x, y)
  <2>1. CASE u = NULL
    BY <2>1, <1>7, SetRootGets DEF t4
  <2>2. CASE u # NULL
    BY <2>2, <1>3, <1>6, <1>7, ReplaceChildGets DEF t4
  <2> QED BY <2>1, <2>2
<1>9. /\ Usable(t5) /\ Dom(t5) = Dom(t) /\ Root(t5) = Root(t4)
      /\ \A x, y : y \in Fields => Get(t5, x, y) = IF x = c /\ y = f THEN p ELSE Get(t4, x, y)
  BY <1>1, <1>3, <1>8, SetGets DEF t5
<1>10. /\ Usable(t6) /\ Dom(t6) = Dom(t) /\ Root(t6) = Root(t4)
       /\ \A x, y : y \in Fields => Get(t6, x, y) = IF x = p /\ y = "parent" THEN c ELSE Get(t5, x, y)
  BY <1>1, <1>3, <1>9, SetGets DEF t6
<1>11. \A y \in {f, g} : u # NULL => ((y = (IF Get(t3, u, "left") = p THEN "left" ELSE "right")) <=> Get(t, u, y) = p)
  BY <1>1, <1>3, <1>4, <1>5, <1>6, <1>7
<1>12. ASSUME NEW x, NEW y \in {f, g}
       PROVE  Get(t6, x, y) = IF x = p /\ y = g THEN d
                          ELSE IF x = c /\ y = f THEN p
                          ELSE IF x = v /\ Get(t, x, y) = p THEN c ELSE Get(t, x, y)
  <2>1. Get(t, NULL, y) # p
    BY <1>2, <1>3, GetOutside DEF Usable, IsTreeBy
  <2> QED BY <2>1, <1>1, <1>3, <1>4, <1>5, <1>6, <1>7, <1>8, <1>9, <1>10, <1>11
<1>13. \A x : Get(t6, x, "parent") = IF x = p THEN c ELSE IF x = c THEN v
                                      ELSE IF x = d /\ d # NULL THEN p ELSE Get(t, x, "parent")
  BY <1>1, <1>3, <1>4, <1>5, <1>6, <1>7, <1>8, <1>9, <1>10
<1>14. \A x : Get(t6, x, "color") = Get(t, x, "color") /\ Get(t6, x, "next") = Get(t, x, "next")
  BY <1>1, <1>4, <1>5, <1>7, <1>8, <1>9, <1>10
<1>15. Root(t6) = IF Root(t) = p THEN c ELSE Root(t)
  BY <1>3, <1>6, <1>8, <1>10
<1> QED BY <1>0, <1>10, <1>12, <1>13, <1>14, <1>15 DEF Rotated, c, d, v, g

\* Who is below whom after p was rotated down to side f.
RotatedBelow(t, H, D, p, f, g) ==
  LET c == Get(t, p, g)
  IN  [x \in H \cup {NULL} |->
         IF x = c THEN D[p]
         ELSE IF x = p THEN {p} \cup D[Get(t, p, f)] \cup D[Get(t, c, f)] ELSE D[x]]

\* The nodes around p and its child c on the side g, and what is below them.
RotateBefore(t, H, D, p, c, d, e, h) ==
  /\ c \in H /\ c # p /\ Get(t, c, "parent") = p
  /\ d \in H \cup {NULL} /\ e \in H \cup {NULL} /\ h \in H \cup {NULL}
  /\ d # NULL => Get(t, d, "parent") = c
  /\ e # NULL => Get(t, e, "parent") = p
  /\ h # NULL => Get(t, h, "parent") = c
  /\ p \in D[p] /\ p \notin D[c] /\ p \notin D[d] /\ p \notin D[e] /\ p \notin D[h]
  /\ c \in D[c] /\ c \notin D[d] /\ c \notin D[h] /\ c \notin D[e] /\ c \in D[p]
  /\ \A x \in H : x \in D[x]
  /\ d # c /\ d # p /\ e # c /\ e # p /\ h # c /\ h # p
  /\ \A b : b \in D[p] <=> b = p \/ b \in D[e] \/ b = c \/ b \in D[d] \/ b \in D[h]

\* What the rotation has made of the names of RotateBefore: in s, with E in the
\* place of D.
RotateAfter(t, s, H, D, p, f, g, c, d, e, h, u, E) ==
  /\ E[c] = D[p] /\ E[p] = {p} \cup D[e] \cup D[d]
  /\ \A x \in H \cup {NULL} : x # c /\ x # p => E[x] = D[x]
  /\ E \in [H \cup {NULL} -> SUBSET H] /\ E[NULL] = {}
  /\ Get(s, p, f) = e /\ Get(s, p, g) = d /\ Get(s, c, f) = p /\ Get(s, c, g) = h
  /\ \A a \in H, y \in {f, g} : a # p /\ a # c =>
       Get(s, a, y) = (IF Get(t, a, y) = p THEN c ELSE Get(t, a, y))
  /\ \A x : Get(s, x, "parent") = (IF x = p THEN c ELSE IF x = c THEN u
                                   ELSE IF x = d /\ d # NULL THEN p ELSE Get(t, x, "parent"))
  /\ \A a \in H, y \in {f, g} : a # p /\ a # c => E[Get(s, a, y)] = D[Get(t, a, y)]
  /\ Dom(s) = Dom(t) /\ Root(s) = (IF Root(t) = p THEN c ELSE Root(t))

\* Of a tree, the rotation makes what RotateBefore and RotateAfter say.
LEMMA RotateFacts ==
  ASSUME NEW t, NEW s, NEW H, NEW D, NEW p \in H, NEW f, NEW g, f # g,
         IsTreeBy(t, H, D, f, g), Rotated(t, s, p, f, g), Get(t, p, g) # NULL
  PROVE  \A c, d, e, h, u, E :
           /\ c = Get(t, p, g) /\ d = Get(t, c, f) /\ e = Get(t, p, f) /\ h = Get(t, c, g)
           /\ u = Get(t, p, "parent") /\ E = RotatedBelow(t, H, D, p, f, g)
           => RotateBefore(t, H, D, p, c, d, e, h) /\ RotateAfter(t, s, H, D, p, f, g, c, d, e, h, u, E)
<1> SUFFICES ASSUME NEW c, NEW d, NEW e, NEW h, NEW u, NEW E,
                    c = Get(t, p, g), d = Get(t, c, f), e = Get(t, p, f), h = Get(t, c, g),
                    u = Get(t, p, "parent"), E = RotatedBelow(t, H, D, p, f, g)
             PROVE  RotateBefore(t, H, D, p, c, d, e, h) /\ RotateAfter(t, s, H, D, p, f, g, c, d, e, h, u, E)
  OBVIOUS
<1>1. c \in H /\ c # p /\ Get(t, c, "parent") = p
  <2>1. c \in H /\ Get(t, c, "parent") = p
    BY DEF IsTreeBy
  <2>2. c \in D[c] /\ p \notin D[c]
    BY <2>1 DEF IsTreeBy
  <2> QED BY <2>1, <2>2
<1>2. /\ d \in H \cup {NULL} /\ e \in H \cup {NULL} /\ h \in H \cup {NULL}
      /\ d # NULL => Get(t, d, "parent") = c
      /\ e # NULL => Get(t, e, "parent") = p
      /\ h # NULL => Get(t, h, "parent") = c
      /\ D \in [H \cup {NULL} -> SUBSET H] /\ D[NULL] = {} /\ NULL \notin H
  BY <1>1 DEF IsTreeBy
<1>3. /\ p \in D[p] /\ p \notin D[c] /\ p \notin D[d] /\ p \notin D[e] /\ p \notin D[h]
      /\ c \in D[c] /\ c \notin D[d] /\ c \notin D[h] /\ c \notin D[e]
      /\ c \in D[p]
  <2>1. p \in D[p] /\ p \notin D[c] /\ p \notin D[e]
    BY DEF IsTreeBy
  <2>2. c \in D[c] /\ c \notin D[d] /\ c \notin D[h]
    BY <1>1 DEF IsTreeBy
  <2>3. p \notin D[d] /\ p \notin D[h]
    BY <1>1, <2>1 DEF IsTreeBy
  <2>4. c \notin D[e]
    BY <1>1, <2>2 DEF IsTreeBy
  <2>5. c \in D[p]
    BY <1>1, <2>2 DEF IsTreeBy
  <2> QED BY <2>1, <2>2, <2>3, <2>4, <2>5
<1>4. /\ \A x \in H : x \in D[x]
      /\ d # c /\ d # p /\ e # c /\ e # p /\ h # c /\ h # p
  <2>1. \A x \in H : x \in D[x]
    BY DEF IsTreeBy
  <2> QED BY <1>1, <1>2, <1>3, <2>1
<1>5. \A a \in H, y \in {f, g} : (Get(t, a, y) = p => a = u) /\ (Get(t, a, y) = c => a = p)
  BY <1>1, <1>2 DEF IsTreeBy
<1>6. /\ E[c] = D[p] /\ E[p] = {p} \cup D[e] \cup D[d]
      /\ \A x \in H \cup {NULL} : x # c /\ x # p => E[x] = D[x]
      /\ E = [x \in H \cup {NULL} |-> E[x]]
  BY <1>1 DEF RotatedBelow
<1>7. \A b : b \in D[p] <=> b = p \/ b \in D[e] \/ b = c \/ b \in D[d] \/ b \in D[h]
  <2>1. \A b \in H : b \in D[p] <=> b = p \/ b \in D[e] \/ b \in D[c]
    BY DEF IsTreeBy
  <2>2. \A b \in H : b \in D[c] <=> b = c \/ b \in D[d] \/ b \in D[h]
    BY <1>1 DEF IsTreeBy
  <2> QED BY <2>1, <2>2, <1>1, <1>2
<1>8. E \in [H \cup {NULL} -> SUBSET H] /\ E[NULL] = {}
  <2>1. \A x \in H \cup {NULL} : E[x] \subseteq H
    BY <1>1, <1>2, <1>6
  <2> QED BY <2>1, <1>1, <1>2, <1>6
<1>9. /\ Get(s, p, f) = e /\ Get(s, p, g) = d /\ Get(s, c, f) = p /\ Get(s, c, g) = h
  <2>1. u # p /\ u # c
    <3>1. p = Root(t) => u = NULL
      BY DEF IsTreeBy
    <3>2. p # Root(t) => u \in H /\ (p = Get(t, u, f) \/ p = Get(t, u, g))
      BY DEF IsTreeBy
    <3>3. ASSUME p # Root(t), u = p \/ u = c PROVE FALSE
      BY <1>3, <1>4, <3>2, <3>3
    <3> QED BY <3>1, <3>3, <1>1, <1>2
  <2> QED BY <2>1, <1>1 DEF Rotated
<1>10. \A a \in H, y \in {f, g} : a # p /\ a # c =>
         Get(s, a, y) = (IF Get(t, a, y) = p THEN c ELSE Get(t, a, y))
  BY <1>5 DEF Rotated
<1>11. \A x : Get(s, x, "parent") = IF x = p THEN c ELSE IF x = c THEN u
                                    ELSE IF x = d /\ d # NULL THEN p ELSE Get(t, x, "parent")
  BY DEF Rotated
<1>12. \A a \in H, y \in {f, g} : a # p /\ a # c => E[Get(s, a, y)] = D[Get(t, a, y)]
  <2> TAKE a \in H, y \in {f, g}
  <2> HAVE a # p /\ a # c
  <2>1. Get(t, a, y) \in H \cup {NULL}
    BY DEF IsTreeBy
  <2>2. Get(t, a, y) # c
    BY <1>5
  <2> QED BY <2>1, <2>2, <1>2, <1>6, <1>10
<1>13. Dom(s) = Dom(t) /\ Root(s) = IF Root(t) = p THEN c ELSE Root(t)
  BY DEF Rotated
<1>14. RotateBefore(t, H, D, p, c, d, e, h)
  BY <1>1, <1>2, <1>3, <1>4, <1>7 DEF RotateBefore
<1>15. RotateAfter(t, s, H, D, p, f, g, c, d, e, h, u, E)
  BY <1>6, <1>8, <1>9, <1>10, <1>11, <1>12, <1>13 DEF RotateAfter
<1> QED BY <1>14, <1>15

\* A rotation of a tree gives a tree, with the same heads.
LEMMA RotateTree ==
  ASSUME NEW t, NEW s, NEW H, NEW D, NEW p \in H, NEW f, NEW g, f # g,
         IsTreeBy(t, H, D, f, g), Rotated(t, s, p, f, g), Get(t, p, g) # NULL
  PROVE  IsTreeBy(s, H, RotatedBelow(t, H, D, p, f, g), f, g)
<1> DEFINE c == Get(t, p, g)
           d == Get(t, c, f)
           e == Get(t, p, f)
           h == Get(t, c, g)
           u == Get(t, p, "parent")
           E == RotatedBelow(t, H, D, p, f, g)
<1>d. /\ c = Get(t, p, g) /\ d = Get(t, c, f) /\ e = Get(t, p, f) /\ h = Get(t, c, g)
      /\ u = Get(t, p, "parent") /\ E = RotatedBelow(t, H, D, p, f, g)
  OBVIOUS
<1> HIDE DEF c, d, e, h, u, E
<1>0. RotateBefore(t, H, D, p, c, d, e, h) /\ RotateAfter(t, s, H, D, p, f, g, c, d, e, h, u, E)
  BY <1>d, RotateFacts
<1>1. c \in H /\ c # p /\ Get(t, c, "parent") = p
  BY <1>0 DEF RotateBefore
<1>2. /\ d \in H \cup {NULL} /\ e \in H \cup {NULL} /\ h \in H \cup {NULL}
      /\ d # NULL => Get(t, d, "parent") = c
      /\ e # NULL => Get(t, e, "parent") = p
      /\ h # NULL => Get(t, h, "parent") = c
      /\ D \in [H \cup {NULL} -> SUBSET H] /\ D[NULL] = {} /\ NULL \notin H
  BY <1>0 DEF RotateBefore, IsTreeBy
<1>3. /\ p \in D[p] /\ p \notin D[c] /\ p \notin D[d] /\ p \notin D[e] /\ p \notin D[h]
      /\ c \in D[c] /\ c \notin D[d] /\ c \notin D[h] /\ c \notin D[e]
      /\ c \in D[p]
  BY <1>0 DEF RotateBefore
<1>4. /\ \A x \in H : x \in D[x]
      /\ d # c /\ d # p /\ e # c /\ e # p /\ h # c /\ h # p
  BY <1>0 DEF RotateBefore
<1>6. /\ E[c] = D[p] /\ E[p] = {p} \cup D[e] \cup D[d]
      /\ \A x \in H \cup {NULL} : x # c /\ x # p => E[x] = D[x]
  BY <1>0 DEF RotateAfter
<1>7. \A b : b \in D[p] <=> b = p \/ b \in D[e] \/ b = c \/ b \in D[d] \/ b \in D[h]
  BY <1>0 DEF RotateBefore
<1>8. E \in [H \cup {NULL} -> SUBSET H] /\ E[NULL] = {}
  BY <1>0 DEF RotateAfter
<1>9. Get(s, p, f) = e /\ Get(s, p, g) = d /\ Get(s, c, f) = p /\ Get(s, c, g) = h
  BY <1>0 DEF RotateAfter
<1>10. \A a \in H, y \in {f, g} : a # p /\ a # c =>
         Get(s, a, y) = (IF Get(t, a, y) = p THEN c ELSE Get(t, a, y))
  BY <1>0 DEF RotateAfter
<1>11. \A x : Get(s, x, "parent") = IF x = p THEN c ELSE IF x = c THEN u
                                    ELSE IF x = d /\ d # NULL THEN p ELSE Get(t, x, "parent")
  BY <1>0 DEF RotateAfter
<1>12. \A a \in H, y \in {f, g} : a # p /\ a # c => E[Get(s, a, y)] = D[Get(t, a, y)]
  BY <1>0 DEF RotateAfter
<1>13. Dom(s) = Dom(t) /\ Root(s) = IF Root(t) = p THEN c ELSE Root(t)
  BY <1>0 DEF RotateAfter
<1>21. Root(s) \in H \cup {NULL} /\ E[Root(s)] = H
  <2>1. Root(t) \in H \cup {NULL} /\ D[Root(t)] = H
    BY DEF IsTreeBy
  <2>2. ASSUME Root(t) = c PROVE FALSE
    BY <2>1, <2>2, <1>3
  <2> QED BY <2>1, <2>2, <1>1, <1>6, <1>13
<1>22. Root(s) # NULL => Get(s, Root(s), "parent") = NULL
  <2>1. Root(t) # NULL => Get(t, Root(t), "parent") = NULL
    BY DEF IsTreeBy
  <2>2. Root(t) = p => u = NULL
    BY <2>1, <1>1, <1>2 DEF u
  <2> QED BY <2>1, <2>2, <1>1, <1>2, <1>11, <1>13
<1>23. ASSUME NEW a \in H, a # Root(s)
       PROVE  /\ Get(s, a, "parent") \in H
              /\ a = Get(s, Get(s, a, "parent"), f) \/ a = Get(s, Get(s, a, "parent"), g)
  <2>1. CASE a = p
    BY <2>1, <1>1, <1>9, <1>11
  <2>2. CASE a = c
    <3>1. u \in H /\ (p = Get(t, u, f) \/ p = Get(t, u, g))
      BY <1>23, <1>13, <2>2 DEF IsTreeBy, u
    <3>2. u # p /\ u # c
      BY <3>1, <1>3, <1>4 DEF e, c, d, h
    <3> QED BY <2>2, <3>1, <3>2, <1>1, <1>10, <1>11
  <2>3. CASE a = d
    BY <2>3, <1>2, <1>4, <1>9, <1>11
  <2>4. CASE a # p /\ a # c /\ a # d
    <3> DEFINE q == Get(t, a, "parent")
    <3>1. q \in H /\ (a = Get(t, q, f) \/ a = Get(t, q, g))
      BY <2>4, <1>23, <1>13, <1>21 DEF IsTreeBy
    <3>2. Get(s, a, "parent") = q
      BY <2>4, <1>11
    <3> HIDE DEF q
    <3>3. CASE q = p
      BY <3>1, <3>2, <3>3, <2>4, <1>9 DEF e, c
    <3>4. CASE q = c
      BY <3>1, <3>2, <3>4, <2>4, <1>9 DEF d, h
    <3>5. CASE q # p /\ q # c
      BY <3>1, <3>2, <3>5, <2>4, <1>10
    <3> QED BY <3>3, <3>4, <3>5
  <2> QED BY <2>1, <2>2, <2>3, <2>4
<1>24. ASSUME NEW a \in H, NEW y \in {f, g}, Get(s, a, y) # NULL
       PROVE  Get(s, a, y) \in H /\ Get(s, Get(s, a, y), "parent") = a
  <2>1. CASE a = p
    BY <2>1, <1>24, <1>2, <1>4, <1>9, <1>11
  <2>2. CASE a = c
    <3>1. h # NULL => h # d
      <4>1. h \notin D[d] \/ h \notin D[h] \/ h = NULL
        BY <1>1, <1>2 DEF IsTreeBy, d, h
      <4> QED BY <4>1, <1>2, <1>4
    <3> QED BY <2>2, <3>1, <1>24, <1>1, <1>2, <1>4, <1>9, <1>11
  <2>3. CASE a # p /\ a # c
    <3>1. Get(t, a, y) # NULL /\ Get(t, a, y) \in H /\ Get(t, Get(t, a, y), "parent") = a
      BY <2>3, <1>24, <1>10, <1>1, <1>2 DEF IsTreeBy
    <3>2. CASE Get(t, a, y) = p
      BY <2>3, <3>1, <3>2, <1>1, <1>10, <1>11 DEF u
    <3>3. CASE Get(t, a, y) # p
      BY <2>3, <3>1, <3>3, <1>1, <1>2, <1>10, <1>11
    <3> QED BY <3>2, <3>3
  <2> QED BY <2>1, <2>2, <2>3
<1>25. ASSUME NEW a \in H
       PROVE  /\ a \in E[a] /\ a \notin E[Get(s, a, f)] /\ a \notin E[Get(s, a, g)]
              /\ \A b \in H : b \in E[a] <=> b = a \/ b \in E[Get(s, a, f)] \/ b \in E[Get(s, a, g)]
              /\ \A b \in H : b \notin E[Get(s, a, f)] \/ b \notin E[Get(s, a, g)]
  <2>1. CASE a = p
    <3>1. \A b \in H : b \notin D[e] \/ b \notin D[d]
      <4>1. \A b \in H : b \notin D[e] \/ b \notin D[c]
        BY DEF IsTreeBy, e, c
      <4>2. \A b \in H : b \in D[d] => b \in D[c]
        BY <1>1 DEF IsTreeBy, d
      <4> QED BY <4>1, <4>2
    <3>2. E[e] = D[e] /\ E[d] = D[d]
      BY <1>2, <1>4, <1>6
    <3> QED BY <2>1, <3>1, <3>2, <1>3, <1>6, <1>9
  <2>2. CASE a = c
    <3>1. \A b \in H : (b \notin D[e] \/ b \notin D[h]) /\ (b \notin D[d] \/ b \notin D[h])
      <4>1. \A b \in H : b \notin D[e] \/ b \notin D[c]
        BY DEF IsTreeBy, e, c
      <4>2. \A b \in H : b \in D[h] => b \in D[c]
        BY <1>1 DEF IsTreeBy, h
      <4>3. \A b \in H : b \notin D[d] \/ b \notin D[h]
        BY <1>1 DEF IsTreeBy, d, h
      <4> QED BY <4>1, <4>2, <4>3
    <3>2. E[h] = D[h]
      BY <1>2, <1>4, <1>6
    <3> QED BY <2>2, <3>1, <3>2, <1>1, <1>3, <1>6, <1>7, <1>9
  <2>3. CASE a # p /\ a # c
    <3>1. E[a] = D[a] /\ E[Get(s, a, f)] = D[Get(t, a, f)] /\ E[Get(s, a, g)] = D[Get(t, a, g)]
      BY <2>3, <1>6, <1>12
    <3> QED BY <3>1 DEF IsTreeBy
  <2> QED BY <2>1, <2>2, <2>3
<1>26. ASSUME NEW a \in H, NEW b \in H, NEW z \in H, b \in E[a], z \in E[b]
       PROVE  z \in E[a]
  <2>1. \A x, y \in H : y \in D[x] => D[y] \subseteq D[x]
    BY <1>2 DEF IsTreeBy
  <2>2. \A x \in H : x # c => E[x] \subseteq D[x]
    BY <1>1, <1>6, <1>7
  <2>3. \A x \in H : x # c /\ c \in D[x] => p \in D[x]
    BY <1>1 DEF IsTreeBy
  <2>4. \A x \in H : x # c /\ c \in D[x] => D[p] \subseteq D[x]
    BY <2>1, <2>3
  <2>5. CASE a = c
    BY <2>5, <2>1, <2>2, <1>26, <1>6
  <2>6. CASE a = p
    <3>1. b # c
      BY <2>6, <1>1, <1>26, <1>3, <1>6
    <3>2. CASE b = p
      BY <3>2, <2>6, <1>26
    <3>3. CASE b # p
      BY <3>1, <3>3, <2>6, <2>1, <1>2, <1>26, <1>6
    <3> QED BY <3>2, <3>3
  <2>7. CASE a # c /\ a # p
    <3>1. E[a] = D[a]
      BY <2>7, <1>6
    <3> QED BY <3>1, <2>7, <2>1, <2>2, <2>4, <1>26, <1>6
  <2> QED BY <2>5, <2>6, <2>7
<1>27. ASSUME NEW a \in H, NEW b \in H, b \in E[a], b # a
       PROVE  Get(s, b, "parent") \in E[a]
  <2>1. \A x, y \in H : y \in D[x] /\ y # x => Get(t, y, "parent") \in D[x]
    BY DEF IsTreeBy
  <2>2. CASE a = c
    <3>1. b = p \/ b = d \/ (b # p /\ b # c /\ b # d /\ Get(t, b, "parent") \in D[p])
      BY <2>1, <2>2, <1>27, <1>6
    <3>2. CASE b = p
      BY <3>2, <2>2, <1>3, <1>6, <1>11
    <3>3. CASE b = d
      BY <3>3, <2>2, <1>2, <1>3, <1>4, <1>6, <1>11
    <3>4. CASE b # p /\ b # c /\ b # d /\ Get(t, b, "parent") \in D[p]
      BY <3>4, <2>2, <1>6, <1>11
    <3> QED BY <3>1, <3>2, <3>3, <3>4
  <2>3. CASE a = p
    <3>1. b # c /\ (b \in D[e] \/ b \in D[d])
      BY <2>3, <1>27, <1>1, <1>3, <1>6
    <3>2. CASE b = d
      BY <3>2, <2>3, <1>2, <1>4, <1>6, <1>11
    <3>3. CASE b = e /\ b # d
      BY <3>3, <2>3, <1>2, <1>3, <1>4, <1>6, <1>11
    <3>4. CASE b # d /\ b # e
      <4>1. Get(t, b, "parent") \in D[e] \cup D[d]
        BY <3>1, <3>4, <2>1, <1>2
      <4> QED BY <4>1, <3>1, <3>4, <2>3, <1>27, <1>6, <1>11
    <3> QED BY <3>2, <3>3, <3>4
  <2>4. CASE a # c /\ a # p
    <3>1. E[a] = D[a]
      BY <2>4, <1>6
    <3>2. c \in D[a] => p \in D[a] /\ u \in D[a]
      BY <2>4, <2>1, <1>1 DEF u
    <3>3. p \in D[a] => c \in D[a]
      BY <1>1, <1>3 DEF IsTreeBy
    <3>4. b = d => p \in D[a]
      <4>1. b = d => c \in D[a]
        BY <2>1, <3>1, <1>2, <1>27
      <4> QED BY <4>1, <3>2, <1>27
    <3>5. Get(t, b, "parent") \in D[a]
      BY <2>1, <3>1, <1>27
    <3>6. CASE b = p
      BY <3>6, <3>1, <3>3, <1>11, <1>27
    <3>7. CASE b = c
      BY <3>7, <3>1, <3>2, <1>1, <1>11, <1>27
    <3>8. CASE b = d
      BY <3>8, <3>1, <3>4, <1>2, <1>4, <1>11, <1>27
    <3>9. CASE b # p /\ b # c /\ b # d
      BY <3>9, <3>1, <3>5, <1>11
    <3> QED BY <3>6, <3>7, <3>8, <3>9
  <2> QED BY <2>2, <2>3, <2>4
<1>28. NULL \notin H /\ H \subseteq Dom(s)
  BY <1>13 DEF IsTreeBy
<1>29. IsTreeBy(s, H, E, f, g)
  BY <1>8, <1>21, <1>22, <1>23, <1>24, <1>25, <1>26, <1>27, <1>28, Zenon DEF IsTreeBy
<1> QED BY <1>29 DEF E

\* The two together, for Rotate itself.
LEMMA RotateKeepsTree ==
  ASSUME NEW t, NEW H, NEW D, Usable(t), IsTree(t, H, D), NEW p \in H, NEW f \in Sides,
         Get(t, p, Other(f)) # NULL
  PROVE  /\ Usable(Rotate(t, p, f)) /\ Rotated(t, Rotate(t, p, f), p, f, Other(f))
         /\ IsTree(Rotate(t, p, f), H, RotatedBelow(t, H, D, p, f, Other(f)))
<1>1. f # Other(f)
  BY DEF Sides, Other
<1> QED BY <1>1, RotateIs, RotateTree, EitherSide

\* b has its key on the side s of a's.
Beside(k, s, a, b) == IF s = "left" THEN k[b] < k[a] ELSE k[a] < k[b]

\* A search tree, but for the nodes of X.
Ordered(t, H, D, k, X) ==
  /\ \A a \in H : k[a] \in Int
  /\ \A a \in H \ X, s \in Sides : \A b \in D[Get(t, a, s)] \ X : Beside(k, s, a, b)

\* To be on the left of a is to have a on the right.
LEMMA BesideFlips ==
  ASSUME NEW k, NEW s \in Sides, NEW a, NEW b, k[a] \in Int, k[b] \in Int
  PROVE  Beside(k, s, a, b) <=> Beside(k, Other(s), b, a)
BY DEF Beside, Sides, Other

\* Beside is transitive.
LEMMA BesideTransitive ==
  ASSUME NEW k, NEW s \in Sides, NEW a, NEW b, NEW c, k[a] \in Int, k[b] \in Int, k[c] \in Int,
         Beside(k, s, a, b), Beside(k, s, b, c)
  PROVE  Beside(k, s, a, c)
BY DEF Beside, Sides

\* A rotation keeps the order of the keys, where neither of the two nodes it
\* turns is out of order.
LEMMA RotateOrdered ==
  ASSUME NEW t, NEW s, NEW H, NEW D, NEW p \in H, NEW f \in Sides, NEW k, NEW X,
         IsTree(t, H, D), Rotated(t, s, p, f, Other(f)), Get(t, p, Other(f)) # NULL,
         Ordered(t, H, D, k, X), p \notin X, Get(t, p, Other(f)) \notin X
  PROVE  Ordered(s, H, RotatedBelow(t, H, D, p, f, Other(f)), k, X)
<1> DEFINE g == Other(f)
           c == Get(t, p, g)
           d == Get(t, c, f)
           e == Get(t, p, f)
           h == Get(t, c, g)
           u == Get(t, p, "parent")
           E == RotatedBelow(t, H, D, p, f, g)
<1>1. f # g /\ Sides = {f, g} /\ Other(g) = f
  BY DEF Sides, Other
<1>2. IsTreeBy(t, H, D, f, g)
  BY EitherSide
<1>d. /\ c = Get(t, p, g) /\ d = Get(t, c, f) /\ e = Get(t, p, f) /\ h = Get(t, c, g)
      /\ E = RotatedBelow(t, H, D, p, f, g) /\ u = Get(t, p, "parent") /\ Rotated(t, s, p, f, g) /\ c # NULL
  OBVIOUS
<1> HIDE DEF g, c, d, e, h, u, E
<1>3. /\ c \in H /\ c # p /\ c \in D[c]
      /\ d \in H \cup {NULL} /\ e \in H \cup {NULL} /\ h \in H \cup {NULL}
      /\ d # c /\ d # p /\ e # c /\ e # p /\ h # c /\ h # p
      /\ E[p] = {p} \cup D[e] \cup D[d]
      /\ \A x \in H \cup {NULL} : x # c /\ x # p => E[x] = D[x]
      /\ Get(s, p, f) = e /\ Get(s, p, g) = d /\ Get(s, c, f) = p /\ Get(s, c, g) = h
      /\ \A a \in H, y \in {f, g} : a # p /\ a # c => E[Get(s, a, y)] = D[Get(t, a, y)]
  <2>1. RotateBefore(t, H, D, p, c, d, e, h) /\ RotateAfter(t, s, H, D, p, f, g, c, d, e, h, u, E)
    BY <1>1, <1>2, <1>d, RotateFacts
  <2> QED BY <2>1 DEF RotateBefore, RotateAfter
<1>4. D[d] \subseteq D[c] /\ D[d] \subseteq H /\ D[e] \subseteq H
  BY <1>2, <1>3 DEF IsTreeBy, d
<1>5. \A a \in H : k[a] \in Int
  BY DEF Ordered
<1>6. \A a \in H \ X, y \in Sides : \A b \in D[Get(t, a, y)] \ X : Beside(k, y, a, b)
  BY DEF Ordered
<1>7. c \notin X
  BY DEF c, g
<1>8. ASSUME NEW a \in H \ X, NEW y \in Sides, NEW b \in E[Get(s, a, y)] \ X
      PROVE  Beside(k, y, a, b)
  <2>1. CASE a = p
    BY <2>1, <1>1, <1>3, <1>4, <1>6 DEF c, e
  <2>2. CASE a = c /\ y = g
    BY <2>2, <1>3, <1>6 DEF h
  <2>3. CASE a = c /\ y = f
    <3>1. Beside(k, f, c, p)
      BY <1>1, <1>3, <1>5, <1>6, <1>7, BesideFlips DEF c
    <3>2. b = p \/ b \in D[e] \/ b \in D[d]
      BY <2>3, <1>3
    <3>3. ASSUME b \in D[e] PROVE Beside(k, f, c, b)
      <4>1. Beside(k, f, p, b)
        BY <3>3, <1>6 DEF e
      <4> QED BY <4>1, <3>1, <3>3, <1>3, <1>4, <1>5, BesideTransitive
    <3>4. ASSUME b \in D[d] PROVE Beside(k, f, c, b)
      BY <3>4, <1>3, <1>6, <1>7 DEF d
    <3> QED BY <2>3, <3>1, <3>2, <3>3, <3>4
  <2>4. CASE a # p /\ a # c
    BY <2>4, <1>1, <1>3, <1>6
  <2> QED BY <2>1, <2>2, <2>3, <2>4, <1>1
<1> QED BY <1>5, <1>8 DEF Ordered, E, g

-----------------------------------------------------------------------------
(* Colours.  bh[a] is the black height of a, its own weight w[a] included.   *)

\* bh is a black height for the weights w: the same whichever child of a head
\* it is counted through.
Weighted(t, H, bh, w) ==
  /\ bh \in [H \cup {NULL} -> Nat] /\ bh[NULL] = 0 /\ w \in [H -> Nat]
  /\ \A a \in H, s \in Sides : bh[a] = bh[Get(t, a, s)] + w[a]

\* Every head is red or black.
Colored(t, H) == \A a \in H : Get(t, a, "color") \in {BLACK, RED}

\* No red node has a red child, but for those of X.
RedsApart(t, H, X) ==
  \A a \in H, s \in Sides :
    Get(t, a, "color") = RED /\ Get(t, a, s) # NULL /\ Get(t, a, s) \notin X
      => Get(t, Get(t, a, s), "color") = BLACK

\* What the nodes count when c has come up over p.
RotateCounts(H, p, c, d, e, h, bh, w, B, v) ==
  /\ B \in [H \cup {NULL} -> Nat] /\ B[NULL] = 0 /\ v \in [H -> Nat]
  /\ \A x \in H : x \notin {p, c, d, e, h} => B[x] = bh[x] /\ v[x] = w[x]
  /\ \A x \in {d, e, h} \ {NULL} : B[x] + w[x] = bh[x] + v[x]
  /\ B[c] = bh[p] /\ B[e] = B[d] /\ B[p] = B[e] + v[p] /\ B[p] = B[h] /\ B[c] = B[p] + v[c]

\* After a rotation B is a black height for the weights v, when the two nodes
\* that were turned share the weights out as RotateCounts says.
LEMMA RotateWeighted ==
  ASSUME NEW t, NEW s, NEW H, NEW D, NEW p \in H, NEW f \in Sides, NEW g, g = Other(f),
         IsTree(t, H, D), Rotated(t, s, p, f, g), Get(t, p, g) # NULL,
         NEW c, NEW d, NEW e, NEW h,
         c = Get(t, p, g), d = Get(t, c, f), e = Get(t, p, f), h = Get(t, c, g),
         NEW bh, NEW w, Weighted(t, H, bh, w), NEW B, NEW v,
         RotateCounts(H, p, c, d, e, h, bh, w, B, v)
  PROVE  Weighted(s, H, B, v)
<1>a. /\ B \in [H \cup {NULL} -> Nat] /\ B[NULL] = 0 /\ v \in [H -> Nat]
      /\ \A x \in H : x \notin {p, c, d, e, h} => B[x] = bh[x] /\ v[x] = w[x]
      /\ \A x \in {d, e, h} \ {NULL} : B[x] + w[x] = bh[x] + v[x]
      /\ B[c] = bh[p] /\ B[e] = B[d] /\ B[p] = B[e] + v[p] /\ B[p] = B[h] /\ B[c] = B[p] + v[c]
  BY DEF RotateCounts
<1> USE <1>a
<1> DEFINE u == Get(t, p, "parent")
           E == RotatedBelow(t, H, D, p, f, g)
<1>1. f # g /\ Sides = {f, g}
  BY DEF Sides, Other
<1>2. IsTreeBy(t, H, D, f, g)
  BY EitherSide
<1>3. u = Get(t, p, "parent") /\ E = RotatedBelow(t, H, D, p, f, g)
  OBVIOUS
<1> HIDE DEF u, E
<1>4. RotateBefore(t, H, D, p, c, d, e, h) /\ RotateAfter(t, s, H, D, p, f, g, c, d, e, h, u, E)
  BY <1>1, <1>2, <1>3, RotateFacts
<1>5. /\ c \in H /\ c # p
      /\ d \in H \cup {NULL} /\ e \in H \cup {NULL} /\ h \in H \cup {NULL}
      /\ d # c /\ d # p /\ e # c /\ e # p /\ h # c /\ h # p
      /\ d # NULL => Get(t, d, "parent") = c
      /\ e # NULL => Get(t, e, "parent") = p
      /\ h # NULL => Get(t, h, "parent") = c
      /\ Get(t, c, "parent") = p
      /\ \A x \in H : x \in D[x]
  BY <1>4 DEF RotateBefore
<1>6. /\ Get(s, p, f) = e /\ Get(s, p, g) = d /\ Get(s, c, f) = p /\ Get(s, c, g) = h
      /\ \A a \in H, y \in {f, g} : a # p /\ a # c =>
           Get(s, a, y) = (IF Get(t, a, y) = p THEN c ELSE Get(t, a, y))
  BY <1>4 DEF RotateAfter
<1>7. NULL \notin H /\ \A a \in H, y \in {f, g} : Get(t, a, y) # NULL =>
         Get(t, a, y) \in H /\ Get(t, Get(t, a, y), "parent") = a
  BY <1>2 DEF IsTreeBy
<1>8. \A a \in H, y \in Sides : bh[a] = bh[Get(t, a, y)] + w[a]
  BY DEF Weighted
<1>9. bh \in [H \cup {NULL} -> Nat] /\ bh[NULL] = 0 /\ w \in [H -> Nat]
  BY DEF Weighted
<1>10. ASSUME NEW a \in H, NEW y \in {f, g} PROVE B[a] = B[Get(s, a, y)] + v[a]
  <2>1. CASE a = p
    BY <2>1, <1>6
  <2>2. CASE a = c
    BY <2>2, <1>6
  <2>3. CASE a \notin {p, c}
    <3>1. Get(t, a, y) \notin {c, d, e, h} \ {NULL}
      BY <2>3, <1>5, <1>7
    <3>2. B[Get(s, a, y)] = bh[Get(t, a, y)]
      <4>1. Get(s, a, y) = (IF Get(t, a, y) = p THEN c ELSE Get(t, a, y))
        BY <2>3, <1>6
      <4>2. CASE Get(t, a, y) = p
        BY <4>1, <4>2
      <4>3. CASE Get(t, a, y) = NULL
        BY <4>1, <4>3, <1>7, <1>9
      <4>4. CASE Get(t, a, y) # p /\ Get(t, a, y) # NULL
        BY <4>1, <4>4, <3>1, <1>7
      <4> QED BY <4>2, <4>3, <4>4
    <3>3. bh[a] = bh[Get(t, a, y)] + w[a]
      BY <1>1, <1>8
    <3>4. CASE a \in {d, e, h}
      BY <3>2, <3>3, <3>4, <1>7, <1>9
    <3>5. CASE a \notin {d, e, h}
      BY <2>3, <3>2, <3>3, <3>5, <1>9
    <3> QED BY <3>4, <3>5
  <2> QED BY <2>1, <2>2, <2>3
<1> QED BY <1>1, <1>10 DEF Weighted

\* Who is whose child after a rotation.
LEMMA RotateEdges ==
  ASSUME NEW t, NEW s, NEW H, NEW D, NEW p \in H, NEW f \in Sides, NEW g, g = Other(f),
         IsTree(t, H, D), Rotated(t, s, p, f, g), Get(t, p, g) # NULL,
         NEW c, NEW d, NEW e, NEW h,
         c = Get(t, p, g), d = Get(t, c, f), e = Get(t, p, f), h = Get(t, c, g)
  PROVE  \A a \in H, y \in Sides : Get(s, a, y) # NULL =>
           \/ a = p /\ Get(s, a, y) \in {d, e}
           \/ a = c /\ Get(s, a, y) \in {p, h}
           \/ a = Get(t, p, "parent") /\ a \notin {p, c} /\ Get(s, a, y) = c
           \/ a \notin {p, c} /\ Get(s, a, y) \notin {p, c, d, e, h} /\ Get(s, a, y) = Get(t, a, y)
<1> DEFINE u == Get(t, p, "parent")
           E == RotatedBelow(t, H, D, p, f, g)
<1>1. f # g /\ Sides = {f, g}
  BY DEF Sides, Other
<1>2. IsTreeBy(t, H, D, f, g)
  BY EitherSide
<1>3. u = Get(t, p, "parent") /\ E = RotatedBelow(t, H, D, p, f, g)
  OBVIOUS
<1> HIDE DEF u, E
<1>4. RotateBefore(t, H, D, p, c, d, e, h) /\ RotateAfter(t, s, H, D, p, f, g, c, d, e, h, u, E)
  BY <1>1, <1>2, <1>3, RotateFacts
<1>5. /\ c \in H /\ c # p
      /\ d # c /\ d # p /\ e # c /\ e # p /\ h # c /\ h # p
      /\ d # NULL => Get(t, d, "parent") = c
      /\ e # NULL => Get(t, e, "parent") = p
      /\ h # NULL => Get(t, h, "parent") = c
      /\ Get(t, c, "parent") = p
  BY <1>4 DEF RotateBefore
<1>6. /\ Get(s, p, f) = e /\ Get(s, p, g) = d /\ Get(s, c, f) = p /\ Get(s, c, g) = h
      /\ \A a \in H, y \in {f, g} : a # p /\ a # c =>
           Get(s, a, y) = (IF Get(t, a, y) = p THEN c ELSE Get(t, a, y))
  BY <1>4 DEF RotateAfter
<1>7. NULL \notin H /\ \A a \in H, y \in {f, g} : Get(t, a, y) # NULL =>
         Get(t, a, y) \in H /\ Get(t, Get(t, a, y), "parent") = a
  BY <1>2 DEF IsTreeBy
<1>8. SUFFICES ASSUME NEW a \in H, NEW y \in {f, g}, Get(s, a, y) # NULL, a \notin {p, c}
      PROVE  \/ a = u /\ Get(s, a, y) = c
             \/ Get(s, a, y) \notin {p, c, d, e, h} /\ Get(s, a, y) = Get(t, a, y)
  BY <1>1, <1>3, <1>6
<1>9. CASE Get(t, a, y) = p
  BY <1>9, <1>3, <1>6, <1>7, <1>8
<1>10. CASE Get(t, a, y) # p
  <2>1. Get(s, a, y) = Get(t, a, y) /\ Get(t, Get(t, a, y), "parent") = a
    BY <1>10, <1>6, <1>7, <1>8
  <2> QED BY <2>1, <1>10, <1>5, <1>8
<1> QED BY <1>9, <1>10

-----------------------------------------------------------------------------
(* The other changes of the tree.                                           *)

\* s is t with other colours.
SameLinks(t, s) ==
  /\ Dom(s) = Dom(t) /\ Root(s) = Root(t)
  /\ \A x, y : y \in {"parent", "left", "right", "next"} => Get(s, x, y) = Get(t, x, y)

\* A change of colours or of the lists leaves the tree a tree, ...
LEMMA SameTree ==
  ASSUME NEW t, NEW s, NEW H, NEW D, SameLinks(t, s), IsTree(t, H, D)
  PROVE  IsTree(s, H, D)
<1>1. /\ Dom(s) = Dom(t) /\ Root(s) = Root(t)
      /\ \A x : /\ Get(s, x, "parent") = Get(t, x, "parent")
                /\ Get(s, x, "left") = Get(t, x, "left")
                /\ Get(s, x, "right") = Get(t, x, "right")
  BY DEF SameLinks
<1> QED BY <1>1 DEF IsTree, IsTreeBy

\* ... as ordered as it was, ...
LEMMA SameOrder ==
  ASSUME NEW t, NEW s, NEW H, NEW D, SameLinks(t, s), NEW k, NEW X, Ordered(t, H, D, k, X)
  PROVE  Ordered(s, H, D, k, X)
BY DEF Ordered, SameLinks, Sides

\* ... and with the black heights it had.
LEMMA SameWeights ==
  ASSUME NEW t, NEW s, NEW H, SameLinks(t, s), NEW bh, NEW w, Weighted(t, H, bh, w)
  PROVE  Weighted(s, H, bh, w)
BY DEF Weighted, SameLinks, Sides

\* s is t without n, whose only child c, if any, moves up.
Spliced(t, s, n, c) ==
  LET u == Get(t, n, "parent")
  IN  /\ Dom(s) = Dom(t) /\ Root(s) = Root(t)
      /\ \A x, y : y \in Sides => Get(s, x, y) = IF x = u /\ Get(t, x, y) = n THEN c ELSE Get(t, x, y)
      /\ \A x : Get(s, x, "parent") = IF x = c /\ c # NULL THEN u ELSE Get(t, x, "parent")
      /\ \A x : Get(s, x, "next") = Get(t, x, "next")

\* Who is below whom when n has been taken out.
Without(H, D, n) == [x \in (H \ {n}) \cup {NULL} |-> D[x] \ {n}]

\* The names the proofs about a splice work with: u is the parent of n, c its
\* only child or NULL, g the side with no child, E the new D.
SpliceShape(t, s, H, D, n, f, g, c, u, E) ==
  /\ u \in H /\ u # n /\ c # u /\ c # n /\ c \in (H \ {n}) \cup {NULL}
  /\ \A a \in H, y \in {f, g} : Get(t, a, y) = n => a = u
  /\ \A a \in H, y \in {f, g} : c # NULL /\ Get(t, a, y) = c => a = n
  /\ \E y \in {f, g} : Get(t, u, y) = n
  /\ \A b \in H : b \in D[n] <=> b = n \/ b \in D[c]
  /\ E \in [(H \ {n}) \cup {NULL} -> SUBSET (H \ {n})] /\ E[NULL] = {}
  /\ \A x \in (H \ {n}) \cup {NULL} : E[x] = D[x] \ {n}
  /\ \A a \in H \ {n}, y \in {f, g} :
     Get(s, a, y) = (IF Get(t, a, y) = n THEN c ELSE Get(t, a, y))
  /\ \A a \in H \ {n}, y \in {f, g} : E[Get(s, a, y)] = D[Get(t, a, y)] \ {n}
  /\ c # NULL => Get(t, c, "parent") = n
  /\ f # g /\ Sides = {f, g}

\* A splice makes what SpliceShape says.
LEMMA SpliceFacts ==
  ASSUME NEW t, NEW s, NEW H, NEW D, NEW n \in H, NEW f \in Sides, NEW c,
         IsTree(t, H, D), n # Root(t), Get(t, n, f) = c, Get(t, n, Other(f)) = NULL, Spliced(t, s, n, c)
  PROVE  \A g, u, E : g = Other(f) /\ u = Get(t, n, "parent") /\ E = Without(H, D, n)
           => SpliceShape(t, s, H, D, n, f, g, c, u, E)
<1> SUFFICES ASSUME NEW g, NEW u, NEW E,
                    g = Other(f), u = Get(t, n, "parent"), E = Without(H, D, n)
             PROVE  SpliceShape(t, s, H, D, n, f, g, c, u, E)
  OBVIOUS
<1>1. f # g /\ Sides = {f, g}
  BY DEF Sides, Other
<1>2. IsTreeBy(t, H, D, f, g)
  BY EitherSide
<1>3. u \in H /\ \E y \in {f, g} : Get(t, u, y) = n
  BY <1>2 DEF IsTreeBy
<1>4. \A a \in H, y \in {f, g} : Get(t, a, y) # NULL =>
         Get(t, a, y) \in H /\ Get(t, Get(t, a, y), "parent") = a
  BY <1>2 DEF IsTreeBy
<1>5. D \in [H \cup {NULL} -> SUBSET H] /\ D[NULL] = {} /\ NULL \notin H /\ \A x \in H : x \in D[x]
  BY <1>2 DEF IsTreeBy
<1>6. c \in H \cup {NULL} /\ (c # NULL => Get(t, c, "parent") = n)
  BY <1>4
<1>7. n \notin D[c] /\ u \notin D[n] /\ \A b \in H : b \in D[n] <=> b = n \/ b \in D[c]
  <2>1. u \notin D[n]
    BY <1>2, <1>3 DEF IsTreeBy
  <2>2. n \notin D[c]
    BY <1>2 DEF IsTreeBy
  <2>3. \A b \in H : b \in D[n] <=> b = n \/ b \in D[c] \/ b \in D[NULL]
    BY <1>2 DEF IsTreeBy
  <2> QED BY <2>1, <2>2, <2>3, <1>5
<1>8. u # n /\ c # n /\ c # u
  BY <1>3, <1>5, <1>6, <1>7
<1>9. \A a \in H, y \in {f, g} : (Get(t, a, y) = n => a = u) /\ (c # NULL /\ Get(t, a, y) = c => a = n)
  BY <1>4, <1>5, <1>6
<1>10. \A x \in (H \ {n}) \cup {NULL} : E[x] = D[x] \ {n}
  BY DEF Without
<1>11. E \in [(H \ {n}) \cup {NULL} -> SUBSET (H \ {n})] /\ E[NULL] = {}
  BY <1>5, <1>10 DEF Without
<1>12. \A a \in H \ {n}, y \in {f, g} :
              Get(s, a, y) = (IF Get(t, a, y) = n THEN c ELSE Get(t, a, y))
  BY <1>1, <1>9 DEF Spliced
<1>13. ASSUME NEW a \in H \ {n}, NEW y \in {f, g}
       PROVE  E[Get(s, a, y)] = D[Get(t, a, y)] \ {n}
  <2>1. CASE Get(t, a, y) = n
    <3>1. E[Get(s, a, y)] = D[c] \ {n}
      BY <2>1, <1>6, <1>8, <1>10, <1>12
    <3>2. D[n] \ {n} = D[c] \ {n}
      BY <1>5, <1>6, <1>7
    <3> QED BY <2>1, <3>1, <3>2
  <2>2. CASE Get(t, a, y) # n
    BY <2>2, <1>4, <1>10, <1>12
  <2> QED BY <2>1, <2>2
<1> QED BY <1>1, <1>3, <1>6, <1>7, <1>8, <1>9, <1>10, <1>11, <1>12, <1>13 DEF SpliceShape

\* Taking a node with at most one child out of a tree leaves a tree, without
\* that node.
LEMMA SpliceTree ==
  ASSUME NEW t, NEW s, NEW H, NEW D, NEW n \in H, NEW f \in Sides, NEW c,
         IsTree(t, H, D), n # Root(t), Get(t, n, f) = c, Get(t, n, Other(f)) = NULL, Spliced(t, s, n, c)
  PROVE  IsTree(s, H \ {n}, Without(H, D, n))
<1> DEFINE g == Other(f)
           u == Get(t, n, "parent")
           E == Without(H, D, n)
           K == H \ {n}
<1>d. g = Other(f) /\ u = Get(t, n, "parent") /\ E = Without(H, D, n) /\ Get(t, n, g) = NULL
  OBVIOUS
<1> HIDE DEF g, u, E
<1>1. /\ u \in H /\ u # n /\ c # u /\ c # n /\ c \in (H \ {n}) \cup {NULL}
      /\ \A a \in H, y \in {f, g} : Get(t, a, y) = n => a = u
      /\ \A a \in H, y \in {f, g} : c # NULL /\ Get(t, a, y) = c => a = n
      /\ \E y \in {f, g} : Get(t, u, y) = n
      /\ \A b \in H : b \in D[n] <=> b = n \/ b \in D[c]
      /\ E \in [(H \ {n}) \cup {NULL} -> SUBSET (H \ {n})] /\ E[NULL] = {}
      /\ \A x \in (H \ {n}) \cup {NULL} : E[x] = D[x] \ {n}
      /\ \A a \in H \ {n}, y \in {f, g} :
           Get(s, a, y) = (IF Get(t, a, y) = n THEN c ELSE Get(t, a, y))
      /\ \A a \in H \ {n}, y \in {f, g} : E[Get(s, a, y)] = D[Get(t, a, y)] \ {n}
      /\ c # NULL => Get(t, c, "parent") = n
      /\ f # g /\ Sides = {f, g}
  <2>1. SpliceShape(t, s, H, D, n, f, g, c, u, E)
    BY <1>d, SpliceFacts
  <2> QED BY <2>1 DEF SpliceShape
<1>2. IsTreeBy(t, H, D, f, g)
  BY <1>d, EitherSide
<1>3. \A x : Get(s, x, "parent") = IF x = c /\ c # NULL THEN u ELSE Get(t, x, "parent")
  BY <1>d DEF Spliced
<1>4. Dom(s) = Dom(t) /\ Root(s) = Root(t)
  BY DEF Spliced
<1>5. NULL \notin H /\ H \subseteq Dom(t) /\ D \in [H \cup {NULL} -> SUBSET H]
  BY <1>2 DEF IsTreeBy
<1>11. Root(s) \in K \cup {NULL} /\ E[Root(s)] = K
  BY <1>1, <1>2, <1>4 DEF IsTreeBy
<1>12. Root(s) # NULL => Get(s, Root(s), "parent") = NULL
  <2>1. Root(t) # c \/ c = NULL
    BY <1>1, <1>2, <1>5 DEF IsTreeBy
  <2> QED BY <2>1, <1>2, <1>3, <1>4 DEF IsTreeBy
<1>13. ASSUME NEW a \in K, a # Root(s)
       PROVE  /\ Get(s, a, "parent") \in K
              /\ a = Get(s, Get(s, a, "parent"), f) \/ a = Get(s, Get(s, a, "parent"), g)
  <2> DEFINE q == Get(t, a, "parent")
  <2>1. q \in H /\ (a = Get(t, q, f) \/ a = Get(t, q, g))
    BY <1>13, <1>2, <1>4 DEF IsTreeBy
  <2> HIDE DEF q
  <2>2. CASE a = c
    BY <2>2, <1>1, <1>3, <1>5
  <2>3. CASE a # c
    <3>1. q # n
      BY <1>d, <2>1, <2>3, <1>5
    <3> QED BY <2>1, <2>3, <3>1, <1>1, <1>3 DEF q
  <2> QED BY <2>2, <2>3
<1>14. ASSUME NEW a \in K, NEW y \in {f, g}, Get(s, a, y) # NULL
       PROVE  Get(s, a, y) \in K /\ Get(s, Get(s, a, y), "parent") = a
  <2>1. Get(t, a, y) # NULL => Get(t, a, y) \in H /\ Get(t, Get(t, a, y), "parent") = a
    BY <1>2 DEF IsTreeBy
  <2>2. CASE Get(t, a, y) = n
    BY <2>2, <1>14, <1>1, <1>3, <1>5
  <2>3. CASE Get(t, a, y) # n
    BY <2>1, <2>3, <1>14, <1>1, <1>3, <1>5
  <2> QED BY <2>2, <2>3
<1>15. ASSUME NEW a \in K
       PROVE  /\ a \in E[a] /\ a \notin E[Get(s, a, f)] /\ a \notin E[Get(s, a, g)]
              /\ \A b \in K : b \in E[a] <=> b = a \/ b \in E[Get(s, a, f)] \/ b \in E[Get(s, a, g)]
              /\ \A b \in K : b \notin E[Get(s, a, f)] \/ b \notin E[Get(s, a, g)]
  <2>1. /\ a \in D[a] /\ a \notin D[Get(t, a, f)] /\ a \notin D[Get(t, a, g)]
        /\ \A b \in H : b \in D[a] <=> b = a \/ b \in D[Get(t, a, f)] \/ b \in D[Get(t, a, g)]
        /\ \A b \in H : b \notin D[Get(t, a, f)] \/ b \notin D[Get(t, a, g)]
    BY <1>2 DEF IsTreeBy
  <2> QED BY <2>1, <1>1
<1>16. ASSUME NEW a \in K, NEW b \in K, NEW z \in K, b \in E[a], z \in E[b]
       PROVE  z \in E[a]
  <2>1. \A x, y, v \in H : y \in D[x] /\ v \in D[y] => v \in D[x]
    BY <1>2 DEF IsTreeBy
  <2> QED BY <2>1, <1>16, <1>1
<1>17. ASSUME NEW a \in K, NEW b \in K, b \in E[a], b # a
       PROVE  Get(s, b, "parent") \in E[a]
  <2>1. \A x, y \in H : y \in D[x] /\ y # x => Get(t, y, "parent") \in D[x]
    BY <1>2 DEF IsTreeBy
  <2>2. b \in D[a] /\ E[a] = D[a] \ {n}
    BY <1>17, <1>1
  <2>3. CASE b = c
    <3>1. n \in D[a]
      BY <2>1, <2>2, <2>3, <1>1, <1>5, <1>17
    <3>2. u \in D[a]
      BY <2>1, <3>1, <1>d
    <3> QED BY <2>2, <2>3, <3>2, <1>1, <1>3, <1>5
  <2>4. CASE b # c
    <3>1. Get(t, b, "parent") # n
      <4>1. b # Root(t)
        BY <2>2, <1>17, <1>2 DEF IsTreeBy
      <4>2. b = Get(t, Get(t, b, "parent"), f) \/ b = Get(t, Get(t, b, "parent"), g)
        BY <4>1, <1>2 DEF IsTreeBy
      <4> QED BY <4>2, <2>4, <1>d, <1>5
    <3> QED BY <2>1, <2>2, <2>4, <3>1, <1>3, <1>17
  <2> QED BY <2>3, <2>4
<1>18. NULL \notin K /\ K \subseteq Dom(s)
  BY <1>4, <1>5
<1>19. E \in [K \cup {NULL} -> SUBSET K] /\ E[NULL] = {}
  BY <1>1
<1> HIDE DEF K
<1>20. IsTreeBy(s, K, E, f, g)
  BY <1>11, <1>12, <1>13, <1>14, <1>15, <1>16, <1>17, <1>18, <1>19, Zenon DEF IsTreeBy
<1> QED BY <1>20, <1>d, EitherSide DEF K

\* It leaves the keys in order, even if the one that went was not.
LEMMA SpliceOrdered ==
  ASSUME NEW t, NEW s, NEW H, NEW D, NEW n \in H, NEW f \in Sides, NEW c, NEW k,
         IsTree(t, H, D), n # Root(t), Get(t, n, f) = c, Get(t, n, Other(f)) = NULL, Spliced(t, s, n, c),
         Ordered(t, H, D, k, {n})
  PROVE  Ordered(s, H \ {n}, Without(H, D, n), k, {})
<1> DEFINE g == Other(f)
           u == Get(t, n, "parent")
           E == Without(H, D, n)
<1>d. g = Other(f) /\ u = Get(t, n, "parent") /\ E = Without(H, D, n) /\ Get(t, n, g) = NULL
  OBVIOUS
<1> HIDE DEF g, u, E
<1>1. /\ \A a \in H \ {n}, y \in {f, g} : E[Get(s, a, y)] = D[Get(t, a, y)] \ {n}
      /\ Sides = {f, g}
  <2>1. SpliceShape(t, s, H, D, n, f, g, c, u, E)
    BY <1>d, SpliceFacts
  <2> QED BY <2>1 DEF SpliceShape
<1> QED BY <1>1 DEF Ordered, E

\* What the nodes count when n is gone and c is where it was.
SpliceCounts(H, n, c, bh, w, B, v) ==
  /\ B \in [(H \ {n}) \cup {NULL} -> Nat] /\ v \in [H \ {n} -> Nat] /\ B[NULL] = 0 /\ B[c] = bh[n]
  /\ \A x \in H \ {n, c} : B[x] = bh[x] /\ v[x] = w[x]
  /\ c # NULL => B[c] + w[c] = bh[c] + v[c]

\* It keeps the black heights, when what is counted on n goes over to its
\* child.
LEMMA SpliceWeighted ==
  ASSUME NEW t, NEW s, NEW H, NEW D, NEW n \in H, NEW f \in Sides, NEW c,
         IsTree(t, H, D), n # Root(t), Get(t, n, f) = c, Get(t, n, Other(f)) = NULL, Spliced(t, s, n, c),
         NEW bh, NEW w, Weighted(t, H, bh, w), NEW B, NEW v,
         SpliceCounts(H, n, c, bh, w, B, v)
  PROVE  Weighted(s, H \ {n}, B, v)
<1>a. /\ B \in [(H \ {n}) \cup {NULL} -> Nat] /\ v \in [H \ {n} -> Nat] /\ B[NULL] = 0 /\ B[c] = bh[n]
      /\ \A x \in H \ {n, c} : B[x] = bh[x] /\ v[x] = w[x]
      /\ c # NULL => B[c] + w[c] = bh[c] + v[c]
  BY DEF SpliceCounts
<1> USE <1>a
<1> DEFINE g == Other(f)
           u == Get(t, n, "parent")
           E == Without(H, D, n)
<1>d. g = Other(f) /\ u = Get(t, n, "parent") /\ E = Without(H, D, n) /\ Get(t, n, g) = NULL
  OBVIOUS
<1> HIDE DEF g, u, E
<1>1. /\ c # n /\ c \in (H \ {n}) \cup {NULL}
      /\ \A a \in H, y \in {f, g} : c # NULL /\ Get(t, a, y) = c => a = n
      /\ \A a \in H \ {n}, y \in {f, g} :
           Get(s, a, y) = (IF Get(t, a, y) = n THEN c ELSE Get(t, a, y))
      /\ Sides = {f, g}
  <2>1. SpliceShape(t, s, H, D, n, f, g, c, u, E)
    BY <1>d, SpliceFacts
  <2> QED BY <2>1 DEF SpliceShape
<1>2. NULL \notin H /\ \A a \in H, y \in Sides : Get(t, a, y) \in H \cup {NULL}
  BY DEF IsTree, IsTreeBy, Sides
<1>3. /\ \A a \in H, y \in Sides : bh[a] = bh[Get(t, a, y)] + w[a]
      /\ bh \in [H \cup {NULL} -> Nat] /\ bh[NULL] = 0 /\ w \in [H -> Nat]
  BY DEF Weighted
<1>4. ASSUME NEW a \in H \ {n}, NEW y \in Sides PROVE B[a] = B[Get(s, a, y)] + v[a]
  <2>1. B[Get(s, a, y)] = bh[Get(t, a, y)]
    <3>1. CASE Get(t, a, y) = n
      BY <3>1, <1>1
    <3>2. CASE Get(t, a, y) # n
      <4>1. Get(s, a, y) = Get(t, a, y) /\ (c # NULL => Get(t, a, y) # c) /\ Get(t, a, y) \in H \cup {NULL}
        BY <3>2, <1>1, <1>2
      <4>2. CASE Get(t, a, y) = NULL
        BY <4>1, <4>2, <1>3
      <4>3. CASE Get(t, a, y) # NULL
        <5>1. Get(t, a, y) \in H \ {n, c}
          BY <3>2, <4>1, <4>3
        <5> QED BY <4>1, <5>1
      <4> QED BY <4>2, <4>3
    <3> QED BY <3>1, <3>2
  <2>2. bh[a] = bh[Get(t, a, y)] + w[a] /\ bh[Get(t, a, y)] \in Nat /\ w[a] \in Nat /\ v[a] \in Nat
    BY <1>2, <1>3
  <2>3. CASE a = c
    BY <2>1, <2>2, <2>3, <1>2, <1>3
  <2>4. CASE a # c
    BY <2>1, <2>2, <2>4
  <2> QED BY <2>3, <2>4
<1> QED BY <1>4 DEF Weighted

\* s is t with the new leaf n as the child of u on the side f.
Attached(t, s, n, u, f) ==
  /\ Dom(s) = Dom(t) \cup {n} /\ Root(s) = Root(t)
  /\ \A x, y : y \in Sides => Get(s, x, y) = IF x = u /\ y = f THEN n ELSE Get(t, x, y)
  /\ \A x : Get(s, x, "parent") = IF x = n THEN u ELSE Get(t, x, "parent")
  /\ \A x : Get(s, x, "color") = IF x = n THEN RED ELSE Get(t, x, "color")
  /\ \A x : Get(s, x, "next") = Get(t, x, "next")

\* Who is below whom when n has been hung below u.
With(H, D, n, u) ==
  [x \in (H \cup {n}) \cup {NULL} |->
     IF x = n THEN {n} ELSE IF u \in D[x] THEN D[x] \cup {n} ELSE D[x]]

\* A new node below a head with no child on that side gives a tree.
LEMMA AttachTree ==
  ASSUME NEW t, NEW s, NEW H, NEW D, NEW u \in H, NEW f \in Sides, NEW n, n \notin Dom(t), n # NULL,
         IsTree(t, H, D), Get(t, u, f) = NULL, Attached(t, s, n, u, f)
  PROVE  IsTree(s, H \cup {n}, With(H, D, n, u))
<1> DEFINE g == Other(f)
           E == With(H, D, n, u)
           K == H \cup {n}
<1>d. g = Other(f)
  OBVIOUS
<1>1. f # g /\ Sides = {f, g}
  BY DEF Sides, Other
<1> HIDE DEF g
<1>2. IsTreeBy(t, H, D, f, g)
  BY <1>d, EitherSide
<1>3. NULL \notin H /\ H \subseteq Dom(t) /\ D \in [H \cup {NULL} -> SUBSET H] /\ D[NULL] = {} /\ n \notin H
  BY <1>2 DEF IsTreeBy
<1>4. \A a \in H, y \in {f, g} : Get(t, a, y) # NULL =>
         Get(t, a, y) \in H /\ Get(t, Get(t, a, y), "parent") = a
  BY <1>2 DEF IsTreeBy
<1>5. /\ E[n] = {n} /\ \A x \in H \cup {NULL} : E[x] = IF u \in D[x] THEN D[x] \cup {n} ELSE D[x]
      /\ E = [x \in K \cup {NULL} |-> E[x]]
  BY <1>3 DEF With
<1> HIDE DEF E
<1>0. \A x \in H \cup {NULL} : \A b : b \in E[x] <=> b \in D[x] \/ (b = n /\ u \in D[x])
  BY <1>5
<1>6. E \in [K \cup {NULL} -> SUBSET K] /\ E[NULL] = {}
  <2>1. \A x \in K \cup {NULL} : E[x] \subseteq K
    BY <1>3, <1>5
  <2> QED BY <2>1, <1>3, <1>5
<1>7. \A y \in {f, g} : Get(s, n, y) = NULL
  BY <1>1, <1>3, GetOutside DEF Attached
<1>8. \A a \in H, y \in {f, g} : Get(s, a, y) = IF a = u /\ y = f THEN n ELSE Get(t, a, y)
  BY <1>1 DEF Attached
<1>9. \A x : Get(s, x, "parent") = IF x = n THEN u ELSE Get(t, x, "parent")
  BY DEF Attached
<1>10. Dom(s) = Dom(t) \cup {n} /\ Root(s) = Root(t)
  BY DEF Attached
<1>11. Root(s) \in K \cup {NULL} /\ E[Root(s)] = K
  BY <1>2, <1>3, <1>5, <1>10 DEF IsTreeBy
<1>12. Root(s) # NULL => Get(s, Root(s), "parent") = NULL
  BY <1>2, <1>3, <1>9, <1>10 DEF IsTreeBy
<1>13. ASSUME NEW a \in K, a # Root(s)
       PROVE  /\ Get(s, a, "parent") \in K
              /\ a = Get(s, Get(s, a, "parent"), f) \/ a = Get(s, Get(s, a, "parent"), g)
  <2>1. CASE a = n
    BY <2>1, <1>8, <1>9
  <2>2. CASE a # n
    <3> DEFINE q == Get(t, a, "parent")
    <3>1. q \in H /\ (a = Get(t, q, f) \/ a = Get(t, q, g))
      BY <2>2, <1>13, <1>2, <1>10 DEF IsTreeBy
    <3> HIDE DEF q
    <3>2. a = Get(s, q, f) \/ a = Get(s, q, g)
      BY <3>1, <1>3, <1>8, <1>13, <2>2
    <3> QED BY <3>1, <3>2, <2>2, <1>9 DEF q
  <2> QED BY <2>1, <2>2
<1>14. ASSUME NEW a \in K, NEW y \in {f, g}, Get(s, a, y) # NULL
       PROVE  Get(s, a, y) \in K /\ Get(s, Get(s, a, y), "parent") = a
  BY <1>14, <1>3, <1>4, <1>7, <1>8, <1>9
<1>15. ASSUME NEW a \in K
       PROVE  /\ a \in E[a] /\ a \notin E[Get(s, a, f)] /\ a \notin E[Get(s, a, g)]
              /\ \A b \in K : b \in E[a] <=> b = a \/ b \in E[Get(s, a, f)] \/ b \in E[Get(s, a, g)]
              /\ \A b \in K : b \notin E[Get(s, a, f)] \/ b \notin E[Get(s, a, g)]
  <2>1. CASE a = n
    BY <2>1, <1>5, <1>6, <1>7
  <2>2. CASE a # n
    <3>1. /\ a \in D[a] /\ a \notin D[Get(t, a, f)] /\ a \notin D[Get(t, a, g)]
          /\ \A b \in H : b \in D[a] <=> b = a \/ b \in D[Get(t, a, f)] \/ b \in D[Get(t, a, g)]
          /\ \A b \in H : b \notin D[Get(t, a, f)] \/ b \notin D[Get(t, a, g)]
      BY <2>2, <1>2 DEF IsTreeBy
    <3>2. Get(t, a, f) \in H \cup {NULL} /\ Get(t, a, g) \in H \cup {NULL}
      BY <2>2, <1>4
    <3>3. /\ u \in D[a] <=> u = a \/ u \in D[Get(t, a, f)] \/ u \in D[Get(t, a, g)]
          /\ u \notin D[Get(t, a, f)] \/ u \notin D[Get(t, a, g)]
          /\ n \notin D[a] /\ n \notin D[Get(t, a, f)] /\ n \notin D[Get(t, a, g)]
      BY <3>1, <3>2, <2>2, <1>3
    <3>4. CASE a = u
      <4>1. E[Get(s, a, f)] = {n} /\ \A b : b \in E[Get(s, a, g)] <=> b \in D[Get(t, a, g)]
        BY <3>1, <3>2, <3>4, <1>0, <1>1, <1>5, <1>8
      <4>2. \A b : b \in E[a] <=> b \in D[a] \/ b = n
        BY <3>1, <3>4, <1>0
      <4> QED BY <4>1, <4>2, <3>1, <3>3, <3>4, <1>3
    <3>5. CASE a # u
      <4>1. /\ \A b : b \in E[Get(s, a, f)] <=> b \in D[Get(t, a, f)] \/ (b = n /\ u \in D[Get(t, a, f)])
            /\ \A b : b \in E[Get(s, a, g)] <=> b \in D[Get(t, a, g)] \/ (b = n /\ u \in D[Get(t, a, g)])
        BY <3>2, <3>5, <2>2, <1>0, <1>8
      <4>2. \A b : b \in E[a] <=> b \in D[a] \/ (b = n /\ u \in D[a])
        BY <2>2, <1>0
      <4> QED BY <4>1, <4>2, <3>1, <3>3, <3>5, <2>2
    <3> QED BY <3>4, <3>5
  <2> QED BY <2>1, <2>2
<1>16. ASSUME NEW a \in K, NEW b \in K, NEW z \in K, b \in E[a], z \in E[b]
       PROVE  z \in E[a]
  <2>1. \A x, y, v \in H : y \in D[x] /\ v \in D[y] => v \in D[x]
    BY <1>2 DEF IsTreeBy
  <2>2. CASE a = n
    BY <2>2, <1>5, <1>16
  <2>3. CASE a # n /\ b = n
    BY <2>3, <1>5, <1>16
  <2>4. CASE a # n /\ b # n
    <3>1. a \in H /\ b \in H /\ b \in D[a]
      BY <2>4, <1>0, <1>16
    <3>2. z \in D[b] \/ (z = n /\ u \in D[b])
      BY <3>1, <1>0, <1>16
    <3> QED BY <3>1, <3>2, <2>1, <1>0, <1>3
  <2> QED BY <2>2, <2>3, <2>4
<1>17. ASSUME NEW a \in K, NEW b \in K, b \in E[a], b # a
       PROVE  Get(s, b, "parent") \in E[a]
  <2>1. \A x, y \in H : y \in D[x] /\ y # x => Get(t, y, "parent") \in D[x]
    BY <1>2 DEF IsTreeBy
  <2>2. a \in H
    BY <1>5, <1>17
  <2>3. CASE b = n
    BY <2>2, <2>3, <1>0, <1>3, <1>9, <1>17
  <2>4. CASE b # n
    BY <2>1, <2>2, <2>4, <1>0, <1>9, <1>17
  <2> QED BY <2>3, <2>4
<1>18. NULL \notin K /\ K \subseteq Dom(s)
  BY <1>3, <1>10
<1> HIDE DEF K
<1>20. IsTreeBy(s, K, E, f, g)
  BY <1>6, <1>11, <1>12, <1>13, <1>14, <1>15, <1>16, <1>17, <1>18, Zenon DEF IsTreeBy
<1> QED BY <1>20, <1>d, EitherSide DEF K, E

\* It keeps the order, when its key is on the right side of every head above
\* it.
LEMMA AttachOrdered ==
  ASSUME NEW t, NEW s, NEW H, NEW D, NEW u \in H, NEW f \in Sides, NEW n, n \notin Dom(t), n # NULL,
         IsTree(t, H, D), Get(t, u, f) = NULL, Attached(t, s, n, u, f), NEW k, k[n] \in Int,
         Ordered(t, H, D, k, {}), Beside(k, f, u, n),
         \A a \in H, y \in Sides : u \in D[Get(t, a, y)] => Beside(k, y, a, n)
  PROVE  Ordered(s, H \cup {n}, With(H, D, n, u), k, {})
<1> DEFINE E == With(H, D, n, u)
<1>1. /\ n \notin H /\ NULL \notin H /\ D[NULL] = {}
      /\ \A a \in H, y \in Sides : Get(t, a, y) \in H \cup {NULL}
  BY DEF IsTree, IsTreeBy, Sides
<1>2. E[n] = {n} /\ \A x \in H \cup {NULL} : E[x] = IF u \in D[x] THEN D[x] \cup {n} ELSE D[x]
  BY <1>1 DEF With
<1>3. \A y \in Sides : Get(s, n, y) = NULL
  BY <1>1, GetOutside DEF Attached
<1>4. \A a \in H, y \in Sides : Get(s, a, y) = IF a = u /\ y = f THEN n ELSE Get(t, a, y)
  BY DEF Attached
<1> HIDE DEF E
<1>5. \A a \in H, y \in Sides : \A b \in D[Get(t, a, y)] : Beside(k, y, a, b)
  BY DEF Ordered
<1>6. ASSUME NEW a \in H \cup {n}, NEW y \in Sides, NEW b \in E[Get(s, a, y)]
      PROVE  Beside(k, y, a, b)
  <2>1. CASE a = n
    BY <2>1, <1>1, <1>2, <1>3
  <2>2. CASE a = u /\ y = f
    BY <2>2, <1>2, <1>4
  <2>3. CASE a \in H /\ ~(a = u /\ y = f)
    <3>1. Get(s, a, y) = Get(t, a, y) /\ Get(t, a, y) \in H \cup {NULL}
      BY <2>3, <1>1, <1>4
    <3>2. b \in D[Get(t, a, y)] \/ (b = n /\ u \in D[Get(t, a, y)])
      BY <3>1, <1>2
    <3> QED BY <3>2, <2>3, <1>5
  <2> QED BY <2>1, <2>2, <2>3
<1>7. \A a \in H \cup {n} : k[a] \in Int
  BY DEF Ordered
<1> QED BY <1>6, <1>7 DEF Ordered, E

\* What the nodes count with the new red leaf n.
AttachCounts(H, n, bh, w, B, v) ==
  /\ B \in [(H \cup {n}) \cup {NULL} -> Nat] /\ v \in [H \cup {n} -> Nat] /\ B[NULL] = 0 /\ B[n] = 0 /\ v[n] = 0
  /\ \A x \in H : B[x] = bh[x] /\ v[x] = w[x]

\* It keeps the black heights, when nothing is counted on the new node.
LEMMA AttachWeighted ==
  ASSUME NEW t, NEW s, NEW H, NEW D, NEW u \in H, NEW f \in Sides, NEW n, n \notin Dom(t), n # NULL,
         IsTree(t, H, D), Get(t, u, f) = NULL, Attached(t, s, n, u, f),
         NEW bh, NEW w, Weighted(t, H, bh, w), NEW B, NEW v,
         AttachCounts(H, n, bh, w, B, v)
  PROVE  Weighted(s, H \cup {n}, B, v)
<1>a. /\ B \in [(H \cup {n}) \cup {NULL} -> Nat] /\ v \in [H \cup {n} -> Nat] /\ B[NULL] = 0 /\ B[n] = 0 /\ v[n] = 0
      /\ \A x \in H : B[x] = bh[x] /\ v[x] = w[x]
  BY DEF AttachCounts
<1> USE <1>a
<1>1. /\ n \notin H /\ NULL \notin H
      /\ \A a \in H, y \in Sides : Get(t, a, y) \in H \cup {NULL}
  BY DEF IsTree, IsTreeBy, Sides
<1>3. \A y \in Sides : Get(s, n, y) = NULL
  BY <1>1, GetOutside DEF Attached
<1>4. \A a \in H, y \in Sides : Get(s, a, y) = IF a = u /\ y = f THEN n ELSE Get(t, a, y)
  BY DEF Attached
<1>5. /\ \A a \in H, y \in Sides : bh[a] = bh[Get(t, a, y)] + w[a]
      /\ bh \in [H \cup {NULL} -> Nat] /\ bh[NULL] = 0
  BY DEF Weighted
<1>6. ASSUME NEW a \in H \cup {n}, NEW y \in Sides PROVE B[a] = B[Get(s, a, y)] + v[a]
  BY <1>1, <1>3, <1>4, <1>5
<1> QED BY <1>6 DEF Weighted

\* s is t with b in a's place.
Replaced(t, s, a, b) ==
  LET u == Get(t, a, "parent")
  IN  /\ Dom(s) = Dom(t) /\ Root(s) = Root(t)
      /\ \A x, y : y \in Sides =>
           Get(s, x, y) = IF x = b THEN Get(t, a, y)
                          ELSE IF x = u /\ Get(t, x, y) = a THEN b ELSE Get(t, x, y)
      /\ \A x : Get(s, x, "parent") = IF x = b THEN u
                                      ELSE IF x # NULL /\ \E y \in Sides : x = Get(t, a, y) THEN b
                                      ELSE Get(t, x, "parent")
      /\ \A x : Get(s, x, "color") = IF x = b THEN Get(t, a, "color") ELSE Get(t, x, "color")

\* The heads when b has taken the place of a, ...
InPlace(H, a, b) == (H \ {a}) \cup {b}
\* ... and who is below whom.
Instead(H, D, a, b) ==
  [x \in InPlace(H, a, b) \cup {NULL} |->
     LET S == IF x = b THEN D[a] ELSE D[x]
     IN  IF a \in S THEN (S \ {a}) \cup {b} ELSE S]

\* o maps the nodes of the new tree to those of the old one.
ReplaceShape(t, s, H, D, a, b, K, E, o) ==
  /\ o \in [K \cup {NULL} -> H \cup {NULL}] /\ o[NULL] = NULL /\ o[b] = a
  /\ \A x \in H \ {a} : x \in K /\ o[x] = x
  /\ \A x \in K : o[x] \in H
  /\ \A x, y \in K \cup {NULL} : o[x] = o[y] => x = y
  /\ \A x \in K, y \in Sides : Get(s, x, y) \in K \cup {NULL} /\ o[Get(s, x, y)] = Get(t, o[x], y)
  /\ \A x \in K : o[x] # Root(t) => Get(s, x, "parent") \in K /\ o[Get(s, x, "parent")] = Get(t, o[x], "parent")
  /\ Root(t) # NULL => Root(t) \in K /\ o[Root(t)] = Root(t) /\ Get(s, Root(t), "parent") = Get(t, Root(t), "parent")
  /\ E \in [K \cup {NULL} -> SUBSET K]
  /\ \A x \in K, y \in K \cup {NULL} : x \in E[y] <=> o[x] \in D[o[y]]

\* A replacement makes what ReplaceShape says; o names the old node of each new
\* one.
LEMMA ReplaceFacts ==
  ASSUME NEW t, NEW s, NEW H, NEW D, NEW a \in H, a # Root(t), NEW b \in Dom(t), b \notin H, b # NULL,
         IsTree(t, H, D), Replaced(t, s, a, b)
  PROVE  \A K, E, o : K = InPlace(H, a, b) /\ E = Instead(H, D, a, b)
                      /\ o = [x \in K \cup {NULL} |-> IF x = b THEN a ELSE x]
           => ReplaceShape(t, s, H, D, a, b, K, E, o)
<1> SUFFICES ASSUME NEW K, NEW E, NEW o, K = InPlace(H, a, b), E = Instead(H, D, a, b),
                    o = [x \in K \cup {NULL} |-> IF x = b THEN a ELSE x]
             PROVE  ReplaceShape(t, s, H, D, a, b, K, E, o)
  OBVIOUS
<1> DEFINE u == Get(t, a, "parent")
<1>1. K = (H \ {a}) \cup {b}
  BY DEF InPlace
<1>2. /\ NULL \notin H /\ D \in [H \cup {NULL} -> SUBSET H] /\ D[NULL] = {}
      /\ \A x \in H : x \in D[x]
      /\ \A x \in H, y \in Sides : Get(t, x, y) # NULL =>
           Get(t, x, y) \in H /\ Get(t, Get(t, x, y), "parent") = x
      /\ \A x \in H : x # Root(t) => Get(t, x, "parent") \in H
           /\ \E y \in Sides : x = Get(t, Get(t, x, "parent"), y)
      /\ Root(t) \in H \cup {NULL}
      /\ Root(t) # NULL => Get(t, Root(t), "parent") = NULL
      /\ \A x \in H, y \in Sides : x \notin D[Get(t, x, y)]
  BY DEF IsTree, IsTreeBy, Sides
<1>3. /\ o \in [K \cup {NULL} -> H \cup {NULL}] /\ o[NULL] = NULL /\ o[b] = a
      /\ \A x \in H \ {a} : x \in K /\ o[x] = x
      /\ \A x \in K : o[x] \in H
      /\ \A x, y \in K \cup {NULL} : o[x] = o[y] => x = y
  BY <1>1, <1>2
<1>4. u \in H /\ u # a
  BY <1>2
<1>5. \A x \in K, y \in Sides : Get(s, x, y) \in K \cup {NULL} /\ o[Get(s, x, y)] = Get(t, o[x], y)
  <2> TAKE x \in K, y \in Sides
  <2>1. CASE x = b
    <3>1. Get(s, x, y) = Get(t, a, y) /\ Get(t, a, y) # a
      BY <2>1, <1>2 DEF Replaced
    <3> QED BY <3>1, <2>1, <1>1, <1>2, <1>3
  <2>2. CASE x # b /\ Get(t, x, y) = a
    <3>1. x = u
      BY <2>2, <1>1, <1>2
    <3>2. Get(s, x, y) = b
      BY <3>1, <2>2 DEF Replaced
    <3> QED BY <3>2, <2>2, <1>1, <1>3
  <2>3. CASE x # b /\ Get(t, x, y) # a
    <3>1. Get(s, x, y) = Get(t, x, y)
      BY <2>3 DEF Replaced
    <3> QED BY <3>1, <2>3, <1>1, <1>2, <1>3
  <2> QED BY <2>1, <2>2, <2>3
<1>6. \A x : Get(s, x, "parent") = IF x = b THEN u
                                   ELSE IF x # NULL /\ \E y \in Sides : x = Get(t, a, y) THEN b
                                   ELSE Get(t, x, "parent")
  BY DEF Replaced
<1>7. \A x \in K : o[x] # Root(t) => Get(s, x, "parent") \in K /\ o[Get(s, x, "parent")] = Get(t, o[x], "parent")
  <2> TAKE x \in K
  <2> HAVE o[x] # Root(t)
  <2>1. CASE x = b
    BY <2>1, <1>1, <1>3, <1>4, <1>6
  <2>2. CASE x # b /\ \E y \in Sides : x = Get(t, a, y)
    <3>1. Get(s, x, "parent") = b /\ Get(t, x, "parent") = a
      BY <2>2, <1>1, <1>2, <1>6
    <3> QED BY <3>1, <2>2, <1>1, <1>3
  <2>3. CASE x # b /\ ~\E y \in Sides : x = Get(t, a, y)
    <3>1. Get(s, x, "parent") = Get(t, x, "parent")
      BY <2>3, <1>6
    <3>2. x \in H /\ x # Root(t) /\ o[x] = x
      BY <2>3, <1>1, <1>3
    <3>3. Get(t, x, "parent") \in H /\ Get(t, x, "parent") # a
      BY <3>2, <2>3, <1>2
    <3> QED BY <3>1, <3>2, <3>3, <1>3
  <2> QED BY <2>1, <2>2, <2>3
<1>8. Root(t) # NULL => Root(t) \in K /\ o[Root(t)] = Root(t) /\ Get(s, Root(t), "parent") = Get(t, Root(t), "parent")
  <2> HAVE Root(t) # NULL
  <2>1. Root(t) \in H /\ ~\E y \in Sides : Root(t) = Get(t, a, y)
    BY <1>2
  <2> QED BY <2>1, <1>3, <1>6
<1>9. \A x \in K \cup {NULL} : E[x] = LET S == D[o[x]] IN IF a \in S THEN (S \ {a}) \cup {b} ELSE S
  BY <1>1, <1>2 DEF Instead
<1>10. \A x \in K \cup {NULL} : D[o[x]] \subseteq H
  BY <1>2, <1>3
<1>14. ASSUME NEW x \in K \cup {NULL}, NEW z
       PROVE  z \in E[x] <=> (z \in D[o[x]] /\ z # a) \/ (z = b /\ a \in D[o[x]])
  <2> DEFINE S == D[o[x]]
  <2>1. E[x] = IF a \in S THEN (S \ {a}) \cup {b} ELSE S
    BY <1>9
  <2> QED BY <2>1
<1>11. \A x \in K \cup {NULL} : E[x] \subseteq K
  BY <1>1, <1>10, <1>14
<1>12. E \in [K \cup {NULL} -> SUBSET K]
  BY <1>11 DEF Instead
<1>13. \A x \in K, y \in K \cup {NULL} : x \in E[y] <=> o[x] \in D[o[y]]
  <2> TAKE x \in K, y \in K \cup {NULL}
  <2>1. b \notin D[o[y]]
    BY <1>10
  <2>2. CASE x = b
    BY <2>1, <2>2, <1>3, <1>14
  <2>3. CASE x # b
    BY <2>3, <1>1, <1>3, <1>14
  <2> QED BY <2>2, <2>3
<1> QED BY <1>3, <1>5, <1>7, <1>8, <1>12, <1>13 DEF ReplaceShape

\* A node that takes over all the links of a head leaves a tree.
LEMMA ReplaceTree ==
  ASSUME NEW t, NEW s, NEW H, NEW D, NEW a \in H, a # Root(t), NEW b \in Dom(t), b \notin H, b # NULL,
         IsTree(t, H, D), Replaced(t, s, a, b)
  PROVE  IsTree(s, InPlace(H, a, b), Instead(H, D, a, b))
<1> DEFINE K == InPlace(H, a, b)
           E == Instead(H, D, a, b)
           o == [x \in K \cup {NULL} |-> IF x = b THEN a ELSE x]
<1>d. K = InPlace(H, a, b) /\ E = Instead(H, D, a, b) /\ o = [x \in K \cup {NULL} |-> IF x = b THEN a ELSE x]
  OBVIOUS
<1> HIDE DEF K, E, o
<1>1. ReplaceShape(t, s, H, D, a, b, K, E, o)
  BY <1>d, ReplaceFacts
<1>2. /\ o \in [K \cup {NULL} -> H \cup {NULL}] /\ o[NULL] = NULL /\ o[b] = a
      /\ \A x \in K : o[x] \in H
      /\ \A x, y \in K \cup {NULL} : o[x] = o[y] => x = y
  BY <1>1 DEF ReplaceShape
<1>3. \A x \in K, y \in Sides : Get(s, x, y) \in K \cup {NULL} /\ o[Get(s, x, y)] = Get(t, o[x], y)
  BY <1>1 DEF ReplaceShape
<1>4. \A x \in K : o[x] # Root(t) => Get(s, x, "parent") \in K /\ o[Get(s, x, "parent")] = Get(t, o[x], "parent")
  BY <1>1 DEF ReplaceShape
<1>5. Root(t) # NULL => Root(t) \in K /\ o[Root(t)] = Root(t) /\ Get(s, Root(t), "parent") = Get(t, Root(t), "parent")
  BY <1>1 DEF ReplaceShape
<1>6. /\ E \in [K \cup {NULL} -> SUBSET K]
      /\ \A x \in K, y \in K \cup {NULL} : x \in E[y] <=> o[x] \in D[o[y]]
  BY <1>1 DEF ReplaceShape
<1>7. Dom(s) = Dom(t) /\ Root(s) = Root(t)
  BY DEF Replaced
<1>8. /\ NULL \notin H /\ H \subseteq Dom(t) /\ D[NULL] = {} /\ Root(t) \in H \cup {NULL} /\ D[Root(t)] = H
      /\ Root(t) # NULL => Get(t, Root(t), "parent") = NULL
  BY DEF IsTree, IsTreeBy
<1>9. NULL \notin K /\ K \subseteq Dom(s)
  BY <1>7, <1>8, <1>d DEF InPlace
<1>10. E[NULL] = {}
  BY <1>2, <1>6, <1>8
<1>11. Root(s) \in K \cup {NULL} /\ E[Root(s)] = K
  <2>1. Root(t) # NULL
    BY <1>8 DEF IsTree, IsTreeBy
  <2>2. Root(t) \in K /\ o[Root(t)] = Root(t)
    BY <2>1, <1>5
  <2>3. \A x \in K : x \in E[Root(t)]
    BY <2>2, <1>2, <1>6, <1>8
  <2> QED BY <2>2, <2>3, <1>6, <1>7
<1>12. Root(s) # NULL => Get(s, Root(s), "parent") = NULL
  BY <1>5, <1>7, <1>8
<1>13. ASSUME NEW x \in K, x # Root(s)
       PROVE  /\ Get(s, x, "parent") \in K
              /\ x = Get(s, Get(s, x, "parent"), "left") \/ x = Get(s, Get(s, x, "parent"), "right")
  <2>1. o[x] # Root(t)
    BY <1>13, <1>2, <1>5, <1>7, <1>8
  <2>2. Get(s, x, "parent") \in K /\ o[Get(s, x, "parent")] = Get(t, o[x], "parent")
    BY <2>1, <1>4
  <2>3. \E y \in Sides : o[x] = Get(t, Get(t, o[x], "parent"), y)
    BY <2>1, <1>2 DEF IsTree, IsTreeBy, Sides
  <2>4. \E y \in Sides : x = Get(s, Get(s, x, "parent"), y)
    BY <2>2, <2>3, <1>2, <1>3
  <2> QED BY <2>2, <2>4 DEF Sides
<1>14. ASSUME NEW x \in K, NEW y \in Sides, Get(s, x, y) # NULL
       PROVE  Get(s, x, y) \in K /\ Get(s, Get(s, x, y), "parent") = x
  <2> DEFINE z == Get(s, x, y)
  <2>1. z \in K /\ o[z] = Get(t, o[x], y) /\ o[z] \in H /\ o[x] \in H
    BY <1>14, <1>2, <1>3
  <2>2. Get(t, o[z], "parent") = o[x]
    BY <2>1, <1>8 DEF IsTree, IsTreeBy, Sides
  <2>3. o[z] # Root(t)
    BY <2>1, <2>2, <1>8
  <2> QED BY <2>1, <2>2, <2>3, <1>2, <1>4
<1>15. ASSUME NEW x \in K
       PROVE  /\ x \in E[x] /\ x \notin E[Get(s, x, "left")] /\ x \notin E[Get(s, x, "right")]
              /\ \A z \in K : z \in E[x] <=> z = x \/ z \in E[Get(s, x, "left")] \/ z \in E[Get(s, x, "right")]
              /\ \A z \in K : z \notin E[Get(s, x, "left")] \/ z \notin E[Get(s, x, "right")]
  <2> DEFINE w == o[x]
  <2>1. /\ w \in D[w] /\ w \notin D[Get(t, w, "left")] /\ w \notin D[Get(t, w, "right")]
        /\ \A z \in H : z \in D[w] <=> z = w \/ z \in D[Get(t, w, "left")] \/ z \in D[Get(t, w, "right")]
        /\ \A z \in H : z \notin D[Get(t, w, "left")] \/ z \notin D[Get(t, w, "right")]
    BY <1>2 DEF IsTree, IsTreeBy
  <2>2. \A z \in K : /\ z \in E[x] <=> o[z] \in D[w]
                     /\ z \in E[Get(s, x, "left")] <=> o[z] \in D[Get(t, w, "left")]
                     /\ z \in E[Get(s, x, "right")] <=> o[z] \in D[Get(t, w, "right")]
    BY <1>3, <1>6 DEF Sides
  <2> HIDE DEF w
  <2>3. \A z \in K : o[z] \in H /\ (o[z] = w => z = x)
    BY <1>2 DEF w
  <2>4. o[x] = w
    BY DEF w
  <2> QED BY <2>1, <2>2, <2>3, <2>4
<1>16. ASSUME NEW x \in K, NEW y \in K, NEW z \in K, y \in E[x], z \in E[y]
       PROVE  z \in E[x]
  <2>1. \A p, q, v \in H : q \in D[p] /\ v \in D[q] => v \in D[p]
    BY DEF IsTree, IsTreeBy
  <2> QED BY <2>1, <1>16, <1>2, <1>6
<1>17. ASSUME NEW x \in K, NEW z \in K, z \in E[x], z # x
       PROVE  Get(s, z, "parent") \in E[x]
  <2>1. \A p, q \in H : q \in D[p] /\ q # p => Get(t, q, "parent") \in D[p]
    BY DEF IsTree, IsTreeBy
  <2>2. o[x] \in H /\ o[z] \in H /\ o[z] \in D[o[x]] /\ o[z] # o[x]
    BY <1>17, <1>2, <1>6
  <2>3. Get(t, o[z], "parent") \in D[o[x]]
    BY <2>1, <2>2
  <2>4. D[o[x]] \subseteq H
    BY <2>2 DEF IsTree, IsTreeBy
  <2>5. o[z] # Root(t)
    BY <2>3, <2>4, <1>8
  <2> QED BY <2>3, <2>5, <1>4, <1>6
<1>20. IsTreeBy(s, K, E, "left", "right")
  <2>1. \A x \in K, y \in {"left", "right"} : Get(s, x, y) # NULL =>
          Get(s, x, y) \in K /\ Get(s, Get(s, x, y), "parent") = x
    BY <1>14 DEF Sides
  <2> QED BY <2>1, <1>6, <1>9, <1>10, <1>11, <1>12, <1>13, <1>15, <1>16, <1>17, Zenon DEF IsTreeBy
<1> QED BY <1>20, <1>d DEF IsTree

\* It leaves the keys in order, when it has the key of the one it replaces.
LEMMA ReplaceOrdered ==
  ASSUME NEW t, NEW s, NEW H, NEW D, NEW a \in H, a # Root(t), NEW b \in Dom(t), b \notin H, b # NULL,
         IsTree(t, H, D), Replaced(t, s, a, b), NEW k, k[b] = k[a], Ordered(t, H, D, k, {})
  PROVE  Ordered(s, InPlace(H, a, b), Instead(H, D, a, b), k, {})
<1> DEFINE K == InPlace(H, a, b)
           E == Instead(H, D, a, b)
           o == [x \in K \cup {NULL} |-> IF x = b THEN a ELSE x]
<1>d. K = InPlace(H, a, b) /\ E = Instead(H, D, a, b) /\ o = [x \in K \cup {NULL} |-> IF x = b THEN a ELSE x]
  OBVIOUS
<1> HIDE DEF K, E, o
<1>1. ReplaceShape(t, s, H, D, a, b, K, E, o)
  BY <1>d, ReplaceFacts
<1>2. /\ \A x \in K : o[x] \in H
      /\ \A x \in K, y \in Sides : Get(s, x, y) \in K \cup {NULL} /\ o[Get(s, x, y)] = Get(t, o[x], y)
      /\ E \in [K \cup {NULL} -> SUBSET K]
      /\ \A x \in K, y \in K \cup {NULL} : x \in E[y] <=> o[x] \in D[o[y]]
  BY <1>1 DEF ReplaceShape
<1>3. \A x \in K : k[x] = k[o[x]]
  BY <1>d
<1>4. /\ \A x \in H : k[x] \in Int
      /\ \A x \in H, y \in Sides : \A z \in D[Get(t, x, y)] : Beside(k, y, x, z)
  BY DEF Ordered
<1>5. ASSUME NEW x \in K, NEW y \in Sides, NEW z \in E[Get(s, x, y)]
      PROVE  Beside(k, y, x, z)
  <2>1. z \in K /\ Beside(k, y, o[x], o[z])
    BY <1>2, <1>4
  <2> QED BY <2>1, <1>3 DEF Beside
<1>6. \A x \in K : k[x] \in Int
  BY <1>2, <1>3, <1>4
<1> QED BY <1>5, <1>6, <1>d DEF Ordered

\* What the nodes count when b has taken a's place.
ReplaceCounts(H, a, b, bh, w, B, v) ==
  /\ B \in [InPlace(H, a, b) \cup {NULL} -> Nat] /\ v \in [InPlace(H, a, b) -> Nat] /\ B[NULL] = 0
  /\ B[b] = bh[a] /\ v[b] = w[a] /\ \A x \in H \ {a} : B[x] = bh[x] /\ v[x] = w[x]

\* It leaves the black heights, when it has its weight.
LEMMA ReplaceWeighted ==
  ASSUME NEW t, NEW s, NEW H, NEW D, NEW a \in H, a # Root(t), NEW b \in Dom(t), b \notin H, b # NULL,
         IsTree(t, H, D), Replaced(t, s, a, b),
         NEW bh, NEW w, Weighted(t, H, bh, w), NEW B, NEW v, ReplaceCounts(H, a, b, bh, w, B, v)
  PROVE  Weighted(s, InPlace(H, a, b), B, v)
<1> DEFINE K == InPlace(H, a, b)
           E == Instead(H, D, a, b)
           o == [x \in K \cup {NULL} |-> IF x = b THEN a ELSE x]
<1>d. K = InPlace(H, a, b) /\ E = Instead(H, D, a, b) /\ o = [x \in K \cup {NULL} |-> IF x = b THEN a ELSE x]
  OBVIOUS
<1> HIDE DEF K, E, o
<1>1. ReplaceShape(t, s, H, D, a, b, K, E, o)
  BY <1>d, ReplaceFacts
<1>2. /\ \A x \in K : o[x] \in H
      /\ o[NULL] = NULL
      /\ \A x \in K, y \in Sides : Get(s, x, y) \in K \cup {NULL} /\ o[Get(s, x, y)] = Get(t, o[x], y)
  BY <1>1 DEF ReplaceShape
<1>c. /\ B \in [K \cup {NULL} -> Nat] /\ v \in [K -> Nat] /\ B[NULL] = 0
      /\ B[b] = bh[a] /\ v[b] = w[a] /\ \A x \in H \ {a} : B[x] = bh[x] /\ v[x] = w[x]
  BY <1>d DEF ReplaceCounts
<1>3. \A x \in K : B[x] = bh[o[x]] /\ v[x] = w[o[x]]
  BY <1>d, <1>c DEF InPlace
<1>4. /\ \A x \in H, y \in Sides : bh[x] = bh[Get(t, x, y)] + w[x]
      /\ bh[NULL] = 0
  BY DEF Weighted
<1>5. ASSUME NEW x \in K, NEW y \in Sides PROVE B[x] = B[Get(s, x, y)] + v[x]
  <2>1. B[Get(s, x, y)] = bh[o[Get(s, x, y)]]
    BY <1>2, <1>3, <1>4, <1>c
  <2> QED BY <2>1, <1>2, <1>3, <1>4
<1> QED BY <1>5, <1>d, <1>c DEF Weighted

\* s is t with n and its right child, the next node by key, in each other's place.
Swapped(t, s, n) ==
  LET c == Get(t, n, "right")
      l == Get(t, n, "left")
      r == Get(t, c, "right")
      u == Get(t, n, "parent")
  IN  /\ Dom(s) = Dom(t) /\ Root(s) = Root(t)
      /\ Get(s, c, "left") = l /\ Get(s, c, "right") = n
      /\ Get(s, n, "left") = NULL /\ Get(s, n, "right") = r
      /\ \A x, y : y \in Sides /\ x # c /\ x # n =>
           Get(s, x, y) = IF x = u /\ Get(t, x, y) = n THEN c ELSE Get(t, x, y)
      /\ \A x : Get(s, x, "parent") = IF x = c THEN u ELSE IF x = n \/ x = l THEN c
                                      ELSE IF x = r /\ r # NULL THEN n ELSE Get(t, x, "parent")
      /\ \A x : Get(s, x, "color") = Get(t, x, "color") /\ Get(s, x, "next") = Get(t, x, "next")

\* Who is below whom when n has changed places with its right child.
SwappedBelow(t, H, D, n) ==
  LET c == Get(t, n, "right")
  IN  [x \in H \cup {NULL} |->
         IF x = c THEN D[n] ELSE IF x = n THEN {n} \cup D[Get(t, c, "right")] ELSE D[x]]

\* The names the proofs about a swap of n with its right child c work with: l
\* and r are the other subtrees, u the parent of n, E the new D.
SwapShape(t, s, H, D, n, c, l, r, u, E) ==
  /\ c \in H /\ l \in H /\ r \in H \cup {NULL} /\ u \in H
  /\ c # n /\ l # n /\ l # c /\ r # n /\ r # c /\ r # l /\ u # n /\ u # c
  /\ Get(t, c, "parent") = n /\ Get(t, l, "parent") = n /\ (r # NULL => Get(t, r, "parent") = c)
  /\ \E y \in Sides : Get(t, u, y) = n
  /\ n \notin D[l] /\ n \notin D[r] /\ c \notin D[l] /\ c \notin D[r] /\ n \in D[n] /\ c \in D[n] /\ n \notin D[c]
  /\ \A b : b \in D[n] <=> b = n \/ b = c \/ b \in D[l] \/ b \in D[r]
  /\ \A b : b \in D[c] <=> b = c \/ b \in D[r]
  /\ \A b : b \notin D[l] \/ b \notin D[r]
  /\ E[c] = D[n] /\ E[n] = {n} \cup D[r]
  /\ \A x \in H \cup {NULL} : x # c /\ x # n => E[x] = D[x]
  /\ E \in [H \cup {NULL} -> SUBSET H] /\ E[NULL] = {}
  /\ \A a \in H \ {n, c}, y \in Sides :
       Get(s, a, y) = (IF Get(t, a, y) = n THEN c ELSE Get(t, a, y)) /\ Get(t, a, y) # c
  /\ \A a \in H \ {n, c}, y \in Sides : E[Get(s, a, y)] = D[Get(t, a, y)]

\* A swap makes what SwapShape says.
LEMMA SwapFacts ==
  ASSUME NEW t, NEW s, NEW H, NEW D, NEW n \in H, n # Root(t), IsTree(t, H, D), Swapped(t, s, n),
         Get(t, n, "left") # NULL, Get(t, n, "right") # NULL, Get(t, Get(t, n, "right"), "left") = NULL
  PROVE  \A c, l, r, u, E : c = Get(t, n, "right") /\ l = Get(t, n, "left") /\ r = Get(t, c, "right")
                            /\ u = Get(t, n, "parent") /\ E = SwappedBelow(t, H, D, n)
           => SwapShape(t, s, H, D, n, c, l, r, u, E)
<1> SUFFICES ASSUME NEW c, NEW l, NEW r, NEW u, NEW E,
                    c = Get(t, n, "right"), l = Get(t, n, "left"), r = Get(t, c, "right"),
                    u = Get(t, n, "parent"), E = SwappedBelow(t, H, D, n)
             PROVE  SwapShape(t, s, H, D, n, c, l, r, u, E)
  OBVIOUS
<1>1. /\ NULL \notin H /\ D \in [H \cup {NULL} -> SUBSET H] /\ D[NULL] = {}
      /\ \A x \in H : x \in D[x]
      /\ \A x \in H, y \in Sides : Get(t, x, y) # NULL =>
           Get(t, x, y) \in H /\ Get(t, Get(t, x, y), "parent") = x
      /\ \A x \in H, y \in Sides : x \notin D[Get(t, x, y)]
  BY DEF IsTree, IsTreeBy, Sides
<1>2. \A x, y \in H : y \in D[x] <=> y = x \/ y \in D[Get(t, x, "left")] \/ y \in D[Get(t, x, "right")]
  BY DEF IsTree, IsTreeBy
<1>3. \A x, y \in H : y \notin D[Get(t, x, "left")] \/ y \notin D[Get(t, x, "right")]
  BY DEF IsTree, IsTreeBy
<1>4. u \in H /\ \E y \in Sides : Get(t, u, y) = n
  BY DEF IsTree, IsTreeBy, Sides
<1>5. c \in H /\ l \in H /\ r \in H \cup {NULL} /\ Get(t, c, "parent") = n /\ Get(t, l, "parent") = n
      /\ (r # NULL => Get(t, r, "parent") = c)
  BY <1>1 DEF Sides
<1>6. \A b : b \in D[c] <=> b = c \/ b \in D[r]
  BY <1>1, <1>2, <1>5
<1>7. \A b : b \in D[n] <=> b = n \/ b = c \/ b \in D[l] \/ b \in D[r]
  BY <1>1, <1>2, <1>5, <1>6
<1>8. \A b : b \notin D[l] \/ b \notin D[c]
  BY <1>1, <1>3, <1>5
<1>9. n \notin D[l] /\ n \notin D[r] /\ c \notin D[l] /\ c \notin D[r] /\ n \in D[n] /\ c \in D[n] /\ n \notin D[c]
  BY <1>1, <1>5, <1>6, <1>7, <1>8 DEF Sides
<1>10. c # n /\ l # n /\ l # c /\ r # n /\ r # c /\ r # l
  BY <1>1, <1>5, <1>6, <1>8, <1>9
<1>11. u # n /\ u # c
  <2>1. n \in D[Get(t, u, "left")] \/ n \in D[Get(t, u, "right")]
    BY <1>1, <1>4 DEF Sides
  <2>2. u # n
    BY <2>1, <1>1, <1>4 DEF Sides
  <2>3. u # c
    BY <1>1, <1>4, <1>9, <1>10 DEF Sides
  <2> QED BY <2>2, <2>3
<1>12. \A b : b \notin D[l] \/ b \notin D[r]
  BY <1>6, <1>8
<1>13. /\ E[c] = D[n] /\ E[n] = {n} \cup D[r]
       /\ \A x \in H \cup {NULL} : x # c /\ x # n => E[x] = D[x]
  BY <1>5, <1>10 DEF SwappedBelow
<1>14. \A x \in H \cup {NULL} : E[x] \subseteq H
  BY <1>1, <1>5, <1>13
<1>15. E \in [H \cup {NULL} -> SUBSET H] /\ E[NULL] = {}
  <2>1. E = [x \in H \cup {NULL} |-> E[x]]
    BY DEF SwappedBelow
  <2>2. NULL # c /\ NULL # n
    BY <1>1, <1>5
  <2> QED BY <2>1, <2>2, <1>1, <1>13, <1>14
<1>16. ASSUME NEW a \in H \ {n, c}, NEW y \in Sides
       PROVE  Get(s, a, y) = (IF Get(t, a, y) = n THEN c ELSE Get(t, a, y)) /\ Get(t, a, y) # c
  BY <1>1, <1>5 DEF Swapped
<1>17. ASSUME NEW a \in H \ {n, c}, NEW y \in Sides
       PROVE  E[Get(s, a, y)] = D[Get(t, a, y)]
  <2>1. Get(t, a, y) \in H \cup {NULL}
    BY <1>1
  <2> QED BY <2>1, <1>13, <1>16
<1> QED BY <1>4, <1>5, <1>6, <1>7, <1>9, <1>10, <1>11, <1>12, <1>13, <1>15, <1>16, <1>17 DEF SwapShape

\* A swap of a head with its right child, which has no left child, gives a
\* tree.
LEMMA SwapTree ==
  ASSUME NEW t, NEW s, NEW H, NEW D, NEW n \in H, n # Root(t), IsTree(t, H, D), Swapped(t, s, n),
         Get(t, n, "left") # NULL, Get(t, n, "right") # NULL, Get(t, Get(t, n, "right"), "left") = NULL
  PROVE  IsTree(s, H, SwappedBelow(t, H, D, n))
<1> DEFINE c == Get(t, n, "right")
           l == Get(t, n, "left")
           r == Get(t, c, "right")
           u == Get(t, n, "parent")
           E == SwappedBelow(t, H, D, n)
<1>d. c = Get(t, n, "right") /\ l = Get(t, n, "left") /\ r = Get(t, c, "right")
      /\ u = Get(t, n, "parent") /\ E = SwappedBelow(t, H, D, n)
  OBVIOUS
<1> HIDE DEF c, l, r, u, E
<1>0. SwapShape(t, s, H, D, n, c, l, r, u, E)
  BY <1>d, SwapFacts
<1>1. /\ c \in H /\ l \in H /\ r \in H \cup {NULL} /\ u \in H
      /\ c # n /\ l # n /\ l # c /\ r # n /\ r # c /\ r # l /\ u # n /\ u # c
      /\ Get(t, c, "parent") = n /\ Get(t, l, "parent") = n /\ (r # NULL => Get(t, r, "parent") = c)
      /\ \E y \in Sides : Get(t, u, y) = n
  BY <1>0 DEF SwapShape
<1>2. /\ n \notin D[l] /\ n \notin D[r] /\ c \notin D[l] /\ c \notin D[r] /\ n \in D[n] /\ c \in D[n] /\ n \notin D[c]
      /\ \A b : b \in D[n] <=> b = n \/ b = c \/ b \in D[l] \/ b \in D[r]
      /\ \A b : b \notin D[l] \/ b \notin D[r]
      /\ E[c] = D[n] /\ E[n] = {n} \cup D[r]
      /\ \A x \in H \cup {NULL} : x # c /\ x # n => E[x] = D[x]
      /\ E \in [H \cup {NULL} -> SUBSET H] /\ E[NULL] = {}
  BY <1>0 DEF SwapShape
<1>3. /\ \A a \in H \ {n, c}, y \in Sides :
           Get(s, a, y) = (IF Get(t, a, y) = n THEN c ELSE Get(t, a, y)) /\ Get(t, a, y) # c
      /\ \A a \in H \ {n, c}, y \in Sides : E[Get(s, a, y)] = D[Get(t, a, y)]
  BY <1>0 DEF SwapShape
<1>4. Get(s, c, "left") = l /\ Get(s, c, "right") = n /\ Get(s, n, "left") = NULL /\ Get(s, n, "right") = r
  BY <1>d DEF Swapped
<1>5. \A x : Get(s, x, "parent") = IF x = c THEN u ELSE IF x = n \/ x = l THEN c
                                   ELSE IF x = r /\ r # NULL THEN n ELSE Get(t, x, "parent")
  BY <1>d DEF Swapped
<1>6. Dom(s) = Dom(t) /\ Root(s) = Root(t)
  BY DEF Swapped
<1>7. /\ NULL \notin H /\ H \subseteq Dom(t) /\ Root(t) \in H \cup {NULL} /\ D[Root(t)] = H
      /\ D \in [H \cup {NULL} -> SUBSET H] /\ D[NULL] = {} /\ \A x \in H : x \in D[x]
      /\ Root(t) # NULL => Get(t, Root(t), "parent") = NULL
  BY DEF IsTree, IsTreeBy
<1>8. /\ \A x \in H, y \in Sides : Get(t, x, y) # NULL =>
           Get(t, x, y) \in H /\ Get(t, Get(t, x, y), "parent") = x
      /\ \A x \in H : x # Root(t) => Get(t, x, "parent") \in H
           /\ \E y \in Sides : x = Get(t, Get(t, x, "parent"), y)
  BY DEF IsTree, IsTreeBy, Sides
<1>9. Root(t) # c /\ Root(t) # l /\ (r = NULL \/ Root(t) # r)
  BY <1>1, <1>7
<1>11. Root(s) \in H \cup {NULL} /\ E[Root(s)] = H
  BY <1>2, <1>6, <1>7, <1>9
<1>12. Root(s) # NULL => Get(s, Root(s), "parent") = NULL
  BY <1>5, <1>6, <1>7, <1>9
<1>13. ASSUME NEW a \in H, a # Root(s)
       PROVE  /\ Get(s, a, "parent") \in H
              /\ a = Get(s, Get(s, a, "parent"), "left") \/ a = Get(s, Get(s, a, "parent"), "right")
  <2>1. CASE a = c
    BY <2>1, <1>1, <1>3, <1>5 DEF Sides
  <2>2. CASE a = n \/ a = l
    BY <2>2, <1>1, <1>4, <1>5
  <2>3. CASE a = r
    BY <2>3, <1>1, <1>4, <1>5, <1>7
  <2>4. CASE a \notin {c, n, l, r}
    <3> DEFINE q == Get(t, a, "parent")
    <3>1. q \in H /\ \E y \in Sides : a = Get(t, q, y)
      BY <1>13, <1>6, <1>8
    <3>2. Get(s, a, "parent") = q
      BY <2>4, <1>5
    <3> HIDE DEF q
    <3>3. q # n
      BY <2>4, <3>1, <1>d DEF Sides
    <3>4. q # c
      <4>1. Get(t, c, "left") = NULL
        BY <1>d
      <4> QED BY <4>1, <2>4, <3>1, <1>d, <1>7 DEF Sides
    <3>5. \E y \in Sides : a = Get(s, q, y)
      BY <2>4, <3>1, <3>3, <3>4, <1>3
    <3> QED BY <3>1, <3>2, <3>5 DEF Sides
  <2> QED BY <2>1, <2>2, <2>3, <2>4
<1>14. ASSUME NEW a \in H, NEW y \in Sides, Get(s, a, y) # NULL
       PROVE  Get(s, a, y) \in H /\ Get(s, Get(s, a, y), "parent") = a
  <2>1. CASE a = c
    BY <2>1, <1>1, <1>4, <1>5 DEF Sides
  <2>2. CASE a = n
    BY <2>2, <1>14, <1>1, <1>4, <1>5 DEF Sides
  <2>3. CASE a \notin {c, n}
    <3>1. Get(t, a, y) # NULL /\ Get(t, a, y) \in H /\ Get(t, Get(t, a, y), "parent") = a
      BY <2>3, <1>14, <1>1, <1>3, <1>7, <1>8
    <3>2. CASE Get(t, a, y) = n
      BY <2>3, <3>1, <3>2, <1>d, <1>1, <1>3, <1>5
    <3>3. CASE Get(t, a, y) # n
      BY <2>3, <3>1, <3>3, <1>1, <1>3, <1>5
    <3> QED BY <3>2, <3>3
  <2> QED BY <2>1, <2>2, <2>3
<1>15. ASSUME NEW a \in H
       PROVE  /\ a \in E[a] /\ a \notin E[Get(s, a, "left")] /\ a \notin E[Get(s, a, "right")]
              /\ \A b \in H : b \in E[a] <=> b = a \/ b \in E[Get(s, a, "left")] \/ b \in E[Get(s, a, "right")]
              /\ \A b \in H : b \notin E[Get(s, a, "left")] \/ b \notin E[Get(s, a, "right")]
  <2>1. CASE a = n
    <3>1. E[r] = D[r]
      BY <1>1, <1>2
    <3> QED BY <2>1, <3>1, <1>2, <1>4
  <2>2. CASE a = c
    <3>1. E[l] = D[l]
      BY <1>1, <1>2
    <3> QED BY <2>2, <3>1, <1>1, <1>2, <1>4
  <2>3. CASE a \notin {n, c}
    <3>1. E[a] = D[a] /\ E[Get(s, a, "left")] = D[Get(t, a, "left")] /\ E[Get(s, a, "right")] = D[Get(t, a, "right")]
      BY <2>3, <1>2, <1>3 DEF Sides
    <3> QED BY <3>1 DEF IsTree, IsTreeBy
  <2> QED BY <2>1, <2>2, <2>3
<1>20. \A x, y \in H : y \in D[x] => D[y] \subseteq D[x]
  BY <1>7 DEF IsTree, IsTreeBy
<1>21. \A x, y \in H : y \in D[x] /\ y # x => Get(t, y, "parent") \in D[x]
  BY DEF IsTree, IsTreeBy
<1>16. ASSUME NEW a \in H, NEW b \in H, NEW z \in H, b \in E[a], z \in E[b]
       PROVE  z \in E[a]
  <2>1. \A x \in H : x # c => E[x] \subseteq D[x]
    BY <1>1, <1>2
  <2>2. \A x \in H : x # c /\ c \in D[x] => D[n] \subseteq D[x]
    BY <1>1, <1>20, <1>21
  <2>5. CASE a = c
    BY <2>5, <2>1, <1>16, <1>2, <1>20
  <2>6. CASE a = n
    <3>1. b # c
      BY <2>6, <1>1, <1>16, <1>2
    <3>2. CASE b = n
      BY <3>2, <2>6, <1>16
    <3>3. CASE b # n
      BY <3>1, <3>3, <2>6, <1>20, <1>1, <1>16, <1>2
    <3> QED BY <3>2, <3>3
  <2>7. CASE a # c /\ a # n
    <3>1. E[a] = D[a]
      BY <2>7, <1>2
    <3> QED BY <3>1, <2>7, <2>1, <2>2, <1>16, <1>20, <1>2
  <2> QED BY <2>5, <2>6, <2>7
<1>17. ASSUME NEW a \in H, NEW b \in H, b \in E[a], b # a
       PROVE  Get(s, b, "parent") \in E[a]
  <2>2. CASE a = c
    <3>1. b = n \/ b = l \/ b = r \/ (b \notin {n, c, l, r} /\ Get(t, b, "parent") \in D[n])
      BY <1>21, <2>2, <1>17, <1>2
    <3>2. CASE b = n \/ b = l
      BY <3>2, <2>2, <1>1, <1>2, <1>5
    <3>3. CASE b = r
      BY <3>3, <2>2, <1>1, <1>2, <1>5, <1>7
    <3>4. CASE b \notin {n, c, l, r} /\ Get(t, b, "parent") \in D[n]
      BY <3>4, <2>2, <1>2, <1>5
    <3> QED BY <3>1, <3>2, <3>3, <3>4
  <2>3. CASE a = n
    <3>1. b \in D[r] /\ b # n /\ b # c /\ r # NULL /\ r \in H
      BY <2>3, <1>17, <1>1, <1>2, <1>7
    <3>2. b # l
      BY <3>1, <1>1, <1>2, <1>7
    <3>3. CASE b = r
      BY <3>3, <2>3, <1>1, <1>2, <1>5, <1>7
    <3>4. CASE b # r
      BY <3>1, <3>2, <3>4, <2>3, <1>21, <1>2, <1>5
    <3> QED BY <3>3, <3>4
  <2>4. CASE a # c /\ a # n
    <3>1. E[a] = D[a]
      BY <2>4, <1>2
    <3>2. c \in D[a] => n \in D[a]
      BY <2>4, <1>21, <1>1
    <3>3. n \in D[a] => c \in D[a] /\ u \in D[a]
      BY <2>4, <1>20, <1>21, <1>1, <1>2, <1>d
    <3>4. b = l => n \in D[a]
      BY <3>1, <1>17, <1>21, <1>1
    <3>5. b = r => c \in D[a]
      BY <3>1, <1>17, <1>21, <1>1, <1>7
    <3>6. Get(t, b, "parent") \in D[a]
      BY <3>1, <1>17, <1>21
    <3>7. CASE b = n \/ b = l
      BY <3>7, <3>1, <3>3, <3>4, <1>1, <1>5, <1>17
    <3>8. CASE b = c
      BY <3>8, <3>1, <3>2, <3>3, <1>1, <1>5, <1>17
    <3>9. CASE b = r
      BY <3>9, <3>1, <3>2, <3>5, <1>1, <1>5, <1>7, <1>17
    <3>10. CASE b \notin {n, l, c, r}
      BY <3>10, <3>1, <3>6, <1>5
    <3> QED BY <3>7, <3>8, <3>9, <3>10
  <2> QED BY <2>2, <2>3, <2>4
<1>18. NULL \notin H /\ H \subseteq Dom(s)
  BY <1>6, <1>7
<1>19. E \in [H \cup {NULL} -> SUBSET H] /\ E[NULL] = {}
  BY <1>2
<1>22. IsTreeBy(s, H, E, "left", "right")
  <2>1. \A x \in H, y \in {"left", "right"} : Get(s, x, y) # NULL =>
          Get(s, x, y) \in H /\ Get(s, Get(s, x, y), "parent") = x
    BY <1>14 DEF Sides
  <2> QED BY <2>1, <1>11, <1>12, <1>13, <1>15, <1>16, <1>17, <1>18, <1>19, Zenon DEF IsTreeBy
<1> QED BY <1>22, <1>d DEF IsTree

\* Afterwards only n is out of order, which is why the code then deletes it.
LEMMA SwapOrdered ==
  ASSUME NEW t, NEW s, NEW H, NEW D, NEW n \in H, n # Root(t), IsTree(t, H, D), Swapped(t, s, n),
         Get(t, n, "left") # NULL, Get(t, n, "right") # NULL, Get(t, Get(t, n, "right"), "left") = NULL,
         NEW k, Ordered(t, H, D, k, {})
  PROVE  Ordered(s, H, SwappedBelow(t, H, D, n), k, {n})
<1> DEFINE c == Get(t, n, "right")
           l == Get(t, n, "left")
           r == Get(t, c, "right")
           u == Get(t, n, "parent")
           E == SwappedBelow(t, H, D, n)
<1>d. c = Get(t, n, "right") /\ l = Get(t, n, "left") /\ r = Get(t, c, "right")
      /\ u = Get(t, n, "parent") /\ E = SwappedBelow(t, H, D, n)
  OBVIOUS
<1> HIDE DEF c, l, r, u, E
<1>0. SwapShape(t, s, H, D, n, c, l, r, u, E)
  BY <1>d, SwapFacts
<1>1. /\ c \in H /\ l \in H /\ r \in H \cup {NULL} /\ c # n /\ l # n /\ l # c
      /\ c \in D[n]
      /\ \A b : b \in D[n] <=> b = n \/ b = c \/ b \in D[l] \/ b \in D[r]
      /\ \A b : b \in D[c] <=> b = c \/ b \in D[r]
      /\ E[n] = {n} \cup D[r]
      /\ \A x \in H \cup {NULL} : x # c /\ x # n => E[x] = D[x]
      /\ \A a \in H \ {n, c}, y \in Sides : E[Get(s, a, y)] = D[Get(t, a, y)]
  BY <1>0 DEF SwapShape
<1>2. Get(s, c, "left") = l /\ Get(s, c, "right") = n
  BY <1>d DEF Swapped
<1>3. /\ \A a \in H : k[a] \in Int
      /\ \A a \in H, y \in Sides : \A b \in D[Get(t, a, y)] : Beside(k, y, a, b)
      /\ D \in [H \cup {NULL} -> SUBSET H]
  BY DEF Ordered, IsTree, IsTreeBy
<1>4. ASSUME NEW a \in H \ {n}, NEW y \in Sides, NEW b \in E[Get(s, a, y)], b # n
      PROVE  Beside(k, y, a, b)
  <2>1. CASE a = c /\ y = "left"
    <3>1. b \in D[l] /\ b \in H
      BY <2>1, <1>1, <1>2, <1>3, <1>4
    <3>2. Beside(k, "left", n, b) /\ Beside(k, "right", n, c)
      <4>1. c \in D[c] BY <1>1
      <4> QED BY <4>1, <3>1, <1>3, <1>d DEF Sides
    <3> QED BY <3>1, <3>2, <2>1, <1>1, <1>3 DEF Beside
  <2>2. CASE a = c /\ y = "right"
    BY <2>2, <1>1, <1>2, <1>3, <1>4, <1>d DEF Sides
  <2>3. CASE a # c
    BY <2>3, <1>1, <1>3, <1>4
  <2> QED BY <2>1, <2>2, <2>3 DEF Sides
<1> QED BY <1>3, <1>4, <1>d DEF Ordered

\* What the nodes count when n and c have changed places.
SwapCounts(H, n, c, bh, w, B, v) ==
  /\ B \in [H \cup {NULL} -> Nat] /\ B[NULL] = 0 /\ v \in [H -> Nat]
  /\ \A x \in H \ {n, c} : B[x] = bh[x] /\ v[x] = w[x]
  /\ B[c] = bh[n] /\ B[n] = bh[c] /\ v[n] = w[c] /\ v[c] = w[n]

\* The black heights stay, when the weights change places as SwapCounts says.
LEMMA SwapWeighted ==
  ASSUME NEW t, NEW s, NEW H, NEW D, NEW n \in H, n # Root(t), IsTree(t, H, D), Swapped(t, s, n),
         Get(t, n, "left") # NULL, Get(t, n, "right") # NULL, Get(t, Get(t, n, "right"), "left") = NULL,
         NEW bh, NEW w, Weighted(t, H, bh, w), NEW B, NEW v, NEW c, c = Get(t, n, "right"),
         SwapCounts(H, n, c, bh, w, B, v)
  PROVE  Weighted(s, H, B, v)
<1>a. /\ B \in [H \cup {NULL} -> Nat] /\ B[NULL] = 0 /\ v \in [H -> Nat]
      /\ \A x \in H \ {n, c} : B[x] = bh[x] /\ v[x] = w[x]
      /\ B[c] = bh[n] /\ B[n] = bh[c] /\ v[n] = w[c] /\ v[c] = w[n]
  BY DEF SwapCounts
<1> USE <1>a
<1> DEFINE l == Get(t, n, "left")
           r == Get(t, c, "right")
           u == Get(t, n, "parent")
           E == SwappedBelow(t, H, D, n)
<1>d. l = Get(t, n, "left") /\ r = Get(t, c, "right")
      /\ u = Get(t, n, "parent") /\ E = SwappedBelow(t, H, D, n)
  OBVIOUS
<1> HIDE DEF l, r, u, E
<1>0. SwapShape(t, s, H, D, n, c, l, r, u, E)
  BY <1>d, SwapFacts
<1>1. /\ c \in H /\ l \in H /\ r \in H \cup {NULL} /\ c # n /\ l # n /\ l # c /\ r # n /\ r # c
      /\ \A a \in H \ {n, c}, y \in Sides :
           Get(s, a, y) = (IF Get(t, a, y) = n THEN c ELSE Get(t, a, y)) /\ Get(t, a, y) # c
  BY <1>0 DEF SwapShape
<1>2. Get(s, c, "left") = l /\ Get(s, c, "right") = n /\ Get(s, n, "left") = NULL /\ Get(s, n, "right") = r
  BY <1>d DEF Swapped
<1>3. /\ NULL \notin H /\ \A a \in H, y \in Sides : Get(t, a, y) \in H \cup {NULL}
  BY DEF IsTree, IsTreeBy, Sides
<1>4. /\ \A a \in H, y \in Sides : bh[a] = bh[Get(t, a, y)] + w[a]
      /\ bh[NULL] = 0 /\ bh \in [H \cup {NULL} -> Nat] /\ w \in [H -> Nat]
  BY DEF Weighted
<1>5. ASSUME NEW a \in H, NEW y \in Sides PROVE B[a] = B[Get(s, a, y)] + v[a]
  <2>1. CASE a = c
    <3>1. bh[n] = bh[l] + w[n] /\ bh[n] = bh[c] + w[n]
      BY <1>4, <1>d DEF Sides
    <3>2. B[l] = bh[l]
      BY <1>1
    <3>3. y = "left" \/ y = "right"
      BY DEF Sides
    <3> QED BY <3>1, <3>2, <3>3, <2>1, <1>2
  <2>2. CASE a = n
    <3>1. bh[c] = bh[NULL] + w[c] /\ bh[c] = bh[r] + w[c]
      BY <1>1, <1>4, <1>d DEF Sides
    <3>2. B[r] = bh[r]
      BY <1>1, <1>4
    <3>3. y = "left" \/ y = "right"
      BY DEF Sides
    <3>4. bh[NULL] = 0 /\ w[c] \in Nat
      BY <1>1, <1>4
    <3> QED BY <3>1, <3>2, <3>3, <3>4, <2>2, <1>2
  <2>3. CASE a \notin {n, c}
    <3>1. bh[a] = bh[Get(t, a, y)] + w[a] /\ B[a] = bh[a] /\ v[a] = w[a]
      BY <2>3, <1>4
    <3>2. B[Get(s, a, y)] = bh[Get(t, a, y)]
      BY <2>3, <1>1, <1>3, <1>4
    <3> QED BY <3>1, <3>2
  <2> QED BY <2>1, <2>2, <2>3
<1> QED BY <1>5 DEF Weighted

\* What TakePlace does.
LEMMA TakePlaceIs ==
  ASSUME NEW t, NEW H, NEW D, Usable(t), IsTree(t, H, D), NEW a \in H, a # Root(t),
         NEW b \in Dom(t), b \notin H, b # NULL
  PROVE  LET s == TakePlace(t, a, b)
         IN  Usable(s) /\ Replaced(t, s, a, b) /\ \A x : Get(s, x, "next") = Get(t, x, "next")
<1> DEFINE l == Get(t, a, "left")
           r == Get(t, a, "right")
           u == Get(t, a, "parent")
           q1 == Set(t, b, "color", Get(t, a, "color"))
           q2 == Set(q1, b, "left", l)
           q3 == Set(q2, b, "right", r)
           t1 == Set(q3, b, "parent", u)
           t2 == ReplaceChild(t1, u, a, b)
           t3 == IF l = NULL THEN t2 ELSE Set(t2, l, "parent", b)
           s == IF r = NULL THEN t3 ELSE Set(t3, r, "parent", b)
<1>1. /\ NULL \notin H /\ H \subseteq Dom(t)
      /\ u \in H /\ u # NULL /\ u # b /\ a # b
      /\ \E y \in Sides : Get(t, u, y) = a
      /\ l # NULL => l \in H
      /\ r # NULL => r \in H
      /\ l # b /\ r # b
  BY DEF IsTree, IsTreeBy, Sides
<1>2. Get(t, u, "left") # a \/ Get(t, u, "right") # a
  <2>1. /\ \A x \in H : x \in D[x]
        /\ \A x, y \in H : y \notin D[Get(t, x, "left")] \/ y \notin D[Get(t, x, "right")]
    BY DEF IsTree, IsTreeBy
  <2> QED BY <2>1, <1>1
<1>s. TakePlace(t, a, b) = s
  BY <1>1 DEF TakePlace
<1>3. /\ Usable(t1) /\ Dom(t1) = Dom(t) /\ Root(t1) = Root(t)
      /\ \A x, g : g \in Fields =>
           Get(t1, x, g) = IF x # b \/ g = "next" THEN Get(t, x, g)
                           ELSE IF g = "color" THEN Get(t, a, "color")
                           ELSE IF g = "left" THEN l
                           ELSE IF g = "right" THEN r ELSE u
  <2> HIDE DEF l, r, u
  <2> HIDE DEF q1, q2, q3, t1
  <2>1. /\ Usable(q1) /\ Dom(q1) = Dom(t) /\ Root(q1) = Root(t)
        /\ \A x, g : g \in Fields =>
             Get(q1, x, g) = IF x = b /\ g = "color" THEN Get(t, a, "color") ELSE Get(t, x, g)
    BY SetGets DEF q1, Fields
  <2>2. /\ Usable(q2) /\ Dom(q2) = Dom(t) /\ Root(q2) = Root(t)
        /\ \A x, g : g \in Fields => Get(q2, x, g) = IF x = b /\ g = "left" THEN l ELSE Get(q1, x, g)
    BY <2>1, SetGets DEF q2, Fields
  <2>3. /\ Usable(q3) /\ Dom(q3) = Dom(t) /\ Root(q3) = Root(t)
        /\ \A x, g : g \in Fields => Get(q3, x, g) = IF x = b /\ g = "right" THEN r ELSE Get(q2, x, g)
    BY <2>2, SetGets DEF q3, Fields
  <2>4. /\ Usable(t1) /\ Dom(t1) = Dom(t) /\ Root(t1) = Root(t)
        /\ \A x, g : g \in Fields => Get(t1, x, g) = IF x = b /\ g = "parent" THEN u ELSE Get(q3, x, g)
    BY <2>3, SetGets DEF t1, Fields
  <2> QED BY <2>1, <2>2, <2>3, <2>4 DEF Fields
<1> HIDE DEF l, r, u
<1> HIDE DEF q1, q2, q3, t1
<1> HIDE DEF t2, t3, s
<1>4. /\ Usable(t2) /\ Dom(t2) = Dom(t) /\ Root(t2) = Root(t)
      /\ \A x, g : g \in Fields =>
           Get(t2, x, g) = IF x = u /\ g \in Sides /\ Get(t, u, g) = a THEN b ELSE Get(t1, x, g)
  <2>1. Get(t1, u, "left") = Get(t, u, "left")
    BY <1>1, <1>3 DEF Fields
  <2>2. /\ Usable(t2) /\ Dom(t2) = Dom(t) /\ Root(t2) = Root(t)
        /\ \A x, g : g \in Fields =>
           Get(t2, x, g) = IF x = u /\ g = (IF Get(t, u, "left") = a THEN "left" ELSE "right") THEN b
                           ELSE Get(t1, x, g)
    BY <2>1, <1>1, <1>3, ReplaceChildGets DEF t2
  <2> QED BY <2>2, <1>1, <1>2 DEF Sides
<1>5. /\ Usable(t3) /\ Dom(t3) = Dom(t) /\ Root(t3) = Root(t)
      /\ \A x, g : g \in Fields =>
           Get(t3, x, g) = IF x = l /\ l # NULL /\ g = "parent" THEN b ELSE Get(t2, x, g)
  <2>1. CASE l = NULL
    BY <2>1, <1>4 DEF t3
  <2>2. CASE l # NULL
    BY <2>2, <1>4, <1>1, SetGets DEF t3, Fields
  <2> QED BY <2>1, <2>2
<1>6. /\ Usable(s) /\ Dom(s) = Dom(t) /\ Root(s) = Root(t)
      /\ \A x, g : g \in Fields =>
           Get(s, x, g) = IF x = r /\ r # NULL /\ g = "parent" THEN b ELSE Get(t3, x, g)
  <2>1. CASE r = NULL
    BY <2>1, <1>5 DEF s
  <2>2. CASE r # NULL
    BY <2>2, <1>5, <1>1, SetGets DEF s, Fields
  <2> QED BY <2>1, <2>2
<1>7. \A x, y : y \in Sides =>
        Get(s, x, y) = IF x = b THEN Get(t, a, y)
                       ELSE IF x = u /\ Get(t, x, y) = a THEN b ELSE Get(t, x, y)
  BY <1>1, <1>3, <1>4, <1>5, <1>6 DEF l, r, Fields, Sides
<1>8. \A x : Get(s, x, "parent") = IF x = b THEN u
                                   ELSE IF x # NULL /\ \E y \in Sides : x = Get(t, a, y) THEN b
                                   ELSE Get(t, x, "parent")
  BY <1>1, <1>3, <1>4, <1>5, <1>6 DEF l, r, Fields, Sides
<1>9. \A x : /\ Get(s, x, "color") = IF x = b THEN Get(t, a, "color") ELSE Get(t, x, "color")
             /\ Get(s, x, "next") = Get(t, x, "next")
  BY <1>1, <1>3, <1>4, <1>5, <1>6 DEF Fields, Sides
<1>10. Replaced(t, s, a, b)
  BY <1>6, <1>7, <1>8, <1>9 DEF Replaced, u
<1> QED BY <1>s, <1>6, <1>9, <1>10

\* What the end of _rbtreeInsert does with its node.
LEMMA AttachIs ==
  ASSUME Usable(Tree), op.node \notin Dom(Tree), op.node # NULL, NEW u \in Dom(Tree), NEW f \in Sides
  PROVE  LET n == op.node
             s == Set(Set(Set(WithNode, n, "parent", u), n, "color", RED), u, f, n)
         IN  /\ Usable(s) /\ Attached(Tree, s, n, u, f)
<1> DEFINE n == op.node
           t == WithNode
           t1 == Set(t, n, "parent", u)
           t2 == Set(t1, n, "color", RED)
           s == Set(t2, u, f, n)
<1>1. /\ Usable(t) /\ Dom(t) = Dom(Tree) \cup {n} /\ Root(t) = Root(Tree)
      /\ \A g \in Fields : Get(t, n, g) = 0
      /\ \A b, g : b # n => Get(t, b, g) = Get(Tree, b, g)
  BY WithNodeGets
<1> HIDE DEF t, n, t1, t2, s
<1>2. /\ Usable(t1) /\ Dom(t1) = Dom(t) /\ Root(t1) = Root(t)
      /\ \A b, g : g \in Fields => Get(t1, b, g) = IF b = n /\ g = "parent" THEN u ELSE Get(t, b, g)
  BY <1>1, SetGets DEF t1, Fields
<1>3. /\ Usable(t2) /\ Dom(t2) = Dom(t) /\ Root(t2) = Root(t)
      /\ \A b, g : g \in Fields => Get(t2, b, g) = IF b = n /\ g = "color" THEN RED ELSE Get(t1, b, g)
  BY <1>1, <1>2, SetGets DEF t2, Fields
<1>4. /\ Usable(s) /\ Dom(s) = Dom(t) /\ Root(s) = Root(t)
      /\ \A b, g : g \in Fields => Get(s, b, g) = IF b = u /\ g = f THEN n ELSE Get(t2, b, g)
  BY <1>1, <1>3, SetGets DEF s, Fields, Sides
<1>5. \A g \in Fields : Get(Tree, n, g) = 0
  BY GetOutside DEF n, NULL
<1>6. Attached(Tree, s, n, u, f)
  BY <1>1, <1>2, <1>3, <1>4, <1>5 DEF Attached, Fields, Sides, n
<1> QED BY <1>4, <1>6 DEF n, t, t1, t2, s

\* A leaf is taken off.
LEMMA UnlinkIs ==
  ASSUME NEW t, NEW H, NEW D, Usable(t), IsTree(t, H, D), NEW n \in H, n # Root(t)
  PROVE  LET s == ReplaceChild(t, Get(t, n, "parent"), n, NULL)
         IN  Usable(s) /\ Spliced(t, s, n, NULL) /\ \A x : Get(s, x, "color") = Get(t, x, "color")
<1> DEFINE u == Get(t, n, "parent")
           s == ReplaceChild(t, u, n, NULL)
<1>1. u \in H /\ u \in Dom(t) /\ \E y \in Sides : Get(t, u, y) = n
  BY DEF IsTree, IsTreeBy, Sides
<1>2. Get(t, u, "left") # n \/ Get(t, u, "right") # n
  <2>1. /\ \A x \in H : x \in D[x]
        /\ \A x, y \in H : y \notin D[Get(t, x, "left")] \/ y \notin D[Get(t, x, "right")]
    BY DEF IsTree, IsTreeBy
  <2> QED BY <2>1, <1>1
<1> HIDE DEF u, s
<1>3. /\ Usable(s) /\ Dom(s) = Dom(t) /\ Root(s) = Root(t)
      /\ \A x, g : g \in Fields =>
           Get(s, x, g) = IF x = u /\ g = (IF Get(t, u, "left") = n THEN "left" ELSE "right") THEN NULL
                          ELSE Get(t, x, g)
  BY <1>1, ReplaceChildGets DEF s
<1>4. \A x, y : y \in Sides => Get(s, x, y) = IF x = u /\ Get(t, x, y) = n THEN NULL ELSE Get(t, x, y)
  BY <1>1, <1>2, <1>3 DEF Fields, Sides
<1>5. Spliced(t, s, n, NULL)
  BY <1>3, <1>4 DEF Spliced, Fields, u
<1> QED BY <1>3, <1>5 DEF u, s, Fields

\* A node goes and its only child moves up.
LEMMA MoveUpIs ==
  ASSUME NEW t, NEW H, NEW D, Usable(t), IsTree(t, H, D), NEW n \in H, n # Root(t), NEW f \in Sides,
         NEW c, c = Get(t, n, f), c # NULL, NEW v
  PROVE  LET u == Get(t, n, "parent")
             s == Set(Set(ReplaceChild(t, u, n, c), c, "parent", u), c, "color", v)
         IN  /\ Usable(s) /\ Spliced(t, s, n, c)
             /\ \A x : Get(s, x, "color") = IF x = c THEN v ELSE Get(t, x, "color")
<1> DEFINE u == Get(t, n, "parent")
           q == ReplaceChild(t, u, n, c)
           q1 == Set(q, c, "parent", u)
           s == Set(q1, c, "color", v)
<1>1. u \in H /\ u \in Dom(t) /\ (\E y \in Sides : Get(t, u, y) = n) /\ c \in Dom(t)
  BY DEF IsTree, IsTreeBy, Sides
<1>2. Get(t, u, "left") # n \/ Get(t, u, "right") # n
  <2>1. /\ \A x \in H : x \in D[x]
        /\ \A x, y \in H : y \notin D[Get(t, x, "left")] \/ y \notin D[Get(t, x, "right")]
    BY DEF IsTree, IsTreeBy
  <2> QED BY <2>1, <1>1
<1> HIDE DEF u, q, q1, s
<1>3. /\ Usable(q) /\ Dom(q) = Dom(t) /\ Root(q) = Root(t)
      /\ \A x, g : g \in Fields =>
           Get(q, x, g) = IF x = u /\ g = (IF Get(t, u, "left") = n THEN "left" ELSE "right") THEN c
                          ELSE Get(t, x, g)
  BY <1>1, ReplaceChildGets DEF q
<1>4. /\ Usable(q1) /\ Dom(q1) = Dom(t) /\ Root(q1) = Root(t)
      /\ \A x, g : g \in Fields => Get(q1, x, g) = IF x = c /\ g = "parent" THEN u ELSE Get(q, x, g)
  BY <1>1, <1>3, SetGets DEF q1, Fields
<1>5. /\ Usable(s) /\ Dom(s) = Dom(t) /\ Root(s) = Root(t)
      /\ \A x, g : g \in Fields => Get(s, x, g) = IF x = c /\ g = "color" THEN v ELSE Get(q1, x, g)
  BY <1>1, <1>4, SetGets DEF s, Fields
<1>6. \A x, y : y \in Sides => Get(s, x, y) = IF x = u /\ Get(t, x, y) = n THEN c ELSE Get(t, x, y)
  BY <1>1, <1>2, <1>3, <1>4, <1>5 DEF Fields, Sides
<1>7. Spliced(t, s, n, c)
  BY <1>3, <1>4, <1>5, <1>6 DEF Spliced, Fields, u
<1>8. \A x : Get(s, x, "color") = IF x = c THEN v ELSE Get(t, x, "color")
  BY <1>3, <1>4, <1>5 DEF Fields
<1> QED BY <1>5, <1>7, <1>8 DEF u, s, q, q1

\* What SwapNodes does with a node and its right child.
LEMMA SwapIs ==
  ASSUME NEW H, NEW D, Usable(Tree), IsTree(Tree, H, D), NEW n \in H, n # Root(Tree),
         NEW c, c = Get(Tree, n, "right"),
         Get(Tree, n, "left") # NULL, c # NULL, Get(Tree, c, "left") = NULL
  PROVE  Usable(SwapNodes(n, c)) /\ Swapped(Tree, SwapNodes(n, c), n)
<1> DEFINE t == Tree
           l == Get(t, n, "left")
           r == Get(t, c, "right")
           u == Get(t, n, "parent")
           t1 == ReplaceChild(t, u, n, c)
           t3 == IF r = NULL THEN t1 ELSE Set(t1, r, "parent", n)
           q1 == Set(t3, n, "parent", c)
           q2 == Set(q1, n, "left", Get(t3, c, "left"))
           t4 == Set(q2, n, "right", Get(t3, c, "right"))
           t5 == Set(t4, c, "parent", u)
           q3 == Set(t5, c, "right", n)
           q4 == Set(q3, c, "left", l)
           s == Set(q4, l, "parent", c)
<1>d. t = Tree
  OBVIOUS
<1>1. /\ NULL \notin H /\ H \subseteq Dom(t)
      /\ u \in H /\ c \in H /\ l \in H
      /\ \E y \in Sides : Get(t, u, y) = n
      /\ r # NULL => r \in H
      /\ Get(t, c, "parent") = n /\ Get(t, l, "parent") = n
      /\ r # NULL => Get(t, r, "parent") = c
  BY DEF IsTree, IsTreeBy, Sides
<1>2. Get(t, u, "left") # n \/ Get(t, u, "right") # n
  <2>1. /\ \A x \in H : x \in D[x]
        /\ \A x, y \in H : y \notin D[Get(t, x, "left")] \/ y \notin D[Get(t, x, "right")]
    BY DEF IsTree, IsTreeBy
  <2> QED BY <2>1, <1>1
<1>3. /\ l # c /\ l # n /\ c # n /\ r # c /\ r # l /\ u # n /\ u # c /\ r # n
  <2>1. /\ \A x \in H : x \in D[x] /\ x \notin D[Get(t, x, "left")] /\ x \notin D[Get(t, x, "right")]
        /\ \A x, y \in H : y \notin D[Get(t, x, "left")] \/ y \notin D[Get(t, x, "right")]
        /\ \A x, y \in H : y \in D[x] <=> y = x \/ y \in D[Get(t, x, "left")] \/ y \in D[Get(t, x, "right")]
    BY DEF IsTree, IsTreeBy
  <2>2. l # c /\ l # n /\ c # n
    BY <2>1, <1>1
  <2>3. r # c /\ u # n
    BY <2>1, <1>1 DEF Sides
  <2>4. r # NULL => r \in D[c]
    BY <2>1, <1>1
  <2>5. r # l
    BY <2>1, <2>2, <2>4, <1>1
  <2>6. u # c
    BY <2>1, <2>2, <1>1 DEF Sides
  <2>7. r # n
    <3>1. n \notin D[c]
      BY <2>1
    <3> QED BY <3>1, <2>4, <1>1
  <2> QED BY <2>2, <2>3, <2>5, <2>6, <2>7
<1>s. SwapNodes(n, c) = s
  BY <1>3 DEF SwapNodes, Other, Field
<1> HIDE DEF t, l, r, u
<1> HIDE DEF t1, t3, q1, q2, t4, t5, q3, q4, s
<1>4. /\ Usable(t1) /\ Dom(t1) = Dom(t) /\ Root(t1) = Root(t)
      /\ \A x, g : g \in Fields =>
           Get(t1, x, g) = IF x = u /\ g \in Sides /\ Get(t, u, g) = n THEN c ELSE Get(t, x, g)
  <2>1. /\ Usable(t1) /\ Dom(t1) = Dom(t) /\ Root(t1) = Root(t)
        /\ \A x, g : g \in Fields =>
             Get(t1, x, g) = IF x = u /\ g = (IF Get(t, u, "left") = n THEN "left" ELSE "right") THEN c
                             ELSE Get(t, x, g)
    BY <1>d, <1>1, ReplaceChildGets DEF t1
  <2> QED BY <2>1, <1>1, <1>2 DEF Sides
<1>5. /\ Usable(t3) /\ Dom(t3) = Dom(t) /\ Root(t3) = Root(t)
      /\ \A x, g : g \in Fields =>
           Get(t3, x, g) = IF x = r /\ r # NULL /\ g = "parent" THEN n ELSE Get(t1, x, g)
  <2>1. CASE r = NULL
    BY <2>1, <1>4 DEF t3
  <2>2. CASE r # NULL
    BY <2>2, <1>4, <1>1, SetGets DEF t3, Fields
  <2> QED BY <2>1, <2>2
<1>6. Get(t3, c, "left") = NULL /\ Get(t3, c, "right") = r
  BY <1>d, <1>3, <1>4, <1>5 DEF Fields, r
<1>7. /\ Usable(q1) /\ Dom(q1) = Dom(t) /\ Root(q1) = Root(t)
      /\ \A x, g : g \in Fields => Get(q1, x, g) = IF x = n /\ g = "parent" THEN c ELSE Get(t3, x, g)
  BY <1>1, <1>5, SetGets DEF q1, Fields
<1>8. /\ Usable(q2) /\ Dom(q2) = Dom(t) /\ Root(q2) = Root(t)
      /\ \A x, g : g \in Fields => Get(q2, x, g) = IF x = n /\ g = "left" THEN NULL ELSE Get(q1, x, g)
  BY <1>1, <1>6, <1>7, SetGets DEF q2, Fields
<1>9. /\ Usable(t4) /\ Dom(t4) = Dom(t) /\ Root(t4) = Root(t)
      /\ \A x, g : g \in Fields => Get(t4, x, g) = IF x = n /\ g = "right" THEN r ELSE Get(q2, x, g)
  BY <1>1, <1>6, <1>8, SetGets DEF t4, Fields
<1>10. /\ Usable(t5) /\ Dom(t5) = Dom(t) /\ Root(t5) = Root(t)
       /\ \A x, g : g \in Fields => Get(t5, x, g) = IF x = c /\ g = "parent" THEN u ELSE Get(t4, x, g)
  BY <1>1, <1>9, SetGets DEF t5, Fields
<1>11. /\ Usable(q3) /\ Dom(q3) = Dom(t) /\ Root(q3) = Root(t)
       /\ \A x, g : g \in Fields => Get(q3, x, g) = IF x = c /\ g = "right" THEN n ELSE Get(t5, x, g)
  BY <1>1, <1>10, SetGets DEF q3, Fields
<1>12. /\ Usable(q4) /\ Dom(q4) = Dom(t) /\ Root(q4) = Root(t)
       /\ \A x, g : g \in Fields => Get(q4, x, g) = IF x = c /\ g = "left" THEN l ELSE Get(q3, x, g)
  BY <1>1, <1>11, SetGets DEF q4, Fields
<1>13. /\ Usable(s) /\ Dom(s) = Dom(t) /\ Root(s) = Root(t)
       /\ \A x, g : g \in Fields => Get(s, x, g) = IF x = l /\ g = "parent" THEN c ELSE Get(q4, x, g)
  BY <1>1, <1>12, SetGets DEF s, Fields
<1>14. \A x, g : g \in {"color", "next"} => Get(s, x, g) = Get(t, x, g)
  BY <1>4, <1>5, <1>7, <1>8, <1>9, <1>10, <1>11, <1>12, <1>13 DEF Fields, Sides
<1>15. \A x : Get(s, x, "parent") = IF x = c THEN u ELSE IF x = n \/ x = l THEN c
                                    ELSE IF x = r /\ r # NULL THEN n ELSE Get(t, x, "parent")
  BY <1>1, <1>3, <1>4, <1>5, <1>7, <1>8, <1>9, <1>10, <1>11, <1>12, <1>13 DEF Fields, Sides
<1>16. /\ Get(s, c, "left") = l /\ Get(s, c, "right") = n
       /\ Get(s, n, "left") = NULL /\ Get(s, n, "right") = r
  BY <1>1, <1>3, <1>7, <1>8, <1>9, <1>10, <1>11, <1>12, <1>13 DEF Fields, Sides
<1>17. \A x, y : y \in Sides /\ x # c /\ x # n =>
         Get(s, x, y) = IF x = u /\ Get(t, x, y) = n THEN c ELSE Get(t, x, y)
  BY <1>1, <1>3, <1>4, <1>5, <1>7, <1>8, <1>9, <1>10, <1>11, <1>12, <1>13 DEF Fields, Sides
<1>18. Swapped(t, s, n)
  BY <1>d, <1>13, <1>14, <1>15, <1>16, <1>17 DEF Swapped, l, r, u
<1> QED BY <1>s, <1>13, <1>18, <1>d

-----------------------------------------------------------------------------
(* What holds of the tree between two steps.                                *)

\* A black node counts one.
Plain(t, H) == [a \in H |-> IF Get(t, a, "color") = BLACK THEN 1 ELSE 0]

\* The nodes of N: those of the tree and, after each, those of its key.
Listing(t, H, N, k, rank) ==
  /\ H \subseteq N /\ N \subseteq Dom(t) /\ rank \in [N -> Nat]
  /\ \A a \in N : Get(t, a, "next") # NULL =>
       Get(t, a, "next") \in N \ H /\ k[Get(t, a, "next")] = k[a]
  /\ \A a, b \in N : Get(t, a, "next") = Get(t, b, "next") /\ Get(t, a, "next") # NULL => a = b
  /\ \A a \in N \ H : \E b \in N : Get(t, b, "next") = a /\ rank[b] < rank[a]

\* The nodes of X may be out of order, those of R red under red, and w is what a node counts.
RedBlack(t, k, H, D, w, X, R) ==
  /\ IsTree(t, H, D) /\ Colored(t, H) /\ Ordered(t, H, D, k, X) /\ RedsApart(t, H, R)
  /\ \E bh : Weighted(t, H, bh, w)
\* The nodes N are the lists of the heads, in some ranking.
HasListing(t, H, N, k) == \E rank : Listing(t, H, N, k, rank)
\* A red-black tree whose heads have the nodes N in their lists.
Sound(t, k, N, H, D, w, X, R) == RedBlack(t, k, H, D, w, X, R) /\ HasListing(t, H, N, k)

\* The root, if there is one, is black.
RootBlack(t) == Root(t) # NULL => Get(t, Root(t), "color") = BLACK

\* The tree between two operations: nothing is out of order, the weights are
\* the colours, no red node has a red child.
AtRest(t, k, N, H, D) == Sound(t, k, N, H, D, Plain(t, H), {}, {}) /\ RootBlack(t)

\* The side on which the key of n is looked for below a.
Towards(k, n, a) == IF k[n] > k[a] THEN "right" ELSE "left"

\* An insertion on its way down: every head above op.cur sends the new key this
\* way and has another key.
Descending(t, k, N, H, D, o) ==
  /\ AtRest(t, k, N, H, D)
  /\ o.node \notin Dom(t) /\ o.node # NULL /\ k[o.node] \in Int
  /\ \/ o.parent = NULL /\ o.cur = Root(t)
     \/ /\ o.parent \in H /\ o.cur = Get(t, o.parent, Towards(k, o.node, o.parent))
        /\ \A a \in H : o.parent \in D[a] =>
             k[a] # k[o.node] /\ (a = o.parent \/ o.parent \in D[Get(t, a, Towards(k, o.node, a))])

\* An insertion being repaired: only op.cur may be red below a red parent.
Repairing(t, k, N, H, D, o) ==
  /\ Sound(t, k, N, H, D, Plain(t, H), {}, {o.cur})
  /\ o.cur \in H /\ (RootBlack(t) \/ o.cur = Root(t))

\* A red node that was swapped with a black leaf counts for it.
Borrowed(t, H, n) ==
  [a \in H |-> IF a = n THEN 1 ELSE IF a = Get(t, n, "parent") THEN 0 ELSE Plain(t, H)[a]]

\* A deletion that has swapped its node down.  The node may be out of order
\* and, if it is red and changed places with a black leaf, it counts for that
\* leaf and the leaf for it.
AfterSwap(t, k, N, H, D, n) ==
  /\ n # Root(t) /\ Get(t, n, "left") = NULL /\ Get(t, n, "next") = NULL
  /\ \/ Sound(t, k, N, H, D, Plain(t, H), {n}, {})
     \/ /\ Sound(t, k, N, H, D, Borrowed(t, H, n), {n}, {})
        /\ Get(t, n, "color") = RED /\ Get(t, n, "right") = NULL
        /\ Get(t, Get(t, n, "parent"), "color") = BLACK
        /\ \A y, z \in Sides : Get(t, Get(t, Get(t, n, "parent"), y), z) = NULL

\* A deletion that is to look at its node, before or after a swap.
Deleting(t, k, N, H, D, o) ==
  /\ o.node \in H /\ RootBlack(t)
  /\ Sound(t, k, N, H, D, Plain(t, H), {}, {}) \/ AfterSwap(t, k, N, H, D, o.node)

\* A deletion looking for the smallest node to the right of its own.
Seeking(t, k, N, H, D, o) ==
  /\ AtRest(t, k, N, H, D) /\ o.node \in H
  /\ Get(t, o.node, "left") # NULL /\ Get(t, o.node, "right") # NULL /\ Get(t, o.node, "next") = NULL
  /\ o.cur \in D[Get(t, o.node, "right")]

\* The leaf counts nothing any more, and the doubly black node one more.
Uncounted(t, H, n) == [a \in H |-> IF a = n THEN 0 ELSE Plain(t, H)[a]]
\* The weights while a black leaf is taken out: nothing on the leaf, and one
\* more on the node the missing black has been passed up to.
Doubled(t, H, n, c) == [a \in H |-> IF a = c THEN Uncounted(t, H, n)[a] + 1 ELSE Uncounted(t, H, n)[a]]

\* The node to be taken out is a leaf below op.parent, the last of its list.
LeafToGo(t, H, o) ==
  /\ RootBlack(t) /\ o.node \in H /\ o.node # Root(t) /\ o.parent = Get(t, o.node, "parent")
  /\ \A f \in {"left", "right", "next"} : Get(t, o.node, f) = NULL

\* The missing black is at op.cur, above the leaf or the leaf itself.
DoublyBlack(t, k, N, H, D, o) ==
  /\ Sound(t, k, N, H, D, Doubled(t, H, o.node, o.cur), {o.node}, {}) /\ LeafToGo(t, H, o)
  /\ Get(t, o.node, "color") = BLACK /\ o.cur \in H /\ Get(t, o.cur, "color") = BLACK
  /\ o.node \in D[o.cur]

\* Nothing is missing any more without the leaf, which only has to be unlinked.
Unlinking(t, k, N, H, D, o) ==
  Sound(t, k, N, H, D, Uncounted(t, H, o.node), {o.node}, {}) /\ LeafToGo(t, H, o)

\* The nodes that hang in no list: those that were leaked or taken, and the one
\* a finished deletion still holds.
Out(o, out) == IF o.pc \in {"deleted", "unlinked"} THEN out \cup {o.node} ELSE out

\* What holds of the tree by what the operation is about to do.
Phase(t, k, N, H, D, o) ==
  \/ o.pc = "idle" /\ AtRest(t, k, N, H, D)
  \/ o.pc \in {"deleted", "unlinked"} /\ o.node \in Dom(t) /\ AtRest(t, k, N, H, D)
  \/ o.pc = "descend" /\ Descending(t, k, N, H, D, o)
  \/ o.pc = "fixup" /\ Repairing(t, k, N, H, D, o)
  \/ o.pc = "delete" /\ Deleting(t, k, N, H, D, o)
  \/ o.pc = "smallest" /\ Seeking(t, k, N, H, D, o)
  \/ o.pc = "fixdb" /\ DoublyBlack(t, k, N, H, D, o)
  \/ o.pc = "unlink" /\ Unlinking(t, k, N, H, D, o)

\* op has its four fields.
OpRecord(o) == o = [pc |-> o.pc, node |-> o.node, cur |-> o.cur, parent |-> o.parent]

\* out are the nodes the tree has let go of.
Steady(t, k, out, o) ==
  /\ Usable(t) /\ IsFiniteSet(Dom(t)) /\ OpRecord(o) /\ out \subseteq Dom(t)
  /\ \E H, D : Phase(t, k, Dom(t) \ Out(o, out), H, D, o)

\* s is t as far as the nodes of H are concerned.
SameOn(t, s, H) ==
  /\ H \subseteq Dom(s) /\ Root(s) = Root(t)
  /\ \A x \in H, y \in {"parent", "left", "right", "color"} : Get(s, x, y) = Get(t, x, y)

\* Links that agree on the heads make the same tree, ...
LEMMA SameOnTree ==
  ASSUME NEW t, NEW s, NEW H, NEW D, SameOn(t, s, H), IsTree(t, H, D)
  PROVE  IsTree(s, H, D)
<1>1. /\ NULL \notin H /\ H \subseteq Dom(t)
      /\ Root(t) \in H \cup {NULL}
      /\ \A a \in H, y \in {"left", "right"} : Get(t, a, y) # NULL => Get(t, a, y) \in H
      /\ \A a \in H : a # Root(t) => Get(t, a, "parent") \in H
  BY DEF IsTree, IsTreeBy
<1>2. /\ H \subseteq Dom(s) /\ Root(s) = Root(t)
      /\ \A x \in H : /\ Get(s, x, "parent") = Get(t, x, "parent")
                       /\ Get(s, x, "left") = Get(t, x, "left")
                       /\ Get(s, x, "right") = Get(t, x, "right")
  BY DEF SameOn
<1>3. Root(s) # NULL => Get(s, Root(s), "parent") = NULL
  BY <1>1, <1>2 DEF IsTree, IsTreeBy
<1>4. \A a \in H : a # Root(s) =>
        /\ Get(s, a, "parent") \in H
        /\ a = Get(s, Get(s, a, "parent"), "left") \/ a = Get(s, Get(s, a, "parent"), "right")
  BY <1>1, <1>2 DEF IsTree, IsTreeBy
<1>5. \A a \in H, y \in {"left", "right"} : Get(s, a, y) # NULL =>
        Get(s, a, y) \in H /\ Get(s, Get(s, a, y), "parent") = a
  BY <1>1, <1>2 DEF IsTree, IsTreeBy
<1>6. /\ D \in [H \cup {NULL} -> SUBSET H] /\ D[NULL] = {}
      /\ Root(s) \in H \cup {NULL} /\ D[Root(s)] = H
  BY <1>2 DEF IsTree, IsTreeBy
<1>7. \A a \in H : a \in D[a] /\ a \notin D[Get(s, a, "left")] /\ a \notin D[Get(s, a, "right")]
  BY <1>2 DEF IsTree, IsTreeBy
<1>8. \A a, b \in H : b \in D[a] <=> b = a \/ b \in D[Get(s, a, "left")] \/ b \in D[Get(s, a, "right")]
  BY <1>2 DEF IsTree, IsTreeBy
<1>9. \A a, b \in H : b \notin D[Get(s, a, "left")] \/ b \notin D[Get(s, a, "right")]
  BY <1>2 DEF IsTree, IsTreeBy
<1>10. \A a, b \in H : b \in D[a] /\ b # a => Get(s, b, "parent") \in D[a]
  BY <1>2 DEF IsTree, IsTreeBy
<1>11. \A a, b, c \in H : b \in D[a] /\ c \in D[b] => c \in D[a]
  BY DEF IsTree, IsTreeBy
<1> QED BY <1>1, <1>2, <1>3, <1>4, <1>5, <1>6, <1>7, <1>8, <1>9, <1>10, <1>11, Zenon DEF IsTree, IsTreeBy

\* ... with the same colours ...
LEMMA SameOnPlain ==
  ASSUME NEW t, NEW s, NEW H, SameOn(t, s, H)
  PROVE  Plain(s, H) = Plain(t, H)
BY DEF SameOn, Plain

\* ... and as red-black as it was.
LEMMA SameOnRedBlack ==
  ASSUME NEW t, NEW s, NEW H, NEW D, NEW k, NEW w, NEW X, NEW R, SameOn(t, s, H),
         RedBlack(t, k, H, D, w, X, R)
  PROVE  RedBlack(s, k, H, D, w, X, R) /\ (RootBlack(t) => RootBlack(s))
<1>1. IsTree(t, H, D) /\ IsTree(s, H, D)
  BY SameOnTree DEF RedBlack
<1>2. /\ \A x \in H, y \in Sides : Get(s, x, y) = Get(t, x, y) /\ Get(s, x, y) \in H \cup {NULL}
      /\ \A x \in H : Get(s, x, "color") = Get(t, x, "color")
      /\ Root(s) = Root(t) /\ Root(t) \in H \cup {NULL}
  BY <1>1 DEF SameOn, Sides, IsTree, IsTreeBy
<1>3. Colored(s, H)
  BY <1>2 DEF RedBlack, Colored
<1>4. Ordered(s, H, D, k, X)
  BY <1>2 DEF RedBlack, Ordered
<1>5. RedsApart(s, H, R)
  BY <1>2 DEF RedBlack, RedsApart
<1>6. \E bh : Weighted(s, H, bh, w)
  <2>1. PICK bh : Weighted(t, H, bh, w)
    BY DEF RedBlack
  <2>2. Weighted(s, H, bh, w)
    BY <2>1, <1>2 DEF Weighted
  <2> QED BY <2>2
<1>7. RootBlack(t) => RootBlack(s)
  BY <1>2 DEF RootBlack
<1> QED BY <1>1, <1>3, <1>4, <1>5, <1>6, <1>7 DEF RedBlack

\* A node takes another's place in the tree.
LEMMA ReplaceRedBlack ==
  ASSUME NEW t, NEW s, NEW H, NEW D, NEW k, NEW a \in H, a # Root(t), NEW b \in Dom(t), b \notin H, b # NULL,
         RedBlack(t, k, H, D, Plain(t, H), {}, {}), RootBlack(t), Replaced(t, s, a, b), k[b] = k[a]
  PROVE  LET K == InPlace(H, a, b)
         IN  RedBlack(s, k, K, Instead(H, D, a, b), Plain(s, K), {}, {}) /\ RootBlack(s)
<1> DEFINE K == InPlace(H, a, b)
           E == Instead(H, D, a, b)
           o == [x \in K \cup {NULL} |-> IF x = b THEN a ELSE x]
<1>d. K = InPlace(H, a, b) /\ E = Instead(H, D, a, b) /\ o = [x \in K \cup {NULL} |-> IF x = b THEN a ELSE x]
  OBVIOUS
<1> HIDE DEF K, E, o
<1>0. IsTree(t, H, D) /\ Colored(t, H) /\ Ordered(t, H, D, k, {}) /\ RedsApart(t, H, {})
  BY DEF RedBlack
<1>1. ReplaceShape(t, s, H, D, a, b, K, E, o)
  BY <1>d, <1>0, ReplaceFacts
<1>2. IsTree(s, K, E) /\ Ordered(s, K, E, k, {})
  BY <1>d, <1>0, ReplaceTree, ReplaceOrdered
<1>3. \A x \in K : o[x] \in H /\ Get(s, x, "color") = Get(t, o[x], "color")
  BY <1>d DEF InPlace, Replaced
<1>4. \A x \in K, y \in Sides : Get(s, x, y) \in K \cup {NULL} /\ o[Get(s, x, y)] = Get(t, o[x], y)
  BY <1>1 DEF ReplaceShape
<1>n. NULL \notin H /\ o[NULL] = NULL /\ \A x \in K : o[x] # NULL
  BY <1>d, <1>0, <1>3 DEF IsTree, IsTreeBy
<1>5. Colored(s, K)
  BY <1>0, <1>3 DEF Colored
<1>6. RedsApart(s, K, {})
  <2>1. ASSUME NEW x \in K, NEW y \in Sides, Get(s, x, "color") = RED, Get(s, x, y) # NULL
        PROVE  Get(s, Get(s, x, y), "color") = BLACK
    <3>1. Get(s, x, y) \in K /\ Get(t, o[x], "color") = RED /\ Get(t, o[x], y) # NULL
      BY <2>1, <1>3, <1>4, <1>n
    <3>2. Get(t, Get(t, o[x], y), "color") = BLACK
      BY <3>1, <1>0, <1>3 DEF RedsApart
    <3> QED BY <3>1, <3>2, <1>3, <1>4
  <2> QED BY <2>1 DEF RedsApart
<1>7. \E B : Weighted(s, K, B, Plain(s, K))
  <2>1. PICK bh : Weighted(t, H, bh, Plain(t, H))
    BY DEF RedBlack
  <2> DEFINE B == [x \in K \cup {NULL} |-> bh[o[x]]]
  <2>2. bh \in [H \cup {NULL} -> Nat] /\ bh[NULL] = 0
    BY <2>1 DEF Weighted
  <2>3. B \in [K \cup {NULL} -> Nat] /\ B[NULL] = 0
    BY <2>2, <1>3, <1>n
  <2>4. Plain(s, K) \in [K -> Nat]
    BY DEF Plain
  <2>5. \A x \in H \ {a} : B[x] = bh[x] /\ Plain(s, K)[x] = Plain(t, H)[x]
    BY <1>d, <1>3 DEF Plain, InPlace
  <2>6. B[b] = bh[a] /\ Plain(s, K)[b] = Plain(t, H)[a]
    BY <1>d, <1>3 DEF Plain, InPlace
  <2> HIDE DEF B
  <2>7. Weighted(s, K, B, Plain(s, K))
    <3> DEFINE v == Plain(s, K)
               w == Plain(t, H)
    <3>1. ReplaceCounts(H, a, b, bh, w, B, v) /\ Weighted(t, H, bh, w)
      BY <2>1, <2>3, <2>4, <2>5, <2>6, <1>d DEF ReplaceCounts
    <3> HIDE DEF v, w
    <3>2. Weighted(s, InPlace(H, a, b), B, v)
      BY <3>1, <1>0, ReplaceWeighted
    <3> QED BY <3>2, <1>d DEF v
  <2> QED BY <2>7
<1>8. RootBlack(s)
  <2>1. Root(s) = Root(t) /\ Root(t) # b
    BY <1>0 DEF Replaced, IsTree, IsTreeBy
  <2> QED BY <2>1 DEF Replaced, RootBlack
<1> QED BY <1>2, <1>5, <1>6, <1>7, <1>8, <1>d DEF RedBlack

-----------------------------------------------------------------------------
(* The lists.                                                               *)

\* The lists are the same lists when the links between them and the keys are.
LEMMA SameListing ==
  ASSUME NEW t, NEW s, NEW H, NEW N, NEW k, NEW m, HasListing(t, H, N, k), N \subseteq Dom(s),
         \A x \in N : Get(s, x, "next") = Get(t, x, "next") /\ m[x] = k[x]
  PROVE  HasListing(s, H, N, m)
<1>1. PICK rank : Listing(t, H, N, k, rank)
  BY DEF HasListing
<1>2. Listing(s, H, N, m, rank)
  BY <1>1 DEF Listing
<1> QED BY <1>2 DEF HasListing

\* A new node in front of a head's list, which is how an equal key goes in
\* (PushEqual), makes it the head.
LEMMA ListingPush ==
  ASSUME NEW t, NEW s, NEW H, NEW N, NEW k, HasListing(t, H, N, k), NEW a \in H, NEW b, b \notin N,
         b # NULL, a # NULL, N \cup {b} \subseteq Dom(s), k[b] = k[a], Get(s, b, "next") = a,
         \A x \in N : Get(s, x, "next") = Get(t, x, "next")
  PROVE  HasListing(s, InPlace(H, a, b), N \cup {b}, k)
<1>1. PICK rank : Listing(t, H, N, k, rank)
  BY DEF HasListing
<1> DEFINE K == InPlace(H, a, b)
           M == N \cup {b}
           r == [x \in M |-> IF x = b THEN 0 ELSE rank[x] + 1]
<1>2. /\ H \subseteq N /\ rank \in [N -> Nat]
      /\ \A x \in N : Get(t, x, "next") # NULL =>
           Get(t, x, "next") \in N \ H /\ k[Get(t, x, "next")] = k[x]
      /\ \A x, y \in N : Get(t, x, "next") = Get(t, y, "next") /\ Get(t, x, "next") # NULL => x = y
      /\ \A x \in N \ H : \E y \in N : Get(t, y, "next") = x /\ rank[y] < rank[x]
  BY <1>1 DEF Listing
<1>3. K \subseteq M /\ M \subseteq Dom(s) /\ r \in [M -> Nat]
  BY <1>2 DEF InPlace
<1>4. \A x \in M : Get(s, x, "next") # NULL =>
        Get(s, x, "next") \in M \ K /\ k[Get(s, x, "next")] = k[x]
  BY <1>2 DEF InPlace
<1>5. \A x, y \in M : Get(s, x, "next") = Get(s, y, "next") /\ Get(s, x, "next") # NULL => x = y
  BY <1>2
<1>6. ASSUME NEW x \in M \ K PROVE \E y \in M : Get(s, y, "next") = x /\ r[y] < r[x]
  <2>1. CASE x = a
    <3>1. b \in M /\ r[b] = 0 /\ r[x] = rank[x] + 1 /\ rank[x] \in Nat
      BY <2>1, <1>2
    <3> QED BY <3>1, <2>1
  <2>2. CASE x # a
    <3>1. x \in N \ H
      BY <2>2 DEF InPlace
    <3>2. PICK y \in N : Get(t, y, "next") = x /\ rank[y] < rank[x]
      BY <3>1, <1>2
    <3>3. r[y] = rank[y] + 1 /\ r[x] = rank[x] + 1 /\ rank[x] \in Nat /\ rank[y] \in Nat
      BY <3>1, <3>2, <1>2
    <3> QED BY <3>2, <3>3
  <2> QED BY <2>1, <2>2
<1> HIDE DEF r
<1>7. Listing(s, K, M, k, r)
  BY <1>3, <1>4, <1>5, <1>6 DEF Listing
<1> QED BY <1>7 DEF HasListing

\* The head of a list goes and the second node takes its place (UnlinkHead).
LEMMA ListingUnlink ==
  ASSUME NEW t, NEW s, NEW H, NEW N, NEW k, HasListing(t, H, N, k), NEW a \in H, NEW b,
         b = Get(t, a, "next"), b # NULL, N \ {a} \subseteq Dom(s),
         \A x \in N \ {a} : Get(s, x, "next") = Get(t, x, "next")
  PROVE  HasListing(s, InPlace(H, a, b), N \ {a}, k)
<1>1. PICK rank : Listing(t, H, N, k, rank)
  BY DEF HasListing
<1> DEFINE K == InPlace(H, a, b)
           M == N \ {a}
           r == [x \in M |-> rank[x]]
<1>2. /\ H \subseteq N /\ rank \in [N -> Nat]
      /\ \A x \in N : Get(t, x, "next") # NULL =>
           Get(t, x, "next") \in N \ H /\ k[Get(t, x, "next")] = k[x]
      /\ \A x, y \in N : Get(t, x, "next") = Get(t, y, "next") /\ Get(t, x, "next") # NULL => x = y
      /\ \A x \in N \ H : \E y \in N : Get(t, y, "next") = x /\ rank[y] < rank[x]
  BY <1>1 DEF Listing
<1>3. K \subseteq M /\ M \subseteq Dom(s) /\ r \in [M -> Nat]
  BY <1>2 DEF InPlace
<1>4. \A x \in M : Get(s, x, "next") # NULL =>
        Get(s, x, "next") \in M \ K /\ k[Get(s, x, "next")] = k[x]
  BY <1>2 DEF InPlace
<1>5. \A x, y \in M : Get(s, x, "next") = Get(s, y, "next") /\ Get(s, x, "next") # NULL => x = y
  BY <1>2
<1>6. ASSUME NEW x \in M \ K PROVE \E y \in M : Get(s, y, "next") = x /\ r[y] < r[x]
  <2>1. x \in N \ H /\ x # b
    BY DEF InPlace
  <2>2. PICK y \in N : Get(t, y, "next") = x /\ rank[y] < rank[x]
    BY <2>1, <1>2
  <2> QED BY <2>1, <2>2
<1> HIDE DEF r
<1>7. Listing(s, K, M, k, r)
  BY <1>3, <1>4, <1>5, <1>6 DEF Listing
<1> QED BY <1>7 DEF HasListing

\* A new head with no list behind it.
LEMMA ListingAttach ==
  ASSUME NEW t, NEW s, NEW H, NEW N, NEW k, HasListing(t, H, N, k), NEW n, n \notin N,
         N \cup {n} \subseteq Dom(s), Get(s, n, "next") = NULL,
         \A x \in N : Get(s, x, "next") = Get(t, x, "next")
  PROVE  HasListing(s, H \cup {n}, N \cup {n}, k)
<1>1. PICK rank : Listing(t, H, N, k, rank)
  BY DEF HasListing
<1> DEFINE r == [x \in N \cup {n} |-> IF x = n THEN 0 ELSE rank[x]]
<1>2. Listing(s, H \cup {n}, N \cup {n}, k, r)
  BY <1>1 DEF Listing
<1> QED BY <1>2 DEF HasListing

\* A head with no list behind it goes.
LEMMA ListingRemove ==
  ASSUME NEW t, NEW s, NEW H, NEW N, NEW k, HasListing(t, H, N, k), NEW n \in H,
         Get(t, n, "next") = NULL, N \ {n} \subseteq Dom(s), NULL \notin N,
         \A x \in N \ {n} : Get(s, x, "next") = Get(t, x, "next")
  PROVE  HasListing(s, H \ {n}, N \ {n}, k)
<1>1. PICK rank : Listing(t, H, N, k, rank)
  BY DEF HasListing
<1> DEFINE r == [x \in N \ {n} |-> rank[x]]
           M == N \ {n}
<1>2. /\ H \subseteq N /\ rank \in [N -> Nat]
      /\ \A x \in N : Get(t, x, "next") # NULL =>
           Get(t, x, "next") \in N \ H /\ k[Get(t, x, "next")] = k[x]
      /\ \A x, y \in N : Get(t, x, "next") = Get(t, y, "next") /\ Get(t, x, "next") # NULL => x = y
      /\ \A x \in N \ H : \E y \in N : Get(t, y, "next") = x /\ rank[y] < rank[x]
  BY <1>1 DEF Listing
<1>3. H \ {n} \subseteq M /\ M \subseteq Dom(s) /\ r \in [M -> Nat]
  BY <1>2
<1>4. \A x \in M : Get(s, x, "next") # NULL =>
        Get(s, x, "next") \in M \ (H \ {n}) /\ k[Get(s, x, "next")] = k[x]
  BY <1>2
<1>5. \A x, y \in M : Get(s, x, "next") = Get(s, y, "next") /\ Get(s, x, "next") # NULL => x = y
  BY <1>2
<1>6. ASSUME NEW x \in M \ (H \ {n}) PROVE \E y \in M : Get(s, y, "next") = x /\ r[y] < r[x]
  <2>1. x \in N \ H /\ x # n
    OBVIOUS
  <2>2. PICK y \in N : Get(t, y, "next") = x /\ rank[y] < rank[x]
    BY <2>1, <1>2
  <2>3. x # NULL
    OBVIOUS
  <2> QED BY <2>1, <2>2, <2>3
<1> HIDE DEF r
<1>7. Listing(s, H \ {n}, M, k, r)
  BY <1>3, <1>4, <1>5, <1>6 DEF Listing
<1> QED BY <1>7 DEF HasListing

-----------------------------------------------------------------------------
(* The steps.                                                               *)

\* The record between two operations.
LEMMA IdleParts ==
  Idle.pc = "idle" /\ OpRecord(Idle) /\ Idle.node = NULL
BY DEF Idle, OpRecord

\* A tree at rest is steady with nothing under way.
LEMMA RestSteady ==
  ASSUME NEW s, NEW k, NEW out, NEW H, NEW D, Usable(s), IsFiniteSet(Dom(s)), out \subseteq Dom(s),
         AtRest(s, k, Dom(s) \ out, H, D)
  PROVE  Steady(s, k, out, Idle)
BY IdleParts DEF Steady, Phase, Out

\* What Steady says, read off.
LEMMA SteadyParts ==
  ASSUME NEW t, NEW k, NEW out, NEW o, Steady(t, k, out, o)
  PROVE  /\ Usable(t) /\ IsFiniteSet(Dom(t)) /\ OpRecord(o) /\ out \subseteq Dom(t) /\ NULL \notin Dom(t)
         /\ \E H, D : Phase(t, k, Dom(t) \ Out(o, out), H, D, o)
BY DEF Steady, Usable

\* Inserting a key that is in the tree, below its root, replaces the head of
\* its list.  At the root it damages the tree (whole').
LEMMA PushEqualSteady ==
  ASSUME NEW out, Steady(Tree, key, out, op), PushEqual, whole'
  PROVE  Steady(Tree', key', out, op')
<1>0. op.pc = "descend" /\ op.cur # NULL /\ key[op.node] = key[op.cur] /\ op.cur # root
  BY DEF PushEqual, At
<1>1. PICK H, D : Phase(Tree, key, Dom(Tree) \ Out(op, out), H, D, op)
  BY SteadyParts
<1> DEFINE N == Dom(Tree) \ out
           n == op.node
           a == op.cur
           t0 == WithNode
           t1 == TakePlace(t0, a, n)
           s == Set(t1, n, "next", a)
           K == InPlace(H, a, n)
           E == Instead(H, D, a, n)
<1>2. Descending(Tree, key, N, H, D, op)
  BY <1>0, <1>1 DEF Phase, Out
<1>3. /\ RedBlack(Tree, key, H, D, Plain(Tree, H), {}, {}) /\ HasListing(Tree, H, N, key) /\ RootBlack(Tree)
      /\ n \notin Dom(Tree) /\ n # NULL
      /\ IsTree(Tree, H, D)
  BY <1>2 DEF Descending, AtRest, Sound, RedBlack
<1>4. Usable(Tree) /\ IsFiniteSet(Dom(Tree)) /\ out \subseteq Dom(Tree)
  BY SteadyParts
<1>5. a \in H /\ H \subseteq Dom(Tree) /\ n \notin H /\ a # Root(Tree)
  <2>1. H \subseteq Dom(Tree) /\ Root(Tree) \in H \cup {NULL}
        /\ \A x \in H, y \in Sides : Get(Tree, x, y) \in H \cup {NULL}
    BY <1>3 DEF IsTree, IsTreeBy, Sides
  <2>2. a \in H \cup {NULL}
    BY <1>2, <2>1 DEF Descending, Towards, Sides
  <2> QED BY <2>1, <2>2, <1>0, <1>3 DEF Root, Tree
<1>6. PushEqual => Becomes(s, Idle)
  BY DEF PushEqual
<1> HIDE DEF n, a, t0
<1>7. /\ Usable(t0) /\ Dom(t0) = Dom(Tree) \cup {n} /\ Root(t0) = Root(Tree)
      /\ \A b, g : b # n => Get(t0, b, g) = Get(Tree, b, g)
  BY <1>3, <1>4, WithNodeGets DEF n, t0
<1>8. SameOn(Tree, t0, H)
  BY <1>5, <1>7 DEF SameOn
<1>9. RedBlack(t0, key, H, D, Plain(t0, H), {}, {}) /\ RootBlack(t0) /\ IsTree(t0, H, D)
  BY <1>3, <1>8, SameOnRedBlack, SameOnPlain, SameOnTree
<1>10. /\ Usable(t1) /\ Replaced(t0, t1, a, n) /\ \A x : Get(t1, x, "next") = Get(t0, x, "next")
  BY <1>3, <1>5, <1>7, <1>9, TakePlaceIs
<1>11. Dom(t1) = Dom(t0)
  BY <1>10 DEF Replaced
<1>12. RedBlack(t1, key, K, E, Plain(t1, K), {}, {}) /\ RootBlack(t1)
  <2>1. key[n] = key[a]
    BY <1>0 DEF n, a
  <2> QED BY <2>1, <1>3, <1>5, <1>7, <1>9, <1>10, ReplaceRedBlack
<1> HIDE DEF t1, K, E
<1>13. /\ Usable(s) /\ Dom(s) = Dom(t1) /\ Root(s) = Root(t1)
       /\ \A b, g : g \in Fields => Get(s, b, g) = IF b = n /\ g = "next" THEN a ELSE Get(t1, b, g)
  BY <1>7, <1>10, <1>11, SetGets DEF Fields
<1> HIDE DEF s
<1>14. SameOn(t1, s, K)
  <2>1. K \subseteq Dom(t1)
    BY <1>5, <1>7, <1>11 DEF K, InPlace
  <2> QED BY <2>1, <1>13 DEF SameOn, Fields
<1>15. RedBlack(s, key, K, E, Plain(s, K), {}, {}) /\ RootBlack(s)
  BY <1>12, <1>14, SameOnRedBlack, SameOnPlain
<1>16. HasListing(s, K, N \cup {n}, key)
  <2>1. N \cup {n} \subseteq Dom(s) /\ n \notin N /\ key[n] = key[a] /\ a # NULL
    BY <1>0, <1>3, <1>7, <1>11, <1>13 DEF n, a
  <2>2. Get(s, n, "next") = a /\ \A x \in N : Get(s, x, "next") = Get(Tree, x, "next")
    BY <2>1, <1>7, <1>10, <1>13 DEF Fields
  <2> QED BY <2>1, <2>2, <1>3, <1>5, ListingPush DEF K
<1>17. N \cup {n} = Dom(s) \ out /\ out \subseteq Dom(s) /\ IsFiniteSet(Dom(s))
  BY <1>3, <1>4, <1>7, <1>11, <1>13, FS_AddElement
<1>18. Steady(s, key, out, Idle)
  BY <1>13, <1>15, <1>16, <1>17, RestSteady DEF AtRest, Sound
<1>19. Tree' = s /\ op' = Idle /\ key' = key
  BY <1>6, <1>13, BecomesTree
<1> QED BY <1>18, <1>19

\* The first node of a tree.
LEMMA AttachRootSteady ==
  ASSUME NEW out, Steady(Tree, key, out, op), AttachRoot
  PROVE  Steady(Tree', key', out, op')
<1>0. op.pc = "descend" /\ op.cur = NULL /\ op.parent = NULL
  BY DEF AttachRoot, At
<1>1. PICK H, D : Phase(Tree, key, Dom(Tree) \ Out(op, out), H, D, op)
  BY SteadyParts
<1> DEFINE N == Dom(Tree) \ out
           n == op.node
           t0 == WithNode
           s == SetRoot(t0, n)
           K == H \cup {n}
           E == [x \in K \cup {NULL} |-> IF x = n THEN {n} ELSE {}]
           B == [x \in K \cup {NULL} |-> IF x = n THEN 1 ELSE 0]
<1>2. Descending(Tree, key, N, H, D, op)
  BY <1>0, <1>1 DEF Phase, Out
<1>3. /\ HasListing(Tree, H, N, key) /\ IsTree(Tree, H, D)
      /\ n \notin Dom(Tree) /\ n # NULL /\ key[n] \in Int
  BY <1>2 DEF Descending, AtRest, Sound, RedBlack
<1>4. Usable(Tree) /\ IsFiniteSet(Dom(Tree)) /\ out \subseteq Dom(Tree) /\ NULL \notin Dom(Tree)
  BY SteadyParts
<1>5. H = {} /\ K = {n}
  <2>1. Root(Tree) = NULL
    BY <1>0, <1>2, <1>4, <1>3 DEF Descending, IsTree, IsTreeBy
  <2> QED BY <2>1, <1>3 DEF IsTree, IsTreeBy
<1>6. AttachRoot => Becomes(s, Idle)
  BY DEF AttachRoot
<1> HIDE DEF n, t0
<1>7. /\ Usable(t0) /\ Dom(t0) = Dom(Tree) \cup {n}
      /\ \A g \in Fields : Get(t0, n, g) = 0
      /\ \A b, g : b # n => Get(t0, b, g) = Get(Tree, b, g)
  BY <1>3, <1>4, WithNodeGets DEF n, t0
<1>8. /\ Usable(s) /\ Dom(s) = Dom(t0) /\ Root(s) = n
      /\ \A b, g : Get(s, b, g) = Get(t0, b, g)
  BY <1>7, SetRootGets
<1> HIDE DEF s
<1>9. \A g \in Fields : Get(s, n, g) = 0
  BY <1>7, <1>8
<1>10. IsTree(s, K, E)
  BY <1>3, <1>5, <1>7, <1>8, <1>9 DEF IsTree, IsTreeBy, Fields, NULL
<1>11. Colored(s, K) /\ RedsApart(s, K, {}) /\ RootBlack(s)
  BY <1>5, <1>8, <1>9 DEF Colored, RedsApart, RootBlack, Fields, BLACK, RED
<1>12. Ordered(s, K, E, key, {})
  <2>1. \A y \in Sides : E[Get(s, n, y)] = {}
    BY <1>3, <1>9 DEF Sides, Fields, NULL
  <2> HIDE DEF E
  <2> QED BY <2>1, <1>3, <1>5 DEF Ordered
<1>13. Weighted(s, K, B, Plain(s, K))
  <2>1. Plain(s, K) = [x \in K |-> 1]
    BY <1>5, <1>9 DEF Plain, Fields, BLACK
  <2>2. \A y \in Sides : Get(s, n, y) = NULL
    BY <1>9 DEF Sides, Fields, NULL
  <2>3. B \in [K \cup {NULL} -> Nat] /\ B[NULL] = 0 /\ B[n] = 1
    BY <1>3
  <2> DEFINE v == Plain(s, K)
  <2>4. v \in [K -> Nat] /\ v[n] = 1
    BY <2>1
  <2> HIDE DEF B, v
  <2>5. \A a \in K, y \in Sides : B[a] = B[Get(s, a, y)] + v[a]
    BY <2>2, <2>3, <2>4, <1>5
  <2>6. Weighted(s, K, B, v)
    BY <2>3, <2>4, <2>5 DEF Weighted
  <2> QED BY <2>6 DEF v
<1> HIDE DEF E, B
<1>14. HasListing(s, K, N \cup {n}, key)
  <2>1. N \cup {n} \subseteq Dom(s) /\ n \notin N
    BY <1>3, <1>7, <1>8
  <2>2. Get(s, n, "next") = NULL /\ \A x \in N : Get(s, x, "next") = Get(Tree, x, "next")
    BY <2>1, <1>7, <1>8, <1>9 DEF Fields, NULL
  <2> QED BY <2>1, <2>2, <1>3, ListingAttach
<1>15. N \cup {n} = Dom(s) \ out /\ out \subseteq Dom(s) /\ IsFiniteSet(Dom(s))
  BY <1>3, <1>4, <1>7, <1>8, FS_AddElement
<1>16. Steady(s, key, out, Idle)
  BY <1>8, <1>10, <1>11, <1>12, <1>13, <1>14, <1>15, RestSteady DEF AtRest, Sound, RedBlack
<1>17. Tree' = s /\ op' = Idle /\ key' = key
  BY <1>6, <1>8, BecomesTree
<1> QED BY <1>16, <1>17

\* A new leaf: red, below the head the descent ended at.
LEMMA AttachSteady ==
  ASSUME NEW out, Steady(Tree, key, out, op), Attach
  PROVE  Steady(Tree', key', out, op')
<1>0. op.pc = "descend" /\ op.cur = NULL /\ op.parent # NULL
  BY DEF Attach, At
<1>1. PICK H, D : Phase(Tree, key, Dom(Tree) \ Out(op, out), H, D, op)
  BY SteadyParts
<1> DEFINE N == Dom(Tree) \ out
           n == op.node
           u == op.parent
           f == IF key[op.node] > key[op.parent] THEN "right" ELSE "left"
           s == Set(Set(Set(WithNode, n, "parent", u), n, "color", RED), u, f, n)
           o == IF Field(u, "parent") = NULL THEN Idle ELSE [op EXCEPT !.pc = "fixup", !.cur = n]
           K == H \cup {n}
           E == With(H, D, n, u)
<1>2. Descending(Tree, key, N, H, D, op)
  BY <1>0, <1>1 DEF Phase, Out
<1>3. /\ HasListing(Tree, H, N, key) /\ IsTree(Tree, H, D) /\ Colored(Tree, H)
      /\ Ordered(Tree, H, D, key, {}) /\ RedsApart(Tree, H, {}) /\ RootBlack(Tree)
      /\ \E bh : Weighted(Tree, H, bh, Plain(Tree, H))
      /\ n \notin Dom(Tree) /\ n # NULL /\ key[n] \in Int
  BY <1>2 DEF Descending, AtRest, Sound, RedBlack
<1>4. Usable(Tree) /\ IsFiniteSet(Dom(Tree)) /\ out \subseteq Dom(Tree) /\ NULL \notin Dom(Tree) /\ OpRecord(op)
  BY SteadyParts
<1>5. /\ u \in H /\ f \in Sides /\ Get(Tree, u, f) = NULL
      /\ \A a \in H : u \in D[a] =>
           key[a] # key[n] /\ (a = u \/ u \in D[Get(Tree, a, Towards(key, n, a))])
  BY <1>0, <1>2 DEF Descending, Towards, Sides
<1>6. Becomes(s, o)
  BY DEF Attach
<1>7. H \subseteq Dom(Tree) /\ n \notin H /\ u \in Dom(Tree) /\ NULL \notin H
  BY <1>3, <1>5 DEF IsTree, IsTreeBy
<1>o. /\ Field(u, "parent") = NULL => o = Idle
      /\ Field(u, "parent") # NULL => o.pc = "fixup" /\ o.cur = n /\ OpRecord(o)
  BY <1>4 DEF OpRecord
<1>8. Usable(s) /\ Attached(Tree, s, n, u, f)
  BY <1>3, <1>4, <1>5, <1>7, AttachIs
<1>f. f = Towards(key, n, u)
  BY DEF Towards
<1> HIDE DEF n, u, f, s, o
<1>9. /\ Dom(s) = Dom(Tree) \cup {n} /\ Root(s) = Root(Tree)
      /\ \A x, y : y \in Sides => Get(s, x, y) = IF x = u /\ y = f THEN n ELSE Get(Tree, x, y)
      /\ \A x : Get(s, x, "color") = IF x = n THEN RED ELSE Get(Tree, x, "color")
      /\ \A x : Get(s, x, "next") = Get(Tree, x, "next")
  BY <1>8 DEF Attached
<1>10. IsTree(s, K, E)
  BY <1>3, <1>5, <1>7, <1>8, AttachTree
<1>11. Ordered(s, K, E, key, {})
  <2>1. \A x \in H, y \in Sides : Get(Tree, x, y) # NULL => Get(Tree, x, y) \in H
    BY <1>3 DEF IsTree, IsTreeBy, Sides
  <2>2. /\ D \in [H \cup {NULL} -> SUBSET H] /\ D[NULL] = {}
        /\ \A x \in H : x \in D[x] /\ x \notin D[Get(Tree, x, "left")] /\ x \notin D[Get(Tree, x, "right")]
        /\ \A x, y \in H : y \in D[x] <=> y = x \/ y \in D[Get(Tree, x, "left")] \/ y \in D[Get(Tree, x, "right")]
        /\ \A x, y \in H : y \notin D[Get(Tree, x, "left")] \/ y \notin D[Get(Tree, x, "right")]
    BY <1>3 DEF IsTree, IsTreeBy
  <2>3. \A x \in H : key[x] \in Int
    BY <1>3 DEF Ordered
  <2>4. \A a \in H : key[a] # key[n] => Beside(key, Towards(key, n, a), a, n)
    BY <2>3, <1>3 DEF Beside, Towards
  <2>5. Beside(key, f, u, n)
    BY <2>2, <2>4, <1>5, <1>f
  <2>6. ASSUME NEW a \in H, NEW y \in Sides, u \in D[Get(Tree, a, y)]
        PROVE  Beside(key, y, a, n)
    <3>1. u \in D[a] /\ a # u
      BY <2>2, <2>6, <1>5 DEF Sides
    <3>2. key[a] # key[n] /\ u \in D[Get(Tree, a, Towards(key, n, a))]
      BY <3>1, <1>5
    <3>3. y = Towards(key, n, a)
      BY <3>2, <2>2, <2>6, <1>5 DEF Sides, Towards
    <3> QED BY <3>2, <3>3, <2>4
  <2> QED BY <2>5, <2>6, <1>3, <1>5, <1>7, <1>8, AttachOrdered
<1>12. Colored(s, K)
  BY <1>3, <1>9 DEF Colored
<1>13. RedsApart(s, K, {n})
  <2>1. ASSUME NEW x \in K, NEW y \in Sides, Get(s, x, "color") = RED, Get(s, x, y) # NULL, Get(s, x, y) # n
        PROVE  Get(s, Get(s, x, y), "color") = BLACK
    <3>1. Get(s, x, y) = Get(Tree, x, y)
      BY <2>1, <1>9
    <3>2. x # n
      BY <3>1, <2>1, <1>3, GetOutside
    <3> QED BY <3>1, <3>2, <2>1, <1>3, <1>9 DEF RedsApart
  <2> QED BY <2>1 DEF RedsApart
<1>14. \E B : Weighted(s, K, B, Plain(s, K))
  <2>1. PICK bh : Weighted(Tree, H, bh, Plain(Tree, H))
    BY <1>3
  <2> DEFINE B == [x \in K \cup {NULL} |-> IF x = n THEN 0 ELSE bh[x]]
             v == Plain(s, K)
             w == Plain(Tree, H)
  <2>2. bh \in [H \cup {NULL} -> Nat] /\ bh[NULL] = 0
    BY <2>1 DEF Weighted
  <2>3. /\ B \in [(H \cup {n}) \cup {NULL} -> Nat] /\ B[NULL] = 0 /\ B[n] = 0
        /\ \A x \in H : B[x] = bh[x]
    BY <2>2, <1>3, <1>7
  <2>4. v \in [H \cup {n} -> Nat] /\ v[n] = 0 /\ \A x \in H : v[x] = w[x]
    BY <1>7, <1>9 DEF Plain, RED, BLACK
  <2> HIDE DEF B, v, w
  <2>5. Weighted(Tree, H, bh, w)
    BY <2>1 DEF w
  <2>c. AttachCounts(H, n, bh, w, B, v)
    BY <2>3, <2>4 DEF AttachCounts
  <2>6. Weighted(s, H \cup {n}, B, v)
    BY <2>c, <2>5, <1>3, <1>5, <1>7, <1>8, AttachWeighted
  <2> QED BY <2>6 DEF v
<1>15. RootBlack(s)
  BY <1>3, <1>7, <1>9 DEF RootBlack, IsTree, IsTreeBy
<1>16. HasListing(s, K, N \cup {n}, key)
  <2>1. N \cup {n} \subseteq Dom(s) /\ n \notin N
    BY <1>3, <1>9
  <2>2. Get(s, n, "next") = NULL
    BY <1>3, <1>9, GetOutside
  <2> QED BY <2>1, <2>2, <1>3, <1>9, ListingAttach
<1>17. N \cup {n} = Dom(s) \ out /\ out \subseteq Dom(s) /\ IsFiniteSet(Dom(s))
  BY <1>3, <1>4, <1>9, FS_AddElement
<1> HIDE DEF E
<1>18. CASE Field(u, "parent") = NULL
  <2>1. Get(s, u, "color") = BLACK
    <3>1. Get(Tree, u, "parent") = NULL
      BY <1>18 DEF Field
    <3>2. u = Root(Tree)
      BY <3>1, <1>3, <1>5, <1>7 DEF IsTree, IsTreeBy
    <3> QED BY <3>2, <1>15, <1>5, <1>7, <1>9 DEF RootBlack
  <2>2. RedsApart(s, K, {})
    <3>1. ASSUME NEW x \in K, NEW y \in Sides, Get(s, x, "color") = RED, Get(s, x, y) = n
          PROVE  FALSE
      <4>1. x # u
        BY <2>1, <3>1 DEF RED, BLACK
      <4>2. Get(Tree, x, y) = n
        BY <4>1, <3>1, <1>9
      <4>3. x # n
        BY <4>2, <1>3, GetOutside
      <4> QED BY <4>2, <4>3, <1>3, <1>7 DEF IsTree, IsTreeBy, Sides
    <3> QED BY <3>1, <1>13 DEF RedsApart
  <2>3. Steady(s, key, out, Idle)
    BY <2>2, <1>8, <1>10, <1>11, <1>12, <1>14, <1>15, <1>16, <1>17, RestSteady DEF AtRest, Sound, RedBlack
  <2> QED BY <2>3, <1>6, <1>8, <1>18, <1>o, BecomesTree
<1>19. CASE Field(u, "parent") # NULL
  <2>1. o.pc = "fixup" /\ o.cur = n /\ OpRecord(o)
    BY <1>19, <1>o
  <2>2. Repairing(s, key, N \cup {n}, K, E, o)
    BY <2>1, <1>10, <1>11, <1>12, <1>13, <1>14, <1>15, <1>16 DEF Repairing, Sound, RedBlack
  <2>3. Steady(s, key, out, o)
    BY <2>1, <2>2, <1>8, <1>17 DEF Steady, Phase, Out
  <2> QED BY <2>3, <1>6, <1>8, BecomesTree
<1> QED BY <1>18, <1>19

\* Deleting the head of a list of several, below the root.
LEMMA UnlinkHeadSteady ==
  ASSUME NEW out, Steady(Tree, key, out, op), UnlinkHead, whole'
  PROVE  Steady(Tree', key', out, op')
<1>0. op.pc = "delete" /\ Get(Tree, op.node, "next") # NULL /\ op.node # root
  BY DEF UnlinkHead, At, Field
<1>1. PICK H, D : Phase(Tree, key, Dom(Tree) \ Out(op, out), H, D, op)
  BY SteadyParts
<1> DEFINE N == Dom(Tree) \ out
           a == op.node
           b == Get(Tree, a, "next")
           s == TakePlace(Tree, a, b)
           o == [op EXCEPT !.pc = "unlinked"]
           K == InPlace(H, a, b)
           E == Instead(H, D, a, b)
<1>2. Deleting(Tree, key, N, H, D, op)
  BY <1>0, <1>1 DEF Phase, Out
<1>3. /\ RedBlack(Tree, key, H, D, Plain(Tree, H), {}, {}) /\ HasListing(Tree, H, N, key) /\ RootBlack(Tree)
      /\ a \in H /\ IsTree(Tree, H, D)
  BY <1>0, <1>2 DEF Deleting, AfterSwap, Sound, RedBlack
<1>4. Usable(Tree) /\ IsFiniteSet(Dom(Tree)) /\ out \subseteq Dom(Tree) /\ OpRecord(op)
  BY SteadyParts
<1>5. a # Root(Tree) /\ b # NULL
  BY <1>0 DEF Root, Tree
<1>6. Becomes(s, o)
  BY DEF UnlinkHead, Field
<1>7. o.pc = "unlinked" /\ o.node = a /\ OpRecord(o)
  BY <1>4 DEF OpRecord
<1>8. b \in N \ H /\ b \in Dom(Tree) /\ key[b] = key[a] /\ H \subseteq N
  BY <1>3, <1>5 DEF HasListing, Listing
<1> HIDE DEF o, a, b, s
<1>9. Usable(s) /\ Replaced(Tree, s, a, b) /\ \A x : Get(s, x, "next") = Get(Tree, x, "next")
  BY <1>3, <1>4, <1>5, <1>8, TakePlaceIs DEF s
<1>10. Dom(s) = Dom(Tree)
  BY <1>9 DEF Replaced
<1>11. RedBlack(s, key, K, E, Plain(s, K), {}, {}) /\ RootBlack(s)
  BY <1>3, <1>5, <1>8, <1>9, ReplaceRedBlack
<1>12. HasListing(s, K, N \ {a}, key)
  BY <1>3, <1>5, <1>8, <1>9, <1>10, ListingUnlink DEF b
<1>13. Dom(s) \ (out \cup {a}) = N \ {a} /\ a \in Dom(s)
  BY <1>3, <1>8, <1>10
<1>14. Steady(s, key, out, o)
  BY <1>4, <1>7, <1>9, <1>10, <1>11, <1>12, <1>13 DEF Steady, Phase, Out, AtRest, Sound
<1> QED BY <1>6, <1>9, <1>14, BecomesTree

\* A leaf that counts nothing is taken off.
LEMMA RemoveLeafRedBlack ==
  ASSUME NEW t, NEW H, NEW D, NEW k, NEW n \in H, Usable(t), n # Root(t),
         Get(t, n, "left") = NULL, Get(t, n, "right") = NULL, RootBlack(t),
         RedBlack(t, k, H, D, Uncounted(t, H, n), {n}, {})
  PROVE  LET s == ReplaceChild(t, Get(t, n, "parent"), n, NULL)
             K == H \ {n}
         IN  /\ Usable(s) /\ Dom(s) = Dom(t) /\ \A x : Get(s, x, "next") = Get(t, x, "next")
             /\ RedBlack(s, k, K, Without(H, D, n), Plain(s, K), {}, {}) /\ RootBlack(s)
<1> DEFINE s == ReplaceChild(t, Get(t, n, "parent"), n, NULL)
           K == H \ {n}
           E == Without(H, D, n)
<1>1. /\ IsTree(t, H, D) /\ Colored(t, H) /\ Ordered(t, H, D, k, {n}) /\ RedsApart(t, H, {})
  BY DEF RedBlack
<1>2. Usable(s) /\ Spliced(t, s, n, NULL) /\ \A x : Get(s, x, "color") = Get(t, x, "color")
  BY <1>1, UnlinkIs
<1> HIDE DEF s
<1>3. /\ Dom(s) = Dom(t) /\ Root(s) = Root(t)
      /\ \A x : Get(s, x, "next") = Get(t, x, "next")
      /\ \A x, y : y \in Sides => Get(s, x, y) \in {NULL, Get(t, x, y)}
  BY <1>2 DEF Spliced
<1>4. "left" \in Sides /\ Other("left") = "right"
  BY DEF Sides, Other
<1>5. IsTree(s, K, E)
  BY <1>1, <1>2, <1>4, SpliceTree
<1>6. Ordered(s, K, E, k, {})
  BY <1>1, <1>2, <1>4, SpliceOrdered
<1>7. Colored(s, K) /\ RedsApart(s, K, {})
  BY <1>1, <1>2, <1>3 DEF Colored, RedsApart
<1>8. RootBlack(s)
  BY <1>2, <1>3 DEF RootBlack
<1>9. \E B : Weighted(s, K, B, Plain(s, K))
  <2>1. PICK bh : Weighted(t, H, bh, Uncounted(t, H, n))
    BY DEF RedBlack
  <2> DEFINE B == [x \in K \cup {NULL} |-> bh[x]]
             w == Uncounted(t, H, n)
             v == Plain(s, K)
  <2>2. bh \in [H \cup {NULL} -> Nat] /\ bh[NULL] = 0 /\ bh[n] = bh[Get(t, n, "left")] + w[n] /\ w[n] = 0
    BY <2>1, <1>4 DEF Weighted, Uncounted
  <2>3. v \in [K -> Nat] /\ \A x \in K : v[x] = w[x]
    BY <1>2 DEF Plain, Uncounted
  <2>4. B \in [K \cup {NULL} -> Nat] /\ B[NULL] = 0 /\ \A x \in K : B[x] = bh[x]
    BY <2>2
  <2> HIDE DEF B, w, v
  <2>5. SpliceCounts(H, n, NULL, bh, w, B, v)
    BY <2>2, <2>3, <2>4 DEF SpliceCounts
  <2>6. Weighted(s, K, B, v)
    BY <2>1, <2>5, <1>1, <1>2, <1>4, SpliceWeighted DEF w
  <2> QED BY <2>6 DEF v
<1> QED BY <1>2, <1>3, <1>5, <1>6, <1>7, <1>8, <1>9 DEF RedBlack, s

\* What the last three kinds of deletion come to: a leaf that counts for
\* nothing goes.
LEMMA RemoveLeafSteady ==
  ASSUME NEW t, NEW k, NEW out, NEW H, NEW D, NEW n \in H, Usable(t), IsFiniteSet(Dom(t)), out \subseteq Dom(t),
         n # Root(t), \A f \in {"left", "right", "next"} : Get(t, n, f) = NULL, RootBlack(t),
         Sound(t, k, Dom(t) \ out, H, D, Uncounted(t, H, n), {n}, {}),
         NEW o, OpRecord(o), o.pc = "deleted", o.node = n
  PROVE  LET s == ReplaceChild(t, Get(t, n, "parent"), n, NULL)
         IN  Usable(s) /\ Steady(s, k, out, o)
<1> DEFINE s == ReplaceChild(t, Get(t, n, "parent"), n, NULL)
           K == H \ {n}
           N == Dom(t) \ out
<1>1. RedBlack(t, k, H, D, Uncounted(t, H, n), {n}, {}) /\ HasListing(t, H, N, k)
  BY DEF Sound
<1>2. /\ Usable(s) /\ Dom(s) = Dom(t) /\ \A x : Get(s, x, "next") = Get(t, x, "next")
      /\ RedBlack(s, k, K, Without(H, D, n), Plain(s, K), {}, {}) /\ RootBlack(s)
  BY <1>1, RemoveLeafRedBlack
<1> HIDE DEF s
<1>3. NULL \notin N /\ n \in Dom(t)
  BY <1>1 DEF Usable, RedBlack, IsTree, IsTreeBy
<1>4. HasListing(s, K, N \ {n}, k)
  BY <1>1, <1>2, <1>3, ListingRemove
<1>5. Dom(s) \ (out \cup {n}) = N \ {n}
  BY <1>2
<1> QED BY <1>2, <1>3, <1>4, <1>5 DEF Steady, Phase, Out, AtRest, Sound, s

\* The leaf goes after its black has been made up for.
LEMMA UnlinkLeafSteady ==
  ASSUME NEW out, Steady(Tree, key, out, op), UnlinkLeaf
  PROVE  Steady(Tree', key', out, op')
<1>0. op.pc = "unlink"
  BY DEF UnlinkLeaf, At
<1>1. PICK H, D : Phase(Tree, key, Dom(Tree) \ Out(op, out), H, D, op)
  BY SteadyParts
<1> DEFINE N == Dom(Tree) \ out
           n == op.node
           s == ReplaceChild(Tree, Get(Tree, n, "parent"), n, NULL)
<1>2. Unlinking(Tree, key, N, H, D, op)
  BY <1>0, <1>1 DEF Phase, Out
<1>3. Usable(Tree) /\ IsFiniteSet(Dom(Tree)) /\ out \subseteq Dom(Tree) /\ OpRecord(op)
  BY SteadyParts
<1>4. /\ n \in H /\ n # Root(Tree) /\ RootBlack(Tree) /\ op.parent = Get(Tree, n, "parent")
      /\ \A f \in {"left", "right", "next"} : Get(Tree, n, f) = NULL
      /\ Sound(Tree, key, N, H, D, Uncounted(Tree, H, n), {n}, {})
  BY <1>2 DEF Unlinking, LeafToGo
<1>5. op.parent # NULL
  BY <1>4 DEF Sound, RedBlack, IsTree, IsTreeBy
<1>6. Becomes(s, Deleted)
  BY <1>4, <1>5 DEF UnlinkLeaf
<1>7. OpRecord(Deleted) /\ Deleted.pc = "deleted" /\ Deleted.node = n
  BY <1>3 DEF OpRecord, Deleted
<1> HIDE DEF n
<1>8. Usable(s) /\ Steady(s, key, out, Deleted)
  BY <1>3, <1>4, <1>7, RemoveLeafSteady
<1> HIDE DEF s
<1> QED BY <1>6, <1>8, BecomesTree

\* What is in order everywhere is in order but for X.
LEMMA WeakerRedBlack ==
  ASSUME NEW t, NEW k, NEW H, NEW D, NEW w, NEW X, NEW R, RedBlack(t, k, H, D, w, {}, R)
  PROVE  RedBlack(t, k, H, D, w, X, R)
BY DEF RedBlack, Ordered

\* The deletion of a node that is alone under its key.
LEMMA DeletingParts ==
  ASSUME NEW out, Steady(Tree, key, out, op), op.pc = "delete", Field(op.node, "next") = NULL
  PROVE  \E H, D : /\ Deleting(Tree, key, Dom(Tree) \ out, H, D, op) /\ Get(Tree, op.node, "next") = NULL
                  /\ Usable(Tree) /\ IsFiniteSet(Dom(Tree)) /\ out \subseteq Dom(Tree) /\ OpRecord(op)
BY SteadyParts DEF Phase, Out, Field

\* Deleting the last node of the tree.
LEMMA DeleteRootSteady ==
  ASSUME NEW out, Steady(Tree, key, out, op), Alone, Children(op.node) = {}, op.node = root
  PROVE  Usable(SetRoot(Tree, NULL)) /\ Steady(SetRoot(Tree, NULL), key, out, Deleted)
<1> DEFINE N == Dom(Tree) \ out
           n == op.node
           s == SetRoot(Tree, NULL)
           E == [x \in {NULL} |-> {}]
           B == [x \in {NULL} |-> 0]
<1>0. op.pc = "delete" /\ Field(op.node, "next") = NULL
  BY DEF Alone, At
<1>1. PICK H, D : /\ Deleting(Tree, key, N, H, D, op) /\ Get(Tree, n, "next") = NULL
                  /\ Usable(Tree) /\ IsFiniteSet(Dom(Tree)) /\ out \subseteq Dom(Tree) /\ OpRecord(op)
  BY <1>0, DeletingParts
<1>2. n = Root(Tree) /\ Get(Tree, n, "left") = NULL /\ Get(Tree, n, "right") = NULL
  BY DEF Root, Tree, Children, Field
<1>3. IsTree(Tree, H, D) /\ HasListing(Tree, H, N, key) /\ n \in H
  BY <1>1, <1>2 DEF Deleting, AfterSwap, Sound, RedBlack
<1>7. OpRecord(Deleted) /\ Deleted.pc = "deleted" /\ Deleted.node = n
  BY <1>1 DEF OpRecord, Deleted
<1> HIDE DEF n
<1>4. H = {n} /\ NULL \notin H /\ n \in Dom(Tree)
  BY <1>2, <1>3 DEF IsTree, IsTreeBy
<1>5. /\ Usable(s) /\ Dom(s) = Dom(Tree) /\ Root(s) = NULL
      /\ \A b, g : Get(s, b, g) = Get(Tree, b, g)
  BY <1>1, SetRootGets
<1> HIDE DEF s
<1>6. IsTree(s, {}, E)
  BY <1>5 DEF IsTree, IsTreeBy
<1>8. Ordered(s, {}, E, key, {}) /\ Colored(s, {}) /\ RedsApart(s, {}, {}) /\ RootBlack(s)
  BY <1>5 DEF Ordered, Colored, RedsApart, RootBlack
<1>9. Weighted(s, {}, B, Plain(s, {}))
  BY DEF Weighted, Plain
<1> HIDE DEF E, B
<1>10. NULL \notin N
  BY <1>1 DEF Usable
<1>11. HasListing(s, H \ {n}, N \ {n}, key)
  BY <1>1, <1>3, <1>5, <1>10, ListingRemove
<1>12. H \ {n} = {} /\ N \ {n} = Dom(s) \ (out \cup {n})
  BY <1>4, <1>5
<1>13. AtRest(s, key, Dom(s) \ (out \cup {n}), {}, E)
  BY <1>6, <1>8, <1>9, <1>11, <1>12 DEF AtRest, Sound, RedBlack
<1>14. Steady(s, key, out, Deleted)
  BY <1>1, <1>4, <1>5, <1>7, <1>13 DEF Steady, Phase, Out
<1> QED BY <1>5, <1>14 DEF s

\* The record of the repair of a missing black.
LEMMA FixDoubleBlackParts ==
  ASSUME OpRecord(op), NEW a, NEW b
  PROVE  LET o == FixDoubleBlack(a, b)
         IN  OpRecord(o) /\ o.pc = "fixdb" /\ o.node = op.node /\ o.cur = a /\ o.parent = b
<1> DEFINE o == FixDoubleBlack(a, b)
<1>1. op = [x \in {"pc", "node", "cur", "parent"} |-> op[x]]
  BY DEF OpRecord
<1>2. o.pc = "fixdb" /\ o.node = op.node /\ o.cur = a /\ o.parent = b
  BY <1>1 DEF FixDoubleBlack
<1>3. o = [x \in {"pc", "node", "cur", "parent"} |-> o[x]]
  BY <1>1 DEF FixDoubleBlack
<1> HIDE DEF o
<1>4. OpRecord(o)
  BY <1>3 DEF OpRecord
<1> QED BY <1>2, <1>4 DEF o

\* A black leaf is about to leave a black missing: the repair starts at the
\* leaf.
LEMMA DeleteBlackLeafSteady ==
  ASSUME NEW out, Steady(Tree, key, out, op), Alone, Children(op.node) = {}, op.node # root,
         Field(op.node, "color") = BLACK
  PROVE  Steady(Tree, key, out, FixDoubleBlack(op.node, Field(op.node, "parent")))
<1> DEFINE N == Dom(Tree) \ out
           n == op.node
           o == FixDoubleBlack(n, Field(n, "parent"))
<1>0. op.pc = "delete" /\ Field(op.node, "next") = NULL
  BY DEF Alone, At
<1>1. PICK H, D : /\ Deleting(Tree, key, N, H, D, op) /\ Get(Tree, n, "next") = NULL
                  /\ Usable(Tree) /\ IsFiniteSet(Dom(Tree)) /\ out \subseteq Dom(Tree) /\ OpRecord(op)
  BY <1>0, DeletingParts
<1>2. /\ n # Root(Tree) /\ Get(Tree, n, "left") = NULL /\ Get(Tree, n, "right") = NULL
      /\ Get(Tree, n, "color") = BLACK
  BY DEF Root, Tree, Children, Field
<1>3. /\ RedBlack(Tree, key, H, D, Plain(Tree, H), {n}, {}) /\ HasListing(Tree, H, N, key)
      /\ n \in H /\ RootBlack(Tree)
  BY <1>1, <1>2, WeakerRedBlack DEF Deleting, AfterSwap, Sound, RED, BLACK
<1>4. OpRecord(o) /\ o.pc = "fixdb" /\ o.node = n /\ o.cur = n /\ o.parent = Get(Tree, n, "parent")
  BY <1>1, FixDoubleBlackParts DEF Field
<1> HIDE DEF n, o
<1>5. Doubled(Tree, H, n, n) = Plain(Tree, H)
  BY <1>2 DEF Doubled, Uncounted, Plain
<1>6. n \in D[n]
  BY <1>3 DEF RedBlack, IsTree, IsTreeBy
<1>7. DoublyBlack(Tree, key, N, H, D, o)
  BY <1>1, <1>2, <1>3, <1>4, <1>5, <1>6 DEF DoublyBlack, LeafToGo, Sound
<1>8. Steady(Tree, key, out, o)
  BY <1>1, <1>4, <1>7 DEF Steady, Phase, Out
<1> QED BY <1>8 DEF o, n

\* A red leaf goes at once.  Its sibling, which the code colours red, is none
\* or red already; but after a swap with a black leaf it is black, and loses
\* the black that its parent, swapped up, did not count.
LEMMA DeleteRedLeafSteady ==
  ASSUME NEW out, Steady(Tree, key, out, op), Alone, Children(op.node) = {}, op.node # root,
         Field(op.node, "color") = RED
  PROVE  LET sibling == Sibling(op.node)
             t == IF sibling = NULL THEN Tree ELSE Set(Tree, sibling, "color", RED)
             s == ReplaceChild(t, Field(op.node, "parent"), op.node, NULL)
         IN  Usable(s) /\ Steady(s, key, out, Deleted)
<1> DEFINE N == Dom(Tree) \ out
           n == op.node
           l == Sibling(n)
           p == Get(Tree, n, "parent")
           t == IF l = NULL THEN Tree ELSE Set(Tree, l, "color", RED)
<1>0. op.pc = "delete" /\ Field(op.node, "next") = NULL
  BY DEF Alone, At
<1>1. PICK H, D : /\ Deleting(Tree, key, N, H, D, op) /\ Get(Tree, n, "next") = NULL
                  /\ Usable(Tree) /\ IsFiniteSet(Dom(Tree)) /\ out \subseteq Dom(Tree) /\ OpRecord(op)
  BY <1>0, DeletingParts
<1>2. /\ n # Root(Tree) /\ Get(Tree, n, "left") = NULL /\ Get(Tree, n, "right") = NULL
      /\ Get(Tree, n, "color") = RED
  BY DEF Root, Tree, Children, Field
<1>3. /\ n \in H /\ RootBlack(Tree) /\ HasListing(Tree, H, N, key)
      /\ IsTree(Tree, H, D) /\ Colored(Tree, H) /\ Ordered(Tree, H, D, key, {n}) /\ RedsApart(Tree, H, {})
  BY <1>1, WeakerRedBlack DEF Deleting, AfterSwap, Sound, RedBlack
<1>4. \/ \E bh : Weighted(Tree, H, bh, Plain(Tree, H))
      \/ /\ \E bh : Weighted(Tree, H, bh, Borrowed(Tree, H, n))
         /\ Get(Tree, p, "color") = BLACK
         /\ \A y, z \in Sides : Get(Tree, Get(Tree, p, y), z) = NULL
  BY <1>1 DEF Deleting, AfterSwap, Sound, RedBlack
<1>5. OpRecord(Deleted) /\ Deleted.pc = "deleted" /\ Deleted.node = n
  BY <1>1 DEF OpRecord, Deleted
<1>6. /\ p \in H /\ NULL \notin H /\ H \subseteq Dom(Tree) /\ p # NULL
      /\ \E f \in Sides : n = Get(Tree, p, f) /\ l = Get(Tree, p, Other(f))
      /\ \A x \in H, y \in Sides : Get(Tree, x, y) # NULL =>
           Get(Tree, x, y) \in H /\ Get(Tree, Get(Tree, x, y), "parent") = x
      /\ \A x \in H : x # Root(Tree) => Get(Tree, x, "parent") \in H
  <2>1. /\ p \in H /\ NULL \notin H /\ H \subseteq Dom(Tree)
        /\ n = Get(Tree, p, "left") \/ n = Get(Tree, p, "right")
        /\ \A x \in H, y \in Sides : Get(Tree, x, y) # NULL =>
             Get(Tree, x, y) \in H /\ Get(Tree, Get(Tree, x, y), "parent") = x
        /\ \A x \in H : x # Root(Tree) => Get(Tree, x, "parent") \in H
    BY <1>2, <1>3 DEF IsTree, IsTreeBy, Sides
  <2>2. l = IF Get(Tree, p, "left") = n THEN Get(Tree, p, "right") ELSE Get(Tree, p, "left")
    BY <2>1 DEF Sibling, Field
  <2> HIDE DEF l, p
  <2>3. "left" \in Sides /\ "right" \in Sides /\ Other("left") = "right" /\ Other("right") = "left"
    BY DEF Sides, Other
  <2> QED BY <2>1, <2>2, <2>3
<1>7. PICK f \in Sides : n = Get(Tree, p, f) /\ l = Get(Tree, p, Other(f))
  BY <1>6
<1>8. Other(f) \in Sides /\ Sides = {f, Other(f)} /\ f # Other(f)
  BY DEF Sides, Other
<1>9. l # n /\ (l # NULL => l \in H /\ l \in Dom(Tree) /\ Get(Tree, l, "parent") = p)
  <2>1. \A x, y \in H : y \notin D[Get(Tree, x, "left")] \/ y \notin D[Get(Tree, x, "right")]
    BY <1>3 DEF IsTree, IsTreeBy
  <2>2. n \in D[n] /\ n # NULL
    BY <1>3 DEF IsTree, IsTreeBy
  <2>3. l # n
    BY <2>1, <2>2, <1>3, <1>6, <1>7 DEF Sides, Other
  <2> QED BY <2>3, <1>6, <1>7, <1>8
<1>d. ReplaceChild(t, Field(n, "parent"), n, NULL) = ReplaceChild(t, p, n, NULL)
  BY DEF Field
<1>e. p = Get(Tree, n, "parent")
  OBVIOUS
<1> HIDE DEF n, l, p, t
<1>10. /\ Usable(t) /\ Dom(t) = Dom(Tree) /\ Root(t) = Root(Tree)
       /\ \A x, g : g \in Fields => Get(t, x, g) = IF x = l /\ l # NULL /\ g = "color" THEN RED ELSE Get(Tree, x, g)
  <2>1. CASE l = NULL
    BY <2>1, <1>1 DEF t
  <2>2. CASE l # NULL
    BY <2>2, <1>1, <1>9, SetGets DEF t, Fields
  <2> QED BY <2>1, <2>2
<1>11. SameLinks(Tree, t)
  BY <1>10 DEF SameLinks, Fields
<1>12. IsTree(t, H, D) /\ Ordered(t, H, D, key, {n})
  BY <1>3, <1>11, SameTree, SameOrder
<1>13. Colored(t, H)
  BY <1>3, <1>10 DEF Colored, Fields
<1>14. /\ \E bh : Weighted(Tree, H, bh, Plain(t, H))
       /\ RedsApart(t, H, {})
  <2>1. CASE \E bh : Weighted(Tree, H, bh, Plain(Tree, H))
    <3>1. PICK bh : Weighted(Tree, H, bh, Plain(Tree, H))
      BY <2>1
    <3>2. /\ bh \in [H \cup {NULL} -> Nat]
          /\ bh[p] = bh[n] + Plain(Tree, H)[p] /\ bh[p] = bh[l] + Plain(Tree, H)[p]
          /\ Plain(Tree, H)[p] \in Nat
      BY <3>1, <1>6, <1>7, <1>8 DEF Weighted
    <3>3. bh[n] = 0
      <4>1. bh[n] = bh[NULL] + Plain(Tree, H)[n] /\ Plain(Tree, H)[n] = 0 /\ bh[NULL] = 0
        BY <3>1, <1>2, <1>3 DEF Weighted, Sides, Plain, RED, BLACK
      <4> QED BY <4>1
    <3>4. l # NULL => Get(Tree, l, "color") = RED
      <4>1. ASSUME l # NULL, Get(Tree, l, "color") = BLACK PROVE FALSE
        <5>1. l \in H /\ Plain(Tree, H)[l] = 1
          BY <4>1, <1>9 DEF Plain
        <5>2. bh[l] = bh[Get(Tree, l, "left")] + Plain(Tree, H)[l] /\ bh[Get(Tree, l, "left")] \in Nat
          BY <5>1, <3>1, <1>6 DEF Weighted, Sides
        <5>3. bh[l] = 0
          BY <3>2, <3>3, <5>1, <5>2
        <5> QED BY <5>1, <5>2, <5>3
      <4> QED BY <4>1, <1>3, <1>9 DEF Colored
    <3>5. \A x : Get(t, x, "color") = Get(Tree, x, "color")
      BY <3>4, <1>10 DEF Fields
    <3>6. Plain(t, H) = Plain(Tree, H)
      BY <3>5 DEF Plain
    <3>7. RedsApart(t, H, {})
      BY <3>5, <1>3, <1>11 DEF RedsApart, SameLinks, Sides
    <3> QED BY <3>1, <3>6, <3>7
  <2>2. CASE /\ \E bh : Weighted(Tree, H, bh, Borrowed(Tree, H, n))
             /\ Get(Tree, p, "color") = BLACK
             /\ \A y, z \in Sides : Get(Tree, Get(Tree, p, y), z) = NULL
    <3>1. PICK bh : Weighted(Tree, H, bh, Borrowed(Tree, H, n))
      BY <2>2
    <3> DEFINE w == Borrowed(Tree, H, n)
               v == Plain(t, H)
               B == [x \in H \cup {NULL} |-> IF x = n \/ x = l THEN 0 ELSE bh[x]]
    <3>2. /\ bh \in [H \cup {NULL} -> Nat] /\ bh[NULL] = 0
          /\ \A x \in H, y \in Sides : bh[x] = bh[Get(Tree, x, y)] + w[x]
      BY <3>1 DEF Weighted
    <3>3. p # n /\ p # l
      <4>1. Get(Tree, n, f) = NULL
        BY <1>2, <1>8 DEF Sides
      <4>2. l # NULL => Get(Tree, l, f) = NULL
        BY <2>2, <1>7, <1>8
      <4> QED BY <4>1, <4>2, <1>6, <1>7, <1>3
    <3>4. \A x \in H : x \notin {n, p} => w[x] = Plain(Tree, H)[x]
      BY <1>e DEF Borrowed
    <3>5. w[n] = 1 /\ w[p] = 0
      BY <3>3, <1>3, <1>6, <1>e DEF Borrowed
    <3>6. v \in [H -> Nat] /\ v[n] = 0 /\ v[p] = 1 /\ (l # NULL => v[l] = 0)
          /\ \A x \in H : x \notin {n, p, l} => v[x] = w[x]
      BY <2>2, <3>3, <3>4, <1>2, <1>3, <1>6, <1>9, <1>10 DEF Plain, Fields, BLACK, RED
    <3>7. /\ \A x \in H \cup {NULL} : B[x] = IF x = n \/ x = l THEN 0 ELSE bh[x]
          /\ B \in [H \cup {NULL} -> Nat] /\ B[NULL] = 0
      BY <3>2, <1>6
    <3>8. bh[n] = 1 /\ bh[p] = 1
      BY <3>2, <3>5, <1>2, <1>3, <1>6, <1>7 DEF Sides
    <3> HIDE DEF B, v, w
    <3>9. ASSUME NEW x \in H, NEW y \in Sides PROVE B[x] = B[Get(Tree, x, y)] + v[x]
      <4>1. CASE x = n
        BY <4>1, <3>6, <3>7, <1>2 DEF Sides
      <4>2. CASE x = l
        <5>1. Get(Tree, l, y) = NULL
          BY <2>2, <1>7, <1>8
        <5> QED BY <5>1, <4>2, <3>6, <3>7, <1>6
      <4>3. CASE x = p
        <5>1. Get(Tree, x, y) \in {n, l}
          BY <4>3, <1>7, <1>8
        <5>2. B[Get(Tree, x, y)] = 0
          BY <5>1, <3>7, <1>3, <1>9
        <5> QED BY <5>2, <4>3, <3>3, <3>6, <3>7, <3>8
      <4>4. CASE x \notin {n, l, p}
        <5>1. Get(Tree, x, y) # n /\ (l # NULL => Get(Tree, x, y) # l)
          BY <4>4, <1>3, <1>6, <1>9, <1>e
        <5>2. Get(Tree, x, y) \in H \cup {NULL}
          BY <1>6
        <5>3. B[Get(Tree, x, y)] = bh[Get(Tree, x, y)]
          BY <5>1, <5>2, <3>2, <3>7
        <5> QED BY <5>3, <4>4, <3>2, <3>6, <3>7
      <4> QED BY <4>1, <4>2, <4>3, <4>4
    <3>10. Weighted(Tree, H, B, v)
      BY <3>6, <3>7, <3>9 DEF Weighted
    <3>11. RedsApart(t, H, {})
      <4>1. ASSUME NEW x \in H, NEW y \in Sides, Get(t, x, "color") = RED, Get(t, x, y) # NULL
            PROVE  Get(t, Get(t, x, y), "color") = BLACK
        <5>1. Get(t, x, y) = Get(Tree, x, y)
          BY <1>11 DEF SameLinks, Sides
        <5>2. x # l
          <6>1. x = l => Get(Tree, x, y) = NULL
            BY <2>2, <1>7, <1>8
          <6> QED BY <6>1, <5>1, <4>1
        <5>3. Get(Tree, x, "color") = RED
          BY <5>2, <4>1, <1>10 DEF Fields
        <5>4. Get(Tree, x, y) # l
          <6>1. x = p => FALSE
            BY <5>3, <2>2 DEF RED, BLACK
          <6> QED BY <6>1, <5>1, <4>1, <1>6, <1>9
        <5> QED BY <5>1, <5>3, <5>4, <4>1, <1>3, <1>10 DEF RedsApart, Fields
      <4> QED BY <4>1 DEF RedsApart
    <3> QED BY <3>10, <3>11 DEF v
  <2> QED BY <2>1, <2>2, <1>4
<1>15. Uncounted(t, H, n) = Plain(t, H)
  <2>1. Get(t, n, "color") = RED
    BY <1>2, <1>9, <1>10 DEF Fields
  <2> QED BY <2>1 DEF Uncounted, Plain, RED, BLACK
<1>16. RedBlack(t, key, H, D, Uncounted(t, H, n), {n}, {})
  <2>1. \E bh : Weighted(t, H, bh, Plain(t, H))
    BY <1>11, <1>14, SameWeights
  <2> QED BY <2>1, <1>12, <1>13, <1>14, <1>15 DEF RedBlack
<1>17. RootBlack(t)
  <2>1. l # NULL => l # Root(Tree)
    BY <1>3, <1>9, <1>6 DEF IsTree, IsTreeBy
  <2> QED BY <2>1, <1>3, <1>10 DEF RootBlack, Fields
<1>18. HasListing(t, H, Dom(t) \ out, key)
  BY <1>3, <1>10, SameListing DEF Fields
<1>19. \A g \in {"left", "right", "next"} : Get(t, n, g) = NULL
  BY <1>1, <1>2, <1>11 DEF SameLinks
<1>20. Get(t, n, "parent") = p
  BY <1>11 DEF SameLinks, p
<1>21. Usable(ReplaceChild(t, p, n, NULL)) /\ Steady(ReplaceChild(t, p, n, NULL), key, out, Deleted)
  BY <1>1, <1>2, <1>3, <1>5, <1>10, <1>16, <1>17, <1>18, <1>19, <1>20, RemoveLeafSteady DEF Sound
<1> QED BY <1>21, <1>d DEF n, l, t

\* Deleting a leaf, in the three ways the code distinguishes.
LEMMA DeleteLeafSteady ==
  ASSUME NEW out, Steady(Tree, key, out, op), DeleteLeaf
  PROVE  Steady(Tree', key', out, op')
<1> DEFINE n == op.node
           t == IF Sibling(n) = NULL THEN Tree ELSE Set(Tree, Sibling(n), "color", RED)
           s == ReplaceChild(t, Field(n, "parent"), n, NULL)
<1>1. Alone /\ Children(n) = {} /\ Usable(Tree)
  BY SteadyParts DEF DeleteLeaf
<1>2. \/ n = root /\ Becomes(SetRoot(Tree, NULL), Deleted)
      \/ n # root /\ Field(n, "color") = BLACK /\ Becomes(Tree, FixDoubleBlack(n, Field(n, "parent")))
      \/ n # root /\ Field(n, "color") = RED /\ Becomes(s, Deleted)
  BY DEF DeleteLeaf
<1>3. CASE n = root /\ Becomes(SetRoot(Tree, NULL), Deleted)
  BY <1>1, <1>3, DeleteRootSteady, BecomesTree
<1>4. CASE n # root /\ Field(n, "color") = BLACK /\ Becomes(Tree, FixDoubleBlack(n, Field(n, "parent")))
  BY <1>1, <1>4, DeleteBlackLeafSteady, BecomesTree
<1>5. CASE n # root /\ Field(n, "color") = RED /\ Becomes(s, Deleted)
  <2>1. Usable(s) /\ Steady(s, key, out, Deleted)
    BY <1>1, <1>5, DeleteRedLeafSteady
  <2> HIDE DEF s
  <2> QED BY <2>1, <1>5, BecomesTree
<1> QED BY <1>2, <1>3, <1>4, <1>5

\* A node with one child has it on one side, and nothing on the other.
LEMMA OneChild ==
  ASSUME NEW a, Children(a) # {}, ~BothChildren(a)
  PROVE  \E f \in Sides : /\ Get(Tree, a, f) # NULL /\ OnlyChild(a) = Get(Tree, a, f)
                          /\ Get(Tree, a, Other(f)) = NULL
<1>1. \A f : Field(a, f) = Get(Tree, a, f)
  BY DEF Field
<1>2. "left" \in Sides /\ "right" \in Sides /\ Other("left") = "right" /\ Other("right") = "left"
  BY DEF Sides, Other
<1>3. CASE Field(a, "left") # NULL
  <2>1. Field(a, "right") = NULL /\ OnlyChild(a) = Field(a, "left")
    BY <1>3 DEF BothChildren, OnlyChild
  <2> QED BY <1>1, <1>2, <1>3, <2>1
<1>4. CASE Field(a, "left") = NULL
  <2>1. Field(a, "right") # NULL /\ OnlyChild(a) = Field(a, "right")
    BY <1>4 DEF Children, OnlyChild
  <2> QED BY <1>1, <1>2, <1>4, <2>1
<1> QED BY <1>3, <1>4

\* A node with two children sends for the smallest node on its right.
LEMMA DeleteInnerSteady ==
  ASSUME NEW out, Steady(Tree, key, out, op), DeleteInner
  PROVE  Steady(Tree', key', out, op')
<1> DEFINE N == Dom(Tree) \ out
           n == op.node
           o == [op EXCEPT !.pc = "smallest", !.cur = Field(op.node, "right")]
<1>0. /\ op.pc = "delete" /\ Field(op.node, "next") = NULL /\ BothChildren(n)
      /\ op' = o /\ UNCHANGED <<key, link, root>>
  BY DEF DeleteInner, Alone, At
<1>1. PICK H, D : /\ Deleting(Tree, key, N, H, D, op) /\ Get(Tree, n, "next") = NULL
                  /\ Usable(Tree) /\ IsFiniteSet(Dom(Tree)) /\ out \subseteq Dom(Tree) /\ OpRecord(op)
  BY <1>0, DeletingParts
<1>2. Get(Tree, n, "left") # NULL /\ Get(Tree, n, "right") # NULL
  BY <1>0 DEF BothChildren, Field
<1>3. AtRest(Tree, key, N, H, D) /\ n \in H
  BY <1>1, <1>2 DEF Deleting, AfterSwap, AtRest
<1>4. OpRecord(o) /\ o.pc = "smallest" /\ o.node = n /\ o.cur = Get(Tree, n, "right")
  <2>1. o.pc = "smallest" /\ o.node = n /\ o.cur = Field(n, "right")
    BY <1>1 DEF OpRecord
  <2>2. op = [x \in {"pc", "node", "cur", "parent"} |-> op[x]]
    BY <1>1 DEF OpRecord
  <2>3. o = [x \in {"pc", "node", "cur", "parent"} |-> o[x]]
    BY <2>2
  <2> HIDE DEF o
  <2> QED BY <2>1, <2>3 DEF OpRecord, Field
<1> HIDE DEF o, n
<1>5. Get(Tree, n, "right") \in D[Get(Tree, n, "right")]
  BY <1>2, <1>3 DEF AtRest, Sound, RedBlack, IsTree, IsTreeBy
<1>6. Seeking(Tree, key, N, H, D, o)
  BY <1>1, <1>2, <1>3, <1>4, <1>5 DEF Seeking
<1>7. Steady(Tree, key, out, o)
  BY <1>1, <1>4, <1>6 DEF Steady, Phase, Out
<1>8. Tree' = Tree
  BY <1>0 DEF Tree
<1> QED BY <1>0, <1>7, <1>8

\* What Steady says while the smallest node is sought.
LEMMA SeekingParts ==
  ASSUME NEW out, Steady(Tree, key, out, op), op.pc = "smallest"
  PROVE  \E H, D : /\ Seeking(Tree, key, Dom(Tree) \ out, H, D, op)
                  /\ Usable(Tree) /\ IsFiniteSet(Dom(Tree)) /\ out \subseteq Dom(Tree) /\ OpRecord(op)
BY SteadyParts DEF Phase, Out

\* One step to the left.
LEMMA SmallestSteady ==
  ASSUME NEW out, Steady(Tree, key, out, op), Smallest
  PROVE  Steady(Tree', key', out, op')
<1> DEFINE N == Dom(Tree) \ out
           n == op.node
           c == op.cur
           r == Get(Tree, n, "right")
           o == [op EXCEPT !.cur = Field(op.cur, "left")]
<1>0. op.pc = "smallest" /\ Get(Tree, c, "left") # NULL /\ op' = o /\ UNCHANGED <<key, link, root>>
  BY DEF Smallest, At, Field
<1>1. PICK H, D : /\ Seeking(Tree, key, N, H, D, op)
                  /\ Usable(Tree) /\ IsFiniteSet(Dom(Tree)) /\ out \subseteq Dom(Tree) /\ OpRecord(op)
  BY <1>0, SeekingParts
<1>2. OpRecord(o) /\ o.pc = "smallest" /\ o.node = n /\ o.cur = Get(Tree, c, "left")
  BY <1>0, <1>1 DEF OpRecord, Field
<1>3. IsTree(Tree, H, D) /\ n \in H /\ r # NULL /\ c \in D[r]
  BY <1>1 DEF Seeking, AtRest, Sound, RedBlack
<1>4. Get(Tree, c, "left") \in D[r]
  <2>1. r \in H /\ c \in H
    BY <1>3 DEF IsTree, IsTreeBy
  <2>2. Get(Tree, c, "left") \in H /\ Get(Tree, c, "left") \in D[c]
    <3>1. Get(Tree, c, "left") \in H
      BY <1>0, <1>3, <2>1 DEF IsTree, IsTreeBy
    <3>2. Get(Tree, c, "left") \in D[Get(Tree, c, "left")]
      BY <1>3, <3>1 DEF IsTree, IsTreeBy
    <3> QED BY <3>1, <3>2, <2>1, <1>3 DEF IsTree, IsTreeBy
  <2> QED BY <2>1, <2>2, <1>3 DEF IsTree, IsTreeBy
<1> HIDE DEF o
<1>5. Seeking(Tree, key, N, H, D, o)
  BY <1>1, <1>2, <1>4 DEF Seeking
<1>6. Steady(Tree, key, out, o)
  BY <1>1, <1>2, <1>5 DEF Steady, Phase, Out
<1>7. Tree' = Tree
  BY <1>0 DEF Tree
<1> QED BY <1>0, <1>6, <1>7

\* One step down towards the new key.
LEMMA DescendSteady ==
  ASSUME NEW out, Steady(Tree, key, out, op), Descend
  PROVE  Steady(Tree', key', out, op')
<1> DEFINE N == Dom(Tree) \ out
           n == op.node
           c == op.cur
           o == [op EXCEPT !.parent = op.cur,
                           !.cur = Field(op.cur, IF key[op.node] > key[op.cur] THEN "right" ELSE "left")]
<1>0. op.pc = "descend" /\ c # NULL /\ key[n] # key[c] /\ op' = o /\ UNCHANGED <<key, link, root>>
  BY DEF Descend, At
<1>1. PICK H, D : Phase(Tree, key, Dom(Tree) \ Out(op, out), H, D, op)
  BY SteadyParts
<1>2. Descending(Tree, key, N, H, D, op)
  BY <1>0, <1>1 DEF Phase, Out
<1>3. Usable(Tree) /\ IsFiniteSet(Dom(Tree)) /\ out \subseteq Dom(Tree) /\ OpRecord(op)
  BY SteadyParts
<1>4. o.pc = "descend" /\ o.node = n /\ o.parent = c /\ o.cur = Get(Tree, c, Towards(key, n, c))
  BY <1>0, <1>3 DEF OpRecord, Field, Towards
<1>5. OpRecord(o)
  <2>1. op = [x \in {"pc", "node", "cur", "parent"} |-> op[x]]
    BY <1>3 DEF OpRecord
  <2>2. o = [x \in {"pc", "node", "cur", "parent"} |-> o[x]]
    BY <2>1
  <2> HIDE DEF o
  <2> QED BY <2>2 DEF OpRecord
<1>6. IsTree(Tree, H, D)
  BY <1>2 DEF Descending, AtRest, Sound, RedBlack
<1>7. /\ Root(Tree) \in H \cup {NULL} /\ D[Root(Tree)] = H
      /\ D \in [H \cup {NULL} -> SUBSET H] /\ D[NULL] = {}
      /\ \A x \in H, y \in Sides : Get(Tree, x, y) # NULL => Get(Tree, x, y) \in H /\ Get(Tree, Get(Tree, x, y), "parent") = x
      /\ \A x \in H : x \in D[x] /\ x \notin D[Get(Tree, x, "left")] /\ x \notin D[Get(Tree, x, "right")]
      /\ \A x, y \in H : y \in D[x] <=> y = x \/ y \in D[Get(Tree, x, "left")] \/ y \in D[Get(Tree, x, "right")]
      /\ \A x, y \in H : y \in D[x] /\ y # x => Get(Tree, y, "parent") \in D[x]
  BY <1>6 DEF IsTree, IsTreeBy, Sides
<1>8. c \in H
  <2>1. Towards(key, n, op.parent) \in Sides
    BY DEF Towards, Sides
  <2> QED BY <2>1, <1>0, <1>2, <1>7 DEF Descending
<1>9. ASSUME NEW a \in H, c \in D[a]
      PROVE  key[a] # key[n] /\ (a = c \/ c \in D[Get(Tree, a, Towards(key, n, a))])
  <2>1. CASE a = c
    BY <2>1, <1>0
  <2>2. CASE a # c
    <3>1. CASE op.parent = NULL /\ c = Root(Tree)
      <4>1. a \in D[c] /\ c # a
        BY <3>1, <2>2, <1>7
      <4>2. a \in D[Get(Tree, c, "left")] \/ a \in D[Get(Tree, c, "right")]
        BY <4>1, <1>7, <1>8
      <4>3. Get(Tree, c, "parent") = NULL
        BY <3>1, <1>0, <1>6 DEF IsTree, IsTreeBy
      <4>4. Get(Tree, c, "parent") \in D[a]
        BY <1>7, <1>8, <1>9, <2>2
      <4> QED BY <4>3, <4>4, <1>6, <1>7 DEF IsTree, IsTreeBy
    <3>2. CASE op.parent \in H /\ c = Get(Tree, op.parent, Towards(key, n, op.parent))
      <4> DEFINE u == op.parent
      <4>1. Towards(key, n, u) \in Sides
        BY DEF Towards, Sides
      <4>2. Get(Tree, c, "parent") = u
        BY <4>1, <3>2, <1>0, <1>7
      <4>3. u \in D[a]
        BY <4>2, <1>7, <1>8, <1>9, <2>2
      <4>4. key[a] # key[n] /\ (a = u \/ u \in D[Get(Tree, a, Towards(key, n, a))])
        BY <4>3, <3>2, <1>2, <1>6, <1>7 DEF Descending, IsTree, IsTreeBy
      <4>5. CASE a = u
        BY <4>4, <4>5, <3>2, <1>7, <1>8
      <4>6. CASE u \in D[Get(Tree, a, Towards(key, n, a))]
        <5>1. Towards(key, n, a) \in Sides
          BY DEF Towards, Sides
        <5>2. Get(Tree, a, Towards(key, n, a)) \in H
          BY <5>1, <4>6, <1>7
        <5>3. c \in D[u]
          BY <4>1, <3>2, <1>7, <1>8 DEF Sides
        <5>4. c \in D[Get(Tree, a, Towards(key, n, a))]
          BY <4>6, <5>2, <5>3, <3>2, <1>6, <1>8 DEF IsTree, IsTreeBy
        <5> QED BY <5>4, <4>4
      <4> QED BY <4>4, <4>5, <4>6
    <3> QED BY <3>1, <3>2, <1>0, <1>2 DEF Descending
  <2> QED BY <2>1, <2>2
<1> HIDE DEF o, n, c
<1>10. Descending(Tree, key, N, H, D, o)
  BY <1>2, <1>4, <1>8, <1>9 DEF Descending, n
<1>11. Steady(Tree, key, out, o)
  BY <1>3, <1>4, <1>5, <1>10 DEF Steady, Phase, Out
<1>12. Tree' = Tree
  BY <1>0 DEF Tree
<1> QED BY <1>0, <1>11, <1>12

\* A black missing everywhere is missing nowhere: the leaf can go.
LEMMA FixedAtRootSteady ==
  ASSUME NEW out, Steady(Tree, key, out, op), FixedAtRoot
  PROVE  Steady(Tree', key', out, op')
<1> DEFINE N == Dom(Tree) \ out
           n == op.node
           c == op.cur
<1>0. op.pc = "fixdb" /\ c = Root(Tree) /\ op' = Unlink /\ UNCHANGED <<key, link, root>>
  BY DEF FixedAtRoot, At, Root, Tree
<1>1. PICK H, D : Phase(Tree, key, Dom(Tree) \ Out(op, out), H, D, op)
  BY SteadyParts
<1>2. DoublyBlack(Tree, key, N, H, D, op)
  BY <1>0, <1>1 DEF Phase, Out
<1>3. Usable(Tree) /\ IsFiniteSet(Dom(Tree)) /\ out \subseteq Dom(Tree) /\ OpRecord(op)
  BY SteadyParts
<1>4. OpRecord(Unlink) /\ Unlink.pc = "unlink" /\ Unlink.node = n /\ Unlink.parent = op.parent
  BY <1>3 DEF OpRecord, Unlink
<1>5. /\ RedBlack(Tree, key, H, D, Doubled(Tree, H, n, c), {n}, {}) /\ HasListing(Tree, H, N, key)
      /\ LeafToGo(Tree, H, op) /\ c \in H /\ IsTree(Tree, H, D)
  BY <1>2 DEF DoublyBlack, Sound, RedBlack
<1> HIDE DEF n, c
<1>6. \E B : Weighted(Tree, H, B, Uncounted(Tree, H, n))
  <2>1. PICK bh : Weighted(Tree, H, bh, Doubled(Tree, H, n, c))
    BY <1>5 DEF RedBlack
  <2> DEFINE w == Doubled(Tree, H, n, c)
             v == Uncounted(Tree, H, n)
             B == [x \in H \cup {NULL} |-> IF x = c THEN bh[x] - 1 ELSE bh[x]]
  <2>2. /\ bh \in [H \cup {NULL} -> Nat] /\ bh[NULL] = 0
        /\ \A x \in H, y \in Sides : bh[x] = bh[Get(Tree, x, y)] + w[x]
    BY <2>1 DEF Weighted
  <2>3. v \in [H -> Nat] /\ \A x \in H : w[x] = IF x = c THEN v[x] + 1 ELSE v[x]
    BY DEF Doubled, Uncounted, Plain
  <2>4. NULL \notin H /\ \A x \in H, y \in Sides : Get(Tree, x, y) \in H \cup {NULL} /\ Get(Tree, x, y) # c
    <3>1. c # NULL /\ Get(Tree, c, "parent") = NULL
      BY <1>0, <1>5 DEF c, IsTree, IsTreeBy
    <3> QED BY <3>1, <1>5 DEF IsTree, IsTreeBy, Sides
  <2> HIDE DEF w, v
  <2>5. \A x \in H \cup {NULL} : B[x] \in Nat /\ B[x] = IF x = c THEN bh[x] - 1 ELSE bh[x]
    <3>1. bh[c] = bh[Get(Tree, c, "left")] + v[c] + 1 /\ bh[Get(Tree, c, "left")] \in Nat /\ v[c] \in Nat
      BY <2>2, <2>3, <2>4, <1>5 DEF Sides
    <3>2. bh[c] - 1 \in Nat
      BY <3>1
    <3> QED BY <3>2, <2>2
  <2>6. B \in [H \cup {NULL} -> Nat] /\ B[NULL] = 0
    BY <2>2, <2>4, <2>5, <1>5
  <2> HIDE DEF B
  <2>7. \A x \in H, y \in Sides : B[x] = B[Get(Tree, x, y)] + v[x]
    BY <2>2, <2>3, <2>4, <2>5
  <2>8. Weighted(Tree, H, B, v)
    BY <2>3, <2>6, <2>7 DEF Weighted
  <2> QED BY <2>8 DEF v
<1>7. Unlinking(Tree, key, N, H, D, Unlink)
  BY <1>4, <1>5, <1>6 DEF Unlinking, LeafToGo, Sound, RedBlack, n
<1>8. Steady(Tree, key, out, Unlink)
  BY <1>3, <1>4, <1>7 DEF Steady, Phase, Out
<1>9. Tree' = Tree
  BY <1>0 DEF Tree
<1> QED BY <1>0, <1>8, <1>9

\* A node with one child: the child, which is red, takes its place in black.
LEMMA DeleteWithChildSteady ==
  ASSUME NEW out, Steady(Tree, key, out, op), DeleteWithChild, whole'
  PROVE  Steady(Tree', key', out, op')
<1> DEFINE N == Dom(Tree) \ out
           n == op.node
           u == Get(Tree, n, "parent")
<1>0. /\ op.pc = "delete" /\ Field(op.node, "next") = NULL
      /\ Children(n) # {} /\ ~BothChildren(n) /\ n # root
      /\ LET subst == OnlyChild(n)
             t == Set(ReplaceChild(Tree, Field(n, "parent"), n, subst), subst, "parent", Field(n, "parent"))
         IN  \/ /\ {Field(n, "color"), Field(subst, "color")} = {BLACK}
                /\ Becomes(t, FixDoubleBlack(subst, NULL))
             \/ Becomes(Set(t, subst, "color", BLACK), Deleted)
  BY DEF DeleteWithChild, Alone, At
<1>1. PICK H, D : /\ Deleting(Tree, key, N, H, D, op) /\ Get(Tree, n, "next") = NULL
                  /\ Usable(Tree) /\ IsFiniteSet(Dom(Tree)) /\ out \subseteq Dom(Tree) /\ OpRecord(op)
  BY <1>0, DeletingParts
<1>2. PICK f \in Sides : /\ Get(Tree, n, f) # NULL /\ OnlyChild(n) = Get(Tree, n, f)
                         /\ Get(Tree, n, Other(f)) = NULL
  BY <1>0, OneChild
<1> DEFINE c == Get(Tree, n, f)
           s == Set(Set(ReplaceChild(Tree, u, n, c), c, "parent", u), c, "color", BLACK)
           K == H \ {n}
           E == Without(H, D, n)
<1>3. OnlyChild(n) = c /\ Field(n, "parent") = u
  BY <1>2 DEF Field
<1>4. /\ n # Root(Tree) /\ c # NULL
      /\ \/ {Get(Tree, n, "color"), Get(Tree, c, "color")} = {BLACK}
         \/ Becomes(s, Deleted)
  BY <1>0, <1>2, <1>3 DEF Root, Tree, Field
<1>5. ~(Get(Tree, n, "left") = NULL /\ Get(Tree, n, "right") = NULL)
  BY <1>2 DEF Sides
<1>6. /\ RedBlack(Tree, key, H, D, Plain(Tree, H), {n}, {}) /\ HasListing(Tree, H, N, key)
      /\ n \in H /\ RootBlack(Tree)
  BY <1>1, <1>5, WeakerRedBlack DEF Deleting, AfterSwap, Sound
<1>7. OpRecord(Deleted) /\ Deleted.pc = "deleted" /\ Deleted.node = n
  BY <1>1 DEF OpRecord, Deleted
<1>8. IsTree(Tree, H, D) /\ Colored(Tree, H) /\ Ordered(Tree, H, D, key, {n}) /\ RedsApart(Tree, H, {})
  BY <1>6 DEF RedBlack
<1>9. Get(Tree, n, Other(f)) = NULL
  BY <1>2
<1>10. c \in H /\ c # n /\ Get(Tree, c, "parent") = n /\ NULL \notin H
  <2>1. c \in H /\ NULL \notin H /\ Get(Tree, c, "parent") = n
    BY <1>4, <1>6, <1>8 DEF IsTree, IsTreeBy, Sides
  <2>2. n \notin D[c]
    BY <1>6, <1>8 DEF IsTree, IsTreeBy, Sides
  <2>3. n \in D[n]
    BY <1>6, <1>8 DEF IsTree, IsTreeBy
  <2> QED BY <2>1, <2>2, <2>3
<1> HIDE DEF n, u, c, s
<1>11. PICK bh : Weighted(Tree, H, bh, Plain(Tree, H))
  BY <1>6 DEF RedBlack
<1>12. Other(f) \in Sides
  BY DEF Sides, Other
<1>13. /\ bh \in [H \cup {NULL} -> Nat] /\ bh[NULL] = 0
       /\ Get(Tree, n, "color") = BLACK /\ Get(Tree, c, "color") = RED
       /\ bh[n] = 1 /\ bh[c] = 0
  <2> DEFINE w == Plain(Tree, H)
  <2>1. /\ bh \in [H \cup {NULL} -> Nat] /\ bh[NULL] = 0
        /\ \A x \in H, y \in Sides : bh[x] = bh[Get(Tree, x, y)] + w[x]
    BY <1>11 DEF Weighted
  <2>2. \A x \in H : w[x] = IF Get(Tree, x, "color") = BLACK THEN 1 ELSE 0
    BY DEF Plain
  <2>3. bh[n] = w[n] /\ bh[n] = bh[c] + w[n] /\ bh[c] = bh[Get(Tree, c, "left")] + w[c]
        /\ bh[Get(Tree, c, "left")] \in Nat /\ bh[c] \in Nat /\ bh[n] \in Nat
    <3>1. Get(Tree, c, "left") \in H \cup {NULL} /\ w[n] \in Nat /\ bh[n] \in Nat
      BY <2>1, <2>2, <1>6, <1>8, <1>10 DEF IsTree, IsTreeBy
    <3> HIDE DEF w
    <3>2. bh[n] = bh[NULL] + w[n] /\ bh[n] = bh[c] + w[n] /\ bh[c] = bh[Get(Tree, c, "left")] + w[c]
      BY <2>1, <1>6, <1>9, <1>10, <1>12 DEF Sides, c
    <3> QED BY <2>1, <3>1, <3>2, <1>10
  <2> HIDE DEF w
  <2>4. bh[c] = 0
    <3> DEFINE i == bh[c]
               j == bh[n]
    <3>1. i \in Nat /\ j \in Nat /\ j = i + j
      BY <2>3
    <3> HIDE DEF i, j
    <3>2. i = 0
      BY <3>1
    <3> QED BY <3>2 DEF i
  <2>5. w[c] = 0
    BY <2>3, <2>4, <2>2, <1>10
  <2>6. Get(Tree, c, "color") = RED
    BY <2>2, <2>5, <1>8, <1>10 DEF Colored
  <2>7. Get(Tree, n, "color") = BLACK
    BY <2>6, <1>4, <1>6, <1>8 DEF Colored, RedsApart, RED, BLACK, c
  <2> QED BY <2>1, <2>2, <2>3, <2>4, <2>6, <2>7, <1>6
<1>14. Becomes(s, Deleted)
  <2>1. Get(Tree, c, "color") # BLACK
    BY <1>13 DEF RED, BLACK
  <2>2. {Get(Tree, n, "color"), Get(Tree, c, "color")} # {BLACK}
    BY <2>1
  <2> QED BY <2>2, <1>4
<1>15. /\ Usable(s) /\ Spliced(Tree, s, n, c)
       /\ \A x : Get(s, x, "color") = IF x = c THEN BLACK ELSE Get(Tree, x, "color")
  BY <1>1, <1>4, <1>6, <1>8, MoveUpIs DEF u, s, c
<1>16. /\ Dom(s) = Dom(Tree) /\ Root(s) = Root(Tree)
       /\ \A x : Get(s, x, "next") = Get(Tree, x, "next")
       /\ \A x, y : y \in Sides => Get(s, x, y) \in {c, Get(Tree, x, y)}
  BY <1>15 DEF Spliced
<1>17. IsTree(s, K, E) /\ Ordered(s, K, E, key, {})
  BY <1>4, <1>6, <1>8, <1>9, <1>15, SpliceTree, SpliceOrdered DEF c
<1>18. Colored(s, K) /\ RedsApart(s, K, {})
  <2>1. Colored(s, K)
    BY <1>8, <1>15 DEF Colored
  <2>2. ASSUME NEW x \in K, NEW y \in Sides, Get(s, x, "color") = RED, Get(s, x, y) # NULL
        PROVE  Get(s, Get(s, x, y), "color") = BLACK
    <3>1. Get(Tree, x, "color") = RED
      BY <2>2, <1>15 DEF RED, BLACK
    <3>2. CASE Get(s, x, y) = c
      BY <3>2, <1>15
    <3>3. CASE Get(s, x, y) # c
      BY <3>1, <3>3, <2>2, <1>8, <1>15, <1>16 DEF RedsApart
    <3> QED BY <3>2, <3>3
  <2> QED BY <2>1, <2>2 DEF RedsApart
<1>19. RootBlack(s)
  BY <1>6, <1>15, <1>16 DEF RootBlack
<1>20. \E B : Weighted(s, K, B, Plain(s, K))
  <2> DEFINE B == [x \in K \cup {NULL} |-> IF x = c THEN 1 ELSE bh[x]]
             w == Plain(Tree, H)
             v == Plain(s, K)
  <2>1. v \in [K -> Nat] /\ v[c] = 1 /\ w[c] = 0 /\ \A x \in H \ {n, c} : v[x] = w[x]
    BY <1>10, <1>13, <1>15 DEF Plain, RED, BLACK
  <2>2. B \in [K \cup {NULL} -> Nat] /\ B[NULL] = 0 /\ B[c] = 1 /\ \A x \in H \ {n, c} : B[x] = bh[x]
    BY <1>4, <1>10, <1>13
  <2> HIDE DEF B, w, v
  <2>3. SpliceCounts(H, n, c, bh, w, B, v)
    BY <2>1, <2>2, <1>13 DEF SpliceCounts
  <2>4. Weighted(Tree, H, bh, w)
    BY <1>11 DEF w
  <2>5. c = Get(Tree, n, f)
    BY DEF c
  <2>6. Weighted(s, K, B, v)
    BY <2>3, <2>4, <2>5, <1>4, <1>6, <1>8, <1>9, <1>15, SpliceWeighted
  <2> QED BY <2>6 DEF v
<1>21. HasListing(s, K, N \ {n}, key)
  <2>1. NULL \notin N
    BY <1>1 DEF Usable
  <2> QED BY <2>1, <1>1, <1>6, <1>16, ListingRemove DEF n
<1>22. Dom(s) \ (out \cup {n}) = N \ {n} /\ n \in Dom(s)
  BY <1>6, <1>8, <1>16 DEF IsTree, IsTreeBy
<1>23. AtRest(s, key, Dom(s) \ (out \cup {n}), K, E)
  BY <1>17, <1>18, <1>19, <1>20, <1>21, <1>22 DEF AtRest, Sound, RedBlack
<1>24. Steady(s, key, out, Deleted)
  BY <1>1, <1>7, <1>15, <1>16, <1>22, <1>23 DEF Steady, Phase, Out
<1> QED BY <1>14, <1>15, <1>24, BecomesTree

\* The node with two children changes places with its right child, when that is
\* the smallest on its right; otherwise the tree is damaged (whole').
LEMMA SwapSteady ==
  ASSUME NEW out, Steady(Tree, key, out, op), Swap, whole'
  PROVE  Steady(Tree', key', out, op')
<1> DEFINE N == Dom(Tree) \ out
           n == op.node
           c == op.cur
           l == Get(Tree, n, "left")
           r == Get(Tree, c, "right")
           s == SwapNodes(n, c)
           o == [op EXCEPT !.pc = "delete"]
<1>0. /\ op.pc = "smallest" /\ Get(Tree, c, "left") = NULL /\ Becomes(s, o)
      /\ n # Root(Tree) /\ c = Get(Tree, n, "right")
      /\ \/ Get(Tree, n, "color") = Get(Tree, c, "color")
         \/ Get(Tree, n, "color") = RED /\ Children(c) = {} /\ Children(l) = {}
  BY DEF Swap, At, Field, SwapKeepsShape, Root, Tree
<1>1. PICK H, D : /\ Seeking(Tree, key, N, H, D, op)
                  /\ Usable(Tree) /\ IsFiniteSet(Dom(Tree)) /\ out \subseteq Dom(Tree) /\ OpRecord(op)
  BY <1>0, SeekingParts
<1> DEFINE E == SwappedBelow(Tree, H, D, n)
<1>2. /\ RedBlack(Tree, key, H, D, Plain(Tree, H), {}, {}) /\ HasListing(Tree, H, N, key) /\ RootBlack(Tree)
      /\ n \in H /\ l # NULL /\ c # NULL /\ Get(Tree, n, "next") = NULL
  BY <1>0, <1>1 DEF Seeking, AtRest, Sound
<1>3. OpRecord(o) /\ o.pc = "delete" /\ o.node = n
  BY <1>1 DEF OpRecord
<1>4. IsTree(Tree, H, D) /\ Colored(Tree, H) /\ Ordered(Tree, H, D, key, {}) /\ RedsApart(Tree, H, {})
  BY <1>2 DEF RedBlack
<1>5. \/ Get(Tree, n, "color") = Get(Tree, c, "color")
      \/ /\ Get(Tree, n, "color") = RED /\ r = NULL
         /\ \A z \in Sides : Get(Tree, l, z) = NULL
  BY <1>0 DEF Children, Field, Sides
<1> HIDE DEF n, c, s, o
<1>6. Usable(s) /\ Swapped(Tree, s, n)
  BY <1>0, <1>1, <1>2, <1>4, SwapIs DEF s
<1>7. IsTree(s, H, E) /\ Ordered(s, H, E, key, {n})
  BY <1>0, <1>2, <1>4, <1>6, SwapTree, SwapOrdered
<1> DEFINE u == Get(Tree, n, "parent")
<1>8. /\ Dom(s) = Dom(Tree) /\ Root(s) = Root(Tree)
      /\ Get(s, c, "left") = l /\ Get(s, c, "right") = n
      /\ Get(s, n, "left") = NULL /\ Get(s, n, "right") = r
      /\ \A x, y : y \in Sides /\ x # c /\ x # n =>
           Get(s, x, y) = IF x = u /\ Get(Tree, x, y) = n THEN c ELSE Get(Tree, x, y)
      /\ Get(s, n, "parent") = c
      /\ \A x : Get(s, x, "color") = Get(Tree, x, "color") /\ Get(s, x, "next") = Get(Tree, x, "next")
  <2>1. c # n
    <3>1. c = Get(Tree, n, "right") /\ n \in D[n] /\ n \notin D[Get(Tree, n, "right")]
      BY <1>0, <1>2, <1>4 DEF IsTree, IsTreeBy
    <3> QED BY <3>1
  <2> QED BY <2>1, <1>0, <1>6 DEF Swapped
<1>9. SwapShape(Tree, s, H, D, n, c, l, r, u, E)
  BY <1>0, <1>2, <1>4, <1>6, SwapFacts
<1>10. /\ c \in H /\ l \in H /\ c # n /\ l # n /\ l # c
  BY <1>9 DEF SwapShape
<1> HIDE DEF l, r, u, E
<1>11. Get(Tree, c, "color") = BLACK
  <2>1. Get(Tree, n, "color") \in {RED, BLACK}
    BY <1>2, <1>4 DEF Colored
  <2>2. Get(Tree, n, "color") = RED => Get(Tree, c, "color") = BLACK
    BY <1>0, <1>2, <1>4 DEF RedsApart, Sides
  <2> QED BY <2>1, <2>2, <1>5 DEF RED, BLACK
<1>12. Colored(s, H) /\ RootBlack(s)
  BY <1>2, <1>4, <1>8 DEF Colored, RootBlack
<1>13. RedsApart(s, H, {})
  <2>1. ASSUME NEW x \in H, NEW y \in Sides, Get(s, x, "color") = RED, Get(s, x, y) # NULL
        PROVE  Get(s, Get(s, x, y), "color") = BLACK
    <3>1. Get(Tree, x, "color") = RED /\ x # c
      BY <2>1, <1>8, <1>11 DEF RED, BLACK
    <3>2. CASE x = n
      <4>1. Get(Tree, n, "color") # Get(Tree, c, "color")
        BY <3>1, <3>2, <1>11 DEF RED, BLACK
      <4>2. r = NULL
        BY <4>1, <1>5
      <4> QED BY <4>2, <3>2, <2>1, <1>8 DEF Sides
    <3>3. CASE x # n
      <4>1. Get(s, x, y) = c \/ Get(s, x, y) = Get(Tree, x, y)
        BY <3>1, <3>3, <1>8
      <4> QED BY <4>1, <3>1, <2>1, <1>4, <1>8, <1>11 DEF RedsApart
    <3> QED BY <3>2, <3>3
  <2> QED BY <2>1 DEF RedsApart
<1>14. HasListing(s, H, Dom(s) \ out, key)
  BY <1>2, <1>8, SameListing
<1>15. PICK bh : Weighted(Tree, H, bh, Plain(Tree, H))
  BY <1>2 DEF RedBlack
<1> DEFINE B == [x \in H \cup {NULL} |-> IF x = n THEN bh[c] ELSE IF x = c THEN bh[n] ELSE bh[x]]
           w == Plain(Tree, H)
           v == [x \in H |-> IF x = n THEN w[c] ELSE IF x = c THEN w[n] ELSE w[x]]
<1>16. Weighted(s, H, B, v)
  <2>1. bh \in [H \cup {NULL} -> Nat] /\ bh[NULL] = 0 /\ w \in [H -> Nat]
    BY <1>15 DEF Weighted
  <2>2. NULL \notin H
    BY <1>4 DEF IsTree, IsTreeBy
  <2> HIDE DEF w
  <2>3. B \in [H \cup {NULL} -> Nat] /\ B[NULL] = 0 /\ B[n] = bh[c] /\ B[c] = bh[n]
        /\ \A x \in H \ {n, c} : B[x] = bh[x]
    BY <2>1, <2>2, <1>2, <1>10
  <2>4. v \in [H -> Nat] /\ v[n] = w[c] /\ v[c] = w[n] /\ \A x \in H \ {n, c} : v[x] = w[x]
    BY <2>1, <1>2, <1>10
  <2> HIDE DEF B, v
  <2>5. SwapCounts(H, n, c, bh, w, B, v)
    BY <2>3, <2>4 DEF SwapCounts
  <2>6. Weighted(Tree, H, bh, w)
    BY <1>15 DEF w
  <2>7. Get(Tree, n, "left") # NULL /\ Get(Tree, n, "right") # NULL /\ Get(Tree, Get(Tree, n, "right"), "left") = NULL
    BY <1>0, <1>2 DEF l
  <2> QED BY <2>5, <2>6, <2>7, <1>0, <1>2, <1>4, <1>6, SwapWeighted
<1> HIDE DEF B
<1>17. CASE Get(Tree, n, "color") = Get(Tree, c, "color")
  <2>1. v = Plain(s, H)
    BY <1>17, <1>2, <1>8, <1>10 DEF Plain
  <2>2. AfterSwap(s, key, Dom(s) \ out, H, E, n)
    BY <2>1, <1>0, <1>2, <1>7, <1>8, <1>12, <1>13, <1>14, <1>16 DEF AfterSwap, Sound, RedBlack
  <2> QED BY <2>2, <1>0, <1>1, <1>2, <1>3, <1>6, <1>8, <1>12, BecomesTree DEF Steady, Phase, Out, Deleting
<1>18. CASE Get(Tree, n, "color") # Get(Tree, c, "color")
  <2>1. Get(Tree, n, "color") = RED /\ r = NULL /\ \A z \in Sides : Get(Tree, l, z) = NULL
    BY <1>5, <1>18
  <2>2. v = Borrowed(s, H, n)
    BY <2>1, <1>2, <1>8, <1>10, <1>11 DEF Plain, Borrowed, RED, BLACK
  <2>3. \A y, z \in Sides : Get(s, Get(s, c, y), z) = NULL
    <3>1. \A z \in Sides : Get(s, l, z) = NULL
      BY <2>1, <1>8, <1>10, <1>2, <1>4 DEF IsTree, IsTreeBy
    <3>2. \A z \in Sides : Get(s, n, z) = NULL
      BY <2>1, <1>8 DEF Sides
    <3> QED BY <3>1, <3>2, <1>8 DEF Sides
  <2> HIDE DEF v
  <2>4. AfterSwap(s, key, Dom(s) \ out, H, E, n)
    BY <2>1, <2>2, <2>3, <1>0, <1>2, <1>7, <1>8, <1>11, <1>12, <1>13, <1>14, <1>16 DEF AfterSwap, Sound, RedBlack
  <2> QED BY <2>4, <1>0, <1>1, <1>2, <1>3, <1>6, <1>8, <1>12, BecomesTree DEF Steady, Phase, Out, Deleting
<1> QED BY <1>17, <1>18

\* What Steady says while an insertion is being repaired.
LEMMA FixupParts ==
  ASSUME NEW out, Steady(Tree, key, out, op), op.pc = "fixup"
  PROVE  \E H, D : /\ Repairing(Tree, key, Dom(Tree) \ out, H, D, op)
                  /\ Usable(Tree) /\ IsFiniteSet(Dom(Tree)) /\ out \subseteq Dom(Tree) /\ OpRecord(op)
BY SteadyParts DEF Phase, Out

\* The repair ends at the root, below a black parent or at a black node, and
\* the root is painted black.
LEMMA FixupEndsSteady ==
  ASSUME NEW out, Steady(Tree, key, out, op), FixupEnds
  PROVE  Steady(Tree', key', out, op')
<1> DEFINE N == Dom(Tree) \ out
           c == op.cur
           r == Root(Tree)
           s == Set(Tree, r, "color", BLACK)
<1>0. op.pc = "fixup" /\ ~RedUnderRed /\ Becomes(s, Idle)
  BY DEF FixupEnds, At, Root, Tree
<1>1. PICK H, D : /\ Repairing(Tree, key, N, H, D, op)
                  /\ Usable(Tree) /\ IsFiniteSet(Dom(Tree)) /\ out \subseteq Dom(Tree) /\ OpRecord(op)
  BY <1>0, FixupParts
<1>2. /\ IsTree(Tree, H, D) /\ Colored(Tree, H) /\ Ordered(Tree, H, D, key, {}) /\ RedsApart(Tree, H, {c})
      /\ HasListing(Tree, H, N, key) /\ c \in H
  BY <1>1 DEF Repairing, Sound, RedBlack
<1>3. \/ c = r
      \/ Get(Tree, c, "color") # RED
      \/ Get(Tree, Get(Tree, c, "parent"), "color") # RED
  BY <1>0 DEF RedUnderRed, Field, Root, Tree
<1>4. r \in H /\ r \in Dom(Tree) /\ Get(Tree, r, "parent") = NULL /\ NULL \notin H
      /\ \A x \in H, y \in Sides : Get(Tree, x, y) # NULL =>
           Get(Tree, x, y) \in H /\ Get(Tree, Get(Tree, x, y), "parent") = x
  BY <1>2 DEF IsTree, IsTreeBy, Sides
<1> HIDE DEF s, r
<1>5. /\ Usable(s) /\ Dom(s) = Dom(Tree) /\ Root(s) = r
      /\ \A x, g : g \in Fields => Get(s, x, g) = IF x = r /\ g = "color" THEN BLACK ELSE Get(Tree, x, g)
  BY <1>1, <1>4, SetGets DEF s, r, Fields
<1>6. SameLinks(Tree, s)
  BY <1>5 DEF SameLinks, Fields, r
<1>7. IsTree(s, H, D) /\ Ordered(s, H, D, key, {}) /\ Colored(s, H) /\ RootBlack(s)
  BY <1>2, <1>5, <1>6, SameTree, SameOrder DEF Colored, RootBlack, Fields
<1>8. RedsApart(s, H, {})
  <2>1. ASSUME NEW x \in H, NEW y \in Sides, Get(s, x, "color") = RED, Get(s, x, y) # NULL
        PROVE  Get(s, Get(s, x, y), "color") = BLACK
    <3>1. Get(s, x, y) = Get(Tree, x, y) /\ Get(Tree, x, "color") = RED
      BY <2>1, <1>5 DEF Fields, Sides, RED, BLACK
    <3>2. CASE Get(Tree, x, y) = c
      <4>1. Get(Tree, c, "parent") = x
        BY <3>1, <3>2, <2>1, <1>4
      <4>2. Get(Tree, c, "color") # RED
        BY <4>1, <3>1, <1>3, <1>4
      <4>3. Get(Tree, c, "color") = BLACK
        BY <4>2, <1>2 DEF Colored
      <4> QED BY <4>3, <3>1, <3>2, <1>5 DEF Fields
    <3>3. CASE Get(Tree, x, y) # c
      BY <3>1, <3>3, <2>1, <1>2, <1>5 DEF RedsApart, Fields
    <3> QED BY <3>2, <3>3
  <2> QED BY <2>1 DEF RedsApart
<1>9. \E B : Weighted(s, H, B, Plain(s, H))
  <2>1. PICK bh : Weighted(Tree, H, bh, Plain(Tree, H))
    BY <1>1 DEF Repairing, Sound, RedBlack
  <2> DEFINE w == Plain(Tree, H)
             v == Plain(s, H)
             B == [x \in H \cup {NULL} |-> IF x = r THEN bh[Get(Tree, r, "left")] + 1 ELSE bh[x]]
  <2>2. /\ bh \in [H \cup {NULL} -> Nat] /\ bh[NULL] = 0
        /\ \A x \in H, y \in Sides : bh[x] = bh[Get(Tree, x, y)] + w[x]
    BY <2>1 DEF Weighted
  <2>3. v \in [H -> Nat] /\ v[r] = 1 /\ \A x \in H : x # r => v[x] = w[x]
    BY <1>4, <1>5 DEF Plain, Fields
  <2>4. \A x \in H, y \in Sides : Get(Tree, x, y) \in H \cup {NULL} /\ Get(Tree, x, y) # r
    BY <1>4
  <2>5. /\ B \in [H \cup {NULL} -> Nat] /\ B[NULL] = 0 /\ B[r] = bh[Get(Tree, r, "left")] + 1
        /\ \A x \in H \cup {NULL} : x # r => B[x] = bh[x]
    BY <2>2, <2>4, <1>4 DEF Sides
  <2>6. \A y \in Sides : bh[Get(Tree, r, y)] = bh[Get(Tree, r, "left")]
    <3>1. ASSUME NEW y \in Sides PROVE bh[Get(Tree, r, y)] = bh[Get(Tree, r, "left")]
      <4>1. w[r] \in Nat
        BY <1>4 DEF Plain
      <4> HIDE DEF w
      <4>2. bh[r] = bh[Get(Tree, r, y)] + w[r] /\ bh[r] = bh[Get(Tree, r, "left")] + w[r]
        BY <2>2, <1>4 DEF Sides
      <4>3. bh[Get(Tree, r, y)] \in Nat /\ bh[Get(Tree, r, "left")] \in Nat
        BY <2>2, <2>4, <1>4 DEF Sides
      <4> QED BY <4>1, <4>2, <4>3
    <3> QED BY <3>1
  <2> HIDE DEF w, v, B
  <2>7. \A x \in H, y \in Sides : B[x] = B[Get(Tree, x, y)] + v[x]
    <3>1. ASSUME NEW x \in H, NEW y \in Sides PROVE B[x] = B[Get(Tree, x, y)] + v[x]
      <4>1. B[Get(Tree, x, y)] = bh[Get(Tree, x, y)]
        BY <2>4, <2>5
      <4>2. CASE x = r
        BY <4>1, <4>2, <2>3, <2>5, <2>6
      <4>3. CASE x # r
        BY <4>1, <4>3, <2>2, <2>3, <2>5
      <4> QED BY <4>2, <4>3
    <3> QED BY <3>1
  <2>8. Weighted(Tree, H, B, v)
    BY <2>3, <2>5, <2>7 DEF Weighted
  <2> QED BY <2>8, <1>6, SameWeights DEF v
<1>10. HasListing(s, H, N, key)
  BY <1>1, <1>2, <1>5, SameListing DEF Fields
<1>11. Steady(s, key, out, Idle)
  BY <1>1, <1>5, <1>7, <1>8, <1>9, <1>10, RestSteady DEF AtRest, Sound, RedBlack
<1> QED BY <1>0, <1>5, <1>11, BecomesTree

\* The red node, its red child and their relatives.
Around(t, H, c, p, g, f) ==
  /\ f \in Sides /\ g \in H /\ p \in H /\ c \in H
  /\ p = Get(t, g, f) /\ p = Get(t, c, "parent") /\ g = Get(t, p, "parent")
  /\ c = Get(t, p, f) \/ c = Get(t, p, Other(f))
  /\ Get(t, p, "color") = RED /\ Get(t, c, "color") = RED /\ Get(t, g, "color") = BLACK

\* A red child q of a black node g, q's child x on the same side, and a black uncle.
Outer(t, H, x, q, g, f) ==
  /\ g \in H /\ f \in Sides /\ q = Get(t, g, f) /\ q # NULL /\ x = Get(t, q, f)
  /\ Get(t, q, "color") = RED /\ Get(t, g, "color") = BLACK
  /\ Get(t, Get(t, g, Other(f)), "color") = BLACK

\* A rotation takes a red node's red child with it to the other side of its parent.
LEMMA FixupOuter ==
  ASSUME NEW t, NEW k, NEW N, NEW H, NEW D, NEW x, NEW q, NEW g, NEW f, Outer(t, H, x, q, g, f),
         Usable(t), N \subseteq Dom(t), RootBlack(t), Sound(t, k, N, H, D, Plain(t, H), {}, {x})
  PROVE  LET r == Rotate(t, g, Other(f))
             s == Set(Set(r, q, "color", Get(r, g, "color")), g, "color", Get(r, q, "color"))
         IN  /\ Usable(s) /\ Dom(s) = Dom(t) /\ q \in H /\ RootBlack(s)
             /\ \E E : Sound(s, k, N, H, E, Plain(s, H), {}, {})
<1> DEFINE r == Rotate(t, g, Other(f))
           r1 == Set(r, q, "color", Get(r, g, "color"))
           s == Set(r1, g, "color", Get(r, q, "color"))
           b == Other(f)
           E == RotatedBelow(t, H, D, g, b, f)
           d == Get(t, q, b)
           e == Get(t, g, b)
<1>p. /\ g \in H /\ f \in Sides /\ q = Get(t, g, f) /\ q # NULL /\ x = Get(t, q, f)
      /\ Get(t, q, "color") = RED /\ Get(t, g, "color") = BLACK
      /\ Get(t, Get(t, g, Other(f)), "color") = BLACK
  BY DEF Outer
<1> USE <1>p
<1>0. b \in Sides /\ Other(b) = f /\ f # b /\ Sides = {f, b}
  BY DEF Other, Sides
<1>1. /\ IsTree(t, H, D) /\ Colored(t, H) /\ Ordered(t, H, D, k, {}) /\ RedsApart(t, H, {x})
      /\ HasListing(t, H, N, k)
  BY DEF Sound, RedBlack
<1>d. b = Other(f) /\ d = Get(t, q, b) /\ e = Get(t, g, b) /\ r = Rotate(t, g, b) /\ E = RotatedBelow(t, H, D, g, b, f)
  OBVIOUS
<1> HIDE DEF b, d, e, r, E
<1>2. Usable(r) /\ Rotated(t, r, g, b, f) /\ IsTree(r, H, E)
  BY <1>0, <1>1, <1>d, RotateKeepsTree
<1>3. Ordered(r, H, E, k, {})
  BY <1>0, <1>1, <1>2, <1>d, RotateOrdered
<1>4. /\ q \in H /\ NULL \notin H /\ Get(t, q, "parent") = g /\ q # g /\ g \in Dom(t) /\ q \in Dom(t)
      /\ d \in H \cup {NULL} /\ e \in H \cup {NULL} /\ x \in H \cup {NULL}
      /\ x # NULL => d # x
  <2>1. IsTreeBy(t, H, D, f, b)
    BY <1>1, <1>d, EitherSide
  <2>2. q \in H /\ NULL \notin H /\ Get(t, q, "parent") = g /\ g \in Dom(t) /\ q \in Dom(t) /\ e \in H \cup {NULL}
    BY <2>1, <1>d DEF IsTreeBy
  <2>3. d \in H \cup {NULL} /\ x \in H \cup {NULL}
    BY <2>1, <2>2, <1>d DEF IsTreeBy
  <2>4. q # g
    <3>1. g \in D[g] /\ g \notin D[q] /\ q \in D[q]
      BY <2>1, <2>2 DEF IsTreeBy
    <3> QED BY <3>1
  <2>5. x # NULL => d # x
    <3>1. \A a, z \in H : z \notin D[Get(t, a, f)] \/ z \notin D[Get(t, a, b)]
      BY <2>1 DEF IsTreeBy
    <3>2. \A z \in H : z \in D[z]
      BY <2>1 DEF IsTreeBy
    <3> QED BY <3>1, <3>2, <2>2, <2>3, <1>d
  <2> QED BY <2>2, <2>3, <2>4, <2>5
<1>5. /\ Dom(r) = Dom(t) /\ Root(r) = (IF Root(t) = g THEN q ELSE Root(t))
      /\ \A z : Get(r, z, "color") = Get(t, z, "color") /\ Get(r, z, "next") = Get(t, z, "next")
  BY <1>2 DEF Rotated
<1>6. /\ Usable(s) /\ Dom(s) = Dom(r) /\ Root(s) = Root(r)
      /\ \A z, y : y \in Fields => Get(s, z, y) = IF z = g /\ y = "color" THEN RED
                                                  ELSE IF z = q /\ y = "color" THEN BLACK ELSE Get(r, z, y)
  <2>1. /\ Usable(r1) /\ Dom(r1) = Dom(r) /\ Root(r1) = Root(r)
        /\ \A z, y : y \in Fields => Get(r1, z, y) = IF z = q /\ y = "color" THEN BLACK ELSE Get(r, z, y)
    BY <1>2, <1>4, <1>5, SetGets DEF Fields
  <2> HIDE DEF r1
  <2> QED BY <2>1, <1>4, <1>5, SetGets DEF Fields
<1> HIDE DEF s
<1>7. SameLinks(r, s)
  BY <1>6 DEF SameLinks, Fields
<1>8. IsTree(s, H, E) /\ Ordered(s, H, E, k, {}) /\ Colored(s, H)
  BY <1>1, <1>2, <1>3, <1>5, <1>6, <1>7, SameTree, SameOrder DEF Colored, Fields
<1>9. \A z : Get(s, z, "color") = IF z = g THEN RED ELSE IF z = q THEN BLACK ELSE Get(t, z, "color")
  BY <1>5, <1>6 DEF Fields
<1>e. \A a \in H, y \in Sides : Get(r, a, y) # NULL =>
        \/ a = g /\ Get(r, a, y) \in {d, e}
        \/ a = q /\ Get(r, a, y) \in {g, x}
        \/ a = Get(t, g, "parent") /\ a \notin {g, q} /\ Get(r, a, y) = q
        \/ a \notin {g, q} /\ Get(r, a, y) \notin {g, q, d, e, x} /\ Get(r, a, y) = Get(t, a, y)
  <2>1. f = Other(b) /\ Get(t, g, f) # NULL
    BY <1>0
  <2>2. q = Get(t, g, f) /\ d = Get(t, q, b) /\ e = Get(t, g, b) /\ x = Get(t, q, f)
    BY <1>d
  <2> QED BY <2>1, <2>2, <1>0, <1>1, <1>2, RotateEdges
<1>10. RedsApart(s, H, {})
  <2>1. ASSUME NEW a \in H, NEW y \in Sides, Get(s, a, "color") = RED, Get(s, a, y) # NULL
        PROVE  Get(s, Get(s, a, y), "color") = BLACK
    <3>1. Get(s, a, y) = Get(r, a, y) /\ a # q
      BY <2>1, <1>4, <1>6, <1>9 DEF Fields, Sides, RED, BLACK
    <3>2. \/ a = g /\ Get(r, a, y) \in {d, e}
          \/ a = q /\ Get(r, a, y) \in {g, x}
          \/ a = Get(t, g, "parent") /\ a \notin {g, q} /\ Get(r, a, y) = q
          \/ a \notin {g, q} /\ Get(r, a, y) \notin {g, q, d, e, x} /\ Get(r, a, y) = Get(t, a, y)
      BY <3>1, <2>1, <1>e
    <3>3. CASE a = g /\ Get(r, a, y) \in {d, e}
      <4>1. d # NULL => Get(t, d, "color") = BLACK
        BY <1>0, <1>1, <1>4, <1>d DEF RedsApart
      <4>2. Get(t, e, "color") = BLACK
        BY <1>d
      <4>3. Get(r, a, y) # g
        BY <3>3, <2>1, <3>1, <1>2 DEF IsTree, IsTreeBy, Sides
      <4> QED BY <4>1, <4>2, <4>3, <3>1, <3>3, <2>1, <1>9
    <3>4. CASE Get(r, a, y) = q
      BY <3>1, <3>4, <1>4, <1>9
    <3>5. CASE a \notin {g, q} /\ Get(r, a, y) \notin {g, q, d, e, x} /\ Get(r, a, y) = Get(t, a, y)
      <4>1. Get(t, a, "color") = RED
        BY <3>5, <2>1, <1>9
      <4>2. Get(t, Get(t, a, y), "color") = BLACK
        BY <4>1, <3>1, <3>5, <2>1, <1>1 DEF RedsApart
      <4> QED BY <4>2, <3>1, <3>5, <1>9
    <3> QED BY <3>1, <3>2, <3>3, <3>4, <3>5
  <2> QED BY <2>1 DEF RedsApart
<1>11. RootBlack(s)
  <2>1. CASE Root(t) = g
    BY <2>1, <1>4, <1>5, <1>6, <1>9 DEF RootBlack
  <2>2. CASE Root(t) # g
    <3>1. Root(t) # q
      BY <1>1, <1>4 DEF IsTree, IsTreeBy
    <3> QED BY <3>1, <2>2, <1>5, <1>6, <1>9 DEF RootBlack
  <2> QED BY <2>1, <2>2
<1>12. \E B : Weighted(s, H, B, Plain(s, H))
  <2>1. PICK bh : Weighted(t, H, bh, Plain(t, H))
    BY DEF Sound, RedBlack
  <2> DEFINE w == Plain(t, H)
             v == Plain(s, H)
             B == [z \in H \cup {NULL} |-> IF z = q THEN bh[g] ELSE IF z = g THEN bh[q] ELSE bh[z]]
  <2>2. /\ bh \in [H \cup {NULL} -> Nat] /\ bh[NULL] = 0
        /\ \A z \in H, y \in Sides : bh[z] = bh[Get(t, z, y)] + w[z]
    BY <2>1 DEF Weighted
  <2>3. w[g] = 1 /\ w[q] = 0
    BY <1>4 DEF Plain, RED, BLACK
  <2>4. v \in [H -> Nat] /\ v[g] = 0 /\ v[q] = 1 /\ \A z \in H : z \notin {g, q} => v[z] = w[z]
    BY <1>4, <1>9 DEF Plain, RED, BLACK
  <2>5. B \in [H \cup {NULL} -> Nat] /\ B[q] = bh[g] /\ B[g] = bh[q] /\ \A z \in H \cup {NULL} : z \notin {g, q} => B[z] = bh[z]
    BY <2>2, <1>4
  <2>w. Weighted(t, H, bh, w)
    BY <2>1
  <2> HIDE DEF w, v, B
  <2>6. bh[g] = bh[e] + 1 /\ bh[g] = bh[q] + 1 /\ bh[q] = bh[d] /\ bh[q] = bh[x]
    <3>1. bh[g] = bh[e] + w[g] /\ bh[g] = bh[q] + w[g] /\ bh[q] = bh[d] + w[q] /\ bh[q] = bh[x] + w[q]
      BY <2>2, <1>0, <1>4, <1>d
    <3>2. bh[d] \in Nat /\ bh[x] \in Nat
      BY <2>2, <1>4
    <3> QED BY <3>1, <3>2, <2>3
  <2>7. d \notin {g, q} /\ e \notin {g, q} /\ x \notin {g, q}
    <3>1. RotateBefore(t, H, D, g, q, d, e, x)
      <4>1. IsTreeBy(t, H, D, b, f)
        BY <1>0, <1>1, EitherSide
      <4> QED BY <4>1, <1>0, <1>2, <1>d, RotateFacts
    <3> QED BY <3>1 DEF RotateBefore
  <2>8. RotateCounts(H, g, q, d, e, x, bh, w, B, v)
    <3>1. B[NULL] = 0
      BY <2>2, <2>5, <1>4
    <3>2. \A z \in H : z \notin {g, q, d, e, x} => B[z] = bh[z] /\ v[z] = w[z]
      BY <2>4, <2>5
    <3>3. \A z \in {d, x, e} \ {NULL} : B[z] + w[z] = bh[z] + v[z]
      BY <2>4, <2>5, <2>7, <1>4
    <3>4. B[q] = bh[g] /\ B[g] = bh[q] /\ B[e] = bh[e] /\ B[d] = bh[d] /\ B[x] = bh[x]
      BY <2>5, <2>7, <1>4
    <3>5. bh[e] \in Nat /\ bh[q] \in Nat
      BY <2>2, <1>4
    <3>6. B[e] = B[d] /\ B[g] = B[e] + v[g] /\ B[g] = B[x] /\ B[q] = B[g] + v[q]
      BY <3>4, <3>5, <2>4, <2>6
    <3> QED BY <3>1, <3>2, <3>3, <3>4, <3>6, <2>4, <2>5 DEF RotateCounts
  <2>9. Weighted(r, H, B, v)
    BY <2>w, <2>8, <1>0, <1>1, <1>2, <1>d, RotateWeighted
  <2> QED BY <2>9, <1>7, SameWeights DEF v
<1>13. HasListing(s, H, N, k)
  BY <1>1, <1>5, <1>6, SameListing DEF Fields
<1> QED BY <1>4, <1>5, <1>6, <1>8, <1>10, <1>11, <1>12, <1>13, <1>d DEF Sound, RedBlack, s, r1

\* s is t with p's red child c in its place, and p below c.
Straightened(t, s, k, N, H, c, p, g, f) ==
  /\ Usable(s) /\ Dom(s) = Dom(t) /\ RootBlack(s)
  /\ \A z : Get(s, z, "color") = Get(t, z, "color")
  /\ Get(s, p, "parent") = c /\ Get(s, g, f) = c /\ Get(s, c, f) = p
  /\ Get(s, g, Other(f)) = Get(t, g, Other(f))
  /\ \E E : Sound(s, k, N, H, E, Plain(s, H), {}, {p})

\* A rotation that brings a red node's inner red child over it.
LEMMA FixupInner ==
  ASSUME NEW t, NEW k, NEW N, NEW H, NEW D, NEW c, NEW p, NEW g, NEW f, Around(t, H, c, p, g, f),
         c = Get(t, p, Other(f)), Usable(t), N \subseteq Dom(t), RootBlack(t),
         Sound(t, k, N, H, D, Plain(t, H), {}, {c})
  PROVE  Straightened(t, Rotate(t, p, f), k, N, H, c, p, g, f)
<1> DEFINE s == Rotate(t, p, f)
           b == Other(f)
           E == RotatedBelow(t, H, D, p, f, b)
           d == Get(t, c, f)
           e == Get(t, p, f)
           h == Get(t, c, b)
<1>p. /\ g \in H /\ f \in Sides /\ p = Get(t, g, f) /\ p # NULL /\ c # NULL
      /\ Get(t, p, "color") = RED /\ Get(t, c, "color") = RED /\ Get(t, g, "color") = BLACK
  <2>1. NULL \notin H
    BY DEF Sound, RedBlack, IsTree, IsTreeBy
  <2> QED BY <2>1 DEF Around
<1> USE <1>p
<1>0. b \in Sides /\ f # b /\ Sides = {f, b}
  BY DEF Other, Sides
<1>1. /\ IsTree(t, H, D) /\ Colored(t, H) /\ Ordered(t, H, D, k, {}) /\ RedsApart(t, H, {c})
      /\ HasListing(t, H, N, k)
  BY DEF Sound, RedBlack
<1>d. b = Other(f) /\ d = Get(t, c, f) /\ e = Get(t, p, f) /\ h = Get(t, c, b)
      /\ s = Rotate(t, p, f) /\ E = RotatedBelow(t, H, D, p, f, b)
  OBVIOUS
<1> HIDE DEF b, d, e, h, s, E
<1>4. /\ p \in H /\ NULL \notin H /\ Get(t, p, "parent") = g /\ p # Root(t)
      /\ Get(t, g, b) # p
  <2>1. IsTreeBy(t, H, D, f, b)
    BY <1>1, <1>d, EitherSide
  <2>2. p \in H /\ NULL \notin H /\ Get(t, p, "parent") = g
    BY <2>1 DEF IsTreeBy
  <2>3. p # Root(t)
    BY <2>1, <2>2 DEF IsTreeBy
  <2>4. Get(t, g, b) # p
    <3>1. \A a, z \in H : z \notin D[Get(t, a, f)] \/ z \notin D[Get(t, a, b)]
      BY <2>1 DEF IsTreeBy
    <3>2. p \in D[p]
      BY <2>1, <2>2 DEF IsTreeBy
    <3> QED BY <3>1, <3>2, <2>2
  <2> QED BY <2>2, <2>3, <2>4
<1>2. Usable(s) /\ Rotated(t, s, p, f, b) /\ IsTree(s, H, E)
  BY <1>0, <1>1, <1>4, <1>d, RotateKeepsTree
<1>3. Ordered(s, H, E, k, {})
  BY <1>0, <1>1, <1>2, <1>4, <1>d, RotateOrdered
<1>5. RotateBefore(t, H, D, p, c, d, e, h)
  <2>1. IsTreeBy(t, H, D, f, b)
    BY <1>1, <1>d, EitherSide
  <2> QED BY <2>1, <1>0, <1>2, <1>4, <1>d, RotateFacts
<1>6. /\ c \in H /\ c # p /\ d \in H \cup {NULL} /\ e \in H \cup {NULL} /\ h \in H \cup {NULL}
      /\ d \notin {p, c} /\ e \notin {p, c} /\ h \notin {p, c} /\ Get(t, c, "parent") = p
  BY <1>5 DEF RotateBefore
<1>7. g # p /\ g # c
  <2>1. g # p
    BY <1>4, <1>1 DEF RED, BLACK
  <2>2. g # c
    BY DEF RED, BLACK
  <2> QED BY <2>1, <2>2
<1>8. /\ Dom(s) = Dom(t) /\ Root(s) = Root(t)
      /\ \A z : Get(s, z, "color") = Get(t, z, "color") /\ Get(s, z, "next") = Get(t, z, "next")
      /\ Get(s, p, "parent") = c /\ Get(s, g, f) = c /\ Get(s, c, f) = p /\ Get(s, g, b) = Get(t, g, b)
  BY <1>0, <1>2, <1>4, <1>6, <1>7, <1>d DEF Rotated
<1>9. Colored(s, H) /\ RootBlack(s)
  BY <1>1, <1>8 DEF Colored, RootBlack
<1>e. \A a \in H, y \in Sides : Get(s, a, y) # NULL =>
        \/ a = p /\ Get(s, a, y) \in {d, e}
        \/ a = c /\ Get(s, a, y) \in {p, h}
        \/ a = Get(t, p, "parent") /\ a \notin {p, c} /\ Get(s, a, y) = c
        \/ a \notin {p, c} /\ Get(s, a, y) \notin {p, c, d, e, h} /\ Get(s, a, y) = Get(t, a, y)
  BY <1>0, <1>1, <1>2, <1>4, <1>d, RotateEdges
<1>10. RedsApart(s, H, {p})
  <2>1. ASSUME NEW a \in H, NEW y \in Sides, Get(s, a, "color") = RED, Get(s, a, y) # NULL, Get(s, a, y) # p
        PROVE  Get(s, Get(s, a, y), "color") = BLACK
    <3>1. Get(t, a, "color") = RED /\ a # g
      BY <2>1, <1>8 DEF RED, BLACK
    <3>2. CASE Get(s, a, y) \in {d, e, h}
      <4>1. /\ d # NULL => Get(t, d, "color") = BLACK
            /\ e # NULL => Get(t, e, "color") = BLACK
            /\ h # NULL => Get(t, h, "color") = BLACK
        BY <1>0, <1>1, <1>4, <1>6, <1>d DEF RedsApart
      <4> QED BY <4>1, <3>2, <2>1, <1>8
    <3>3. CASE Get(s, a, y) = Get(t, a, y) /\ Get(s, a, y) # c
      BY <3>1, <3>3, <2>1, <1>1, <1>8 DEF RedsApart
    <3> QED BY <3>1, <3>2, <3>3, <2>1, <1>4, <1>e
  <2> QED BY <2>1 DEF RedsApart
<1>12. \E B : Weighted(s, H, B, Plain(s, H))
  <2>1. PICK bh : Weighted(t, H, bh, Plain(t, H))
    BY DEF Sound, RedBlack
  <2> DEFINE w == Plain(t, H)
  <2>2. /\ bh \in [H \cup {NULL} -> Nat] /\ bh[NULL] = 0 /\ w \in [H -> Nat]
        /\ \A z \in H, y \in Sides : bh[z] = bh[Get(t, z, y)] + w[z]
    BY <2>1 DEF Weighted
  <2>3. w[p] = 0 /\ w[c] = 0
    BY <1>4, <1>6 DEF Plain, RED, BLACK
  <2>w. Weighted(t, H, bh, w)
    BY <2>1
  <2> HIDE DEF w
  <2>4. bh[p] = bh[e] /\ bh[p] = bh[c] /\ bh[c] = bh[d] /\ bh[c] = bh[h]
    <3>1. bh[p] = bh[e] + w[p] /\ bh[p] = bh[c] + w[p] /\ bh[c] = bh[d] + w[c] /\ bh[c] = bh[h] + w[c]
      BY <2>2, <1>0, <1>4, <1>6, <1>d
    <3>2. bh[d] \in Nat /\ bh[e] \in Nat /\ bh[h] \in Nat /\ bh[c] \in Nat
      BY <2>2, <1>6
    <3> QED BY <3>1, <3>2, <2>3
  <2>5. RotateCounts(H, p, c, d, e, h, bh, w, bh, w)
    <3>1. bh[e] \in Nat /\ bh[p] \in Nat
      BY <2>2, <1>4, <1>6
    <3> QED BY <3>1, <2>2, <2>3, <2>4, <1>4, <1>6 DEF RotateCounts
  <2>6. Weighted(s, H, bh, w)
    BY <2>w, <2>5, <1>0, <1>1, <1>2, <1>4, <1>d, RotateWeighted
  <2>7. w = Plain(s, H)
    BY <1>8 DEF w, Plain
  <2> QED BY <2>6, <2>7
<1>13. HasListing(s, H, N, k)
  BY <1>1, <1>8, SameListing
<1>14. Sound(s, k, N, H, E, Plain(s, H), {}, {p})
  BY <1>2, <1>3, <1>9, <1>10, <1>12, <1>13 DEF Sound, RedBlack
<1>15. Straightened(t, s, k, N, H, c, p, g, f)
  BY <1>2, <1>8, <1>9, <1>14, <1>d DEF Straightened
<1> QED BY <1>15 DEF s

\* Where a red node is below a red one there is a grandparent, black, and they
\* lie as Around says.
LEMMA FixupAround ==
  ASSUME NEW t, NEW k, NEW N, NEW H, NEW D, NEW o, Repairing(t, k, N, H, D, o),
         NEW c, c = o.cur, c # Root(t), Get(t, c, "color") = RED,
         NEW p, p = Get(t, c, "parent"), Get(t, p, "color") = RED, NEW g, g = Get(t, p, "parent"),
         NEW f, f = IF p = Get(t, g, "left") THEN "left" ELSE "right"
  PROVE  Around(t, H, c, p, g, f) /\ RootBlack(t)
<1>1. IsTree(t, H, D) /\ RedsApart(t, H, {c}) /\ Colored(t, H) /\ c \in H /\ RootBlack(t)
  BY DEF Repairing, Sound, RedBlack
<1>2. /\ NULL \notin H
      /\ \A a \in H : a # Root(t) =>
           /\ Get(t, a, "parent") \in H
           /\ a = Get(t, Get(t, a, "parent"), "left") \/ a = Get(t, Get(t, a, "parent"), "right")
      /\ \A a \in H : a \in D[a] /\ a \notin D[Get(t, a, "left")] /\ a \notin D[Get(t, a, "right")]
  BY <1>1 DEF IsTree, IsTreeBy
<1>3. p \in H /\ p # NULL /\ c # NULL /\ p # Root(t)
  BY <1>1, <1>2 DEF RootBlack, RED, BLACK
<1>4. g \in H /\ p = Get(t, g, f) /\ f \in Sides
  BY <1>2, <1>3 DEF Sides
<1>5. c = Get(t, p, f) \/ c = Get(t, p, Other(f))
  BY <1>1, <1>2 DEF Other
<1>6. p # c
  BY <1>1, <1>2, <1>3
<1>7. Get(t, g, "color") = BLACK
  <2>1. Get(t, g, "color") # RED
    BY <1>1, <1>3, <1>4, <1>6 DEF RedsApart, RED, BLACK
  <2> QED BY <2>1, <1>1, <1>4 DEF Colored
<1> QED BY <1>1, <1>3, <1>4, <1>5, <1>7 DEF Around

\* With a red uncle, black moves down from the grandparent.
LEMMA FixupUncle ==
  ASSUME NEW t, NEW k, NEW N, NEW H, NEW D, NEW c, NEW p, NEW g, NEW f, Usable(t), N \subseteq Dom(t),
         Around(t, H, c, p, g, f), RootBlack(t), Sound(t, k, N, H, D, Plain(t, H), {}, {c}),
         NEW u, u = Get(t, g, Other(f)), Get(t, u, "color") = RED
  PROVE  LET s == Set(Set(Set(t, g, "color", RED), p, "color", BLACK), u, "color", BLACK)
         IN  /\ Usable(s) /\ Dom(s) = Dom(t) /\ (RootBlack(s) \/ g = Root(s))
             /\ Sound(s, k, N, H, D, Plain(s, H), {}, {g})
<1> DEFINE r1 == Set(t, g, "color", RED)
           r2 == Set(r1, p, "color", BLACK)
           s == Set(r2, u, "color", BLACK)
<1>0. /\ f \in Sides /\ g \in H /\ p \in H /\ c \in H
      /\ p = Get(t, g, f) /\ p = Get(t, c, "parent") /\ g = Get(t, p, "parent")
      /\ Get(t, p, "color") = RED /\ Get(t, c, "color") = RED /\ Get(t, g, "color") = BLACK
      /\ Other(f) \in Sides /\ Sides = {f, Other(f)}
  BY DEF Around, Sides, Other
<1>1. /\ IsTree(t, H, D) /\ Colored(t, H) /\ Ordered(t, H, D, k, {}) /\ RedsApart(t, H, {c})
      /\ HasListing(t, H, N, k)
  BY DEF Sound, RedBlack
<1>2. /\ NULL \notin H /\ H \subseteq Dom(t)
      /\ \A x \in H, y \in Sides : Get(t, x, y) # NULL => Get(t, x, y) \in H /\ Get(t, Get(t, x, y), "parent") = x
      /\ \A a, z \in H : z \notin D[Get(t, a, f)] \/ z \notin D[Get(t, a, Other(f))]
      /\ \A z \in H : z \in D[z]
  <2>1. IsTreeBy(t, H, D, f, Other(f))
    BY <1>0, <1>1, EitherSide
  <2> QED BY <2>1, <1>0 DEF IsTreeBy
<1>3. u # NULL
  <2>1. NULL \notin Dom(t)
    BY DEF Usable
  <2>2. Get(t, NULL, "color") = NULL
    BY <2>1, GetOutside
  <2> QED BY <2>2 DEF RED, NULL
<1>4. /\ u \in H /\ Get(t, u, "parent") = g /\ u # p /\ p # g /\ u # g /\ g \in Dom(t) /\ p \in Dom(t) /\ u \in Dom(t)
  <2>1. u \in H /\ Get(t, u, "parent") = g /\ g \in Dom(t) /\ p \in Dom(t) /\ u \in Dom(t)
    BY <1>0, <1>2, <1>3
  <2>2. p # g /\ u # g
    BY <1>0 DEF RED, BLACK
  <2>3. u # p
    <3>1. p \in D[p] /\ (p \notin D[Get(t, g, f)] \/ p \notin D[Get(t, g, Other(f))])
      BY <1>0, <1>2
    <3> QED BY <3>1, <1>0
  <2> QED BY <2>1, <2>2, <2>3
<1>5. /\ Usable(s) /\ Dom(s) = Dom(t) /\ Root(s) = Root(t)
      /\ \A z, y : y \in Fields => Get(s, z, y) = IF y # "color" THEN Get(t, z, y)
                                                  ELSE IF z = g THEN RED ELSE IF z = p \/ z = u THEN BLACK
                                                  ELSE Get(t, z, y)
  <2>1. /\ Usable(r1) /\ Dom(r1) = Dom(t) /\ Root(r1) = Root(t)
        /\ \A z, y : y \in Fields => Get(r1, z, y) = IF z = g /\ y = "color" THEN RED ELSE Get(t, z, y)
    BY <1>4, SetGets DEF Fields
  <2> HIDE DEF r1
  <2>2. /\ Usable(r2) /\ Dom(r2) = Dom(t) /\ Root(r2) = Root(t)
        /\ \A z, y : y \in Fields => Get(r2, z, y) = IF z = p /\ y = "color" THEN BLACK ELSE Get(r1, z, y)
    BY <2>1, <1>4, SetGets DEF Fields
  <2> HIDE DEF r2
  <2>3. /\ Usable(s) /\ Dom(s) = Dom(t) /\ Root(s) = Root(t)
        /\ \A z, y : y \in Fields => Get(s, z, y) = IF z = u /\ y = "color" THEN BLACK ELSE Get(r2, z, y)
    BY <2>2, <1>4, SetGets DEF Fields
  <2> HIDE DEF s
  <2> QED BY <2>1, <2>2, <2>3, <1>4
<1> HIDE DEF s
<1>6. \A z : Get(s, z, "color") = IF z = g THEN RED ELSE IF z = p \/ z = u THEN BLACK ELSE Get(t, z, "color")
  BY <1>5 DEF Fields
<1>7. SameLinks(t, s)
  BY <1>5 DEF SameLinks, Fields
<1>8. IsTree(s, H, D) /\ Ordered(s, H, D, k, {}) /\ Colored(s, H)
  BY <1>1, <1>6, <1>7, SameTree, SameOrder DEF Colored
<1>9. RedsApart(s, H, {g})
  <2>1. ASSUME NEW a \in H, NEW y \in Sides, Get(s, a, "color") = RED, Get(s, a, y) # NULL, Get(s, a, y) # g
        PROVE  Get(s, Get(s, a, y), "color") = BLACK
    <3>1. Get(s, a, y) = Get(t, a, y) /\ a # p /\ a # u
      BY <2>1, <1>4, <1>6, <1>7 DEF SameLinks, Sides, RED, BLACK
    <3>2. CASE a = g
      BY <3>1, <3>2, <2>1, <1>0, <1>4, <1>6
    <3>3. CASE a # g
      <4>1. Get(t, a, y) # c
        BY <3>1, <2>1, <1>0, <1>2
      <4>2. Get(t, Get(t, a, y), "color") = BLACK
        BY <4>1, <3>1, <3>3, <2>1, <1>1, <1>6 DEF RedsApart
      <4> QED BY <4>2, <3>1, <2>1, <1>6
    <3> QED BY <3>2, <3>3
  <2> QED BY <2>1 DEF RedsApart
<1>10. RootBlack(s) \/ g = Root(s)
  BY <1>5, <1>6 DEF RootBlack
<1>11. \E B : Weighted(s, H, B, Plain(s, H))
  <2>1. PICK bh : Weighted(t, H, bh, Plain(t, H))
    BY DEF Sound, RedBlack
  <2> DEFINE w == Plain(t, H)
             v == Plain(s, H)
             B == [z \in H \cup {NULL} |-> IF z = p \/ z = u THEN bh[z] + 1 ELSE bh[z]]
  <2>2. /\ bh \in [H \cup {NULL} -> Nat] /\ bh[NULL] = 0
        /\ \A z \in H, y \in Sides : bh[z] = bh[Get(t, z, y)] + w[z]
    BY <2>1 DEF Weighted
  <2>3. w[g] = 1 /\ w[p] = 0 /\ w[u] = 0
    BY <1>0, <1>4 DEF Plain, RED, BLACK
  <2>4. v \in [H -> Nat] /\ v[g] = 0 /\ v[p] = 1 /\ v[u] = 1 /\ \A z \in H : z \notin {g, p, u} => v[z] = w[z]
    BY <1>0, <1>4, <1>6 DEF Plain, RED, BLACK
  <2>5. /\ B \in [H \cup {NULL} -> Nat] /\ B[NULL] = 0 /\ B[p] = bh[p] + 1 /\ B[u] = bh[u] + 1
        /\ \A z \in H \cup {NULL} : z \notin {p, u} => B[z] = bh[z]
    BY <2>2, <1>0, <1>2, <1>4
  <2> HIDE DEF w, v, B
  <2>6. ASSUME NEW z \in H, NEW y \in Sides PROVE B[z] = B[Get(t, z, y)] + v[z]
    <3>1. bh[z] = bh[Get(t, z, y)] + w[z] /\ Get(t, z, y) \in H \cup {NULL} /\ bh[Get(t, z, y)] \in Nat
      BY <2>2, <1>2
    <3>2. CASE z = g
      <4>1. Get(t, z, y) = p \/ Get(t, z, y) = u
        BY <3>2, <1>0
      <4> QED BY <4>1, <3>1, <3>2, <2>3, <2>4, <2>5, <1>4
    <3>3. CASE z # g
      <4>1. Get(t, z, y) \notin {p, u}
        BY <3>3, <1>0, <1>2, <1>3, <1>4
      <4>2. B[Get(t, z, y)] = bh[Get(t, z, y)]
        BY <4>1, <3>1, <2>5
      <4>3. CASE z = p \/ z = u
        BY <4>2, <4>3, <3>1, <2>3, <2>4, <2>5
      <4>4. CASE z \notin {p, u}
        BY <4>2, <4>4, <3>1, <3>3, <2>4, <2>5
      <4> QED BY <4>3, <4>4
    <3> QED BY <3>2, <3>3
  <2>7. Weighted(t, H, B, v)
    BY <2>4, <2>5, <2>6 DEF Weighted
  <2> QED BY <2>7, <1>7, SameWeights DEF v
<1>12. HasListing(s, H, N, k)
  BY <1>1, <1>5, SameListing DEF Fields
<1> QED BY <1>5, <1>8, <1>9, <1>10, <1>11, <1>12 DEF Sound, RedBlack, s, r1, r2

\* The repair goes on at c.
LEMMA RepairingSteady ==
  ASSUME NEW s, NEW k, NEW out, NEW H, NEW E, Usable(s), IsFiniteSet(Dom(s)), out \subseteq Dom(s),
         OpRecord(op), op.pc = "fixup", NEW c \in H, RootBlack(s) \/ c = Root(s),
         Sound(s, k, Dom(s) \ out, H, E, Plain(s, H), {}, {c})
  PROVE  Steady(s, k, out, [op EXCEPT !.cur = c])
<1> DEFINE o == [op EXCEPT !.cur = c]
<1>1. OpRecord(o) /\ o.pc = "fixup" /\ o.cur = c
  BY DEF OpRecord
<1> HIDE DEF o
<1>2. Repairing(s, k, Dom(s) \ out, H, E, o)
  BY <1>1 DEF Repairing
<1>3. Steady(s, k, out, o)
  BY <1>1, <1>2 DEF Steady, Phase, Out
<1> QED BY <1>3 DEF o

\* Where no red is below a red none is but for R.
LEMMA WeakerReds ==
  ASSUME NEW t, NEW k, NEW N, NEW H, NEW D, NEW w, NEW R, Sound(t, k, N, H, D, w, {}, {})
  PROVE  Sound(t, k, N, H, D, w, {}, R)
BY DEF Sound, RedBlack, RedsApart

\* One round of the repair: a red uncle is painted over and the repair moves
\* up, otherwise one rotation or two end it.
LEMMA FixupSteady ==
  ASSUME NEW out, Steady(Tree, key, out, op), Fixup
  PROVE  Steady(Tree', key', out, op')
<1> DEFINE N == Dom(Tree) \ out
           c == op.cur
           p == Get(Tree, c, "parent")
           g == Get(Tree, p, "parent")
           f == IF p = Get(Tree, g, "left") THEN "left" ELSE "right"
           u == Get(Tree, g, Other(f))
           inner == c = Get(Tree, p, Other(f))
           t1 == IF inner THEN Rotate(Tree, p, f) ELSE Tree
           q == IF inner THEN Get(t1, p, "parent") ELSE p
           t2 == Rotate(t1, g, Other(f))
           s1 == Set(Set(Set(Tree, g, "color", RED), p, "color", BLACK), u, "color", BLACK)
           s2 == Set(Set(t2, q, "color", Get(t2, g, "color")), g, "color", Get(t2, q, "color"))
<1>0. /\ op.pc = "fixup" /\ RedUnderRed
      /\ \/ Get(Tree, u, "color") = RED /\ Becomes(s1, [op EXCEPT !.cur = g])
         \/ Get(Tree, u, "color") = BLACK /\ Becomes(s2, [op EXCEPT !.cur = q])
  BY DEF Fixup, At, Field
<1>1. PICK H, D : /\ Repairing(Tree, key, N, H, D, op)
                  /\ Usable(Tree) /\ IsFiniteSet(Dom(Tree)) /\ out \subseteq Dom(Tree) /\ OpRecord(op)
  BY <1>0, FixupParts
<1>2. c # Root(Tree) /\ Get(Tree, c, "color") = RED /\ Get(Tree, p, "color") = RED
  BY <1>0 DEF RedUnderRed, Field, Root, Tree
<1>d. c = op.cur /\ p = Get(Tree, c, "parent") /\ g = Get(Tree, p, "parent")
      /\ f = (IF p = Get(Tree, g, "left") THEN "left" ELSE "right") /\ u = Get(Tree, g, Other(f))
  OBVIOUS
<1> HIDE DEF c, p, g, f, u
<1>3. Around(Tree, H, c, p, g, f) /\ RootBlack(Tree)
  BY <1>1, <1>2, <1>d, FixupAround
<1>4. Sound(Tree, key, N, H, D, Plain(Tree, H), {}, {c}) /\ NULL \notin H
  BY <1>1, <1>d DEF Repairing, Sound, RedBlack, IsTree, IsTreeBy
<1>5. /\ f \in Sides /\ g \in H /\ p \in H /\ c \in H /\ p = Get(Tree, g, f) /\ p # NULL /\ c # NULL
      /\ c = Get(Tree, p, f) \/ c = Get(Tree, p, Other(f))
      /\ Get(Tree, p, "color") = RED /\ Get(Tree, c, "color") = RED /\ Get(Tree, g, "color") = BLACK
  BY <1>3, <1>4 DEF Around
<1>6. CASE Get(Tree, u, "color") = RED /\ Becomes(s1, [op EXCEPT !.cur = g])
  <2>1. /\ Usable(s1) /\ Dom(s1) = Dom(Tree) /\ (RootBlack(s1) \/ g = Root(s1))
        /\ Sound(s1, key, N, H, D, Plain(s1, H), {}, {g})
    BY <1>1, <1>3, <1>4, <1>6, <1>d, FixupUncle
  <2> HIDE DEF s1
  <2>2. Steady(s1, key, out, [op EXCEPT !.cur = g])
    BY <2>1, <1>0, <1>1, <1>5, RepairingSteady
  <2> QED BY <2>1, <2>2, <1>6, BecomesTree
<1>7. CASE Get(Tree, u, "color") = BLACK /\ Becomes(s2, [op EXCEPT !.cur = q])
  <2>1. /\ Usable(s2) /\ Dom(s2) = Dom(Tree) /\ q \in H /\ RootBlack(s2)
        /\ \E E : Sound(s2, key, N, H, E, Plain(s2, H), {}, {})
    <3>1. CASE inner
      <4>0. t1 = Rotate(Tree, p, f) /\ c = Get(Tree, p, Other(f))
        BY <3>1
      <4>i. inner
        BY <3>1
      <4> HIDE DEF t1
      <4>1. /\ Usable(t1) /\ Dom(t1) = Dom(Tree) /\ RootBlack(t1)
            /\ \A z : Get(t1, z, "color") = Get(Tree, z, "color")
            /\ Get(t1, p, "parent") = c /\ Get(t1, g, f) = c /\ Get(t1, c, f) = p
            /\ Get(t1, g, Other(f)) = u
            /\ \E E : Sound(t1, key, N, H, E, Plain(t1, H), {}, {p})
        <5>1. N \subseteq Dom(Tree)
          OBVIOUS
        <5> HIDE DEF N
        <5>2. Straightened(Tree, t1, key, N, H, c, p, g, f)
          BY <5>1, <4>0, <1>1, <1>3, <1>4, FixupInner
        <5> QED BY <5>2, <1>d DEF Straightened
      <4>2. q = c
        BY <4>i, <4>1
      <4> HIDE DEF q
      <4>3. PICK E : Sound(t1, key, N, H, E, Plain(t1, H), {}, {p})
        BY <4>1
      <4>4. q = Get(t1, g, f) /\ p = Get(t1, q, f) /\ q # NULL
            /\ Get(t1, q, "color") = RED /\ Get(t1, g, "color") = BLACK
            /\ Get(t1, Get(t1, g, Other(f)), "color") = BLACK
        BY <4>1, <4>2, <1>5, <1>7
      <4>5. N \subseteq Dom(t1)
        BY <4>1
      <4>6. Outer(t1, H, p, q, g, f)
        BY <4>4, <1>5 DEF Outer
      <4> HIDE DEF N
      <4> QED BY <4>1, <4>2, <4>3, <4>5, <4>6, <1>5, FixupOuter
    <3>2. CASE ~inner
      <4>1. c = Get(Tree, p, f)
        BY <3>2, <1>5
      <4>2. t1 = Tree /\ q = p
        BY <3>2
      <4>3. Get(Tree, Get(Tree, g, Other(f)), "color") = BLACK
        BY <1>7, <1>d
      <4> HIDE DEF t1, q
      <4>4. Outer(Tree, H, c, p, g, f)
        BY <4>1, <4>3, <1>5 DEF Outer
      <4> QED BY <4>2, <4>4, <1>1, <1>3, <1>4, <1>5, FixupOuter
    <3> QED BY <3>1, <3>2
  <2> HIDE DEF s2, q
  <2>2. PICK E : Sound(s2, key, N, H, E, Plain(s2, H), {}, {q})
    BY <2>1, WeakerReds
  <2>3. Steady(s2, key, out, [op EXCEPT !.cur = q])
    BY <2>1, <2>2, <1>0, <1>1, <1>5, RepairingSteady
  <2> QED BY <2>1, <2>3, <1>7, BecomesTree
<1> QED BY <1>0, <1>6, <1>7

\* The leaf n that is to go, the doubly black node c above it, its parent and its sibling.
BlackAround(t, k, H, D, n, c, p, s, f, bh) ==
  /\ IsTree(t, H, D) /\ Colored(t, H) /\ Ordered(t, H, D, k, {n})
  /\ RootBlack(t) /\ Weighted(t, H, bh, Doubled(t, H, n, c))
  /\ f \in Sides /\ p \in H /\ s \in H /\ c \in H /\ n \in H /\ n # Root(t)
  /\ p = Get(t, c, "parent") /\ c = Get(t, p, f) /\ s = Get(t, p, Other(f)) /\ Get(t, s, "parent") = p
  /\ c # s /\ c # p /\ s # p /\ n # p /\ n \notin D[s] /\ n \in D[c]
  /\ Get(t, c, "color") = BLACK /\ Get(t, n, "color") = BLACK
  /\ \A y \in {"left", "right", "next"} : Get(t, n, y) = NULL
  /\ bh[s] = bh[c] /\ bh[p] = bh[c] + Plain(t, H)[p] /\ bh[c] - 1 \in Nat
\* The surroundings of a missing black, in a tree with no red below a red.
Black2(t, k, H, D, n, c, p, s, f, bh) ==
  BlackAround(t, k, H, D, n, c, p, s, f, bh) /\ RedsApart(t, H, {})

\* A missing black below the root has a sibling, whose subtree counts one black
\* more.
LEMMA DoublyBlackParts ==
  ASSUME NEW t, NEW k, NEW N, NEW H, NEW D, NEW o, NULL \notin N, DoublyBlack(t, k, N, H, D, o),
         NEW n, n = o.node, NEW c, c = o.cur, c # Root(t)
  PROVE  \E f, bh, p, s : Black2(t, k, H, D, n, c, p, s, f, bh)
<1>1. /\ IsTree(t, H, D) /\ Colored(t, H) /\ Ordered(t, H, D, k, {n}) /\ RedsApart(t, H, {})
      /\ RootBlack(t) /\ n \in H /\ c \in H /\ n \in D[c] /\ Get(t, c, "color") = BLACK /\ Get(t, n, "color") = BLACK
      /\ \A y \in {"left", "right", "next"} : Get(t, n, y) = NULL
      /\ n # Root(t)
      /\ \E bh : Weighted(t, H, bh, Doubled(t, H, n, c))
  BY DEF DoublyBlack, Sound, RedBlack, LeafToGo
<1>2. PICK bh : Weighted(t, H, bh, Doubled(t, H, n, c))
  BY <1>1
<1> DEFINE p == Get(t, c, "parent")
           f == IF c = Get(t, p, "left") THEN "left" ELSE "right"
           s == Get(t, p, Other(f))
           w == Doubled(t, H, n, c)
<1>3. f \in Sides /\ Other(f) \in Sides /\ f # Other(f)
  BY DEF Sides, Other
<1>4. p \in H /\ c = Get(t, p, f) /\ NULL \notin H
  BY <1>1 DEF IsTree, IsTreeBy
<1>d. p = Get(t, c, "parent") /\ s = Get(t, p, Other(f))
  OBVIOUS
<1> HIDE DEF p, f, s
<1>5. /\ D \in [H \cup {NULL} -> SUBSET H]
      /\ \A x \in H, y \in Sides : Get(t, x, y) # NULL => Get(t, x, y) \in H /\ Get(t, Get(t, x, y), "parent") = x
      /\ \A x \in H : x \in D[x] /\ x \notin D[Get(t, x, f)] /\ x \notin D[Get(t, x, Other(f))]
      /\ \A x, z \in H : z \notin D[Get(t, x, f)] \/ z \notin D[Get(t, x, Other(f))]
      /\ \A x, z \in H : z \in D[x] <=> z = x \/ z \in D[Get(t, x, f)] \/ z \in D[Get(t, x, Other(f))]
  <2>1. IsTreeBy(t, H, D, f, Other(f))
    BY <1>1, <1>3, EitherSide
  <2>2. Sides = {f, Other(f)}
    BY <1>3 DEF Sides, Other
  <2> QED BY <2>1, <2>2 DEF IsTreeBy
<1>6. c # p /\ n # p /\ n \notin D[s]
  <2>1. p \notin D[c] /\ c \in D[c]
    BY <1>1, <1>4, <1>5
  <2> QED BY <2>1, <1>1, <1>4, <1>5, <1>d
<1>7. /\ w \in [H -> Nat] /\ w[c] - 1 \in Nat /\ w[p] = Plain(t, H)[p]
  <2>1. w \in [H -> Nat]
    BY DEF Doubled, Uncounted, Plain
  <2>2. w[c] \in {1, 2}
    BY <1>1 DEF Doubled, Uncounted, Plain
  <2>3. w[p] = Plain(t, H)[p]
    BY <1>4, <1>6 DEF Doubled, Uncounted
  <2> QED BY <2>1, <2>2, <2>3
<1> HIDE DEF w
<1>8. /\ bh \in [H \cup {NULL} -> Nat] /\ bh[NULL] = 0
      /\ \A x \in H, y \in Sides : bh[x] = bh[Get(t, x, y)] + w[x]
  BY <1>2 DEF Weighted, w
<1>9. s \in H \cup {NULL} /\ Get(t, c, "left") \in H \cup {NULL}
  BY <1>1, <1>3, <1>4, <1>5, <1>d DEF Sides
<1>10. bh[p] = bh[c] + w[p] /\ bh[p] = bh[s] + w[p] /\ bh[c] = bh[Get(t, c, "left")] + w[c]
  BY <1>1, <1>3, <1>4, <1>8, <1>d DEF Sides
<1>11. bh[p] \in Nat /\ bh[c] \in Nat /\ bh[s] \in Nat /\ bh[Get(t, c, "left")] \in Nat /\ w[p] \in Nat /\ w[c] \in Nat
  BY <1>1, <1>4, <1>7, <1>8, <1>9
<1>12. bh[s] = bh[c] /\ bh[c] - 1 \in Nat
  BY <1>7, <1>10, <1>11
<1>13. s \in H
  <2>1. s # NULL
    BY <1>8, <1>12
  <2> QED BY <2>1, <1>9
<1>14. c # s /\ s # p /\ Get(t, s, "parent") = p
  <2>1. s \in D[s]
    BY <1>5, <1>13
  <2>2. Get(t, s, "parent") = p
    BY <1>3, <1>4, <1>5, <1>13, <1>d
  <2>3. s # p
    BY <2>1, <1>4, <1>5, <1>d
  <2>4. c # s
    BY <2>1, <1>1, <1>4, <1>5, <1>d
  <2> QED BY <2>2, <2>3, <2>4
<1>15. Black2(t, k, H, D, n, c, p, s, f, bh)
  BY <1>1, <1>2, <1>3, <1>4, <1>6, <1>7, <1>10, <1>12, <1>13, <1>14, <1>d DEF Black2, BlackAround
<1> QED BY <1>15

\* A red sibling is rotated over its parent.
LEMMA RedSiblingTurned ==
  ASSUME NEW t, NEW k, NEW H, NEW D, NEW n, NEW c, NEW p, NEW s, NEW f, NEW bh, Usable(t),
         Black2(t, k, H, D, n, c, p, s, f, bh), Get(t, s, "color") = RED
  PROVE  LET r == Rotate(Set(Set(t, p, "color", RED), s, "color", BLACK), p, f)
         IN  /\ Usable(r) /\ Dom(r) = Dom(t) /\ RootBlack(r) /\ n # Root(r)
             /\ \A z : Get(r, z, "next") = Get(t, z, "next")
             /\ \A y \in {"left", "right", "parent"} : Get(r, n, y) = Get(t, n, y)
             /\ \A z \in {n, c} : Get(r, z, "color") = BLACK
             /\ \E E : RedBlack(r, k, H, E, Doubled(r, H, n, c), {n}, {}) /\ n \in E[c]
<1> DEFINE t1 == Set(t, p, "color", RED)
           t2 == Set(t1, s, "color", BLACK)
           r == Rotate(t2, p, f)
           b == Other(f)
           E == RotatedBelow(t2, H, D, p, f, b)
           d == Get(t, s, f)
           h == Get(t, s, b)
<1>p. /\ IsTree(t, H, D) /\ Colored(t, H) /\ Ordered(t, H, D, k, {n}) /\ RedsApart(t, H, {})
      /\ RootBlack(t) /\ Weighted(t, H, bh, Doubled(t, H, n, c))
      /\ f \in Sides /\ p \in H /\ s \in H /\ c \in H /\ n \in H /\ n # Root(t)
      /\ p = Get(t, c, "parent") /\ c = Get(t, p, f) /\ s = Get(t, p, b) /\ Get(t, s, "parent") = p
      /\ c # s /\ c # p /\ s # p /\ n # p /\ n \notin D[s] /\ n \in D[c]
      /\ Get(t, c, "color") = BLACK /\ Get(t, n, "color") = BLACK
      /\ \A y \in {"left", "right", "next"} : Get(t, n, y) = NULL
      /\ bh[s] = bh[c] /\ bh[p] = bh[c] + Plain(t, H)[p] /\ bh[c] - 1 \in Nat
  BY DEF Black2, BlackAround
<1>d. b = Other(f) /\ d = Get(t, s, f) /\ h = Get(t, s, b) /\ r = Rotate(t2, p, f) /\ E = RotatedBelow(t2, H, D, p, f, b)
  OBVIOUS
<1> HIDE DEF b, d, h, r, E
<1>0. b \in Sides /\ f # b /\ Sides = {f, b}
  BY <1>p, <1>d DEF Other, Sides
<1>n. NULL \notin H /\ p # NULL /\ s # NULL /\ p \in Dom(t) /\ s \in Dom(t)
  BY <1>p DEF IsTree, IsTreeBy
<1>1. /\ Usable(t2) /\ Dom(t2) = Dom(t) /\ Root(t2) = Root(t)
      /\ \A z, y : y \in Fields => Get(t2, z, y) = IF y # "color" THEN Get(t, z, y)
                                                   ELSE IF z = s THEN BLACK ELSE IF z = p THEN RED
                                                   ELSE Get(t, z, y)
  <2>1. /\ Usable(t1) /\ Dom(t1) = Dom(t) /\ Root(t1) = Root(t)
        /\ \A z, y : y \in Fields => Get(t1, z, y) = IF z = p /\ y = "color" THEN RED ELSE Get(t, z, y)
    BY <1>n, SetGets DEF Fields
  <2> HIDE DEF t1
  <2>2. /\ Usable(t2) /\ Dom(t2) = Dom(t1) /\ Root(t2) = Root(t1)
        /\ \A z, y : y \in Fields => Get(t2, z, y) = IF z = s /\ y = "color" THEN BLACK ELSE Get(t1, z, y)
    BY <2>1, <1>n, SetGets DEF Fields
  <2> HIDE DEF t2
  <2> QED BY <2>1, <2>2
<1> HIDE DEF t2
<1>2. SameLinks(t, t2)
  BY <1>1 DEF SameLinks, Fields
<1>l. /\ c = Get(t2, p, f) /\ s = Get(t2, p, b) /\ d = Get(t2, s, f) /\ h = Get(t2, s, b)
      /\ Get(t2, p, "parent") = Get(t, p, "parent")
  <2>1. \A z : /\ \A y \in Sides : Get(t2, z, y) = Get(t, z, y)
               /\ Get(t2, z, "parent") = Get(t, z, "parent")
    BY <1>2 DEF SameLinks, Sides
  <2>2. f \in Sides /\ b \in Sides
    BY <1>p, <1>0
  <2> QED BY <2>1, <2>2, <1>p, <1>d
<1>3. IsTree(t2, H, D) /\ Ordered(t2, H, D, k, {n}) /\ Weighted(t2, H, bh, Doubled(t, H, n, c))
  BY <1>p, <1>2, SameTree, SameOrder, SameWeights
<1>4. Usable(r) /\ Rotated(t2, r, p, f, b) /\ IsTree(r, H, E)
  BY <1>1, <1>3, <1>l, <1>n, <1>p, <1>d, RotateKeepsTree
<1>s. s # n
  BY <1>p DEF IsTree, IsTreeBy
<1>5. Ordered(r, H, E, k, {n})
  BY <1>3, <1>4, <1>l, <1>n, <1>p, <1>s, <1>d, RotateOrdered
<1>6. /\ Dom(r) = Dom(t) /\ Root(r) = (IF Root(t) = p THEN s ELSE Root(t))
      /\ \A z : Get(r, z, "next") = Get(t, z, "next")
      /\ \A z : Get(r, z, "color") = IF z = s THEN BLACK ELSE IF z = p THEN RED ELSE Get(t, z, "color")
  BY <1>1, <1>4, <1>l DEF Rotated, Fields
<1>7. RotateBefore(t2, H, D, p, s, d, c, h) /\ RotateAfter(t2, r, H, D, p, f, b, s, d, c, h, Get(t, p, "parent"), E)
  <2>1. IsTreeBy(t2, H, D, f, b)
    BY <1>3, <1>p, <1>d, EitherSide
  <2>2. Get(t, p, "parent") = Get(t2, p, "parent") /\ Get(t2, p, b) # NULL /\ p \in H /\ f # b
    BY <1>0, <1>l, <1>n, <1>p
  <2>3. s = Get(t2, p, b) /\ d = Get(t2, s, f) /\ c = Get(t2, p, f) /\ h = Get(t2, s, b)
        /\ E = RotatedBelow(t2, H, D, p, f, b)
    BY <1>l, <1>d
  <2> QED BY <2>1, <2>2, <2>3, <1>4, RotateFacts
<1>8. /\ d \in H \cup {NULL} /\ h \in H \cup {NULL} /\ d \notin {p, s} /\ h \notin {p, s}
      /\ d # NULL => d \in D[s]
  <2>1. d \in H \cup {NULL} /\ h \in H \cup {NULL} /\ d \notin {p, s} /\ h \notin {p, s}
    BY <1>7 DEF RotateBefore
  <2>2. \A x, z \in H : z \in D[x] <=> z = x \/ z \in D[Get(t, x, f)] \/ z \in D[Get(t, x, b)]
    <3>1. IsTreeBy(t, H, D, f, b)
      BY <1>p, <1>d, EitherSide
    <3> QED BY <3>1 DEF IsTreeBy
  <2>3. \A x \in H : x \in D[x]
    BY <1>p DEF IsTree, IsTreeBy
  <2> QED BY <2>1, <2>2, <2>3, <1>p, <1>d
<1>9. n # d
  BY <1>8, <1>p, <1>n
<1>10. \A y \in {"left", "right", "parent"} : Get(r, n, y) = Get(t, n, y)
  <2>1. Get(r, n, "parent") = Get(t2, n, "parent")
    BY <1>7, <1>9, <1>p, <1>s DEF RotateAfter
  <2>2. \A y \in Sides : Get(r, n, y) = (IF Get(t2, n, y) = p THEN s ELSE Get(t2, n, y))
    BY <1>7, <1>0, <1>p, <1>s DEF RotateAfter
  <2>3. \A y \in Sides : Get(t2, n, y) = NULL
    BY <1>1, <1>p DEF Sides, Fields
  <2>4. Get(t2, n, "parent") = Get(t, n, "parent")
    BY <1>1 DEF Fields
  <2> QED BY <2>1, <2>2, <2>3, <2>4, <1>n, <1>p DEF Sides
<1>11. n \in E[c]
  <2>1. E[c] = D[c]
    BY <1>7, <1>p DEF RotateAfter
  <2> QED BY <2>1, <1>p
<1>12. Colored(r, H)
  BY <1>p, <1>6 DEF Colored
<1>13. Get(t, p, "color") = BLACK
  <2>1. Get(t, p, "color") # RED
    <3>1. RedsApart(t, H, {}) /\ p \in H /\ b \in Sides /\ Get(t, p, b) = s /\ s # NULL
      BY <1>0, <1>n, <1>p
    <3>2. Get(t, s, "color") # BLACK
      BY DEF RED, BLACK
    <3> QED BY <3>1, <3>2 DEF RedsApart
  <2> QED BY <2>1, <1>p DEF Colored
<1>14. RootBlack(r) /\ n # Root(r)
  BY <1>6, <1>p, <1>s DEF RootBlack, RED, BLACK
<1>e. \A a \in H, y \in Sides : Get(r, a, y) # NULL =>
        \/ a = p /\ Get(r, a, y) \in {d, c}
        \/ a = s /\ Get(r, a, y) \in {p, h}
        \/ a = Get(t2, p, "parent") /\ a \notin {p, s} /\ Get(r, a, y) = s
        \/ a \notin {p, s} /\ Get(r, a, y) \notin {p, s, d, c, h} /\ Get(r, a, y) = Get(t2, a, y)
  BY <1>3, <1>4, <1>l, <1>n, <1>p, <1>d, RotateEdges
<1>15. RedsApart(r, H, {})
  <2>1. ASSUME NEW a \in H, NEW y \in Sides, Get(r, a, "color") = RED, Get(r, a, y) # NULL
        PROVE  Get(r, Get(r, a, y), "color") = BLACK
    <3>1. a # s
      BY <2>1, <1>6 DEF RED, BLACK
    <3>2. CASE a = p
      <4>1. d # NULL => Get(t, d, "color") = BLACK
        BY <1>p, <1>d, <1>0 DEF RedsApart
      <4>2. Get(r, a, y) = d \/ Get(r, a, y) = c
        BY <2>1, <3>1, <3>2, <1>e, <1>p
      <4> QED BY <4>1, <4>2, <2>1, <1>6, <1>8, <1>p
    <3>3. CASE Get(r, a, y) = s
      BY <3>3, <1>6
    <3>4. CASE a # p /\ Get(r, a, y) \notin {p, s} /\ Get(r, a, y) = Get(t2, a, y)
      <4>1. Get(r, a, y) = Get(t, a, y) /\ Get(t, a, "color") = RED
        BY <3>1, <3>4, <2>1, <1>1, <1>6 DEF Fields, Sides
      <4>2. Get(t, Get(t, a, y), "color") = BLACK
        <5>1. RedsApart(t, H, {})
          BY <1>p
        <5> QED BY <5>1, <4>1, <2>1 DEF RedsApart
      <4> QED BY <4>1, <4>2, <3>4, <2>1, <1>6
    <3> QED BY <3>1, <3>2, <3>3, <3>4, <2>1, <1>e
  <2> QED BY <2>1 DEF RedsApart
<1>16. \E B : Weighted(r, H, B, Doubled(r, H, n, c))
  <2> DEFINE w == Doubled(t, H, n, c)
             v == Doubled(r, H, n, c)
             B == [z \in H \cup {NULL} |-> IF z = s THEN bh[p] ELSE IF z = p THEN bh[c] ELSE bh[z]]
  <2>1. /\ bh \in [H \cup {NULL} -> Nat] /\ bh[NULL] = 0
        /\ \A z \in H, y \in Sides : bh[z] = bh[Get(t, z, y)] + w[z]
    BY <1>p DEF Weighted
  <2>2. w[p] = 1 /\ w[s] = 0 /\ Plain(t, H)[p] = 1
    BY <1>13, <1>p, <1>s DEF Plain, Doubled, Uncounted, RED, BLACK
  <2>3. v \in [H -> Nat] /\ v[p] = 0 /\ v[s] = 1 /\ \A z \in H : z \notin {p, s} => v[z] = w[z]
    BY <1>6, <1>p, <1>s DEF Plain, Doubled, Uncounted, RED, BLACK
  <2>4. /\ B \in [H \cup {NULL} -> Nat] /\ B[s] = bh[p] /\ B[p] = bh[c]
        /\ \A z \in H \cup {NULL} : z \notin {p, s} => B[z] = bh[z]
    BY <2>1, <1>p
  <2>w. Weighted(t2, H, bh, w)
    BY <1>3
  <2> HIDE DEF w, v, B
  <2>5. bh[s] = bh[d] /\ bh[s] = bh[h]
    <3>1. bh[s] = bh[d] + w[s] /\ bh[s] = bh[h] + w[s]
      BY <2>1, <1>0, <1>d, <1>p
    <3>2. bh[d] \in Nat /\ bh[h] \in Nat
      BY <2>1, <1>8
    <3> QED BY <3>1, <3>2, <2>2
  <2>6. RotateCounts(H, p, s, d, c, h, bh, w, B, v)
    <3>1. B[NULL] = 0 /\ B[c] = bh[c] /\ B[d] = bh[d] /\ B[h] = bh[h]
      BY <2>1, <2>4, <1>8, <1>n, <1>p
    <3>2. \A z \in H : z \notin {p, s, d, c, h} => B[z] = bh[z] /\ v[z] = w[z]
      BY <2>3, <2>4
    <3>3. \A z \in {d, c, h} \ {NULL} : B[z] + w[z] = bh[z] + v[z]
      BY <3>1, <2>3, <1>8, <1>p
    <3>4. bh[c] \in Nat
      BY <2>1, <1>p
    <3>5. B[s] = bh[p] /\ B[c] = B[d] /\ B[p] = B[c] + v[p] /\ B[p] = B[h] /\ B[s] = B[p] + v[s]
      BY <3>1, <3>4, <2>2, <2>3, <2>4, <2>5, <1>p
    <3> QED BY <3>1, <3>2, <3>3, <3>5, <2>3, <2>4 DEF RotateCounts
  <2>7. Weighted(r, H, B, v)
    BY <2>w, <2>6, <1>3, <1>4, <1>l, <1>n, <1>p, <1>d, RotateWeighted
  <2> QED BY <2>7 DEF v
<1>17. \A z \in {n, c} : Get(r, z, "color") = BLACK
  BY <1>6, <1>p, <1>s
<1>18. RedBlack(r, k, H, E, Doubled(r, H, n, c), {n}, {})
  BY <1>4, <1>5, <1>12, <1>15, <1>16 DEF RedBlack
<1> QED BY <1>4, <1>6, <1>10, <1>11, <1>14, <1>17, <1>18, <1>d DEF t2, t1

\* With a black sibling that has no red child, one black less below the parent.
BlackSiblingLeft(t, r, k, H, D, n, c, p) ==
  /\ Usable(r) /\ Dom(r) = Dom(t) /\ RootBlack(r) /\ n # Root(r)
  /\ \A z : Get(r, z, "next") = Get(t, z, "next")
  /\ \A y \in {"left", "right", "parent"} : Get(r, n, y) = Get(t, n, y)
  /\ RedBlack(r, k, H, D, IF Get(t, p, "color") = RED THEN Uncounted(r, H, n) ELSE Doubled(r, H, n, p), {n}, {})
  /\ n \in D[p] /\ Get(r, n, "color") = BLACK /\ Get(r, p, "color") = BLACK /\ p \in H

\* A black sibling with no red child: painting it red, and the parent black,
\* either makes up for the missing black or passes it to the parent.
LEMMA BlackSiblingColored ==
  ASSUME NEW t, NEW k, NEW H, NEW D, NEW n, NEW c, NEW p, NEW s, NEW f, NEW bh, Usable(t),
         Black2(t, k, H, D, n, c, p, s, f, bh), Get(t, s, "color") # RED,
         \A y \in Sides : Get(t, s, y) # NULL => Get(t, Get(t, s, y), "color") # RED
  PROVE  BlackSiblingLeft(t, Set(Set(t, s, "color", RED), p, "color", BLACK), k, H, D, n, c, p)
<1> DEFINE t1 == Set(t, s, "color", RED)
           r == Set(t1, p, "color", BLACK)
           b == Other(f)
<1>p. /\ IsTree(t, H, D) /\ Colored(t, H) /\ Ordered(t, H, D, k, {n}) /\ RedsApart(t, H, {})
      /\ RootBlack(t) /\ Weighted(t, H, bh, Doubled(t, H, n, c))
      /\ f \in Sides /\ p \in H /\ s \in H /\ c \in H /\ n \in H /\ n # Root(t)
      /\ p = Get(t, c, "parent") /\ c = Get(t, p, f) /\ s = Get(t, p, b) /\ Get(t, s, "parent") = p
      /\ c # s /\ c # p /\ s # p /\ n # p /\ n \notin D[s] /\ n \in D[c]
      /\ Get(t, c, "color") = BLACK /\ Get(t, n, "color") = BLACK
      /\ bh[s] = bh[c] /\ bh[p] = bh[c] + Plain(t, H)[p] /\ bh[c] - 1 \in Nat
  BY DEF Black2, BlackAround
<1>d. b = Other(f)
  OBVIOUS
<1> HIDE DEF b
<1>0. b \in Sides /\ f # b /\ Sides = {f, b}
  BY <1>p, <1>d DEF Other, Sides
<1>n. NULL \notin H /\ p # NULL /\ s # NULL /\ p \in Dom(t) /\ s \in Dom(t)
  BY <1>p DEF IsTree, IsTreeBy
<1>b. Get(t, s, "color") = BLACK
  BY <1>p DEF Colored
<1>1. /\ Usable(r) /\ Dom(r) = Dom(t) /\ Root(r) = Root(t)
      /\ \A z, y : y \in Fields => Get(r, z, y) = IF y # "color" THEN Get(t, z, y)
                                                  ELSE IF z = p THEN BLACK ELSE IF z = s THEN RED
                                                  ELSE Get(t, z, y)
  <2>1. /\ Usable(t1) /\ Dom(t1) = Dom(t) /\ Root(t1) = Root(t)
        /\ \A z, y : y \in Fields => Get(t1, z, y) = IF z = s /\ y = "color" THEN RED ELSE Get(t, z, y)
    BY <1>n, SetGets DEF Fields
  <2> HIDE DEF t1
  <2>2. /\ Usable(r) /\ Dom(r) = Dom(t1) /\ Root(r) = Root(t1)
        /\ \A z, y : y \in Fields => Get(r, z, y) = IF z = p /\ y = "color" THEN BLACK ELSE Get(t1, z, y)
    BY <2>1, <1>n, SetGets DEF Fields
  <2> HIDE DEF r
  <2> QED BY <2>1, <2>2
<1> HIDE DEF r
<1>2. SameLinks(t, r)
  BY <1>1 DEF SameLinks, Fields
<1>3. IsTree(r, H, D) /\ Ordered(r, H, D, k, {n})
  BY <1>p, <1>2, SameTree, SameOrder
<1>6. \A z : Get(r, z, "color") = IF z = p THEN BLACK ELSE IF z = s THEN RED ELSE Get(t, z, "color")
  BY <1>1 DEF Fields
<1>s. s # n
  BY <1>p DEF IsTree, IsTreeBy
<1>7. Colored(r, H)
  BY <1>p, <1>6 DEF Colored
<1>8. s # Root(t)
  BY <1>p, <1>n DEF IsTree, IsTreeBy
<1>9. RootBlack(r) /\ n # Root(r)
  BY <1>1, <1>6, <1>8, <1>p DEF RootBlack
<1>10. \A x \in H, y \in Sides : Get(t, x, y) # NULL => Get(t, x, y) \in H /\ Get(t, Get(t, x, y), "parent") = x
  BY <1>p DEF IsTree, IsTreeBy, Sides
<1>11. RedsApart(r, H, {})
  <2>1. ASSUME NEW a \in H, NEW y \in Sides, Get(r, a, "color") = RED, Get(r, a, y) # NULL
        PROVE  Get(r, Get(r, a, y), "color") = BLACK
    <3>1. a # p /\ Get(r, a, y) = Get(t, a, y)
      BY <2>1, <1>2, <1>6 DEF SameLinks, Sides, RED, BLACK
    <3>2. Get(t, a, y) # s
      BY <3>1, <2>1, <1>10, <1>p
    <3>3. Get(t, Get(t, a, y), "color") = BLACK
      <4>1. CASE a = s
        BY <4>1, <3>1, <2>1, <1>10, <1>p DEF Colored
      <4>2. CASE a # s
        <5>1. RedsApart(t, H, {}) /\ Get(t, a, "color") = RED
          BY <4>2, <3>1, <2>1, <1>6, <1>p
        <5> QED BY <5>1, <3>1, <2>1 DEF RedsApart
      <4> QED BY <4>1, <4>2
    <3> QED BY <3>1, <3>2, <3>3, <1>6
  <2> QED BY <2>1 DEF RedsApart
<1> DEFINE v == IF Get(t, p, "color") = RED THEN Uncounted(r, H, n) ELSE Doubled(r, H, n, p)
<1>12. \E B : Weighted(r, H, B, v)
  <2> DEFINE w == Doubled(t, H, n, c)
             B == [z \in H \cup {NULL} |-> IF z = s \/ z = c THEN bh[z] - 1 ELSE bh[z]]
  <2>1. /\ bh \in [H \cup {NULL} -> Nat] /\ bh[NULL] = 0
        /\ \A z \in H, y \in Sides : bh[z] = bh[Get(t, z, y)] + w[z]
    BY <1>p DEF Weighted
  <2>2. w \in [H -> Nat] /\ w[s] = 1 /\ w[c] - 1 \in Nat /\ (Get(t, p, "color") = RED => w[p] = 0)
        /\ (Get(t, p, "color") # RED => w[p] = 1)
    <3>1. w \in [H -> Nat] /\ w[s] = 1
      BY <1>b, <1>p, <1>s DEF Plain, Doubled, Uncounted
    <3>2. w[c] \in {1, 2}
      BY <1>p DEF Plain, Doubled, Uncounted
    <3>3. Get(t, p, "color") = RED => w[p] = 0
      BY <1>p DEF Plain, Doubled, Uncounted, RED, BLACK
    <3>4. Get(t, p, "color") # RED => w[p] = 1
      BY <1>p DEF Plain, Doubled, Uncounted, RED, BLACK, Colored
    <3> QED BY <3>1, <3>2, <3>3, <3>4
  <2>3. /\ v \in [H -> Nat] /\ v[s] = 0 /\ v[c] = w[c] - 1 /\ v[p] = w[p] + 1
        /\ \A z \in H : z \notin {p, s, c} => v[z] = w[z]
    <3>1. CASE Get(t, p, "color") = RED
      <4>1. v = Uncounted(r, H, n)
        BY <3>1
      <4>2. w[p] = 0
        BY <3>1, <2>2
      <4> HIDE DEF v
      <4>3. v[p] = 1 /\ v[s] = 0 /\ v \in [H -> Nat]
        BY <4>1, <1>6, <1>p, <1>s DEF Plain, Uncounted, RED, BLACK
      <4>4. v[c] = w[c] - 1
        BY <4>1, <1>6, <1>p DEF Plain, Doubled, Uncounted
      <4>5. \A z \in H : z \notin {p, s, c} => v[z] = w[z]
        BY <4>1, <1>6, <1>p DEF Plain, Doubled, Uncounted
      <4> QED BY <4>2, <4>3, <4>4, <4>5
    <3>2. CASE Get(t, p, "color") # RED
      <4>1. v = Doubled(r, H, n, p)
        BY <3>2
      <4>2. w[p] = 1
        BY <3>2, <2>2
      <4> HIDE DEF v
      <4>3. v[p] = 2 /\ v[s] = 0 /\ v \in [H -> Nat]
        BY <4>1, <1>6, <1>p, <1>s DEF Plain, Doubled, Uncounted, RED, BLACK
      <4>4. v[c] = w[c] - 1
        BY <4>1, <1>6, <1>p DEF Plain, Doubled, Uncounted
      <4>5. \A z \in H : z \notin {p, s, c} => v[z] = w[z]
        BY <4>1, <1>6, <1>p DEF Plain, Doubled, Uncounted
      <4> QED BY <4>2, <4>3, <4>4, <4>5
    <3> QED BY <3>1, <3>2
  <2>4. /\ B \in [H \cup {NULL} -> Nat] /\ B[NULL] = 0 /\ B[s] = bh[s] - 1 /\ B[c] = bh[c] - 1
        /\ \A z \in H \cup {NULL} : z \notin {c, s} => B[z] = bh[z]
    BY <2>1, <1>n, <1>p
  <2> HIDE DEF w, v, B
  <2>5. ASSUME NEW z \in H, NEW y \in Sides PROVE B[z] = B[Get(t, z, y)] + v[z]
    <3>1. bh[z] = bh[Get(t, z, y)] + w[z] /\ Get(t, z, y) \in H \cup {NULL} /\ bh[Get(t, z, y)] \in Nat /\ w[z] \in Nat
      BY <2>1, <2>2, <1>10
    <3>2. CASE z = p
      <4>1. Get(t, z, y) = c \/ Get(t, z, y) = s
        BY <3>2, <1>0, <1>p
      <4>2. B[Get(t, z, y)] = bh[Get(t, z, y)] - 1
        BY <4>1, <2>4
      <4> QED BY <4>2, <3>1, <3>2, <2>3, <2>4, <1>p
    <3>3. CASE z # p
      <4>1. Get(t, z, y) \notin {c, s}
        BY <3>3, <1>10, <1>n, <1>p
      <4>2. B[Get(t, z, y)] = bh[Get(t, z, y)]
        BY <4>1, <3>1, <2>4
      <4>3. CASE z = s
        BY <4>2, <4>3, <3>1, <2>2, <2>3, <2>4
      <4>4. CASE z = c
        BY <4>2, <4>4, <3>1, <2>2, <2>3, <2>4
      <4>5. CASE z \notin {c, s}
        BY <4>2, <4>5, <3>1, <3>3, <2>3, <2>4
      <4> QED BY <4>3, <4>4, <4>5
    <3> QED BY <3>2, <3>3
  <2>6. Weighted(t, H, B, v)
    BY <2>3, <2>4, <2>5 DEF Weighted
  <2>7. Weighted(r, H, B, v)
    BY <2>6, <1>2, SameWeights
  <2> QED BY <2>7
<1>13. RedBlack(r, k, H, D, v, {n}, {})
  <2> HIDE DEF v
  <2> QED BY <1>3, <1>7, <1>11, <1>12 DEF RedBlack
<1>14. n \in D[p]
  <2>1. \A x, z \in H : z \in D[x] <=> z = x \/ z \in D[Get(t, x, "left")] \/ z \in D[Get(t, x, "right")]
    BY <1>p DEF IsTree, IsTreeBy
  <2> QED BY <2>1, <1>p DEF Sides
<1>15. \A y \in {"left", "right", "parent", "next"} : \A z : Get(r, z, y) = Get(t, z, y)
  BY <1>2 DEF SameLinks
<1>16. Get(r, n, "color") = BLACK /\ Get(r, p, "color") = BLACK
  BY <1>6, <1>p, <1>s
<1>17. BlackSiblingLeft(t, r, k, H, D, n, c, p)
  BY <1>1, <1>9, <1>13, <1>14, <1>15, <1>16, <1>p DEF BlackSiblingLeft
<1> QED BY <1>17 DEF r, t1

\* With a red nephew the missing black is made up for, and the leaf can go.
MadeUp(t, r, k, H, n) ==
  /\ Usable(r) /\ Dom(r) = Dom(t) /\ RootBlack(r) /\ n # Root(r)
  /\ \A z : Get(r, z, "next") = Get(t, z, "next")
  /\ \A y \in {"left", "right", "parent"} : Get(r, n, y) = Get(t, n, y)
  /\ \E E : RedBlack(r, k, H, E, Uncounted(r, H, n), {n}, {})

\* t with the links kept, the node s in colour m and x black.
Recolored(t, q, s, m, x) ==
  /\ Usable(q) /\ Dom(q) = Dom(t) /\ Root(q) = Root(t)
  /\ \A z, y : y \in Fields => Get(q, z, y) = IF y # "color" THEN Get(t, z, y)
                                              ELSE IF z = s THEN m ELSE IF z = x THEN BLACK
                                              ELSE Get(t, z, y)

\* Only children of x may be red under a red node.
RedsBelow(t, H, x) ==
  \A a \in H, y \in Sides : a # x /\ Get(t, a, "color") = RED /\ Get(t, a, y) # NULL
                             => Get(t, Get(t, a, y), "color") = BLACK

\* A red nephew on the far side: after the rotation nothing is missing.
LEMMA OuterTurned ==
  ASSUME NEW t, NEW k, NEW H, NEW D, NEW n, NEW c, NEW p, NEW s, NEW f, NEW bh, Usable(t),
         BlackAround(t, k, H, D, n, c, p, s, f, bh), Get(t, s, "color") = BLACK,
         NEW x, x = Get(t, s, Other(f)), x # NULL, Get(t, x, "color") = RED, RedsBelow(t, H, x),
         NEW t2, Recolored(t, t2, s, Get(t, p, "color"), x)
  PROVE  MadeUp(t, Set(Rotate(t2, p, f), p, "color", BLACK), k, H, n)
<1> DEFINE m == Get(t, p, "color")
           r == Rotate(t2, p, f)
           q == Set(r, p, "color", BLACK)
           b == Other(f)
           E == RotatedBelow(t2, H, D, p, f, b)
           d == Get(t, s, f)
<1>p. /\ IsTree(t, H, D) /\ Colored(t, H) /\ Ordered(t, H, D, k, {n})
      /\ RootBlack(t) /\ Weighted(t, H, bh, Doubled(t, H, n, c))
      /\ f \in Sides /\ p \in H /\ s \in H /\ c \in H /\ n \in H /\ n # Root(t)
      /\ p = Get(t, c, "parent") /\ c = Get(t, p, f) /\ s = Get(t, p, b) /\ Get(t, s, "parent") = p
      /\ c # s /\ c # p /\ s # p /\ n # p /\ n \notin D[s] /\ n \in D[c]
      /\ Get(t, c, "color") = BLACK /\ Get(t, n, "color") = BLACK
      /\ \A y \in {"left", "right", "next"} : Get(t, n, y) = NULL
      /\ bh[s] = bh[c] /\ bh[p] = bh[c] + Plain(t, H)[p] /\ bh[c] - 1 \in Nat
      /\ x = Get(t, s, b)
  BY DEF BlackAround
<1>d. b = Other(f) /\ d = Get(t, s, f) /\ r = Rotate(t2, p, f) /\ E = RotatedBelow(t2, H, D, p, f, b)
      /\ m = Get(t, p, "color")
  OBVIOUS
<1> HIDE DEF b, d, r, E, m, q
<1>0. b \in Sides /\ f # b /\ Sides = {f, b}
  BY <1>p, <1>d DEF Other, Sides
<1>n. NULL \notin H /\ p # NULL /\ s # NULL /\ p \in Dom(t) /\ s \in Dom(t) /\ H \subseteq Dom(t)
      /\ \A a \in H, y \in Sides : Get(t, a, y) # NULL => Get(t, a, y) \in H /\ Get(t, Get(t, a, y), "parent") = a
  BY <1>p DEF IsTree, IsTreeBy, Sides
<1>x. x \in H /\ x \in Dom(t) /\ Get(t, x, "parent") = s /\ x # s
  <2>1. x \in H /\ x \in Dom(t) /\ Get(t, x, "parent") = s
    BY <1>0, <1>n, <1>p
  <2> QED BY <2>1 DEF RED, BLACK
<1>1. /\ Usable(t2) /\ Dom(t2) = Dom(t) /\ Root(t2) = Root(t)
      /\ \A z, y : y \in Fields => Get(t2, z, y) = IF y # "color" THEN Get(t, z, y)
                                                   ELSE IF z = s THEN m ELSE IF z = x THEN BLACK
                                                   ELSE Get(t, z, y)
  BY <1>d DEF Recolored
<1>2. SameLinks(t, t2)
  BY <1>1 DEF SameLinks, Fields
<1>l. /\ c = Get(t2, p, f) /\ s = Get(t2, p, b) /\ d = Get(t2, s, f) /\ x = Get(t2, s, b)
      /\ Get(t2, p, "parent") = Get(t, p, "parent")
  <2>1. \A z : /\ \A y \in Sides : Get(t2, z, y) = Get(t, z, y)
               /\ Get(t2, z, "parent") = Get(t, z, "parent")
    BY <1>2 DEF SameLinks, Sides
  <2>2. f \in Sides /\ b \in Sides
    BY <1>p, <1>0
  <2> QED BY <2>1, <2>2, <1>p, <1>d
<1>3. IsTree(t2, H, D) /\ Ordered(t2, H, D, k, {n}) /\ Weighted(t2, H, bh, Doubled(t, H, n, c))
  BY <1>p, <1>2, SameTree, SameOrder, SameWeights
<1>4. Usable(r) /\ Rotated(t2, r, p, f, b) /\ IsTree(r, H, E)
  BY <1>1, <1>3, <1>l, <1>n, <1>p, <1>d, RotateKeepsTree
<1>s. s # n /\ x # n
  <2>1. \A a, z \in H : z \in D[a] <=> z = a \/ z \in D[Get(t, a, f)] \/ z \in D[Get(t, a, b)]
    <3>1. IsTreeBy(t, H, D, f, b)
      BY <1>p, <1>d, EitherSide
    <3> QED BY <3>1 DEF IsTreeBy
  <2>2. \A a \in H : a \in D[a]
    BY <1>p DEF IsTree, IsTreeBy
  <2> QED BY <2>1, <2>2, <1>p, <1>x
<1>5. Ordered(r, H, E, k, {n})
  BY <1>3, <1>4, <1>l, <1>n, <1>p, <1>s, <1>d, RotateOrdered
<1>6. /\ Dom(r) = Dom(t) /\ Root(r) = (IF Root(t) = p THEN s ELSE Root(t))
      /\ \A z : Get(r, z, "next") = Get(t, z, "next")
      /\ \A z : Get(r, z, "color") = IF z = s THEN m ELSE IF z = x THEN BLACK ELSE Get(t, z, "color")
  BY <1>1, <1>4, <1>l DEF Rotated, Fields
<1>7. RotateBefore(t2, H, D, p, s, d, c, x) /\ RotateAfter(t2, r, H, D, p, f, b, s, d, c, x, Get(t, p, "parent"), E)
  <2>1. IsTreeBy(t2, H, D, f, b)
    BY <1>3, <1>p, <1>d, EitherSide
  <2>2. Get(t, p, "parent") = Get(t2, p, "parent") /\ Get(t2, p, b) # NULL /\ p \in H /\ f # b
    BY <1>0, <1>l, <1>n, <1>p
  <2>3. s = Get(t2, p, b) /\ d = Get(t2, s, f) /\ c = Get(t2, p, f) /\ x = Get(t2, s, b)
        /\ E = RotatedBelow(t2, H, D, p, f, b)
    BY <1>l, <1>d
  <2> QED BY <2>1, <2>2, <2>3, <1>4, RotateFacts
<1>8. /\ d \in H \cup {NULL} /\ d \notin {p, s} /\ x # p
      /\ d # NULL => d \in D[s]
  <2>1. d \in H \cup {NULL} /\ d \notin {p, s} /\ x # p
    BY <1>7 DEF RotateBefore
  <2>2. \A a, z \in H : z \in D[a] <=> z = a \/ z \in D[Get(t, a, f)] \/ z \in D[Get(t, a, b)]
    <3>1. IsTreeBy(t, H, D, f, b)
      BY <1>p, <1>d, EitherSide
    <3> QED BY <3>1 DEF IsTreeBy
  <2>3. \A a \in H : a \in D[a]
    BY <1>p DEF IsTree, IsTreeBy
  <2> QED BY <2>1, <2>2, <2>3, <1>p, <1>d
<1>9. n # d
  BY <1>8, <1>p, <1>n
<1>c. x # c /\ (d # NULL => d # c /\ d # x)
  <2>1. x # c
    BY <1>p, <1>x DEF RED, BLACK
  <2>2. d # NULL => Get(t, d, "parent") = s
    BY <1>d, <1>n, <1>p
  <2>3. d # NULL => d # x
    <3>1. \A a, z \in H : z \notin D[Get(t, a, f)] \/ z \notin D[Get(t, a, b)]
      <4>1. IsTreeBy(t, H, D, f, b)
        BY <1>p, <1>d, EitherSide
      <4> QED BY <4>1 DEF IsTreeBy
    <3>2. x \in D[x]
      BY <1>x, <1>p DEF IsTree, IsTreeBy
    <3> QED BY <3>1, <3>2, <1>d, <1>p, <1>x
  <2> QED BY <2>1, <2>2, <2>3, <1>p
<1>10. \A y \in {"left", "right", "parent"} : Get(r, n, y) = Get(t, n, y)
  <2>1. Get(r, n, "parent") = Get(t2, n, "parent")
    BY <1>7, <1>9, <1>p, <1>s DEF RotateAfter
  <2>2. \A y \in Sides : Get(r, n, y) = (IF Get(t2, n, y) = p THEN s ELSE Get(t2, n, y))
    BY <1>7, <1>0, <1>p, <1>s DEF RotateAfter
  <2>3. \A y \in Sides : Get(t2, n, y) = NULL
    BY <1>1, <1>p DEF Sides, Fields
  <2>4. Get(t2, n, "parent") = Get(t, n, "parent")
    BY <1>1 DEF Fields
  <2> QED BY <2>1, <2>2, <2>3, <2>4, <1>n, <1>p DEF Sides
<1>11. /\ Usable(q) /\ Dom(q) = Dom(r) /\ Root(q) = Root(r)
       /\ \A z, y : y \in Fields => Get(q, z, y) = IF z = p /\ y = "color" THEN BLACK ELSE Get(r, z, y)
  BY <1>4, <1>6, <1>n, SetGets DEF Fields, q
<1>12. SameLinks(r, q)
  BY <1>11 DEF SameLinks, Fields
<1>13. \A z : Get(q, z, "color") = IF z = s THEN m ELSE IF z = x \/ z = p THEN BLACK ELSE Get(t, z, "color")
  BY <1>6, <1>11, <1>p DEF Fields
<1>14. IsTree(q, H, E) /\ Ordered(q, H, E, k, {n}) /\ Colored(q, H)
  BY <1>4, <1>5, <1>12, <1>13, <1>d, <1>p, SameTree, SameOrder DEF Colored
<1>e. \A a \in H, y \in Sides : Get(r, a, y) # NULL =>
        \/ a = p /\ Get(r, a, y) \in {d, c}
        \/ a = s /\ Get(r, a, y) \in {p, x}
        \/ a = Get(t2, p, "parent") /\ a \notin {p, s} /\ Get(r, a, y) = s
        \/ a \notin {p, s} /\ Get(r, a, y) \notin {p, s, d, c, x} /\ Get(r, a, y) = Get(t2, a, y)
  BY <1>3, <1>4, <1>l, <1>n, <1>p, <1>d, RotateEdges
<1>15. RedsApart(q, H, {})
  <2>1. ASSUME NEW a \in H, NEW y \in Sides, Get(q, a, "color") = RED, Get(q, a, y) # NULL
        PROVE  Get(q, Get(q, a, y), "color") = BLACK
    <3>1. a # p /\ Get(q, a, y) = Get(r, a, y) /\ a # x
      BY <2>1, <1>12, <1>13, <1>p, <1>x, <1>8 DEF SameLinks, Sides, RED, BLACK
    <3>2. CASE a = s
      BY <3>1, <3>2, <2>1, <1>13, <1>e, <1>p, <1>x, <1>8
    <3>3. CASE a # s /\ a = Get(t2, p, "parent") /\ Get(r, a, y) = s
      <4>1. Get(t, a, "color") = RED
        BY <3>1, <3>3, <2>1, <1>13
      <4>2. p # Root(t)
        <5>1. p = Root(t) => Get(t, p, "parent") = NULL
          BY <1>n, <1>p DEF IsTree, IsTreeBy
        <5> QED BY <5>1, <3>3, <1>l, <1>n
      <4>3. \E z \in Sides : Get(t, a, z) = p
        BY <4>2, <3>3, <1>l, <1>p DEF IsTree, IsTreeBy, Sides
      <4>4. m = BLACK
        <5>1. a \in H /\ a # x
          BY <3>1
        <5> QED BY <5>1, <4>1, <4>3, <1>d, <1>n DEF RedsBelow
      <4> QED BY <4>4, <3>1, <3>3, <1>13
    <3>4. CASE a \notin {p, s} /\ Get(r, a, y) \notin {p, s, d, c, x} /\ Get(r, a, y) = Get(t2, a, y)
      <4>1. Get(r, a, y) = Get(t, a, y) /\ Get(t, a, "color") = RED
        BY <3>1, <3>4, <2>1, <1>1, <1>13 DEF Fields, Sides
      <4>2. Get(t, Get(t, a, y), "color") = BLACK
        <5> QED BY <4>1, <3>1, <2>1 DEF RedsBelow
      <4> QED BY <4>1, <4>2, <3>1, <3>4, <2>1, <1>13
    <3> QED BY <3>1, <3>2, <3>3, <3>4, <2>1, <1>e
  <2> QED BY <2>1 DEF RedsApart
<1>16. RootBlack(q) /\ n # Root(q)
  <2>1. CASE Root(t) = p
    BY <2>1, <1>6, <1>11, <1>13, <1>d, <1>p, <1>s, <1>n DEF RootBlack
  <2>2. CASE Root(t) # p
    <3>1. Root(t) # s
      BY <1>p, <1>n DEF IsTree, IsTreeBy
    <3> QED BY <3>1, <2>2, <1>6, <1>11, <1>13, <1>p DEF RootBlack
  <2> QED BY <2>1, <2>2
<1>17. \E B : Weighted(q, H, B, Uncounted(q, H, n))
  <2> DEFINE w == Doubled(t, H, n, c)
             v == Uncounted(q, H, n)
             B == [z \in H \cup {NULL} |-> IF z = s THEN bh[p] ELSE IF z = p \/ z = x THEN bh[c]
                                           ELSE IF z = c THEN bh[c] - 1 ELSE bh[z]]
  <2>1. /\ bh \in [H \cup {NULL} -> Nat] /\ bh[NULL] = 0
        /\ \A z \in H, y \in Sides : bh[z] = bh[Get(t, z, y)] + w[z]
    BY <1>p DEF Weighted
  <2>2. w[p] = Plain(t, H)[p] /\ w[s] = 1 /\ w[x] = 0 /\ w[c] - 1 \in Nat /\ w[p] \in Nat
    <3>1. w[s] = 1 /\ w[x] = 0
      BY <1>p, <1>s, <1>x, <1>c DEF Plain, Doubled, Uncounted, RED, BLACK
    <3>2. w[c] \in {1, 2}
      BY <1>p DEF Plain, Doubled, Uncounted
    <3>3. w[p] = Plain(t, H)[p] /\ w[p] \in Nat
      BY <1>p DEF Doubled, Uncounted, Plain
    <3> QED BY <3>1, <3>2, <3>3
  <2>3. /\ v \in [H -> Nat] /\ v[p] = 1 /\ v[s] = w[p] /\ v[x] = 1 /\ v[c] = w[c] - 1
        /\ \A z \in H : z \notin {p, s, x, c} => v[z] = w[z]
    <3>1. v \in [H -> Nat] /\ v[p] = 1 /\ v[x] = 1
      BY <1>13, <1>p, <1>s, <1>x, <1>8 DEF Plain, Uncounted
    <3>2. v[s] = w[p]
      BY <1>13, <1>p, <1>s, <1>d DEF Plain, Uncounted, Doubled
    <3>3. v[c] = w[c] - 1
      BY <1>13, <1>p, <1>c DEF Plain, Uncounted, Doubled
    <3>4. \A z \in H : z \notin {p, s, x, c} => v[z] = w[z]
      BY <1>13, <1>p DEF Plain, Uncounted, Doubled
    <3> QED BY <3>1, <3>2, <3>3, <3>4
  <2>4. /\ B \in [H \cup {NULL} -> Nat] /\ B[s] = bh[p] /\ B[p] = bh[c] /\ B[x] = bh[c] /\ B[c] = bh[c] - 1
        /\ \A z \in H \cup {NULL} : z \notin {p, s, x, c} => B[z] = bh[z]
    <3>1. bh[p] \in Nat /\ bh[c] \in Nat
      BY <2>1, <1>p
    <3> QED BY <3>1, <2>1, <1>p, <1>x, <1>c
  <2>w. Weighted(t2, H, bh, w)
    BY <1>3
  <2> HIDE DEF w, v, B
  <2>5. bh[s] = bh[d] + 1 /\ bh[s] = bh[x] + 1
    BY <2>1, <2>2, <1>0, <1>d, <1>p
  <2>6. RotateCounts(H, p, s, d, c, x, bh, w, B, v)
    <3>1. B[NULL] = 0 /\ B[d] = bh[d]
      BY <2>1, <2>4, <1>8, <1>n, <1>p, <1>x, <1>c
    <3>2. \A z \in H : z \notin {p, s, d, c, x} => B[z] = bh[z] /\ v[z] = w[z]
      BY <2>3, <2>4
    <3>4. bh[c] \in Nat /\ bh[d] \in Nat /\ bh[x] \in Nat /\ w[c] \in Nat
      BY <2>1, <2>2, <2>w, <1>8, <1>p, <1>x DEF Weighted
    <3>3. \A z \in {d, c, x} \ {NULL} : B[z] + w[z] = bh[z] + v[z]
      <4>1. d # NULL => B[d] + w[d] = bh[d] + v[d]
        BY <3>1, <2>3, <1>8, <1>c
      <4>2. B[c] + w[c] = bh[c] + v[c]
        BY <3>4, <2>3, <2>4
      <4>3. B[x] + w[x] = bh[x] + v[x]
        BY <3>4, <2>2, <2>3, <2>4, <2>5, <1>p
      <4> QED BY <4>1, <4>2, <4>3
    <3>5. B[s] = bh[p] /\ B[c] = B[d] /\ B[p] = B[c] + v[p] /\ B[p] = B[x] /\ B[s] = B[p] + v[s]
      BY <3>1, <3>4, <2>2, <2>3, <2>4, <2>5, <1>p
    <3> QED BY <3>1, <3>2, <3>3, <3>5, <2>3, <2>4 DEF RotateCounts
  <2>7. Weighted(r, H, B, v)
    BY <2>w, <2>6, <1>3, <1>4, <1>l, <1>n, <1>p, <1>d, RotateWeighted
  <2>8. Weighted(q, H, B, v)
    BY <2>7, <1>12, SameWeights
  <2> QED BY <2>8 DEF v
<1>18. RedBlack(q, k, H, E, Uncounted(q, H, n), {n}, {})
  BY <1>14, <1>15, <1>17 DEF RedBlack
<1>19. \A y \in {"left", "right", "parent", "next"} : \A z : Get(q, z, y) = Get(r, z, y)
  BY <1>12 DEF SameLinks
<1>20. MadeUp(t, q, k, H, n)
  BY <1>6, <1>10, <1>11, <1>16, <1>18, <1>19 DEF MadeUp
<1> QED BY <1>20, <1>d DEF q

\* The same with the colours as the code writes them.
LEMMA OuterNephewTurned ==
  ASSUME NEW t, NEW k, NEW H, NEW D, NEW n, NEW c, NEW p, NEW s, NEW f, NEW bh, Usable(t),
         Black2(t, k, H, D, n, c, p, s, f, bh), Get(t, s, "color") = BLACK,
         NEW x, x = Get(t, s, Other(f)), x # NULL, Get(t, x, "color") = RED
  PROVE  LET r == Rotate(Set(Set(t, x, "color", Get(t, s, "color")), s, "color", Get(t, p, "color")), p, f)
         IN  MadeUp(t, Set(r, p, "color", BLACK), k, H, n)
<1> DEFINE m == Get(t, p, "color")
           t1 == Set(t, x, "color", BLACK)
           t2 == Set(t1, s, "color", m)
<1>1. BlackAround(t, k, H, D, n, c, p, s, f, bh) /\ RedsApart(t, H, {})
  BY DEF Black2
<1>2. f \in Sides /\ s \in H /\ s \in Dom(t) /\ x \in H /\ x \in Dom(t)
  BY <1>1 DEF BlackAround, IsTree, IsTreeBy, Sides, Other
<1>3. RedsBelow(t, H, x)
  BY <1>1 DEF RedsApart, RedsBelow
<1>4. Recolored(t, t2, s, m, x)
  <2> HIDE DEF m
  <2>1. /\ Usable(t1) /\ Dom(t1) = Dom(t) /\ Root(t1) = Root(t)
        /\ \A z, y : y \in Fields => Get(t1, z, y) = IF z = x /\ y = "color" THEN BLACK ELSE Get(t, z, y)
    BY <1>2, SetGets DEF Fields
  <2> HIDE DEF t1
  <2>2. /\ Usable(t2) /\ Dom(t2) = Dom(t1) /\ Root(t2) = Root(t1)
        /\ \A z, y : y \in Fields => Get(t2, z, y) = IF z = s /\ y = "color" THEN m ELSE Get(t1, z, y)
    BY <2>1, <1>2, SetGets DEF Fields
  <2> HIDE DEF t2
  <2> QED BY <2>1, <2>2 DEF Recolored
<1> HIDE DEF t2
<1>5. MadeUp(t, Set(Rotate(t2, p, f), p, "color", BLACK), k, H, n)
  BY <1>1, <1>3, <1>4, OuterTurned DEF m
<1> QED BY <1>5 DEF t2, t1, m

\* A red nephew on the near side: two rotations, and nothing is missing.
LEMMA InnerNephewTurned ==
  ASSUME NEW t, NEW k, NEW H, NEW D, NEW n, NEW c, NEW p, NEW s, NEW f, NEW bh, Usable(t),
         Black2(t, k, H, D, n, c, p, s, f, bh), Get(t, s, "color") = BLACK,
         NEW x, x = Get(t, s, f), x # NULL, Get(t, x, "color") = RED
  PROVE  LET r == Rotate(Set(t, x, "color", Get(t, p, "color")), s, Other(f))
         IN  MadeUp(t, Set(Rotate(r, p, f), p, "color", BLACK), k, H, n)
<1> DEFINE m == Get(t, p, "color")
           b == Other(f)
           t1 == Set(t, x, "color", m)
           r == Rotate(t1, s, b)
           q1 == Set(r, x, "color", BLACK)
           q == Set(q1, s, "color", RED)
           d == Get(t, x, b)
           e == Get(t, s, b)
           h == Get(t, x, f)
           E == RotatedBelow(t1, H, D, s, b, f)
<1>p. /\ IsTree(t, H, D) /\ Colored(t, H) /\ Ordered(t, H, D, k, {n}) /\ RedsApart(t, H, {})
      /\ RootBlack(t) /\ Weighted(t, H, bh, Doubled(t, H, n, c))
      /\ f \in Sides /\ p \in H /\ s \in H /\ c \in H /\ n \in H /\ n # Root(t)
      /\ p = Get(t, c, "parent") /\ c = Get(t, p, f) /\ s = Get(t, p, b) /\ Get(t, s, "parent") = p
      /\ c # s /\ c # p /\ s # p /\ n # p /\ n \notin D[s] /\ n \in D[c]
      /\ Get(t, c, "color") = BLACK /\ Get(t, n, "color") = BLACK
      /\ \A y \in {"left", "right", "next"} : Get(t, n, y) = NULL
      /\ bh[s] = bh[c] /\ bh[p] = bh[c] + Plain(t, H)[p] /\ bh[c] - 1 \in Nat
  BY DEF Black2, BlackAround
<1>d. b = Other(f) /\ d = Get(t, x, b) /\ e = Get(t, s, b) /\ h = Get(t, x, f) /\ r = Rotate(t1, s, b)
      /\ E = RotatedBelow(t1, H, D, s, b, f) /\ m = Get(t, p, "color")
  OBVIOUS
<1> HIDE DEF b, d, e, h, r, E, m, q
<1>0. b \in Sides /\ f # b /\ Sides = {f, b} /\ f = Other(b)
  BY <1>p, <1>d DEF Other, Sides
<1>n. NULL \notin H /\ p # NULL /\ s # NULL /\ p \in Dom(t) /\ s \in Dom(t) /\ H \subseteq Dom(t)
      /\ \A a \in H, y \in Sides : Get(t, a, y) # NULL => Get(t, a, y) \in H /\ Get(t, Get(t, a, y), "parent") = a
  BY <1>p DEF IsTree, IsTreeBy, Sides
<1>x. x \in H /\ x \in Dom(t) /\ Get(t, x, "parent") = s /\ x # s /\ x # c
  <2>1. x \in H /\ x \in Dom(t) /\ Get(t, x, "parent") = s
    BY <1>0, <1>n, <1>p
  <2> QED BY <2>1, <1>p DEF RED, BLACK
<1>1. /\ Usable(t1) /\ Dom(t1) = Dom(t) /\ Root(t1) = Root(t)
      /\ \A z, y : y \in Fields => Get(t1, z, y) = IF z = x /\ y = "color" THEN m ELSE Get(t, z, y)
  BY <1>x, SetGets DEF Fields
<1> HIDE DEF t1
<1>2. SameLinks(t, t1)
  BY <1>1 DEF SameLinks, Fields
<1>l. /\ x = Get(t1, s, f) /\ d = Get(t1, x, b) /\ e = Get(t1, s, b) /\ h = Get(t1, x, f)
      /\ p = Get(t1, s, "parent")
  <2>1. \A z : /\ \A y \in Sides : Get(t1, z, y) = Get(t, z, y)
               /\ Get(t1, z, "parent") = Get(t, z, "parent")
    BY <1>2 DEF SameLinks, Sides
  <2> QED BY <2>1, <1>0, <1>p, <1>d
<1>3. IsTree(t1, H, D) /\ Ordered(t1, H, D, k, {n}) /\ Weighted(t1, H, bh, Doubled(t, H, n, c))
  BY <1>p, <1>2, SameTree, SameOrder, SameWeights
<1>4. Usable(r) /\ Rotated(t1, r, s, b, f) /\ IsTree(r, H, E)
  BY <1>0, <1>1, <1>3, <1>l, <1>n, <1>p, <1>d, RotateKeepsTree
<1>s. s # n /\ x # n /\ d # n
  <2>1. \A a, z \in H : z \in D[a] <=> z = a \/ z \in D[Get(t, a, f)] \/ z \in D[Get(t, a, b)]
    <3>1. IsTreeBy(t, H, D, f, b)
      BY <1>p, <1>d, EitherSide
    <3> QED BY <3>1 DEF IsTreeBy
  <2>2. \A a \in H : a \in D[a]
    BY <1>p DEF IsTree, IsTreeBy
  <2>3. d # NULL => d \in D[x] /\ d \in D[s] /\ d \in H
    BY <2>1, <2>2, <1>0, <1>d, <1>n, <1>p, <1>x
  <2> QED BY <2>1, <2>2, <2>3, <1>n, <1>p, <1>x
<1>5. Ordered(r, H, E, k, {n})
  BY <1>0, <1>3, <1>4, <1>l, <1>n, <1>p, <1>s, <1>d, RotateOrdered
<1>t. s # Root(t) /\ x # Root(t)
  BY <1>p, <1>n, <1>x DEF IsTree, IsTreeBy
<1>6. /\ Dom(r) = Dom(t) /\ Root(r) = Root(t)
      /\ \A z : Get(r, z, "next") = Get(t, z, "next")
      /\ \A z : Get(r, z, "color") = IF z = x THEN m ELSE Get(t, z, "color")
  BY <1>1, <1>4, <1>l, <1>t DEF Rotated, Fields
<1>7. RotateBefore(t1, H, D, s, x, d, e, h) /\ RotateAfter(t1, r, H, D, s, b, f, x, d, e, h, p, E)
  <2>1. IsTreeBy(t1, H, D, b, f)
    BY <1>0, <1>3, <1>d, EitherSide
  <2>2. p = Get(t1, s, "parent") /\ Get(t1, s, f) # NULL /\ s \in H /\ f # b
    BY <1>0, <1>l, <1>n, <1>p
  <2>3. x = Get(t1, s, f) /\ d = Get(t1, x, b) /\ e = Get(t1, s, b) /\ h = Get(t1, x, f)
        /\ E = RotatedBelow(t1, H, D, s, b, f)
    BY <1>l, <1>d
  <2> QED BY <2>1, <2>2, <2>3, <1>4, RotateFacts
<1>8. /\ d \in H \cup {NULL} /\ e \in H \cup {NULL} /\ h \in H \cup {NULL}
      /\ d \notin {s, x} /\ e \notin {s, x} /\ h \notin {s, x}
      /\ E[x] = D[s] /\ \A z \in H \cup {NULL} : z # x /\ z # s => E[z] = D[z]
  BY <1>7 DEF RotateBefore, RotateAfter
<1>c. /\ x # p /\ d # c /\ h # c /\ e # c
  <2>1. x # p
    <3>1. \A a, z, y \in H : z \in D[a] /\ y \in D[z] => y \in D[a]
      BY <1>p DEF IsTree, IsTreeBy
    <3>2. \A a \in H : a \in D[a] /\ a \notin D[Get(t, a, "left")] /\ a \notin D[Get(t, a, "right")]
      BY <1>p DEF IsTree, IsTreeBy
    <3>3. s \in D[s] /\ s \notin D[x]
      BY <3>2, <1>p DEF Sides
    <3>4. s \in D[p]
      <4>1. \A a, z \in H : z \in D[a] <=> z = a \/ z \in D[Get(t, a, f)] \/ z \in D[Get(t, a, b)]
        <5>1. IsTreeBy(t, H, D, f, b)
          BY <1>p, <1>d, EitherSide
        <5> QED BY <5>1 DEF IsTreeBy
      <4> QED BY <4>1, <3>3, <1>p
    <3> QED BY <3>3, <3>4
  <2>2. d # NULL => Get(t, d, "parent") = x
    BY <1>0, <1>d, <1>n, <1>x
  <2>3. h # NULL => Get(t, h, "parent") = x
    BY <1>0, <1>d, <1>n, <1>x
  <2>4. e # NULL => Get(t, e, "parent") = s
    BY <1>0, <1>d, <1>n, <1>p
  <2> QED BY <2>1, <2>2, <2>3, <2>4, <1>n, <1>p
<1>10. /\ \A y \in {"left", "right", "parent"} : Get(r, n, y) = Get(t, n, y)
       /\ Get(r, c, "parent") = p /\ Get(r, p, f) = c /\ Get(r, p, b) = x /\ Get(r, x, "parent") = p
       /\ Get(r, x, b) = s
  <2>1. Get(r, n, "parent") = Get(t1, n, "parent") /\ Get(r, c, "parent") = Get(t1, c, "parent")
        /\ Get(r, x, "parent") = p
    BY <1>7, <1>8, <1>c, <1>p, <1>s, <1>x DEF RotateAfter
  <2>2. \A a \in {n, p}, y \in Sides : Get(r, a, y) = (IF Get(t1, a, y) = s THEN x ELSE Get(t1, a, y))
    BY <1>7, <1>0, <1>p, <1>s, <1>c DEF RotateAfter
  <2>3. \A y \in Sides : Get(t1, n, y) = NULL
    BY <1>1, <1>p DEF Sides, Fields
  <2>4. Get(t1, n, "parent") = Get(t, n, "parent") /\ Get(t1, c, "parent") = p
    BY <1>1, <1>p DEF Fields
  <2>5. Get(t1, p, f) = c /\ Get(t1, p, b) = s
    <3>1. \A y \in Sides : Get(t1, p, y) = Get(t, p, y)
      BY <1>2 DEF SameLinks, Sides
    <3> QED BY <3>1, <1>0, <1>p
  <2>6. Get(r, x, b) = s
    BY <1>7 DEF RotateAfter
  <2> QED BY <2>1, <2>2, <2>3, <2>4, <2>5, <2>6, <1>0, <1>n, <1>p DEF Sides
<1>11. /\ Usable(q) /\ Dom(q) = Dom(t) /\ Root(q) = Root(t)
       /\ \A z, y : y \in Fields => Get(q, z, y) = IF y # "color" THEN Get(r, z, y)
                                                   ELSE IF z = s THEN RED ELSE IF z = x THEN BLACK
                                                   ELSE Get(r, z, y)
  <2>1. /\ Usable(q1) /\ Dom(q1) = Dom(r) /\ Root(q1) = Root(r)
        /\ \A z, y : y \in Fields => Get(q1, z, y) = IF z = x /\ y = "color" THEN BLACK ELSE Get(r, z, y)
    BY <1>4, <1>6, <1>x, SetGets DEF Fields
  <2> HIDE DEF q1
  <2>2. /\ Usable(q) /\ Dom(q) = Dom(q1) /\ Root(q) = Root(q1)
        /\ \A z, y : y \in Fields => Get(q, z, y) = IF z = s /\ y = "color" THEN RED ELSE Get(q1, z, y)
    BY <2>1, <1>6, <1>n, SetGets DEF Fields, q
  <2> QED BY <2>1, <2>2, <1>6
<1>12. SameLinks(r, q)
  BY <1>6, <1>11 DEF SameLinks, Fields
<1>13. \A z : Get(q, z, "color") = IF z = s THEN RED ELSE IF z = x THEN BLACK ELSE Get(t, z, "color")
  BY <1>6, <1>11 DEF Fields
<1>14. Recolored(q, r, x, m, s)
  <2>1. \A z, y : y \in Fields /\ y # "color" => Get(r, z, y) = Get(q, z, y)
    BY <1>11
  <2>2. \A z : Get(r, z, "color") = IF z = x THEN m ELSE IF z = s THEN BLACK ELSE Get(q, z, "color")
    BY <1>6, <1>13, <1>x
  <2> QED BY <2>1, <2>2, <1>4, <1>6, <1>11 DEF Recolored
<1>15. IsTree(q, H, E) /\ Ordered(q, H, E, k, {n}) /\ Colored(q, H)
  BY <1>4, <1>5, <1>12, <1>13, <1>p, SameTree, SameOrder DEF Colored
<1>16. RootBlack(q)
  BY <1>11, <1>13, <1>t, <1>p DEF RootBlack
<1>r. /\ s \in H /\ b \in Sides /\ f = Other(b) /\ IsTree(t1, H, D) /\ Rotated(t1, r, s, b, f)
      /\ Get(t1, s, f) # NULL
      /\ x = Get(t1, s, f) /\ d = Get(t1, x, b) /\ e = Get(t1, s, b) /\ h = Get(t1, x, f)
  BY <1>0, <1>3, <1>4, <1>l, <1>n, <1>p, <1>d
<1>e. \A a \in H, y \in Sides : Get(r, a, y) # NULL =>
        \/ a = s /\ Get(r, a, y) \in {d, e}
        \/ a = x /\ Get(r, a, y) \in {s, h}
        \/ a = Get(t1, s, "parent") /\ a \notin {s, x} /\ Get(r, a, y) = x
        \/ a \notin {s, x} /\ Get(r, a, y) \notin {s, x, d, e, h} /\ Get(r, a, y) = Get(t1, a, y)
  BY <1>l, <1>r, RotateEdges
<1>17. RedsBelow(q, H, s)
  <2>1. ASSUME NEW a \in H, NEW y \in Sides, a # s, Get(q, a, "color") = RED, Get(q, a, y) # NULL
        PROVE  Get(q, Get(q, a, y), "color") = BLACK
    <3>1. Get(q, a, y) = Get(r, a, y) /\ a # x
      BY <2>1, <1>12, <1>13 DEF SameLinks, Sides, RED, BLACK
    <3>2. CASE Get(r, a, y) = x
      BY <3>1, <3>2, <1>13, <1>x
    <3>3. CASE Get(r, a, y) \notin {s, x} /\ Get(r, a, y) = Get(t1, a, y)
      <4>1. Get(r, a, y) = Get(t, a, y) /\ Get(t, a, "color") = RED
        BY <3>1, <3>3, <2>1, <1>2, <1>13 DEF SameLinks, Sides
      <4>2. Get(t, Get(t, a, y), "color") = BLACK
        <5>1. RedsApart(t, H, {})
          BY <1>p
        <5> QED BY <5>1, <4>1, <3>1, <2>1 DEF RedsApart
      <4> QED BY <4>1, <4>2, <3>1, <3>3, <1>13
    <3> QED BY <3>1, <3>2, <3>3, <2>1, <1>e
  <2> QED BY <2>1 DEF RedsBelow
<1> DEFINE w == Doubled(t, H, n, c)
           v == Doubled(q, H, n, c)
           B == [z \in H \cup {NULL} |-> IF z = x THEN bh[s] ELSE IF z = s THEN bh[x] ELSE bh[z]]
<1>18. /\ Weighted(q, H, B, v) /\ B[x] = B[c] /\ B[p] = B[c] + Plain(q, H)[p] /\ B[c] - 1 \in Nat
  <2>1. /\ bh \in [H \cup {NULL} -> Nat] /\ bh[NULL] = 0
        /\ \A z \in H, y \in Sides : bh[z] = bh[Get(t, z, y)] + w[z]
    BY <1>p DEF Weighted
  <2>2. w[s] = 1 /\ w[x] = 0
    BY <1>p, <1>s, <1>x DEF Plain, Doubled, Uncounted, RED, BLACK
  <2>3. /\ v \in [H -> Nat] /\ v[s] = 0 /\ v[x] = 1
        /\ \A z \in H : z \notin {s, x} => v[z] = w[z]
    <3>1. v \in [H -> Nat]
      BY <1>p DEF Plain, Doubled, Uncounted
    <3>2. v[s] = 0 /\ v[x] = 1
      BY <1>13, <1>p, <1>s, <1>x DEF Plain, Doubled, Uncounted, RED, BLACK
    <3>3. \A z \in H : z \notin {s, x} => v[z] = w[z]
      BY <1>13, <1>p DEF Plain, Doubled, Uncounted
    <3> QED BY <3>1, <3>2, <3>3
  <2>4. /\ B \in [H \cup {NULL} -> Nat] /\ B[x] = bh[s] /\ B[s] = bh[x]
        /\ \A z \in H \cup {NULL} : z \notin {s, x} => B[z] = bh[z]
    BY <2>1, <1>p, <1>x
  <2>w. Weighted(t1, H, bh, w)
    BY <1>3
  <2> HIDE DEF w, v, B
  <2>5. bh[s] = bh[e] + 1 /\ bh[s] = bh[x] + 1 /\ bh[x] = bh[d] /\ bh[x] = bh[h]
    <3>1. bh[s] = bh[e] + w[s] /\ bh[s] = bh[x] + w[s] /\ bh[x] = bh[d] + w[x] /\ bh[x] = bh[h] + w[x]
      BY <2>1, <1>0, <1>d, <1>p, <1>x
    <3>2. bh[d] \in Nat /\ bh[h] \in Nat
      BY <2>1, <1>8
    <3> QED BY <3>1, <3>2, <2>2
  <2>6. RotateCounts(H, s, x, d, e, h, bh, w, B, v)
    <3>1. B[NULL] = 0 /\ B[d] = bh[d] /\ B[e] = bh[e] /\ B[h] = bh[h]
      BY <2>1, <2>4, <1>8, <1>n, <1>p, <1>x
    <3>2. \A z \in H : z \notin {s, x, d, e, h} => B[z] = bh[z] /\ v[z] = w[z]
      BY <2>3, <2>4
    <3>3. \A z \in {d, e, h} \ {NULL} : B[z] + w[z] = bh[z] + v[z]
      BY <3>1, <2>3, <1>8
    <3>4. bh[e] \in Nat /\ bh[x] \in Nat
      BY <2>1, <1>8, <1>x
    <3>5. B[x] = bh[s] /\ B[e] = B[d] /\ B[s] = B[e] + v[s] /\ B[s] = B[h] /\ B[x] = B[s] + v[x]
      BY <3>1, <3>4, <2>3, <2>4, <2>5
    <3> QED BY <3>1, <3>2, <3>3, <3>5, <2>3, <2>4 DEF RotateCounts
  <2>7. Weighted(r, H, B, v)
    BY <2>w, <2>6, <1>r, RotateWeighted
  <2>8. Weighted(q, H, B, v)
    BY <2>7, <1>12, SameWeights
  <2>9. Plain(q, H)[p] = Plain(t, H)[p]
    BY <1>13, <1>c, <1>p DEF Plain
  <2> QED BY <2>4, <2>8, <2>9, <1>c, <1>p, <1>x
<1> HIDE DEF w, v, B
<1>19. BlackAround(q, k, H, E, n, c, p, x, f, B)
  <2>1. /\ n # Root(q) /\ Get(q, c, "color") = BLACK /\ Get(q, n, "color") = BLACK
    BY <1>11, <1>13, <1>p, <1>s, <1>x
  <2>2. \A y \in {"left", "right", "next"} : Get(q, n, y) = NULL
    BY <1>6, <1>10, <1>12, <1>p DEF SameLinks
  <2>3. /\ p = Get(q, c, "parent") /\ c = Get(q, p, f) /\ x = Get(q, p, b) /\ Get(q, x, "parent") = p
    BY <1>0, <1>10, <1>12, <1>p DEF SameLinks, Sides
  <2>4. n \notin E[x] /\ n \in E[c]
    BY <1>8, <1>p, <1>x
  <2> QED BY <2>1, <2>2, <2>3, <2>4, <1>15, <1>16, <1>18, <1>c, <1>d, <1>p, <1>x DEF BlackAround, v
<1>20. MadeUp(q, Set(Rotate(r, p, f), p, "color", BLACK), k, H, n)
  <2>1. Get(q, x, "color") = BLACK /\ Get(q, s, "color") = RED /\ s = Get(q, x, Other(f)) /\ m = Get(q, p, "color")
    <3>1. Get(q, x, b) = Get(r, x, b)
      BY <1>0, <1>12 DEF SameLinks, Sides
    <3> QED BY <3>1, <1>10, <1>13, <1>c, <1>d, <1>p, <1>x
  <2> QED BY <2>1, <1>11, <1>14, <1>17, <1>19, <1>n, OuterTurned
<1> DEFINE z == Set(Rotate(r, p, f), p, "color", BLACK)
<1>21. z = Set(Rotate(r, p, f), p, "color", BLACK)
  OBVIOUS
<1> HIDE DEF z
<1>22. MadeUp(t, z, k, H, n)
  <2>1. MadeUp(q, z, k, H, n)
    BY <1>20, <1>21
  <2>2. \A y : Get(q, y, "next") = Get(t, y, "next")
    BY <1>6, <1>12 DEF SameLinks
  <2>3. \A y \in {"left", "right", "parent"} : Get(q, n, y) = Get(t, n, y)
    BY <1>10, <1>12 DEF SameLinks
  <2> QED BY <2>1, <2>2, <2>3, <1>11 DEF MadeUp
<1> QED BY <1>22, <1>21, <1>d DEF t1, m

\* A double black below the root, as the steps of the code read it.
DoubleBlackAt(out, H, D, f, bh, p, s) ==
  /\ Black2(Tree, key, H, D, op.node, op.cur, p, s, f, bh)
  /\ HasListing(Tree, H, Dom(Tree) \ out, key) /\ LeafToGo(Tree, H, op)
  /\ p = Field(op.cur, "parent") /\ s = Sibling(op.cur) /\ Side(s) = Other(f) /\ Side(op.cur) = f
  /\ p # NULL /\ s # NULL /\ p \in Dom(Tree) /\ s \in Dom(Tree) /\ op.cur \in Dom(Tree)
  /\ \A y \in Sides : Get(Tree, s, y) # NULL => Get(Tree, s, y) \in Dom(Tree)
  /\ Usable(Tree) /\ IsFiniteSet(Dom(Tree)) /\ out \subseteq Dom(Tree) /\ OpRecord(op) /\ op.pc = "fixdb"

\* What Steady says while a black is missing below the root.
LEMMA DoubleBlackThere ==
  ASSUME NEW out, Steady(Tree, key, out, op), op.pc = "fixdb", op.cur # root
  PROVE  \E H, D, f, bh, p, s : DoubleBlackAt(out, H, D, f, bh, p, s)
<1> DEFINE N == Dom(Tree) \ out
           n == op.node
           c == op.cur
<1>1. PICK H, D : Phase(Tree, key, Dom(Tree) \ Out(op, out), H, D, op)
  BY SteadyParts
<1>2. DoublyBlack(Tree, key, N, H, D, op)
  BY <1>1 DEF Phase, Out
<1>3. /\ Usable(Tree) /\ IsFiniteSet(Dom(Tree)) /\ out \subseteq Dom(Tree) /\ OpRecord(op)
      /\ NULL \notin N
  BY SteadyParts
<1>4. HasListing(Tree, H, N, key) /\ LeafToGo(Tree, H, op)
  BY <1>2 DEF DoublyBlack, Sound
<1>5. c # Root(Tree)
  BY DEF Root, Tree
<1>6. PICK f, bh, p, s : Black2(Tree, key, H, D, n, c, p, s, f, bh)
  BY <1>2, <1>3, <1>5, DoublyBlackParts
<1>7. /\ f \in Sides /\ p \in H /\ s \in H /\ c \in H /\ NULL \notin H /\ H \subseteq Dom(Tree)
      /\ p = Get(Tree, c, "parent") /\ c = Get(Tree, p, f) /\ s = Get(Tree, p, Other(f))
      /\ Get(Tree, s, "parent") = p /\ c # s
      /\ \A y \in Sides : Get(Tree, s, y) # NULL => Get(Tree, s, y) \in H
  <2>1. /\ IsTree(Tree, H, D) /\ f \in Sides /\ p \in H /\ s \in H /\ c \in H
        /\ p = Get(Tree, c, "parent") /\ c = Get(Tree, p, f) /\ s = Get(Tree, p, Other(f))
        /\ Get(Tree, s, "parent") = p /\ c # s
    BY <1>6 DEF Black2, BlackAround
  <2>2. /\ NULL \notin H /\ H \subseteq Dom(Tree)
        /\ \A y \in Sides : Get(Tree, s, y) # NULL => Get(Tree, s, y) \in H
    BY <2>1 DEF IsTree, IsTreeBy, Sides
  <2> QED BY <2>1, <2>2
<1>8. p = Field(c, "parent") /\ s = Sibling(c) /\ Side(s) = Other(f) /\ Side(c) = f
  <2>1. p = Field(c, "parent") /\ Field(s, "parent") = p /\ p # NULL
    BY <1>7 DEF Field
  <2>2. CASE f = "left"
    <3>1. Field(p, "left") = c /\ Field(p, "right") = s /\ Other(f) = "right"
      BY <2>2, <1>7 DEF Field, Other
    <3> QED BY <2>1, <2>2, <3>1, <1>7 DEF Sibling, Side
  <2>3. CASE f = "right"
    <3>1. Field(p, "right") = c /\ Field(p, "left") = s /\ Other(f) = "left"
      BY <2>3, <1>7 DEF Field, Other
    <3> QED BY <2>1, <2>3, <3>1, <1>7 DEF Sibling, Side
  <2> QED BY <2>2, <2>3, <1>7 DEF Sides
<1>9. DoubleBlackAt(out, H, D, f, bh, p, s)
  BY <1>3, <1>4, <1>6, <1>7, <1>8 DEF DoubleBlackAt
<1> QED BY <1>9

\* The record of a deletion that has only to unlink its leaf.
LEMMA UnlinkParts ==
  ASSUME OpRecord(op)
  PROVE  OpRecord(Unlink) /\ Unlink.pc = "unlink" /\ Unlink.node = op.node /\ Unlink.parent = op.parent
BY DEF OpRecord, Unlink

\* The leaf's links are as before: it can still be unlinked from the parent the
\* deletion remembers.
LEMMA LeafStays ==
  ASSUME NEW r, NEW H, NEW o, LeafToGo(Tree, H, op), RootBlack(r), op.node # Root(r),
         \A z : Get(r, z, "next") = Get(Tree, z, "next"),
         \A y \in {"left", "right", "parent"} : Get(r, op.node, y) = Get(Tree, op.node, y),
         o.node = op.node, o.parent = op.parent
  PROVE  LeafToGo(r, H, o)
BY DEF LeafToGo

\* A tree whose missing black was made up for is ready for the leaf to go.
LEMMA MadeUpSteady ==
  ASSUME NEW out, NEW H, NEW D, NEW f, NEW bh, NEW p, NEW s, DoubleBlackAt(out, H, D, f, bh, p, s),
         NEW r, MadeUp(Tree, r, key, H, op.node)
  PROVE  Usable(r) /\ Steady(r, key, out, Unlink)
<1> DEFINE N == Dom(Tree) \ out
<1>1. /\ Usable(r) /\ Dom(r) = Dom(Tree) /\ RootBlack(r) /\ op.node # Root(r)
      /\ \A z : Get(r, z, "next") = Get(Tree, z, "next")
      /\ \A y \in {"left", "right", "parent"} : Get(r, op.node, y) = Get(Tree, op.node, y)
  BY DEF MadeUp
<1>2. /\ HasListing(Tree, H, N, key) /\ LeafToGo(Tree, H, op)
      /\ IsFiniteSet(Dom(Tree)) /\ out \subseteq Dom(Tree) /\ OpRecord(op)
  BY DEF DoubleBlackAt
<1>3. OpRecord(Unlink) /\ Unlink.pc = "unlink" /\ Unlink.node = op.node /\ Unlink.parent = op.parent
  BY <1>2, UnlinkParts
<1>4. LeafToGo(r, H, Unlink)
  BY <1>1, <1>2, <1>3, LeafStays
<1>5. HasListing(r, H, N, key)
  BY <1>1, <1>2, SameListing
<1>6. PICK E : RedBlack(r, key, H, E, Uncounted(r, H, op.node), {op.node}, {})
  BY DEF MadeUp
<1>7. Unlinking(r, key, N, H, E, Unlink)
  BY <1>3, <1>4, <1>5, <1>6 DEF Unlinking, Sound
<1> QED BY <1>1, <1>2, <1>3, <1>7 DEF Steady, Phase, Out

\* A red sibling is rotated above the parent, and the repair goes on with a
\* black one.
LEMMA RedSiblingSteady ==
  ASSUME NEW out, Steady(Tree, key, out, op), RedSibling
  PROVE  Steady(Tree', key', out, op')
<1> DEFINE n == op.node
           c == op.cur
           N == Dom(Tree) \ out
<1>1. op.pc = "fixdb" /\ c # root
  BY DEF RedSibling, AtDoubleBlack, At
<1>2. PICK H, D, f, bh, p, s : DoubleBlackAt(out, H, D, f, bh, p, s)
  BY <1>1, DoubleBlackThere
<1>3. /\ Black2(Tree, key, H, D, n, c, p, s, f, bh) /\ f \in Sides /\ Other(Other(f)) = f
      /\ c \in H
  BY <1>2 DEF DoubleBlackAt, Black2, BlackAround, Other, Sides
<1>4. /\ HasListing(Tree, H, N, key) /\ LeafToGo(Tree, H, op)
      /\ p = Field(c, "parent") /\ s = Sibling(c) /\ Side(s) = Other(f)
      /\ Usable(Tree) /\ IsFiniteSet(Dom(Tree)) /\ out \subseteq Dom(Tree) /\ OpRecord(op)
  BY <1>2 DEF DoubleBlackAt
<1> DEFINE r == Rotate(Set(Set(Tree, p, "color", RED), s, "color", BLACK), p, f)
<1>5. Get(Tree, s, "color") = RED /\ Becomes(r, op)
  BY <1>3, <1>4 DEF RedSibling, IsRed, Field
<1> DEFINE Turned(E) == RedBlack(r, key, H, E, Doubled(r, H, n, c), {n}, {}) /\ n \in E[c]
<1>6. /\ Usable(r) /\ Dom(r) = Dom(Tree) /\ RootBlack(r) /\ n # Root(r)
      /\ \A z : Get(r, z, "next") = Get(Tree, z, "next")
      /\ \A y \in {"left", "right", "parent"} : Get(r, n, y) = Get(Tree, n, y)
      /\ \A z \in {n, c} : Get(r, z, "color") = BLACK
      /\ \E E : Turned(E)
  <2>1. Get(Tree, s, "color") = RED /\ Usable(Tree) /\ Black2(Tree, key, H, D, n, c, p, s, f, bh)
    BY <1>3, <1>4, <1>5
  <2> HIDE DEF n, c, Turned
  <2>2. /\ Usable(r) /\ Dom(r) = Dom(Tree) /\ RootBlack(r) /\ n # Root(r)
        /\ \A z : Get(r, z, "next") = Get(Tree, z, "next")
        /\ \A y \in {"left", "right", "parent"} : Get(r, n, y) = Get(Tree, n, y)
        /\ \A z \in {n, c} : Get(r, z, "color") = BLACK
        /\ \E E : RedBlack(r, key, H, E, Doubled(r, H, n, c), {n}, {}) /\ n \in E[c]
    BY <2>1, RedSiblingTurned
  <2> HIDE DEF r
  <2> QED BY <2>2 DEF Turned
<1> HIDE DEF r, Turned
<1>7. PICK E : Turned(E)
  BY <1>6
<1>8. LeafToGo(r, H, op)
  BY <1>4, <1>6, LeafStays
<1>9. HasListing(r, H, N, key)
  BY <1>4, <1>6, SameListing
<1>10. DoublyBlack(r, key, N, H, E, op)
  BY <1>3, <1>6, <1>7, <1>8, <1>9 DEF DoublyBlack, Sound, Turned
<1>11. Steady(r, key, out, op)
  BY <1>1, <1>4, <1>6, <1>10 DEF Steady, Phase, Out
<1> QED BY <1>5, <1>6, <1>11, BecomesTree

\* A black sibling with no red child.
LEMMA BlackSiblingSteady ==
  ASSUME NEW out, Steady(Tree, key, out, op), BlackSibling
  PROVE  Steady(Tree', key', out, op')
<1> DEFINE n == op.node
           c == op.cur
           N == Dom(Tree) \ out
<1>1. op.pc = "fixdb" /\ c # root
  BY DEF BlackSibling, AtDoubleBlack, At
<1>2. PICK H, D, f, bh, p, s : DoubleBlackAt(out, H, D, f, bh, p, s)
  BY <1>1, DoubleBlackThere
<1>3. Black2(Tree, key, H, D, n, c, p, s, f, bh)
  BY <1>2 DEF DoubleBlackAt
<1>4. /\ HasListing(Tree, H, N, key) /\ LeafToGo(Tree, H, op)
      /\ p = Field(c, "parent") /\ s = Sibling(c) /\ p # NULL /\ s # NULL
      /\ Usable(Tree) /\ IsFiniteSet(Dom(Tree)) /\ out \subseteq Dom(Tree) /\ OpRecord(op)
  BY <1>2 DEF DoubleBlackAt
<1> DEFINE r == Set(Set(Tree, s, "color", RED), p, "color", BLACK)
           o == [op EXCEPT !.cur = p]
<1>5. /\ Get(Tree, s, "color") # RED
      /\ \A y \in Sides : Get(Tree, s, y) # NULL => Get(Tree, Get(Tree, s, y), "color") # RED
      /\ Becomes(r, IF Get(Tree, p, "color") = RED THEN Unlink ELSE o)
  BY <1>4 DEF BlackSibling, RedNephew, IsRed, Field, Sides
<1>6. BlackSiblingLeft(Tree, r, key, H, D, n, c, p)
  <2> HIDE DEF n, c
  <2> QED BY <1>3, <1>4, <1>5, BlackSiblingColored
<1> HIDE DEF r
<1>7. /\ Usable(r) /\ Dom(r) = Dom(Tree) /\ RootBlack(r) /\ n # Root(r)
      /\ \A z : Get(r, z, "next") = Get(Tree, z, "next")
      /\ \A y \in {"left", "right", "parent"} : Get(r, n, y) = Get(Tree, n, y)
      /\ n \in D[p] /\ Get(r, n, "color") = BLACK /\ Get(r, p, "color") = BLACK /\ p \in H
  BY <1>6 DEF BlackSiblingLeft
<1>8. HasListing(r, H, N, key)
  BY <1>4, <1>7, SameListing
<1>9. CASE Get(Tree, p, "color") = RED
  <2>1. OpRecord(Unlink) /\ Unlink.pc = "unlink" /\ Unlink.node = n /\ Unlink.parent = op.parent
    BY <1>4, UnlinkParts
  <2>2. LeafToGo(r, H, Unlink)
    BY <2>1, <1>4, <1>7, LeafStays
  <2>3. RedBlack(r, key, H, D, Uncounted(r, H, n), {n}, {})
    BY <1>6, <1>9 DEF BlackSiblingLeft
  <2>4. Unlinking(r, key, N, H, D, Unlink)
    BY <2>1, <2>2, <2>3, <1>8 DEF Unlinking, Sound
  <2>5. Steady(r, key, out, Unlink)
    BY <2>1, <2>4, <1>4, <1>7 DEF Steady, Phase, Out
  <2> QED BY <2>5, <1>5, <1>7, <1>9, BecomesTree
<1>10. CASE Get(Tree, p, "color") # RED
  <2>1. OpRecord(o) /\ o.pc = "fixdb" /\ o.node = n /\ o.parent = op.parent /\ o.cur = p
    BY <1>1, <1>4 DEF OpRecord
  <2> HIDE DEF o
  <2>2. LeafToGo(r, H, o)
    BY <2>1, <1>4, <1>7, LeafStays
  <2>3. RedBlack(r, key, H, D, Doubled(r, H, n, p), {n}, {})
    BY <1>6, <1>10 DEF BlackSiblingLeft
  <2>4. DoublyBlack(r, key, N, H, D, o)
    BY <2>1, <2>2, <2>3, <1>7, <1>8 DEF DoublyBlack, Sound
  <2>5. Steady(r, key, out, o)
    BY <2>1, <2>4, <1>4, <1>7 DEF Steady, Phase, Out
  <2> QED BY <2>5, <1>5, <1>7, <1>10, BecomesTree
<1> QED BY <1>9, <1>10

\* A black sibling with a red child, as long as the code turns it the right
\* way; the case it turns wrongly damages the tree (whole').
LEMMA RedNephewSteady ==
  ASSUME NEW out, Steady(Tree, key, out, op), BlackSiblingRedNephew, whole'
  PROVE  Steady(Tree', key', out, op')
<1> DEFINE n == op.node
           c == op.cur
<1>1. op.pc = "fixdb" /\ c # root
  BY DEF BlackSiblingRedNephew, AtDoubleBlack, At
<1>2. PICK H, D, f, bh, p, s : DoubleBlackAt(out, H, D, f, bh, p, s)
  BY <1>1, DoubleBlackThere
<1>3. /\ Black2(Tree, key, H, D, n, c, p, s, f, bh) /\ f \in Sides /\ Other(Other(f)) = f
      /\ Colored(Tree, H) /\ s \in H
  BY <1>2 DEF DoubleBlackAt, Black2, BlackAround, Other, Sides
<1>4. /\ p = Field(c, "parent") /\ s = Sibling(c) /\ Side(s) = Other(f) /\ s # NULL /\ Usable(Tree)
  BY <1>2 DEF DoubleBlackAt
<1> DEFINE y == Nephew(s)
           x == Get(Tree, s, y)
           r == TurnTo(s, y)
<1>5. /\ Get(Tree, s, "color") # RED /\ y # "none" /\ Becomes(r, Unlink)
      /\ x # NULL /\ Get(Tree, x, "color") = RED
  BY <1>4 DEF BlackSiblingRedNephew, IsRed, Field
<1>6. y \in Sides
  BY <1>5 DEF Nephew, Sides
<1>7. Get(Tree, s, "color") = BLACK
  BY <1>3, <1>5 DEF Colored
<1>8. MadeUp(Tree, r, key, H, n)
  <2>1. CASE y = Side(s)
    <3> DEFINE q == Rotate(Set(Set(Tree, x, "color", Get(Tree, s, "color")), s, "color", Get(Tree, p, "color")), p, f)
    <3>1. r = Set(q, p, "color", BLACK)
      BY <2>1, <1>3, <1>4 DEF TurnTo, Field
    <3>2. x = Get(Tree, s, Other(f))
      BY <2>1, <1>4
    <3> HIDE DEF n, c, x, y, r
    <3>3. MadeUp(Tree, Set(q, p, "color", BLACK), key, H, n)
      BY <3>2, <1>3, <1>4, <1>5, <1>7, OuterNephewTurned
    <3> QED BY <3>1, <3>3
  <2>2. CASE y # Side(s)
    <3>1. y = f
      BY <2>2, <1>3, <1>4, <1>6 DEF Other, Sides
    <3> DEFINE q == Rotate(Set(Tree, x, "color", Get(Tree, p, "color")), s, Other(f))
    <3>2. r = Set(Rotate(q, p, f), p, "color", BLACK)
      BY <2>2, <3>1, <1>3, <1>4 DEF TurnTo, Field
    <3>3. x = Get(Tree, s, f)
      BY <3>1
    <3> HIDE DEF n, c, x, y, r
    <3>4. MadeUp(Tree, Set(Rotate(q, p, f), p, "color", BLACK), key, H, n)
      BY <3>3, <1>3, <1>4, <1>5, <1>7, InnerNephewTurned
    <3> QED BY <3>2, <3>4
  <2> QED BY <2>1, <2>2
<1> HIDE DEF r
<1>9. Usable(r) /\ Steady(r, key, out, Unlink)
  BY <1>2, <1>8, MadeUpSteady
<1> QED BY <1>5, <1>9, BecomesTree

\* The links of a tree stay in it.
LEMMA TreeLinks ==
  ASSUME NEW t, NEW H, NEW D, IsTree(t, H, D)
  PROVE  /\ H \subseteq Dom(t) /\ NULL \notin H /\ Root(t) \in H \cup {NULL} /\ H = D[Root(t)] /\ D[NULL] = {}
         /\ \A a \in H : Get(t, a, "left") \in H \cup {NULL} /\ Get(t, a, "right") \in H \cup {NULL}
         /\ \A a \in H \cup {NULL} : D[a] \subseteq H
BY DEF IsTree, IsTreeBy

\* The tree of a phase, which leaves out the node that is being attached.
LEMMA PhaseTree ==
  ASSUME NEW t, NEW k, NEW N, NEW H, NEW D, NEW o, Phase(t, k, N, H, D, o)
  PROVE  IsTree(t, H, D)
BY DEF Phase, AtRest, Descending, Repairing, Deleting, AfterSwap, Seeking, DoublyBlack, Unlinking,
       Sound, RedBlack

\* What a step reads through is a node of the tree.
LEMMA ReadsFine ==
  ASSUME NEW out, Steady(Tree, key, out, op)
  PROVE  Reads \subseteq DOMAIN link
<1>1. PICK H, D : Phase(Tree, key, Dom(Tree) \ Out(op, out), H, D, op)
  BY SteadyParts
<1>2. IsTree(Tree, H, D)
  BY <1>1, PhaseTree
<1>3. /\ H \subseteq DOMAIN link /\ NULL \notin H /\ root \in H \cup {NULL}
      /\ \A a \in H : Field(a, "left") \in H \cup {NULL} /\ Field(a, "right") \in H \cup {NULL}
      /\ \A a \in H \cup {NULL} : D[a] \subseteq H
  BY <1>2, TreeLinks DEF Dom, Root, Tree, Field
<1>p. op.pc \in {"idle", "deleted", "unlinked", "descend", "fixup", "delete", "smallest", "fixdb", "unlink"}
  BY <1>1 DEF Phase
<1>4. CASE op.pc \in {"idle", "deleted", "unlinked", "unlink"}
  <2>1. Reads = {}
    BY <1>4 DEF Reads
  <2> QED BY <2>1
<1>5. CASE op.pc = "descend"
  <2>1. Descending(Tree, key, Dom(Tree) \ out, H, D, op)
    BY <1>1, <1>5 DEF Phase, Out
  <2>2. op.cur \in H \cup {NULL}
    BY <2>1, <1>3 DEF Descending, Towards, Field, Root, Tree
  <2>3. Reads = {op.cur} \ {NULL}
    BY <1>5 DEF Reads
  <2> QED BY <2>2, <2>3, <1>3
<1>6. CASE op.pc = "fixup"
  <2>1. PICK K, F : Repairing(Tree, key, Dom(Tree) \ out, K, F, op)
    BY <1>6, FixupParts
  <2> DEFINE c == op.cur
             p == Field(c, "parent")
             g == Field(p, "parent")
  <2>2. CASE c = root
    BY <2>2, <1>6 DEF Reads
  <2>3. CASE c # root
    <3>1. Reads = {c} \cup (IF Field(c, "color") = BLACK THEN {}
                            ELSE {p} \cup (IF Field(p, "color") = BLACK THEN {}
                                 ELSE {g} \cup ({Field(g, "left"), Field(g, "right")} \ {NULL})))
      BY <2>3, <1>6 DEF Reads
    <3>2. IsTree(Tree, K, F) /\ c \in K /\ Colored(Tree, K)
      BY <2>1 DEF Repairing, Sound, RedBlack
    <3>3. /\ K \subseteq DOMAIN link /\ NULL \notin K
          /\ \A a \in K : Field(a, "left") \in K \cup {NULL} /\ Field(a, "right") \in K \cup {NULL}
      BY <3>2, TreeLinks DEF Dom, Tree, Field
    <3>4. p \in K
      BY <2>3, <3>2 DEF IsTree, IsTreeBy, Field, Root, Tree
    <3>5. /\ Field(c, "color") = BLACK \/ Field(c, "color") = RED
          /\ Field(p, "color") = BLACK \/ Field(p, "color") = RED
      BY <3>2, <3>4 DEF Colored, Field
    <3>6. Field(c, "color") = RED /\ Field(p, "color") = RED => g \in K
      <4>1. HAVE Field(c, "color") = RED /\ Field(p, "color") = RED
      <4>2. c # Root(Tree) /\ Get(Tree, c, "color") = RED /\ p = Get(Tree, c, "parent")
            /\ Get(Tree, p, "color") = RED /\ g = Get(Tree, p, "parent")
        BY <2>3, <4>1 DEF Root, Tree, Field
      <4> HIDE DEF c, p, g
      <4>3. c = op.cur
        BY DEF c
      <4>4. \E f : Around(Tree, K, c, p, g, f)
        BY <2>1, <4>2, <4>3, FixupAround
      <4> QED BY <4>4 DEF Around
    <3> HIDE DEF c, p, g
    <3> QED BY <3>1, <3>2, <3>3, <3>4, <3>5, <3>6 DEF RED, BLACK
  <2> QED BY <2>2, <2>3
<1>7. CASE op.pc = "delete"
  <2>1. Deleting(Tree, key, Dom(Tree) \ out, H, D, op)
    BY <1>1, <1>7 DEF Phase, Out
  <2>2. op.node \in H
    BY <2>1 DEF Deleting
  <2>3. Reads = {op.node} \cup ({Field(op.node, "left"), Field(op.node, "right")} \ {NULL})
    BY <1>7 DEF Reads
  <2> QED BY <2>2, <2>3, <1>3
<1>8. CASE op.pc = "smallest"
  <2>1. Seeking(Tree, key, Dom(Tree) \ out, H, D, op)
    BY <1>1, <1>8 DEF Phase, Out
  <2>2. op.cur \in H
    BY <2>1, <1>3 DEF Seeking, Field
  <2>3. Reads = {op.cur}
    BY <1>8 DEF Reads
  <2> QED BY <2>2, <2>3, <1>3
<1>9. CASE op.pc = "fixdb"
  <2>1. CASE op.cur = root
    BY <2>1, <1>9 DEF Reads
  <2>2. CASE op.cur # root
    <3>1. PICK K, F, f, bh, p, s : DoubleBlackAt(out, K, F, f, bh, p, s)
      BY <2>2, <1>9, DoubleBlackThere
    <3>2. /\ p = Field(op.cur, "parent") /\ s = Sibling(op.cur) /\ p # NULL /\ s # NULL
          /\ p \in DOMAIN link /\ s \in DOMAIN link /\ op.cur \in DOMAIN link
          /\ \A y \in Sides : Field(s, y) # NULL => Field(s, y) \in DOMAIN link
      BY <3>1 DEF DoubleBlackAt, Dom, Tree, Field
    <3>3. Field(s, "parent") = p
      BY <3>1 DEF DoubleBlackAt, Black2, BlackAround, Field
    <3>4. Reads = {op.cur} \cup ({p, s} \ {NULL})
                  \cup ({Field(s, "parent")} \cup ({Field(s, "left"), Field(s, "right")} \ {NULL}))
      BY <2>2, <3>2, <1>9 DEF Reads
    <3> QED BY <3>2, <3>3, <3>4 DEF Sides
  <2> QED BY <2>1, <2>2
<1> QED BY <1>p, <1>4, <1>5, <1>6, <1>7, <1>8, <1>9

\* The steps of the code keep the tree; only those that damage it reset whole.
THEOREM TreeStepSteady ==
  ASSUME NEW out, Steady(Tree, key, out, op), TreeStep, whole'
  PROVE  Steady(Tree', key', out, op')
<1>1. ~Undefined
  BY ReadsFine DEF Undefined
<1>2. ~NoSibling
  <2>1. SUFFICES ASSUME NoSibling PROVE FALSE
    OBVIOUS
  <2>2. op.pc = "fixdb" /\ op.cur # root /\ Sibling(op.cur) = NULL
    BY <2>1 DEF NoSibling, AtDoubleBlack, At
  <2>3. PICK H, D, f, bh, p, s : DoubleBlackAt(out, H, D, f, bh, p, s)
    BY <2>2, DoubleBlackThere
  <2> QED BY <2>2, <2>3 DEF DoubleBlackAt
<1> QED BY <1>1, <1>2, DescendSteady, PushEqualSteady, AttachRootSteady, AttachSteady, FixupSteady,
           FixupEndsSteady, UnlinkHeadSteady, DeleteLeafSteady, DeleteWithChildSteady,
           DeleteInnerSteady, SmallestSteady, SwapSteady, RedSiblingSteady, RedNephewSteady,
           BlackSiblingSteady, FixedAtRootSteady, UnlinkLeafSteady DEF TreeStep

\* A tree that was damaged is never called whole again.
LEMMA DamageStays ==
  ASSUME TreeStep, whole'
  PROVE  whole
BY DEF TreeStep, Descend, PushEqual, AttachRoot, Attach, Fixup, FixupEnds, UnlinkHead, DeleteLeaf,
       DeleteWithChild, DeleteInner, Smallest, Swap, NoSibling, RedSibling, BlackSiblingRedNephew,
       BlackSibling, FixedAtRoot, UnlinkLeaf, Undefined

-----------------------------------------------------------------------------
(* The tree that is walked through is the tree that is kept.                *)

\* Induction on finite sets, in the form the library has it: among sets of
\* subsets of a finite set one is least.
LEMMA MinSubset ==
  ASSUME NEW S, IsFiniteSet(S), NEW T, T \subseteq SUBSET S, T # {}
  PROVE  \E x \in T : \A y \in T : ~(y \subseteq x /\ y # x)
<1>1. IsWellFoundedOn(StrictSubsetOrdering(S), FiniteSubsetsOf(S))
  BY FS_StrictSubsetOrderingWellFounded
<1>2. FiniteSubsetsOf(S) = SUBSET S
  BY FS_FiniteSubsetsOfFinite
<1>3. \E x \in T : \A y \in T : ~(<<y, x>> \in StrictSubsetOrdering(S))
  BY <1>1, <1>2, WFMin
<1> QED BY <1>3, <1>2 DEF StrictSubsetOrdering

\* Induction on numbers, in the same form.
LEMMA MinNat ==
  ASSUME NEW T, T \subseteq Nat, T # {}
  PROVE  \E x \in T : \A y \in T : x <= y
<1>1. PICK n \in T : TRUE
  OBVIOUS
<1> DEFINE U == {0..k : k \in {j \in T : j <= n}}
<1>2. U \subseteq SUBSET (0..n) /\ U # {} /\ IsFiniteSet(0..n)
  <2>1. n \in Nat
    BY <1>1
  <2>2. IsFiniteSet(0..n)
    BY <2>1, FS_Interval
  <2>3. 0..n \in U
    BY <1>1, <2>1
  <2>4. \A j \in Nat : j <= n => 0..j \subseteq 0..n
    BY <2>1
  <2> QED BY <2>2, <2>3, <2>4
<1>3. PICK x \in U : \A y \in U : ~(y \subseteq x /\ y # x)
  <2> DEFINE W == 0..n
  <2>1. U \subseteq SUBSET W /\ U # {} /\ IsFiniteSet(W)
    BY <1>2
  <2> HIDE DEF U, W
  <2> QED BY <2>1, MinSubset
<1>4. PICK k \in T : x = 0..k /\ k <= n
  BY <1>3
<1>5. ASSUME NEW j \in T, j < k PROVE FALSE
  <2>0. j \in Nat /\ k \in Nat /\ n \in Nat
    BY <1>1
  <2>1. 0..j \in U
    <3>1. j <= n
      BY <2>0, <1>4, <1>5
    <3> QED BY <3>1
  <2>2. 0..j \subseteq x /\ k \in x /\ k \notin 0..j
    BY <2>0, <1>4, <1>5
  <2> HIDE DEF U
  <2> QED BY <1>3, <2>1, <2>2
<1> QED BY <1>4, <1>5

\* The levels of a search, by number.
Levels(n, S, F, L) ==
  /\ L = [d \in 0..n |-> L[d]]
  /\ L[0] = S \cap Nodes
  /\ \A d \in 1..n : L[d] = Onward(L[d - 1], F)

\* The levels can be counted to any depth.
LEMMA LevelsExist ==
  ASSUME NEW n \in Nat, NEW S, NEW F
  PROVE  \E L : Levels(n, S, F, L)
<1>1. SUFFICES ASSUME ~\E L : Levels(n, S, F, L) PROVE FALSE
  OBVIOUS
<1> DEFINE T == {j \in Nat : ~\E L : Levels(j, S, F, L)}
<1>2. PICK k \in T : \A j \in T : k <= j
  <2>1. n \in T /\ T \subseteq Nat
    BY <1>1
  <2> HIDE DEF T
  <2> QED BY <2>1, MinNat
<1>3. k # 0
  <2> DEFINE L == [d \in 0..0 |-> S \cap Nodes]
  <2>1. L[0] = S \cap Nodes /\ L = [d \in 0..0 |-> L[d]]
    OBVIOUS
  <2> HIDE DEF L
  <2>2. Levels(0, S, F, L)
    BY <2>1 DEF Levels
  <2> QED BY <2>2
<1>4. k - 1 \in Nat /\ k - 1 \notin T
  BY <1>2, <1>3
<1>5. PICK L : Levels(k - 1, S, F, L)
  BY <1>4
<1> DEFINE M == [d \in 0..k |-> IF d = k THEN Onward(L[k - 1], F) ELSE L[d]]
<1>6. Levels(k, S, F, M)
  <2>1. /\ M = [d \in 0..k |-> M[d]] /\ M[0] = L[0]
        /\ M[k] = Onward(L[k - 1], F)
        /\ \A d \in 0..(k - 1) : M[d] = L[d]
    BY <1>2, <1>3
  <2> HIDE DEF M
  <2>2. ASSUME NEW d \in 1..k
        PROVE  M[d] = Onward(M[d - 1], F)
    <3>1. d - 1 \in 0..(k - 1)
      BY <1>2, <2>2
    <3>2. CASE d = k
      BY <2>1, <3>1, <3>2
    <3>3. CASE d # k
      <4>1. d \in 1..(k - 1)
        BY <1>2, <2>2, <3>3
      <4>2. L[d] = Onward(L[d - 1], F)
        BY <4>1, <1>5 DEF Levels
      <4>3. M[d] = L[d]
        <5>1. d \in 0..(k - 1)
          BY <4>1, <1>2
        <5> QED BY <5>1, <2>1
      <4>4. M[d - 1] = L[d - 1]
        BY <2>1, <3>1
      <4> QED BY <4>2, <4>3, <4>4
    <3> QED BY <3>2, <3>3
  <2>3. \A d \in 1..k : M[d] = Onward(M[d - 1], F)
    BY <2>2
  <2> QED BY <2>1, <2>3, <1>5, Zenon DEF Levels
<1> QED BY <1>2, <1>6

\* Reach, the fold of RBTreeShape, is the union of as many levels as there are
\* nodes.
LEMMA ReachLevels ==
  ASSUME NEW S, NEW F, IsFiniteSet(Nodes)
  PROVE  \E L : /\ Levels(Cardinality(Nodes), S, F, L)
               /\ Reach(S, F) = UNION {L[d] : d \in 0..Cardinality(Nodes)}
<1> DEFINE G(level) == level = [d \in 0..Cardinality(Nodes) |->
                                  IF d = 0 THEN S \cap Nodes ELSE Onward(level[d - 1], F)]
           L == CHOOSE level : G(level)
<1>1. Cardinality(Nodes) \in Nat
  BY FS_CardinalityType
<1> DEFINE n == Cardinality(Nodes)
<1>2. \E l : G(l)
  <2>1. PICK l : Levels(n, S, F, l)
    BY <1>1, LevelsExist
  <2> HIDE DEF n
  <2>2. ASSUME NEW d \in 0..n
        PROVE  l[d] = IF d = 0 THEN S \cap Nodes ELSE Onward(l[d - 1], F)
    <3>1. CASE d = 0
      BY <2>1, <3>1 DEF Levels
    <3>2. CASE d # 0
      <4>1. d \in 1..n
        BY <1>1, <2>2, <3>2 DEF n
      <4> QED BY <2>1, <3>2, <4>1 DEF Levels
    <3> QED BY <3>1, <3>2
  <2>3. l = [d \in 0..n |-> l[d]]
    BY <2>1 DEF Levels
  <2>4. l = [d \in 0..n |-> IF d = 0 THEN S \cap Nodes ELSE Onward(l[d - 1], F)]
    BY <2>2, <2>3
  <2> QED BY <2>4 DEF n
<1>3. G(L)
  <2> HIDE DEF G
  <2> QED BY <1>2
<1>4. Reach(S, F) = UNION {L[d] : d \in DOMAIN L}
  BY DEF Reach
<1>5. L = [d \in 0..n |-> IF d = 0 THEN S \cap Nodes ELSE Onward(L[d - 1], F)]
  <2> HIDE DEF L
  <2> QED BY <1>3
<1> HIDE DEF L, G
<1>6. n \in Nat
  BY <1>1
<1> HIDE DEF n
<1>7. DOMAIN L = 0..n /\ L = [d \in 0..n |-> L[d]]
  BY <1>5
<1>8. L[0] = S \cap Nodes
  <2>1. 0 \in 0..n
    BY <1>6
  <2> QED BY <2>1, <1>5
<1>9. \A d \in 1..n : L[d] = Onward(L[d - 1], F)
  <2>1. ASSUME NEW d \in 1..n PROVE L[d] = Onward(L[d - 1], F)
    <3>1. d \in 0..n /\ d # 0
      BY <1>6
    <3> QED BY <3>1, <1>5
  <2> QED BY <2>1
<1>10. Levels(n, S, F, L)
  BY <1>7, <1>8, <1>9, Zenon DEF Levels
<1>11. Reach(S, F) = UNION {L[d] : d \in 0..n}
  BY <1>4, <1>7
<1>12. \E l : Levels(n, S, F, l) /\ Reach(S, F) = UNION {l[d] : d \in 0..n}
  BY <1>10, <1>11, Zenon
<1> QED BY <1>12 DEF n

\* What can be reached is closed, and it is the least such set.
LEMMA ReachIs ==
  ASSUME NEW S, NEW F, IsFiniteSet(Nodes)
  PROVE  /\ S \cap Nodes \subseteq Reach(S, F) /\ Reach(S, F) \subseteq Nodes
         /\ \A a \in Reach(S, F), f \in F : link[a][f] \in Nodes => link[a][f] \in Reach(S, F)
         /\ \A K : /\ S \cap Nodes \subseteq K
                   /\ \A a \in K \cap Nodes, f \in F : link[a][f] \in Nodes => link[a][f] \in K
                   => Reach(S, F) \subseteq K
<1> DEFINE n == Cardinality(Nodes)
<1>1. PICK L : Levels(n, S, F, L) /\ Reach(S, F) = UNION {L[d] : d \in 0..n}
  BY ReachLevels
<1>n. n \in Nat
  BY FS_CardinalityType
<1>c. n = Cardinality(Nodes)
  OBVIOUS
<1> HIDE DEF n
<1>2. L[0] = S \cap Nodes /\ \A d \in 1..n : L[d] = Onward(L[d - 1], F)
  BY <1>1 DEF Levels
<1>3. \A d \in 0..n : L[d] \subseteq Nodes
  <2>1. ASSUME NEW d \in 0..n PROVE L[d] \subseteq Nodes
    <3>1. CASE d = 0
      BY <1>2, <3>1
    <3>2. CASE d # 0
      <4>1. d \in 1..n
        BY <1>n, <3>2
      <4> QED BY <4>1, <1>2 DEF Onward
    <3> QED BY <3>1, <3>2
  <2> QED BY <2>1
<1>4. S \cap Nodes \subseteq Reach(S, F) /\ Reach(S, F) \subseteq Nodes
  BY <1>1, <1>2, <1>3, <1>n
<1>5. ASSUME NEW K, S \cap Nodes \subseteq K,
             \A a \in K \cap Nodes, f \in F : link[a][f] \in Nodes => link[a][f] \in K
      PROVE  Reach(S, F) \subseteq K
  <2>1. SUFFICES ASSUME ~(Reach(S, F) \subseteq K) PROVE FALSE
    OBVIOUS
  <2> DEFINE T == {d \in 0..n : ~(L[d] \subseteq K)}
  <2>2. T # {} /\ T \subseteq Nat
    BY <2>1, <1>1, <1>n
  <2>3. PICK d \in T : \A e \in T : d <= e
    <3> HIDE DEF T
    <3> QED BY <2>2, MinNat
  <2>4. d \in 1..n /\ d - 1 \in 0..n /\ d - 1 \notin T
    <3>1. d # 0
      BY <1>2, <1>5
    <3> QED BY <3>1, <2>3, <1>n
  <2>5. L[d - 1] \subseteq K /\ L[d - 1] \subseteq Nodes
    BY <2>4, <1>3
  <2>6. Onward(L[d - 1], F) \subseteq K
    BY <2>5, <1>5 DEF Onward
  <2> QED BY <2>4, <2>6, <1>2
<1> DEFINE Early(d) == UNION {L[e] : e \in 0..(d - 1)}
           New(d) == L[d] \ Early(d)
<1>6. ASSUME New(n) # {} PROVE FALSE
  <2>1. \A d \in 0..n : New(d) # {}
    <3>1. SUFFICES ASSUME NEW x \in 0..n, New(x) = {} PROVE FALSE
      OBVIOUS
    <3> DEFINE T == {i \in 0..n : New(n - i) = {}}
    <3>2. n - x \in T /\ T \subseteq Nat
      <4>1. n - x \in 0..n /\ n - (n - x) = x
        BY <1>n
      <4> QED BY <4>1, <3>1, <1>n
    <3>3. PICK i \in T : \A j \in T : i <= j
      <4> HIDE DEF T
      <4> QED BY <3>2, MinNat
    <3>4. i # 0
      <4>1. n - 0 = n
        BY <1>n
      <4> QED BY <4>1, <3>3, <1>6
    <3>5. i - 1 \in 0..n /\ i - 1 \notin T
      <4>1. i \in 0..n /\ \A j \in T : i <= j
        BY <3>3
      <4> HIDE DEF T
      <4> QED BY <4>1, <3>4, <1>n
    <3> DEFINE d == n - i
    <3>i. i \in 0..n
      BY <3>3
    <3>6. d \in 0..n /\ d + 1 \in 1..n /\ n - (i - 1) = d + 1 /\ (d + 1) - 1 = d
      <4>1. i \in Nat /\ i <= n /\ 1 <= i
        BY <3>i, <3>4, <1>n
      <4>2. d \in Int /\ 0 <= d /\ d <= n /\ d + 1 <= n
        BY <4>1, <1>n
      <4>3. n - (i - 1) = d + 1
        BY <4>1, <1>n
      <4> HIDE DEF d
      <4> QED BY <4>2, <4>3, <1>n
    <3>7. New(d) = {}
      BY <3>3
    <3>8. New(d + 1) # {}
      BY <3>5, <3>6
    <3> HIDE DEF d
    <3>9. PICK b : b \in L[d + 1] /\ \A e \in 0..d : b \notin L[e]
      BY <3>6, <3>8
    <3>10. L[d + 1] = Onward(L[d], F)
      <4>1. L[d + 1] = Onward(L[(d + 1) - 1], F)
        BY <3>6, <1>2
      <4> QED BY <4>1, <3>6
    <3>11. PICK a \in L[d], f \in F : b = link[a][f] /\ b \in Nodes
      BY <3>9, <3>10 DEF Onward
    <3>12. PICK e \in 0..(d - 1) : a \in L[e]
      BY <3>7, <3>11
    <3>13. e + 1 \in 1..n /\ e + 1 \in 0..d /\ (e + 1) - 1 = e
      BY <3>6, <1>n
    <3>14. L[e + 1] = Onward(L[e], F)
      <4>1. L[e + 1] = Onward(L[(e + 1) - 1], F)
        BY <3>13, <1>2
      <4> QED BY <4>1, <3>13
    <3>15. b \in L[e + 1]
      BY <3>11, <3>12, <3>14 DEF Onward
    <3> QED BY <3>9, <3>13, <3>15
  <2> DEFINE g == [d \in 0..n |-> CHOOSE a \in New(d) : TRUE]
  <2>2. \A d \in 0..n : g[d] \in New(d)
    <3>1. ASSUME NEW d \in 0..n PROVE g[d] \in New(d)
      <4>1. g[d] = CHOOSE a \in New(d) : TRUE
        OBVIOUS
      <4>2. New(d) # {}
        BY <2>1
      <4> HIDE DEF New, g
      <4> QED BY <4>1, <4>2
    <3> QED BY <3>1
  <2>3. g = [d \in 0..n |-> g[d]]
    OBVIOUS
  <2> HIDE DEF g
  <2>4. g \in [0..n -> Nodes]
    BY <2>2, <2>3, <1>3
  <2>5. ASSUME NEW d \in 0..n, NEW e \in 0..n, d < e PROVE g[d] # g[e]
    <3>1. d \in 0..(e - 1)
      BY <2>5, <1>n
    <3>2. g[d] \in L[d] /\ g[e] \notin Early(e)
      BY <2>2
    <3> QED BY <3>1, <3>2
  <2>6. \A d, e \in 0..n : d # e => g[d] # g[e]
    <3>1. \A d, e \in 0..n : d # e => d < e \/ e < d
      BY <1>n
    <3> QED BY <2>5, <3>1
  <2>7. IsFiniteSet(0..n) /\ Cardinality(0..n) = n + 1
    BY <1>n, FS_Interval
  <2>8. \E d, e \in 0..n : d # e /\ g[d] = g[e]
    <3>1. Cardinality(Nodes) < Cardinality(0..n)
      BY <2>7, <1>n, <1>c
    <3> DEFINE Q == 0..n
    <3>2. IsFiniteSet(Q) /\ Cardinality(Nodes) < Cardinality(Q) /\ g \in [Q -> Nodes]
      BY <2>4, <2>7, <3>1
    <3> HIDE DEF Q
    <3>3. \E d, e \in Q : d # e /\ g[d] = g[e]
      BY <3>2, FS_PigeonHole
    <3> QED BY <3>3 DEF Q
  <2> QED BY <2>6, <2>8
<1>7. ASSUME NEW a \in Reach(S, F), NEW f \in F, link[a][f] \in Nodes
      PROVE  link[a][f] \in Reach(S, F)
  <2>1. PICK d \in 0..n : a \in L[d]
    BY <1>1
  <2>2. \E e \in 0..(n - 1) : a \in L[e]
    <3>1. CASE d = n
      <4>1. New(n) = {}
        BY <1>6
      <4> QED BY <4>1, <2>1, <3>1
    <3>2. CASE d # n
      <4>1. d \in 0..(n - 1)
        BY <3>2, <1>n
      <4> QED BY <4>1, <2>1
    <3> QED BY <3>1, <3>2
  <2>3. PICK e \in 0..(n - 1) : a \in L[e]
    BY <2>2
  <2>4. e + 1 \in 1..n /\ e + 1 \in 0..n /\ (e + 1) - 1 = e
    BY <1>n
  <2>5. L[e + 1] = Onward(L[e], F)
    <3>1. L[e + 1] = Onward(L[(e + 1) - 1], F)
      BY <2>4, <1>2
    <3> QED BY <3>1, <2>4
  <2>6. link[a][f] \in L[e + 1]
    BY <2>3, <2>5, <1>7 DEF Onward
  <2> QED BY <2>4, <2>6, <1>1
<1> QED BY <1>4, <1>5, <1>7

\* Reading the tree, for the nodes there are.
LEMMA NodesOf ==
  /\ Dom(Tree) = Nodes /\ Root(Tree) = root
  /\ \A a \in Nodes, f \in Fields : Get(Tree, a, f) = link[a][f]
BY DEF Dom, Root, Tree, Nodes, Get

\* What the tree below a node is, by the definition of IsTree and by reading it.
LEMMA BelowIs ==
  ASSUME NEW H, NEW D, Usable(Tree), IsFiniteSet(Nodes), IsTree(Tree, H, D), NEW a \in H
  PROVE  Below(a) = D[a]
<1> DEFINE F == {"left", "right"}
           K == D[a]
<1>0. /\ H \subseteq Nodes /\ NULL \notin Nodes /\ NULL \notin H /\ a \in Nodes
      /\ \A b \in Nodes, f \in F : Get(Tree, b, f) = link[b][f]
  <2>1. H \subseteq Dom(Tree) /\ NULL \notin H /\ NULL \notin Dom(Tree)
    BY DEF IsTree, IsTreeBy, Usable
  <2> QED BY <2>1, NodesOf DEF Fields
<1>1. /\ \A b \in H : D[b] \subseteq H /\ b \in D[b]
      /\ \A b \in H, f \in F : Get(Tree, b, f) # NULL => Get(Tree, b, f) \in H /\ Get(Tree, Get(Tree, b, f), "parent") = b
      /\ \A b, c \in H : c \in D[b] <=> c = b \/ c \in D[Get(Tree, b, "left")] \/ c \in D[Get(Tree, b, "right")]
      /\ \A b, c, e \in H : c \in D[b] /\ e \in D[c] => e \in D[b]
      /\ \A b, c \in H : c \in D[b] /\ c # b => Get(Tree, c, "parent") \in D[b]
      /\ \A b \in H : b \notin D[Get(Tree, b, "left")] /\ b \notin D[Get(Tree, b, "right")]
  BY DEF IsTree, IsTreeBy
<1>2. /\ {a} \cap Nodes \subseteq Below(a) /\ Below(a) \subseteq Nodes
      /\ \A b \in Below(a), f \in F : link[b][f] \in Nodes => link[b][f] \in Below(a)
      /\ /\ {a} \cap Nodes \subseteq K
         /\ \A b \in K \cap Nodes, f \in F : link[b][f] \in Nodes => link[b][f] \in K
         => Below(a) \subseteq K
  <2> HIDE DEF F, K
  <2>1. Below(a) = Reach({a}, F)
    BY DEF Below, F
  <2> QED BY <2>1, ReachIs
<1>3. Below(a) \subseteq K
  <2>1. ASSUME NEW b \in K \cap Nodes, NEW f \in F, link[b][f] \in Nodes PROVE link[b][f] \in K
    <3>1. b \in H /\ link[b][f] = Get(Tree, b, f) /\ Get(Tree, b, f) # NULL
      BY <2>1, <1>0, <1>1
    <3>2. Get(Tree, b, f) \in H /\ Get(Tree, b, f) \in D[b]
      BY <3>1, <1>1
    <3> QED BY <3>1, <3>2, <1>1
  <2> QED BY <2>1, <1>1, <1>2
<1>4. K \subseteq Below(a)
  <2>1. SUFFICES ASSUME ~(K \subseteq Below(a)) PROVE FALSE
    OBVIOUS
  <2> DEFINE T == {H \ D[b] : b \in K \ Below(a)}
  <2>2. T \subseteq SUBSET H /\ T # {}
    BY <2>1
  <2>3. IsFiniteSet(H)
    BY <1>0, FS_Subset
  <2>4. PICK x \in T : \A y \in T : ~(y \subseteq x /\ y # x)
    <3> HIDE DEF T
    <3> QED BY <2>2, <2>3, MinSubset
  <2>5. PICK b \in K \ Below(a) : x = H \ D[b]
    BY <2>4
  <2> DEFINE p == Get(Tree, b, "parent")
  <2>6. b \in H /\ b # a
    BY <2>5, <1>0, <1>1, <1>2
  <2>7. p \in K /\ p \in H
    BY <2>5, <2>6, <1>1
  <2>8. b # Root(Tree)
    <3>1. b = Root(Tree) => p = NULL
      BY <2>6, <1>0 DEF IsTree, IsTreeBy
    <3> QED BY <3>1, <2>7, <1>0
  <2>9. PICK f \in F : b = Get(Tree, p, f)
    BY <2>6, <2>8 DEF IsTree, IsTreeBy
  <2>10. p \in Below(a)
    <3>1. SUFFICES ASSUME p \notin Below(a) PROVE FALSE
      OBVIOUS
    <3>2. H \ D[p] \in T
      BY <3>1, <2>7
    <3>3. D[b] \subseteq D[p]
      <4>1. b \in D[p]
        BY <2>6, <2>7, <2>9, <1>1
      <4> QED BY <4>1, <2>6, <2>7, <1>1
    <3>4. p \in D[p] /\ p \notin D[b]
      BY <2>7, <2>9, <1>1
    <3> HIDE DEF T, p
    <3>5. ~(H \ D[p] \subseteq x /\ H \ D[p] # x)
      BY <2>4, <3>2
    <3> QED BY <2>5, <2>7, <3>3, <3>4, <3>5
  <2>11. link[p][f] = b /\ b \in Nodes
    BY <2>6, <2>7, <2>9, <1>0
  <2> QED BY <2>5, <2>10, <2>11, <1>2
<1> QED BY <1>3, <1>4

\* What RBTreeShape finds by walking down from the root is H, ...
LEMMA HeadsAre ==
  ASSUME NEW H, NEW D, Usable(Tree), IsFiniteSet(Nodes), IsTree(Tree, H, D)
  PROVE  Heads = H
<1>1. D[Root(Tree)] = H /\ Root(Tree) \in H \cup {NULL} /\ D[NULL] = {} /\ Root(Tree) = root
      /\ NULL \notin Nodes
  BY NodesOf DEF IsTree, IsTreeBy, Usable
<1>2. CASE root \in H
  BY <1>1, <1>2, BelowIs DEF Heads
<1>3. CASE root = NULL
  <2>1. {root} \cap Nodes = {} /\ H = {}
    BY <1>1, <1>3
  <2>2. Below(root) \subseteq {}
    <3>1. \A K : /\ {root} \cap Nodes \subseteq K
                 /\ \A a \in K \cap Nodes, f \in {"left", "right"} : link[a][f] \in Nodes => link[a][f] \in K
                 => Reach({root}, {"left", "right"}) \subseteq K
      BY ReachIs
    <3>2. Reach({root}, {"left", "right"}) \subseteq {}
      BY <2>1, <3>1
    <3> QED BY <3>2 DEF Below
  <2> QED BY <2>1, <2>2 DEF Heads
<1> QED BY <1>1, <1>2, <1>3

\* ... and by walking along the lists N, with no list meeting another.
LEMMA ListedAre ==
  ASSUME NEW H, NEW D, NEW N, Usable(Tree), IsFiniteSet(Nodes), IsTree(Tree, H, D), HasListing(Tree, H, N, key)
  PROVE  Listed = N /\ Lists
<1>1. PICK rank : Listing(Tree, H, N, key, rank)
  BY DEF HasListing
<1>2. /\ H \subseteq N /\ N \subseteq Nodes /\ rank \in [N -> Nat] /\ NULL \notin Nodes
      /\ \A a \in N : link[a].next # NULL => link[a].next \in N \ H /\ key[link[a].next] = key[a]
      /\ \A a, b \in N : link[a].next = link[b].next /\ link[a].next # NULL => a = b
      /\ \A a \in N \ H : \E b \in N : link[b].next = a /\ rank[b] < rank[a]
  <2>1. Dom(Tree) = Nodes /\ \A a \in Nodes : Get(Tree, a, "next") = link[a].next
    BY NodesOf DEF Fields
  <2>2. /\ H \subseteq N /\ N \subseteq Dom(Tree) /\ rank \in [N -> Nat]
        /\ \A a \in N : Get(Tree, a, "next") # NULL =>
             Get(Tree, a, "next") \in N \ H /\ key[Get(Tree, a, "next")] = key[a]
        /\ \A a, b \in N : Get(Tree, a, "next") = Get(Tree, b, "next") /\ Get(Tree, a, "next") # NULL => a = b
        /\ \A a \in N \ H : \E b \in N : Get(Tree, b, "next") = a /\ rank[b] < rank[a]
    BY <1>1 DEF Listing
  <2>3. NULL \notin Nodes
    BY <2>1 DEF Usable
  <2>4. \A a \in N : Get(Tree, a, "next") = link[a].next
    BY <2>1, <2>2
  <2> QED BY <2>1, <2>2, <2>3, <2>4
<1>3. Heads = H
  BY HeadsAre
<1>4. /\ H \cap Nodes \subseteq Listed
      /\ \A a \in Listed : link[a].next \in Nodes => link[a].next \in Listed
      /\ H \cap Nodes \subseteq N /\ (\A a \in N \cap Nodes : link[a].next \in Nodes => link[a].next \in N)
         => Listed \subseteq N
  <2>1. Listed = Reach(H, {"next"})
    BY <1>3 DEF Listed
  <2>2. /\ H \cap Nodes \subseteq Reach(H, {"next"})
        /\ \A a \in Reach(H, {"next"}), f \in {"next"} : link[a][f] \in Nodes => link[a][f] \in Reach(H, {"next"})
        /\ \A K : /\ H \cap Nodes \subseteq K
                  /\ \A a \in K \cap Nodes, f \in {"next"} : link[a][f] \in Nodes => link[a][f] \in K
                  => Reach(H, {"next"}) \subseteq K
    BY ReachIs
  <2> QED BY <2>1, <2>2
<1>5. Listed \subseteq N
  BY <1>2, <1>4
<1>6. N \subseteq Listed
  <2>1. SUFFICES ASSUME ~(N \subseteq Listed) PROVE FALSE
    OBVIOUS
  <2> DEFINE T == {rank[a] : a \in N \ Listed}
  <2>2. T # {} /\ T \subseteq Nat
    BY <2>1, <1>2
  <2>3. PICK x \in T : \A y \in T : x <= y
    <3> HIDE DEF T
    <3> QED BY <2>2, MinNat
  <2>4. PICK a \in N \ Listed : x = rank[a]
    BY <2>3
  <2>5. a \notin H
    BY <2>4, <1>2, <1>4
  <2>6. PICK b \in N : link[b].next = a /\ rank[b] < rank[a]
    BY <2>4, <2>5, <1>2
  <2>7. b \in Listed
    <3>1. SUFFICES ASSUME b \notin Listed PROVE FALSE
      OBVIOUS
    <3>2. rank[b] \in T /\ rank[b] \in Nat /\ rank[a] \in Nat
      BY <3>1, <1>2, <2>4
    <3> HIDE DEF T
    <3> QED BY <3>2, <2>3, <2>4, <2>6
  <2> QED BY <2>4, <2>6, <2>7, <1>2, <1>4
<1>7. Listed = N
  BY <1>5, <1>6
<1>8. Lists
  BY <1>2, <1>3, <1>7 DEF Lists
<1> QED BY <1>7, <1>8

\* The black nodes above a node and the black height below it are those of the tree.
LEMMA BlacksAre ==
  ASSUME NEW H, NEW D, NEW bh, Usable(Tree), IsFiniteSet(Nodes), IsTree(Tree, H, D),
         Weighted(Tree, H, bh, Plain(Tree, H)), NEW a \in H
  PROVE  Blacks(a) \in Nat /\ Blacks(a) + bh[a] = bh[root] + Plain(Tree, H)[a]
<1> DEFINE w == Plain(Tree, H)
           Good(b) == Blacks(b) \in Nat /\ Blacks(b) + bh[b] = bh[root] + w[b]
           Up(b) == {h \in H : b \in D[h]}
           Black(X) == {h \in X : link[h].color = BLACK}
<1>0. /\ H \subseteq Nodes /\ NULL \notin H /\ root = Root(Tree) /\ root \in H \cup {NULL}
      /\ \A b \in Nodes, f \in {"left", "right", "color"} : Get(Tree, b, f) = link[b][f]
  <2>1. H \subseteq Dom(Tree) /\ NULL \notin H /\ Root(Tree) \in H \cup {NULL}
    BY DEF IsTree, IsTreeBy
  <2> QED BY <2>1, NodesOf DEF Fields
<1>1. /\ \A b \in H : D[b] \subseteq H /\ b \in D[b]
      /\ \A b, c \in H : c \in D[b] <=> c = b \/ c \in D[Get(Tree, b, "left")] \/ c \in D[Get(Tree, b, "right")]
      /\ \A b, c, e \in H : c \in D[b] /\ e \in D[c] => e \in D[b]
      /\ \A b, c \in H : c \in D[b] /\ c # b => Get(Tree, c, "parent") \in D[b]
      /\ \A b \in H : b \notin D[Get(Tree, b, "left")] /\ b \notin D[Get(Tree, b, "right")]
      /\ \A b \in H : b # Root(Tree) =>
           /\ Get(Tree, b, "parent") \in H
           /\ b = Get(Tree, Get(Tree, b, "parent"), "left") \/ b = Get(Tree, Get(Tree, b, "parent"), "right")
      /\ Root(Tree) # NULL => Get(Tree, Root(Tree), "parent") = NULL
      /\ IsFiniteSet(H)
  <2>1. IsFiniteSet(H)
    BY <1>0, FS_Subset
  <2> QED BY <2>1 DEF IsTree, IsTreeBy
<1>2. \A b \in H : Blacks(b) = Cardinality(Black(Up(b)))
  <2>1. ASSUME NEW b \in H PROVE Blacks(b) = Cardinality(Black(Up(b)))
    <3>1. Path(b) = Up(b)
      <4>1. Heads = H /\ \A h \in H : Below(h) = D[h]
        BY HeadsAre, BelowIs
      <4> QED BY <4>1 DEF Path
    <3> HIDE DEF Up
    <3>2. {h \in Path(b) : link[h].color = BLACK} = Black(Up(b))
      BY <3>1
    <3> HIDE DEF Black
    <3> QED BY <3>2 DEF Blacks
  <2> QED BY <2>1
<1>3. /\ bh \in [H \cup {NULL} -> Nat] /\ w \in [H -> Nat]
      /\ \A b \in H : bh[b] = bh[Get(Tree, b, "left")] + w[b] /\ bh[b] = bh[Get(Tree, b, "right")] + w[b]
  BY DEF Weighted, Sides
<1>4. \A b \in H : w[b] = IF link[b].color = BLACK THEN 1 ELSE 0
  BY <1>0 DEF Plain
<1> HIDE DEF w
<1>5. ASSUME NEW b \in H, b = Root(Tree) PROVE Good(b)
  <2>1. Up(b) = {b}
    <3>1. ASSUME NEW h \in H, b \in D[h], b # h PROVE FALSE
      <4>1. Get(Tree, b, "parent") = NULL /\ Get(Tree, b, "parent") \in H
        BY <3>1, <1>0, <1>1, <1>5
      <4> QED BY <4>1, <1>0
    <3> QED BY <3>1, <1>1
  <2>2. Black(Up(b)) = IF link[b].color = BLACK THEN {b} ELSE {}
    BY <2>1
  <2>3. Blacks(b) = w[b]
    <3>1. Cardinality({b}) = 1 /\ Cardinality({}) = 0
      BY FS_EmptySet, FS_Singleton
    <3> HIDE DEF Up, Black
    <3> QED BY <2>2, <3>1, <1>2, <1>4
  <2>4. w[b] \in Nat /\ bh[b] \in Nat /\ b = root
    BY <1>0, <1>3, <1>5
  <2> QED BY <2>3, <2>4
<1>6. ASSUME NEW b \in H, b # Root(Tree), Good(Get(Tree, b, "parent")) PROVE Good(b)
  <2> DEFINE p == Get(Tree, b, "parent")
  <2>1. p \in H /\ b \in D[p] /\ p \notin D[b] /\ bh[p] = bh[b] + w[p]
    BY <1>1, <1>3, <1>6
  <2>2. Up(b) = Up(p) \cup {b} /\ b \notin Up(p)
    <3>1. ASSUME NEW h \in H PROVE b \in D[h] <=> p \in D[h] \/ h = b
      BY <2>1, <1>1
    <3>2. b \in H /\ ~(p \in D[b])
      BY <2>1
    <3> HIDE DEF p
    <3> QED BY <3>1, <3>2
  <2>3. Good(p)
    BY <1>6
  <2> HIDE DEF p
  <2>4. IsFiniteSet(Black(Up(p)))
    <3>1. Black(Up(p)) \in SUBSET H
      OBVIOUS
    <3> HIDE DEF Black, Up
    <3> QED BY <3>1, <1>1, FS_Subset
  <2>5. Black(Up(b)) = IF link[b].color = BLACK THEN Black(Up(p)) \cup {b} ELSE Black(Up(p))
    <3> HIDE DEF Up
    <3> QED BY <2>2
  <2>6. b \notin Black(Up(p))
    BY <2>2
  <2>7. Cardinality(Black(Up(b))) = Cardinality(Black(Up(p))) + w[b]
    <3> DEFINE X == Black(Up(p))
    <3>1. IsFiniteSet(X) /\ b \notin X /\ Black(Up(b)) = IF link[b].color = BLACK THEN X \cup {b} ELSE X
      BY <2>4, <2>5, <2>6
    <3> HIDE DEF X, Black, Up
    <3>2. Cardinality(X \cup {b}) = Cardinality(X) + 1 /\ Cardinality(X) \in Nat
      BY <3>1, FS_AddElement, FS_CardinalityType
    <3>3. Cardinality(Black(Up(b))) = Cardinality(X) + w[b]
      <4>1. CASE link[b].color = BLACK
        BY <4>1, <3>1, <3>2, <1>4
      <4>2. CASE link[b].color # BLACK
        BY <4>2, <3>1, <3>2, <1>4
      <4> QED BY <4>1, <4>2
    <3> QED BY <3>3 DEF X
  <2>8. Blacks(b) = Blacks(p) + w[b]
    <3> HIDE DEF Black, Up
    <3> QED BY <2>1, <2>7, <1>2
  <2>9. w[b] \in Nat /\ w[p] \in Nat /\ bh[b] \in Nat /\ bh[p] \in Nat /\ bh[root] \in Nat
    BY <2>1, <1>0, <1>3
  <2> QED BY <2>1, <2>3, <2>8, <2>9
<1>7. Good(a)
  <2>1. SUFFICES ASSUME ~Good(a) PROVE FALSE
    OBVIOUS
  <2> DEFINE T == {H \ D[b] : b \in {c \in H : ~Good(c)}}
  <2>2. T \subseteq SUBSET H /\ T # {}
    BY <2>1
  <2>3. PICK x \in T : \A y \in T : ~(y \subseteq x /\ y # x)
    <3> HIDE DEF T
    <3> QED BY <2>2, <1>1, MinSubset
  <2>4. PICK b \in H : ~Good(b) /\ x = H \ D[b]
    <3> HIDE DEF Good
    <3> QED BY <2>3
  <2> DEFINE p == Get(Tree, b, "parent")
  <2>5. b # Root(Tree) /\ ~Good(p)
    <3> HIDE DEF Good
    <3> QED BY <2>4, <1>5, <1>6
  <2>6. p \in H /\ b \in D[p] /\ p \notin D[b] /\ p \in D[p]
    BY <2>5, <1>1
  <2>7. H \ D[p] \in T
    <3> HIDE DEF Good
    <3> QED BY <2>5, <2>6
  <2>8. D[b] \subseteq D[p]
    BY <2>6, <1>1
  <2> HIDE DEF T, p, Good
  <2>9. ~(H \ D[p] \subseteq x /\ H \ D[p] # x)
    BY <2>3, <2>7
  <2> QED BY <2>4, <2>6, <2>8, <2>9
<1> QED BY <1>7 DEF w

\* Between operations the tree has the shape that readers of the code expect, and holds
\* the nodes there are.
THEOREM RestShape ==
  ASSUME NEW N, NEW H, NEW D, Usable(Tree), IsFiniteSet(Nodes), AtRest(Tree, key, N, H, D)
  PROVE  SearchTree /\ Balanced /\ Lists /\ Listed = N
<1>1. /\ IsTree(Tree, H, D) /\ Colored(Tree, H) /\ Ordered(Tree, H, D, key, {}) /\ RedsApart(Tree, H, {})
      /\ HasListing(Tree, H, N, key) /\ RootBlack(Tree)
      /\ \E bh : Weighted(Tree, H, bh, Plain(Tree, H))
  BY DEF AtRest, Sound, RedBlack
<1>2. Listed = N /\ Lists
  BY <1>1, ListedAre
<1>3. Heads = H /\ \A a \in H : Below(a) = D[a]
  BY <1>1, HeadsAre, BelowIs
<1>4. /\ H \subseteq Nodes /\ NULL \notin H /\ root = Root(Tree) /\ root \in H \cup {NULL}
      /\ \A b \in Nodes, f \in {"left", "right", "color", "parent"} : Get(Tree, b, f) = link[b][f]
  <2>1. H \subseteq Dom(Tree) /\ NULL \notin H /\ Root(Tree) \in H \cup {NULL}
    BY <1>1 DEF IsTree, IsTreeBy
  <2> QED BY <2>1, NodesOf DEF Fields
<1>5. SearchTree
  <2>1. root # NULL => link[root].parent = NULL
    BY <1>1, <1>4 DEF IsTree, IsTreeBy
  <2>2. ASSUME NEW a \in H, NEW side \in {"left", "right"}, link[a][side] # NULL
        PROVE  /\ link[a][side] \in H /\ link[link[a][side]].parent = a
               /\ \A b \in Below(link[a][side]) : IF side = "left" THEN key[b] < key[a] ELSE key[a] < key[b]
    <3>1. Get(Tree, a, side) = link[a][side]
      BY <1>4
    <3>2. Get(Tree, a, side) \in H /\ Get(Tree, Get(Tree, a, side), "parent") = a
      BY <3>1, <2>2, <1>1 DEF IsTree, IsTreeBy
    <3>3. \A b \in D[Get(Tree, a, side)] : Beside(key, side, a, b)
      BY <1>1 DEF Ordered, Sides
    <3> QED BY <3>1, <3>2, <3>3, <1>3, <1>4 DEF Beside
  <2> QED BY <2>1, <2>2, <1>3, <1>4 DEF SearchTree
<1>6. Balanced
  <2>1. root # NULL => link[root].color = BLACK
    BY <1>1, <1>4 DEF RootBlack
  <2>2. ASSUME NEW a \in H, link[a].color = RED, NEW c \in Children(a) PROVE link[c].color = BLACK
    <3>1. PICK f \in Sides : c = Get(Tree, a, f) /\ c # NULL
      BY <2>2 DEF Children, Field, Sides
    <3>2. RedsApart(Tree, H, {}) /\ Get(Tree, a, "color") = RED
      BY <2>2, <1>1, <1>4
    <3>3. Get(Tree, c, "color") = BLACK
      BY <3>1, <3>2 DEF RedsApart
    <3>4. c \in H
      BY <3>1, <1>1 DEF IsTree, IsTreeBy, Sides
    <3> QED BY <3>3, <3>4, <1>4
  <2>3. PICK bh : Weighted(Tree, H, bh, Plain(Tree, H))
    BY <1>1
  <2>4. ASSUME NEW a \in H, ~BothChildren(a) PROVE Blacks(a) = bh[root]
    <3>1. Blacks(a) \in Nat /\ Blacks(a) + bh[a] = bh[root] + Plain(Tree, H)[a]
      BY <2>3, <1>1, BlacksAre
    <3>2. Get(Tree, a, "left") = NULL \/ Get(Tree, a, "right") = NULL
      BY <2>4 DEF BothChildren, Field
    <3>3. bh[NULL] = 0 /\ bh[a] \in Nat /\ bh[root] \in Nat /\ Plain(Tree, H)[a] \in Nat
          /\ bh[a] = bh[Get(Tree, a, "left")] + Plain(Tree, H)[a]
          /\ bh[a] = bh[Get(Tree, a, "right")] + Plain(Tree, H)[a]
      BY <2>3, <1>4 DEF Weighted, Sides
    <3> QED BY <3>1, <3>2, <3>3
  <2> QED BY <2>1, <2>2, <2>4, <1>3 DEF Balanced
<1> QED BY <1>2, <1>5, <1>6

-----------------------------------------------------------------------------
(* What holds of the nodes whether the tree is damaged or not.              *)

\* A node of A, or none; and a node whose links stay in A.
Spots(A) == {NULL} \cup A
Links(A) == [parent : Spots(A), left : Spots(A), right : Spots(A), color : {BLACK, RED}, next : Spots(A)]

\* The nodes of t are N, they and the root lead to A, and each one's list goes on with nx.
Fits(t, A, N, nx) ==
  /\ DOMAIN t.link = N /\ t.root \in Spots(A)
  /\ \A a \in N : t.link[a] \in Links(A) /\ t.link[a].next = nx[a]

\* The fields of such a node.
LEMMA LinkParts ==
  ASSUME NEW A, NEW r \in Links(A)
  PROVE  /\ DOMAIN r = Fields /\ r.color \in {BLACK, RED}
         /\ r.parent \in Spots(A) /\ r.left \in Spots(A) /\ r.right \in Spots(A) /\ r.next \in Spots(A)
BY DEF Links, Fields

\* A field overwritten with a value of its kind.
LEMMA LinkPut ==
  ASSUME NEW A, NEW r \in Links(A), NEW f \in Fields, NEW v,
         v \in IF f = "color" THEN {BLACK, RED} ELSE Spots(A)
  PROVE  /\ [r EXCEPT ![f] = v] \in Links(A)
         /\ [r EXCEPT ![f] = v].next = IF f = "next" THEN v ELSE r.next
<1> DEFINE q == [r EXCEPT ![f] = v]
<1>1. DOMAIN r = Fields /\ r.color \in {BLACK, RED}
      /\ r.parent \in Spots(A) /\ r.left \in Spots(A) /\ r.right \in Spots(A) /\ r.next \in Spots(A)
  BY LinkParts
<1>2. q = [x \in Fields |-> IF x = f THEN v ELSE r[x]]
  BY <1>1
<1> HIDE DEF q
<1>3. /\ q = [parent |-> q.parent, left |-> q.left, right |-> q.right, color |-> q.color, next |-> q.next]
      /\ q.parent \in Spots(A) /\ q.left \in Spots(A) /\ q.right \in Spots(A) /\ q.next \in Spots(A)
      /\ q.color \in {BLACK, RED} /\ q.next = IF f = "next" THEN v ELSE r.next
  BY <1>1, <1>2 DEF Fields
<1>4. q \in Links(A)
  BY <1>3 DEF Links
<1> QED BY <1>3, <1>4 DEF q

\* A write of the kind of its field keeps Fits and the lists.
LEMMA FitsSet ==
  ASSUME NEW t, NEW A, NEW N, NEW nx, Fits(t, A, N, nx), NEW a, NEW f, NEW v,
         \/ f \in {"parent", "left", "right"} /\ v \in Spots(A)
         \/ f = "color" /\ v \in {BLACK, RED}
  PROVE  Fits(Set(t, a, f, v), A, N, nx)
<1> DEFINE s == Set(t, a, f, v)
           m == t.link
           n == Write(m, a, f, v)
<1>0. /\ DOMAIN n = DOMAIN m
      /\ \A x \in DOMAIN m : x # a => n[x] = m[x]
      /\ a \in DOMAIN m => n[a] = [m[a] EXCEPT ![f] = v]
  <2> HIDE DEF s, m
  <2> QED BY Zenon DEF Write
<1>1. s.link = n /\ s.root = t.root
  BY SetParts
<1> HIDE DEF n
<1>2. /\ DOMAIN s.link = DOMAIN m
      /\ \A x \in DOMAIN m : x # a => s.link[x] = m[x]
      /\ a \in DOMAIN m => s.link[a] = [m[a] EXCEPT ![f] = v]
  <2> HIDE DEF s, m
  <2> QED BY <1>0, <1>1, Zenon
<1>3. DOMAIN m = N /\ \A x \in N : m[x] \in Links(A) /\ m[x].next = nx[x]
  BY DEF Fits
<1>4. ASSUME NEW x \in N PROVE s.link[x] \in Links(A) /\ s.link[x].next = nx[x]
  <2> HIDE DEF s, m
  <2>1. CASE x # a
    BY <2>1, <1>2, <1>3
  <2>2. CASE x = a
    <3> DEFINE r == m[a]
    <3>1. r \in Links(A) /\ r.next = nx[a] /\ s.link[a] = [r EXCEPT ![f] = v]
      BY <2>2, <1>2, <1>3
    <3> HIDE DEF r
    <3>2. [r EXCEPT ![f] = v] \in Links(A) /\ [r EXCEPT ![f] = v].next = r.next
      BY <3>1, LinkPut DEF Fields
    <3> QED BY <3>1, <3>2, <2>2
  <2> QED BY <2>1, <2>2
<1> QED BY <1>1, <1>2, <1>3, <1>4 DEF Fits

\* A write to next keeps Fits and changes that link of the lists.
LEMMA FitsNext ==
  ASSUME NEW t, NEW A, NEW N, NEW nx, Fits(t, A, N, nx), NEW a, NEW v \in Spots(A)
  PROVE  Fits(Set(t, a, "next", v), A, N, [x \in N |-> IF x = a THEN v ELSE nx[x]])
<1> DEFINE s == Set(t, a, "next", v)
           m == t.link
           n == Write(m, a, "next", v)
<1>0. /\ DOMAIN n = DOMAIN m
      /\ \A x \in DOMAIN m : x # a => n[x] = m[x]
      /\ a \in DOMAIN m => n[a] = [m[a] EXCEPT !["next"] = v]
  <2> HIDE DEF s, m
  <2> QED BY Zenon DEF Write
<1>1. s.link = n /\ s.root = t.root
  BY SetParts
<1> HIDE DEF n
<1>2. /\ DOMAIN s.link = DOMAIN m
      /\ \A x \in DOMAIN m : x # a => s.link[x] = m[x]
      /\ a \in DOMAIN m => s.link[a] = [m[a] EXCEPT !["next"] = v]
  <2> HIDE DEF s, m
  <2> QED BY <1>0, <1>1, Zenon
<1>3. DOMAIN m = N /\ \A x \in N : m[x] \in Links(A) /\ m[x].next = nx[x]
  BY DEF Fits
<1>4. ASSUME NEW x \in N PROVE s.link[x] \in Links(A) /\ s.link[x].next = IF x = a THEN v ELSE nx[x]
  <2> HIDE DEF s, m
  <2>1. CASE x # a
    BY <2>1, <1>2, <1>3
  <2>2. CASE x = a
    <3> DEFINE r == m[a]
    <3>1. r \in Links(A) /\ s.link[a] = [r EXCEPT !["next"] = v]
      BY <2>2, <1>2, <1>3
    <3> HIDE DEF r
    <3>2. [r EXCEPT !["next"] = v] \in Links(A) /\ [r EXCEPT !["next"] = v].next = v
      BY <3>1, LinkPut DEF Fields
    <3> QED BY <3>1, <3>2, <2>2
  <2> QED BY <2>1, <2>2
<1> DEFINE ny == [x \in N |-> IF x = a THEN v ELSE nx[x]]
<1>5. \A x \in N : ny[x] = IF x = a THEN v ELSE nx[x]
  OBVIOUS
<1>6. t.root \in Spots(A)
  BY DEF Fits
<1> HIDE DEF s, ny
<1>7. Fits(s, A, N, ny)
  BY <1>1, <1>2, <1>3, <1>4, <1>5, <1>6 DEF Fits
<1> QED BY <1>7 DEF s, ny

\* So does a new root.
LEMMA FitsRoot ==
  ASSUME NEW t, NEW A, NEW N, NEW nx, Fits(t, A, N, nx), NEW a \in Spots(A)
  PROVE  Fits(SetRoot(t, a), A, N, nx)
BY DEF Fits, SetRoot

\* Whatever is read is a node of A, none, or a colour.
LEMMA FitsGet ==
  ASSUME NEW t, NEW A, NEW N, NEW nx, Fits(t, A, N, nx)
  PROVE  /\ \A a : /\ Get(t, a, "parent") \in Spots(A) /\ Get(t, a, "left") \in Spots(A)
                   /\ Get(t, a, "right") \in Spots(A) /\ Get(t, a, "next") \in Spots(A)
                   /\ Get(t, a, "color") \in {BLACK, RED}
         /\ \A a \in N : Get(t, a, "next") = nx[a]
         /\ \A a : a \notin N => Get(t, a, "next") = NULL
<1>1. ASSUME NEW a, a \in N
      PROVE  /\ Get(t, a, "parent") \in Spots(A) /\ Get(t, a, "left") \in Spots(A)
             /\ Get(t, a, "right") \in Spots(A) /\ Get(t, a, "next") \in Spots(A)
             /\ Get(t, a, "color") \in {BLACK, RED}
             /\ Get(t, a, "next") = nx[a]
  <2> DEFINE r == t.link[a]
  <2>1. r \in Links(A) /\ r.next = nx[a] /\ \A f : Get(t, a, f) = r[f]
    BY <1>1, Zenon DEF Fits, Get
  <2> HIDE DEF r
  <2> QED BY <2>1, LinkParts
<1>2. \A a : a \notin N => \A f : Get(t, a, f) = NULL
  BY DEF Fits, Get
<1>3. NULL \in Spots(A) /\ NULL \in {BLACK, RED}
  BY DEF Spots, NULL, BLACK
<1>4. \A a : /\ Get(t, a, "parent") \in Spots(A) /\ Get(t, a, "left") \in Spots(A)
             /\ Get(t, a, "right") \in Spots(A) /\ Get(t, a, "next") \in Spots(A)
             /\ Get(t, a, "color") \in {BLACK, RED}
  <2> TAKE a
  <2> QED BY <1>1, <1>2, <1>3
<1> QED BY <1>1, <1>2, <1>4

\* The same for a side that is not known by name.
LEMMA FitsSide ==
  ASSUME NEW t, NEW A, NEW N, NEW nx, Fits(t, A, N, nx), NEW a, NEW f \in Sides
  PROVE  /\ Get(t, a, f) \in Spots(A) /\ Get(t, a, Other(f)) \in Spots(A)
         /\ f \in {"parent", "left", "right"} /\ Other(f) \in {"parent", "left", "right"}
BY FitsGet DEF Sides, Other

\* ReplaceChild keeps Fits, ...
LEMMA FitsReplace ==
  ASSUME NEW t, NEW A, NEW N, NEW nx, Fits(t, A, N, nx), NEW u, NEW p, NEW c \in Spots(A)
  PROVE  Fits(ReplaceChild(t, u, p, c), A, N, nx)
<1> DEFINE f == IF Get(t, u, "left") = p THEN "left" ELSE "right"
<1>1. f \in {"parent", "left", "right"} /\ ReplaceChild(t, u, p, c) = Set(t, u, f, c)
  BY Zenon DEF ReplaceChild
<1> HIDE DEF f
<1> QED BY <1>1, FitsSet

\* ... and so do a rotation, ...
LEMMA FitsRotate ==
  ASSUME NEW t, NEW A, NEW N, NEW nx, Fits(t, A, N, nx), NEW p \in Spots(A), NEW side \in Sides
  PROVE  Fits(Rotate(t, p, side), A, N, nx)
<1> DEFINE o == Other(side)
           c == Get(t, p, o)
           g == Get(t, c, side)
           t1 == Set(t, p, o, g)
           t2 == IF g = NULL THEN t1 ELSE Set(t1, g, "parent", p)
           u == Get(t2, p, "parent")
           t3 == Set(t2, c, "parent", u)
           t4 == IF u = NULL THEN SetRoot(t3, c) ELSE ReplaceChild(t3, u, p, c)
           t5 == Set(t4, c, side, p)
<1>1. Rotate(t, p, side) = Set(t5, p, "parent", c)
  BY Zenon DEF Rotate
<1>2. c \in Spots(A) /\ g \in Spots(A) /\ side \in {"parent", "left", "right"} /\ o \in {"parent", "left", "right"}
  <2>1. c \in Spots(A) /\ side \in {"parent", "left", "right"} /\ o \in {"parent", "left", "right"}
    BY FitsSide
  <2> QED BY <2>1, FitsSide
<1> HIDE DEF c, g, o
<1>3. Fits(t1, A, N, nx)
  BY <1>2, FitsSet
<1> HIDE DEF t1
<1>4. Fits(t2, A, N, nx)
  BY <1>3, FitsSet
<1> HIDE DEF t2
<1>5. u \in Spots(A)
  BY <1>4, FitsGet
<1> HIDE DEF u
<1>6. Fits(t3, A, N, nx)
  BY <1>4, <1>5, FitsSet
<1> HIDE DEF t3
<1>7. Fits(t4, A, N, nx)
  BY <1>2, <1>6, FitsRoot, FitsReplace
<1> HIDE DEF t4
<1>8. Fits(t5, A, N, nx)
  BY <1>2, <1>7, FitsSet
<1> HIDE DEF t5
<1> QED BY <1>1, <1>2, <1>8, FitsSet

\* ... a node that takes another one's place, ...
LEMMA FitsTakePlace ==
  ASSUME NEW t, NEW A, NEW N, NEW nx, Fits(t, A, N, nx), NEW a, NEW b \in Spots(A)
  PROVE  Fits(TakePlace(t, a, b), A, N, nx)
<1> DEFINE l == Get(t, a, "left")
           r == Get(t, a, "right")
           u == Get(t, a, "parent")
           cl == Get(t, a, "color")
           q1 == Set(t, b, "color", cl)
           q2 == Set(q1, b, "left", l)
           q3 == Set(q2, b, "right", r)
           t1 == Set(q3, b, "parent", u)
           t2 == IF u = NULL THEN t1 ELSE ReplaceChild(t1, u, a, b)
           t3 == IF l = NULL THEN t2 ELSE Set(t2, l, "parent", b)
<1>1. TakePlace(t, a, b) = IF r = NULL THEN t3 ELSE Set(t3, r, "parent", b)
  BY Zenon DEF TakePlace
<1>2. l \in Spots(A) /\ r \in Spots(A) /\ u \in Spots(A) /\ cl \in {BLACK, RED}
  BY FitsGet
<1> HIDE DEF l, r, u, cl
<1>3. Fits(q1, A, N, nx)
  BY <1>2, FitsSet
<1> HIDE DEF q1
<1>4. Fits(q2, A, N, nx)
  BY <1>2, <1>3, FitsSet
<1> HIDE DEF q2
<1>5. Fits(q3, A, N, nx)
  BY <1>2, <1>4, FitsSet
<1> HIDE DEF q3
<1>6. Fits(t1, A, N, nx)
  BY <1>2, <1>5, FitsSet
<1> HIDE DEF t1
<1>7. Fits(t2, A, N, nx)
  BY <1>6, FitsReplace
<1> HIDE DEF t2
<1>8. Fits(t3, A, N, nx)
  BY <1>7, FitsSet
<1> HIDE DEF t3
<1> QED BY <1>1, <1>8, FitsSet

\* ... a swap, ...
LEMMA FitsSwapNodes ==
  ASSUME NEW A, NEW N, NEW nx, Fits(Tree, A, N, nx), NEW node \in Spots(A), NEW subst \in Spots(A)
  PROVE  Fits(SwapNodes(node, subst), A, N, nx)
<1> DEFINE l == Field(subst, "left")
           r == Field(subst, "right")
           up == Field(node, "parent")
           t1 == ReplaceChild(Tree, up, node, subst)
           t2 == IF l = NULL THEN t1 ELSE Set(t1, l, "parent", node)
           t3 == IF r = NULL THEN t2 ELSE Set(t2, r, "parent", node)
           x == Get(t3, subst, "left")
           y == Get(t3, subst, "right")
           q1 == Set(t3, node, "parent", subst)
           q2 == Set(q1, node, "left", x)
           t4 == Set(q2, node, "right", y)
           t5 == Set(t4, subst, "parent", up)
           side == IF Field(node, "left") = subst THEN "left" ELSE "right"
           o == Other(side)
           kept == Field(node, o)
           t6 == Set(t5, subst, side, node)
           t7 == Set(t6, subst, o, kept)
<1>1. SwapNodes(node, subst) = Set(t7, kept, "parent", subst)
  BY Zenon DEF SwapNodes
<1>2. /\ l \in Spots(A) /\ r \in Spots(A) /\ up \in Spots(A) /\ kept \in Spots(A)
      /\ side \in {"parent", "left", "right"} /\ o \in {"parent", "left", "right"}
  <2>1. side \in Sides
    BY DEF Sides
  <2> QED BY <2>1, FitsGet, FitsSide DEF Field
<1> HIDE DEF l, r, up, side, o, kept
<1>3. Fits(t1, A, N, nx)
  BY FitsReplace
<1> HIDE DEF t1
<1>4. Fits(t2, A, N, nx)
  BY <1>3, FitsSet
<1> HIDE DEF t2
<1>5. Fits(t3, A, N, nx)
  BY <1>4, FitsSet
<1> HIDE DEF t3
<1>6. x \in Spots(A) /\ y \in Spots(A)
  BY <1>5, FitsGet
<1> HIDE DEF x, y
<1>7. Fits(q1, A, N, nx)
  BY <1>5, FitsSet
<1> HIDE DEF q1
<1>8. Fits(q2, A, N, nx)
  BY <1>6, <1>7, FitsSet
<1> HIDE DEF q2
<1>9. Fits(t4, A, N, nx)
  BY <1>6, <1>8, FitsSet
<1> HIDE DEF t4
<1>10. Fits(t5, A, N, nx)
  BY <1>2, <1>9, FitsSet
<1> HIDE DEF t5
<1>11. Fits(t6, A, N, nx)
  BY <1>2, <1>10, FitsSet
<1> HIDE DEF t6
<1>12. Fits(t7, A, N, nx)
  BY <1>2, <1>11, FitsSet
<1> HIDE DEF t7
<1> QED BY <1>1, <1>12, FitsSet

\* ... and the rotations of a repair.
LEMMA FitsTurnTo ==
  ASSUME NEW A, NEW N, NEW nx, Fits(Tree, A, N, nx), NEW s \in Spots(A), NEW side \in Sides
  PROVE  Fits(TurnTo(s, side), A, N, nx)
<1> DEFINE p == Field(op.cur, "parent")
           n == Field(s, side)
           ps == Field(p, "color")
           ss == Field(s, "color")
           o == Other(side)
           a1 == Set(Tree, n, "color", ss)
           a2 == Set(a1, s, "color", ps)
           outer == Rotate(a2, p, o)
           b1 == Set(Tree, n, "color", ps)
           b2 == Rotate(b1, s, o)
           inner == Rotate(b2, p, side)
           t == IF side = Side(s) THEN outer ELSE inner
<1>1. TurnTo(s, side) = Set(t, p, "color", BLACK)
  BY Zenon DEF TurnTo
<1>2. p \in Spots(A) /\ n \in Spots(A) /\ ps \in {BLACK, RED} /\ ss \in {BLACK, RED} /\ o \in Sides
  BY FitsGet, FitsSide DEF Field, Other, Sides
<1> HIDE DEF p, n, ps, ss, o
<1>3. Fits(a1, A, N, nx) /\ Fits(b1, A, N, nx)
  BY <1>2, FitsSet
<1> HIDE DEF a1, b1
<1>4. Fits(a2, A, N, nx) /\ Fits(b2, A, N, nx)
  BY <1>2, <1>3, FitsSet, FitsRotate
<1> HIDE DEF a2, b2
<1>5. Fits(outer, A, N, nx) /\ Fits(inner, A, N, nx)
  BY <1>2, <1>4, FitsRotate
<1> HIDE DEF outer, inner
<1> QED BY <1>1, <1>5, FitsSet

\* The lists, as one function.
Nexts(t) == [a \in DOMAIN t.link |-> Get(t, a, "next")]

\* The operation works on nodes of A.
OpFits(o, A) == OpRecord(o) /\ o.node \in Spots(A) /\ o.cur \in Spots(A) /\ o.parent \in Spots(A)

\* A is where nodes may be, and out are those that were leaked, each of which was the
\* head of a longer list.
Sane(t, k, A, out, o) ==
  /\ Fits(t, A, DOMAIN t.link, Nexts(t)) /\ OpFits(o, A)
  /\ DOMAIN k \subseteq A /\ DOMAIN t.link \subseteq DOMAIN k /\ out \subseteq DOMAIN k
  /\ o.pc \notin {"descend", "undefined"} => DOMAIN t.link = DOMAIN k
  /\ o.pc = "descend" => o.node \in DOMAIN k \ out /\ DOMAIN k = DOMAIN t.link \cup {o.node}
  /\ \A a \in out \cap DOMAIN t.link : Get(t, a, "next") # NULL
  /\ o.pc \in {"smallest", "fixdb", "unlink", "deleted"} => Get(t, o.node, "next") = NULL
  /\ o.pc = "unlinked" => o.node \in DOMAIN t.link /\ Get(t, o.node, "next") # NULL

\* The operation moves on.
PcSet(o, p) == [o EXCEPT !.pc = p]
\* The same for the other fields the steps overwrite.
CurSet(o, c) == [o EXCEPT !.cur = c]
DownSet(o, c, u) == [o EXCEPT !.parent = u, !.cur = c]
PcCurSet(o, p, c) == [o EXCEPT !.pc = p, !.cur = c]
OpSet(o, p, c, u) == [o EXCEPT !.pc = p, !.cur = c, !.parent = u]

\* The operation still works on nodes of A after each of them.
LEMMA PcSetFits ==
  ASSUME NEW A, NEW o, OpFits(o, A), NEW p
  PROVE  OpFits(PcSet(o, p), A) /\ PcSet(o, p).pc = p /\ PcSet(o, p).node = o.node
<1>1. o = [pc |-> o.pc, node |-> o.node, cur |-> o.cur, parent |-> o.parent]
      /\ o.node \in Spots(A) /\ o.cur \in Spots(A) /\ o.parent \in Spots(A)
  BY DEF OpFits, OpRecord
<1>2. o = [x \in {"pc", "node", "cur", "parent"} |-> o[x]]
  BY <1>1
<1> DEFINE q == [o EXCEPT !.pc = p]
<1>3. /\ q = [x \in {"pc", "node", "cur", "parent"} |-> q[x]]
      /\ q.pc = p /\ q.node = o.node /\ q.cur = o.cur /\ q.parent = o.parent
  BY <1>2
<1>4. PcSet(o, p) = q
  BY DEF PcSet
<1> HIDE DEF q
<1>5. OpFits(q, A)
  BY <1>1, <1>3 DEF OpFits, OpRecord
<1> QED BY <1>3, <1>4, <1>5

\* The same for the node it is at, ...
LEMMA CurSetFits ==
  ASSUME NEW A, NEW o, OpFits(o, A), NEW c \in Spots(A)
  PROVE  OpFits(CurSet(o, c), A) /\ CurSet(o, c).pc = o.pc /\ CurSet(o, c).node = o.node
<1>1. o = [pc |-> o.pc, node |-> o.node, cur |-> o.cur, parent |-> o.parent]
      /\ o.node \in Spots(A) /\ o.cur \in Spots(A) /\ o.parent \in Spots(A)
  BY DEF OpFits, OpRecord
<1>2. o = [x \in {"pc", "node", "cur", "parent"} |-> o[x]]
  BY <1>1
<1> DEFINE q == [o EXCEPT !.cur = c]
<1>3. /\ q = [x \in {"pc", "node", "cur", "parent"} |-> q[x]]
      /\ q.pc = o.pc /\ q.node = o.node /\ q.cur = c /\ q.parent = o.parent
  BY <1>2
<1>4. CurSet(o, c) = q
  BY DEF CurSet
<1> HIDE DEF q
<1>5. OpFits(q, A)
  BY <1>1, <1>3 DEF OpFits, OpRecord
<1> QED BY <1>3, <1>4, <1>5

\* ... that and its parent, ...
LEMMA DownSetFits ==
  ASSUME NEW A, NEW o, OpFits(o, A), NEW c \in Spots(A), NEW u \in Spots(A)
  PROVE  OpFits(DownSet(o, c, u), A) /\ DownSet(o, c, u).pc = o.pc /\ DownSet(o, c, u).node = o.node
<1>1. o = [pc |-> o.pc, node |-> o.node, cur |-> o.cur, parent |-> o.parent]
      /\ o.node \in Spots(A) /\ o.cur \in Spots(A) /\ o.parent \in Spots(A)
  BY DEF OpFits, OpRecord
<1>2. o = [x \in {"pc", "node", "cur", "parent"} |-> o[x]]
  BY <1>1
<1> DEFINE q == [o EXCEPT !.parent = u, !.cur = c]
<1>3. /\ q = [x \in {"pc", "node", "cur", "parent"} |-> q[x]]
      /\ q.pc = o.pc /\ q.node = o.node /\ q.cur = c /\ q.parent = u
  BY <1>2
<1>4. DownSet(o, c, u) = q
  BY DEF DownSet
<1> HIDE DEF q
<1>5. OpFits(q, A)
  BY <1>1, <1>3 DEF OpFits, OpRecord
<1> QED BY <1>3, <1>4, <1>5

\* ... where it goes on and at which node, ...
LEMMA PcCurSetFits ==
  ASSUME NEW A, NEW o, OpFits(o, A), NEW p, NEW c \in Spots(A)
  PROVE  OpFits(PcCurSet(o, p, c), A) /\ PcCurSet(o, p, c).pc = p /\ PcCurSet(o, p, c).node = o.node
<1>1. o = [pc |-> o.pc, node |-> o.node, cur |-> o.cur, parent |-> o.parent]
      /\ o.node \in Spots(A) /\ o.cur \in Spots(A) /\ o.parent \in Spots(A)
  BY DEF OpFits, OpRecord
<1>2. o = [x \in {"pc", "node", "cur", "parent"} |-> o[x]]
  BY <1>1
<1> DEFINE q == [o EXCEPT !.pc = p, !.cur = c]
<1>3. /\ q = [x \in {"pc", "node", "cur", "parent"} |-> q[x]]
      /\ q.pc = p /\ q.node = o.node /\ q.cur = c /\ q.parent = o.parent
  BY <1>2
<1>4. PcCurSet(o, p, c) = q
  BY DEF PcCurSet
<1> HIDE DEF q
<1>5. OpFits(q, A)
  BY <1>1, <1>3 DEF OpFits, OpRecord
<1> QED BY <1>3, <1>4, <1>5

\* ... and all three.
LEMMA OpSetFits ==
  ASSUME NEW A, NEW o, OpFits(o, A), NEW p, NEW c \in Spots(A), NEW u \in Spots(A)
  PROVE  OpFits(OpSet(o, p, c, u), A) /\ OpSet(o, p, c, u).pc = p /\ OpSet(o, p, c, u).node = o.node
<1>1. o = [pc |-> o.pc, node |-> o.node, cur |-> o.cur, parent |-> o.parent]
      /\ o.node \in Spots(A) /\ o.cur \in Spots(A) /\ o.parent \in Spots(A)
  BY DEF OpFits, OpRecord
<1>2. o = [x \in {"pc", "node", "cur", "parent"} |-> o[x]]
  BY <1>1
<1> DEFINE q == [o EXCEPT !.pc = p, !.cur = c, !.parent = u]
<1>3. /\ q = [x \in {"pc", "node", "cur", "parent"} |-> q[x]]
      /\ q.pc = p /\ q.node = o.node /\ q.cur = c /\ q.parent = u
  BY <1>2
<1>4. OpSet(o, p, c, u) = q
  BY DEF OpSet
<1> HIDE DEF q
<1>5. OpFits(q, A)
  BY <1>1, <1>3 DEF OpFits, OpRecord
<1> QED BY <1>3, <1>4, <1>5

\* The repair of a missing black works on nodes of A.
LEMMA DoubleFits ==
  ASSUME NEW A, OpFits(op, A), NEW c \in Spots(A), NEW u \in Spots(A)
  PROVE  OpFits(FixDoubleBlack(c, u), A) /\ FixDoubleBlack(c, u).pc = "fixdb" /\ FixDoubleBlack(c, u).node = op.node
<1> DEFINE r == OpSet(op, "fixdb", c, u)
<1>1. OpFits(r, A) /\ r.pc = "fixdb" /\ r.node = op.node
  BY OpSetFits
<1>2. FixDoubleBlack(c, u) = r
  BY DEF FixDoubleBlack, OpSet
<1> HIDE DEF r
<1> QED BY <1>1, <1>2

\* So does an operation made of such nodes.
LEMMA OpMade ==
  ASSUME NEW A, NEW p, NEW n \in Spots(A), NEW c \in Spots(A), NEW u \in Spots(A)
  PROVE  OpFits([pc |-> p, node |-> n, cur |-> c, parent |-> u], A)
BY DEF OpFits, OpRecord

\* Nothing under way, or a fault: no nodes.
LEMMA StoppedFits ==
  ASSUME NEW A
  PROVE  /\ OpFits(Idle, A) /\ Idle.pc = "idle" /\ OpFits(Failed, A) /\ Failed.pc = "undefined"
         /\ NULL \in Spots(A)
BY DEF OpFits, OpRecord, Idle, Failed, Spots

\* Tree is link and root.
LEMMA TreeParts == Tree.link = link /\ Tree.root = root /\ DOMAIN Tree.link = DOMAIN link
BY DEF Tree

\* Fits holds with the links there are.
LEMMA NextsAre ==
  ASSUME NEW t, NEW A, NEW N, NEW nx, Fits(t, A, N, nx)
  PROVE  Fits(t, A, DOMAIN t.link, Nexts(t)) /\ DOMAIN t.link = N
<1>1. DOMAIN t.link = N
  BY DEF Fits
<1>2. \A a \in N : Nexts(t)[a] = nx[a]
  BY <1>1, FitsGet DEF Nexts
<1> QED BY <1>1, <1>2 DEF Fits

\* A step that writes links and attaches no node.
LEMMA SaneBecomes ==
  ASSUME NEW A, NEW out, Sane(Tree, key, A, out, op), op.pc \notin {"descend", "undefined"},
         NEW t, Fits(t, A, DOMAIN link, Nexts(Tree)), NEW o, OpFits(o, A), Becomes(t, o), o.pc # "descend",
         o.pc \in {"smallest", "fixdb", "unlink", "deleted"} => Field(o.node, "next") = NULL,
         o.pc = "unlinked" => Field(o.node, "next") # NULL
  PROVE  Sane(Tree', key', A, out, op')
<1>1. Tree'.link = link' /\ Tree'.root = root' /\ DOMAIN Tree'.link = DOMAIN link' /\ key' = key
  BY DEF Tree, Becomes
<1>2. /\ Fits(Tree, A, DOMAIN link, Nexts(Tree)) /\ DOMAIN link = DOMAIN key /\ DOMAIN key \subseteq A
      /\ out \subseteq DOMAIN key
      /\ \A a \in out \cap DOMAIN link : Get(Tree, a, "next") # NULL
  BY TreeParts DEF Sane
<1>3. Fits(Tree', A, DOMAIN link, Nexts(Tree))
  <2>1. CASE t.ok
    <3>1. Tree'.link = t.link /\ Tree'.root = t.root
      BY <2>1, <1>1 DEF Becomes
    <3> QED BY <3>1 DEF Fits
  <2>2. CASE ~t.ok
    <3>1. Tree'.link = Tree.link /\ Tree'.root = Tree.root
      BY <2>2, <1>1, TreeParts DEF Becomes
    <3> QED BY <3>1, <1>2 DEF Fits
  <2> QED BY <2>1, <2>2
<1>4. op' = o \/ op' = Failed
  BY DEF Becomes
<1>5. Fits(Tree', A, DOMAIN Tree'.link, Nexts(Tree')) /\ DOMAIN Tree'.link = DOMAIN link
  BY <1>3, NextsAre
<1>6. \A a : Get(Tree', a, "next") = Get(Tree, a, "next")
  BY <1>2, <1>3, FitsGet
<1>7. OpFits(op', A) /\ op'.pc # "descend"
  BY <1>4, StoppedFits
<1>8. op'.pc \in {"smallest", "fixdb", "unlink", "deleted"} => Get(Tree', op'.node, "next") = NULL
  BY <1>4, <1>6, StoppedFits DEF Field
<1>9. op'.pc = "unlinked" => op'.node \in DOMAIN Tree'.link /\ Get(Tree', op'.node, "next") # NULL
  <2>1. SUFFICES ASSUME op'.pc = "unlinked" PROVE op'.node \in DOMAIN Tree'.link /\ Get(Tree', op'.node, "next") # NULL
    OBVIOUS
  <2>2. op' = o /\ Field(o.node, "next") # NULL
    BY <1>4, <2>1, StoppedFits
  <2>3. o.node \in DOMAIN link
    BY <2>2, TreeParts DEF Field, Get
  <2> QED BY <2>2, <2>3, <1>5, <1>6 DEF Field
<1> QED BY <1>1, <1>2, <1>5, <1>6, <1>7, <1>8, <1>9 DEF Sane

\* What Sane says, read off.
LEMMA SaneParts ==
  ASSUME NEW A, NEW out, Sane(Tree, key, A, out, op)
  PROVE  /\ Fits(Tree, A, DOMAIN link, Nexts(Tree)) /\ OpFits(op, A)
         /\ op.node \in Spots(A) /\ op.cur \in Spots(A) /\ op.parent \in Spots(A) /\ root \in Spots(A)
         /\ \A a : /\ Field(a, "parent") \in Spots(A) /\ Field(a, "left") \in Spots(A)
                   /\ Field(a, "right") \in Spots(A) /\ Field(a, "next") \in Spots(A)
                   /\ Field(a, "color") \in {BLACK, RED}
<1>1. Fits(Tree, A, DOMAIN link, Nexts(Tree)) /\ OpFits(op, A)
  BY TreeParts DEF Sane
<1>2. op.node \in Spots(A) /\ op.cur \in Spots(A) /\ op.parent \in Spots(A) /\ root \in Spots(A)
  BY <1>1, TreeParts DEF OpFits, Fits
<1>3. \A a : /\ Get(Tree, a, "parent") \in Spots(A) /\ Get(Tree, a, "left") \in Spots(A)
             /\ Get(Tree, a, "right") \in Spots(A) /\ Get(Tree, a, "next") \in Spots(A)
             /\ Get(Tree, a, "color") \in {BLACK, RED}
  BY <1>1, FitsGet
<1> QED BY <1>1, <1>2, <1>3 DEF Field

\* The new node keeps Fits.
LEMMA WithNodeFits ==
  ASSUME NEW A, NEW out, Sane(Tree, key, A, out, op)
  PROVE  Fits(WithNode, A, DOMAIN link \cup {op.node},
              [a \in DOMAIN link \cup {op.node} |-> IF a = op.node THEN NULL ELSE Nexts(Tree)[a]])
<1> DEFINE N == DOMAIN link \cup {op.node}
           nx == [a \in N |-> IF a = op.node THEN NULL ELSE Nexts(Tree)[a]]
<1>1. WithNode.link = Add(link, op.node, Fresh) /\ WithNode.root = root
  BY DEF WithNode
<1>2. DOMAIN WithNode.link = N /\ \A x \in N : WithNode.link[x] = IF x = op.node THEN Fresh ELSE link[x]
  BY <1>1, Zenon DEF Add
<1>3. Fresh \in Links(A) /\ Fresh.next = NULL
  BY DEF Fresh, Links, Spots
<1>4. \A x \in DOMAIN link : link[x] \in Links(A) /\ link[x].next = Nexts(Tree)[x]
  BY SaneParts, TreeParts DEF Fits
<1>5. root \in Spots(A)
  BY SaneParts
<1>6. \A x \in N : nx[x] = IF x = op.node THEN NULL ELSE Nexts(Tree)[x]
  OBVIOUS
<1> HIDE DEF nx
<1>7. Fits(WithNode, A, N, nx)
  BY <1>1, <1>2, <1>3, <1>4, <1>5, <1>6 DEF Fits
<1> QED BY <1>7 DEF nx

\* A step that attaches op.node.
LEMMA SaneAttaches ==
  ASSUME NEW A, NEW out, Sane(Tree, key, A, out, op), op.pc = "descend",
         NEW t, NEW nx, Fits(t, A, DOMAIN link \cup {op.node}, nx),
         \A a \in DOMAIN link : a # op.node => nx[a] = Get(Tree, a, "next"),
         NEW o, OpFits(o, A), Becomes(t, o), o.pc \in {"idle", "fixup"}
  PROVE  Sane(Tree', key', A, out, op')
<1>1. Tree'.link = link' /\ Tree'.root = root' /\ DOMAIN Tree'.link = DOMAIN link' /\ key' = key
  BY DEF Tree, Becomes
<1>2. /\ Fits(Tree, A, DOMAIN link, Nexts(Tree)) /\ DOMAIN link \subseteq DOMAIN key /\ DOMAIN key \subseteq A
      /\ out \subseteq DOMAIN key /\ op.node \in DOMAIN key \ out /\ DOMAIN key = DOMAIN link \cup {op.node}
      /\ \A a \in out \cap DOMAIN link : Get(Tree, a, "next") # NULL
  BY TreeParts DEF Sane
<1>3. CASE t.ok
  <2>1. Tree'.link = t.link /\ Tree'.root = t.root /\ op' = o
    BY <1>3, <1>1 DEF Becomes
  <2>2. Fits(Tree', A, DOMAIN key, nx)
    BY <2>1, <1>2 DEF Fits
  <2>3. Fits(Tree', A, DOMAIN Tree'.link, Nexts(Tree')) /\ DOMAIN Tree'.link = DOMAIN key
    BY <2>2, NextsAre
  <2>4. \A a \in out : Get(Tree', a, "next") # NULL
    <3> TAKE a \in out
    <3>1. a \in DOMAIN link /\ a # op.node /\ a \in DOMAIN key
      BY <1>2
    <3>2. Get(Tree', a, "next") = nx[a]
      BY <3>1, <2>2, FitsGet
    <3> QED BY <3>1, <3>2, <1>2
  <2> QED BY <2>1, <2>3, <2>4, <1>1, <1>2 DEF Sane
<1>4. CASE ~t.ok
  <2>1. Tree'.link = Tree.link /\ Tree'.root = Tree.root /\ op' = Failed
    BY <1>4, <1>1, TreeParts DEF Becomes
  <2>2. Fits(Tree', A, DOMAIN link, Nexts(Tree))
    BY <2>1, <1>2 DEF Fits
  <2>3. Fits(Tree', A, DOMAIN Tree'.link, Nexts(Tree')) /\ DOMAIN Tree'.link = DOMAIN link
    BY <2>2, NextsAre
  <2>4. \A a \in out \cap DOMAIN Tree'.link : Get(Tree', a, "next") # NULL
    BY <1>2, <2>2, <2>3, FitsGet
  <2> QED BY <2>1, <2>3, <2>4, <1>1, <1>2, StoppedFits DEF Sane
<1> QED BY <1>3, <1>4

\* The steps keep Sane, each by the writes it makes: the descent, ...
LEMMA DescendSane ==
  ASSUME NEW A, NEW out, Sane(Tree, key, A, out, op), Descend
  PROVE  Sane(Tree', key', A, out, op')
<1> DEFINE c == Field(op.cur, IF key[op.node] > key[op.cur] THEN "right" ELSE "left")
<1>1. op' = DownSet(op, c, op.cur) /\ key' = key /\ link' = link /\ root' = root /\ op.pc = "descend"
  BY DEF Descend, At, DownSet
<1>2. c \in Spots(A) /\ op.cur \in Spots(A) /\ op.node \in Spots(A) /\ OpFits(op, A)
  BY SaneParts
<1> HIDE DEF c
<1>4. OpFits(op', A) /\ op'.pc = "descend" /\ op'.node = op.node
  <2> DEFINE r == DownSet(op, c, op.cur)
  <2>1. OpFits(r, A) /\ r.pc = op.pc /\ r.node = op.node
    <3> DEFINE u == op.cur
    <3>1. u \in Spots(A) /\ c \in Spots(A) /\ OpFits(op, A)
      BY <1>2
    <3> HIDE DEF u
    <3>2. OpFits(DownSet(op, c, u), A)
      BY <3>1, DownSetFits
    <3>3. DownSet(op, c, u).pc = op.pc
      BY <3>1, DownSetFits
    <3>4. DownSet(op, c, u).node = op.node
      BY <3>1, DownSetFits
    <3> QED BY <3>2, <3>3, <3>4 DEF u
  <2> HIDE DEF r
  <2>2. op' = r
    BY <1>1 DEF r
  <2> QED BY <1>1, <2>1, <2>2
<1>5. Tree' = Tree
  BY <1>1 DEF Tree
<1> QED BY <1>1, <1>4, <1>5 DEF Sane

\* ... an equal key, ...
LEMMA PushEqualSane ==
  ASSUME NEW A, NEW out, Sane(Tree, key, A, out, op), PushEqual
  PROVE  Sane(Tree', key', A, out, op')
<1> DEFINE n == op.node
           N == DOMAIN link \cup {n}
           nx == [a \in N |-> IF a = n THEN NULL ELSE Nexts(Tree)[a]]
           t == TakePlace(WithNode, op.cur, n)
           s == Set(t, n, "next", op.cur)
           ny == [x \in N |-> IF x = n THEN op.cur ELSE nx[x]]
<1>1. Becomes(s, Idle) /\ op.pc = "descend"
  BY DEF PushEqual, At
<1>2. n \in Spots(A) /\ op.cur \in Spots(A)
  BY SaneParts
<1>3. Fits(WithNode, A, N, nx)
  BY WithNodeFits
<1>4. \A a \in DOMAIN link : a # n => ny[a] = Get(Tree, a, "next")
  BY TreeParts DEF Nexts
<1>5. n = op.node /\ N = DOMAIN link \cup {op.node} /\ ny = [x \in N |-> IF x = n THEN op.cur ELSE nx[x]]
  OBVIOUS
<1> HIDE DEF n, N, nx, ny
<1>6. Fits(t, A, N, nx)
  BY <1>2, <1>3, FitsTakePlace
<1> HIDE DEF t
<1>7. Fits(s, A, N, ny)
  BY <1>2, <1>5, <1>6, FitsNext
<1> HIDE DEF s
<1> QED BY <1>1, <1>4, <1>5, <1>7, SaneAttaches, StoppedFits

\* ... the first node, ...
LEMMA AttachRootSane ==
  ASSUME NEW A, NEW out, Sane(Tree, key, A, out, op), AttachRoot
  PROVE  Sane(Tree', key', A, out, op')
<1> DEFINE n == op.node
           N == DOMAIN link \cup {n}
           nx == [a \in N |-> IF a = n THEN NULL ELSE Nexts(Tree)[a]]
           s == SetRoot(WithNode, n)
<1>1. Becomes(s, Idle) /\ op.pc = "descend"
  BY DEF AttachRoot, At
<1>2. n \in Spots(A)
  BY SaneParts
<1>3. Fits(WithNode, A, N, nx)
  BY WithNodeFits
<1>4. \A a \in DOMAIN link : a # n => nx[a] = Get(Tree, a, "next")
  BY TreeParts DEF Nexts
<1>5. n = op.node /\ N = DOMAIN link \cup {op.node}
  OBVIOUS
<1> HIDE DEF n, N, nx
<1>6. Fits(s, A, N, nx)
  BY <1>2, <1>3, FitsRoot
<1> HIDE DEF s
<1> QED BY <1>1, <1>4, <1>5, <1>6, SaneAttaches, StoppedFits

\* ... a new leaf, ...
LEMMA AttachSane ==
  ASSUME NEW A, NEW out, Sane(Tree, key, A, out, op), Attach
  PROVE  Sane(Tree', key', A, out, op')
<1> DEFINE n == op.node
           N == DOMAIN link \cup {n}
           nx == [a \in N |-> IF a = n THEN NULL ELSE Nexts(Tree)[a]]
           f == IF key[op.node] > key[op.parent] THEN "right" ELSE "left"
           t1 == Set(WithNode, n, "parent", op.parent)
           t2 == Set(t1, n, "color", RED)
           s == Set(t2, op.parent, f, n)
           o == IF Field(op.parent, "parent") = NULL THEN Idle ELSE PcCurSet(op, "fixup", n)
<1>1. Becomes(s, o) /\ op.pc = "descend"
  BY Zenon DEF Attach, At, PcCurSet
<1>2. n \in Spots(A) /\ op.parent \in Spots(A) /\ OpFits(op, A) /\ f \in {"parent", "left", "right"}
  BY SaneParts
<1>3. Fits(WithNode, A, N, nx)
  BY WithNodeFits
<1>4. \A a \in DOMAIN link : a # n => nx[a] = Get(Tree, a, "next")
  BY TreeParts DEF Nexts
<1>5. n = op.node /\ N = DOMAIN link \cup {op.node}
  OBVIOUS
<1>6. OpFits(o, A) /\ o.pc \in {"idle", "fixup"}
  <2> HIDE DEF n
  <2> QED BY <1>2, PcCurSetFits, StoppedFits
<1> HIDE DEF n, N, nx, f, o
<1>7. Fits(t1, A, N, nx)
  BY <1>2, <1>3, FitsSet
<1> HIDE DEF t1
<1>8. Fits(t2, A, N, nx)
  BY <1>7, FitsSet
<1> HIDE DEF t2
<1>9. Fits(s, A, N, nx)
  BY <1>2, <1>8, FitsSet
<1> HIDE DEF s
<1> QED BY <1>1, <1>4, <1>5, <1>6, <1>9, SaneAttaches

\* A step that moves only the operation leaves the tree as Becomes says.
LEMMA StaysBecomes ==
  ASSUME NEW o, op' = o, UNCHANGED <<key, link, root>>
  PROVE  Becomes(Tree, o)
BY DEF Becomes, Tree

\* A step that only moves on.
LEMMA SaneMoves ==
  ASSUME NEW A, NEW out, Sane(Tree, key, A, out, op), op.pc \notin {"descend", "undefined"},
         NEW o, op' = o, UNCHANGED <<key, link, root>>, OpFits(o, A), o.pc # "descend",
         o.pc \in {"smallest", "fixdb", "unlink", "deleted"} => Field(o.node, "next") = NULL,
         o.pc = "unlinked" => Field(o.node, "next") # NULL
  PROVE  Sane(Tree', key', A, out, op')
BY SaneParts, StaysBecomes, SaneBecomes

\* A round of the repair after an insertion keeps Sane, ...
LEMMA FixupSane ==
  ASSUME NEW A, NEW out, Sane(Tree, key, A, out, op), Fixup
  PROVE  Sane(Tree', key', A, out, op')
<1> DEFINE p == Field(op.cur, "parent")
           g == Field(p, "parent")
           side == IF p = Field(g, "left") THEN "left" ELSE "right"
           os == Other(side)
           uncle == Field(g, os)
           inner == op.cur = Field(p, os)
           t1 == IF inner THEN Rotate(Tree, p, side) ELSE Tree
           q == IF inner THEN Get(t1, p, "parent") ELSE p
           t2 == Rotate(t1, g, os)
           cg == Get(t2, g, "color")
           cq == Get(t2, q, "color")
           u1 == Set(Tree, g, "color", RED)
           u2 == Set(u1, p, "color", BLACK)
           u3 == Set(u2, uncle, "color", BLACK)
           v1 == Set(t2, q, "color", cg)
           v2 == Set(v1, g, "color", cq)
           N == DOMAIN link
           nx == Nexts(Tree)
           o1 == CurSet(op, g)
           o2 == CurSet(op, q)
<1>1. op.pc = "fixup" /\ (Becomes(u3, o1) \/ Becomes(v2, o2))
  BY Zenon DEF Fixup, At, CurSet
<1>2. Fits(Tree, A, N, nx) /\ OpFits(op, A) /\ p \in Spots(A) /\ g \in Spots(A) /\ side \in Sides /\ os \in Sides
  BY SaneParts DEF Sides, Other
<1>3. RED \in {BLACK, RED} /\ BLACK \in {BLACK, RED}
  OBVIOUS
<1> HIDE DEF p, g, side, os, uncle, inner, N, nx
<1>4. Fits(t1, A, N, nx)
  BY <1>2, FitsRotate
<1> HIDE DEF t1
<1>5. q \in Spots(A)
  BY <1>2, <1>4, FitsGet
<1>6. Fits(t2, A, N, nx)
  BY <1>2, <1>4, FitsRotate
<1> HIDE DEF q, t2
<1>7. cg \in {BLACK, RED} /\ cq \in {BLACK, RED}
  BY <1>6, FitsGet
<1> HIDE DEF cg, cq
<1>8. Fits(u1, A, N, nx) /\ Fits(v1, A, N, nx)
  BY <1>2, <1>3, <1>6, <1>7, FitsSet
<1> HIDE DEF u1, v1
<1>9. Fits(u2, A, N, nx) /\ Fits(v2, A, N, nx)
  BY <1>3, <1>7, <1>8, FitsSet
<1> HIDE DEF u2, v2
<1>10. Fits(u3, A, N, nx)
  BY <1>3, <1>9, FitsSet
<1> HIDE DEF u3
<1>11. OpFits(o1, A) /\ o1.pc = "fixup" /\ OpFits(o2, A) /\ o2.pc = "fixup"
  BY <1>1, <1>2, <1>5, CurSetFits
<1> HIDE DEF o1, o2
<1>12. CASE Becomes(u3, o1)
  BY <1>12, <1>1, <1>10, <1>11, SaneBecomes DEF N, nx
<1>13. CASE Becomes(v2, o2)
  BY <1>13, <1>1, <1>9, <1>11, SaneBecomes DEF N, nx
<1> QED BY <1>1, <1>12, <1>13

\* ... and its end.
LEMMA FixupEndsSane ==
  ASSUME NEW A, NEW out, Sane(Tree, key, A, out, op), FixupEnds
  PROVE  Sane(Tree', key', A, out, op')
<1> DEFINE t == Set(Tree, root, "color", BLACK)
<1>1. op.pc = "fixup" /\ Becomes(t, Idle)
  BY DEF FixupEnds, At
<1>2. Fits(t, A, DOMAIN link, Nexts(Tree))
  BY SaneParts, FitsSet
<1> HIDE DEF t
<1> QED BY <1>1, <1>2, SaneBecomes, StoppedFits

\* The steps of a deletion keep it: the head of a list, ...
LEMMA UnlinkHeadSane ==
  ASSUME NEW A, NEW out, Sane(Tree, key, A, out, op), UnlinkHead
  PROVE  Sane(Tree', key', A, out, op')
<1> DEFINE b == Field(op.node, "next")
           t == TakePlace(Tree, op.node, b)
           o == PcSet(op, "unlinked")
<1>1. op.pc = "delete" /\ Becomes(t, o) /\ Field(op.node, "next") # NULL
  BY DEF UnlinkHead, At, PcSet
<1>2. OpFits(op, A) /\ Fits(Tree, A, DOMAIN link, Nexts(Tree)) /\ b \in Spots(A) /\ NULL \in Spots(A)
  BY SaneParts, StoppedFits
<1> HIDE DEF b
<1>3. Fits(t, A, DOMAIN link, Nexts(Tree))
  BY <1>2, FitsTakePlace
<1>4. OpFits(o, A) /\ o.pc = "unlinked" /\ o.node = op.node
  BY <1>2, PcSetFits
<1> HIDE DEF t, o
<1> QED BY <1>1, <1>3, <1>4, SaneBecomes

\* ... a leaf, ...
LEMMA DeleteLeafSane ==
  ASSUME NEW A, NEW out, Sane(Tree, key, A, out, op), DeleteLeaf
  PROVE  Sane(Tree', key', A, out, op')
<1> DEFINE node == op.node
           parent == Field(node, "parent")
           sibling == Sibling(node)
           t == IF sibling = NULL THEN Tree ELSE Set(Tree, sibling, "color", RED)
           s1 == SetRoot(Tree, NULL)
           s3 == ReplaceChild(t, parent, node, NULL)
           o2 == FixDoubleBlack(node, parent)
           N == DOMAIN link
           nx == Nexts(Tree)
<1>1. /\ op.pc = "delete" /\ Field(node, "next") = NULL
      /\ Becomes(s1, Deleted) \/ Becomes(Tree, o2) \/ Becomes(s3, Deleted)
  BY Zenon DEF DeleteLeaf, Alone, At
<1>2. Fits(Tree, A, N, nx) /\ OpFits(op, A) /\ parent \in Spots(A) /\ node \in Spots(A) /\ NULL \in Spots(A)
  BY SaneParts, StoppedFits
<1>3. OpFits(o2, A) /\ o2.pc = "fixdb" /\ o2.node = node
  BY <1>2, DoubleFits
<1>4. OpFits(Deleted, A) /\ Deleted.pc = "deleted" /\ Deleted.node = node
  BY <1>2, PcSetFits DEF Deleted, PcSet
<1> HIDE DEF node, parent, sibling, o2, N, nx
<1>5. Fits(t, A, N, nx)
  BY <1>2, FitsSet
<1> HIDE DEF t
<1>6. Fits(s1, A, N, nx) /\ Fits(s3, A, N, nx)
  BY <1>2, <1>5, FitsRoot, FitsReplace
<1> HIDE DEF s1, s3
<1>7. CASE Becomes(s1, Deleted)
  BY <1>7, <1>1, <1>4, <1>6, SaneBecomes DEF N, nx
<1>8. CASE Becomes(Tree, o2)
  BY <1>8, <1>1, <1>2, <1>3, SaneBecomes DEF N, nx
<1>9. CASE Becomes(s3, Deleted)
  BY <1>9, <1>1, <1>4, <1>6, SaneBecomes DEF N, nx
<1> QED BY <1>1, <1>7, <1>8, <1>9

\* ... a node with one child, ...
LEMMA DeleteWithChildSane ==
  ASSUME NEW A, NEW out, Sane(Tree, key, A, out, op), DeleteWithChild
  PROVE  Sane(Tree', key', A, out, op')
<1> DEFINE node == op.node
           parent == Field(node, "parent")
           subst == OnlyChild(node)
           t0 == ReplaceChild(Tree, parent, node, subst)
           t == Set(t0, subst, "parent", parent)
           s1 == SetRoot(Tree, subst)
           s3 == Set(t, subst, "color", BLACK)
           o2 == FixDoubleBlack(subst, NULL)
           N == DOMAIN link
           nx == Nexts(Tree)
<1>1. /\ op.pc = "delete" /\ Field(node, "next") = NULL
      /\ Becomes(s1, Deleted) \/ Becomes(t, o2) \/ Becomes(s3, Deleted)
  BY Zenon DEF DeleteWithChild, Alone, At
<1>2. Fits(Tree, A, N, nx) /\ OpFits(op, A) /\ parent \in Spots(A) /\ node \in Spots(A) /\ NULL \in Spots(A)
      /\ Field(node, "left") \in Spots(A) /\ Field(node, "right") \in Spots(A)
  BY SaneParts, StoppedFits
<1>3. subst \in Spots(A)
  BY <1>2 DEF OnlyChild
<1> HIDE DEF subst
<1>4. OpFits(o2, A) /\ o2.pc = "fixdb" /\ o2.node = node
  BY <1>2, <1>3, DoubleFits
<1>5. OpFits(Deleted, A) /\ Deleted.pc = "deleted" /\ Deleted.node = node
  BY <1>2, PcSetFits DEF Deleted, PcSet
<1> HIDE DEF node, parent, o2, N, nx
<1>6. Fits(t0, A, N, nx)
  BY <1>2, <1>3, FitsReplace
<1> HIDE DEF t0
<1>7. Fits(t, A, N, nx) /\ Fits(s1, A, N, nx)
  BY <1>2, <1>3, <1>6, FitsSet, FitsRoot
<1> HIDE DEF t, s1
<1>8. Fits(s3, A, N, nx)
  BY <1>7, FitsSet
<1> HIDE DEF s3
<1>9. CASE Becomes(s1, Deleted)
  BY <1>9, <1>1, <1>5, <1>7, SaneBecomes DEF N, nx
<1>10. CASE Becomes(t, o2)
  BY <1>10, <1>1, <1>4, <1>7, SaneBecomes DEF N, nx
<1>11. CASE Becomes(s3, Deleted)
  BY <1>11, <1>1, <1>5, <1>8, SaneBecomes DEF N, nx
<1> QED BY <1>1, <1>9, <1>10, <1>11

\* ... one with two, ...
LEMMA DeleteInnerSane ==
  ASSUME NEW A, NEW out, Sane(Tree, key, A, out, op), DeleteInner
  PROVE  Sane(Tree', key', A, out, op')
<1> DEFINE r == Field(op.node, "right")
           o == PcCurSet(op, "smallest", r)
<1>1. op.pc = "delete" /\ Field(op.node, "next") = NULL /\ op' = o /\ UNCHANGED <<key, link, root>>
  BY DEF DeleteInner, Alone, At, PcCurSet
<1>2. r \in Spots(A) /\ OpFits(op, A)
  BY SaneParts
<1> HIDE DEF r
<1>3. OpFits(o, A) /\ o.pc = "smallest" /\ o.node = op.node
  BY <1>2, PcCurSetFits
<1> HIDE DEF o
<1> QED BY <1>1, <1>3, SaneMoves

\* ... the way to the smallest node on its right, ...
LEMMA SmallestSane ==
  ASSUME NEW A, NEW out, Sane(Tree, key, A, out, op), Smallest
  PROVE  Sane(Tree', key', A, out, op')
<1> DEFINE r == Field(op.cur, "left")
           o == CurSet(op, r)
<1>1. op.pc = "smallest" /\ op' = o /\ UNCHANGED <<key, link, root>>
  BY DEF Smallest, At, CurSet
<1>2. r \in Spots(A) /\ OpFits(op, A) /\ Field(op.node, "next") = NULL
  BY <1>1, SaneParts DEF Sane, Field
<1> HIDE DEF r
<1>3. OpFits(o, A) /\ o.pc = "smallest" /\ o.node = op.node
  BY <1>1, <1>2, CurSetFits
<1> HIDE DEF o
<1> QED BY <1>1, <1>2, <1>3, SaneMoves

\* ... the swap.
LEMMA SwapSane ==
  ASSUME NEW A, NEW out, Sane(Tree, key, A, out, op), Swap
  PROVE  Sane(Tree', key', A, out, op')
<1> DEFINE t == SwapNodes(op.node, op.cur)
           o == PcSet(op, "delete")
<1>1. op.pc = "smallest" /\ Becomes(t, o)
  BY DEF Swap, At, PcSet
<1>2. OpFits(op, A) /\ Fits(t, A, DOMAIN link, Nexts(Tree)) /\ NULL \in Spots(A)
  BY SaneParts, FitsSwapNodes, StoppedFits
<1>3. OpFits(o, A) /\ o.pc = "delete" /\ o.node = op.node
  BY <1>2, PcSetFits
<1> HIDE DEF t, o
<1> QED BY <1>1, <1>2, <1>3, SaneBecomes

\* And the repair of a missing black: with no sibling, ...
LEMMA NoSiblingSane ==
  ASSUME NEW A, NEW out, Sane(Tree, key, A, out, op), NoSibling
  PROVE  Sane(Tree', key', A, out, op')
<1> DEFINE r == Field(op.cur, "parent")
           o == CurSet(op, r)
<1>1. op.pc = "fixdb" /\ op' = o /\ UNCHANGED <<key, link, root>>
  BY DEF NoSibling, AtDoubleBlack, At, CurSet
<1>2. r \in Spots(A) /\ OpFits(op, A) /\ Field(op.node, "next") = NULL
  BY <1>1, SaneParts DEF Sane, Field
<1> HIDE DEF r
<1>3. OpFits(o, A) /\ o.pc = "fixdb" /\ o.node = op.node
  BY <1>1, <1>2, CurSetFits
<1> HIDE DEF o
<1> QED BY <1>1, <1>2, <1>3, SaneMoves

\* ... at the root, ...
LEMMA FixedAtRootSane ==
  ASSUME NEW A, NEW out, Sane(Tree, key, A, out, op), FixedAtRoot
  PROVE  Sane(Tree', key', A, out, op')
<1>1. op.pc = "fixdb" /\ op' = Unlink /\ UNCHANGED <<key, link, root>>
  BY DEF FixedAtRoot, At
<1>2. OpFits(op, A) /\ Field(op.node, "next") = NULL
  BY <1>1, SaneParts DEF Sane, Field
<1>3. OpFits(Unlink, A) /\ Unlink.pc = "unlink" /\ Unlink.node = op.node
  BY <1>2, PcSetFits DEF Unlink, PcSet
<1> QED BY <1>1, <1>2, <1>3, SaneMoves

\* (A sibling is a node of A, or none.)
LEMMA SiblingFits ==
  ASSUME NEW A, NEW out, Sane(Tree, key, A, out, op), NEW a
  PROVE  Sibling(a) \in Spots(A)
<1>1. NULL \in Spots(A) /\ \A x : Field(x, "left") \in Spots(A) /\ Field(x, "right") \in Spots(A)
  BY SaneParts, StoppedFits
<1> QED BY <1>1, Zenon DEF Sibling

\* ... with a red sibling, ...
LEMMA RedSiblingSane ==
  ASSUME NEW A, NEW out, Sane(Tree, key, A, out, op), RedSibling
  PROVE  Sane(Tree', key', A, out, op')
<1> DEFINE p == Field(op.cur, "parent")
           s == Sibling(op.cur)
           f == Other(Side(s))
           u1 == Set(Tree, p, "color", RED)
           u2 == Set(u1, s, "color", BLACK)
           t == Rotate(u2, p, f)
           N == DOMAIN link
           nx == Nexts(Tree)
<1>1. op.pc = "fixdb" /\ Becomes(t, op)
  BY Zenon DEF RedSibling, AtDoubleBlack, At
<1>2. p \in Spots(A) /\ OpFits(op, A) /\ Field(op.node, "next") = NULL /\ f \in Sides /\ Fits(Tree, A, N, nx)
  BY <1>1, SaneParts DEF Sane, Field, Other, Side, Sides
<1> HIDE DEF p, s, f, N, nx
<1>3. Fits(u1, A, N, nx)
  BY <1>2, FitsSet
<1> HIDE DEF u1
<1>4. Fits(u2, A, N, nx)
  BY <1>3, FitsSet
<1> HIDE DEF u2
<1>5. Fits(t, A, N, nx)
  BY <1>2, <1>4, FitsRotate
<1> HIDE DEF t
<1> QED BY <1>1, <1>2, <1>5, SaneBecomes DEF N, nx

\* ... with a red nephew, ...
LEMMA BlackSiblingRedNephewSane ==
  ASSUME NEW A, NEW out, Sane(Tree, key, A, out, op), BlackSiblingRedNephew
  PROVE  Sane(Tree', key', A, out, op')
<1> DEFINE s == Sibling(op.cur)
           t == TurnTo(s, Nephew(s))
<1>1. op.pc = "fixdb" /\ IF Nephew(s) = "none" THEN Becomes(Tree, Failed) ELSE Becomes(t, Unlink)
  BY Zenon DEF BlackSiblingRedNephew, AtDoubleBlack, At
<1>2. s \in Spots(A) /\ OpFits(op, A) /\ Field(op.node, "next") = NULL /\ Fits(Tree, A, DOMAIN link, Nexts(Tree))
  BY <1>1, SaneParts, SiblingFits DEF Sane, Field
<1>3. Nephew(s) = "none" \/ Nephew(s) \in Sides
  BY DEF Nephew, Sides
<1>4. OpFits(Unlink, A) /\ Unlink.pc = "unlink" /\ Unlink.node = op.node
  BY <1>2, PcSetFits DEF Unlink, PcSet
<1> HIDE DEF s
<1>5. CASE Nephew(s) = "none"
  BY <1>1, <1>2, <1>5, SaneBecomes, StoppedFits
<1>6. CASE Nephew(s) \in Sides
  <2>1. Fits(t, A, DOMAIN link, Nexts(Tree))
    BY <1>2, <1>6, FitsTurnTo
  <2>2. Becomes(t, Unlink)
    BY <1>1, <1>6 DEF Sides
  <2> HIDE DEF t
  <2> QED BY <1>1, <1>2, <1>4, <2>1, <2>2, SaneBecomes
<1> QED BY <1>3, <1>5, <1>6

\* ... with neither, ...
LEMMA BlackSiblingSane ==
  ASSUME NEW A, NEW out, Sane(Tree, key, A, out, op), BlackSibling
  PROVE  Sane(Tree', key', A, out, op')
<1> DEFINE p == Field(op.cur, "parent")
           s == Sibling(op.cur)
           u1 == Set(Tree, s, "color", RED)
           t == Set(u1, p, "color", BLACK)
           o2 == CurSet(op, p)
           N == DOMAIN link
           nx == Nexts(Tree)
<1>1. op.pc = "fixdb" /\ (Becomes(t, Unlink) \/ Becomes(t, o2))
  BY Zenon DEF BlackSibling, AtDoubleBlack, At, CurSet
<1>2. p \in Spots(A) /\ OpFits(op, A) /\ Field(op.node, "next") = NULL /\ Fits(Tree, A, N, nx)
  BY <1>1, SaneParts DEF Sane, Field
<1>3. OpFits(Unlink, A) /\ Unlink.pc = "unlink" /\ Unlink.node = op.node
  BY <1>2, PcSetFits DEF Unlink, PcSet
<1> HIDE DEF p, s, N, nx
<1>4. OpFits(o2, A) /\ o2.pc = "fixdb" /\ o2.node = op.node
  BY <1>1, <1>2, CurSetFits
<1> HIDE DEF o2
<1>5. Fits(u1, A, N, nx)
  BY <1>2, FitsSet
<1> HIDE DEF u1
<1>6. Fits(t, A, N, nx)
  BY <1>5, FitsSet
<1> HIDE DEF t
<1>7. CASE Becomes(t, Unlink)
  BY <1>1, <1>2, <1>3, <1>6, <1>7, SaneBecomes DEF N, nx
<1>8. CASE Becomes(t, o2)
  BY <1>1, <1>2, <1>4, <1>6, <1>8, SaneBecomes DEF N, nx
<1> QED BY <1>1, <1>7, <1>8

\* ... and the leaf that goes.
LEMMA UnlinkLeafSane ==
  ASSUME NEW A, NEW out, Sane(Tree, key, A, out, op), UnlinkLeaf
  PROVE  Sane(Tree', key', A, out, op')
<1> DEFINE t == IF op.parent = NULL THEN Tree ELSE ReplaceChild(Tree, op.parent, op.node, NULL)
<1>1. op.pc = "unlink" /\ Becomes(t, Deleted)
  BY DEF UnlinkLeaf, At
<1>2. OpFits(op, A) /\ Field(op.node, "next") = NULL /\ Fits(Tree, A, DOMAIN link, Nexts(Tree)) /\ NULL \in Spots(A)
  BY <1>1, SaneParts, StoppedFits DEF Sane, Field
<1>3. OpFits(Deleted, A) /\ Deleted.pc = "deleted" /\ Deleted.node = op.node
  BY <1>2, PcSetFits DEF Deleted, PcSet
<1>4. Fits(t, A, DOMAIN link, Nexts(Tree))
  BY <1>2, FitsReplace
<1> HIDE DEF t
<1> QED BY <1>1, <1>2, <1>3, <1>4, SaneBecomes

\* A fault leaves the tree as it was.
LEMMA UndefinedSane ==
  ASSUME NEW A, NEW out, Sane(Tree, key, A, out, op), Undefined
  PROVE  Sane(Tree', key', A, out, op')
<1>1. op' = Failed /\ key' = key /\ Tree' = Tree
  BY DEF Undefined, Tree
<1> QED BY <1>1, StoppedFits DEF Sane

\* No step of the tree makes a node or points anywhere else, damaged or not.
THEOREM TreeStepSane ==
  ASSUME NEW A, NEW out, Sane(Tree, key, A, out, op), TreeStep
  PROVE  Sane(Tree', key', A, out, op')
BY DescendSane, PushEqualSane, AttachRootSane, AttachSane, FixupSane, FixupEndsSane, UnlinkHeadSane,
   DeleteLeafSane, DeleteWithChildSane, DeleteInnerSane, SmallestSane, SwapSane, NoSiblingSane,
   RedSiblingSane, BlackSiblingRedNephewSane, BlackSiblingSane, FixedAtRootSane, UnlinkLeafSane,
   UndefinedSane DEF TreeStep

-----------------------------------------------------------------------------
(* What the modules above do between two operations.                        *)

\* Keys of nodes that do not belong to the tree or its lists do not matter.
LEMMA SameKeysRest ==
  ASSUME NEW t, NEW k, NEW m, NEW N, NEW H, NEW D, AtRest(t, k, N, H, D), \A x \in N : m[x] = k[x]
  PROVE  AtRest(t, m, N, H, D)
<1>1. /\ IsTree(t, H, D) /\ Colored(t, H) /\ Ordered(t, H, D, k, {}) /\ RedsApart(t, H, {})
      /\ HasListing(t, H, N, k) /\ RootBlack(t)
      /\ \E bh : Weighted(t, H, bh, Plain(t, H))
  BY DEF AtRest, Sound, RedBlack
<1>2. H \subseteq N /\ N \subseteq Dom(t)
  BY <1>1 DEF HasListing, Listing
<1>3. HasListing(t, H, N, m)
  BY <1>1, <1>2, SameListing
<1>4. Ordered(t, H, D, m, {})
  <2>1. \A a \in H, s \in Sides : D[Get(t, a, s)] \subseteq H
    BY <1>1 DEF IsTree, IsTreeBy, Sides
  <2>2. \A a \in H : m[a] = k[a]
    BY <1>2
  <2> QED BY <2>1, <2>2, <1>1 DEF Ordered, Beside
<1> QED BY <1>1, <1>3, <1>4 DEF AtRest, Sound, RedBlack

\* Every node that is listed has the key of a node of the tree.
LEMMA ListKeys ==
  ASSUME NEW t, NEW k, NEW N, NEW H, HasListing(t, H, N, k), NULL \notin N, NEW a \in N
  PROVE  \E h \in H : k[h] = k[a]
<1>1. PICK rank : Listing(t, H, N, k, rank)
  BY DEF HasListing
<1>2. SUFFICES ASSUME ~\E h \in H : k[h] = k[a] PROVE FALSE
  OBVIOUS
<1> DEFINE T == {rank[b] : b \in {c \in N : ~\E h \in H : k[h] = k[c]}}
<1>3. T \subseteq Nat /\ T # {}
  BY <1>1, <1>2 DEF Listing
<1>4. PICK x \in T : \A y \in T : x <= y
  <2> HIDE DEF T
  <2> QED BY <1>3, MinNat
<1>5. PICK b \in N : x = rank[b] /\ ~\E h \in H : k[h] = k[b]
  BY <1>4
<1>6. b \in N \ H
  BY <1>5
<1>7. PICK c \in N : Get(t, c, "next") = b /\ rank[c] < rank[b]
  BY <1>1, <1>6 DEF Listing
<1>8. k[b] = k[c]
  <2>1. Get(t, c, "next") # NULL
    BY <1>6, <1>7
  <2> QED BY <2>1, <1>1, <1>7 DEF Listing
<1>9. rank[c] \in T /\ rank[c] \in Nat /\ rank[b] \in Nat
  BY <1>1, <1>5, <1>7, <1>8 DEF Listing
<1> HIDE DEF T
<1> QED BY <1>4, <1>5, <1>7, <1>9

\* A tree that is at rest stays so where only other nodes change.
LEMMA RestStays ==
  ASSUME NEW t, NEW s, NEW k, NEW m, NEW N, NEW H, NEW D, AtRest(t, k, N, H, D), SameOn(t, s, H),
         N \subseteq Dom(s), \A x \in N : m[x] = k[x] /\ Get(s, x, "next") = Get(t, x, "next")
  PROVE  AtRest(s, m, N, H, D)
<1>1. RedBlack(t, k, H, D, Plain(t, H), {}, {}) /\ HasListing(t, H, N, k) /\ RootBlack(t)
  BY DEF AtRest, Sound
<1>2. Plain(s, H) = Plain(t, H)
  BY SameOnPlain
<1>3. RedBlack(s, k, H, D, Plain(s, H), {}, {}) /\ RootBlack(s)
  BY <1>1, <1>2, SameOnRedBlack
<1>4. HasListing(s, H, N, k)
  BY <1>1, SameListing
<1>5. AtRest(s, k, N, H, D)
  BY <1>3, <1>4 DEF AtRest, Sound
<1> QED BY <1>5, SameKeysRest

\* A node that is not in the tree any more is freed.
Freed(a) == [link |-> Drop(link, a), root |-> root, ok |-> TRUE]

\* Freeing a node takes it away and leaves the others.
LEMMA FreedGets ==
  ASSUME NEW a
  PROVE  /\ Freed(a).link = Drop(link, a) /\ Freed(a).root = root /\ Freed(a).ok = TRUE
         /\ Dom(Freed(a)) = DOMAIN link \ {a} /\ Root(Freed(a)) = Root(Tree)
         /\ \A x, f : x # a => Get(Freed(a), x, f) = Get(Tree, x, f)
         /\ \A x \in DOMAIN link \ {a} : Freed(a).link[x] = link[x]
         /\ Usable(Tree) => Usable(Freed(a))
<1> DEFINE s == Freed(a)
           n == Drop(link, a)
<1>1. s = [link |-> n, root |-> root, ok |-> TRUE]
  BY DEF Freed
<1>2. DOMAIN n = DOMAIN link \ {a} /\ \A x \in DOMAIN n : n[x] = link[x]
  BY Zenon DEF Drop
<1> HIDE DEF n, s
<1>3. s.link = n /\ s.root = root /\ s.ok = TRUE /\ s = [link |-> s.link, root |-> s.root, ok |-> TRUE]
  BY <1>1
<1>4. Tree.link = link /\ Tree.root = root
  BY DEF Tree
<1>5. Dom(s) = DOMAIN link \ {a} /\ Root(s) = Root(Tree)
  BY <1>2, <1>3, <1>4 DEF Dom, Root
<1>6. /\ \A b, g : Get(s, b, g) = IF b \in DOMAIN n THEN n[b][g] ELSE 0
      /\ \A b, g : Get(Tree, b, g) = IF b \in DOMAIN link THEN link[b][g] ELSE 0
  BY <1>3, <1>4, GetIs, Zenon
<1>7. \A x, f : x # a => Get(s, x, f) = Get(Tree, x, f)
  <2> TAKE x, f
  <2> HAVE x # a
  <2>1. CASE x \in DOMAIN link
    BY <2>1, <1>2, <1>6, Zenon
  <2>2. CASE x \notin DOMAIN link
    BY <2>2, <1>2, <1>6, Zenon
  <2> QED BY <2>1, <2>2
<1>8. Usable(Tree) => Usable(s)
  BY <1>2, <1>3, <1>4, <1>5, Zenon DEF Usable, Dom
<1> QED BY <1>2, <1>3, <1>5, <1>7, <1>8, Zenon DEF s, n

\* Freeing a node that hangs in no list leaves the tree at rest.
LEMMA FreedRest ==
  ASSUME NEW a, NEW N, NEW k, NEW m, NEW H, NEW D, AtRest(Tree, k, N, H, D), a \notin N, N \subseteq DOMAIN link,
         \A x \in N : m[x] = k[x]
  PROVE  AtRest(Freed(a), m, N, H, D)
<1>1. H \subseteq N
  BY DEF AtRest, Sound, HasListing, Listing
<1>2. N \subseteq Dom(Freed(a)) /\ \A x \in N, f \in Fields : Get(Freed(a), x, f) = Get(Tree, x, f)
  <2>1. Dom(Freed(a)) = DOMAIN link \ {a}
    BY FreedGets
  <2>2. \A x, f : x # a => Get(Freed(a), x, f) = Get(Tree, x, f)
    BY FreedGets, Zenon
  <2> QED BY <2>1, <2>2
<1>3. SameOn(Tree, Freed(a), H)
  BY <1>1, <1>2, FreedGets DEF SameOn, Fields
<1> QED BY <1>2, <1>3, RestStays DEF Fields

\* Freeing a node keeps Fits.
LEMMA FreedFits ==
  ASSUME NEW A, NEW a, Fits(Tree, A, DOMAIN link, Nexts(Tree))
  PROVE  Fits(Freed(a), A, DOMAIN link \ {a}, Nexts(Freed(a)))
<1>1. \A x \in DOMAIN link : link[x] \in Links(A) /\ link[x].next = Nexts(Tree)[x]
  BY TreeParts DEF Fits
<1>2. root \in Spots(A)
  BY TreeParts DEF Fits
<1>3. Fits(Freed(a), A, DOMAIN link \ {a}, Nexts(Tree))
  BY <1>1, <1>2, FreedGets DEF Fits, Dom
<1> QED BY <1>3, NextsAre

\* What Drop leaves.
LEMMA DropIs ==
  ASSUME NEW f, NEW a
  PROVE  DOMAIN Drop(f, a) = DOMAIN f \ {a} /\ \A x \in DOMAIN f : x # a => Drop(f, a)[x] = f[x]
BY Zenon DEF Drop

\* A step of the tree is one of the operation under way, or a read of memory
\* that is not a node.
LEMMA TreeStepWhere ==
  ASSUME TreeStep
  PROVE  \/ op.pc \in {"descend", "fixup", "delete", "smallest", "fixdb", "unlink"}
         \/ ~(Reads \subseteq DOMAIN link) /\ UNCHANGED whole
BY DEF TreeStep, Descend, PushEqual, AttachRoot, Attach, Fixup, FixupEnds, UnlinkHead, DeleteLeaf,
       DeleteWithChild, DeleteInner, Smallest, Swap, NoSibling, RedSibling, BlackSiblingRedNephew,
       BlackSibling, FixedAtRoot, UnlinkLeaf, Undefined, At, Alone, AtDoubleBlack

\* An assignment of the tree makes no node.
LEMMA SetKeeps ==
  ASSUME NEW t, NEW a, NEW f, NEW v
  PROVE  DOMAIN Set(t, a, f, v).link = DOMAIN t.link
<1>1. Set(t, a, f, v).link = Write(t.link, a, f, v)
  BY SetParts
<1>2. DOMAIN Write(t.link, a, f, v) = DOMAIN t.link
  BY WriteDomain
<1> QED BY <1>1, <1>2

\* No step makes a damaged tree whole.
LEMMA TreeStepWhole ==
  ASSUME TreeStep, whole \in BOOLEAN
  PROVE  whole' \in BOOLEAN
<1>1. CASE Descend \/ PushEqual \/ AttachRoot \/ Attach \/ Fixup \/ FixupEnds
  BY <1>1 DEF Descend, PushEqual, AttachRoot, Attach, Fixup, FixupEnds
<1>2. CASE UnlinkHead \/ DeleteLeaf \/ DeleteWithChild \/ DeleteInner \/ Smallest
  BY <1>2 DEF UnlinkHead, DeleteLeaf, DeleteWithChild, DeleteInner, Smallest
<1>3. CASE Swap
  <2>1. whole' = (whole /\ SwapKeepsShape(op.node, op.cur))
    BY <1>3 DEF Swap
  <2>2. SwapKeepsShape(op.node, op.cur) \in BOOLEAN
    BY DEF SwapKeepsShape
  <2> QED BY <2>1, <2>2
<1>4. CASE BlackSiblingRedNephew
  <2>1. PICK s : whole' = (whole /\ Nephew(s) # "none" /\ IsRed(Field(s, Nephew(s))))
    BY <1>4 DEF BlackSiblingRedNephew
  <2>2. IsRed(Field(s, Nephew(s))) \in BOOLEAN
    BY DEF IsRed
  <2> QED BY <2>1, <2>2
<1>5. CASE NoSibling \/ RedSibling \/ BlackSibling \/ FixedAtRoot \/ UnlinkLeaf \/ Undefined
  BY <1>5 DEF NoSibling, RedSibling, BlackSibling, FixedAtRoot, UnlinkLeaf, Undefined
<1> QED BY <1>1, <1>2, <1>3, <1>4, <1>5 DEF TreeStep

=============================================================================
