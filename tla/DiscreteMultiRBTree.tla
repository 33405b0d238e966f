------------------------ MODULE DiscreteMultiRBTree ------------------------
(***************************************************************************)
(* GPCL::DiscreteMultiRBTree<T>: Insert and Delete over the steps of RBTree. *)
(***************************************************************************)
EXTENDS RBTreeShape

CONSTANTS
  Keys,         \* the keys clients insert and delete
  Twice,        \* bound: the keys of which there may be two nodes at once
  MaxNodes,     \* bound: how many nodes there are at once, leaked ones included,
  MaxDamaged    \* and up to how many are inserted into a damaged tree

ASSUME TreeAssumption == Keys \subseteq Nat \ {0} /\ Twice \subseteq Keys /\ MaxNodes \in Nat /\ MaxDamaged \in Nat

VARIABLES
  sought,       \* the argument of the last Delete
  leaked        \* the nodes that Delete took off a list and did not free

vars == <<treeVars, sought, leaked>>

\* Where new Node may put a node: addresses are compared for equality only, so each
\* key has addresses of its own.
Places(k) == IF k \in Twice THEN {2 * k - 1, 2 * k} ELSE {2 * k}
Addresses == UNION {Places(k) : k \in Keys}
Empty == [a \in {} |-> NULL]

Init ==
  /\ key = Empty /\ link = Empty /\ root = NULL /\ op = Idle
  /\ whole = TRUE /\ sought = NULL /\ leaked = {}

Insert(k) ==
  /\ op.pc = "idle" /\ Cardinality(DOMAIN key) < (IF whole THEN MaxNodes ELSE MaxDamaged)
  /\ \E a \in Places(k) \ DOMAIN key :
       /\ \A b \in Places(k) \ DOMAIN key : a <= b
       /\ key' = Add(key, a, k)
       /\ op' = StartInsert(a)
  /\ UNCHANGED <<link, root, whole, sought, leaked>>

Delete(k) ==
  /\ op.pc = "idle"
  /\ op' = [Idle EXCEPT !.pc = "find", !.cur = root]
  /\ sought' = k
  /\ UNCHANGED <<key, link, root, whole, leaked>>

\* One iteration of Delete's loop; a head that was leaked while root pointed to it
\* still has its key.
Find ==
  /\ At("find") /\ op.cur # NULL
  /\ op' = IF sought = key[op.cur] THEN StartDelete(op.cur)
           ELSE [op EXCEPT !.cur = Field(op.cur, IF sought > key[op.cur] THEN "right" ELSE "left")]
  /\ UNCHANGED <<key, link, root, whole, sought, leaked>>

\* assert(false && "node with the given key doesn't exist!")
Missing ==
  /\ op.pc = "find" /\ op.cur = NULL
  /\ op' = [Idle EXCEPT !.pc = "aborted"]
  /\ UNCHANGED <<key, link, root, whole, sought, leaked>>

\* delete node, after a deletion from the tree.
FreeNode ==
  /\ op.pc = "deleted"
  /\ key' = Drop(key, op.node) /\ link' = Drop(link, op.node)
  /\ op' = Idle
  /\ UNCHANGED <<root, whole, sought, leaked>>

\* Delete returns early for the head of a longer list: nothing frees it.
LeakNode ==
  /\ op.pc = "unlinked"
  /\ leaked' = leaked \cup {op.node}
  /\ op' = Idle
  /\ UNCHANGED <<key, link, root, whole, sought>>

Next ==
  \/ \E k \in Keys : Insert(k) \/ Delete(k)
  \/ Find \/ Missing \/ FreeNode \/ LeakNode
  \/ TreeStep /\ UNCHANGED <<sought, leaked>>

Spec == Init /\ [][Next]_vars

-----------------------------------------------------------------------------
TypeOK ==
  /\ DOMAIN key \subseteq Addresses /\ DOMAIN link \subseteq DOMAIN key
  /\ op.pc = "idle" => DOMAIN link = DOMAIN key
  /\ \A a \in DOMAIN key : key[a] \in Keys
  /\ \A a \in DOMAIN link : link[a] \in [parent : {NULL} \cup Addresses, left : {NULL} \cup Addresses,
                                         right : {NULL} \cup Addresses, color : {BLACK, RED},
                                         next : {NULL} \cup Addresses]
  /\ root \in {NULL} \cup Addresses /\ leaked \subseteq DOMAIN key
  /\ whole \in BOOLEAN /\ sought \in {NULL} \cup Keys

Running == op.pc \notin {"idle", "aborted", "undefined"}

\* What each loop uses up.
Variant ==
  CASE op.pc \in {"find", "descend", "smallest"} -> Cardinality(Below(op.cur))
    [] op.pc = "fixup" -> Cardinality(Path(op.cur))
    [] op.pc = "fixdb" -> IF IsRed(Field(op.cur, "parent")) THEN 1 ELSE 2 * Cardinality(Path(op.cur))
    [] OTHER -> 0

Resting == whole /\ op.pc = "idle"

\* Rotations, the swap with the successor and the repair of a double black give back
\* a red-black search tree.
RedBlackTree == Resting => SearchTree /\ Balanced

\* No key is lost on the way, whichever nodes changed places: what was inserted and not
\* deleted is in the tree or in a list under its key.
NothingLost == Resting => Lists /\ Listed = DOMAIN key \ leaked

\* The loops and the recursion follow no pointer to NULL or to a deleted node, and a
\* Delete of a key that is there finds it.
NoFault ==
  whole => /\ op.pc # "undefined"
           /\ op.pc = "aborted" => \A a \in DOMAIN key \ leaked : key[a] # sought

\* Every loop and recursion ends: the searches go down, the repairs climb, and a
\* rotation that moves a double black down leaves it under a red parent, where the
\* next step ends it.
RepairsClimb == [][Running /\ whole' /\ op'.pc = op.pc => Variant' < Variant]_vars

=============================================================================
