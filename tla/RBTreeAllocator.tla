-------------------------- MODULE RBTreeAllocator --------------------------
(***************************************************************************)
(* RBTreeAllocator: one buffer, its free blocks kept in a red-black tree by  *)
(* size, each one's node in the block itself.  Reset, Release, ZeroMem and   *)
(* the destructor have empty bodies.  One address is an 8-byte word.         *)
(***************************************************************************)
EXTENDS RBTree, MemLayout, Sequences

CONSTANTS
  Start,        \* m_start
  Size,         \* m_size
  Sizes,        \* the sizes clients ask for
  Aligns,       \* the alignments clients ask for
  MaxDamaged    \* bound: how many blocks there may be, free or held, for an Alloc
                \* from a damaged tree

NodeWords == 7          \* sizeof(Node)
allocHeaderSize == 2    \* sizeof(AllocatedBlockHeader)

\* Mutant: room for the other header is enough.
freeHeaderSizeOther == 2

freeHeaderSize == 8     \* sizeof(FreeBlockHeader)

\* The buffer holds the first node.
ASSUME RBAssumption ==
  /\ Start \in Nat \ {0} /\ Size \in Nat /\ Size >= NodeWords
  /\ Sizes \subseteq Nat /\ Aligns \subseteq Nat \ {0} /\ MaxDamaged \in Nat

Arena == Start..(Start + Size - 1)

VARIABLES
  live,         \* blocks clients hold: [ptr, pad, sz] with the header's two numbers,
                \* and the req and al that were asked for
  req,          \* the Alloc under way: [sz, al, pad]
  pending       \* the calls of _rbtreeStrictBestFit that wait for their left branch,
                \* by node, the innermost last

vars == <<treeVars, live, req, pending>>

NoReq == [sz |-> 0, al |-> 1, pad |-> 0]

\* build
Init ==
  /\ key = [a \in {Start} |-> Size] /\ link = [a \in {Start} |-> Fresh]
  /\ root = Start /\ op = Idle /\ whole = TRUE
  /\ live = {} /\ req = NoReq /\ pending = <<>>

Alloc(sz, al) ==
  /\ op.pc = "idle"
  /\ whole \/ Cardinality(live) + Cardinality(DOMAIN key) <= MaxDamaged
  /\ op' = [Idle EXCEPT !.pc = "search", !.cur = root]
  /\ req' = [sz |-> sz, al |-> al, pad |-> 0]
  /\ UNCHANGED <<key, link, root, whole, live, pending>>

\* Mutant: no room is made for the header.
PaddingInBare(a) == AlignUp(a, req.al) - a

\* _fitToBlock: the padding it reports, and whether anything is left over.
PaddingIn(a) == BlockPadding(a, req.al, allocHeaderSize)
HasRoom(a) == key[a] - (PaddingIn(a) + req.sz) > 0

\* What a call of _rbtreeStrictBestFit reads; it prints the size of its node first.
SearchReads == {op.cur} \cup ({Field(op.cur, "left")} \ {NULL})

\* A call for a node that already waits would be made for ever, until the stack is full.
SearchDefined ==
  SearchReads \subseteq DOMAIN key /\ \A i \in 1..Len(pending) : pending[i] # op.cur
Searching == op.pc = "search" /\ SearchDefined

\* A leaf that is too small: the call returns NULL.
DeadEnd == Children(op.cur) = {} /\ key[op.cur] < req.sz

\* The left branch holds nothing large enough.
Candidate ==
  /\ key[op.cur] >= req.sz
  /\ \A left \in {Field(op.cur, "left")} \ {NULL} : key[left] < req.sz

Choose(a) ==
  /\ op' = StartDelete(a)
  /\ req' = [req EXCEPT !.pad = PaddingIn(a)]

SearchTakes ==
  /\ Searching /\ ~DeadEnd /\ Candidate /\ HasRoom(op.cur)
  /\ Choose(op.cur) /\ pending' = <<>>
  /\ UNCHANGED <<key, link, root, whole, live>>

SearchRight ==
  /\ Searching /\ ~DeadEnd
  /\ IF Candidate THEN ~HasRoom(op.cur) ELSE key[op.cur] <= req.sz
  /\ op' = [op EXCEPT !.cur = Field(op.cur, "right")]
  /\ UNCHANGED <<key, link, root, whole, live, req, pending>>

SearchLeft ==
  /\ Searching /\ ~DeadEnd /\ ~Candidate /\ key[op.cur] > req.sz
  /\ op' = [op EXCEPT !.cur = Field(op.cur, "left")]
  /\ pending' = Append(pending, op.cur)
  /\ UNCHANGED <<key, link, root, whole, live, req>>

Unserved == [Idle EXCEPT !.pc = "unserved"]

\* The innermost call that waits is given NULL: it tries its own node, then goes right.
FallBack(a) ==
  \/ HasRoom(a) /\ Choose(a) /\ pending' = <<>>
  \/ /\ ~HasRoom(a)
     /\ op' = [op EXCEPT !.cur = Field(a, "right")]
     /\ pending' = SubSeq(pending, 1, Len(pending) - 1)
     /\ UNCHANGED req

\* NULL is returned to a call that waits, or to Alloc, which writes a header in front of it.
SearchFails ==
  /\ Searching /\ DeadEnd
  /\ IF pending = <<>> THEN op' = Unserved /\ UNCHANGED <<req, pending>>
     ELSE FallBack(pending[Len(pending)])
  /\ UNCHANGED <<key, link, root, whole, live>>

\* A call for a branch that is not there reads the size of its node through NULL.
NoBranch ==
  /\ op.pc = "search" /\ op.cur = NULL
  /\ op' = Unserved
  /\ UNCHANGED <<key, link, root, whole, live, req, pending>>

SearchUndefined ==
  /\ op.pc = "search" /\ op.cur # NULL /\ ~SearchDefined
  /\ op' = Failed
  /\ UNCHANGED <<key, link, root, whole, live, req, pending>>

\* Mutant: the padding is counted to the rest as well.
TakeBlockUnpadded ==
  /\ op.pc \in {"deleted", "unlinked"}
  /\ LET b == op.node
         ptr == b + req.pad
         rest == key[b] - req.sz
         split == rest >= freeHeaderSize
     IN  /\ live' = live \cup {[ptr |-> ptr, pad |-> req.pad, req |-> req.sz, al |-> req.al,
                                sz |-> IF split THEN req.sz ELSE req.sz + rest]}
         /\ key' = IF split THEN Add(Drop(key, b), ptr + req.sz, rest) ELSE Drop(key, b)
         /\ link' = Drop(link, b)
         /\ op' = IF split THEN StartInsert(ptr + req.sz) ELSE Idle
  /\ UNCHANGED <<root, whole, req, pending>>

\* _splitBlock from the return of _deleteNode, and the header Alloc writes: a rest that
\* can hold a header becomes a free block, a smaller one stays with the block.
TakeBlock ==
  /\ op.pc \in {"deleted", "unlinked"}
  /\ LET b == op.node
         ptr == b + req.pad
         rest == key[b] - (req.pad + req.sz)
         split == rest >= freeHeaderSize
     IN  /\ live' = live \cup {[ptr |-> ptr, pad |-> req.pad, req |-> req.sz, al |-> req.al,
                                sz |-> IF split THEN req.sz ELSE req.sz + rest]}
         /\ key' = IF split THEN Add(Drop(key, b), ptr + req.sz, rest) ELSE Drop(key, b)
         /\ link' = Drop(link, b)
         /\ op' = IF split THEN StartInsert(ptr + req.sz) ELSE Idle
  /\ UNCHANGED <<root, whole, req, pending>>

Extent(b) == b.pad + b.sz

\* A client gives back a block it holds; free blocks are not joined.
Free(b) ==
  /\ op.pc = "idle" /\ Extent(b) >= NodeWords
  /\ live' = live \ {b}
  /\ key' = Add(key, b.ptr - b.pad, Extent(b))
  /\ op' = StartInsert(b.ptr - b.pad)
  /\ UNCHANGED <<link, root, whole, req, pending>>

\* The node is written over the start of the next block.
FreeOverruns(b) ==
  /\ op.pc = "idle" /\ Extent(b) < NodeWords
  /\ op' = Failed /\ whole' = FALSE
  /\ UNCHANGED <<key, link, root, live, req, pending>>

Next ==
  \/ \E sz \in Sizes, al \in Aligns : Alloc(sz, al)
  \/ SearchTakes \/ SearchRight \/ SearchLeft \/ SearchFails \/ NoBranch \/ SearchUndefined
  \/ TakeBlock
  \/ \E b \in live : Free(b) \/ FreeOverruns(b)
  \/ TreeStep /\ UNCHANGED <<live, req, pending>>

Spec == Init /\ [][Next]_vars

-----------------------------------------------------------------------------
\* The words of a free block, and of a block that is held, its padding included.
FreeWords(a) == a..(a + key[a] - 1)
HeldWords(b) == (b.ptr - b.pad)..(b.ptr + b.sz - 1)

TypeOK ==
  /\ DOMAIN key \subseteq Arena /\ DOMAIN link \subseteq DOMAIN key
  /\ op.pc = "idle" => DOMAIN link = DOMAIN key
  /\ \A a \in DOMAIN key : key[a] \in NodeWords..Size
  /\ live \subseteq [ptr : Arena, pad : 0..Size, sz : 0..Size, req : Sizes, al : Aligns]
  /\ whole \in BOOLEAN

\* Every word of the buffer belongs to one block, free or held, whatever clients do and
\* however the tree is damaged: splitting loses nothing and gives nothing twice.
Tiled ==
  /\ \A a, c \in DOMAIN key : a # c => FreeWords(a) \cap FreeWords(c) = {}
  /\ \A b, c \in live : b # c => HeldWords(b) \cap HeldWords(c) = {}
  /\ \A a \in DOMAIN key, b \in live : FreeWords(a) \cap HeldWords(b) = {}
  /\ UNION ({FreeWords(a) : a \in DOMAIN key} \cup {HeldWords(b) : b \in live}) = Arena

\* What a client was given is aligned, as large as it asked for, and has room in front
\* for the header that Free reads.
BlocksSound ==
  \A b \in live : b.ptr % b.al = 0 /\ b.pad >= allocHeaderSize /\ b.req <= b.sz

\* The tree steps follow no pointer to NULL or to memory that is not a free block.
NoFault == whole => op.pc # "undefined"

\* RBTreeAllocator.cpp:630 and 633: a child that has no room is fallen back from, so
\* a request that a free block has room for is served.
Served == whole /\ op.pc = "unserved" => \A a \in DOMAIN key : ~HasRoom(a)

=============================================================================
