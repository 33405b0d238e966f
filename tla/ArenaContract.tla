---------------------------- MODULE ArenaContract ----------------------------
(***************************************************************************)
(* What a client may expect of a general-purpose allocator over one arena,  *)
(* as Allocator.h names the operations: Alloc hands out a block carved from *)
(* the low end of an unused gap, or NULL only when no gap is large enough;  *)
(* Free returns exactly that block; Reset returns them all.  There is no    *)
(* free list here: the gaps are whatever the blocks in use leave.           *)
(***************************************************************************)
EXTENDS MemLayout

CONSTANTS
  Base,       \* where the arena starts
  Header,     \* room kept below every pointer
  MinFree,    \* the shortest remainder that is kept as a gap of its own
  Tightest,   \* TRUE: a block comes from a gap that leaves the least
  Growing,    \* TRUE: the arena may be extended instead of refusing
  None

VARIABLES
  held,       \* blocks in use, [ptr, sz, al, lo, hi]
  end,        \* where the arena ends
  asked,      \* the request being served, [sz, al], or None
  open        \* FALSE once the arena is gone

contractVars == <<held, end, asked, open>>

\* The maximal runs of addresses no block in use covers.
Gaps ==
  {g \in ({Base} \cup {b.hi : b \in held}) \X ({end} \cup {b.lo : b \in held}) :
     g[1] < g[2] /\ \A b \in held : b.hi <= g[1] \/ g[2] <= b.lo}

\* What would be left of a gap after serving (sz, al) from its low end.
Spare(g, sz, al) == g[2] - (g[1] + BlockPadding(g[1], al, Header) + sz)

Suitable(sz, al) == {g \in Gaps : Spare(g, sz, al) >= 0}

BlockIn(g, sz, al) ==
  LET ptr == g[1] + BlockPadding(g[1], al, Header)
  IN [ptr |-> ptr, sz |-> sz, al |-> al, lo |-> g[1],
      hi |-> IF Spare(g, sz, al) >= MinFree THEN ptr + sz ELSE g[2]]

ContractInit ==
  /\ held = {} /\ end > Base
  /\ asked = None /\ open = TRUE

Ask ==
  /\ open /\ asked = None
  /\ asked' # None
  /\ UNCHANGED <<held, end, open>>

Grant ==
  /\ open /\ asked # None
  /\ \E g \in Suitable(asked.sz, asked.al) :
       /\ Tightest => \A h \in Suitable(asked.sz, asked.al) :
                        Spare(g, asked.sz, asked.al) <= Spare(h, asked.sz, asked.al)
       /\ held' = held \cup {BlockIn(g, asked.sz, asked.al)}
  /\ asked' = None
  /\ UNCHANGED <<end, open>>

\* The arena grows only for a request no gap can serve, and serves it.
GrowAndGrant ==
  /\ open /\ asked # None
  /\ Growing /\ end' > end
  /\ Suitable(asked.sz, asked.al) = {}
  /\ \E lo \in {g[1] : g \in {h \in Gaps : h[2] = end}} \cup {end} :
       /\ Spare(<<lo, end'>>, asked.sz, asked.al) >= 0
       /\ held' = held \cup {BlockIn(<<lo, end'>>, asked.sz, asked.al)}
  /\ asked' = None
  /\ UNCHANGED open

Refuse ==
  /\ open /\ asked # None
  /\ ~Growing
  /\ Suitable(asked.sz, asked.al) = {}
  /\ asked' = None
  /\ UNCHANGED <<held, end, open>>

GiveBack ==
  /\ open /\ asked = None
  /\ \E b \in held : held' = held \ {b}
  /\ UNCHANGED <<end, asked, open>>

Clear ==
  /\ open /\ asked = None
  /\ held' = {}
  /\ UNCHANGED <<end, asked, open>>

Close ==
  /\ open /\ open' = FALSE
  /\ held' = {} \/ held' = held
  /\ UNCHANGED <<end, asked>>

ContractNext == Ask \/ Grant \/ GrowAndGrant \/ Refuse \/ GiveBack \/ Clear \/ Close

ContractSpec == ContractInit /\ [][ContractNext]_contractVars

=============================================================================
