------------------------- MODULE AllocatorBenchmark -------------------------
(***************************************************************************)
(* AllocatorBenchmark::Benchmark driving a SequentialListAllocator: rounds  *)
(* of NTests allocations of every size of allocSize, each followed by       *)
(* freeing all of them in one order (or by Reset) and by Layout.            *)
(***************************************************************************)
EXTENDS SequentialListSound, FiniteSets, Sequences

CONSTANTS
  NTests,       \* N_TESTS
  AllocSize,    \* allocSize, a sequence
  Alignment,    \* alignment
  Flags         \* the flags Benchmark may be called with, as [alloc, free]: the
                \* ALLOC_ flags that are set and the FREE_ flags, in the order run

ASSUME BenchmarkAssumption ==
  /\ NTests \in Nat \ {0}
  /\ AllocSize \in Seq(Sizes) /\ Alignment \in Aligns
  /\ Flags \subseteq [alloc : Seq({"SEQ", "RANDOM"}), free : Seq({"LIFO", "FIFO", "RAND"})]

VARIABLES
  flags,  \* the argument
  ptr,    \* the array of results
  round,  \* how many rounds have ended
  phase,  \* "alloc", "free", "reset" or "layout": what the round is doing
  todo    \* indices of the sizes not yet asked for, or of pointers not yet freed

benchVars == <<flags, ptr, round, phase, todo>>

Slots == 1..(NTests * Len(AllocSize))
SizeAt(i) == AllocSize[((i - 1) \div NTests) + 1]

\* Every allocation mode meets every free mode; with no FREE_ flag, Reset.
FreeModes == IF flags.free = <<>> THEN <<"RESET">> ELSE flags.free
NumRounds == Len(flags.alloc) * Len(FreeModes)
AllocMode == flags.alloc[(round \div Len(FreeModes)) + 1]
FreeMode == FreeModes[(round % Len(FreeModes)) + 1]

First(S) == CHOOSE i \in S : \A j \in S : i <= j
Last(S) == CHOOSE i \in S : \A j \in S : j <= i

BenchInit ==
  /\ Init
  /\ flags \in Flags
  /\ ptr = [i \in Slots |-> NULL]
  /\ round = 0
  /\ phase = "alloc"
  /\ todo = Slots

Running == round < NumRounds

\* allocSeq asks in order; allocRand shuffles the sizes.
AskFor(i) ==
  /\ Running /\ phase = "alloc" /\ i \in todo
  /\ AllocMode = "SEQ" => i = First(todo)
  /\ Alloc(SizeAt(i), Alignment)
  /\ todo' = todo \ {i}
  /\ UNCHANGED <<flags, ptr, round, phase>>

\* Mutant: results are stored one slot further down.
CurrentSlotBelow == Cardinality(Slots) - Cardinality(todo) - 1

\* The slot an allocation in progress fills.
CurrentSlot == Cardinality(Slots) - Cardinality(todo)

\* The allocator runs; a call of Alloc that returns stores its result.
AllocatorStep ==
  /\ Step
  /\ ptr' = IF phase = "alloc" /\ call'.op = "idle"
            THEN [ptr EXCEPT ![CurrentSlot] = call'.result] ELSE ptr
  /\ UNCHANGED <<flags, round, phase, todo>>

AllAllocated ==
  /\ Running /\ Ready /\ phase = "alloc" /\ todo = {}
  /\ phase' = IF FreeMode = "RESET" THEN "reset" ELSE "free"
  /\ todo' = Slots
  /\ UNCHANGED <<vars, flags, ptr, round>>

\* freeLIFO, freeFIFO and freeRand, which shuffles the pointers; Free(NULL) returns.
GiveBackSlot(i) ==
  /\ Running /\ Ready /\ phase = "free" /\ i \in todo
  /\ FreeMode = "LIFO" => i = Last(todo)
  /\ FreeMode = "FIFO" => i = First(todo)
  /\ IF ptr[i] = NULL THEN UNCHANGED vars ELSE Free(ptr[i])
  /\ todo' = todo \ {i}
  /\ UNCHANGED <<flags, ptr, round, phase>>

ResetAll ==
  /\ Running /\ phase = "reset"
  /\ Reset
  /\ phase' = "free" /\ todo' = {}
  /\ UNCHANGED <<flags, ptr, round>>

AllFreed ==
  /\ Running /\ phase = "free" /\ todo = {}
  /\ Layout
  /\ phase' = "layout"
  /\ UNCHANGED <<flags, ptr, round, todo>>

NextRound ==
  /\ Running /\ Ready /\ phase = "layout"
  /\ round' = round + 1
  /\ phase' = "alloc"
  /\ todo' = Slots
  /\ UNCHANGED <<vars, flags, ptr>>

BenchNext ==
  \/ AllocatorStep
  \/ \E i \in Slots : AskFor(i) \/ GiveBackSlot(i)
  \/ AllAllocated \/ ResetAll \/ AllFreed \/ NextRound

\* One thread runs the benchmark and the allocator it calls.
BenchSpec ==
  /\ BenchInit /\ [][BenchNext]_<<vars, benchVars>>
  /\ WF_<<vars, benchVars>>(BenchNext)

-----------------------------------------------------------------------------
\* While the pointers are freed, those left are distinct and are exactly the
\* blocks the allocator has outstanding: none was handed out twice or lost.
HoldsWhatItGot ==
  (Ready /\ phase = "free") =>
    LET left == {i \in todo : ptr[i] # NULL}
    IN /\ {ptr[i] : i \in left} = {b.ptr : b \in live}
       /\ \A i, j \in left : ptr[i] = ptr[j] => i = j

\* Every round is carried out to its end, unless an assert stops the program.
Completes == <>(round = NumRounds \/ status = "aborted")

=============================================================================
