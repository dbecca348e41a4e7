---------------------------- MODULE PatternTrace ----------------------------
(***************************************************************************)
(* What onnxruntime/core/framework/mem_pattern_planner.h computes from the *)
(* two lists a planner keeps: the gaps between live blocks, and the pattern*)
(* it leaves.  MemPatternPlanner uses it for the lists of one planner, a   *)
(* frame (ExecutionFrame) for those of each location.                      *)
(***************************************************************************)
EXTENDS Integers, Sequences

CONSTANTS allocs,   \* allocs_: every traced allocation, oldest first
          blocks    \* blocks_: indices into allocs of the values now live

AllocatedValues == {allocs[n].index : n \in DOMAIN allocs}

BlockOf(i) == allocs[blocks[i]]
EndOf(a) == a.offset + a.size

\* `current` when the loop of TraceAllocation reaches position i.
GapStart(i) == IF i = 1 THEN 0 ELSE EndOf(BlockOf(i - 1))
GapSize(i) == BlockOf(i).offset - GapStart(i)

\* Mutant: a gap one byte too small is taken.
FittingGapsOffByOne(size) ==
    {i \in DOMAIN blocks : BlockOf(i).offset >= GapStart(i) /\ GapSize(i) + 1 >= size}

\* The positions before which a value of this size fits.
FittingGaps(size) ==
    {i \in DOMAIN blocks : BlockOf(i).offset >= GapStart(i) /\ GapSize(i) >= size}

\* The loop keeps the earlier of two gaps that waste the same.
BetterGap(i, j) == GapSize(i) < GapSize(j) \/ (GapSize(i) = GapSize(j) /\ i <= j)

\* GenerateMemPattern: where a value goes in a later run.
Pattern == [v \in AllocatedValues |-> allocs[CHOOSE n \in DOMAIN allocs :
               allocs[n].index = v /\ \A m \in n + 1 .. Len(allocs) : allocs[m].index # v]]
=============================================================================
