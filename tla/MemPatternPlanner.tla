-------------------------- MODULE MemPatternPlanner --------------------------
(***************************************************************************)
(* The planner of onnxruntime/core/framework/mem_pattern_planner.h.  During*)
(* the first run with given input shapes the execution frame traces every  *)
(* allocation and every release of an OrtValue; the planner packs the      *)
(* values into one buffer.  Later runs with those shapes place each value  *)
(* at its traced offset (GetBlock) without looking at what else is live,   *)
(* so the pattern itself must keep values apart that were live together.   *)
(*                                                                         *)
(* Each member function holds lock_ throughout and is one action.  A frame *)
(* allocates an OrtValue at most once and releases it at most once.        *)
(***************************************************************************)
EXTENDS Integers, SequencesExt

CONSTANTS Values,   \* OrtValue indices
          Sizes     \* Sizes in bytes the frame may ask for, 0 included

ASSUME PlannerConstants == Sizes \subseteq Nat

VARIABLES
    allocs,       \* allocs_: every traced allocation, oldest first
    blocks,       \* blocks_: indices into allocs of the values now live
    buffer_size,  \* Size of the buffer the pattern needs
    freed,        \* Values the frame has released
    coexisted     \* Pairs of values that were live at the same time (history)

vars == <<allocs, blocks, buffer_size, freed, coexisted>>

-----------------------------------------------------------------------------
\* BlockOf, GapStart, FittingGaps, Pattern and the like, of these lists.
INSTANCE PatternTrace

\* Mutant: the index is taken after the size has grown by one.
InsertDangles(v, size, offset, i) ==
    /\ allocs' = Append(allocs, [index |-> v, offset |-> offset, size |-> size])
    /\ blocks' = InsertAt(blocks, i, Len(allocs) + 2)
    /\ buffer_size' = IF offset + size > buffer_size THEN offset + size ELSE buffer_size
    /\ UNCHANGED <<freed, coexisted>>

\* Mutant: the new block goes to the end of the list even when it fills a gap.
InsertLast(v, size, offset, i) ==
    /\ allocs' = Append(allocs, [index |-> v, offset |-> offset, size |-> size])
    /\ blocks' = Append(blocks, Len(allocs) + 1)
    /\ buffer_size' = IF offset + size > buffer_size THEN offset + size ELSE buffer_size
    /\ coexisted' = coexisted \cup {<<BlockOf(k).index, v>> : k \in DOMAIN blocks}
    /\ UNCHANGED freed

Insert(v, size, offset, i) ==
    /\ allocs' = Append(allocs, [index |-> v, offset |-> offset, size |-> size])
    /\ blocks' = InsertAt(blocks, i, Len(allocs) + 1)
    /\ buffer_size' = IF offset + size > buffer_size THEN offset + size ELSE buffer_size
    /\ coexisted' = coexisted \cup {<<BlockOf(k).index, v>> : k \in DOMAIN blocks}
    /\ UNCHANGED freed

\* TraceAllocation of an empty tensor: it takes part in no gap.
TraceEmpty(v) ==
    /\ v \notin AllocatedValues
    /\ 0 \in Sizes
    /\ allocs' = Append(allocs, [index |-> v, offset |-> 0, size |-> 0])
    /\ UNCHANGED <<blocks, buffer_size, freed, coexisted>>

\* Mutant: buffer_size follows the last value, wherever it was put.
TraceInGapShrinks(v, size, i) ==
    /\ v \notin AllocatedValues
    /\ size > 0
    /\ i \in FittingGaps(size)
    /\ \A j \in FittingGaps(size) : BetterGap(i, j)
    /\ allocs' = Append(allocs, [index |-> v, offset |-> GapStart(i), size |-> size])
    /\ blocks' = InsertAt(blocks, i, Len(allocs) + 1)
    /\ buffer_size' = GapStart(i) + size
    /\ coexisted' = coexisted \cup {<<BlockOf(k).index, v>> : k \in DOMAIN blocks}
    /\ UNCHANGED freed

\* TraceAllocation when some gap before a live block is large enough.
TraceInGap(v, size, i) ==
    /\ v \notin AllocatedValues
    /\ size > 0
    /\ i \in FittingGaps(size)
    /\ \A j \in FittingGaps(size) : BetterGap(i, j)
    /\ Insert(v, size, GapStart(i), i)

\* TraceAllocation when none is: after the last live block.
TraceAtEnd(v, size) ==
    /\ v \notin AllocatedValues
    /\ size > 0
    /\ FittingGaps(size) = {}
    /\ Insert(v, size, GapStart(Len(blocks) + 1), Len(blocks) + 1)

TraceAllocation(v, size) ==
    \/ \E i \in DOMAIN blocks : TraceInGap(v, size, i)
    \/ TraceAtEnd(v, size)

\* TraceFree: the first live block of the value leaves the list; an empty
\* tensor has none.
TraceFree(v) ==
    /\ v \in AllocatedValues \ freed
    /\ freed' = freed \cup {v}
    /\ \/ \E i \in DOMAIN blocks :
             /\ BlockOf(i).index = v
             /\ \A j \in 1 .. i - 1 : BlockOf(j).index # v
             /\ blocks' = RemoveAt(blocks, i)
       \/ /\ \A i \in DOMAIN blocks : BlockOf(i).index # v
          /\ UNCHANGED blocks
    /\ UNCHANGED <<allocs, buffer_size, coexisted>>

Init == allocs = <<>> /\ blocks = <<>> /\ buffer_size = 0 /\ freed = {} /\ coexisted = {}

Next == \E v \in Values :
    \/ TraceEmpty(v)
    \/ \E size \in Sizes : TraceAllocation(v, size)
    \/ TraceFree(v)

Spec == Init /\ [][Next]_vars

-----------------------------------------------------------------------------
(* Properties *)

AllocType == [index : Values, offset : Nat, size : Nat]

\* Types of the planner's members.
TypeOK ==
    /\ allocs \in Seq(AllocType)
    /\ blocks \in Seq(Nat)
    /\ \A i \in DOMAIN blocks : blocks[i] \in DOMAIN allocs
    /\ buffer_size \in Nat
    /\ freed \subseteq Values
    /\ coexisted \subseteq Values \X Values

\* The comment on blocks_, "the list of currently allocated memory blocks,
\* sorted in order of their offset", and more: each ends before the next
\* begins, which the gap computation of TraceAllocation takes for granted.
BlocksSorted ==
    \A i, j \in DOMAIN blocks : i < j => EndOf(BlockOf(i)) <= BlockOf(j).offset

\* Two values that were live together at any time get disjoint places in
\* the pattern, which is all that keeps a replayed run from corrupting one
\* with the other.
PatternKeepsApart ==
    \A c \in coexisted : \/ EndOf(Pattern[c[1]]) <= Pattern[c[2]].offset
                         \/ EndOf(Pattern[c[2]]) <= Pattern[c[1]].offset

\* Every place lies inside the buffer of PeakSize() bytes that
\* ExecutionFrame allocates up front.
PatternFitsPeak == \A v \in AllocatedValues : EndOf(Pattern[v]) <= buffer_size
=============================================================================
