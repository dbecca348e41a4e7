---------------------------- MODULE MCThreadPool ----------------------------
(* Calls with no, one, two and four iterations, and ones in batches.       *)
EXTENDS ThreadPool

Call(op, first, last, batches) == [op |-> op, first |-> first, last |-> last, batches |-> batches]

LoopCalls == {Call("ParallelFor", 0, n, 0) : n \in {0, 1, 2, 4}}
             \cup {Call("BatchParallelFor", 0, n, b) : n \in {1, 5}, b \in {0, 3}}
             \cup {Call("BatchParallelFor", 0, 3, 3), Call("ParallelForRange", 1, 3, 0)}
=============================================================================
