------------------------------ MODULE MCSession ------------------------------
(***************************************************************************)
(* A plan of four nodes for InferenceSession: the first makes a and e, the *)
(* second copies a to pinned memory as h on a queue of its own and a dies, *)
(* the third makes c where a was and the string tensor s, the last gives   *)
(* c's buffer to d and makes the output o.  Inputs x and y are transposed  *)
(* shapes, so they share a cache key, and lead to other sizes; z is not a  *)
(* tensor and finds c's buffer too small for d.                            *)
(***************************************************************************)
EXTENDS InferenceSession

MCValues == {"a", "e", "h", "c", "d", "o", "s"}
MCStrings == {"s"}
MCLocations == {"cpu", "gpu", "pinned"}
MCLocation == [v \in MCValues |->
    CASE v = "h" -> "pinned" [] v = "s" -> "cpu" [] OTHER -> "gpu"]
MCAllocKind == [v \in MCValues |->
    CASE v = "d" -> "reuse" [] v = "o" -> "output" [] OTHER -> "allocate"]
MCReusedBuffer == [v \in {"d"} |-> "c"]

Node(out, reads, free, async) ==
    [out |-> out, reads |-> reads, free |-> free, async |-> async]

MCExecPlan ==
    << Node(<<"a", "e">>, {}, <<>>, FALSE),
       Node(<<"h">>, {"a"}, <<"a">>, TRUE),
       Node(<<"c", "s">>, {"e"}, <<"e">>, FALSE),
       Node(<<"d", "o">>, {"c", "h", "s"}, <<"c", "h", "s">>, FALSE) >>

MCInputs == {"x", "y", "z"}
MCShapes == [x |-> <<<<2, 3>>, <<4>>>>, y |-> <<<<3, 2>>, <<4>>>>, z |-> <<<<1>>>>]
MCAllTensors == [x |-> TRUE, y |-> TRUE, z |-> FALSE]
MCSizeOf ==
    [x |-> [a |-> 2, e |-> 1, h |-> 1, c |-> 2, d |-> 2, o |-> 1, s |-> 1],
     y |-> [a |-> 1, e |-> 2, h |-> 1, c |-> 2, d |-> 1, o |-> 1, s |-> 1],
     z |-> [a |-> 1, e |-> 1, h |-> 1, c |-> 1, d |-> 2, o |-> 1, s |-> 1]]
MCProviders == <<"cuda", "other">>

ThreadSymmetry == Permutations(Threads)
=============================================================================
