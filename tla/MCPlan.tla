------------------------------- MODULE MCPlan -------------------------------
(***************************************************************************)
(* Graphs for PlannedExecution: graphs of three nodes with one output each *)
(* over an input x and a choice of kernels, edges, sizes and outputs;      *)
(* chains of six nodes, where buffers are reused over and over; and a few  *)
(* graphs for the rarer features.  They run in sequence, and, those whose  *)
(* kernels do not work in place, in parallel too.                          *)
(***************************************************************************)
EXTENDS PlannedExecution

Kernel(ins, outs, kind) ==
    [inputs |-> ins, implicit |-> <<>>, outputs |-> outs,
     alias |-> IF kind = "alias" THEN <<<<1, 1>>>> ELSE <<>>,
     inplace |-> IF kind = "inplace" THEN <<<<1, 1>>>> ELSE <<>>,
     async |-> FALSE, loop_identity |-> FALSE]

Graph(nodes, size, outputs, parallel) ==
    [nodes |-> nodes, size |-> size, graph_outputs |-> outputs, nontensor |-> {},
     preexisting |-> {"x"}, weights |-> {"w"} \cap DOMAIN size, parallel |-> parallel]

UpTo2(vals) == {<<u>> : u \in vals} \cup {<<u, v>> : u \in vals, v \in vals}

SmallGraphs(Kernels, parallel) ==
    {Graph(<<Kernel(<<"x">>, <<"v1">>, k1), Kernel(in2, <<"v2">>, k2), Kernel(in3, <<"v3">>, k3)>>,
           [x |-> 1, v1 |-> 1, v2 |-> s2, v3 |-> 1],
           {"v3"} \cup out, parallel) :
       k1 \in Kernels, k2 \in Kernels, k3 \in Kernels,
       in2 \in {<<"x">>, <<"v1">>, <<"x", "v1">>, <<"v1", "v1">>},
       in3 \in UpTo2({"v1", "v2"}) \cup {<<"x", "v2">>},
       s2 \in {1, 2}, out \in {{}, {"v1"}, {"v2"}}}

ChainGraphs(Kernels, parallel) ==
    {Graph(<<Kernel(<<"x">>, <<"v1">>, kinds[1]), Kernel(<<"v1">>, <<"v2">>, kinds[2]),
             Kernel(<<"v2">>, <<"v3">>, kinds[3]), Kernel(<<"v3">>, <<"v4">>, kinds[4]),
             Kernel(<<"v4">>, <<"v5">>, kinds[5]), Kernel(<<"v5">>, <<"v6">>, kinds[6])>>,
           [x |-> 1, v1 |-> 1, v2 |-> 1, v3 |-> 1, v4 |-> 1, v5 |-> 1, v6 |-> 1], {"v6"}, parallel) :
       kinds \in [1 .. 6 -> Kernels]}

\* A Loop body whose Identity passes x through, an implicit input, a missing
\* input and a missing last output, a value that is no tensor, a weight, two
\* outputs of one node, an unused output and an asynchronous copy.
RareGraphs(Kernels, parallel) ==
    {[Graph(<<[Kernel(<<"x">>, <<"v1">>, "alias") EXCEPT !.loop_identity = TRUE],
              [Kernel(<<"w", NoValue>>, <<"v2", "v3", NoValue>>, "plain") EXCEPT !.implicit = <<"x">>],
              [Kernel(<<"v2">>, <<"v4">>, kind) EXCEPT !.async = copy],
              Kernel(<<"v4">>, <<"v5">>, kind),
              Kernel(<<"v5">>, <<"v6">>, "plain")>>,
            [x |-> 1, w |-> 1, v1 |-> 1, v2 |-> 1, v3 |-> 1, v4 |-> 1, v5 |-> 1, v6 |-> 1], out \cup {"v1"}, parallel)
        EXCEPT !.nontensor = other] :
       kind \in Kernels, copy \in BOOLEAN, other \in {{}, {"v3"}}, out \in {{"v6"}, {"v4", "v6"}}}

\* A node with two outputs while one dead buffer is free.
SplitGraphs(Kernels, parallel) ==
    {Graph(<<Kernel(<<"x">>, <<"v1">>, "plain"), Kernel(<<"v1">>, <<"v2">>, k2),
             Kernel(<<"v2">>, <<"v3", "v4">>, k3), Kernel(<<"v3", "v4">>, <<"v5">>, k4),
             Kernel(<<"v5">>, <<"v6">>, "plain")>>,
           [x |-> 1, v1 |-> 1, v2 |-> 1, v3 |-> 1, v4 |-> 1, v5 |-> 1, v6 |-> 1], {"v6"}, parallel) :
       k2 \in Kernels, k3 \in Kernels, k4 \in Kernels}

GraphsOf(Kernels, parallel) ==
    SmallGraphs(Kernels, parallel) \cup ChainGraphs(Kernels, parallel)
        \cup RareGraphs(Kernels, parallel) \cup SplitGraphs(Kernels, parallel)

AllGraphs == GraphsOf({"plain", "inplace", "alias"}, FALSE) \cup GraphsOf({"plain", "alias"}, TRUE)

\* Two readers of one value, the later of which may write over it.
TwoReaders ==
    {Graph(<<Kernel(<<"x">>, <<"v1">>, "plain"), Kernel(<<"v1">>, <<"v2">>, "plain"),
             Kernel(<<"v1">>, <<"v3">>, "inplace"), Kernel(<<"v2", "v3">>, <<"v4">>, "plain")>>,
           [x |-> 1, v1 |-> 1, v2 |-> 1, v3 |-> 1, v4 |-> 1], {"v4"}, TRUE)}
=============================================================================
