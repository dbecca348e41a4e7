----------------------------- MODULE GraphUtils -----------------------------
(***************************************************************************)
(* The editing helpers transformers share (core/graph/graph_utils.cc):     *)
(* they change definitions and edges together, without a Resolve.          *)
(***************************************************************************)
EXTENDS Graph

UsedOutputs(g, n) == {e.ss : e \in OutputEdges(g, n)}

\* At most one output is read, by nodes or as a graph output.
IsOnlyOneOutputUsed(g, n) ==
    Cardinality(UsedOutputs(g, n) \cup GetNodeOutputsInGraphOutputs(g, n)) <= 1

CanRemoveNode(g, n) ==
    /\ IsOnlyOneOutputUsed(g, n)
    /\ GetNodeOutputsInGraphOutputs(g, n) = {}
    /\ Cardinality(InputEdges(g, n)) = 1 \/ Len(g.node[n].in) = 1

\* ReplaceNodeInput on the slots the edges E lead to.
ReplaceNodeInputs(g, E, arg) ==
    [g EXCEPT !.node = [m \in {e.dst : e \in E} \cap Live(g) |-> [@[m] EXCEPT !.in = [i \in DOMAIN @ |->
        IF \E e \in E : e.dst = m /\ e.ds = i THEN arg ELSE @[i]]]] @@ @]

\* ReplaceDownstreamNodeInput: who read output ss of n reads output rs of r.
ReplaceDownstreamNodeInput(g, n, ss, r, rs) ==
    LET E == {e \in OutputEdges(g, n) : e.ss = ss}
    IN  AddEdges(RemoveEdges(g, E),
                 {[src |-> r, ss |-> rs, dst |-> e.dst, ds |-> e.ds] : e \in E})

RemoveNodeOutputEdges(g, n) == RemoveEdges(g, OutputEdges(g, n))

\* Mutant: the output edges are left on the node.
ReplaceNodeWithInitializerConnected(g, n, arg) ==
    LET E == OutputEdges(g, n)
    IN  ReplaceNodeInputs(RemoveNode(g, n), E, arg)

ReplaceNodeWithInitializer(g, n, arg) ==
    LET E == OutputEdges(g, n)
    IN  ReplaceNodeInputs(RemoveNode(RemoveNodeOutputEdges(g, n), n), E, arg)

\* RemoveNodeWithSingleNodeInSingleUsedOutput
BypassNode(g, n) ==
    LET in == CHOOSE e \in InputEdges(g, n) : TRUE
        used == UsedOutputs(g, n)
        h == IF used = {} THEN g
             ELSE ReplaceDownstreamNodeInput(g, n, CHOOSE s \in used : TRUE, in.src, in.ss)
    IN  IF Cardinality(used) > 1 THEN Fail(g, "throw") ELSE RemoveNode(h, n)

\* graph_utils::RemoveNode
RemoveNodeAndMerge(g, n) ==
    CASE Cardinality(InputEdges(g, n)) = 1 -> BypassNode(g, n)
      [] Cardinality(InputEdges(g, n)) # 1 /\ Len(g.node[n].in) = 1 ->
             ReplaceNodeWithInitializer(g, n, g.node[n].in[1])
      [] OTHER -> Fail(g, "throw")

\* CanReplaceNodeWithInitializer. A node nothing reads leaves output_name
\* null, and the comparison dereferences it.
NullOutputName(g, n) ==
    IsOnlyOneOutputUsed(g, n) /\ UsedOutputs(g, n) \cup GetNodeOutputsInGraphOutputs(g, n) = {}

CanReplaceNodeWithInitializer(g, n, arg) ==
    /\ IsOnlyOneOutputUsed(g, n)
    /\ \A i \in GetNodeOutputsInGraphOutputs(g, n) : g.node[n].out[i] = arg

AllNodeInputsAreConstant(g, n) ==
    /\ InputEdges(g, n) = {}
    /\ \A i \in DOMAIN g.node[n].in : IsConstant(g, g.node[n].in[i])

MovedInputs(g, from, to) == {[e EXCEPT !.dst = to] : e \in InputEdges(g, from)}

MoveAllNodeInputEdges(g, from, to) ==
    RemoveEdges(AddEdges(g, MovedInputs(g, from, to)), InputEdges(g, from))

MoveAllNodeOutputs(g, from, to) ==
    LET h == [g EXCEPT !.node[to].out = g.node[from].out]
    IN  RemoveEdges(AddEdges(h, {[e EXCEPT !.src = to] : e \in OutputEdges(h, from)}),
                    OutputEdges(h, from))

\* FinalizeNodeFusion(first, second): first takes over second's outputs.
FinalizePairFusion(g, first, second) ==
    RemoveNode(MoveAllNodeOutputs(RemoveNodeOutputEdges(g, first), second, first), second)

\* FinalizeNodeFusion(nodes, replacement) for two nodes: of the input edges
\* only those of the first move.
FinalizeNodeFusion(g, first, last, r) ==
    LET h == MoveAllNodeOutputs(MoveAllNodeInputEdges(g, first, r), last, r)
        Drop(k, n) == RemoveNode(RemoveNodeOutputEdges(k, n), n)
    IN  Drop(Drop(h, first), last)

=============================================================================
