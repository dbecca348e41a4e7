------------------------------- MODULE Graph -------------------------------
(***************************************************************************)
(* The graph a model is loaded into (core/graph/graph.cc), as a value:     *)
(*   node       the live nodes by index (nodes_; an index is never reused) *)
(*   next       nodes_.size()                                              *)
(*   edges      the edge ends kept on both of their nodes, each once       *)
(*   inits      name_to_initial_tensor_, a name to the value it holds      *)
(*   ovr        the initializers that are also graph inputs: the caller    *)
(*              may give them another value, so they are no constants      *)
(*   ins, outs  graph inputs that are no initializers, graph outputs       *)
(*   need       graph_resolve_needed_                                      *)
(*   order      nodes_in_topological_order_                                *)
(*   err        the first failure: a status that is not OK, or "throw"     *)
(* A NodeArg is a tuple <<name, type, tags...>>; an argument made from     *)
(* another one (GenerateNodeArgName) is that one with one more tag.        *)
(* Control flow subgraphs, and with them implicit inputs, are left out.    *)
(***************************************************************************)
EXTENDS Naturals, FiniteSets, Sequences, SequencesExt

NoEp == ""
NoArg == <<"", "">>       \* an optional input that is left out
NoBody == [ins |-> <<>>, outs |-> <<>>, node |-> <<>>]

TypeOf(arg) == arg[2]

Node(op, id, in, out, ep) ==
    [op |-> op, id |-> id, in |-> in, out |-> out, ep |-> ep, body |-> NoBody]

Live(g) == DOMAIN g.node

\* The nodes in S in the order of nodes_.
ByIndex(g, S) == SelectSeq([n \in 1..g.next - 1 |-> n], LAMBDA n : n \in S)

InputEdges(g, n) == {e \in g.edges : e.dst = n}
OutputEdges(g, n) == {e \in g.edges : e.src = n}

Produced(g) == UNION {Range(g.node[n].out) : n \in Live(g)}
GetNodeOutputsInGraphOutputs(g, n) ==
    {i \in DOMAIN g.node[n].out : g.node[n].out[i] \in g.outs}

\* The first failure ends the call that met it; what it left stays.
Fail(g, why) == [g EXCEPT !.err = IF @ = "" THEN why ELSE @]

EdgeInRange(g, e) ==
    /\ e.src \in Live(g) /\ e.dst \in Live(g)
    /\ e.ss \in DOMAIN g.node[e.src].out /\ e.ds \in DOMAIN g.node[e.dst].in

Source(g, e) == g.node[e.src].out[e.ss]

\* Mutant: the destination keeps the argument it had.
AddEdgesKeepsInput(g, E) ==
    IF \A e \in E : EdgeInRange(g, e) THEN [g EXCEPT !.edges = @ \cup E] ELSE Fail(g, "throw")

\* A loop of AddEdge: the destination slot takes the source's argument.
AddEdges(g, E) ==
    IF \A e \in E : EdgeInRange(g, e) /\ TypeOf(g.node[e.dst].in[e.ds]) = TypeOf(Source(g, e))
    THEN [g EXCEPT !.edges = @ \cup E,
                   !.node = [n \in {e.dst : e \in E} |-> [@[n] EXCEPT !.in = [i \in DOMAIN @ |->
                       LET into == {e \in E : e.dst = n /\ e.ds = i}
                       IN  IF into = {} THEN @[i] ELSE Source(g, CHOOSE e \in into : TRUE)]]] @@ @]
    ELSE Fail(g, "throw")

\* A loop of RemoveEdge: both slots must name the same argument.
RemoveEdges(g, E) ==
    IF \A e \in E : EdgeInRange(g, e) /\ g.node[e.dst].in[e.ds] = Source(g, e)
    THEN [g EXCEPT !.edges = @ \ E]
    ELSE Fail(g, "throw")

AddNode(g, node) ==
    [g EXCEPT !.node = (g.next :> node) @@ @, !.next = @ + 1, !.need = TRUE]

ReleaseNode(g, n) ==
    [g EXCEPT !.node = [m \in Live(g) \ {n} |-> @[m]], !.need = TRUE]

RemoveNode(g, n) ==
    IF OutputEdges(g, n) # {} THEN Fail(g, "throw")
    ELSE ReleaseNode(RemoveEdges(g, InputEdges(g, n)), n)

\* FuseSubGraph: a node with the meta definition's arguments and no edges
\* replaces the nodes in S; its body keeps them.
FuseSubGraph(g, S, ins, outs, ep) ==
    LET fused == [Node("Fused", 0, ins, outs, ep) EXCEPT
                     !.body = [ins |-> ins, outs |-> outs, node |-> [n \in S |-> g.node[n]]]]
        Drop(h, n) == RemoveNode(RemoveEdges(h, OutputEdges(h, n)), n)
    IN  FoldLeft(Drop, AddNode(g, fused), ByIndex(g, S))

\* Node::ReplaceDefs on one node: every occurrence, inputs and outputs.
ReplaceDefs(node, replacements) ==
    LET New(a) == IF a \in DOMAIN replacements THEN replacements[a] ELSE a
    IN  [node EXCEPT !.in = [i \in DOMAIN @ |-> New(@[i])], !.out = [i \in DOMAIN @ |-> New(@[i])]]

\* GetConstantInitializer: an initializer the caller cannot override.
IsConstant(g, arg) == arg \in DOMAIN g.inits \ g.ovr

\* AddInitializedTensor and graph_utils::AddInitializer refuse a name that
\* has a tensor already.
AddInitializedTensor(g, arg, value) ==
    IF arg \in DOMAIN g.inits THEN Fail(g, "throw")
    ELSE [g EXCEPT !.inits = (arg :> value) @@ @]

\* InlineFunction up to its Resolve: the body's nodes, with the names they
\* got when the body was made, take the node's place.
InlineFunction(g, n) ==
    LET body == g.node[n].body.node
        Add(h, b) == AddNode(h, body[b])
    IN  FoldLeft(Add, RemoveNode(RemoveEdges(g, OutputEdges(g, n)), n),
                 SetToSortSeq(DOMAIN body, <))

=============================================================================
