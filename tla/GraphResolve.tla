---------------------------- MODULE GraphResolve ----------------------------
(***************************************************************************)
(* Graph::Resolve and the order a GraphViewer makes (core/graph/graph.cc,  *)
(* graph_viewer.cc). Both orders come from a depth first walk over a stack *)
(* from the nodes without consumers; a walk is a record and its loop a     *)
(* recursive operator.                                                     *)
(***************************************************************************)
EXTENDS Graph

kConstant == "Constant"

\* The edges the argument names imply.
Derived(g) ==
    {e \in UNION {[src : {m}, ss : DOMAIN g.node[m].out, dst : {n}, ds : DOMAIN g.node[n].in] :
                     m \in Live(g), n \in Live(g)} :
        Source(g, e) = g.node[e.dst].in[e.ds]}

\* VerifyNoDuplicateName on the outputs of nodes.
DuplicateDefinition(g) ==
    \/ Produced(g) \cap (g.ins \cup DOMAIN g.inits) # {}
    \/ \E m \in Live(g), n \in Live(g) :
           \E i \in DOMAIN g.node[m].out, j \in DOMAIN g.node[n].out :
               <<m, i>> # <<n, j>> /\ g.node[m].out[i] = g.node[n].out[j]

Useless(g) == {n \in Live(g) : g.node[n].in = <<>> /\ g.node[n].out = <<>>}

BuildConnections(g) ==
    LET h == [g EXCEPT !.edges = Derived(g)]
        Drop(k, n) == RemoveNode(k, n)
    IN  FoldLeft(Drop, h, ByIndex(g, Useless(g)))

-----------------------------------------------------------------------------
(* PerformTopologicalSortAndCheckIsAcyclic *)

\* Nodes that read nothing, or only what Constant nodes produce.
TopLevel(g) ==
    {n \in Live(g) : \A e \in InputEdges(g, n) : g.node[e.src].op = kConstant}

Leaves(g) == {n \in Live(g) : OutputEdges(g, n) = {}}

\* One entry per input edge, by index of the producer.
InputNodes(g, n) ==
    LET before(e, f) == \/ e.src < f.src
                        \/ e.src = f.src /\ e.ss < f.ss
                        \/ e.src = f.src /\ e.ss = f.ss /\ e.ds < f.ds
        sorted == SetToSortSeq(InputEdges(g, n), before)
    IN  [i \in DOMAIN sorted |-> sorted[i].src]

\* One turn of the loop. output_nodes holds the nodes on the current way.
SortStep(g, w) ==
    LET cur == Last(w.stack)
        rest == Front(w.stack)
        on == w.output_nodes \cup {cur}
        inputs == InputNodes(g, cur)
    IN  IF cur \in w.processed THEN [w EXCEPT !.stack = rest]
        ELSE IF cur \in w.added
        THEN [w EXCEPT !.stack = rest, !.order = Append(@, cur),
                       !.processed = @ \cup {cur}, !.output_nodes = @ \ {cur}]
        ELSE IF \E m \in Range(inputs) : m \in on THEN [w EXCEPT !.stack = <<>>, !.cyclic = TRUE]
        ELSE [w EXCEPT !.stack = rest \o <<cur>> \o
                           SelectSeq(inputs, LAMBDA m : m \notin w.added),
                       !.added = @ \cup {cur}, !.output_nodes = on]

RECURSIVE SortFrom(_, _)
SortFrom(g, w) == IF w.stack = <<>> THEN w ELSE SortFrom(g, SortStep(g, w))

\* The walk from the leaves; nodes on the top level come first.
Walk(g) ==
    SortFrom(g, [stack |-> ByIndex(g, Leaves(g)), order |-> ByIndex(g, TopLevel(g)),
                 processed |-> TopLevel(g), added |-> TopLevel(g),
                 output_nodes |-> {}, cyclic |-> FALSE])

\* Mutant: a cycle none of whose nodes leads to a leaf is not noticed.
CheckedOrderNoCount(g, w) == IF w.cyclic THEN Fail(g, "cyclic") ELSE [g EXCEPT !.order = w.order]

CheckedOrder(g, w) ==
    IF w.cyclic \/ Len(w.order) # Cardinality(Live(g))
    THEN Fail(g, "cyclic") ELSE [g EXCEPT !.order = w.order]

PerformTopologicalSortAndCheckIsAcyclic(g) == CheckedOrder(g, Walk(g))

-----------------------------------------------------------------------------
CleanUnusedInitializers(g) ==
    LET used == g.outs \cup UNION {Range(g.node[n].in) : n \in Live(g)}
    IN  [g EXCEPT !.inits = [a \in DOMAIN @ \cap used |-> @[a]], !.ovr = @ \cap used]

\* SetGraphInputsOutputs: a graph output nobody provides.
OutputMissing(g) == \E a \in g.outs : a \notin Produced(g) \cup DOMAIN g.inits \cup g.ins

Finished(g) == IF g.err # "" THEN g ELSE [CleanUnusedInitializers(g) EXCEPT !.need = FALSE]

\* Resolve. InitInputsInitializersOutputs clears the edges before it can
\* fail; a failure leaves graph_resolve_needed_ set.
Resolve(g) ==
    IF ~g.need \/ g.err # "" THEN g
    ELSE IF OutputMissing(g) THEN Fail([g EXCEPT !.edges = {}], "output")
    ELSE IF DuplicateDefinition(g) THEN Fail([g EXCEPT !.edges = {}], "duplicate")
    ELSE Finished(PerformTopologicalSortAndCheckIsAcyclic(BuildConnections(g)))

-----------------------------------------------------------------------------
(* GraphViewer: ReverseDFSFrom the leaves, nodes in the order they are left *)

\* Mutant: a node is left when it is entered.
DFSStepLeavesFirst(g, w) ==
    LET top == Last(w.stack)
        rest == Front(w.stack)
        ins == SelectSeq(InputNodes(g, top.n), LAMBDA m : m \notin w.visited)
    IN  IF top.n \in w.visited THEN [w EXCEPT !.stack = rest]
        ELSE [visited |-> w.visited \cup {top.n}, order |-> Append(w.order, top.n),
              stack |-> rest \o [i \in DOMAIN ins |-> [n |-> ins[i], leave |-> FALSE]]]

DFSStep(g, w) ==
    LET top == Last(w.stack)
        rest == Front(w.stack)
        seen == w.visited \cup {top.n}
        ins == SelectSeq(InputNodes(g, top.n), LAMBDA m : m \notin seen)
    IN  IF top.leave THEN [w EXCEPT !.stack = rest, !.order = Append(@, top.n)]
        ELSE IF top.n \in w.visited THEN [w EXCEPT !.stack = rest]
        ELSE [w EXCEPT !.visited = seen,
                       !.stack = rest \o <<[n |-> top.n, leave |-> TRUE]>> \o
                                 [i \in DOMAIN ins |-> [n |-> ins[i], leave |-> FALSE]]]

RECURSIVE DFSFrom(_, _)
DFSFrom(g, w) == IF w.stack = <<>> THEN w ELSE DFSFrom(g, DFSStep(g, w))

GetNodesInTopologicalOrder(g) ==
    LET leaves == ByIndex(g, Leaves(g))
    IN  DFSFrom(g, [visited |-> {}, order |-> <<>>,
                    stack |-> [i \in DOMAIN leaves |-> [n |-> leaves[i], leave |-> FALSE]]]).order

=============================================================================
