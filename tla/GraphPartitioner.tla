-------------------------- MODULE GraphPartitioner --------------------------
(***************************************************************************)
(* GraphPartitioner: a device provider's capabilities are placed one by    *)
(* one, then the CPU takes every node it has a kernel for, and functions   *)
(* nobody took are inlined. A device may claim any set of nodes of the     *)
(* graph it was shown; compiling what it fused succeeds.                   *)
(***************************************************************************)
EXTENDS MemcpyTransformer

\* External: the inputs and outputs a provider lists for what it fuses, each
\* once, in the order of the nodes.
Collect(lists, keep) ==
    LET Add(acc, a) == IF a \in keep \ Range(acc) THEN Append(acc, a) ELSE acc
    IN  FoldLeft(Add, <<>>, FlattenSeq(lists))

ReadBy(g, N) == UNION {Range(g.node[n].in) : n \in N}
MadeIn(g, S) == UNION {Range(g.node[n].out) : n \in S}

MetaInputs(g, S) ==
    LET order == ByIndex(g, S)
    IN  Collect([i \in DOMAIN order |-> g.node[order[i]].in], ReadBy(g, S) \ MadeIn(g, S))

MetaOutputs(g, S) ==
    LET order == ByIndex(g, S)
    IN  Collect([i \in DOMAIN order |-> g.node[order[i]].out], g.outs \cup ReadBy(g, Live(g) \ S))

\* PlaceNode. Nodes that are gone or taken keep the capability from being used.
PlaceNode(g, view, S, fuse) ==
    IF \E n \in S : n \notin Live(g) THEN g
    ELSE IF \E n \in S : g.node[n].ep # NoEp THEN g
    ELSE IF fuse THEN FuseSubGraph(g, S, MetaInputs(view, S), MetaOutputs(view, S), kDevice)
    ELSE [g EXCEPT !.node = [n \in S |-> [@[n] EXCEPT !.ep = kDevice]] @@ @]

\* The CPU provider's turn.
PlaceOnCpu(g) ==
    LET taken == {n \in Live(g) : g.node[n].ep = NoEp /\ CpuKernel(g.node[n])}
    IN  [g EXCEPT !.node = [n \in taken |-> [@[n] EXCEPT !.ep = kCpuExecutionProvider]] @@ @]

\* The first node without a provider that has a function body.
ToInline(g) == {n \in Live(g) : g.node[n].ep = NoEp /\ g.node[n].body # NoBody}

=============================================================================
