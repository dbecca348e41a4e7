----------------------- MODULE InsertCastTransformer -----------------------
(***************************************************************************)
(* InsertCastTransformer: nodes that have no provider because they take    *)
(* float16 get casts around them and run on the CPU, and pairs of casts    *)
(* that undo each other are removed.                                       *)
(***************************************************************************)
EXTENDS Transformers, GraphResolve

IsInputFloat16(g, n) ==
    /\ g.node[n].ep # NoEp
    /\ \E a \in Range(g.node[n].in) : TypeOf(a) = "f16"

Neighbours(g, n) == {e.src : e \in InputEdges(g, n)} \cup {e.dst : e \in OutputEdges(g, n)}

\* ForceSingleNodeCPUFloat16ToFloat32, node by node: a node that has lost
\* its provider no longer counts for the next ones.
ForceFloat32(g) ==
    LET Force(h, n) ==
            IF /\ h.node[n].ep = kCpuExecutionProvider /\ IsInputFloat16(h, n)
               /\ \A m \in Neighbours(h, n) : ~IsInputFloat16(h, m)
            THEN [h EXCEPT !.node[n].ep = NoEp] ELSE h
    IN  IF Cardinality(Live(g)) <= 1 THEN g ELSE FoldLeft(Force, g, ByIndex(g, Live(g)))

\* AddCastNode; w carries the graph, the next id and input_def_updates.
AddCastNode(w, old, onInput) ==
    LET new == <<"CastDef", "f32", w.id>>
        from == IF onInput THEN new ELSE old
        to == IF onInput THEN old ELSE new
        cast == Node("Cast", DataType(TypeOf(to)), <<from>>, <<to>>, kCpuExecutionProvider)
    IN  [w EXCEPT !.g = AddNode(@, cast), !.id = @ + 1,
                  !.upd = IF onInput THEN @ ELSE (old :> new) @@ @,
                  !.out = IF onInput THEN (old :> new) @@ @ ELSE @]

Half(args) == SelectSeq(args, LAMBDA a : TypeOf(a) = "f16")

\* Mutant: an argument that was cast for another node is not replaced.
ReplacementDefsNew(w, v, node) ==
    v.out @@ [a \in Range(Half(node.in)) \ DOMAIN w.upd |-> v.upd[a]]

\* replacement_defs of a node that took the casts from w to v.
ReplacementDefs(w, v, node) == v.out @@ [a \in Range(Half(node.in)) |-> v.upd[a]]

\* One node of ApplyImpl: float16 inputs are cast once for all readers,
\* float16 outputs are cast back, and the node goes to the CPU.
CastNode(w, n) ==
    LET node == w.g.node[n]
        In(v, a) == IF a \in DOMAIN v.upd THEN v ELSE AddCastNode(v, a, FALSE)
        Out(v, a) == AddCastNode(v, a, TRUE)
        done == FoldLeft(Out, FoldLeft(In, [w EXCEPT !.out = <<>>], Half(node.in)), Half(node.out))
    IN  IF node.ep # NoEp \/ Half(node.in) = <<>> THEN w
        ELSE [done EXCEPT !.g.node[n] = [ReplaceDefs(node, ReplacementDefs(w, done, node))
                                            EXCEPT !.ep = kCpuExecutionProvider]]

\* Mutant: truth values are no exception.
BackCastsBool(g, n) ==
    {m \in {e.dst : e \in OutputEdges(g, n)} :
        /\ g.node[m].op = "Cast" /\ g.node[m].out[1] \notin g.outs
        /\ TypeOf(g.node[m].out[1]) = TypeOf(g.node[n].in[1])}

\* RemoveDuplicateCastTransformer at one Cast: the casts that read it and
\* lead back to its own type, unless the caller reads them. Casts from and
\* to truth values stay.
BackCasts(g, n) ==
    {m \in {e.dst : e \in OutputEdges(g, n)} :
        /\ "bool" \notin {TypeOf(g.node[n].in[1]), TypeOf(g.node[n].out[1])}
        /\ g.node[m].op = "Cast" /\ g.node[m].out[1] \notin g.outs
        /\ TypeOf(g.node[m].out[1]) = TypeOf(g.node[n].in[1])}

RemoveBackCast(g, n, m) ==
    LET in == CHOOSE e \in InputEdges(g, n) : TRUE
        E == OutputEdges(g, m)
    IN  IF InputEdges(g, n) = {}
        THEN RemoveNode(ReplaceNodeInputs(RemoveEdges(g, E), E, g.node[n].in[1]), m)
        ELSE RemoveNode(ReplaceDownstreamNodeInput(g, m, 1, in.src, in.ss), m)

RemoveDuplicateCast(g, n) ==
    LET back == BackCasts(g, n)
        Drop(h, m) == RemoveBackCast(h, n, m)
        h == FoldLeft(Drop, g, ByIndex(g, back))
        unread == Cardinality(back) = Cardinality(OutputEdges(g, n)) /\ g.node[n].out[1] \notin g.outs
    IN  IF n \notin Live(g) THEN g
        ELSE IF g.node[n].op # "Cast" \/ back = {} THEN g
        ELSE IF unread THEN RemoveNode(h, n) ELSE h

CastNodes(g) ==
    FoldLeft(CastNode, [g |-> g, id |-> 0, upd |-> <<>>, out |-> <<>>], GetNodesInTopologicalOrder(g)).g

RemoveDuplicateCasts(g) == Resolve(FoldLeft(RemoveDuplicateCast, g, ByIndex(g, Live(g))))

\* ApplyImpl; Resolve does nothing where no cast was added or removed.
WithCasts(g) == Resolve(CastNodes(ForceFloat32(g)))
InsertCasts(g) == RemoveDuplicateCasts(WithCasts(g))

=============================================================================
