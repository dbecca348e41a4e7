------------------------- MODULE MemcpyTransformer -------------------------
(***************************************************************************)
(* MemcpyTransformer for one device provider: initializers read on both    *)
(* sides are duplicated, and values made on one side and read on the other *)
(* go through a copy node.                                                 *)
(***************************************************************************)
EXTENDS Transformers, GraphResolve

kDevice == "Device"

\* External: the slots device kernels keep in host memory.
IsInputOnCpu(op, i) == <<op, i>> \in {<<"Reshape", 2>>, <<"MemcpyFromHost", 1>>}
IsOutputOnCpu(op, i) == <<op, i>> \in {<<"Shape", 1>>, <<"MemcpyToHost", 1>>}

HostInput(node, i) == node.ep # kDevice \/ IsInputOnCpu(node.op, i)
HostOutput(node, i) == node.ep # kDevice \/ IsOutputOnCpu(node.op, i)

\* ProcessDefs, for all nodes: what is read and made in which memory.
HostReads(g) == UNION {{g.node[n].in[i] : i \in {j \in DOMAIN g.node[n].in : HostInput(g.node[n], j)}} : n \in Live(g)}
DeviceReads(g) == UNION {{g.node[n].in[i] : i \in {j \in DOMAIN g.node[n].in : ~HostInput(g.node[n], j)}} : n \in Live(g)}
HostMakes(g) == UNION {{g.node[n].out[i] : i \in {j \in DOMAIN g.node[n].out : HostOutput(g.node[n], j)}} : n \in Live(g)}
DeviceMakes(g) == Produced(g) \ HostMakes(g)

ReplaceIn(g, N, replacements) ==
    [g EXCEPT !.node = [n \in N |-> ReplaceDefs(@[n], replacements)] @@ @]

\* ProcessInitializers: device nodes read a copy of the tensor, except of
\* what they keep on the host.
ProcessInitializers(g) ==
    LET both == DOMAIN g.inits \cap HostReads(g) \cap DeviceReads(g)
        copy == [a \in both |-> GenerateNodeArgName(g, a)]
        h == [g EXCEPT !.inits = @ @@ [a \in Range(copy) |-> @[CHOOSE b \in both : copy[b] = a]]]
        Moved(node) == both \ {node.in[i] : i \in {j \in DOMAIN node.in : HostInput(node, j)}}
        Replace(k, n) == ReplaceIn(k, {n}, [a \in Moved(k.node[n]) |-> copy[a]])
    IN  FoldLeft(Replace, h, ByIndex(g, {n \in Live(g) : g.node[n].ep = kDevice}))

\* BuildDefsMapping: the device nodes whose first slot with a is on the device.
FirstAt(args, a) == CHOOSE i \in DOMAIN args : args[i] = a /\ \A j \in DOMAIN args : args[j] = a => i <= j
DeviceNodes(g, a) ==
    {n \in Live(g) :
        LET node == g.node[n]
        IN  \/ a \in Range(node.in) /\ ~HostInput(node, FirstAt(node.in, a))
            \/ a \in Range(node.out) /\ ~HostOutput(node, FirstAt(node.out, a))}

\* Mutant: nobody reads or writes the new argument.
AddCopyNodeUnread(g, a, isInput, N) ==
    LET new == GenerateNodeArgName(g, a)
    IN  AddNode(g, IF isInput THEN Node("MemcpyFromHost", 0, <<a>>, <<new>>, kDevice)
                   ELSE Node("MemcpyToHost", 0, <<new>>, <<a>>, kDevice))

AddCopyNode(g, a, isInput, N) ==
    LET new == GenerateNodeArgName(g, a)
        copy == IF isInput THEN Node("MemcpyFromHost", 0, <<a>>, <<new>>, kDevice)
                ELSE Node("MemcpyToHost", 0, <<new>>, <<a>>, kDevice)
    IN  ReplaceIn(AddNode(g, copy), N, a :> new)

\* ModifyGraph. The sets are made before the initializers are processed,
\* the mapping before the first copy.
CopyArgs(h, toDevice, toHost) ==
    LET mapped == [a \in toDevice \cup toHost |-> DeviceNodes(h, a)]
        In(k, a) == AddCopyNode(k, a, TRUE, mapped[a])
        Out(k, a) == AddCopyNode(k, a, FALSE, mapped[a])
    IN  FoldLeft(Out, FoldLeft(In, h, SetToSeq(toDevice)), SetToSeq(toHost))

CopyAcross(g) ==
    Resolve(CopyArgs(ProcessInitializers(g),
                     DeviceReads(g) \cap ((g.ins \cap HostReads(g)) \cup HostMakes(g)),
                     DeviceMakes(g) \cap HostReads(g)))

=============================================================================
