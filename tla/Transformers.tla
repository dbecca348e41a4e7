---------------------------- MODULE Transformers ----------------------------
(***************************************************************************)
(* What the graph transformers of core/optimizer do with the node they     *)
(* have come to. Each one walks the order of a GraphViewer made before its *)
(* first change, and only GraphTransformer::Apply resolves the graph after *)
(* it. Ranks are known and constants have the shapes a rewrite asks for;   *)
(* dimensions are known for graph inputs and initializers; kernels succeed *)
(* on constants.                                                           *)
(***************************************************************************)
EXTENDS GraphUtils, GraphValues

kCpuExecutionProvider == "CPU"
FloatTypes == {"f32", "f16"}
GemmActivations == {"Relu", "Sigmoid", "Tanh", "LeakyRelu"}
Activations == GemmActivations \cup {"Clip"}

\* A new name, made from that of arg.
GenerateNodeArgName(g, arg) ==
    LET known == DOMAIN g.inits \cup UNION {Range(g.node[n].in) \cup Range(g.node[n].out) : n \in Live(g)}
    IN  Append(arg, CHOOSE k \in 1..Cardinality(known) + 1 : Append(arg, k) \notin known)

\* A node fused later, in place of two.
Consumer(g, n) == (CHOOSE e \in OutputEdges(g, n) : TRUE).dst

\* The only reader of n is a node of type op on the same provider, and the
\* caller does not read it.
Fusable(g, n, op) ==
    /\ Cardinality(OutputEdges(g, n)) = 1
    /\ g.node[Consumer(g, n)].op = op
    /\ g.node[Consumer(g, n)].ep = g.node[n].ep
    /\ GetNodeOutputsInGraphOutputs(g, n) = {}

\* Input i of a node exists, and may not be changed by the caller.
Exists(node, i) == i \in DOMAIN node.in /\ node.in[i] # NoArg
ConstantInput(g, node, i) == Exists(node, i) /\ IsConstant(g, node.in[i])

FuseInto(g, n, op, id, in) ==
    FinalizeNodeFusion(AddNode(g, Node(op, id, in, <<>>, g.node[n].ep)), n, Consumer(g, n), g.next)

-----------------------------------------------------------------------------
\* External: the CPU provider's kernels. Functions have none, and only
\* operators that do not compute take float16.
CpuKernel(node) ==
    /\ node.body = NoBody
    /\ \/ node.op \in {"Identity", "Dropout", "Unsqueeze", "Reshape", "Shape", "Cast"}
       \/ \A i \in DOMAIN node.in : TypeOf(node.in[i]) # "f16"

Foldable(g, n) == g.node[n].op # "Fused" /\ AllNodeInputsAreConstant(g, n)

\* ConstantFolding. Without a CPU kernel the Info constructor throws.
\* Outputs become initializers one by one; at one that is no tensor the node
\* stays, with the initializers made so far.
FoldNode(g, n) ==
    LET node == g.node[n]
        args == [i \in DOMAIN node.in |-> g.inits[node.in[i]]]
        odd == {s \in DOMAIN node.out : TypeOf(node.out[s]) = "seq"}
        done == SelectSeq([s \in DOMAIN node.out |-> s], LAMBDA s : \A o \in odd : s < o)
        Add(h, s) == AddInitializedTensor(h, node.out[s], Computed(node.op, node.id, s, args))
        folded == FoldLeft(Add, g, done)
    IN  IF ~Foldable(g, n) THEN g
        ELSE IF ~CpuKernel(node) THEN Fail(g, "kernel")
        ELSE IF odd # {} THEN folded
        ELSE RemoveNode(RemoveNodeOutputEdges(folded, n), n)

MatMulAddFusion(g, n) ==
    LET matmul == g.node[n]
        add == g.node[Consumer(g, n)]
        c == IF matmul.out[1] = add.in[1] THEN add.in[2] ELSE add.in[1]
    IN  IF /\ matmul.op = "MatMul" /\ Fusable(g, n, "Add")
           /\ TypeOf(matmul.in[1]) = TypeOf(add.in[1]) /\ TypeOf(matmul.in[1]) \in FloatTypes
        THEN FuseInto(g, n, "Gemm", 0, Append(matmul.in, c)) ELSE g

\* For the CPU provider only. The activation and its attributes are
\* attributes of the new node.
GemmActivationFusion(g, n) ==
    LET act == g.node[Consumer(g, n)]
    IN  IF /\ g.node[n].op = "Gemm" /\ g.node[n].ep = kCpuExecutionProvider
           /\ \E op \in GemmActivations : Fusable(g, n, op)
        THEN FuseInto(g, n, "FusedGemm", <<act.op, act.id>>, g.node[n].in) ELSE g

\* For the CPU provider only. What the activation does, with its
\* parameters, is an attribute of the new node.
ConvActivationFusion(g, n) ==
    LET conv == g.node[n]
        act == g.node[Consumer(g, n)]
        bounds == [i \in 2..3 |-> IF Exists(act, i) THEN g.inits[act.in[i]] ELSE Missing]
        params == IF act.op = "Clip" THEN <<bounds[2], bounds[3]>> ELSE <<>>
    IN  IF /\ conv.op = "Conv" /\ conv.ep = kCpuExecutionProvider
           /\ \E op \in Activations : Fusable(g, n, op)
           /\ act.op = "Clip" => \A i \in 2..3 : Exists(act, i) => ConstantInput(g, act, i)
        THEN FuseInto(g, n, "FusedConv", <<conv.id, act.op, act.id, params>>, conv.in) ELSE g

-----------------------------------------------------------------------------
(* The rules of the level 1 RuleBasedGraphTransformer, by operator *)

EliminateIdentity(g, n) == IF CanRemoveNode(g, n) THEN RemoveNodeAndMerge(g, n) ELSE g

EliminateDropout(g, n) ==
    IF CanRemoveNode(g, n) /\ 2 \notin UsedOutputs(g, n) THEN RemoveNodeAndMerge(g, n) ELSE g

ReplaceByInitializer(g, n, arg, value) ==
    ReplaceNodeWithInitializer(AddInitializedTensor(g, arg, value), n, arg)

UnsqueezeElimination(g, n) ==
    LET in == g.node[n].in[1]
        new == GenerateNodeArgName(g, in)
    IN  IF ~IsConstant(g, in) THEN g
        ELSE IF NullOutputName(g, n) THEN Fail(g, "null")
        ELSE IF CanReplaceNodeWithInitializer(g, n, new)
        THEN ReplaceByInitializer(g, n, new, Computed("Unsqueeze", g.node[n].id, 1, <<g.inits[in]>>))
        ELSE g

HasDimValues(arg) == arg[1] # "node"

ShapeToInitializer(g, n) ==
    LET out == g.node[n].out[1]
    IN  IF ~HasDimValues(g.node[n].in[1]) THEN g
        ELSE IF NullOutputName(g, n) THEN Fail(g, "null")
        ELSE IF CanReplaceNodeWithInitializer(g, n, out) THEN ReplaceByInitializer(g, n, out, Dims)
        ELSE g

\* Slice takes starts, ends, axes and steps as inputs (opset 10). Steps are
\* only looked at if there are axes.
EliminateSlice(g, n) ==
    LET slice == g.node[n]
    IN  IF /\ CanRemoveNode(g, n)
           /\ ConstantInput(g, slice, 2) /\ ConstantInput(g, slice, 3)
           /\ Exists(slice, 4) =>
                  /\ ConstantInput(g, slice, 4)
                  /\ Exists(slice, 5) => ConstantInput(g, slice, 5) /\ g.inits[slice.in[5]] = Ones
           /\ g.inits[slice.in[2]] = Zeros /\ g.inits[slice.in[3]] = MaxInts
        THEN RemoveNodeAndMerge(g, n) ELSE g

\* A new initializer, named after arg, becomes input i of node n.
InputFromInitializer(g, n, i, arg, value) ==
    LET new == GenerateNodeArgName(g, arg)
        h == AddInitializedTensor(g, new, value)
    IN  [h EXCEPT !.node[n].in = IF i \in DOMAIN @ THEN [@ EXCEPT ![i] = new] ELSE Append(@, new)]

\* Clip takes min and max as inputs (opset 11). A min that is left out or
\* negative becomes zero.
FuseReluClip(g, n) ==
    LET next == Consumer(g, n)
        clip == g.node[next]
    IN  IF ~Fusable(g, n, "Clip") \/ ~CanRemoveNode(g, n) THEN g
        ELSE IF ~Exists(clip, 2)
        THEN InputFromInitializer(RemoveNodeAndMerge(g, n), next, 2, <<"min", TypeOf(clip.in[1])>>, Zeros)
        ELSE IF ~ConstantInput(g, clip, 2) THEN g
        ELSE IF Negative(g.inits[clip.in[2]])
        THEN InputFromInitializer(RemoveNodeAndMerge(g, n), next, 2, <<"min", TypeOf(clip.in[2])>>, Zeros)
        ELSE RemoveNodeAndMerge(g, n)

-----------------------------------------------------------------------------
(* A Conv takes up what follows it: constants of shapes that fit *)

ConvFusable(g, n, op) ==
    /\ Fusable(g, n, op)
    /\ Cardinality(InputEdges(g, Consumer(g, n))) = 1
    /\ \A m \in {n, Consumer(g, n)} : \A i \in 2..Len(g.node[m].in) : ConstantInput(g, g.node[m], i)

\* New weights W, and a new bias B named after arg.
Reweighted(g, n, W) == InputFromInitializer(g, n, 2, g.node[n].in[2], W)
Rebiased(g, n, arg, B) == InputFromInitializer(g, n, 3, arg, B)

ConvAddFusion(g, n) ==
    LET conv == g.node[n]
        c == g.node[Consumer(g, n)].in[2]
        biased == IF Len(conv.in) = 3
                  THEN Rebiased(g, n, conv.in[3], Plus(g.inits[conv.in[3]], g.inits[c]))
                  ELSE Rebiased(g, n, c, g.inits[c])
    IN  IF ConvFusable(g, n, "Add") THEN FinalizePairFusion(biased, n, Consumer(g, n)) ELSE g

ConvMulFusion(g, n) ==
    LET conv == g.node[n]
        c == g.node[Consumer(g, n)].in[2]
        scaled == Reweighted(g, n, Times(g.inits[conv.in[2]], g.inits[c]))
        both == IF Len(conv.in) = 3
                THEN Rebiased(scaled, n, c, Times(g.inits[conv.in[3]], g.inits[c])) ELSE scaled
    IN  IF ConvFusable(g, n, "Mul") THEN FinalizePairFusion(both, n, Consumer(g, n)) ELSE g

\* scale / sqrt(var + epsilon) multiplies the weights; mean and B go into
\* the bias. The optional outputs of the normalisation must not exist.
ConvBNFusion(g, n) ==
    LET conv == g.node[n]
        bn == g.node[Consumer(g, n)]
        Value(arg) == g.inits[arg]
        factor == Factor(bn.id, Value(bn.in[2]), Value(bn.in[5]))
        B == Value(bn.in[3])
        mean == Value(bn.in[4])
        bias == IF Len(conv.in) = 3
                THEN Plus(Times(Plus(Value(conv.in[3]), Minus(mean)), factor), B)
                ELSE Plus(B, Minus(Times(mean, factor)))
        scaled == Reweighted(g, n, Times(Value(conv.in[2]), factor))
    IN  IF ConvFusable(g, n, "BatchNormalization") /\ Len(bn.out) = 1
        THEN FinalizePairFusion(Rebiased(scaled, n, bn.in[3], bias), n, Consumer(g, n)) ELSE g

ApplyRulesOnNode(g, n) ==
    LET op == g.node[n].op
    IN  CASE op = "Identity"  -> EliminateIdentity(g, n)
          [] op = "Unsqueeze" -> UnsqueezeElimination(g, n)
          [] op = "Dropout"   -> EliminateDropout(g, n)
          [] op = "Shape"     -> ShapeToInitializer(g, n)
          [] op = "Slice"     -> EliminateSlice(g, n)
          [] op = "Relu"      -> FuseReluClip(g, n)
          [] op = "Conv"      -> ConvBNFusion(ConvMulFusion(ConvAddFusion(g, n), n), n)
          [] OTHER            -> g

=============================================================================
