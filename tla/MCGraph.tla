------------------------------ MODULE MCGraph ------------------------------
(***************************************************************************)
(* Graphs to load, in families: the digraphs on four nodes, and three      *)
(* nodes that the transformers, the partitioner or the copies are about.   *)
(***************************************************************************)
EXTENDS GraphTransform

NodeOut(i, t, s) == <<"node", t, i, s>>

\* A node of kind k. Attributes tell nodes apart but for kinds without any.
Make(k, i, t, in) ==
    LET id == IF k \in {"MatMul", "Add", "Mul", "Relu", "Clip", "Slice", "Identity", "Shape", "Reshape"} THEN 0 ELSE i
        out == CASE k = "Shape"   -> <<NodeOut(i, "i64", 1)>>
                 [] k = "Seq"     -> <<NodeOut(i, "seq", 1)>>
                 [] k = "Dropout" -> <<NodeOut(i, t, 1), NodeOut(i, t, 2)>>
                 [] k \in {"Identity", "Unsqueeze"} -> <<NodeOut(i, TypeOf(in[1]), 1)>>
                 [] OTHER         -> <<NodeOut(i, t, 1)>>
        inner == NodeOut(i, t, 9)
        body == CASE k = "Func" -> <<Node("Op", i, in, <<inner>>, NoEp), Node("Relu", 0, <<inner>>, out, NoEp)>>
                  [] k = "ConstantFunc" -> <<Node("Constant", i, <<>>, out, NoEp)>>
                  [] OTHER -> <<>>
    IN  [Node(k, id, in, out, NoEp) EXCEPT !.body = [ins |-> IF body = <<>> THEN <<>> ELSE in,
                                                     outs |-> IF body = <<>> THEN <<>> ELSE out, node |-> body]]

\* X is given, V has a default the caller may override, the others are
\* constants: N is negative, S, Z, U and E have the contents slices and
\* shapes take.
Arg(t) == [X |-> <<"X", t>>, V |-> <<"V", t>>, W |-> <<"W", t>>, N |-> <<"N", t>>,
           S |-> <<"S", "i64">>, Z |-> <<"Z", "i64">>, U |-> <<"U", "i64">>, E |-> <<"E", "i64">>]
Content == [V |-> "default", W |-> "W", N |-> "Negative", S |-> "S", Z |-> "Zeros", U |-> "Ones", E |-> "MaxInts"]
Loaded(nodes, t, outs) ==
    [node |-> nodes, next |-> Len(nodes) + 1, edges |-> {}, ins |-> {Arg(t).X}, outs |-> outs,
     inits |-> [a \in {Arg(t)[c] : c \in DOMAIN Content} |-> Term(Content[a[1]], 0, 0, <<>>)],
     ovr |-> {Arg(t).V}, need |-> TRUE, order |-> <<>>, err |-> ""]

-----------------------------------------------------------------------------
\* Graphs that Resolve refuses: an output made twice, an output nobody makes.
Malformed ==
    LET op(i, out) == Node("Op", i, <<Arg("f32").X>>, <<out>>, NoEp)
        out(i) == NodeOut(i, "f32", 1)
    IN  {Loaded(<<op(1, out(1)), op(2, out(1))>>, "f32", {out(1)}),
         Loaded(<<op(1, out(1)), op(2, out(2))>>, "f32", {out(3)})}

\* Every digraph on four nodes. Nodes nothing leads to read X, or are calls
\* of a function that gives a constant; a fourth node on its own has no
\* arguments at all.
Digraph(D, constants) ==
    LET Into(i) == SetToSortSeq({p[1] : p \in {q \in D : q[2] = i}}, <)
        node(i) == IF i = 4 /\ \A p \in D : 4 \notin Range(p) THEN Node("Op", 4, <<>>, <<>>, NoEp)
                   ELSE IF Into(i) # <<>> THEN Make("Op", i, "f32", [j \in DOMAIN Into(i) |-> NodeOut(Into(i)[j], "f32", 1)])
                   ELSE Make(IF constants THEN "ConstantFunc" ELSE "Op", i, "f32", <<Arg("f32").X>>)
    IN  Loaded([i \in 1..4 |-> node(i)], "f32", {NodeOut(1, "f32", 1)})
Digraphs(k, c) == {Digraph(D, c) : D \in kSubset(k, {p \in (1..4) \X (1..4) : p[1] # p[2]})}

-----------------------------------------------------------------------------
Typed(h) ==
    \A n \in Live(h) :
        LET node == h.node[n]
        IN  /\ node.op = "Reshape" => TypeOf(node.in[2]) = "i64"
            /\ node.op \in {"Dropout", "Unsqueeze", "Shape"} => TypeOf(node.in[1]) \in FloatTypes

\* Three nodes in a row or a fan; the caller reads the last, and the first too or not.
Three(t, First, Second(_), Third(_, _)) ==
    {{h \in UNION {{Loaded(<<a, b, c>>, t, {c.out[1]} \cup o) : c \in Third(a, b), o \in {{}, {a.out[1]}}} :
                      b \in Second(a)} : Typed(h)} : a \in First}

Unary(K, i, t, A) == {Make(k, i, t, <<a>>) : k \in K, a \in A}
CastTo(T, i, A) == {Node("Cast", DataType(t), <<a>>, <<NodeOut(i, t, 1)>>, NoEp) : t \in T, a \in A}
Binary(K, i, t, A, B) == {Make(k, i, t, <<a, b>>) : k \in K, a \in A, b \in B}

\* Nodes that do nothing, or whose value is known.
Eliminations(t) ==
    LET A == Arg(t)
    IN  Three(t, Unary({"Identity", "Dropout", "Unsqueeze", "Seq", "Op"}, 1, t, {A.X, A.W, A.V}),
              LAMBDA a : Unary({"Identity", "Dropout", "Unsqueeze", "Shape", "Op"}, 2, t, Range(a.out)),
              LAMBDA a, b : Unary({"Op", "Identity", "Seq"}, 3, t, Range(b.out))
                            \cup Binary({"Op"}, 3, t, {a.out[1]}, Range(b.out)))

\* Products and convolutions with what is added to them.
Fusions(t) ==
    LET A == Arg(t)
    IN  Three(t, Binary({"MatMul", "Conv"}, 1, t, {A.X, A.W}, {A.W, A.V}),
              LAMBDA a : Binary({"Add"}, 2, t, {a.out[1]}, {A.X, A.W, A.V, a.out[1]})
                         \cup Binary({"Add"}, 2, t, {A.W}, {a.out[1]})
                         \cup Binary({"Conv", "MatMul"}, 2, t, {A.X}, {A.W}),
              LAMBDA a, b : Unary({"Relu", "LeakyRelu", "Identity"}, 3, t, {a.out[1], b.out[1]})
                            \cup Binary({"Add"}, 3, t, {b.out[1]}, {a.out[1], A.W})
                            \cup Binary({"Add"}, 3, t, {a.out[1]}, {b.out[1]}))

\* Convolutions with what scales or normalises them, and activations.
Scalings(t) ==
    LET A == Arg(t)
        Scale(i, x) == Binary({"Mul", "Add"}, i, t, {x}, {A.W, A.N, A.V}) \cup Binary({"Mul"}, i, t, {A.W}, {x})
                       \cup {Make("BatchNormalization", i, t, <<x, A.W, b, A.N, v>>) : b \in {A.W, A.N}, v \in {A.W, A.V}}
        Act(i, x) == Unary({"Relu", "LeakyRelu", "Op"}, i, t, {x})
    IN  Three(t, Binary({"Conv"}, 1, t, {A.X}, {A.W, A.V}),
              LAMBDA a : Scale(2, a.out[1]),
              LAMBDA a, b : Scale(3, b.out[1]) \cup Act(3, b.out[1]) \cup Act(3, a.out[1]))

\* A Clip with each choice of bounds, after what may become part of it.
ClipOf(i, t, x) ==
    {Make("Clip", i, t, <<x>> \o b) : b \in
        {<<>>} \cup {<<min>> : min \in {Arg(t).N, Arg(t).W, Arg(t).V, Arg(t).X}}
        \cup {<<min, max>> : min \in {NoArg, Arg(t).N, Arg(t).W}, max \in {Arg(t).W, Arg(t).V}}}
Clips(t) ==
    LET A == Arg(t)
    IN  Three(t, Unary({"Relu", "Op"}, 1, t, {A.X, A.W}) \cup Binary({"Conv"}, 1, t, {A.X}, {A.W}),
              LAMBDA a : Unary({"Relu"}, 2, t, {a.out[1], A.X}) \cup ClipOf(2, t, a.out[1]),
              LAMBDA a, b : ClipOf(3, t, b.out[1]) \cup Binary({"Clip"}, 3, t, {a.out[1]}, {b.out[1]}))

\* Slices of everything and of less.
SliceOf(i, t, x, rest) ==
    {Make("Slice", i, t, <<x, s, e>> \o r) : s \in {Arg(t).Z, Arg(t).S}, e \in {Arg(t).E, Arg(t).S}, r \in rest}
Slices(t) ==
    LET A == Arg(t)
        rest == {<<>>, <<A.Z>>, <<NoArg, A.U>>} \cup {<<A.Z, u>> : u \in {A.U, A.S}}
    IN  Three(t, Unary({"Op", "Identity"}, 1, t, {A.X, A.V}),
              LAMBDA a : SliceOf(2, t, a.out[1], rest) \cup SliceOf(2, t, A.X, {<<>>}),
              LAMBDA a, b : SliceOf(3, t, b.out[1], {<<>>, <<A.Z>>}) \cup Unary({"Op"}, 3, t, {b.out[1]}))

\* Nodes the device may take, functions, casts, and slots in host memory.
Placements(t) ==
    LET A == Arg(t)
        Other(a) == IF t = "f32" THEN {} ELSE {"f16", "f32"} \ {TypeOf(a)}
    IN  Three(t, Unary({"Dev", "Shape", "Func"}, 1, t, {A.X, A.V}) \cup CastTo(Other(A.X), 1, {A.X, A.V}),
              LAMBDA a : Unary({"Dev", "Op"}, 2, t, {a.out[1], A.V})
                         \cup CastTo(Other(a.out[1]), 2, {a.out[1]}) \cup CastTo(Other(A.V), 2, {A.V})
                         \cup Binary({"Reshape"}, 2, t, {A.V}, {A.S}),
              LAMBDA a, b : Binary({"Dev", "Op"}, 3, t, {b.out[1]}, {a.out[1], A.V})
                            \cup Binary({"Reshape"}, 3, t, {A.X}, {a.out[1], A.S}))

\* Chains of the user's own casts, to types that hold less or more.
Casts ==
    LET A == Arg("f32")
        T == {"f16", "f32", "i64", "bool"}
    IN  Three("f32", CastTo({"f16", "i64", "bool"}, 1, {A.X, A.W}) \cup Unary({"Shape"}, 1, "f32", {A.X}),
              LAMBDA a : CastTo(T, 2, {a.out[1]}) \cup Unary({"Identity"}, 2, "f32", {a.out[1]}),
              LAMBDA a, b : CastTo(T, 3, {b.out[1]}) \cup Unary({"Op"}, 3, "f32", {b.out[1]})
                            \cup Binary({"Op"}, 3, "f32", {a.out[1]}, {b.out[1]}))

\* Two products of which one is added to the other one's sum.
MCMatMulAdds ==
    LET A == Arg("f32")
        product(i) == Make("MatMul", i, "f32", <<A.X, A.W>>)
        out(i) == NodeOut(i, "f32", 1)
        sum(i, a, b) == Make("Add", i, "f32", <<a, b>>)
    IN  {{Loaded(<<product(1), sum(2, out(1), b), product(3), sum(4, out(3), c)>>, "f32", {out(2), out(4)}) :
             b \in {A.W, A.V}, c \in {A.X, A.W, out(1), out(2)}}}

\* A Relu that gives a Clip its max, and steps without axes (see Misjudged).
MCClipMax ==
    LET A == Arg("f32")
        relu == Make("Relu", 1, "f32", <<A.X>>)
    IN  {{Loaded(<<relu, Make("Clip", 2, "f32", <<A.X, A.W, relu.out[1]>>)>>, "f32", {NodeOut(2, "f32", 1)})}}
MCSliceSteps ==
    LET A == Arg("f32")
        op == Make("Op", 1, "f32", <<A.X>>)
    IN  {{Loaded(<<op, s, Make("Op", 3, "f32", s.out)>>, "f32", {NodeOut(3, "f32", 1)}) :
             s \in SliceOf(2, "f32", op.out[1], {<<NoArg, A.S>>})}}

MCLevel1 == {<<"ConstantFolding", "MatMulAddFusion", "RuleBased">>, <<"RuleBased", "MatMulAddFusion">>}
MCModels ==
    UNION {{Malformed}, {Digraphs(k, c) : k \in 0..12, c \in BOOLEAN}, Eliminations("f32"), Fusions("f32"),
           Scalings("f32"), Clips("f32"), Slices("f32"), Placements("f32"), Placements("f16"), Casts, MCClipMax, MCSliceSteps}
MCClaimable == {"Dev", "Reshape", "Shape", "Relu", "Func"}
=============================================================================
