---------------------------- MODULE GraphValues ----------------------------
(***************************************************************************)
(* What a graph computes, to compare a graph before and after a rewrite: a *)
(* value is a term <<operator, attributes, output, arguments>>. Sums are   *)
(* bags of their parts, so that a bias folded into a Conv or a Gemm is the *)
(* sum it replaces; nodes that only move or rename a value are transparent;*)
(* values are compared up to the precision and the range of float16, so    *)
(* that casts lose something only on the way to integers and to truth      *)
(* values; every tensor has the same dimensions.                           *)
(***************************************************************************)
EXTENDS Graph, Bags

Term(op, id, slot, args) == <<op, id, slot, args>>
Missing == Term("Missing", 0, 0, <<>>)

Parts(t) == IF t[1] = "Sum" THEN t[4][1] ELSE SetToBag({t})
Plus(s, t) == Term("Sum", 0, 0, <<Parts(s) (+) Parts(t)>>)

\* A part that is scaled holds the bag of its factors; what scales the
\* weights of a Conv scales its result.
Scaled(p, factors) ==
    IF p[1] = "Mul" THEN Term("Mul", 0, 0, <<p[4][1], p[4][2] (+) factors>>)
    ELSE Term("Mul", 0, 0, <<p, factors>>)
Times(t, c) ==
    LET one == SetToBag({c})
        Scale(p) == Scaled(p, one)
    IN  IF t[1] = "Sum" THEN Term("Sum", 0, 0, <<BagOfAll(Scale, t[4][1])>>) ELSE Scaled(t, one)
Minus(t) == Times(t, Term("MinusOne", 0, 0, <<>>))
Factor(epsilon, scale, var) == Term("Factor", epsilon, 0, <<scale, var>>)
Convolved(id, x, W) ==
    IF W[1] = "Mul" THEN Scaled(Term("Conv", id, 1, <<x, W[4][1]>>), W[4][2])
    ELSE Term("Conv", id, 1, <<x, W>>)

\* Contents of constants that the rewrites look at.
Zeros == Term("Zeros", 0, 0, <<>>)
Ones == Term("Ones", 0, 0, <<>>)
MaxInts == Term("MaxInts", 0, 0, <<>>)
Negative(t) == t[1] = "Negative"

\* Activations. A Relu applied twice is one, and a Clip does what a Relu
\* before it does if its min is known.
Bound(args, i) == IF i \in DOMAIN args THEN args[i] ELSE Missing
Activated(op, id, args) ==
    LET x == args[1]
        min == Bound(args, 2)
        Clip(t, low) == Term("Clip", 0, 1, <<t, low, Bound(args, 3)>>)
    IN  IF op = "Relu" /\ x[1] = "Relu" THEN x
        ELSE IF op # "Clip" THEN Term(op, id, 1, args)
        ELSE IF x[1] # "Relu" THEN Clip(x, min)
        ELSE IF min = Missing \/ Negative(min) THEN Clip(x[4][1], Zeros)
        ELSE IF min[1] \in {"W", "Zeros"} THEN Clip(x[4][1], min)
        ELSE Clip(x, min)

\* TensorProto_DataType, the attribute "to" of a Cast.
DataType(t) == [f32 |-> 1, i64 |-> 7, bool |-> 9, f16 |-> 10][t]

\* Cast: floating point numbers are truncated to integers and compared with
\* zero for truth values; integers and truth values fit into every type.
Whole(t) == t[1] \in {"Truncated", "Truth", "Dims", "S", "Zeros", "Ones", "MaxInts"}
Converted(to, t) ==
    CASE to = DataType("i64") /\ ~Whole(t) -> Term("Truncated", 0, 1, <<t>>)
      [] to = DataType("bool") /\ t[1] # "Truth" -> Term("Truth", 0, 1, <<t>>)
      [] OTHER -> t

WholeSlice(args) ==
    args[2] = Zeros /\ args[3] = MaxInts /\ Bound(args, 5) \in {Ones, Missing}

WithBias(id, args) ==
    LET sum == Convolved(id, args[1], args[2])
    IN  IF Len(args) = 3 THEN Plus(sum, args[3]) ELSE sum
Product(args) == Term("MatMul", 0, 1, <<args[1], args[2]>>)
Dims == Term("Dims", 0, 0, <<>>)

\* Output s of a kernel.
Computed(op, id, s, args) ==
    CASE op \in {"Identity", "MemcpyFromHost", "MemcpyToHost"} -> args[1]
      [] op = "Cast" -> Converted(id, args[1])
      [] op = "Dropout" /\ s = 1 -> args[1]
      [] op = "Add" -> Plus(args[1], args[2])
      [] op = "Mul" -> Times(args[1], args[2])
      [] op = "BatchNormalization" ->
             LET factor == Factor(id, args[2], args[5])
             IN  Plus(Plus(Times(args[1], factor), args[3]), Minus(Times(args[4], factor)))
      [] op = "Conv" -> WithBias(id, args)
      [] op = "FusedConv" -> Activated(id[2], id[3], <<WithBias(id[1], args)>> \o id[4])
      [] op \in {"Relu", "Clip"} -> Activated(op, id, args)
      [] op = "Slice" /\ WholeSlice(args) -> args[1]
      [] op = "Gemm" -> Plus(Product(args), args[3])
      [] op = "FusedGemm" -> Activated(id[1], id[2], <<Plus(Product(args), args[3])>>)
      [] op = "Shape" -> Dims
      [] OTHER -> Term(op, id, s, args)

Position(seq, a) == CHOOSE i \in DOMAIN seq : seq[i] = a

\* The value of argument a among the nodes, given is what they are given.
\* A body takes its node's values by position. No path is longer than fuel.
RECURSIVE ValueOf(_, _, _, _)
ValueOf(node, given, a, fuel) ==
    LET makers == {n \in DOMAIN node : a \in Range(node[n].out)}
    IN  IF a \in DOMAIN given THEN given[a]
        ELSE IF makers = {} \/ fuel = 0 THEN Missing
        ELSE LET m == node[CHOOSE n \in makers : TRUE]
                 s == Position(m.out, a)
                 args == [i \in DOMAIN m.in |-> ValueOf(node, given, m.in[i], fuel - 1)]
                 inside == [b \in Range(m.body.ins) |-> args[Position(m.body.ins, b)]]
             IN  IF m.body = NoBody THEN Computed(m.op, m.id, s, args)
                 ELSE ValueOf(m.body.node, inside, m.body.outs[s], Cardinality(DOMAIN m.body.node))

\* What the caller gives: inputs, and values of his own for the
\* initializers in over; the other initializers hold what they hold.
Given(g, over) ==
    [a \in g.ins \cup DOMAIN g.inits |->
        IF a \in g.ins \cup over THEN Term(a[1], 0, 0, <<>>) ELSE g.inits[a]]

OutputValues(g, over) ==
    [a \in g.outs |-> ValueOf(g.node, Given(g, over \cap g.ovr), a, Cardinality(Live(g)))]

=============================================================================
