--------------------------- MODULE GraphTransform ---------------------------
(***************************************************************************)
(* InferenceSession::TransformGraph on a loaded graph: level 1, placement, *)
(* levels 1 and 2, casts, copies. A pass of a transformer is a step for    *)
(* each node it changes (nodes it leaves alone change nothing) and a last  *)
(* one with the Resolve.                                                   *)
(***************************************************************************)
EXTENDS InsertCastTransformer, GraphPartitioner

CONSTANTS Models,       \* families of graphs to load
          Level1,       \* the lists of level 1 transformers a session may have
          Claimable,    \* the operators the device has kernels for
          Steps         \* max_num_graph_transformation_steps

VARIABLES g,            \* the graph
          stage,        \* where TransformGraph is
          list,         \* this session's level 1 transformers
          tr, step,     \* the transformer and the round of ApplyTransformers
          todo,         \* the nodes it has still to visit
          modified, changed,
          view,         \* <<the graph as the providers were shown it>>, or <<>>
          want,         \* what the loaded graph computes
          misjudged     \* History: a rewrite took a case it is not for

vars == <<g, stage, list, tr, step, todo, modified, changed, view, want, misjudged>>

Loading == 0
Partitioning == 2
Casting == 5
Copying == 6
Done == 7
Failed == 8
InPass == {1, 3, 4}

Transformers(s) == IF s = 4 THEN <<"GemmActivationFusion", "ConvActivationFusion">> ELSE list

Init ==
    /\ \E family \in Models : g \in family
    /\ list \in Level1
    /\ stage = Loading /\ tr = 1 /\ step = 1 /\ todo = <<>>
    /\ modified = FALSE /\ changed = FALSE
    /\ view = <<>> /\ want = <<>> /\ misjudged = FALSE

\* Go on with graph h at stage s; the first status that is not OK ends it.
Enter(h, s, t, k, c) ==
    /\ g' = h
    /\ stage' = IF h.err = "" THEN s ELSE Failed
    /\ tr' = t /\ step' = k /\ changed' = c /\ modified' = FALSE
    /\ todo' = IF h.err = "" /\ s \in InPass THEN GetNodesInTopologicalOrder(h) ELSE <<>>

\* Model::Load resolves the graph.
Load ==
    /\ stage = Loading
    /\ \E h \in {Resolve(g)} :
        /\ Enter(h, 1, 1, 1, FALSE)
        /\ want' = IF h.err = "" THEN [over \in SUBSET h.ovr |-> OutputValues(h, over)] ELSE <<>>
    /\ UNCHANGED <<list, view, misjudged>>

Rewritten(name, h, n) ==
    CASE name = "ConstantFolding"      -> FoldNode(h, n)
      [] name = "MatMulAddFusion"      -> MatMulAddFusion(h, n)
      [] name = "GemmActivationFusion" -> GemmActivationFusion(h, n)
      [] name = "ConvActivationFusion" -> ConvActivationFusion(h, n)
      [] name = "RuleBased"            -> ApplyRulesOnNode(h, n)

\* The i-th node the transformer came for is left, and it changes it.
Changes(i) ==
    /\ todo[i] \in Live(g)
    /\ Rewritten(Transformers(stage)[tr], g, todo[i]) # g

\* Two cases that a rule's condition lets through and its comment is not
\* about: a Relu that gives the Clip a bound and not what it clips, and a
\* Slice with steps and no axes.
Misjudged(h, n) ==
    \/ h.node[n].op = "Relu" /\ \E e \in OutputEdges(h, n) : e.ds # 1
    \/ h.node[n].op = "Slice" /\ Exists(h.node[n], 5) /\ ~Exists(h.node[n], 4)

\* A user's pair of casts to integers and back is taken for one that was
\* inserted.
CastsMisjudged(h) ==
    \E n \in Live(h) :
        /\ h.node[n].op = "Cast" /\ TypeOf(h.node[n].out[1]) = "i64"
        /\ BackCasts(h, n) # {}

\* A visit that changes the graph. Folding that stops half way does not
\* count as a modification.
VisitNode(name) ==
    /\ stage \in InPass /\ Transformers(stage)[tr] = name
    /\ \E i \in DOMAIN todo :
        /\ Changes(i) /\ \A k \in 1..i-1 : ~Changes(k)
        /\ \E h \in {Rewritten(name, g, todo[i])} :
            /\ g' = h
            /\ todo' = SubSeq(todo, i + 1, Len(todo))
            /\ modified' = (modified \/ Live(h) # Live(g))
            /\ stage' = IF h.err = "" THEN stage ELSE Failed
        /\ misjudged' = (misjudged \/ (name = "RuleBased" /\ Misjudged(g, todo[i])))
    /\ UNCHANGED <<list, tr, step, changed, view, want>>

PassOver == stage \in InPass /\ \A i \in DOMAIN todo : ~Changes(i)

\* GraphTransformer::Apply ends; ApplyTransformers goes on to the next
\* transformer, the next round if the graph changed, or returns.
EndPass ==
    /\ PassOver
    /\ \E h \in {IF modified THEN Resolve(g) ELSE g}, c \in {changed \/ modified} :
           IF tr < Len(Transformers(stage)) THEN Enter(h, stage, tr + 1, step, c)
           ELSE IF c /\ step < Steps THEN Enter(h, stage, 1, step + 1, FALSE)
           ELSE Enter(h, stage + 1, 1, 1, FALSE)
    /\ UNCHANGED <<list, view, want, misjudged>>

-----------------------------------------------------------------------------
\* Partition starts: a graph without nodes is left as it is.
StartPartition ==
    /\ stage = Partitioning /\ view = <<>>
    /\ IF Live(g) = {} THEN Enter(g, 3, 1, 1, FALSE) /\ UNCHANGED view
       ELSE view' = <<g>> /\ UNCHANGED <<g, stage, tr, step, todo, modified, changed>>
    /\ UNCHANGED <<list, want, misjudged>>

Shown == view[1]

\* A capability of the device: a node, or one or several that it fuses.
PlaceCapability(S, fuse) ==
    /\ stage = Partitioning /\ view # <<>>
    /\ \A n \in S : Shown.node[n].op \in Claimable
    /\ ~fuse => Cardinality(S) = 1
    /\ \E h \in {PlaceNode(g, Shown, S, fuse)} : h # g /\ g' = h
    /\ UNCHANGED <<stage, list, tr, step, todo, modified, changed, view, want, misjudged>>

\* The CPU's turn, Resolve, and the first function to inline with another
\* Resolve and another Partition.
EndPartition ==
    /\ stage = Partitioning /\ view # <<>>
    /\ view' = <<>>
    /\ \E h \in {Resolve(PlaceOnCpu(g))} :
           IF h.err = "" /\ ToInline(h) # {}
           THEN Enter(Resolve(InlineFunction(h, Min(ToInline(h)))), Partitioning, 1, 1, FALSE)
           ELSE Enter(h, 3, 1, 1, FALSE)
    /\ UNCHANGED <<list, want, misjudged>>

Placed(h) ==
    IF \E n \in Live(h) : h.node[n].ep = NoEp THEN Fail(h, "not implemented") ELSE h

\* Casts, and the check that every node has a provider.
InsertCast ==
    /\ stage = Casting
    /\ Enter(Placed(InsertCasts(g)), Copying, 1, 1, FALSE)
    /\ misjudged' = (misjudged \/ CastsMisjudged(WithCasts(g)))
    /\ UNCHANGED <<list, view, want>>

InsertCopies ==
    /\ stage = Copying
    /\ Enter(CopyAcross(g), Done, 1, 1, FALSE)
    /\ UNCHANGED <<list, view, want, misjudged>>

Next ==
    \/ Load
    \/ VisitNode("ConstantFolding") \/ VisitNode("MatMulAddFusion")
    \/ VisitNode("RuleBased") \/ VisitNode("GemmActivationFusion") \/ VisitNode("ConvActivationFusion")
    \/ EndPass
    \/ StartPartition
    \/ \E S \in (IF view = <<>> THEN {} ELSE SUBSET Live(Shown) \ {{}}), fuse \in BOOLEAN :
          PlaceCapability(S, fuse)
    \/ EndPartition
    \/ InsertCast \/ InsertCopies

Spec == Init /\ [][Next]_vars

-----------------------------------------------------------------------------
(* Properties *)

\* Among any nodes there is one that reads from none of them.
Acyclic(h) ==
    \A S \in SUBSET {n \in Live(h) : InputEdges(h, n) # {} /\ OutputEdges(h, n) # {}} \ {{}} :
        \E n \in S : \A e \in InputEdges(h, n) : e.src \notin S

\* PerformTopologicalSortAndCheckIsAcyclic refuses a graph exactly when its
\* edges have a cycle, also one that no leaf leads to, whoever made it: the
\* model, a rewrite, or a provider that fuses nodes around a third one.
SortDecidesAcyclicity ==
    /\ g.err = "cyclic" => ~Acyclic(g)
    /\ ~g.need => Acyclic(g)

Respects(order, h, E) ==
    /\ Len(order) = Cardinality(Live(h)) /\ Range(order) = Live(h)
    /\ \A e \in E : Position(order, e.src) < Position(order, e.dst)

\* Once Resolve has returned, a GraphViewer lists every node once and after
\* all it reads from, and so does the order Resolve keeps, but for what
\* Constant nodes give.
OrdersRespectEdges ==
    ~g.need /\ g.err = "" =>
        /\ Respects(GetNodesInTopologicalOrder(g), g, g.edges)
        /\ Respects(g.order, g, {e \in g.edges : g.node[e.src].op # kConstant})

\* While a transformer edits the graph, the edges never contradict the
\* arguments the nodes name, and an edge the names imply can only be missing
\* into a node the pass has added; a resolved graph has them all.
EdgesFollowDefs ==
    /\ stage \in InPass \cup {Casting, Copying, Done} =>
           /\ g.edges \subseteq Derived(g)
           /\ \A e \in Derived(g) \ g.edges : e.dst \notin Range(g.order)
    /\ ~g.need /\ g.err = "" => g.edges = Derived(g)

\* No edge or initializer helper meets the state it throws for, whatever the
\* transformers before it did to the nodes it is called on.
NothingThrows == g.err # "throw"

\* After every visit and every stage the graph computes for each output what
\* the loaded one does, whatever values the caller gives to the initializers
\* he may override; when copies have been made, if he overrides none. Three
\* rewrites do change the outputs (relu_clip_fusion.cc:124,
\* slice_elimination.cc:94, insert_cast_transformer.cc:133), and nothing is
\* claimed of a graph once one of them has been at work.
OutputsPreserved ==
    stage \notin {Loading, Failed} /\ view = <<>> /\ ~misjudged =>
        \A over \in (IF stage = Done THEN {{}} ELSE DOMAIN want) : OutputValues(g, over) = want[over]

\* In the final graph each node finds its inputs in the memory it expects:
\* where the producer put them, or, for what is given, where all readers
\* want it.
MemoryPlacement ==
    stage = Done =>
        \A n \in Live(g), i \in 1..3 : i \in DOMAIN g.node[n].in =>
            \A m \in Live(g), j \in 1..3 :
                /\ j \in DOMAIN g.node[m].out /\ g.node[m].out[j] = g.node[n].in[i]
                      => HostOutput(g.node[m], j) = HostInput(g.node[n], i)
                /\ j \in DOMAIN g.node[m].in /\ g.node[m].in[j] = g.node[n].in[i]
                      => HostInput(g.node[m], j) = HostInput(g.node[n], i)

\* Every node of the final graph is placed, and those on the CPU have a
\* kernel for the types they have by then, casts taken out again included.
PlacedWhereItRuns ==
    stage = Done => \A n \in Live(g) :
        \/ g.node[n].ep = kDevice
        \/ g.node[n].ep = kCpuExecutionProvider /\ CpuKernel(g.node[n])

=============================================================================
