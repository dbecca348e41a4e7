-------------------------- MODULE AllocationPlanner --------------------------
(***************************************************************************)
(* PlannerImpl of onnxruntime/core/framework/allocation_planner.cc: which  *)
(* OrtValue lives in whose buffer, and after which step of the execution   *)
(* plan a buffer is released.  The planner is sequential; an action is one *)
(* turn of one of its loops, at says where it stands, and Init chooses the *)
(* graph it works on.                                                      *)
(*                                                                         *)
(* A value's size stands for its location, its element size and its shape, *)
(* which is all SameSize and FindReusableTensor compare; 0 is a shape that *)
(* is not known, a string tensor or no tensor at all, which are never the  *)
(* same as anything.  Steps, arguments and to_be_freed count from 1.  Every*)
(* node has a kernel and a provider (the planner fails otherwise).         *)
(***************************************************************************)
EXTENDS Integers, Sequences, FiniteSets, FiniteSetsExt, Functions

CONSTANTS
    Graphs,  \* The graphs to plan for
    NoValue  \* An argument that does not exist

-----------------------------------------------------------------------------
(* A graph: nodes, a sequence in topological order, and the sets of values *)
(* preexisting (inputs, outer scope), weights, graph_outputs, nontensor;   *)
(* size, a function on its values.  A node: sequences inputs, implicit and *)
(* outputs of values or NoValue; alias and inplace, sequences of pairs     *)
(* <<input, output>>; async (ExecQueueId # 0); loop_identity (an Identity  *)
(* in the body of a Loop).  parallel: the session runs it in parallel.     *)

Exists(v) == v # NoValue

\* Values that exist before the graph runs and are not its own.
Given(g) == g.preexisting \cup g.weights

\* Arguments of a node in the order in which ComputeReusePlan counts them
\* down: inputs, implicit inputs, outputs.
Arguments(n) == n.inputs \o n.implicit \o n.outputs
Uses(n) == Range(n.inputs \o n.implicit) \ {NoValue}
Defs(n) == Range(n.outputs) \ {NoValue}

\* Output j of step p is v.
DefinedAt(g, v, p, j) ==
    p \in DOMAIN g.nodes /\ j \in DOMAIN g.nodes[p].outputs /\ g.nodes[p].outputs[j] = v

NodeType(V) == [inputs : Seq(V \cup {NoValue}), implicit : Seq(V \cup {NoValue}),
                outputs : Seq(V \cup {NoValue}), alias : Seq(Nat \X Nat),
                inplace : Seq(Nat \X Nat), async : BOOLEAN, loop_identity : BOOLEAN]

\* What the kernels of the repository declare: an output aliases one input,
\* no kernel both aliases and works in place, those that do either leave out
\* no output before one that exists, and Identity passes on its input.
KernelOK(n) ==
    /\ \A k, l \in DOMAIN n.alias : n.alias[k][2] = n.alias[l][2] => k = l
    /\ n.alias = <<>> \/ n.inplace = <<>>
    /\ n.alias # <<>> \/ n.inplace # <<>> =>
          \A i, j \in DOMAIN n.outputs : i < j /\ Exists(n.outputs[j]) => Exists(n.outputs[i])
    /\ n.loop_identity => /\ n.inputs # <<>> /\ Exists(n.inputs[1])
                          /\ Len(n.outputs) = 1 /\ n.alias = << <<1, 1>> >>

\* What Graph::Resolve guarantees: a value has one definition, which comes
\* before its uses in the order of the nodes.
GraphOK(g) ==
    LET V == DOMAIN g.size
    IN  /\ IsFiniteSet(V) /\ NoValue \notin V
        /\ g.nodes \in Seq(NodeType(V)) /\ g.nodes # <<>>
        /\ Given(g) \subseteq V /\ g.graph_outputs \subseteq V
        /\ \A p \in DOMAIN g.nodes : KernelOK(g.nodes[p])
        /\ \A p, q \in DOMAIN g.nodes :
              \A i \in DOMAIN g.nodes[p].outputs, j \in DOMAIN g.nodes[q].outputs :
                 Exists(g.nodes[p].outputs[i]) /\ g.nodes[p].outputs[i] = g.nodes[q].outputs[j]
                     => p = q /\ i = j
        /\ \A p \in DOMAIN g.nodes : Defs(g.nodes[p]) \cap Given(g) = {}
        /\ \A p \in DOMAIN g.nodes : \A v \in Uses(g.nodes[p]) \ Given(g) :
              \E q \in 1 .. p - 1 : v \in Defs(g.nodes[q])
        /\ \A v \in g.graph_outputs \ Given(g) : \E q \in DOMAIN g.nodes : v \in Defs(g.nodes[q])

ASSUME PlannerGraphs == \A g \in Graphs : GraphOK(g)

VARIABLES
    graph,          \* graph_viewer_ and the kernel definitions of its nodes
    at,             \* Where the planner stands: phase, step, argument
    usecount,       \* Static reference count of each buffer
    buffer,         \* reused_buffer_index: the value whose buffer is used
    alloc_kind,     \* plan_.allocation_plan[v].alloc_kind
    freelist,       \* Dead buffers, the latest first: value and point
    dealloc,        \* to_be_freed, and of each step the range it releases
    node_has_fence  \* Steps at which fences are looked at

plannerVars == <<graph, at, usecount, buffer, alloc_kind, freelist, dealloc, node_has_fence>>

-----------------------------------------------------------------------------
\* context_.IsParallelExecutionEnabled()
Parallel == graph.parallel

Values == DOMAIN graph.size
Steps == DOMAIN graph.nodes

\* create_fence_if_async: an asynchronous node has the value as argument.
Fenced(v) ==
    \E p \in Steps : graph.nodes[p].async /\ v \in Uses(graph.nodes[p]) \cup Defs(graph.nodes[p])

SameSize(u, v) ==
    Exists(u) /\ Exists(v) /\ graph.size[u] # 0 /\ graph.size[u] = graph.size[v]

NoDealloc == [to_be_freed |-> <<>>, from |-> [p \in Steps |-> 1], to |-> [p \in Steps |-> 0],
              prev |-> 1, has_prev |-> FALSE]

PlannerInit ==
    /\ graph \in Graphs
    /\ at = [phase |-> "count", step |-> 1, arg |-> 1]
    /\ usecount = [v \in Values |-> 0]
    /\ buffer = [v \in Values |-> v]
    /\ alloc_kind = [v \in Values |-> "kAllocate"]
    /\ freelist = <<>>
    /\ dealloc = NoDealloc
    /\ node_has_fence = [p \in Steps |-> FALSE]

\* The arguments of a step that exist: step, position, value.
NodeClaims(g, p) ==
    LET args == Arguments(g.nodes[p])
    IN  {<<p, k, args[k]>> : k \in {i \in DOMAIN args : Exists(args[i])}}

\* Mutant: the caller's use of the graph outputs is not counted.
ClaimsNoCaller(g) ==
    (UNION {NodeClaims(g, p) : p \in DOMAIN g.nodes}) \cup {<<0, 1, v>> : v \in Given(g)}

\* What counts as a use of a value: each argument of a node, the definition
\* included, what was there before, and the caller's use of an output.
Claims(g) ==
    (UNION {NodeClaims(g, p) : p \in DOMAIN g.nodes})
        \cup {<<0, 1, v>> : v \in Given(g)}
        \cup {<<0, 2, v>> : v \in g.graph_outputs}

UseCount(v) == Cardinality({c \in Claims(graph) : c[3] = v})

\* ComputeUseCounts, and the start of ComputeReusePlan.
ComputeUseCounts ==
    /\ at.phase = "count"
    /\ usecount' = [v \in Values |-> UseCount(v)]
    /\ alloc_kind' = [v \in Values |-> CASE v \in graph.weights -> "kAllocateStatically"
                                         [] v \in graph.preexisting -> "kPreExisting"
                                         [] OTHER -> "kAllocate"]
    /\ at' = [at EXCEPT !.phase = "outputs"]
    /\ UNCHANGED <<graph, buffer, freelist, dealloc, node_has_fence>>

-----------------------------------------------------------------------------
(* ComputeReusePlan, the loop over the outputs of a node *)

Node == graph.nodes[at.step]
Current == Node.outputs[at.arg]

PlanningOutput == at.phase = "outputs" /\ at.arg \in DOMAIN Node.outputs

\* output_arg_num: it counts only the outputs that exist, yet is compared
\* with the kernel's pairs and used to index the outputs.
OutputArgNum == Cardinality({k \in 1 .. at.arg : Exists(Node.outputs[k])})

\* A pair of the kernel that is about this output, with an input to use.
Applies(pair) ==
    /\ pair[2] = OutputArgNum
    /\ pair[1] \in DOMAIN Node.inputs
    /\ Exists(Node.inputs[pair[1]])

AliasPairs == {k \in DOMAIN Node.alias : Applies(Node.alias[k])}

\* Mutant: whether others still use the input is not looked at.
InplacePairsStillUsed ==
    {k \in DOMAIN Node.inplace :
        /\ Applies(Node.inplace[k])
        /\ SameSize(Node.inputs[Node.inplace[k][1]], Node.outputs[OutputArgNum])}

\* Inputs the kernel may overwrite, this being their last use.
InplacePairs ==
    {k \in DOMAIN Node.inplace :
        /\ Applies(Node.inplace[k])
        /\ usecount[buffer[Node.inputs[Node.inplace[k][1]]]] = 1
        /\ SameSize(Node.inputs[Node.inplace[k][1]], Node.outputs[OutputArgNum])}

\* The first input that an alias pair names, else the first of an in-place
\* pair, else NoValue.
FindReusableInput ==
    IF AliasPairs # {} THEN Node.inputs[Node.alias[Min(AliasPairs)][1]]
    ELSE IF InplacePairs # {} THEN Node.inputs[Node.inplace[Min(InplacePairs)][1]]
    ELSE NoValue

\* The entries of the free list that FindReusableTensor would take.
ReusableEntries ==
    {k \in DOMAIN freelist : ~ Fenced(Current) /\ SameSize(freelist[k].value, Current)}

Reuse(reused, kind) ==
    LET original == buffer[reused]
    IN  /\ buffer' = [buffer EXCEPT ![Current] = original]
        /\ usecount' = [usecount EXCEPT ![original] = @ + usecount[Current]]
        /\ alloc_kind' = [alloc_kind EXCEPT ![Current] = kind]

NextOutput == at' = [at EXCEPT !.arg = @ + 1]

SkipOutput ==
    /\ PlanningOutput /\ ~ Exists(Current)
    /\ NextOutput
    /\ UNCHANGED <<graph, usecount, buffer, alloc_kind, freelist, dealloc, node_has_fence>>

\* An output of the graph shares a buffer only with the preexisting input
\* of an Identity in a Loop body.
PlanGraphOutput ==
    /\ PlanningOutput /\ Exists(Current)
    /\ Current \in graph.graph_outputs
    /\ IF Node.loop_identity /\ alloc_kind[Node.inputs[1]] = "kPreExisting"
       THEN Reuse(Node.inputs[1], "kShare")
       ELSE /\ alloc_kind' = [alloc_kind EXCEPT ![Current] = "kAllocateOutput"]
            /\ UNCHANGED <<usecount, buffer>>
    /\ NextOutput
    /\ UNCHANGED <<graph, freelist, dealloc, node_has_fence>>

Plannable == PlanningOutput /\ Exists(Current) /\ Current \notin graph.graph_outputs

PlanReuseInput ==
    /\ Plannable /\ Current \notin graph.nontensor
    /\ FindReusableInput # NoValue
    /\ Reuse(FindReusableInput, "kReuse")
    /\ NextOutput
    /\ UNCHANGED <<graph, freelist, dealloc, node_has_fence>>

\* Mutant: the buffer that is reused stays on the free list.
PlanReuseTensorKeeps ==
    /\ Plannable /\ Current \notin graph.nontensor
    /\ FindReusableInput = NoValue
    /\ ~ Parallel
    /\ \E k \in ReusableEntries :
          /\ \A j \in ReusableEntries : k <= j
          /\ Reuse(freelist[k].value, "kReuse")
    /\ NextOutput
    /\ UNCHANGED <<graph, freelist, dealloc, node_has_fence>>

\* The most recently freed buffer that fits leaves the free list.
PlanReuseTensor ==
    /\ Plannable /\ Current \notin graph.nontensor
    /\ FindReusableInput = NoValue
    /\ ~ Parallel
    /\ \E k \in ReusableEntries :
          /\ \A j \in ReusableEntries : k <= j
          /\ Reuse(freelist[k].value, "kReuse")
          /\ freelist' = SubSeq(freelist, 1, k - 1) \o SubSeq(freelist, k + 1, Len(freelist))
    /\ NextOutput
    /\ UNCHANGED <<graph, dealloc, node_has_fence>>

PlanAllocate ==
    /\ Plannable
    /\ \/ Current \in graph.nontensor
       \/ FindReusableInput = NoValue /\ (Parallel \/ ReusableEntries = {})
    /\ alloc_kind' = [alloc_kind EXCEPT ![Current] = "kAllocate"]
    /\ NextOutput
    /\ UNCHANGED <<graph, usecount, buffer, freelist, dealloc, node_has_fence>>

OutputsPlanned ==
    /\ at.phase = "outputs" /\ at.arg \notin DOMAIN Node.outputs
    /\ at' = [at EXCEPT !.phase = "release", !.arg = 1]
    /\ UNCHANGED <<graph, usecount, buffer, alloc_kind, freelist, dealloc, node_has_fence>>

\* One turn of the loops that count down a node's arguments.
CountDownUse ==
    LET original == buffer[Arguments(Node)[at.arg]]
    IN  /\ at.phase = "release" /\ at.arg \in DOMAIN Arguments(Node)
        /\ Exists(Arguments(Node)[at.arg])
        /\ usecount' = [usecount EXCEPT ![original] = @ - 1]
        /\ freelist' = IF usecount[original] = 1
                       THEN <<[value |-> original, point |-> at.step]>> \o freelist
                       ELSE freelist
        /\ at' = [at EXCEPT !.arg = @ + 1]
        /\ UNCHANGED <<graph, buffer, alloc_kind, dealloc, node_has_fence>>

SkipArgument ==
    /\ at.phase = "release" /\ at.arg \in DOMAIN Arguments(Node)
    /\ ~ Exists(Arguments(Node)[at.arg])
    /\ at' = [at EXCEPT !.arg = @ + 1]
    /\ UNCHANGED <<graph, usecount, buffer, alloc_kind, freelist, dealloc, node_has_fence>>

NextStep ==
    /\ at.phase = "release" /\ at.arg \notin DOMAIN Arguments(Node)
    /\ at' = IF at.step < Len(graph.nodes)
             THEN [phase |-> "outputs", step |-> at.step + 1, arg |-> 1]
             ELSE [phase |-> "fence", step |-> 1, arg |-> Len(freelist)]
    /\ UNCHANGED <<graph, usecount, buffer, alloc_kind, freelist, dealloc, node_has_fence>>

-----------------------------------------------------------------------------
HasFence(v) == Fenced(v) \/ (alloc_kind[v] = "kReuse" /\ Fenced(buffer[v]))

ComputeFenceCheck ==
    /\ at.phase = "fence"
    /\ node_has_fence' = [p \in Steps |-> \E v \in Uses(graph.nodes[p]) \cup Defs(graph.nodes[p]) :
                                              HasFence(v)]
    /\ at' = [at EXCEPT !.phase = "dealloc"]
    /\ UNCHANGED <<graph, usecount, buffer, alloc_kind, freelist, dealloc>>

\* Mutant: the previous range is closed one entry too late.
GenerateDeallocationPlanOffByOne ==
    LET entry == freelist[at.arg]
        current == Len(dealloc.to_be_freed) + 1
        fresh == entry.point # dealloc.prev
    IN  /\ at.phase = "dealloc" /\ at.arg > 0
        /\ dealloc' =
             [to_be_freed |-> Append(dealloc.to_be_freed, entry.value),
              to |-> IF fresh /\ dealloc.has_prev
                     THEN [dealloc.to EXCEPT ![dealloc.prev] = current] ELSE dealloc.to,
              from |-> IF fresh THEN [dealloc.from EXCEPT ![entry.point] = current] ELSE dealloc.from,
              prev |-> entry.point, has_prev |-> dealloc.has_prev \/ fresh]
        /\ at' = [at EXCEPT !.arg = @ - 1]
        /\ UNCHANGED <<graph, usecount, buffer, alloc_kind, freelist, node_has_fence>>

\* GenerateDeallocationPlan, one entry, from the back of the free list.
\* prev_dealloc_point starts as the first step.
GenerateDeallocationPlan ==
    LET entry == freelist[at.arg]
        current == Len(dealloc.to_be_freed) + 1
        fresh == entry.point # dealloc.prev
    IN  /\ at.phase = "dealloc" /\ at.arg > 0
        /\ dealloc' =
             [to_be_freed |-> Append(dealloc.to_be_freed, entry.value),
              to |-> IF fresh /\ dealloc.has_prev
                     THEN [dealloc.to EXCEPT ![dealloc.prev] = current - 1] ELSE dealloc.to,
              from |-> IF fresh THEN [dealloc.from EXCEPT ![entry.point] = current] ELSE dealloc.from,
              prev |-> entry.point, has_prev |-> dealloc.has_prev \/ fresh]
        /\ at' = [at EXCEPT !.arg = @ - 1]
        /\ UNCHANGED <<graph, usecount, buffer, alloc_kind, freelist, node_has_fence>>

\* The last range is closed and the plan is complete.
FinishPlan ==
    /\ at.phase = "dealloc" /\ at.arg = 0
    /\ dealloc' = IF dealloc.has_prev
                  THEN [dealloc EXCEPT !.to[dealloc.prev] = Len(dealloc.to_be_freed)]
                  ELSE dealloc
    /\ at' = [at EXCEPT !.phase = "planned"]
    /\ UNCHANGED <<graph, usecount, buffer, alloc_kind, freelist, node_has_fence>>

PlannerNext ==
    \/ ComputeUseCounts
    \/ SkipOutput \/ PlanGraphOutput \/ PlanReuseInput \/ PlanReuseTensor \/ PlanAllocate
    \/ OutputsPlanned \/ CountDownUse \/ SkipArgument \/ NextStep
    \/ ComputeFenceCheck
    \/ GenerateDeallocationPlan \/ FinishPlan

Planned == at.phase = "planned"

=============================================================================
