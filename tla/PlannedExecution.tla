-------------------------- MODULE PlannedExecution --------------------------
(***************************************************************************)
(* A graph planned by AllocationPlanner and then run: the nodes in the     *)
(* order of the plan with releases after each step (SequentialExecutor),   *)
(* or, in parallel mode, in any order that respects the edges and without  *)
(* releases (ParallelExecutor).  ExecutionFrame gives each output the      *)
(* buffer the plan says.                                                   *)
(*                                                                         *)
(* Data is a name: content says whose data a buffer holds, data what a     *)
(* value's data is called.  An aliasing kernel passes its input's data on; *)
(* every other one computes data of its own and has it in place when it    *)
(* ends.  Between its begin and its end a kernel may read any input.  A    *)
(* run that fails or is terminated stops somewhere and its frame goes: it  *)
(* is a prefix of a run here.                                              *)
(***************************************************************************)
EXTENDS AllocationPlanner

VARIABLES
    content,  \* What the buffer of each value holds
    data,     \* The data a value stands for, once it has been computed
    running,  \* Steps whose kernel is computing
    ran       \* Steps that have ended

execVars == <<content, data, running, ran>>
vars == <<plannerVars, execVars>>

Unallocated == "unallocated"
Garbage == "garbage"
Released == "released"

ASSUME DataNames == \A g \in Graphs : {Unallocated, Garbage, Released} \cap DOMAIN g.size = {}

\* The caller's inputs and the weights are in place from the start.
Init ==
    /\ PlannerInit
    /\ content = [v \in Values |-> IF v \in Given(graph) THEN v ELSE Unallocated]
    /\ data = [v \in Values |-> v]
    /\ running = {} /\ ran = {}

Producers(v) == {p \in Steps : v \in Defs(graph.nodes[p])}

\* Whether the executor may start the step.
Ready(p) ==
    /\ p \notin running \cup ran
    /\ IF Parallel
       THEN \A v \in Uses(graph.nodes[p]) : Producers(v) \subseteq ran
       ELSE running = {} /\ ran = 1 .. p - 1

\* Compute begins: the frame allocates the outputs that own their buffer.
Begin(p) ==
    /\ Planned
    /\ Ready(p)
    /\ running' = running \cup {p}
    /\ content' = [v \in Values |->
                      IF /\ v \in Defs(graph.nodes[p])
                         /\ alloc_kind[v] \in {"kAllocate", "kAllocateOutput"}
                      THEN Garbage ELSE content[v]]
    /\ UNCHANGED <<plannerVars, data, ran>>

\* The inputs whose data the output at position j passes on.
PassedOn(n, j) ==
    {n.inputs[n.alias[k][1]] :
        k \in {x \in DOMAIN n.alias : n.alias[x][2] = j /\ n.alias[x][1] \in DOMAIN n.inputs}} \ {NoValue}

\* What the outputs of a node stand for once it has ended.
DataAfter(p) ==
    LET n == graph.nodes[p]
    IN  [v \in Values |->
           IF \E j \in DOMAIN n.outputs : n.outputs[j] = v /\ PassedOn(n, j) # {}
           THEN data[CHOOSE u \in PassedOn(n, CHOOSE j \in DOMAIN n.outputs : n.outputs[j] = v) : TRUE]
           ELSE data[v]]

\* Mutant: the last value of the range is not released.
ToReleaseButLast(p) == {dealloc.to_be_freed[k] : k \in dealloc.from[p] .. dealloc.to[p] - 1}

\* The values ReleaseNodeMLValues releases after a step.
ToRelease(p) == {dealloc.to_be_freed[k] : k \in dealloc.from[p] .. dealloc.to[p]}

\* The buffers on which a fence may have been put, by the value they belong
\* to or by one that reuses them.
FencedBuffers == {b \in Values : \E v \in Values : buffer[v] = b /\ Fenced(v)}

\* Compute ends; in sequential mode the step's values are released, except
\* those whose fence says that they cannot be released yet: they stay until
\* the frame goes.
End(p) ==
    \E deferred \in SUBSET (ToRelease(p) \cap FencedBuffers) :
    LET written == Defs(graph.nodes[p])
    IN  /\ p \in running
        /\ running' = running \ {p}
        /\ ran' = ran \cup {p}
        /\ data' = DataAfter(p)
        /\ content' = [b \in Values |->
                         IF ~ Parallel /\ b \in ToRelease(p) \ deferred THEN Released
                         ELSE IF \E v \in written : buffer[v] = b
                              THEN DataAfter(p)[CHOOSE v \in written : buffer[v] = b]
                              ELSE content[b]]
        /\ UNCHANGED plannerVars

AllRan == Planned /\ ran = Steps

Finished == AllRan /\ UNCHANGED vars

Next ==
    \/ PlannerNext /\ UNCHANGED execVars
    \/ \E p \in Steps : Begin(p) \/ End(p)
    \/ Finished

Spec == Init /\ [][Next]_vars

-----------------------------------------------------------------------------
(* Properties *)

\* While a kernel computes, each of its inputs is in its buffer: no reuse,
\* in-place update or release has destroyed data that is still needed.
InputsIntact ==
    \A p \in running : \A v \in Uses(graph.nodes[p]) : content[buffer[v]] = data[v]

\* When the run ends the caller finds every graph output in its buffer, and
\* at all times its own inputs and the session's weights untouched.
CallerDataIntact ==
    /\ AllRan => \A v \in graph.graph_outputs : content[buffer[v]] = data[v]
    /\ \A v \in Given(graph) : content[v] = v

\* Outputs of one node never share a buffer, unless they alias one input.
OutputsApart ==
    Planned => \A p \in Steps : LET n == graph.nodes[p] IN
        \A i, j \in DOMAIN n.outputs :
            i # j /\ Exists(n.outputs[i]) /\ Exists(n.outputs[j])
              /\ PassedOn(n, i) \cup PassedOn(n, j) = {}
            => buffer[n.outputs[i]] # buffer[n.outputs[j]]

\* While a step runs, the buffers its outputs are put in and the values it
\* is going to release exist and have not been released before.
BuffersLive ==
    \A p \in running :
        /\ \A v \in ToRelease(p) : content[v] \notin {Unallocated, Released}
        /\ \A v \in Defs(graph.nodes[p]) : content[buffer[v]] \notin {Unallocated, Released}

\* A buffer that dies after a later step than the first and carries no fence
\* is released by the end of a sequential run.  (One that dies at the first
\* step stays until the frame goes, prev_dealloc_point starting as that step,
\* and one with a fence may: "defer mem release until Session.run() end".)
LaterDeathsReleased ==
    AllRan /\ ~ Parallel =>
        \A k \in DOMAIN freelist :
            freelist[k].point > 1 /\ freelist[k].value \notin FencedBuffers =>
                content[freelist[k].value] = Released
=============================================================================
