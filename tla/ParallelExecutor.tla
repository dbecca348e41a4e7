-------------------------- MODULE ParallelExecutor --------------------------
(***************************************************************************)
(* One Execute of onnxruntime/core/framework/parallel_executor.{h,cc}: the *)
(* calling thread enqueues the root nodes on the inter-op thread pool and  *)
(* waits; each pool thread runs a chain of nodes, counting down the refs   *)
(* of their successors, keeping the first one that becomes ready and       *)
(* enqueuing the others.                                                   *)
(*                                                                         *)
(* A step is what a thread does between two points where another thread    *)
(* can interfere.  The sections under complete_mutex_ are single steps;    *)
(* the one under ref_mutex_ is not, because EnqueueNode inside it looks at *)
(* errors_, so its holder is kept in ref_mutex.  The order in which a node *)
(* visits its output edges, and a pool thread its queue, is left open.     *)
(* EnqueueNode counts a task under complete_mutex_ and schedules it right  *)
(* after; the two are one step here, because a task that is counted and    *)
(* not yet scheduled cannot be told from one that no thread has taken yet. *)
(* Fences, profiling and the text of errors are left out; every node has a *)
(* kernel (SessionState::CreateKernels fails otherwise).                   *)
(***************************************************************************)
EXTENDS Integers, FiniteSets

CONSTANTS Nodes,    \* The nodes of the graph
          Edges,    \* Its edges: records with fields from, to and slot
          Threads,  \* The pool's threads
          NoNode,   \* No node kept
          NoThread  \* ref_mutex_ is free

\* Graph::Resolve has rejected every cycle.
Acyclic == \E rank \in [Nodes -> 0 .. Cardinality(Nodes)] :
               \A e \in Edges : rank[e.from] < rank[e.to]

ASSUME GraphAssumption ==
    /\ IsFiniteSet(Nodes) /\ IsFiniteSet(Edges)
    /\ \A e \in Edges : e.from \in Nodes /\ e.to \in Nodes
    /\ Acyclic
    /\ NoNode \notin Nodes

ASSUME ThreadAssumption == IsFiniteSet(Threads) /\ NoThread \notin Threads

VARIABLES
    node_refs,      \* Input edges of each node not yet counted down
    ref_mutex,      \* Holder of ref_mutex_
    out_standings,  \* Tasks enqueued and not finished
    errors,         \* errors_: the nodes whose chain ended in an error
    queue,          \* Tasks counted and not yet taken, by the node they start at
    thr,            \* What each pool thread is doing
    caller,         \* Where the caller of Execute stands
    roots,          \* Root nodes the caller has still to enqueue
    terminate_flag, \* RunOptions::terminate, set by another thread
    computed        \* Nodes whose kernel returned OK

vars == <<node_refs, ref_mutex, out_standings, errors, queue, thr, caller, roots,
          terminate_flag, computed>>

-----------------------------------------------------------------------------
InEdges(n) == {e \in Edges : e.to = n}
OutEdges(n) == {e \in Edges : e.from = n}
RootNodes == {n \in Nodes : InEdges(n) = {}}

\* pc of a pool thread: "check" (top of RunNodeAsync's loop), "compute",
\* "lock" (before ref_mutex_), "edges" (inside it), "ok" or "bad" (before
\* FinishNodeRun with that status), "notify" (after its mutex), "idle".
Idle == [pc |-> "idle", node |-> NoNode, todo |-> {}, kept |-> NoNode]
RunFrom(n) == [pc |-> "check", node |-> n, todo |-> {}, kept |-> NoNode]

At(t, label) == thr[t].pc = label
Goto(t, label) == thr' = [thr EXCEPT ![t].pc = label]

Init ==
    /\ node_refs = [n \in Nodes |-> Cardinality(InEdges(n))]
    /\ ref_mutex = NoThread
    /\ out_standings = 0 /\ errors = {} /\ queue = {}
    /\ thr = [t \in Threads |-> Idle]
    /\ caller = "enqueue" /\ roots = RootNodes
    /\ terminate_flag = FALSE
    /\ computed = {}

\* Mutant: the task is counted by nobody.
EnqueueNodeUncounted(n) ==
    IF errors # {}
    THEN UNCHANGED <<out_standings, queue>>
    ELSE UNCHANGED out_standings /\ queue' = queue \cup {n}

\* Nothing more is queued once there is an error.
EnqueueNode(n) ==
    IF errors # {}
    THEN UNCHANGED <<out_standings, queue>>
    ELSE out_standings' = out_standings + 1 /\ queue' = queue \cup {n}

-----------------------------------------------------------------------------
(* The caller of Execute *)

EnqueueRoot(n) ==
    /\ caller = "enqueue"
    /\ n \in roots
    /\ EnqueueNode(n)
    /\ roots' = roots \ {n}
    /\ UNCHANGED <<node_refs, ref_mutex, errors, thr, caller, terminate_flag, computed>>

RootsEnqueued ==
    /\ caller = "enqueue" /\ roots = {}
    /\ caller' = "test"
    /\ UNCHANGED <<node_refs, ref_mutex, out_standings, errors, queue, thr, roots,
                   terminate_flag, computed>>

\* while (out_standings_ > 0) complete_cv_.wait(lock), one test.
TestOutstanding ==
    /\ caller = "test"
    /\ caller' = IF out_standings > 0 THEN "blocked" ELSE "collect"
    /\ UNCHANGED <<node_refs, ref_mutex, out_standings, errors, queue, thr, roots,
                   terminate_flag, computed>>

\* Mutant: `if` in place of `while`: a wake-up is taken for the end.
WakeSpuriouslyLeaves ==
    /\ caller = "blocked"
    /\ caller' = "collect"
    /\ UNCHANGED <<node_refs, ref_mutex, out_standings, errors, queue, thr, roots,
                   terminate_flag, computed>>

\* A condition variable may wake its waiter for no reason.
WakeSpuriously ==
    /\ caller = "blocked"
    /\ caller' = "test"
    /\ UNCHANGED <<node_refs, ref_mutex, out_standings, errors, queue, thr, roots,
                   terminate_flag, computed>>

\* Execute returns an error if errors_ has one, or if fetching the outputs
\* or the memory patterns fails.
ReturnError ==
    /\ caller = "collect"
    /\ caller' = "error"
    /\ UNCHANGED <<node_refs, ref_mutex, out_standings, errors, queue, thr, roots,
                   terminate_flag, computed>>

ReturnOk ==
    /\ caller = "collect"
    /\ errors = {}
    /\ caller' = "ok"
    /\ UNCHANGED <<node_refs, ref_mutex, out_standings, errors, queue, thr, roots,
                   terminate_flag, computed>>

\* ExecuteGraphImpl leaves its scope and the executor goes with p_exec.
DestroyExecutor ==
    /\ \/ caller = "ok" /\ caller' = "gone_ok"
       \/ caller = "error" /\ caller' = "gone_error"
    /\ UNCHANGED <<node_refs, ref_mutex, out_standings, errors, queue, thr, roots,
                   terminate_flag, computed>>

\* Another thread calls RunOptionsSetTerminate or RunOptionsUnsetTerminate.
SetTerminate ==
    /\ terminate_flag' = ~ terminate_flag
    /\ UNCHANGED <<node_refs, ref_mutex, out_standings, errors, queue, thr, caller,
                   roots, computed>>

-----------------------------------------------------------------------------
(* A pool thread *)

StartTask(t, n) ==
    /\ At(t, "idle")
    /\ n \in queue
    /\ queue' = queue \ {n}
    /\ thr' = [thr EXCEPT ![t] = RunFrom(n)]
    /\ UNCHANGED <<node_refs, ref_mutex, out_standings, errors, caller, roots,
                   terminate_flag, computed>>

\* Top of the loop: throws if the flag is set, else calls Compute.
CheckTerminate(t) ==
    /\ At(t, "check")
    /\ Goto(t, IF terminate_flag THEN "bad" ELSE "compute")
    /\ UNCHANGED <<node_refs, ref_mutex, out_standings, errors, queue, caller, roots,
                   terminate_flag, computed>>

ComputeOk(t) ==
    /\ At(t, "compute")
    /\ Goto(t, "lock")
    /\ computed' = computed \cup {thr[t].node}
    /\ UNCHANGED <<node_refs, ref_mutex, out_standings, errors, queue, caller, roots,
                   terminate_flag>>

\* Compute returns a bad status or throws.
ComputeFails(t) ==
    /\ At(t, "compute")
    /\ Goto(t, "bad")
    /\ UNCHANGED <<node_refs, ref_mutex, out_standings, errors, queue, caller, roots,
                   terminate_flag, computed>>

LockRefs(t) ==
    /\ At(t, "lock")
    /\ ref_mutex = NoThread
    /\ ref_mutex' = t
    /\ thr' = [thr EXCEPT ![t].pc = "edges", ![t].todo = OutEdges(thr[t].node)]
    /\ UNCHANGED <<node_refs, out_standings, errors, queue, caller, roots,
                   terminate_flag, computed>>

\* Mutant: a successor is ready as soon as one input is.
CountDownReadyEarly(t, e) ==
    LET ready == node_refs[e.to] >= 1 /\ thr[t].kept # e.to
        keep == ready /\ thr[t].kept = NoNode
    IN  /\ At(t, "edges")
        /\ e \in thr[t].todo
        /\ node_refs' = [node_refs EXCEPT ![e.to] = @ - 1]
        /\ thr' = [thr EXCEPT ![t].todo = @ \ {e},
                              ![t].kept = IF keep THEN e.to ELSE @]
        /\ IF ready /\ ~ keep THEN EnqueueNode(e.to) ELSE UNCHANGED <<out_standings, queue>>
        /\ UNCHANGED <<ref_mutex, errors, caller, roots, terminate_flag, computed>>

\* Mutant: a successor that is kept is enqueued as well.
CountDownTwice(t, e) ==
    LET ready == node_refs[e.to] = 1
        keep == ready /\ thr[t].kept = NoNode
    IN  /\ At(t, "edges")
        /\ e \in thr[t].todo
        /\ node_refs' = [node_refs EXCEPT ![e.to] = @ - 1]
        /\ thr' = [thr EXCEPT ![t].todo = @ \ {e},
                              ![t].kept = IF keep THEN e.to ELSE @]
        /\ IF ready THEN EnqueueNode(e.to) ELSE UNCHANGED <<out_standings, queue>>
        /\ UNCHANGED <<ref_mutex, errors, caller, roots, terminate_flag, computed>>

\* One turn of the loop over the output edges.
CountDown(t, e) ==
    LET ready == node_refs[e.to] = 1
        keep == ready /\ thr[t].kept = NoNode
    IN  /\ At(t, "edges")
        /\ e \in thr[t].todo
        /\ node_refs' = [node_refs EXCEPT ![e.to] = @ - 1]
        /\ thr' = [thr EXCEPT ![t].todo = @ \ {e},
                              ![t].kept = IF keep THEN e.to ELSE @]
        /\ IF ready /\ ~ keep THEN EnqueueNode(e.to) ELSE UNCHANGED <<out_standings, queue>>
        /\ UNCHANGED <<ref_mutex, errors, caller, roots, terminate_flag, computed>>

\* The loop and the locked section end; the thread goes on with the node it
\* kept or leaves RunNodeAsync.
UnlockRefs(t) ==
    /\ At(t, "edges")
    /\ thr[t].todo = {}
    /\ ref_mutex' = NoThread
    /\ thr' = [thr EXCEPT ![t] =
                 IF thr[t].kept = NoNode THEN [thr[t] EXCEPT !.pc = "ok"]
                                         ELSE RunFrom(thr[t].kept)]
    /\ UNCHANGED <<node_refs, out_standings, errors, queue, caller, roots,
                   terminate_flag, computed>>

\* Mutant: a task that ends in an error is not counted down.
FinishNodeRunForgets(t) ==
    /\ At(t, "ok") \/ At(t, "bad")
    /\ out_standings' = IF At(t, "bad") THEN out_standings ELSE out_standings - 1
    /\ errors' = IF At(t, "bad") THEN errors \cup {thr[t].node} ELSE errors
    /\ thr' = [thr EXCEPT ![t] = IF out_standings = 1 THEN [thr[t] EXCEPT !.pc = "notify"] ELSE Idle]
    /\ UNCHANGED <<node_refs, ref_mutex, queue, caller, roots, terminate_flag, computed>>

\* Mutant: the counter is tested before it is decremented.
FinishNodeRunTestsEarly(t) ==
    /\ At(t, "ok") \/ At(t, "bad")
    /\ out_standings' = out_standings - 1
    /\ errors' = IF At(t, "bad") THEN errors \cup {thr[t].node} ELSE errors
    /\ thr' = [thr EXCEPT ![t] = IF out_standings = 0 THEN [thr[t] EXCEPT !.pc = "notify"] ELSE Idle]
    /\ UNCHANGED <<node_refs, ref_mutex, queue, caller, roots, terminate_flag, computed>>

\* FinishNodeRun, its locked section.
FinishNodeRun(t) ==
    /\ At(t, "ok") \/ At(t, "bad")
    /\ out_standings' = out_standings - 1
    /\ errors' = IF At(t, "bad") THEN errors \cup {thr[t].node} ELSE errors
    /\ thr' = [thr EXCEPT ![t] = IF out_standings = 1 THEN [thr[t] EXCEPT !.pc = "notify"] ELSE Idle]
    /\ UNCHANGED <<node_refs, ref_mutex, queue, caller, roots, terminate_flag, computed>>

\* complete_cv_.notify_all(), after the mutex is released.
Notify(t) ==
    /\ At(t, "notify")
    /\ caller' = IF caller = "blocked" THEN "test" ELSE caller
    /\ thr' = [thr EXCEPT ![t] = Idle]
    /\ UNCHANGED <<node_refs, ref_mutex, out_standings, errors, queue, roots,
                   terminate_flag, computed>>

ThreadStep(t) ==
    \/ \E n \in queue : StartTask(t, n)
    \/ CheckTerminate(t)
    \/ ComputeOk(t) \/ ComputeFails(t)
    \/ LockRefs(t)
    \/ \E e \in Edges : CountDown(t, e)
    \/ UnlockRefs(t)
    \/ FinishNodeRun(t)
    \/ Notify(t)

CallerStep ==
    \/ \E n \in Nodes : EnqueueRoot(n)
    \/ RootsEnqueued
    \/ TestOutstanding
    \/ ReturnError \/ ReturnOk
    \/ DestroyExecutor

Gone == caller \in {"gone_ok", "gone_error"}

\* Everything is over.
Finished == Gone /\ (\A t \in Threads : At(t, "idle")) /\ UNCHANGED vars

Next ==
    \/ CallerStep
    \/ WakeSpuriously
    \/ SetTerminate
    \/ \E t \in Threads : ThreadStep(t)
    \/ Finished

Spec == Init /\ [][Next]_vars

\* Every thread that can take a step eventually does: kernels return, and a
\* mutex that is free whenever the thread looks is acquired.  The order in
\* which threads get ref_mutex_ may starve none of them forever (SF).
FairSpec ==
    /\ Spec
    /\ WF_vars(CallerStep)
    /\ \A t \in Threads : WF_vars(ThreadStep(t)) /\ SF_vars(LockRefs(t))

-----------------------------------------------------------------------------
(* Properties *)

Labels == {"idle", "check", "compute", "lock", "edges", "ok", "bad", "notify"}

\* Types of the executor's members and of the threads' positions.
TypeOK ==
    /\ node_refs \in [Nodes -> Nat]
    /\ ref_mutex \in Threads \cup {NoThread}
    /\ out_standings \in Nat
    /\ errors \subseteq Nodes /\ queue \subseteq Nodes /\ roots \subseteq Nodes
    /\ thr \in [Threads -> [pc : Labels, node : Nodes \cup {NoNode},
                            todo : SUBSET Edges, kept : Nodes \cup {NoNode}]]
    /\ caller \in {"enqueue", "test", "blocked", "collect", "ok", "error", "gone_ok", "gone_error"}
    /\ terminate_flag \in BOOLEAN
    /\ computed \subseteq Nodes

\* Threads that still run kernels or use root_frame_, node_refs_ or the queue.
Active == {t \in Threads : thr[t].pc \notin {"idle", "notify"}}

\* Once the caller has left the wait no task is queued or under way: no
\* kernel touches the frame, the feeds or the fetches after Execute returned,
\* not even when it returned because of an error elsewhere.
QuietAfterWait ==
    caller \in {"collect", "ok", "error", "gone_ok", "gone_error"} => queue = {} /\ Active = {}

\* out_standings_ counts the tasks not yet taken and the ones under way,
\* whoever enqueues, fails or drops nodes after an error.
OutstandingExact == out_standings = Cardinality(queue) + Cardinality(Active)

\* FinishNodeRun, "it's not possible another thread is doing the test": a
\* thread that is about to notify finds the executor still there.
NotifyFindsExecutor == \A t \in Threads : At(t, "notify") => ~ Gone

\* Execute returns, whatever kernels fail and whenever the flag is set.
ExecuteReturns == <>Gone

Running == {thr[t].node : t \in {x \in Threads : At(x, "compute")}}
GivenUp == errors \cup {thr[t].node : t \in {x \in Threads : At(x, "bad")}}
Outcome == CASE caller \in {"ok", "gone_ok"} -> "ok"
             [] caller \in {"error", "gone_error"} -> "error"
             [] OTHER -> "none"

Abstract == INSTANCE GraphExecution
            WITH running <- Running, done <- computed, failed <- GivenUp, outcome <- Outcome

\* The executor implements GraphExecution: kernels run once and after their
\* inputs, none runs after the return, and OK means that all were computed.
ImplementsExecution == Abstract!Spec

\* No two threads have the same node in hand, and none has one that is
\* queued or was given up.
NodesInHandDistinct ==
    LET held == {t \in Threads : thr[t].pc \in {"check", "compute", "lock", "edges"}}
    IN  /\ \A t, u \in held : thr[t].node = thr[u].node => t = u
        /\ \A t \in held : thr[t].node \notin queue \cup errors
=============================================================================
