-------------------------- MODULE InferenceSession --------------------------
(***************************************************************************)
(* onnxruntime/core/session/inference_session.cc: Load and Initialize under*)
(* session_mutex_, Run by any number of threads without it, profiling      *)
(* switched on and off at any time.  Run composes the other parts: it      *)
(* tells the execution providers that it starts (CUDAProvider among them), *)
(* executes the graph in a frame (ExecutionFrame), and tells them that it  *)
(* ended.                                                                  *)
(*                                                                         *)
(* Run is cut into the steps between which another thread's step makes a   *)
(* difference: the profiler's flags, is_inited_, the pattern cache, the    *)
(* provider's pools and current_num_runs_ are shared.                      *)
(***************************************************************************)
EXTENDS ExecutionFrame, CUDAProvider, Profiler

CONSTANTS
    MaxRuns,       \* Bound: calls of Run
    Providers,     \* execution_providers_ in order
    PinnedNodes,   \* Positions in ExecPlan of kernels that use a pinned buffer
    Invalid,       \* Feeds or output names that validation refuses
    Empty          \* A feed without a value: its type check throws

ASSUME SessionConstants ==
    /\ MaxRuns \in Nat
    /\ Providers \in Seq(STRING)
    /\ PinnedNodes # {} => "cuda" \in Range(Providers)

VARIABLES
    is_model_loaded,    \* is_model_loaded_
    init_step,          \* Where an Initialize that holds session_mutex_ is, or "none"
    ready,              \* The graph is transformed and resolved, plan and kernels exist
    is_inited,          \* is_inited_
    current_num_runs,   \* current_num_runs_
    run,                \* Thread -> its call of Run
    calls,              \* Calls of Run so far (bound)
    uncounted,          \* History: runs that threw before they were counted
    failed              \* History: counted runs that ended with an error

session_vars == <<is_model_loaded, init_step, ready, is_inited, current_num_runs,
                  run, calls, uncounted, failed>>
vars == <<session_vars, frame_vars, cuda_vars, enabled>>

\* told: providers whose OnRunStart succeeded; ended: those told of the end.
Idle == [pc |-> "idle", input |-> Invalid, ok |-> TRUE, profiled |-> FALSE,
         told |-> {}, ended |-> {}, counted |-> FALSE]

Goto(t, label) == run' = [run EXCEPT ![t].pc = label]

\* A step fails: the rest of Run is skipped, OnRunEnd included.
Fail(t) == run' = [run EXCEPT ![t].pc = "ending", ![t].ok = FALSE]

NoLifecycle == UNCHANGED <<is_model_loaded, init_step, ready, is_inited>>
NoCounts == UNCHANGED <<current_num_runs, calls, uncounted, failed>>
OthersRun == UNCHANGED <<run, current_num_runs, calls, uncounted, failed,
                         frame_vars, cuda_vars>>

-----------------------------------------------------------------------------
(* Load and Initialize: session_mutex_ is held. *)

\* Load: is_model_loaded_ is set last; a loader or metadata error leaves the
\* session able to load again.
Load ==
    /\ init_step = "none"
    /\ ~is_model_loaded
    /\ is_model_loaded' = TRUE
    /\ UNCHANGED <<init_step, ready, is_inited, enabled>>
    /\ OthersRun

InitializeBegin ==
    /\ init_step = "none"
    /\ is_model_loaded
    /\ ~is_inited
    /\ init_step' = "transform"
    /\ UNCHANGED <<is_model_loaded, ready, is_inited, enabled>>
    /\ OthersRun

\* Mutant: is_inited_ is set before the plan exists.
TransformSetsInited ==
    /\ init_step = "transform"
    /\ init_step' = "plan"
    /\ is_inited' = TRUE
    /\ UNCHANGED <<is_model_loaded, ready, enabled>>
    /\ OthersRun

\* Providers, kernels, subgraph states, TransformGraph and Resolve.
InitializeTransform ==
    /\ init_step = "transform"
    /\ init_step' = "plan"
    /\ UNCHANGED <<is_model_loaded, ready, is_inited, enabled>>
    /\ OthersRun

\* CreatePlan and the subgraphs' sessions.
InitializePlan ==
    /\ init_step = "plan"
    /\ init_step' = "done"
    /\ ready' = TRUE
    /\ UNCHANGED <<is_model_loaded, is_inited, enabled>>
    /\ OthersRun

\* Any step of Initialize may fail; what it has done stays.
InitializeFails ==
    /\ init_step \in {"transform", "plan"}
    /\ init_step' = "none"
    /\ UNCHANGED <<is_model_loaded, ready, is_inited, enabled>>
    /\ OthersRun

InitializeEnd ==
    /\ init_step = "done"
    /\ init_step' = "none"
    /\ is_inited' = TRUE
    /\ UNCHANGED <<is_model_loaded, ready, enabled>>
    /\ OthersRun

-----------------------------------------------------------------------------
(* Profiling, by a thread of its own. *)

SwitchProfiling ==
    /\ \/ StartProfiling
       \/ is_model_loaded /\ EndProfiling
    /\ NoLifecycle
    /\ OthersRun

-----------------------------------------------------------------------------
(* Run *)

\* Run reads IsEnabled ...
RunEnter(t, in) ==
    /\ run[t].pc = "idle"
    /\ calls < MaxRuns
    /\ calls' = calls + 1
    /\ run' = [run EXCEPT ![t] = [Idle EXCEPT !.pc = IF enabled THEN "time" ELSE "check",
                                              !.input = in]]
    /\ NoLifecycle
    /\ UNCHANGED <<current_num_runs, uncounted, failed, frame_vars, cuda_vars, enabled>>

\* ... and StartTime throws out of Run when profiling has ended meanwhile.
RunStartTime(t) ==
    /\ run[t].pc = "time"
    /\ run' = [run EXCEPT ![t] = IF enabled THEN [@ EXCEPT !.pc = "check"] ELSE Idle]
    /\ NoLifecycle /\ NoCounts
    /\ UNCHANGED <<frame_vars, cuda_vars, enabled>>

\* Not initialized, or refused by ValidateInputs or ValidateOutputs: Run
\* returns before it counts.
RunRefused(t) ==
    /\ run[t].pc = "check"
    /\ ~is_inited \/ run[t].input = Invalid
    /\ run' = [run EXCEPT ![t] = Idle]
    /\ NoLifecycle /\ NoCounts
    /\ UNCHANGED <<frame_vars, cuda_vars, enabled>>

\* An exception before ++current_num_runs_ is caught by Run.
RunCheckThrows(t) ==
    /\ run[t].pc = "check"
    /\ is_inited
    /\ run[t].input = Empty
    /\ Fail(t)
    /\ uncounted' = uncounted + 1
    /\ NoLifecycle
    /\ UNCHANGED <<current_num_runs, calls, failed, frame_vars, cuda_vars, enabled>>

RunCounted(t) ==
    /\ run[t].pc = "check"
    /\ is_inited
    /\ run[t].input \in Inputs
    /\ current_num_runs' = current_num_runs + 1
    /\ run' = [run EXCEPT ![t].pc = "start", ![t].counted = TRUE]
    /\ NoLifecycle
    /\ UNCHANGED <<calls, uncounted, failed, frame_vars, cuda_vars, enabled>>

\* Positions of the providers that have not heard yet, and the first of these.
Waiting(heard) == {i \in DOMAIN Providers : Providers[i] \notin heard}

IsNext(p, heard) ==
    \E i \in Waiting(heard) : p = Providers[i] /\ \A j \in Waiting(heard) : i <= j

RunOnRunStart(t) ==
    /\ run[t].pc = "start"
    /\ \E p \in Range(Providers) :
          /\ IsNext(p, run[t].told)
          /\ \/ /\ run' = [run EXCEPT ![t].told = @ \cup {p}]
                /\ IF p = "cuda" THEN OnRunStart(t) ELSE UNCHANGED cuda_vars
             \/ /\ Fail(t)
                /\ IF p = "cuda" THEN OnRunStartFails(t) ELSE UNCHANGED cuda_vars
    /\ NoLifecycle /\ NoCounts
    /\ UNCHANGED <<frame_vars, enabled>>

\* ExecuteGraph: the executor notes whether profiling is on and makes a frame.
RunExecute(t) ==
    /\ run[t].pc = "start"
    /\ Waiting(run[t].told) = {}
    /\ run' = [run EXCEPT ![t].pc = "execute", ![t].profiled = enabled]
    /\ NewFrame(t, run[t].input)
    /\ NoLifecycle /\ NoCounts
    /\ UNCHANGED <<mem_patterns, cuda_vars, enabled>>

\* A node runs.  With profiling noted at the start, StartTime wants it still on.
RunNode(t) ==
    /\ run[t].pc = "execute"
    /\ run[t].profiled => enabled
    /\ ComputeNode(t)
    /\ IF frame[t].next \in PinnedNodes THEN AddDeferredReleaseCPUPtr(t) ELSE UNCHANGED cuda_vars
    /\ NoLifecycle /\ NoCounts
    /\ UNCHANGED <<run, enabled>>

\* The terminate flag, a kernel or an allocation that fails, a buffer too
\* small to reuse, profiling ended during the run, or GetOutputs after the
\* last node.
RunNodeFails(t) ==
    /\ run[t].pc = "execute"
    /\ Fail(t)
    /\ DropFrame(t)
    /\ NoLifecycle /\ NoCounts
    /\ UNCHANGED <<cuda_vars, enabled>>

RunFinish(t) ==
    /\ run[t].pc = "execute"
    /\ FinishFrame(t)
    /\ Goto(t, "ending")
    /\ NoLifecycle /\ NoCounts
    /\ UNCHANGED <<cuda_vars, enabled>>

\* The frame is done and its pattern kept, but the outputs cannot be copied
\* to the caller's device.
RunCopyOutputsFails(t) ==
    /\ run[t].pc = "execute"
    /\ FinishFrame(t)
    /\ Fail(t)
    /\ NoLifecycle /\ NoCounts
    /\ UNCHANGED <<cuda_vars, enabled>>

\* ORT_CHECK_AND_SET_RETVAL(xp->OnRunEnd()): called only while the status is OK.
RunOnRunEnd(t) ==
    /\ run[t].pc = "ending"
    /\ run[t].ok
    /\ \E p \in Range(Providers) :
          /\ IsNext(p, run[t].ended)
          /\ \/ /\ run' = [run EXCEPT ![t].ended = @ \cup {p}]
                /\ IF p = "cuda" THEN OnRunEnd(t) ELSE UNCHANGED cuda_vars
             \/ /\ Fail(t)
                /\ IF p = "cuda" THEN OnRunEndFails(t) ELSE UNCHANGED cuda_vars
    /\ NoLifecycle /\ NoCounts
    /\ UNCHANGED <<frame_vars, enabled>>

\* Mutant: runs that failed are not counted down.
RunReturnCountsOK(t) ==
    /\ run[t].pc = "ending"
    /\ run[t].ok => Waiting(run[t].ended) = {}
    /\ current_num_runs' = IF run[t].ok THEN current_num_runs - 1 ELSE current_num_runs
    /\ failed' = IF run[t].ok \/ ~run[t].counted THEN failed ELSE failed + 1
    /\ run' = [run EXCEPT ![t] = Idle]
    /\ NoLifecycle
    /\ UNCHANGED <<calls, uncounted, frame_vars, cuda_vars, enabled>>

RunReturn(t) ==
    /\ run[t].pc = "ending"
    /\ run[t].ok => Waiting(run[t].ended) = {}
    /\ current_num_runs' = current_num_runs - 1
    /\ failed' = IF run[t].ok \/ ~run[t].counted THEN failed ELSE failed + 1
    /\ run' = [run EXCEPT ![t] = Idle]
    /\ NoLifecycle
    /\ UNCHANGED <<calls, uncounted, frame_vars, cuda_vars, enabled>>

-----------------------------------------------------------------------------
RunStep(t) ==
    \/ RunStartTime(t)
    \/ RunRefused(t)
    \/ RunCheckThrows(t)
    \/ RunCounted(t)
    \/ RunOnRunStart(t)
    \/ RunExecute(t)
    \/ RunNode(t)
    \/ RunNodeFails(t)
    \/ RunFinish(t)
    \/ RunCopyOutputsFails(t)
    \/ RunOnRunEnd(t)
    \/ RunReturn(t)

DeviceCopy(t) ==
    /\ HasFrame(t)
    /\ \E c \in frame[t].copying : DeviceCopies(t, c)
    /\ UNCHANGED <<session_vars, cuda_vars, enabled>>

DeviceEvent ==
    /\ \E e \in Events : DevicePasses(e)
    /\ UNCHANGED <<session_vars, frame_vars, enabled>>

Lifecycle ==
    \/ Load
    \/ InitializeBegin
    \/ InitializeTransform
    \/ InitializePlan
    \/ InitializeFails
    \/ InitializeEnd

Init ==
    /\ is_model_loaded = FALSE
    /\ init_step = "none"
    /\ ready = FALSE
    /\ is_inited = FALSE
    /\ current_num_runs = 0
    /\ run = [t \in Threads |-> Idle]
    /\ calls = 0
    /\ uncounted = 0
    /\ failed = 0
    /\ FrameInit
    /\ CUDAInit
    /\ ProfilerInit

Next ==
    \/ Lifecycle
    \/ SwitchProfiling
    \/ \E t \in Threads, in \in Inputs \cup {Invalid, Empty} : RunEnter(t, in)
    \/ \E t \in Threads : RunStep(t) \/ DeviceCopy(t)
    \/ DeviceEvent

Spec == Init /\ [][Next]_vars

-----------------------------------------------------------------------------
(* Properties *)

Counted == {t \in Threads : run[t].counted}

\* Run looks at is_inited_ without session_mutex_: a run that goes on still
\* finds the plan, the kernels and the graph complete, also while another
\* thread is inside Initialize or after one that failed.
RunsOnlyWhenReady == \A t \in Counted : ready

\* "the current number of in-progress concurrent Run calls"
\* (inference_session.h:310): whatever fails, no run is counted twice or kept
\* after it has returned, and the number is exact as long as no run threw
\* before ++current_num_runs_ (inference_session.cc:1035) was reached.
RunsCounted ==
    /\ current_num_runs <= Cardinality(Counted)
    /\ uncounted = 0 => current_num_runs = Cardinality(Counted)

\* Pinned buffers wait for an event that is never recorded only on behalf of
\* runs under way and of runs that failed: no successful run leaks one.
UnrecordedExplained ==
    Cardinality({e \in DOMAIN deferred : ~deferred[e].recorded})
        <= Cardinality({t \in Counted : "cuda" \notin run[t].ended}) + failed
=============================================================================
