---------------------------- MODULE CUDAProvider ----------------------------
(***************************************************************************)
(* What onnxruntime/core/providers/cuda/cuda_execution_provider.cc keeps   *)
(* per run: a context for each running thread, taken from a pool of retired*)
(* ones, and pinned CPU buffers that asynchronous copies read.  A kernel   *)
(* hands such a buffer over (AddDeferredReleaseCPUPtr) under the event of  *)
(* its run; OnRunEnd records the event after the run's last command, and   *)
(* the OnRunStart of some later run, of any thread, frees the buffers once *)
(* the device has passed the event.                                        *)
(***************************************************************************)
EXTENDS SessionThreads, Integers, SequencesExt

CONSTANTS
    Contexts,    \* Bound: contexts ever created
    Events,      \* Bound: cudaEvent_t handles; a destroyed one may be handed out again
    Buffers      \* Bound: pinned CPU buffers; a freed one may be handed out again

ASSUME CUDAConstants == 0 \notin Contexts /\ 0 \notin Events

VARIABLES
    context,         \* per_thread_context_map_: thread -> its context, or 0
    retired,         \* retired_context_pool_
    current_event,   \* Context -> current_deferred_release_event_, 0 for nullptr
    deferred,        \* deferred_release_cpu_ptr_: event -> [cpu_ptrs, recorded, passed]
    in_flight        \* Buffers that commands on the device may still read

cuda_vars == <<context, retired, current_event, deferred, in_flight>>

-----------------------------------------------------------------------------
\* GetPerThreadContext: the context the calling thread gets.
UnusedContexts == Contexts \ ({context[t] : t \in Threads} \cup Range(retired))

ContextFor(t) ==
    IF context[t] # 0 THEN context[t]
    ELSE IF retired = <<>> THEN CHOOSE c \in UnusedContexts : TRUE ELSE Last(retired)

\* Bound: a context is left to be made when one has to be.
CanGetContext(t) == context[t] # 0 \/ retired # <<>> \/ UnusedContexts # {}

\* The pool after the thread has its context.
PoolFor(t) == IF context[t] = 0 /\ retired # <<>> THEN Front(retired) ELSE retired

GetPerThreadContext(t) ==
    /\ CanGetContext(t)
    /\ context' = [context EXCEPT ![t] = ContextFor(t)]
    /\ retired' = PoolFor(t)

\* cudaEventQuery "returns cudaSucess before first cudaEventRecord".
EventQuery(e) == deferred[e].recorded => deferred[e].passed

\* Mutant: the flag is not consulted.
ExpiredByQuery == {e \in DOMAIN deferred : EventQuery(e)}

Expired == {e \in DOMAIN deferred : deferred[e].recorded /\ EventQuery(e)}

\* The map with the entry of an event made or changed.
WithEntry(entries, event, entry) ==
    [e \in DOMAIN entries \cup {event} |-> IF e = event THEN entry ELSE entries[e]]

NoPtrs == [cpu_ptrs |-> {}, recorded |-> FALSE, passed |-> FALSE]

\* Buffers of expired events are freed, then the run gets an event.
OnRunStart(t) ==
    LET left == [e \in DOMAIN deferred \ Expired |-> deferred[e]]
        fresh == CHOOSE e \in Events : e \notin DOMAIN left
    IN /\ GetPerThreadContext(t)
       /\ Events \ DOMAIN left # {}
       /\ current_event' = [current_event EXCEPT ![ContextFor(t)] = fresh]
       /\ deferred' = WithEntry(left, fresh, NoPtrs)
       /\ UNCHANGED in_flight

\* OnRunStart fails: destroying an expired event is refused, which leaves the
\* rest for later and comes before the context, or creating the new one is.
OnRunStartFails(t) ==
    /\ \/ /\ \E done \in SUBSET Expired \ {{}} :
                deferred' = [e \in DOMAIN deferred \ done |-> deferred[e]]
          /\ UNCHANGED <<context, retired>>
       \/ /\ GetPerThreadContext(t)
          /\ deferred' = [e \in DOMAIN deferred \ Expired |-> deferred[e]]
    /\ UNCHANGED <<current_event, in_flight>>

FreeBuffers == Buffers \ UNION {deferred[e].cpu_ptrs : e \in DOMAIN deferred}

\* A kernel starts an asynchronous copy from a pinned buffer and hands the
\* buffer over.
AddDeferredReleaseCPUPtr(t) ==
    LET e == current_event[context[t]]
        p == CHOOSE b \in FreeBuffers : TRUE
    IN /\ FreeBuffers # {}
       /\ deferred' = [deferred EXCEPT ![e].cpu_ptrs = @ \cup {p}]
       /\ in_flight' = in_flight \cup {p}
       /\ UNCHANGED <<context, retired, current_event>>

\* Mutant: the context goes to the pool and stays with the thread.
ReleaseKeepsContext(t) ==
    /\ retired' = Append(PoolFor(t), ContextFor(t))
    /\ context' = [context EXCEPT ![t] = ContextFor(t)]

\* GetPerThreadContext, then ReleasePerThreadStuffs.
ReleasePerThreadStuffs(t) ==
    /\ CanGetContext(t)
    /\ retired' = Append(PoolFor(t), ContextFor(t))
    /\ context' = [context EXCEPT ![t] = 0]

\* Mutant: the event is recorded but never marked so.
OnRunEndUnmarked(t) ==
    /\ ReleasePerThreadStuffs(t)
    /\ UNCHANGED <<current_event, deferred, in_flight>>

\* The entry of the context's event is marked, or made if there is none.
OnRunEnd(t) ==
    LET e == current_event[ContextFor(t)]
        ptrs == IF e \in DOMAIN deferred THEN deferred[e].cpu_ptrs ELSE {}
    IN /\ ReleasePerThreadStuffs(t)
       /\ deferred' = WithEntry(deferred, e, [cpu_ptrs |-> ptrs, recorded |-> TRUE, passed |-> FALSE])
       /\ UNCHANGED <<current_event, in_flight>>

\* OnRunEnd fails: recording the event is refused.
OnRunEndFails(t) == UNCHANGED cuda_vars

\* The device reaches a recorded event: all commands before it are done.
DevicePasses(e) ==
    /\ e \in DOMAIN deferred
    /\ deferred[e].recorded /\ ~deferred[e].passed
    /\ deferred' = [deferred EXCEPT ![e].passed = TRUE]
    /\ in_flight' = in_flight \ deferred[e].cpu_ptrs
    /\ UNCHANGED <<context, retired, current_event>>

CUDAInit ==
    /\ context = [t \in Threads |-> 0]
    /\ retired = <<>>
    /\ current_event = [c \in Contexts |-> 0]
    /\ deferred = <<>>
    /\ in_flight = {}

-----------------------------------------------------------------------------
(* Properties *)

\* A pinned buffer is freed only when no command on the device can read it
\* any more: every buffer in flight is still held for some run, although
\* each OnRunStart looks at the events of all threads' runs.
InFlightHeld == in_flight \subseteq UNION {deferred[e].cpu_ptrs : e \in DOMAIN deferred}

\* cuBLAS and cuDNN handles and the device arena belong to a context: it is
\* with one thread, or once in the pool, never both.
ContextsExclusive ==
    /\ \A t, u \in Threads : t # u /\ context[t] # 0 => context[t] # context[u]
    /\ IsInjective(retired)
    /\ \A t \in Threads : context[t] \notin Range(retired)
=============================================================================
