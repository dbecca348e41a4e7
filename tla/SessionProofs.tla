---------------------------- MODULE SessionProofs ----------------------------
(***************************************************************************)
(* Proofs about InferenceSession, CUDAProvider and ExecutionFrame: runs are*)
(* counted, use a session that is ready, share no context, the pinned      *)
(* buffers they hand over outlive the commands that read them, and their   *)
(* frames keep values apart whichever pattern they are given; for any      *)
(* number of threads, runs, providers, contexts, events and buffers, and   *)
(* any plan, sizes and shapes.                                             *)
(***************************************************************************)
EXTENDS InferenceSession, FiniteSetTheorems, SequenceTheorems, WellFoundedInduction, TLAPS

Labels == {"idle", "time", "check", "start", "execute", "ending"}

Runs == [pc : Labels, input : Inputs \cup {Invalid, Empty}, ok : BOOLEAN,
         profiled : BOOLEAN, told : SUBSET Range(Providers),
         ended : SUBSET Range(Providers), counted : BOOLEAN]

Entries == [cpu_ptrs : SUBSET Buffers, recorded : BOOLEAN, passed : BOOLEAN]

SessionTypeOK ==
    /\ enabled \in BOOLEAN
    /\ current_num_runs \in Int
    /\ uncounted \in Nat
    /\ failed \in Nat
    /\ run \in [Threads -> Runs]

CUDATypeOK ==
    /\ context \in [Threads -> Contexts \cup {0}]
    /\ retired \in Seq(Contexts)
    /\ current_event \in [Contexts -> Events \cup {0}]
    /\ DOMAIN deferred \subseteq Events
    /\ deferred \in [DOMAIN deferred -> Entries]

\* Initialize sets is_inited_ only when all is ready, and runs are counted
\* only after they have seen it set.
InitedIsReady ==
    /\ is_inited => ready
    /\ init_step = "done" => ready
    /\ \A t \in Threads : run[t].counted => is_inited

\* What the place of a run in Run says about the rest of it.
RunConsistent(r) ==
    /\ r.pc # "ending" => r.ok /\ r.ended = {}
    /\ r.pc \in {"idle", "time", "check"} => ~r.counted
    /\ r.pc \in {"start", "execute"} => r.counted
    /\ r.pc = "ending" /\ r.ok => r.counted
    /\ r.pc = "execute" \/ (r.pc = "ending" /\ r.ok) => r.told = Range(Providers)
    /\ ~r.counted => r.told = {}

RunsConsistent == \A t \in Threads : RunConsistent(run[t])

\* Threads whose run has an event of the CUDA provider and has not ended it.
Holds(r) == "cuda" \in r.told /\ "cuda" \notin r.ended
Holding == {t \in Threads : Holds(run[t])}

EventOf(t) == current_event[context[t]]

\* Such a run has its own context and event; its buffers wait for the event,
\* which is not recorded yet.
EventsHeld ==
    /\ \A t \in Holding :
          /\ context[t] # 0
          /\ EventOf(t) \in DOMAIN deferred
          /\ ~deferred[EventOf(t)].recorded
    /\ \A t, u \in Holding : t # u => EventOf(t) # EventOf(u)

PassedIsRecorded == \A e \in DOMAIN deferred : deferred[e].passed => deferred[e].recorded

\* What commands may still read waits for an event the device has not passed.
InFlightWaits ==
    \A b \in in_flight : \E e \in DOMAIN deferred : ~deferred[e].passed /\ b \in deferred[e].cpu_ptrs

Unrecorded == {e \in DOMAIN deferred : ~deferred[e].recorded}

UnrecordedHeld ==
    /\ IsFiniteSet(Unrecorded)
    /\ Cardinality(Unrecorded) <= Cardinality(Holding) + failed

CUDAInv ==
    /\ ContextsExclusive
    /\ EventsHeld
    /\ PassedIsRecorded
    /\ InFlightWaits
    /\ UnrecordedHeld

\* Runs that threw before they were counted and are about to be counted down.
Leaving == {t \in Threads : run[t].pc = "ending" /\ ~run[t].counted}

\* The exact account: every run that threw before it was counted takes one
\* off current_num_runs_ when it returns.
CountExact ==
    /\ current_num_runs = Cardinality(Counted) - uncounted + Cardinality(Leaving)
    /\ Cardinality(Leaving) <= uncounted

\* The inductive invariant.
IInv ==
    /\ SessionTypeOK
    /\ CUDATypeOK
    /\ InitedIsReady
    /\ RunsConsistent
    /\ CountExact
    /\ CUDAInv

-----------------------------------------------------------------------------
(* Contexts: a thread's own, or one that nobody has. *)

\* Neither Last nor Front of the pool leaves a context in two places.
LEMMA PoolPop ==
    ASSUME NEW s \in Seq(Contexts), s # <<>>, IsInjective(s)
    PROVE  /\ Last(s) \in Contexts
           /\ Last(s) \in Range(s)
           /\ Front(s) \in Seq(Contexts)
           /\ Range(Front(s)) \subseteq Range(s)
           /\ IsInjective(Front(s))
           /\ Last(s) \notin Range(Front(s))
<1>1. PICK n : n = Len(s) OBVIOUS
<1>2. n \in Nat \ {0} /\ DOMAIN s = 1 .. n /\ \A i \in 1 .. n : s[i] \in Contexts
  BY <1>1
<1>3. PICK f : f = Front(s) OBVIOUS
<1>4. /\ f \in Seq(Contexts)
      /\ DOMAIN f = 1 .. n - 1
      /\ \A i \in 1 .. n - 1 : f[i] = s[i]
  BY <1>1, <1>2, <1>3 DEF Front
<1>5. Last(s) = s[n]
  BY <1>1 DEF Last
<1> QED BY <1>2, <1>3, <1>4, <1>5 DEF Range, IsInjective

\* GetPerThreadContext gives the thread a context no other has, and leaves
\* it out of the pool.
LEMMA ContextTaken ==
    ASSUME CUDATypeOK, ContextsExclusive, NEW t \in Threads, CanGetContext(t)
    PROVE  /\ ContextFor(t) \in Contexts
           /\ \A u \in Threads : u # t => context[u] # ContextFor(t)
           /\ context[t] # 0 => ContextFor(t) = context[t]
           /\ PoolFor(t) \in Seq(Contexts)
           /\ IsInjective(PoolFor(t))
           /\ Range(PoolFor(t)) \subseteq Range(retired)
           /\ ContextFor(t) \notin Range(PoolFor(t))
<1>1. CASE context[t] # 0
  BY <1>1 DEF CUDATypeOK, ContextsExclusive, ContextFor, PoolFor
<1>2. CASE context[t] = 0 /\ retired # <<>>
  <2>1. ContextFor(t) = Last(retired) /\ PoolFor(t) = Front(retired)
    BY <1>2 DEF ContextFor, PoolFor
  <2> QED BY <1>2, <2>1, PoolPop DEF CUDATypeOK, ContextsExclusive
<1>3. CASE context[t] = 0 /\ retired = <<>>
  <2>1. ContextFor(t) \in UnusedContexts
    BY <1>3 DEF CanGetContext, ContextFor
  <2>2. PoolFor(t) = retired
    BY <1>3 DEF PoolFor
  <2> QED BY <1>3, <2>1, <2>2 DEF UnusedContexts, CUDATypeOK, ContextsExclusive
<1> QED BY <1>1, <1>2, <1>3

\* A thread that asks for its context gets one nobody else has
\* (GetPerThreadContext).
LEMMA GetContextKeeps ==
    ASSUME CUDATypeOK, ContextsExclusive, NEW t \in Threads, GetPerThreadContext(t)
    PROVE  /\ context' \in [Threads -> Contexts \cup {0}]
           /\ retired' \in Seq(Contexts)
           /\ ContextsExclusive'
<1>1. CanGetContext(t) /\ context' = [context EXCEPT ![t] = ContextFor(t)] /\ retired' = PoolFor(t)
  BY DEF GetPerThreadContext
<1>2. PICK c : c = ContextFor(t) OBVIOUS
<1>3. PICK pool : pool = PoolFor(t) OBVIOUS
<1>4. /\ c \in Contexts
      /\ \A u \in Threads : u # t => context[u] # c
      /\ pool \in Seq(Contexts)
      /\ IsInjective(pool)
      /\ Range(pool) \subseteq Range(retired)
      /\ c \notin Range(pool)
  BY <1>1, <1>2, <1>3, ContextTaken
<1> QED BY <1>1, <1>2, <1>3, <1>4 DEF CUDATypeOK, ContextsExclusive

\* The context goes back to the pool once (ReleasePerThreadStuffs).
LEMMA ReleaseKeeps ==
    ASSUME CUDATypeOK, ContextsExclusive, NEW t \in Threads, ReleasePerThreadStuffs(t)
    PROVE  /\ context' \in [Threads -> Contexts \cup {0}]
           /\ retired' \in Seq(Contexts)
           /\ ContextsExclusive'
<1>1. CanGetContext(t) /\ context' = [context EXCEPT ![t] = 0]
  BY DEF ReleasePerThreadStuffs
<1>2. PICK c : c = ContextFor(t) OBVIOUS
<1>3. PICK pool : pool = PoolFor(t) OBVIOUS
<1>4. /\ c \in Contexts
      /\ \A u \in Threads : u # t => context[u] # c
      /\ pool \in Seq(Contexts)
      /\ IsInjective(pool)
      /\ Range(pool) \subseteq Range(retired)
      /\ c \notin Range(pool)
  BY <1>1, <1>2, <1>3, ContextTaken
<1>5. PICK longer : longer = Append(pool, c) OBVIOUS
<1>6. /\ longer \in Seq(Contexts)
      /\ IsInjective(longer)
      /\ Range(longer) = Range(pool) \cup {c}
  BY <1>4, <1>5 DEF IsInjective, Range
<1>7. retired' = longer
  BY <1>2, <1>3, <1>5 DEF ReleasePerThreadStuffs
<1>8. 0 \notin Range(longer)
  BY <1>4, <1>6, CUDAConstants DEF CUDATypeOK, Range
<1> QED BY <1>1, <1>4, <1>6, <1>7, <1>8 DEF CUDATypeOK, ContextsExclusive

-----------------------------------------------------------------------------
(* The CUDA part of the invariant, step by step. *)

\* No run has to do with the provider in this step.
LEMMA CUDAStutters ==
    ASSUME CUDATypeOK, CUDAInv, UNCHANGED cuda_vars, Holding' = Holding, failed' = failed
    PROVE  CUDATypeOK' /\ CUDAInv'
<1> USE DEF cuda_vars
<1>1. CUDATypeOK' /\ ContextsExclusive'
  BY DEF CUDATypeOK, CUDAInv, ContextsExclusive
<1>2. EventsHeld'
  BY DEF CUDAInv, EventsHeld, EventOf
<1>3. PassedIsRecorded' /\ InFlightWaits'
  BY DEF CUDAInv, PassedIsRecorded, InFlightWaits
<1>4. UnrecordedHeld'
  <2>1. Unrecorded' = Unrecorded
    BY DEF Unrecorded
  <2> QED BY <2>1 DEF CUDAInv, UnrecordedHeld
<1> QED BY <1>1, <1>2, <1>3, <1>4 DEF CUDAInv

\* A run returns; if it still holds its event, it has failed.
LEMMA CUDAReturn ==
    ASSUME CUDATypeOK, CUDAInv, UNCHANGED cuda_vars, failed \in Nat,
           NEW t \in Threads, Holding' = Holding \ {t},
           failed' \in {failed, failed + 1}, t \in Holding => failed' = failed + 1
    PROVE  CUDATypeOK' /\ CUDAInv'
<1> USE DEF cuda_vars
<1>1. CUDATypeOK' /\ ContextsExclusive'
  BY DEF CUDATypeOK, CUDAInv, ContextsExclusive
<1>2. EventsHeld'
  BY DEF CUDAInv, EventsHeld, EventOf
<1>3. PassedIsRecorded' /\ InFlightWaits'
  BY DEF CUDAInv, PassedIsRecorded, InFlightWaits
<1>4. UnrecordedHeld'
  <2>1. Unrecorded' = Unrecorded
    BY DEF Unrecorded
  <2>2. IsFiniteSet(Holding) /\ IsFiniteSet(Unrecorded)
    BY FS_Subset, ThreadsFinite DEF Holding, CUDAInv, UnrecordedHeld
  <2>3. /\ Cardinality(Holding) \in Nat
        /\ Cardinality(Unrecorded) \in Nat
        /\ Cardinality(Holding \ {t}) = IF t \in Holding THEN Cardinality(Holding) - 1 ELSE Cardinality(Holding)
    BY <2>2, FS_RemoveElement, FS_CardinalityType
  <2> QED BY <2>1, <2>2, <2>3 DEF CUDAInv, UnrecordedHeld
<1> QED BY <1>1, <1>2, <1>3, <1>4 DEF CUDAInv

\* The map without the expired events: only what the device has passed goes.
LEMMA ExpiredGone ==
    ASSUME CUDATypeOK, PassedIsRecorded, InFlightWaits, NEW gone \in SUBSET Expired,
           NEW left, left = [e \in DOMAIN deferred \ gone |-> deferred[e]]
    PROVE  /\ DOMAIN left \subseteq DOMAIN deferred
           /\ left \in [DOMAIN left -> Entries]
           /\ \A e \in DOMAIN left : left[e] = deferred[e]
           /\ {e \in DOMAIN left : ~left[e].recorded} = Unrecorded
           /\ \A b \in in_flight : \E e \in DOMAIN left : ~left[e].passed /\ b \in left[e].cpu_ptrs
<1>1. \A e \in gone : e \in DOMAIN deferred /\ deferred[e].recorded /\ deferred[e].passed
  BY DEF Expired, EventQuery
<1> QED BY <1>1 DEF CUDATypeOK, InFlightWaits, Unrecorded

\* OnRunStart succeeds: the run holds an event of its own.
LEMMA CUDAStart ==
    ASSUME CUDATypeOK, CUDAInv, failed \in Nat, failed' = failed,
           NEW t \in Threads, OnRunStart(t),
           t \notin Holding, Holding' = Holding \cup {t}
    PROVE  CUDATypeOK' /\ CUDAInv'
<1>1. PICK left : left = [e \in DOMAIN deferred \ Expired |-> deferred[e]]
  OBVIOUS
<1>2. PICK fresh : fresh = CHOOSE e \in Events : e \notin DOMAIN left
  OBVIOUS
<1>3. PICK c : c = ContextFor(t)
  OBVIOUS
<1>4. /\ GetPerThreadContext(t)
      /\ Events \ DOMAIN left # {}
      /\ current_event' = [current_event EXCEPT ![c] = fresh]
      /\ deferred' = WithEntry(left, fresh, NoPtrs)
      /\ in_flight' = in_flight
  BY <1>1, <1>2, <1>3 DEF OnRunStart
<1>5. fresh \in Events /\ fresh \notin DOMAIN left
  BY <1>2, <1>4
<1>6. /\ DOMAIN left \subseteq DOMAIN deferred
      /\ left \in [DOMAIN left -> Entries]
      /\ \A e \in DOMAIN left : left[e] = deferred[e]
      /\ {e \in DOMAIN left : ~left[e].recorded} = Unrecorded
      /\ \A b \in in_flight : \E e \in DOMAIN left : ~left[e].passed /\ b \in left[e].cpu_ptrs
  BY <1>1, ExpiredGone DEF CUDAInv
<1>7. /\ c \in Contexts
      /\ \A u \in Threads : u # t => context[u] # c
      /\ context' = [context EXCEPT ![t] = c]
  BY <1>3, <1>4, ContextTaken DEF GetPerThreadContext, CUDAInv
<1>8. /\ DOMAIN deferred' = DOMAIN left \cup {fresh}
      /\ \A e \in DOMAIN left : deferred'[e] = deferred[e]
      /\ deferred'[fresh] = NoPtrs
      /\ deferred' \in [DOMAIN deferred' -> Entries]
  BY <1>4, <1>5, <1>6 DEF WithEntry, NoPtrs, Entries
<1>9. CUDATypeOK' /\ ContextsExclusive'
  BY <1>4, <1>5, <1>6, <1>7, <1>8, GetContextKeeps DEF CUDATypeOK, CUDAInv
<1>10. EventsHeld'
  <2>1. EventOf(t)' = fresh /\ context'[t] # 0
    BY <1>4, <1>7, CUDAConstants DEF EventOf, CUDATypeOK
  <2>2. ASSUME NEW u \in Holding
        PROVE  /\ context'[u] = context[u] /\ context[u] # 0
               /\ EventOf(u)' = EventOf(u)
               /\ EventOf(u) \in DOMAIN left
               /\ ~left[EventOf(u)].recorded
    <3>1. u \in Threads /\ u # t
      BY DEF Holding
    <3>2. context'[u] = context[u] /\ context[u] # c /\ context[u] # 0
      BY <1>7, <3>1 DEF CUDATypeOK, CUDAInv, EventsHeld
    <3>3. EventOf(u)' = EventOf(u)
      BY <1>4, <1>7, <3>1, <3>2 DEF CUDATypeOK, EventOf
    <3>4. EventOf(u) \in Unrecorded
      BY DEF CUDAInv, EventsHeld, Unrecorded
    <3> QED BY <1>6, <3>2, <3>3, <3>4
  <2>3. \A u \in Holding : EventOf(u)' # fresh
    BY <1>5, <2>2
  <2>4. \A u, w \in Holding : u # w => EventOf(u)' # EventOf(w)'
    BY <2>2 DEF CUDAInv, EventsHeld
  <2>5. \A u \in Holding' :
           context'[u] # 0 /\ EventOf(u)' \in DOMAIN deferred' /\ ~deferred'[EventOf(u)'].recorded
    <3>1. ~NoPtrs.recorded
      BY DEF NoPtrs
    <3> QED BY <1>6, <1>8, <2>1, <2>2, <3>1
  <2>6. \A u, w \in Holding' : u # w => EventOf(u)' # EventOf(w)'
    BY <2>1, <2>3, <2>4
  <2> QED BY <2>5, <2>6 DEF EventsHeld
<1>11. PassedIsRecorded' /\ InFlightWaits'
  BY <1>4, <1>5, <1>6, <1>8 DEF CUDAInv, PassedIsRecorded, InFlightWaits, NoPtrs
<1>12. UnrecordedHeld'
  <2>1. Unrecorded' = Unrecorded \cup {fresh} /\ fresh \notin Unrecorded
    BY <1>5, <1>6, <1>8 DEF Unrecorded, NoPtrs
  <2>2. IsFiniteSet(Holding) /\ IsFiniteSet(Unrecorded)
    BY FS_Subset, ThreadsFinite DEF Holding, CUDAInv, UnrecordedHeld
  <2>3. /\ IsFiniteSet(Unrecorded')
        /\ Cardinality(Unrecorded') = Cardinality(Unrecorded) + 1
    BY <2>1, <2>2, FS_AddElement
  <2>4. Cardinality(Holding') = Cardinality(Holding) + 1
    BY <2>2, FS_AddElement
  <2>5. Cardinality(Holding) \in Nat /\ Cardinality(Unrecorded) \in Nat
    BY <2>2, FS_CardinalityType
  <2>6. Cardinality(Unrecorded) <= Cardinality(Holding) + failed
    BY DEF CUDAInv, UnrecordedHeld
  <2>7. Cardinality(Unrecorded') <= Cardinality(Holding') + failed'
    BY <2>3, <2>4, <2>5, <2>6
  <2> QED BY <2>3, <2>7 DEF UnrecordedHeld
<1> QED BY <1>9, <1>10, <1>11, <1>12 DEF CUDAInv

\* OnRunStart fails: at most a context is taken and expired events go.
LEMMA CUDAStartFails ==
    ASSUME CUDATypeOK, CUDAInv, failed \in Nat, failed' = failed,
           NEW t \in Threads, OnRunStartFails(t),
           t \notin Holding, Holding' = Holding
    PROVE  CUDATypeOK' /\ CUDAInv'
<1>1. PICK gone \in SUBSET Expired : deferred' = [e \in DOMAIN deferred \ gone |-> deferred[e]]
  <2>1. Expired \in SUBSET Expired
    OBVIOUS
  <2> QED BY <2>1 DEF OnRunStartFails
<1>2. /\ DOMAIN deferred' \subseteq DOMAIN deferred
      /\ deferred' \in [DOMAIN deferred' -> Entries]
      /\ \A e \in DOMAIN deferred' : deferred'[e] = deferred[e]
      /\ Unrecorded' = Unrecorded
      /\ \A b \in in_flight : \E e \in DOMAIN deferred' : ~deferred'[e].passed /\ b \in deferred'[e].cpu_ptrs
  BY <1>1, ExpiredGone DEF CUDAInv, Unrecorded
<1>3. current_event' = current_event /\ in_flight' = in_flight
  BY DEF OnRunStartFails
<1>4. /\ context' \in [Threads -> Contexts \cup {0}]
      /\ retired' \in Seq(Contexts)
      /\ ContextsExclusive'
      /\ \A u \in Threads : u # t => context'[u] = context[u]
  <2>1. CASE UNCHANGED <<context, retired>>
    BY <2>1 DEF CUDATypeOK, CUDAInv, ContextsExclusive
  <2>2. CASE GetPerThreadContext(t)
    <3>1. \A u \in Threads : u # t => context'[u] = context[u]
      BY <2>2 DEF GetPerThreadContext, CUDATypeOK
    <3> QED BY <2>2, <3>1, GetContextKeeps DEF CUDAInv
  <2> QED BY <2>1, <2>2 DEF OnRunStartFails
<1>5. CUDATypeOK'
  BY <1>2, <1>3, <1>4 DEF CUDATypeOK
<1>6. EventsHeld'
  <2>1. \A u \in Holding : context'[u] = context[u] /\ EventOf(u)' = EventOf(u) /\ EventOf(u) \in Unrecorded
    BY <1>3, <1>4 DEF CUDAInv, EventsHeld, EventOf, Holding, Unrecorded
  <2>2. \A u \in Holding : EventOf(u)' \in DOMAIN deferred' /\ ~deferred'[EventOf(u)'].recorded
    BY <1>2, <2>1 DEF Unrecorded
  <2> QED BY <2>1, <2>2 DEF CUDAInv, EventsHeld
<1>7. PassedIsRecorded' /\ InFlightWaits'
  BY <1>2, <1>3 DEF CUDAInv, PassedIsRecorded, InFlightWaits
<1>8. UnrecordedHeld'
  BY <1>2 DEF CUDAInv, UnrecordedHeld
<1> QED BY <1>4, <1>5, <1>6, <1>7, <1>8 DEF CUDAInv

\* A kernel hands a buffer over: it waits for the event of the kernel's run.
LEMMA CUDAAddPtr ==
    ASSUME CUDATypeOK, CUDAInv, failed' = failed,
           NEW t \in Threads, AddDeferredReleaseCPUPtr(t),
           t \in Holding, Holding' = Holding
    PROVE  CUDATypeOK' /\ CUDAInv'
<1>1. PICK e : e = EventOf(t)
  OBVIOUS
<1>2. PICK p : p = CHOOSE b \in FreeBuffers : TRUE
  OBVIOUS
<1>3. /\ FreeBuffers # {}
      /\ deferred' = [deferred EXCEPT ![e].cpu_ptrs = @ \cup {p}]
      /\ in_flight' = in_flight \cup {p}
      /\ UNCHANGED <<context, retired, current_event>>
  BY <1>1, <1>2 DEF AddDeferredReleaseCPUPtr, EventOf
<1>4. p \in Buffers
  BY <1>2, <1>3 DEF FreeBuffers
<1>5. e \in DOMAIN deferred /\ ~deferred[e].recorded /\ ~deferred[e].passed
  BY <1>1 DEF CUDAInv, EventsHeld, PassedIsRecorded
<1>6. /\ DOMAIN deferred' = DOMAIN deferred
      /\ deferred' \in [DOMAIN deferred' -> Entries]
      /\ \A x \in DOMAIN deferred : /\ deferred'[x].recorded = deferred[x].recorded
                                    /\ deferred'[x].passed = deferred[x].passed
                                    /\ deferred[x].cpu_ptrs \subseteq deferred'[x].cpu_ptrs
      /\ p \in deferred'[e].cpu_ptrs
  BY <1>3, <1>4, <1>5 DEF CUDATypeOK, Entries
<1>7. CUDATypeOK' /\ ContextsExclusive'
  BY <1>3, <1>6 DEF CUDATypeOK, CUDAInv, ContextsExclusive
<1>8. EventsHeld'
  BY <1>3, <1>6 DEF CUDAInv, EventsHeld, EventOf
<1>9. PassedIsRecorded'
  BY <1>6 DEF CUDAInv, PassedIsRecorded
<1>10. InFlightWaits'
  <2>1. ASSUME NEW b \in in_flight'
        PROVE  \E x \in DOMAIN deferred' : ~deferred'[x].passed /\ b \in deferred'[x].cpu_ptrs
    <3>1. CASE b = p
      BY <1>5, <1>6, <3>1
    <3>2. CASE b \in in_flight
      BY <1>6, <3>2 DEF CUDAInv, InFlightWaits
    <3> QED BY <1>3, <3>1, <3>2
  <2> QED BY <2>1 DEF InFlightWaits
<1>11. UnrecordedHeld'
  <2>1. Unrecorded' = Unrecorded
    BY <1>6 DEF Unrecorded
  <2> QED BY <2>1 DEF CUDAInv, UnrecordedHeld
<1> QED BY <1>7, <1>8, <1>9, <1>10, <1>11 DEF CUDAInv

\* OnRunEnd: the event is recorded, the context goes to the pool.
LEMMA CUDAEnd ==
    ASSUME CUDATypeOK, CUDAInv, failed \in Nat, failed' = failed,
           NEW t \in Threads, OnRunEnd(t),
           t \in Holding, Holding' = Holding \ {t}
    PROVE  CUDATypeOK' /\ CUDAInv'
<1>1. PICK e : e = EventOf(t)
  OBVIOUS
<1>2. context[t] # 0 /\ e \in DOMAIN deferred /\ ~deferred[e].recorded
  BY <1>1 DEF CUDAInv, EventsHeld
<1>3. PICK entry : entry = [cpu_ptrs |-> deferred[e].cpu_ptrs, recorded |-> TRUE, passed |-> FALSE]
  OBVIOUS
<1>4. /\ ReleasePerThreadStuffs(t)
      /\ deferred' = WithEntry(deferred, e, entry)
      /\ UNCHANGED <<current_event, in_flight>>
  <2>1. ContextFor(t) = context[t]
    BY <1>2 DEF ContextFor
  <2> QED BY <1>1, <1>2, <1>3, <2>1 DEF OnRunEnd, EventOf
<1>5. /\ entry \in Entries
      /\ entry.recorded
      /\ ~entry.passed
      /\ entry.cpu_ptrs = deferred[e].cpu_ptrs
  BY <1>2, <1>3 DEF CUDATypeOK, Entries
<1>6. /\ DOMAIN deferred' = DOMAIN deferred
      /\ \A x \in DOMAIN deferred : x # e => deferred'[x] = deferred[x]
      /\ deferred'[e] = entry
      /\ deferred' \in [DOMAIN deferred' -> Entries]
  BY <1>2, <1>4, <1>5 DEF WithEntry, CUDATypeOK
<1>7. CUDATypeOK' /\ ContextsExclusive'
  BY <1>4, <1>6, ReleaseKeeps DEF CUDATypeOK, CUDAInv
<1>8. EventsHeld'
  <2>1. \A u \in Threads : u # t => context'[u] = context[u]
    BY <1>4 DEF ReleasePerThreadStuffs, CUDATypeOK
  <2>2. \A u \in Holding' : /\ context'[u] = context[u]
                            /\ EventOf(u)' = EventOf(u)
                            /\ EventOf(u) # e
    BY <1>1, <1>4, <2>1 DEF CUDAInv, EventsHeld, EventOf, Holding
  <2> QED BY <1>6, <2>2 DEF CUDAInv, EventsHeld
<1>9. PassedIsRecorded'
  BY <1>5, <1>6 DEF CUDAInv, PassedIsRecorded
<1>10. InFlightWaits'
  <2>1. \A x \in DOMAIN deferred : deferred'[x].cpu_ptrs = deferred[x].cpu_ptrs
    BY <1>5, <1>6
  <2>2. \A x \in DOMAIN deferred : ~deferred[x].passed => ~deferred'[x].passed
    BY <1>5, <1>6
  <2> QED BY <1>4, <1>6, <2>1, <2>2 DEF CUDAInv, InFlightWaits
<1>11. UnrecordedHeld'
  <2>1. Unrecorded' = Unrecorded \ {e} /\ e \in Unrecorded
    BY <1>2, <1>5, <1>6 DEF Unrecorded
  <2>2. IsFiniteSet(Holding) /\ IsFiniteSet(Unrecorded)
    BY FS_Subset, ThreadsFinite DEF Holding, CUDAInv, UnrecordedHeld
  <2>3. /\ IsFiniteSet(Unrecorded')
        /\ Cardinality(Unrecorded') = Cardinality(Unrecorded) - 1
    BY <2>1, <2>2, FS_RemoveElement
  <2>4. Cardinality(Holding') = Cardinality(Holding) - 1
    BY <2>2, FS_RemoveElement
  <2>5. Cardinality(Holding) \in Nat /\ Cardinality(Unrecorded) \in Nat
    BY <2>2, FS_CardinalityType
  <2>6. Cardinality(Unrecorded) <= Cardinality(Holding) + failed
    BY DEF CUDAInv, UnrecordedHeld
  <2>7. Cardinality(Unrecorded') <= Cardinality(Holding') + failed'
    BY <2>3, <2>4, <2>5, <2>6
  <2> QED BY <2>3, <2>7 DEF UnrecordedHeld
<1> QED BY <1>7, <1>8, <1>9, <1>10, <1>11 DEF CUDAInv

\* The device passes an event: its buffers are no longer read.
LEMMA CUDAPasses ==
    ASSUME CUDATypeOK, CUDAInv, failed' = failed,
           NEW e \in Events, DevicePasses(e), Holding' = Holding
    PROVE  CUDATypeOK' /\ CUDAInv'
<1>1. /\ e \in DOMAIN deferred
      /\ deferred[e].recorded
      /\ deferred' = [deferred EXCEPT ![e].passed = TRUE]
      /\ in_flight' = in_flight \ deferred[e].cpu_ptrs
      /\ UNCHANGED <<context, retired, current_event>>
  BY DEF DevicePasses
<1>2. /\ DOMAIN deferred' = DOMAIN deferred
      /\ deferred' \in [DOMAIN deferred' -> Entries]
      /\ \A x \in DOMAIN deferred : /\ deferred'[x].recorded = deferred[x].recorded
                                    /\ deferred'[x].cpu_ptrs = deferred[x].cpu_ptrs
                                    /\ x # e => deferred'[x] = deferred[x]
  BY <1>1 DEF CUDATypeOK, Entries
<1>3. CUDATypeOK' /\ ContextsExclusive'
  BY <1>1, <1>2 DEF CUDATypeOK, CUDAInv, ContextsExclusive
<1>4. EventsHeld'
  BY <1>1, <1>2 DEF CUDAInv, EventsHeld, EventOf
<1>5. PassedIsRecorded'
  BY <1>1, <1>2 DEF CUDAInv, PassedIsRecorded
<1>6. InFlightWaits'
  BY <1>1, <1>2 DEF CUDAInv, InFlightWaits
<1>7. UnrecordedHeld'
  <2>1. Unrecorded' = Unrecorded
    BY <1>2 DEF Unrecorded
  <2> QED BY <2>1 DEF CUDAInv, UnrecordedHeld
<1> QED BY <1>3, <1>4, <1>5, <1>6, <1>7 DEF CUDAInv

-----------------------------------------------------------------------------
(* The steps of Run: each gives one thread another record. *)

\* What CountExact counts a run for.
Tally(r) == IF r.counted \/ r.pc = "ending" THEN 1 ELSE 0

\* A thread outside Run counts for nothing.
LEMMA IdleType == Idle \in Runs /\ RunConsistent(Idle) /\ Tally(Idle) = 0
BY DEF Runs, Labels, Idle, RunConsistent, Tally

\* The sets that the invariant counts, when thread t gets the record r.
LEMMA RunChanges ==
    ASSUME SessionTypeOK, RunsConsistent, NEW t \in Threads, NEW r \in Runs,
           RunConsistent(r), run' = [run EXCEPT ![t] = r]
    PROVE  /\ run' \in [Threads -> Runs]
           /\ RunsConsistent'
           /\ Counted' = IF r.counted THEN Counted \cup {t} ELSE Counted \ {t}
           /\ Leaving' = IF r.pc = "ending" /\ ~r.counted THEN Leaving \cup {t} ELSE Leaving \ {t}
           /\ Holds(r) => Holding' = Holding \cup {t}
           /\ ~Holds(r) => Holding' = Holding \ {t}
           /\ (Holds(r) <=> t \in Holding) => Holding' = Holding
<1>1. run' \in [Threads -> Runs] /\ run'[t] = r /\ \A u \in Threads : u # t => run'[u] = run[u]
  BY DEF SessionTypeOK
<1>2. RunsConsistent'
  BY <1>1 DEF RunsConsistent
<1>3. Counted' = IF r.counted THEN Counted \cup {t} ELSE Counted \ {t}
  BY <1>1 DEF Counted
<1>4. Leaving' = IF r.pc = "ending" /\ ~r.counted THEN Leaving \cup {t} ELSE Leaving \ {t}
  BY <1>1 DEF Leaving
<1>5. /\ Holds(r) => Holding' = Holding \cup {t}
      /\ ~Holds(r) => Holding' = Holding \ {t}
      /\ (Holds(r) <=> t \in Holding) => Holding' = Holding
  BY <1>1 DEF Holding
<1> QED BY <1>1, <1>2, <1>3, <1>4, <1>5

\* One element more or less of a finite set.
LEMMA CardinalityStep ==
    ASSUME NEW S, IsFiniteSet(S), NEW x, NEW T, T = S \cup {x} \/ T = S \ {x}
    PROVE  /\ Cardinality(S) \in Nat /\ Cardinality(T) \in Nat
           /\ Cardinality(T) = Cardinality(S) + (IF x \in T THEN 1 ELSE 0)
                                              - (IF x \in S THEN 1 ELSE 0)
<1>1. Cardinality(S) \in Nat
  BY FS_CardinalityType
<1>2. /\ IsFiniteSet(S \cup {x})
      /\ Cardinality(S \cup {x}) = IF x \in S THEN Cardinality(S) ELSE Cardinality(S) + 1
  BY FS_AddElement
<1>3. /\ IsFiniteSet(S \ {x})
      /\ Cardinality(S \ {x}) = IF x \in S THEN Cardinality(S) - 1 ELSE Cardinality(S)
  BY FS_RemoveElement
<1>4. Cardinality(T) \in Nat
  BY <1>2, <1>3, FS_CardinalityType
<1>5. CASE T = S \cup {x}
  BY <1>1, <1>2, <1>4, <1>5
<1>6. CASE T = S \ {x}
  BY <1>1, <1>3, <1>4, <1>6
<1> QED BY <1>5, <1>6

\* The rest of the invariant after a step of Run.
LEMMA RunStepKeeps ==
    ASSUME IInv, NEW t \in Threads, NEW r \in Runs,
           RunConsistent(r), run' = [run EXCEPT ![t] = r],
           NoLifecycle, enabled' = enabled, r.counted => is_inited,
           uncounted' \in Nat, failed' \in Nat,
           \/ uncounted' = uncounted /\ (r.counted \/ Tally(r) = 0)
           \/ uncounted' = uncounted + 1,
           current_num_runs' = current_num_runs + Tally(r) - Tally(run[t]) - (uncounted' - uncounted),
           CUDATypeOK', CUDAInv'
    PROVE  IInv'
<1>1. /\ run' \in [Threads -> Runs]
      /\ RunsConsistent'
      /\ Counted' = IF r.counted THEN Counted \cup {t} ELSE Counted \ {t}
      /\ Leaving' = IF r.pc = "ending" /\ ~r.counted THEN Leaving \cup {t} ELSE Leaving \ {t}
  BY RunChanges DEF IInv
<1>2. current_num_runs \in Int /\ uncounted \in Nat /\ run[t] \in Runs
  BY DEF IInv, SessionTypeOK
<1>3. Tally(r) \in Int /\ Tally(run[t]) \in Int
  BY DEF Tally
<1>4. SessionTypeOK'
  <2>1. current_num_runs' \in Int
    BY <1>2, <1>3
  <2>2. enabled' \in BOOLEAN
    BY Zenon DEF IInv, SessionTypeOK
  <2> QED BY <1>1, <2>1, <2>2 DEF SessionTypeOK
<1>5. InitedIsReady'
  BY <1>1 DEF IInv, InitedIsReady, NoLifecycle, SessionTypeOK
<1>6. CountExact'
  <2>1. IsFiniteSet(Counted) /\ IsFiniteSet(Leaving)
    BY FS_Subset, ThreadsFinite DEF Counted, Leaving
  <2>0. /\ Counted' = Counted \cup {t} \/ Counted' = Counted \ {t}
        /\ Leaving' = Leaving \cup {t} \/ Leaving' = Leaving \ {t}
    BY <1>1
  <2>2. /\ Cardinality(Counted) \in Nat /\ Cardinality(Counted') \in Nat
        /\ Cardinality(Counted') = Cardinality(Counted) + (IF t \in Counted' THEN 1 ELSE 0)
                                                        - (IF t \in Counted THEN 1 ELSE 0)
    BY <2>1, <2>0, CardinalityStep, Zenon
  <2>3. /\ Cardinality(Leaving) \in Nat /\ Cardinality(Leaving') \in Nat
        /\ Cardinality(Leaving') = Cardinality(Leaving) + (IF t \in Leaving' THEN 1 ELSE 0)
                                                        - (IF t \in Leaving THEN 1 ELSE 0)
    BY <2>1, <2>0, CardinalityStep, Zenon
  <2>4. Tally(r) = (IF t \in Counted' THEN 1 ELSE 0) + (IF t \in Leaving' THEN 1 ELSE 0)
    BY <1>1 DEF Tally
  <2>5. Tally(run[t]) = (IF t \in Counted THEN 1 ELSE 0) + (IF t \in Leaving THEN 1 ELSE 0)
    BY DEF Tally, Counted, Leaving
  <2>6. current_num_runs = Cardinality(Counted) - uncounted + Cardinality(Leaving)
    BY DEF IInv, CountExact
  <2>7. current_num_runs' = Cardinality(Counted') - uncounted' + Cardinality(Leaving')
    BY <1>2, <1>3, <2>2, <2>3, <2>4, <2>5, <2>6
  <2>8. Cardinality(Leaving) <= uncounted
    BY DEF IInv, CountExact
  <2>9. uncounted' = uncounted => t \notin Leaving'
    BY <1>1, <1>2 DEF Tally
  <2>10. Cardinality(Leaving') <= uncounted'
    BY <1>2, <2>3, <2>8, <2>9
  <2> QED BY <2>7, <2>10 DEF CountExact
<1> QED BY <1>1, <1>4, <1>5, <1>6 DEF IInv

\* Steps of Run that have to do with neither the counter nor the provider.
LEMMA QuietRunStep ==
    ASSUME IInv, NEW t \in Threads, NEW r \in Runs,
           RunConsistent(r), run' = [run EXCEPT ![t] = r],
           NoLifecycle, enabled' = enabled, r.counted => is_inited,
           UNCHANGED <<current_num_runs, uncounted, failed, cuda_vars>>,
           Tally(r) = Tally(run[t]), r.counted \/ Tally(r) = 0,
           Holds(r) <=> t \in Holding
    PROVE  IInv'
<1>1. Holding' = Holding
  BY RunChanges DEF IInv
<1>2. CUDATypeOK' /\ CUDAInv'
  BY <1>1, CUDAStutters DEF IInv
<1>3. Tally(r) \in Int /\ current_num_runs \in Int /\ uncounted \in Nat /\ failed \in Nat
  BY DEF Tally, IInv, SessionTypeOK
<1>4. /\ uncounted' \in Nat /\ failed' \in Nat
      /\ current_num_runs' = current_num_runs + Tally(r) - Tally(run[t]) - (uncounted' - uncounted)
  BY <1>3
<1> QED BY <1>2, <1>4, RunStepKeeps

\* Run is called (inference_session.cc:1005).
LEMMA EnterStep ==
    ASSUME IInv, NEW t \in Threads, NEW in \in Inputs \cup {Invalid, Empty}, RunEnter(t, in)
    PROVE  IInv'
<1>1. PICK r : r = [Idle EXCEPT !.pc = IF enabled THEN "time" ELSE "check", !.input = in]
  OBVIOUS
<1>2. /\ run[t].pc = "idle"
      /\ run' = [run EXCEPT ![t] = r]
      /\ NoLifecycle
      /\ UNCHANGED <<current_num_runs, uncounted, failed, cuda_vars, enabled>>
  BY <1>1 DEF RunEnter
<1>3. r \in Runs /\ RunConsistent(r) /\ ~r.counted /\ ~Holds(r) /\ Tally(r) = 0
  BY <1>1 DEF Idle, Runs, Labels, RunConsistent, Tally, Holds
<1>4. RunConsistent(run[t])
  BY DEF IInv, RunsConsistent
<1>5. Tally(run[t]) = 0 /\ t \notin Holding
  BY <1>2, <1>4 DEF RunConsistent, Tally, Holding, Holds
<1> QED BY <1>2, <1>3, <1>5, QuietRunStep

\* StartTime of the profiler, which throws out of Run once profiling has ended.
LEMMA StartTimeStep ==
    ASSUME IInv, NEW t \in Threads, RunStartTime(t)
    PROVE  IInv'
<1>1. PICK r : r = IF enabled THEN [run[t] EXCEPT !.pc = "check"] ELSE Idle
  OBVIOUS
<1>2. /\ run[t].pc = "time"
      /\ run' = [run EXCEPT ![t] = r]
      /\ NoLifecycle
      /\ UNCHANGED <<current_num_runs, uncounted, failed, cuda_vars, enabled>>
  BY <1>1 DEF RunStartTime, NoCounts
<1>3. RunConsistent(run[t]) /\ run[t] \in Runs
  BY DEF IInv, RunsConsistent, SessionTypeOK
<1>4. Tally(run[t]) = 0 /\ t \notin Holding
  BY <1>2, <1>3 DEF RunConsistent, Tally, Holding, Holds
<1>5. r \in Runs /\ RunConsistent(r) /\ ~r.counted /\ ~Holds(r) /\ Tally(r) = 0
  BY <1>1, <1>2, <1>3 DEF Idle, Runs, Labels, RunConsistent, Tally, Holds
<1> QED BY <1>2, <1>4, <1>5, QuietRunStep

\* is_inited_ is not set: Run returns an error.
LEMMA RefusedStep ==
    ASSUME IInv, NEW t \in Threads, RunRefused(t)
    PROVE  IInv'
<1>1. /\ run[t].pc = "check"
      /\ run' = [run EXCEPT ![t] = Idle]
      /\ NoLifecycle
      /\ UNCHANGED <<current_num_runs, uncounted, failed, cuda_vars, enabled>>
  BY DEF RunRefused, NoCounts
<1>2. RunConsistent(run[t])
  BY DEF IInv, RunsConsistent
<1>3. Tally(run[t]) = 0 /\ t \notin Holding
  BY <1>1, <1>2 DEF RunConsistent, Tally, Holding, Holds
<1>4. ~Idle.counted /\ ~Holds(Idle)
  BY DEF Idle, Holds
<1> QED BY <1>1, <1>3, <1>4, IdleType, QuietRunStep

\* Validation fails or throws before the counter is incremented.
LEMMA CheckThrowsStep ==
    ASSUME IInv, NEW t \in Threads, RunCheckThrows(t)
    PROVE  IInv'
<1>1. PICK r : r = [run[t] EXCEPT !.pc = "ending", !.ok = FALSE]
  OBVIOUS
<1>2. RunConsistent(run[t]) /\ run[t] \in Runs /\ run \in [Threads -> Runs]
  BY DEF IInv, RunsConsistent, SessionTypeOK
<1>3. /\ run[t].pc = "check"
      /\ run' = [run EXCEPT ![t] = r]
      /\ NoLifecycle
      /\ uncounted' = uncounted + 1
      /\ UNCHANGED <<current_num_runs, failed, cuda_vars, enabled>>
  BY <1>1, <1>2 DEF RunCheckThrows, Fail, Runs
<1>4. Tally(run[t]) = 0 /\ t \notin Holding
  BY <1>2, <1>3 DEF RunConsistent, Tally, Holding, Holds
<1>5. r \in Runs /\ RunConsistent(r) /\ ~r.counted /\ ~Holds(r) /\ Tally(r) = 1
  BY <1>1, <1>2, <1>3 DEF Runs, Labels, RunConsistent, Tally, Holds
<1>6. Holding' = Holding
  BY <1>3, <1>4, <1>5, RunChanges DEF IInv
<1>7. CUDATypeOK' /\ CUDAInv'
  BY <1>3, <1>6, CUDAStutters DEF IInv
<1>8. current_num_runs \in Int /\ uncounted \in Nat /\ failed \in Nat
  BY DEF IInv, SessionTypeOK
<1>9. /\ uncounted' \in Nat /\ failed' \in Nat
      /\ current_num_runs' = current_num_runs + Tally(r) - Tally(run[t]) - (uncounted' - uncounted)
  BY <1>3, <1>4, <1>5, <1>8
<1> QED BY <1>3, <1>5, <1>7, <1>9, RunStepKeeps

\* ++current_num_runs_.
LEMMA CountedStep ==
    ASSUME IInv, NEW t \in Threads, RunCounted(t)
    PROVE  IInv'
<1>1. PICK r : r = [run[t] EXCEPT !.pc = "start", !.counted = TRUE]
  OBVIOUS
<1>2. RunConsistent(run[t]) /\ run[t] \in Runs /\ run \in [Threads -> Runs]
  BY DEF IInv, RunsConsistent, SessionTypeOK
<1>3. /\ run[t].pc = "check"
      /\ is_inited
      /\ run' = [run EXCEPT ![t] = r]
      /\ NoLifecycle
      /\ current_num_runs' = current_num_runs + 1
      /\ UNCHANGED <<uncounted, failed, cuda_vars, enabled>>
  BY <1>1, <1>2 DEF RunCounted, Runs
<1>4. Tally(run[t]) = 0 /\ t \notin Holding
  BY <1>2, <1>3 DEF RunConsistent, Tally, Holding, Holds
<1>5. r \in Runs /\ RunConsistent(r) /\ r.counted /\ ~Holds(r) /\ Tally(r) = 1
  <2>1. r \in Runs
    BY <1>1, <1>2 DEF Runs, Labels
  <2>2. run[t].told = {} /\ run[t].ended = {} /\ run[t].ok
    BY <1>2, <1>3 DEF RunConsistent
  <2>3. r.pc = "start" /\ r.counted /\ r.told = {} /\ r.ended = {} /\ r.ok
    BY <1>1, <1>2, <2>2 DEF Runs
  <2> QED BY <2>1, <2>3 DEF RunConsistent, Tally, Holds
<1>6. Holding' = Holding
  BY <1>3, <1>4, <1>5, RunChanges DEF IInv
<1>7. CUDATypeOK' /\ CUDAInv'
  BY <1>3, <1>6, CUDAStutters DEF IInv
<1>8. current_num_runs \in Int /\ uncounted \in Nat /\ failed \in Nat
  BY DEF IInv, SessionTypeOK
<1>9. /\ uncounted' \in Nat /\ failed' \in Nat
      /\ current_num_runs' = current_num_runs + Tally(r) - Tally(run[t]) - (uncounted' - uncounted)
  BY <1>3, <1>4, <1>5, <1>8
<1> QED BY <1>3, <1>5, <1>7, <1>9, RunStepKeeps

\* A counted run fails: it keeps its count and what it holds.
LEMMA FailKeeps ==
    ASSUME IInv, NEW t \in Threads, run[t].counted, Fail(t)
    PROVE  \E r \in Runs :
             /\ run' = [run EXCEPT ![t] = r]
             /\ RunConsistent(r)
             /\ r.counted
             /\ Tally(r) = Tally(run[t])
             /\ Holds(r) <=> t \in Holding
<1>1. PICK r : r = [run[t] EXCEPT !.pc = "ending", !.ok = FALSE]
  OBVIOUS
<1>2. run[t] \in Runs /\ run \in [Threads -> Runs]
  BY DEF IInv, SessionTypeOK
<1>3. run' = [run EXCEPT ![t] = r]
  BY <1>1, <1>2 DEF Fail, Runs
<1>4. r \in Runs
  BY <1>1, <1>2 DEF Runs, Labels
<1>5. /\ r.pc = "ending" /\ ~r.ok /\ r.counted
      /\ r.told = run[t].told /\ r.ended = run[t].ended
  BY <1>1, <1>2 DEF Runs
<1>6. RunConsistent(r) /\ Tally(r) = Tally(run[t])
  BY <1>5 DEF RunConsistent, Tally
<1>7. Holds(r) <=> t \in Holding
  BY <1>5 DEF Holds, Holding
<1> QED BY <1>3, <1>4, <1>5, <1>6, <1>7

\* One provider is told that the run starts, and may fail.
LEMMA OnRunStartStep ==
    ASSUME IInv, NEW t \in Threads, RunOnRunStart(t)
    PROVE  IInv'
<1>1. RunConsistent(run[t]) /\ run[t] \in Runs /\ run \in [Threads -> Runs]
  BY DEF IInv, RunsConsistent, SessionTypeOK
<1>2. /\ run[t].pc = "start"
      /\ NoLifecycle
      /\ UNCHANGED <<current_num_runs, uncounted, failed, enabled>>
  BY DEF RunOnRunStart, NoCounts
<1>3. run[t].ok /\ run[t].ended = {} /\ run[t].counted /\ is_inited
  BY <1>1, <1>2 DEF RunConsistent, IInv, InitedIsReady
<1>4. PICK p \in Range(Providers) :
        /\ p \notin run[t].told
        /\ \/ /\ run' = [run EXCEPT ![t].told = @ \cup {p}]
              /\ IF p = "cuda" THEN OnRunStart(t) ELSE UNCHANGED cuda_vars
           \/ /\ Fail(t)
              /\ IF p = "cuda" THEN OnRunStartFails(t) ELSE UNCHANGED cuda_vars
  BY DEF RunOnRunStart, IsNext, Waiting
<1>5. current_num_runs \in Int /\ uncounted \in Nat /\ failed \in Nat
  BY DEF IInv, SessionTypeOK
<1>6. ASSUME NEW r \in Runs, run' = [run EXCEPT ![t] = r], RunConsistent(r), r.counted,
             CUDATypeOK', CUDAInv', Tally(r) = Tally(run[t])
      PROVE  IInv'
  <2>1. Tally(r) \in Int
    BY DEF Tally
  <2>2. /\ uncounted' \in Nat /\ failed' \in Nat
        /\ current_num_runs' = current_num_runs + Tally(r) - Tally(run[t]) - (uncounted' - uncounted)
    BY <1>2, <1>5, <1>6, <2>1
  <2> QED BY <1>2, <1>3, <1>6, <2>2, RunStepKeeps
<1>7. CASE /\ run' = [run EXCEPT ![t].told = @ \cup {p}]
           /\ IF p = "cuda" THEN OnRunStart(t) ELSE UNCHANGED cuda_vars
  <2>1. PICK r : r = [run[t] EXCEPT !.told = @ \cup {p}]
    OBVIOUS
  <2>2. run' = [run EXCEPT ![t] = r] /\ r \in Runs
    BY <1>1, <1>7, <2>1 DEF Runs
  <2>3. /\ r.pc = "start" /\ r.ok /\ r.counted /\ r.ended = {}
        /\ r.told = run[t].told \cup {p}
    BY <1>1, <1>2, <1>3, <2>1 DEF Runs
  <2>4. RunConsistent(r) /\ Tally(r) = Tally(run[t])
    BY <1>3, <2>3 DEF RunConsistent, Tally
  <2>5. CASE p = "cuda"
    <3>1. Holds(r) /\ t \notin Holding
      BY <1>4, <2>3, <2>5 DEF Holds, Holding
    <3>2. Holding' = Holding \cup {t}
      BY <2>2, <2>4, <3>1, RunChanges DEF IInv
    <3>3. CUDATypeOK' /\ CUDAInv'
      BY <1>2, <1>5, <1>7, <2>5, <3>1, <3>2, CUDAStart DEF IInv
    <3> QED BY <1>6, <2>2, <2>3, <2>4, <3>3
  <2>6. CASE p # "cuda"
    <3>1. Holds(r) <=> t \in Holding
      BY <1>3, <2>3, <2>6 DEF Holds, Holding
    <3>2. Holding' = Holding
      BY <2>2, <2>4, <3>1, RunChanges DEF IInv
    <3>3. CUDATypeOK' /\ CUDAInv'
      BY <1>2, <1>7, <2>6, <3>2, CUDAStutters DEF IInv
    <3> QED BY <1>6, <2>2, <2>3, <2>4, <3>3
  <2> QED BY <2>5, <2>6
<1>8. CASE /\ Fail(t)
           /\ IF p = "cuda" THEN OnRunStartFails(t) ELSE UNCHANGED cuda_vars
  <2>1. PICK r \in Runs : /\ run' = [run EXCEPT ![t] = r]
                          /\ RunConsistent(r)
                          /\ r.counted
                          /\ Tally(r) = Tally(run[t])
                          /\ Holds(r) <=> t \in Holding
    BY <1>3, <1>8, FailKeeps
  <2>2. Holding' = Holding
    BY <2>1, RunChanges DEF IInv
  <2>3. CASE p = "cuda"
    <3>1. t \notin Holding
      BY <1>4, <2>3 DEF Holds, Holding
    <3>2. CUDATypeOK' /\ CUDAInv'
      BY <1>2, <1>5, <1>8, <2>2, <2>3, <3>1, CUDAStartFails DEF IInv
    <3> QED BY <1>6, <2>1, <3>2
  <2>4. CASE p # "cuda"
    <3>1. CUDATypeOK' /\ CUDAInv'
      BY <1>2, <1>8, <2>2, <2>4, CUDAStutters DEF IInv
    <3> QED BY <1>6, <2>1, <3>1
  <2> QED BY <2>3, <2>4
<1> QED BY <1>4, <1>7, <1>8

\* Every provider has been told: ExecuteGraph begins.
LEMMA ExecuteStep ==
    ASSUME IInv, NEW t \in Threads, RunExecute(t)
    PROVE  IInv'
<1>1. RunConsistent(run[t]) /\ run[t] \in Runs /\ run \in [Threads -> Runs]
  BY DEF IInv, RunsConsistent, SessionTypeOK
<1>2. PICK r : r = [run[t] EXCEPT !.pc = "execute", !.profiled = enabled]
  OBVIOUS
<1>3. /\ run[t].pc = "start"
      /\ Waiting(run[t].told) = {}
      /\ run' = [run EXCEPT ![t] = r]
      /\ NoLifecycle
      /\ UNCHANGED <<current_num_runs, uncounted, failed, cuda_vars, enabled>>
  BY <1>1, <1>2 DEF RunExecute, NoCounts, Runs
<1>4. run[t].ok /\ run[t].ended = {} /\ run[t].counted /\ is_inited
  BY <1>1, <1>3 DEF RunConsistent, IInv, InitedIsReady
<1>5. run[t].told = Range(Providers)
  BY <1>1, <1>3 DEF Waiting, Range, Runs
<1>6. r \in Runs
  <2>1. enabled \in BOOLEAN
    BY Zenon DEF IInv, SessionTypeOK
  <2> QED BY <1>1, <1>2, <2>1 DEF Runs, Labels
<1>7. /\ r.pc = "execute" /\ r.ok /\ r.counted /\ r.ended = {}
      /\ r.told = run[t].told
  BY <1>1, <1>2, <1>4 DEF Runs
<1>8. RunConsistent(r) /\ Tally(r) = Tally(run[t])
  BY <1>4, <1>5, <1>7 DEF RunConsistent, Tally
<1>9. Holds(r) <=> t \in Holding
  BY <1>4, <1>7 DEF Holds, Holding
<1> QED BY <1>3, <1>4, <1>6, <1>7, <1>8, <1>9, QuietRunStep

\* A node runs; one that copies from pinned memory keeps its buffer.
LEMMA NodeStep ==
    ASSUME IInv, NEW t \in Threads, RunNode(t)
    PROVE  IInv'
<1>1. RunConsistent(run[t]) /\ run[t] \in Runs /\ run \in [Threads -> Runs]
  BY DEF IInv, RunsConsistent, SessionTypeOK
<1>2. /\ run[t].pc = "execute"
      /\ run' = run
      /\ NoLifecycle
      /\ UNCHANGED <<current_num_runs, uncounted, failed, enabled>>
      /\ IF frame[t].next \in PinnedNodes THEN AddDeferredReleaseCPUPtr(t) ELSE UNCHANGED cuda_vars
  BY DEF RunNode, NoCounts
<1>3. /\ run[t].told = Range(Providers)
      /\ run[t].ended = {} /\ run[t].counted /\ is_inited
  BY <1>1, <1>2 DEF RunConsistent, IInv, InitedIsReady
<1>4. Holding' = Holding
  BY <1>2 DEF Holding
<1>5. CUDATypeOK' /\ CUDAInv'
  <2>1. CASE frame[t].next \in PinnedNodes
    <3>1. t \in Holding
      BY <1>3, <2>1, SessionConstants DEF Holding, Holds
    <3> QED BY <1>2, <1>4, <2>1, <3>1, CUDAAddPtr DEF IInv
  <2>2. CASE frame[t].next \notin PinnedNodes
    BY <1>2, <1>4, <2>2, CUDAStutters DEF IInv
  <2> QED BY <2>1, <2>2
<1>6. run' = [run EXCEPT ![t] = run[t]]
  BY <1>1, <1>2
<1>7. /\ uncounted' \in Nat /\ failed' \in Nat
      /\ current_num_runs' = current_num_runs + Tally(run[t]) - Tally(run[t]) - (uncounted' - uncounted)
  BY <1>2 DEF Tally, IInv, SessionTypeOK
<1> QED BY <1>1, <1>2, <1>3, <1>5, <1>6, <1>7, RunStepKeeps

\* A node fails, and the run with it.
LEMMA NodeFailsStep ==
    ASSUME IInv, NEW t \in Threads, RunNodeFails(t)
    PROVE  IInv'
<1>1. /\ run[t].pc = "execute"
      /\ Fail(t)
      /\ NoLifecycle
      /\ UNCHANGED <<current_num_runs, uncounted, failed, cuda_vars, enabled>>
  BY DEF RunNodeFails, NoCounts
<1>2. run[t].counted /\ is_inited
  BY <1>1 DEF IInv, RunsConsistent, RunConsistent, InitedIsReady
<1>3. PICK r \in Runs : /\ run' = [run EXCEPT ![t] = r]
                        /\ RunConsistent(r)
                        /\ r.counted
                        /\ Tally(r) = Tally(run[t])
                        /\ Holds(r) <=> t \in Holding
  BY <1>1, <1>2, FailKeeps
<1> QED BY <1>1, <1>2, <1>3, QuietRunStep

\* ExecuteGraph returns OK.
LEMMA FinishStep ==
    ASSUME IInv, NEW t \in Threads, RunFinish(t)
    PROVE  IInv'
<1>1. RunConsistent(run[t]) /\ run[t] \in Runs /\ run \in [Threads -> Runs]
  BY DEF IInv, RunsConsistent, SessionTypeOK
<1>2. PICK r : r = [run[t] EXCEPT !.pc = "ending"]
  OBVIOUS
<1>3. /\ run[t].pc = "execute"
      /\ run' = [run EXCEPT ![t] = r]
      /\ NoLifecycle
      /\ UNCHANGED <<current_num_runs, uncounted, failed, cuda_vars, enabled>>
  BY <1>1, <1>2 DEF RunFinish, Goto, NoCounts, Runs
<1>4. /\ run[t].told = Range(Providers) /\ run[t].ok
      /\ run[t].ended = {} /\ run[t].counted /\ is_inited
  BY <1>1, <1>3 DEF RunConsistent, IInv, InitedIsReady
<1>5. r \in Runs
  BY <1>1, <1>2 DEF Runs, Labels
<1>6. /\ r.pc = "ending" /\ r.ok /\ r.counted /\ r.ended = {}
      /\ r.told = run[t].told
  BY <1>1, <1>2, <1>4 DEF Runs
<1>7. RunConsistent(r) /\ Tally(r) = Tally(run[t])
  BY <1>4, <1>6 DEF RunConsistent, Tally
<1>8. Holds(r) <=> t \in Holding
  BY <1>4, <1>6 DEF Holds, Holding
<1> QED BY <1>3, <1>4, <1>5, <1>6, <1>7, <1>8, QuietRunStep

\* The outputs cannot be copied to the caller's device.
LEMMA CopyOutputsFailsStep ==
    ASSUME IInv, NEW t \in Threads, RunCopyOutputsFails(t)
    PROVE  IInv'
<1>1. /\ run[t].pc = "execute"
      /\ Fail(t)
      /\ NoLifecycle
      /\ UNCHANGED <<current_num_runs, uncounted, failed, cuda_vars, enabled>>
  BY DEF RunCopyOutputsFails, NoCounts
<1>2. run[t].counted /\ is_inited
  BY <1>1 DEF IInv, RunsConsistent, RunConsistent, InitedIsReady
<1>3. PICK r \in Runs : /\ run' = [run EXCEPT ![t] = r]
                        /\ RunConsistent(r)
                        /\ r.counted
                        /\ Tally(r) = Tally(run[t])
                        /\ Holds(r) <=> t \in Holding
  BY <1>1, <1>2, FailKeeps
<1> QED BY <1>1, <1>2, <1>3, QuietRunStep

\* One provider is told that the run ends, as long as all is well.
LEMMA OnRunEndStep ==
    ASSUME IInv, NEW t \in Threads, RunOnRunEnd(t)
    PROVE  IInv'
<1>1. RunConsistent(run[t]) /\ run[t] \in Runs /\ run \in [Threads -> Runs]
  BY DEF IInv, RunsConsistent, SessionTypeOK
<1>2. /\ run[t].pc = "ending"
      /\ run[t].ok
      /\ NoLifecycle
      /\ UNCHANGED <<current_num_runs, uncounted, failed, enabled>>
  BY DEF RunOnRunEnd, NoCounts
<1>3. run[t].told = Range(Providers) /\ run[t].counted /\ is_inited
  BY <1>1, <1>2 DEF RunConsistent, IInv, InitedIsReady
<1>4. PICK p \in Range(Providers) :
        /\ p \notin run[t].ended
        /\ \/ /\ run' = [run EXCEPT ![t].ended = @ \cup {p}]
              /\ IF p = "cuda" THEN OnRunEnd(t) ELSE UNCHANGED cuda_vars
           \/ /\ Fail(t)
              /\ UNCHANGED cuda_vars
  BY DEF RunOnRunEnd, OnRunEndFails, IsNext, Waiting
<1>5. current_num_runs \in Int /\ uncounted \in Nat /\ failed \in Nat
  BY DEF IInv, SessionTypeOK
<1>6. CASE /\ run' = [run EXCEPT ![t].ended = @ \cup {p}]
           /\ IF p = "cuda" THEN OnRunEnd(t) ELSE UNCHANGED cuda_vars
  <2>1. PICK r : r = [run[t] EXCEPT !.ended = @ \cup {p}]
    OBVIOUS
  <2>2. run' = [run EXCEPT ![t] = r] /\ r \in Runs
    BY <1>1, <1>6, <2>1 DEF Runs
  <2>3. /\ r.pc = "ending" /\ r.ok /\ r.counted
        /\ r.told = run[t].told
        /\ r.ended = run[t].ended \cup {p}
    BY <1>1, <1>2, <1>3, <2>1 DEF Runs
  <2>4. RunConsistent(r) /\ Tally(r) = Tally(run[t])
    BY <1>3, <2>3 DEF RunConsistent, Tally
  <2>5. CASE p = "cuda"
    <3>1. ~Holds(r) /\ t \in Holding
      BY <1>3, <1>4, <2>3, <2>5 DEF Holds, Holding
    <3>2. Holding' = Holding \ {t}
      BY <2>2, <2>4, <3>1, RunChanges DEF IInv
    <3>3. CUDATypeOK' /\ CUDAInv'
      BY <1>2, <1>5, <1>6, <2>5, <3>1, <3>2, CUDAEnd DEF IInv
    <3>4. Tally(r) \in Int
      BY DEF Tally
    <3>5. /\ uncounted' \in Nat /\ failed' \in Nat
          /\ current_num_runs' = current_num_runs + Tally(r) - Tally(run[t]) - (uncounted' - uncounted)
      BY <1>2, <1>5, <2>4, <3>4
    <3> QED BY <1>2, <1>3, <2>2, <2>3, <2>4, <3>3, <3>5, RunStepKeeps
  <2>6. CASE p # "cuda"
    <3>1. Holds(r) <=> t \in Holding
      BY <2>3, <2>6 DEF Holds, Holding
    <3> QED BY <1>2, <1>3, <1>6, <2>2, <2>3, <2>4, <2>6, <3>1, QuietRunStep
  <2> QED BY <2>5, <2>6
<1>7. CASE Fail(t) /\ UNCHANGED cuda_vars
  <2>1. PICK r \in Runs : /\ run' = [run EXCEPT ![t] = r]
                          /\ RunConsistent(r)
                          /\ r.counted
                          /\ Tally(r) = Tally(run[t])
                          /\ Holds(r) <=> t \in Holding
    BY <1>3, <1>7, FailKeeps
  <2> QED BY <1>2, <1>3, <1>7, <2>1, QuietRunStep
<1> QED BY <1>4, <1>6, <1>7

\* --current_num_runs_, and Run returns.
LEMMA ReturnStep ==
    ASSUME IInv, NEW t \in Threads, RunReturn(t)
    PROVE  IInv'
<1>1. RunConsistent(run[t]) /\ run[t] \in Runs /\ run \in [Threads -> Runs]
  BY DEF IInv, RunsConsistent, SessionTypeOK
<1>2. /\ run[t].pc = "ending"
      /\ run[t].ok => Waiting(run[t].ended) = {}
      /\ run' = [run EXCEPT ![t] = Idle]
      /\ NoLifecycle
      /\ current_num_runs' = current_num_runs - 1
      /\ failed' = IF run[t].ok \/ ~run[t].counted THEN failed ELSE failed + 1
      /\ UNCHANGED <<uncounted, cuda_vars, enabled>>
  BY DEF RunReturn
<1>3. current_num_runs \in Int /\ uncounted \in Nat /\ failed \in Nat
  BY DEF IInv, SessionTypeOK
<1>4. ~Holds(Idle) /\ ~Idle.counted /\ Idle \in Runs /\ RunConsistent(Idle) /\ Tally(Idle) = 0
  BY IdleType DEF Idle, Holds
<1>5. Holding' = Holding \ {t}
  BY <1>2, <1>4, RunChanges DEF IInv
<1>6. t \in Holding => ~run[t].ok /\ run[t].counted
  <2>1. SUFFICES ASSUME Holds(run[t]) PROVE ~run[t].ok /\ run[t].counted
    BY DEF Holding
  <2>2. run[t].counted
    BY <1>1, <2>1 DEF RunConsistent, Holds
  <2>3. "cuda" \in Range(Providers) /\ "cuda" \notin run[t].ended
    BY <1>1, <2>1 DEF Holds, Runs
  <2>4. Waiting(run[t].ended) # {}
    BY <2>3 DEF Waiting, Range
  <2> QED BY <1>2, <2>2, <2>4
<1>7. /\ failed' \in Nat
      /\ failed' \in {failed, failed + 1}
      /\ t \in Holding => failed' = failed + 1
  BY <1>2, <1>3, <1>6
<1>8. CUDATypeOK' /\ CUDAInv'
  BY <1>2, <1>3, <1>5, <1>7, CUDAReturn DEF IInv
<1>9. Tally(run[t]) = 1
  BY <1>2 DEF Tally
<1>10. /\ uncounted' \in Nat
       /\ current_num_runs' = current_num_runs + Tally(Idle) - Tally(run[t]) - (uncounted' - uncounted)
  BY <1>2, <1>3, <1>4, <1>9
<1> QED BY <1>2, <1>4, <1>7, <1>8, <1>10, RunStepKeeps

-----------------------------------------------------------------------------
(* The other steps, and the whole. *)

\* Steps that leave the runs, their count and the provider alone.
LEMMA RunsUntouched ==
    ASSUME IInv, UNCHANGED <<run, current_num_runs, uncounted, failed, cuda_vars>>,
           enabled' \in BOOLEAN, InitedIsReady'
    PROVE  IInv'
<1>1. SessionTypeOK'
  BY DEF IInv, SessionTypeOK
<1>2. RunsConsistent'
  BY DEF IInv, RunsConsistent
<1>3. CountExact'
  <2>1. Counted' = Counted /\ Leaving' = Leaving
    BY DEF Counted, Leaving
  <2> QED BY <2>1 DEF IInv, CountExact
<1>4. Holding' = Holding
  BY DEF Holding
<1>5. CUDATypeOK' /\ CUDAInv'
  BY <1>4, CUDAStutters DEF IInv
<1> QED BY <1>1, <1>2, <1>3, <1>5 DEF IInv

\* Load and Initialize, step by step, beside the runs.
LEMMA LifecycleStep ==
    ASSUME IInv, Lifecycle
    PROVE  IInv'
<1>1. UNCHANGED <<run, current_num_runs, uncounted, failed, cuda_vars>>
  BY DEF Lifecycle, Load, InitializeBegin, InitializeTransform, InitializePlan,
         InitializeFails, InitializeEnd, OthersRun
<1>2. enabled' \in BOOLEAN
  <2>1. enabled' = enabled
    BY DEF Lifecycle, Load, InitializeBegin, InitializeTransform, InitializePlan,
           InitializeFails, InitializeEnd
  <2> QED BY <2>1, Zenon DEF IInv, SessionTypeOK
<1>3. InitedIsReady'
  <2>1. CASE Load
    BY <1>1, <2>1 DEF IInv, InitedIsReady, Load
  <2>2. CASE InitializeBegin
    BY <1>1, <2>2 DEF IInv, InitedIsReady, InitializeBegin
  <2>3. CASE InitializeTransform
    BY <1>1, <2>3 DEF IInv, InitedIsReady, InitializeTransform
  <2>4. CASE InitializePlan
    BY <1>1, <2>4 DEF IInv, InitedIsReady, InitializePlan
  <2>5. CASE InitializeFails
    BY <1>1, <2>5 DEF IInv, InitedIsReady, InitializeFails
  <2>6. CASE InitializeEnd
    BY <1>1, <2>6 DEF IInv, InitedIsReady, InitializeEnd
  <2> QED BY <2>1, <2>2, <2>3, <2>4, <2>5, <2>6 DEF Lifecycle
<1> QED BY <1>1, <1>2, <1>3, RunsUntouched

\* StartProfiling and EndProfiling.
LEMMA ProfilingStep ==
    ASSUME IInv, SwitchProfiling
    PROVE  IInv'
<1>1. UNCHANGED <<run, current_num_runs, uncounted, failed, cuda_vars>>
  BY DEF SwitchProfiling, OthersRun
<1>2. enabled' \in BOOLEAN
  <2>1. CASE enabled' = TRUE
    BY <2>1
  <2> QED BY <2>1, Zenon DEF SwitchProfiling, StartProfiling, EndProfiling
<1>3. InitedIsReady'
  BY <1>1 DEF IInv, InitedIsReady, SwitchProfiling, NoLifecycle
<1> QED BY <1>1, <1>2, <1>3, RunsUntouched

\* The device carries out a copy.
LEMMA DeviceCopyStep ==
    ASSUME IInv, NEW t \in Threads, DeviceCopy(t)
    PROVE  IInv'
<1>1. UNCHANGED <<run, current_num_runs, uncounted, failed, cuda_vars>> /\ enabled' = enabled
  BY DEF DeviceCopy, session_vars
<1>2. enabled' \in BOOLEAN
  BY <1>1, Zenon DEF IInv, SessionTypeOK
<1>3. InitedIsReady'
  BY DEF IInv, InitedIsReady, DeviceCopy, session_vars
<1> QED BY <1>1, <1>2, <1>3, RunsUntouched

\* The device passes an event.
LEMMA DeviceEventStep ==
    ASSUME IInv, DeviceEvent
    PROVE  IInv'
<1>1. PICK e \in Events : DevicePasses(e)
  BY DEF DeviceEvent
<1>2. UNCHANGED <<session_vars, enabled>>
  BY DEF DeviceEvent
<1>3. Holding' = Holding /\ failed' = failed
  BY <1>2 DEF Holding, session_vars
<1>4. CUDATypeOK' /\ CUDAInv'
  BY <1>1, <1>3, CUDAPasses DEF IInv
<1>5. SessionTypeOK'
  <2>1. enabled' \in BOOLEAN
    BY <1>2, Zenon DEF IInv, SessionTypeOK
  <2> QED BY <1>2, <2>1 DEF IInv, SessionTypeOK, session_vars
<1>6. RunsConsistent' /\ InitedIsReady'
  BY <1>2 DEF IInv, RunsConsistent, InitedIsReady, session_vars
<1>7. CountExact'
  <2>1. Counted' = Counted /\ Leaving' = Leaving
    BY <1>2 DEF Counted, Leaving, session_vars
  <2> QED BY <1>2, <2>1 DEF IInv, CountExact, session_vars
<1> QED BY <1>4, <1>5, <1>6, <1>7 DEF IInv

\* A new session satisfies the invariant.
LEMMA InitHolds == Init => IInv
<1> SUFFICES ASSUME Init PROVE IInv
  OBVIOUS
<1>1. SessionTypeOK
  <2>1. enabled \in BOOLEAN
    BY Zenon DEF Init, ProfilerInit
  <2> QED BY <2>1, IdleType DEF Init, SessionTypeOK
<1>2. CUDATypeOK
  BY DEF Init, CUDAInit, CUDATypeOK
<1>3. InitedIsReady /\ RunsConsistent
  BY IdleType DEF Init, InitedIsReady, RunsConsistent, Idle
<1>4. CountExact
  <2>1. Counted = {} /\ Leaving = {}
    BY DEF Init, Counted, Leaving, Idle
  <2> QED BY <2>1, FS_EmptySet DEF Init, CountExact
<1>5. ContextsExclusive
  BY DEF Init, CUDAInit, ContextsExclusive, IsInjective, Range
<1>6. DOMAIN deferred = {} /\ Holding = {}
  BY DEF Init, CUDAInit, Holding, Holds, Idle
<1>7. EventsHeld /\ PassedIsRecorded /\ InFlightWaits
  BY <1>6 DEF Init, CUDAInit, EventsHeld, PassedIsRecorded, InFlightWaits
<1>8. UnrecordedHeld
  <2>1. Unrecorded = {}
    BY <1>6 DEF Unrecorded
  <2> QED BY <1>6, <2>1, FS_EmptySet DEF Init, UnrecordedHeld
<1> QED BY <1>1, <1>2, <1>3, <1>4, <1>5, <1>7, <1>8 DEF IInv, CUDAInv

\* Every step of a session keeps the invariant.
LEMMA NextKeeps == IInv /\ [Next]_vars => IInv'
<1> SUFFICES ASSUME IInv, [Next]_vars PROVE IInv'
  OBVIOUS
<1>1. CASE Lifecycle
  BY <1>1, LifecycleStep
<1>2. CASE SwitchProfiling
  BY <1>2, ProfilingStep
<1>3. ASSUME NEW t \in Threads, NEW in \in Inputs \cup {Invalid, Empty}, RunEnter(t, in)
      PROVE  IInv'
  BY <1>3, EnterStep
<1>4. ASSUME NEW t \in Threads, RunStep(t)
      PROVE  IInv'
  BY <1>4, StartTimeStep, RefusedStep, CheckThrowsStep, CountedStep, OnRunStartStep,
     ExecuteStep, NodeStep, NodeFailsStep, FinishStep, CopyOutputsFailsStep, OnRunEndStep, ReturnStep
     DEF RunStep
<1>5. ASSUME NEW t \in Threads, DeviceCopy(t)
      PROVE  IInv'
  BY <1>5, DeviceCopyStep
<1>6. CASE DeviceEvent
  BY <1>6, DeviceEventStep
<1>7. CASE UNCHANGED vars
  <2>1. UNCHANGED <<run, current_num_runs, uncounted, failed, cuda_vars>> /\ enabled' = enabled
    BY <1>7 DEF vars, session_vars
  <2>2. enabled' \in BOOLEAN
    BY <2>1, Zenon DEF IInv, SessionTypeOK
  <2>3. InitedIsReady'
    BY <1>7 DEF IInv, InitedIsReady, vars, session_vars
  <2> QED BY <2>1, <2>2, <2>3, RunsUntouched
<1> QED BY <1>1, <1>2, <1>3, <1>4, <1>5, <1>6, <1>7 DEF Next

\* The inductive invariant holds in every reachable state of a session.
THEOREM SessionInvariant == Spec => []IInv
BY InitHolds, NextKeeps, PTL DEF Spec

-----------------------------------------------------------------------------
(* What the runs check, for every number of threads, runs and resources. *)

\* A run that passed the check of is_inited_ (inference_session.cc:1020)
\* finds plan, kernels and graph complete, although Initialize may be under
\* way in another thread or may have failed before.
THEOREM AlwaysReady == Spec => []RunsOnlyWhenReady
<1>1. IInv => RunsOnlyWhenReady
  BY DEF IInv, InitedIsReady, RunsOnlyWhenReady, Counted
<1> QED BY <1>1, SessionInvariant, PTL

\* current_num_runs_ never counts a run twice or one that has returned, and it
\* is exact, whatever else fails, until a run throws before it is counted
\* (inference_session.cc:1035 and 1067).
THEOREM AlwaysCounted == Spec => []RunsCounted
<1>1. IInv => RunsCounted
  <2>1. IsFiniteSet(Counted) /\ IsFiniteSet(Leaving)
    BY FS_Subset, ThreadsFinite DEF Counted, Leaving
  <2>2. Cardinality(Counted) \in Nat /\ Cardinality(Leaving) \in Nat
    BY <2>1, FS_CardinalityType
  <2> QED BY <2>2 DEF IInv, CountExact, SessionTypeOK, RunsCounted
<1> QED BY <1>1, SessionInvariant, PTL

\* No successful run leaves pinned buffers behind an event that is never
\* recorded: OnRunEnd (cuda_execution_provider.cc:200) records it.
THEOREM AlwaysExplained == Spec => []UnrecordedExplained
<1>1. IInv => UnrecordedExplained
  <2> SUFFICES ASSUME IInv PROVE UnrecordedExplained
    OBVIOUS
  <2>1. PICK S : S = {t \in Counted : "cuda" \notin run[t].ended}
    OBVIOUS
  <2>2. Holding \subseteq S
    BY <2>1 DEF IInv, RunsConsistent, RunConsistent, Holding, Holds, Counted
  <2>3. IsFiniteSet(S)
    BY <2>1, FS_Subset, ThreadsFinite DEF Counted
  <2>4. Cardinality(Holding) <= Cardinality(S)
    BY <2>2, <2>3, FS_Subset
  <2>5. Cardinality(Holding) \in Nat /\ Cardinality(S) \in Nat /\ Cardinality(Unrecorded) \in Nat
    BY <2>2, <2>3, FS_Subset, FS_CardinalityType DEF IInv, CUDAInv, UnrecordedHeld
  <2>6. Cardinality(Unrecorded) <= Cardinality(S) + failed
    BY <2>4, <2>5 DEF IInv, CUDAInv, UnrecordedHeld, SessionTypeOK
  <2> QED BY <2>1, <2>6 DEF UnrecordedExplained, Unrecorded
<1> QED BY <1>1, SessionInvariant, PTL

\* OnRunStart (cuda_execution_provider.cc:182) never frees a pinned buffer
\* that a command of any thread's run may still read.
THEOREM AlwaysHeld == Spec => []InFlightHeld
<1>1. IInv => InFlightHeld
  BY DEF IInv, CUDAInv, InFlightWaits, InFlightHeld
<1> QED BY <1>1, SessionInvariant, PTL

\* A context of the CUDA provider is with one thread or once in
\* retired_context_pool_, whatever runs fail or throw.
THEOREM AlwaysExclusive == Spec => []ContextsExclusive
<1>1. IInv => ContextsExclusive
  BY DEF IInv, CUDAInv
<1> QED BY <1>1, SessionInvariant, PTL

-----------------------------------------------------------------------------
(***************************************************************************)
(* Frames and the pattern cache.  A frame puts values where a pattern says,*)
(* without looking at what is live, and the pattern may come from a run    *)
(* with other shapes.  What makes that safe does not depend on shapes: the *)
(* plan frees and makes values in the same order in every run, and values  *)
(* that are not apart in a pattern are such that one dies before the other *)
(* is made.                                                                *)
(***************************************************************************)

AllocType == [index : Values, offset : Nat, size : Nat]
TraceType == [allocs : Seq(AllocType), blocks : Seq(Nat), peak : Nat]
PlaceType == [at : {"none", "own", "block", "reuse"}, offset : Nat, size : Nat]
CopyType == [src : Values, dst : Values]
FrameType(P) == [live : {TRUE}, input : Inputs, next : Nat, pattern : P,
                 trace : [Locations -> TraceType], place : [Values -> PlaceType],
                 dead : SUBSET Values, copying : SUBSET CopyType]

\* In every run the plan frees v at an earlier node than it makes w.
DiesBefore(v, w) ==
    \E i, j \in DOMAIN ExecPlan :
        i < j /\ v \in Range(ExecPlan[i].free) /\ w \in Range(ExecPlan[j].out)

\* What the nodes before position n have made and freed.
Made(n) == UNION {Range(ExecPlan[i].out) : i \in {k \in DOMAIN ExecPlan : k < n}}
Freed(n) == UNION {Range(ExecPlan[i].free) : i \in {k \in DOMAIN ExecPlan : k < n}}

Disjoint(a, b) == EndOf(a) <= b.offset \/ EndOf(b) <= a.offset

\* blocks_ is sorted and without overlaps.
BlocksOK(tr) ==
    /\ \A i \in DOMAIN tr.blocks : tr.blocks[i] \in DOMAIN tr.allocs
    /\ \A i, j \in DOMAIN tr.blocks :
          i < j => EndOf(tr.allocs[tr.blocks[i]]) <= tr.allocs[tr.blocks[j]].offset

\* allocs_ has each value of M that is allocated at location l and not a
\* string once, with the size it has for this input, within the peak.
AllocsOK(tr, l, in, M) ==
    /\ \A n \in DOMAIN tr.allocs :
          LET a == tr.allocs[n] IN
          /\ a.index \in M /\ Location[a.index] = l /\ AllocKind[a.index] = "allocate"
          /\ a.size = SizeOf[in][a.index] /\ EndOf(a) <= tr.peak
    /\ \A v \in M : Location[v] = l /\ AllocKind[v] = "allocate" /\ v \notin Strings =>
          \E n \in DOMAIN tr.allocs : tr.allocs[n].index = v
    /\ \A m, n \in DOMAIN tr.allocs : tr.allocs[m].index = tr.allocs[n].index => m = n

\* What is not freed is on the list of live blocks, and what was put at the
\* bytes of an earlier value came after its end.
LiveOK(tr, D) ==
    /\ \A n \in DOMAIN tr.allocs :
          \/ tr.allocs[n].size = 0 /\ tr.allocs[n].offset = 0
          \/ \E i \in DOMAIN tr.blocks : tr.blocks[i] = n
          \/ tr.allocs[n].index \in D
    /\ \A m, n \in DOMAIN tr.allocs : m < n =>
          \/ Disjoint(tr.allocs[m], tr.allocs[n])
          \/ DiesBefore(tr.allocs[m].index, tr.allocs[n].index)

TraceOK(tr, l, in, M, D) ==
    tr \in TraceType /\ BlocksOK(tr) /\ AllocsOK(tr, l, in, M) /\ LiveOK(tr, D)

\* A value is placed only once it is made, by itself only when the pattern
\* has no block for it, and in the block where the pattern says.
PlaceOK(f, v, M) ==
    /\ f.place[v].at # "none" => v \in M
    /\ f.place[v].at = "own" => AllocKind[v] # "reuse" /\ ~BlockFits(f, v)
    /\ f.place[v].at = "block" =>
          /\ BlockFits(f, v)
          /\ f.place[v].offset = f.pattern.block[Location[v]][v].offset
          /\ f.place[v].size = f.pattern.block[Location[v]][v].size

\* A frame that has made the values M.
FrameOK(f, M) ==
    /\ f \in FrameType({f.pattern})
    /\ \A v \in Values : PlaceOK(f, v, M)
    /\ Tracing(f) => \A l \in Locations : TraceOK(f.trace[l], l, f.input, M, f.dead)

BlockOK(p, l, v) ==
    /\ p.block[l][v].offset \in Nat /\ p.block[l][v].size \in Nat /\ p.peak[l] \in Nat
    /\ EndOf(p.block[l][v]) <= p.peak[l]

\* A pattern: blocks within the peak; two that overlap are of values of which
\* one dies before the other is made; and it has all that the plan allocates
\* but strings.
PatternOK(p) ==
    /\ \A l \in Locations : \A v \in DOMAIN p.block[l] : BlockOK(p, l, v)
    /\ \A l \in Locations : \A v, w \in DOMAIN p.block[l] : v # w =>
          \/ Disjoint(p.block[l][v], p.block[l][w])
          \/ DiesBefore(v, w) \/ DiesBefore(w, v)
    /\ \A v \in Made(Len(ExecPlan) + 1) : AllocKind[v] = "allocate" /\ v \notin Strings =>
          /\ v \in DOMAIN p.block[Location[v]]
          /\ p.block[Location[v]][v].size = SizeOf[p.origin][v]

FrameGood(f, cache) ==
    /\ FrameOK(f, Made(f.next))
    /\ f.next \in 1 .. Len(ExecPlan) + 1
    /\ f.dead = Freed(f.next)
    /\ f.pattern = NoPattern \/ f.pattern \in Range(cache)

CacheGood(cache) == \A p \in Range(cache) : p.found = TRUE /\ PatternOK(p)

StartsValid == \A t \in Threads : run[t].pc = "start" => run[t].input \in Inputs

\* The inductive invariant of the frames; it stands beside IInv.
FrameInv ==
    /\ frame = [t \in Threads |-> frame[t]]
    /\ \A t \in Threads : HasFrame(t) => FrameGood(frame[t], mem_patterns)
    /\ CacheGood(mem_patterns)
    /\ StartsValid

-----------------------------------------------------------------------------
(* Least numbers, lists and loops. *)

\* A set of naturals has a least element.
LEMMA NatMin ==
    ASSUME NEW T, T \subseteq Nat, T # {}
    PROVE  \E x \in T : \A y \in T : x <= y
<1>1. PICK R : R = OpToRel(<, Nat)
  OBVIOUS
<1>2. \A x, y \in Nat : x < y => <<x, y>> \in R
  BY <1>1 DEF OpToRel
<1>3. IsWellFoundedOn(R, Nat)
  BY <1>1, NatLessThanWellFounded
<1>4. PICK x \in T : \A y \in T : ~(<<y, x>> \in R)
  BY <1>3, WFMin
<1>5. \A y \in T : ~(y < x)
  BY <1>2, <1>4
<1> QED BY <1>5

\* list::insert before position i: what is behind moves up by one.
LEMMA InsertAtElements ==
    ASSUME NEW s \in Seq(Nat), NEW i \in 1 .. Len(s) + 1, NEW e \in Nat
    PROVE  /\ InsertAt(s, i, e) \in Seq(Nat)
           /\ Len(InsertAt(s, i, e)) = Len(s) + 1
           /\ \A k \in 1 .. i - 1 : InsertAt(s, i, e)[k] = s[k]
           /\ InsertAt(s, i, e)[i] = e
           /\ \A k \in i + 1 .. Len(s) + 1 : InsertAt(s, i, e)[k] = s[k - 1]
  <1>n. PICK n : n = Len(s) OBVIOUS
  <1>1. n \in Nat /\ i \in Int /\ i \in 1 .. n + 1 /\ \A k \in 1 .. n : s[k] \in Nat
    BY <1>n, LenProperties, ElementOfSeq
  <1>2. PICK front : front = SubSeq(s, 1, i - 1) OBVIOUS
  <1>3. PICK back : back = SubSeq(s, i, n) OBVIOUS
  <1>4. /\ front \in Seq(Nat) /\ Len(front) = i - 1
        /\ \A k \in 1 .. i - 1 : front[k] = s[k]
    <2>1. \A k \in 1 .. i - 1 : s[k] \in Nat BY <1>1
    <2> QED BY <1>1, <1>2, <2>1, SubSeqProperties, Z3
  <1>5. /\ back \in Seq(Nat) /\ Len(back) = n - i + 1
        /\ \A k \in 1 .. n - i + 1 : back[k] = s[i + k - 1]
    <2>1. \A k \in i .. n : s[k] \in Nat BY <1>1
    <2> QED BY <1>1, <1>3, <2>1, SubSeqProperties, Z3
  <1>6. PICK new : new = <<e>> OBVIOUS
  <1>7. new \in Seq(Nat) /\ Len(new) = 1 /\ new[1] = e BY <1>6
  <1>8. PICK middle : middle = front \o new OBVIOUS
  <1>9. /\ middle \in Seq(Nat) /\ Len(middle) = i
        /\ \A k \in 1 .. i - 1 : middle[k] = s[k]
        /\ middle[i] = e
    <2>1. /\ middle \in Seq(Nat) /\ Len(middle) = Len(front) + Len(new)
          /\ \A k \in 1 .. Len(front) + Len(new) : middle[k] =
                IF k <= Len(front) THEN front[k] ELSE new[k - Len(front)]
      BY ONLY <1>4, <1>7, <1>8, ConcatProperties
    <2>2. Len(front) + Len(new) = i BY <1>1, <1>4, <1>7
    <2>3. \A k \in 1 .. i : middle[k] = IF k <= i - 1 THEN front[k] ELSE new[k - (i - 1)]
      BY ONLY <1>4, <2>1, <2>2
    <2>4. \A k \in 1 .. i - 1 : k \in 1 .. i /\ k <= i - 1 BY ONLY <1>1
    <2>5. i \in 1 .. i /\ ~ (i <= i - 1) /\ i - (i - 1) = 1 BY ONLY <1>1
    <2>6. \A k \in 1 .. i - 1 : middle[k] = s[k] BY ONLY <1>4, <2>3, <2>4
    <2>7. middle[i] = e BY ONLY <1>7, <2>3, <2>5
    <2> QED BY ONLY <2>1, <2>2, <2>6, <2>7
  <1>10. PICK all : all = middle \o back OBVIOUS
  <1>11. /\ all \in Seq(Nat) /\ Len(all) = n + 1
         /\ \A k \in 1 .. i - 1 : all[k] = s[k]
         /\ all[i] = e
         /\ \A k \in i + 1 .. n + 1 : all[k] = s[k - 1]
    <2>1. /\ all \in Seq(Nat) /\ Len(all) = Len(middle) + Len(back)
          /\ \A k \in 1 .. Len(middle) + Len(back) : all[k] =
                IF k <= Len(middle) THEN middle[k] ELSE back[k - Len(middle)]
      BY ONLY <1>5, <1>9, <1>10, ConcatProperties
    <2>2. Len(middle) + Len(back) = n + 1 BY <1>1, <1>5, <1>9
    <2>3. \A k \in 1 .. n + 1 : all[k] = IF k <= i THEN middle[k] ELSE back[k - i]
      BY ONLY <1>9, <2>1, <2>2
    <2>4. \A k \in 1 .. i - 1 : k \in 1 .. n + 1 /\ k <= i BY ONLY <1>1
    <2>5. i \in 1 .. n + 1 /\ i <= i BY ONLY <1>1
    <2>6. \A k \in i + 1 .. n + 1 : /\ k \in 1 .. n + 1 /\ ~ (k <= i)
                                    /\ k - i \in 1 .. n - i + 1 /\ i + (k - i) - 1 = k - 1
      BY ONLY <1>1
    <2>7. \A k \in 1 .. i - 1 : all[k] = s[k] BY ONLY <1>9, <2>3, <2>4
    <2>8. all[i] = e BY ONLY <1>9, <2>3, <2>5
    <2>9. ASSUME NEW k \in i + 1 .. n + 1 PROVE all[k] = s[k - 1]
      <3>1. all[k] = back[k - i] BY ONLY <2>3, <2>6, k \in i + 1 .. n + 1
      <3>2. back[k - i] = s[i + (k - i) - 1] BY ONLY <1>5, <2>6, k \in i + 1 .. n + 1
      <3> QED BY ONLY <2>6, <3>1, <3>2, k \in i + 1 .. n + 1
    <2> QED BY ONLY <2>1, <2>2, <2>7, <2>8, <2>9
  <1>12. InsertAt(s, i, e) = all
    BY <1>n, <1>2, <1>3, <1>6, <1>8, <1>10, Zenon DEF InsertAt
  <1> QED BY ONLY <1>n, <1>11, <1>12

\* list::erase at position i: what is behind moves down by one.
LEMMA RemoveAtElements ==
    ASSUME NEW s \in Seq(Nat), NEW i \in 1 .. Len(s)
    PROVE  /\ RemoveAt(s, i) \in Seq(Nat)
           /\ Len(RemoveAt(s, i)) = Len(s) - 1
           /\ \A k \in 1 .. i - 1 : RemoveAt(s, i)[k] = s[k]
           /\ \A k \in i .. Len(s) - 1 : RemoveAt(s, i)[k] = s[k + 1]
  <1>n. PICK n : n = Len(s) OBVIOUS
  <1>1. n \in Nat /\ i \in Int /\ i \in 1 .. n /\ \A k \in 1 .. n : s[k] \in Nat
    BY <1>n, LenProperties, ElementOfSeq
  <1>2. PICK front : front = SubSeq(s, 1, i - 1) OBVIOUS
  <1>3. PICK back : back = SubSeq(s, i + 1, n) OBVIOUS
  <1>4. /\ front \in Seq(Nat) /\ Len(front) = i - 1
        /\ \A k \in 1 .. i - 1 : front[k] = s[k]
    <2>1. \A k \in 1 .. i - 1 : s[k] \in Nat BY <1>1
    <2> QED BY <1>1, <1>2, <2>1, SubSeqProperties, Z3
  <1>5. /\ back \in Seq(Nat) /\ Len(back) = n - i
        /\ \A k \in 1 .. n - i : back[k] = s[i + k]
    <2>1. \A k \in i + 1 .. n : s[k] \in Nat BY <1>1
    <2> QED BY <1>1, <1>3, <2>1, SubSeqProperties, Z3
  <1>6. PICK all : all = front \o back OBVIOUS
  <1>7. /\ all \in Seq(Nat) /\ Len(all) = n - 1
        /\ \A k \in 1 .. i - 1 : all[k] = s[k]
        /\ \A k \in i .. n - 1 : all[k] = s[k + 1]
    <2>1. /\ all \in Seq(Nat) /\ Len(all) = Len(front) + Len(back)
          /\ \A k \in 1 .. Len(front) + Len(back) : all[k] =
                IF k <= Len(front) THEN front[k] ELSE back[k - Len(front)]
      BY ONLY <1>4, <1>5, <1>6, ConcatProperties
    <2>2. Len(front) + Len(back) = n - 1 BY <1>1, <1>4, <1>5
    <2>3. \A k \in 1 .. n - 1 : all[k] = IF k <= i - 1 THEN front[k] ELSE back[k - (i - 1)]
      BY ONLY <1>4, <2>1, <2>2
    <2>4. \A k \in 1 .. i - 1 : k \in 1 .. n - 1 /\ k <= i - 1 BY ONLY <1>1
    <2>5. \A k \in i .. n - 1 : /\ k \in 1 .. n - 1 /\ ~ (k <= i - 1)
                                /\ k - (i - 1) \in 1 .. n - i /\ i + (k - (i - 1)) = k + 1
      BY ONLY <1>1
    <2>6. \A k \in 1 .. i - 1 : all[k] = s[k] BY ONLY <1>4, <2>3, <2>4
    <2>7. ASSUME NEW k \in i .. n - 1 PROVE all[k] = s[k + 1]
      <3>1. all[k] = back[k - (i - 1)] BY ONLY <2>3, <2>5, k \in i .. n - 1
      <3>2. back[k - (i - 1)] = s[i + (k - (i - 1))] BY ONLY <1>5, <2>5, k \in i .. n - 1
      <3> QED BY ONLY <2>5, <3>1, <3>2, k \in i .. n - 1
    <2> QED BY ONLY <2>1, <2>2, <2>6, <2>7
  <1>8. RemoveAt(s, i) = all BY <1>n, <1>2, <1>3, <1>6, Zenon DEF RemoveAt
  <1> QED BY ONLY <1>n, <1>7, <1>8

\* Induction over the positions of a list.
LEMMA RangeInduction ==
    ASSUME NEW N \in Nat, NEW T, T \subseteq 0 .. N, 0 \in T,
           \A i \in 1 .. N : i - 1 \in T => i \in T
    PROVE  T = 0 .. N
<1> SUFFICES ASSUME T # 0 .. N PROVE FALSE
  OBVIOUS
<1>1. PICK B : B = (0 .. N) \ T
  OBVIOUS
<1>2. B \subseteq Nat /\ B # {}
  <2>1. \E x \in 0 .. N : x \notin T
    BY Zenon
  <2> QED BY <1>1, <2>1
<1>3. PICK x \in B : \A y \in B : x <= y
  BY <1>2, NatMin
<1>4. x \in 1 .. N /\ x - 1 \in 0 .. N /\ x - 1 \notin B
  BY <1>1, <1>3
<1> QED BY <1>1, <1>3, <1>4

\* The values a loop goes through exist, and each has what its turn of the
\* loop leaves: F[i] is what turn i does, OK[i] what holds after it.
IsLoop(g, N, b, F, OK) ==
    /\ g = [i \in 0 .. N |-> IF i = 0 THEN b ELSE F[i][g[i - 1]]]
    /\ \A i \in 0 .. N : g[i] \in OK[i]

LEMMA Iterates ==
    ASSUME NEW N \in Nat, NEW OK, NEW F, NEW b, b \in OK[0],
           \A i \in 1 .. N : \A x \in OK[i - 1] : F[i][x] \in OK[i]
    PROVE  \E g : IsLoop(g, N, b, F, OK)
<1> DEFINE Good(n, g) == /\ g = [i \in 0 .. n |-> IF i = 0 THEN b ELSE F[i][g[i - 1]]]
                         /\ \A i \in 0 .. n : g[i] \in OK[i]
<1>1. PICK T : T = {n \in 0 .. N : \E g : Good(n, g)}
  OBVIOUS
<1>2. 0 \in T
  <2>1. PICK g : g = [i \in 0 .. 0 |-> b]
    OBVIOUS
  <2>2. \A i \in 0 .. 0 : i = 0
    OBVIOUS
  <2>3. Good(0, g)
    BY <2>1, <2>2
  <2> HIDE DEF Good
  <2> QED BY <1>1, <2>3
<1>3. ASSUME NEW n \in 1 .. N, n - 1 \in T
      PROVE  n \in T
  <2>1. PICK g : Good(n - 1, g)
    BY <1>1, <1>3
  <2>2. PICK h : h = [i \in 0 .. n |-> IF i = n THEN F[n][g[n - 1]] ELSE g[i]]
    OBVIOUS
  <2>3. \A i \in 0 .. n : i # n => i \in 0 .. n - 1 /\ h[i] = g[i]
    BY <2>2
  <2>4. n - 1 \in 0 .. n - 1 /\ h[n] = F[n][g[n - 1]] /\ h[n - 1] = g[n - 1] /\ n # 0
    BY <2>2, <2>3
  <2>5. \A i \in 0 .. n : h[i] \in OK[i]
    BY <2>1, <2>3, <2>4
  <2>6. ASSUME NEW i \in 0 .. n
        PROVE  h[i] = IF i = 0 THEN b ELSE F[i][h[i - 1]]
    <3>1. CASE i = n
      BY <3>1, <2>4
    <3>2. CASE i # n /\ i # 0
      <4>1. i \in 0 .. n - 1 /\ i - 1 \in 0 .. n /\ i - 1 # n
        BY <3>2
      <4>2. h[i] = g[i] /\ h[i - 1] = g[i - 1]
        BY <2>3, <3>2, <4>1
      <4>3. g[i] = F[i][g[i - 1]]
        BY <2>1, <3>2, <4>1
      <4> QED BY <3>2, <4>2, <4>3
    <3>3. CASE i # n /\ i = 0
      <4>1. h[0] = g[0] /\ 0 \in 0 .. n - 1
        BY <2>3, <3>3
      <4> QED BY <2>1, <3>3, <4>1
    <3> QED BY <3>1, <3>2, <3>3
  <2>7. h = [i \in 0 .. n |-> IF i = 0 THEN b ELSE F[i][h[i - 1]]]
    BY <2>2, <2>6
  <2>8. Good(n, h)
    BY <2>5, <2>7
  <2> HIDE DEF Good
  <2> QED BY <1>1, <2>8
<1>4. T = 0 .. N
  <2> HIDE DEF Good
  <2> QED BY <1>1, <1>2, <1>3, RangeInduction
<1>5. PICK g : Good(N, g)
  BY <1>1, <1>4
<1> QED BY <1>5 DEF IsLoop

-----------------------------------------------------------------------------
(* What a frame traces at one location. *)

\* The lists of a trace, element by element.
LEMMA TraceFacts ==
    ASSUME NEW tr \in TraceType, BlocksOK(tr)
    PROVE  /\ tr.allocs \in Seq(AllocType) /\ tr.blocks \in Seq(Nat) /\ tr.peak \in Nat
           /\ Len(tr.allocs) \in Nat /\ DOMAIN tr.allocs = 1 .. Len(tr.allocs)
           /\ Len(tr.blocks) \in Nat /\ DOMAIN tr.blocks = 1 .. Len(tr.blocks)
           /\ \A n \in DOMAIN tr.allocs :
                 /\ tr.allocs[n] \in AllocType
                 /\ tr.allocs[n].index \in Values
                 /\ tr.allocs[n].offset \in Nat
                 /\ tr.allocs[n].size \in Nat
                 /\ EndOf(tr.allocs[n]) \in Nat
           /\ \A i \in DOMAIN tr.blocks : tr.blocks[i] \in DOMAIN tr.allocs
<1>1. tr.allocs \in Seq(AllocType) /\ tr.blocks \in Seq(Nat) /\ tr.peak \in Nat
  BY DEF TraceType
<1>2. /\ Len(tr.allocs) \in Nat /\ DOMAIN tr.allocs = 1 .. Len(tr.allocs)
      /\ Len(tr.blocks) \in Nat /\ DOMAIN tr.blocks = 1 .. Len(tr.blocks)
  BY <1>1, LenProperties
<1>3. \A n \in DOMAIN tr.allocs : tr.allocs[n] \in AllocType
  BY <1>1, <1>2, ElementOfSeq
<1>4. \A n \in DOMAIN tr.allocs :
         /\ tr.allocs[n].index \in Values
         /\ tr.allocs[n].offset \in Nat
         /\ tr.allocs[n].size \in Nat
         /\ EndOf(tr.allocs[n]) \in Nat
  BY <1>3 DEF AllocType, EndOf
<1>5. \A i \in DOMAIN tr.blocks : tr.blocks[i] \in DOMAIN tr.allocs
  BY DEF BlocksOK
<1> QED BY <1>1, <1>2, <1>3, <1>4, <1>5

\* One more allocation at the end of allocs_.
OneLonger(longer, s, a) ==
    /\ longer \in Seq(AllocType)
    /\ \A n \in DOMAIN s : longer[n] = s[n]
    /\ longer[Len(s) + 1] = a
    /\ \A n \in DOMAIN longer : n \in DOMAIN s \/ n = Len(s) + 1
    /\ \A n \in DOMAIN s : n \in DOMAIN longer /\ n < Len(s) + 1
    /\ Len(s) + 1 \in DOMAIN longer
    /\ Len(s) + 1 \notin DOMAIN s

LEMMA TraceAppend ==
    ASSUME NEW tr \in TraceType, BlocksOK(tr), NEW a \in AllocType,
           NEW longer, longer = Append(tr.allocs, a)
    PROVE  OneLonger(longer, tr.allocs, a)
<1>1. tr.allocs \in Seq(AllocType) /\ Len(tr.allocs) \in Nat /\ DOMAIN tr.allocs = 1 .. Len(tr.allocs)
  BY TraceFacts
<1>2. /\ longer \in Seq(AllocType)
      /\ Len(longer) = Len(tr.allocs) + 1
      /\ \A n \in 1 .. Len(tr.allocs) : longer[n] = tr.allocs[n]
      /\ longer[Len(tr.allocs) + 1] = a
  BY <1>1, AppendProperties
<1>3. DOMAIN longer = 1 .. Len(tr.allocs) + 1
  BY <1>2, LenProperties
<1> QED BY <1>1, <1>2, <1>3 DEF OneLonger

\* allocs_ with the new value: what AllocsOK says of the longer list.
LEMMA AllocsGrow ==
    ASSUME NEW tr \in TraceType, NEW l, NEW in \in Inputs, NEW M \in SUBSET Values,
           BlocksOK(tr), AllocsOK(tr, l, in, M),
           NEW v \in Values, v \notin M, Location[v] = l, AllocKind[v] = "allocate",
           NEW a \in AllocType, a.index = v, a.size = SizeOf[in][v],
           NEW new \in TraceType, new.allocs = Append(tr.allocs, a),
           tr.peak <= new.peak, EndOf(a) <= new.peak
    PROVE  AllocsOK(new, l, in, M \cup {v})
<1>1. PICK N : N = Len(tr.allocs) + 1
  OBVIOUS
<1>2. PICK longer : longer = new.allocs
  OBVIOUS
<1>3. /\ \A n \in DOMAIN tr.allocs : longer[n] = tr.allocs[n]
      /\ longer[N] = a
      /\ \A n \in DOMAIN longer : n \in DOMAIN tr.allocs \/ n = N
      /\ \A n \in DOMAIN tr.allocs : n \in DOMAIN longer
      /\ N \in DOMAIN longer
  <2>1. OneLonger(longer, tr.allocs, a)
    BY <1>2, TraceAppend
  <2> QED BY <1>1, <2>1 DEF OneLonger
<1>4. /\ tr.peak \in Nat /\ new.peak \in Nat
      /\ \A n \in DOMAIN tr.allocs : EndOf(tr.allocs[n]) \in Nat
  BY TraceFacts DEF TraceType
<1>5. \A n \in DOMAIN tr.allocs :
          LET b == tr.allocs[n] IN
          /\ b.index \in M /\ Location[b.index] = l /\ AllocKind[b.index] = "allocate"
          /\ b.size = SizeOf[in][b.index] /\ EndOf(b) <= tr.peak
  BY DEF AllocsOK
<1>6. \A n \in DOMAIN tr.allocs : EndOf(tr.allocs[n]) <= new.peak
  BY <1>4, <1>5
<1>7. ASSUME NEW n \in DOMAIN longer
      PROVE  LET b == longer[n] IN
             /\ b.index \in M \cup {v} /\ Location[b.index] = l /\ AllocKind[b.index] = "allocate"
             /\ b.size = SizeOf[in][b.index] /\ EndOf(b) <= new.peak
  BY <1>3, <1>5, <1>6
<1>8. ASSUME NEW w \in M \cup {v}, Location[w] = l /\ AllocKind[w] = "allocate" /\ w \notin Strings
      PROVE  \E n \in DOMAIN longer : longer[n].index = w
  <2>1. CASE w = v
    BY <1>3, <2>1
  <2>2. CASE w \in M
    <3>1. PICK n \in DOMAIN tr.allocs : tr.allocs[n].index = w
      BY <1>8, <2>2 DEF AllocsOK
    <3> QED BY <1>3, <3>1
  <2> QED BY <2>1, <2>2
<1>9. ASSUME NEW m \in DOMAIN longer, NEW n \in DOMAIN longer, longer[m].index = longer[n].index
      PROVE  m = n
  <2>1. \A p \in DOMAIN tr.allocs : tr.allocs[p].index # v
    BY <1>5
  <2>2. \A p, q \in DOMAIN tr.allocs : tr.allocs[p].index = tr.allocs[q].index => p = q
    BY DEF AllocsOK
  <2> QED BY <1>3, <1>9, <2>1, <2>2
<1> QED BY <1>2, <1>7, <1>8, <1>9 DEF AllocsOK

\* A value without bytes takes part in no gap.
LEMMA TraceEmptyKeeps ==
    ASSUME NEW tr, NEW l, NEW in \in Inputs, NEW M \in SUBSET Values, NEW D,
           TraceOK(tr, l, in, M, D),
           NEW v \in Values, v \notin M, Location[v] = l, AllocKind[v] = "allocate",
           SizeOf[in][v] = 0,
           NEW new, new = TraceAllocation(tr, v, 0)
    PROVE  TraceOK(new, l, in, M \cup {v}, D)
<1>0. tr \in TraceType /\ BlocksOK(tr) /\ AllocsOK(tr, l, in, M) /\ LiveOK(tr, D)
  BY DEF TraceOK
<1>1. PICK a : a = [index |-> v, offset |-> 0, size |-> 0]
  OBVIOUS
<1>2. a \in AllocType /\ a.index = v /\ a.size = 0 /\ a.offset = 0 /\ EndOf(a) = 0
  BY <1>1 DEF AllocType, EndOf
<1>3. new = [tr EXCEPT !.allocs = Append(tr.allocs, a)]
  BY <1>1 DEF TraceAllocation
<1>4. PICK N : N = Len(tr.allocs) + 1
  OBVIOUS
<1>5. PICK longer : longer = Append(tr.allocs, a)
  OBVIOUS
<1>6. /\ longer \in Seq(AllocType)
      /\ \A n \in DOMAIN tr.allocs : longer[n] = tr.allocs[n]
      /\ longer[N] = a
      /\ \A n \in DOMAIN longer : n \in DOMAIN tr.allocs \/ n = N
      /\ \A n \in DOMAIN tr.allocs : n \in DOMAIN longer
      /\ N \in DOMAIN longer
  <2>1. OneLonger(longer, tr.allocs, a)
    BY <1>0, <1>2, <1>5, TraceAppend
  <2> QED BY <1>4, <2>1 DEF OneLonger
<1>7. new \in TraceType /\ new.allocs = longer /\ new.blocks = tr.blocks /\ new.peak = tr.peak
  BY <1>0, <1>3, <1>5, <1>6 DEF TraceType
<1>8. tr.peak \in Nat /\ \A i \in DOMAIN tr.blocks : tr.blocks[i] \in DOMAIN tr.allocs
  BY <1>0, TraceFacts
<1>9. BlocksOK(new)
  BY <1>0, <1>6, <1>7, <1>8 DEF BlocksOK
<1>10. AllocsOK(new, l, in, M \cup {v})
  <2>1. new.allocs = Append(tr.allocs, a) /\ tr.peak <= new.peak /\ EndOf(a) <= new.peak /\ a.size = SizeOf[in][v]
    BY <1>2, <1>5, <1>7, <1>8
  <2> QED BY <1>0, <1>2, <1>7, <2>1, AllocsGrow
<1>11. LiveOK(new, D)
  <2>1. \A n \in DOMAIN tr.allocs : tr.allocs[n].offset \in Nat /\ EndOf(tr.allocs[n]) \in Nat
    BY <1>0, TraceFacts
  <2>2. \A b : b.offset \in Nat => Disjoint(b, a) /\ Disjoint(a, b)
    BY <1>2 DEF Disjoint
  <2>3. ASSUME NEW n \in DOMAIN longer
        PROVE  \/ longer[n].size = 0 /\ longer[n].offset = 0
               \/ \E i \in DOMAIN tr.blocks : tr.blocks[i] = n
               \/ longer[n].index \in D
    BY <1>0, <1>2, <1>6 DEF LiveOK
  <2>4. ASSUME NEW m \in DOMAIN longer, NEW n \in DOMAIN longer, m < n
        PROVE  Disjoint(longer[m], longer[n]) \/ DiesBefore(longer[m].index, longer[n].index)
    <3>1. CASE m \in DOMAIN tr.allocs /\ n \in DOMAIN tr.allocs
      BY <1>0, <1>6, <2>4, <3>1 DEF LiveOK
    <3>2. CASE m = N \/ n = N
      BY <1>2, <1>6, <2>1, <2>2, <3>2
    <3> QED BY <1>6, <3>1, <3>2
  <2> QED BY <1>7, <2>3, <2>4 DEF LiveOK
<1> QED BY <1>7, <1>9, <1>10, <1>11 DEF TraceOK

\* A block put where the blocks before position i end and those from i on
\* have not begun.
LEMMA TraceInsertKeeps ==
    ASSUME NEW tr, NEW l, NEW in \in Inputs, NEW M \in SUBSET Values, NEW D,
           TraceOK(tr, l, in, M, D),
           NEW v \in Values, v \notin M, Location[v] = l, AllocKind[v] = "allocate",
           \A u \in D : DiesBefore(u, v),
           NEW a \in AllocType, a.index = v, a.size = SizeOf[in][v],
           NEW i \in 1 .. Len(tr.blocks) + 1,
           \A k \in 1 .. i - 1 : EndOf(tr.allocs[tr.blocks[k]]) <= a.offset,
           \A k \in i .. Len(tr.blocks) : EndOf(a) <= tr.allocs[tr.blocks[k]].offset,
           NEW peak \in Nat, tr.peak <= peak, EndOf(a) <= peak,
           NEW new, new = [allocs |-> Append(tr.allocs, a),
                           blocks |-> InsertAt(tr.blocks, i, Len(tr.allocs) + 1),
                           peak   |-> peak]
    PROVE  TraceOK(new, l, in, M \cup {v}, D)
<1>0. tr \in TraceType /\ BlocksOK(tr) /\ AllocsOK(tr, l, in, M) /\ LiveOK(tr, D)
  BY DEF TraceOK
<1>1. PICK N : N = Len(tr.allocs) + 1
  OBVIOUS
<1>2. PICK K : K = Len(tr.blocks)
  OBVIOUS
<1>3. PICK A : A = tr.allocs
  OBVIOUS
<1>4. PICK B : B = tr.blocks
  OBVIOUS
<1>5. PICK A2 : A2 = new.allocs
  OBVIOUS
<1>6. PICK B2 : B2 = new.blocks
  OBVIOUS
<1>7. /\ A \in Seq(AllocType) /\ B \in Seq(Nat) /\ tr.peak \in Nat
      /\ N \in Nat /\ K \in Nat /\ DOMAIN B = 1 .. K
      /\ \A n \in DOMAIN A : A[n].offset \in Nat /\ EndOf(A[n]) \in Nat
      /\ \A k \in DOMAIN B : B[k] \in DOMAIN A
  BY <1>0, <1>1, <1>2, <1>3, <1>4, TraceFacts
<1>8. /\ A2 \in Seq(AllocType)
      /\ \A n \in DOMAIN A : A2[n] = A[n]
      /\ A2[N] = a
      /\ \A n \in DOMAIN A2 : n \in DOMAIN A \/ n = N
      /\ \A n \in DOMAIN A : n \in DOMAIN A2 /\ n < N
      /\ N \in DOMAIN A2
  <2>1. OneLonger(A2, tr.allocs, a)
    BY <1>0, <1>5, TraceAppend
  <2> QED BY <1>1, <1>3, <2>1 DEF OneLonger
<1>9. a.offset \in Nat /\ a.size \in Nat /\ EndOf(a) \in Nat
  BY DEF AllocType, EndOf
<1>10. i \in 1 .. K + 1
  BY <1>2
<1>11. /\ B2 \in Seq(Nat)
       /\ DOMAIN B2 = 1 .. K + 1
       /\ \A k \in 1 .. i - 1 : B2[k] = B[k]
       /\ B2[i] = N
       /\ \A k \in i + 1 .. K + 1 : B2[k] = B[k - 1]
  <2>1. B2 = InsertAt(B, i, N) /\ i \in 1 .. Len(B) + 1
    BY <1>1, <1>2, <1>4, <1>6
  <2>2. /\ B2 \in Seq(Nat)
        /\ Len(B2) = Len(B) + 1
        /\ \A k \in 1 .. i - 1 : B2[k] = B[k]
        /\ B2[i] = N
        /\ \A k \in i + 1 .. Len(B) + 1 : B2[k] = B[k - 1]
    BY ONLY <1>7, <2>1, InsertAtElements, ZenonT(60)
  <2>3. DOMAIN B2 = 1 .. Len(B2)
    BY <2>2, LenProperties
  <2> QED BY <1>2, <1>4, <2>2, <2>3
\* Position by position: in front of the new block, the new block, behind it.
<1>12. /\ \A k \in 1 .. K + 1 : k < i => k \in DOMAIN B /\ B2[k] = B[k]
       /\ \A k \in 1 .. K + 1 : k > i => k - 1 \in DOMAIN B /\ B2[k] = B[k - 1]
  <2>1. \A k \in 1 .. K + 1 : k < i => k \in 1 .. i - 1 /\ k \in 1 .. K
    BY <1>7, <1>10
  <2>2. \A k \in 1 .. K + 1 : k > i => k \in i + 1 .. K + 1 /\ k - 1 \in 1 .. K
    BY <1>7, <1>10
  <2> QED BY <1>7, <1>11, <2>1, <2>2
<1>13. \A k \in DOMAIN B : A2[B[k]] = A[B[k]]
  BY <1>7, <1>8
<1>14. /\ \A k \in 1 .. K + 1 : k < i => EndOf(A[B[k]]) <= a.offset
       /\ \A k \in 1 .. K : k >= i => EndOf(a) <= A[B[k]].offset
  <2>1. \A k \in 1 .. K + 1 : k < i => k \in 1 .. i - 1
    BY <1>7, <1>10
  <2>2. \A k \in 1 .. K : k >= i => k \in i .. Len(tr.blocks)
    BY <1>2, <1>7, <1>10
  <2> QED BY <1>3, <1>4, <2>1, <2>2
<1>15. new \in TraceType /\ tr.peak <= new.peak /\ EndOf(a) <= new.peak
  BY <1>5, <1>6, <1>8, <1>11 DEF TraceType
<1>16. BlocksOK(new)
  <2>1. ASSUME NEW k \in 1 .. K + 1
        PROVE  B2[k] \in DOMAIN A2
    <3>1. k < i \/ k = i \/ k > i
      BY <1>10
    <3> QED BY <1>7, <1>8, <1>11, <1>12, <3>1
  <2>2. \A p, q \in DOMAIN B : p < q => EndOf(A[B[p]]) <= A[B[q]].offset
    BY <1>0, <1>3, <1>4 DEF BlocksOK
  <2>3. ASSUME NEW j \in 1 .. K + 1, NEW k \in 1 .. K + 1, j < k
        PROVE  EndOf(A2[B2[j]]) <= A2[B2[k]].offset
    <3>1. CASE k < i
      <4>1. j < i
        BY <1>10, <2>3, <3>1
      <4>2. A2[B2[j]] = A[B[j]] /\ A2[B2[k]] = A[B[k]] /\ j \in DOMAIN B /\ k \in DOMAIN B
        BY <1>12, <1>13, <3>1, <4>1
      <4> QED BY <2>2, <2>3, <4>2
    <3>2. CASE k = i
      <4>1. j < i
        BY <2>3, <3>2
      <4>2. A2[B2[j]] = A[B[j]] /\ A2[B2[k]] = a
        BY <1>8, <1>11, <1>12, <1>13, <3>2, <4>1
      <4> QED BY <1>14, <4>1, <4>2
    <3>3. CASE j < i /\ k > i
      <4>1. j < k - 1
        BY <1>10, <3>3
      <4>2. A2[B2[j]] = A[B[j]] /\ A2[B2[k]] = A[B[k - 1]] /\ j \in DOMAIN B /\ k - 1 \in DOMAIN B
        BY <1>12, <1>13, <3>3
      <4> QED BY <2>2, <4>1, <4>2
    <3>4. CASE j = i
      <4>1. k > i /\ k - 1 \in 1 .. K /\ k - 1 >= i
        BY <1>7, <1>10, <2>3, <3>4
      <4>2. A2[B2[j]] = a /\ A2[B2[k]] = A[B[k - 1]]
        BY <1>8, <1>11, <1>12, <1>13, <3>4, <4>1
      <4> QED BY <1>14, <4>1, <4>2
    <3>5. CASE j > i
      <4>1. k > i /\ j - 1 < k - 1
        BY <1>10, <2>3, <3>5
      <4>2. /\ A2[B2[j]] = A[B[j - 1]] /\ A2[B2[k]] = A[B[k - 1]]
            /\ j - 1 \in DOMAIN B /\ k - 1 \in DOMAIN B
        BY <1>12, <1>13, <3>5, <4>1
      <4> QED BY <2>2, <4>1, <4>2
    <3> QED BY <1>10, <2>3, <3>1, <3>2, <3>3, <3>4, <3>5
  <2> QED BY <1>5, <1>6, <1>11, <2>1, <2>3 DEF BlocksOK
<1>17. AllocsOK(new, l, in, M \cup {v})
  <2>1. new.allocs = Append(tr.allocs, a)
    OBVIOUS
  <2> QED BY <1>0, <1>15, <2>1, AllocsGrow
<1>18. LiveOK(new, D)
  <2>1. \A n \in DOMAIN A : \/ A[n].size = 0 /\ A[n].offset = 0
                            \/ \E k \in DOMAIN B : B[k] = n
                            \/ A[n].index \in D
    BY <1>0, <1>3, <1>4 DEF LiveOK
  <2>2. \A k \in DOMAIN B : \E j \in DOMAIN B2 : B2[j] = B[k]
    <3> SUFFICES ASSUME NEW k \in 1 .. K PROVE \E j \in 1 .. K + 1 : B2[j] = B[k]
      BY <1>7, <1>11
    <3>1. CASE k < i
      <4>1. k \in 1 .. K + 1
        BY <1>7
      <4> QED BY <1>12, <3>1, <4>1
    <3>2. CASE k >= i
      <4>1. k + 1 \in i + 1 .. K + 1 /\ k + 1 \in 1 .. K + 1 /\ (k + 1) - 1 = k
        BY <1>7, <1>10, <3>2
      <4> QED BY <1>11, <4>1
    <3> QED BY <1>10, <3>1, <3>2
  <2>3. i \in DOMAIN B2
    BY <1>7, <1>10, <1>11
  <2>4. ASSUME NEW n \in DOMAIN A2
        PROVE  \/ A2[n].size = 0 /\ A2[n].offset = 0
               \/ \E k \in DOMAIN B2 : B2[k] = n
               \/ A2[n].index \in D
    <3>1. CASE n = N
      BY <1>11, <2>3, <3>1
    <3>2. CASE n \in DOMAIN A
      BY <1>8, <2>1, <2>2, <3>2
    <3> QED BY <1>8, <3>1, <3>2
  <2>5. ASSUME NEW n \in DOMAIN A
        PROVE  Disjoint(A[n], a) \/ DiesBefore(A[n].index, v)
    <3>1. CASE A[n].size = 0 /\ A[n].offset = 0
      BY <1>9, <3>1 DEF Disjoint, EndOf
    <3>2. CASE \E k \in DOMAIN B : B[k] = n
      <4>1. PICK k \in 1 .. K : B[k] = n
        BY <1>7, <3>2
      <4>2. k \in 1 .. K + 1 /\ (k < i \/ k >= i)
        BY <1>7, <1>10
      <4> QED BY <1>14, <4>1, <4>2 DEF Disjoint
    <3> QED BY <2>1, <3>1, <3>2
  <2>6. ASSUME NEW m \in DOMAIN A2, NEW n \in DOMAIN A2, m < n
        PROVE  Disjoint(A2[m], A2[n]) \/ DiesBefore(A2[m].index, A2[n].index)
    <3>1. CASE m \in DOMAIN A /\ n \in DOMAIN A
      BY <1>0, <1>3, <1>8, <2>6, <3>1 DEF LiveOK
    <3>2. CASE m \in DOMAIN A /\ n = N
      BY <1>8, <2>5, <3>2
    <3>3. m # N
      <4>1. \A p \in DOMAIN A : p < N /\ p \in Nat
        BY <1>7, <1>8
      <4>2. n \in DOMAIN A \/ n = N
        BY <1>8
      <4>3. N \in Nat
        BY <1>7
      <4> QED BY ONLY <2>6, <4>1, <4>2, <4>3
    <3> QED BY <1>8, <3>1, <3>2, <3>3
  <2> QED BY <1>5, <1>6, <2>4, <2>6 DEF LiveOK
<1> QED BY <1>15, <1>16, <1>17, <1>18 DEF TraceOK

\* What is taken is free: the block in front of the chosen gap has ended, the
\* one behind it has not begun.
LEMMA ChosenGapFree ==
    ASSUME NEW tr \in TraceType, BlocksOK(tr), NEW size \in Nat \ {0},
           NEW i, i = ChosenGap(tr, size), NEW offset, offset = Planner(tr)!GapStart(i)
    PROVE  /\ i \in 1 .. Len(tr.blocks) + 1
           /\ offset \in Nat
           /\ \A k \in 1 .. i - 1 : EndOf(tr.allocs[tr.blocks[k]]) <= offset
           /\ \A k \in i .. Len(tr.blocks) : offset + size <= tr.allocs[tr.blocks[k]].offset
<1>1. PICK K : K = Len(tr.blocks)
  OBVIOUS
<1>2. PICK P : P = [k \in 1 .. K |-> tr.allocs[tr.blocks[k]]]
  OBVIOUS
<1>3. /\ K \in Nat /\ DOMAIN tr.blocks = 1 .. K
      /\ \A k \in 1 .. K : /\ P[k].offset \in Nat /\ P[k].size \in Nat
                           /\ P[k] = tr.allocs[tr.blocks[k]]
                           /\ EndOf(P[k]) = P[k].offset + P[k].size
                           /\ EndOf(P[k]) \in Nat
      /\ \A j, k \in 1 .. K : j < k => EndOf(P[j]) <= P[k].offset
  BY <1>1, <1>2, TraceFacts DEF BlocksOK, EndOf
<1>4. PICK start : start = [k \in 1 .. K + 1 |-> IF k = 1 THEN 0 ELSE EndOf(P[k - 1])]
  OBVIOUS
<1>5. \A k \in 1 .. K + 1 : Planner(tr)!GapStart(k) = start[k]
  <2> SUFFICES ASSUME NEW k \in 1 .. K + 1 PROVE Planner(tr)!GapStart(k) = start[k]
    OBVIOUS
  <2>1. k # 1 => k - 1 \in 1 .. K
    BY <1>3
  <2> QED BY <1>2, <1>4, <2>1 DEF Planner!GapStart, Planner!BlockOf, Planner!EndOf, EndOf
<1>6. \A k \in 1 .. K + 1 : start[k] \in Nat /\ \A j \in 1 .. k - 1 : EndOf(P[j]) <= start[k]
  <2> SUFFICES ASSUME NEW k \in 1 .. K + 1
               PROVE  start[k] \in Nat /\ \A j \in 1 .. k - 1 : EndOf(P[j]) <= start[k]
    OBVIOUS
  <2>1. CASE k = 1
    BY <1>4, <2>1
  <2>2. CASE k # 1
    <3>1. k - 1 \in 1 .. K /\ start[k] = EndOf(P[k - 1])
      BY <1>3, <1>4, <2>2
    <3>2. start[k] \in Nat
      BY <1>3, <3>1
    <3>3. ASSUME NEW j \in 1 .. k - 1 PROVE EndOf(P[j]) <= start[k]
      <4>1. CASE j = k - 1
        BY <1>3, <3>1, <3>2, <4>1
      <4>2. CASE j # k - 1
        <5>1. j < k - 1 /\ j \in 1 .. K
          BY <1>3, <4>2
        <5>2. EndOf(P[j]) <= P[k - 1].offset
          BY <1>3, <3>1, <5>1
        <5>3. /\ P[k - 1].offset \in Nat /\ P[k - 1].size \in Nat /\ EndOf(P[j]) \in Nat
              /\ EndOf(P[k - 1]) = P[k - 1].offset + P[k - 1].size
          <6>1. PICK q : q = k - 1
            OBVIOUS
          <6>2. q \in 1 .. K
            BY <3>1, <6>1
          <6>3. /\ P[q].offset \in Nat /\ P[q].size \in Nat
                /\ EndOf(P[q]) = P[q].offset + P[q].size
            BY <1>3, <6>2
          <6>4. EndOf(P[j]) \in Nat
            BY <1>3, <5>1
          <6> QED BY <6>1, <6>3, <6>4
        <5> QED BY <3>1, <5>2, <5>3
      <4> QED BY <4>1, <4>2
    <3> QED BY <3>2, <3>3
  <2> QED BY <2>1, <2>2
<1>7. PICK G : G = Planner(tr)!FittingGaps(size)
  OBVIOUS
<1>8. \A k \in G : k \in 1 .. K /\ start[k] + size <= P[k].offset
  <2> SUFFICES ASSUME NEW k \in G PROVE k \in 1 .. K /\ start[k] + size <= P[k].offset
    OBVIOUS
  <2>1. k \in DOMAIN tr.blocks /\ Planner(tr)!GapSize(k) >= size
    BY <1>7 DEF Planner!FittingGaps
  <2>2. k \in 1 .. K /\ k \in 1 .. K + 1
    BY <1>3, <2>1
  <2>3. Planner(tr)!GapSize(k) = P[k].offset - start[k]
    BY <1>3, <1>5, <2>2 DEF Planner!GapSize, Planner!BlockOf
  <2> QED BY <1>3, <1>6, <2>1, <2>2, <2>3
<1>9. CASE G = {}
  <2>1. i = K + 1
    BY <1>1, <1>7, <1>9 DEF ChosenGap
  <2>2. i \in 1 .. K + 1 /\ offset = start[i] /\ i .. K = {}
    BY <1>3, <1>5, <2>1
  <2> QED BY <1>1, <1>3, <1>6, <2>1, <2>2
<1>10. CASE G # {}
  <2>1. i \in G
    <3>1. G \subseteq Nat
      BY <1>3, <1>8
    <3>2. \A k \in G : Planner(tr)!GapSize(k) \in Nat
      <4> SUFFICES ASSUME NEW k \in G PROVE Planner(tr)!GapSize(k) \in Nat
        OBVIOUS
      <4>1. k \in 1 .. K /\ k \in 1 .. K + 1 /\ start[k] + size <= P[k].offset
        BY <1>3, <1>8
      <4>2. Planner(tr)!GapSize(k) = P[k].offset - start[k]
        BY <1>3, <1>5, <4>1 DEF Planner!GapSize, Planner!BlockOf
      <4> QED BY <1>3, <1>6, <4>1, <4>2
    <3>3. PICK gs : gs = [k \in G |-> Planner(tr)!GapSize(k)]
      OBVIOUS
    <3>4. \E k \in G : \A j \in G : gs[k] < gs[j] \/ (gs[k] = gs[j] /\ k <= j)
      <4>1. PICK T : T = {gs[k] : k \in G}
        OBVIOUS
      <4>2. T \subseteq Nat /\ T # {}
        BY <1>10, <3>2, <3>3, <4>1
      <4>3. PICK x \in T : \A y \in T : x <= y
        BY <4>2, NatMin
      <4>4. PICK S : S = {k \in G : gs[k] = x}
        OBVIOUS
      <4>5. S \subseteq Nat /\ S # {}
        BY <3>1, <4>1, <4>4
      <4>6. PICK k \in S : \A j \in S : k <= j
        BY <4>5, NatMin
      <4>7. \A j \in G : gs[j] \in Nat /\ x <= gs[j] /\ x \in Nat
        BY <3>2, <3>3, <4>1, <4>3
      <4>8. k \in G /\ gs[k] = x
        BY <4>4, <4>6
      <4>9. ASSUME NEW j \in G PROVE gs[k] < gs[j] \/ (gs[k] = gs[j] /\ k <= j)
        <5>1. CASE gs[j] = x
          BY <4>4, <4>6, <4>8, <5>1
        <5>2. CASE gs[j] # x
          BY <4>7, <4>8, <5>2
        <5> QED BY <5>1, <5>2
      <4> QED BY <4>8, <4>9
    <3>5. \E k \in G : \A j \in G : Planner(tr)!BetterGap(k, j)
      BY <3>3, <3>4 DEF Planner!BetterGap
    <3> QED BY <1>7, <1>10, <3>5 DEF ChosenGap
  <2>2. i \in 1 .. K /\ i \in 1 .. K + 1 /\ offset = start[i] /\ start[i] + size <= P[i].offset
    BY <1>3, <1>5, <1>8, <2>1
  <2>3. ASSUME NEW k \in i .. K PROVE offset + size <= P[k].offset
    <3>1. k \in 1 .. K
      BY <1>3, <2>2
    <3>2. CASE k = i
      BY <2>2, <3>2
    <3>3. CASE k # i
      <4>1. EndOf(P[i]) <= P[k].offset
        BY <1>3, <2>2, <3>1, <3>3
      <4>2. /\ P[i].offset \in Nat /\ P[i].size \in Nat /\ P[k].offset \in Nat
            /\ EndOf(P[i]) = P[i].offset + P[i].size
        BY <1>3, <2>2, <3>1
      <4>3. start[i] \in Nat
        BY <1>6, <2>2
      <4> QED BY <2>2, <4>1, <4>2, <4>3
    <3> QED BY <3>2, <3>3
  <2>4. \A k \in 1 .. i - 1 : k \in 1 .. K
    BY <1>3, <2>2
  <2>5. \A k \in i .. K : k \in 1 .. K
    BY <1>3, <2>2
  <2> QED BY <1>1, <1>3, <1>6, <2>2, <2>3, <2>4, <2>5
<1> QED BY <1>9, <1>10

\* MemPatternPlanner::TraceAllocation: the new value is put apart from all
\* that have not been freed, and those freed die before it is made.
LEMMA TraceAllocationKeeps ==
    ASSUME NEW tr, NEW l, NEW in \in Inputs, NEW M \in SUBSET Values, NEW D,
           TraceOK(tr, l, in, M, D),
           NEW v \in Values, v \notin M, Location[v] = l, AllocKind[v] = "allocate",
           \A u \in D : DiesBefore(u, v),
           NEW new, new = TraceAllocation(tr, v, SizeOf[in][v])
    PROVE  TraceOK(new, l, in, M \cup {v}, D)
<1>1. PICK size : size = SizeOf[in][v]
  OBVIOUS
<1>2. size \in Nat
  BY <1>1, FrameConstants
<1>3. CASE size = 0
  BY <1>1, <1>3, TraceEmptyKeeps
<1>4. CASE size # 0
  <2>0. tr \in TraceType /\ BlocksOK(tr) /\ size \in Nat \ {0}
    BY <1>2, <1>4 DEF TraceOK
  <2>1. PICK i : i = ChosenGap(tr, size)
    OBVIOUS
  <2>2. PICK offset : offset = Planner(tr)!GapStart(i)
    OBVIOUS
  <2>3. /\ i \in 1 .. Len(tr.blocks) + 1
        /\ offset \in Nat
        /\ \A k \in 1 .. i - 1 : EndOf(tr.allocs[tr.blocks[k]]) <= offset
        /\ \A k \in i .. Len(tr.blocks) : offset + size <= tr.allocs[tr.blocks[k]].offset
    BY ONLY <2>0, <2>1, <2>2, ChosenGapFree
  <2>4. PICK a : a = [index |-> v, offset |-> offset, size |-> size]
    OBVIOUS
  <2>5. /\ a \in AllocType /\ a.index = v /\ a.size = SizeOf[in][v] /\ a.offset = offset
        /\ EndOf(a) = offset + size
    BY <1>1, <1>2, <2>3, <2>4 DEF AllocType, EndOf
  <2>6. new = [allocs |-> Append(tr.allocs, a),
               blocks |-> InsertAt(tr.blocks, i, Len(tr.allocs) + 1),
               peak   |-> IF offset + size > tr.peak THEN offset + size ELSE tr.peak]
    BY <1>1, <1>4, <2>1, <2>2, <2>4 DEF TraceAllocation
  <2>7. PICK peak : peak = IF offset + size > tr.peak THEN offset + size ELSE tr.peak
    OBVIOUS
  <2>p. peak \in Nat /\ tr.peak <= peak /\ EndOf(a) <= peak
    <3>1. tr.peak \in Nat
      BY <2>0, TraceFacts
    <3> QED BY <1>2, <2>3, <2>5, <2>7, <3>1
  <2>n. new = [allocs |-> Append(tr.allocs, a),
               blocks |-> InsertAt(tr.blocks, i, Len(tr.allocs) + 1),
               peak   |-> peak]
    BY <2>6, <2>7
  <2>8. /\ \A k \in 1 .. i - 1 : EndOf(tr.allocs[tr.blocks[k]]) <= a.offset
        /\ \A k \in i .. Len(tr.blocks) : EndOf(a) <= tr.allocs[tr.blocks[k]].offset
    BY <2>3, <2>5
  <2>9. i \in 1 .. Len(tr.blocks) + 1
    BY <2>3
  <2> QED BY <2>5, <2>p, <2>n, <2>8, <2>9, TraceInsertKeeps
<1> QED BY <1>3, <1>4

\* A value that the trace does not follow may be made, any may be freed.
LEMMA TraceWeakens ==
    ASSUME NEW tr, NEW l, NEW in, NEW M, NEW D, TraceOK(tr, l, in, M, D), NEW v
    PROVE  /\ Location[v] # l \/ AllocKind[v] # "allocate" \/ v \in Strings
                 => TraceOK(tr, l, in, M \cup {v}, D)
           /\ TraceOK(tr, l, in, M, D \cup {v})
<1>1. tr \in TraceType /\ BlocksOK(tr) /\ AllocsOK(tr, l, in, M) /\ LiveOK(tr, D)
  BY DEF TraceOK
<1>2. Location[v] # l \/ AllocKind[v] # "allocate" \/ v \in Strings => AllocsOK(tr, l, in, M \cup {v})
  BY <1>1 DEF AllocsOK
<1>3. LiveOK(tr, D \cup {v})
  BY <1>1 DEF LiveOK
<1> QED BY <1>1, <1>2, <1>3 DEF TraceOK

\* MemPatternPlanner::TraceFree: a block that leaves the list is one of the
\* value that is freed.
LEMMA TraceFreeKeeps ==
    ASSUME NEW tr, NEW l, NEW in, NEW M, NEW D, TraceOK(tr, l, in, M, D),
           NEW v, NEW new, new = TraceFree(tr, v)
    PROVE  TraceOK(new, l, in, M, D \cup {v})
<1>0. tr \in TraceType /\ BlocksOK(tr) /\ AllocsOK(tr, l, in, M) /\ LiveOK(tr, D)
  BY DEF TraceOK
<1>1. PICK live : live = {i \in DOMAIN tr.blocks : tr.allocs[tr.blocks[i]].index = v}
  OBVIOUS
<1>2. CASE live = {}
  <2>1. new = tr
    BY <1>1, <1>2 DEF TraceFree
  <2> QED BY <2>1, TraceWeakens
<1>3. CASE live # {}
  <2>1. PICK i : i = CHOOSE k \in live : \A j \in live : k <= j
    OBVIOUS
  <2>2. /\ Len(tr.blocks) \in Nat /\ DOMAIN tr.blocks = 1 .. Len(tr.blocks)
        /\ tr.blocks \in Seq(Nat)
        /\ \A k \in DOMAIN tr.blocks : tr.blocks[k] \in DOMAIN tr.allocs
    BY <1>0, TraceFacts
  <2>3. i \in live
    <3>1. live \subseteq Nat
      BY <1>1, <2>2
    <3>2. \E k \in live : \A j \in live : k <= j
      BY <1>3, <3>1, NatMin
    <3> QED BY <2>1, <3>2
  <2>4. PICK B : B = tr.blocks
    OBVIOUS
  <2>5. PICK K : K = Len(B)
    OBVIOUS
  <2>6. /\ i \in 1 .. K /\ B \in Seq(Nat) /\ K \in Nat /\ DOMAIN B = 1 .. K
        /\ tr.allocs[B[i]].index = v
    BY <1>1, <2>2, <2>3, <2>4, <2>5
  <2>7. PICK B2 : B2 = RemoveAt(B, i)
    OBVIOUS
  <2>8. /\ B2 \in Seq(Nat) /\ Len(B2) = K - 1
        /\ \A k \in 1 .. i - 1 : B2[k] = B[k]
        /\ \A k \in i .. K - 1 : B2[k] = B[k + 1]
    BY ONLY <2>5, <2>6, <2>7, RemoveAtElements
  <2>9. DOMAIN B2 = 1 .. K - 1
    BY <2>8, LenProperties
  <2>10. new = [tr EXCEPT !.blocks = B2]
    BY <1>1, <1>3, <2>1, <2>4, <2>7 DEF TraceFree
  <2>11. new \in TraceType /\ new.allocs = tr.allocs /\ new.peak = tr.peak /\ new.blocks = B2
    BY <1>0, <2>8, <2>10 DEF TraceType
  \* Where each block that stays was.
  <2>12. PICK was : was = [k \in 1 .. K - 1 |-> IF k < i THEN k ELSE k + 1]
    OBVIOUS
  <2>13. /\ \A k \in 1 .. K - 1 : was[k] \in DOMAIN B /\ B2[k] = B[was[k]]
         /\ \A j, k \in 1 .. K - 1 : j < k => was[j] < was[k]
    <3>1. ASSUME NEW k \in 1 .. K - 1
          PROVE  was[k] \in DOMAIN B /\ B2[k] = B[was[k]]
      <4>1. CASE k < i
        <5>1. k \in 1 .. i - 1 /\ k \in 1 .. K /\ was[k] = k
          BY <2>6, <2>12, <4>1
        <5> QED BY <2>6, <2>8, <5>1
      <4>2. CASE ~(k < i)
        <5>1. k \in i .. K - 1 /\ k + 1 \in 1 .. K /\ was[k] = k + 1
          BY <2>6, <2>12, <4>2
        <5> QED BY <2>6, <2>8, <5>1
      <4> QED BY <4>1, <4>2
    <3>2. \A j, k \in 1 .. K - 1 : j < k => was[j] < was[k]
      BY <2>6, <2>12
    <3> QED BY <3>1, <3>2
  <2>14. BlocksOK(new)
    <3>1. /\ \A k \in DOMAIN B : B[k] \in DOMAIN tr.allocs
          /\ \A j, k \in DOMAIN B : j < k => EndOf(tr.allocs[B[j]]) <= tr.allocs[B[k]].offset
      BY <1>0, <2>4 DEF BlocksOK
    <3>2. \A k \in DOMAIN B2 : B2[k] \in DOMAIN tr.allocs
      BY <2>9, <2>13, <3>1
    <3>3. \A j, k \in DOMAIN B2 : j < k => EndOf(tr.allocs[B2[j]]) <= tr.allocs[B2[k]].offset
      BY <2>9, <2>13, <3>1
    <3> QED BY <2>11, <3>2, <3>3 DEF BlocksOK
  <2>15. AllocsOK(new, l, in, M)
    BY <1>0, <2>11 DEF AllocsOK
  <2>16. LiveOK(new, D \cup {v})
    <3>1. ASSUME NEW k \in DOMAIN B, k # i
          PROVE  \E j \in DOMAIN B2 : B2[j] = B[k]
      <4>1. CASE k < i
        <5>1. k \in 1 .. i - 1 /\ k \in 1 .. K - 1
          BY <2>6, <4>1
        <5> QED BY <2>8, <2>9, <5>1
      <4>2. CASE k > i
        <5>1. k - 1 \in i .. K - 1 /\ k - 1 \in 1 .. K - 1 /\ (k - 1) + 1 = k
          BY <2>6, <4>2
        <5> QED BY <2>8, <2>9, <5>1
      <4> QED BY <2>6, <3>1, <4>1, <4>2
    <3>2. ASSUME NEW n \in DOMAIN tr.allocs
          PROVE  \/ tr.allocs[n].size = 0 /\ tr.allocs[n].offset = 0
                 \/ \E j \in DOMAIN B2 : B2[j] = n
                 \/ tr.allocs[n].index \in D \cup {v}
      <4>1. \/ tr.allocs[n].size = 0 /\ tr.allocs[n].offset = 0
            \/ \E k \in DOMAIN B : B[k] = n
            \/ tr.allocs[n].index \in D
        BY <1>0, <2>4 DEF LiveOK
      <4>2. ASSUME NEW k \in DOMAIN B, B[k] = n
            PROVE  tr.allocs[n].index = v \/ \E j \in DOMAIN B2 : B2[j] = n
        BY <2>6, <3>1, <4>2
      <4> QED BY <4>1, <4>2
    <3> QED BY <1>0, <2>11, <3>2 DEF LiveOK
  <2> QED BY <2>11, <2>14, <2>15, <2>16 DEF TraceOK
<1> QED BY <1>2, <1>3

-----------------------------------------------------------------------------
(* What one output and one release do to a frame. *)

\* The same run, further on.
SameRun(g, f) == g.input = f.input /\ g.next = f.next /\ g.pattern = f.pattern

\* A place that value v may be given.
MayPlace(f, v, p, M) ==
    /\ p \in PlaceType
    /\ p.at # "none" => v \in M
    /\ p.at = "own" => AllocKind[v] # "reuse" /\ ~BlockFits(f, v)
    /\ p.at = "block" => /\ BlockFits(f, v)
                         /\ p.offset = f.pattern.block[Location[v]][v].offset
                         /\ p.size = f.pattern.block[Location[v]][v].size

PlacesOK(f, M) ==
    /\ f.place \in [Values -> PlaceType]
    /\ \A w \in Values : PlaceOK(f, w, M)

\* Where the other values are stays as it was.
LEMMA PlacesKept ==
    ASSUME NEW f, NEW M, FrameOK(f, M), NEW v \in Values, NEW p,
           NEW g, SameRun(g, f), g.place = [f.place EXCEPT ![v] = p],
           NEW M2, M \subseteq M2, MayPlace(f, v, p, M2)
    PROVE  PlacesOK(g, M2)
<1> USE DEF MayPlace
<1>1. f.place \in [Values -> PlaceType] /\ \A w \in Values : PlaceOK(f, w, M)
  BY DEF FrameOK, FrameType
<1>2. \A w \in Values : BlockFits(g, w) <=> BlockFits(f, w)
  BY DEF SameRun, BlockFits
<1>3. g.pattern = f.pattern
  BY DEF SameRun
<1>4. g.place \in [Values -> PlaceType]
  BY <1>1
<1>5. ASSUME NEW w \in Values
      PROVE  PlaceOK(g, w, M2)
  <2>1. CASE w = v
    <3>1. g.place[w] = p
      BY <1>1, <2>1
    <3> QED BY <1>2, <1>3, <2>1, <3>1 DEF PlaceOK
  <2>2. CASE w # v
    <3>1. g.place[w] = f.place[w]
      BY <1>1, <2>2
    <3>2. PlaceOK(f, w, M)
      BY <1>1
    <3> QED BY <1>2, <1>3, <3>1, <3>2 DEF PlaceOK
  <2> QED BY <2>1, <2>2
<1> QED BY <1>4, <1>5 DEF PlacesOK

\* AllocateAsPerAllocationPlan keeps the frame in order, once for each value.
LEMMA AllocateKeeps ==
    ASSUME NEW f, NEW M \in SUBSET Values, FrameOK(f, M),
           f.pattern.found => PatternOK(f.pattern),
           NEW v \in Values, v \notin M, \A u \in f.dead : DiesBefore(u, v),
           NEW g, g = AllocateAsPerAllocationPlan(f, v)
    PROVE  /\ FrameOK(g, M \cup {v})
           /\ SameRun(g, f) /\ g.dead = f.dead /\ g.copying = f.copying
<1>0. PICK M2 : M2 = M \cup {v}
  OBVIOUS
<1>1. f \in FrameType({f.pattern}) /\ M \subseteq M2 /\ v \in M2
  BY <1>0 DEF FrameOK
<1>2. /\ f.input \in Inputs /\ f.trace \in [Locations -> TraceType] /\ f.place \in [Values -> PlaceType]
      /\ Location[v] \in Locations /\ SizeOf[f.input][v] \in Nat
      /\ AllocKind[v] \in {"allocate", "output", "reuse"}
  BY <1>1, FrameConstants DEF FrameType
<1>3. Tracing(f) => \A l \in Locations : TraceOK(f.trace[l], l, f.input, M, f.dead)
  BY DEF FrameOK
<1>4. ASSUME NEW p, MayPlace(f, v, p, M2), NEW tr \in [Locations -> TraceType],
             g = [f EXCEPT !.place[v] = p, !.trace = tr],
             Tracing(f) => \A l \in Locations : TraceOK(tr[l], l, f.input, M2, f.dead)
      PROVE  /\ FrameOK(g, M2)
             /\ SameRun(g, f) /\ g.dead = f.dead /\ g.copying = f.copying
  <2>1. /\ g.place = [f.place EXCEPT ![v] = p] /\ g.trace = tr
        /\ SameRun(g, f) /\ g.dead = f.dead /\ g.copying = f.copying
    BY <1>1, <1>4 DEF FrameType, SameRun
  <2>2. PlacesOK(g, M2)
    BY <1>1, <1>4, <2>1, PlacesKept
  <2>3. g \in FrameType({g.pattern})
    BY <1>1, <1>4, <2>1, <2>2 DEF FrameType, SameRun, PlacesOK
  <2>4. Tracing(g) => \A l \in Locations : TraceOK(g.trace[l], l, g.input, M2, g.dead)
    BY <1>4, <2>1 DEF Tracing, SameRun
  <2> QED BY <2>1, <2>2, <2>3, <2>4 DEF FrameOK, PlacesOK
<1>5. f = [f EXCEPT !.trace = f.trace]
  BY <1>1 DEF FrameType
<1>6. CASE AllocKind[v] = "reuse"
  <2>1. PICK p : p = [at |-> "reuse", offset |-> 0, size |-> SizeOf[f.input][v]]
    OBVIOUS
  <2>2. MayPlace(f, v, p, M2)
    BY <1>1, <1>2, <2>1 DEF PlaceType, MayPlace
  <2>3. g = [f EXCEPT !.place[v] = p, !.trace = f.trace]
    BY <1>1, <1>6, <2>1 DEF AllocateAsPerAllocationPlan, AllocateMLValueTensorPreAllocateBuffer, FrameType
  <2>4. Tracing(f) => \A l \in Locations : TraceOK(f.trace[l], l, f.input, M2, f.dead)
    BY <1>0, <1>3, <1>6, TraceWeakens
  <2> QED BY <1>0, <1>2, <1>4, <2>2, <2>3, <2>4
<1>7. CASE AllocKind[v] # "reuse" /\ BlockFits(f, v)
  <2>1. PICK p : p = [at |-> "block", offset |-> f.pattern.block[Location[v]][v].offset,
                      size |-> SizeOf[f.input][v]]
    OBVIOUS
  <2>2. g = [f EXCEPT !.place[v] = p, !.trace = f.trace]
    BY <1>1, <1>7, <2>1 DEF AllocateAsPerAllocationPlan, AllocateMLValueTensorSelfOwnBuffer, FrameType
  <2>3. MayPlace(f, v, p, M2)
    <3>1. /\ f.pattern.block[Location[v]][v].offset \in Nat
          /\ f.pattern.block[Location[v]][v].size = SizeOf[f.input][v]
      BY <1>2, <1>7 DEF BlockFits, PatternOK, BlockOK
    <3> QED BY <1>1, <1>2, <1>7, <2>1, <3>1 DEF PlaceType, MayPlace
  <2>4. ~Tracing(f)
    BY <1>7 DEF BlockFits, Tracing
  <2> QED BY <1>0, <1>2, <1>4, <2>2, <2>3, <2>4
<1>8. CASE AllocKind[v] # "reuse" /\ ~BlockFits(f, v)
  <2>1. PICK p : p = [at |-> "own", offset |-> 0, size |-> SizeOf[f.input][v]]
    OBVIOUS
  <2>2. MayPlace(f, v, p, M2)
    BY <1>1, <1>2, <1>8, <2>1 DEF PlaceType, MayPlace
  <2>3. PICK traced : traced = IF Traced(f, v)
                               THEN TraceAllocation(f.trace[Location[v]], v, SizeOf[f.input][v])
                               ELSE f.trace[Location[v]]
    OBVIOUS
  <2>4. PICK tr : tr = [f.trace EXCEPT ![Location[v]] = traced]
    OBVIOUS
  <2>5. g = [f EXCEPT !.place[v] = p, !.trace = tr]
    BY <1>1, <1>2, <1>8, <2>1, <2>3, <2>4
       DEF AllocateAsPerAllocationPlan, AllocateMLValueTensorSelfOwnBuffer, FrameType
  <2>6. CASE Traced(f, v)
    <3>1. Tracing(f) /\ AllocKind[v] = "allocate"
      BY <1>2, <1>8, <2>6 DEF Traced
    <3>2. TraceOK(f.trace[Location[v]], Location[v], f.input, M, f.dead)
      BY <1>2, <1>3, <3>1
    <3>3. traced = TraceAllocation(f.trace[Location[v]], v, SizeOf[f.input][v])
      BY <2>3, <2>6
    <3>4. TraceOK(traced, Location[v], f.input, M2, f.dead)
      BY <1>0, <1>2, <3>1, <3>2, <3>3, TraceAllocationKeeps
    <3>5. traced \in TraceType
      BY <3>4 DEF TraceOK
    <3>6. tr \in [Locations -> TraceType]
      BY <1>2, <2>4, <3>5
    <3>7. ASSUME NEW l \in Locations
          PROVE  TraceOK(tr[l], l, f.input, M2, f.dead)
      <4>1. CASE l = Location[v]
        BY <1>2, <2>4, <3>4, <4>1
      <4>2. CASE l # Location[v]
        <5>1. tr[l] = f.trace[l] /\ TraceOK(f.trace[l], l, f.input, M, f.dead)
          BY <1>2, <1>3, <2>4, <3>1, <4>2
        <5> QED BY <1>0, <4>2, <5>1, TraceWeakens
      <4> QED BY <4>1, <4>2
    <3> QED BY <1>0, <1>4, <2>2, <2>5, <3>6, <3>7
  <2>7. CASE ~Traced(f, v)
    <3>1. tr = f.trace
      BY <1>2, <2>3, <2>4, <2>7
    <3>2. Tracing(f) => AllocKind[v] # "allocate" \/ v \in Strings
      BY <2>7 DEF Traced
    <3>3. Tracing(f) => \A l \in Locations : TraceOK(tr[l], l, f.input, M2, f.dead)
      BY <1>0, <1>3, <3>1, <3>2, TraceWeakens
    <3> QED BY <1>0, <1>2, <1>4, <2>2, <2>5, <3>1, <3>3
  <2> QED BY <2>6, <2>7
<1> QED BY <1>6, <1>7, <1>8

\* ReleaseMLValue, whether or not a fence defers the release.
LEMMA ReleaseValueKeeps ==
    ASSUME NEW f, NEW M \in SUBSET Values, FrameOK(f, M), NEW v \in Values,
           NEW g, g = ReleaseMLValue(f, v)
    PROVE  /\ FrameOK(g, M)
           /\ SameRun(g, f) /\ g.dead = f.dead \cup {v} /\ g.copying = f.copying
<1>1. f \in FrameType({f.pattern})
  BY DEF FrameOK
<1>2. /\ f.trace \in [Locations -> TraceType] /\ f.place \in [Values -> PlaceType]
      /\ Location[v] \in Locations /\ f.dead \in SUBSET Values
  BY <1>1, FrameConstants DEF FrameType
<1>3. PICK p : p = IF FencePending(f, v) THEN f.place[v] ELSE Unplaced
  OBVIOUS
<1>4. PICK traced : traced = IF Traced(f, v) THEN TraceFree(f.trace[Location[v]], v)
                                             ELSE f.trace[Location[v]]
  OBVIOUS
<1>5. PICK tr : tr = [f.trace EXCEPT ![Location[v]] = traced]
  OBVIOUS
<1>6. PICK D : D = f.dead \cup {v}
  OBVIOUS
<1>7. MayPlace(f, v, p, M)
  <2>1. MayPlace(f, v, f.place[v], M)
    BY <1>2 DEF FrameOK, PlaceOK, MayPlace
  <2>2. MayPlace(f, v, Unplaced, M)
    BY DEF Unplaced, PlaceType, MayPlace
  <2> QED BY <1>3, <2>1, <2>2
<1>8. g = [f EXCEPT !.dead = D, !.place[v] = p, !.trace = tr]
  BY <1>1, <1>2, <1>3, <1>4, <1>5, <1>6 DEF ReleaseMLValue, FrameType
<1>9. /\ g.place = [f.place EXCEPT ![v] = p] /\ g.trace = tr
      /\ SameRun(g, f) /\ g.dead = D /\ g.copying = f.copying
  BY <1>1, <1>8 DEF FrameType, SameRun
<1>10. PlacesOK(g, M)
  BY <1>7, <1>9, PlacesKept
<1>11. Tracing(f) => \A l \in Locations : TraceOK(f.trace[l], l, f.input, M, f.dead)
  BY DEF FrameOK
<1>12. Tracing(f) => \A l \in Locations : TraceOK(tr[l], l, f.input, M, D)
  <2> SUFFICES ASSUME Tracing(f), NEW l \in Locations PROVE TraceOK(tr[l], l, f.input, M, D)
    OBVIOUS
  <2>1. TraceOK(f.trace[l], l, f.input, M, f.dead)
    BY <1>11
  <2>2. CASE l = Location[v] /\ Traced(f, v)
    <3>1. tr[l] = TraceFree(f.trace[l], v)
      BY <1>2, <1>4, <1>5, <2>2
    <3> QED BY <1>6, <2>1, <3>1, TraceFreeKeeps
  <2>3. CASE ~(l = Location[v] /\ Traced(f, v))
    <3>1. tr[l] = f.trace[l]
      BY <1>2, <1>4, <1>5, <2>3
    <3> QED BY <1>6, <2>1, <3>1, TraceWeakens
  <2> QED BY <2>2, <2>3
<1>13. tr \in [Locations -> TraceType]
  <2>1. CASE Traced(f, v)
    <3>1. Tracing(f)
      BY <2>1 DEF Traced
    <3>2. tr[Location[v]] \in TraceType
      BY <1>2, <1>12, <3>1 DEF TraceOK
    <3> QED BY <1>2, <1>5, <3>2
  <2>2. CASE ~Traced(f, v)
    BY <1>2, <1>4, <1>5, <2>2
  <2> QED BY <2>1, <2>2
<1>14. g \in FrameType({g.pattern})
  <2>1. D \in SUBSET Values /\ [f.place EXCEPT ![v] = p] \in [Values -> PlaceType]
    BY <1>2, <1>6, <1>9, <1>10 DEF PlacesOK
  <2>2. g.pattern = f.pattern
    BY <1>9 DEF SameRun
  <2> QED BY <1>1, <1>8, <1>13, <2>1, <2>2 DEF FrameType
<1>15. Tracing(g) => \A l \in Locations : TraceOK(g.trace[l], l, g.input, M, g.dead)
  BY <1>9, <1>12 DEF Tracing, SameRun
<1> QED BY <1>6, <1>9, <1>10, <1>14, <1>15 DEF FrameOK, PlacesOK

-----------------------------------------------------------------------------
(* The lists of outputs and releases of a node. *)

\* The values at the first i positions.
Upto(s, i) == {s[k] : k \in 1 .. i}

LEMMA UptoGrows ==
    ASSUME NEW s, NEW i \in Nat \ {0}
    PROVE  Upto(s, i) = Upto(s, i - 1) \cup {s[i]}
<1>1. 1 .. i = (1 .. i - 1) \cup {i}
  OBVIOUS
<1> QED BY <1>1 DEF Upto

\* Frames that f may have become after outputs M and releases D.
Becomes(f, M, D, c) ==
    {g \in FrameType({f.pattern}) :
        FrameOK(g, M) /\ SameRun(g, f) /\ g.dead = D /\ g.copying = c}

\* AllocateOutputs: each output of the node once.
LEMMA OutputsKeep ==
    ASSUME NEW f, NEW M \in SUBSET Values, FrameOK(f, M),
           f.pattern.found => PatternOK(f.pattern),
           NEW out \in Seq(Values), Upto(out, Len(out)) \cap M = {},
           \A i, j \in DOMAIN out : out[i] = out[j] => i = j,
           \A u \in f.dead, v \in Upto(out, Len(out)) : DiesBefore(u, v)
    PROVE  AllocateOutputs(f, out) \in Becomes(f, M \cup Upto(out, Len(out)), f.dead, f.copying)
<1>1. PICK N : N = Len(out)
  OBVIOUS
<1>2. N \in Nat /\ DOMAIN out = 1 .. N /\ \A i \in 1 .. N : out[i] \in Values
  BY <1>1, LenProperties, ElementOfSeq
<1>3. PICK OK : OK = [i \in 0 .. N |-> Becomes(f, M \cup Upto(out, i), f.dead, f.copying)]
  OBVIOUS
<1>4. PICK F : F = [i \in 1 .. N |-> [x \in OK[i - 1] |-> AllocateAsPerAllocationPlan(x, out[i])]]
  OBVIOUS
<1>5. f \in OK[0]
  <2>1. Upto(out, 0) = {}
    BY DEF Upto
  <2>2. f \in Becomes(f, M, f.dead, f.copying)
    BY DEF Becomes, FrameOK, SameRun
  <2> QED BY <1>2, <1>3, <2>1, <2>2
<1>6. ASSUME NEW i \in 1 .. N, NEW x \in OK[i - 1]
      PROVE  /\ F[i][x] = AllocateAsPerAllocationPlan(x, out[i])
             /\ F[i][x] \in OK[i]
  <2>1. PICK m : m = M \cup Upto(out, i - 1)
    OBVIOUS
  <2>2. PICK g : g = AllocateAsPerAllocationPlan(x, out[i])
    OBVIOUS
  <2>v. PICK v : v = out[i]
    OBVIOUS
  <2>3. F[i][x] = g
    BY <1>4, <2>2
  <2>4. i - 1 \in 0 .. N /\ i \in 0 .. N /\ i \in Nat \ {0}
    BY <1>2
  <2>5. x \in Becomes(f, m, f.dead, f.copying)
    BY <1>3, <2>1, <2>4
  <2>6. FrameOK(x, m) /\ SameRun(x, f) /\ x.dead = f.dead /\ x.copying = f.copying
    BY <2>5 DEF Becomes
  <2>7. m \in SUBSET Values /\ out[i] \in Values /\ out[i] \notin m /\ out[i] \in Upto(out, N)
    <3>1. \A k \in 1 .. i - 1 : k \in 1 .. N /\ k # i
      BY <1>2
    <3>2. Upto(out, i - 1) \subseteq Values /\ out[i] \notin Upto(out, i - 1)
      BY <1>2, <3>1 DEF Upto
    <3>3. out[i] \in Upto(out, N)
      BY DEF Upto
    <3> QED BY <1>1, <1>2, <2>1, <3>2, <3>3
  <2>8. (x.pattern.found => PatternOK(x.pattern)) /\ \A u \in x.dead : DiesBefore(u, out[i])
    BY <1>1, <2>6, <2>7 DEF SameRun
  <2>9. FrameOK(g, m \cup {out[i]}) /\ SameRun(g, x) /\ g.dead = x.dead /\ g.copying = x.copying
    <3>1. /\ FrameOK(x, m) /\ m \in SUBSET Values /\ v \in Values /\ v \notin m
          /\ x.pattern.found => PatternOK(x.pattern)
          /\ \A u \in x.dead : DiesBefore(u, v)
          /\ g = AllocateAsPerAllocationPlan(x, v)
      BY <2>v, <2>2, <2>6, <2>7, <2>8
    <3>2. FrameOK(g, m \cup {v}) /\ SameRun(g, x) /\ g.dead = x.dead /\ g.copying = x.copying
      BY ONLY <3>1, AllocateKeeps
    <3> QED BY <2>v, <3>2
  <2>10. SameRun(g, f)
    BY <2>6, <2>9 DEF SameRun
  <2>11. m \cup {out[i]} = M \cup Upto(out, i)
    BY <2>1, <2>4, UptoGrows
  <2>12. g \in Becomes(f, M \cup Upto(out, i), f.dead, f.copying)
    <3>1. g \in FrameType({f.pattern})
      BY <2>9, <2>10 DEF FrameOK, SameRun
    <3> QED BY <2>6, <2>9, <2>10, <2>11, <3>1 DEF Becomes
  <2> QED BY <1>3, <2>2, <2>3, <2>4, <2>12
<1>7. PICK c : c = CHOOSE h : h = [i \in 0 .. N |->
                      IF i = 0 THEN f ELSE AllocateAsPerAllocationPlan(h[i - 1], out[i])]
  OBVIOUS
<1>8. AllocateOutputs(f, out) = c[N]
  BY <1>1, <1>7 DEF AllocateOutputs
<1>8a. PICK g : IsLoop(g, N, f, F, OK)
  <2>1. \A i \in 1 .. N : \A x \in OK[i - 1] : F[i][x] \in OK[i]
    BY <1>6
  <2> QED BY <1>2, <1>5, <2>1, Iterates
<1>9. /\ g = [i \in 0 .. N |-> IF i = 0 THEN f ELSE F[i][g[i - 1]]]
      /\ \A i \in 0 .. N : g[i] \in OK[i]
  BY <1>8a DEF IsLoop
<1>10. g = [i \in 0 .. N |-> IF i = 0 THEN f ELSE AllocateAsPerAllocationPlan(g[i - 1], out[i])]
  <2>1. \A i \in 0 .. N : i # 0 => i \in 1 .. N /\ i - 1 \in 0 .. N
    BY <1>2
  <2>2. \A i \in 0 .. N : i # 0 => F[i][g[i - 1]] = AllocateAsPerAllocationPlan(g[i - 1], out[i])
    BY <1>6, <1>9, <2>1
  <2> QED BY <1>9, <2>2
<1>11. c = [i \in 0 .. N |-> IF i = 0 THEN f ELSE AllocateAsPerAllocationPlan(c[i - 1], out[i])]
  BY <1>7, <1>10
<1>12. PICK T : T = {i \in 0 .. N : c[i] \in OK[i]}
  OBVIOUS
<1>13. 0 \in T
  BY <1>2, <1>5, <1>11, <1>12
<1>14. ASSUME NEW i \in 1 .. N, i - 1 \in T
       PROVE  i \in T
  <2>1. i \in 0 .. N /\ i # 0 /\ c[i - 1] \in OK[i - 1]
    BY <1>2, <1>12, <1>14
  <2>2. c[i] = AllocateAsPerAllocationPlan(c[i - 1], out[i])
    BY <1>11, <2>1
  <2> QED BY <1>6, <1>12, <2>1, <2>2
<1>15. T = 0 .. N
  BY <1>2, <1>12, <1>13, <1>14, RangeInduction
<1>16. c[N] \in OK[N] /\ N \in 0 .. N
  BY <1>2, <1>12, <1>15
<1> QED BY <1>1, <1>3, <1>8, <1>16

\* ReleaseNodeMLValues: whatever dies with the node.
LEMMA ReleasesKeep ==
    ASSUME NEW f, NEW M \in SUBSET Values, FrameOK(f, M), NEW free \in Seq(Values)
    PROVE  ReleaseNodeMLValues(f, free)
               \in Becomes(f, M, f.dead \cup Upto(free, Len(free)), f.copying)
<1>1. PICK N : N = Len(free)
  OBVIOUS
<1>2. N \in Nat /\ DOMAIN free = 1 .. N /\ \A i \in 1 .. N : free[i] \in Values
  BY <1>1, LenProperties, ElementOfSeq
<1>3. PICK OK : OK = [i \in 0 .. N |-> Becomes(f, M, f.dead \cup Upto(free, i), f.copying)]
  OBVIOUS
<1>4. PICK F : F = [i \in 1 .. N |-> [x \in OK[i - 1] |-> ReleaseMLValue(x, free[i])]]
  OBVIOUS
<1>5. f \in OK[0]
  <2>1. Upto(free, 0) = {}
    BY DEF Upto
  <2>2. f \in Becomes(f, M, f.dead, f.copying)
    BY DEF Becomes, FrameOK, SameRun
  <2> QED BY <1>2, <1>3, <2>1, <2>2
<1>6. ASSUME NEW i \in 1 .. N, NEW x \in OK[i - 1]
      PROVE  /\ F[i][x] = ReleaseMLValue(x, free[i])
             /\ F[i][x] \in OK[i]
  <2>1. PICK d : d = f.dead \cup Upto(free, i - 1)
    OBVIOUS
  <2>2. PICK g : g = ReleaseMLValue(x, free[i])
    OBVIOUS
  <2>3. F[i][x] = g
    BY <1>4, <2>2
  <2>4. i - 1 \in 0 .. N /\ i \in 0 .. N /\ i \in Nat \ {0}
    BY <1>2
  <2>5. x \in Becomes(f, M, d, f.copying)
    BY <1>3, <2>1, <2>4
  <2>6. FrameOK(x, M) /\ SameRun(x, f) /\ x.dead = d /\ x.copying = f.copying
    BY <2>5 DEF Becomes
  <2>7. PICK v : v = free[i]
    OBVIOUS
  <2>8. FrameOK(g, M) /\ SameRun(g, x) /\ g.dead = x.dead \cup {v} /\ g.copying = x.copying
    <3>1. FrameOK(x, M) /\ M \in SUBSET Values /\ v \in Values /\ g = ReleaseMLValue(x, v)
      BY <1>2, <2>2, <2>6, <2>7
    <3> QED BY ONLY <3>1, ReleaseValueKeeps
  <2>9. SameRun(g, f)
    BY <2>6, <2>8 DEF SameRun
  <2>10. g.dead = f.dead \cup Upto(free, i)
    BY <2>1, <2>4, <2>6, <2>7, <2>8, UptoGrows
  <2>11. g \in Becomes(f, M, f.dead \cup Upto(free, i), f.copying)
    <3>1. g \in FrameType({f.pattern})
      BY <2>8, <2>9 DEF FrameOK, SameRun
    <3> QED BY <2>6, <2>8, <2>9, <2>10, <3>1 DEF Becomes
  <2> QED BY <1>3, <2>2, <2>3, <2>4, <2>11
<1>7. PICK c : c = CHOOSE h : h = [i \in 0 .. N |->
                      IF i = 0 THEN f ELSE ReleaseMLValue(h[i - 1], free[i])]
  OBVIOUS
<1>8. ReleaseNodeMLValues(f, free) = c[N]
  BY <1>1, <1>7 DEF ReleaseNodeMLValues
<1>8a. PICK g : IsLoop(g, N, f, F, OK)
  <2>1. \A i \in 1 .. N : \A x \in OK[i - 1] : F[i][x] \in OK[i]
    BY <1>6
  <2> QED BY <1>2, <1>5, <2>1, Iterates
<1>9. /\ g = [i \in 0 .. N |-> IF i = 0 THEN f ELSE F[i][g[i - 1]]]
      /\ \A i \in 0 .. N : g[i] \in OK[i]
  BY <1>8a DEF IsLoop
<1>10. g = [i \in 0 .. N |-> IF i = 0 THEN f ELSE ReleaseMLValue(g[i - 1], free[i])]
  <2>1. \A i \in 0 .. N : i # 0 => i \in 1 .. N /\ i - 1 \in 0 .. N
    BY <1>2
  <2>2. \A i \in 0 .. N : i # 0 => F[i][g[i - 1]] = ReleaseMLValue(g[i - 1], free[i])
    BY <1>6, <1>9, <2>1
  <2> QED BY <1>9, <2>2
<1>11. c = [i \in 0 .. N |-> IF i = 0 THEN f ELSE ReleaseMLValue(c[i - 1], free[i])]
  BY <1>7, <1>10
<1>12. PICK T : T = {i \in 0 .. N : c[i] \in OK[i]}
  OBVIOUS
<1>13. 0 \in T
  BY <1>2, <1>5, <1>11, <1>12
<1>14. ASSUME NEW i \in 1 .. N, i - 1 \in T
       PROVE  i \in T
  <2>1. i \in 0 .. N /\ i # 0 /\ c[i - 1] \in OK[i - 1]
    BY <1>2, <1>12, <1>14
  <2>2. c[i] = ReleaseMLValue(c[i - 1], free[i])
    BY <1>11, <2>1
  <2> QED BY <1>6, <1>12, <2>1, <2>2
<1>15. T = 0 .. N
  BY <1>2, <1>12, <1>13, <1>14, RangeInduction
<1>16. c[N] \in OK[N] /\ N \in 0 .. N
  BY <1>2, <1>12, <1>15
<1> QED BY <1>1, <1>3, <1>8, <1>16

\* Nothing else of a frame matters to the invariant.
LEMMA FrameAlike ==
    ASSUME NEW f, NEW M, FrameOK(f, M), NEW g \in FrameType({f.pattern}),
           g.input = f.input, g.trace = f.trace, g.place = f.place, g.dead = f.dead
    PROVE  FrameOK(g, M)
<1>1. g.pattern = f.pattern
  BY DEF FrameType
<1>2. \A v \in Values : BlockFits(g, v) <=> BlockFits(f, v)
  BY <1>1 DEF BlockFits
<1>3. \A v \in Values : PlaceOK(g, v, M)
  BY <1>1, <1>2 DEF FrameOK, PlaceOK
<1>4. Tracing(g) => \A l \in Locations : TraceOK(g.trace[l], l, g.input, M, g.dead)
  BY <1>1 DEF Tracing, FrameOK
<1> QED BY <1>1, <1>3, <1>4 DEF FrameOK

\* The plan: what is made up to a node and after it.
LEMMA PlanFacts ==
    ASSUME NEW n \in 1 .. Len(ExecPlan)
    PROVE  /\ ExecPlan[n] \in PlanNodes
           /\ Made(n) \in SUBSET Values
           /\ Made(n + 1) = Made(n) \cup Upto(ExecPlan[n].out, Len(ExecPlan[n].out))
           /\ Freed(n + 1) = Freed(n) \cup Upto(ExecPlan[n].free, Len(ExecPlan[n].free))
           /\ Upto(ExecPlan[n].out, Len(ExecPlan[n].out)) \cap Made(n) = {}
           /\ \A u \in Freed(n), v \in Upto(ExecPlan[n].out, Len(ExecPlan[n].out)) : DiesBefore(u, v)
<1>1. /\ Len(ExecPlan) \in Nat /\ DOMAIN ExecPlan = 1 .. Len(ExecPlan)
      /\ \A i \in DOMAIN ExecPlan : ExecPlan[i] \in PlanNodes
  BY FrameConstants, LenProperties, ElementOfSeq
<1>2. ASSUME NEW i \in DOMAIN ExecPlan
      PROVE  /\ Range(ExecPlan[i].out) = Upto(ExecPlan[i].out, Len(ExecPlan[i].out))
             /\ Range(ExecPlan[i].free) = Upto(ExecPlan[i].free, Len(ExecPlan[i].free))
             /\ Range(ExecPlan[i].out) \subseteq Values
  <2>1. ExecPlan[i].out \in Seq(Values) /\ ExecPlan[i].free \in Seq(Values)
    BY <1>1 DEF PlanNodes
  <2>2. /\ DOMAIN ExecPlan[i].out = 1 .. Len(ExecPlan[i].out)
        /\ DOMAIN ExecPlan[i].free = 1 .. Len(ExecPlan[i].free)
        /\ \A k \in DOMAIN ExecPlan[i].out : ExecPlan[i].out[k] \in Values
    BY <2>1, LenProperties, ElementOfSeq
  <2> QED BY <2>2 DEF Range, Upto
<1>3. n \in DOMAIN ExecPlan
  BY <1>1
<1>4. Made(n) \in SUBSET Values
  BY <1>2 DEF Made
<1>5. \A k \in DOMAIN ExecPlan : k < n + 1 <=> (k < n \/ k = n)
  BY <1>1
<1>6. Made(n + 1) = Made(n) \cup Range(ExecPlan[n].out)
  BY <1>3, <1>5 DEF Made
<1>7. Freed(n + 1) = Freed(n) \cup Range(ExecPlan[n].free)
  BY <1>3, <1>5 DEF Freed
<1>8. Range(ExecPlan[n].out) \cap Made(n) = {}
  <2> SUFFICES ASSUME NEW v, v \in Range(ExecPlan[n].out), v \in Made(n) PROVE FALSE
    OBVIOUS
  <2>1. PICK i \in DOMAIN ExecPlan : i < n /\ v \in Range(ExecPlan[i].out)
    BY DEF Made
  <2>2. PICK k \in DOMAIN ExecPlan[i].out : v = ExecPlan[i].out[k]
    BY <2>1 DEF Range
  <2>3. PICK m \in DOMAIN ExecPlan[n].out : v = ExecPlan[n].out[m]
    BY DEF Range
  <2>4. i = n
    <3>1. \A p, q \in DOMAIN ExecPlan :
             \A x \in DOMAIN ExecPlan[p].out, y \in DOMAIN ExecPlan[q].out :
                 ExecPlan[p].out[x] = ExecPlan[q].out[y] => p = q
      BY FrameConstants
    <3>2. ExecPlan[i].out[k] = ExecPlan[n].out[m]
      BY <2>2, <2>3
    <3> QED BY ONLY <1>3, <3>1, <3>2, i \in DOMAIN ExecPlan,
               k \in DOMAIN ExecPlan[i].out, m \in DOMAIN ExecPlan[n].out, Zenon
  <2> QED BY <1>1, <2>1, <2>4
<1>9. \A u \in Freed(n), v \in Range(ExecPlan[n].out) : DiesBefore(u, v)
  BY <1>3 DEF Freed, DiesBefore
<1> QED BY <1>1, <1>2, <1>3, <1>4, <1>6, <1>7, <1>8, <1>9

\* A node of the plan: Compute, the fences, the releases.
LEMMA NodeKeeps ==
    ASSUME NEW f, f.next \in 1 .. Len(ExecPlan), FrameOK(f, Made(f.next)),
           f.dead = Freed(f.next), f.pattern.found => PatternOK(f.pattern),
           NEW g, g = AfterNode(f)
    PROVE  /\ FrameOK(g, Made(f.next + 1)) /\ g.next = f.next + 1
           /\ g.dead = Freed(f.next + 1) /\ g.pattern = f.pattern
<1>1. PICK n : n = f.next
  OBVIOUS
<1>2. PICK node : node = ExecPlan[n]
  OBVIOUS
<1>3. PICK out : out = Upto(node.out, Len(node.out))
  OBVIOUS
<1>4. PICK free : free = Upto(node.free, Len(node.free))
  OBVIOUS
<1>5. /\ node \in PlanNodes /\ Made(n) \in SUBSET Values
      /\ Made(n + 1) = Made(n) \cup out /\ Freed(n + 1) = Freed(n) \cup free
      /\ out \cap Made(n) = {} /\ \A u \in Freed(n), v \in out : DiesBefore(u, v)
  BY <1>1, <1>2, <1>3, <1>4, PlanFacts
<1>6. node.out \in Seq(Values) /\ node.free \in Seq(Values) /\ node.reads \in SUBSET Values
  BY <1>5 DEF PlanNodes
<1>7. \A i, j \in DOMAIN node.out : node.out[i] = node.out[j] => i = j
  <2>1. n \in DOMAIN ExecPlan
    BY <1>1, FrameConstants, LenProperties
  <2> QED BY <1>2, <2>1, FrameConstants
<1>8. PICK computed : computed = AllocateOutputs(f, node.out)
  OBVIOUS
<1>9. computed \in Becomes(f, Made(n) \cup out, f.dead, f.copying)
  <2>1. /\ Made(n) \in SUBSET Values /\ FrameOK(f, Made(n)) /\ node.out \in Seq(Values)
        /\ f.pattern.found => PatternOK(f.pattern)
        /\ Upto(node.out, Len(node.out)) \cap Made(n) = {}
        /\ \A i, j \in DOMAIN node.out : node.out[i] = node.out[j] => i = j
        /\ \A u \in f.dead, v \in Upto(node.out, Len(node.out)) : DiesBefore(u, v)
    BY <1>1, <1>3, <1>5, <1>6, <1>7
  <2>2. AllocateOutputs(f, node.out)
            \in Becomes(f, Made(n) \cup Upto(node.out, Len(node.out)), f.dead, f.copying)
    BY ONLY <2>1, OutputsKeep
  <2> QED BY <1>3, <1>8, <2>2
<1>10. /\ computed \in FrameType({f.pattern}) /\ FrameOK(computed, Made(n + 1))
       /\ SameRun(computed, f) /\ computed.dead = f.dead
  BY <1>5, <1>9 DEF Becomes
<1>11. PICK fenced : fenced = [computed EXCEPT !.copying = @ \cup NodeCopies(node)]
  OBVIOUS
<1>12. NodeCopies(node) \in SUBSET CopyType
  <2>1. Range(node.out) \subseteq Values
    BY <1>6, LenProperties, ElementOfSeq DEF Range
  <2> QED BY <1>6, <2>1 DEF NodeCopies, CopyType
<1>13. /\ fenced \in FrameType({computed.pattern}) /\ fenced.input = computed.input
       /\ fenced.trace = computed.trace /\ fenced.place = computed.place
       /\ fenced.dead = computed.dead /\ SameRun(fenced, f)
  <2>1. computed.pattern = f.pattern /\ computed.next = f.next /\ computed.input = f.input
    BY <1>10 DEF SameRun
  <2>2. computed.copying \cup NodeCopies(node) \in SUBSET CopyType
    BY <1>10, <1>12 DEF FrameType
  <2>3. fenced = [computed EXCEPT !.copying = computed.copying \cup NodeCopies(node)]
    BY <1>10, <1>11 DEF FrameType
  <2> QED BY <1>10, <2>1, <2>2, <2>3 DEF FrameType, SameRun
<1>14. FrameOK(fenced, Made(n + 1))
  BY <1>10, <1>13, FrameAlike
<1>15. PICK left : left = ReleaseNodeMLValues(fenced, node.free)
  OBVIOUS
<1>16. left \in Becomes(fenced, Made(n + 1), fenced.dead \cup free, fenced.copying)
  <2>1. Made(n + 1) \in SUBSET Values
    <3>1. out \subseteq Values
      BY <1>3, <1>6, LenProperties, ElementOfSeq DEF Upto
    <3> QED BY <1>5, <3>1
  <2>2. ReleaseNodeMLValues(fenced, node.free)
            \in Becomes(fenced, Made(n + 1), fenced.dead \cup Upto(node.free, Len(node.free)), fenced.copying)
    BY <1>6, <1>14, <2>1, ReleasesKeep
  <2> QED BY <1>4, <1>15, <2>2
<1>17. /\ left \in FrameType({left.pattern}) /\ FrameOK(left, Made(n + 1)) /\ SameRun(left, f)
       /\ left.dead = Freed(n + 1)
  <2>1. /\ FrameOK(left, Made(n + 1)) /\ SameRun(left, fenced)
        /\ left.dead = fenced.dead \cup free
    BY <1>16 DEF Becomes
  <2> QED BY <1>1, <1>5, <1>10, <1>13, <2>1 DEF FrameOK, SameRun
<1>18. g = [left EXCEPT !.next = left.next + 1]
  BY <1>1, <1>2, <1>8, <1>11, <1>15, <1>17 DEF AfterNode, NodeOf, FrameType
<1>19. left.next \in Nat /\ left.next = n /\ left.pattern = f.pattern
  BY <1>1, <1>17 DEF FrameType, SameRun
<1>20. /\ g \in FrameType({left.pattern}) /\ g.input = left.input /\ g.trace = left.trace
       /\ g.place = left.place /\ g.dead = left.dead
  <2>1. PICK next : next = left.next + 1
    OBVIOUS
  <2>2. next \in Nat /\ g = [left EXCEPT !.next = next]
    BY <1>18, <1>19, <2>1
  <2> QED BY <1>17, <2>2 DEF FrameType
<1>21. FrameOK(g, Made(n + 1))
  BY <1>17, <1>20, FrameAlike
<1> QED BY <1>1, <1>17, <1>18, <1>19, <1>20, <1>21 DEF FrameType

-----------------------------------------------------------------------------
(* The pattern a run leaves. *)

\* GenerateMemPattern at one location: each traced value at its offset.
Replays(pat, A) ==
    /\ DOMAIN pat = {A[n].index : n \in DOMAIN A}
    /\ \A n \in DOMAIN A : pat[A[n].index] = A[n]

LEMMA PatternOfTrace ==
    ASSUME NEW tr, NEW l, NEW in, NEW M, NEW D, TraceOK(tr, l, in, M, D),
           NEW pat, pat = Planner(tr)!Pattern
    PROVE  Replays(pat, tr.allocs)
<1>0. tr \in TraceType /\ BlocksOK(tr) /\ AllocsOK(tr, l, in, M)
  BY DEF TraceOK
<1>1. PICK A : A = tr.allocs
  OBVIOUS
<1>2. PICK N : N = Len(tr.allocs)
  OBVIOUS
<1>3. N \in Nat /\ DOMAIN A = 1 .. N /\ \A m, n \in DOMAIN A : A[m].index = A[n].index => m = n
  <2>1. Len(tr.allocs) \in Nat /\ DOMAIN tr.allocs = 1 .. Len(tr.allocs)
    BY <1>0, TraceFacts
  <2> QED BY <1>0, <1>1, <1>2, <2>1 DEF AllocsOK
<1>4. pat = [v \in {A[n].index : n \in DOMAIN A} |-> A[CHOOSE n \in DOMAIN A :
               A[n].index = v /\ \A m \in n + 1 .. N : A[m].index # v]]
  BY <1>1, <1>2 DEF Planner!Pattern, Planner!AllocatedValues
<1>5. ASSUME NEW n \in DOMAIN A
      PROVE  pat[A[n].index] = A[n]
  <2>1. PICK v : v = A[n].index
    OBVIOUS
  <2>2. A[n].index = v /\ \A m \in n + 1 .. N : A[m].index # v
    <3>1. \A m \in n + 1 .. N : m \in 1 .. N /\ m # n
      BY <1>3
    <3> QED BY <1>3, <2>1, <3>1
  <2>3. PICK c : c = CHOOSE k \in DOMAIN A : A[k].index = v /\ \A m \in k + 1 .. N : A[m].index # v
    OBVIOUS
  <2>4. c \in DOMAIN A /\ A[c].index = v
    BY <2>2, <2>3
  <2>5. c = n
    BY <1>3, <2>1, <2>4
  <2>6. pat[v] = A[c]
    BY <1>4, <2>1, <2>3
  <2> QED BY <2>1, <2>5, <2>6
<1>6. Replays(pat, A)
  BY <1>4, <1>5 DEF Replays
<1> QED BY <1>1, <1>6

\* GeneratePatterns at the end of a run that traced: the pattern has every
\* value the plan allocates, and values that are not apart in it are such
\* that one dies before the other is made.
LEMMA GeneratedPatternOK ==
    ASSUME NEW f, FrameOK(f, Made(Len(ExecPlan) + 1)), Tracing(f),
           NEW p, p = GeneratePatterns(f)
    PROVE  p.found = TRUE /\ PatternOK(p)
<1>1. PICK M : M = Made(Len(ExecPlan) + 1)
  OBVIOUS
<1>2. \A l \in Locations : TraceOK(f.trace[l], l, f.input, M, f.dead)
  BY <1>1 DEF FrameOK
<1>3. /\ p.found = TRUE /\ p.origin = f.input
      /\ \A l \in Locations : p.block[l] = Planner(f.trace[l])!Pattern /\ p.peak[l] = f.trace[l].peak
  BY DEF GeneratePatterns
<1>4. ASSUME NEW l \in Locations
      PROVE  /\ \A v \in DOMAIN p.block[l] : BlockOK(p, l, v)
             /\ \A v, w \in DOMAIN p.block[l] : v # w =>
                    \/ Disjoint(p.block[l][v], p.block[l][w])
                    \/ DiesBefore(v, w) \/ DiesBefore(w, v)
             /\ \A v \in M : Location[v] = l /\ AllocKind[v] = "allocate" /\ v \notin Strings =>
                    v \in DOMAIN p.block[l] /\ p.block[l][v].size = SizeOf[f.input][v]
  <2>1. PICK tr : tr = f.trace[l]
    OBVIOUS
  <2>2. PICK A : A = tr.allocs
    OBVIOUS
  <2>3. PICK pat : pat = p.block[l]
    OBVIOUS
  <2>4. TraceOK(tr, l, f.input, M, f.dead) /\ pat = Planner(tr)!Pattern /\ p.peak[l] = tr.peak
    BY <1>2, <1>3, <2>1, <2>3
  <2>5. tr \in TraceType /\ BlocksOK(tr) /\ AllocsOK(tr, l, f.input, M) /\ LiveOK(tr, f.dead)
    BY <2>4 DEF TraceOK
  <2>6. /\ DOMAIN pat = {A[n].index : n \in DOMAIN A}
        /\ \A n \in DOMAIN A : pat[A[n].index] = A[n]
    <3>1. Replays(pat, tr.allocs)
      BY <2>4, PatternOfTrace
    <3> QED BY <2>2, <3>1 DEF Replays
  <2>7. /\ tr.peak \in Nat
        /\ \A n \in DOMAIN A : n \in Nat /\ A[n].offset \in Nat /\ A[n].size \in Nat
    BY <2>2, <2>5, TraceFacts
  <2>8. ASSUME NEW v \in DOMAIN pat
        PROVE  BlockOK(p, l, v)
    <3>1. PICK n \in DOMAIN A : v = A[n].index
      BY <2>6
    <3>2. pat[v] = A[n] /\ EndOf(A[n]) <= tr.peak
      BY <2>2, <2>5, <2>6, <3>1 DEF AllocsOK
    <3> QED BY <2>3, <2>4, <2>7, <3>2 DEF BlockOK
  <2>9. ASSUME NEW v \in DOMAIN pat, NEW w \in DOMAIN pat, v # w
        PROVE  Disjoint(pat[v], pat[w]) \/ DiesBefore(v, w) \/ DiesBefore(w, v)
    <3>1. PICK m \in DOMAIN A : v = A[m].index
      BY <2>6
    <3>2. PICK n \in DOMAIN A : w = A[n].index
      BY <2>6
    <3>3. pat[v] = A[m] /\ pat[w] = A[n]
      BY <2>6, <3>1, <3>2
    <3>4. \A i, j \in DOMAIN A : i < j => Disjoint(A[i], A[j]) \/ DiesBefore(A[i].index, A[j].index)
      BY <2>2, <2>5 DEF LiveOK
    <3>5. m < n \/ n < m
      BY <2>7, <2>9, <3>1, <3>2
    <3>6. Disjoint(A[n], A[m]) => Disjoint(A[m], A[n])
      BY DEF Disjoint
    <3> QED BY <3>1, <3>2, <3>3, <3>4, <3>5, <3>6
  <2>10. ASSUME NEW v \in M, Location[v] = l /\ AllocKind[v] = "allocate" /\ v \notin Strings
         PROVE  v \in DOMAIN pat /\ pat[v].size = SizeOf[f.input][v]
    <3>1. PICK n \in DOMAIN A : A[n].index = v
      BY <2>2, <2>5, <2>10 DEF AllocsOK
    <3>2. A[n].size = SizeOf[f.input][A[n].index]
      BY <2>2, <2>5 DEF AllocsOK
    <3> QED BY <2>6, <3>1, <3>2
  <2> QED BY <2>3, <2>8, <2>9, <2>10
<1>5. \A v \in M : v \in Values
  <2> SUFFICES ASSUME NEW i \in DOMAIN ExecPlan PROVE Range(ExecPlan[i].out) \subseteq Values
    BY <1>1 DEF Made
  <2>1. ExecPlan[i].out \in Seq(Values)
    <3>1. ExecPlan[i] \in PlanNodes
      BY FrameConstants, LenProperties, ElementOfSeq
    <3> QED BY <3>1 DEF PlanNodes
  <2> QED BY <2>1, LenProperties, ElementOfSeq DEF Range
<1>6. \A v \in M : Location[v] \in Locations
  BY <1>5, FrameConstants
<1> QED BY <1>1, <1>3, <1>4, <1>6 DEF PatternOK

-----------------------------------------------------------------------------
(* The frames of all runs and the cache they share. *)

\* A frame with a pattern has one that the cache vouches for.
LEMMA PatternKnown ==
    ASSUME NEW f, NEW cache, FrameGood(f, cache), CacheGood(cache), f.pattern.found
    PROVE  f.pattern \in Range(cache) /\ PatternOK(f.pattern)
<1>1. f.pattern # NoPattern
  BY DEF NoPattern
<1> QED BY <1>1 DEF FrameGood, CacheGood

\* The cache only grows: frames keep their patterns.
LEMMA FrameStaysGood ==
    ASSUME NEW f, NEW cache, FrameGood(f, cache), NEW grown, Range(cache) \subseteq Range(grown)
    PROVE  FrameGood(f, grown)
BY DEF FrameGood

\* One frame changes, or goes, and the cache with it.
LEMMA OneFrameStep ==
    ASSUME FrameInv, NEW t \in Threads, NEW f, frame' = [frame EXCEPT ![t] = f],
           f = NoFrame \/ FrameGood(f, mem_patterns'),
           Range(mem_patterns) \subseteq Range(mem_patterns'), CacheGood(mem_patterns'),
           StartsValid'
    PROVE  FrameInv'
<1>1. frame = [u \in Threads |-> frame[u]]
  BY DEF FrameInv
<1>2. frame' = [u \in Threads |-> frame'[u]]
  BY <1>1
<1>3. ASSUME NEW u \in Threads, frame'[u] # NoFrame
      PROVE  FrameGood(frame'[u], mem_patterns')
  <2>1. CASE u = t
    BY <1>1, <1>3, <2>1
  <2>2. CASE u # t
    <3>1. frame'[u] = frame[u]
      BY <1>1, <2>2
    <3>2. FrameGood(frame[u], mem_patterns)
      BY <1>3, <3>1 DEF FrameInv, HasFrame
    <3> QED BY <3>1, <3>2, FrameStaysGood
  <2> QED BY <2>1, <2>2
<1> QED BY <1>2, <1>3 DEF FrameInv, HasFrame

\* No frame changes.
LEMMA NoFrameStep ==
    ASSUME FrameInv, UNCHANGED frame_vars, StartsValid'
    PROVE  FrameInv'
BY DEF FrameInv, frame_vars, HasFrame

\* The constructor: nothing made, nothing freed, a pattern of the cache or none.
LEMMA NewFrameKeeps ==
    ASSUME FrameInv, NEW t \in Threads, NEW in \in Inputs, NewFrame(t, in),
           mem_patterns' = mem_patterns, StartsValid'
    PROVE  FrameInv'
<1>1. PICK pat : pat = IF AllTensors[in] THEN GetMemoryPatternGroup(Shapes[in]) ELSE NoPattern
  OBVIOUS
<1>2. PICK f : f = [live |-> TRUE, input |-> in, next |-> 1, pattern |-> pat, trace |-> EmptyTrace,
                    place |-> [v \in Values |-> Unplaced], dead |-> {}, copying |-> {}]
  OBVIOUS
<1>3. frame' = [frame EXCEPT ![t] = f]
  BY <1>1, <1>2 DEF NewFrame
<1>4. pat = NoPattern \/ pat \in Range(mem_patterns)
  BY <1>1 DEF GetMemoryPatternGroup, Range
<1>5. /\ f.input = in /\ f.next = 1 /\ f.pattern = pat /\ f.trace = EmptyTrace
      /\ f.place = [v \in Values |-> Unplaced] /\ f.dead = {}
  BY <1>2
<1>6. Len(ExecPlan) \in Nat /\ \A k \in DOMAIN ExecPlan : ~(k < 1)
  BY FrameConstants, LenProperties
<1>7. Made(1) = {} /\ Freed(1) = {}
  BY <1>6 DEF Made, Freed
<1>8. \A l \in Locations : TraceOK(EmptyTrace[l], l, in, {}, {}) /\ EmptyTrace[l] \in TraceType
  <2> SUFFICES ASSUME NEW l \in Locations
               PROVE  TraceOK(EmptyTrace[l], l, in, {}, {}) /\ EmptyTrace[l] \in TraceType
    OBVIOUS
  <2>1. PICK tr : tr = EmptyTrace[l]
    OBVIOUS
  <2>2. tr = [allocs |-> <<>>, blocks |-> <<>>, peak |-> 0]
    BY <2>1 DEF EmptyTrace
  <2>3. tr \in TraceType /\ DOMAIN tr.allocs = {} /\ DOMAIN tr.blocks = {}
    BY <2>2 DEF TraceType
  <2>4. BlocksOK(tr)
    BY <2>3 DEF BlocksOK
  <2>5. AllocsOK(tr, l, in, {})
    BY <2>3 DEF AllocsOK
  <2>6. LiveOK(tr, {})
    BY <2>3 DEF LiveOK
  <2> QED BY <2>1, <2>3, <2>4, <2>5, <2>6 DEF TraceOK
<1>9. f \in FrameType({f.pattern})
  <2>1. EmptyTrace \in [Locations -> TraceType]
    BY <1>8 DEF EmptyTrace
  <2>2. [v \in Values |-> Unplaced] \in [Values -> PlaceType]
    BY DEF Unplaced, PlaceType
  <2> QED BY <1>2, <2>1, <2>2 DEF FrameType
<1>10. \A v \in Values : PlaceOK(f, v, {})
  <2>1. \A v \in Values : f.place[v].at = "none"
    BY <1>5 DEF Unplaced
  <2> QED BY <2>1 DEF PlaceOK
<1>11. FrameOK(f, {})
  BY <1>5, <1>8, <1>9, <1>10 DEF FrameOK
<1>12. FrameGood(f, mem_patterns')
  <2>1. FrameOK(f, Made(f.next)) /\ f.dead = Freed(f.next)
    BY <1>5, <1>7, <1>11
  <2>2. f.next \in 1 .. Len(ExecPlan) + 1
    BY <1>5, <1>6
  <2>3. f.pattern = NoPattern \/ f.pattern \in Range(mem_patterns')
    BY <1>4, <1>5
  <2> QED BY <2>1, <2>2, <2>3 DEF FrameGood
<1>13. CacheGood(mem_patterns')
  BY DEF FrameInv
<1> QED BY <1>3, <1>12, <1>13, OneFrameStep

\* One node of a run.
LEMMA ComputeNodeKeeps ==
    ASSUME FrameInv, NEW t \in Threads, ComputeNode(t), StartsValid'
    PROVE  FrameInv'
<1>1. PICK f : f = frame[t]
  OBVIOUS
<1>2. PICK g : g = AfterNode(f)
  OBVIOUS
<1>3. /\ FrameGood(f, mem_patterns) /\ CacheGood(mem_patterns)
      /\ frame' = [frame EXCEPT ![t] = g] /\ mem_patterns' = mem_patterns /\ f.next <= Len(ExecPlan)
  BY <1>1, <1>2 DEF FrameInv, ComputeNode, MoreNodes
<1>4. /\ FrameOK(f, Made(f.next)) /\ f.next \in 1 .. Len(ExecPlan) + 1 /\ f.dead = Freed(f.next)
      /\ f.pattern = NoPattern \/ f.pattern \in Range(mem_patterns)
  BY <1>3 DEF FrameGood
<1>5. Len(ExecPlan) \in Nat
  BY FrameConstants, LenProperties
<1>6. f.next \in 1 .. Len(ExecPlan) /\ f.next + 1 \in 1 .. Len(ExecPlan) + 1
  BY <1>3, <1>4, <1>5
<1>7. f.pattern.found => PatternOK(f.pattern)
  BY <1>3, PatternKnown
<1>8. /\ FrameOK(g, Made(f.next + 1)) /\ g.next = f.next + 1
      /\ g.dead = Freed(f.next + 1) /\ g.pattern = f.pattern
  BY <1>2, <1>4, <1>6, <1>7, NodeKeeps
<1>9. FrameGood(g, mem_patterns')
  BY <1>3, <1>4, <1>6, <1>8 DEF FrameGood
<1> QED BY <1>3, <1>9, OneFrameStep

\* The device completes a copy.
LEMMA DeviceCopiesKeeps ==
    ASSUME FrameInv, NEW t \in Threads, NEW c, DeviceCopies(t, c), StartsValid'
    PROVE  FrameInv'
<1>1. PICK f : f = frame[t]
  OBVIOUS
<1>2. PICK g : g = [f EXCEPT !.copying = f.copying \ {c}]
  OBVIOUS
<1>3. FrameGood(f, mem_patterns) /\ CacheGood(mem_patterns) /\ mem_patterns' = mem_patterns
  BY <1>1 DEF FrameInv, DeviceCopies
<1>4. f \in FrameType({f.pattern}) /\ FrameOK(f, Made(f.next))
  BY <1>3 DEF FrameGood, FrameOK
<1>5. frame' = [frame EXCEPT ![t] = g]
  <2>1. frame = [u \in Threads |-> frame[u]]
    BY DEF FrameInv
  <2>2. frame' = [frame EXCEPT ![t] = [frame[t] EXCEPT !.copying = frame[t].copying \ {c}]]
    BY <1>1, <1>4, <2>1 DEF DeviceCopies, FrameType
  <2> QED BY <1>1, <1>2, <2>2
<1>6. /\ g \in FrameType({f.pattern}) /\ g.input = f.input /\ g.trace = f.trace
      /\ g.place = f.place /\ g.dead = f.dead /\ g.next = f.next /\ g.pattern = f.pattern
  BY <1>2, <1>4 DEF FrameType
<1>7. FrameOK(g, Made(f.next))
  BY <1>4, <1>6, FrameAlike
<1>8. FrameGood(g, mem_patterns')
  BY <1>3, <1>6, <1>7 DEF FrameGood
<1> QED BY <1>3, <1>5, <1>8, OneFrameStep

\* A failed run leaves nothing.
LEMMA DropFrameKeeps ==
    ASSUME FrameInv, NEW t \in Threads, DropFrame(t), StartsValid'
    PROVE  FrameInv'
<1>1. frame' = [frame EXCEPT ![t] = NoFrame] /\ mem_patterns' = mem_patterns /\ CacheGood(mem_patterns)
  BY DEF FrameInv, DropFrame
<1> QED BY <1>1, OneFrameStep

\* A run that traced to its end leaves its pattern, unless there is one.
LEMMA FinishFrameKeeps ==
    ASSUME FrameInv, NEW t \in Threads, FinishFrame(t), StartsValid'
    PROVE  FrameInv'
<1>1. PICK f : f = frame[t]
  OBVIOUS
<1>2. /\ frame' = [frame EXCEPT ![t] = NoFrame] /\ CacheGood(mem_patterns)
      /\ FrameGood(f, mem_patterns) /\ ~(f.next <= Len(ExecPlan))
  BY <1>1 DEF FrameInv, FinishFrame, MoreNodes
<1>3. CASE ~Tracing(f)
  <2>1. mem_patterns' = mem_patterns
    BY <1>1, <1>3 DEF FinishFrame
  <2> QED BY <1>2, <2>1, OneFrameStep
<1>4. CASE Tracing(f)
  <2>1. PICK p : p = GeneratePatterns(f)
    OBVIOUS
  <2>2. PICK key : key = CalculateMemoryPatternsKey(Shapes[f.input])
    OBVIOUS
  <2>3. mem_patterns' = [k \in DOMAIN mem_patterns \cup {key} |->
                           IF k \in DOMAIN mem_patterns THEN mem_patterns[k] ELSE p]
    BY <1>1, <1>4, <2>1, <2>2 DEF FinishFrame, UpdateMemoryPatternGroupCache
  <2>4. f.next = Len(ExecPlan) + 1
    <3>1. Len(ExecPlan) \in Nat
      BY FrameConstants, LenProperties
    <3> QED BY <1>2, <3>1 DEF FrameGood
  <2>5. p.found = TRUE /\ PatternOK(p)
    BY <1>2, <1>4, <2>1, <2>4, GeneratedPatternOK DEF FrameGood
  <2>6. Range(mem_patterns) \subseteq Range(mem_patterns')
    BY <2>3 DEF Range
  <2>7. Range(mem_patterns') \subseteq Range(mem_patterns) \cup {p}
    BY <2>3 DEF Range
  <2>8. CacheGood(mem_patterns')
    BY <1>2, <2>5, <2>7 DEF CacheGood
  <2> QED BY <1>2, <2>6, <2>8, OneFrameStep
<1> QED BY <1>3, <1>4

\* Only a run whose feeds were valid gets past the check.
LEMMA StartsStayValid ==
    ASSUME SessionTypeOK, StartsValid, [Next]_vars
    PROVE  StartsValid'
<1>0. run \in [Threads -> Runs]
  BY DEF SessionTypeOK
<1>1. ASSUME NEW t \in Threads, NEW r, run' = [run EXCEPT ![t] = r],
             r.pc = "start" => r.input \in Inputs
      PROVE  StartsValid'
  BY <1>0, <1>1 DEF StartsValid
<1>2. ASSUME run' = run
      PROVE  StartsValid'
  BY <1>2 DEF StartsValid
<1>3. ASSUME NEW t \in Threads, NEW label, run' = [run EXCEPT ![t].pc = label], label # "start"
      PROVE  StartsValid'
  <2>1. run' = [run EXCEPT ![t] = [run[t] EXCEPT !.pc = label]] /\ [run[t] EXCEPT !.pc = label].pc = label
    BY <1>0, <1>3 DEF Runs
  <2> QED BY <1>1, <1>3, <2>1
<1>4. ASSUME NEW t \in Threads, Fail(t)
      PROVE  StartsValid'
  <2>1. PICK r : r = [run[t] EXCEPT !.pc = "ending", !.ok = FALSE]
    OBVIOUS
  <2>2. run' = [run EXCEPT ![t] = r] /\ r.pc = "ending"
    BY <1>0, <1>4, <2>1 DEF Fail, Runs
  <2> QED BY <1>1, <2>2
<1>5. Idle.pc = "idle"
  BY DEF Idle
<1>6. CASE Lifecycle
  BY <1>2, <1>6 DEF Lifecycle, Load, InitializeBegin, InitializeTransform, InitializePlan,
                    InitializeFails, InitializeEnd, OthersRun
<1>7. CASE SwitchProfiling
  BY <1>2, <1>7 DEF SwitchProfiling, OthersRun
<1>8. ASSUME NEW t \in Threads, NEW in \in Inputs \cup {Invalid, Empty}, RunEnter(t, in)
      PROVE  StartsValid'
  <2>1. PICK r : r = [Idle EXCEPT !.pc = IF enabled THEN "time" ELSE "check", !.input = in]
    OBVIOUS
  <2>2. run' = [run EXCEPT ![t] = r]
    BY <1>8, <2>1 DEF RunEnter
  <2>3. r.pc # "start"
    BY <2>1 DEF Idle
  <2> QED BY <1>1, <2>2, <2>3
<1>9. ASSUME NEW t \in Threads, RunStartTime(t)
      PROVE  StartsValid'
  <2>1. PICK r : r = IF enabled THEN [run[t] EXCEPT !.pc = "check"] ELSE Idle
    OBVIOUS
  <2>2. run' = [run EXCEPT ![t] = r]
    BY <1>0, <1>9, <2>1 DEF RunStartTime
  <2>3. r.pc # "start"
    BY <1>0, <1>5, <2>1 DEF Runs
  <2> QED BY <1>1, <2>2, <2>3
<1>10. ASSUME NEW t \in Threads, RunRefused(t) \/ RunReturn(t)
       PROVE  StartsValid'
  BY <1>1, <1>5, <1>10 DEF RunRefused, RunReturn
<1>11. ASSUME NEW t \in Threads, RunCheckThrows(t) \/ RunNodeFails(t) \/ RunCopyOutputsFails(t)
       PROVE  StartsValid'
  BY <1>4, <1>11 DEF RunCheckThrows, RunNodeFails, RunCopyOutputsFails
<1>12. ASSUME NEW t \in Threads, RunCounted(t)
       PROVE  StartsValid'
  <2>1. PICK r : r = [run[t] EXCEPT !.pc = "start", !.counted = TRUE]
    OBVIOUS
  <2>2. run' = [run EXCEPT ![t] = r] /\ r.input = run[t].input /\ run[t].input \in Inputs
    BY <1>0, <1>12, <2>1 DEF RunCounted, Runs
  <2> QED BY <1>1, <2>2
<1>13. ASSUME NEW t \in Threads, RunOnRunStart(t)
       PROVE  StartsValid'
  <2>1. PICK p : run' = [run EXCEPT ![t].told = @ \cup {p}] \/ Fail(t)
    BY <1>13 DEF RunOnRunStart
  <2>2. CASE run' = [run EXCEPT ![t].told = @ \cup {p}]
    <3>1. PICK r : r = [run[t] EXCEPT !.told = @ \cup {p}]
      OBVIOUS
    <3>2. run' = [run EXCEPT ![t] = r] /\ r.pc = run[t].pc /\ r.input = run[t].input
      BY <1>0, <2>2, <3>1 DEF Runs
    <3> QED BY <1>1, <3>2 DEF StartsValid
  <2> QED BY <1>4, <2>1, <2>2
<1>14. ASSUME NEW t \in Threads, RunExecute(t)
       PROVE  StartsValid'
  <2>1. PICK r : r = [run[t] EXCEPT !.pc = "execute", !.profiled = enabled]
    OBVIOUS
  <2>2. run' = [run EXCEPT ![t] = r] /\ r.pc = "execute"
    BY <1>0, <1>14, <2>1 DEF RunExecute, Runs
  <2> QED BY <1>1, <2>2
<1>15. ASSUME NEW t \in Threads, RunNode(t)
       PROVE  StartsValid'
  BY <1>2, <1>15 DEF RunNode
<1>16. ASSUME NEW t \in Threads, RunFinish(t)
       PROVE  StartsValid'
  BY <1>3, <1>16 DEF RunFinish, Goto
<1>17. ASSUME NEW t \in Threads, RunOnRunEnd(t)
       PROVE  StartsValid'
  <2>1. PICK p : run' = [run EXCEPT ![t].ended = @ \cup {p}] \/ Fail(t)
    BY <1>17 DEF RunOnRunEnd
  <2>2. CASE run' = [run EXCEPT ![t].ended = @ \cup {p}]
    <3>1. PICK r : r = [run[t] EXCEPT !.ended = @ \cup {p}]
      OBVIOUS
    <3>2. run' = [run EXCEPT ![t] = r] /\ r.pc = run[t].pc /\ r.input = run[t].input
      BY <1>0, <2>2, <3>1 DEF Runs
    <3> QED BY <1>1, <3>2 DEF StartsValid
  <2> QED BY <1>4, <2>1, <2>2
<1>18. CASE DeviceEvent \/ \E t \in Threads : DeviceCopy(t)
  BY <1>2, <1>18 DEF DeviceEvent, DeviceCopy, session_vars
<1>19. CASE UNCHANGED vars
  BY <1>2, <1>19 DEF vars, session_vars
<1> QED BY <1>6, <1>7, <1>8, <1>9, <1>10, <1>11, <1>12, <1>13, <1>14, <1>15, <1>16, <1>17, <1>18, <1>19
        DEF Next, RunStep

\* A new session has no frames and an empty cache.
LEMMA InitFrames == Init => FrameInv
<1> SUFFICES ASSUME Init PROVE FrameInv
  OBVIOUS
<1>1. frame = [t \in Threads |-> NoFrame] /\ mem_patterns = <<>> /\ run = [t \in Threads |-> Idle]
  BY DEF Init, FrameInit
<1>2. frame = [t \in Threads |-> frame[t]] /\ \A t \in Threads : ~HasFrame(t)
  BY <1>1 DEF HasFrame
<1>3. CacheGood(mem_patterns)
  BY <1>1 DEF CacheGood, Range
<1>4. StartsValid
  BY <1>1 DEF StartsValid, Idle
<1> QED BY <1>2, <1>3, <1>4 DEF FrameInv

\* Every step of a session keeps the frames and the cache in order.
LEMMA NextKeepsFrames == IInv /\ FrameInv /\ [Next]_vars => FrameInv'
<1> SUFFICES ASSUME IInv, FrameInv, [Next]_vars PROVE FrameInv'
  OBVIOUS
<1>1. StartsValid'
  BY StartsStayValid DEF IInv, FrameInv
<1>2. CASE UNCHANGED frame_vars
  BY <1>1, <1>2, NoFrameStep
<1>3. CASE Lifecycle
  BY <1>2, <1>3 DEF Lifecycle, Load, InitializeBegin, InitializeTransform, InitializePlan,
                    InitializeFails, InitializeEnd, OthersRun
<1>4. CASE SwitchProfiling
  BY <1>2, <1>4 DEF SwitchProfiling, OthersRun
<1>5. ASSUME NEW t \in Threads, NEW in \in Inputs \cup {Invalid, Empty}, RunEnter(t, in)
      PROVE  FrameInv'
  BY <1>2, <1>5 DEF RunEnter
<1>6. ASSUME NEW t \in Threads,
             \/ RunStartTime(t) \/ RunRefused(t) \/ RunCheckThrows(t) \/ RunCounted(t)
             \/ RunOnRunStart(t) \/ RunOnRunEnd(t) \/ RunReturn(t)
      PROVE  FrameInv'
  BY <1>2, <1>6 DEF RunStartTime, RunRefused, RunCheckThrows, RunCounted, RunOnRunStart,
                    RunOnRunEnd, RunReturn
<1>7. ASSUME NEW t \in Threads, RunExecute(t)
      PROVE  FrameInv'
  <2>1. NewFrame(t, run[t].input) /\ mem_patterns' = mem_patterns /\ run[t].input \in Inputs
    BY <1>7 DEF RunExecute, FrameInv, StartsValid
  <2> QED BY <1>1, <2>1, NewFrameKeeps
<1>8. ASSUME NEW t \in Threads, RunNode(t)
      PROVE  FrameInv'
  BY <1>1, <1>8, ComputeNodeKeeps DEF RunNode
<1>9. ASSUME NEW t \in Threads, RunNodeFails(t)
      PROVE  FrameInv'
  BY <1>1, <1>9, DropFrameKeeps DEF RunNodeFails
<1>10. ASSUME NEW t \in Threads, RunFinish(t) \/ RunCopyOutputsFails(t)
       PROVE  FrameInv'
  BY <1>1, <1>10, FinishFrameKeeps DEF RunFinish, RunCopyOutputsFails
<1>11. ASSUME NEW t \in Threads, DeviceCopy(t)
       PROVE  FrameInv'
  BY <1>1, <1>11, DeviceCopiesKeeps DEF DeviceCopy
<1>12. CASE DeviceEvent
  BY <1>2, <1>12 DEF DeviceEvent
<1>13. CASE UNCHANGED vars
  BY <1>2, <1>13 DEF vars
<1> QED BY <1>3, <1>4, <1>5, <1>6, <1>7, <1>8, <1>9, <1>10, <1>11, <1>12, <1>13 DEF Next, RunStep

\* The frames' invariant holds in every reachable state of a session.
THEOREM FrameInvariant == Spec => []FrameInv
BY InitFrames, NextKeepsFrames, SessionInvariant, PTL DEF Spec

\* A value that dies before one already made is dead.
LEMMA DeadByNow ==
    ASSUME NEW n, NEW v, NEW w \in Made(n), n \in Nat, DiesBefore(v, w)
    PROVE  v \in Freed(n)
<1>1. PICK i \in DOMAIN ExecPlan, j \in DOMAIN ExecPlan :
          i < j /\ v \in Range(ExecPlan[i].free) /\ w \in Range(ExecPlan[j].out)
  BY DEF DiesBefore
<1>2. PICK m \in DOMAIN ExecPlan : m < n /\ w \in Range(ExecPlan[m].out)
  BY DEF Made
<1>3. PICK x \in DOMAIN ExecPlan[j].out : w = ExecPlan[j].out[x]
  BY <1>1 DEF Range
<1>4. PICK y \in DOMAIN ExecPlan[m].out : w = ExecPlan[m].out[y]
  BY <1>2 DEF Range
<1>5. j = m
  <2>1. \A p, q \in DOMAIN ExecPlan :
           \A a \in DOMAIN ExecPlan[p].out, b \in DOMAIN ExecPlan[q].out :
               ExecPlan[p].out[a] = ExecPlan[q].out[b] => p = q
    BY FrameConstants
  <2>2. ExecPlan[j].out[x] = ExecPlan[m].out[y]
    BY <1>3, <1>4
  <2> QED BY ONLY <2>1, <2>2, j \in DOMAIN ExecPlan, m \in DOMAIN ExecPlan,
             x \in DOMAIN ExecPlan[j].out, y \in DOMAIN ExecPlan[m].out, Zenon
<1>6. i < n
  <2>1. DOMAIN ExecPlan \subseteq Nat
    BY FrameConstants, LenProperties
  <2> QED BY <1>1, <1>2, <1>5, <2>1
<1> QED BY <1>1, <1>6 DEF Freed

\* Whatever input shapes the pattern of a frame was traced with
\* (SessionState::GetMemoryPatternGroup goes by the XOR of the dimensions),
\* the values a run needs at the same time are apart in its block and within it.
THEOREM AlwaysBlocksApart == Spec => []BlocksApart
<1>1. FrameInv => BlocksApart
  <2> SUFFICES ASSUME FrameInv, NEW t \in Threads, HasFrame(t), NEW f, f = frame[t],
                      NEW v \in Values \ f.dead, InBlock(f, v)
               PROVE  /\ EndOf(f.place[v]) <= f.pattern.peak[Location[v]]
                      /\ \A w \in Values \ (f.dead \cup {v}) : InBlock(f, w) => ~Overlap(f, v, w)
    BY DEF BlocksApart
  <2>1. FrameGood(f, mem_patterns) /\ CacheGood(mem_patterns)
    BY DEF FrameInv
  <2>2. FrameOK(f, Made(f.next)) /\ f.dead = Freed(f.next) /\ f.next \in Nat
    BY <2>1 DEF FrameGood, FrameOK, FrameType
  <2>3. PICK p : p = f.pattern
    OBVIOUS
  <2>4. ASSUME NEW w \in Values, InBlock(f, w)
        PROVE  /\ w \in Made(f.next) /\ p.found /\ w \in DOMAIN p.block[Location[w]]
               /\ f.place[w].offset = p.block[Location[w]][w].offset
               /\ f.place[w].size = p.block[Location[w]][w].size
    BY <2>2, <2>3, <2>4 DEF FrameOK, PlaceOK, InBlock, BlockFits
  <2>5. v \in Values
    OBVIOUS
  <2>6. PatternOK(p)
    BY <2>1, <2>3, <2>4, <2>5, PatternKnown
  <2>7. PICK l : l = Location[v]
    OBVIOUS
  <2>8. l \in Locations
    BY <2>7, FrameConstants
  <2>9. EndOf(f.place[v]) <= p.peak[l]
    <3>1. BlockOK(p, l, v)
      BY <2>4, <2>6, <2>7, <2>8 DEF PatternOK
    <3> QED BY <2>4, <2>7, <3>1 DEF BlockOK, EndOf
  <2>10. ASSUME NEW w \in Values \ (f.dead \cup {v}), InBlock(f, w), Overlap(f, v, w)
         PROVE  FALSE
    <3>1. Location[w] = l /\ w \in Values /\ w # v /\ w \notin f.dead
      BY <2>7, <2>10 DEF Overlap
    <3>2. w \in Made(f.next) /\ v \in Made(f.next)
      BY <2>4, <2>10, <3>1
    <3>3. v \in DOMAIN p.block[l] /\ w \in DOMAIN p.block[l]
      BY <2>4, <2>7, <2>10, <3>1
    <3>4. \/ Disjoint(p.block[l][v], p.block[l][w])
          \/ DiesBefore(v, w) \/ DiesBefore(w, v)
      BY <2>6, <2>8, <3>1, <3>3 DEF PatternOK
    <3>5. ~DiesBefore(v, w) /\ ~DiesBefore(w, v)
      BY <2>2, <3>1, <3>2, DeadByNow
    <3>6. BlockOK(p, l, v) /\ BlockOK(p, l, w)
      BY <2>6, <2>8, <3>3 DEF PatternOK
    <3>7. /\ f.place[v].offset = p.block[l][v].offset /\ f.place[v].size = p.block[l][v].size
          /\ f.place[w].offset = p.block[l][w].offset /\ f.place[w].size = p.block[l][w].size
      BY <2>4, <2>7, <2>10, <3>1
    <3>8. /\ p.block[l][v].offset < p.block[l][w].offset + p.block[l][w].size
          /\ p.block[l][w].offset < p.block[l][v].offset + p.block[l][v].size
      BY <2>10, <3>7 DEF Overlap, EndOf
    <3>9. /\ p.block[l][v].offset \in Nat /\ p.block[l][v].size \in Nat
          /\ p.block[l][w].offset \in Nat /\ p.block[l][w].size \in Nat
      BY <3>6 DEF BlockOK
    <3>10. ~Disjoint(p.block[l][v], p.block[l][w])
      BY <3>8, <3>9 DEF Disjoint, EndOf
    <3> QED BY <3>4, <3>5, <3>10
  <2> QED BY <2>3, <2>7, <2>9, <2>10
<1> QED BY <1>1, FrameInvariant, PTL

\* The raw pointer a frame keeps to its pattern (execution_frame.cc:210) stays
\* valid, and a run with the input its pattern was traced with finds all it
\* allocates, but outputs and strings, in the pattern: no failed run's trace
\* gets into the cache.
THEOREM AlwaysPatternServes == Spec => []PatternServesItsInput
<1>1. FrameInv => PatternServesItsInput
  <2> SUFFICES ASSUME FrameInv, NEW t \in Threads, HasFrame(t), NEW f, f = frame[t], f.pattern.found
               PROVE  /\ f.pattern \in Range(mem_patterns)
                      /\ f.pattern.origin = f.input =>
                             \A v \in Values : f.place[v].at = "own" => AllocKind[v] = "output" \/ v \in Strings
    BY DEF PatternServesItsInput
  <2>1. FrameGood(f, mem_patterns) /\ CacheGood(mem_patterns)
    BY DEF FrameInv
  <2>2. f.pattern \in Range(mem_patterns) /\ PatternOK(f.pattern)
    BY <2>1, PatternKnown
  <2>3. ASSUME f.pattern.origin = f.input, NEW v \in Values, f.place[v].at = "own"
        PROVE  AllocKind[v] = "output" \/ v \in Strings
    <3>1. v \in Made(f.next) /\ AllocKind[v] # "reuse" /\ ~BlockFits(f, v)
      BY <2>1, <2>3 DEF FrameGood, FrameOK, PlaceOK
    <3>2. v \in Made(Len(ExecPlan) + 1)
      <4>1. f.next \in 1 .. Len(ExecPlan) + 1
        BY <2>1 DEF FrameGood
      <4>2. Len(ExecPlan) \in Nat /\ DOMAIN ExecPlan \subseteq Nat
        BY FrameConstants, LenProperties
      <4>3. \A k \in DOMAIN ExecPlan : k < f.next => k < Len(ExecPlan) + 1
        BY <4>1, <4>2
      <4> QED BY <3>1, <4>3 DEF Made
    <3>3. AllocKind[v] \in {"allocate", "output", "reuse"}
      BY FrameConstants
    <3>4. CASE AllocKind[v] = "allocate" /\ v \notin Strings
      <4>1. v \in DOMAIN f.pattern.block[Location[v]]
            /\ f.pattern.block[Location[v]][v].size = SizeOf[f.input][v]
        BY <2>2, <2>3, <3>2, <3>4 DEF PatternOK
      <4> QED BY <3>1, <3>4, <4>1 DEF BlockFits
    <3> QED BY <3>1, <3>3, <3>4
  <2> QED BY <2>2, <2>3
<1> QED BY <1>1, FrameInvariant, PTL
=============================================================================
