----------------------------- MODULE ThreadPool -----------------------------
(***************************************************************************)
(* ParallelFor, BatchParallelFor and ParallelForRange of onnxruntime/core/ *)
(* common/threadpool.cc, called by several client threads (concurrent Run  *)
(* calls share the session's pool).  A call keeps fn and a barrier on the  *)
(* client's stack; the tasks it schedules refer to both.                   *)
(*                                                                         *)
(* The queue and the barrier are Eigen's and external: a task is taken by  *)
(* any idle thread, Notify and Wait are atomic.  fn is only counted: done  *)
(* is the bag of indices it was called with.                               *)
(***************************************************************************)
EXTENDS Integers, FiniteSets, Bags

CONSTANTS
    Clients,  \* Threads that call the pool
    Threads,  \* The pool's own threads
    Calls,    \* The calls they may make
    IntMod,   \* 2^32: int arithmetic wraps there
    NoTask

\* A call is [op, first, last, batches].  ParallelFor and BatchParallelFor
\* have first = 0 and last = total; batches is 0 except for the latter.
CallType == [op : {"ParallelFor", "BatchParallelFor", "ParallelForRange"},
             first : Int, last : Int, batches : Int]

ASSUME PoolConstants ==
    /\ IntMod \in Nat \ {0}
    /\ NoTask \notin Clients \X Int
    /\ IsFiniteSet(Threads)
    /\ Calls \subseteq CallType
    /\ \A k \in Calls : k.op # "ParallelForRange" => k.first = 0

\* A precondition on the clients: a range has fewer than 2^32 iterations.  An
\* int32_t total always has; a longer int64_t range would lose its upper half
\* in the cast to the barrier's unsigned int.
ASSUME RangesFit == \A k \in Calls : k.last - k.first < IntMod

VARIABLES
    call,     \* The call of each client
    pc,       \* Where the client stands in it
    id,       \* The next iteration it has to schedule
    barrier,  \* What its barrier still waits for
    queue,    \* Scheduled tasks, <<client, iteration>>
    task,     \* The task of each pool thread
    worked,   \* Pool threads that have called fn and not yet Notify
    done      \* Indices fn was called with, for each client

vars == <<call, pc, id, barrier, queue, task, worked, done>>

-----------------------------------------------------------------------------
Total(k) == k.last - k.first

\* int arithmetic, and division that rounds towards zero.
Wrap(x) == ((x + IntMod \div 2) % IntMod) - IntMod \div 2
Quotient(x, y) == IF x >= 0 THEN x \div y ELSE - ((- x) \div y)

\* The call runs on the client's thread alone.
Inline(k) == Total(k) <= 1 \/ (k.op = "BatchParallelFor" /\ k.batches <= 1)

\* BatchParallelFor with as many batches as iterations is ParallelFor.
Batched(k) == k.op = "BatchParallelFor" /\ k.batches < Total(k)

\* The iterations of the parallel loop.
FirstIteration(k) == k.first
LastIteration(k) ==
    CASE k.op = "ParallelForRange" -> k.last
      [] Batched(k) -> k.batches - 1
      [] OTHER -> k.last - 1

\* Mutant: a batch ends where its successor begins, both included.
IndicesOverlap(k, i) ==
    IF Batched(k) THEN Quotient(Wrap(i * Total(k)), k.batches) .. Quotient(Wrap((i + 1) * Total(k)), k.batches)
                  ELSE {i}

\* The indices fn is called with in one iteration.
Indices(k, i) ==
    IF Batched(k)
    THEN Quotient(Wrap(i * Total(k)), k.batches) .. Quotient(Wrap((i + 1) * Total(k)), k.batches) - 1
    ELSE {i}

Init ==
    /\ call \in [Clients -> Calls]
    /\ pc = [c \in Clients |-> "enter"]
    /\ id = [c \in Clients |-> 0]
    /\ barrier = [c \in Clients |-> 0]
    /\ queue = {}
    /\ task = [t \in Threads |-> NoTask]
    /\ worked = {}
    /\ done = [c \in Clients |-> EmptyBag]

\* The early returns: nothing to do, one iteration, or one batch.
RunInline(c) ==
    /\ pc[c] = "enter" /\ Inline(call[c])
    /\ done' = [done EXCEPT ![c] = @ (+) SetToBag(call[c].first .. call[c].last - 1)]
    /\ pc' = [pc EXCEPT ![c] = "returned"]
    /\ UNCHANGED <<call, id, barrier, queue, task, worked>>

\* Mutant: the barrier counts one task too few.
MakeBarrierSmall(c) ==
    /\ pc[c] = "enter" /\ ~ Inline(call[c])
    /\ barrier' = [barrier EXCEPT ![c] = LastIteration(call[c]) - FirstIteration(call[c]) - 1]
    /\ id' = [id EXCEPT ![c] = FirstIteration(call[c]) + 1]
    /\ pc' = [pc EXCEPT ![c] = "schedule"]
    /\ UNCHANGED <<call, queue, task, worked, done>>

\* Mutant: the barrier counts the client's own iteration too.
MakeBarrierLarge(c) ==
    /\ pc[c] = "enter" /\ ~ Inline(call[c])
    /\ barrier' = [barrier EXCEPT ![c] = LastIteration(call[c]) - FirstIteration(call[c]) + 1]
    /\ id' = [id EXCEPT ![c] = FirstIteration(call[c]) + 1]
    /\ pc' = [pc EXCEPT ![c] = "schedule"]
    /\ UNCHANGED <<call, queue, task, worked, done>>

\* The barrier's count is cast to unsigned int.
MakeBarrier(c) ==
    /\ pc[c] = "enter" /\ ~ Inline(call[c])
    /\ barrier' = [barrier EXCEPT
          ![c] = (LastIteration(call[c]) - FirstIteration(call[c])) % IntMod]
    /\ id' = [id EXCEPT ![c] = FirstIteration(call[c]) + 1]
    /\ pc' = [pc EXCEPT ![c] = "schedule"]
    /\ UNCHANGED <<call, queue, task, worked, done>>

\* One turn of the loop over Schedule.
ScheduleTask(c) ==
    /\ pc[c] = "schedule" /\ id[c] <= LastIteration(call[c])
    /\ queue' = queue \cup {<<c, id[c]>>}
    /\ id' = [id EXCEPT ![c] = @ + 1]
    /\ UNCHANGED <<call, pc, barrier, task, worked, done>>

\* The client takes the first iteration itself.
RunFirst(c) ==
    /\ pc[c] = "schedule" /\ id[c] > LastIteration(call[c])
    /\ done' = [done EXCEPT ![c] = @ (+) SetToBag(Indices(call[c], FirstIteration(call[c])))]
    /\ pc' = [pc EXCEPT ![c] = "wait"]
    /\ UNCHANGED <<call, id, barrier, queue, task, worked>>

\* barrier.Wait() returns and the frame with fn and the barrier is left.
Wait(c) ==
    /\ pc[c] = "wait" /\ barrier[c] = 0
    /\ pc' = [pc EXCEPT ![c] = "returned"]
    /\ UNCHANGED <<call, id, barrier, queue, task, worked, done>>

TakeTask(t) ==
    /\ task[t] = NoTask
    /\ \E q \in queue : task' = [task EXCEPT ![t] = q] /\ queue' = queue \ {q}
    /\ UNCHANGED <<call, pc, id, barrier, worked, done>>

CallFn(t) ==
    /\ task[t] # NoTask /\ t \notin worked
    /\ LET c == task[t][1]
       IN  done' = [done EXCEPT ![c] = @ (+) SetToBag(Indices(call[c], task[t][2]))]
    /\ worked' = worked \cup {t}
    /\ UNCHANGED <<call, pc, id, barrier, queue, task>>

Notify(t) ==
    /\ t \in worked
    /\ barrier' = [barrier EXCEPT ![task[t][1]] = @ - 1]
    /\ task' = [task EXCEPT ![t] = NoTask]
    /\ worked' = worked \ {t}
    /\ UNCHANGED <<call, pc, id, queue, done>>

ClientStep(c) == RunInline(c) \/ MakeBarrier(c) \/ ScheduleTask(c) \/ RunFirst(c) \/ Wait(c)
ThreadStep(t) == TakeTask(t) \/ CallFn(t) \/ Notify(t)

Finished == (\A c \in Clients : pc[c] = "returned") /\ UNCHANGED vars

Next == \/ \E c \in Clients : ClientStep(c)
        \/ \E t \in Threads : ThreadStep(t)
        \/ Finished

Spec == Init /\ [][Next]_vars

\* Clients and pool threads run, and fn returns.
FairSpec == /\ Spec
            /\ \A c \in Clients : WF_vars(ClientStep(c))
            /\ \A t \in Threads : WF_vars(ThreadStep(t))

-----------------------------------------------------------------------------
(* Properties *)

\* A call that has returned leaves nothing behind that refers to its stack:
\* no task of it is queued or under way.
NothingLeftBehind ==
    \A c \in Clients : pc[c] = "returned" =>
        /\ \A q \in queue : q[1] # c
        /\ \A t \in Threads : task[t] # NoTask => task[t][1] # c

\* threadpool.h, "Schedule work in the interval [0, total)": a call returns
\* when fn has been called once with every index and with nothing else.
EachIndexOnce ==
    \A c \in Clients : pc[c] = "returned" /\ call[c].op # "ParallelForRange" =>
        done[c] = SetToBag(0 .. call[c].last - 1)

\* Every call returns, however the pool's threads are shared.
CallsReturn == \A c \in Clients : <>(pc[c] = "returned")
=============================================================================
