-------------------------- MODULE ThreadPoolProofs --------------------------
(***************************************************************************)
(* Proofs about ThreadPool, for any number of clients, pool threads and    *)
(* iterations: a barrier counts exactly the tasks of its call that are     *)
(* still to be scheduled, queued or under way, so that nothing outlives    *)
(* the call; and fn has been called exactly with the indices of the        *)
(* iterations that have run.                                               *)
(***************************************************************************)
EXTENDS ThreadPool, FiniteSetTheorems, TLAPS

Tasks == Clients \X Int

UnderWay(c) == pc[c] \in {"schedule", "wait"}
First(c) == FirstIteration(call[c])
Final(c) == LastIteration(call[c])

PoolTypeOK ==
    /\ call \in [Clients -> Calls]
    /\ pc \in [Clients -> {"enter", "schedule", "wait", "returned"}]
    /\ id \in [Clients -> Int]
    /\ barrier \in [Clients -> Int]
    /\ queue \subseteq Tasks /\ IsFiniteSet(queue)
    /\ task \in [Threads -> Tasks \cup {NoTask}]
    /\ \A t \in worked : t \in Threads /\ task[t] # NoTask
    /\ done = [c \in Clients |-> done[c]]

\* The loop of a call that is under way has scheduled what lies below id.
LoopsInRange ==
    \A c \in Clients : UnderWay(c) =>
        /\ ~Inline(call[c])
        /\ First(c) < id[c] /\ id[c] <= Final(c) + 1
        /\ pc[c] = "wait" => id[c] = Final(c) + 1

\* A task belongs to a call under way, which has scheduled it.
Known(q) == UnderWay(q[1]) /\ First(q[1]) < q[2] /\ q[2] < id[q[1]]

TasksKnown ==
    /\ \A q \in queue : Known(q)
    /\ \A t \in Threads : task[t] # NoTask => Known(task[t])

\* A task is queued, or with one thread.
TasksOnce ==
    /\ \A t \in Threads : task[t] \notin queue
    /\ \A t, u \in Threads : task[t] # NoTask /\ task[t] = task[u] => t = u

Queued(c) == {q \in queue : q[1] = c}
Taken(c) == {t \in Threads : task[t] # NoTask /\ task[t][1] = c}

BarrierExact ==
    \A c \in Clients : UnderWay(c) =>
        barrier[c] = Final(c) + 1 - id[c] + Cardinality(Queued(c)) + Cardinality(Taken(c))

\* Iterations of a call under way that fn has still to be called for.
Open(c, i) ==
    \/ i = First(c) /\ pc[c] = "schedule"
    \/ i >= id[c]
    \/ <<c, i>> \in queue
    \/ \E t \in Threads : t \notin worked /\ task[t] = <<c, i>>

Ran(c) == {i \in First(c) .. Final(c) : ~Open(c, i)}

\* The products in the bounds of the batches stay below INT_MAX.
NoOverflow(k) == Batched(k) => k.batches * Total(k) < IntMod \div 2

DoneOf(c) ==
    /\ pc[c] = "enter" => done[c] = EmptyBag
    /\ UnderWay(c) => done[c] = SetToBag(UNION {Indices(call[c], i) : i \in Ran(c)})
    /\ pc[c] = "returned" /\ call[c].op # "ParallelForRange" =>
           done[c] = SetToBag(0 .. call[c].last - 1)

DoneExact == \A c \in Clients : NoOverflow(call[c]) => DoneOf(c)

BarrierInv == PoolTypeOK /\ LoopsInRange /\ TasksKnown /\ TasksOnce /\ BarrierExact

IInv == BarrierInv /\ DoneExact

-----------------------------------------------------------------------------
(* Batches: their bounds, and how they divide the indices. *)

\* Division by a positive number.
LEMMA DivFacts ==
    ASSUME NEW x \in Nat, NEW y \in Nat \ {0}
    PROVE  x \div y \in Nat /\ y * (x \div y) <= x /\ x < y * (x \div y) + y
OBVIOUS

\* A factor can be taken away from both sides.
LEMMA Cancel ==
    ASSUME NEW x \in Int, NEW z \in Int, NEW y \in Nat \ {0}, y * x < y * z
    PROVE  x < z
OBVIOUS

\* Products with a natural number keep the order.
LEMMA ProductMonotone ==
    ASSUME NEW x \in Int, NEW z \in Int, NEW y \in Nat, x <= z
    PROVE  x * y \in Int /\ z * y \in Int /\ x * y <= z * y
OBVIOUS

\* int arithmetic is exact on what fits.
LEMMA WrapExact ==
    ASSUME NEW x \in Nat, x < IntMod \div 2
    PROVE  Wrap(x) = x
BY PoolConstants DEF Wrap

\* Where a batch begins, without wrapping: x * total / batches.
Bound(k, x) == (x * k.last) \div k.batches

\* The bounds the code computes, as long as they do not overflow.
LEMMA BatchBounds ==
    ASSUME NEW k \in Calls, Batched(k), ~Inline(k), NoOverflow(k)
    PROVE  /\ k.last \in Nat \ {0} /\ k.batches \in Nat \ {0}
           /\ FirstIteration(k) = 0 /\ LastIteration(k) = k.batches - 1
           /\ \A x \in 0 .. k.batches :
                /\ Bound(k, x) \in Nat
                /\ k.batches * Bound(k, x) <= x * k.last
                /\ x * k.last < k.batches * Bound(k, x) + k.batches
           /\ \A x \in 0 .. k.batches - 1 : Indices(k, x) = Bound(k, x) .. Bound(k, x + 1) - 1
<1>1. k \in CallType /\ k.op = "BatchParallelFor" /\ k.first = 0
  BY PoolConstants DEF Batched
<1>2. /\ k.last \in Int /\ k.batches \in Int
      /\ Total(k) = k.last
      /\ k.last > 1 /\ k.batches > 1
  BY <1>1 DEF CallType, Total, Inline
<1>3. FirstIteration(k) = 0 /\ LastIteration(k) = k.batches - 1
  BY <1>1 DEF FirstIteration, LastIteration
<1>4. PICK T \in Nat \ {0}, b \in Nat \ {0} : T = k.last /\ b = k.batches
  BY <1>2
<1>5. b * T < IntMod \div 2
  BY <1>2, <1>4 DEF NoOverflow
<1>6. ASSUME NEW x \in 0 .. b
      PROVE  /\ Bound(k, x) \in Nat
             /\ b * Bound(k, x) <= x * T /\ x * T < b * Bound(k, x) + b
             /\ Quotient(Wrap(x * T), b) = Bound(k, x)
  <2>1. PICK xT \in Nat : xT = x * T
    BY <1>4
  <2>2. xT <= b * T
    BY <2>1, ProductMonotone
  <2>3. b * T \in Nat /\ IntMod \div 2 \in Nat
    BY <1>4, PoolConstants
  <2>4. Wrap(xT) = xT
    BY <1>5, <2>2, <2>3, WrapExact
  <2>5. Bound(k, x) = xT \div b
    BY <1>4, <2>1 DEF Bound
  <2>6. Quotient(xT, b) = xT \div b
    BY <2>1 DEF Quotient
  <2> QED BY <2>1, <2>4, <2>5, <2>6, DivFacts
<1>7. ASSUME NEW x \in 0 .. b - 1
      PROVE  Indices(k, x) = Bound(k, x) .. Bound(k, x + 1) - 1
  <2>1. x \in 0 .. b /\ x + 1 \in 0 .. b
    BY <1>4
  <2>2. Quotient(Wrap(x * T), b) = Bound(k, x) /\ Quotient(Wrap((x + 1) * T), b) = Bound(k, x + 1)
    BY <1>6, <2>1
  <2>3. Indices(k, x) = Quotient(Wrap(x * T), b) .. Quotient(Wrap((x + 1) * T), b) - 1
    BY <1>2, <1>4 DEF Indices
  <2> QED BY <2>2, <2>3
<1> QED BY <1>3, <1>4, <1>6, <1>7

\* Two batches have no index in common.
LEMMA BatchesApart ==
    ASSUME NEW k \in Calls, ~Inline(k), NoOverflow(k),
           NEW i \in FirstIteration(k) .. LastIteration(k),
           NEW j \in FirstIteration(k) .. LastIteration(k), i # j
    PROVE  Indices(k, i) \cap Indices(k, j) = {}
<1>1. CASE ~Batched(k)
  BY <1>1 DEF Indices
<1>2. CASE Batched(k)
  <2>1. PICK T \in Nat \ {0}, b \in Nat \ {0} : T = k.last /\ b = k.batches
    BY <1>2, BatchBounds
  <2>2. /\ FirstIteration(k) = 0 /\ LastIteration(k) = b - 1
        /\ \A x \in 0 .. b : /\ Bound(k, x) \in Nat
                             /\ b * Bound(k, x) <= x * T /\ x * T < b * Bound(k, x) + b
        /\ \A x \in 0 .. b - 1 : Indices(k, x) = Bound(k, x) .. Bound(k, x + 1) - 1
    BY <1>2, <2>1, BatchBounds
  <2>3. ASSUME NEW x \in 0 .. b - 1, NEW y \in 0 .. b - 1, x < y
        PROVE  Bound(k, x + 1) <= Bound(k, y)
    <3>1. x + 1 \in 0 .. b /\ y \in 0 .. b /\ x + 1 <= y
      BY <2>3
    <3>2. PICK u \in Nat, v \in Nat : u = Bound(k, x + 1) /\ v = Bound(k, y)
      BY <2>2, <3>1
    <3>3. b * u <= (x + 1) * T /\ y * T < b * v + b
      BY <2>2, <3>1, <3>2
    <3>4. (x + 1) * T <= y * T /\ (x + 1) * T \in Int /\ y * T \in Int
      BY <3>1, ProductMonotone
    <3>5. b * u < b * (v + 1)
      BY <3>3, <3>4
    <3>6. u < v + 1
      BY <3>5, Cancel
    <3> QED BY <3>2, <3>6
  <2>4. i \in 0 .. b - 1 /\ j \in 0 .. b - 1 /\ (i < j \/ j < i)
    BY <2>2
  <2>5. PICK u \in Nat, v \in Nat, w \in Nat, z \in Nat :
            /\ u = Bound(k, i) /\ v = Bound(k, i + 1)
            /\ w = Bound(k, j) /\ z = Bound(k, j + 1)
    <3>1. i \in 0 .. b /\ i + 1 \in 0 .. b /\ j \in 0 .. b /\ j + 1 \in 0 .. b
      BY <2>4
    <3> QED BY <2>2, <3>1
  <2>6. Indices(k, i) = u .. v - 1 /\ Indices(k, j) = w .. z - 1
    BY <2>2, <2>4, <2>5
  <2>7. v <= w \/ z <= u
    BY <2>3, <2>4, <2>5
  <2> QED BY <2>6, <2>7
<1> QED BY <1>1, <1>2

\* Together they cover [0, total).
LEMMA BatchesCover ==
    ASSUME NEW k \in Calls, ~Inline(k), NoOverflow(k), k.op # "ParallelForRange"
    PROVE  UNION {Indices(k, i) : i \in FirstIteration(k) .. LastIteration(k)} = 0 .. k.last - 1
<1>1. CASE ~Batched(k)
  <2>1. FirstIteration(k) = 0 /\ LastIteration(k) = k.last - 1
    BY <1>1, PoolConstants DEF FirstIteration, LastIteration
  <2>2. \A i : Indices(k, i) = {i}
    BY <1>1 DEF Indices
  <2> QED BY <2>1, <2>2
<1>2. CASE Batched(k)
  <2>1. PICK T \in Nat \ {0}, b \in Nat \ {0} : T = k.last /\ b = k.batches
    BY <1>2, BatchBounds
  <2>2. /\ FirstIteration(k) = 0 /\ LastIteration(k) = b - 1
        /\ \A x \in 0 .. b : /\ Bound(k, x) \in Nat
                             /\ b * Bound(k, x) <= x * T /\ x * T < b * Bound(k, x) + b
        /\ \A x \in 0 .. b - 1 : Indices(k, x) = Bound(k, x) .. Bound(k, x + 1) - 1
    BY <1>2, <2>1, BatchBounds
  <2>3. ASSUME NEW x \in 0 .. b
        PROVE  Bound(k, x) <= T
    <3>1. PICK u \in Nat : u = Bound(k, x)
      BY <2>2
    <3>2. x * T <= b * T /\ x * T \in Int /\ b * T \in Int
      BY ProductMonotone
    <3>3. b * u <= x * T
      BY <2>2, <3>1
    <3>4. b * u < b * (T + 1)
      BY <3>2, <3>3
    <3>5. u < T + 1
      BY <3>4, Cancel
    <3> QED BY <3>1, <3>5
  <2>4. ASSUME NEW j \in 0 .. T - 1
        PROVE  \E x \in 0 .. b - 1 : Bound(k, x) <= j /\ j < Bound(k, x + 1)
    <3>1. PICK m \in Nat : m = (j + 1) * b - 1
      OBVIOUS
    <3>2. PICK x \in Nat : T * x <= m /\ m < T * x + T
      BY <3>1, DivFacts
    <3>3. x < b
      <4>1. (j + 1) * b <= T * b /\ (j + 1) * b \in Int /\ T * b \in Int
        BY ProductMonotone
      <4>2. T * x < T * b
        BY <3>1, <3>2, <4>1
      <4> QED BY <4>2, Cancel
    <3>4. x \in 0 .. b - 1 /\ x \in 0 .. b /\ x + 1 \in 0 .. b
      BY <3>3
    <3>5. PICK u \in Nat, v \in Nat : u = Bound(k, x) /\ v = Bound(k, x + 1)
      BY <2>2, <3>4
    <3>6. b * u <= x * T /\ (x + 1) * T < b * v + b
      BY <2>2, <3>4, <3>5
    <3>7. b * u < b * (j + 1)
      BY <3>1, <3>2, <3>6
    <3>8. b * (j + 1) < b * (v + 1)
      BY <3>1, <3>2, <3>6
    <3>9. u < j + 1 /\ j + 1 < v + 1
      BY <3>7, <3>8, Cancel
    <3> QED BY <3>4, <3>5, <3>9
  <2>5. ASSUME NEW j
        PROVE  j \in UNION {Indices(k, x) : x \in 0 .. b - 1} <=> j \in 0 .. T - 1
    <3>1. ASSUME NEW x \in 0 .. b - 1, j \in Indices(k, x)
          PROVE  j \in 0 .. T - 1
      <4>1. j \in Bound(k, x) .. Bound(k, x + 1) - 1
        BY <2>2, <3>1
      <4>2. x \in 0 .. b /\ x + 1 \in 0 .. b
        OBVIOUS
      <4>3. PICK u \in Nat, v \in Nat : u = Bound(k, x) /\ v = Bound(k, x + 1) /\ v <= T
        BY <2>2, <2>3, <4>2
      <4> QED BY <4>1, <4>3
    <3>2. ASSUME j \in 0 .. T - 1
          PROVE  \E x \in 0 .. b - 1 : j \in Indices(k, x)
      <4>1. PICK x \in 0 .. b - 1 : Bound(k, x) <= j /\ j < Bound(k, x + 1)
        BY <2>4, <3>2
      <4>2. x \in 0 .. b /\ x + 1 \in 0 .. b /\ j \in Int
        BY <3>2
      <4>3. PICK u \in Nat, v \in Nat : u = Bound(k, x) /\ v = Bound(k, x + 1)
        BY <2>2, <4>2
      <4>4. j \in u .. v - 1
        BY <4>1, <4>2, <4>3
      <4> QED BY <2>2, <4>3, <4>4
    <3> QED BY <3>1, <3>2
  <2> QED BY <2>1, <2>2, <2>5
<1> QED BY <1>1, <1>2

-----------------------------------------------------------------------------
(* The barrier. *)

\* Before any call the barrier invariant holds.
LEMMA PoolInit == Init => BarrierInv
<1> SUFFICES ASSUME Init PROVE BarrierInv
  OBVIOUS
<1>1. PoolTypeOK
  BY FS_EmptySet DEF Init, PoolTypeOK
<1>2. LoopsInRange /\ TasksKnown /\ TasksOnce /\ BarrierExact
  BY DEF Init, LoopsInRange, TasksKnown, TasksOnce, BarrierExact, UnderWay
<1> QED BY <1>1, <1>2 DEF BarrierInv

\* The iterations of a call are integers, and a call that is not run inline
\* has at least two, and no more than an unsigned int can count.
LEMMA IterationsInt ==
    ASSUME NEW k \in Calls
    PROVE  /\ FirstIteration(k) \in Int /\ LastIteration(k) \in Int
           /\ ~Inline(k) => FirstIteration(k) < LastIteration(k)
           /\ ~Inline(k) => LastIteration(k) - FirstIteration(k) < IntMod
<1>0. k.last - k.first < IntMod /\ IntMod \in Nat
  BY PoolConstants, RangesFit
<1>1. /\ k \in CallType
      /\ k.op # "ParallelForRange" => k.first = 0
  BY PoolConstants
<1>2. k.first \in Int /\ k.last \in Int /\ k.batches \in Int
  BY <1>1 DEF CallType
<1>3. FirstIteration(k) = k.first
  BY DEF FirstIteration
<1>4. CASE k.op = "ParallelForRange"
  <2>1. ~Batched(k)
    BY <1>4 DEF Batched
  <2>2. LastIteration(k) = k.last
    BY <1>4, <2>1 DEF LastIteration
  <2> QED BY <1>0, <1>2, <1>3, <2>2 DEF Inline, Total
<1>5. CASE k.op # "ParallelForRange" /\ Batched(k)
  <2>1. LastIteration(k) = k.batches - 1
    BY <1>5 DEF LastIteration
  <2>2. Batched(k) => k.op = "BatchParallelFor"
    BY DEF Batched
  <2> QED BY <1>0, <1>1, <1>2, <1>3, <1>5, <2>1, <2>2 DEF Inline, Total, Batched
<1>6. CASE k.op # "ParallelForRange" /\ ~Batched(k)
  <2>1. LastIteration(k) = k.last - 1
    BY <1>6 DEF LastIteration
  <2> QED BY <1>0, <1>1, <1>2, <1>3, <1>6, <2>1 DEF Inline, Total
<1> QED BY <1>4, <1>5, <1>6

\* What a task is, and how its parts are read.
LEMMA TaskParts ==
    ASSUME NEW q \in Tasks
    PROVE  q[1] \in Clients /\ q[2] \in Int /\ q = <<q[1], q[2]>> /\ q # NoTask
BY PoolConstants DEF Tasks

\* The sets the barrier counts are finite.
LEMMA CountedFinite ==
    ASSUME PoolTypeOK, NEW c \in Clients
    PROVE  /\ IsFiniteSet(Queued(c)) /\ Cardinality(Queued(c)) \in Nat
           /\ IsFiniteSet(Taken(c)) /\ Cardinality(Taken(c)) \in Nat
<1>1. Queued(c) \subseteq queue /\ Taken(c) \subseteq Threads
  BY DEF Queued, Taken
<1>2. IsFiniteSet(queue) /\ IsFiniteSet(Threads)
  BY PoolConstants DEF PoolTypeOK
<1>3. IsFiniteSet(Queued(c)) /\ IsFiniteSet(Taken(c))
  BY <1>1, <1>2, FS_Subset
<1> QED BY <1>3, FS_CardinalityType

\* Tasks stay known as long as their calls go on.
LEMMA KnownKept ==
    ASSUME PoolTypeOK, TasksKnown, TasksOnce, queue' = queue, task' = task,
           \A q \in Tasks : Known(q) => Known(q)'
    PROVE  TasksKnown' /\ TasksOnce'
<1>1. \A q \in queue : q \in Tasks
  BY DEF PoolTypeOK
<1>2. \A t \in Threads : task[t] # NoTask => task[t] \in Tasks
  BY DEF PoolTypeOK
<1>3. (\A q \in queue : Known(q))'
  BY <1>1 DEF TasksKnown
<1>4. ASSUME NEW t \in Threads, task[t] # NoTask
      PROVE  Known(task[t])'
  BY <1>2, <1>4 DEF TasksKnown, Known
<1>5. TasksOnce'
  BY DEF TasksOnce
<1> QED BY <1>3, <1>4, <1>5 DEF TasksKnown

\* Steps of a client that leave the tasks alone.
LEMMA RunInlineKeeps ==
    ASSUME BarrierInv, NEW c \in Clients, RunInline(c)
    PROVE  BarrierInv'
<1> USE DEF BarrierInv
<1>1. PoolTypeOK'
  BY DEF PoolTypeOK, RunInline
<1>2. /\ UnderWay(c)' = FALSE /\ ~UnderWay(c)
      /\ \A d \in Clients : /\ d # c => UnderWay(d)' = UnderWay(d)
                            /\ First(d)' = First(d) /\ Final(d)' = Final(d)
  BY DEF RunInline, UnderWay, First, Final, PoolTypeOK
<1>3. LoopsInRange'
  BY <1>2 DEF LoopsInRange, RunInline, PoolTypeOK
<1>4. \A q \in Tasks : Known(q) => Known(q)'
  BY <1>2, TaskParts DEF Known, RunInline
<1>5. TasksKnown' /\ TasksOnce'
  BY <1>4, KnownKept DEF RunInline
<1>6. BarrierExact'
  BY <1>2 DEF BarrierExact, RunInline, Queued, Taken
<1> QED BY <1>1, <1>3, <1>5, <1>6

\* The client's own iteration is none of the barrier's.
LEMMA RunFirstKeeps ==
    ASSUME BarrierInv, NEW c \in Clients, RunFirst(c)
    PROVE  BarrierInv'
<1> USE DEF BarrierInv
<1>1. PoolTypeOK'
  BY DEF PoolTypeOK, RunFirst
<1>2. \A d \in Clients : /\ UnderWay(d)' = UnderWay(d)
                         /\ First(d)' = First(d) /\ Final(d)' = Final(d)
  BY DEF RunFirst, UnderWay, First, Final, PoolTypeOK
<1>3. LoopsInRange'
  <2> SUFFICES ASSUME NEW d \in Clients, UnderWay(d)'
               PROVE  (/\ ~Inline(call[d])
                       /\ First(d) < id[d] /\ id[d] <= Final(d) + 1
                       /\ pc[d] = "wait" => id[d] = Final(d) + 1)'
    BY DEF LoopsInRange
  <2>1. /\ ~Inline(call[d])
        /\ First(d) < id[d] /\ id[d] <= Final(d) + 1
        /\ pc[d] = "wait" => id[d] = Final(d) + 1
    BY <1>2 DEF LoopsInRange
  <2>2. Final(d) \in Int /\ id[d] \in Int
    BY IterationsInt DEF PoolTypeOK, Final
  <2>3. d = c => id[d] > Final(d)
    BY DEF RunFirst, Final
  <2> QED BY <1>2, <2>1, <2>2, <2>3 DEF RunFirst, PoolTypeOK
<1>4. \A q \in Tasks : Known(q) => Known(q)'
  BY <1>2, TaskParts DEF Known, RunFirst
<1>5. TasksKnown' /\ TasksOnce'
  BY <1>4, KnownKept DEF RunFirst
<1>6. BarrierExact'
  BY <1>2 DEF BarrierExact, RunFirst, Queued, Taken
<1> QED BY <1>1, <1>3, <1>5, <1>6

\* The barrier counts every iteration but the client's own.
LEMMA MakeBarrierKeeps ==
    ASSUME BarrierInv, NEW c \in Clients, MakeBarrier(c)
    PROVE  BarrierInv'
<1> USE DEF BarrierInv
<1>1. First(c) \in Int /\ Final(c) \in Int /\ First(c) < Final(c)
  BY IterationsInt DEF First, Final, MakeBarrier, PoolTypeOK
<1>0. (Final(c) - First(c)) % IntMod = Final(c) - First(c)
  <2>1. Final(c) - First(c) < IntMod /\ IntMod \in Nat
    BY IterationsInt, PoolConstants DEF First, Final, MakeBarrier, PoolTypeOK
  <2> QED BY <1>1, <2>1
<1>2. PoolTypeOK'
  BY <1>0, <1>1 DEF PoolTypeOK, MakeBarrier, First, Final
<1>3. /\ ~UnderWay(c)
      /\ \A d \in Clients : /\ d # c => UnderWay(d)' = UnderWay(d)
                            /\ First(d)' = First(d) /\ Final(d)' = Final(d)
  BY DEF MakeBarrier, UnderWay, First, Final, PoolTypeOK
<1>4. pc'[c] = "schedule" /\ id'[c] = First(c) + 1 /\ barrier'[c] = Final(c) - First(c)
  BY <1>0 DEF MakeBarrier, PoolTypeOK, First, Final
<1>5. LoopsInRange'
  <2> SUFFICES ASSUME NEW d \in Clients, UnderWay(d)'
               PROVE  (/\ ~Inline(call[d])
                       /\ First(d) < id[d] /\ id[d] <= Final(d) + 1
                       /\ pc[d] = "wait" => id[d] = Final(d) + 1)'
    BY DEF LoopsInRange
  <2>1. CASE d = c
    BY <1>1, <1>3, <1>4, <2>1 DEF MakeBarrier
  <2>2. CASE d # c
    BY <1>3, <2>2 DEF LoopsInRange, MakeBarrier, PoolTypeOK
  <2> QED BY <2>1, <2>2
<1>6. \A q \in Tasks : Known(q) => Known(q)'
  BY <1>3, TaskParts DEF Known, MakeBarrier, PoolTypeOK
<1>7. TasksKnown' /\ TasksOnce'
  BY <1>6, KnownKept DEF MakeBarrier
<1>8. BarrierExact'
  <2> SUFFICES ASSUME NEW d \in Clients, UnderWay(d)'
               PROVE  (barrier[d] = Final(d) + 1 - id[d] + Cardinality(Queued(d))
                                    + Cardinality(Taken(d)))'
    BY DEF BarrierExact
  <2>1. Queued(d)' = Queued(d) /\ Taken(d)' = Taken(d)
    BY DEF Queued, Taken, MakeBarrier
  <2>2. CASE d = c
    <3>1. Queued(c) = {}
      BY <1>3 DEF Queued, TasksKnown, Known
    <3>2. Taken(c) = {}
      BY <1>3 DEF Taken, TasksKnown, Known
    <3>3. Cardinality(Queued(c)) = 0 /\ Cardinality(Taken(c)) = 0
      BY <3>1, <3>2, FS_EmptySet
    <3> QED BY <1>1, <1>3, <1>4, <2>1, <2>2, <3>3
  <2>3. CASE d # c
    BY <1>3, <2>1, <2>3 DEF BarrierExact, MakeBarrier, PoolTypeOK
  <2> QED BY <2>2, <2>3
<1> QED BY <1>2, <1>5, <1>7, <1>8

\* barrier.Wait() returns when nothing is scheduled or under way any more.
LEMMA WaitIsLast ==
    ASSUME BarrierInv, NEW c \in Clients, Wait(c)
    PROVE  Queued(c) = {} /\ Taken(c) = {} /\ id[c] = Final(c) + 1
<1> USE DEF BarrierInv
<1>1. UnderWay(c) /\ pc[c] = "wait" /\ barrier[c] = 0
  BY DEF Wait, UnderWay
<1>2. id[c] = Final(c) + 1 /\ Final(c) \in Int
  BY <1>1, IterationsInt DEF LoopsInRange, Final, PoolTypeOK
<1>3. Cardinality(Queued(c)) = 0 /\ Cardinality(Taken(c)) = 0
  BY <1>1, <1>2, CountedFinite DEF BarrierExact
<1> QED BY <1>2, <1>3, CountedFinite, FS_EmptySet

\* A call that returns takes no task with it.
LEMMA WaitKeeps ==
    ASSUME BarrierInv, NEW c \in Clients, Wait(c)
    PROVE  BarrierInv'
<1> USE DEF BarrierInv
<1>1. PoolTypeOK'
  BY DEF PoolTypeOK, Wait
<1>2. \A d \in Clients : /\ UnderWay(d)' => UnderWay(d) /\ pc'[d] = pc[d]
                         /\ d # c => UnderWay(d)' = UnderWay(d)
                         /\ First(d)' = First(d) /\ Final(d)' = Final(d)
  BY DEF Wait, UnderWay, First, Final, PoolTypeOK
<1>3. LoopsInRange'
  BY <1>2 DEF LoopsInRange, Wait, PoolTypeOK
<1>4. \A q \in queue : q \in Tasks /\ q[1] # c
  BY WaitIsLast DEF Queued, PoolTypeOK
<1>5. \A t \in Threads : task[t] # NoTask => task[t] \in Tasks /\ task[t][1] # c
  BY WaitIsLast DEF Taken, PoolTypeOK
<1>6. \A q \in Tasks : Known(q) /\ q[1] # c => Known(q)'
  BY <1>2, TaskParts DEF Known, Wait
<1>7. (\A q \in queue : Known(q))'
  BY <1>4, <1>6 DEF TasksKnown, Wait
<1>8. ASSUME NEW t \in Threads, task[t] # NoTask
      PROVE  Known(task[t])'
  BY <1>5, <1>6, <1>8 DEF TasksKnown, Known, Wait
<1>9. TasksKnown' /\ TasksOnce'
  BY <1>7, <1>8 DEF TasksKnown, TasksOnce, Wait
<1>10. BarrierExact'
  BY <1>2 DEF BarrierExact, Wait, Queued, Taken
<1> QED BY <1>1, <1>3, <1>9, <1>10

\* A scheduled iteration is counted as queued, and no longer as to come.
LEMMA ScheduleTaskKeeps ==
    ASSUME BarrierInv, NEW c \in Clients, ScheduleTask(c)
    PROVE  BarrierInv'
<1> USE DEF BarrierInv
<1>0. PICK new : new = <<c, id[c]>>
  OBVIOUS
<1>1. /\ new \in Tasks /\ id[c] \in Int /\ id'[c] = id[c] + 1
      /\ Final(c) \in Int /\ First(c) \in Int /\ id[c] <= Final(c)
  BY <1>0, IterationsInt DEF PoolTypeOK, ScheduleTask, Tasks, First, Final
<1>2. ~Known(new)
  BY <1>0, <1>1 DEF Known
<1>3. new \notin queue /\ \A t \in Threads : task[t] # new
  <2>1. new # NoTask
    BY <1>1, TaskParts
  <2> QED BY <1>2, <2>1 DEF TasksKnown
<1>4. PoolTypeOK'
  <2>1. queue' = queue \cup {new}
    BY <1>0 DEF ScheduleTask
  <2>2. queue' \subseteq Tasks /\ IsFiniteSet(queue')
    BY <1>1, <2>1, FS_AddElement DEF PoolTypeOK
  <2>3. id' \in [Clients -> Int]
    BY <1>1 DEF PoolTypeOK, ScheduleTask
  <2> QED BY <2>2, <2>3 DEF PoolTypeOK, ScheduleTask
<1>5. /\ UnderWay(c)
      /\ \A d \in Clients : /\ UnderWay(d)' = UnderWay(d) /\ pc'[d] = pc[d]
                            /\ d # c => id'[d] = id[d]
                            /\ First(d)' = First(d) /\ Final(d)' = Final(d)
  BY DEF ScheduleTask, UnderWay, First, Final, PoolTypeOK
<1>6. LoopsInRange'
  <2> SUFFICES ASSUME NEW d \in Clients, UnderWay(d)'
               PROVE  (/\ ~Inline(call[d])
                       /\ First(d) < id[d] /\ id[d] <= Final(d) + 1
                       /\ pc[d] = "wait" => id[d] = Final(d) + 1)'
    BY DEF LoopsInRange
  <2>1. /\ ~Inline(call[d])
        /\ First(d) < id[d] /\ id[d] <= Final(d) + 1
        /\ pc[d] = "wait" => id[d] = Final(d) + 1
    BY <1>5 DEF LoopsInRange
  <2>2. CASE d = c
    BY <1>1, <1>5, <2>1, <2>2 DEF ScheduleTask
  <2>3. CASE d # c
    BY <1>5, <2>1, <2>3 DEF ScheduleTask
  <2> QED BY <2>2, <2>3
<1>7. \A q \in Tasks : Known(q) => Known(q)'
  <2> SUFFICES ASSUME NEW q \in Tasks, Known(q) PROVE Known(q)'
    OBVIOUS
  <2>1. q[1] \in Clients /\ q[2] \in Int
    BY TaskParts
  <2>2. CASE q[1] = c
    BY <1>1, <1>5, <2>1, <2>2 DEF Known
  <2>3. CASE q[1] # c
    BY <1>5, <2>1, <2>3 DEF Known
  <2> QED BY <2>2, <2>3
<1>8. Known(new)'
  <2>1. First(c) < id[c]
    BY <1>5 DEF LoopsInRange
  <2>2. new[1] = c /\ new[2] = id[c]
    BY <1>0
  <2>3. UnderWay(c)' /\ First(c)' < id[c] /\ id[c] < id'[c]
    BY <1>1, <1>5, <2>1
  <2> QED BY <2>2, <2>3 DEF Known, ScheduleTask
<1>9. TasksKnown'
  <2>1. ASSUME NEW q \in queue' PROVE Known(q)'
    <3>1. q \in queue \/ q = new
      BY <1>0 DEF ScheduleTask
    <3>2. q \in queue => q \in Tasks
      BY DEF PoolTypeOK
    <3>3. CASE q \in queue
      BY <1>7, <3>2, <3>3 DEF TasksKnown
    <3>4. CASE q = new
      BY <1>8, <3>4
    <3> QED BY <3>1, <3>3, <3>4
  <2>2. ASSUME NEW t \in Threads, task'[t] # NoTask PROVE Known(task[t])'
    <3>1. task'[t] = task[t] /\ task[t] \in Tasks
      BY <2>2 DEF ScheduleTask, PoolTypeOK
    <3>2. Known(task[t])
      BY <2>2, <3>1 DEF TasksKnown
    <3> QED BY <1>7, <3>1, <3>2 DEF Known
  <2> QED BY <2>1, <2>2 DEF TasksKnown
<1>10. TasksOnce'
  BY <1>0, <1>3 DEF TasksOnce, ScheduleTask
<1>11. BarrierExact'
  <2> SUFFICES ASSUME NEW d \in Clients, UnderWay(d)'
               PROVE  (barrier[d] = Final(d) + 1 - id[d] + Cardinality(Queued(d))
                                    + Cardinality(Taken(d)))'
    BY DEF BarrierExact
  <2>1. Taken(d)' = Taken(d) /\ barrier' = barrier
    BY DEF Taken, ScheduleTask
  <2>2. barrier[d] = Final(d) + 1 - id[d] + Cardinality(Queued(d)) + Cardinality(Taken(d))
    BY <1>5 DEF BarrierExact
  <2>3. CASE d = c
    <3>1. Queued(c)' = Queued(c) \cup {new} /\ new \notin Queued(c)
      BY <1>0, <1>3 DEF Queued, ScheduleTask
    <3>2. Cardinality(Queued(c)') = Cardinality(Queued(c)) + 1
      BY <3>1, CountedFinite, FS_AddElement
    <3> QED BY <1>1, <1>5, <2>1, <2>2, <2>3, <3>2, CountedFinite
  <2>4. CASE d # c
    <3>1. Queued(d)' = Queued(d)
      BY <1>0, <2>4 DEF Queued, ScheduleTask
    <3> QED BY <1>5, <2>1, <2>2, <2>4, <3>1
  <2> QED BY <2>3, <2>4
<1> QED BY <1>4, <1>6, <1>9, <1>10, <1>11

\* A task that is taken moves from the queue to one thread.
LEMMA TakeTaskKeeps ==
    ASSUME BarrierInv, NEW t \in Threads, TakeTask(t)
    PROVE  BarrierInv'
<1> USE DEF BarrierInv
<1>1. PICK q \in queue : task' = [task EXCEPT ![t] = q] /\ queue' = queue \ {q}
  BY DEF TakeTask
<1>2. /\ q \in Tasks /\ q # NoTask /\ Known(q) /\ q[1] \in Clients
      /\ task[t] = NoTask /\ task'[t] = q
      /\ \A u \in Threads : u # t => task'[u] = task[u]
  BY <1>1, TaskParts DEF PoolTypeOK, TasksKnown, TakeTask
<1>3. PoolTypeOK'
  <2>1. IsFiniteSet(queue')
    BY <1>1, FS_RemoveElement DEF PoolTypeOK
  <2> QED BY <1>1, <1>2, <2>1 DEF PoolTypeOK, TakeTask
<1>4. /\ \A d \in Clients : /\ UnderWay(d)' = UnderWay(d)
                            /\ First(d)' = First(d) /\ Final(d)' = Final(d)
      /\ call' = call /\ pc' = pc /\ id' = id /\ barrier' = barrier
  BY DEF TakeTask, UnderWay, First, Final
<1>5. LoopsInRange'
  BY <1>4 DEF LoopsInRange
<1>6. \A r \in Tasks : Known(r) => Known(r)'
  BY <1>4, TaskParts DEF Known
<1>7. TasksKnown'
  <2>1. \A r \in queue' : Known(r)'
    BY <1>1, <1>6 DEF TasksKnown, PoolTypeOK
  <2>2. ASSUME NEW u \in Threads, task'[u] # NoTask PROVE Known(task[u])'
    <3>1. task'[u] \in Tasks /\ Known(task'[u])
      BY <1>2, <2>2 DEF TasksKnown, PoolTypeOK
    <3> QED BY <1>6, <3>1 DEF Known
  <2> QED BY <2>1, <2>2 DEF TasksKnown
<1>8. TasksOnce'
  BY <1>1, <1>2 DEF TasksOnce
<1>9. BarrierExact'
  <2> SUFFICES ASSUME NEW d \in Clients, UnderWay(d)'
               PROVE  (barrier[d] = Final(d) + 1 - id[d] + Cardinality(Queued(d))
                                    + Cardinality(Taken(d)))'
    BY DEF BarrierExact
  <2>2. barrier[d] = Final(d) + 1 - id[d] + Cardinality(Queued(d)) + Cardinality(Taken(d))
    BY <1>4 DEF BarrierExact
  <2>3. CASE d = q[1]
    <3>1. Queued(d)' = Queued(d) \ {q} /\ q \in Queued(d)
      BY <1>1, <2>3 DEF Queued
    <3>2. Taken(d)' = Taken(d) \cup {t} /\ t \notin Taken(d)
      BY <1>2, <2>3 DEF Taken
    <3>3. Cardinality(Queued(d)') = Cardinality(Queued(d)) - 1
      BY <3>1, CountedFinite, FS_RemoveElement
    <3>4. Cardinality(Taken(d)') = Cardinality(Taken(d)) + 1
      BY <3>2, CountedFinite, FS_AddElement
    <3>5. Final(d) \in Int /\ id[d] \in Int
      BY IterationsInt DEF Final, PoolTypeOK
    <3> QED BY <1>4, <2>2, <3>3, <3>4, <3>5, CountedFinite
  <2>4. CASE d # q[1]
    <3>1. Queued(d)' = Queued(d)
      BY <1>1, <2>4 DEF Queued
    <3>2. Taken(d)' = Taken(d)
      BY <1>2, <2>4 DEF Taken
    <3> QED BY <1>4, <2>2, <3>1, <3>2
  <2> QED BY <2>3, <2>4
<1> QED BY <1>3, <1>5, <1>7, <1>8, <1>9

\* A task that has called fn is still counted: Notify is to come.
LEMMA CallFnKeeps ==
    ASSUME BarrierInv, NEW t \in Threads, CallFn(t)
    PROVE  BarrierInv'
<1> USE DEF BarrierInv
<1>1. PoolTypeOK'
  BY DEF PoolTypeOK, CallFn
<1>2. /\ \A d \in Clients : /\ UnderWay(d)' = UnderWay(d)
                            /\ First(d)' = First(d) /\ Final(d)' = Final(d)
      /\ call' = call /\ pc' = pc /\ id' = id /\ barrier' = barrier
      /\ queue' = queue /\ task' = task
  BY DEF CallFn, UnderWay, First, Final
<1>3. LoopsInRange'
  BY <1>2 DEF LoopsInRange
<1>4. \A r \in Tasks : Known(r) => Known(r)'
  BY <1>2, TaskParts DEF Known
<1>5. TasksKnown' /\ TasksOnce'
  BY <1>2, <1>4, KnownKept
<1>6. BarrierExact'
  BY <1>2 DEF BarrierExact, Queued, Taken
<1> QED BY <1>1, <1>3, <1>5, <1>6

\* Notify takes one task and one count away.
LEMMA NotifyKeeps ==
    ASSUME BarrierInv, NEW t \in Threads, Notify(t)
    PROVE  BarrierInv'
<1> USE DEF BarrierInv
<1> DEFINE c == task[t][1]
<1>1. /\ task[t] \in Tasks /\ task[t] # NoTask /\ c \in Clients
      /\ Known(task[t]) /\ UnderWay(c)
      /\ task'[t] = NoTask /\ \A u \in Threads : u # t => task'[u] = task[u]
  BY TaskParts DEF PoolTypeOK, TasksKnown, Known, Notify
<1>2. /\ \A d \in Clients : /\ UnderWay(d)' = UnderWay(d)
                            /\ First(d)' = First(d) /\ Final(d)' = Final(d)
      /\ call' = call /\ pc' = pc /\ id' = id /\ queue' = queue
      /\ barrier'[c] = barrier[c] - 1
      /\ \A d \in Clients : d # c => barrier'[d] = barrier[d]
  BY <1>1 DEF Notify, UnderWay, First, Final, PoolTypeOK
<1>3. PoolTypeOK'
  <2>1. barrier' \in [Clients -> Int]
    BY <1>1 DEF PoolTypeOK, Notify
  <2>2. \A u \in worked' : u \in Threads /\ task'[u] # NoTask
    BY <1>1 DEF PoolTypeOK, Notify
  <2> QED BY <1>2, <2>1, <2>2 DEF PoolTypeOK, Notify
<1>4. LoopsInRange'
  BY <1>2 DEF LoopsInRange
<1>5. \A r \in Tasks : Known(r) => Known(r)'
  BY <1>2, TaskParts DEF Known
<1>6. TasksKnown'
  <2>1. \A r \in queue' : Known(r)'
    BY <1>2, <1>5 DEF TasksKnown, PoolTypeOK
  <2>2. ASSUME NEW u \in Threads, task'[u] # NoTask PROVE Known(task[u])'
    <3>1. task'[u] \in Tasks /\ Known(task'[u])
      BY <1>1, <2>2 DEF TasksKnown, PoolTypeOK
    <3> QED BY <1>5, <3>1 DEF Known
  <2> QED BY <2>1, <2>2 DEF TasksKnown
<1>7. TasksOnce'
  <2>1. NoTask \notin queue
    BY TaskParts DEF PoolTypeOK
  <2> QED BY <1>1, <1>2, <2>1 DEF TasksOnce
<1>8. BarrierExact'
  <2> SUFFICES ASSUME NEW d \in Clients, UnderWay(d)'
               PROVE  (barrier[d] = Final(d) + 1 - id[d] + Cardinality(Queued(d))
                                    + Cardinality(Taken(d)))'
    BY DEF BarrierExact
  <2>1. barrier[d] = Final(d) + 1 - id[d] + Cardinality(Queued(d)) + Cardinality(Taken(d))
    BY <1>2 DEF BarrierExact
  <2>2. Queued(d)' = Queued(d)
    BY <1>2 DEF Queued
  <2>3. CASE d = c
    <3>1. Taken(d)' = Taken(d) \ {t} /\ t \in Taken(d)
      BY <1>1, <2>3 DEF Taken
    <3>2. Cardinality(Taken(d)') = Cardinality(Taken(d)) - 1
      BY <3>1, CountedFinite, FS_RemoveElement
    <3>3. Final(d) \in Int /\ id[d] \in Int
      BY IterationsInt DEF Final, PoolTypeOK
    <3> QED BY <1>2, <2>1, <2>2, <2>3, <3>2, <3>3, CountedFinite
  <2>4. CASE d # c
    <3>1. Taken(d)' = Taken(d)
      BY <1>1, <2>4 DEF Taken
    <3> QED BY <1>2, <2>1, <2>2, <2>4, <3>1
  <2> QED BY <2>3, <2>4
<1> QED BY <1>3, <1>4, <1>6, <1>7, <1>8

\* Every step keeps the barrier exact.
LEMMA BarrierInductive == BarrierInv /\ [Next]_vars => BarrierInv'
<1> SUFFICES ASSUME BarrierInv, [Next]_vars PROVE BarrierInv'
  OBVIOUS
<1>1. ASSUME NEW c \in Clients, ClientStep(c) PROVE BarrierInv'
  BY <1>1, RunInlineKeeps, MakeBarrierKeeps, ScheduleTaskKeeps, RunFirstKeeps, WaitKeeps
     DEF ClientStep
<1>2. ASSUME NEW t \in Threads, ThreadStep(t) PROVE BarrierInv'
  BY <1>2, TakeTaskKeeps, CallFnKeeps, NotifyKeeps DEF ThreadStep
<1>3. CASE UNCHANGED vars
  BY <1>3 DEF vars, BarrierInv, PoolTypeOK, LoopsInRange, TasksKnown, TasksOnce, BarrierExact,
              Known, UnderWay, First, Final, Queued, Taken
<1> QED BY <1>1, <1>2, <1>3 DEF Next, Finished

\* A call's barrier (threadpool.cc:46, 99) is at all times the number of its
\* tasks still to be scheduled, queued, or under way before their Notify.
THEOREM BarrierHolds == Spec => []BarrierInv
BY PoolInit, BarrierInductive, PTL DEF Spec

\* When ParallelFor or ParallelForRange returns, no task that refers to its
\* fn and barrier is queued or under way, for any number of clients, threads
\* and iterations (fewer than 2^32 to a call).
THEOREM AlwaysNothingLeftBehind == Spec => []NothingLeftBehind
<1>1. BarrierInv => NothingLeftBehind
  BY TaskParts DEF BarrierInv, NothingLeftBehind, TasksKnown, Known, UnderWay
<1> QED BY <1>1, BarrierHolds, PTL

-----------------------------------------------------------------------------
(* The indices. *)

\* Calls of fn with different indices add up.
LEMMA BagOfUnion ==
    ASSUME NEW S, NEW T, S \cap T = {}
    PROVE  SetToBag(S) (+) SetToBag(T) = SetToBag(S \cup T)
<1>1. DOMAIN SetToBag(S) = S /\ DOMAIN SetToBag(T) = T /\ DOMAIN SetToBag(S \cup T) = S \cup T
  BY DEF SetToBag
<1> QED BY <1>1 DEF SetToBag, (+)

\* fn has not been called.
LEMMA BagOfNone == EmptyBag = SetToBag({})
BY DEF EmptyBag

\* Before a call fn has not been called for it.
LEMMA DoneInit == Init => DoneExact
BY DEF Init, DoneExact, DoneOf, UnderWay

\* A client that a step does not concern.
LEMMA DoneSame ==
    ASSUME NEW d \in Clients, DoneOf(d), call'[d] = call[d], pc'[d] = pc[d],
           done'[d] = done[d], UnderWay(d) => Ran(d)' = Ran(d)
    PROVE  DoneOf(d)'
BY DEF DoneOf, UnderWay

\* What has run depends on what is still open.
LEMMA RanSame ==
    ASSUME NEW d \in Clients, call'[d] = call[d],
           \A i \in First(d) .. Final(d) : Open(d, i)' <=> Open(d, i)
    PROVE  Ran(d)' = Ran(d)
BY DEF Ran, First, Final

\* fn is called for one more iteration.
LEMMA DoneAdded ==
    ASSUME NEW c \in Clients, BarrierInv, NoOverflow(call[c]), DoneOf(c), call'[c] = call[c],
           UnderWay(c), UnderWay(c)', NEW i \in First(c) .. Final(c), i \notin Ran(c),
           Ran(c)' = Ran(c) \cup {i},
           done'[c] = done[c] (+) SetToBag(Indices(call[c], i))
    PROVE  DoneOf(c)'
<1>1. PICK k \in Calls : k = call[c]
  BY DEF BarrierInv, PoolTypeOK
<1>2. ~Inline(k)
  BY <1>1 DEF BarrierInv, LoopsInRange
<1>3. PICK S : S = UNION {Indices(k, j) : j \in Ran(c)}
  OBVIOUS
<1>4. \A j \in Ran(c) : j \in First(c) .. Final(c) /\ j # i
  BY DEF Ran
<1>5. \A j \in Ran(c) : Indices(k, j) \cap Indices(k, i) = {}
  BY <1>1, <1>2, <1>4, BatchesApart DEF First, Final
<1>6. S \cap Indices(k, i) = {}
  BY <1>3, <1>5
<1>7. S \cup Indices(k, i) = UNION {Indices(k, j) : j \in Ran(c) \cup {i}}
  BY <1>3
<1>8. done[c] = SetToBag(S)
  BY <1>1, <1>3 DEF DoneOf
<1>9. done'[c] = SetToBag(S \cup Indices(k, i))
  BY <1>1, <1>6, <1>8, BagOfUnion
<1>10. done'[c] = SetToBag(UNION {Indices(call'[c], j) : j \in Ran(c)'})
  BY <1>1, <1>7, <1>9
<1> QED BY <1>10 DEF DoneOf, UnderWay

\* Steps of a client: the other clients, and what is open for them.
LEMMA OthersSame ==
    ASSUME NEW c \in Clients, NEW d \in Clients, d # c, DoneOf(d), call' = call,
           pc'[d] = pc[d], done'[d] = done[d], id'[d] = id[d], task' = task, worked' = worked,
           \A i : <<d, i>> \in queue' <=> <<d, i>> \in queue
    PROVE  DoneOf(d)'
<1>1. First(d)' = First(d) /\ Final(d)' = Final(d)
  BY DEF First, Final
<1>2. \A i \in First(d) .. Final(d) : Open(d, i)' <=> Open(d, i)
  BY <1>1 DEF Open
<1>3. Ran(d)' = Ran(d)
  BY <1>2, RanSame
<1> QED BY <1>3, DoneSame

\* The early returns call fn with the whole interval.
LEMMA DoneRunInline ==
    ASSUME IInv, NEW c \in Clients, RunInline(c)
    PROVE  DoneExact'
<1> SUFFICES ASSUME NEW d \in Clients, NoOverflow(call[d])' PROVE DoneOf(d)'
  BY DEF DoneExact
<1> USE DEF IInv, BarrierInv
<1>1. call' = call /\ DoneOf(d)
  BY DEF RunInline, DoneExact, NoOverflow
<1>2. CASE d # c
  BY <1>1, <1>2, OthersSame DEF RunInline, PoolTypeOK
<1>3. CASE d = c
  <2>1. done'[c] = done[c] (+) SetToBag(call[c].first .. call[c].last - 1) /\ pc'[c] = "returned"
    BY DEF RunInline, PoolTypeOK
  <2>2. done[c] = SetToBag({})
    BY <1>1, <1>3, BagOfNone DEF DoneOf, RunInline
  <2>3. done'[c] = SetToBag({} \cup (call[c].first .. call[c].last - 1))
    BY <2>1, <2>2, BagOfUnion
  <2>4. call[c].op # "ParallelForRange" => call[c].first = 0
    BY PoolConstants DEF PoolTypeOK
  <2> QED BY <1>1, <1>3, <2>1, <2>3, <2>4 DEF DoneOf, UnderWay
<1> QED BY <1>2, <1>3

\* At the start of the loop every iteration is open.
LEMMA DoneMakeBarrier ==
    ASSUME IInv, NEW c \in Clients, MakeBarrier(c)
    PROVE  DoneExact'
<1> SUFFICES ASSUME NEW d \in Clients, NoOverflow(call[d])' PROVE DoneOf(d)'
  BY DEF DoneExact
<1> USE DEF IInv, BarrierInv
<1>1. call' = call /\ DoneOf(d)
  BY DEF MakeBarrier, DoneExact, NoOverflow
<1>2. CASE d # c
  BY <1>1, <1>2, OthersSame DEF MakeBarrier, PoolTypeOK
<1>3. CASE d = c
  <2>1. pc'[c] = "schedule" /\ id'[c] = First(c) + 1 /\ done' = done
    BY DEF MakeBarrier, PoolTypeOK, First
  <2>2. First(c)' = First(c) /\ First(c) \in Int /\ Final(c) \in Int /\ Final(c)' = Final(c)
    BY <1>1, IterationsInt DEF First, Final, PoolTypeOK
  <2>3. \A i \in First(c) .. Final(c) : Open(c, i)'
    BY <2>1, <2>2 DEF Open
  <2>4. Ran(c)' = {}
    BY <2>2, <2>3 DEF Ran
  <2>5. done[c] = SetToBag({})
    BY <1>1, <1>3, BagOfNone DEF DoneOf, MakeBarrier
  <2>6. UNION {Indices(call'[c], i) : i \in Ran(c)'} = {}
    BY <2>4
  <2> QED BY <1>3, <2>1, <2>5, <2>6 DEF DoneOf
<1> QED BY <1>2, <1>3

\* An iteration that is scheduled stays open.
LEMMA DoneScheduleTask ==
    ASSUME IInv, NEW c \in Clients, ScheduleTask(c)
    PROVE  DoneExact'
<1> SUFFICES ASSUME NEW d \in Clients, NoOverflow(call[d])' PROVE DoneOf(d)'
  BY DEF DoneExact
<1> USE DEF IInv, BarrierInv
<1>1. call' = call /\ DoneOf(d)
  BY DEF ScheduleTask, DoneExact, NoOverflow
<1>2. CASE d # c
  <2>1. \A i : <<d, i>> \in queue' <=> <<d, i>> \in queue
    BY <1>2 DEF ScheduleTask
  <2> QED BY <1>1, <1>2, <2>1, OthersSame DEF ScheduleTask, PoolTypeOK
<1>3. CASE d = c
  <2>1. First(c)' = First(c) /\ Final(c)' = Final(c) /\ id[c] \in Int /\ id'[c] = id[c] + 1
    BY <1>1 DEF First, Final, ScheduleTask, PoolTypeOK
  <2>2. \A i \in First(c) .. Final(c) : Open(c, i)' <=> Open(c, i)
    <3> SUFFICES ASSUME NEW i \in First(c) .. Final(c) PROVE Open(c, i)' <=> Open(c, i)
      OBVIOUS
    <3>1. (i \in Int) /\ (i >= id[c] <=> i >= id'[c] \/ i = id[c])
      BY <2>1, IterationsInt DEF First, Final, PoolTypeOK
    <3>2. <<c, i>> \in queue' <=> <<c, i>> \in queue \/ i = id[c]
      BY DEF ScheduleTask
    <3> QED BY <2>1, <3>1, <3>2 DEF Open, ScheduleTask
  <2>3. Ran(c)' = Ran(c)
    BY <1>1, <2>2, RanSame
  <2> QED BY <1>1, <1>3, <2>3, DoneSame DEF ScheduleTask
<1> QED BY <1>2, <1>3

\* The client's own iteration is the first one, which is never scheduled.
LEMMA DoneRunFirst ==
    ASSUME IInv, NEW c \in Clients, RunFirst(c)
    PROVE  DoneExact'
<1> SUFFICES ASSUME NEW d \in Clients, NoOverflow(call[d])' PROVE DoneOf(d)'
  BY DEF DoneExact
<1> USE DEF IInv, BarrierInv
<1>1. call' = call /\ DoneOf(d) /\ NoOverflow(call[d])
  BY DEF RunFirst, DoneExact, NoOverflow
<1>2. CASE d # c
  BY <1>1, <1>2, OthersSame DEF RunFirst, PoolTypeOK
<1>3. CASE d = c
  <2>1. /\ pc[c] = "schedule" /\ pc'[c] = "wait" /\ UnderWay(c) /\ UnderWay(c)'
        /\ id' = id /\ queue' = queue /\ task' = task /\ worked' = worked
        /\ First(c)' = First(c) /\ Final(c)' = Final(c)
        /\ done'[c] = done[c] (+) SetToBag(Indices(call[c], First(c)))
    BY <1>1 DEF RunFirst, PoolTypeOK, UnderWay, First, Final
  <2>2. First(c) \in Int /\ Final(c) \in Int /\ id[c] \in Int /\ First(c) < Final(c) /\ First(c) < id[c]
    BY <2>1, IterationsInt DEF PoolTypeOK, LoopsInRange, First, Final
  <2>3. ~Known(<<c, First(c)>>)
    BY <2>2 DEF Known
  <2>4. <<c, First(c)>> \notin queue
    BY <2>3 DEF TasksKnown
  <2>5. \A t \in Threads : task[t] # <<c, First(c)>>
    <3>1. <<c, First(c)>> # NoTask
      BY <2>2, TaskParts DEF Tasks
    <3> QED BY <2>3, <3>1 DEF TasksKnown
  <2>6. Open(c, First(c)) /\ ~Open(c, First(c))'
    BY <2>1, <2>2, <2>4, <2>5 DEF Open
  <2>7. \A i \in First(c) .. Final(c) : i # First(c) => (Open(c, i)' <=> Open(c, i))
    BY <2>1 DEF Open
  <2>8. First(c) \in First(c) .. Final(c)
    BY <2>2
  <2>9. Ran(c)' = Ran(c) \cup {First(c)} /\ First(c) \notin Ran(c)
    BY <2>1, <2>6, <2>7, <2>8 DEF Ran
  <2> QED BY <1>1, <1>3, <2>1, <2>8, <2>9, DoneAdded
<1> QED BY <1>2, <1>3

\* When the barrier lets the client go, every iteration has run.
LEMMA DoneWait ==
    ASSUME IInv, NEW c \in Clients, Wait(c)
    PROVE  DoneExact'
<1> SUFFICES ASSUME NEW d \in Clients, NoOverflow(call[d])' PROVE DoneOf(d)'
  BY DEF DoneExact
<1> USE DEF IInv, BarrierInv
<1>1. call' = call /\ DoneOf(d) /\ NoOverflow(call[d])
  BY DEF Wait, DoneExact, NoOverflow
<1>2. CASE d # c
  BY <1>1, <1>2, OthersSame DEF Wait, PoolTypeOK
<1>3. CASE d = c
  <2>1. UnderWay(c) /\ pc[c] = "wait" /\ pc'[c] = "returned" /\ done' = done
    BY DEF Wait, UnderWay, PoolTypeOK
  <2>2. PICK k \in Calls : k = call[c] /\ ~Inline(k)
    BY <2>1 DEF PoolTypeOK, LoopsInRange
  <2>3. Queued(c) = {} /\ Taken(c) = {} /\ id[c] = Final(c) + 1
    BY WaitIsLast
  <2>4. First(c) \in Int /\ Final(c) \in Int
    BY <2>2, IterationsInt DEF First, Final
  <2>5. \A i \in First(c) .. Final(c) : ~Open(c, i)
    <3> SUFFICES ASSUME NEW i \in First(c) .. Final(c) PROVE ~Open(c, i)
      OBVIOUS
    <3>1. <<c, i>> \notin queue
      BY <2>3 DEF Queued
    <3>2. <<c, i>> # NoTask
      BY <2>4, TaskParts DEF Tasks
    <3>3. ASSUME NEW t \in Threads, task[t] = <<c, i>> PROVE FALSE
      <4>1. task[t] # NoTask /\ task[t][1] = c
        BY <3>2, <3>3
      <4> QED BY <2>3, <4>1 DEF Taken
    <3>4. ~(i >= id[c])
      BY <2>3, <2>4
    <3> QED BY <2>1, <3>1, <3>3, <3>4 DEF Open
  <2>6. Ran(c) = FirstIteration(k) .. LastIteration(k)
    BY <2>2, <2>5 DEF Ran, First, Final
  <2>7. done[c] = SetToBag(UNION {Indices(k, i) : i \in Ran(c)})
    BY <1>1, <1>3, <2>1, <2>2 DEF DoneOf
  <2>8. k.op # "ParallelForRange" => done[c] = SetToBag(0 .. k.last - 1)
    BY <1>1, <1>3, <2>2, <2>6, <2>7, BatchesCover
  <2> QED BY <1>1, <1>3, <2>1, <2>2, <2>8 DEF DoneOf, UnderWay
<1> QED BY <1>2, <1>3

\* Moving a task to a thread that has not called fn leaves it open.
LEMMA DoneTakeTask ==
    ASSUME IInv, NEW t \in Threads, TakeTask(t)
    PROVE  DoneExact'
<1> SUFFICES ASSUME NEW d \in Clients, NoOverflow(call[d])' PROVE DoneOf(d)'
  BY DEF DoneExact
<1> USE DEF IInv, BarrierInv
<1>1. /\ DoneOf(d) /\ First(d)' = First(d) /\ Final(d)' = Final(d)
      /\ call' = call /\ pc' = pc /\ id' = id /\ worked' = worked /\ done' = done
  BY DEF TakeTask, DoneExact, NoOverflow, First, Final
<1>2. PICK q \in queue : task' = [task EXCEPT ![t] = q] /\ queue' = queue \ {q}
  BY DEF TakeTask
<1>3. /\ task[t] = NoTask /\ task'[t] = q /\ t \notin worked
      /\ \A u \in Threads : u # t => task'[u] = task[u]
  BY <1>2 DEF TakeTask, PoolTypeOK
<1>4. \A i \in First(d) .. Final(d) : Open(d, i)' <=> Open(d, i)
  <2> SUFFICES ASSUME NEW i \in First(d) .. Final(d) PROVE Open(d, i)' <=> Open(d, i)
    OBVIOUS
  <2>1. PICK x : x = <<d, i>>
    OBVIOUS
  <2>2. x # NoTask
    BY <2>1, IterationsInt, TaskParts DEF Tasks, First, Final, PoolTypeOK
  <2>3. (x \in queue' \/ \E u \in Threads : u \notin worked' /\ task'[u] = x)
        <=> (x \in queue \/ \E u \in Threads : u \notin worked /\ task[u] = x)
    BY <1>1, <1>2, <1>3, <2>2
  <2> QED BY <1>1, <2>1, <2>3 DEF Open
<1> QED BY <1>1, <1>4, RanSame, DoneSame

\* Notify comes after the call of fn.
LEMMA DoneNotify ==
    ASSUME IInv, NEW t \in Threads, Notify(t)
    PROVE  DoneExact'
<1> SUFFICES ASSUME NEW d \in Clients, NoOverflow(call[d])' PROVE DoneOf(d)'
  BY DEF DoneExact
<1> USE DEF IInv, BarrierInv
<1>1. /\ DoneOf(d) /\ First(d)' = First(d) /\ Final(d)' = Final(d)
      /\ call' = call /\ pc' = pc /\ id' = id /\ queue' = queue /\ done' = done
  BY DEF Notify, DoneExact, NoOverflow, First, Final
<1>2. /\ t \in worked /\ worked' = worked \ {t} /\ task'[t] = NoTask
      /\ \A u \in Threads : u # t => task'[u] = task[u]
  BY DEF Notify, PoolTypeOK
<1>3. \A i \in First(d) .. Final(d) : Open(d, i)' <=> Open(d, i)
  <2> SUFFICES ASSUME NEW i \in First(d) .. Final(d) PROVE Open(d, i)' <=> Open(d, i)
    OBVIOUS
  <2>1. PICK x : x = <<d, i>>
    OBVIOUS
  <2>2. x # NoTask
    BY <2>1, IterationsInt, TaskParts DEF Tasks, First, Final, PoolTypeOK
  <2>3. (\E u \in Threads : u \notin worked' /\ task'[u] = x)
        <=> (\E u \in Threads : u \notin worked /\ task[u] = x)
    BY <1>2, <2>2
  <2> QED BY <1>1, <2>1, <2>3 DEF Open
<1> QED BY <1>1, <1>3, RanSame, DoneSame

\* A thread calls fn for a task that is nowhere else.
LEMMA DoneCallFn ==
    ASSUME IInv, NEW t \in Threads, CallFn(t)
    PROVE  DoneExact'
<1> SUFFICES ASSUME NEW d \in Clients, NoOverflow(call[d])' PROVE DoneOf(d)'
  BY DEF DoneExact
<1> USE DEF IInv, BarrierInv
<1>1. /\ DoneOf(d) /\ NoOverflow(call[d]) /\ First(d)' = First(d) /\ Final(d)' = Final(d)
      /\ call' = call /\ pc' = pc /\ id' = id /\ queue' = queue /\ task' = task
      /\ t \notin worked /\ worked' = worked \cup {t}
  BY DEF CallFn, DoneExact, NoOverflow, First, Final
<1>2. PICK q \in Tasks : q = task[t] /\ q # NoTask
  BY DEF CallFn, PoolTypeOK
<1>3. PICK c \in Clients, i \in Int : q = <<c, i>> /\ c = q[1] /\ i = q[2]
  BY TaskParts
<1>4. Known(q) /\ q \notin queue /\ \A u \in Threads : u # t => task[u] # q
  BY <1>2 DEF TasksKnown, TasksOnce
<1>5. /\ done'[c] = done[c] (+) SetToBag(Indices(call[c], i))
      /\ \A e \in Clients : e # c => done'[e] = done[e]
  BY <1>2, <1>3 DEF CallFn, PoolTypeOK
<1>6. ASSUME NEW j, <<d, j>> # q
      PROVE  Open(d, j)' <=> Open(d, j)
  <2>1. PICK x : x = <<d, j>> /\ x # q
    BY <1>6
  <2>2. (\E u \in Threads : u \notin worked' /\ task'[u] = x)
        <=> (\E u \in Threads : u \notin worked /\ task[u] = x)
    BY <1>1, <1>2, <2>1
  <2> QED BY <1>1, <2>1, <2>2 DEF Open
<1>7. CASE d # c
  <2>1. \A j : <<d, j>> # q
    BY <1>3, <1>7
  <2> QED BY <1>1, <1>5, <1>6, <1>7, <2>1, RanSame, DoneSame
<1>8. CASE d = c
  <2>1. /\ UnderWay(c) /\ UnderWay(c)' /\ First(c) \in Int /\ Final(c) \in Int /\ id[c] \in Int
        /\ First(c) < i /\ i < id[c] /\ id[c] <= Final(c) + 1
    BY <1>1, <1>3, <1>4, IterationsInt DEF Known, LoopsInRange, UnderWay, PoolTypeOK, First, Final
  <2>2. i \in First(c) .. Final(c)
    BY <2>1
  <2>3. Open(c, i)
    BY <1>1, <1>2, <1>3 DEF Open
  <2>4. ~Open(c, i)'
    <3>1. \A u \in Threads : u \notin worked' => task'[u] # q
      BY <1>1, <1>4
    <3>2. i # First(c)' /\ ~(i >= id'[c]) /\ q \notin queue'
      BY <1>1, <1>4, <1>8, <2>1
    <3> QED BY <1>3, <3>1, <3>2 DEF Open
  <2>5. \A j \in First(c) .. Final(c) : j # i => (Open(c, j)' <=> Open(c, j))
    BY <1>3, <1>6, <1>8
  <2>6. Ran(c)' = Ran(c) \cup {i} /\ i \notin Ran(c)
    BY <1>1, <1>8, <2>2, <2>3, <2>4, <2>5 DEF Ran
  <2> QED BY <1>1, <1>5, <1>8, <2>1, <2>2, <2>6, DoneAdded
<1> QED BY <1>7, <1>8

\* Every step keeps the account of what fn was called with.
LEMMA DoneInductive == IInv /\ [Next]_vars => DoneExact'
<1> SUFFICES ASSUME IInv, [Next]_vars PROVE DoneExact'
  OBVIOUS
<1>1. ASSUME NEW c \in Clients, ClientStep(c) PROVE DoneExact'
  BY <1>1, DoneRunInline, DoneMakeBarrier, DoneScheduleTask, DoneRunFirst, DoneWait DEF ClientStep
<1>2. ASSUME NEW t \in Threads, ThreadStep(t) PROVE DoneExact'
  BY <1>2, DoneTakeTask, DoneCallFn, DoneNotify DEF ThreadStep
<1>3. CASE UNCHANGED vars
  <2> SUFFICES ASSUME NEW d \in Clients, NoOverflow(call[d])' PROVE DoneOf(d)'
    BY DEF DoneExact
  <2>1. call' = call /\ pc' = pc /\ done' = done /\ id' = id /\ queue' = queue /\ task' = task
        /\ worked' = worked /\ First(d)' = First(d) /\ Final(d)' = Final(d) /\ DoneOf(d)
    BY <1>3 DEF vars, IInv, DoneExact, NoOverflow, First, Final
  <2>2. Ran(d)' = Ran(d)
    BY <2>1 DEF Ran, Open
  <2> QED BY <2>1, <2>2, DoneSame
<1> QED BY <1>1, <1>2, <1>3 DEF Next, Finished

\* fn has been called exactly with the indices of the iterations that ran.
THEOREM PoolInvariant == Spec => []IInv
<1>1. Init => IInv
  BY PoolInit, DoneInit DEF IInv
<1>2. IInv /\ [Next]_vars => IInv'
  BY BarrierInductive, DoneInductive DEF IInv
<1> QED BY <1>1, <1>2, PTL DEF Spec

\* ParallelFor and BatchParallelFor (threadpool.cc:35, 60) call fn once with
\* each index of [0, total) and with nothing else, provided that no product
\* of a batch number and total exceeds INT_MAX.
THEOREM AlwaysEachIndexOnce ==
    ASSUME \A k \in Calls : NoOverflow(k)
    PROVE  Spec => []EachIndexOnce
<1>1. IInv => EachIndexOnce
  BY DEF IInv, BarrierInv, PoolTypeOK, DoneExact, DoneOf, EachIndexOnce
<1> QED BY <1>1, PoolInvariant, PTL
=============================================================================
