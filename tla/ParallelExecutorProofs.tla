----------------------- MODULE ParallelExecutorProofs -----------------------
(***************************************************************************)
(* The parallel executor for every graph, every pool and every order of    *)
(* its steps.  What makes the safety properties inductive is the account   *)
(* of the edges: an edge is pending until the kernel it leaves was         *)
(* computed and its thread has counted it down, node_refs_ counts the      *)
(* pending edges into a node, and a node is in play (queued, in a thread's *)
(* hands, computed or given up) only when that count is 0.  A count that   *)
(* goes from 1 to 0 therefore finds the node in nobody's hands.            *)
(***************************************************************************)
EXTENDS ParallelExecutor, FiniteSetTheorems, WellFoundedInduction, TLAPS

-----------------------------------------------------------------------------
(* The inductive invariant *)

\* The thread has a node in hand whose kernel is not computed.
Fresh(t) == thr[t].pc \in {"check", "compute", "bad"}

\* The thread has still to count down the edges of the node it computed.
Counting(t) == thr[t].pc \in {"lock", "edges"}

Pending(e) ==
    \/ e.from \notin computed
    \/ \E t \in Threads : At(t, "lock") /\ thr[t].node = e.from
    \/ \E t \in Threads : e \in thr[t].todo

PendingIn(n) == {e \in InEdges(n) : Pending(e)}

InPlay(n) ==
    \/ n \in queue \/ n \in roots \/ n \in computed \/ n \in errors
    \/ \E t \in Threads : Fresh(t) /\ thr[t].node = n
    \/ \E t \in Threads : thr[t].kept = n

\* What the local variables of RunNodeAsync are at each place.
ThreadShape ==
    \A t \in Threads :
        /\ Fresh(t) => thr[t].node \in Nodes
        /\ thr[t].pc \in {"lock", "edges", "ok"} => thr[t].node \in computed
        /\ thr[t].pc # "edges" => thr[t].todo = {} /\ thr[t].kept = NoNode
        /\ thr[t].todo \subseteq OutEdges(thr[t].node)
        /\ ref_mutex = t <=> thr[t].pc = "edges"

RefsExact == \A n \in Nodes : node_refs[n] = Cardinality(PendingIn(n))

InPlayReady == \A n \in Nodes : InPlay(n) => node_refs[n] = 0

\* A node is in one place only.
SetsApart ==
    /\ queue \cap roots = {} /\ queue \cap computed = {} /\ queue \cap errors = {}
    /\ roots \cap computed = {} /\ roots \cap errors = {} /\ computed \cap errors = {}

HandsApart ==
    /\ \A t \in Threads : Fresh(t) => thr[t].node \notin queue \cup roots \cup computed \cup errors
    /\ \A t \in Threads : thr[t].kept \notin queue \cup roots \cup computed \cup errors
    /\ \A t, u \in Threads : Fresh(t) /\ Fresh(u) /\ thr[t].node = thr[u].node => t = u
    /\ \A t, u \in Threads : Fresh(t) => thr[t].node # thr[u].kept
    /\ \A t, u \in Threads : Counting(t) /\ Counting(u) /\ thr[t].node = thr[u].node => t = u

\* Until there is an error, a node that is ready is in somebody's hands.
NothingLost == errors = {} => \A n \in Nodes : node_refs[n] = 0 => InPlay(n)

CallerShape ==
    /\ caller # "enqueue" => roots = {}
    /\ caller \in {"ok", "gone_ok"} => errors = {}

IInv == /\ TypeOK /\ ThreadShape /\ RefsExact /\ InPlayReady /\ SetsApart /\ HandsApart
        /\ NothingLost /\ CallerShape /\ OutstandingExact /\ QuietAfterWait

-----------------------------------------------------------------------------
(* Lemmas *)

\* A set of edges into a node, or of threads, is finite.
LEMMA Finite ==
    /\ \A n : IsFiniteSet(PendingIn(n)) /\ IsFiniteSet(PendingIn(n)')
    /\ IsFiniteSet(Active) /\ IsFiniteSet(Active')
<1>1. \A n : PendingIn(n) \subseteq Edges /\ PendingIn(n)' \subseteq Edges
  BY DEF PendingIn, InEdges
<1>2. Active \subseteq Threads /\ Active' \subseteq Threads
  BY DEF Active
<1> QED
  BY <1>1, <1>2, FS_Subset, GraphAssumption, ThreadAssumption

\* The queue is finite.
LEMMA FiniteQueue == TypeOK => IsFiniteSet(queue)
BY FS_Subset, GraphAssumption DEF TypeOK

\* A pool thread takes a task.
LEMMA StartTaskKeeps ==
    ASSUME IInv, NEW t \in Threads, NEW n \in queue, StartTask(t, n)
    PROVE  IInv'
<1> USE DEF IInv
<1>1. n \in Nodes /\ thr[t].pc = "idle"
  BY DEF TypeOK, StartTask, At
<1>2. /\ \A u \in Threads \ {t} : thr'[u] = thr[u]
      /\ thr'[t] = RunFrom(n)
  BY DEF TypeOK, StartTask
<1>3. /\ thr'[t].pc = "check" /\ thr'[t].node = n /\ thr'[t].todo = {} /\ thr'[t].kept = NoNode
      /\ thr[t].todo = {} /\ thr[t].kept = NoNode
  BY <1>1, <1>2 DEF RunFrom, ThreadShape
<1>4. /\ queue' = queue \ {n}
      /\ UNCHANGED <<node_refs, ref_mutex, out_standings, errors, caller, roots, terminate_flag, computed>>
  BY DEF StartTask
<1>5. \A u \in Threads : Fresh(u)' <=> u = t \/ Fresh(u)
  BY <1>1, <1>2, <1>3 DEF Fresh
<1>6. \A u \in Threads : thr'[u].todo = thr[u].todo /\ thr'[u].kept = thr[u].kept
  BY <1>2, <1>3
<1>7. \A u \in Threads : Fresh(u) => thr'[u].node = thr[u].node
  BY <1>1, <1>2 DEF Fresh
<1>10. TypeOK'
  <2>1. thr' \in [Threads -> [pc : Labels, node : Nodes \cup {NoNode},
                              todo : SUBSET Edges, kept : Nodes \cup {NoNode}]]
    BY <1>1 DEF TypeOK, StartTask, RunFrom, Labels
  <2> QED
    BY <2>1, <1>1, <1>4 DEF TypeOK
<1>11. ThreadShape'
  BY <1>1, <1>2, <1>3, <1>4 DEF ThreadShape, Fresh
<1>12. \A e \in Edges : Pending(e)' <=> Pending(e)
  BY <1>1, <1>2, <1>3, <1>4, <1>6 DEF Pending, At
<1>13. RefsExact'
  BY <1>12, <1>4 DEF RefsExact, PendingIn, InEdges
<1>14. \A m \in Nodes : InPlay(m)' <=> InPlay(m)
  <2> SUFFICES ASSUME NEW m \in Nodes PROVE InPlay(m)' <=> InPlay(m)
    OBVIOUS
  <2>1. (\E u \in Threads : Fresh(u)' /\ thr'[u].node = m)
          <=> m = n \/ (\E u \in Threads : Fresh(u) /\ thr[u].node = m)
    BY <1>1, <1>3, <1>5, <1>7 DEF Fresh
  <2>2. (\E u \in Threads : thr'[u].kept = m) <=> (\E u \in Threads : thr[u].kept = m)
    BY <1>6
  <2> QED
    BY <2>1, <2>2, <1>4 DEF InPlay
<1>15. InPlayReady' /\ NothingLost'
  BY <1>14, <1>4 DEF InPlayReady, NothingLost
<1>16. SetsApart'
  BY <1>4 DEF SetsApart
<1>17. HandsApart'
  BY <1>1, <1>2, <1>3, <1>4, <1>5, <1>6, <1>7 DEF HandsApart, SetsApart, TypeOK, Counting
<1>18. CallerShape'
  BY <1>4 DEF CallerShape
<1>19. OutstandingExact'
  <2>1. Active' = Active \cup {t} /\ t \notin Active
    BY <1>1, <1>2, <1>3 DEF Active
  <2>2. Cardinality(queue') = Cardinality(queue) - 1 /\ Cardinality(queue) \in Nat
    BY <1>4, FiniteQueue, FS_RemoveElement, FS_CardinalityType
  <2>3. Cardinality(Active') = Cardinality(Active) + 1 /\ Cardinality(Active) \in Nat
    BY <2>1, Finite, FS_AddElement, FS_CardinalityType
  <2> QED
    BY <2>2, <2>3, <1>4 DEF OutstandingExact
<1>20. QuietAfterWait'
  BY <1>4 DEF QuietAfterWait
<1> QED
  BY <1>10, <1>11, <1>13, <1>15, <1>16, <1>17, <1>18, <1>19, <1>20

\* A thread goes on with a kernel it has not computed (or gives it up): the
\* cases of CheckTerminate and ComputeFails.
LEMMA StaysFreshKeeps ==
    ASSUME IInv, NEW t \in Threads, thr[t].pc \in {"check", "compute"},
           NEW label \in {"compute", "bad"}, Goto(t, label),
           UNCHANGED <<node_refs, ref_mutex, out_standings, errors, queue, caller, roots,
                       terminate_flag, computed>>
    PROVE  IInv'
<1> USE DEF IInv
<1>1. /\ \A u \in Threads \ {t} : thr'[u] = thr[u]
      /\ thr'[t].pc = label /\ thr'[t].node = thr[t].node
      /\ thr'[t].todo = thr[t].todo /\ thr'[t].kept = thr[t].kept
  BY DEF TypeOK, Goto
<1>2. \A u \in Threads : /\ Fresh(u)' <=> Fresh(u)
                         /\ Counting(u)' <=> Counting(u)
                         /\ At(u, "lock")' <=> At(u, "lock")
                         /\ thr'[u].node = thr[u].node
                         /\ thr'[u].todo = thr[u].todo /\ thr'[u].kept = thr[u].kept
  BY <1>1 DEF Fresh, Counting, At
<1>3. TypeOK'
  <2>1. thr' \in [Threads -> [pc : Labels, node : Nodes \cup {NoNode},
                              todo : SUBSET Edges, kept : Nodes \cup {NoNode}]]
    BY DEF TypeOK, Goto, Labels
  <2> QED
    BY <2>1 DEF TypeOK
<1>4. ThreadShape'
  BY <1>1, <1>2 DEF ThreadShape, Fresh
<1>5. RefsExact'
  BY <1>2 DEF RefsExact, PendingIn, Pending, InEdges
<1>6. \A m \in Nodes : InPlay(m)' <=> InPlay(m)
  BY <1>2 DEF InPlay
<1>7. InPlayReady' /\ NothingLost'
  BY <1>6 DEF InPlayReady, NothingLost
<1>8. SetsApart' /\ HandsApart' /\ CallerShape'
  BY <1>2 DEF SetsApart, HandsApart, CallerShape
<1>9. Active' = Active
  BY <1>1 DEF Active
<1> QED
  BY <1>3, <1>4, <1>5, <1>7, <1>8, <1>9 DEF OutstandingExact, QuietAfterWait

\* The kernel returns OK: what was in hand is computed, its edges pending.
LEMMA ComputeOkKeeps ==
    ASSUME IInv, NEW t \in Threads, ComputeOk(t)
    PROVE  IInv'
<1> USE DEF IInv
<1> DEFINE n == thr[t].node
<1>1. /\ thr[t].pc = "compute" /\ n \in Nodes /\ n \notin computed \cup queue \cup roots \cup errors
      /\ computed' = computed \cup {n}
      /\ UNCHANGED <<node_refs, ref_mutex, out_standings, errors, queue, caller, roots,
                     terminate_flag>>
  BY DEF ComputeOk, At, ThreadShape, Fresh, HandsApart
<1>2. /\ \A u \in Threads \ {t} : thr'[u] = thr[u]
      /\ thr'[t].pc = "lock" /\ thr'[t].node = n
      /\ thr'[t].todo = thr[t].todo /\ thr'[t].kept = thr[t].kept
  BY DEF TypeOK, ComputeOk, Goto
<1>3. \A u \in Threads : /\ Fresh(u)' <=> Fresh(u) /\ u # t
                         /\ Counting(u)' <=> Counting(u) \/ u = t
                         /\ At(u, "lock")' <=> At(u, "lock") \/ u = t
                         /\ thr'[u].node = thr[u].node
                         /\ thr'[u].todo = thr[u].todo /\ thr'[u].kept = thr[u].kept
  BY <1>1, <1>2 DEF Fresh, Counting, At
<1>4. TypeOK'
  <2>1. thr' \in [Threads -> [pc : Labels, node : Nodes \cup {NoNode},
                              todo : SUBSET Edges, kept : Nodes \cup {NoNode}]]
    BY DEF TypeOK, ComputeOk, Goto, Labels
  <2> QED
    BY <2>1, <1>1 DEF TypeOK
<1>5. ThreadShape'
  BY <1>1, <1>2, <1>3 DEF ThreadShape, Fresh
<1>6. \A e \in Edges : Pending(e)' <=> Pending(e)
  BY <1>1, <1>3 DEF Pending
<1>7. RefsExact'
  BY <1>1, <1>6 DEF RefsExact, PendingIn, InEdges
<1>8. \A m \in Nodes : InPlay(m)' <=> InPlay(m)
  <2> SUFFICES ASSUME NEW m \in Nodes PROVE InPlay(m)' <=> InPlay(m)
    OBVIOUS
  <2>1. (\E u \in Threads : thr'[u].kept = m) <=> (\E u \in Threads : thr[u].kept = m)
    BY <1>3
  <2>2. (\E u \in Threads : Fresh(u) /\ thr[u].node = m)
          <=> m = n \/ (\E u \in Threads : Fresh(u)' /\ thr'[u].node = m)
    BY <1>1, <1>3 DEF Fresh
  <2> QED
    BY <2>1, <2>2, <1>1 DEF InPlay
<1>9. InPlayReady' /\ NothingLost'
  BY <1>1, <1>8 DEF InPlayReady, NothingLost
<1>10. SetsApart' /\ CallerShape'
  BY <1>1 DEF SetsApart, CallerShape
<1>11. HandsApart'
  BY <1>1, <1>3 DEF HandsApart, Fresh, Counting, ThreadShape
<1>12. Active' = Active
  BY <1>1, <1>2 DEF Active
<1> QED
  BY <1>1, <1>4, <1>5, <1>7, <1>9, <1>10, <1>11, <1>12 DEF OutstandingExact, QuietAfterWait

\* The thread enters the section under ref_mutex_.
LEMMA LockRefsKeeps ==
    ASSUME IInv, NEW t \in Threads, LockRefs(t)
    PROVE  IInv'
<1> USE DEF IInv
<1>1. /\ thr[t].pc = "lock" /\ ref_mutex = NoThread /\ ref_mutex' = t
      /\ UNCHANGED <<node_refs, out_standings, errors, queue, caller, roots, terminate_flag, computed>>
  BY DEF LockRefs, At
<1>2. /\ \A u \in Threads \ {t} : thr'[u] = thr[u]
      /\ thr'[t].pc = "edges" /\ thr'[t].node = thr[t].node
      /\ thr'[t].todo = OutEdges(thr[t].node) /\ thr'[t].kept = thr[t].kept
  BY DEF TypeOK, LockRefs
<1>3. \A u \in Threads : /\ Fresh(u)' <=> Fresh(u)
                         /\ Counting(u)' <=> Counting(u)
                         /\ At(u, "lock")' <=> At(u, "lock") /\ u # t
                         /\ thr'[u].node = thr[u].node /\ thr'[u].kept = thr[u].kept
  BY <1>1, <1>2 DEF Fresh, Counting, At
<1>4. \A u \in Threads : thr[u].todo = {} /\ thr[u].pc # "edges" /\ thr[u].kept = NoNode
  BY <1>1, ThreadAssumption DEF ThreadShape
<1>5. TypeOK'
  <2>1. thr' \in [Threads -> [pc : Labels, node : Nodes \cup {NoNode},
                              todo : SUBSET Edges, kept : Nodes \cup {NoNode}]]
    <3>1. PICK edges \in SUBSET Edges : thr' = [thr EXCEPT ![t].pc = "edges", ![t].todo = edges]
      BY DEF LockRefs, OutEdges
    <3> QED
      BY <3>1 DEF TypeOK, Labels
  <2> QED
    BY <2>1, <1>1 DEF TypeOK
<1>6. ThreadShape'
  BY <1>1, <1>2, <1>4, ThreadAssumption DEF ThreadShape, Fresh
<1>7. \A e \in Edges : Pending(e)' <=> Pending(e)
  <2> SUFFICES ASSUME NEW e \in Edges PROVE Pending(e)' <=> Pending(e)
    OBVIOUS
  <2>1. (\E u \in Threads : e \in thr'[u].todo) <=> thr[t].node = e.from
    BY <1>2, <1>4 DEF OutEdges
  <2>2. (\E u \in Threads : At(u, "lock") /\ thr[u].node = e.from)
          <=> thr[t].node = e.from \/ \E u \in Threads : At(u, "lock")' /\ thr'[u].node = e.from
    BY <1>1, <1>3 DEF At
  <2> QED
    BY <2>1, <2>2, <1>1, <1>4 DEF Pending
<1>8. RefsExact'
  BY <1>1, <1>7 DEF RefsExact, PendingIn, InEdges
<1>9. \A m \in Nodes : InPlay(m)' <=> InPlay(m)
  BY <1>1, <1>3 DEF InPlay
<1>10. InPlayReady' /\ NothingLost'
  BY <1>1, <1>9 DEF InPlayReady, NothingLost
<1>11. SetsApart' /\ CallerShape' /\ HandsApart'
  BY <1>1, <1>3 DEF SetsApart, CallerShape, HandsApart
<1>12. Active' = Active
  BY <1>1, <1>2 DEF Active
<1> QED
  BY <1>1, <1>5, <1>6, <1>8, <1>10, <1>11, <1>12 DEF OutstandingExact, QuietAfterWait

\* An edge is counted down: the one step that changes what is pending.  Its
\* target has a pending edge and is therefore in nobody's hands.
LEMMA CountDownKeeps ==
    ASSUME IInv, NEW t \in Threads, NEW e \in Edges, CountDown(t, e)
    PROVE  IInv'
<1> USE DEF IInv
<1> DEFINE m == e.to
           ready == node_refs[m] = 1
           keep == ready /\ thr[t].kept = NoNode
<1>1. /\ thr[t].pc = "edges" /\ e \in thr[t].todo /\ m \in Nodes
      /\ e.from = thr[t].node /\ e.from \in computed
      /\ UNCHANGED <<ref_mutex, errors, caller, roots, terminate_flag, computed>>
  BY GraphAssumption DEF CountDown, At, ThreadShape, OutEdges
<1>2. /\ \A u \in Threads \ {t} : thr'[u] = thr[u]
      /\ thr'[t].pc = "edges" /\ thr'[t].node = thr[t].node
      /\ thr'[t].todo = thr[t].todo \ {e}
      /\ thr'[t].kept = IF keep THEN m ELSE thr[t].kept
  BY <1>1 DEF TypeOK, CountDown
<1>3. \A u \in Threads : /\ Fresh(u)' <=> Fresh(u)
                         /\ Counting(u)' <=> Counting(u)
                         /\ At(u, "lock")' <=> At(u, "lock")
                         /\ thr'[u].node = thr[u].node
  BY <1>1, <1>2 DEF Fresh, Counting, At
<1>4. \A u \in Threads \ {t} : thr[u].pc # "edges" /\ thr[u].todo = {} /\ thr[u].kept = NoNode
  BY <1>1 DEF ThreadShape
<1>5. \A f \in Edges : Pending(f)' <=> Pending(f) /\ f # e
  <2> SUFFICES ASSUME NEW f \in Edges PROVE Pending(f)' <=> Pending(f) /\ f # e
    OBVIOUS
  <2>1. (\E u \in Threads : f \in thr'[u].todo) <=> f # e /\ \E u \in Threads : f \in thr[u].todo
    BY <1>2, <1>4
  <2>2. (\E u \in Threads : At(u, "lock")' /\ thr'[u].node = f.from)
          <=> \E u \in Threads : At(u, "lock") /\ thr[u].node = f.from
    BY <1>3
  <2>3. ~ \E u \in Threads : At(u, "lock") /\ thr[u].node = e.from
    BY <1>1 DEF HandsApart, Counting, At
  <2> QED
    BY <2>1, <2>2, <2>3, <1>1 DEF Pending
<1>6. Pending(e)
  BY <1>1 DEF Pending
<1>7. /\ \A k \in Nodes \ {m} : PendingIn(k)' = PendingIn(k)
      /\ PendingIn(m)' = PendingIn(m) \ {e} /\ e \in PendingIn(m)
  BY <1>5, <1>6 DEF PendingIn, InEdges
<1>8. /\ Cardinality(PendingIn(m)') = Cardinality(PendingIn(m)) - 1
      /\ Cardinality(PendingIn(m)) \in Nat \ {0}
  <2>1. Cardinality(PendingIn(m)) \in Nat /\ Cardinality(PendingIn(m)) # 0
    BY <1>7, Finite, FS_CardinalityType, FS_EmptySet
  <2>2. Cardinality(PendingIn(m) \ {e}) = Cardinality(PendingIn(m)) - 1
    BY <1>7, Finite, FS_RemoveElement
  <2> QED
    BY <2>1, <2>2, <1>7
<1>9. /\ node_refs[m] \in Nat \ {0}
      /\ node_refs' = [node_refs EXCEPT ![m] = node_refs[m] - 1]
      /\ node_refs'[m] = node_refs[m] - 1
      /\ \A k \in Nodes \ {m} : node_refs'[k] = node_refs[k]
  BY <1>1, <1>8 DEF RefsExact, CountDown, TypeOK
<1>10. RefsExact'
  BY <1>1, <1>7, <1>8, <1>9 DEF RefsExact
<1>11. ~ InPlay(m)
  BY <1>1, <1>9 DEF InPlayReady
<1>12. /\ m \notin queue \cup roots \cup computed \cup errors
       /\ \A u \in Threads : Fresh(u) => thr[u].node # m
  BY <1>11 DEF InPlay
<1>13. \/ /\ queue' = queue \cup {m} /\ out_standings' = out_standings + 1
          /\ ready /\ ~ keep /\ errors = {}
       \/ /\ UNCHANGED <<queue, out_standings>>
          /\ ~ ready \/ keep \/ errors # {}
  BY DEF CountDown, EnqueueNode
<1>14. TypeOK'
  <2>1. thr' \in [Threads -> [pc : Labels, node : Nodes \cup {NoNode},
                              todo : SUBSET Edges, kept : Nodes \cup {NoNode}]]
    <3>1. PICK k \in Nodes \cup {NoNode} : thr' = [thr EXCEPT ![t].todo = @ \ {e}, ![t].kept = k]
      BY <1>1 DEF TypeOK, CountDown
    <3> QED
      BY <3>1 DEF TypeOK
  <2>2. node_refs' \in [Nodes -> Nat]
    BY <1>1, <1>9 DEF TypeOK
  <2>3. queue' \subseteq Nodes /\ out_standings' \in Nat
    BY <1>1, <1>13 DEF TypeOK
  <2> QED
    BY <2>1, <2>2, <2>3, <1>1 DEF TypeOK
<1>15. ThreadShape'
  BY <1>1, <1>2, <1>3, <1>4 DEF ThreadShape, Fresh
<1>16. \A k \in Nodes : InPlay(k)' => InPlay(k) \/ (k = m /\ ready)
  <2> SUFFICES ASSUME NEW k \in Nodes, InPlay(k)', ~ InPlay(k) PROVE k = m /\ ready
    OBVIOUS
  <2>1. (\E u \in Threads : Fresh(u)' /\ thr'[u].node = k)
          => \E u \in Threads : Fresh(u) /\ thr[u].node = k
    BY <1>3
  <2>2. (\E u \in Threads : thr'[u].kept = k) => (\E u \in Threads : thr[u].kept = k) \/ (k = m /\ ready)
    BY <1>2
  <2> QED
    BY <2>1, <2>2, <1>1, <1>13 DEF InPlay
<1>17. InPlayReady'
  BY <1>1, <1>9, <1>16 DEF InPlayReady
<1>18. \A k \in Nodes : InPlay(k) => InPlay(k)'
  <2> SUFFICES ASSUME NEW k \in Nodes, InPlay(k) PROVE InPlay(k)'
    OBVIOUS
  <2>1. (\E u \in Threads : Fresh(u) /\ thr[u].node = k)
          => \E u \in Threads : Fresh(u)' /\ thr'[u].node = k
    BY <1>3
  <2>2. (\E u \in Threads : thr[u].kept = k) => \E u \in Threads : thr'[u].kept = k
    BY <1>2, GraphAssumption
  <2> QED
    BY <2>1, <2>2, <1>1, <1>13 DEF InPlay
<1>19. errors = {} /\ ready => InPlay(m)'
  BY <1>2, <1>13 DEF InPlay
<1>20. NothingLost'
  BY <1>1, <1>9, <1>18, <1>19 DEF NothingLost
<1>21. SetsApart' /\ CallerShape'
  BY <1>1, <1>12, <1>13 DEF SetsApart, CallerShape
<1>22. HandsApart'
  <2>1. \A u \in Threads : thr'[u].kept = thr[u].kept \/ (thr'[u].kept = m /\ keep)
    BY <1>2
  <2>2. thr[t].kept # NoNode => ~ keep
    OBVIOUS
  <2>3. \A u \in Threads : thr[u].kept # m
    BY <1>1, <1>11 DEF InPlay
  <2> QED
    BY <2>1, <2>2, <2>3, <1>1, <1>3, <1>12, <1>13 DEF HandsApart
<1>23. Active' = Active /\ t \in Active
  BY <1>1, <1>2 DEF Active
<1>24. QuietAfterWait'
  BY <1>1, <1>23 DEF QuietAfterWait
<1>25. OutstandingExact'
  <2>1. queue' = queue \cup {m} => Cardinality(queue') = Cardinality(queue) + 1
    BY <1>12, FiniteQueue, FS_AddElement
  <2>2. Cardinality(queue) \in Nat /\ Cardinality(Active) \in Nat
    BY Finite, FiniteQueue, FS_CardinalityType
  <2> QED
    BY <2>1, <2>2, <1>13, <1>23 DEF OutstandingExact
<1> QED
  BY <1>10, <1>14, <1>15, <1>17, <1>20, <1>21, <1>22, <1>24, <1>25

\* The thread leaves the section and goes on with the node it kept, or ends.
LEMMA UnlockRefsKeeps ==
    ASSUME IInv, NEW t \in Threads, UnlockRefs(t)
    PROVE  IInv'
<1> USE DEF IInv
<1> DEFINE k == thr[t].kept
<1>1. /\ thr[t].pc = "edges" /\ thr[t].todo = {} /\ ref_mutex' = NoThread /\ ref_mutex = t
      /\ UNCHANGED <<node_refs, out_standings, errors, queue, caller, roots, terminate_flag, computed>>
  BY DEF UnlockRefs, At, ThreadShape
<1>2. /\ \A u \in Threads \ {t} : thr'[u] = thr[u]
      /\ thr'[t].pc = IF k = NoNode THEN "ok" ELSE "check"
      /\ thr'[t].node = IF k = NoNode THEN thr[t].node ELSE k
      /\ thr'[t].todo = {} /\ thr'[t].kept = NoNode
  BY <1>1 DEF TypeOK, UnlockRefs, RunFrom
<1>3. \A u \in Threads : /\ Fresh(u)' <=> Fresh(u) \/ (u = t /\ k # NoNode)
                         /\ Fresh(u) => u # t /\ thr'[u].node = thr[u].node
                         /\ Counting(u)' <=> Counting(u) /\ u # t
                         /\ At(u, "lock")' <=> At(u, "lock")
                         /\ At(u, "lock") => thr'[u].node = thr[u].node
                         /\ thr'[u].todo = thr[u].todo
  BY <1>1, <1>2 DEF Fresh, Counting, At
<1>4. \A u \in Threads : /\ u # t => thr[u].pc # "edges" /\ thr[u].kept = NoNode
                         /\ thr'[u].kept = NoNode
  BY <1>1, <1>2 DEF ThreadShape
<1>5. k \in Nodes \cup {NoNode} /\ thr[t].node \in computed
  BY <1>1 DEF TypeOK, ThreadShape
<1>6. TypeOK'
  <2>1. thr' \in [Threads -> [pc : Labels, node : Nodes \cup {NoNode},
                              todo : SUBSET Edges, kept : Nodes \cup {NoNode}]]
    BY <1>5 DEF TypeOK, UnlockRefs, RunFrom, Labels
  <2> QED
    BY <2>1, <1>1 DEF TypeOK
<1>7. ThreadShape'
  BY <1>1, <1>2, <1>3, <1>4, <1>5, ThreadAssumption DEF ThreadShape, Fresh
<1>8. \A e \in Edges : Pending(e)' <=> Pending(e)
  BY <1>1, <1>3 DEF Pending
<1>9. RefsExact'
  BY <1>1, <1>8 DEF RefsExact, PendingIn, InEdges
<1>10. \A m \in Nodes : InPlay(m)' <=> InPlay(m)
  <2> SUFFICES ASSUME NEW m \in Nodes PROVE InPlay(m)' <=> InPlay(m)
    OBVIOUS
  <2>1. (\E u \in Threads : thr[u].kept = m) <=> k = m
    BY <1>4, GraphAssumption
  <2>2. ~ \E u \in Threads : thr'[u].kept = m
    BY <1>4, GraphAssumption
  <2>3. (\E u \in Threads : Fresh(u)' /\ thr'[u].node = m)
          <=> k = m \/ \E u \in Threads : Fresh(u) /\ thr[u].node = m
    BY <1>2, <1>3, GraphAssumption
  <2> QED
    BY <2>1, <2>2, <2>3, <1>1 DEF InPlay
<1>11. InPlayReady' /\ NothingLost'
  BY <1>1, <1>10 DEF InPlayReady, NothingLost
<1>12. SetsApart' /\ CallerShape'
  BY <1>1 DEF SetsApart, CallerShape
<1>13. HandsApart'
  <2>1. \A u \in Threads : Fresh(u)' => thr'[u].node \in Nodes
    BY <1>7 DEF ThreadShape
  <2>2. NoNode \notin queue \cup roots \cup computed \cup errors
    BY GraphAssumption DEF TypeOK
  <2>3. \A u \in Threads : Fresh(u)' => thr'[u].node \notin queue \cup roots \cup computed \cup errors
    BY <1>2, <1>3 DEF HandsApart
  <2>4. \A u, v \in Threads : Fresh(u)' /\ Fresh(v)' /\ thr'[u].node = thr'[v].node => u = v
    BY <1>2, <1>3 DEF HandsApart
  <2>5. \A u, v \in Threads : Counting(u)' /\ Counting(v)' /\ thr'[u].node = thr'[v].node => u = v
    BY <1>2, <1>3 DEF HandsApart
  <2> QED
    BY <2>1, <2>2, <2>3, <2>4, <2>5, <1>1, <1>4, GraphAssumption DEF HandsApart
<1>14. Active' = Active
  BY <1>1, <1>2 DEF Active
<1> QED
  BY <1>1, <1>6, <1>7, <1>9, <1>11, <1>12, <1>13, <1>14 DEF OutstandingExact, QuietAfterWait

\* A task ends: its thread is no longer active and a kernel it gave up is
\* among the errors.
LEMMA FinishNodeRunKeeps ==
    ASSUME IInv, NEW t \in Threads, FinishNodeRun(t)
    PROVE  IInv'
<1> USE DEF IInv
<1> DEFINE n == thr[t].node
<1>1. /\ thr[t].pc \in {"ok", "bad"} /\ thr[t].todo = {} /\ thr[t].kept = NoNode
      /\ UNCHANGED <<node_refs, ref_mutex, queue, caller, roots, terminate_flag, computed>>
  BY DEF FinishNodeRun, At, ThreadShape
<1>2. errors' = IF thr[t].pc = "bad" THEN errors \cup {n} ELSE errors
  BY DEF FinishNodeRun, At
<1>3. /\ \A u \in Threads \ {t} : thr'[u] = thr[u]
      /\ thr'[t].pc \in {"idle", "notify"} /\ thr'[t].todo = {} /\ thr'[t].kept = NoNode
  BY <1>1 DEF TypeOK, FinishNodeRun, Idle
<1>4. \A u \in Threads : /\ Fresh(u)' <=> Fresh(u) /\ u # t
                         /\ Fresh(u)' => thr'[u].node = thr[u].node
                         /\ Counting(u)' <=> Counting(u)
                         /\ Counting(u) => thr'[u].node = thr[u].node
                         /\ At(u, "lock")' <=> At(u, "lock")
                         /\ At(u, "lock") => thr'[u].node = thr[u].node
                         /\ thr'[u].todo = thr[u].todo /\ thr'[u].kept = thr[u].kept
  BY <1>1, <1>3 DEF Fresh, Counting, At
<1>5. /\ thr[t].pc = "bad" => Fresh(t) /\ n \in Nodes
                              /\ n \notin queue \cup roots \cup computed \cup errors
      /\ thr[t].pc # "bad" => ~ Fresh(t)
  BY <1>1 DEF Fresh, ThreadShape, HandsApart
<1>6. Active' = Active \ {t} /\ t \in Active
  BY <1>1, <1>3 DEF Active
<1>7. /\ Cardinality(Active') = Cardinality(Active) - 1
      /\ Cardinality(Active) \in Nat \ {0} /\ Cardinality(queue) \in Nat
  <2>1. Cardinality(Active) \in Nat /\ Cardinality(Active) # 0 /\ Cardinality(queue) \in Nat
    BY <1>6, Finite, FiniteQueue, FS_CardinalityType, FS_EmptySet
  <2>2. Cardinality(Active \ {t}) = Cardinality(Active) - 1
    BY <1>6, Finite, FS_RemoveElement
  <2> QED
    BY <2>1, <2>2, <1>6
<1>8. out_standings' = out_standings - 1 /\ out_standings' \in Nat
  BY <1>7 DEF FinishNodeRun, OutstandingExact
<1>9. TypeOK'
  <2>1. thr' \in [Threads -> [pc : Labels, node : Nodes \cup {NoNode},
                              todo : SUBSET Edges, kept : Nodes \cup {NoNode}]]
    BY DEF TypeOK, FinishNodeRun, Idle, Labels
  <2> QED
    BY <2>1, <1>1, <1>2, <1>5, <1>8 DEF TypeOK
<1>10. ThreadShape'
  BY <1>1, <1>3, <1>4 DEF ThreadShape, Fresh
<1>11. \A e \in Edges : Pending(e)' <=> Pending(e)
  BY <1>1, <1>4 DEF Pending
<1>12. RefsExact'
  BY <1>1, <1>11 DEF RefsExact, PendingIn, InEdges
<1>13. \A m \in Nodes : InPlay(m)' <=> InPlay(m)
  <2> SUFFICES ASSUME NEW m \in Nodes PROVE InPlay(m)' <=> InPlay(m)
    OBVIOUS
  <2>1. (\E u \in Threads : thr'[u].kept = m) <=> (\E u \in Threads : thr[u].kept = m)
    BY <1>4
  <2>2. (\E u \in Threads : Fresh(u) /\ thr[u].node = m)
          <=> (thr[t].pc = "bad" /\ m = n) \/ (\E u \in Threads : Fresh(u)' /\ thr'[u].node = m)
    BY <1>4, <1>5
  <2> QED
    BY <2>1, <2>2, <1>1, <1>2 DEF InPlay
<1>14. InPlayReady'
  BY <1>1, <1>13 DEF InPlayReady
<1>15. NothingLost'
  BY <1>1, <1>2, <1>13 DEF NothingLost
<1>16. SetsApart'
  BY <1>1, <1>2, <1>5 DEF SetsApart
<1>17. HandsApart'
  <2>1. thr[t].pc = "bad" => \A u \in Threads : /\ Fresh(u) /\ u # t => thr[u].node # n
                                                /\ thr[u].kept # n
    BY <1>5 DEF HandsApart
  <2>2. \A u \in Threads : Fresh(u)' => thr'[u].node \notin queue' \cup roots' \cup computed' \cup errors'
    BY <2>1, <1>1, <1>2, <1>4 DEF HandsApart
  <2>3. \A u \in Threads : thr'[u].kept \notin queue' \cup roots' \cup computed' \cup errors'
    <3> SUFFICES ASSUME NEW u \in Threads
                 PROVE  thr[u].kept \notin queue' \cup roots' \cup computed' \cup errors'
      BY <1>4
    <3>1. thr[u].kept \notin queue' \cup roots' \cup computed' \cup errors
      BY <1>1 DEF HandsApart
    <3>2. thr[u].kept \notin errors'
      <4>1. thr[t].pc = "bad" => thr[u].kept # n
        BY <2>1
      <4>2. thr[u].kept \notin errors
        BY <3>1
      <4> QED
        BY <4>1, <4>2, <1>2
    <3> QED
      BY <3>1, <3>2
  <2>4. \A u, v \in Threads : Fresh(u)' /\ Fresh(v)' /\ thr'[u].node = thr'[v].node => u = v
    BY <1>4 DEF HandsApart
  <2>6. \A u, v \in Threads : Fresh(u)' => thr'[u].node # thr'[v].kept
    BY <1>4 DEF HandsApart
  <2>5. \A u, v \in Threads : Counting(u)' /\ Counting(v)' /\ thr'[u].node = thr'[v].node => u = v
    BY <1>4 DEF HandsApart
  <2> QED
    BY <2>2, <2>3, <2>4, <2>5, <2>6, Zenon DEF HandsApart
<1>18. QuietAfterWait' /\ CallerShape'
  BY <1>1, <1>6 DEF QuietAfterWait, CallerShape
<1>19. OutstandingExact'
  BY <1>1, <1>7, <1>8 DEF OutstandingExact
<1> QED
  BY <1>9, <1>10, <1>12, <1>14, <1>15, <1>16, <1>17, <1>18, <1>19

\* The notification: the thread is idle and a waiting caller tests again.
LEMMA NotifyKeeps ==
    ASSUME IInv, NEW t \in Threads, Notify(t)
    PROVE  IInv'
<1> USE DEF IInv
<1>1. /\ thr[t].pc = "notify" /\ thr[t].todo = {} /\ thr[t].kept = NoNode
      /\ UNCHANGED <<node_refs, ref_mutex, out_standings, errors, queue, roots, terminate_flag, computed>>
      /\ caller' = IF caller = "blocked" THEN "test" ELSE caller
  BY DEF Notify, At, ThreadShape
<1>2. /\ \A u \in Threads \ {t} : thr'[u] = thr[u]
      /\ thr'[t].pc = "idle" /\ thr'[t].todo = {} /\ thr'[t].kept = NoNode
  BY <1>1 DEF TypeOK, Notify, Idle
<1>3. \A u \in Threads : /\ Fresh(u)' <=> Fresh(u)
                         /\ Fresh(u) => thr'[u].node = thr[u].node
                         /\ Counting(u)' <=> Counting(u)
                         /\ Counting(u) => thr'[u].node = thr[u].node
                         /\ At(u, "lock")' <=> At(u, "lock")
                         /\ At(u, "lock") => thr'[u].node = thr[u].node
                         /\ thr'[u].todo = thr[u].todo /\ thr'[u].kept = thr[u].kept
  BY <1>1, <1>2 DEF Fresh, Counting, At
<1>4. TypeOK'
  <2>1. thr' \in [Threads -> [pc : Labels, node : Nodes \cup {NoNode},
                              todo : SUBSET Edges, kept : Nodes \cup {NoNode}]]
    BY DEF TypeOK, Notify, Idle, Labels
  <2> QED
    BY <2>1, <1>1 DEF TypeOK
<1>5. ThreadShape'
  BY <1>1, <1>2, <1>3 DEF ThreadShape, Fresh
<1>6. RefsExact'
  <2>1. \A e \in Edges : Pending(e)' <=> Pending(e)
    BY <1>1, <1>3 DEF Pending
  <2> QED
    BY <1>1, <2>1 DEF RefsExact, PendingIn, InEdges
<1>7. \A m \in Nodes : InPlay(m)' <=> InPlay(m)
  BY <1>1, <1>3 DEF InPlay
<1>8. InPlayReady' /\ NothingLost'
  BY <1>1, <1>7 DEF InPlayReady, NothingLost
<1>9. SetsApart' /\ HandsApart' /\ CallerShape'
  BY <1>1, <1>3 DEF SetsApart, HandsApart, CallerShape
<1>10. Active' = Active
  BY <1>1, <1>2 DEF Active
<1> QED
  BY <1>1, <1>4, <1>5, <1>6, <1>8, <1>9, <1>10 DEF OutstandingExact, QuietAfterWait

\* The caller enqueues a root, or drops it after an error.
LEMMA EnqueueRootKeeps ==
    ASSUME IInv, NEW n \in Nodes, EnqueueRoot(n)
    PROVE  IInv'
<1> USE DEF IInv
<1>1. /\ caller = "enqueue" /\ n \in roots /\ n \notin queue /\ roots' = roots \ {n}
      /\ UNCHANGED <<node_refs, ref_mutex, errors, thr, caller, terminate_flag, computed>>
  BY DEF EnqueueRoot, SetsApart
<1>2. \/ errors = {} /\ queue' = queue \cup {n} /\ out_standings' = out_standings + 1
      \/ errors # {} /\ UNCHANGED <<queue, out_standings>>
  BY DEF EnqueueRoot, EnqueueNode
<1>3. /\ TypeOK' /\ ThreadShape' /\ RefsExact'
  BY <1>1, <1>2 DEF TypeOK, ThreadShape, RefsExact, PendingIn, Pending, InEdges, Fresh, At
<1>4. /\ \A m \in Nodes : InPlay(m)' => InPlay(m)
      /\ errors = {} => \A m \in Nodes : InPlay(m) => InPlay(m)'
  BY <1>1, <1>2 DEF InPlay, Fresh
<1>5. InPlayReady' /\ NothingLost'
  BY <1>1, <1>4 DEF InPlayReady, NothingLost
<1>6. SetsApart' /\ HandsApart'
  BY <1>1, <1>2 DEF SetsApart, HandsApart, Fresh, Counting
<1>7. CallerShape' /\ QuietAfterWait'
  BY <1>1 DEF CallerShape, QuietAfterWait
<1>8. OutstandingExact'
  <2>1. queue' = queue \cup {n} => Cardinality(queue') = Cardinality(queue) + 1
    BY <1>1, FiniteQueue, FS_AddElement
  <2>2. Cardinality(queue) \in Nat /\ Cardinality(Active) \in Nat /\ Active' = Active
    BY <1>1, Finite, FiniteQueue, FS_CardinalityType DEF Active
  <2> QED
    BY <2>1, <2>2, <1>2 DEF OutstandingExact
<1> QED
  BY <1>3, <1>5, <1>6, <1>7, <1>8

\* The steps that change nothing but where the caller stands and the flag.
LEMMA CallerMovesKeep ==
    ASSUME IInv, CallerShape', QuietAfterWait',
           UNCHANGED <<node_refs, ref_mutex, out_standings, errors, queue, thr, roots, computed>>,
           caller' \in {"enqueue", "test", "blocked", "collect", "ok", "error", "gone_ok", "gone_error"},
           terminate_flag' \in BOOLEAN
    PROVE  IInv'
<1>1. TypeOK'
  BY DEF IInv, TypeOK
<1>2. ThreadShape' /\ RefsExact' /\ OutstandingExact'
  BY DEF IInv, ThreadShape, RefsExact, PendingIn, Pending, InEdges, Fresh, At, OutstandingExact, Active
<1>3. \A m \in Nodes : InPlay(m)' <=> InPlay(m)
  BY DEF InPlay, Fresh
<1>4. InPlayReady' /\ NothingLost' /\ SetsApart' /\ HandsApart'
  BY <1>3 DEF IInv, InPlayReady, NothingLost, SetsApart, HandsApart, Fresh, Counting
<1> QED
  BY <1>1, <1>2, <1>4 DEF IInv

\* TestOutstanding leaves the wait only when nothing is queued or active.
LEMMA NoneOutstanding ==
    ASSUME IInv, ~ out_standings > 0
    PROVE  queue = {} /\ Active = {}
<1>1. /\ Cardinality(queue) \in Nat /\ Cardinality(Active) \in Nat
      /\ out_standings = Cardinality(queue) + Cardinality(Active)
  BY Finite, FiniteQueue, FS_CardinalityType DEF IInv, OutstandingExact
<1>2. Cardinality(queue) = 0 /\ Cardinality(Active) = 0
  BY <1>1
<1> QED
  BY <1>2, Finite, FiniteQueue, FS_EmptySet DEF IInv

-----------------------------------------------------------------------------
(* Every step keeps the invariant *)

\* The constructor and the start of Execute establish it.
LEMMA InitIInv == Init => IInv
<1> SUFFICES ASSUME Init PROVE IInv
  OBVIOUS
<1> USE DEF Init
<1>1. \A t \in Threads : /\ thr[t] = Idle /\ thr[t].pc = "idle" /\ thr[t].todo = {}
                         /\ thr[t].kept = NoNode
  BY DEF Idle
<1>2. \A n \in Nodes : IsFiniteSet(InEdges(n)) /\ Cardinality(InEdges(n)) \in Nat
  <2>1. \A n \in Nodes : InEdges(n) \subseteq Edges
    BY DEF InEdges
  <2> QED
    BY <2>1, FS_Subset, FS_CardinalityType, GraphAssumption
<1>3. TypeOK
  <2>1. node_refs \in [Nodes -> Nat] /\ roots \subseteq Nodes
    BY <1>2 DEF RootNodes
  <2>2. thr \in [Threads -> [pc : Labels, node : Nodes \cup {NoNode},
                             todo : SUBSET Edges, kept : Nodes \cup {NoNode}]]
    BY DEF Idle, Labels
  <2> QED
    BY <2>1, <2>2 DEF TypeOK
<1>4. ThreadShape
  BY <1>1, ThreadAssumption DEF ThreadShape, Fresh
<1>5. \A n \in Nodes : PendingIn(n) = InEdges(n)
  BY DEF PendingIn, Pending
<1>6. RefsExact
  BY <1>5 DEF RefsExact
<1>7. \A n \in Nodes : node_refs[n] = 0 <=> n \in roots
  BY <1>2, FS_EmptySet DEF RootNodes
<1>8. \A n \in Nodes : InPlay(n) <=> n \in roots
  BY <1>1, GraphAssumption DEF InPlay, Fresh
<1>9. InPlayReady /\ NothingLost
  BY <1>7, <1>8 DEF InPlayReady, NothingLost
<1>10. SetsApart /\ CallerShape /\ QuietAfterWait
  BY DEF SetsApart, CallerShape, QuietAfterWait
<1>11. HandsApart
  BY <1>1, <1>3, GraphAssumption DEF HandsApart, Fresh, Counting, TypeOK
<1>12. OutstandingExact
  <2>1. Active = {}
    BY <1>1 DEF Active
  <2> QED
    BY <2>1, FS_EmptySet DEF OutstandingExact
<1> QED
  BY <1>3, <1>4, <1>6, <1>9, <1>10, <1>11, <1>12 DEF IInv

\* Every step of the caller, of a thread and of the outside keeps it.
LEMMA NextIInv == IInv /\ [Next]_vars => IInv'
<1> SUFFICES ASSUME IInv, [Next]_vars PROVE IInv'
  OBVIOUS
<1>1. ASSUME NEW n \in Nodes, EnqueueRoot(n) PROVE IInv'
  BY <1>1, EnqueueRootKeeps
<1>2. CASE RootsEnqueued
  <2>1. CallerShape' /\ QuietAfterWait'
    BY <1>2 DEF RootsEnqueued, CallerShape, QuietAfterWait
  <2> QED
    BY <1>2, <2>1, CallerMovesKeep DEF RootsEnqueued, IInv, TypeOK
<1>3. CASE TestOutstanding
  <2>1. CallerShape' /\ QuietAfterWait'
    BY <1>3, NoneOutstanding DEF TestOutstanding, CallerShape, QuietAfterWait, IInv, Active
  <2> QED
    BY <1>3, <2>1, CallerMovesKeep DEF TestOutstanding, IInv, TypeOK
<1>4. CASE WakeSpuriously
  <2>1. CallerShape' /\ QuietAfterWait'
    BY <1>4 DEF WakeSpuriously, CallerShape, QuietAfterWait, IInv
  <2> QED
    BY <1>4, <2>1, CallerMovesKeep DEF WakeSpuriously, IInv, TypeOK
<1>5. CASE ReturnError
  <2>1. CallerShape' /\ QuietAfterWait'
    BY <1>5 DEF ReturnError, CallerShape, QuietAfterWait, IInv, Active
  <2> QED
    BY <1>5, <2>1, CallerMovesKeep DEF ReturnError, IInv, TypeOK
<1>6. CASE ReturnOk
  <2>1. CallerShape' /\ QuietAfterWait'
    BY <1>6 DEF ReturnOk, CallerShape, QuietAfterWait, IInv, Active
  <2> QED
    BY <1>6, <2>1, CallerMovesKeep DEF ReturnOk, IInv, TypeOK
<1>7. CASE DestroyExecutor
  <2>1. CallerShape' /\ QuietAfterWait'
    BY <1>7 DEF DestroyExecutor, CallerShape, QuietAfterWait, IInv, Active
  <2> QED
    BY <1>7, <2>1, CallerMovesKeep DEF DestroyExecutor, IInv, TypeOK
<1>8. CASE SetTerminate
  <2>1. CallerShape' /\ QuietAfterWait' /\ caller' = caller
    BY <1>8 DEF SetTerminate, CallerShape, QuietAfterWait, IInv, Active
  <2>2. terminate_flag' \in BOOLEAN
    BY <1>8 DEF SetTerminate
  <2> QED
    BY <1>8, <2>1, <2>2, CallerMovesKeep DEF SetTerminate, IInv, TypeOK
<1>9. ASSUME NEW t \in Threads, ThreadStep(t) PROVE IInv'
  <2>1. ASSUME NEW n \in queue, StartTask(t, n) PROVE IInv'
    BY <2>1, StartTaskKeeps
  <2>2. CASE CheckTerminate(t)
    BY <2>2, StaysFreshKeeps DEF CheckTerminate, At
  <2>3. CASE ComputeOk(t)
    BY <2>3, ComputeOkKeeps
  <2>4. CASE ComputeFails(t)
    BY <2>4, StaysFreshKeeps DEF ComputeFails, At
  <2>5. CASE LockRefs(t)
    BY <2>5, LockRefsKeeps
  <2>6. ASSUME NEW e \in Edges, CountDown(t, e) PROVE IInv'
    BY <2>6, CountDownKeeps
  <2>7. CASE UnlockRefs(t)
    BY <2>7, UnlockRefsKeeps
  <2>8. CASE FinishNodeRun(t)
    BY <2>8, FinishNodeRunKeeps
  <2>9. CASE Notify(t)
    BY <2>9, NotifyKeeps
  <2> QED
    BY <1>9, <2>1, <2>2, <2>3, <2>4, <2>5, <2>6, <2>7, <2>8, <2>9 DEF ThreadStep
<1>10. CASE UNCHANGED vars
  <2>1. CallerShape' /\ QuietAfterWait' /\ terminate_flag' \in BOOLEAN
    BY <1>10 DEF vars, CallerShape, QuietAfterWait, IInv, Active, TypeOK
  <2> QED
    BY <1>10, <2>1, CallerMovesKeep DEF vars, IInv, TypeOK
<1> QED
  BY <1>1, <1>2, <1>3, <1>4, <1>5, <1>6, <1>7, <1>8, <1>9, <1>10
     DEF Next, CallerStep, Finished

\* The invariant, for every graph, pool and order of steps.
THEOREM InvariantHolds == Spec => []IInv
BY InitIInv, NextIInv, PTL DEF Spec

\* Types of the executor's state: node_refs_ and out_standings_ never go
\* below zero.
THEOREM TypeCorrect == Spec => []TypeOK
<1>1. IInv => TypeOK
  BY DEF IInv
<1> QED
  BY <1>1, InvariantHolds, PTL

\* Once the caller has left the wait, no kernel runs and none is queued.
THEOREM AlwaysQuietAfterWait == Spec => []QuietAfterWait
<1>1. IInv => QuietAfterWait
  BY DEF IInv
<1> QED
  BY <1>1, InvariantHolds, PTL

\* out_standings_ is the number of tasks queued or under way.
THEOREM AlwaysOutstandingExact == Spec => []OutstandingExact
<1>1. IInv => OutstandingExact
  BY DEF IInv
<1> QED
  BY <1>1, InvariantHolds, PTL

\* No node is in the hands of two threads, or of one and of the queue.
THEOREM AlwaysDistinct == Spec => []NodesInHandDistinct
<1>1. IInv => NodesInHandDistinct
  <2> SUFFICES ASSUME IInv PROVE NodesInHandDistinct
    OBVIOUS
  <2> DEFINE held == {t \in Threads : thr[t].pc \in {"check", "compute", "lock", "edges"}}
  <2>1. \A t \in held : Fresh(t) \/ (Counting(t) /\ thr[t].node \in computed)
    BY DEF IInv, Fresh, Counting, ThreadShape
  <2>2. \A t, u \in held : thr[t].node = thr[u].node => t = u
    BY <2>1 DEF IInv, HandsApart
  <2>3. \A t \in held : thr[t].node \notin queue \cup errors
    BY <2>1 DEF IInv, HandsApart, SetsApart
  <2> QED
    BY <2>2, <2>3 DEF NodesInHandDistinct
<1> QED
  BY <1>1, InvariantHolds, PTL

-----------------------------------------------------------------------------
(* The executor implements GraphExecution *)

\* When the pool is quiet and there is no error every node was computed: of
\* those that were not, one of least rank would have no pending edge, so it
\* would be in play, and no thread and no queue has it.
LEMMA AllComputed ==
    ASSUME IInv, caller = "collect", errors = {}
    PROVE  computed = Nodes
<1>1. queue = {} /\ Active = {} /\ roots = {}
  BY DEF IInv, QuietAfterWait, CallerShape
<1>2. \A t \in Threads : /\ thr[t].pc \in {"idle", "notify"} /\ ~ Fresh(t)
                         /\ thr[t].todo = {} /\ thr[t].kept = NoNode
  BY <1>1 DEF Active, IInv, ThreadShape, Fresh
<1>3. \A n \in Nodes : InPlay(n) => n \in computed
  BY <1>1, <1>2, GraphAssumption DEF InPlay
<1>4. \A e \in Edges : Pending(e) => e.from \notin computed
  BY <1>2 DEF Pending, At
<1> DEFINE left == Nodes \ computed
<1> SUFFICES ASSUME left # {} PROVE FALSE
  BY DEF IInv, TypeOK
<1>5. PICK rank \in [Nodes -> 0 .. Cardinality(Nodes)] : \A e \in Edges : rank[e.from] < rank[e.to]
  BY GraphAssumption DEF Acyclic
<1>6. Cardinality(Nodes) \in Nat
  BY FS_CardinalityType, GraphAssumption
<1>7. \A n \in Nodes : rank[n] \in Nat
  BY <1>5, <1>6
<1>8. PICK n \in left : \A m \in left : ~ rank[m] < rank[n]
  <2> DEFINE ranks == {rank[m] : m \in left}
  <2>1. ranks \subseteq Nat /\ ranks # {}
    BY <1>7
  <2>2. PICK r \in ranks : \A q \in ranks : <<q, r>> \notin OpToRel(<, Nat)
    BY <2>1, NatLessThanWellFounded, WFMin
  <2>3. \A q \in ranks : ~ q < r
    BY <2>1, <2>2 DEF OpToRel
  <2> QED
    BY <2>3
<1>9. \A e \in InEdges(n) : e.from \in computed
  BY <1>5, <1>8, GraphAssumption DEF InEdges
<1>10. PendingIn(n) = {}
  BY <1>4, <1>9 DEF PendingIn, InEdges
<1>11. node_refs[n] = 0
  BY <1>10, FS_EmptySet DEF IInv, RefsExact
<1> QED
  BY <1>3, <1>11 DEF IInv, NothingLost

\* A step that moves no thread to or from a kernel and does not return is
\* invisible under the refinement mapping.
LEMMA Stutters ==
    ASSUME \A u \in Threads : /\ At(u, "compute")' <=> At(u, "compute")
                              /\ At(u, "compute") => thr'[u].node = thr[u].node,
           GivenUp' = GivenUp, computed' = computed, Outcome' = Outcome
    PROVE  UNCHANGED Abstract!vars
<1>1. Running' = Running
  BY DEF Running
<1> QED
  BY <1>1 DEF Abstract!vars

\* While a thread is active Execute has not returned.
LEMMA ActiveBeforeReturn ==
    ASSUME IInv, NEW t \in Threads, thr[t].pc \notin {"idle", "notify"}
    PROVE  Outcome = "none"
BY DEF IInv, QuietAfterWait, Active, Outcome

\* CheckTerminate begins the kernel or abandons it.
LEMMA CheckTerminateRefines ==
    ASSUME IInv, NEW t \in Threads, CheckTerminate(t)
    PROVE  Abstract!Next
<1> DEFINE n == thr[t].node
<1>1. /\ thr[t].pc = "check" /\ n \in Nodes /\ Outcome = "none"
      /\ UNCHANGED <<errors, caller, computed>>
  BY ActiveBeforeReturn DEF CheckTerminate, At, IInv, ThreadShape, Fresh
<1>2. /\ \A u \in Threads \ {t} : thr'[u] = thr[u]
      /\ thr'[t].pc = (IF terminate_flag THEN "bad" ELSE "compute") /\ thr'[t].node = n
  BY DEF IInv, TypeOK, CheckTerminate, Goto
<1>3. n \notin Running \cup computed \cup GivenUp
  <2>1. Fresh(t) /\ n \notin computed \cup errors
    BY <1>1 DEF IInv, HandsApart, Fresh
  <2>2. \A u \in Threads : thr[u].pc \in {"compute", "bad"} => thr[u].node # n
    BY <1>1, <2>1 DEF IInv, HandsApart, Fresh
  <2> QED
    BY <2>1, <2>2 DEF Running, GivenUp, At
<1>4. Abstract!Inputs(n) \subseteq computed
  <2>1. node_refs[n] = 0
    BY <1>1 DEF IInv, InPlayReady, InPlay, Fresh
  <2>2. PendingIn(n) = {}
    BY <1>1, <2>1, Finite, FS_EmptySet DEF IInv, RefsExact
  <2> QED
    BY <2>2 DEF PendingIn, Pending, InEdges, Abstract!Inputs
<1>5. Outcome' = "none"
  BY <1>1 DEF Outcome
<1>6. CASE terminate_flag
  <2>1. Running' = Running
    BY <1>1, <1>2, <1>6 DEF Running, At
  <2>2. GivenUp' = GivenUp \cup {n}
    BY <1>1, <1>2, <1>6 DEF GivenUp, At
  <2> QED
    BY <2>1, <2>2, <1>1, <1>3, <1>5 DEF Abstract!Next, Abstract!Abandon
<1>7. CASE ~ terminate_flag
  <2>1. Running' = Running \cup {n}
    BY <1>1, <1>2, <1>7 DEF Running, At
  <2>2. GivenUp' = GivenUp
    BY <1>1, <1>2, <1>7 DEF GivenUp, At
  <2> QED
    BY <2>1, <2>2, <1>1, <1>3, <1>4, <1>5 DEF Abstract!Next, Abstract!Start
<1> QED
  BY <1>6, <1>7

\* The end of a kernel, with OK or not.
LEMMA ComputeRefines ==
    ASSUME IInv, NEW t \in Threads, ComputeOk(t) \/ ComputeFails(t)
    PROVE  Abstract!Next
<1> DEFINE n == thr[t].node
<1>1. /\ thr[t].pc = "compute" /\ n \in Nodes
      /\ UNCHANGED <<errors, caller>> /\ n \in Running
  BY DEF ComputeOk, ComputeFails, At, IInv, ThreadShape, Fresh, Running
<1>2. /\ \A u \in Threads \ {t} : thr'[u] = thr[u] /\ (thr[u].pc = "compute" => thr[u].node # n)
      /\ thr'[t].pc # "compute" /\ thr'[t].node = n
  BY <1>1 DEF IInv, TypeOK, ComputeOk, ComputeFails, Goto, HandsApart, Fresh
<1>3. Running' = Running \ {n}
  BY <1>1, <1>2 DEF Running, At
<1>4. Outcome' = Outcome
  BY <1>1 DEF Outcome
<1>5. CASE ComputeOk(t)
  <2>1. thr'[t].pc = "lock" /\ computed' = computed \cup {n}
    BY <1>5 DEF IInv, TypeOK, ComputeOk, Goto
  <2>2. GivenUp' = GivenUp
    BY <2>1, <1>1, <1>2 DEF GivenUp, At
  <2> QED
    BY <2>1, <2>2, <1>1, <1>3, <1>4 DEF Abstract!Next, Abstract!Complete
<1>6. CASE ComputeFails(t)
  <2>1. thr'[t].pc = "bad" /\ computed' = computed
    BY <1>6 DEF IInv, TypeOK, ComputeFails, Goto
  <2>2. GivenUp' = GivenUp \cup {n}
    BY <2>1, <1>1, <1>2 DEF GivenUp, At
  <2> QED
    BY <2>1, <2>2, <1>1, <1>3, <1>4 DEF Abstract!Next, Abstract!Fail
<1> QED
  BY <1>5, <1>6

\* Execute returns.
LEMMA ReturnRefines ==
    ASSUME IInv, ReturnOk \/ ReturnError
    PROVE  Abstract!Next
<1>1. /\ caller = "collect" /\ UNCHANGED <<thr, errors, computed>>
      /\ \/ caller' = "ok" /\ errors = {}
         \/ caller' = "error"
  BY DEF ReturnOk, ReturnError
<1>2. Running = {}
  BY <1>1 DEF IInv, QuietAfterWait, Active, Running, At
<1>3. Running' = Running /\ GivenUp' = GivenUp
  BY <1>1 DEF Running, GivenUp, At
<1>4. /\ Outcome = "none"
      /\ \/ Outcome' = "ok" /\ computed = Nodes
         \/ Outcome' = "error"
  BY <1>1, AllComputed DEF Outcome
<1> QED
  BY <1>1, <1>2, <1>3, <1>4 DEF Abstract!Next, Abstract!Return

\* A step of the caller that does not return is invisible.
LEMMA CallerStutters ==
    ASSUME UNCHANGED <<thr, errors, computed>>, Outcome' = Outcome
    PROVE  UNCHANGED Abstract!vars
BY DEF Abstract!vars, Running, GivenUp, At

\* The steps of a thread between kernels.
LEMMA ThreadStutters ==
    ASSUME IInv, NEW t \in Threads,
           \/ \E n \in queue : StartTask(t, n)
           \/ LockRefs(t) \/ UnlockRefs(t) \/ FinishNodeRun(t) \/ Notify(t)
           \/ \E e \in Edges : CountDown(t, e)
    PROVE  UNCHANGED Abstract!vars
<1> DEFINE Moves == /\ thr[t].pc \notin {"check", "compute"} /\ computed' = computed
                    /\ \A u \in Threads \ {t} : thr'[u] = thr[u]
                    /\ thr'[t].pc \notin {"compute", "bad"}
<1>1. Moves
  <2> USE DEF IInv, TypeOK, At
  <2>1. ASSUME NEW n \in queue, StartTask(t, n) PROVE Moves
    BY <2>1 DEF StartTask, RunFrom
  <2>2. CASE LockRefs(t)
    BY <2>2 DEF LockRefs
  <2>3. CASE UnlockRefs(t)
    BY <2>3 DEF UnlockRefs, RunFrom
  <2>4. CASE FinishNodeRun(t)
    BY <2>4 DEF FinishNodeRun, Idle
  <2>5. CASE Notify(t)
    BY <2>5 DEF Notify, Idle
  <2>6. ASSUME NEW e \in Edges, CountDown(t, e) PROVE Moves
    <3>1. PICK k : thr' = [thr EXCEPT ![t].todo = @ \ {e}, ![t].kept = k]
      BY <2>6 DEF CountDown
    <3>2. thr[t].pc = "edges" /\ computed' = computed
      BY <2>6 DEF CountDown
    <3> QED
      BY <3>1, <3>2
  <2> QED
    BY <2>1, <2>2, <2>3, <2>4, <2>5, <2>6
<1>2. GivenUp' = GivenUp
  <2>1. errors' = IF thr[t].pc = "bad" THEN errors \cup {thr[t].node} ELSE errors
    BY DEF At, StartTask, LockRefs, UnlockRefs, FinishNodeRun, Notify, CountDown
  <2> QED
    BY <2>1, <1>1 DEF GivenUp, At
<1>3. Outcome' = Outcome
  BY DEF StartTask, LockRefs, UnlockRefs, FinishNodeRun, Notify, CountDown, Outcome
<1> QED
  BY <1>1, <1>2, <1>3, Stutters DEF At

\* The executor implements what Execute promises: a kernel is computed once
\* and after its inputs, none runs after the return, and OK means that every
\* kernel was computed.
THEOREM Implements == Spec => ImplementsExecution
<1>1. Init => Abstract!Init
  BY DEF Init, Abstract!Init, Running, GivenUp, Outcome, At, Idle
<1>2. IInv /\ [Next]_vars => [Abstract!Next]_(Abstract!vars)
  <2> SUFFICES ASSUME IInv, [Next]_vars PROVE Abstract!Next \/ UNCHANGED Abstract!vars
    OBVIOUS
  <2>1. ASSUME NEW t \in Threads, ThreadStep(t) PROVE Abstract!Next \/ UNCHANGED Abstract!vars
    BY <2>1, CheckTerminateRefines, ComputeRefines, ThreadStutters DEF ThreadStep
  <2>2. ASSUME NEW n \in Nodes, EnqueueRoot(n) PROVE UNCHANGED Abstract!vars
    BY <2>2, CallerStutters DEF EnqueueRoot, Outcome
  <2>3. CASE RootsEnqueued \/ TestOutstanding \/ WakeSpuriously \/ DestroyExecutor \/ SetTerminate
    BY <2>3, CallerStutters
       DEF RootsEnqueued, TestOutstanding, WakeSpuriously, DestroyExecutor, SetTerminate, Outcome
  <2>4. CASE UNCHANGED vars
    BY <2>4, CallerStutters DEF vars, Outcome
  <2> QED
    BY <2>1, <2>2, <2>3, <2>4, ReturnRefines DEF Next, CallerStep, Finished
<1> QED
  BY <1>1, <1>2, InvariantHolds, PTL DEF Spec, ImplementsExecution, Abstract!Spec
=============================================================================
