---------------------------- MODULE PlannerProofs ----------------------------
(***************************************************************************)
(* What AllocationPlanner guarantees of the plan it makes, for every graph *)
(* that Resolve accepts: use counts are exact while it works, a buffer is  *)
(* on the free list once and after its last use, a value is put in a       *)
(* buffer only with the data it passes on or when all that was in it is    *)
(* dead, and the ranges of the deallocation plan are the values that die   *)
(* at each step.                                                           *)
(***************************************************************************)
EXTENDS PlannedExecution, FiniteSetTheorems, SequenceTheorems, WellFoundedInduction, TLAPS

ValuesOf(g) == DOMAIN g.size
StepsOf(g) == DOMAIN g.nodes

\* Arguments of a node that it reads; the others are its outputs.
NumUses(n) == Len(n.inputs) + Len(n.implicit)

Phases == {"count", "outputs", "release", "fence", "dealloc", "planned"}

\* The loop over the steps is over.
Late == {"fence", "dealloc", "planned"}

\* Output j of step p has been planned when the planner stands at a.
Reached(a, p, j) ==
    \/ a.phase \in Late
    \/ a.phase \in {"outputs", "release"} /\ p < a.step
    \/ a.phase = "outputs" /\ p = a.step /\ j < a.arg
    \/ a.phase = "release" /\ p = a.step

\* The use c of a value has been counted down.
Closed(a, c) ==
    /\ c[1] # 0
    /\ \/ a.phase \in Late
       \/ a.phase \in {"outputs", "release"} /\ c[1] < a.step
       \/ a.phase = "release" /\ c[1] = a.step /\ c[2] < a.arg

\* The uses still to come of the values in buffer b.
OpenFor(g, a, B, b) == {c \in Claims(g) : ~Closed(a, c) /\ B[c[3]] = b}

\* The value exists before step p.
Before(g, v, p) == v \in Given(g) \/ \E q \in StepsOf(g) : q < p /\ v \in Defs(g.nodes[q])

\* It exists before output j of step p is planned.
Earlier(g, v, p, j) == Before(g, v, p) \/ \E i \in 1 .. j - 1 : DefinedAt(g, v, p, i)

\* Nobody needs the value once step p, which may work in place, has read it.
Dead(g, v, p) ==
    \A c \in Claims(g) : c[3] = v =>
        /\ c[1] # 0
        /\ \/ c[1] < p
           \/ /\ c[1] = p /\ g.nodes[p].inplace # <<>>
              /\ c[2] <= NumUses(g.nodes[p])

\* The planner stands at a place of one of its loops.
AtOK(g, a, F) ==
    /\ a \in [phase : Phases, step : Nat, arg : Nat] /\ a.step \in StepsOf(g)
    /\ \/ a.phase = "count" /\ a.step = 1 /\ a.arg = 1
       \/ a.phase = "outputs" /\ a.arg \in 1 .. Len(g.nodes[a.step].outputs) + 1
       \/ a.phase = "release" /\ a.arg \in 1 .. Len(Arguments(g.nodes[a.step])) + 1
       \/ a.phase \in Late /\ a.arg <= Len(F) /\ (a.phase = "fence" => a.arg = Len(F))

\* A value is in its own buffer or in one that existed before it; one that is
\* not planned yet has its buffer for itself.
RootsOK(g, a, B) ==
    /\ B \in [ValuesOf(g) -> ValuesOf(g)]
    /\ \A v \in ValuesOf(g) : B[B[v]] = B[v]
    /\ \A v \in ValuesOf(g) : B[v] # v =>
          \E p \in StepsOf(g) : \E j \in DOMAIN g.nodes[p].outputs :
              DefinedAt(g, v, p, j) /\ Reached(a, p, j) /\ Before(g, B[v], p)
    /\ \A v, w \in ValuesOf(g) : \A p \in StepsOf(g) : \A j \in DOMAIN g.nodes[p].outputs :
          DefinedAt(g, v, p, j) /\ ~Reached(a, p, j) /\ B[w] = v => w = v

\* The count of a buffer is the number of uses still to come.
CountsOK(g, a, B, uc) ==
    /\ uc \in [ValuesOf(g) -> Int]
    /\ a.phase # "count" =>
          \A b \in ValuesOf(g) : B[b] = b => uc[b] = Cardinality(OpenFor(g, a, B, b))

\* Output j of step p is put in the buffer of an input whose data it passes on.
Passes(g, B, w, p, j) ==
    \E u \in Uses(g.nodes[p]) : PassedOn(g.nodes[p], j) = {u} /\ B[u] = B[w]

\* It takes over a buffer in which all is dead.
TakesOver(g, B, w, p, j) ==
    /\ \A v \in ValuesOf(g) : B[v] = B[w] /\ Earlier(g, v, p, j) => Dead(g, v, p)
    /\ g.parallel => g.nodes[p].inplace # <<>>

SharedOK(g, B, w, p, j) ==
    /\ Passes(g, B, w, p, j) \/ TakesOver(g, B, w, p, j)
    /\ g.parallel => \E u \in Uses(g.nodes[p]) : B[u] = B[w]

SharingOK(g, B) ==
    \A w \in ValuesOf(g) : \A p \in StepsOf(g) : \A j \in DOMAIN g.nodes[p].outputs :
        DefinedAt(g, w, p, j) /\ B[w] # w => SharedOK(g, B, w, p, j)

\* An entry of the free list is a buffer that was used for the last time at
\* its point.
EntryOK(g, a, B, e) ==
    /\ B[e.value] = e.value
    /\ OpenFor(g, a, B, e.value) = {}
    /\ \A c \in Claims(g) : B[c[3]] = e.value => c[1] # 0 /\ c[1] <= e.point
    /\ \E c \in Claims(g) : B[c[3]] = e.value /\ c[1] = e.point

FreeOK(g, a, B, F) ==
    /\ F \in Seq([value : ValuesOf(g), point : StepsOf(g)])
    /\ \A i \in DOMAIN F : EntryOK(g, a, B, F[i])
    /\ \A i, k \in DOMAIN F : i < k => F[i].value # F[k].value /\ F[i].point >= F[k].point

\* The frame allocates the values that have their own buffer.
KindOK(g, B, kind) ==
    /\ kind \in [ValuesOf(g) -> {"kAllocate", "kAllocateOutput", "kAllocateStatically",
                                 "kPreExisting", "kReuse", "kShare"}]
    /\ \A v \in ValuesOf(g) \ Given(g) : kind[v] \in {"kAllocate", "kAllocateOutput"} <=> B[v] = v

\* The entry that GenerateDeallocationPlan takes as the k-th.
FromBack(F, k) == F[Len(F) + 1 - k]

\* Entries of the first m that die at step p.
DyingAt(F, m, p) == {k \in 1 .. m : FromBack(F, k).point = p}

\* The last of the first m entries opened a range that is not closed yet.
OpenRange(F, m, p) == m > 0 /\ p > 1 /\ p = FromBack(F, m).point

DeallocType(g) ==
    [to_be_freed : Seq(ValuesOf(g)), from : [StepsOf(g) -> Nat], to : [StepsOf(g) -> Nat],
     prev : Nat, has_prev : BOOLEAN]

\* The ranges are right after m entries; closed says that the last is closed.
RangesOK(g, F, d, m, closed) ==
    /\ d \in DeallocType(g)
    /\ d.to_be_freed \in Seq(ValuesOf(g)) /\ Len(d.to_be_freed) = m
    /\ \A k \in 1 .. m : d.to_be_freed[k] = FromBack(F, k).value
    /\ d.from \in [StepsOf(g) -> Nat] /\ d.to \in [StepsOf(g) -> Nat]
    /\ d.prev = IF m = 0 THEN 1 ELSE FromBack(F, m).point
    /\ d.has_prev \in BOOLEAN /\ (d.has_prev <=> m > 0 /\ FromBack(F, m).point > 1)
    /\ d.from[1] = 1 /\ d.to[1] = 0
    /\ \A p \in StepsOf(g) \ {1} :
          DyingAt(F, m, p) = d.from[p] .. (IF OpenRange(F, m, p) /\ ~closed THEN m ELSE d.to[p])

DeallocOK(g, a, F, d) ==
    /\ a.phase \notin {"dealloc", "planned"} => RangesOK(g, F, d, 0, FALSE)
    /\ a.phase = "dealloc" => RangesOK(g, F, d, Len(F) - a.arg, FALSE)
    /\ a.phase = "planned" => RangesOK(g, F, d, Len(F), TRUE)

\* The inductive invariant of the planner.
PlanInv ==
    /\ GraphOK(graph)
    /\ AtOK(graph, at, freelist)
    /\ RootsOK(graph, at, buffer)
    /\ CountsOK(graph, at, buffer, usecount)
    /\ SharingOK(graph, buffer)
    /\ FreeOK(graph, at, buffer, freelist)
    /\ KindOK(graph, buffer, alloc_kind)
    /\ DeallocOK(graph, at, freelist, dealloc)

-----------------------------------------------------------------------------
(* Graphs. *)

\* What GraphOK says of the parts of a graph.
LEMMA GraphFacts ==
    ASSUME NEW g, GraphOK(g)
    PROVE  /\ Len(g.nodes) \in Nat \ {0} /\ StepsOf(g) = 1 .. Len(g.nodes)
           /\ \A p \in StepsOf(g) : g.nodes[p] \in NodeType(ValuesOf(g)) /\ KernelOK(g.nodes[p])
           /\ NoValue \notin ValuesOf(g) /\ IsFiniteSet(ValuesOf(g))
           /\ Given(g) \subseteq ValuesOf(g) /\ g.graph_outputs \subseteq ValuesOf(g)
           /\ 1 \in StepsOf(g)
<1>1. g.nodes \in Seq(NodeType(ValuesOf(g))) /\ g.nodes # <<>>
  BY DEF GraphOK, ValuesOf
<1>2. Len(g.nodes) \in Nat \ {0} /\ StepsOf(g) = 1 .. Len(g.nodes)
  BY <1>1 DEF StepsOf
<1>3. \A p \in StepsOf(g) : g.nodes[p] \in NodeType(ValuesOf(g))
  BY <1>1 DEF StepsOf
<1> QED BY <1>2, <1>3 DEF GraphOK, ValuesOf, StepsOf

\* One sequence after another.
LEMMA JoinFacts ==
    ASSUME NEW W, NEW s \in Seq(W), NEW t \in Seq(W), NEW u, u = s \o t
    PROVE  /\ u \in Seq(W) /\ Len(u) = Len(s) + Len(t) /\ DOMAIN u = 1 .. Len(s) + Len(t)
           /\ Len(s) \in Nat /\ Len(t) \in Nat
           /\ \A i \in 1 .. Len(s) : u[i] = s[i]
           /\ \A j \in 1 .. Len(t) : u[Len(s) + j] = t[j]
<1>1. u \in Seq(W) /\ Len(u) = Len(s) + Len(t) /\ Len(s) \in Nat /\ Len(t) \in Nat
  BY ConcatProperties
<1>2. DOMAIN u = 1 .. Len(s) + Len(t)
  BY <1>1
<1>3. \A i \in 1 .. Len(s) + Len(t) : u[i] = IF i <= Len(s) THEN s[i] ELSE t[i - Len(s)]
  BY ConcatProperties
<1>4. \A i \in 1 .. Len(s) : u[i] = s[i]
  BY <1>1, <1>3
<1>5. ASSUME NEW j \in 1 .. Len(t) PROVE u[Len(s) + j] = t[j]
  <2>1. Len(s) + j \in 1 .. Len(s) + Len(t) /\ ~(Len(s) + j <= Len(s)) /\ Len(s) + j - Len(s) = j
    BY <1>1
  <2> QED BY <1>3, <2>1
<1> QED BY <1>1, <1>2, <1>4, <1>5

\* What is where in args, which is s, t and o in turn.
Joined(W, s, t, o, st, args, m) ==
    /\ st \in Seq(W) /\ Len(st) = m /\ DOMAIN st = 1 .. m /\ m \in Nat
    /\ args \in Seq(W) /\ Len(args) = m + Len(o) /\ DOMAIN args = 1 .. m + Len(o)
    /\ \A k \in 1 .. m : args[k] = st[k] /\ args[k] \in W
    /\ \A j \in 1 .. Len(o) : args[m + j] = o[j] /\ m + j \in DOMAIN args
    /\ \A k \in DOMAIN args : args[k] \in W
    /\ \A i \in DOMAIN s : i \in 1 .. m /\ args[i] = s[i]
    /\ \A j \in 1 .. Len(o) : o[j] \in W
    /\ Len(o) \in Nat /\ DOMAIN o = 1 .. Len(o)

\* Three sequences, one after another.
LEMMA JoinedThree ==
    ASSUME NEW W, NEW s \in Seq(W), NEW t \in Seq(W), NEW o \in Seq(W),
           NEW st, st = s \o t, NEW args, args = st \o o, NEW m, m = Len(s) + Len(t)
    PROVE  Joined(W, s, t, o, st, args, m)
<1>1. /\ st \in Seq(W) /\ Len(st) = Len(s) + Len(t) /\ DOMAIN st = 1 .. Len(s) + Len(t)
      /\ Len(s) \in Nat /\ Len(t) \in Nat
      /\ \A i \in 1 .. Len(s) : st[i] = s[i]
  BY JoinFacts
<1>2. m \in Nat /\ Len(st) = m /\ DOMAIN st = 1 .. m
  BY <1>1
<1>3. /\ args \in Seq(W) /\ Len(args) = Len(st) + Len(o) /\ DOMAIN args = 1 .. Len(st) + Len(o)
      /\ Len(o) \in Nat
      /\ \A k \in 1 .. Len(st) : args[k] = st[k]
      /\ \A j \in 1 .. Len(o) : args[Len(st) + j] = o[j]
  BY <1>1, JoinFacts
<1>4. \A k \in DOMAIN args : args[k] \in W
  BY <1>3
<1>5. DOMAIN s = 1 .. Len(s) /\ DOMAIN o = 1 .. Len(o) /\ \A j \in 1 .. Len(o) : o[j] \in W
  OBVIOUS
<1>6. \A k \in 1 .. m : args[k] = st[k] /\ k \in DOMAIN args
  BY <1>2, <1>3
<1>7. \A j \in 1 .. Len(o) : args[m + j] = o[j] /\ m + j \in DOMAIN args
  BY <1>2, <1>3
<1>8. \A i \in DOMAIN s : i \in 1 .. m
  BY <1>1, <1>2, <1>5
<1>9. \A i \in DOMAIN s : args[i] = s[i]
  BY <1>1, <1>5, <1>6, <1>8
<1> QED BY <1>1, <1>2, <1>3, <1>4, <1>5, <1>6, <1>7, <1>8, <1>9 DEF Joined

\* What is where among the arguments of a node.
NodeShape(V, n) ==
    /\ NumUses(n) \in Nat /\ Len(n.outputs) \in Nat
    /\ Len(Arguments(n)) = NumUses(n) + Len(n.outputs)
    /\ DOMAIN Arguments(n) = 1 .. NumUses(n) + Len(n.outputs)
    /\ DOMAIN n.outputs = 1 .. Len(n.outputs)
    /\ \A k \in DOMAIN Arguments(n) : Exists(Arguments(n)[k]) => Arguments(n)[k] \in V
    /\ \A k \in 1 .. NumUses(n) : Exists(Arguments(n)[k]) => Arguments(n)[k] \in Uses(n)
    /\ \A j \in 1 .. Len(n.outputs) :
          Arguments(n)[NumUses(n) + j] = n.outputs[j] /\ NumUses(n) + j \in DOMAIN Arguments(n)
    /\ \A u \in Uses(n) : u \in V /\ \E k \in 1 .. NumUses(n) : Arguments(n)[k] = u
    /\ \A v \in Defs(n) : v \in V /\ \E j \in 1 .. Len(n.outputs) : n.outputs[j] = v
    /\ \A j \in 1 .. Len(n.outputs) : Exists(n.outputs[j]) => n.outputs[j] \in Defs(n)
    /\ \A i \in DOMAIN n.inputs : Exists(n.inputs[i]) =>
          /\ n.inputs[i] \in Uses(n) /\ i \in 1 .. NumUses(n)
          /\ Arguments(n)[i] = n.inputs[i]

\* The arguments of a node are its inputs, implicit inputs and outputs in turn.
LEMMA NodeFacts ==
    ASSUME NEW V, NEW n \in NodeType(V), NoValue \notin V
    PROVE  NodeShape(V, n)
<1>0. PICK m, args : m = NumUses(n) /\ args = Arguments(n)
  OBVIOUS
<1>1. PICK W : W = V \cup {NoValue}
  OBVIOUS
<1>2. PICK s, t, o : s = n.inputs /\ t = n.implicit /\ o = n.outputs
  OBVIOUS
<1>3. s \in Seq(W) /\ t \in Seq(W) /\ o \in Seq(W)
  BY <1>1, <1>2 DEF NodeType
<1>4. PICK st : st = s \o t
  OBVIOUS
<1>5. args = st \o o /\ m = Len(s) + Len(t)
  BY <1>0, <1>2, <1>4 DEF Arguments, NumUses
<1>6. Joined(W, s, t, o, st, args, m)
  BY <1>3, <1>4, <1>5, JoinedThree
<1>8. Uses(n) = {st[k] : k \in DOMAIN st} \ {NoValue}
  BY <1>2, <1>4 DEF Uses, Range
<1>9. Defs(n) = {o[j] : j \in DOMAIN o} \ {NoValue}
  BY <1>2 DEF Defs, Range
<1>10. \A k \in DOMAIN args : Exists(args[k]) => args[k] \in V
  BY <1>1, <1>6 DEF Exists, Joined
<1>11. \A k \in 1 .. m : Exists(args[k]) => args[k] \in Uses(n)
  BY <1>6, <1>8 DEF Exists, Joined
<1>12. ASSUME NEW u \in Uses(n) PROVE u \in V /\ \E k \in 1 .. m : args[k] = u
  <2>1. PICK k \in DOMAIN st : u = st[k] /\ u # NoValue
    BY <1>8
  <2>2. k \in 1 .. m /\ args[k] = u /\ u \in W
    BY <1>6, <2>1 DEF Joined
  <2> QED BY <1>1, <2>1, <2>2
<1>13. \A v \in Defs(n) : v \in V /\ \E j \in 1 .. Len(o) : o[j] = v
  BY <1>1, <1>6, <1>9 DEF Joined
<1>16. \A i \in DOMAIN s : Exists(s[i]) => s[i] \in Uses(n) /\ i \in 1 .. m /\ args[i] = s[i]
  BY <1>6, <1>11 DEF Joined
<1>17. \A j \in 1 .. Len(o) : Exists(o[j]) => o[j] \in Defs(n)
  BY <1>6, <1>9 DEF Joined, Exists
<1> QED BY <1>0, <1>2, <1>6, <1>10, <1>11, <1>12, <1>13, <1>16, <1>17 DEF Joined, NodeShape

\* The node of a step.
LEMMA StepShape ==
    ASSUME NEW g, GraphOK(g), NEW p \in StepsOf(g)
    PROVE  NodeShape(ValuesOf(g), g.nodes[p])
BY GraphFacts, NodeFacts

\* A use is what its first two parts say.
ClaimOK(g, c) ==
    /\ c = <<c[1], c[2], c[3]>>
    /\ c[1] \in Nat /\ c[2] \in Nat /\ c[3] \in ValuesOf(g)
    /\ c[1] = 0 => c[3] \in Given(g) \cup g.graph_outputs
    /\ c[1] # 0 =>
          /\ c[1] \in StepsOf(g) /\ c[2] \in DOMAIN Arguments(g.nodes[c[1]])
          /\ Arguments(g.nodes[c[1]])[c[2]] = c[3]
          /\ c[2] <= NumUses(g.nodes[c[1]]) => c[3] \in Uses(g.nodes[c[1]])
          /\ ~(c[2] <= NumUses(g.nodes[c[1]])) =>
                DefinedAt(g, c[3], c[1], c[2] - NumUses(g.nodes[c[1]]))

\* An argument of a step is a use.
LEMMA SiteOK ==
    ASSUME NEW g, GraphOK(g), NEW p \in StepsOf(g), NEW k \in DOMAIN Arguments(g.nodes[p]),
           NEW v, v = Arguments(g.nodes[p])[k], Exists(v)
    PROVE  ClaimOK(g, <<p, k, v>>) /\ <<p, k, v>> \in Claims(g)
<1>1. PICK n, m, l : n = g.nodes[p] /\ m = NumUses(n) /\ l = Len(n.outputs)
  OBVIOUS
<1>2. NodeShape(ValuesOf(g), n)
  BY <1>1, StepShape
<1>3. m \in Nat /\ l \in Nat /\ k \in 1 .. m + l /\ v \in ValuesOf(g) /\ p \in Nat \ {0}
  BY <1>1, <1>2, GraphFacts DEF NodeShape
<1>4. k <= m => v \in Uses(n)
  <2>1. k <= m => k \in 1 .. m
    BY <1>3
  <2> QED BY <1>1, <1>2, <2>1 DEF NodeShape
<1>5. ASSUME ~(k <= m) PROVE DefinedAt(g, v, p, k - m)
  <2>1. PICK j \in 1 .. l : k = m + j /\ j = k - m
    BY <1>3, <1>5
  <2>2. n.outputs[j] = v /\ j \in DOMAIN n.outputs
    BY <1>1, <1>2, <2>1 DEF NodeShape
  <2> QED BY <1>1, <2>1, <2>2 DEF DefinedAt, StepsOf
<1>6. ClaimOK(g, <<p, k, v>>)
  BY <1>1, <1>3, <1>4, <1>5 DEF ClaimOK
<1>7. <<p, k, v>> \in NodeClaims(g, p)
  BY DEF NodeClaims
<1>8. <<p, k, v>> \in Claims(g)
  BY <1>7 DEF Claims, StepsOf
<1> QED BY <1>6, <1>8

\* Every use is one of a step's arguments, or one outside the graph.
LEMMA ClaimFacts ==
    ASSUME NEW g, GraphOK(g), NEW c \in Claims(g)
    PROVE  ClaimOK(g, c)
<1>1. CASE \E p \in StepsOf(g) : c \in NodeClaims(g, p)
  <2>1. PICK p \in StepsOf(g) : c \in NodeClaims(g, p)
    BY <1>1
  <2>2. PICK k \in DOMAIN Arguments(g.nodes[p]) :
           Exists(Arguments(g.nodes[p])[k]) /\ c = <<p, k, Arguments(g.nodes[p])[k]>>
    BY <2>1 DEF NodeClaims
  <2> QED BY <2>2, SiteOK
<1>2. CASE \E v \in Given(g) : c = <<0, 1, v>>
  BY <1>2, GraphFacts DEF ClaimOK
<1>3. CASE \E v \in g.graph_outputs : c = <<0, 2, v>>
  BY <1>3, GraphFacts DEF ClaimOK
<1> QED BY <1>1, <1>2, <1>3 DEF Claims, StepsOf

\* What a step reads is used at the step.
LEMMA UseClaim ==
    ASSUME NEW g, GraphOK(g), NEW p \in StepsOf(g), NEW u \in Uses(g.nodes[p])
    PROVE  u \in ValuesOf(g) /\ \E c \in Claims(g) : c[1] = p /\ c[3] = u /\ c[2] <= NumUses(g.nodes[p])
<1>1. PICK n : n = g.nodes[p]
  OBVIOUS
<1>2. NodeShape(ValuesOf(g), n)
  BY <1>1, StepShape
<1>3. PICK k \in 1 .. NumUses(n) : Arguments(n)[k] = u /\ u \in ValuesOf(g) /\ k \in DOMAIN Arguments(n)
  BY <1>1, <1>2 DEF NodeShape
<1>4. Exists(u)
  BY <1>3, GraphFacts DEF Exists
<1>5. <<p, k, u>> \in Claims(g)
  BY <1>1, <1>3, <1>4, SiteOK
<1>6. k <= NumUses(n)
  BY <1>2, <1>3 DEF NodeShape
<1> QED BY <1>1, <1>3, <1>5, <1>6

\* What a step defines is used at the step, too, but not read.
LEMMA DefClaim ==
    ASSUME NEW g, GraphOK(g), NEW p, NEW j, NEW v \in ValuesOf(g), DefinedAt(g, v, p, j)
    PROVE  \E c \in Claims(g) : c[1] = p /\ c[3] = v /\ ~(c[2] <= NumUses(g.nodes[p]))
<1>0. p \in StepsOf(g)
  BY DEF DefinedAt, StepsOf
<1>1. PICK n, m : n = g.nodes[p] /\ m = NumUses(n)
  OBVIOUS
<1>2. NodeShape(ValuesOf(g), n)
  BY <1>0, <1>1, StepShape
<1>3. j \in 1 .. Len(n.outputs) /\ n.outputs[j] = v
  BY <1>1, <1>2 DEF DefinedAt, NodeShape
<1>4. m + j \in DOMAIN Arguments(n) /\ Arguments(n)[m + j] = v /\ m \in Nat /\ Len(n.outputs) \in Nat
  BY <1>1, <1>2, <1>3 DEF NodeShape
<1>5. Exists(v)
  BY GraphFacts DEF Exists
<1>6. <<p, m + j, v>> \in Claims(g)
  BY <1>0, <1>1, <1>4, <1>5, SiteOK
<1>7. ~(m + j <= m)
  BY <1>3, <1>4
<1> QED BY <1>1, <1>6, <1>7

\* There are finitely many uses.
LEMMA ClaimsFinite ==
    ASSUME NEW g, GraphOK(g)
    PROVE  IsFiniteSet(Claims(g))
<1>1. ASSUME NEW p \in StepsOf(g) PROVE IsFiniteSet(NodeClaims(g, p))
  <2>1. PICK args, l : args = Arguments(g.nodes[p]) /\ l \in Nat /\ DOMAIN args = 1 .. l
    BY StepShape DEF NodeShape
  <2>2. PICK K : K = {i \in DOMAIN args : Exists(args[i])}
    OBVIOUS
  <2>3. IsFiniteSet(1 .. l)
    BY <2>1, FS_Interval
  <2>4. IsFiniteSet(K)
    BY <2>1, <2>2, <2>3, FS_Subset
  <2>5. PICK f : f = [k \in K |-> <<p, k, args[k]>>]
    OBVIOUS
  <2>6. NodeClaims(g, p) = {f[k] : k \in K}
    BY <2>1, <2>2, <2>5 DEF NodeClaims
  <2>7. f \in Surjection(K, NodeClaims(g, p))
    BY <2>5, <2>6 DEF Surjection
  <2> QED BY <2>4, <2>7, FS_Surjection
<1>2. IsFiniteSet({NodeClaims(g, p) : p \in StepsOf(g)})
  <2>1. IsFiniteSet(StepsOf(g))
    BY GraphFacts, FS_Interval
  <2>2. PICK f : f = [p \in StepsOf(g) |-> NodeClaims(g, p)]
    OBVIOUS
  <2>3. f \in Surjection(StepsOf(g), {NodeClaims(g, p) : p \in StepsOf(g)})
    BY <2>2 DEF Surjection
  <2> QED BY <2>1, <2>3, FS_Surjection
<1>3. IsFiniteSet(UNION {NodeClaims(g, p) : p \in StepsOf(g)})
  BY <1>1, <1>2, FS_UNION
<1>4. ASSUME NEW S, S \subseteq ValuesOf(g), NEW k PROVE IsFiniteSet({<<0, k, v>> : v \in S})
  <2>1. IsFiniteSet(S)
    BY <1>4, GraphFacts, FS_Subset
  <2>2. PICK f : f = [v \in S |-> <<0, k, v>>]
    OBVIOUS
  <2>3. f \in Surjection(S, {<<0, k, v>> : v \in S})
    BY <2>2 DEF Surjection
  <2> QED BY <2>1, <2>3, FS_Surjection
<1>5. IsFiniteSet({<<0, 1, v>> : v \in Given(g)}) /\ IsFiniteSet({<<0, 2, v>> : v \in g.graph_outputs})
  BY <1>4, GraphFacts
<1>6. PICK A, X, Y : /\ A = UNION {NodeClaims(g, p) : p \in StepsOf(g)}
                     /\ X = {<<0, 1, v>> : v \in Given(g)} /\ Y = {<<0, 2, v>> : v \in g.graph_outputs}
  OBVIOUS
<1>7. IsFiniteSet(A \cup X)
  BY <1>3, <1>5, <1>6, FS_Union
<1>8. IsFiniteSet((A \cup X) \cup Y)
  BY <1>5, <1>6, <1>7, FS_Union
<1> QED BY <1>6, <1>8 DEF Claims, StepsOf
\* A step defines what its outputs name.
LEMMA DefsDefined ==
    ASSUME NEW g, GraphOK(g), NEW q \in StepsOf(g), NEW v \in Defs(g.nodes[q])
    PROVE  v \in ValuesOf(g) /\ \E j \in DOMAIN g.nodes[q].outputs : DefinedAt(g, v, q, j)
<1>1. NodeShape(ValuesOf(g), g.nodes[q])
  BY StepShape
<1> QED BY <1>1 DEF NodeShape, DefinedAt, StepsOf

\* What DefinedAt says.
LEMMA DefinedFacts ==
    ASSUME NEW g, GraphOK(g), NEW v \in ValuesOf(g), NEW p, NEW i, DefinedAt(g, v, p, i)
    PROVE  /\ p \in StepsOf(g) /\ i \in DOMAIN g.nodes[p].outputs /\ g.nodes[p].outputs[i] = v
           /\ Exists(v) /\ v \in Defs(g.nodes[p])
           /\ p \in Nat /\ p > 0 /\ i \in Nat /\ i > 0 /\ i <= Len(g.nodes[p].outputs)
<1>1. p \in StepsOf(g) /\ i \in DOMAIN g.nodes[p].outputs /\ g.nodes[p].outputs[i] = v
  BY DEF DefinedAt, StepsOf
<1>2. Exists(v) /\ p \in Nat /\ p > 0
  BY <1>1, GraphFacts DEF Exists
<1>3. NodeShape(ValuesOf(g), g.nodes[p])
  BY <1>1, StepShape
<1>4. i \in 1 .. Len(g.nodes[p].outputs) /\ Len(g.nodes[p].outputs) \in Nat
  BY <1>1, <1>3 DEF NodeShape
<1>5. v \in Defs(g.nodes[p])
  BY <1>1, <1>2, <1>3, <1>4 DEF NodeShape
<1> QED BY <1>1, <1>2, <1>4, <1>5

\* A value has one definition, and what exists before a step is not defined
\* there or later.
LEMMA OneDef ==
    ASSUME NEW g, GraphOK(g), NEW v \in ValuesOf(g), NEW p, NEW i, DefinedAt(g, v, p, i)
    PROVE  /\ \A q, j : DefinedAt(g, v, q, j) => p = q /\ i = j
           /\ v \notin Given(g)
           /\ \A r : Before(g, v, r) => p < r
<1>1. p \in DOMAIN g.nodes /\ i \in DOMAIN g.nodes[p].outputs /\ g.nodes[p].outputs[i] = v /\ Exists(v)
  BY DefinedFacts DEF StepsOf
<1>2. ASSUME NEW q, NEW j, DefinedAt(g, v, q, j) PROVE p = q /\ i = j
  <2>1. q \in DOMAIN g.nodes /\ j \in DOMAIN g.nodes[q].outputs /\ g.nodes[q].outputs[j] = v
    BY <1>2, DefinedFacts DEF StepsOf
  <2> QED BY <1>1, <2>1 DEF GraphOK
<1>3. v \in Defs(g.nodes[p])
  BY DefinedFacts
<1>4. v \notin Given(g)
  BY <1>1, <1>3 DEF GraphOK
<1>5. ASSUME NEW r, Before(g, v, r) PROVE p < r
  <2>1. PICK q \in StepsOf(g) : q < r /\ v \in Defs(g.nodes[q])
    BY <1>4, <1>5 DEF Before
  <2>2. p = q
    BY <1>2, <2>1, DefsDefined
  <2> QED BY <2>1, <2>2
<1> QED BY <1>2, <1>4, <1>5

\* What a step reads exists before it.
LEMMA UsedBefore ==
    ASSUME NEW g, GraphOK(g), NEW p \in StepsOf(g), NEW u \in Uses(g.nodes[p])
    PROVE  Before(g, u, p) /\ u \in ValuesOf(g)
<1>1. u \in ValuesOf(g)
  BY UseClaim
<1>2. CASE u \in Given(g)
  BY <1>1, <1>2 DEF Before
<1>3. CASE u \notin Given(g)
  <2>1. PICK q \in 1 .. p - 1 : u \in Defs(g.nodes[q])
    BY <1>3 DEF GraphOK, StepsOf
  <2>2. q \in StepsOf(g) /\ q < p
    BY <2>1, GraphFacts
  <2> QED BY <1>1, <2>1, <2>2 DEF Before
<1> QED BY <1>2, <1>3

\* An output that is not planned yet has its buffer for itself.
LEMMA Unplanned ==
    ASSUME NEW g, GraphOK(g), NEW a, NEW B, RootsOK(g, a, B),
           NEW w \in ValuesOf(g), NEW p, NEW j, DefinedAt(g, w, p, j), ~Reached(a, p, j)
    PROVE  B[w] = w /\ \A x \in ValuesOf(g) : B[x] = w => x = w
<1>1. p \in StepsOf(g) /\ j \in DOMAIN g.nodes[p].outputs
  BY DefinedFacts
<1>2. \A x \in ValuesOf(g) : B[x] = w => x = w
  BY <1>1 DEF RootsOK
<1>3. ASSUME B[w] # w PROVE FALSE
  <2>1. PICK q \in StepsOf(g) : \E i \in DOMAIN g.nodes[q].outputs :
              DefinedAt(g, w, q, i) /\ Reached(a, q, i)
    BY <1>3 DEF RootsOK
  <2> QED BY <2>1, OneDef
<1> QED BY <1>2, <1>3

\* A buffer that holds what exists before a step exists before it, too.
LEMMA RootBefore ==
    ASSUME NEW g, GraphOK(g), NEW a, NEW B, RootsOK(g, a, B),
           NEW u \in ValuesOf(g), NEW p \in StepsOf(g), Before(g, u, p)
    PROVE  Before(g, B[u], p) /\ B[u] \in ValuesOf(g)
<1>1. B[u] \in ValuesOf(g)
  BY DEF RootsOK
<1>2. CASE B[u] = u
  BY <1>1, <1>2
<1>3. CASE B[u] # u
  <2>1. PICK q \in StepsOf(g) : \E i \in DOMAIN g.nodes[q].outputs :
              DefinedAt(g, u, q, i) /\ Before(g, B[u], q)
    BY <1>3 DEF RootsOK
  <2>2. q < p /\ q \in Nat /\ p \in Nat
    BY <2>1, OneDef, GraphFacts
  <2>3. \A r \in StepsOf(g) : r < q => r < p
    BY <2>2, GraphFacts
  <2> QED BY <1>1, <2>1, <2>3 DEF Before
<1> QED BY <1>2, <1>3

-----------------------------------------------------------------------------
(* An output takes a buffer that exists. *)

\* The planner plans output w, which is the one it stands at, and then
\* stands at the next.
Planning(g, a, b, w) ==
    /\ a.phase = "outputs" /\ a.step \in StepsOf(g) /\ a.arg \in Nat
    /\ w \in ValuesOf(g) /\ DefinedAt(g, w, a.step, a.arg)
    /\ b = [a EXCEPT !.arg = @ + 1]
    /\ b.phase = "outputs" /\ b.step = a.step /\ b.arg = a.arg + 1

\* B after w has been put in the buffer of u, which exists before the step.
Placed(g, a, B, C, w, u) ==
    /\ u \in ValuesOf(g) /\ Before(g, u, a.step)
    /\ C = [B EXCEPT ![w] = B[u]]

\* What is planned is planned, and w is planned now.
LEMMA ReachedNext ==
    ASSUME NEW g, GraphOK(g), NEW a, NEW b, NEW w, Planning(g, a, b, w)
    PROVE  /\ ~Reached(a, a.step, a.arg)
           /\ Reached(b, a.step, a.arg)
           /\ \A p, j \in Nat : Reached(a, p, j) => Reached(b, p, j)
           /\ \A p \in StepsOf(g) : \A j : Reached(a, p, j) => p < a.step \/ (p = a.step /\ j < a.arg)
           /\ \A p \in StepsOf(g) : \A j : p < a.step => Reached(a, p, j)
           /\ \A c : Closed(a, c) = Closed(b, c)
<1>1. a.phase = "outputs" /\ b.phase = "outputs" /\ b.step = a.step /\ b.arg = a.arg + 1 /\ a.arg \in Nat
  BY DEF Planning
<1>2. a.step \in Nat /\ \A p \in StepsOf(g) : p \in Nat
  BY GraphFacts DEF Planning
<1>3. ~Reached(a, a.step, a.arg) /\ Reached(b, a.step, a.arg)
  BY <1>1, <1>2 DEF Reached, Late
<1>4. /\ \A p \in StepsOf(g) : \A j : Reached(a, p, j) => p < a.step \/ (p = a.step /\ j < a.arg)
      /\ \A p \in StepsOf(g) : \A j : p < a.step => Reached(a, p, j)
  BY <1>1 DEF Reached, Late
<1>5. \A c : Closed(a, c) = Closed(b, c)
  BY <1>1 DEF Closed, Late
<1>6. \A p, j \in Nat : Reached(a, p, j) => Reached(b, p, j)
  BY <1>1, <1>2 DEF Reached, Late
<1> QED BY <1>3, <1>4, <1>5, <1>6

\* What is known of the buffers before and after.
PlacedShape(g, a, B, C, w, u) ==
    /\ C \in [ValuesOf(g) -> ValuesOf(g)]
    /\ B[w] = w /\ \A x \in ValuesOf(g) : B[x] = w => x = w
    /\ u # w /\ B[u] # w /\ B[u] \in ValuesOf(g) /\ B[B[u]] = B[u]
    /\ Before(g, B[u], a.step)
    /\ C[w] = B[u]
    /\ \A x \in ValuesOf(g) : x # w => C[x] = B[x]
    /\ \A x \in ValuesOf(g) : Before(g, x, a.step) => x # w

\* They are so.
LEMMA PlacedFacts ==
    ASSUME NEW g, GraphOK(g), NEW a, NEW b, NEW B, NEW C, NEW w, NEW u,
           RootsOK(g, a, B), Planning(g, a, b, w), Placed(g, a, B, C, w, u)
    PROVE  PlacedShape(g, a, B, C, w, u)
<1>1. w \in ValuesOf(g) /\ u \in ValuesOf(g) /\ DefinedAt(g, w, a.step, a.arg) /\ a.step \in StepsOf(g)
  BY DEF Planning, Placed
<1>2. ~Reached(a, a.step, a.arg)
  BY ReachedNext
<1>3. B[w] = w /\ \A x \in ValuesOf(g) : B[x] = w => x = w
  BY <1>1, <1>2, Unplanned
<1>4. \A x \in ValuesOf(g) : Before(g, x, a.step) => x # w
  BY <1>1, OneDef, GraphFacts
<1>5. u # w
  BY <1>1, <1>4 DEF Placed
<1>6. B \in [ValuesOf(g) -> ValuesOf(g)] /\ B[B[u]] = B[u]
  BY <1>1 DEF RootsOK
<1>7. B[u] # w
  BY <1>1, <1>3, <1>5
<1>8. Before(g, B[u], a.step)
  BY <1>1, RootBefore DEF Placed
<1>9. C = [B EXCEPT ![w] = B[u]]
  BY DEF Placed
<1>10. C \in [ValuesOf(g) -> ValuesOf(g)] /\ C[w] = B[u] /\ \A x \in ValuesOf(g) : x # w => C[x] = B[x]
  BY <1>1, <1>6, <1>9
<1>11. B[u] \in ValuesOf(g)
  BY <1>1, <1>6
<1> QED BY <1>3, <1>4, <1>5, <1>6, <1>7, <1>8, <1>10, <1>11 DEF PlacedShape

\* RootsOK is kept.
LEMMA PlacedRoots ==
    ASSUME NEW g, GraphOK(g), NEW a, NEW b, NEW B, NEW C, NEW w, NEW u,
           RootsOK(g, a, B), Planning(g, a, b, w), Placed(g, a, B, C, w, u)
    PROVE  RootsOK(g, b, C)
<1>1. PlacedShape(g, a, B, C, w, u)
  BY PlacedFacts
<1>2. w \in ValuesOf(g) /\ DefinedAt(g, w, a.step, a.arg) /\ a.step \in StepsOf(g)
  BY DEF Planning
<1>3. a.arg \in DOMAIN g.nodes[a.step].outputs
  BY <1>2, DefinedFacts
<1>4. B \in [ValuesOf(g) -> ValuesOf(g)]
  BY DEF RootsOK
<1>5. ASSUME NEW v \in ValuesOf(g) PROVE C[C[v]] = C[v]
  <2>1. CASE v = w
    BY <1>1, <2>1 DEF PlacedShape
  <2>2. CASE v # w
    <3>1. B[v] # w /\ C[v] = B[v] /\ B[v] \in ValuesOf(g)
      BY <1>1, <1>4, <2>2 DEF PlacedShape
    <3>2. C[B[v]] = B[B[v]]
      BY <1>1, <3>1 DEF PlacedShape
    <3> QED BY <3>1, <3>2 DEF RootsOK
  <2> QED BY <2>1, <2>2
<1>6. ASSUME NEW v \in ValuesOf(g), C[v] # v
      PROVE  \E p \in StepsOf(g) : \E j \in DOMAIN g.nodes[p].outputs :
                 DefinedAt(g, v, p, j) /\ Reached(b, p, j) /\ Before(g, C[v], p)
  <2>1. CASE v = w
    <3>1. DefinedAt(g, w, a.step, a.arg) /\ Reached(b, a.step, a.arg) /\ Before(g, C[w], a.step)
      BY <1>1, <1>2, ReachedNext DEF PlacedShape
    <3> QED BY <1>2, <1>3, <2>1, <3>1
  <2>2. CASE v # w
    <3>1. C[v] = B[v] /\ B[v] # v
      BY <1>1, <1>6, <2>2 DEF PlacedShape
    <3>2. PICK p \in StepsOf(g) : \E j \in DOMAIN g.nodes[p].outputs :
              DefinedAt(g, v, p, j) /\ Reached(a, p, j) /\ Before(g, B[v], p)
      BY <3>1 DEF RootsOK
    <3>3. PICK j \in DOMAIN g.nodes[p].outputs :
              DefinedAt(g, v, p, j) /\ Reached(a, p, j) /\ Before(g, B[v], p)
      BY <3>2
    <3>4. Reached(b, p, j)
      BY <3>3, ReachedNext, DefinedFacts
    <3> QED BY <3>1, <3>3, <3>4
  <2> QED BY <2>1, <2>2
<1>7. ASSUME NEW v \in ValuesOf(g), NEW x \in ValuesOf(g), NEW p \in StepsOf(g),
             NEW j \in DOMAIN g.nodes[p].outputs,
             DefinedAt(g, v, p, j), ~Reached(b, p, j), C[x] = v
      PROVE  x = v
  <2>1. ~Reached(a, p, j)
    BY <1>7, ReachedNext, DefinedFacts
  <2>2. B[v] = v /\ \A y \in ValuesOf(g) : B[y] = v => y = v
    BY <1>7, <2>1, Unplanned
  <2>3. CASE x # w
    BY <1>1, <1>7, <2>2, <2>3 DEF PlacedShape
  <2>4. CASE x = w
    <3>1. B[u] = v /\ Before(g, v, a.step)
      BY <1>1, <1>7, <2>4 DEF PlacedShape
    <3>2. p < a.step
      BY <1>7, <3>1, OneDef
    <3>3. Reached(a, p, j)
      BY <3>2, ReachedNext
    <3> QED BY <2>1, <3>3
  <2> QED BY <2>3, <2>4
<1>8. C \in [ValuesOf(g) -> ValuesOf(g)]
  BY <1>1 DEF PlacedShape
<1> QED BY <1>5, <1>6, <1>7, <1>8 DEF RootsOK
\* The uses to come of w are added to those of the buffer, and the other
\* buffers keep theirs.
LEMMA PlacedOpen ==
    ASSUME NEW g, GraphOK(g), NEW a, NEW b, NEW B, NEW C, NEW w, NEW u,
           RootsOK(g, a, B), Planning(g, a, b, w), Placed(g, a, B, C, w, u)
    PROVE  /\ OpenFor(g, b, C, B[u]) = OpenFor(g, a, B, B[u]) \cup OpenFor(g, a, B, w)
           /\ OpenFor(g, a, B, B[u]) \cap OpenFor(g, a, B, w) = {}
           /\ \A x \in ValuesOf(g) : x # w /\ x # B[u] => OpenFor(g, b, C, x) = OpenFor(g, a, B, x)
<1>1. PlacedShape(g, a, B, C, w, u)
  BY PlacedFacts
<1>2. \A c : Closed(a, c) = Closed(b, c)
  BY ReachedNext
<1>3. \A c \in Claims(g) : c[3] \in ValuesOf(g)
  BY ClaimFacts DEF ClaimOK
<1>4. \A c \in Claims(g) : C[c[3]] = B[u] <=> (B[c[3]] = B[u] \/ B[c[3]] = w)
  BY <1>1, <1>3 DEF PlacedShape
<1>5. OpenFor(g, b, C, B[u]) = OpenFor(g, a, B, B[u]) \cup OpenFor(g, a, B, w)
  BY <1>2, <1>4 DEF OpenFor
<1>6. OpenFor(g, a, B, B[u]) \cap OpenFor(g, a, B, w) = {}
  BY <1>1 DEF OpenFor, PlacedShape
<1>7. ASSUME NEW x \in ValuesOf(g), x # w, x # B[u]
      PROVE  OpenFor(g, b, C, x) = OpenFor(g, a, B, x)
  <2>1. \A c \in Claims(g) : C[c[3]] = x <=> B[c[3]] = x
    BY <1>1, <1>3, <1>7 DEF PlacedShape
  <2> QED BY <1>2, <2>1 DEF OpenFor
<1> QED BY <1>5, <1>6, <1>7

\* The uses to come of a buffer are finitely many.
LEMMA OpenFinite ==
    ASSUME NEW g, GraphOK(g), NEW a, NEW B, NEW x
    PROVE  IsFiniteSet(OpenFor(g, a, B, x)) /\ Cardinality(OpenFor(g, a, B, x)) \in Nat
<1>1. OpenFor(g, a, B, x) \subseteq Claims(g)
  BY DEF OpenFor
<1> QED BY <1>1, ClaimsFinite, FS_Subset, FS_CardinalityType

\* CountsOK is kept when the counts are added up.
LEMMA PlacedCounts ==
    ASSUME NEW g, GraphOK(g), NEW a, NEW b, NEW B, NEW C, NEW w, NEW u, NEW uc, NEW ud,
           RootsOK(g, a, B), Planning(g, a, b, w), Placed(g, a, B, C, w, u),
           CountsOK(g, a, B, uc), ud = [uc EXCEPT ![B[u]] = @ + uc[w]]
    PROVE  CountsOK(g, b, C, ud)
<1>1. PlacedShape(g, a, B, C, w, u)
  BY PlacedFacts
<1>2. PICK r, S, T : r = B[u] /\ S = OpenFor(g, a, B, B[u]) /\ T = OpenFor(g, a, B, w)
  OBVIOUS
<1>3. OpenFor(g, b, C, r) = S \cup T /\ S \cap T = {}
  BY <1>2, PlacedOpen
<1>4. IsFiniteSet(S) /\ IsFiniteSet(T) /\ Cardinality(S) \in Nat /\ Cardinality(T) \in Nat
  BY <1>2, OpenFinite
<1>5. Cardinality(S \cup T) = Cardinality(S) + Cardinality(T) - Cardinality(S \cap T)
  BY <1>4, FS_Union
<1>6. Cardinality(S \cup T) = Cardinality(S) + Cardinality(T)
  <2>1. Cardinality(S \cap T) = 0
    BY <1>3, FS_EmptySet
  <2> QED BY <1>4, <1>5, <2>1
<1>7. w \in ValuesOf(g) /\ a.phase # "count" /\ r \in ValuesOf(g) /\ r # w
  BY <1>1, <1>2 DEF Planning, PlacedShape
<1>8. uc \in [ValuesOf(g) -> Int] /\ uc[w] = Cardinality(T) /\ uc[r] = Cardinality(S)
  BY <1>1, <1>2, <1>7 DEF CountsOK, PlacedShape
<1>9. ud \in [ValuesOf(g) -> Int] /\ ud[r] = Cardinality(S \cup T)
      /\ \A x \in ValuesOf(g) : x # r => ud[x] = uc[x]
  BY <1>2, <1>6, <1>7, <1>8
<1>10. ASSUME NEW x \in ValuesOf(g), C[x] = x PROVE ud[x] = Cardinality(OpenFor(g, b, C, x))
  <2>1. x # w
    BY <1>1, <1>10 DEF PlacedShape
  <2>2. CASE x = r
    BY <1>3, <1>9, <2>2
  <2>3. CASE x # r
    <3>1. OpenFor(g, b, C, x) = OpenFor(g, a, B, x)
      BY <1>2, <2>1, <2>3, PlacedOpen
    <3>2. B[x] = x
      BY <1>1, <1>10, <2>1 DEF PlacedShape
    <3> QED BY <1>7, <1>9, <2>3, <3>1, <3>2 DEF CountsOK
  <2> QED BY <2>2, <2>3
<1> QED BY <1>9, <1>10 DEF CountsOK

\* SharingOK is kept when it holds of w.
LEMMA PlacedSharing ==
    ASSUME NEW g, GraphOK(g), NEW a, NEW b, NEW B, NEW C, NEW w, NEW u,
           RootsOK(g, a, B), Planning(g, a, b, w), Placed(g, a, B, C, w, u),
           SharingOK(g, B), SharedOK(g, C, w, a.step, a.arg)
    PROVE  SharingOK(g, C)
<1>1. PlacedShape(g, a, B, C, w, u)
  BY PlacedFacts
<1>2. w \in ValuesOf(g) /\ DefinedAt(g, w, a.step, a.arg) /\ a.step \in StepsOf(g) /\ a.arg \in Nat
  BY DEF Planning
<1>3. SUFFICES ASSUME NEW x \in ValuesOf(g), NEW p \in StepsOf(g),
                      NEW j \in DOMAIN g.nodes[p].outputs, DefinedAt(g, x, p, j), C[x] # x
               PROVE  SharedOK(g, C, x, p, j)
  BY DEF SharingOK
<1>4. CASE x = w
  <2>1. p = a.step /\ j = a.arg
    BY <1>2, <1>3, <1>4, OneDef
  <2> QED BY <1>4, <2>1
<1>5. CASE x # w
  <2>1. C[x] = B[x] /\ B[x] # x
    BY <1>1, <1>3, <1>5 DEF PlacedShape
  <2>2. SharedOK(g, B, x, p, j)
    BY <1>3, <2>1 DEF SharingOK
  <2>3. Reached(a, p, j)
    <3>1. PICK q \in StepsOf(g) : \E i \in DOMAIN g.nodes[q].outputs :
                DefinedAt(g, x, q, i) /\ Reached(a, q, i)
      BY <2>1 DEF RootsOK
    <3>2. PICK i \in DOMAIN g.nodes[q].outputs : DefinedAt(g, x, q, i) /\ Reached(a, q, i)
      BY <3>1
    <3>3. q = p /\ i = j
      BY <1>3, <3>2, OneDef
    <3> QED BY <3>2, <3>3
  <2>4. p < a.step \/ (p = a.step /\ j < a.arg)
    BY <2>3, ReachedNext
  <2>5. p \in Nat /\ j \in Nat /\ a.step \in Nat
    BY <1>2, <1>3, DefinedFacts
  <2>6. \A v \in ValuesOf(g) : Before(g, v, p) => v # w
    <3>1. \A r : Before(g, w, r) => a.step < r
      BY <1>2, OneDef
    <3> QED BY <2>4, <2>5, <3>1
  <2>7. \A v \in ValuesOf(g) : Earlier(g, v, p, j) => v # w
    <3>1. ASSUME NEW i \in 1 .. j - 1, DefinedAt(g, w, p, i) PROVE FALSE
      <4>1. a.step = p /\ a.arg = i
        BY <1>2, <3>1, OneDef
      <4> QED BY <2>4, <2>5, <3>1, <4>1
    <3> QED BY <2>6, <3>1 DEF Earlier
  <2>8. ASSUME NEW y \in Uses(g.nodes[p]) PROVE C[y] = B[y]
    <3>1. y # w /\ y \in ValuesOf(g)
      BY <2>6, UsedBefore
    <3> QED BY <1>1, <3>1 DEF PlacedShape
  <2>9. Passes(g, B, x, p, j) => Passes(g, C, x, p, j)
    BY <2>1, <2>8 DEF Passes
  <2>10. TakesOver(g, B, x, p, j) => TakesOver(g, C, x, p, j)
    <3>1. \A v \in ValuesOf(g) : C[v] = C[x] /\ Earlier(g, v, p, j) => B[v] = B[x]
      BY <1>1, <2>1, <2>7 DEF PlacedShape
    <3> QED BY <3>1 DEF TakesOver
  <2>11. (\E y \in Uses(g.nodes[p]) : B[y] = B[x]) => \E y \in Uses(g.nodes[p]) : C[y] = C[x]
    BY <2>1, <2>8
  <2> QED BY <2>2, <2>9, <2>10, <2>11 DEF SharedOK
<1> QED BY <1>4, <1>5

\* What an entry of the free list is.
LEMMA FreeType ==
    ASSUME NEW g, NEW a, NEW B, NEW F, FreeOK(g, a, B, F)
    PROVE  /\ Len(F) \in Nat /\ DOMAIN F = 1 .. Len(F)
           /\ \A i \in DOMAIN F : F[i] \in [value : ValuesOf(g), point : StepsOf(g)]
           /\ \A i \in DOMAIN F : F[i].value \in ValuesOf(g) /\ F[i].point \in StepsOf(g)
<1>1. F \in Seq([value : ValuesOf(g), point : StepsOf(g)])
  BY DEF FreeOK
<1>2. Len(F) \in Nat /\ DOMAIN F = 1 .. Len(F)
  BY <1>1
<1>3. \A i \in DOMAIN F : F[i] \in [value : ValuesOf(g), point : StepsOf(g)]
  <2>1. PICK R : R = [value : ValuesOf(g), point : StepsOf(g)]
    OBVIOUS
  <2>2. F \in Seq(R)
    BY <1>1, <2>1
  <2>3. \A i \in DOMAIN F : F[i] \in R
    BY <2>2
  <2> QED BY <2>1, <2>3
<1> QED BY <1>2, <1>3

\* Neither the buffer of w nor one with uses to come is free.
LEMMA FreeHasNoUses ==
    ASSUME NEW g, NEW a, NEW B, NEW F, FreeOK(g, a, B, F), NEW i \in DOMAIN F,
           NEW x, OpenFor(g, a, B, x) # {}
    PROVE  F[i].value # x
BY DEF FreeOK, EntryOK

\* The definition of w is still to be counted down.
LEMMA PlannedOpen ==
    ASSUME NEW g, GraphOK(g), NEW a, NEW b, NEW B, NEW w,
           RootsOK(g, a, B), Planning(g, a, b, w)
    PROVE  B[w] = w /\ OpenFor(g, a, B, w) # {}
<1>1. w \in ValuesOf(g) /\ DefinedAt(g, w, a.step, a.arg) /\ a.step \in StepsOf(g) /\ a.phase = "outputs"
  BY DEF Planning
<1>2. PICK c \in Claims(g) : c[1] = a.step /\ c[3] = w
  BY <1>1, DefClaim
<1>3. a.step \in Nat
  BY <1>1, GraphFacts
<1>4. ~Closed(a, c)
  BY <1>1, <1>2, <1>3 DEF Closed, Late
<1>5. B[w] = w
  BY <1>1, ReachedNext, Unplanned
<1> QED BY <1>2, <1>4, <1>5 DEF OpenFor

\* FreeOK is kept when the buffer that w takes is not on the free list.
LEMMA PlacedFree ==
    ASSUME NEW g, GraphOK(g), NEW a, NEW b, NEW B, NEW C, NEW w, NEW u, NEW F,
           RootsOK(g, a, B), Planning(g, a, b, w), Placed(g, a, B, C, w, u),
           FreeOK(g, a, B, F), \A i \in DOMAIN F : F[i].value # B[u]
    PROVE  FreeOK(g, b, C, F)
<1>1. PlacedShape(g, a, B, C, w, u)
  BY PlacedFacts
<1>2. B[w] = w /\ OpenFor(g, a, B, w) # {}
  BY PlannedOpen
<1>3. \A c \in Claims(g) : c[3] \in ValuesOf(g)
  BY ClaimFacts DEF ClaimOK
<1>4. ASSUME NEW i \in DOMAIN F PROVE EntryOK(g, b, C, F[i])
  <2>1. PICK x, q : x = F[i].value /\ q = F[i].point
    OBVIOUS
  <2>2. x \in ValuesOf(g)
    BY <2>1, FreeType
  <2>3. x # w /\ x # B[u]
    BY <1>2, <2>1, FreeHasNoUses
  <2>4. EntryOK(g, a, B, F[i])
    BY DEF FreeOK
  <2>5. \A c \in Claims(g) : C[c[3]] = x <=> B[c[3]] = x
    BY <1>1, <1>3, <2>3 DEF PlacedShape
  <2>6. OpenFor(g, b, C, x) = OpenFor(g, a, B, x)
    BY <2>2, <2>3, PlacedOpen
  <2>7. C[x] = B[x]
    BY <1>1, <2>2, <2>3 DEF PlacedShape
  <2> QED BY <2>1, <2>4, <2>5, <2>6, <2>7 DEF EntryOK
<1> QED BY <1>4 DEF FreeOK
\* An input of the step is still to be counted down.
LEMMA InputOpen ==
    ASSUME NEW g, GraphOK(g), NEW a, NEW b, NEW B, NEW w, NEW u \in Uses(g.nodes[a.step]),
           Planning(g, a, b, w)
    PROVE  \E c \in OpenFor(g, a, B, B[u]) : c[1] = a.step /\ c[3] = u /\ c[2] <= NumUses(g.nodes[a.step])
<1>1. a.step \in StepsOf(g) /\ a.phase = "outputs"
  BY DEF Planning
<1>2. PICK c \in Claims(g) : c[1] = a.step /\ c[3] = u /\ c[2] <= NumUses(g.nodes[a.step])
  BY <1>1, UseClaim
<1>3. ~Closed(a, c)
  BY <1>1, <1>2, GraphFacts DEF Closed, Late
<1> QED BY <1>2, <1>3 DEF OpenFor

\* An output that passes on the data of the input in whose buffer it is.
LEMMA PassingShared ==
    ASSUME NEW g, GraphOK(g), NEW a, NEW b, NEW B, NEW C, NEW w, NEW u,
           RootsOK(g, a, B), Planning(g, a, b, w), Placed(g, a, B, C, w, u),
           u \in Uses(g.nodes[a.step]), PassedOn(g.nodes[a.step], a.arg) = {u}
    PROVE  SharedOK(g, C, w, a.step, a.arg)
<1>1. PlacedShape(g, a, B, C, w, u)
  BY PlacedFacts
<1>2. C[u] = C[w]
  BY <1>1 DEF PlacedShape, Placed
<1> QED BY <1>2 DEF SharedOK, Passes

\* A use that has been counted down while the planner plans outputs is one of
\* an earlier step.
LEMMA ClosedEarlier ==
    ASSUME NEW g, NEW a, NEW b, NEW w, Planning(g, a, b, w), NEW c, Closed(a, c)
    PROVE  c[1] # 0 /\ c[1] < a.step
BY DEF Planning, Closed, Late

\* An output that takes over a buffer whose uses to come, if any, are inputs of
\* this step, which works in place.
LEMMA OverwritingShared ==
    ASSUME NEW g, GraphOK(g), NEW a, NEW b, NEW B, NEW C, NEW w, NEW u,
           RootsOK(g, a, B), Planning(g, a, b, w), Placed(g, a, B, C, w, u),
           \A c \in OpenFor(g, a, B, B[u]) :
               c[1] = a.step /\ c[2] <= NumUses(g.nodes[a.step]) /\ g.nodes[a.step].inplace # <<>>,
           g.parallel => u \in Uses(g.nodes[a.step]) /\ g.nodes[a.step].inplace # <<>>
    PROVE  SharedOK(g, C, w, a.step, a.arg)
<1>1. PlacedShape(g, a, B, C, w, u)
  BY PlacedFacts
<1>2. w \in ValuesOf(g) /\ DefinedAt(g, w, a.step, a.arg) /\ a.step \in StepsOf(g) /\ a.step \in Nat
      /\ a.arg \in Nat \ {0} /\ u \in ValuesOf(g)
  BY DefinedFacts DEF Planning, Placed
<1>3. C[u] = C[w] /\ C[w] = B[u]
  BY <1>1, <1>2 DEF PlacedShape
<1>4. ASSUME NEW v \in ValuesOf(g), C[v] = C[w], Earlier(g, v, a.step, a.arg)
      PROVE  Dead(g, v, a.step)
  <2>1. v # w
    <3>1. \A i \in 1 .. a.arg - 1 : ~DefinedAt(g, w, a.step, i)
      BY <1>2, OneDef
    <3>2. ~Before(g, w, a.step)
      BY <1>1, <1>2 DEF PlacedShape
    <3> QED BY <1>4, <3>1, <3>2 DEF Earlier
  <2>2. B[v] = B[u]
    BY <1>1, <1>3, <1>4, <2>1 DEF PlacedShape
  <2>3. ASSUME NEW c \in Claims(g), c[3] = v
        PROVE  /\ c[1] # 0
               /\ \/ c[1] < a.step
                  \/ /\ c[1] = a.step /\ g.nodes[a.step].inplace # <<>>
                     /\ c[2] <= NumUses(g.nodes[a.step])
    <3>1. CASE Closed(a, c)
      BY <3>1, ClosedEarlier
    <3>2. CASE ~Closed(a, c)
      <4>1. c \in OpenFor(g, a, B, B[u])
        BY <2>2, <2>3, <3>2 DEF OpenFor
      <4>2. a.step # 0
        BY <1>2, GraphFacts
      <4> QED BY <4>1, <4>2
    <3> QED BY <3>1, <3>2
  <2> QED BY <2>3 DEF Dead
<1>5. TakesOver(g, C, w, a.step, a.arg)
  BY <1>4 DEF TakesOver
<1>6. g.parallel => \E y \in Uses(g.nodes[a.step]) : C[y] = C[w]
  BY <1>3
<1> QED BY <1>5, <1>6 DEF SharedOK

\* An output that works in place on an input nobody else is going to use.
LEMMA InplaceShared ==
    ASSUME NEW g, GraphOK(g), NEW a, NEW b, NEW B, NEW C, NEW w, NEW u,
           RootsOK(g, a, B), Planning(g, a, b, w), Placed(g, a, B, C, w, u),
           u \in Uses(g.nodes[a.step]), g.nodes[a.step].inplace # <<>>,
           Cardinality(OpenFor(g, a, B, B[u])) = 1
    PROVE  SharedOK(g, C, w, a.step, a.arg)
<1>1. PICK S : S = OpenFor(g, a, B, B[u])
  OBVIOUS
<1>2. PICK c \in S : c[1] = a.step /\ c[2] <= NumUses(g.nodes[a.step])
  BY <1>1, InputOpen
<1>3. IsFiniteSet(S) /\ Cardinality(S) = 1
  BY <1>1, OpenFinite
<1>4. PICK y : S = {y}
  BY <1>3, FS_Singleton
<1>5. \A d \in S : d = c
  BY <1>4
<1> QED BY <1>1, <1>2, <1>5, OverwritingShared

\* A buffer on the free list exists before the step.
LEMMA FreeBefore ==
    ASSUME NEW g, GraphOK(g), NEW a, NEW b, NEW B, NEW w, NEW e,
           RootsOK(g, a, B), Planning(g, a, b, w), EntryOK(g, a, B, e)
    PROVE  Before(g, e.value, a.step) /\ e.value \in ValuesOf(g)
<1>1. PICK c \in Claims(g) : B[c[3]] = e.value /\ c \notin OpenFor(g, a, B, e.value)
  BY DEF EntryOK
<1>2. Closed(a, c)
  BY <1>1 DEF OpenFor
<1>3. c[1] # 0 /\ c[1] < a.step /\ a.step \in StepsOf(g)
  BY <1>2, ClosedEarlier DEF Planning
<1>4. ClaimOK(g, c)
  BY ClaimFacts
<1>5. PICK p, x : p = c[1] /\ x = c[3]
  OBVIOUS
<1>6. p \in StepsOf(g) /\ x \in ValuesOf(g) /\ p < a.step
  BY <1>3, <1>4, <1>5 DEF ClaimOK
<1>7. Before(g, x, p) \/ x \in Defs(g.nodes[p])
  <2>1. CASE c[2] <= NumUses(g.nodes[p])
    <3>1. x \in Uses(g.nodes[p])
      BY <1>3, <1>4, <1>5, <2>1 DEF ClaimOK
    <3> QED BY <1>6, <3>1, UsedBefore
  <2>2. CASE ~(c[2] <= NumUses(g.nodes[p]))
    <3>1. DefinedAt(g, x, p, c[2] - NumUses(g.nodes[p]))
      BY <1>3, <1>4, <1>5, <2>2 DEF ClaimOK
    <3> QED BY <1>6, <3>1, DefinedFacts
  <2> QED BY <2>1, <2>2
<1>8. Before(g, x, a.step)
  <2>1. \A q \in StepsOf(g) : q < p => q < a.step
    BY <1>3, <1>6, GraphFacts
  <2> QED BY <1>6, <1>7, <2>1 DEF Before
<1> QED BY <1>1, <1>3, <1>5, <1>6, <1>8, RootBefore

\* An output in a buffer from the free list.
LEMMA FreeShared ==
    ASSUME NEW g, GraphOK(g), NEW a, NEW b, NEW B, NEW C, NEW w, NEW e,
           RootsOK(g, a, B), Planning(g, a, b, w), Placed(g, a, B, C, w, e.value),
           EntryOK(g, a, B, e), ~g.parallel
    PROVE  SharedOK(g, C, w, a.step, a.arg)
<1>1. OpenFor(g, a, B, B[e.value]) = {}
  BY DEF EntryOK
<1> QED BY <1>1, OverwritingShared
\* Without its k-th entry.
Without(F, k) == SubSeq(F, 1, k - 1) \o SubSeq(F, k + 1, Len(F))

LeftOut(R, F, k, G) ==
    /\ G \in Seq(R) /\ DOMAIN G = 1 .. Len(F) - 1
    /\ \A i \in 1 .. Len(F) - 1 : G[i] = F[IF i < k THEN i ELSE i + 1]

\* A sequence without its k-th entry.
LEMMA WithoutFacts ==
    ASSUME NEW R, NEW F \in Seq(R), NEW k \in 1 .. Len(F), NEW G, G = Without(F, k)
    PROVE  LeftOut(R, F, k, G)
<1>0. Len(F) \in Nat /\ k \in Nat /\ DOMAIN F = 1 .. Len(F)
  OBVIOUS
<1>1. PICK s, t : s = SubSeq(F, 1, k - 1) /\ t = SubSeq(F, k + 1, Len(F)) /\ G = s \o t
  BY DEF Without
<1>2. s \in Seq(R) /\ Len(s) = k - 1 /\ \A i \in 1 .. k - 1 : s[i] = F[i]
  BY <1>0, <1>1, SubSeqProperties
<1>3. t \in Seq(R) /\ Len(t) = Len(F) - k /\ \A i \in 1 .. Len(F) - k : t[i] = F[k + i]
  <2>1. PICK m, n : m = k + 1 /\ n = Len(F)
    OBVIOUS
  <2>2. m \in Int /\ n \in Int /\ \A i \in m .. n : F[i] \in R
    BY <1>0, <2>1
  <2>3. t = SubSeq(F, m, n)
    BY <1>1, <2>1
  <2>4. /\ t \in Seq(R) /\ Len(t) = IF m <= n THEN n - m + 1 ELSE 0
        /\ \A i \in 1 .. n - m + 1 : t[i] = F[m + i - 1]
    BY <2>2, <2>3, SubSeqProperties
  <2>5. Len(t) = Len(F) - k
    <3>1. PICK l : l = Len(t)
      OBVIOUS
    <3>2. l = IF m <= n THEN n - m + 1 ELSE 0
      BY <2>4, <3>1
    <3>3. n \in Nat /\ k \in Nat /\ k <= n /\ m = k + 1
      BY <2>1
    <3>4. l = n - k
      BY <3>2, <3>3
    <3> QED BY <2>1, <3>1, <3>4
  <2>6. ASSUME NEW i \in 1 .. Len(F) - k PROVE t[i] = F[k + i]
    <3>1. i \in 1 .. n - m + 1 /\ m + i - 1 = k + i
      BY <1>0, <2>1
    <3>2. t[i] = F[m + i - 1]
      BY <2>4, <3>1
    <3> QED BY <3>1, <3>2
  <2> QED BY <2>4, <2>5, <2>6
<1>4. /\ G \in Seq(R) /\ Len(G) = Len(s) + Len(t) /\ DOMAIN G = 1 .. Len(s) + Len(t)
      /\ Len(s) \in Nat /\ Len(t) \in Nat
      /\ \A i \in 1 .. Len(s) : G[i] = s[i]
      /\ \A j \in 1 .. Len(t) : G[Len(s) + j] = t[j]
  <2>1. s \in Seq(R) /\ t \in Seq(R) /\ G = s \o t
    BY <1>1, <1>2, <1>3
  <2> QED BY <2>1, JoinFacts
<1>5. DOMAIN G = 1 .. Len(F) - 1
  BY <1>0, <1>2, <1>3, <1>4
<1>6. ASSUME NEW i \in 1 .. Len(F) - 1 PROVE G[i] = F[IF i < k THEN i ELSE i + 1]
  <2>1. CASE i < k
    BY <1>0, <1>2, <1>4, <2>1
  <2>2. CASE ~(i < k)
    <3>1. PICK j \in 1 .. Len(F) - k : i = (k - 1) + j /\ k + j = i + 1
      BY <1>0, <2>2
    <3>2. G[i] = t[j]
      BY <1>2, <1>3, <1>4, <3>1
    <3>3. t[j] = F[i + 1]
      BY <1>3, <3>1
    <3> QED BY <2>2, <3>2, <3>3
  <2> QED BY <2>1, <2>2
<1> QED BY <1>4, <1>5, <1>6 DEF LeftOut

\* An entry leaves the free list for good.
LEMMA RemovedFree ==
    ASSUME NEW g, GraphOK(g), NEW a, NEW B, NEW F, FreeOK(g, a, B, F), NEW k \in DOMAIN F,
           NEW G, G = Without(F, k)
    PROVE  FreeOK(g, a, B, G) /\ \A i \in DOMAIN G : G[i].value # F[k].value
<1>1. PICK R : R = [value : ValuesOf(g), point : StepsOf(g)]
  OBVIOUS
<1>2. F \in Seq(R) /\ Len(F) \in Nat /\ DOMAIN F = 1 .. Len(F) /\ k \in 1 .. Len(F)
  BY <1>1, FreeType DEF FreeOK
<1>3. /\ G \in Seq(R) /\ DOMAIN G = 1 .. Len(F) - 1
      /\ \A i \in 1 .. Len(F) - 1 : G[i] = F[IF i < k THEN i ELSE i + 1]
  <2>1. LeftOut(R, F, k, G)
    BY <1>2, WithoutFacts
  <2> QED BY <2>1 DEF LeftOut
<1>4. ASSUME NEW i \in DOMAIN G
      PROVE  \E x \in DOMAIN F : x # k /\ G[i] = F[x] /\ x = IF i < k THEN i ELSE i + 1
  <2>1. (IF i < k THEN i ELSE i + 1) \in DOMAIN F /\ (IF i < k THEN i ELSE i + 1) # k
    BY <1>2, <1>3
  <2> QED BY <1>3, <2>1
<1>5. \A i \in DOMAIN G : EntryOK(g, a, B, G[i])
  BY <1>4 DEF FreeOK
<1>6. \A i, x \in DOMAIN F : i # x => F[i].value # F[x].value
  BY <1>2 DEF FreeOK
<1>7. ASSUME NEW i \in DOMAIN G, NEW l \in DOMAIN G, i < l
      PROVE  G[i].value # G[l].value /\ G[i].point >= G[l].point
  <2>1. PICK x \in DOMAIN F : G[i] = F[x] /\ x = IF i < k THEN i ELSE i + 1
    BY <1>4
  <2>2. PICK y \in DOMAIN F : G[l] = F[y] /\ y = IF l < k THEN l ELSE l + 1
    BY <1>4
  <2>3. x < y
    BY <1>2, <1>3, <1>7, <2>1, <2>2
  <2> QED BY <2>1, <2>2, <2>3 DEF FreeOK
<1> QED BY <1>1, <1>3, <1>4, <1>5, <1>6, <1>7 DEF FreeOK

\* KindOK is kept when w no longer has a buffer of its own.
LEMMA PlacedKind ==
    ASSUME NEW g, GraphOK(g), NEW a, NEW b, NEW B, NEW C, NEW w, NEW u, NEW kind, NEW l,
           NEW how \in {"kReuse", "kShare"},
           RootsOK(g, a, B), Planning(g, a, b, w), Placed(g, a, B, C, w, u),
           KindOK(g, B, kind), l = [kind EXCEPT ![w] = how]
    PROVE  KindOK(g, C, l)
<1>1. PlacedShape(g, a, B, C, w, u)
  BY PlacedFacts
<1>2. w \in ValuesOf(g)
  BY DEF Planning
<1>3. /\ l \in [ValuesOf(g) -> {"kAllocate", "kAllocateOutput", "kAllocateStatically",
                                "kPreExisting", "kReuse", "kShare"}]
      /\ l[w] \in {"kReuse", "kShare"}
      /\ \A x \in ValuesOf(g) : x # w => l[x] = kind[x]
  BY <1>2 DEF KindOK
<1>4. ASSUME NEW v \in ValuesOf(g) \ Given(g)
      PROVE  l[v] \in {"kAllocate", "kAllocateOutput"} <=> C[v] = v
  <2>1. CASE v = w
    BY <1>1, <1>3, <2>1 DEF PlacedShape
  <2>2. CASE v # w
    <3>1. l[v] = kind[v] /\ C[v] = B[v]
      BY <1>1, <1>3, <2>2 DEF PlacedShape
    <3> QED BY <3>1 DEF KindOK
  <2> QED BY <2>1, <2>2
<1> QED BY <1>3, <1>4 DEF KindOK

-----------------------------------------------------------------------------
(* The steps of the planner. *)

\* A step that counts no use down and plans no output again.
LEMMA MovesOn ==
    ASSUME NEW g, GraphOK(g), NEW a, NEW b, NEW B, NEW uc, NEW F,
           RootsOK(g, a, B), CountsOK(g, a, B, uc), FreeOK(g, a, B, F), a.phase # "count",
           \A c \in Claims(g) : Closed(a, c) = Closed(b, c),
           \A p \in StepsOf(g) : \A j \in DOMAIN g.nodes[p].outputs :
               Reached(a, p, j) => Reached(b, p, j)
    PROVE  RootsOK(g, b, B) /\ CountsOK(g, b, B, uc) /\ FreeOK(g, b, B, F)
<1>1. \A x : OpenFor(g, b, B, x) = OpenFor(g, a, B, x)
  BY DEF OpenFor
<1>2. CountsOK(g, b, B, uc)
  BY <1>1 DEF CountsOK
<1>3. \A e : EntryOK(g, a, B, e) => EntryOK(g, b, B, e)
  BY <1>1 DEF EntryOK
<1>4. FreeOK(g, b, B, F)
  BY <1>3 DEF FreeOK
<1>5. RootsOK(g, b, B)
  <2>1. ASSUME NEW v \in ValuesOf(g), B[v] # v
        PROVE  \E p \in StepsOf(g) : \E j \in DOMAIN g.nodes[p].outputs :
                   DefinedAt(g, v, p, j) /\ Reached(b, p, j) /\ Before(g, B[v], p)
    <3>1. PICK p \in StepsOf(g) : \E j \in DOMAIN g.nodes[p].outputs :
              DefinedAt(g, v, p, j) /\ Reached(a, p, j) /\ Before(g, B[v], p)
      BY <2>1 DEF RootsOK
    <3> QED BY <3>1
  <2>2. ASSUME NEW v \in ValuesOf(g), NEW x \in ValuesOf(g), NEW p \in StepsOf(g),
               NEW j \in DOMAIN g.nodes[p].outputs,
               DefinedAt(g, v, p, j), ~Reached(b, p, j), B[x] = v
        PROVE  x = v
    <3>1. ~Reached(a, p, j)
      BY <2>2
    <3> QED BY <2>2, <3>1 DEF RootsOK
  <2>3. B \in [ValuesOf(g) -> ValuesOf(g)] /\ \A v \in ValuesOf(g) : B[B[v]] = B[v]
    BY DEF RootsOK
  <2> QED BY <2>1, <2>2, <2>3 DEF RootsOK
<1> QED BY <1>2, <1>4, <1>5

\* The next argument.
LEMMA ArgNext ==
    ASSUME NEW g, NEW F, NEW a, AtOK(g, a, F), NEW b, b = [a EXCEPT !.arg = @ + 1]
    PROVE  /\ b \in [phase : Phases, step : Nat, arg : Nat]
           /\ b.phase = a.phase /\ b.step = a.step /\ b.arg = a.arg + 1
           /\ a.arg \in Nat /\ a.step \in StepsOf(g) /\ a.step \in Nat
<1>1. a \in [phase : Phases, step : Nat, arg : Nat] /\ a.step \in StepsOf(g)
  BY DEF AtOK
<1> QED BY <1>1

\* Before GenerateDeallocationPlan the free list does not matter to the ranges.
LEMMA NoRanges ==
    ASSUME NEW g, NEW F, NEW G, NEW d, RangesOK(g, F, d, 0, FALSE)
    PROVE  RangesOK(g, G, d, 0, FALSE)
<1>1. \A p : DyingAt(F, 0, p) = {} /\ DyingAt(G, 0, p) = {}
  BY DEF DyingAt
<1>2. \A p : ~OpenRange(F, 0, p) /\ ~OpenRange(G, 0, p)
  BY DEF OpenRange
<1>3. 1 .. 0 = {}
  OBVIOUS
<1>4. /\ d \in DeallocType(g) /\ d.to_be_freed \in Seq(ValuesOf(g)) /\ Len(d.to_be_freed) = 0
      /\ d.from \in [StepsOf(g) -> Nat] /\ d.to \in [StepsOf(g) -> Nat]
      /\ d.prev = 1 /\ d.has_prev \in BOOLEAN /\ ~d.has_prev /\ d.from[1] = 1 /\ d.to[1] = 0
  BY DEF RangesOK
<1>5. \A p \in StepsOf(g) \ {1} : {} = d.from[p] .. d.to[p]
  BY <1>1, <1>2 DEF RangesOK
<1>6. \A k \in 1 .. 0 : d.to_be_freed[k] = FromBack(G, k).value
  OBVIOUS
<1>7. \A p \in StepsOf(g) \ {1} :
          DyingAt(G, 0, p) = d.from[p] .. (IF OpenRange(G, 0, p) /\ ~FALSE THEN 0 ELSE d.to[p])
  BY <1>1, <1>2, <1>5
<1> QED BY <1>4, <1>6, <1>7 DEF RangesOK

\* The output at which the planner stands.
LEMMA PlanningNow ==
    ASSUME PlanInv, PlanningOutput, NextOutput
    PROVE  /\ \A F : AtOK(graph, at', F)
           /\ Exists(Current) => Planning(graph, at, at', Current)
           /\ at.phase = "outputs" /\ at'.phase = "outputs"
<1>1. AtOK(graph, at, freelist) /\ GraphOK(graph)
  BY DEF PlanInv
<1>2. at' = [at EXCEPT !.arg = @ + 1] /\ at.phase = "outputs" /\ at.arg \in DOMAIN Node.outputs
  BY DEF NextOutput, PlanningOutput
<1>3. /\ at' \in [phase : Phases, step : Nat, arg : Nat]
      /\ at'.phase = at.phase /\ at'.step = at.step /\ at'.arg = at.arg + 1
      /\ at.arg \in Nat /\ at.step \in StepsOf(graph) /\ at.step \in Nat
  BY <1>1, <1>2, ArgNext
<1>4. NodeShape(ValuesOf(graph), Node)
  BY <1>1, <1>3, StepShape DEF Node
<1>5. at.arg \in 1 .. Len(Node.outputs) /\ Len(Node.outputs) \in Nat
  BY <1>2, <1>4 DEF NodeShape
<1>6. at'.arg \in 1 .. Len(Node.outputs) + 1
  BY <1>3, <1>5
<1>7. \A F : AtOK(graph, at', F)
  BY <1>2, <1>3, <1>6 DEF AtOK, Node
<1>8. ASSUME Exists(Current) PROVE Planning(graph, at, at', Current)
  <2>1. Current \in ValuesOf(graph)
    BY <1>4, <1>5, <1>8 DEF NodeShape, Current
  <2>2. DefinedAt(graph, Current, at.step, at.arg)
    BY <1>2, <1>3 DEF DefinedAt, Current, Node, StepsOf
  <2> QED BY <1>2, <1>3, <2>1, <2>2 DEF Planning
<1> QED BY <1>2, <1>3, <1>7, <1>8

\* An output that keeps its own buffer, or does not exist.
LEMMA KeepsOwn ==
    ASSUME PlanInv, PlanningOutput, NextOutput,
           UNCHANGED <<graph, usecount, buffer, freelist, dealloc>>,
           \/ UNCHANGED alloc_kind
           \/ /\ Exists(Current)
              /\ \E k \in {"kAllocate", "kAllocateOutput"} : alloc_kind' = [alloc_kind EXCEPT ![Current] = k]
    PROVE  PlanInv'
<1>1. /\ GraphOK(graph) /\ AtOK(graph, at, freelist) /\ RootsOK(graph, at, buffer)
      /\ CountsOK(graph, at, buffer, usecount) /\ FreeOK(graph, at, buffer, freelist)
      /\ SharingOK(graph, buffer) /\ KindOK(graph, buffer, alloc_kind)
      /\ DeallocOK(graph, at, freelist, dealloc)
  BY DEF PlanInv
<1>2. /\ \A F : AtOK(graph, at', F)
      /\ Exists(Current) => Planning(graph, at, at', Current)
      /\ at.phase = "outputs" /\ at'.phase = "outputs"
  BY PlanningNow
<1>3. at' = [at EXCEPT !.arg = @ + 1]
  BY DEF NextOutput
<1>4. at'.step = at.step /\ at'.arg = at.arg + 1 /\ at.arg \in Nat /\ at.step \in Nat
  BY <1>1, <1>3, ArgNext
<1>5. \A c : Closed(at, c) = Closed(at', c)
  BY <1>2, <1>4 DEF Closed, Late
<1>6. \A p, j \in Nat : Reached(at, p, j) => Reached(at', p, j)
  BY <1>2, <1>4 DEF Reached, Late
<1>7. \A p \in StepsOf(graph) : \A j \in DOMAIN graph.nodes[p].outputs : p \in Nat /\ j \in Nat
  BY <1>1, GraphFacts, StepShape DEF NodeShape
<1>8. RootsOK(graph, at', buffer) /\ CountsOK(graph, at', buffer, usecount) /\ FreeOK(graph, at', buffer, freelist)
  BY <1>1, <1>2, <1>5, <1>6, <1>7, MovesOn
<1>9. DeallocOK(graph, at', freelist, dealloc)
  BY <1>1, <1>2 DEF DeallocOK
<1>10. KindOK(graph, buffer, alloc_kind')
  <2>1. CASE UNCHANGED alloc_kind
    BY <1>1, <2>1
  <2>2. ASSUME Exists(Current), NEW k \in {"kAllocate", "kAllocateOutput"},
               alloc_kind' = [alloc_kind EXCEPT ![Current] = k]
        PROVE  KindOK(graph, buffer, alloc_kind')
    <3>1. Planning(graph, at, at', Current)
      BY <1>2, <2>2
    <3>2. buffer[Current] = Current
      BY <1>1, <3>1, PlannedOpen
    <3>3. buffer[Current] = Current /\ Current \in ValuesOf(graph)
      BY <3>1, <3>2 DEF Planning
    <3> QED BY <1>1, <2>2, <3>3 DEF KindOK
  <2> QED BY <2>1, <2>2
<1> QED BY <1>1, <1>2, <1>8, <1>9, <1>10 DEF PlanInv

\* An output that is put in another buffer.
LEMMA ReuseKeeps ==
    ASSUME PlanInv, PlanningOutput, Exists(Current), NextOutput, UNCHANGED <<graph, dealloc>>,
           NEW u, NEW how \in {"kReuse", "kShare"}, Reuse(u, how),
           u \in ValuesOf(graph), Before(graph, u, at.step),
           SharedOK(graph, buffer', Current, at.step, at.arg),
           FreeOK(graph, at, buffer, freelist'), \A i \in DOMAIN freelist' : freelist'[i].value # buffer[u]
    PROVE  PlanInv'
<1>1. /\ GraphOK(graph) /\ RootsOK(graph, at, buffer)
      /\ CountsOK(graph, at, buffer, usecount)
      /\ SharingOK(graph, buffer) /\ KindOK(graph, buffer, alloc_kind)
      /\ DeallocOK(graph, at, freelist, dealloc)
  BY DEF PlanInv
<1>2. /\ \A F : AtOK(graph, at', F)
      /\ Planning(graph, at, at', Current)
      /\ at.phase = "outputs" /\ at'.phase = "outputs"
  BY PlanningNow
<1>3. /\ buffer' = [buffer EXCEPT ![Current] = buffer[u]]
      /\ usecount' = [usecount EXCEPT ![buffer[u]] = @ + usecount[Current]]
      /\ alloc_kind' = [alloc_kind EXCEPT ![Current] = how]
  BY DEF Reuse
<1>4. Placed(graph, at, buffer, buffer', Current, u)
  BY <1>3 DEF Placed
<1>5. /\ RootsOK(graph, at', buffer') /\ CountsOK(graph, at', buffer', usecount') /\ SharingOK(graph, buffer')
      /\ FreeOK(graph, at', buffer', freelist') /\ KindOK(graph, buffer', alloc_kind')
  <2>1. PICK g, a, b, B, C, w, uc, ud, F, k, l :
           /\ g = graph /\ a = at /\ b = at' /\ B = buffer /\ C = buffer' /\ w = Current /\ uc = usecount
           /\ ud = usecount' /\ F = freelist' /\ k = alloc_kind /\ l = alloc_kind'
    OBVIOUS
  <2>0. /\ GraphOK(g) /\ RootsOK(g, a, B) /\ Planning(g, a, b, w) /\ Placed(g, a, B, C, w, u)
        /\ CountsOK(g, a, B, uc) /\ ud = [uc EXCEPT ![B[u]] = @ + uc[w]]
        /\ SharingOK(g, B) /\ SharedOK(g, C, w, a.step, a.arg)
        /\ FreeOK(g, a, B, F) /\ (\A i \in DOMAIN F : F[i].value # B[u]) /\ KindOK(g, B, k)
    BY <1>1, <1>2, <1>3, <1>4, <2>1
  <2>2. RootsOK(g, b, C)
    BY <2>0, PlacedRoots
  <2>3. CountsOK(g, b, C, ud)
    BY <2>0, PlacedCounts
  <2>4. SharingOK(g, C)
    BY <2>0, PlacedSharing
  <2>5. FreeOK(g, b, C, F)
    BY <2>0, PlacedFree
  <2>6. KindOK(g, C, l)
    BY <1>3, <2>1, <2>0, PlacedKind
  <2> QED BY <2>1, <2>2, <2>3, <2>4, <2>5, <2>6
<1>6. DeallocOK(graph, at', freelist', dealloc)
  BY <1>1, <1>2, NoRanges DEF DeallocOK
<1> QED BY <1>1, <1>2, <1>5, <1>6 DEF PlanInv
\* Min is one of the set.
LEMMA MinIn ==
    ASSUME NEW S, S \subseteq Nat, S # {}
    PROVE  Min(S) \in S
<1>1. PICK R : R = OpToRel(<, Nat)
  OBVIOUS
<1>2. \A x, y \in Nat : x < y => <<x, y>> \in R
  BY <1>1 DEF OpToRel
<1>3. IsWellFoundedOn(R, Nat)
  BY <1>1, NatLessThanWellFounded
<1>4. PICK x \in S : \A y \in S : ~(<<y, x>> \in R)
  BY <1>3, WFMin
<1>5. \A y \in S : ~(y < x)
  BY <1>2, <1>4
<1>6. \A y \in S : x <= y
  BY <1>5
<1> QED BY <1>4, <1>6 DEF Min

\* The node at which the planner stands.
LEMMA NodeNow ==
    ASSUME PlanInv
    PROVE  /\ Node \in NodeType(ValuesOf(graph)) /\ KernelOK(Node) /\ NodeShape(ValuesOf(graph), Node)
           /\ at.step \in StepsOf(graph)
<1>1. GraphOK(graph) /\ at.step \in StepsOf(graph)
  BY DEF PlanInv, AtOK
<1> QED BY <1>1, GraphFacts, StepShape DEF Node

\* The lists of pairs of a kernel.
LEMMA PairsFacts ==
    ASSUME NEW V, NEW n \in NodeType(V)
    PROVE  /\ DOMAIN n.alias \subseteq Nat /\ DOMAIN n.inplace \subseteq Nat
           /\ \A k \in DOMAIN n.inplace : n.inplace # <<>>
           /\ \A k \in DOMAIN n.alias : n.alias # <<>>
<1>1. PICK s, t : s = n.alias /\ t = n.inplace
  OBVIOUS
<1>2. s \in Seq(Nat \X Nat) /\ t \in Seq(Nat \X Nat)
  BY <1>1 DEF NodeType
<1>3. DOMAIN s \subseteq Nat /\ DOMAIN t \subseteq Nat
  BY <1>2
<1>4. DOMAIN s # {} => s # <<>>
  OBVIOUS
<1>5. DOMAIN t # {} => t # <<>>
  OBVIOUS
<1> QED BY <1>1, <1>3, <1>4, <1>5

\* The outputs of a kernel that aliases are counted right.
LEMMA ArgNumRight ==
    ASSUME PlanInv, PlanningOutput, Exists(Current), Node.alias # <<>>
    PROVE  OutputArgNum = at.arg
<1>1. NodeShape(ValuesOf(graph), Node) /\ KernelOK(Node)
  BY NodeNow
<1>2. at.arg \in 1 .. Len(Node.outputs) /\ Len(Node.outputs) \in Nat
  BY <1>1 DEF NodeShape, PlanningOutput
<1>3. \A i, j \in DOMAIN Node.outputs : i < j /\ Exists(Node.outputs[j]) => Exists(Node.outputs[i])
  BY <1>1 DEF KernelOK
<1>4. \A k \in 1 .. at.arg : k \in DOMAIN Node.outputs /\ (k < at.arg \/ k = at.arg)
  BY <1>1, <1>2 DEF NodeShape
<1>5. \A k \in 1 .. at.arg : Exists(Node.outputs[k])
  BY <1>3, <1>4 DEF Current, PlanningOutput
<1>6. {k \in 1 .. at.arg : Exists(Node.outputs[k])} = 1 .. at.arg
  BY <1>5
<1>7. Cardinality(1 .. at.arg) = at.arg
  BY <1>2, FS_Interval
<1> QED BY <1>6, <1>7 DEF OutputArgNum

\* What an aliasing output passes on.
LEMMA PassedByAlias ==
    ASSUME NEW n, KernelOK(n), NEW k \in DOMAIN n.alias, NEW j, NEW u,
           n.alias[k][2] = j, n.alias[k][1] \in DOMAIN n.inputs,
           u = n.inputs[n.alias[k][1]], Exists(u)
    PROVE  PassedOn(n, j) = {u}
<1>1. \A x \in DOMAIN n.alias : n.alias[x][2] = j => x = k
  BY DEF KernelOK
<1>2. {x \in DOMAIN n.alias : n.alias[x][2] = j /\ n.alias[x][1] \in DOMAIN n.inputs} = {k}
  BY <1>1
<1> QED BY <1>2 DEF PassedOn, Exists

\* What FindReusableInput finds.
LEMMA FoundInput ==
    ASSUME PlanInv, PlanningOutput, Exists(Current), NEW u, u = FindReusableInput, u # NoValue
    PROVE  /\ u \in Uses(Node)
           /\ \/ PassedOn(Node, at.arg) = {u}
              \/ Node.inplace # <<>> /\ usecount[buffer[u]] = 1
<1>1. NodeShape(ValuesOf(graph), Node) /\ KernelOK(Node) /\ Node \in NodeType(ValuesOf(graph))
  BY NodeNow
<1>2. DOMAIN Node.alias \subseteq Nat /\ DOMAIN Node.inplace \subseteq Nat
  BY <1>1, PairsFacts
<1>3. CASE AliasPairs # {}
  <2>1. PICK k : k = Min(AliasPairs)
    OBVIOUS
  <2>2. k \in AliasPairs
    BY <1>2, <1>3, <2>1, MinIn DEF AliasPairs
  <2>3. u = Node.inputs[Node.alias[k][1]]
    BY <1>3, <2>1 DEF FindReusableInput
  <2>4. /\ k \in DOMAIN Node.alias /\ Node.alias[k][2] = OutputArgNum
        /\ Node.alias[k][1] \in DOMAIN Node.inputs /\ Exists(u)
    BY <2>2, <2>3 DEF AliasPairs, Applies
  <2>5. Node.alias # <<>>
    BY <1>1, <2>4, PairsFacts
  <2>6. OutputArgNum = at.arg
    BY <2>5, ArgNumRight
  <2>7. PassedOn(Node, at.arg) = {u}
    BY <1>1, <2>3, <2>4, <2>6, PassedByAlias
  <2>8. u \in Uses(Node)
    BY <1>1, <2>3, <2>4 DEF NodeShape
  <2> QED BY <2>7, <2>8
<1>4. CASE AliasPairs = {}
  <2>1. InplacePairs # {} /\ u = Node.inputs[Node.inplace[Min(InplacePairs)][1]]
    BY <1>4 DEF FindReusableInput
  <2>2. PICK k : k = Min(InplacePairs)
    OBVIOUS
  <2>3. k \in InplacePairs
    BY <1>2, <2>1, <2>2, MinIn DEF InplacePairs
  <2>4. /\ k \in DOMAIN Node.inplace /\ Node.inplace[k][1] \in DOMAIN Node.inputs
        /\ Exists(u) /\ usecount[buffer[u]] = 1 /\ u = Node.inputs[Node.inplace[k][1]]
    BY <2>1, <2>2, <2>3 DEF InplacePairs, Applies
  <2>5. Node.inplace # <<>>
    BY <1>1, <2>4, PairsFacts
  <2>6. u \in Uses(Node)
    BY <1>1, <2>4 DEF NodeShape
  <2> QED BY <2>4, <2>5, <2>6
<1> QED BY <1>3, <1>4

\* An input of the node may be what an output is put in the buffer of.
LEMMA InputReusable ==
    ASSUME PlanInv, PlanningOutput, Exists(Current), NextOutput, NEW u \in Uses(Node)
    PROVE  /\ u \in ValuesOf(graph) /\ Before(graph, u, at.step)
           /\ \A i \in DOMAIN freelist : freelist[i].value # buffer[u]
<1>1. /\ GraphOK(graph) /\ FreeOK(graph, at, buffer, freelist) /\ at.step \in StepsOf(graph)
      /\ RootsOK(graph, at, buffer)
  BY NodeNow DEF PlanInv
<1>2. Planning(graph, at, at', Current)
  BY PlanningNow
<1>3. u \in Uses(graph.nodes[at.step])
  BY DEF Node
<1>4. u \in ValuesOf(graph) /\ Before(graph, u, at.step)
  BY <1>1, <1>3, UsedBefore
<1>5. OpenFor(graph, at, buffer, buffer[u]) # {}
  BY <1>1, <1>2, <1>3, InputOpen
<1> QED BY <1>1, <1>4, <1>5, FreeHasNoUses
\* The action keeps PlanInv.
LEMMA PlanGraphOutputStep ==
    ASSUME PlanInv, PlanGraphOutput
    PROVE  PlanInv'
<1>1. PlanningOutput /\ Exists(Current) /\ NextOutput /\ UNCHANGED <<graph, freelist, dealloc>>
  BY DEF PlanGraphOutput
<1>2. CASE Node.loop_identity /\ alloc_kind[Node.inputs[1]] = "kPreExisting"
  <2>1. PICK u : u = Node.inputs[1]
    OBVIOUS
  <2>2. Reuse(u, "kShare")
    BY <1>2, <2>1 DEF PlanGraphOutput
  <2>3. NodeShape(ValuesOf(graph), Node) /\ KernelOK(Node) /\ Node \in NodeType(ValuesOf(graph))
    BY NodeNow
  <2>4. Node.inputs # <<>> /\ Exists(u) /\ Len(Node.outputs) = 1 /\ Node.alias = << <<1, 1>> >>
    BY <1>2, <2>1, <2>3 DEF KernelOK
  <2>5. 1 \in DOMAIN Node.inputs
    <3>1. PICK s : s = Node.inputs
      OBVIOUS
    <3>2. s \in Seq(ValuesOf(graph) \cup {NoValue}) /\ s # <<>>
      BY <2>3, <2>4, <3>1 DEF NodeType
    <3>3. 1 \in DOMAIN s
      BY <3>2
    <3> QED BY <3>1, <3>3
  <2>6. u \in Uses(Node)
    BY <2>1, <2>3, <2>4, <2>5 DEF NodeShape
  <2>7. at.arg = 1
    <3>1. at.arg \in 1 .. Len(Node.outputs)
      BY <1>1, <2>3 DEF PlanningOutput, NodeShape
    <3> QED BY <2>4, <3>1
  <2>8. PassedOn(Node, at.arg) = {u}
    <3>1. PICK k : k = 1
      OBVIOUS
    <3>2. k \in DOMAIN Node.alias /\ Node.alias[k][2] = at.arg /\ Node.alias[k][1] = 1
      BY <2>4, <2>7, <3>1
    <3> QED BY <2>1, <2>3, <2>4, <2>5, <3>2, PassedByAlias
  <2>9. u \in ValuesOf(graph) /\ Before(graph, u, at.step)
        /\ \A i \in DOMAIN freelist : freelist[i].value # buffer[u]
    BY <1>1, <2>6, InputReusable
  <2>10. Planning(graph, at, at', Current)
    BY <1>1, PlanningNow
  <2>11. Placed(graph, at, buffer, buffer', Current, u)
    BY <2>2, <2>9 DEF Placed, Reuse
  <2>12. GraphOK(graph) /\ RootsOK(graph, at, buffer) /\ FreeOK(graph, at, buffer, freelist)
    BY DEF PlanInv
  <2>13. SharedOK(graph, buffer', Current, at.step, at.arg)
    BY <2>6, <2>8, <2>10, <2>11, <2>12, PassingShared DEF Node
  <2>14. FreeOK(graph, at, buffer, freelist') /\ \A i \in DOMAIN freelist' : freelist'[i].value # buffer[u]
    BY <1>1, <2>9, <2>12
  <2> QED BY <1>1, <2>2, <2>9, <2>13, <2>14, ReuseKeeps
<1>3. CASE ~(Node.loop_identity /\ alloc_kind[Node.inputs[1]] = "kPreExisting")
  <2>1. /\ alloc_kind' = [alloc_kind EXCEPT ![Current] = "kAllocateOutput"]
        /\ UNCHANGED <<usecount, buffer>>
    BY <1>3 DEF PlanGraphOutput
  <2> QED BY <1>1, <2>1, KeepsOwn
<1> QED BY <1>2, <1>3

\* The action keeps PlanInv.
LEMMA PlanReuseInputStep ==
    ASSUME PlanInv, PlanReuseInput
    PROVE  PlanInv'
<1>1. PICK u : u = FindReusableInput
  OBVIOUS
<1>2. /\ PlanningOutput /\ Exists(Current) /\ NextOutput /\ UNCHANGED <<graph, freelist, dealloc>>
      /\ u # NoValue /\ Reuse(u, "kReuse")
  BY <1>1 DEF PlanReuseInput, Plannable
<1>3. /\ u \in Uses(Node)
      /\ \/ PassedOn(Node, at.arg) = {u}
         \/ Node.inplace # <<>> /\ usecount[buffer[u]] = 1
  BY <1>1, <1>2, FoundInput
<1>4. u \in ValuesOf(graph) /\ Before(graph, u, at.step)
      /\ \A i \in DOMAIN freelist : freelist[i].value # buffer[u]
  BY <1>2, <1>3, InputReusable
<1>5. Planning(graph, at, at', Current)
  BY <1>2, PlanningNow
<1>6. Placed(graph, at, buffer, buffer', Current, u)
  BY <1>2, <1>4 DEF Placed, Reuse
<1>7. /\ GraphOK(graph) /\ RootsOK(graph, at, buffer) /\ FreeOK(graph, at, buffer, freelist)
      /\ CountsOK(graph, at, buffer, usecount)
  BY DEF PlanInv
<1>8. SharedOK(graph, buffer', Current, at.step, at.arg)
  <2>1. CASE PassedOn(Node, at.arg) = {u}
    BY <1>3, <1>5, <1>6, <1>7, <2>1, PassingShared DEF Node
  <2>2. CASE Node.inplace # <<>> /\ usecount[buffer[u]] = 1
    <3>1. buffer[u] \in ValuesOf(graph) /\ buffer[buffer[u]] = buffer[u]
      BY <1>4, <1>7 DEF RootsOK
    <3>2. at.phase # "count"
      BY <1>5 DEF Planning
    <3>3. Cardinality(OpenFor(graph, at, buffer, buffer[u])) = 1
      BY <1>7, <2>2, <3>1, <3>2 DEF CountsOK
    <3> QED BY <1>3, <1>5, <1>6, <1>7, <2>2, <3>3, InplaceShared DEF Node
  <2> QED BY <1>3, <2>1, <2>2
<1>9. FreeOK(graph, at, buffer, freelist') /\ \A i \in DOMAIN freelist' : freelist'[i].value # buffer[u]
  BY <1>2, <1>4, <1>7
<1> QED BY <1>2, <1>4, <1>8, <1>9, ReuseKeeps

\* The action keeps PlanInv.
LEMMA PlanReuseTensorStep ==
    ASSUME PlanInv, PlanReuseTensor
    PROVE  PlanInv'
<1>1. /\ PlanningOutput /\ Exists(Current) /\ NextOutput /\ UNCHANGED <<graph, dealloc>>
      /\ ~graph.parallel
  BY DEF PlanReuseTensor, Plannable, Parallel
<1>2. PICK k \in ReusableEntries :
          /\ Reuse(freelist[k].value, "kReuse")
          /\ freelist' = SubSeq(freelist, 1, k - 1) \o SubSeq(freelist, k + 1, Len(freelist))
  BY DEF PlanReuseTensor
<1>3. k \in DOMAIN freelist /\ freelist' = Without(freelist, k)
  BY <1>2 DEF ReusableEntries, Without
<1>4. PICK e, u : e = freelist[k] /\ u = e.value
  OBVIOUS
<1>5. GraphOK(graph) /\ RootsOK(graph, at, buffer) /\ FreeOK(graph, at, buffer, freelist)
  BY DEF PlanInv
<1>6. EntryOK(graph, at, buffer, e)
  BY <1>3, <1>4, <1>5 DEF FreeOK
<1>7. Planning(graph, at, at', Current)
  BY <1>1, PlanningNow
<1>8. Before(graph, u, at.step) /\ u \in ValuesOf(graph)
  BY <1>4, <1>5, <1>6, <1>7, FreeBefore
<1>9. Reuse(u, "kReuse")
  BY <1>2, <1>4
<1>10. Placed(graph, at, buffer, buffer', Current, u)
  BY <1>8, <1>9 DEF Placed, Reuse
<1>11. SharedOK(graph, buffer', Current, at.step, at.arg)
  BY <1>1, <1>4, <1>5, <1>6, <1>7, <1>10, FreeShared
<1>12. FreeOK(graph, at, buffer, freelist') /\ \A i \in DOMAIN freelist' : freelist'[i].value # freelist[k].value
  BY <1>3, <1>5, RemovedFree
<1>13. buffer[u] = freelist[k].value
  BY <1>4, <1>6 DEF EntryOK
<1>14. \A i \in DOMAIN freelist' : freelist'[i].value # buffer[u]
  BY <1>12, <1>13
<1> QED BY <1>1, <1>8, <1>9, <1>11, <1>12, <1>14, ReuseKeeps
\* The initial state satisfies PlanInv.
LEMMA PlanInit ==
    ASSUME PlannerInit
    PROVE  PlanInv
<1>1. GraphOK(graph)
  BY PlannerGraphs DEF PlannerInit
<1>2. /\ at = [phase |-> "count", step |-> 1, arg |-> 1]
      /\ usecount = [v \in ValuesOf(graph) |-> 0] /\ buffer = [v \in ValuesOf(graph) |-> v]
      /\ alloc_kind = [v \in ValuesOf(graph) |-> "kAllocate"] /\ freelist = <<>> /\ dealloc = NoDealloc
  BY DEF PlannerInit, Values, ValuesOf
<1>3. AtOK(graph, at, freelist)
  BY <1>1, <1>2, GraphFacts DEF AtOK, Phases
<1>4. RootsOK(graph, at, buffer)
  BY <1>2 DEF RootsOK
<1>5. CountsOK(graph, at, buffer, usecount)
  BY <1>2 DEF CountsOK
<1>6. SharingOK(graph, buffer)
  BY <1>2 DEF SharingOK
<1>7. FreeOK(graph, at, buffer, freelist)
  BY <1>2 DEF FreeOK
<1>8. KindOK(graph, buffer, alloc_kind)
  BY <1>2 DEF KindOK
<1>9. RangesOK(graph, freelist, dealloc, 0, FALSE)
  <2>1. /\ dealloc.to_be_freed = <<>> /\ dealloc.from = [p \in StepsOf(graph) |-> 1]
        /\ dealloc.to = [p \in StepsOf(graph) |-> 0] /\ dealloc.prev = 1 /\ dealloc.has_prev = FALSE
    BY <1>2 DEF NoDealloc, StepsOf, Steps
  <2>2. \A p : DyingAt(freelist, 0, p) = {} /\ ~OpenRange(freelist, 0, p)
    BY DEF DyingAt, OpenRange
  <2>3. 1 \in StepsOf(graph)
    BY <1>1, GraphFacts
  <2>4. dealloc.from[1] = 1 /\ dealloc.to[1] = 0
    BY <2>1, <2>3
  <2>5. \A p \in StepsOf(graph) \ {1} : DyingAt(freelist, 0, p)
            = dealloc.from[p] .. (IF OpenRange(freelist, 0, p) /\ ~FALSE THEN 0 ELSE dealloc.to[p])
    BY <2>1, <2>2
  <2>6. dealloc.to_be_freed \in Seq(ValuesOf(graph)) /\ Len(dealloc.to_be_freed) = 0
    BY <2>1
  <2>7. dealloc.from \in [StepsOf(graph) -> Nat] /\ dealloc.to \in [StepsOf(graph) -> Nat]
    BY <2>1
  <2>8. dealloc.prev = 1 /\ dealloc.has_prev \in BOOLEAN /\ ~dealloc.has_prev
    BY <2>1
  <2>9. \A k \in 1 .. 0 : dealloc.to_be_freed[k] = FromBack(freelist, k).value
    OBVIOUS
  <2>10. dealloc \in DeallocType(graph)
    <3>1. dealloc = [to_be_freed |-> <<>>, from |-> [p \in StepsOf(graph) |-> 1],
                     to |-> [p \in StepsOf(graph) |-> 0], prev |-> 1, has_prev |-> FALSE]
      BY <1>2 DEF NoDealloc, StepsOf, Steps
    <3> QED BY <3>1 DEF DeallocType
  <2> QED BY <2>4, <2>5, <2>6, <2>7, <2>8, <2>9, <2>10 DEF RangesOK
<1>10. DeallocOK(graph, at, freelist, dealloc)
  BY <1>2, <1>9 DEF DeallocOK
<1> QED BY <1>1, <1>3, <1>4, <1>5, <1>6, <1>7, <1>8, <1>10 DEF PlanInv

\* The action keeps PlanInv.
LEMMA ComputeUseCountsStep ==
    ASSUME PlanInv, ComputeUseCounts
    PROVE  PlanInv'
<1>1. /\ GraphOK(graph) /\ AtOK(graph, at, freelist) /\ RootsOK(graph, at, buffer)
      /\ FreeOK(graph, at, buffer, freelist) /\ SharingOK(graph, buffer)
      /\ DeallocOK(graph, at, freelist, dealloc)
  BY DEF PlanInv
<1>2. /\ at.phase = "count" /\ at' = [at EXCEPT !.phase = "outputs"]
      /\ UNCHANGED <<graph, buffer, freelist, dealloc>>
      /\ usecount' = [v \in ValuesOf(graph) |-> UseCount(v)]
  BY DEF ComputeUseCounts, Values, ValuesOf
<1>3. /\ at \in [phase : Phases, step : Nat, arg : Nat] /\ at.step = 1 /\ at.arg = 1
      /\ at.step \in StepsOf(graph)
  BY <1>1, <1>2 DEF AtOK, Late
<1>4. /\ at' \in [phase : Phases, step : Nat, arg : Nat] /\ at'.phase = "outputs"
      /\ at'.step = 1 /\ at'.arg = 1
  BY <1>2, <1>3 DEF Phases
<1>5. NodeShape(ValuesOf(graph), graph.nodes[1])
  BY <1>1, <1>3, StepShape
<1>6. AtOK(graph, at', freelist)
  BY <1>3, <1>4, <1>5 DEF AtOK, NodeShape
<1>7. \A p, j : ~Reached(at, p, j)
  BY <1>2 DEF Reached, Late
<1>8. \A v \in ValuesOf(graph) : buffer[v] = v
  BY <1>1, <1>7 DEF RootsOK
<1>9. RootsOK(graph, at', buffer)
  BY <1>1, <1>8 DEF RootsOK
<1>10. ASSUME NEW c \in Claims(graph) PROVE ~Closed(at', c) /\ c[3] \in ValuesOf(graph)
  <2>1. c[1] \in Nat /\ c[2] \in Nat /\ c[3] \in ValuesOf(graph)
    BY <1>1, ClaimFacts DEF ClaimOK
  <2> QED BY <1>4, <2>1 DEF Closed, Late
<1>11. CountsOK(graph, at', buffer, usecount')
  <2>1. ASSUME NEW b \in ValuesOf(graph)
        PROVE  OpenFor(graph, at', buffer, b) = {c \in Claims(graph) : c[3] = b}
    BY <1>8, <1>10 DEF OpenFor
  <2>2. \A b \in ValuesOf(graph) : usecount'[b] = Cardinality(OpenFor(graph, at', buffer, b))
    BY <1>2, <2>1 DEF UseCount
  <2>3. \A b \in ValuesOf(graph) : Cardinality(OpenFor(graph, at', buffer, b)) \in Nat
    BY <1>1, OpenFinite
  <2>4. usecount' \in [ValuesOf(graph) -> Int]
    BY <1>2, <2>2, <2>3
  <2> QED BY <2>2, <2>4 DEF CountsOK
<1>12. freelist = <<>>
  <2>1. ASSUME NEW i \in DOMAIN freelist PROVE FALSE
    <3>1. EntryOK(graph, at, buffer, freelist[i])
      BY <1>1 DEF FreeOK
    <3>2. PICK c \in Claims(graph) : buffer[c[3]] = freelist[i].value
      BY <3>1 DEF EntryOK
    <3>3. ~Closed(at, c)
      BY <1>2 DEF Closed, Late
    <3> QED BY <3>1, <3>2, <3>3 DEF EntryOK, OpenFor
  <2>2. freelist \in Seq([value : ValuesOf(graph), point : StepsOf(graph)]) /\ DOMAIN freelist = {}
    BY <1>1, <2>1 DEF FreeOK
  <2> QED BY <2>2
<1>13. FreeOK(graph, at', buffer, freelist)
  BY <1>12 DEF FreeOK
<1>14. KindOK(graph, buffer, alloc_kind')
  <2>1. alloc_kind' = [v \in ValuesOf(graph) |-> CASE v \in graph.weights -> "kAllocateStatically"
                                         [] v \in graph.preexisting -> "kPreExisting"
                                         [] OTHER -> "kAllocate"]
    BY DEF ComputeUseCounts, Values, ValuesOf
  <2>2. alloc_kind' \in [ValuesOf(graph) -> {"kAllocate", "kAllocateOutput", "kAllocateStatically",
                                 "kPreExisting", "kReuse", "kShare"}]
    BY <2>1
  <2>3. \A v \in ValuesOf(graph) \ Given(graph) : alloc_kind'[v] = "kAllocate"
    BY <2>1 DEF Given
  <2> QED BY <1>8, <2>2, <2>3 DEF KindOK
<1>15. DeallocOK(graph, at', freelist, dealloc)
  BY <1>1, <1>2, <1>4 DEF DeallocOK
<1> QED BY <1>1, <1>2, <1>6, <1>9, <1>11, <1>13, <1>14, <1>15 DEF PlanInv
\* A step that only moves on keeps PlanInv.
LEMMA OnlyMoves ==
    ASSUME PlanInv, UNCHANGED <<graph, usecount, buffer, alloc_kind, freelist, dealloc>>,
           at.phase \notin {"count", "dealloc", "planned"}, at'.phase \notin {"dealloc", "planned"},
           AtOK(graph, at', freelist),
           \A c \in Claims(graph) : Closed(at, c) = Closed(at', c),
           \A p \in StepsOf(graph) : \A j \in DOMAIN graph.nodes[p].outputs :
               Reached(at, p, j) => Reached(at', p, j)
    PROVE  PlanInv'
<1>1. /\ GraphOK(graph) /\ RootsOK(graph, at, buffer)
      /\ CountsOK(graph, at, buffer, usecount) /\ FreeOK(graph, at, buffer, freelist)
      /\ SharingOK(graph, buffer) /\ KindOK(graph, buffer, alloc_kind)
      /\ DeallocOK(graph, at, freelist, dealloc)
  BY DEF PlanInv
<1>2. RootsOK(graph, at', buffer) /\ CountsOK(graph, at', buffer, usecount) /\ FreeOK(graph, at', buffer, freelist)
  BY <1>1, MovesOn
<1>3. DeallocOK(graph, at', freelist, dealloc)
  BY <1>1 DEF DeallocOK
<1> QED BY <1>1, <1>2, <1>3 DEF PlanInv

\* The action keeps PlanInv.
LEMMA OutputsPlannedStep ==
    ASSUME PlanInv, OutputsPlanned
    PROVE  PlanInv'
<1>1. /\ at.phase = "outputs" /\ at' = [at EXCEPT !.phase = "release", !.arg = 1]
      /\ UNCHANGED <<graph, usecount, buffer, alloc_kind, freelist, dealloc>>
      /\ at.arg \notin DOMAIN Node.outputs
  BY DEF OutputsPlanned
<1>2. /\ GraphOK(graph) /\ at \in [phase : Phases, step : Nat, arg : Nat]
      /\ at.step \in StepsOf(graph) /\ at.arg \in 1 .. Len(Node.outputs) + 1
  BY <1>1 DEF PlanInv, AtOK, Late, Node
<1>3. /\ at' \in [phase : Phases, step : Nat, arg : Nat]
      /\ at'.phase = "release" /\ at'.step = at.step /\ at'.arg = 1
  BY <1>1, <1>2 DEF Phases
<1>4. NodeShape(ValuesOf(graph), Node)
  BY NodeNow
<1>5. at.arg = Len(Node.outputs) + 1 /\ Len(Node.outputs) \in Nat
  BY <1>1, <1>2, <1>4 DEF NodeShape
<1>6. 1 \in 1 .. Len(Arguments(Node)) + 1
  BY <1>4 DEF NodeShape
<1>7. AtOK(graph, at', freelist)
  BY <1>2, <1>3, <1>6 DEF AtOK, Node
<1>8. ASSUME NEW c \in Claims(graph) PROVE Closed(at, c) = Closed(at', c)
  <2>1. ClaimOK(graph, c)
    BY <1>2, ClaimFacts
  <2>2. c[1] = at.step => c[2] \in DOMAIN Arguments(Node) /\ at.step \in Nat \ {0}
    BY <1>2, <2>1, GraphFacts DEF ClaimOK, Node
  <2>3. c[1] = at.step => ~(c[2] < 1)
    BY <1>4, <2>2 DEF NodeShape
  <2> QED BY <1>1, <1>3, <2>3 DEF Closed, Late
<1>9. ASSUME NEW p \in StepsOf(graph), NEW j \in DOMAIN graph.nodes[p].outputs, Reached(at, p, j)
      PROVE  Reached(at', p, j)
  BY <1>1, <1>3, <1>9 DEF Reached, Late
<1> QED BY <1>1, <1>3, <1>7, <1>8, <1>9, OnlyMoves

\* The argument at which the planner stands while it counts down.
Counting(g, a, b) ==
    /\ a.phase = "release" /\ b.phase = "release" /\ b.step = a.step /\ b.arg = a.arg + 1
    /\ a.step \in StepsOf(g) /\ a.step \in Nat \ {0} /\ a.arg \in Nat
    /\ a.arg \in DOMAIN Arguments(g.nodes[a.step])

\* It is one of the node's, and the planner then stands at the next.
LEMMA CountingNow ==
    ASSUME PlanInv, at.phase = "release", at.arg \in DOMAIN Arguments(Node),
           at' = [at EXCEPT !.arg = @ + 1]
    PROVE  Counting(graph, at, at') /\ \A F : AtOK(graph, at', F)
<1>1. AtOK(graph, at, freelist) /\ GraphOK(graph)
  BY DEF PlanInv
<1>2. /\ at' \in [phase : Phases, step : Nat, arg : Nat]
      /\ at'.phase = at.phase /\ at'.step = at.step /\ at'.arg = at.arg + 1
      /\ at.arg \in Nat /\ at.step \in StepsOf(graph) /\ at.step \in Nat
  BY <1>1, ArgNext
<1>3. NodeShape(ValuesOf(graph), Node)
  BY NodeNow
<1>4. at.arg \in 1 .. Len(Arguments(Node)) /\ Len(Arguments(Node)) \in Nat
  BY <1>3 DEF NodeShape
<1>5. at'.arg \in 1 .. Len(Arguments(Node)) + 1
  BY <1>2, <1>4
<1>6. at.step # 0
  BY <1>1, <1>2, GraphFacts
<1> QED BY <1>2, <1>5, <1>6 DEF AtOK, Counting, Node

\* Counting an argument down closes the use of it.
LEMMA CountingCloses ==
    ASSUME NEW g, GraphOK(g), NEW a, NEW b, Counting(g, a, b), NEW c \in Claims(g)
    PROVE  Closed(b, c) <=> Closed(a, c) \/ (c[1] = a.step /\ c[2] = a.arg)
<1>1. c[1] \in Nat /\ c[2] \in Nat
  BY ClaimFacts DEF ClaimOK
<1> QED BY <1>1 DEF Closed, Counting, Late

\* Counting down does not change what is planned.
LEMMA CountingReached ==
    ASSUME NEW g, NEW a, NEW b, Counting(g, a, b), NEW p, NEW j
    PROVE  Reached(a, p, j) = Reached(b, p, j)
BY DEF Reached, Counting, Late

\* The action keeps PlanInv.
LEMMA SkipArgumentStep ==
    ASSUME PlanInv, SkipArgument
    PROVE  PlanInv'
<1>1. /\ at.phase = "release" /\ at.arg \in DOMAIN Arguments(Node)
      /\ ~Exists(Arguments(Node)[at.arg]) /\ at' = [at EXCEPT !.arg = @ + 1]
      /\ UNCHANGED <<graph, usecount, buffer, alloc_kind, freelist, dealloc>>
  BY DEF SkipArgument
<1>2. Counting(graph, at, at') /\ AtOK(graph, at', freelist) /\ GraphOK(graph)
  BY <1>1, CountingNow DEF PlanInv
<1>3. ASSUME NEW c \in Claims(graph) PROVE Closed(at, c) = Closed(at', c)
  <2>1. ClaimOK(graph, c) /\ NoValue \notin ValuesOf(graph)
    BY <1>2, ClaimFacts, GraphFacts
  <2>2. at.step # 0
    BY <1>2 DEF Counting
  <2>3. ~(c[1] = at.step /\ c[2] = at.arg)
    BY <1>1, <2>1, <2>2 DEF ClaimOK, Node, Exists
  <2>4. Closed(at', c) <=> Closed(at, c)
    BY <1>2, <2>3, CountingCloses
  <2> QED BY <2>4 DEF Closed
<1>4. at'.phase = "release"
  BY <1>2 DEF Counting
<1>5. \A p, j : Reached(at, p, j) => Reached(at', p, j)
  BY <1>2, CountingReached
<1> QED BY <1>1, <1>2, <1>3, <1>4, <1>5, OnlyMoves

\* The action keeps PlanInv.
LEMMA NextStepStep ==
    ASSUME PlanInv, NextStep
    PROVE  PlanInv'
<1>1. /\ at.phase = "release" /\ at.arg \notin DOMAIN Arguments(Node)
      /\ at' = IF at.step < Len(graph.nodes)
               THEN [phase |-> "outputs", step |-> at.step + 1, arg |-> 1]
               ELSE [phase |-> "fence", step |-> 1, arg |-> Len(freelist)]
      /\ UNCHANGED <<graph, usecount, buffer, alloc_kind, freelist, dealloc>>
  BY DEF NextStep
<1>2. /\ GraphOK(graph) /\ at \in [phase : Phases, step : Nat, arg : Nat] /\ FreeOK(graph, at, buffer, freelist)
      /\ at.step \in StepsOf(graph) /\ at.arg \in 1 .. Len(Arguments(Node)) + 1
  BY <1>1 DEF PlanInv, AtOK, Late, Node
<1>3. NodeShape(ValuesOf(graph), Node)
  BY NodeNow
<1>4. at.arg = Len(Arguments(Node)) + 1 /\ Len(Arguments(Node)) \in Nat
      /\ DOMAIN Arguments(Node) = 1 .. Len(Arguments(Node))
  BY <1>1, <1>2, <1>3 DEF NodeShape
<1>5. StepsOf(graph) = 1 .. Len(graph.nodes) /\ Len(graph.nodes) \in Nat \ {0}
  BY <1>2, GraphFacts
<1>6. ASSUME NEW c \in Claims(graph)
      PROVE  /\ Closed(at, c) <=> c[1] # 0 /\ c[1] <= at.step
             /\ c[1] \in 0 .. Len(graph.nodes)
  <2>1. ClaimOK(graph, c)
    BY <1>2, ClaimFacts
  <2>2. c[1] \in 0 .. Len(graph.nodes)
    BY <1>5, <2>1 DEF ClaimOK
  <2>3. c[1] = at.step => c[2] < at.arg
    <3>1. c[1] = at.step => c[2] \in DOMAIN Arguments(Node)
      BY <1>2, <1>5, <2>1 DEF ClaimOK, Node
    <3> QED BY <1>4, <3>1
  <2>4. c[1] \in Nat /\ at.step \in Nat
    BY <1>5, <2>2, <1>2
  <2> QED BY <1>1, <2>2, <2>3, <2>4 DEF Closed, Late
<1>7. CASE at.step < Len(graph.nodes)
  <2>1. at' = [phase |-> "outputs", step |-> at.step + 1, arg |-> 1]
    BY <1>1, <1>7
  <2>2. at'.phase = "outputs" /\ at'.step = at.step + 1 /\ at'.arg = 1
        /\ at' \in [phase : Phases, step : Nat, arg : Nat] /\ at'.step \in StepsOf(graph)
    BY <1>2, <1>5, <1>7, <2>1 DEF Phases
  <2>3. NodeShape(ValuesOf(graph), graph.nodes[at'.step])
    BY <1>2, <2>2, StepShape
  <2>4. 1 \in 1 .. Len(graph.nodes[at'.step].outputs) + 1
    BY <2>3 DEF NodeShape
  <2>5. AtOK(graph, at', freelist)
    BY <2>2, <2>4 DEF AtOK
  <2>6. ASSUME NEW c \in Claims(graph) PROVE Closed(at, c) = Closed(at', c)
    <3>1. Closed(at', c) <=> c[1] # 0 /\ c[1] < at.step + 1
      BY <2>2 DEF Closed, Late
    <3>2. Closed(at, c) <=> Closed(at', c)
      BY <1>2, <1>6, <3>1
    <3> QED BY <3>2 DEF Closed
  <2>7. ASSUME NEW p \in StepsOf(graph), NEW j, Reached(at, p, j) PROVE Reached(at', p, j)
    <3>1. p < at.step \/ p = at.step
      BY <1>1, <2>7 DEF Reached, Late
    <3>2. p < at'.step
      BY <1>2, <1>5, <2>2, <3>1
    <3> QED BY <2>2, <3>2 DEF Reached
  <2> QED BY <1>1, <2>2, <2>5, <2>6, <2>7, OnlyMoves
<1>8. CASE ~(at.step < Len(graph.nodes))
  <2>1. at' = [phase |-> "fence", step |-> 1, arg |-> Len(freelist)]
    BY <1>1, <1>8
  <2>2. Len(freelist) \in Nat
    BY <1>2, FreeType
  <2>3. at'.phase = "fence" /\ at'.step = 1 /\ at'.arg = Len(freelist)
        /\ at' \in [phase : Phases, step : Nat, arg : Nat] /\ at'.step \in StepsOf(graph)
    BY <1>5, <2>1, <2>2 DEF Phases
  <2>4. AtOK(graph, at', freelist)
    BY <2>2, <2>3 DEF AtOK, Late
  <2>5. ASSUME NEW c \in Claims(graph) PROVE Closed(at, c) = Closed(at', c)
    <3>1. Closed(at', c) <=> c[1] # 0
      BY <2>3 DEF Closed, Late
    <3>2. c[1] <= at.step
      BY <1>2, <1>5, <1>6, <1>8
    <3>3. Closed(at, c) <=> Closed(at', c)
      BY <1>6, <3>1, <3>2
    <3> QED BY <3>3 DEF Closed
  <2>6. \A p, j : Reached(at', p, j)
    BY <2>3 DEF Reached, Late
  <2> QED BY <1>1, <2>3, <2>4, <2>5, <2>6, OnlyMoves
<1> QED BY <1>7, <1>8
\* The use c0 of v is the only one that b has closed and a has not.
OneClosed(g, a, b, B, v, c0) ==
    /\ \A x : OpenFor(g, b, B, x) = OpenFor(g, a, B, x) \ {c0}
    /\ c0 \in OpenFor(g, a, B, B[v])
    /\ \A x : x # B[v] => c0 \notin OpenFor(g, a, B, x)
    /\ v \in ValuesOf(g) /\ c0 \in Claims(g) /\ c0[1] = a.step /\ c0[3] = v

\* The uses to come of each buffer, one argument on.
LEMMA CountingOpen ==
    ASSUME NEW g, GraphOK(g), NEW a, NEW b, Counting(g, a, b), NEW B, NEW v,
           v = Arguments(g.nodes[a.step])[a.arg], Exists(v)
    PROVE  \E c0 : OneClosed(g, a, b, B, v, c0)
<1>0. PICK c0 : c0 = <<a.step, a.arg, v>>
  OBVIOUS
<1>1. c0 \in Claims(g) /\ c0[1] = a.step /\ c0[2] = a.arg /\ c0[3] = v
  BY <1>0, SiteOK DEF Counting
<1>2. v \in ValuesOf(g)
  BY <1>1, ClaimFacts DEF ClaimOK
<1>3. ASSUME NEW c \in Claims(g) PROVE Closed(b, c) <=> Closed(a, c) \/ c = c0
  <2>1. ClaimOK(g, c)
    BY ClaimFacts
  <2>2. c[1] = a.step /\ c[2] = a.arg => c = c0
    BY <1>0, <2>1 DEF ClaimOK, Counting
  <2> QED BY <1>1, <2>2, CountingCloses
<1>4. ~Closed(a, c0)
  BY <1>1 DEF Closed, Counting, Late
<1>5. \A x : OpenFor(g, b, B, x) = OpenFor(g, a, B, x) \ {c0}
  BY <1>3 DEF OpenFor
<1>6. c0 \in OpenFor(g, a, B, B[v])
  BY <1>1, <1>4 DEF OpenFor
<1>7. \A x : x # B[v] => c0 \notin OpenFor(g, a, B, x)
  BY <1>1 DEF OpenFor
<1>8. OneClosed(g, a, b, B, v, c0)
  BY <1>1, <1>2, <1>5, <1>6, <1>7 DEF OneClosed
<1> QED BY <1>8

\* CountsOK is kept.
LEMMA CountingCounts ==
    ASSUME NEW g, GraphOK(g), NEW a, NEW b, Counting(g, a, b), NEW B, NEW v,
           v = Arguments(g.nodes[a.step])[a.arg], Exists(v), NEW uc, NEW ud,
           RootsOK(g, a, B), CountsOK(g, a, B, uc), ud = [uc EXCEPT ![B[v]] = @ - 1]
    PROVE  CountsOK(g, b, B, ud)
<1>1. PICK c0 : OneClosed(g, a, b, B, v, c0)
  BY CountingOpen
<1>2. /\ \A x : OpenFor(g, b, B, x) = OpenFor(g, a, B, x) \ {c0}
      /\ c0 \in OpenFor(g, a, B, B[v])
      /\ \A x : x # B[v] => c0 \notin OpenFor(g, a, B, x)
      /\ v \in ValuesOf(g)
  BY <1>1 DEF OneClosed
<1>3. B[v] \in ValuesOf(g) /\ B[B[v]] = B[v] /\ a.phase # "count"
  BY <1>2 DEF RootsOK, Counting
<1>4. uc \in [ValuesOf(g) -> Int] /\ \A x \in ValuesOf(g) : B[x] = x => uc[x] = Cardinality(OpenFor(g, a, B, x))
  BY <1>3 DEF CountsOK
<1>5. ASSUME NEW x \in ValuesOf(g), B[x] = x PROVE ud[x] = Cardinality(OpenFor(g, b, B, x))
  <2>1. PICK S, T : S = OpenFor(g, a, B, x) /\ T = OpenFor(g, b, B, x)
    OBVIOUS
  <2>2. T = S \ {c0} /\ IsFiniteSet(S) /\ uc[x] = Cardinality(S)
    BY <1>2, <1>4, <1>5, <2>1, OpenFinite
  <2>3. CASE x = B[v]
    <3>1. c0 \in S
      BY <1>2, <2>1, <2>3
    <3>2. Cardinality(S \ {c0}) = Cardinality(S) - 1
      BY <2>2, <3>1, FS_RemoveElement
    <3>3. ud[x] = uc[x] - 1
      BY <1>3, <1>4, <2>3
    <3> QED BY <2>1, <2>2, <3>2, <3>3
  <2>4. CASE x # B[v]
    <3>1. c0 \notin S
      BY <1>2, <2>1, <2>4
    <3>2. T = S
      BY <2>2, <3>1
    <3>3. ud[x] = uc[x]
      BY <1>4, <2>4
    <3> QED BY <2>1, <2>2, <3>2, <3>3
  <2> QED BY <2>3, <2>4
<1>6. ud \in [ValuesOf(g) -> Int]
  BY <1>3, <1>4
<1> QED BY <1>5, <1>6 DEF CountsOK

\* A new entry at the head of the free list.
LEMMA PushedFree ==
    ASSUME NEW g, GraphOK(g), NEW a, NEW B, NEW F, FreeOK(g, a, B, F), NEW G, NEW e,
           e \in [value : ValuesOf(g), point : StepsOf(g)], G = <<e>> \o F,
           EntryOK(g, a, B, e),
           \A i \in DOMAIN F : F[i].value # e.value /\ e.point >= F[i].point
    PROVE  FreeOK(g, a, B, G)
<1>1. PICK R : R = [value : ValuesOf(g), point : StepsOf(g)]
  OBVIOUS
<1>2. F \in Seq(R) /\ e \in R /\ Len(F) \in Nat /\ DOMAIN F = 1 .. Len(F)
  BY <1>1, FreeType DEF FreeOK
<1>3. <<e>> \in Seq(R) /\ Len(<<e>>) = 1
  BY <1>2
<1>0. PICK s : s = <<e>>
  OBVIOUS
<1>4. G = s \o F /\ s \in Seq(R) /\ Len(s) = 1 /\ s[1] = e
  BY <1>0, <1>3
<1>5. /\ G \in Seq(R) /\ Len(G) = Len(s) + Len(F) /\ DOMAIN G = 1 .. Len(s) + Len(F)
      /\ Len(s) \in Nat /\ Len(F) \in Nat
      /\ \A i \in 1 .. Len(s) : G[i] = s[i]
      /\ \A j \in 1 .. Len(F) : G[Len(s) + j] = F[j]
  BY <1>2, <1>4, JoinFacts
<1>6. G[1] = e /\ DOMAIN G = 1 .. 1 + Len(F)
  BY <1>4, <1>5
<1>7. ASSUME NEW i \in DOMAIN G, i # 1 PROVE i - 1 \in DOMAIN F /\ G[i] = F[i - 1]
  <2>1. PICK j \in 1 .. Len(F) : i = 1 + j /\ j = i - 1
    BY <1>2, <1>6, <1>7
  <2>2. G[i] = F[j]
    BY <1>4, <1>5, <2>1
  <2> QED BY <1>2, <2>1, <2>2
<1>8. \A i \in DOMAIN G : EntryOK(g, a, B, G[i])
  BY <1>6, <1>7 DEF FreeOK
<1>9. ASSUME NEW i \in DOMAIN G, NEW k \in DOMAIN G, i < k
      PROVE  G[i].value # G[k].value /\ G[i].point >= G[k].point
  <2>1. k # 1 /\ i \in Nat /\ k \in Nat
    BY <1>2, <1>6, <1>9
  <2>2. k - 1 \in DOMAIN F /\ G[k] = F[k - 1]
    BY <1>7, <2>1
  <2>3. CASE i = 1
    BY <1>6, <2>2, <2>3
  <2>4. CASE i # 1
    <3>1. i - 1 \in DOMAIN F /\ G[i] = F[i - 1]
      BY <1>7, <2>4
    <3>2. i - 1 < k - 1
      BY <1>9, <2>1
    <3> QED BY <2>2, <3>1, <3>2 DEF FreeOK
  <2> QED BY <2>3, <2>4
<1> QED BY <1>1, <1>5, <1>8, <1>9 DEF FreeOK

\* Counting down an argument frees the buffer that has no use left.
LEMMA CountingFree ==
    ASSUME NEW g, GraphOK(g), NEW a, NEW b, Counting(g, a, b), NEW B, NEW v,
           v = Arguments(g.nodes[a.step])[a.arg], Exists(v), NEW uc, NEW F, NEW G,
           RootsOK(g, a, B), CountsOK(g, a, B, uc), FreeOK(g, a, B, F),
           uc[B[v]] = 1 => G = <<[value |-> B[v], point |-> a.step]>> \o F, uc[B[v]] # 1 => G = F
    PROVE  FreeOK(g, b, B, G)
<1>1. PICK c0 : OneClosed(g, a, b, B, v, c0)
  BY CountingOpen
<1>2. /\ \A x : OpenFor(g, b, B, x) = OpenFor(g, a, B, x) \ {c0}
      /\ c0 \in OpenFor(g, a, B, B[v])
      /\ v \in ValuesOf(g)
  BY <1>1 DEF OneClosed
<1>3. B[v] \in ValuesOf(g) /\ B[B[v]] = B[v] /\ a.phase = "release" /\ a.step \in StepsOf(g) /\ b.phase = "release"
      /\ b.step = a.step
  BY <1>2 DEF RootsOK, Counting
<1>4. FreeOK(g, b, B, F)
  <2>1. \A e : EntryOK(g, a, B, e) => EntryOK(g, b, B, e)
    BY <1>2 DEF EntryOK
  <2> QED BY <2>1 DEF FreeOK
<1>5. ASSUME NEW c, Closed(b, c) PROVE c[1] # 0 /\ (c[1] < a.step \/ c[1] = a.step)
  BY <1>3, <1>5 DEF Closed, Late
<1>6. CASE uc[B[v]] = 1
  <2>1. PICK e : e = [value |-> B[v], point |-> a.step]
    OBVIOUS
  <2>2. e.value = B[v] /\ e.point = a.step /\ e \in [value : ValuesOf(g), point : StepsOf(g)]
    BY <1>3, <2>1
  <2>3. OpenFor(g, a, B, B[v]) = {c0}
    <3>1. PICK S : S = OpenFor(g, a, B, B[v])
      OBVIOUS
    <3>2. Cardinality(S) = 1 /\ IsFiniteSet(S)
      BY <1>3, <1>6, <3>1, OpenFinite DEF CountsOK
    <3>3. PICK y : S = {y}
      BY <3>2, FS_Singleton
    <3> QED BY <1>2, <3>1, <3>3
  <2>4. OpenFor(g, b, B, B[v]) = {}
    BY <1>2, <2>3
  <2>5. ASSUME NEW c \in Claims(g), B[c[3]] = B[v] PROVE c[1] # 0 /\ c[1] <= a.step
    <3>1. Closed(b, c)
      BY <2>4, <2>5 DEF OpenFor
    <3>2. c[1] \in Nat /\ a.step \in Nat
      BY ClaimFacts DEF ClaimOK, Counting
    <3> QED BY <1>5, <3>1, <3>2
  <2>6. c0 \in Claims(g) /\ B[c0[3]] = B[v] /\ c0[1] = a.step
    BY <1>1 DEF OneClosed
  <2>7. EntryOK(g, b, B, e)
    BY <1>3, <2>2, <2>4, <2>5, <2>6 DEF EntryOK
  <2>8. ASSUME NEW i \in DOMAIN F PROVE F[i].value # e.value /\ e.point >= F[i].point
    <3>1. F[i].value # e.value
      BY <1>2, <2>2, FreeHasNoUses
    <3>2. EntryOK(g, b, B, F[i]) /\ F[i].point \in StepsOf(g)
      BY <1>4, FreeType DEF FreeOK
    <3>3. PICK c \in Claims(g) : B[c[3]] = F[i].value /\ c[1] = F[i].point
      BY <3>2 DEF EntryOK
    <3>4. Closed(b, c)
      BY <3>2, <3>3 DEF EntryOK, OpenFor
    <3>5. F[i].point < a.step \/ F[i].point = a.step
      BY <1>5, <3>3, <3>4
    <3>6. F[i].point \in Nat /\ a.step \in Nat
      BY <1>3, <3>2, GraphFacts
    <3> QED BY <2>2, <3>1, <3>5, <3>6
  <2>9. G = <<e>> \o F
    BY <1>6, <2>1
  <2> QED BY <1>4, <2>2, <2>7, <2>8, <2>9, PushedFree
<1>7. CASE uc[B[v]] # 1
  BY <1>4, <1>7
<1> QED BY <1>6, <1>7

\* The action keeps PlanInv.
LEMMA CountDownUseStep ==
    ASSUME PlanInv, CountDownUse
    PROVE  PlanInv'
<1>1. PICK v : v = Arguments(Node)[at.arg]
  OBVIOUS
<1>2. /\ at.phase = "release" /\ at.arg \in DOMAIN Arguments(Node) /\ Exists(v)
      /\ usecount' = [usecount EXCEPT ![buffer[v]] = @ - 1]
      /\ freelist' = IF usecount[buffer[v]] = 1
                     THEN <<[value |-> buffer[v], point |-> at.step]>> \o freelist ELSE freelist
      /\ at' = [at EXCEPT !.arg = @ + 1]
      /\ UNCHANGED <<graph, buffer, alloc_kind, dealloc>>
  BY <1>1 DEF CountDownUse
<1>3. Counting(graph, at, at') /\ AtOK(graph, at', freelist')
  BY <1>2, CountingNow
<1>4. /\ GraphOK(graph) /\ RootsOK(graph, at, buffer)
      /\ CountsOK(graph, at, buffer, usecount) /\ FreeOK(graph, at, buffer, freelist)
      /\ SharingOK(graph, buffer) /\ KindOK(graph, buffer, alloc_kind)
      /\ DeallocOK(graph, at, freelist, dealloc)
  BY DEF PlanInv
<1>5. v = Arguments(graph.nodes[at.step])[at.arg]
  BY <1>1 DEF Node
<1>6. CountsOK(graph, at', buffer, usecount')
  BY <1>2, <1>3, <1>4, <1>5, CountingCounts
<1>7. FreeOK(graph, at', buffer, freelist')
  <2>1. /\ usecount[buffer[v]] = 1 =>
              freelist' = <<[value |-> buffer[v], point |-> at.step]>> \o freelist
        /\ usecount[buffer[v]] # 1 => freelist' = freelist
    BY <1>2
  <2>2. Exists(v)
    BY <1>2
  <2> QED BY <1>3, <1>4, <1>5, <2>1, <2>2, CountingFree
<1>8. RootsOK(graph, at', buffer)
  <2>1. \A p, j : Reached(at, p, j) = Reached(at', p, j)
    BY <1>3, CountingReached
  <2> QED BY <1>4, <2>1 DEF RootsOK
<1>9. DeallocOK(graph, at', freelist', dealloc)
  <2>1. at'.phase = "release"
    BY <1>3 DEF Counting
  <2>2. RangesOK(graph, freelist', dealloc, 0, FALSE)
    BY <1>2, <1>4, NoRanges DEF DeallocOK
  <2> QED BY <2>1, <2>2 DEF DeallocOK
<1> QED BY <1>2, <1>3, <1>4, <1>6, <1>7, <1>8, <1>9 DEF PlanInv
-----------------------------------------------------------------------------
(* The deallocation plan. *)

\* The points of the entries, from the back, are steps and do not decrease.
LEMMA PointsRise ==
    ASSUME NEW g, GraphOK(g), NEW a, NEW B, NEW F, FreeOK(g, a, B, F)
    PROVE  /\ \A k \in 1 .. Len(F) : /\ FromBack(F, k).point \in StepsOf(g)
                                     /\ FromBack(F, k).point \in Nat /\ FromBack(F, k).point >= 1
                                     /\ FromBack(F, k).value \in ValuesOf(g)
           /\ \A k, l \in 1 .. Len(F) : k < l => FromBack(F, k).point <= FromBack(F, l).point
<1>1. Len(F) \in Nat /\ DOMAIN F = 1 .. Len(F)
  BY FreeType
<1>2. ASSUME NEW k \in 1 .. Len(F) PROVE Len(F) + 1 - k \in DOMAIN F
  BY <1>1
<1>3. \A i \in DOMAIN F : F[i].point \in StepsOf(g) /\ F[i].value \in ValuesOf(g)
  BY FreeType
<1>4. ASSUME NEW k \in 1 .. Len(F)
      PROVE  /\ FromBack(F, k).point \in StepsOf(g)
             /\ FromBack(F, k).point \in Nat /\ FromBack(F, k).point >= 1
             /\ FromBack(F, k).value \in ValuesOf(g)
  BY <1>2, <1>3, GraphFacts DEF FromBack
<1>5. ASSUME NEW k \in 1 .. Len(F), NEW l \in 1 .. Len(F), k < l
      PROVE  FromBack(F, k).point <= FromBack(F, l).point
  <2>1. PICK i, j : i = Len(F) + 1 - l /\ j = Len(F) + 1 - k
    OBVIOUS
  <2>2. i \in DOMAIN F /\ j \in DOMAIN F /\ i < j
    BY <1>1, <1>5, <2>1
  <2>3. F[i].point >= F[j].point
    BY <2>2 DEF FreeOK
  <2>4. F[i].point \in Nat /\ F[j].point \in Nat
    BY <1>3, <2>2, GraphFacts
  <2> QED BY <2>1, <2>3, <2>4 DEF FromBack
<1> QED BY <1>4, <1>5

\* One entry more.
LEMMA DyingNext ==
    ASSUME NEW F, NEW m \in Nat, NEW p
    PROVE  /\ FromBack(F, m + 1).point = p => DyingAt(F, m + 1, p) = DyingAt(F, m, p) \cup {m + 1}
           /\ FromBack(F, m + 1).point # p => DyingAt(F, m + 1, p) = DyingAt(F, m, p)
<1>1. 1 .. m + 1 = (1 .. m) \cup {m + 1}
  OBVIOUS
<1> QED BY <1>1 DEF DyingAt

\* How an entry that dies at step q changes the ranges.
RangesMoved(g, d, q, m, fr, to) ==
    /\ \A p \in StepsOf(g) : fr[p] = IF q # d.prev /\ p = q THEN m + 1 ELSE d.from[p]
    /\ \A p \in StepsOf(g) : to[p] = IF q # d.prev /\ d.has_prev /\ p = d.prev THEN m ELSE d.to[p]

\* The range of step p is right after m entries.
RangeFits(F, m, p, fr, to) ==
    DyingAt(F, m, p) = fr[p] .. (IF OpenRange(F, m, p) THEN m ELSE to[p])

\* The range of each step after one entry more.
LEMMA RangeNext ==
    ASSUME NEW g, GraphOK(g), NEW a, NEW B, NEW F, FreeOK(g, a, B, F),
           NEW m \in Nat, m + 1 <= Len(F), NEW d, RangesOK(g, F, d, m, FALSE),
           NEW fr, NEW to, NEW q, q = FromBack(F, m + 1).point,
           RangesMoved(g, d, q, m, fr, to), NEW p \in StepsOf(g) \ {1}
    PROVE  RangeFits(F, m + 1, p, fr, to)
<1>0. Len(F) \in Nat
  BY FreeType
<1>1. m + 1 \in 1 .. Len(F) /\ (m # 0 => m \in 1 .. Len(F))
  BY <1>0
<1>2. q \in Nat /\ q >= 1 /\ p \in Nat /\ p > 1
  BY <1>1, PointsRise, GraphFacts
<1>3. PICK s : s = IF m = 0 THEN 1 ELSE FromBack(F, m).point
  OBVIOUS
<1>4. d.prev = s /\ s \in Nat /\ s >= 1 /\ s <= q
  BY <1>0, <1>1, <1>2, <1>3, PointsRise DEF RangesOK
<1>5. d.has_prev <=> s > 1
  BY <1>3, <1>4 DEF RangesOK
<1>6. d.from[p] \in Nat /\ d.to[p] \in Nat
  BY DEF RangesOK
<1>7. OpenRange(F, m, p) <=> p = s
  BY <1>2, <1>3 DEF OpenRange
<1>8. OpenRange(F, m + 1, p) <=> p = q
  BY <1>2 DEF OpenRange
<1>9. DyingAt(F, m, p) = d.from[p] .. (IF OpenRange(F, m, p) /\ ~FALSE THEN m ELSE d.to[p])
  BY DEF RangesOK
<1>13. p = q => DyingAt(F, m + 1, p) = DyingAt(F, m, p) \cup {m + 1}
  BY DyingNext
<1>10. CASE p = q /\ q = s
  <2>1. DyingAt(F, m + 1, p) = DyingAt(F, m, p) \cup {m + 1}
    BY <1>10, <1>13
  <2>2. DyingAt(F, m, p) = d.from[p] .. m
    BY <1>7, <1>9, <1>10
  <2>3. m \in DyingAt(F, m, p)
    BY <1>2, <1>3, <1>10 DEF DyingAt
  <2>4. d.from[p] <= m
    BY <1>6, <2>2, <2>3
  <2>5. (d.from[p] .. m) \cup {m + 1} = d.from[p] .. m + 1
    BY <1>6, <2>4
  <2>6. fr[p] = d.from[p]
    BY <1>4, <1>10 DEF RangesMoved
  <2> QED BY <1>8, <1>10, <2>1, <2>2, <2>5, <2>6 DEF RangeFits
<1>11. CASE p = q /\ q # s
  <2>1. DyingAt(F, m + 1, p) = DyingAt(F, m, p) \cup {m + 1}
    BY <1>11, <1>13
  <2>2. ASSUME NEW k \in DyingAt(F, m, p) PROVE FALSE
    <3>1. k \in 1 .. m /\ FromBack(F, k).point = p /\ m # 0
      BY DEF DyingAt
    <3>2. FromBack(F, k).point <= FromBack(F, m).point
      <4>1. k \in 1 .. Len(F) /\ m \in 1 .. Len(F)
        BY <1>0, <1>1, <3>1
      <4>2. CASE k = m
        BY <4>1, <4>2, PointsRise
      <4>3. CASE k < m
        BY <4>1, <4>3, PointsRise
      <4> QED BY <3>1, <4>2, <4>3
    <3> QED BY <1>2, <1>3, <1>4, <1>11, <3>1, <3>2
  <2>3. DyingAt(F, m + 1, p) = {m + 1}
    BY <2>1, <2>2
  <2>4. fr[p] = m + 1
    BY <1>4, <1>11 DEF RangesMoved
  <2>5. (m + 1) .. (m + 1) = {m + 1}
    OBVIOUS
  <2> QED BY <1>8, <1>11, <2>3, <2>4, <2>5 DEF RangeFits
<1>12. CASE p # q
  <2>1. DyingAt(F, m + 1, p) = DyingAt(F, m, p)
    BY <1>12, DyingNext
  <2>2. fr[p] = d.from[p]
    BY <1>12 DEF RangesMoved
  <2>3. CASE p = s
    <3>1. to[p] = m
      BY <1>2, <1>4, <1>5, <1>12, <2>3 DEF RangesMoved
    <3> QED BY <1>7, <1>8, <1>9, <1>12, <2>1, <2>2, <2>3, <3>1 DEF RangeFits
  <2>4. CASE p # s
    <3>1. to[p] = d.to[p]
      BY <1>4, <2>4 DEF RangesMoved
    <3> QED BY <1>7, <1>8, <1>9, <1>12, <2>1, <2>2, <2>4, <3>1 DEF RangeFits
  <2> QED BY <2>3, <2>4
<1> QED BY <1>10, <1>11, <1>12
\* The action keeps PlanInv.
LEMMA ComputeFenceCheckStep ==
    ASSUME PlanInv, ComputeFenceCheck
    PROVE  PlanInv'
<1>1. /\ at.phase = "fence" /\ at' = [at EXCEPT !.phase = "dealloc"]
      /\ UNCHANGED <<graph, usecount, buffer, alloc_kind, freelist, dealloc>>
  BY DEF ComputeFenceCheck
<1>2. /\ GraphOK(graph) /\ RootsOK(graph, at, buffer) /\ AtOK(graph, at, freelist)
      /\ CountsOK(graph, at, buffer, usecount) /\ FreeOK(graph, at, buffer, freelist)
      /\ SharingOK(graph, buffer) /\ KindOK(graph, buffer, alloc_kind)
      /\ DeallocOK(graph, at, freelist, dealloc)
  BY DEF PlanInv
<1>3. /\ at \in [phase : Phases, step : Nat, arg : Nat] /\ at.step \in StepsOf(graph)
      /\ at.arg = Len(freelist)
  BY <1>1, <1>2 DEF AtOK, Late
<1>4. /\ at' \in [phase : Phases, step : Nat, arg : Nat] /\ at'.step \in StepsOf(graph)
      /\ at'.arg = Len(freelist) /\ at'.phase = "dealloc"
  BY <1>1, <1>3 DEF Phases
<1>5. Len(freelist) \in Nat
  BY <1>2, FreeType
<1>6. AtOK(graph, at', freelist)
  BY <1>4, <1>5 DEF AtOK, Late
<1>7. \A c \in Claims(graph) : Closed(at, c) = Closed(at', c)
  BY <1>1, <1>4 DEF Closed, Late
<1>8. \A p, j : Reached(at', p, j)
  BY <1>4 DEF Reached, Late
<1>9. RootsOK(graph, at', buffer) /\ CountsOK(graph, at', buffer, usecount) /\ FreeOK(graph, at', buffer, freelist)
  BY <1>1, <1>2, <1>7, <1>8, MovesOn
<1>10. RangesOK(graph, freelist, dealloc, 0, FALSE)
  BY <1>1, <1>2 DEF DeallocOK
<1>11. Len(freelist) - at'.arg = 0
  BY <1>4, <1>5
<1>12. DeallocOK(graph, at', freelist, dealloc)
  BY <1>4, <1>10, <1>11 DEF DeallocOK
<1> QED BY <1>1, <1>2, <1>6, <1>9, <1>12 DEF PlanInv

\* A step of GenerateDeallocationPlan or after it, at b, leaves the rest alone.
LEMMA LateMoves ==
    ASSUME PlanInv, UNCHANGED <<graph, usecount, buffer, alloc_kind, freelist>>,
           at.phase = "dealloc", at'.phase \in {"dealloc", "planned"},
           at' \in [phase : Phases, step : Nat, arg : Nat], at'.step \in StepsOf(graph),
           at'.arg <= Len(freelist), DeallocOK(graph, at', freelist, dealloc')
    PROVE  PlanInv'
<1>1. /\ GraphOK(graph) /\ RootsOK(graph, at, buffer)
      /\ CountsOK(graph, at, buffer, usecount) /\ FreeOK(graph, at, buffer, freelist)
      /\ SharingOK(graph, buffer) /\ KindOK(graph, buffer, alloc_kind)
  BY DEF PlanInv
<1>2. AtOK(graph, at', freelist)
  BY DEF AtOK, Late
<1>3. \A c \in Claims(graph) : Closed(at, c) = Closed(at', c)
  BY DEF Closed, Late
<1>4. \A p, j : Reached(at', p, j)
  BY DEF Reached, Late
<1>5. RootsOK(graph, at', buffer) /\ CountsOK(graph, at', buffer, usecount) /\ FreeOK(graph, at', buffer, freelist)
  BY <1>1, <1>3, <1>4, MovesOn
<1> QED BY <1>1, <1>2, <1>5 DEF PlanInv

\* The action keeps PlanInv.
LEMMA GenerateDeallocationPlanStep ==
    ASSUME PlanInv, GenerateDeallocationPlan
    PROVE  PlanInv'
<1>1. /\ at.phase = "dealloc" /\ at.arg > 0 /\ at' = [at EXCEPT !.arg = @ - 1]
      /\ UNCHANGED <<graph, usecount, buffer, alloc_kind, freelist>>
  BY DEF GenerateDeallocationPlan
<1>2. /\ GraphOK(graph) /\ AtOK(graph, at, freelist) /\ FreeOK(graph, at, buffer, freelist)
      /\ DeallocOK(graph, at, freelist, dealloc)
  BY DEF PlanInv
<1>3. /\ at \in [phase : Phases, step : Nat, arg : Nat] /\ at.step \in StepsOf(graph)
      /\ at.arg <= Len(freelist)
  BY <1>1, <1>2 DEF AtOK, Late
<1>4. Len(freelist) \in Nat /\ DOMAIN freelist = 1 .. Len(freelist)
  BY <1>2, FreeType
<1>5. PICK m : m = Len(freelist) - at.arg
  OBVIOUS
<1>6. m \in Nat /\ m + 1 <= Len(freelist) /\ Len(freelist) + 1 - (m + 1) = at.arg /\ at.arg \in Nat
  BY <1>1, <1>3, <1>4, <1>5
<1>7. FromBack(freelist, m + 1) = freelist[at.arg]
  BY <1>6 DEF FromBack
<1>8. RangesOK(graph, freelist, dealloc, m, FALSE)
  BY <1>1, <1>2, <1>5 DEF DeallocOK
<1>9. PICK e, q : e = freelist[at.arg] /\ q = e.point
  OBVIOUS
<1>10. e.value \in ValuesOf(graph) /\ q \in StepsOf(graph) /\ q = FromBack(freelist, m + 1).point
  <2>1. m + 1 \in 1 .. Len(freelist)
    BY <1>4, <1>6
  <2> QED BY <1>2, <1>7, <1>9, <2>1, PointsRise
<1>11. PICK tbf, fr, to, prev, hp :
          /\ tbf = dealloc.to_be_freed /\ fr = dealloc.from /\ to = dealloc.to
          /\ prev = dealloc.prev /\ hp = dealloc.has_prev
  OBVIOUS
<1>12. /\ tbf \in Seq(ValuesOf(graph)) /\ Len(tbf) = m
       /\ (\A k \in 1 .. m : tbf[k] = FromBack(freelist, k).value)
       /\ fr \in [StepsOf(graph) -> Nat] /\ to \in [StepsOf(graph) -> Nat]
       /\ hp \in BOOLEAN /\ (hp <=> m > 0 /\ FromBack(freelist, m).point > 1)
       /\ prev = (IF m = 0 THEN 1 ELSE FromBack(freelist, m).point)
       /\ fr[1] = 1 /\ to[1] = 0
  BY <1>8, <1>11 DEF RangesOK
<1>13. PICK fr2, to2 :
          /\ fr2 = [p \in StepsOf(graph) |-> IF q # prev /\ p = q THEN m + 1 ELSE fr[p]]
          /\ to2 = [p \in StepsOf(graph) |-> IF q # prev /\ hp /\ p = prev THEN m ELSE to[p]]
  OBVIOUS
<1>14. /\ dealloc'.to_be_freed = Append(tbf, e.value) /\ dealloc'.prev = q
       /\ dealloc'.has_prev = (hp \/ q # prev)
       /\ dealloc'.from = IF q # prev THEN [fr EXCEPT ![q] = m + 1] ELSE fr
       /\ dealloc'.to = IF q # prev /\ hp THEN [to EXCEPT ![prev] = m] ELSE to
  <2>1. dealloc' =
             [to_be_freed |-> Append(tbf, e.value),
              to |-> IF q # prev /\ hp THEN [to EXCEPT ![prev] = Len(tbf) + 1 - 1] ELSE to,
              from |-> IF q # prev THEN [fr EXCEPT ![q] = Len(tbf) + 1] ELSE fr,
              prev |-> q, has_prev |-> hp \/ q # prev]
    BY <1>9, <1>11 DEF GenerateDeallocationPlan
  <2>2. Len(tbf) + 1 - 1 = m /\ Len(tbf) + 1 = m + 1
    BY <1>6, <1>12
  <2> QED BY <2>1, <2>2
<1>15. dealloc'.from = fr2
  BY <1>10, <1>12, <1>13, <1>14
<1>16. dealloc'.to = to2
  BY <1>12, <1>13, <1>14
<1>17. RangesOK(graph, freelist, dealloc', m + 1, FALSE)
  <2>1. fr2 \in [StepsOf(graph) -> Nat] /\ to2 \in [StepsOf(graph) -> Nat]
    <3>1. m + 1 \in Nat
      BY <1>6
    <3>2. \A p \in StepsOf(graph) : /\ (IF q # prev /\ p = q THEN m + 1 ELSE fr[p]) \in Nat
                                    /\ (IF q # prev /\ hp /\ p = prev THEN m ELSE to[p]) \in Nat
      BY <1>6, <1>12, <3>1
    <3> QED BY <1>13, <3>2
  <2>2. dealloc'.to_be_freed \in Seq(ValuesOf(graph)) /\ Len(dealloc'.to_be_freed) = m + 1
    BY <1>6, <1>10, <1>12, <1>14, AppendProperties
  <2>3. ASSUME NEW k \in 1 .. m + 1 PROVE dealloc'.to_be_freed[k] = FromBack(freelist, k).value
    <3>1. CASE k = m + 1
      BY <1>6, <1>7, <1>9, <1>12, <1>14, <3>1
    <3>2. CASE k # m + 1
      <4>1. k \in 1 .. m
        BY <1>6, <3>2
      <4>2. dealloc'.to_be_freed[k] = tbf[k]
        BY <1>12, <1>14, <4>1
      <4> QED BY <1>12, <4>1, <4>2
    <3> QED BY <3>1, <3>2
  <2>4. dealloc'.prev = IF m + 1 = 0 THEN 1 ELSE FromBack(freelist, m + 1).point
    BY <1>6, <1>10, <1>14
  <2>5. q \in Nat /\ q >= 1 /\ (m # 0 => FromBack(freelist, m).point \in Nat
                                          /\ FromBack(freelist, m).point >= 1
                                          /\ FromBack(freelist, m).point <= q)
    <3>1. m + 1 \in 1 .. Len(freelist) /\ (m # 0 => m \in 1 .. Len(freelist) /\ m < m + 1)
      BY <1>4, <1>6
    <3> QED BY <1>2, <1>10, <3>1, PointsRise
  <2>6. dealloc'.has_prev \in BOOLEAN /\ (dealloc'.has_prev <=> m + 1 > 0 /\ FromBack(freelist, m + 1).point > 1)
    <3>1. hp \/ q # prev <=> q > 1
      BY <1>6, <1>12, <2>5
    <3>2. dealloc'.has_prev \in BOOLEAN
      BY <1>14
    <3>3. dealloc'.has_prev <=> q > 1
      BY <1>14, <3>1
    <3>4. m + 1 > 0
      BY <1>6
    <3> QED BY <1>10, <3>2, <3>3, <3>4
  <2>7. dealloc'.from[1] = 1 /\ dealloc'.to[1] = 0
    <3>1. 1 \in StepsOf(graph)
      BY <1>2, GraphFacts
    <3>2. ~(q # prev /\ q = 1)
      BY <1>6, <1>12, <2>5
    <3>3. ~(hp /\ prev = 1)
      BY <1>6, <1>12, <2>5
    <3> QED BY <1>12, <1>13, <1>15, <1>16, <3>1, <3>2, <3>3
  <2>8. ASSUME NEW p \in StepsOf(graph) \ {1}
        PROVE  DyingAt(freelist, m + 1, p) = fr2[p] .. (IF OpenRange(freelist, m + 1, p) THEN m + 1 ELSE to2[p])
    <3>1. RangesMoved(graph, dealloc, q, m, fr2, to2)
      BY <1>11, <1>13 DEF RangesMoved
    <3>2. RangeFits(freelist, m + 1, p, fr2, to2)
      BY <1>2, <1>6, <1>8, <1>10, <3>1, RangeNext
    <3> QED BY <3>2 DEF RangeFits
  <2>9. \A p \in StepsOf(graph) \ {1} :
          DyingAt(freelist, m + 1, p) = dealloc'.from[p] ..
              (IF OpenRange(freelist, m + 1, p) /\ ~FALSE THEN m + 1 ELSE dealloc'.to[p])
    BY <1>15, <1>16, <2>8
  <2>10. dealloc'.from \in [StepsOf(graph) -> Nat] /\ dealloc'.to \in [StepsOf(graph) -> Nat]
    BY <1>15, <1>16, <2>1
  <2>11. dealloc' \in DeallocType(graph)
    <3>1. dealloc' = [to_be_freed |-> dealloc'.to_be_freed, from |-> dealloc'.from, to |-> dealloc'.to,
                      prev |-> dealloc'.prev, has_prev |-> dealloc'.has_prev]
      BY DEF GenerateDeallocationPlan
    <3>2. dealloc'.prev \in Nat
      BY <1>14, <2>5
    <3> QED BY <2>2, <2>6, <2>10, <3>1, <3>2 DEF DeallocType
  <2> QED BY <2>2, <2>3, <2>4, <2>6, <2>7, <2>9, <2>10, <2>11 DEF RangesOK
<1>18. /\ at' \in [phase : Phases, step : Nat, arg : Nat] /\ at'.step \in StepsOf(graph)
       /\ at'.phase = "dealloc" /\ at'.arg = at.arg - 1 /\ at'.arg <= Len(freelist)
  BY <1>1, <1>3, <1>4
<1>19. Len(freelist) - at'.arg = m + 1
  BY <1>3, <1>4, <1>5, <1>18
<1>20. DeallocOK(graph, at', freelist, dealloc')
  BY <1>17, <1>18, <1>19 DEF DeallocOK
<1> QED BY <1>1, <1>18, <1>20, LateMoves

\* The action keeps PlanInv.
LEMMA FinishPlanStep ==
    ASSUME PlanInv, FinishPlan
    PROVE  PlanInv'
<1>1. /\ at.phase = "dealloc" /\ at.arg = 0 /\ at' = [at EXCEPT !.phase = "planned"]
      /\ UNCHANGED <<graph, usecount, buffer, alloc_kind, freelist>>
  BY DEF FinishPlan
<1>2. /\ GraphOK(graph) /\ AtOK(graph, at, freelist) /\ FreeOK(graph, at, buffer, freelist)
      /\ DeallocOK(graph, at, freelist, dealloc)
  BY DEF PlanInv
<1>3. at \in [phase : Phases, step : Nat, arg : Nat] /\ at.step \in StepsOf(graph)
  BY <1>2 DEF AtOK
<1>4. PICK m : m = Len(freelist) /\ m \in Nat
  BY <1>2, FreeType
<1>5. RangesOK(graph, freelist, dealloc, m, FALSE)
  <2>1. Len(freelist) - at.arg = m
    BY <1>1, <1>4
  <2> QED BY <1>1, <1>2, <2>1 DEF DeallocOK
<1>6. RangesOK(graph, freelist, dealloc', m, TRUE)
  <2>1. PICK s : s = dealloc.prev
    OBVIOUS
  <2>2. m # 0 => s = FromBack(freelist, m).point /\ s \in StepsOf(graph) /\ s \in Nat
    <3>1. m # 0 => m \in 1 .. Len(freelist)
      BY <1>4
    <3> QED BY <1>2, <1>4, <1>5, <2>1, <3>1, PointsRise DEF RangesOK
  <2>3. dealloc.has_prev <=> m > 0 /\ s > 1
    BY <1>4, <1>5, <2>2 DEF RangesOK
  <2>4. Len(dealloc.to_be_freed) = m
    BY <1>5 DEF RangesOK
  <2>5. CASE ~dealloc.has_prev
    <3>1. dealloc' = dealloc
      BY <2>5 DEF FinishPlan
    <3>2. \A p \in StepsOf(graph) \ {1} : ~OpenRange(freelist, m, p)
      BY <1>4, <2>2, <2>3, <2>5 DEF OpenRange
    <3>3. \A p \in StepsOf(graph) \ {1} : DyingAt(freelist, m, p) = dealloc.from[p] .. dealloc.to[p]
      BY <1>5, <3>2 DEF RangesOK
    <3> QED BY <1>5, <3>1, <3>3 DEF RangesOK
  <2>6. CASE dealloc.has_prev
    <3>1. dealloc' = [dealloc EXCEPT !.to[s] = m]
      BY <2>1, <2>4, <2>6 DEF FinishPlan
    <3>2. m > 0 /\ s > 1 /\ s \in StepsOf(graph) /\ s = FromBack(freelist, m).point
      BY <2>2, <2>3, <2>6
    <3>3. dealloc \in DeallocType(graph)
      BY <1>5 DEF RangesOK
    <3>4. PICK d, e : d = dealloc /\ e = dealloc'
      OBVIOUS
    <3>5. d.to \in [StepsOf(graph) -> Nat] /\ e = [d EXCEPT !.to = [d.to EXCEPT ![s] = m]]
      BY <3>1, <3>3, <3>4 DEF DeallocType
    <3>6. /\ e.to_be_freed = d.to_be_freed /\ e.from = d.from /\ e.prev = d.prev
          /\ e.has_prev = d.has_prev /\ e.to = [d.to EXCEPT ![s] = m]
      BY <3>3, <3>4, <3>5 DEF DeallocType
    <3>7. /\ e.to \in [StepsOf(graph) -> Nat] /\ e.to[s] = m
          /\ \A p \in StepsOf(graph) : p # s => e.to[p] = d.to[p]
      BY <1>4, <3>2, <3>5, <3>6
    <3>12. e \in DeallocType(graph)
      <4>1. PICK t : t = [d.to EXCEPT ![s] = m] /\ t \in [StepsOf(graph) -> Nat]
        BY <3>6, <3>7
      <4>2. e = [d EXCEPT !.to = t] /\ d \in DeallocType(graph)
        BY <3>3, <3>4, <3>5, <4>1
      <4> QED BY <4>1, <4>2 DEF DeallocType
    <3>8. ASSUME NEW p \in StepsOf(graph) \ {1}
          PROVE  DyingAt(freelist, m, p) = e.from[p] .. e.to[p]
      <4>1. DyingAt(freelist, m, p) = d.from[p] .. (IF OpenRange(freelist, m, p) /\ ~FALSE THEN m ELSE d.to[p])
        BY <1>5, <3>4 DEF RangesOK
      <4>2. OpenRange(freelist, m, p) <=> p = s
        BY <3>2 DEF OpenRange
      <4>3. CASE p = s
        BY <3>6, <3>7, <4>1, <4>2, <4>3
      <4>4. CASE p # s
        BY <3>6, <3>7, <4>1, <4>2, <4>4
      <4> QED BY <4>3, <4>4
    <3>9. e.to[1] = 0
      BY <1>2, <1>5, <3>2, <3>4, <3>7, GraphFacts DEF RangesOK
    <3>10. \A p \in StepsOf(graph) \ {1} :
              DyingAt(freelist, m, p) = e.from[p] .. (IF OpenRange(freelist, m, p) /\ ~TRUE THEN m ELSE e.to[p])
      BY <3>8
    <3>11. RangesOK(graph, freelist, e, m, TRUE)
      BY <1>5, <3>4, <3>6, <3>7, <3>9, <3>10, <3>12 DEF RangesOK
    <3> QED BY <3>4, <3>11
  <2> QED BY <2>5, <2>6
<1>7. /\ at' \in [phase : Phases, step : Nat, arg : Nat] /\ at'.step \in StepsOf(graph)
      /\ at'.phase = "planned" /\ at'.arg <= Len(freelist)
  BY <1>1, <1>3, <1>4 DEF Phases
<1>8. DeallocOK(graph, at', freelist, dealloc')
  BY <1>4, <1>6, <1>7 DEF DeallocOK
<1> QED BY <1>1, <1>7, <1>8, LateMoves
-----------------------------------------------------------------------------
(* The planner. *)

\* PlanInv depends on the variables of the planner only.
LEMMA PlanKept ==
    ASSUME PlanInv, UNCHANGED plannerVars
    PROVE  PlanInv'
<1>1. UNCHANGED <<graph, at, usecount, buffer, alloc_kind, freelist, dealloc>>
  BY DEF plannerVars
<1> QED BY <1>1 DEF PlanInv

\* Every step of the planner keeps PlanInv.
LEMMA PlanStep ==
    ASSUME PlanInv, PlannerNext
    PROVE  PlanInv'
<1>1. CASE ComputeUseCounts
  BY <1>1, ComputeUseCountsStep
<1>2. CASE SkipOutput
  BY <1>2, KeepsOwn DEF SkipOutput
<1>3. CASE PlanGraphOutput
  BY <1>3, PlanGraphOutputStep
<1>4. CASE PlanReuseInput
  BY <1>4, PlanReuseInputStep
<1>5. CASE PlanReuseTensor
  BY <1>5, PlanReuseTensorStep
<1>6. CASE PlanAllocate
  BY <1>6, KeepsOwn DEF PlanAllocate, Plannable
<1>7. CASE OutputsPlanned
  BY <1>7, OutputsPlannedStep
<1>8. CASE CountDownUse
  BY <1>8, CountDownUseStep
<1>9. CASE SkipArgument
  BY <1>9, SkipArgumentStep
<1>10. CASE NextStep
  BY <1>10, NextStepStep
<1>11. CASE ComputeFenceCheck
  BY <1>11, ComputeFenceCheckStep
<1>12. CASE GenerateDeallocationPlan
  BY <1>12, GenerateDeallocationPlanStep
<1>13. CASE FinishPlan
  BY <1>13, FinishPlanStep
<1> QED BY <1>1, <1>2, <1>3, <1>4, <1>5, <1>6, <1>7, <1>8, <1>9, <1>10, <1>11, <1>12, <1>13
        DEF PlannerNext

\* For every graph that Resolve accepts, ComputeReusePlan keeps its use counts
\* exact, hands out a buffer only when all that was in it is dead or its data is
\* passed on, lists a buffer as free once, after its last use, and turns that
\* list into ranges that release at each step what dies there.
THEOREM PlanCorrect == Spec => []PlanInv
<1>1. Init => PlanInv
  BY PlanInit DEF Init
<1>2. PlanInv /\ [Next]_vars => PlanInv'
  <2> SUFFICES ASSUME PlanInv, [Next]_vars PROVE PlanInv'
    OBVIOUS
  <2>1. CASE PlannerNext
    BY <2>1, PlanStep
  <2>2. CASE UNCHANGED plannerVars
    BY <2>2, PlanKept
  <2>3. PlannerNext \/ UNCHANGED plannerVars
    BY DEF Next, Begin, End, Finished, vars
  <2> QED BY <2>1, <2>2, <2>3
<1> QED BY <1>1, <1>2, PTL DEF Spec

\* Two outputs of one step do not share a buffer, unless one passes data on.
LEMMA OutputsDiffer ==
    ASSUME NEW g, GraphOK(g), NEW a, NEW B, RootsOK(g, a, B), SharingOK(g, B),
           NEW p, NEW i, NEW j, NEW v \in ValuesOf(g), NEW w \in ValuesOf(g),
           DefinedAt(g, v, p, i), DefinedAt(g, w, p, j), i < j, PassedOn(g.nodes[p], j) = {}
    PROVE  B[v] # B[w]
<1>1. SUFFICES ASSUME B[v] = B[w] PROVE FALSE
  OBVIOUS
<1>2. p \in StepsOf(g) /\ i \in Nat /\ j \in Nat /\ i > 0 /\ j \in DOMAIN g.nodes[p].outputs /\ p \in Nat
  BY DefinedFacts
<1>3. CASE B[w] = w
  <2>1. v # w
    BY <1>2, OneDef
  <2>2. PICK q \in StepsOf(g) : \E k \in DOMAIN g.nodes[q].outputs :
              DefinedAt(g, v, q, k) /\ Before(g, B[v], q)
    BY <1>1, <1>3, <2>1 DEF RootsOK
  <2>3. q = p
    BY <2>2, OneDef
  <2>4. Before(g, w, p)
    BY <1>1, <1>3, <2>2, <2>3
  <2>5. p < p
    BY <2>4, OneDef
  <2> QED BY <1>2, <2>5
<1>4. CASE B[w] # w
  <2>1. SharedOK(g, B, w, p, j)
    BY <1>2, <1>4 DEF SharingOK
  <2>2. TakesOver(g, B, w, p, j)
    BY <2>1 DEF SharedOK, Passes
  <2>3. Earlier(g, v, p, j)
    <3>1. i \in 1 .. j - 1
      BY <1>2
    <3> QED BY <3>1 DEF Earlier
  <2>4. Dead(g, v, p)
    BY <1>1, <2>2, <2>3 DEF TakesOver
  <2>5. PICK c \in Claims(g) : c[1] = p /\ c[3] = v /\ ~(c[2] <= NumUses(g.nodes[p]))
    BY DefClaim
  <2> QED BY <1>2, <2>4, <2>5 DEF Dead
<1> QED BY <1>3, <1>4

\* No two outputs of one node are put in one buffer, be it a new one, one of the
\* free list or an input's, unless the kernel aliases one of them to an input.
THEOREM NoSharedOutputs == Spec => []OutputsApart
<1>1. ASSUME PlanInv PROVE OutputsApart
  <2>1. GraphOK(graph) /\ RootsOK(graph, at, buffer) /\ SharingOK(graph, buffer)
    BY <1>1 DEF PlanInv
  <2>2. SUFFICES ASSUME NEW p \in Steps, NEW i \in DOMAIN graph.nodes[p].outputs,
                        NEW j \in DOMAIN graph.nodes[p].outputs, i # j,
                        Exists(graph.nodes[p].outputs[i]), Exists(graph.nodes[p].outputs[j]),
                        PassedOn(graph.nodes[p], i) \cup PassedOn(graph.nodes[p], j) = {}
                 PROVE  buffer[graph.nodes[p].outputs[i]] # buffer[graph.nodes[p].outputs[j]]
    BY DEF OutputsApart
  <2>3. p \in StepsOf(graph)
    BY DEF Steps, StepsOf
  <2>4. PICK v, w : v = graph.nodes[p].outputs[i] /\ w = graph.nodes[p].outputs[j]
    OBVIOUS
  <2>5. NodeShape(ValuesOf(graph), graph.nodes[p])
    BY <2>1, <2>3, StepShape
  <2>6. /\ v \in ValuesOf(graph) /\ w \in ValuesOf(graph) /\ i \in Nat /\ j \in Nat
        /\ DefinedAt(graph, v, p, i) /\ DefinedAt(graph, w, p, j)
    <3>1. DefinedAt(graph, v, p, i) /\ DefinedAt(graph, w, p, j)
      BY <2>2, <2>3, <2>4 DEF DefinedAt, StepsOf
    <3>2. i \in 1 .. Len(graph.nodes[p].outputs) /\ j \in 1 .. Len(graph.nodes[p].outputs)
      BY <2>2, <2>5 DEF NodeShape
    <3>3. v \in Defs(graph.nodes[p]) /\ w \in Defs(graph.nodes[p])
      BY <2>2, <2>4, <2>5, <3>2 DEF NodeShape
    <3>4. v \in ValuesOf(graph) /\ w \in ValuesOf(graph)
      BY <2>5, <3>3 DEF NodeShape
    <3> QED BY <3>1, <3>2, <3>4
  <2>7. CASE i < j
    <3>1. PassedOn(graph.nodes[p], j) = {}
      BY <2>2
    <3> QED BY <2>1, <2>4, <2>6, <2>7, <3>1, OutputsDiffer
  <2>8. CASE j < i
    <3>1. PassedOn(graph.nodes[p], i) = {}
      BY <2>2
    <3>2. buffer[w] # buffer[v]
      BY <2>1, <2>6, <2>8, <3>1, OutputsDiffer
    <3> QED BY <2>4, <3>2
  <2> QED BY <2>2, <2>6, <2>7, <2>8
<1> QED BY <1>1, PlanCorrect, PTL
=============================================================================
