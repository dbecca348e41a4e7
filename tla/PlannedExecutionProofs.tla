----------------------- MODULE PlannedExecutionProofs -----------------------
(***************************************************************************)
(* What a run by the plan of AllocationPlanner guarantees, for every graph *)
(* that Resolve accepts and every order in which the executor may start    *)
(* and end the steps: the data a step or the caller still needs is in its  *)
(* buffer, and buffers are released once, after their last use.            *)
(***************************************************************************)
EXTENDS PlannerProofs

\* The value is there from the start or is an output of a step of S.
Available(g, S, v) == v \in Given(g) \/ \E q \in S : v \in Defs(g.nodes[q])

\* A step outside S, or the caller, uses it.
Needed(g, S, v) == \E c \in Claims(g) : c[3] = v /\ c[1] \notin S

\* Types; and in sequence the steps that have ended are those before the one
\* that runs.
ExecTypeOK(g, C, D, R, S) ==
    /\ C \in [ValuesOf(g) -> ValuesOf(g) \cup {Unallocated, Garbage, Released}]
    /\ D \in [ValuesOf(g) -> ValuesOf(g)]
    /\ R \subseteq StepsOf(g) /\ S \subseteq StepsOf(g) /\ R \cap S = {}
    /\ ~g.parallel => \A p \in R : R = {p} /\ S = 1 .. p - 1

\* What a step reads has been computed.
UsesThere(g, R, S) == \A p \in R \cup S : \A u \in Uses(g.nodes[p]) : Available(g, S, u)

\* A buffer that a step shares exists.
BuffersThere(g, B, R, S) ==
    \A p \in R \cup S : \A w \in Defs(g.nodes[p]) : B[w] # w => Available(g, S, B[w])

\* A value that has not been computed stands for itself.
DataKnown(g, D, S) == \A v \in ValuesOf(g) : (\A q \in S : v \notin Defs(g.nodes[q])) => D[v] = v

\* What has been computed and is needed is in its buffer.
Intact(g, B, C, D, S) ==
    \A v \in ValuesOf(g) : Available(g, S, v) /\ Needed(g, S, v) => C[B[v]] = D[v]

\* A buffer is allocated when its value may be there, and released only after
\* the step at which it dies.
Alive(g, B, F, C, R, S) ==
    /\ \A b \in ValuesOf(g) : B[b] = b /\ Available(g, R \cup S, b) => C[b] # Unallocated
    /\ \A b \in ValuesOf(g) : C[b] = Released =>
          ~g.parallel /\ \E i \in DOMAIN F : F[i].value = b /\ F[i].point \in S

\* It has been released after that step, unless the step is the first or the
\* buffer is one of those with a fence, X.
Gone(g, F, C, S, X) ==
    ~g.parallel => \A i \in DOMAIN F :
        F[i].point > 1 /\ F[i].point \in S /\ F[i].value \notin X => C[F[i].value] = Released

\* No kernel works in place while others run.
NoInplaceInParallel(g) == g.parallel => \A p \in StepsOf(g) : g.nodes[p].inplace = <<>>

\* What is there from the start stays, and so does what aliases it.
GivenKept(g, B, C, D, S) ==
    \A v \in Given(g) :
        C[v] = v /\ \A w \in ValuesOf(g) : Available(g, S, w) /\ B[w] = v => D[w] = v

\* Data is told apart from a buffer without any.
NamesApart(g) == \A v \in ValuesOf(g) : v # Unallocated /\ v # Garbage /\ v # Released

\* The inductive invariant of a run.
ExecInv ==
    /\ NamesApart(graph)
    /\ ExecTypeOK(graph, content, data, running, ran)
    /\ at.phase # "planned" => running = {} /\ ran = {}
    /\ UsesThere(graph, running, ran)
    /\ BuffersThere(graph, buffer, running, ran)
    /\ DataKnown(graph, data, ran)
    /\ GivenKept(graph, buffer, content, data, ran)
    /\ NoInplaceInParallel(graph) => Intact(graph, buffer, content, data, ran)
    /\ Alive(graph, buffer, freelist, content, running, ran)
    /\ Gone(graph, freelist, content, ran, FencedBuffers)

-----------------------------------------------------------------------------
(* Values and steps. *)

\* The buffers with a fence depend on the graph and the plan only.
LEMMA SameFences ==
    ASSUME graph' = graph, buffer' = buffer
    PROVE  FencedBuffers' = FencedBuffers
BY DEF FencedBuffers, Fenced, Values, Steps

\* What is available stays so.
LEMMA AvailableMore ==
    ASSUME NEW g, NEW S, NEW T, S \subseteq T, NEW v, Available(g, S, v)
    PROVE  Available(g, T, v)
BY DEF Available

\* A step's output is available once the step is one of S, not before.
LEMMA AvailableOnce ==
    ASSUME NEW g, GraphOK(g), NEW S, S \subseteq StepsOf(g), NEW p \in StepsOf(g),
           NEW v \in Defs(g.nodes[p]), Available(g, S, v)
    PROVE  p \in S
<1>1. PICK j : DefinedAt(g, v, p, j) /\ v \in ValuesOf(g)
  BY DefsDefined
<1>2. v \notin Given(g)
  BY <1>1, OneDef
<1>3. PICK q \in S : v \in Defs(g.nodes[q])
  BY <1>2 DEF Available
<1>4. PICK i : DefinedAt(g, v, q, i)
  BY <1>3, DefsDefined
<1>5. p = q
  BY <1>1, <1>4, OneDef
<1> QED BY <1>3, <1>5

\* What a step reads is needed until it has ended.
LEMMA ReadNeeded ==
    ASSUME NEW g, GraphOK(g), NEW S, NEW p \in StepsOf(g), p \notin S, NEW u \in Uses(g.nodes[p])
    PROVE  Needed(g, S, u)
BY UseClaim DEF Needed

\* What is there from the start has its own buffer.
LEMMA GivenOwn ==
    ASSUME NEW g, GraphOK(g), NEW a, NEW B, RootsOK(g, a, B), NEW v \in Given(g)
    PROVE  B[v] = v /\ v \in ValuesOf(g)
<1>1. v \in ValuesOf(g)
  BY GraphFacts
<1>2. ASSUME B[v] # v PROVE FALSE
  <2>1. PICK p \in StepsOf(g) : \E j \in DOMAIN g.nodes[p].outputs : DefinedAt(g, v, p, j)
    BY <1>1, <1>2 DEF RootsOK
  <2> QED BY <1>1, <2>1, OneDef
<1> QED BY <1>1, <1>2

\* The buffer of a value that is there is there.
LEMMA RootAvailable ==
    ASSUME NEW g, GraphOK(g), NEW a, NEW B, RootsOK(g, a, B), NEW R, NEW S, BuffersThere(g, B, R, S),
           NEW T, S \subseteq T, T \subseteq R \cup S, NEW v \in ValuesOf(g), Available(g, T, v)
    PROVE  Available(g, T, B[v]) /\ (B[v] # v => Available(g, S, B[v]))
<1>1. CASE v \in Given(g)
  BY <1>1, GivenOwn
<1>2. CASE v \notin Given(g)
  <2>1. PICK q \in T : v \in Defs(g.nodes[q])
    BY <1>2 DEF Available
  <2>2. B[v] # v => Available(g, S, B[v])
    BY <2>1 DEF BuffersThere
  <2>3. CASE B[v] = v
    BY <2>3
  <2>4. CASE B[v] # v
    BY <2>2, <2>4, AvailableMore
  <2> QED BY <2>2, <2>3, <2>4
<1> QED BY <1>1, <1>2

\* What exists before a step is available when the steps before it have ended.
LEMMA BeforeAvailable ==
    ASSUME NEW g, GraphOK(g), NEW p \in StepsOf(g), NEW v, NEW S, S = 1 .. p - 1
    PROVE  Before(g, v, p) <=> Available(g, S, v)
<1>1. \A q \in StepsOf(g) : q < p <=> q \in S
  BY GraphFacts
<1>2. S \subseteq StepsOf(g)
  BY GraphFacts
<1> QED BY <1>1, <1>2 DEF Before, Available

\* Step p releases v if it is an entry of the free list that dies there; of the
\* first step no entry is released.
ReleasesDead(F, d, p, v) ==
    (\E k \in d.from[p] .. d.to[p] : v = d.to_be_freed[k])
        <=> p > 1 /\ \E i \in DOMAIN F : F[i].value = v /\ F[i].point = p

\* The values a step releases are those of the free list that die there.
LEMMA ReleasedAt ==
    ASSUME NEW g, GraphOK(g), NEW a, NEW B, NEW F, FreeOK(g, a, B, F),
           NEW d, RangesOK(g, F, d, Len(F), TRUE), NEW p \in StepsOf(g), NEW v
    PROVE  ReleasesDead(F, d, p, v)
<1>1. Len(F) \in Nat /\ DOMAIN F = 1 .. Len(F) /\ p \in Nat /\ p >= 1
  BY FreeType, GraphFacts
<1>2. CASE p = 1
  <2>1. d.from[p] .. d.to[p] = {}
    BY <1>2 DEF RangesOK
  <2> QED BY <1>1, <1>2, <2>1 DEF ReleasesDead
<1>3. CASE p # 1
  <2>1. d.from[p] .. d.to[p] = {k \in 1 .. Len(F) : FromBack(F, k).point = p}
    BY <1>3 DEF RangesOK, DyingAt
  <2>2. \A k \in 1 .. Len(F) : d.to_be_freed[k] = FromBack(F, k).value
    BY DEF RangesOK
  <2>3. \A k \in 1 .. Len(F) : Len(F) + 1 - k \in 1 .. Len(F) /\ FromBack(F, k) = F[Len(F) + 1 - k]
    BY <1>1 DEF FromBack
  <2>4. \A i \in 1 .. Len(F) : Len(F) + 1 - i \in 1 .. Len(F) /\ FromBack(F, Len(F) + 1 - i) = F[i]
    <3>1. \A i \in 1 .. Len(F) : Len(F) + 1 - i \in 1 .. Len(F) /\ Len(F) + 1 - (Len(F) + 1 - i) = i
      BY <1>1
    <3> QED BY <3>1 DEF FromBack
  <2>5. ASSUME NEW k \in d.from[p] .. d.to[p], v = d.to_be_freed[k]
        PROVE  \E i \in DOMAIN F : F[i].value = v /\ F[i].point = p
    <3>1. k \in 1 .. Len(F) /\ FromBack(F, k).point = p /\ FromBack(F, k).value = v
      BY <2>1, <2>2, <2>5
    <3> QED BY <1>1, <2>3, <3>1
  <2>6. ASSUME NEW i \in DOMAIN F, F[i].value = v, F[i].point = p
        PROVE  \E k \in d.from[p] .. d.to[p] : v = d.to_be_freed[k]
    <3>1. PICK k \in 1 .. Len(F) : FromBack(F, k) = F[i]
      BY <1>1, <2>4
    <3>2. k \in d.from[p] .. d.to[p] /\ d.to_be_freed[k] = v
      BY <2>1, <2>2, <2>6, <3>1
    <3> QED BY <3>2
  <2>7. p > 1
    BY <1>1, <1>3
  <2> QED BY <2>5, <2>6, <2>7 DEF ReleasesDead
<1> QED BY <1>2, <1>3

\* Nobody uses a buffer of the free list after its point.
LEMMA UsedUpTo ==
    ASSUME NEW g, NEW a, NEW B, NEW F, FreeOK(g, a, B, F), NEW i \in DOMAIN F,
           NEW c \in Claims(g), B[c[3]] = F[i].value
    PROVE  c[1] # 0 /\ c[1] <= F[i].point
BY DEF FreeOK, EntryOK
-----------------------------------------------------------------------------
(* A step begins. *)

\* The plan is complete.
PlanDone ==
    /\ GraphOK(graph) /\ RootsOK(graph, at, buffer) /\ SharingOK(graph, buffer)
    /\ FreeOK(graph, at, buffer, freelist) /\ KindOK(graph, buffer, alloc_kind)
    /\ RangesOK(graph, freelist, dealloc, Len(freelist), TRUE)

\* It is when PlanInv holds at the end.
LEMMA DonePlan ==
    ASSUME PlanInv, at.phase = "planned"
    PROVE  PlanDone
BY DEF PlanInv, DeallocOK, PlanDone

\* What Begin(p) finds.
LEMMA BeginFacts ==
    ASSUME PlanDone, ExecInv, NEW p \in StepsOf(graph), Begin(p)
    PROVE  /\ p \notin ran /\ p \notin running
           /\ ~graph.parallel => running = {} /\ ran = 1 .. p - 1
           /\ \A u \in Uses(graph.nodes[p]) : Available(graph, ran, u)
           /\ \A v \in ValuesOf(graph) :
                 content'[v] = IF v \in Defs(graph.nodes[p]) /\ buffer[v] = v THEN Garbage ELSE content[v]
           /\ content' \in [ValuesOf(graph) -> ValuesOf(graph) \cup {Unallocated, Garbage, Released}]
<1>0. GraphOK(graph) /\ KindOK(graph, buffer, alloc_kind)
  BY DEF PlanDone
<1>1. p \notin ran /\ p \notin running
  BY DEF Begin, Ready
<1>2. ~graph.parallel => running = {} /\ ran = 1 .. p - 1
  BY DEF Begin, Ready, Parallel
<1>3. ASSUME NEW u \in Uses(graph.nodes[p]) PROVE Available(graph, ran, u)
  <2>1. Before(graph, u, p) /\ u \in ValuesOf(graph)
    BY <1>0, UsedBefore
  <2>2. CASE ~graph.parallel
    BY <1>0, <1>2, <2>1, <2>2, BeforeAvailable
  <2>3. CASE graph.parallel
    <3>1. Producers(u) \subseteq ran
      BY <2>3 DEF Begin, Ready, Parallel
    <3> QED BY <2>1, <3>1 DEF Before, Available, Producers, Steps, StepsOf
  <2> QED BY <2>2, <2>3
<1>4. ASSUME NEW v \in Defs(graph.nodes[p])
      PROVE  v \in ValuesOf(graph) /\ (alloc_kind[v] \in {"kAllocate", "kAllocateOutput"} <=> buffer[v] = v)
  <2>1. v \in ValuesOf(graph) /\ v \notin Given(graph)
    BY <1>0, DefsDefined, OneDef
  <2> QED BY <1>0, <2>1 DEF KindOK
<1>5. content' = [v \in ValuesOf(graph) |->
                    IF v \in Defs(graph.nodes[p]) /\ alloc_kind[v] \in {"kAllocate", "kAllocateOutput"}
                    THEN Garbage ELSE content[v]]
  BY DEF Begin, Values, ValuesOf
<1>6. \A v \in ValuesOf(graph) :
        content'[v] = IF v \in Defs(graph.nodes[p]) /\ buffer[v] = v THEN Garbage ELSE content[v]
  BY <1>4, <1>5
<1>7. content \in [ValuesOf(graph) -> ValuesOf(graph) \cup {Unallocated, Garbage, Released}]
  BY DEF ExecInv, ExecTypeOK
<1>8. content' \in [ValuesOf(graph) -> ValuesOf(graph) \cup {Unallocated, Garbage, Released}]
  BY <1>5, <1>7
<1> QED BY <1>1, <1>2, <1>3, <1>6, <1>8

\* The buffer that an output of the step shares is there.
LEMMA BeginShares ==
    ASSUME PlanDone, ExecInv, NEW p \in StepsOf(graph), Begin(p),
           NEW w \in Defs(graph.nodes[p]), buffer[w] # w
    PROVE  Available(graph, ran, buffer[w])
<1>1. /\ GraphOK(graph) /\ RootsOK(graph, at, buffer) /\ SharingOK(graph, buffer)
      /\ BuffersThere(graph, buffer, running, ran)
  BY DEF PlanDone, ExecInv
<1>2. PICK j \in DOMAIN graph.nodes[p].outputs : DefinedAt(graph, w, p, j) /\ w \in ValuesOf(graph)
  BY <1>1, DefsDefined
<1>3. CASE ~graph.parallel
  <2>1. PICK q \in StepsOf(graph) : \E i \in DOMAIN graph.nodes[q].outputs :
              DefinedAt(graph, w, q, i) /\ Before(graph, buffer[w], q)
    BY <1>1, <1>2 DEF RootsOK
  <2>2. q = p
    BY <1>1, <1>2, <2>1, OneDef
  <2> QED BY <1>1, <1>3, <2>1, <2>2, BeginFacts, BeforeAvailable
<1>4. CASE graph.parallel
  <2>1. SharedOK(graph, buffer, w, p, j)
    BY <1>1, <1>2 DEF SharingOK
  <2>2. PICK u \in Uses(graph.nodes[p]) : buffer[u] = buffer[w]
    BY <1>4, <2>1 DEF SharedOK
  <2>3. Available(graph, ran, u) /\ u \in ValuesOf(graph)
    BY <1>1, <2>2, BeginFacts, UsedBefore
  <2>4. Available(graph, ran, buffer[u])
    BY <1>1, <2>3, RootAvailable
  <2> QED BY <2>2, <2>4
<1> QED BY <1>3, <1>4

\* The action keeps ExecInv.
LEMMA BeginStep ==
    ASSUME PlanDone, ExecInv, at.phase = "planned", NEW p \in StepsOf(graph), Begin(p)
    PROVE  ExecInv'
<1>1. /\ running' = running \cup {p} /\ UNCHANGED <<data, ran>>
      /\ UNCHANGED <<graph, at, usecount, buffer, alloc_kind, freelist, dealloc>>
  BY DEF Begin, plannerVars
<1>2. /\ GraphOK(graph) /\ RootsOK(graph, at, buffer) /\ FreeOK(graph, at, buffer, freelist)
  BY DEF PlanDone
<1>3. /\ ExecTypeOK(graph, content, data, running, ran) /\ UsesThere(graph, running, ran)
      /\ BuffersThere(graph, buffer, running, ran) /\ DataKnown(graph, data, ran)
      /\ (NoInplaceInParallel(graph) => Intact(graph, buffer, content, data, ran))
      /\ Alive(graph, buffer, freelist, content, running, ran) /\ Gone(graph, freelist, content, ran, FencedBuffers)
      /\ NamesApart(graph) /\ GivenKept(graph, buffer, content, data, ran)
  BY DEF ExecInv
<1>4. /\ p \notin ran /\ p \notin running
      /\ (~graph.parallel => running = {} /\ ran = 1 .. p - 1)
      /\ (\A u \in Uses(graph.nodes[p]) : Available(graph, ran, u))
      /\ content' \in [ValuesOf(graph) -> ValuesOf(graph) \cup {Unallocated, Garbage, Released}]
  BY BeginFacts
<1>5. ASSUME NEW v \in ValuesOf(graph)
      PROVE  /\ v \in Defs(graph.nodes[p]) /\ buffer[v] = v => content'[v] = Garbage
             /\ ~(v \in Defs(graph.nodes[p]) /\ buffer[v] = v) => content'[v] = content[v]
  BY BeginFacts
<1>6. ExecTypeOK(graph, content', data, running', ran)
  BY <1>1, <1>3, <1>4 DEF ExecTypeOK
<1>7. UsesThere(graph, running', ran)
  BY <1>1, <1>3, <1>4 DEF UsesThere
<1>8. BuffersThere(graph, buffer, running', ran)
  <2>1. \A w \in Defs(graph.nodes[p]) : buffer[w] # w => Available(graph, ran, buffer[w])
    BY BeginShares
  <2> QED BY <1>1, <1>3, <2>1 DEF BuffersThere
<1>9. ASSUME NEW v \in ValuesOf(graph), Available(graph, ran, v) PROVE content'[buffer[v]] = content[buffer[v]]
  <2>1. Available(graph, ran, buffer[v]) /\ buffer[v] \in ValuesOf(graph) /\ ran \subseteq StepsOf(graph)
    BY <1>2, <1>3, <1>9, RootAvailable DEF RootsOK, ExecTypeOK
  <2>2. buffer[v] \notin Defs(graph.nodes[p])
    BY <1>2, <1>4, <2>1, AvailableOnce
  <2> QED BY <1>5, <2>1, <2>2
<1>10. Intact(graph, buffer, content, data, ran) => Intact(graph, buffer, content', data, ran)
  BY <1>9 DEF Intact
<1>11. Alive(graph, buffer, freelist, content', running', ran)
  <2>1. ASSUME NEW b \in ValuesOf(graph), buffer[b] = b, Available(graph, running' \cup ran, b)
        PROVE  content'[b] # Unallocated
    <3>1. CASE b \in Defs(graph.nodes[p])
      BY <1>5, <2>1, <3>1 DEF Garbage, Unallocated
    <3>2. CASE b \notin Defs(graph.nodes[p])
      <4>1. Available(graph, running \cup ran, b)
        BY <1>1, <2>1, <3>2 DEF Available
      <4> QED BY <1>3, <1>5, <2>1, <3>2, <4>1 DEF Alive
    <3> QED BY <3>1, <3>2
  <2>2. ASSUME NEW b \in ValuesOf(graph), content'[b] = Released
        PROVE  content[b] = Released
    BY <1>5, <2>2 DEF Garbage, Released
  <2> QED BY <1>3, <2>1, <2>2 DEF Alive
<1>12. Gone(graph, freelist, content', ran, FencedBuffers)
  <2>1. ASSUME ~graph.parallel, NEW i \in DOMAIN freelist, freelist[i].point > 1, freelist[i].point \in ran,
               freelist[i].value \notin FencedBuffers
        PROVE  content'[freelist[i].value] = Released
    <3>1. PICK v : v = freelist[i].value /\ v \in ValuesOf(graph)
      BY <1>2, FreeType
    <3>2. content[v] = Released
      BY <1>3, <2>1, <3>1 DEF Gone
    <3>3. ASSUME v \in Defs(graph.nodes[p]), buffer[v] = v PROVE FALSE
      <4>1. PICK j : DefinedAt(graph, v, p, j)
        BY <1>2, <3>3, DefsDefined
      <4>2. PICK c \in Claims(graph) : c[1] = p /\ c[3] = v
        BY <1>2, <3>1, <4>1, DefClaim
      <4>3. p <= freelist[i].point
        BY <1>2, <3>1, <3>3, <4>2, UsedUpTo
      <4>4. p \in Nat /\ freelist[i].point \in 1 .. p - 1
        BY <1>2, <1>4, <2>1, GraphFacts
      <4> QED BY <4>3, <4>4
    <3> QED BY <1>5, <3>1, <3>2, <3>3
  <2> QED BY <2>1 DEF Gone
<1>13. GivenKept(graph, buffer, content', data, ran)
  <2>1. ASSUME NEW v \in Given(graph) PROVE content'[v] = content[v]
    <3>1. v \in ValuesOf(graph) /\ v \notin Defs(graph.nodes[p])
      BY <1>2, GraphFacts DEF GraphOK, StepsOf
    <3> QED BY <1>5, <3>1
  <2> QED BY <1>3, <2>1 DEF GivenKept
<1>14. FencedBuffers' = FencedBuffers
  BY <1>1, SameFences
<1> QED BY <1>1, <1>3, <1>6, <1>7, <1>8, <1>10, <1>11, <1>12, <1>13, <1>14 DEF ExecInv

-----------------------------------------------------------------------------
(* The start, and the steps of the planner. *)

\* ExecInv holds at the start.
LEMMA ExecInit ==
    ASSUME Init, PlanInv
    PROVE  ExecInv
<1>1. /\ GraphOK(graph) /\ RootsOK(graph, at, buffer) /\ graph \in Graphs
      /\ running = {} /\ ran = {} /\ at.phase = "count"
      /\ content = [v \in ValuesOf(graph) |-> IF v \in Given(graph) THEN v ELSE Unallocated]
      /\ data = [v \in ValuesOf(graph) |-> v]
  BY DEF PlanInv, Init, PlannerInit, Values, ValuesOf
<1>2. NamesApart(graph)
  BY <1>1, DataNames DEF NamesApart, ValuesOf
<1>3. ASSUME NEW v \in ValuesOf(graph), Available(graph, ran, v)
      PROVE  v \in Given(graph) /\ buffer[v] = v /\ content[v] = v /\ data[v] = v
  <2>1. v \in Given(graph)
    BY <1>1, <1>3 DEF Available
  <2> QED BY <1>1, <2>1, GivenOwn
<1>4. ExecTypeOK(graph, content, data, running, ran)
  BY <1>1 DEF ExecTypeOK
<1>5. UsesThere(graph, running, ran) /\ BuffersThere(graph, buffer, running, ran)
  BY <1>1 DEF UsesThere, BuffersThere
<1>6. DataKnown(graph, data, ran)
  BY <1>1 DEF DataKnown
<1>7. Intact(graph, buffer, content, data, ran)
  BY <1>3 DEF Intact
<1>8. GivenKept(graph, buffer, content, data, ran)
  <2>1. ASSUME NEW v \in Given(graph) PROVE content[v] = v
    BY <1>1, GraphFacts
  <2>2. ASSUME NEW w \in ValuesOf(graph), Available(graph, ran, w) PROVE data[w] = buffer[w]
    BY <1>3, <2>2
  <2> QED BY <2>1, <2>2 DEF GivenKept
<1>9. Alive(graph, buffer, freelist, content, running, ran)
  <2>1. ASSUME NEW b \in ValuesOf(graph), Available(graph, running \cup ran, b)
        PROVE  content[b] # Unallocated
    <3>1. Available(graph, ran, b)
      BY <1>1, <2>1
    <3> QED BY <1>2, <1>3, <3>1 DEF NamesApart
  <2>2. ASSUME NEW b \in ValuesOf(graph) PROVE content[b] # Released
    BY <1>1, <1>2 DEF NamesApart, Unallocated, Released
  <2> QED BY <2>1, <2>2 DEF Alive
<1>10. Gone(graph, freelist, content, ran, FencedBuffers)
  BY <1>1 DEF Gone
<1> QED BY <1>1, <1>2, <1>4, <1>5, <1>6, <1>7, <1>8, <1>9, <1>10 DEF ExecInv

\* The planner works before the first step begins, and keeps ExecInv.
LEMMA PlannerKeeps ==
    ASSUME PlanInv, PlanInv', ExecInv, at.phase # "planned", graph' = graph, UNCHANGED execVars
    PROVE  ExecInv'
<1>1. /\ UNCHANGED <<content, data, running, ran>> /\ running = {} /\ ran = {}
      /\ NamesApart(graph) /\ ExecTypeOK(graph, content, data, running, ran)
      /\ DataKnown(graph, data, ran) /\ GivenKept(graph, buffer, content, data, ran)
      /\ (NoInplaceInParallel(graph) => Intact(graph, buffer, content, data, ran))
      /\ Alive(graph, buffer, freelist, content, running, ran)
  BY DEF ExecInv, execVars
<1>2. /\ GraphOK(graph) /\ RootsOK(graph, at, buffer) /\ RootsOK(graph, at', buffer')
  BY DEF PlanInv
<1>3. ASSUME NEW v, Available(graph, {}, v)
      PROVE  v \in Given(graph) /\ v \in ValuesOf(graph) /\ buffer[v] = v /\ buffer'[v] = v
  <2>1. v \in Given(graph)
    BY <1>3 DEF Available
  <2>2. buffer[v] = v /\ v \in ValuesOf(graph)
    BY <1>2, <2>1, GivenOwn
  <2>3. buffer'[v] = v
    BY <1>2, <2>1, GivenOwn
  <2> QED BY <2>1, <2>2, <2>3
<1>4. UsesThere(graph, running, ran) /\ BuffersThere(graph, buffer', running, ran)
  BY <1>1 DEF UsesThere, BuffersThere
<1>5. Intact(graph, buffer, content, data, ran) => Intact(graph, buffer', content, data, ran)
  BY <1>1, <1>3 DEF Intact
<1>6. GivenKept(graph, buffer', content, data, ran)
  BY <1>1, <1>3 DEF GivenKept
<1>7. Alive(graph, buffer', freelist', content, running, ran)
  <2>1. ASSUME NEW b \in ValuesOf(graph), Available(graph, running \cup ran, b)
        PROVE  content[b] # Unallocated
    <3>1. Available(graph, {}, b)
      BY <1>1, <2>1
    <3>2. buffer[b] = b
      BY <1>3, <3>1
    <3> QED BY <1>1, <2>1, <3>2 DEF Alive
  <2>2. ASSUME NEW b \in ValuesOf(graph) PROVE content[b] # Released
    BY <1>1 DEF Alive
  <2> QED BY <2>1, <2>2 DEF Alive
<1>8. Gone(graph, freelist', content, ran, FencedBuffers')
  BY <1>1 DEF Gone
<1> QED BY <1>1, <1>4, <1>5, <1>6, <1>7, <1>8 DEF ExecInv

-----------------------------------------------------------------------------
(* A step ends. *)

\* An output passes on the data of one input or of none.
LEMMA PassedOne ==
    ASSUME NEW g, GraphOK(g), NEW p \in StepsOf(g), NEW j
    PROVE  \/ PassedOn(g.nodes[p], j) = {}
           \/ \E u \in Uses(g.nodes[p]) : PassedOn(g.nodes[p], j) = {u} /\ g.nodes[p].alias # <<>>
<1>1. PICK n : n = g.nodes[p]
  OBVIOUS
<1>2. KernelOK(n) /\ n \in NodeType(ValuesOf(g)) /\ NodeShape(ValuesOf(g), n)
  BY <1>1, GraphFacts, StepShape
<1>3. ASSUME PassedOn(n, j) # {}
      PROVE  \E u \in Uses(n) : PassedOn(n, j) = {u} /\ n.alias # <<>>
  <2>1. PICK k \in DOMAIN n.alias :
           /\ n.alias[k][2] = j /\ n.alias[k][1] \in DOMAIN n.inputs
           /\ n.inputs[n.alias[k][1]] # NoValue
    BY <1>3 DEF PassedOn
  <2>2. PICK i, u : i = n.alias[k][1] /\ u = n.inputs[i]
    OBVIOUS
  <2>3. Exists(u) /\ i \in DOMAIN n.inputs
    BY <2>1, <2>2 DEF Exists
  <2>4. u \in Uses(n)
    BY <1>2, <2>2, <2>3 DEF NodeShape
  <2>5. PassedOn(n, j) = {u}
    BY <1>2, <2>1, <2>2, <2>3, PassedByAlias
  <2>6. n.alias # <<>>
    BY <1>2, <2>1, PairsFacts
  <2> QED BY <2>4, <2>5, <2>6
<1> QED BY <1>1, <1>3

\* N is the data of the values once step p has ended, D before.
Computed(g, p, D, N) ==
    /\ N \in [ValuesOf(g) -> ValuesOf(g)]
    /\ \A v \in ValuesOf(g) : v \notin Defs(g.nodes[p]) => N[v] = D[v]
    /\ \A v \in ValuesOf(g) : \A j, u :
          DefinedAt(g, v, p, j) /\ PassedOn(g.nodes[p], j) = {u} => N[v] = D[u]

\* DataAfter is.
LEMMA AfterComputed ==
    ASSUME GraphOK(graph), data \in [ValuesOf(graph) -> ValuesOf(graph)], NEW p \in StepsOf(graph)
    PROVE  Computed(graph, p, data, DataAfter(p))
<1>1. PICK n, N : n = graph.nodes[p] /\ N = DataAfter(p)
  OBVIOUS
<1>2. N = [v \in ValuesOf(graph) |->
             IF \E j \in DOMAIN n.outputs : n.outputs[j] = v /\ PassedOn(n, j) # {}
             THEN data[CHOOSE u \in PassedOn(n, CHOOSE j \in DOMAIN n.outputs : n.outputs[j] = v) : TRUE]
             ELSE data[v]]
  BY <1>1 DEF DataAfter, Values, ValuesOf
<1>3. ASSUME NEW v \in ValuesOf(graph), NEW j, NEW u, DefinedAt(graph, v, p, j), PassedOn(n, j) = {u}
      PROVE  N[v] = data[u]
  <2>1. j \in DOMAIN n.outputs /\ n.outputs[j] = v
    BY <1>1, <1>3 DEF DefinedAt
  <2>2. ASSUME NEW i \in DOMAIN n.outputs, n.outputs[i] = v PROVE i = j
    <3>1. DefinedAt(graph, v, p, i)
      BY <1>1, <2>2 DEF DefinedAt, StepsOf
    <3> QED BY <1>3, <3>1, OneDef
  <2>3. (CHOOSE i \in DOMAIN n.outputs : n.outputs[i] = v) = j
    BY <2>1, <2>2
  <2>4. (CHOOSE x \in PassedOn(n, j) : TRUE) = u
    BY <1>3
  <2>5. \E i \in DOMAIN n.outputs : n.outputs[i] = v /\ PassedOn(n, i) # {}
    BY <1>3, <2>1
  <2> QED BY <1>2, <2>3, <2>4, <2>5
<1>4. ASSUME NEW v \in ValuesOf(graph), ~\E j \in DOMAIN n.outputs : n.outputs[j] = v /\ PassedOn(n, j) # {}
      PROVE  N[v] = data[v]
  BY <1>2, <1>4
<1>5. ASSUME NEW v \in ValuesOf(graph), v \notin Defs(n) PROVE N[v] = data[v]
  <2>1. ASSUME NEW j \in DOMAIN n.outputs, n.outputs[j] = v PROVE FALSE
    <3>1. DefinedAt(graph, v, p, j)
      BY <1>1, <2>1 DEF DefinedAt, StepsOf
    <3> QED BY <1>1, <1>5, <3>1, DefinedFacts
  <2> QED BY <1>4, <2>1
<1>6. ASSUME NEW v \in ValuesOf(graph) PROVE N[v] \in ValuesOf(graph)
  <2>1. CASE \E j \in DOMAIN n.outputs : n.outputs[j] = v /\ PassedOn(n, j) # {}
    <3>1. PICK j \in DOMAIN n.outputs : n.outputs[j] = v /\ PassedOn(n, j) # {}
      BY <2>1
    <3>2. PICK u \in Uses(n) : PassedOn(n, j) = {u}
      <4>1. \/ PassedOn(n, j) = {}
            \/ \E u \in Uses(n) : PassedOn(n, j) = {u} /\ n.alias # <<>>
        BY <1>1, PassedOne
      <4> QED BY <3>1, <4>1
    <3>3. u \in ValuesOf(graph)
      BY <1>1, <3>2, UsedBefore
    <3>4. DefinedAt(graph, v, p, j)
      BY <1>1, <3>1 DEF DefinedAt, StepsOf
    <3>5. N[v] = data[u]
      BY <1>3, <3>2, <3>4
    <3> QED BY <3>3, <3>5
  <2>2. CASE ~\E j \in DOMAIN n.outputs : n.outputs[j] = v /\ PassedOn(n, j) # {}
    <3>1. N[v] = data[v]
      BY <1>4, <2>2
    <3> QED BY <3>1
  <2> QED BY <2>1, <2>2
<1>7. N \in [ValuesOf(graph) -> ValuesOf(graph)]
  <2>1. \E e : N = [v \in ValuesOf(graph) |-> e[v]]
    <3>1. N = [v \in ValuesOf(graph) |-> N[v]]
      BY <1>2
    <3> QED BY <3>1
  <2> QED BY <1>6, <2>1
<1>8. Computed(graph, p, data, N)
  BY <1>1, <1>3, <1>5, <1>7 DEF Computed
<1> QED BY <1>1, <1>8

\* N is what the buffers hold once step p has ended and released Rel.
Written(g, p, B, C, D, Rel, N) ==
    /\ \A b \in ValuesOf(g) : b \in Rel => N[b] = Released
    /\ \A b \in ValuesOf(g) : b \notin Rel =>
          \/ \E w \in Defs(g.nodes[p]) : B[w] = b /\ N[b] = D[w]
          \/ N[b] = C[b] /\ \A w \in Defs(g.nodes[p]) : B[w] # b

\* Rel is what step p really releases: nothing in parallel mode, else the
\* step's values, all those without a fence among them.
Freed(g, p, Rel) ==
    /\ \A b \in Rel : ~g.parallel /\ b \in ToRelease(p)
    /\ \A b \in ToRelease(p) : ~g.parallel /\ b \notin FencedBuffers => b \in Rel

\* What End(p) does.
LEMMA EndFacts ==
    ASSUME PlanDone, ExecInv, NEW p \in StepsOf(graph), End(p)
    PROVE  /\ p \in running /\ p \notin ran
           /\ running' = running \ {p} /\ ran' = ran \cup {p}
           /\ UNCHANGED <<graph, at, usecount, buffer, alloc_kind, freelist, dealloc>>
           /\ Computed(graph, p, data, data')
           /\ \E Rel : /\ Written(graph, p, buffer, content, data', Rel, content')
                       /\ Freed(graph, p, Rel)
           /\ content' \in [ValuesOf(graph) -> ValuesOf(graph) \cup {Unallocated, Garbage, Released}]
<1>1. /\ GraphOK(graph) /\ data \in [ValuesOf(graph) -> ValuesOf(graph)] /\ running \cap ran = {}
      /\ content \in [ValuesOf(graph) -> ValuesOf(graph) \cup {Unallocated, Garbage, Released}]
  BY DEF PlanDone, ExecInv, ExecTypeOK
<1>2. /\ p \in running /\ p \notin ran /\ running' = running \ {p} /\ ran' = ran \cup {p}
      /\ data' = DataAfter(p) /\ UNCHANGED plannerVars
  BY <1>1 DEF End
<1>3. UNCHANGED <<graph, at, usecount, buffer, alloc_kind, freelist, dealloc>>
  BY <1>2 DEF plannerVars
<1>4. Computed(graph, p, data, data')
  BY <1>1, <1>2, AfterComputed
<1>5. PICK N : N = DataAfter(p)
  OBVIOUS
<1>0. PICK deferred \in SUBSET (ToRelease(p) \cap FencedBuffers) :
           content' = [b \in Values |->
                         IF ~ Parallel /\ b \in ToRelease(p) \ deferred THEN Released
                         ELSE IF \E v \in Defs(graph.nodes[p]) : buffer[v] = b
                              THEN DataAfter(p)[CHOOSE v \in Defs(graph.nodes[p]) : buffer[v] = b]
                              ELSE content[b]]
  BY DEF End
<1>6. PICK Rel : Rel = {b \in ToRelease(p) \ deferred : ~graph.parallel}
  OBVIOUS
<1>7. content' = [b \in ValuesOf(graph) |->
                    IF b \in Rel THEN Released
                    ELSE IF \E w \in Defs(graph.nodes[p]) : buffer[w] = b
                         THEN N[CHOOSE w \in Defs(graph.nodes[p]) : buffer[w] = b]
                         ELSE content[b]]
  BY <1>0, <1>5, <1>6 DEF Parallel, Values, ValuesOf
<1>8. Written(graph, p, buffer, content, N, Rel, content')
  <2>1. ASSUME NEW b \in ValuesOf(graph), b \in Rel PROVE content'[b] = Released
    BY <1>7, <2>1
  <2>2. ASSUME NEW b \in ValuesOf(graph), b \notin Rel
        PROVE  \/ \E w \in Defs(graph.nodes[p]) : buffer[w] = b /\ content'[b] = N[w]
               \/ content'[b] = content[b] /\ \A w \in Defs(graph.nodes[p]) : buffer[w] # b
    <3>1. CASE \E w \in Defs(graph.nodes[p]) : buffer[w] = b
      <4>1. PICK w : w = CHOOSE x \in Defs(graph.nodes[p]) : buffer[x] = b
        OBVIOUS
      <4>2. w \in Defs(graph.nodes[p]) /\ buffer[w] = b
        BY <3>1, <4>1
      <4>3. content'[b] = N[w]
        BY <1>7, <2>2, <3>1, <4>1
      <4> QED BY <4>2, <4>3
    <3>2. CASE ~\E w \in Defs(graph.nodes[p]) : buffer[w] = b
      BY <1>7, <2>2, <3>2
    <3> QED BY <3>1, <3>2
  <2> QED BY <2>1, <2>2 DEF Written
<1>9. content' \in [ValuesOf(graph) -> ValuesOf(graph) \cup {Unallocated, Garbage, Released}]
  <2>1. ASSUME NEW b \in ValuesOf(graph)
        PROVE  content'[b] \in ValuesOf(graph) \cup {Unallocated, Garbage, Released}
    <3>1. CASE b \in Rel
      BY <1>8, <3>1 DEF Written
    <3>2. CASE b \notin Rel /\ content'[b] = content[b]
      BY <1>1, <3>2
    <3>3. ASSUME NEW w \in Defs(graph.nodes[p]), content'[b] = N[w]
          PROVE  content'[b] \in ValuesOf(graph)
      <4>1. w \in ValuesOf(graph)
        BY <1>1, DefsDefined
      <4> QED BY <1>2, <1>4, <1>5, <3>3, <4>1 DEF Computed
    <3> QED BY <1>8, <3>1, <3>2, <3>3 DEF Written
  <2>2. \E e : content' = [b \in ValuesOf(graph) |-> e[b]]
    <3>1. content' = [b \in ValuesOf(graph) |-> content'[b]]
      BY <1>7
    <3> QED BY <3>1
  <2> QED BY <2>1, <2>2
<1>10. Freed(graph, p, Rel)
  BY <1>6 DEF Freed
<1>11. Written(graph, p, buffer, content, data', Rel, content')
  BY <1>2, <1>5, <1>8
<1> QED BY <1>2, <1>3, <1>4, <1>9, <1>10, <1>11

\* A step does not take over the buffer of an input whose data it passes on.
LEMMA NotBoth ==
    ASSUME NEW g, GraphOK(g), NEW B, NEW p \in StepsOf(g), NEW i, NEW j,
           NEW v, NEW w, B[v] = B[w], Passes(g, B, v, p, i), TakesOver(g, B, w, p, j)
    PROVE  FALSE
<1>1. PICK u \in Uses(g.nodes[p]) : PassedOn(g.nodes[p], i) = {u} /\ B[u] = B[v]
  BY DEF Passes
<1>2. g.nodes[p].alias # <<>>
  BY <1>1, PassedOne
<1>3. Before(g, u, p) /\ u \in ValuesOf(g)
  BY <1>1, UsedBefore
<1>4. Dead(g, u, p)
  BY <1>1, <1>3 DEF TakesOver, Earlier
<1>5. PICK c \in Claims(g) : c[1] = p /\ c[3] = u
  BY <1>1, UseClaim
<1>6. p \in Nat
  BY GraphFacts
<1>7. g.nodes[p].inplace # <<>>
  BY <1>4, <1>5, <1>6 DEF Dead
<1>8. KernelOK(g.nodes[p])
  BY GraphFacts
<1> QED BY <1>2, <1>7, <1>8 DEF KernelOK

\* Nor does it take over the buffer of an earlier output.
LEMMA NotAfter ==
    ASSUME NEW g, GraphOK(g), NEW B, NEW p \in StepsOf(g), NEW i, NEW j,
           NEW v \in ValuesOf(g), NEW w \in ValuesOf(g), B[v] = B[w],
           DefinedAt(g, v, p, i), DefinedAt(g, w, p, j), i < j, TakesOver(g, B, w, p, j)
    PROVE  FALSE
<1>1. i \in Nat /\ i > 0 /\ j \in Nat /\ p \in Nat
  BY DefinedFacts
<1>2. i \in 1 .. j - 1
  BY <1>1
<1>3. Earlier(g, v, p, j)
  BY <1>2 DEF Earlier
<1>4. Dead(g, v, p)
  BY <1>3 DEF TakesOver
<1>5. PICK c \in Claims(g) : c[1] = p /\ c[3] = v /\ ~(c[2] <= NumUses(g.nodes[p]))
  BY DefClaim
<1> QED BY <1>1, <1>4, <1>5 DEF Dead

\* The output that owns a buffer does not share it with another of its step.
LEMMA SharersBorrow ==
    ASSUME NEW g, GraphOK(g), NEW a, NEW B, RootsOK(g, a, B), NEW p \in StepsOf(g),
           NEW v \in Defs(g.nodes[p]), NEW w \in Defs(g.nodes[p]), v # w, B[v] = B[w]
    PROVE  B[w] # w
<1>1. PICK i, j : DefinedAt(g, v, p, i) /\ DefinedAt(g, w, p, j) /\ v \in ValuesOf(g) /\ w \in ValuesOf(g)
  BY DefsDefined
<1>2. ASSUME B[w] = w PROVE FALSE
  <2>1. PICK q \in StepsOf(g) : \E k \in DOMAIN g.nodes[q].outputs :
              DefinedAt(g, v, q, k) /\ Before(g, B[v], q)
    BY <1>1, <1>2 DEF RootsOK
  <2>2. q = p
    BY <1>1, <2>1, OneDef
  <2>3. p < p
    BY <1>1, <1>2, <2>1, <2>2, OneDef
  <2> QED BY <2>3, GraphFacts
<1> QED BY <1>2

\* An output that passes on data is what its buffer holds already.
LEMMA PassedData ==
    ASSUME NEW g, GraphOK(g), NEW B, NEW C, NEW D, NEW N, NEW R, NEW S,
           UsesThere(g, R, S), Intact(g, B, C, D, S), NEW p \in StepsOf(g), p \in R, p \notin S,
           Computed(g, p, D, N), NEW w \in ValuesOf(g), NEW j, DefinedAt(g, w, p, j), Passes(g, B, w, p, j)
    PROVE  N[w] = C[B[w]]
<1>1. PICK u \in Uses(g.nodes[p]) : PassedOn(g.nodes[p], j) = {u} /\ B[u] = B[w]
  BY DEF Passes
<1>2. Available(g, S, u) /\ u \in ValuesOf(g) /\ Needed(g, S, u)
  BY <1>1, UsedBefore, ReadNeeded DEF UsesThere
<1>3. C[B[u]] = D[u]
  BY <1>2 DEF Intact
<1>4. N[w] = D[u]
  BY <1>1 DEF Computed
<1> QED BY <1>1, <1>3, <1>4

\* No step destroys what another or the caller needs: the values that a step
\* puts in one buffer, and those needed there afterwards, have the same data.
LEMMA SameData ==
    ASSUME NEW g, GraphOK(g), NEW a, NEW B, RootsOK(g, a, B), SharingOK(g, B),
           NEW C, NEW D, NEW N, NEW R, NEW S, ExecTypeOK(g, C, D, R, S),
           UsesThere(g, R, S), BuffersThere(g, B, R, S), Intact(g, B, C, D, S), NoInplaceInParallel(g),
           NEW p \in StepsOf(g), p \in R, p \notin S, Computed(g, p, D, N),
           NEW w \in Defs(g.nodes[p]), NEW v \in ValuesOf(g), B[v] = B[w],
           Available(g, S \cup {p}, v), Needed(g, S \cup {p}, v)
    PROVE  N[w] = N[v]
<1>1. PICK j \in DOMAIN g.nodes[p].outputs : DefinedAt(g, w, p, j) /\ w \in ValuesOf(g)
  BY DefsDefined
<1>2. B[w] # w => SharedOK(g, B, w, p, j)
  BY <1>1 DEF SharingOK
<1>3. Passes(g, B, w, p, j) => N[w] = C[B[w]]
  BY <1>1, PassedData
<1>4. ASSUME v \in Defs(g.nodes[p]), v # w PROVE N[w] = N[v]
  <2>1. PICK i \in DOMAIN g.nodes[p].outputs : DefinedAt(g, v, p, i)
    BY <1>4, DefsDefined
  <2>2. B[w] # w /\ B[v] # v
    BY <1>4, SharersBorrow
  <2>3. SharedOK(g, B, v, p, i) /\ SharedOK(g, B, w, p, j)
    BY <1>2, <2>1, <2>2 DEF SharingOK
  <2>4. Passes(g, B, v, p, i) => N[v] = C[B[v]]
    BY <2>1, PassedData
  <2>5. CASE Passes(g, B, v, p, i) /\ Passes(g, B, w, p, j)
    BY <1>3, <2>4, <2>5
  <2>6. CASE Passes(g, B, v, p, i) /\ TakesOver(g, B, w, p, j)
    BY <2>6, NotBoth
  <2>7. CASE TakesOver(g, B, v, p, i) /\ Passes(g, B, w, p, j)
    BY <2>7, NotBoth
  <2>8. CASE TakesOver(g, B, v, p, i) /\ TakesOver(g, B, w, p, j)
    <3>1. i \in Nat /\ j \in Nat
      BY <1>1, <2>1, DefinedFacts
    <3>2. i # j
      BY <1>1, <1>4, <2>1 DEF DefinedAt
    <3>3. CASE i < j
      BY <1>1, <2>1, <2>8, <3>3, NotAfter
    <3>4. CASE j < i
      BY <1>1, <2>1, <2>8, <3>4, NotAfter
    <3> QED BY <3>1, <3>2, <3>3, <3>4
  <2> QED BY <2>3, <2>5, <2>6, <2>7, <2>8 DEF SharedOK
<1>5. ASSUME v \notin Defs(g.nodes[p]) PROVE N[w] = N[v]
  <2>1. Available(g, S, v)
    BY <1>5 DEF Available
  <2>2. Needed(g, S, v)
    BY DEF Needed
  <2>3. C[B[v]] = D[v] /\ N[v] = D[v]
    BY <1>5, <2>1, <2>2 DEF Intact, Computed
  <2>4. B[w] # w
    <3>1. ASSUME B[w] = w PROVE FALSE
      <4>1. S \subseteq StepsOf(g)
        BY DEF ExecTypeOK
      <4>2. Available(g, S, w)
        BY <2>1, <3>1, RootAvailable
      <4> QED BY <4>1, <4>2, AvailableOnce
    <3> QED BY <3>1
  <2>5. CASE Passes(g, B, w, p, j)
    BY <1>3, <2>3, <2>5
  <2>6. CASE TakesOver(g, B, w, p, j)
    <3>1. g.nodes[p].inplace # <<>> => ~g.parallel
      BY DEF NoInplaceInParallel
    <3>2. ~g.parallel
      BY <2>6, <3>1 DEF TakesOver
    <3>3. S = 1 .. p - 1 /\ p \in Nat
      BY <3>2, GraphFacts DEF ExecTypeOK
    <3>4. Before(g, v, p)
      BY <2>1, <3>3, BeforeAvailable
    <3>5. Dead(g, v, p)
      BY <2>6, <3>4 DEF TakesOver, Earlier
    <3>6. PICK c \in Claims(g) : c[3] = v /\ c[1] \notin S \cup {p}
      BY DEF Needed
    <3>7. c[1] # 0 /\ (c[1] < p \/ c[1] = p)
      BY <3>5, <3>6 DEF Dead
    <3>8. c[1] \in Nat
      BY <3>6, ClaimFacts DEF ClaimOK
    <3> QED BY <3>3, <3>6, <3>7, <3>8
  <2> QED BY <1>2, <2>4, <2>5, <2>6 DEF SharedOK
<1> QED BY <1>4, <1>5

\* What is there from the start, and what aliases it, is not written over.
LEMMA GivenData ==
    ASSUME NEW g, GraphOK(g), NEW a, NEW B, RootsOK(g, a, B), SharingOK(g, B),
           NEW C, NEW D, NEW N, NEW R, NEW S, UsesThere(g, R, S), GivenKept(g, B, C, D, S),
           NEW p \in StepsOf(g), p \in R, Computed(g, p, D, N),
           NEW w \in Defs(g.nodes[p]), NEW v \in Given(g), B[w] = v
    PROVE  N[w] = v
<1>1. PICK j \in DOMAIN g.nodes[p].outputs : DefinedAt(g, w, p, j) /\ w \in ValuesOf(g)
  BY DefsDefined
<1>2. w \notin Given(g) /\ v \in ValuesOf(g) /\ B[v] = v
  BY <1>1, OneDef, GivenOwn
<1>3. SharedOK(g, B, w, p, j)
  BY <1>1, <1>2 DEF SharingOK
<1>4. ~TakesOver(g, B, w, p, j)
  <2>1. ASSUME TakesOver(g, B, w, p, j) PROVE FALSE
    <3>1. Dead(g, v, p)
      BY <1>2, <2>1 DEF TakesOver, Earlier, Before
    <3>2. <<0, 1, v>> \in Claims(g)
      BY DEF Claims
    <3> QED BY <3>1, <3>2 DEF Dead
  <2> QED BY <2>1
<1>5. PICK u \in Uses(g.nodes[p]) : PassedOn(g.nodes[p], j) = {u} /\ B[u] = B[w]
  BY <1>3, <1>4 DEF SharedOK, Passes
<1>6. Available(g, S, u) /\ u \in ValuesOf(g)
  BY <1>5, UsedBefore DEF UsesThere
<1>7. D[u] = v
  BY <1>5, <1>6 DEF GivenKept
<1> QED BY <1>1, <1>5, <1>7 DEF Computed

\* The values that the step releases die at the step.
LEMMA ReleasesDying ==
    ASSUME PlanDone, NEW p \in StepsOf(graph), NEW b
    PROVE  b \in ToRelease(p)
               <=> p > 1 /\ \E i \in DOMAIN freelist : freelist[i].value = b /\ freelist[i].point = p
<1>1. /\ GraphOK(graph) /\ FreeOK(graph, at, buffer, freelist)
      /\ RangesOK(graph, freelist, dealloc, Len(freelist), TRUE)
  BY DEF PlanDone
<1>2. b \in ToRelease(p) <=> \E k \in dealloc.from[p] .. dealloc.to[p] : b = dealloc.to_be_freed[k]
  BY DEF ToRelease
<1>3. ReleasesDead(freelist, dealloc, p, b)
  BY <1>1, ReleasedAt
<1> QED BY <1>2, <1>3 DEF ReleasesDead

\* In sequence a value that is needed after the step does not die at it.
LEMMA NeededNotReleased ==
    ASSUME PlanDone, NEW p \in StepsOf(graph), NEW S, S = 1 .. p - 1,
           NEW v, Needed(graph, S \cup {p}, v)
    PROVE  buffer[v] \notin ToRelease(p)
<1>1. GraphOK(graph) /\ FreeOK(graph, at, buffer, freelist)
  BY DEF PlanDone
<1>2. PICK c \in Claims(graph) : c[3] = v /\ c[1] \notin S \cup {p}
  BY DEF Needed
<1>3. c[1] \in Nat /\ p \in Nat
  BY <1>1, <1>2, ClaimFacts, GraphFacts DEF ClaimOK
<1>4. ASSUME NEW i \in DOMAIN freelist, freelist[i].value = buffer[v], freelist[i].point = p PROVE FALSE
  <2>1. c[1] # 0 /\ c[1] <= p
    BY <1>1, <1>2, <1>4, UsedUpTo
  <2> QED BY <1>2, <1>3, <2>1
<1> QED BY <1>4, ReleasesDying

\* What the step defines is used at the step, so its buffer does not die before.
LEMMA DefinedNotGone ==
    ASSUME PlanDone, NEW p \in StepsOf(graph), NEW w \in Defs(graph.nodes[p]),
           NEW i \in DOMAIN freelist, freelist[i].value = buffer[w]
    PROVE  p <= freelist[i].point
<1>1. GraphOK(graph) /\ FreeOK(graph, at, buffer, freelist)
  BY DEF PlanDone
<1>2. PICK j : DefinedAt(graph, w, p, j) /\ w \in ValuesOf(graph)
  BY <1>1, DefsDefined
<1>3. PICK c \in Claims(graph) : c[1] = p /\ c[3] = w
  BY <1>1, <1>2, DefClaim
<1> QED BY <1>1, <1>3, UsedUpTo

\* The action keeps ExecInv.
LEMMA EndStep ==
    ASSUME PlanDone, ExecInv, at.phase = "planned", NEW p \in StepsOf(graph), End(p)
    PROVE  ExecInv'
<1>1. /\ GraphOK(graph) /\ RootsOK(graph, at, buffer) /\ SharingOK(graph, buffer)
      /\ FreeOK(graph, at, buffer, freelist)
  BY DEF PlanDone
<1>2. /\ ExecTypeOK(graph, content, data, running, ran) /\ UsesThere(graph, running, ran)
      /\ BuffersThere(graph, buffer, running, ran) /\ DataKnown(graph, data, ran)
      /\ (NoInplaceInParallel(graph) => Intact(graph, buffer, content, data, ran))
      /\ Alive(graph, buffer, freelist, content, running, ran) /\ Gone(graph, freelist, content, ran, FencedBuffers)
      /\ NamesApart(graph) /\ GivenKept(graph, buffer, content, data, ran)
  BY DEF ExecInv
<1>3. /\ p \in running /\ p \notin ran /\ running' = running \ {p} /\ ran' = ran \cup {p}
      /\ UNCHANGED <<graph, at, usecount, buffer, alloc_kind, freelist, dealloc>>
      /\ Computed(graph, p, data, data')
      /\ content' \in [ValuesOf(graph) -> ValuesOf(graph) \cup {Unallocated, Garbage, Released}]
  BY EndFacts
<1>4. PICK Rel : Written(graph, p, buffer, content, data', Rel, content') /\ Freed(graph, p, Rel)
  BY EndFacts
<1>5. p \in Nat /\ (~graph.parallel => running = {p} /\ ran = 1 .. p - 1)
  BY <1>1, <1>2, <1>3, GraphFacts DEF ExecTypeOK
<1>6. running' \cup ran' = running \cup ran /\ ran \subseteq ran' /\ ran' \subseteq StepsOf(graph)
  BY <1>2, <1>3 DEF ExecTypeOK
<1>7. ExecTypeOK(graph, content', data', running', ran')
  <2>1. data' \in [ValuesOf(graph) -> ValuesOf(graph)]
    BY <1>3 DEF Computed
  <2>2. running' \subseteq StepsOf(graph) /\ running' \cap ran' = {}
    BY <1>2, <1>3 DEF ExecTypeOK
  <2>3. ~graph.parallel => running' = {}
    BY <1>3, <1>5
  <2> QED BY <1>3, <1>6, <2>1, <2>2, <2>3 DEF ExecTypeOK
<1>8. UsesThere(graph, running', ran')
  BY <1>2, <1>6, AvailableMore DEF UsesThere
<1>9. BuffersThere(graph, buffer, running', ran')
  BY <1>2, <1>6, AvailableMore DEF BuffersThere
<1>10. DataKnown(graph, data', ran')
  BY <1>2, <1>3 DEF DataKnown, Computed
<1>11. ASSUME NEW v \in ValuesOf(graph), v \notin Defs(graph.nodes[p]), Available(graph, ran', v)
       PROVE  Available(graph, ran, v) /\ data'[v] = data[v]
  BY <1>3, <1>11 DEF Available, Computed
<1>12. ASSUME NoInplaceInParallel(graph) PROVE Intact(graph, buffer, content', data', ran')
  <2>1. SUFFICES ASSUME NEW v \in ValuesOf(graph), Available(graph, ran', v), Needed(graph, ran', v)
                 PROVE  content'[buffer[v]] = data'[v]
    BY DEF Intact
  <2>2. PICK b : b = buffer[v] /\ b \in ValuesOf(graph)
    BY <1>1 DEF RootsOK
  <2>3. b \notin Rel
    <3>1. CASE graph.parallel
      BY <1>4, <3>1 DEF Freed
    <3>2. CASE ~graph.parallel
      BY <1>3, <1>4, <1>5, <2>1, <2>2, <3>2, NeededNotReleased DEF Freed
    <3> QED BY <3>1, <3>2
  <2>4. Intact(graph, buffer, content, data, ran)
    BY <1>2, <1>12
  <2>5. ASSUME NEW w \in Defs(graph.nodes[p]), buffer[w] = b PROVE data'[w] = data'[v]
    <3>1. Available(graph, ran \cup {p}, v) /\ Needed(graph, ran \cup {p}, v) /\ buffer[v] = buffer[w]
      BY <1>3, <2>1, <2>2, <2>5
    <3> QED BY <1>1, <1>2, <1>3, <1>12, <2>4, <3>1, SameData
  <2>6. CASE \E w \in Defs(graph.nodes[p]) : buffer[w] = b /\ content'[b] = data'[w]
    BY <2>2, <2>5, <2>6
  <2>7. CASE content'[b] = content[b] /\ \A w \in Defs(graph.nodes[p]) : buffer[w] # b
    <3>1. v \notin Defs(graph.nodes[p])
      BY <2>2, <2>7
    <3>2. Available(graph, ran, v) /\ data'[v] = data[v]
      BY <1>11, <2>1, <3>1
    <3>3. Needed(graph, ran, v)
      BY <1>6, <2>1 DEF Needed
    <3> QED BY <2>2, <2>4, <2>7, <3>2, <3>3 DEF Intact
  <2> QED BY <1>4, <2>2, <2>3, <2>6, <2>7 DEF Written
<1>13. GivenKept(graph, buffer, content', data', ran')
  <2>1. ASSUME NEW v \in Given(graph), NEW w \in Defs(graph.nodes[p]), buffer[w] = v PROVE data'[w] = v
    BY <1>1, <1>2, <1>3, <2>1, GivenData
  <2>2. ASSUME NEW v \in Given(graph) PROVE content'[v] = v
    <3>1. buffer[v] = v /\ v \in ValuesOf(graph)
      BY <1>1, GivenOwn
    <3>2. v \notin Rel
      <4>1. <<0, 1, v>> \in Claims(graph)
        BY DEF Claims
      <4>2. Needed(graph, 1 .. p, v)
        BY <4>1 DEF Needed
      <4>3. PICK S : S = 1 .. p - 1
        OBVIOUS
      <4>4. 1 .. p = S \cup {p}
        BY <1>1, <4>3, GraphFacts
      <4>5. buffer[v] \notin ToRelease(p)
        BY <4>2, <4>3, <4>4, NeededNotReleased
      <4> QED BY <1>4, <3>1, <4>5 DEF Freed
    <3>3. content[v] = v
      BY <1>2 DEF GivenKept
    <3> QED BY <1>4, <2>1, <3>1, <3>2, <3>3 DEF Written
  <2>3. ASSUME NEW v \in Given(graph), NEW w \in ValuesOf(graph), Available(graph, ran', w), buffer[w] = v
        PROVE  data'[w] = v
    <3>1. CASE w \in Defs(graph.nodes[p])
      BY <2>1, <2>3, <3>1
    <3>2. CASE w \notin Defs(graph.nodes[p])
      BY <1>2, <1>11, <2>3, <3>2 DEF GivenKept
    <3> QED BY <3>1, <3>2
  <2> QED BY <2>2, <2>3 DEF GivenKept
<1>14. ASSUME NEW w \in Defs(graph.nodes[p]) PROVE data'[w] # Unallocated /\ data'[w] # Released
  <2>1. w \in ValuesOf(graph)
    BY <1>1, DefsDefined
  <2>2. data'[w] \in ValuesOf(graph)
    BY <1>3, <2>1 DEF Computed
  <2> QED BY <1>2, <2>2 DEF NamesApart
<1>15. Alive(graph, buffer, freelist, content', running', ran')
  <2>1. ASSUME NEW b \in ValuesOf(graph), buffer[b] = b, Available(graph, running' \cup ran', b)
        PROVE  content'[b] # Unallocated
    <3>1. content[b] # Unallocated
      BY <1>2, <1>6, <2>1 DEF Alive
    <3>2. CASE b \in Rel
      BY <1>4, <3>2 DEF Written, Released, Unallocated
    <3>3. CASE b \notin Rel
      BY <1>4, <1>14, <3>1, <3>3 DEF Written
    <3> QED BY <3>2, <3>3
  <2>2. ASSUME NEW b \in ValuesOf(graph), content'[b] = Released
        PROVE  ~graph.parallel /\ \E i \in DOMAIN freelist : freelist[i].value = b /\ freelist[i].point \in ran'
    <3>1. CASE b \in Rel
      BY <1>3, <1>4, <3>1, ReleasesDying DEF Freed
    <3>2. CASE b \notin Rel
      <4>1. content[b] = Released
        BY <1>4, <1>14, <2>2, <3>2 DEF Written
      <4> QED BY <1>2, <1>6, <4>1 DEF Alive
    <3> QED BY <3>1, <3>2
  <2> QED BY <2>1, <2>2 DEF Alive
<1>16. Gone(graph, freelist, content', ran', FencedBuffers)
  <2>1. ASSUME ~graph.parallel, NEW i \in DOMAIN freelist, freelist[i].point > 1, freelist[i].point \in ran',
               freelist[i].value \notin FencedBuffers
        PROVE  content'[freelist[i].value] = Released
    <3>1. PICK b : b = freelist[i].value /\ b \in ValuesOf(graph)
      BY <1>1, FreeType
    <3>2. CASE freelist[i].point = p
      <4>1. b \in ToRelease(p)
        BY <2>1, <3>1, <3>2, ReleasesDying
      <4> QED BY <1>4, <2>1, <3>1, <4>1 DEF Written, Freed
    <3>3. CASE freelist[i].point # p
      <4>1. freelist[i].point \in ran
        BY <1>3, <2>1, <3>3
      <4>2. content[b] = Released
        BY <1>2, <2>1, <3>1, <4>1 DEF Gone
      <4>3. ASSUME NEW w \in Defs(graph.nodes[p]), buffer[w] = b PROVE FALSE
        <5>1. p <= freelist[i].point
          BY <3>1, <4>3, DefinedNotGone
        <5> QED BY <1>5, <2>1, <4>1, <5>1
      <4> QED BY <1>4, <3>1, <4>2, <4>3 DEF Written
    <3> QED BY <3>2, <3>3
  <2> QED BY <2>1 DEF Gone
<1>17. FencedBuffers' = FencedBuffers
  BY <1>3, SameFences
<1> QED BY <1>2, <1>3, <1>7, <1>8, <1>9, <1>10, <1>12, <1>13, <1>15, <1>16, <1>17 DEF ExecInv

-----------------------------------------------------------------------------
(* Runs. *)

\* The planner steps until the plan is complete, and leaves the graph alone.
LEMMA PlannerWorks ==
    ASSUME PlannerNext
    PROVE  at.phase # "planned" /\ graph' = graph
BY DEF PlannerNext, ComputeUseCounts, SkipOutput, PlanGraphOutput, PlanReuseInput, PlanReuseTensor,
       PlanAllocate, PlanningOutput, Plannable, OutputsPlanned, CountDownUse, SkipArgument, NextStep,
       ComputeFenceCheck, GenerateDeallocationPlan, FinishPlan

\* For every graph that Resolve accepts, and every order in which the executor
\* begins and ends steps, a run by the plan keeps ExecInv.
THEOREM ExecCorrect == Spec => [](PlanInv /\ ExecInv)
<1>1. Init /\ PlanInv => ExecInv
  BY ExecInit
<1>2. PlanInv /\ PlanInv' /\ ExecInv /\ [Next]_vars => ExecInv'
  <2> SUFFICES ASSUME PlanInv, PlanInv', ExecInv, [Next]_vars PROVE ExecInv'
    OBVIOUS
  <2>1. CASE PlannerNext /\ UNCHANGED execVars
    BY <2>1, PlannerWorks, PlannerKeeps
  <2>2. ASSUME NEW p \in Steps, Begin(p) PROVE ExecInv'
    <3>1. at.phase = "planned" /\ p \in StepsOf(graph)
      BY <2>2 DEF Begin, Planned, Steps, StepsOf
    <3> QED BY <2>2, <3>1, DonePlan, BeginStep
  <2>3. ASSUME NEW p \in Steps, End(p) PROVE ExecInv'
    <3>1. p \in running /\ p \in StepsOf(graph)
      BY <2>3 DEF End, Steps, StepsOf
    <3>2. at.phase = "planned"
      BY <3>1 DEF ExecInv
    <3> QED BY <2>3, <3>1, <3>2, DonePlan, EndStep
  <2>4. CASE UNCHANGED vars
    <3>1. UNCHANGED <<graph, at, usecount, buffer, alloc_kind, freelist, dealloc, content, data, running, ran>>
      BY <2>4 DEF vars, plannerVars, execVars
    <3>2. FencedBuffers' = FencedBuffers
      BY <3>1, SameFences
    <3> QED BY <3>1, <3>2 DEF ExecInv
  <2> QED BY <2>1, <2>2, <2>3, <2>4 DEF Next, Finished
<1> QED BY <1>1, <1>2, PlanCorrect, PTL DEF Spec

\* The buffer of a value that a step of T computes, T running or ended, is
\* allocated.
LEMMA BufferAllocated ==
    ASSUME PlanDone, ExecInv, NEW T, T = running \cup ran, NEW v \in ValuesOf(graph), Available(graph, T, v)
    PROVE  content[buffer[v]] # Unallocated
<1>1. /\ GraphOK(graph) /\ RootsOK(graph, at, buffer) /\ BuffersThere(graph, buffer, running, ran)
      /\ Alive(graph, buffer, freelist, content, running, ran)
  BY DEF PlanDone, ExecInv
<1>2. ran \subseteq T /\ T \subseteq running \cup ran
  OBVIOUS
<1>3. PICK b : b = buffer[v] /\ b \in ValuesOf(graph) /\ buffer[b] = b
  BY <1>1 DEF RootsOK
<1>4. Available(graph, T, b)
  BY <1>1, <1>2, <1>3, RootAvailable
<1> QED BY <1>1, <1>3, <1>4 DEF Alive

\* While a step runs, in sequence or in parallel, the buffers that its outputs
\* are put in and those it is going to release are allocated and have not been
\* released, by an earlier step or by another entry of to_be_freed.
THEOREM BuffersStayLive == Spec => []BuffersLive
<1>1. ASSUME PlanInv, ExecInv PROVE BuffersLive
  <2>1. SUFFICES ASSUME NEW p \in running
                 PROVE  /\ \A v \in ToRelease(p) : content[v] \notin {Unallocated, Released}
                        /\ \A v \in Defs(graph.nodes[p]) : content[buffer[v]] \notin {Unallocated, Released}
    BY DEF BuffersLive
  <2>2. PlanDone
    BY <1>1, <2>1, DonePlan DEF ExecInv
  <2>3. /\ GraphOK(graph) /\ RootsOK(graph, at, buffer) /\ FreeOK(graph, at, buffer, freelist)
        /\ ExecTypeOK(graph, content, data, running, ran) /\ UsesThere(graph, running, ran)
        /\ Alive(graph, buffer, freelist, content, running, ran)
    BY <1>1, <2>2 DEF PlanDone, ExecInv
  <2>4. p \in StepsOf(graph) /\ p \notin ran /\ (~graph.parallel => ran = 1 .. p - 1) /\ p \in Nat
    BY <2>1, <2>3, GraphFacts DEF ExecTypeOK
  <2>5. ASSUME NEW v \in Defs(graph.nodes[p]) PROVE content[buffer[v]] \notin {Unallocated, Released}
    <3>1. v \in ValuesOf(graph) /\ buffer[v] \in ValuesOf(graph)
      BY <2>3, <2>4, DefsDefined DEF RootsOK
    <3>2. Available(graph, running \cup ran, v)
      BY <2>1 DEF Available
    <3>3. content[buffer[v]] # Unallocated
      BY <1>1, <2>2, <3>1, <3>2, BufferAllocated
    <3>4. ASSUME content[buffer[v]] = Released PROVE FALSE
      <4>1. ~graph.parallel /\ \E i \in DOMAIN freelist : freelist[i].value = buffer[v] /\ freelist[i].point \in ran
        BY <2>3, <3>1, <3>4 DEF Alive
      <4>2. PICK i \in DOMAIN freelist : freelist[i].value = buffer[v] /\ freelist[i].point \in 1 .. p - 1
        BY <2>4, <4>1
      <4>3. p <= freelist[i].point
        BY <2>2, <2>4, <4>2, DefinedNotGone
      <4> QED BY <2>4, <4>2, <4>3
    <3> QED BY <3>3, <3>4
  <2>6. ASSUME NEW v \in ToRelease(p) PROVE content[v] \notin {Unallocated, Released}
    <3>1. PICK i \in DOMAIN freelist : freelist[i].value = v /\ freelist[i].point = p
      BY <2>2, <2>4, ReleasesDying
    <3>2. PICK c \in Claims(graph) : buffer[c[3]] = v /\ c[1] = p
      BY <2>3, <3>1 DEF FreeOK, EntryOK
    <3>3. PICK x : x = c[3] /\ x \in ValuesOf(graph) /\ v \in ValuesOf(graph)
      BY <2>3, <3>1, <3>2, ClaimFacts, FreeType DEF ClaimOK
    <3>4. Available(graph, running \cup ran, x)
      <4>1. ClaimOK(graph, c) /\ p # 0
        BY <2>3, <2>4, <3>2, ClaimFacts, GraphFacts
      <4>2. CASE x \in Uses(graph.nodes[p])
        <5>1. Available(graph, ran, x)
          BY <2>1, <2>3, <4>2 DEF UsesThere
        <5> QED BY <5>1 DEF Available
      <4>3. CASE x \notin Uses(graph.nodes[p])
        <5>1. PICK j : DefinedAt(graph, x, p, j)
          BY <3>2, <3>3, <4>1, <4>3 DEF ClaimOK
        <5>2. x \in Defs(graph.nodes[p])
          BY <2>3, <3>3, <5>1, DefinedFacts
        <5> QED BY <2>1, <5>2 DEF Available
      <4> QED BY <4>2, <4>3
    <3>5. content[v] # Unallocated
      <4>1. content[buffer[x]] # Unallocated
        BY <1>1, <2>2, <3>3, <3>4, BufferAllocated
      <4> QED BY <3>2, <3>3, <4>1
    <3>6. ASSUME content[v] = Released PROVE FALSE
      <4>1. PICK k \in DOMAIN freelist : freelist[k].value = v /\ freelist[k].point \in ran
        BY <2>3, <3>3, <3>6 DEF Alive
      <4>2. i \in Nat /\ k \in Nat
        BY <2>3, <3>1, <4>1, FreeType
      <4>3. ~(i < k) /\ ~(k < i)
        BY <2>3, <3>1, <4>1 DEF FreeOK
      <4>4. i = k
        BY <4>2, <4>3
      <4> QED BY <2>4, <3>1, <4>1, <4>4
    <3> QED BY <3>5, <3>6
  <2> QED BY <2>5, <2>6
<1> QED BY <1>1, ExecCorrect, PTL

\* At the end of a sequential run every buffer of the free list that dies at a
\* later step than the first and carries no fence has been released.
THEOREM LaterDeathsAreReleased == Spec => []LaterDeathsReleased
<1>1. ASSUME PlanInv, ExecInv PROVE LaterDeathsReleased
  <2>1. FreeOK(graph, at, buffer, freelist) /\ Gone(graph, freelist, content, ran, FencedBuffers)
    BY <1>1 DEF PlanInv, ExecInv
  <2>2. \A k \in DOMAIN freelist : freelist[k].point \in StepsOf(graph)
    BY <2>1, FreeType
  <2> QED BY <2>1, <2>2 DEF LaterDeathsReleased, AllRan, Gone, Parallel, Steps, StepsOf
<1> QED BY <1>1, ExecCorrect, PTL

\* No reuse, in-place update or release destroys data that a running kernel is
\* still to read, for every sequential run, and for every parallel one of a graph
\* whose kernels do not work in place: those that do break this, as the planner
\* takes the last use in the order of its plan for the last in time.
THEOREM InputsStayIntact == Spec => [](NoInplaceInParallel(graph) => InputsIntact)
<1>1. ASSUME PlanInv, ExecInv, NoInplaceInParallel(graph) PROVE InputsIntact
  <2>1. /\ GraphOK(graph) /\ ExecTypeOK(graph, content, data, running, ran)
        /\ UsesThere(graph, running, ran) /\ Intact(graph, buffer, content, data, ran)
    BY <1>1 DEF PlanInv, ExecInv
  <2>2. ASSUME NEW p \in running, NEW v \in Uses(graph.nodes[p])
        PROVE  content[buffer[v]] = data[v]
    <3>1. p \in StepsOf(graph) /\ p \notin ran
      BY <2>1, <2>2 DEF ExecTypeOK
    <3>2. v \in ValuesOf(graph) /\ Available(graph, ran, v) /\ Needed(graph, ran, v)
      BY <2>1, <2>2, <3>1, UsedBefore, ReadNeeded DEF UsesThere
    <3> QED BY <2>1, <3>2 DEF Intact
  <2> QED BY <2>2 DEF InputsIntact
<1> QED BY <1>1, ExecCorrect, PTL

\* The caller's inputs and the session's weights are never written over or
\* released, in sequence or in parallel, with kernels that work in place too.
THEOREM GivenUntouched == Spec => [](\A v \in Given(graph) : content[v] = v)
<1>1. ExecInv => \A v \in Given(graph) : content[v] = v
  BY DEF ExecInv, GivenKept
<1> QED BY <1>1, ExecCorrect, PTL

\* When a run has ended the caller finds every graph output in its buffer, with
\* the same exception; its inputs and the weights are untouched at all times.
THEOREM CallerFindsItsData == Spec => [](NoInplaceInParallel(graph) => CallerDataIntact)
<1>1. ASSUME PlanInv, ExecInv, NoInplaceInParallel(graph) PROVE CallerDataIntact
  <2>1. /\ GraphOK(graph) /\ Intact(graph, buffer, content, data, ran)
        /\ GivenKept(graph, buffer, content, data, ran)
    BY <1>1 DEF PlanInv, ExecInv
  <2>2. ASSUME ran = Steps, NEW v \in graph.graph_outputs PROVE content[buffer[v]] = data[v]
    <3>1. v \in ValuesOf(graph) /\ 0 \notin StepsOf(graph)
      BY <2>1, <2>2, GraphFacts
    <3>2. Available(graph, ran, v)
      BY <2>1, <2>2 DEF GraphOK, Available, Steps
    <3>3. <<0, 2, v>> \in Claims(graph)
      BY <2>2 DEF Claims
    <3>4. Needed(graph, ran, v)
      BY <2>2, <3>1, <3>3 DEF Needed, Steps, StepsOf
    <3> QED BY <2>1, <3>1, <3>2, <3>4 DEF Intact
  <2> QED BY <2>1, <2>2 DEF CallerDataIntact, AllRan, GivenKept
<1> QED BY <1>1, ExecCorrect, PTL
=============================================================================
