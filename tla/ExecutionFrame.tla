--------------------------- MODULE ExecutionFrame ---------------------------
(***************************************************************************)
(* The frames of onnxruntime/core/framework/execution_frame.cc with the    *)
(* memory pattern cache of session_state.cc they share, driven node by node*)
(* by sequential_executor.cc.  Every run of a session has a frame of its   *)
(* own.  The first run with given input shapes traces what it allocates    *)
(* and, when it succeeds, leaves a pattern in the cache; a later frame     *)
(* that finds one allocates a single block per location and puts its       *)
(* values at the traced offsets.  The cache is keyed by the XOR of all     *)
(* input dimensions, so the pattern may have been made for other shapes.   *)
(*                                                                         *)
(* Buffers that a frame takes from an allocator one by one are disjoint    *)
(* (module Allocator); only offsets within a block are represented.        *)
(* Kernels on another queue copy asynchronously: a copy is pending from    *)
(* the end of its node until the device has done it.                       *)
(***************************************************************************)
EXTENDS SessionThreads, Integers, SequencesExt

CONSTANTS
    Values,        \* OrtValue indices that some node produces
    Locations,     \* OrtMemoryInfo of the allocators
    Location,      \* Value -> location, from the allocation plan
    AllocKind,     \* Value -> "allocate" | "output" | "reuse"
    ReusedBuffer,  \* Value -> the value whose buffer it is given
    ExecPlan,      \* Nodes in plan order: [out, reads, free, async]
    Inputs,        \* Feeds that may be given to a run, by name
    Shapes,        \* Input -> the shapes of its feeds, sequences of dimensions
    AllTensors,    \* Input -> every feed is a tensor
    Strings,       \* Values that are string tensors
    SizeOf         \* Input -> value -> the bytes the value takes

PlanNodes == [out : Seq(Values), reads : SUBSET Values, free : Seq(Values), async : BOOLEAN]

\* What Graph::Resolve and the allocation planner see to: a value has one
\* place in the plan where it is made, and its location and kind are known.
ASSUME FrameConstants ==
    /\ Location \in [Values -> Locations]
    /\ AllocKind \in [Values -> {"allocate", "output", "reuse"}]
    /\ AllTensors \in [Inputs -> BOOLEAN]
    /\ Strings \subseteq Values
    /\ SizeOf \in [Inputs -> [Values -> Nat]]
    /\ ExecPlan \in Seq(PlanNodes)
    /\ \A i, j \in DOMAIN ExecPlan :
        \A k \in DOMAIN ExecPlan[i].out, m \in DOMAIN ExecPlan[j].out :
            ExecPlan[i].out[k] = ExecPlan[j].out[m] => i = j /\ k = m

VARIABLES
    frame,         \* Thread -> the frame of its run, or NoFrame
    mem_patterns   \* SessionState::mem_patterns_: key -> pattern group

frame_vars == <<frame, mem_patterns>>

NoFrame == [live |-> FALSE]
NoPattern == [found |-> FALSE]
Unplaced == [at |-> "none", offset |-> 0, size |-> 0]

HasFrame(t) == frame[t] # NoFrame

-----------------------------------------------------------------------------
(* OrtValuePatternPlanner: one planner per location. *)

EmptyTrace == [l \in Locations |-> [allocs |-> <<>>, blocks |-> <<>>, peak |-> 0]]

Planner(tr) == INSTANCE PatternTrace WITH allocs <- tr.allocs, blocks <- tr.blocks

\* The position in blocks_ that TraceAllocation chooses.
ChosenGap(tr, size) ==
    LET fitting == Planner(tr)!FittingGaps(size)
    IN IF fitting = {}
       THEN Len(tr.blocks) + 1
       ELSE CHOOSE i \in fitting : \A j \in fitting : Planner(tr)!BetterGap(i, j)

TraceAllocation(tr, v, size) ==
    LET gap == ChosenGap(tr, size)
        offset == Planner(tr)!GapStart(gap)
    IN IF size = 0
       THEN [tr EXCEPT !.allocs = Append(@, [index |-> v, offset |-> 0, size |-> 0])]
       ELSE [allocs |-> Append(tr.allocs, [index |-> v, offset |-> offset, size |-> size]),
             blocks |-> InsertAt(tr.blocks, gap, Len(tr.allocs) + 1),
             peak   |-> IF offset + size > tr.peak THEN offset + size ELSE tr.peak]

\* The first live block of the value leaves the list; an empty value has none.
TraceFree(tr, v) ==
    LET live == {i \in DOMAIN tr.blocks : tr.allocs[tr.blocks[i]].index = v}
    IN IF live = {}
       THEN tr
       ELSE [tr EXCEPT !.blocks = RemoveAt(@, CHOOSE i \in live : \A j \in live : i <= j)]

\* GeneratePatterns, and what a frame does with the result: GetBlock, PeakSize.
GeneratePatterns(f) ==
    [found  |-> TRUE,
     block  |-> [l \in Locations |-> Planner(f.trace[l])!Pattern],
     peak   |-> [l \in Locations |-> f.trace[l].peak],
     origin |-> f.input]

-----------------------------------------------------------------------------
(* SessionState: the pattern cache. *)

\* The operator ^ of two numbers that are not negative.
Xor[a \in Nat, b \in Nat] ==
    IF a + b = 0 THEN 0 ELSE 2 * Xor[a \div 2, b \div 2] + ((a + b) % 2)

CalculateMemoryPatternsKey(shapes) ==
    FoldLeft(LAMBDA key, dim : Xor[key, dim], 0, FlattenSeq(shapes))

GetMemoryPatternGroup(shapes) ==
    LET key == CalculateMemoryPatternsKey(shapes)
    IN IF key \in DOMAIN mem_patterns THEN mem_patterns[key] ELSE NoPattern

\* The first pattern for a key stays.
UpdateMemoryPatternGroupCache(shapes, pattern) ==
    LET key == CalculateMemoryPatternsKey(shapes)
    IN mem_patterns' = [k \in DOMAIN mem_patterns \cup {key} |->
                          IF k \in DOMAIN mem_patterns THEN mem_patterns[k] ELSE pattern]

-----------------------------------------------------------------------------
(* ExecutionFrame: operators that take a frame and return it changed. *)

Tracing(f) == ~f.pattern.found /\ AllTensors[f.input]

\* The constructor: look the shapes up, else trace.
NewFrame(t, in) ==
    frame' = [frame EXCEPT ![t] =
        [live    |-> TRUE,
         input   |-> in,
         next    |-> 1,
         pattern |-> IF AllTensors[in] THEN GetMemoryPatternGroup(Shapes[in]) ELSE NoPattern,
         trace   |-> EmptyTrace,
         place   |-> [v \in Values |-> Unplaced],
         dead    |-> {},
         copying |-> {}]]

\* Mutant: any block of the pattern will do.
BlockFitsAlways(f, v) ==
    /\ f.pattern.found
    /\ AllocKind[v] # "output"
    /\ v \in DOMAIN f.pattern.block[Location[v]]

\* The pattern has a block for the value, and it is exactly as large.
BlockFits(f, v) ==
    /\ f.pattern.found
    /\ AllocKind[v] # "output"
    /\ v \in DOMAIN f.pattern.block[Location[v]]
    /\ f.pattern.block[Location[v]][v].size = SizeOf[f.input][v]

\* TraceAllocate and TraceFree of the frame: only while tracing, and neither
\* outputs nor string tensors.
Traced(f, v) == Tracing(f) /\ AllocKind[v] # "output" /\ v \notin Strings

AllocateMLValueTensorSelfOwnBuffer(f, v) ==
    IF BlockFits(f, v)
    THEN [f EXCEPT !.place[v] = [at     |-> "block",
                                 offset |-> f.pattern.block[Location[v]][v].offset,
                                 size   |-> SizeOf[f.input][v]]]
    ELSE [f EXCEPT !.place[v] = [at |-> "own", offset |-> 0, size |-> SizeOf[f.input][v]],
                   !.trace[Location[v]] = IF Traced(f, v)
                                          THEN TraceAllocation(@, v, SizeOf[f.input][v])
                                          ELSE @]

\* The buffer handed over must be large enough; a larger one will do.
ReuseFits(f, v) == f.place[ReusedBuffer[v]].size >= SizeOf[f.input][v]

AllocateMLValueTensorPreAllocateBuffer(f, v) ==
    [f EXCEPT !.place[v] = [at |-> "reuse", offset |-> 0, size |-> SizeOf[f.input][v]]]

AllocateAsPerAllocationPlan(f, v) ==
    IF AllocKind[v] = "reuse"
    THEN AllocateMLValueTensorPreAllocateBuffer(f, v)
    ELSE AllocateMLValueTensorSelfOwnBuffer(f, v)

\* A value shares its fence with the value whose buffer it is given.
FenceOf(v) == IF AllocKind[v] = "reuse" THEN ReusedBuffer[v] ELSE v

\* CanRelease says no: a copy that reads or writes the buffer is under way.
FencePending(f, v) == \E c \in f.copying : FenceOf(v) \in {FenceOf(c.src), FenceOf(c.dst)}

\* A value with an asynchronous read under way keeps its memory until the
\* frame goes; it is traced as free all the same.
ReleaseMLValue(f, v) ==
    [f EXCEPT !.dead = @ \cup {v},
              !.place[v] = IF FencePending(f, v) THEN @ ELSE Unplaced,
              !.trace[Location[v]] = IF Traced(f, v) THEN TraceFree(@, v) ELSE @]

-----------------------------------------------------------------------------
(* SequentialExecutor: one node. *)

NodeOf(f) == ExecPlan[f.next]
MoreNodes(f) == f.next <= Len(ExecPlan)

\* BeforeUsingAsInput waits for copies that write what the node reads.
\* BeforeUsingAsOutput finds no fence: an output is given its own, or that of
\* the buffer it reuses, only when Compute allocates it.
FencesPassed(f) ==
    \A c \in f.copying, v \in NodeOf(f).reads : FenceOf(v) # FenceOf(c.dst)

\* Compute allocates the outputs, one after the other.
AllocateOutputs(f, out) ==
    LET done[i \in 0 .. Len(out)] ==
          IF i = 0 THEN f ELSE AllocateAsPerAllocationPlan(done[i - 1], out[i])
    IN done[Len(out)]

ReleaseNodeMLValues(f, free) ==
    LET done[i \in 0 .. Len(free)] ==
          IF i = 0 THEN f ELSE ReleaseMLValue(done[i - 1], free[i])
    IN done[Len(free)]

\* An asynchronous node leaves copies under way, which the fences note.
NodeCopies(node) ==
    IF node.async THEN {[src |-> s, dst |-> d] : s \in node.reads, d \in Range(node.out)}
                  ELSE {}

\* Compute, the fences, and the release of what the plan says dies here.
AfterNode(f) ==
    LET node == NodeOf(f)
        computed == AllocateOutputs(f, node.out)
        fenced == [computed EXCEPT !.copying = @ \cup NodeCopies(node)]
    IN [ReleaseNodeMLValues(fenced, node.free) EXCEPT !.next = @ + 1]

OutputsFit(f) ==
    \A v \in Range(NodeOf(f).out) : AllocKind[v] = "reuse" => ReuseFits(f, v)

ComputeNode(t) ==
    /\ HasFrame(t)
    /\ MoreNodes(frame[t])
    /\ FencesPassed(frame[t])
    /\ OutputsFit(frame[t])
    /\ frame' = [frame EXCEPT ![t] = AfterNode(@)]
    /\ UNCHANGED mem_patterns

\* The device completes an asynchronous copy.
DeviceCopies(t, c) ==
    /\ HasFrame(t)
    /\ c \in frame[t].copying
    /\ frame' = [frame EXCEPT ![t].copying = @ \ {c}]
    /\ UNCHANGED mem_patterns

\* Mutant: what a failed run traced is kept too.
DropFrameKeepsTrace(t) ==
    /\ HasFrame(t)
    /\ frame' = [frame EXCEPT ![t] = NoFrame]
    /\ IF Tracing(frame[t])
       THEN UpdateMemoryPatternGroupCache(Shapes[frame[t].input], GeneratePatterns(frame[t]))
       ELSE UNCHANGED mem_patterns

\* Execute fails, by a status or an exception: the frame goes, nothing of
\* what it traced is kept.
DropFrame(t) ==
    /\ HasFrame(t)
    /\ frame' = [frame EXCEPT ![t] = NoFrame]
    /\ UNCHANGED mem_patterns

\* After the last node: GetOutputs, then the pattern goes into the cache.
FinishFrame(t) ==
    /\ HasFrame(t)
    /\ ~MoreNodes(frame[t])
    /\ frame' = [frame EXCEPT ![t] = NoFrame]
    /\ IF Tracing(frame[t])
       THEN UpdateMemoryPatternGroupCache(Shapes[frame[t].input], GeneratePatterns(frame[t]))
       ELSE UNCHANGED mem_patterns

FrameInit ==
    /\ frame = [t \in Threads |-> NoFrame]
    /\ mem_patterns = <<>>

-----------------------------------------------------------------------------
(* Properties *)

InBlock(f, v) == f.place[v].at = "block"
EndOf(p) == p.offset + p.size

Overlap(f, v, w) ==
    /\ Location[v] = Location[w]
    /\ f.place[v].offset < EndOf(f.place[w])
    /\ f.place[w].offset < EndOf(f.place[v])

\* Whatever shapes the pattern was made for and however runs interleave, two
\* values that a run needs at the same time never share bytes of the block
\* of execution_frame.cc:221, and none reaches past its end.
BlocksApart ==
    \A t \in Threads : HasFrame(t) =>
        LET f == frame[t] IN
        \A v \in Values \ f.dead : InBlock(f, v) =>
            /\ EndOf(f.place[v]) <= f.pattern.peak[Location[v]]
            /\ \A w \in Values \ (f.dead \cup {v}) : InBlock(f, w) => ~Overlap(f, v, w)

\* A frame holds a raw pointer to its pattern while other runs update the
\* cache: the pattern is still the one the cache owns. And a run with the
\* very input its pattern was traced with takes nothing but its outputs and
\* its string tensors, which execution_frame.cc:317 leaves out of patterns,
\* from the allocators: what a failed, terminated or concurrent run traced never
\* ends up as the pattern of later ones.
PatternServesItsInput ==
    \A t \in Threads : HasFrame(t) /\ frame[t].pattern.found =>
        LET f == frame[t] IN
        /\ f.pattern \in Range(mem_patterns)
        /\ f.pattern.origin = f.input =>
               \A v \in Values : f.place[v].at = "own" => AllocKind[v] = "output" \/ v \in Strings

\* The comment of ReleaseMLValueImpl, "Async data reading is not done yet,
\* defer mem release until Session.run() end": no other value gets the
\* memory of a value while an asynchronous copy still reads it.
PendingReadsIntact ==
    \A t \in Threads : HasFrame(t) =>
        LET f == frame[t] IN
        \A c \in f.copying, w \in Values :
            w # c.src /\ InBlock(f, c.src) /\ InBlock(f, w) /\ w \notin f.dead
                => ~Overlap(f, c.src, w)
=============================================================================
