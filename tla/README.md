# TLA+ models of the ONNX Runtime core

ONNX Runtime loads an ONNX model into a graph, rewrites and partitions the graph,
plans where every intermediate value lives, and runs it, in sequence or on a
thread pool, for many callers at a time. This directory holds TLA+ models of the
parts that carry that machinery: the graph with its rewrites, the session with
its frames, pattern cache and CUDA contexts, the arena allocator, the memory
pattern planner, the allocation planner, the executors and the thread pool. TLC
checks the models on small instances, TLAPS proves the central properties of most
of them for every instance. Paths below are relative to `src/onnxruntime/core/`.

## 1. The system: inventory

| Component | Source | State | Operations | Hard part |
|---|---|---|---|---|
| BFC arena | `framework/bfc_arena.{h,cc}` | chunks in doubly linked lists, size bins, region map, reserved blocks, statistics | Alloc, Reserve, Free, Extend | splitting and coalescing in any order, recycled handles, device failures inside Extend, `size_t` wrap-around |
| Memory pattern planner | `framework/mem_pattern_planner.h` | offsets given out, list of live blocks, peak | TraceAllocation, TraceFree, GenerateMemPattern | gap choice after an arbitrary history |
| Allocation planner | `framework/allocation_planner.cc` | use counts, buffer of each value, free list, deallocation ranges | ComputeUseCounts, ComputeReusePlan, ComputeFenceCheck, GenerateDeallocationPlan | chains of reuse, in-place updates, order of execution that differs from the planned one |
| Sequential executor | `framework/sequential_executor.cc` | frame, position in the plan | Execute, ReleaseNodeMLValues | release while still needed |
| Parallel executor | `framework/parallel_executor.{h,cc}` | reference counts, outstanding tasks, errors, two mutexes, condition variable | Execute, EnqueueNode, RunNodeAsync, FinishNodeRun | interleavings, failure of one of many kernels, termination, lifetime |
| Thread pool | `common/threadpool.cc` | queue (Eigen), barriers on callers' stacks | Schedule, ParallelFor, BatchParallelFor, ParallelForRange | stack lifetime, integer arithmetic |
| Execution frame, session state | `framework/execution_frame.cc`, `framework/session_state.cc` | values of a run; pattern cache shared by runs | allocate, release, trace; look up and store patterns | concurrent runs, patterns found under another input's key, copies still pending |
| Inference session | `session/inference_session.cc` | model, providers, flags, run counter | Load, Initialize, Run | concurrent calls, error paths at every step of Run |
| Profiler | `common/profiler.cc` | flag, events | StartProfiling, EndProfiling, StartTime | switched while runs consult it |
| CUDA provider | `providers/cuda/cuda_execution_provider.cc`, `cuda_fence.cc` | context per thread, pool of retired contexts, pinned buffers waiting for events | OnRunStart, OnRunEnd, AddDeferredReleaseCPUPtr | failed runs, events that were never recorded |
| Graph | `graph/graph.cc`, `graph_utils.cc`, `graph_viewer.cc` | nodes, edges kept on both ends, initializers, order | AddNode, RemoveNode, AddEdge, RemoveEdge, FuseSubGraph, InlineFunction, Resolve | definitions and edges kept in step without a Resolve; cycles |
| Partitioner and transformers | `framework/graph_partitioner.cc`, `optimizer/` | where TransformGraph is, the order a pass walks | level 1 and 2 passes, placement, casts, copies | passes that walk an order made before their own edits, capabilities made before the first is placed |
| IO binding, feeds and fetches | `session/IOBinding.cc`, `framework/feeds_fetches_manager.cc` | names and values, copy plans | bind, copy | device copies |
| Kernel registry, kernels, MLAS, C API, server, logging | `framework/kernel_registry.cc`, `providers/`, `mlas/`, `session/`, `../../server/` | | | numerical code, external runtimes, argument conversion |

How they interact. `InferenceSession::Load` resolves the graph; `Initialize` calls
`TransformGraph`, which applies the level 1 transformers, lets the providers claim
nodes, applies levels 1 and 2, inserts casts around nodes that have no kernel for
their types and copies between host and device, and then makes the allocation
plan. `InferenceSession::Run` validates the feeds and calls
`utils::ExecuteGraph`, between the providers' OnRunStart and OnRunEnd; it constructs
an executor for the call. The executor
walks the plan that the allocation planner made at initialisation and asks the
execution frame for output values; the frame takes memory from the arena (one
arena per device, shared by all runs, behind a lock) or from one block laid out
by a memory pattern, which the pattern planner computed while an earlier run with
the same input shapes was traced. In parallel mode the executor schedules nodes
on the inter-op pool; kernels use the intra-op pool's `ParallelFor`.

What can go wrong in this structure, each at its line and with the properties that
would notice it, is listed in `PROJECT.json` under hazards.

## 2. The models

| Module | Models | Shape |
|---|---|---|
| `Allocator` | what clients of `IAllocator` rely on | abstract: a set of held blocks |
| `BFCArena` | `bfc_arena.{h,cc}` | the private helpers are functions from heap to heap, the public operations actions |
| `BFCHeapProofs`, `BFCArenaProofs` | what the helpers keep of a heap; the actions, the properties and the refinement | TLAPS |
| `PatternTrace` | gaps and the resulting pattern, from a planner's two lists | operators, used by the next and by `ExecutionFrame` |
| `MemPatternPlanner`, `MCMemPattern`, `MemPatternProofs` | `mem_pattern_planner.h` | one action per traced event, the history of what was live together |
| `GraphExecution` | what `IExecutor::Execute` promises | abstract: running, done, failed, outcome |
| `ParallelExecutor`, `MCParallelExecutor`, `ParallelExecutorProofs` | `parallel_executor.{h,cc}` and the executor's lifetime in `utils.cc` | caller, pool threads, terminate flag |
| `AllocationPlanner` | `allocation_planner.cc` | one action per turn of its loops |
| `PlannedExecution`, `MCPlan` | a plan being run by either executor through the frame | extends `AllocationPlanner` with the contents of buffers |
| `PlannerProofs`, `PlannedExecutionProofs` | what a plan guarantees; what a run by it guarantees | TLAPS |
| `ThreadPool`, `MCThreadPool`, `ThreadPoolProofs` | `threadpool.cc` | clients, pool threads, barriers |
| `ExecutionFrame` | `execution_frame.cc`, the cache of `session_state.cc`, the sequential executor's loop | a frame per thread and the shared cache; steps without the session around them |
| `CUDAProvider` | `cuda_execution_provider.cc` | contexts, events, pinned buffers, the device passing events |
| `Profiler` | `profiler.cc` | the flag |
| `InferenceSession`, `MCSession` (with `SessionThreads`), `SessionProofs` | `inference_session.cc` | composes the three modules above; one action per step of Run |
| `Graph`, `GraphUtils`, `GraphResolve` | `graph.cc`, `graph_utils.cc`, `graph_viewer.cc` | the graph is a value, its operations functions from graph to graph |
| `GraphValues` | what kernels compute | terms; the reference the rewrites are compared with |
| `Transformers`, `InsertCastTransformer`, `MemcpyTransformer`, `GraphPartitioner` | the files of those names under `optimizer/` and `framework/` | what each does to a graph at a node |
| `GraphTransform`, `MCGraph` | `TransformGraph` | one action per node that is changed, per end of a pass, per capability placed |

### BFCArena

Public operations hold `lock_` from their first access to their last, so each is
one action. `Extend` calls the device allocator in a loop with the lock held:
`AllocExtends`, `ExtendGrow`, `ExtendFirstTry`, and then `DeviceDelivers`,
`DeviceFails` or `DeviceThrows` are its steps, `pc` says where it stands, and
nothing else can run in between. The heap is a record: `chunks` (the vector
`chunks_`), `free_list` (the recycled handles), `bins`, and `handles`, the union
of the regions' maps from pointer to handle. A chunk's `allocation_id` is only
compared with -1 and becomes `in_use`. Sizes wrap at `SizeMod`, which stands for
2^64, where the code computes in `size_t`: in the rounding of a request, the bytes
left under the limit and the growth of regions. Requests within a unit of 2^64 are
excluded (`RequestsFit`): they round to 0, and any free chunk would do for them. The
device allocator is external: it places a block anywhere it overlaps nothing, or
fails. `Reserve` does not look at what the device gives: `ReserveFails` books a
null pointer in `reserved_chunks_` (`null_reserved`) and in the statistics, from
which nothing takes it off again, and a second one fails an `ORT_ENFORCE`.

`Abstract == INSTANCE Allocator WITH held <- HeldBlocks`, the blocks in clients'
hands with the size that was asked for, states that Alloc never hands out memory
that is held, that blocks do not move, and that Free releases what it is given.

### MemPatternPlanner

`TraceAllocation` is the union of three cases of the code (empty size, a gap, the
end); the free choice is which value is traced with which size. Besides the
planner's members the state has a history variable with the pairs of values that
were live at the same time, which is what the pattern must keep apart.

### ParallelExecutor

A step is what a thread does between two points where another can interfere. The
sections under `complete_mutex_` are single steps; the section under `ref_mutex_`
is not, since `EnqueueNode` inside it depends on `errors_`. The threads' `pc`:
`check` (top of the loop), `compute`, `lock`, `edges` (in the section), `ok` and
`bad` (before `FinishNodeRun`), `notify` (after its mutex), `idle`. The caller
enqueues roots, tests and waits, may be woken for nothing, returns, and destroys
the executor. The flag is toggled at any time; any kernel may fail.

`Abstract == INSTANCE GraphExecution` with `running` the nodes at `compute`,
`done` the computed ones and `failed` the ones given up.

### AllocationPlanner and PlannedExecution

`Init` chooses a graph; the planner then runs to completion, one turn of a loop
at a time. A value's `size` stands for the location, element size and shape that
the code compares; 0 is an unknown shape. `Claims` is the set of all that
ComputeUseCounts counts: every argument of a node, its outputs included, what was
there before the run, and the caller's use of an output; `UseCount` is the number of
those for a value. `GraphOK` states what the planner is entitled to: Graph::Resolve
has ordered the nodes and given every value one definition, and kernels declare their
alias and in-place pairs as those of the repository do.

`PlannedExecution` runs the plan: `Begin` allocates outputs as the frame does, `End`
stores the results and, in sequential mode, releases what the plan says, except for
any choice of buffers on which an asynchronous node has put a fence (`FencedBuffers`):
while the fence says that they cannot be released, they stay until the frame goes.
`content` is
what each buffer holds; data are names, so overwriting is visible. A sequential run
follows the plan's order, a parallel one any order that respects the edges.

### ThreadPool

A call's `fn` and barrier live on the client's stack and tasks refer to them. The
queue and the barrier are Eigen's and external. `done` is the bag of indices `fn`
was called with; index arithmetic of batches wraps as an `int`, and so does the
barrier of `ParallelForRange`, which gets its 64 bit range through a cast to
`unsigned int` (`RangesFit` keeps the ranges below that).

### InferenceSession, ExecutionFrame, CUDAProvider

Any number of threads call `Run` while `Load`, `Initialize` and profiling go on.
Run is cut where another thread's step makes a difference: reading the profiler's
flag, asking it for the time (which throws when profiling has ended in between),
the tests before the run is counted, each provider's OnRunStart, the frame, each
node, fetching and copying the outputs, each provider's OnRunEnd, and the return.
Every one of them can fail, and then the rest up to the return is skipped, OnRunEnd
included, as in the code. `RunsCounted` is what `inference_session.h:310` says of the
counter, "the current number of in-progress concurrent Run calls", as long as no run
has thrown before it was counted; afterwards the counter is too low for good, and the
property says only that it is never too high.

A frame looks up a pattern under the XOR of all input dimensions. If there is
none, the run is traced, and its pattern stored unless one is there by then. A
value goes into the pattern's block if the block has exactly its size, otherwise
to the allocator; tensors of strings and outputs are neither traced nor placed by a
pattern (`Traced`). A node's outputs are allocated one after the other
(`AllocateOutputs`), and so are its releases (`ReleaseNodeMLValues`).
`TraceAllocation` and `TraceFree` are the planner's, on the frame's own list. Nodes
marked `async` copy on a queue of their own: the copy ends at any later time, the
value is kept until the frame goes, and a node that reads it again waits for its
fence. A value that reuses a buffer shares the buffer's fence from its allocation on
(`FenceOf`); before that its node sees no fence and does not wait for one.

A CUDA context belongs to a thread from its first use to OnRunEnd, then to the
pool. A pinned buffer is freed by a later OnRunStart that finds its event recorded
and passed. Whether `cudaEventQuery` succeeds for an event that was not recorded
yet is what the CUDA documentation says: it does.

### Graph and its transformation

An argument is its name and type, and names that the code generates are derived
from another name, so that uniqueness is what the code makes it. An edge is one
record for the two ends that the code keeps; both are always changed together.
`err` is the first failure: a status, or `throw` for an `ORT_THROW` or
`ORT_ENFORCE` of an editing operation. The two topological orders are recursive
operators over the code's explicit stacks.

A pass walks the order that a `GraphViewer` had when it began. Visits that leave
the graph alone are not steps; a visit that changes it is one, so every property
is checked between any two edits of a pass. `modified` and the Resolve at the end
of a pass, the rounds of `ApplyTransformers` and the second application of level 1
after placement are as in the code. A device may claim any set of nodes of
operators it knows, one node, or one or several that it fuses, in any
number and any order, always in terms of the graph as it was before the first
claim. `GraphValues` gives the meaning: the value of an output as a term over what
the caller gives. Sums are bags of parts and a scaled part holds the bag of its
factors, so what is folded into the weights and the bias of a Conv or Gemm equals
the sums and products it replaces; a Clip after a Relu is one Clip; copies are
transparent. A Cast does what it does (`Converted`): floating point numbers are
truncated on the way to integers and compared with zero on the way to truth values,
and stay what they are between float16 and float32, because the casts that
InsertCastTransformer adds replace float16 by float32 kernels on purpose and values
can only be compared up to that precision.

`misjudged` records that one of three rewrites took a case in which the code changes
what the graph computes (`Misjudged`, `CastsMisjudged`, see the smaller findings).
`OutputsPreserved` is claimed of a graph until then; the graphs themselves are
loaded and transformed to the end, and the other properties are checked on them.

## 3. Runs

| Run | Instance | Checks |
|---|---|---|
| `arena` | unit 2, five bins, two places for regions, requests of 11 and 19, Reserve of 7, limit 54 in an address space of 62 | heap structure (`ListsTileRegions`, `Coalesced`), bins and map (`IndexesExact`), `StatsExact`, policy (`BestFit`), `ImplementsAllocator`, and `ExtendReturns` under fairness |
| `arena_extend_spins` | requests small against the unit | violation of `ExtendReturns`, see findings |
| `mem_pattern` | five values, four sizes, every order of tracing and releasing | `BlocksSorted`, `PatternKeepsApart`, `PatternFitsPeak` |
| `executor` | five nodes with a double edge, two roots, three threads | `QuietAfterWait`, `OutstandingExact`, `NodesInHandDistinct`, `ImplementsExecution`, and `ExecuteReturns` under fairness |
| `executor_notify` | the same | violation of `NotifyFindsExecutor` |
| `plan` | 6748 graphs, see below | `InputsIntact`, `CallerDataIntact`, `OutputsApart`, `BuffersLive`, `LaterDeathsReleased` |
| `plan_inplace_parallel` | two readers of one value, in parallel | violation of `InputsIntact` |
| `pool_loops` | two clients with ten kinds of calls, two threads | `NothingLeftBehind`, `EachIndexOnce`, and `CallsReturn` under fairness |
| `session` | two threads, three runs, two providers, a plan of four nodes, three inputs of which two share a cache key, a tensor of strings | `RunsOnlyWhenReady`, `RunsCounted`, `UnrecordedExplained`, `InFlightHeld`, `ContextsExclusive`, `BlocksApart`, `PatternServesItsInput` |
| `session_async` | the same plan, whose second node copies asynchronously | violation of `PendingReadsIntact` |
| `graph` | families of graphs, see below, two lists of level 1 transformers, one device | `SortDecidesAcyclicity`, `OrdersRespectEdges`, `EdgesFollowDefs`, `NothingThrows`, `OutputsPreserved`, `MemoryPlacement`, `PlacedWhereItRuns` |
| `graph_matmul_add` | two products of which one is added to the other | violation of `OutputsPreserved` |

Bounds and why they are enough. The arena's address space holds two regions; that
is room for a chunk with two free neighbours, a handle that
is recycled twice, a second region with another bin, and a split of either kind
(twice the request, or too much padding). The executor's graph has a node with
two ready successors (one kept, one enqueued), a node fed twice by the same node,
and a node fed by two roots; three threads allow a race on the last input of a
node while a third fails. The graphs of `plan` are all graphs of three
single-output nodes over a choice of kernels (plain, in-place, aliasing), edges,
sizes and outputs; all chains of six over the kernels, where a buffer is handed
on repeatedly; and graphs with two outputs, a loop body, implicit and missing
arguments, a non-tensor, a weight and an asynchronous node. Those without
in-place kernels also run in parallel mode. The pool's calls have none, one, two
and several iterations, fewer, as many and more iterations than batches; the largest
product of a batch's bounds is just below `IntMod`'s half, the largest `int`.

The session's three runs allow one to trace, a second to use what it traced and a
third, concurrent with either, to trace the same key with other shapes or to fail;
three events and buffers are one for each of them. The plan has a value that dies
early, one placed where it was, one that reuses a buffer, one of strings and an
output, on two locations. Threads are interchangeable, hence the symmetry.

The graphs loaded in `graph` are: two that Resolve refuses; every digraph on four
nodes, with inputs or with functions that give constants at its sources, because
the walks from leaves, cycles without a leaf and nodes fed only by constants are
the cases of the two sorts; chains and fans of three nodes that rules eliminate;
products and convolutions with sums; convolutions that are scaled, normalised and
activated, Clips with each choice of bounds and Slices with each choice of inputs
after what they may become part of, all with constants the rewrites tell apart
(negative, zero, one, the largest integer) and one the caller may override, a Relu
that gives a Clip its max and steps without axes included; chains of three casts
between four types; and nodes for host, device, either or a function, in float32 and
float16, with slots in host memory. Three nodes are the
longest pattern a modelled rewrite looks at, and the smallest in which one rewrite
leaves its neighbour to the next; `graph_matmul_add` needs four and is therefore a
run of its own. `Steps` is the default of `session_options.h`.

Fairness. `BFCArena`: the thread inside Extend keeps running (it holds the lock
and waits for nothing). `ParallelExecutor`: weak fairness of the caller and of
each pool thread, that is, kernels return and the operating system schedules
threads; strong fairness of `LockRefs` because a mutex is free again and again
without being free forever. `ThreadPool`: weak fairness of clients and threads.
Nothing is assumed of the device allocator, of kernels' results or of the flag.

Deadlock is checked in the runs of the arena, the executors, the plan and the pool;
models that come to an end have a `Finished` step that is enabled only when
everything is over. The memory pattern planner, the session (bounded by its calls)
and TransformGraph may simply end, and their runs do not check it.

Every property of a passing run has a mutant of the modelled code, listed in
`PROJECT.json`, under which TLC finds it violated.

## 4. Findings

Where the code and what is said about it disagree, a run shows the trace.

* `arena_extend_spins`, `framework/bfc_arena.cc:97`. The retry with a tenth less
  rounds back up to the same size once the size is at most nine units; a device
  that is out of memory then keeps the thread in the loop, with the lock held.
* `executor_notify`, `framework/parallel_executor.h:51`. `notify_all` runs after
  the mutex is released, when the caller may already have returned and destroyed
  the condition variable.
* `plan_inplace_parallel`, `framework/allocation_planner.cc:582`. In parallel mode
  dead buffers are not reused, but in-place updates are still planned by the
  order of the plan; the node that writes over a value can run before another
  reader of it.
* `session_async`, `framework/execution_frame.cc:492`. A value whose release is
  deferred because an asynchronous copy reads it is still traced as free. The
  pattern gives its bytes to a later value, and the next run with these shapes
  writes them while the copy reads.
* `graph_matmul_add`, `optimizer/matmul_add_fusion.cc:104`. Fusing a MatMul and an
  Add moves the edges of the MatMul only; the edge into the Add's other input is
  lost. If that input is a second MatMul, the same pass may then take it for a
  node with one reader and fuse it away, and the first Gemm reads a value that
  nobody produces.

Smaller ones, without a run of their own:

* a buffer that dies at the first step is released only with the frame
  (`allocation_planner.cc:685`); `output_arg_num` skips missing outputs (`:592`);
  whether a shared buffer's fence is looked at depends on the value through which
  it is reached (`:637`);
* the arena's subtraction from its limit wraps after a Reserve beyond it
  (`bfc_arena.cc:57`); `ParallelForRange` treats a range of one step differently
  (`threadpool.cc:92`);
* `Reserve` books a null pointer as memory in use (`bfc_arena.cc:183`), after which
  the statistics are no longer exact; a request within a unit of 2^64 rounds to 0
  (`:166`); `ParallelForRange` narrows its range to 32 bits for the barrier
  (`threadpool.cc:99`);
* an exception before a run is counted still counts it down
  (`inference_session.cc:1067`), so the counter is from then on lower than what
  `inference_session.h:310` says, "the current number of in-progress concurrent Run
  calls", and may be negative;
* an initializer that the caller may override is copied for device nodes with its
  default (`transformer_memcpy.cc:316`); `OutputsPreserved` therefore leaves
  overriding out after the copies;
* a constant node without a CPU kernel makes constant folding throw
  (`constant_folding.cc:56`), and `CanReplaceNodeWithInitializer` dereferences a
  null name for a node that nobody reads (`graph_utils.cc:427`): both are modelled
  as failures of TransformGraph;
* three rewrites change what a graph computes. `FuseReluClip` removes a Relu that
  gives a Clip its max (`relu_clip_fusion.cc:124`; the comment above it, "If the Relu
  is followed by a Clip node the Relu is redundant", is about the Clip's first
  input). `EliminateSlice` looks at the steps only if there are axes
  (`slice_elimination.cc:94`), although the comment there says that "If steps input
  exists, it should be constant and all values should be 1". Both are listed in
  `docs/ONNX_Runtime_Graph_Optimizations.md:29,36` among the rewrites that line 22
  calls semantics-preserving. And RemoveDuplicateCastTransformer removes a user's own
  pair of casts to integers and back (`insert_cast_transformer.cc:133`), the
  exception at line 118 being for truth values only. The run `graph` reaches all three
  and records them in `misjudged`; without one of the disjuncts of `Misjudged`, or
  without `CastsMisjudged`, TLC finds `OutputsPreserved` violated.

## 5. Proofs

All proofs are checked by TLAPS to the last leaf.

**`ParallelExecutorProofs`**, for every finite acyclic graph (with multiple edges)
and every finite pool: `TypeCorrect`, `AlwaysQuietAfterWait`,
`AlwaysOutstandingExact`, `AlwaysDistinct`, and `Implements`, the refinement of
`GraphExecution`. Assumptions: `GraphAssumption` (finite, acyclic, edges between
nodes) and `ThreadAssumption`.

None of the properties is inductive. The invariant `IInv` adds an account of the
edges: an edge is *pending* until the kernel it leaves was computed and its
thread has counted it down; `RefsExact` says that `node_refs_[n]` is the number
of pending edges into `n`; `InPlayReady` says that a node that is queued, a root
not yet enqueued, in a thread's hands, kept, computed or given up has none. So
when a count goes from 1 to 0, the node was in nobody's hands, and putting it in
one place keeps the places apart (`SetsApart`, `HandsApart`), whatever the other
threads do. Only `CountDown` changes what is pending. `NothingLost` is the
converse while there is no error: a node without pending edges is in play. When
the caller sees `out_standings_ = 0`, `OutstandingExact` empties the queue and
the threads; with no error, an uncomputed node of least rank would have no
pending edge, be in play, and be in no place: hence OK means that everything was
computed (`AllComputed`). The refinement then maps `CheckTerminate` to `Start` or
`Abandon`, the ends of kernels to `Complete` and `Fail`, the returns to `Return`,
and all other steps to stuttering.

**`MemPatternProofs`**, for every set of values and sizes: `TypeCorrect`,
`BlocksStaySorted`, `PatternAlwaysKeepsApart`, `PatternAlwaysFitsPeak`. The
invariant ties the list of live blocks to the recorded offsets: blocks are live
values in order of offset without overlap, the end of each is within the peak,
and any two values that were ever live together are apart. Inserting a block in a
gap that is large enough, or at the end, keeps the list sorted; apartness of the
new value from the live ones follows from its place in the list, and that of
older pairs from the offsets never changing.

**`BFCHeapProofs`, `BFCArenaProofs`**, for every unit, number of bins, memory
limit, word size, address space, set of request sizes and behaviour of the device
(`ArenaConstants`: units, bins, word size and requests are positive; `RequestsFit`:
rounding a request does not wrap): `ArenaInvariant`,
`AlwaysTypeOK`, `AlwaysListsTileRegions`, `AlwaysCoalesced`, `AlwaysIndexesExact`,
`AlwaysBestFit`, `AlwaysStatsExact`, and `ArenaImplementsAllocator`, the refinement of
`Allocator`; and `RoundedBytesCovers`, which says of the rounding in `size_t` that it
covers the request exactly up to the boundary that `RequestsFit` names, and gives 0
above it.

`ArenaInv` has four parts. `HeapOK` is about the heap: no handle is recycled twice
(`ShapeOK`); chunks have bytes, share none, are linked in both directions to the chunk
that starts where they end, start and end with a region at the ends of a list, stay
in one region, and are what the map knows (`Tiled`); the bins hold the free chunks by
size and nothing else, and a chunk outside of them, a dead one included, says so
(`Binned`); no two neighbours are free (`CoalescedIn`); requests fit in their chunks
(`HeldOK`). `MemoryOK` says that regions and reserved blocks share no byte,
`ReqOK` that Extend, between its steps, never tries for less than the request. The
parts need each other: that a merged chunk ends where its list goes on is the link
in the other direction; that a recycled handle is in no bin is what lets
`InsertFreeChunkIntoBin` put it in one; that the map still sends a merged start to
its chunk needs the chunks apart.

`BFCHeapProofs` first describes what each helper does to the fields (`AllocateChunk`,
`DeallocateChunk`, the two directions of binning, `Merge`, `SplitChunk`,
`AddRegion`), then what it keeps of `Tiled`, then of `Binned` and of what clients
hold. `FreeAndMaybeCoalesce` does not keep `HeapOK` in the middle: from the moment the
chunk is marked free until it is binned, `Pending` exempts it from the bins and
`CoalescedBut` exempts its two borders; each of the two merges closes one border,
and the binning at the end closes the rest. `AlwaysBestFit` rests on `BinNumForSize`
being monotone (`BinMonotone`): a chunk that fits and lies in
a later bin is no smaller than any in an earlier one, so the first that the scan
meets is a smallest. In the refinement a served request is `Grant`, because the
granted chunk is apart from the other chunks (`ApartIn`) and, lying in a region, from
every reserved block; `Free` is `Return` of that block only, because a free chunk's
neighbours in use keep place and size; all steps of Extend but the last stutter.
`StatsExact` compares counters with sums over chunks, regions and reserved blocks.
Because these share no byte (`Tiled`, `MemoryOK`), each sum is the number of bytes they
cover, a cardinality instead of a fold (`StatsAre`). A step that serves or frees
something adds or removes one block apart from the rest (`Parted`), so the
number of bytes changes by the size of that block (`BytesAdded`), as the counter does.
It is stated up to a null pointer that Reserve has booked: from then on it is false.

**`ThreadPoolProofs`**, for any number of clients, pool threads and iterations
(`PoolConstants`): `BarrierHolds`, `AlwaysNothingLeftBehind`, `PoolInvariant` and
`AlwaysEachIndexOnce`. `BarrierInv` is an account of the barrier: while a call is
under way it is the number of iterations still to be scheduled, queued and under
way, every task belongs to a call under way that has scheduled it, and no task is in
two places. When the barrier is at zero there is no such task, which is
`NothingLeftBehind`. `DoneExact` says that `fn` was called with exactly the indices
of the iterations that are no longer open. That these are all indices, each once,
is arithmetic: batch `i` is `i * total / batches .. (i + 1) * total / batches - 1`,
and such batches are apart (`BatchesApart`) and leave nothing out (`BatchesCover`).
The theorem has the hypothesis that these products stay within an `int`
(`NoOverflow`), as the code needs them to; `BarrierHolds` uses `RangesFit`, without
which the barrier would be smaller than the number of iterations.

**`SessionProofs`, session and CUDA provider**, for any number of threads, runs,
providers, contexts, events and buffers: `SessionInvariant`, `AlwaysReady`, `AlwaysCounted`, `AlwaysExplained`,
`AlwaysHeld`, `AlwaysExclusive`. Assumptions: `SessionConstants` (only the CUDA
provider has pinned buffers), `CUDAConstants` (0 stands for no context and no event)
and `ThreadsFinite`. The invariant adds to the properties what the place of a thread
in `Run` says about the run (`RunsConsistent`:
counted from the start of providers on, told of all providers once it executes, not
failed before it ends), by how much the counter is too low (`CountExact`: one for each
run that threw uncounted and has passed the decrement), that
`is_inited_` is set after all is ready, and the state of the CUDA provider: a run
that was told and has not ended has a context of its own and an event of its own
that is not recorded (`EventsHeld`), a passed event was recorded, what the device may
still read waits for an event that has not passed (`InFlightWaits`), and events that
are not recorded are at most as many as such runs and failed ones
(`UnrecordedHeld`). `AlwaysHeld` needs all of it: an OnRunStart that frees buffers
must not free those of another thread's event, and it cannot, since that event is
either unrecorded or not passed.

**`SessionProofs`, frames and pattern cache**, for any plan, placement, set of inputs,
shapes and sizes: `FrameInvariant`, `AlwaysBlocksApart`, `AlwaysPatternServes`. The
assumption `FrameConstants` gives the types of the plan's tables and says that each
value is an output of one node, once, which `Graph::Resolve` sees to. `BlocksApart` is
not obvious: a run may get a pattern that was traced with other shapes, under a key
that collides, and it puts into the pattern's block only those values that happen to
have the recorded size. What two such runs share is the plan, so the invariant
relates offsets to the plan and not to the run: two values of one trace that overlap
are such that a node frees one before a later node makes the other (`DiesBefore`). While a
run is traced, `LiveOK` keeps this up: what is not freed is on the list of live
blocks, so a value that is traced now is apart from everything but freed values and
those of no bytes. `PatternOK` carries it into the cache, and a frame that uses a pattern never
holds two values of such a pair at once, because the earlier one is dead when the
later one is made (`DeadByNow`). For `PatternServesItsInput`, `AllocsOK` says that a
trace has exactly the values that the plan allocates, strings and outputs excepted,
with the sizes of its input;
only a run that came to its end stores it, and an entry of the cache is never
replaced. The loops over a node's outputs and releases are shown by induction over
positions: if each round takes a frame that satisfies the invariant of one position to
one that satisfies that of the next, the whole loop does (`Iterates`). It is stated with
sets instead of predicates (`RangeInduction`) and rests on the least position that is
not in the set (`NatMin`), so no operator has to be instantiated.

**`PlannerProofs`**, for every set of graphs that satisfy `GraphOK`
(`PlannerGraphs`): `PlanCorrect`, the invariant of the planner, and
`NoSharedOutputs`. `GraphOK` is what `Graph::Resolve` establishes (one definition of
each value, before its uses) and what the kernels of the repository declare. Every
alias and in-place pair there is about the first output, and no kernel has both kinds;
`KernelOK` asks less: no output aliases two inputs, no kernel has pairs of both kinds,
a kernel with pairs leaves out no output before one that exists, and Identity passes
on its input. TLC evaluates it on each of the 6748 graphs of `plan`.

`PlanInv` is an account of the use counts. A use is *closed* once
ComputeReusePlan has counted it down (`Closed`); `CountsOK` says that the count of a
buffer is the number of uses still open of all values in it. It is what makes a count
of 1 mean "this input's last use", and a count of 0 "dead": `InplaceShared` and
`FreeShared` derive from it that whoever takes over a buffer finds every value
in it dead (`TakesOver`), where `Passes` is the other way to share one. Adding the
uses of the new value to the root buffer (`Reuse`) is a bijection between the
uses, so the counts stay exact (`PlacedCounts`); that roots are roots
(`RootsOK`) is needed for it, and for a chain of reuse to end in one
step. `FreeOK` says that an entry of the free list is a buffer whose
uses are all closed, the last at the entry's point, that no buffer is listed twice
and that points descend towards the back. From the last of these follows that
GenerateDeallocationPlan, which opens a range whenever the point changes, puts into
the range of a step exactly the entries that die there (`RangesOK`, `RangeNext`), the
first step excepted.

**`PlannedExecutionProofs`**, for the same graphs and every order in which an executor
may begin and end steps: `ExecCorrect`, `BuffersStayLive`, `LaterDeathsAreReleased`,
`InputsStayIntact`, `CallerFindsItsData`, `GivenUntouched`. The further assumption
`DataNames` says that the names for an empty buffer are not values. `ExecInv` says of
every value that has been computed and has a use outside the steps that have ended
that its buffer holds its data (`Intact`); this is stronger than `InputsIntact`, which
looks at running steps only and is not inductive. When a step ends, `SameData` shows
that each value it puts in a buffer has the data of every value still needed there:
if it passes data on, by `Intact` of the input; if it takes the buffer over, because
all that was in the buffer is dead in the order of the plan, and a sequential run
follows that order. In parallel mode only in-place kernels take buffers over,
and there the argument fails, as `plan_inplace_parallel` shows: `InputsStayIntact` and
`CallerFindsItsData` therefore carry the hypothesis `NoInplaceInParallel`, true of
every sequential run. `GivenKept` needs no hypothesis, because a value the caller owns
is never dead. `Alive` and `Gone` tie releases to the free list: a buffer is
released only after the point of its entry, and, unless that is the first step or the
buffer carries a fence, by then.

Every inductive invariant was checked by TLC on the run's instance before it was
proved.

Only model-checked: liveness (`ExecuteReturns`, `ExtendReturns`, `CallsReturn`),
which TLAPS cannot do, and the properties of the graph modules, whose topological
walks are recursive operators, which keeps the prover's SMT backend out.

## 6. What is left out, and the plan

Within the modelled components: logging and message texts, the arena's destructor
and debug dump, the placement of weights on devices in the planner, exceptions
thrown by loop bodies in the pool, the profiler's recorded events, telemetry,
subgraphs of control flow nodes (in the session and in the graph), type and shape
inference, serialisation, custom fetch allocators and values that are no tensors
in the frame. Of the transformers, those modelled are constant folding, the fusions of MatMul with
Add and of Gemm and Conv with an activation, the nine rules of the level 1 rule-based
transformer, casts and copies. Shapes fit: a rewrite whose constants have other shapes
changes nothing, and the tests of ranks and of known shapes in
`matmul_add_fusion.cc:61-86` always succeed. No operator that constant folding excludes
(random numbers, control flow; `constant_folding.cc:41-45`) is loaded. Resolve's step of
type and shape inference always succeeds, and node names, which nothing but messages
and the duplicate test at `graph.cc:829` reads, are left out. Precision and range of
float16 are not part of values. Clip and Slice take their parameters as
inputs, as since opsets 11 and 10. The other transformers (reshape, GELU, layer
normalisation, attention, NCHWc layout, free dimensions) match longer patterns with
the same helpers. Eigen's queue
and barrier, the device allocators, CUDA's streams and events, kernels and what
providers claim are external.

Not modelled: IO binding and feeds and fetches (a table filled by one thread, and
copies decided once before the first run), the kernel registry (a lookup in a table
of schemas), kernels and MLAS (numerical code), logging, the C API and bindings and
the server, which keep no state of their own that another part decides on. Most of
the repository's lines are kernels, operator schemas and provider back ends, so the
models cover a small share of the lines and most of the shared machinery.

Next proofs: of the graph modules, `EdgesFollowDefs` and `NothingThrows`, once the two
walks of `Graph::PerformTopologicalSortAndCheckIsAcyclic` and `GraphViewer` are written
as recursive functions on the number of steps. What a walk computes for every graph
would still be an induction over positions, as for the loops of the frame.
