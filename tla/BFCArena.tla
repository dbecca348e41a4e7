------------------------------ MODULE BFCArena ------------------------------
(***************************************************************************)
(* The best-fit-with-coalescing arena of onnxruntime/core/framework/       *)
(* bfc_arena.{h,cc}.  Every public operation holds lock_ from its first    *)
(* access to its last, so an operation is one action; the exception is     *)
(* Extend, which calls the device allocator in a loop while it holds the   *)
(* lock: each turn of that loop is an action and pc says where it stands.  *)
(*                                                                         *)
(* Abstractions.  A chunk's allocation_id is only ever compared with -1,   *)
(* so a chunk carries the Boolean in_use.  The list of dead chunks that    *)
(* the code threads through their next fields is the sequence free_list.   *)
(* The handles_ arrays of all regions are one function on addresses.       *)
(* requested_size is read only while the chunk is in use and is 0 when it  *)
(* is not; a dead chunk keeps its bin_num, the one field that a later      *)
(* AllocateChunk does not overwrite, and the others are cleared.           *)
(* num_allocs, max_bytes_in_use and max_alloc_size are read by no          *)
(* decision and are left out.                                              *)
(***************************************************************************)
EXTENDS Integers, Sequences, FiniteSets

CONSTANTS
    kMinAllocationSize,         \* Granularity of chunks (256)
    kNumBins,                   \* Number of size classes (21)
    kMaxInternalFragmentation,  \* Largest padding left unsplit (128 MB)
    kInitialRegion,             \* First region size to try (1048576)
    memory_limit,               \* The arena's limit (total_memory)
    SizeMod,                    \* 2^64: size_t arithmetic wraps there
    AddrSpace,                  \* Addresses of the device are 0..AddrSpace-1
    DeviceBases,                \* Where the device allocator may place memory
    AllocSizes,                 \* Arguments of Alloc
    ReserveSizes                \* Arguments of Reserve

ASSUME ArenaConstants ==
    /\ kMinAllocationSize \in Nat \ {0}
    /\ kNumBins \in Nat \ {0}
    /\ kMaxInternalFragmentation \in Nat \ {0}
    /\ kInitialRegion \in Nat
    /\ memory_limit \in Nat
    /\ SizeMod \in Nat \ {0} /\ kMinAllocationSize <= SizeMod
    /\ AddrSpace \in Nat
    /\ DeviceBases \subseteq 0 .. AddrSpace - 1
    /\ AllocSizes \subseteq Nat \ {0}
    /\ ReserveSizes \subseteq Nat \ {0}

\* A precondition on the clients: a request stays a unit below 2^64.  Past
\* that RoundedBytes wraps to 0 and FindChunkPtr would accept any free chunk.
ASSUME RequestsFit == \A n \in AllocSizes : n + kMinAllocationSize <= SizeMod

VARIABLES
    heap,      \* Chunks, dead handles, bins and the map from ptr to handle
    regions,   \* Memory obtained by Extend: a set of [ptr, size]
    reserved,  \* reserved_chunks_: memory handed out by Reserve, [ptr, size]
    null_reserved,  \* The size reserved_chunks_ has for nullptr; 0: no entry
    bytes_in_use, total_allocated_bytes,  \* stats_
    curr_region_allocation_bytes,         \* Size of the next region to try
    pc,        \* Where the holder of lock_ stands in Extend; "idle": unlocked
    req        \* The locals of AllocateRawInternal and Extend

vars == <<heap, regions, reserved, null_reserved, bytes_in_use,
          total_allocated_bytes, curr_region_allocation_bytes, pc, req>>

-----------------------------------------------------------------------------
Addr == 0 .. AddrSpace - 1

\* A handle is an index into chunks_, from 1 here.
kInvalidChunkHandle == 0
kInvalidBinNum == -1
BinNum == 0 .. kNumBins - 1

\* In size_t: the sum wraps, and the product is then below 2^64.
RoundedBytes(bytes) ==
    kMinAllocationSize *
        (((bytes + kMinAllocationSize - 1) % SizeMod) \div kMinAllocationSize)

RoundedDown(bytes) == (bytes \div kMinAllocationSize) * kMinAllocationSize

Smaller(m, n) == IF m <= n THEN m ELSE n
Larger(m, n) == IF m >= n THEN m ELSE n

\* Mutant: the logarithm is rounded up and not capped.
BinNumForSizeUncapped(bytes) ==
    LET units == Larger(bytes, kMinAllocationSize) \div kMinAllocationSize
    IN  CHOOSE b \in 0 .. units : units <= 2 ^ b /\ (b = 0 \/ 2 ^ (b - 1) < units)

\* The bin of a size: floor(log2(units)), the last bin taking all that is larger.
BinNumForSize(bytes) ==
    LET units == Larger(bytes, kMinAllocationSize) \div kMinAllocationSize
        holds == {b \in BinNum : b = kNumBins - 1 \/ units < 2 ^ (b + 1)}
    IN  CHOOSE b \in holds : \A other \in holds : b <= other

NewChunk == [ptr |-> 0, size |-> 0, requested_size |-> 0, in_use |-> FALSE,
             prev |-> kInvalidChunkHandle, next |-> kInvalidChunkHandle,
             bin_num |-> kInvalidBinNum]

Handles(s) == 1 .. Len(s.chunks)
DeadHandles(s) == {s.free_list[i] : i \in DOMAIN s.free_list}
LiveHandles(s) == Handles(s) \ DeadHandles(s)

-----------------------------------------------------------------------------
(* The private helpers, as functions from heap to heap.                    *)

\* The handle AllocateChunk returns, and what it does.
NextHandle(s) == IF s.free_list # <<>> THEN Head(s.free_list) ELSE Len(s.chunks) + 1

AllocateChunk(s) ==
    IF s.free_list # <<>>
    THEN [s EXCEPT !.free_list = Tail(@)]
    ELSE [s EXCEPT !.chunks = Append(@, NewChunk)]

\* Drops the chunk from the region's map; DeallocateChunk recycles its handle.
DeleteChunk(s, h) ==
    [s EXCEPT !.handles[s.chunks[h].ptr] = kInvalidChunkHandle,
              !.chunks[h] = [NewChunk EXCEPT !.bin_num = s.chunks[h].bin_num],
              !.free_list = <<h>> \o @]

InsertFreeChunkIntoBin(s, h) ==
    LET bin == BinNumForSize(s.chunks[h].size)
    IN  [s EXCEPT !.chunks[h].bin_num = bin, !.bins[bin] = @ \cup {h}]

\* Mutant: bin_num is not reset.
RemoveFreeChunkFromBinStale(s, h) == [s EXCEPT !.bins[s.chunks[h].bin_num] = @ \ {h}]

\* RemoveFreeChunkFromBin and RemoveFreeChunkIterFromBin.
RemoveFreeChunkFromBin(s, h) ==
    [s EXCEPT !.bins[s.chunks[h].bin_num] = @ \ {h},
              !.chunks[h].bin_num = kInvalidBinNum]

\* Mutant: the neighbour keeps pointing at the chunk that went away.
LinkBackMissing(chunks, after, h) == chunks

\* Sets the back link of the chunk after, if there is one.
LinkBack(chunks, after, h) ==
    IF after = kInvalidChunkHandle THEN chunks
                                   ELSE [chunks EXCEPT ![after].prev = h]

\* Keeps the first num_bytes of h and makes a free chunk of the rest.
SplitChunk(s, h, num_bytes) ==
    LET g == NextHandle(s)
        t == AllocateChunk(s)
        c == s.chunks[h]
        rest == [t.chunks[g] EXCEPT !.ptr = c.ptr + num_bytes,
                                    !.size = c.size - num_bytes,
                                    !.in_use = FALSE,
                                    !.prev = h,
                                    !.next = c.next]
        cut == [t.chunks EXCEPT ![g] = rest, ![h].size = num_bytes, ![h].next = g]
    IN  InsertFreeChunkIntoBin(
            [t EXCEPT !.chunks = LinkBack(cut, c.next, g),
                      !.handles[c.ptr + num_bytes] = g], g)

\* Merges h2 = next(h1) into h1.
Merge(s, h1, h2) ==
    LET after == s.chunks[h2].next
        joined == [s.chunks EXCEPT ![h1].next = after,
                                   ![h1].size = @ + s.chunks[h2].size]
    IN  DeleteChunk([s EXCEPT !.chunks = LinkBack(joined, after, h1)], h2)

\* Mutant: neighbours are merged whether or not a client holds them.
CoalescibleInUse(s, h) == h # kInvalidChunkHandle

\* A chunk there is, and it is free.
Coalescible(s, h) == h # kInvalidChunkHandle /\ ~ s.chunks[h].in_use

CoalesceNext(s, h) ==
    LET next == s.chunks[h].next
    IN  IF Coalescible(s, next)
        THEN Merge(RemoveFreeChunkFromBin(s, next), h, next) ELSE s

\* Mutant: only the next chunk is considered.
CoalescePrevMissing(s, h) == s

CoalescePrev(s, h) ==
    LET prev == s.chunks[h].prev
    IN  IF Coalescible(s, prev)
        THEN Merge(RemoveFreeChunkFromBin(s, prev), prev, h) ELSE s

FreeAndMaybeCoalesce(s, h) ==
    LET released == [s EXCEPT !.chunks[h].in_use = FALSE, !.chunks[h].requested_size = 0]
        forward == CoalesceNext(released, h)
        prev == forward.chunks[h].prev
        reassign == IF Coalescible(forward, prev) THEN prev ELSE h
    IN  InsertFreeChunkIntoBin(CoalescePrev(forward, h), reassign)

\* The free chunks FindChunkPtr would accept, over all the bins it visits.
Fitting(s, rounded) ==
    UNION {{h \in s.bins[b] : s.chunks[h].size >= rounded} :
              b \in BinNumForSize(rounded) .. kNumBins - 1}

\* Mutant: the bins are ordered by address only.
BeforeByAddress(s, h, g) ==
    LET c == s.chunks[h]
        d == s.chunks[g]
    IN  \/ c.bin_num < d.bin_num
        \/ c.bin_num = d.bin_num /\ c.ptr <= d.ptr

\* FindChunkPtr's order: by bin, in a bin by size and then by address.
Before(s, h, g) ==
    LET c == s.chunks[h]
        d == s.chunks[g]
    IN  \/ c.bin_num < d.bin_num
        \/ /\ c.bin_num = d.bin_num
           /\ c.size < d.size \/ (c.size = d.size /\ c.ptr <= d.ptr)

FirstFit(s, rounded) ==
    CHOOSE h \in Fitting(s, rounded) : \A g \in Fitting(s, rounded) : Before(s, h, g)

\* Takes the chunk out of its bin, splits it if it is large, marks it in use.
Take(s, h, rounded, num_bytes) ==
    LET size == s.chunks[h].size
        out == RemoveFreeChunkFromBin(s, h)
        fit == IF size >= 2 * rounded \/ size - rounded >= kMaxInternalFragmentation
               THEN SplitChunk(out, h, rounded) ELSE out
    IN  [fit EXCEPT !.chunks[h].requested_size = num_bytes, !.chunks[h].in_use = TRUE]

\* FindChunkPtr when a chunk fits: the heap and the statistics change.
Grant(s, rounded, num_bytes) ==
    LET h == FirstFit(s, rounded)
        t == Take(s, h, rounded, num_bytes)
    IN  /\ heap' = t
        /\ bytes_in_use' = bytes_in_use + t.chunks[h].size

-----------------------------------------------------------------------------
(* The device allocator (external): it places a block where nothing else   *)
(* it has given out lies.                                                  *)
DevicePlaces(bytes) ==
    {b \in DeviceBases :
        /\ b + bytes <= AddrSpace
        /\ \A r \in regions \cup reserved : b + bytes <= r.ptr \/ r.ptr + r.size <= b}

NoReq == [num_bytes |-> 0, rounded |-> 0, bytes |-> 0, available |-> 0,
          increased |-> FALSE]

\* memory_limit_ - total_allocated_bytes in size_t, rounded down.
AvailableBytes == RoundedDown((memory_limit - total_allocated_bytes) % SizeMod)

Init ==
    /\ heap = [chunks |-> <<>>, free_list |-> <<>>,
               bins |-> [b \in BinNum |-> {}],
               handles |-> [p \in Addr |-> kInvalidChunkHandle]]
    /\ regions = {} /\ reserved = {} /\ null_reserved = 0
    /\ bytes_in_use = 0 /\ total_allocated_bytes = 0
    /\ curr_region_allocation_bytes = RoundedBytes(Smaller(memory_limit, kInitialRegion))
    /\ pc = "idle" /\ req = NoReq

\* Alloc finds a chunk that fits.
AllocFromBins(num_bytes) ==
    /\ pc = "idle"
    /\ Fitting(heap, RoundedBytes(num_bytes)) # {}
    /\ Grant(heap, RoundedBytes(num_bytes), num_bytes)
    /\ UNCHANGED <<regions, reserved, null_reserved, total_allocated_bytes,
                   curr_region_allocation_bytes, pc, req>>

\* Alloc finds none and enters Extend.  (When the request exceeds what is
\* available Extend and Alloc fail and nothing changes.)
AllocExtends(num_bytes) ==
    LET rounded == RoundedBytes(num_bytes)
    IN  /\ pc = "idle"
        /\ Fitting(heap, rounded) = {}
        /\ rounded <= AvailableBytes
        /\ pc' = "grow"
        /\ req' = [NoReq EXCEPT !.num_bytes = num_bytes, !.rounded = rounded,
                                !.available = AvailableBytes]
        /\ UNCHANGED <<heap, regions, reserved, null_reserved, bytes_in_use,
                       total_allocated_bytes, curr_region_allocation_bytes>>

\* One turn of the loop that doubles the region size.
ExtendGrow ==
    /\ pc = "grow"
    /\ req.rounded > curr_region_allocation_bytes
    /\ curr_region_allocation_bytes' = (2 * curr_region_allocation_bytes) % SizeMod
    /\ req' = [req EXCEPT !.increased = TRUE]
    /\ UNCHANGED <<heap, regions, reserved, null_reserved, bytes_in_use,
                   total_allocated_bytes, pc>>

ExtendFirstTry ==
    /\ pc = "grow"
    /\ req.rounded <= curr_region_allocation_bytes
    /\ pc' = "try"
    /\ req' = [req EXCEPT !.bytes = Smaller(curr_region_allocation_bytes, req.available)]
    /\ UNCHANGED <<heap, regions, reserved, null_reserved, bytes_in_use,
                   total_allocated_bytes, curr_region_allocation_bytes>>

\* The heap after Extend has registered a region of the given size at base.
AddRegion(s, base, bytes) ==
    LET h == NextHandle(s)
        t == AllocateChunk(s)
        whole == [t.chunks[h] EXCEPT !.ptr = base,
                                     !.size = bytes,
                                     !.in_use = FALSE,
                                     !.prev = kInvalidChunkHandle,
                                     !.next = kInvalidChunkHandle]
    IN  InsertFreeChunkIntoBin([t EXCEPT !.chunks[h] = whole, !.handles[base] = h], h)

\* The device allocator delivers; Alloc looks for a chunk once more.
DeviceDelivers(base) ==
    LET grown == AddRegion(heap, base, req.bytes)
    IN  /\ pc = "try"
        /\ base \in DevicePlaces(req.bytes)
        /\ regions' = regions \cup {[ptr |-> base, size |-> req.bytes]}
        /\ total_allocated_bytes' = total_allocated_bytes + req.bytes
        /\ curr_region_allocation_bytes' =
              IF req.increased THEN curr_region_allocation_bytes
                               ELSE (2 * curr_region_allocation_bytes) % SizeMod
        /\ IF Fitting(grown, req.rounded) # {}
           THEN Grant(grown, req.rounded, req.num_bytes)
           ELSE heap' = grown /\ UNCHANGED bytes_in_use
        /\ pc' = "idle" /\ req' = NoReq
        /\ UNCHANGED <<reserved, null_reserved>>

\* Mutant: the loop is left only when nothing is left to try.
DeviceFailsTriesAll ==
    LET less == RoundedBytes((9 * req.bytes) \div 10)
    IN  /\ pc = "try"
        /\ IF less = 0
           THEN pc' = "idle" /\ req' = NoReq
           ELSE req' = [req EXCEPT !.bytes = less] /\ UNCHANGED pc
        /\ UNCHANGED <<heap, regions, reserved, null_reserved, bytes_in_use,
                       total_allocated_bytes, curr_region_allocation_bytes>>

\* It returns null or throws bad_alloc: try a tenth less, or give up.
DeviceFails ==
    LET less == RoundedBytes((9 * req.bytes) \div 10)
    IN  /\ pc = "try"
        /\ IF less < req.rounded
           THEN pc' = "idle" /\ req' = NoReq
           ELSE req' = [req EXCEPT !.bytes = less] /\ UNCHANGED pc
        /\ UNCHANGED <<heap, regions, reserved, null_reserved, bytes_in_use,
                       total_allocated_bytes, curr_region_allocation_bytes>>

\* It throws anything else (CUDA_CALL_THROW): the exception leaves Alloc.
DeviceThrows ==
    /\ pc = "try"
    /\ pc' = "idle" /\ req' = NoReq
    /\ UNCHANGED <<heap, regions, reserved, null_reserved, bytes_in_use,
                   total_allocated_bytes, curr_region_allocation_bytes>>

\* Memory straight from the device, outside the regions and the limit.
Reserve(size, base) ==
    /\ pc = "idle"
    /\ base \in DevicePlaces(size)
    /\ reserved' = reserved \cup {[ptr |-> base, size |-> size]}
    /\ bytes_in_use' = bytes_in_use + size
    /\ total_allocated_bytes' = total_allocated_bytes + size
    /\ UNCHANGED <<heap, regions, null_reserved, curr_region_allocation_bytes, pc, req>>

\* The device returns null (when it throws, nothing changes): Reserve does
\* not look, files the size under nullptr and counts it.  Free(nullptr) does
\* nothing, so the entry stays; a second null fails an ORT_ENFORCE.
ReserveFails(size) ==
    /\ pc = "idle"
    /\ null_reserved = 0
    /\ null_reserved' = size
    /\ bytes_in_use' = bytes_in_use + size
    /\ total_allocated_bytes' = total_allocated_bytes + size
    /\ UNCHANGED <<heap, regions, reserved, curr_region_allocation_bytes, pc, req>>

FreeReserved(r) ==
    /\ pc = "idle"
    /\ r \in reserved
    /\ reserved' = reserved \ {r}
    /\ bytes_in_use' = bytes_in_use - r.size
    /\ total_allocated_bytes' = total_allocated_bytes - r.size
    /\ UNCHANGED <<heap, regions, null_reserved, curr_region_allocation_bytes, pc, req>>

\* The pointers clients hold into the regions.
HeldPtrs == {heap.chunks[h].ptr : h \in {g \in LiveHandles(heap) : heap.chunks[g].in_use}}

\* Mutant: the statistics lose what the client asked for, not what it got.
FreeChunkRequested(p) ==
    LET h == heap.handles[p]
    IN  /\ pc = "idle"
        /\ p \in HeldPtrs
        /\ heap' = FreeAndMaybeCoalesce(heap, h)
        /\ bytes_in_use' = bytes_in_use - heap.chunks[h].requested_size
        /\ UNCHANGED <<regions, reserved, null_reserved, total_allocated_bytes,
                       curr_region_allocation_bytes, pc, req>>

\* Free(p) of memory from a region.  The client holds p; the arena goes by
\* the handle its map has for p.  The last two guards are ORT_ENFORCEs.
FreeChunk(p) ==
    LET h == heap.handles[p]
    IN  /\ pc = "idle"
        /\ p \in HeldPtrs
        /\ h # kInvalidChunkHandle
        /\ heap.chunks[h].in_use /\ heap.chunks[h].bin_num = kInvalidBinNum
        /\ heap' = FreeAndMaybeCoalesce(heap, h)
        /\ bytes_in_use' = bytes_in_use - heap.chunks[h].size
        /\ UNCHANGED <<regions, reserved, null_reserved, total_allocated_bytes,
                       curr_region_allocation_bytes, pc, req>>

Next ==
    \/ \E n \in AllocSizes : AllocFromBins(n) \/ AllocExtends(n)
    \/ ExtendGrow
    \/ ExtendFirstTry
    \/ \E base \in DeviceBases : DeviceDelivers(base)
    \/ DeviceFails
    \/ DeviceThrows
    \/ \E size \in ReserveSizes, base \in DeviceBases : Reserve(size, base)
    \/ \E size \in ReserveSizes : ReserveFails(size)
    \/ \E r \in reserved : FreeReserved(r)
    \/ \E p \in Addr : FreeChunk(p)

Spec == Init /\ [][Next]_vars

\* The thread inside Extend keeps running until it gives the lock back.
ExtendStep == \/ ExtendGrow \/ ExtendFirstTry \/ DeviceFails
              \/ \E base \in DeviceBases : DeviceDelivers(base)

FairSpec == Spec /\ WF_vars(ExtendStep)

-----------------------------------------------------------------------------
(* Properties *)

ChunkType == [ptr : Nat, size : Nat, requested_size : Nat, in_use : BOOLEAN,
              prev : Nat, next : Nat, bin_num : BinNum \cup {kInvalidBinNum}]

\* Types of the arena's state (bfc_arena.h, struct Chunk and the members).
TypeOK ==
    /\ heap.chunks \in Seq(ChunkType)
    /\ heap.free_list \in Seq(Nat)
    /\ heap.bins \in [BinNum -> SUBSET Nat]
    /\ heap.handles \in [Addr -> Nat]
    /\ regions \subseteq [ptr : Nat, size : Nat]
    /\ reserved \subseteq [ptr : Nat, size : Nat] /\ null_reserved \in Nat
    /\ total_allocated_bytes \in Int /\ bytes_in_use \in Int
    /\ curr_region_allocation_bytes \in Nat
    /\ pc \in {"idle", "grow", "try"}
    /\ req \in [num_bytes : Nat, rounded : Nat, bytes : Nat, available : Nat,
                increased : BOOLEAN]

Live == LiveHandles(heap)
Chunk(h) == heap.chunks[h]
EndOf(h) == Chunk(h).ptr + Chunk(h).size

\* struct Chunk, "prev/next pointers form a doubly-linked list of addresses
\* sorted by base address that must be contiguous": the links agree in both
\* directions, a link means adjacency, and a list starts and ends where a
\* region does; no byte of a region is lost, and splitting, merging and
\* recycling handles never make two chunks share one.
ListsTileRegions ==
    /\ \A h, g \in Live : h # g => EndOf(h) <= Chunk(g).ptr \/ EndOf(g) <= Chunk(h).ptr
    /\ \A h \in Live :
        /\ IF Chunk(h).next # kInvalidChunkHandle
           THEN /\ Chunk(h).next \in Live
                /\ Chunk(Chunk(h).next).prev = h
                /\ Chunk(Chunk(h).next).ptr = EndOf(h)
           ELSE \E r \in regions : r.ptr + r.size = EndOf(h)
        /\ IF Chunk(h).prev # kInvalidChunkHandle
           THEN Chunk(h).prev \in Live /\ Chunk(Chunk(h).prev).next = h
           ELSE \E r \in regions : r.ptr = Chunk(h).ptr

\* FreeAndMaybeCoalesce leaves no two free neighbours, in whatever order
\* neighbours are freed.
Coalesced ==
    \A h \in Live : Chunk(h).next # kInvalidChunkHandle /\ ~ Chunk(h).in_use
                      => Chunk(Chunk(h).next).in_use

\* The ORT_ENFORCEs of get_bin_debug_info and DumpMemoryLog: the bins hold
\* the free chunks, each in the bin of its present size, and nothing else;
\* a recycled handle carries no stale bin. The region's map sends the start
\* of every chunk to its handle and every other address nowhere, so Free(p)
\* releases what Alloc returned as p.
IndexesExact ==
    /\ \A b \in BinNum :
          heap.bins[b] = {h \in Live : ~ Chunk(h).in_use /\ BinNumForSize(Chunk(h).size) = b}
    /\ \A h \in Handles(heap) :
          Chunk(h).bin_num = IF h \in Live /\ ~ Chunk(h).in_use
                             THEN BinNumForSize(Chunk(h).size) ELSE kInvalidBinNum
    /\ \A p \in Addr : heap.handles[p] =
          IF \E h \in Live : Chunk(h).ptr = p
          THEN CHOOSE h \in Live : Chunk(h).ptr = p ELSE kInvalidChunkHandle

\* The bytes of a block, and those of several.
Bytes(b) == b.ptr .. b.ptr + b.size - 1
BytesOf(blocks) == UNION {Bytes(b) : b \in blocks}

\* stats_ equals what is really held and really obtained from the device,
\* byte by byte: a byte that two chunks or blocks share is counted once.  It
\* is so in whatever order memory is requested, refused, reserved and freed,
\* until the device gives a null pointer to Reserve, which counts it as held.
StatsExact == null_reserved = 0 =>
    /\ bytes_in_use =
          Cardinality(BytesOf({Chunk(h) : h \in {g \in Live : Chunk(g).in_use}} \cup reserved))
    /\ total_allocated_bytes = Cardinality(BytesOf(regions \cup reserved))

\* The scan over the bins finds a smallest sufficient free chunk of the whole
\* arena, and fails only when no free chunk is sufficient.
BestFit ==
    \A n \in AllocSizes :
        LET enough == {h \in Live : ~ Chunk(h).in_use /\ Chunk(h).size >= RoundedBytes(n)}
        IN  IF enough = {} THEN Fitting(heap, RoundedBytes(n)) = {}
            ELSE LET h == FirstFit(heap, RoundedBytes(n))
                 IN  h \in enough /\ \A g \in enough : Chunk(h).size <= Chunk(g).size

\* bfc_arena.h, Extend: "Returns true on success and false on failure": the
\* thread that holds lock_ in Extend leaves it, whatever the device does.
ExtendReturns == pc # "idle" ~> pc = "idle"

\* What clients hold, for the abstract allocator.
HeldBlocks == reserved \cup
    {[ptr |-> Chunk(h).ptr, size |-> Chunk(h).requested_size] :
        h \in {g \in Live : Chunk(g).in_use}}

Abstract == INSTANCE Allocator WITH held <- HeldBlocks, Sizes <- AllocSizes \cup ReserveSizes

\* The arena implements the abstract allocator: a block handed out overlaps
\* no held block, stays put while it is held, and Free gives back only it.
ImplementsAllocator == Abstract!Spec

=============================================================================
