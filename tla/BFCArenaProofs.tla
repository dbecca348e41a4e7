--------------------------- MODULE BFCArenaProofs ---------------------------
(***************************************************************************)
(* The arena's invariant, what follows from it, that the arena implements  *)
(* the abstract allocator, and that its statistics are exact.  What the    *)
(* private helpers do to the heap is proved in BFCHeapProofs; here are the *)
(* actions.                                                                *)
(***************************************************************************)
EXTENDS BFCHeapProofs, FiniteSetTheorems

\* What the device gave out: regions and reserved blocks lie in the address
\* space, apart from each other, and none is empty.
MemoryOK(R, Q) ==
    /\ R \subseteq [ptr : Addr, size : Nat \ {0}]
    /\ Q \subseteq [ptr : Addr, size : ReserveSizes]
    /\ R \cap Q = {}
    /\ GoodRegions(R \cup Q)

\* The locals of Extend: the region it tries to get is never smaller than
\* the request it is for.
ReqOK ==
    /\ pc # "idle" => /\ req.num_bytes \in AllocSizes
                      /\ req.rounded = RoundedBytes(req.num_bytes)
                      /\ req.rounded <= req.available
    /\ pc = "try" => req.rounded <= req.bytes

\* The inductive invariant.
ArenaInv == TypeOK /\ HeapOK(heap, regions) /\ MemoryOK(regions, reserved) /\ ReqOK

-----------------------------------------------------------------------------
(* Numbers. *)

\* size_t arithmetic stays in the naturals.
LEMMA WrapFacts ==
    ASSUME NEW n \in Int
    PROVE  n % SizeMod \in Nat
<1>1. PICK m \in Nat \ {0} : m = SizeMod
  BY ArenaConstants
<1>2. n % m \in 0 .. m - 1
  BY <1>1
<1> QED BY <1>1, <1>2

\* Below the modulus % is the identity, and just past it one turn is taken off.
LEMMA ModSmall ==
    ASSUME NEW x \in Nat, NEW m \in Nat, x < m
    PROVE  x % m = x
OBVIOUS

LEMMA ModPast ==
    ASSUME NEW x \in Nat, NEW m \in Nat, m <= x, x < 2 * m
    PROVE  x % m = x - m
OBVIOUS

\* What RoundedBytes computes in size_t: a request that leaves a unit below
\* 2^64 gets at least what it asks for and less than a unit more, and for any
\* larger one, up to SIZE_MAX, the sum wraps and the rounded size is 0.
THEOREM RoundedBytesCovers ==
    ASSUME NEW n \in 0 .. SizeMod - 1
    PROVE  /\ RoundedBytes(n) \in Nat
           /\ n + kMinAllocationSize <= SizeMod =>
                 n <= RoundedBytes(n) /\ RoundedBytes(n) < n + kMinAllocationSize
           /\ n + kMinAllocationSize > SizeMod => RoundedBytes(n) = 0
  <1> DEFINE k == kMinAllocationSize
             w == (n + k - 1) % SizeMod
             q == w \div k
  <1>1. /\ k \in Nat /\ k > 0 /\ SizeMod \in Nat /\ SizeMod > 0 /\ k <= SizeMod
        /\ n \in Nat /\ n < SizeMod
    BY ArenaConstants
  <1>2. w \in Nat
    BY <1>1, WrapFacts
  <1>3. n + k <= SizeMod => w = n + k - 1
    BY <1>1, ModSmall
  <1>4. n + k > SizeMod => w = n + k - 1 - SizeMod
    BY <1>1, ModPast
  <1> HIDE DEF w
  <1>5. q \in Nat /\ k * q <= w /\ w < k * q + k
    BY <1>1, <1>2
  <1>6. w < k => q = 0
    BY <1>1, <1>2
  <1> HIDE DEF q
  <1>7. k * q \in Nat
    BY <1>1, <1>5
  <1>8. RoundedBytes(n) = k * q
    BY DEF RoundedBytes, q, w
  <1>9. n + k > SizeMod => w < k
    BY <1>1, <1>4
  <1>10. n + k > SizeMod => RoundedBytes(n) = 0
    BY <1>1, <1>6, <1>8, <1>9
  <1> QED BY <1>1, <1>3, <1>5, <1>7, <1>8, <1>10

\* RoundedBytes stays in the naturals.
LEMMA RoundedBytesNat ==
    ASSUME NEW n \in Nat
    PROVE  RoundedBytes(n) \in Nat
<1>1. PICK k \in Nat \ {0} : k = kMinAllocationSize
  BY ArenaConstants
<1>2. PICK w \in Nat : w = (n + k - 1) % SizeMod
  BY <1>1, WrapFacts
<1>3. PICK q \in Nat : q = w \div k
  BY <1>1, <1>2, DivFacts
<1>4. k * q \in Nat
  BY <1>1, <1>3
<1> QED BY <1>1, <1>2, <1>3, <1>4 DEF RoundedBytes

\* What Alloc asks FindChunkPtr for.
LEMMA RequestFacts ==
    ASSUME NEW n \in AllocSizes
    PROVE  /\ n \in Nat \ {0} /\ RoundedBytes(n) \in Nat
           /\ 0 < RoundedBytes(n) /\ n <= RoundedBytes(n)
<1>1. n \in Nat \ {0} /\ n \in 0 .. SizeMod - 1 /\ n + kMinAllocationSize <= SizeMod
  BY ArenaConstants, RequestsFit
<1>2. RoundedBytes(n) \in Nat /\ n <= RoundedBytes(n)
  BY <1>1, RoundedBytesCovers
<1> QED BY <1>1, <1>2

\* Extend's rounding down stays in the naturals.
LEMMA RoundedDownFacts ==
    ASSUME NEW n \in Nat
    PROVE  RoundedDown(n) \in Nat
<1>1. PICK k \in Nat \ {0} : k = kMinAllocationSize
  BY ArenaConstants
<1>2. PICK q \in Nat : q = n \div k
  BY DivFacts
<1>3. q * k \in Nat
  BY <1>1, <1>2
<1> QED BY <1>1, <1>2, <1>3 DEF RoundedDown

-----------------------------------------------------------------------------
(* The invariant. *)

\* The device can place bytes at base: nothing else lies there.
FreePlace(R, Q, base, bytes) ==
    /\ base + bytes <= AddrSpace
    /\ \A r \in R \cup Q : base + bytes <= r.ptr \/ r.ptr + r.size <= base

\* The block r0 at base is new, and apart from all that there is.
PlacedApart(R, Q, base, r0) ==
    /\ base \in Addr /\ r0 \notin R \cup Q
    /\ GoodRegions((R \cup Q) \cup {r0}) /\ GoodRegions(R \cup {r0}) /\ GoodRegions(R)

\* A block that the device places is apart from all that it placed before.
LEMMA PlaceFacts ==
    ASSUME NEW R, NEW Q, MemoryOK(R, Q), NEW base \in DeviceBases, NEW bytes \in Nat \ {0},
           FreePlace(R, Q, base, bytes), NEW r0, r0 = [ptr |-> base, size |-> bytes]
    PROVE  PlacedApart(R, Q, base, r0)
<1>0. /\ base + bytes <= AddrSpace
      /\ \A r \in R \cup Q : base + bytes <= r.ptr \/ r.ptr + r.size <= base
  BY DEF FreePlace
<1>1. base \in Addr /\ base \in Nat /\ r0.ptr = base /\ r0.size = bytes
  BY ArenaConstants DEF Addr
<1>2. \A r \in R \cup Q : r.ptr \in Nat /\ r.size \in Nat /\ r.ptr + r.size <= AddrSpace
  BY DEF MemoryOK, GoodRegions
<1>3. r0 \notin R \cup Q
  BY <1>0, <1>1
<1>4. \A r, q \in R \cup Q : r # q => r.ptr + r.size <= q.ptr \/ q.ptr + q.size <= r.ptr
  BY DEF MemoryOK, GoodRegions
<1>5. GoodRegions((R \cup Q) \cup {r0})
  BY <1>0, <1>1, <1>2, <1>4 DEF GoodRegions
<1>6. GoodRegions(R \cup {r0}) /\ GoodRegions(R)
  BY <1>5 DEF GoodRegions
<1> QED BY <1>1, <1>3, <1>5, <1>6 DEF PlacedApart

\* The types of the heap.
LEMMA HeapTypes ==
    ASSUME NEW s, NEW R, HeapOK(s, R)
    PROVE  /\ s.chunks \in Seq(ChunkType) /\ s.free_list \in Seq(Nat)
           /\ s.bins \in [BinNum -> SUBSET Nat] /\ s.handles \in [Addr -> Nat]
           /\ \A h \in LiveHandles(s) : s.chunks[h].size \in Nat
BY HeapFields, LiveFields DEF HeapOK, ShapeOK

\* The empty arena.
LEMMA InitInv == Init => ArenaInv
<1> SUFFICES ASSUME Init PROVE ArenaInv
  OBVIOUS
<1>1. /\ heap.chunks = <<>> /\ heap.free_list = <<>>
      /\ heap.bins = [b \in BinNum |-> {}]
      /\ heap.handles = [p \in Addr |-> kInvalidChunkHandle]
      /\ regions = {} /\ reserved = {} /\ null_reserved = 0
  BY DEF Init
<1>2. heap \in HeapType
  BY DEF Init, HeapType, kInvalidChunkHandle
<1>3. Handles(heap) = {} /\ LiveHandles(heap) = {} /\ FreeListOK(heap)
  BY <1>1 DEF Handles, LiveHandles, FreeListOK
<1>4. Tiled(heap, regions)
  BY <1>1, <1>3 DEF Tiled, Sized, ApartIn, Linked, Inside, Mapped
<1>5. FreeChunks(heap) = {} /\ InUse(heap) = {}
  BY <1>3 DEF FreeChunks, InUse
<1>6. Binned(heap, FreeChunks(heap))
  BY <1>1, <1>3, <1>5 DEF Binned
<1>7. HeapOK(heap, regions)
  BY <1>2, <1>3, <1>4, <1>5, <1>6 DEF HeapOK, ShapeOK, CoalescedIn, HeldOK
<1>8. MemoryOK(regions, reserved)
  BY <1>1 DEF MemoryOK, GoodRegions
<1>9. curr_region_allocation_bytes \in Nat
  <2>1. Smaller(memory_limit, kInitialRegion) \in Nat
    BY ArenaConstants DEF Smaller
  <2> QED BY <2>1, RoundedBytesNat DEF Init
<1>10. req \in [num_bytes : Nat, rounded : Nat, bytes : Nat, available : Nat, increased : BOOLEAN]
  BY DEF Init, NoReq
<1>11. TypeOK
  BY <1>1, <1>7, <1>9, <1>10, HeapTypes DEF Init, TypeOK
<1>12. ReqOK
  BY DEF Init, ReqOK
<1> QED BY <1>7, <1>8, <1>11, <1>12 DEF ArenaInv

\* The locals of Extend that stand for no request have the type of locals.
NoReqType == NoReq \in [num_bytes : Nat, rounded : Nat, bytes : Nat, available : Nat,
                        increased : BOOLEAN]

\* The locals of a thread that is not in Extend.
LEMMA NoReqOK == NoReqType
BY DEF NoReq, NoReqType

\* Alloc served from the bins.
LEMMA AllocFromBinsInv ==
    ASSUME ArenaInv, NEW n \in AllocSizes, AllocFromBins(n)
    PROVE  ArenaInv'
<1>0. /\ HeapOK(heap, regions) /\ MemoryOK(regions, reserved) /\ ReqOK /\ TypeOK
      /\ GoodRegions(regions)
  BY DEF ArenaInv, MemoryOK, GoodRegions
<1>1. PICK rounded \in Nat : rounded = RoundedBytes(n) /\ 0 < rounded /\ n <= rounded
  BY RequestFacts
<1>2. PICK h : h = FirstFit(heap, rounded)
  OBVIOUS
<1>3. PICK t : t = Take(heap, h, rounded, n)
  OBVIOUS
<1>4. Fitting(heap, rounded) # {} /\ heap' = t /\ bytes_in_use' = bytes_in_use + t.chunks[h].size
  BY <1>1, <1>2, <1>3 DEF AllocFromBins, Grant
<1>5. HeapOK(t, regions) /\ HeldPlus(heap, t, h, n)
  BY <1>0, <1>1, <1>2, <1>3, <1>4, GrantKeeps
<1>6. t.chunks[h].size \in Nat
  BY <1>5, HeapTypes DEF HeldPlus, InUse
<1>7. UNCHANGED <<regions, reserved, null_reserved, total_allocated_bytes,
                  curr_region_allocation_bytes, pc, req>>
  BY DEF AllocFromBins
<1>8. HeapOK(heap', regions')
  BY <1>4, <1>5, <1>7
<1>9. TypeOK'
  <2>1. bytes_in_use' \in Int
    BY <1>0, <1>4, <1>6 DEF TypeOK
  <2>2. /\ heap'.chunks \in Seq(ChunkType) /\ heap'.free_list \in Seq(Nat)
        /\ heap'.bins \in [BinNum -> SUBSET Nat] /\ heap'.handles \in [Addr -> Nat]
    BY <1>8, HeapTypes
  <2> QED BY <1>0, <1>7, <2>1, <2>2 DEF TypeOK
<1>10. ReqOK'
  BY <1>0, <1>7 DEF ReqOK
<1> QED BY <1>0, <1>7, <1>8, <1>9, <1>10 DEF ArenaInv

\* Alloc enters Extend.
LEMMA AllocExtendsInv ==
    ASSUME ArenaInv, NEW n \in AllocSizes, AllocExtends(n)
    PROVE  ArenaInv'
<1>0. HeapOK(heap, regions) /\ MemoryOK(regions, reserved) /\ ReqOK /\ TypeOK
  BY DEF ArenaInv
<1>1. PICK rounded \in Nat : rounded = RoundedBytes(n) /\ 0 < rounded /\ n <= rounded /\ n \in Nat
  BY RequestFacts
<1>2. PICK available \in Nat : available = AvailableBytes
  <2>1. memory_limit - total_allocated_bytes \in Int
    BY <1>0, ArenaConstants DEF TypeOK
  <2> QED BY <2>1, WrapFacts, RoundedDownFacts DEF AvailableBytes
<1>3. /\ UNCHANGED <<heap, regions, reserved, null_reserved, bytes_in_use, total_allocated_bytes,
                     curr_region_allocation_bytes>>
      /\ pc' = "grow" /\ rounded <= available
      /\ req' = [NoReq EXCEPT !.num_bytes = n, !.rounded = rounded, !.available = available]
  BY <1>1, <1>2 DEF AllocExtends
<1>4. /\ req' \in [num_bytes : Nat, rounded : Nat, bytes : Nat, available : Nat, increased : BOOLEAN]
      /\ req'.num_bytes = n /\ req'.rounded = rounded /\ req'.available = available
  BY <1>1, <1>2, <1>3, NoReqOK DEF NoReqType
<1>5. TypeOK'
  BY <1>0, <1>3, <1>4 DEF TypeOK
<1>6. ReqOK'
  BY <1>1, <1>3, <1>4 DEF ReqOK
<1> QED BY <1>0, <1>3, <1>5, <1>6 DEF ArenaInv

\* A turn of the loop that doubles the region size.
LEMMA ExtendGrowInv ==
    ASSUME ArenaInv, ExtendGrow
    PROVE  ArenaInv'
<1>0. HeapOK(heap, regions) /\ MemoryOK(regions, reserved) /\ ReqOK /\ TypeOK
  BY DEF ArenaInv
<1>1. /\ UNCHANGED <<heap, regions, reserved, null_reserved, bytes_in_use, total_allocated_bytes, pc>>
      /\ curr_region_allocation_bytes' = (2 * curr_region_allocation_bytes) % SizeMod
      /\ req' = [req EXCEPT !.increased = TRUE] /\ pc = "grow"
  BY DEF ExtendGrow
<1>2. curr_region_allocation_bytes' \in Nat
  <2>1. 2 * curr_region_allocation_bytes \in Int
    BY <1>0 DEF TypeOK
  <2> QED BY <1>1, <2>1, WrapFacts
<1>3. /\ req' \in [num_bytes : Nat, rounded : Nat, bytes : Nat, available : Nat, increased : BOOLEAN]
      /\ req'.num_bytes = req.num_bytes /\ req'.rounded = req.rounded
      /\ req'.available = req.available
  BY <1>0, <1>1 DEF TypeOK
<1>4. TypeOK'
  BY <1>0, <1>1, <1>2, <1>3 DEF TypeOK
<1>5. ReqOK'
  BY <1>0, <1>1, <1>3 DEF ReqOK
<1> QED BY <1>0, <1>1, <1>4, <1>5 DEF ArenaInv

\* Extend settles on the size of its first try.
LEMMA ExtendFirstTryInv ==
    ASSUME ArenaInv, ExtendFirstTry
    PROVE  ArenaInv'
<1>0. HeapOK(heap, regions) /\ MemoryOK(regions, reserved) /\ ReqOK /\ TypeOK
  BY DEF ArenaInv
<1>1. /\ UNCHANGED <<heap, regions, reserved, null_reserved, bytes_in_use, total_allocated_bytes,
                     curr_region_allocation_bytes>>
      /\ req.rounded <= curr_region_allocation_bytes /\ pc = "grow" /\ pc' = "try"
      /\ req' = [req EXCEPT !.bytes = Smaller(curr_region_allocation_bytes, req.available)]
  BY DEF ExtendFirstTry
<1>2. PICK b \in Nat : b = Smaller(curr_region_allocation_bytes, req.available)
  BY <1>0 DEF TypeOK, Smaller
<1>3. req.rounded <= b
  BY <1>0, <1>1, <1>2 DEF ReqOK, Smaller
<1>4. /\ req' \in [num_bytes : Nat, rounded : Nat, bytes : Nat, available : Nat, increased : BOOLEAN]
      /\ req'.num_bytes = req.num_bytes /\ req'.rounded = req.rounded
      /\ req'.available = req.available /\ req'.bytes = b
  BY <1>0, <1>1, <1>2 DEF TypeOK
<1>5. TypeOK'
  BY <1>0, <1>1, <1>4 DEF TypeOK
<1>6. ReqOK'
  BY <1>0, <1>1, <1>3, <1>4 DEF ReqOK
<1> QED BY <1>0, <1>1, <1>5, <1>6 DEF ArenaInv

\* The request that Extend is for, when the device delivers.
LEMMA DeliveredRequest ==
    ASSUME ArenaInv, NEW base \in DeviceBases, DeviceDelivers(base)
    PROVE  \E n \in AllocSizes, rounded \in Nat, bytes \in Nat \ {0} :
              /\ n = req.num_bytes /\ rounded = req.rounded /\ bytes = req.bytes
              /\ 0 < rounded /\ n <= rounded
<1>1. /\ req.num_bytes \in AllocSizes /\ req.rounded = RoundedBytes(req.num_bytes)
      /\ req.rounded <= req.bytes /\ req.bytes \in Nat
  BY DEF ArenaInv, DeviceDelivers, ReqOK, TypeOK
<1>2. req.rounded \in Nat /\ 0 < req.rounded /\ req.num_bytes <= req.rounded
  BY <1>1, RequestFacts
<1>3. req.bytes \in Nat \ {0}
  BY <1>1, <1>2
<1> QED BY <1>1, <1>2, <1>3

\* What the device delivered is apart from all that it placed before.
LEMMA DeliveredPlace ==
    ASSUME ArenaInv, NEW base \in DeviceBases, DeviceDelivers(base),
           NEW bytes \in Nat \ {0}, bytes = req.bytes,
           NEW r0, r0 = [ptr |-> base, size |-> bytes]
    PROVE  /\ regions' = regions \cup {r0} /\ reserved' = reserved
           /\ PlacedApart(regions, reserved, base, r0)
<1>1. /\ base + bytes <= AddrSpace
      /\ \A r \in regions \cup reserved : base + bytes <= r.ptr \/ r.ptr + r.size <= base
      /\ regions' = regions \cup {r0} /\ reserved' = reserved
  BY DEF DeviceDelivers, DevicePlaces
<1>2. FreePlace(regions, reserved, base, bytes)
  BY <1>1 DEF FreePlace
<1>3. PlacedApart(regions, reserved, base, r0)
  BY <1>2, PlaceFacts DEF ArenaInv
<1> QED BY <1>1, <1>3

\* The heap with the new region, before the request is served from it.
LEMMA DeliveredHeap ==
    ASSUME ArenaInv, NEW base \in DeviceBases, DeviceDelivers(base),
           NEW bytes \in Nat \ {0}, bytes = req.bytes,
           NEW grown, grown = AddRegion(heap, base, bytes)
    PROVE  HeapOK(grown, regions') /\ SameHeld(heap, grown)
<1>1. PICK r0 : r0 = [ptr |-> base, size |-> bytes]
  OBVIOUS
<1>2. regions' = regions \cup {r0} /\ PlacedApart(regions, reserved, base, r0)
  BY <1>1, DeliveredPlace
<1>3. /\ base \in Addr /\ r0 \notin regions /\ bytes > 0 /\ bytes \in Nat
      /\ GoodRegions(regions \cup {r0}) /\ GoodRegions(regions)
  BY <1>2 DEF PlacedApart
<1>4. HeapOK(grown, regions \cup {r0}) /\ SameHeld(heap, grown)
  BY <1>1, <1>3, ExtendKeeps DEF ArenaInv
<1> QED BY <1>2, <1>4

\* The device delivers a region; the request is served from it or not.
LEMMA DeviceDeliversInv ==
    ASSUME ArenaInv, NEW base \in DeviceBases, DeviceDelivers(base)
    PROVE  ArenaInv'
<1>0. HeapOK(heap, regions) /\ MemoryOK(regions, reserved) /\ ReqOK /\ TypeOK
  BY DEF ArenaInv
<1>1. PICK n \in AllocSizes, rounded \in Nat, bytes \in Nat \ {0} :
         /\ n = req.num_bytes /\ rounded = req.rounded /\ bytes = req.bytes
         /\ 0 < rounded /\ n <= rounded
  BY DeliveredRequest
<1>2. PICK r0 : r0 = [ptr |-> base, size |-> bytes]
  OBVIOUS
<1>3. PICK grown : grown = AddRegion(heap, base, bytes)
  OBVIOUS
<1>4. /\ total_allocated_bytes' = total_allocated_bytes + bytes
      /\ pc' = "idle" /\ req' = NoReq
  BY <1>1 DEF DeviceDelivers
<1>5. /\ regions' = regions \cup {r0} /\ reserved' = reserved
      /\ base \in Addr /\ r0 \notin regions \cup reserved
      /\ GoodRegions((regions \cup reserved) \cup {r0}) /\ GoodRegions(regions \cup {r0})
  BY <1>1, <1>2, DeliveredPlace DEF PlacedApart
<1>6. HeapOK(grown, regions') /\ SameHeld(heap, grown) /\ GoodRegions(regions')
  BY <1>1, <1>3, <1>5, DeliveredHeap
<1>7. HeapOK(heap', regions') /\ bytes_in_use' \in Int
  <2>1. CASE Fitting(grown, rounded) # {}
    <3>1. PICK h : h = FirstFit(grown, rounded)
      OBVIOUS
    <3>2. PICK t : t = Take(grown, h, rounded, n)
      OBVIOUS
    <3>3. heap' = t /\ bytes_in_use' = bytes_in_use + t.chunks[h].size
      BY <1>1, <1>3, <2>1, <3>1, <3>2 DEF DeviceDelivers, Grant
    <3>4. HeapOK(t, regions') /\ HeldPlus(grown, t, h, n)
      BY <1>1, <1>6, <2>1, <3>1, <3>2, GrantKeeps
    <3>5. t.chunks[h].size \in Nat
      BY <3>4, HeapTypes DEF HeldPlus, InUse
    <3>6. bytes_in_use' \in Int
      BY <1>0, <3>3, <3>5 DEF TypeOK
    <3> QED BY <3>3, <3>4, <3>6
  <2>2. CASE Fitting(grown, rounded) = {}
    <3>1. heap' = grown /\ bytes_in_use' = bytes_in_use
      BY <1>1, <1>3, <2>2 DEF DeviceDelivers
    <3> QED BY <1>0, <1>6, <3>1 DEF TypeOK
  <2> QED BY <2>1, <2>2
<1>8. MemoryOK(regions', reserved')
  <2>1. r0 \in [ptr : Addr, size : Nat \ {0}]
    BY <1>2, <1>5
  <2>2. (regions \cup {r0}) \cup reserved = (regions \cup reserved) \cup {r0}
    OBVIOUS
  <2>3. GoodRegions(regions' \cup reserved')
    BY <1>5, <2>2
  <2> QED BY <1>0, <1>5, <2>1, <2>3 DEF MemoryOK
<1>9. curr_region_allocation_bytes' \in Nat
  <2>1. 2 * curr_region_allocation_bytes \in Int /\ curr_region_allocation_bytes \in Nat
    BY <1>0 DEF TypeOK
  <2>2. (2 * curr_region_allocation_bytes) % SizeMod \in Nat
    BY <2>1, WrapFacts
  <2> QED BY <2>1, <2>2 DEF DeviceDelivers
<1>10. TypeOK'
  <2>1. total_allocated_bytes' \in Int
    BY <1>0, <1>4 DEF TypeOK
  <2>2. req' \in [num_bytes : Nat, rounded : Nat, bytes : Nat, available : Nat, increased : BOOLEAN]
    BY <1>4, NoReqOK DEF NoReqType
  <2>3. regions' \subseteq [ptr : Nat, size : Nat] /\ reserved' \subseteq [ptr : Nat, size : Nat]
    <3>1. r0 \in [ptr : Nat, size : Nat]
      BY <1>2, <1>5 DEF Addr
    <3> QED BY <1>0, <1>5, <3>1 DEF TypeOK
  <2>4. null_reserved' \in Nat
    BY <1>0 DEF TypeOK, DeviceDelivers
  <2> QED BY <1>4, <1>7, <1>9, <2>1, <2>2, <2>3, <2>4, HeapTypes DEF TypeOK
<1>11. ReqOK'
  BY <1>4 DEF ReqOK
<1> QED BY <1>7, <1>8, <1>10, <1>11 DEF ArenaInv

\* The device fails: a smaller region, or none.
LEMMA DeviceFailsInv ==
    ASSUME ArenaInv, DeviceFails
    PROVE  ArenaInv'
<1>0. HeapOK(heap, regions) /\ MemoryOK(regions, reserved) /\ ReqOK /\ TypeOK
  BY DEF ArenaInv
<1>1. PICK less \in Nat : less = RoundedBytes((9 * req.bytes) \div 10)
  <2>1. PICK x \in Nat : x = 9 * req.bytes
    BY <1>0 DEF TypeOK
  <2>2. x \div 10 \in Nat
    BY <2>1
  <2> QED BY <2>1, <2>2, RoundedBytesNat
<1>2. /\ UNCHANGED <<heap, regions, reserved, null_reserved, bytes_in_use, total_allocated_bytes,
                     curr_region_allocation_bytes>>
      /\ pc = "try"
  BY DEF DeviceFails
<1>3. CASE less < req.rounded
  <2>1. pc' = "idle" /\ req' = NoReq
    BY <1>1, <1>3 DEF DeviceFails
  <2>2. TypeOK'
    BY <1>0, <1>2, <2>1, NoReqOK DEF TypeOK, NoReqType
  <2>3. ReqOK'
    BY <2>1 DEF ReqOK
  <2> QED BY <1>0, <1>2, <2>2, <2>3 DEF ArenaInv
<1>4. CASE ~ (less < req.rounded)
  <2>1. pc' = pc /\ req' = [req EXCEPT !.bytes = less]
    BY <1>1, <1>4 DEF DeviceFails
  <2>2. /\ req' \in [num_bytes : Nat, rounded : Nat, bytes : Nat, available : Nat, increased : BOOLEAN]
        /\ req'.num_bytes = req.num_bytes /\ req'.rounded = req.rounded
        /\ req'.available = req.available /\ req'.bytes = less /\ req.rounded \in Nat
    BY <1>0, <1>1, <2>1 DEF TypeOK
  <2>3. TypeOK'
    BY <1>0, <1>2, <2>1, <2>2 DEF TypeOK
  <2>4. ReqOK'
    BY <1>0, <1>1, <1>2, <1>4, <2>1, <2>2 DEF ReqOK
  <2> QED BY <1>0, <1>2, <2>3, <2>4 DEF ArenaInv
<1> QED BY <1>3, <1>4

\* The device throws.
LEMMA DeviceThrowsInv ==
    ASSUME ArenaInv, DeviceThrows
    PROVE  ArenaInv'
<1>0. HeapOK(heap, regions) /\ MemoryOK(regions, reserved) /\ ReqOK /\ TypeOK
  BY DEF ArenaInv
<1>1. /\ UNCHANGED <<heap, regions, reserved, null_reserved, bytes_in_use, total_allocated_bytes,
                     curr_region_allocation_bytes>>
      /\ pc' = "idle" /\ req' = NoReq
  BY DEF DeviceThrows
<1>2. TypeOK'
  BY <1>0, <1>1, NoReqOK DEF TypeOK, NoReqType
<1>3. ReqOK'
  BY <1>1 DEF ReqOK
<1> QED BY <1>0, <1>1, <1>2, <1>3 DEF ArenaInv

\* Reserve takes memory past the regions.
LEMMA ReserveInv ==
    ASSUME ArenaInv, NEW size \in ReserveSizes, NEW base \in DeviceBases, Reserve(size, base)
    PROVE  ArenaInv'
<1>0. HeapOK(heap, regions) /\ MemoryOK(regions, reserved) /\ ReqOK /\ TypeOK
  BY DEF ArenaInv
<1>1. size \in Nat \ {0}
  BY ArenaConstants
<1>2. PICK r0 : r0 = [ptr |-> base, size |-> size]
  OBVIOUS
<1>3. /\ base + size <= AddrSpace
      /\ \A r \in regions \cup reserved : base + size <= r.ptr \/ r.ptr + r.size <= base
      /\ reserved' = reserved \cup {r0}
      /\ total_allocated_bytes' = total_allocated_bytes + size
      /\ bytes_in_use' = bytes_in_use + size
      /\ UNCHANGED <<heap, regions, null_reserved, curr_region_allocation_bytes, pc, req>>
  BY <1>2 DEF Reserve, DevicePlaces
<1>4. /\ base \in Addr /\ r0 \notin regions \cup reserved
      /\ GoodRegions((regions \cup reserved) \cup {r0})
  <2>1. FreePlace(regions, reserved, base, size)
    BY <1>3 DEF FreePlace
  <2>2. PlacedApart(regions, reserved, base, r0)
    BY <1>0, <1>1, <1>2, <2>1, PlaceFacts
  <2> QED BY <2>2 DEF PlacedApart
<1>5. MemoryOK(regions', reserved')
  <2>1. r0 \in [ptr : Addr, size : ReserveSizes]
    BY <1>2, <1>4
  <2>2. regions \cup (reserved \cup {r0}) = (regions \cup reserved) \cup {r0}
    OBVIOUS
  <2>3. GoodRegions(regions' \cup reserved')
    BY <1>3, <1>4, <2>2
  <2> QED BY <1>0, <1>3, <1>4, <2>1, <2>3 DEF MemoryOK
<1>6. TypeOK'
  <2>1. total_allocated_bytes' \in Int /\ bytes_in_use' \in Int
    BY <1>0, <1>1, <1>3 DEF TypeOK
  <2>2. reserved' \subseteq [ptr : Nat, size : Nat]
    <3>1. r0 \in [ptr : Nat, size : Nat]
      BY <1>1, <1>2, <1>4 DEF Addr
    <3> QED BY <1>0, <1>3, <3>1 DEF TypeOK
  <2> QED BY <1>0, <1>3, <2>1, <2>2 DEF TypeOK
<1>7. ReqOK'
  BY <1>0, <1>3 DEF ReqOK
<1> QED BY <1>0, <1>3, <1>5, <1>6, <1>7 DEF ArenaInv

\* Reserve is given a null pointer.
LEMMA ReserveFailsInv ==
    ASSUME ArenaInv, NEW size \in ReserveSizes, ReserveFails(size)
    PROVE  ArenaInv'
<1>0. HeapOK(heap, regions) /\ MemoryOK(regions, reserved) /\ ReqOK /\ TypeOK
  BY DEF ArenaInv
<1>1. size \in Nat
  BY ArenaConstants
<1>2. /\ UNCHANGED <<heap, regions, reserved, curr_region_allocation_bytes, pc, req>>
      /\ null_reserved' = size
      /\ bytes_in_use' = bytes_in_use + size
      /\ total_allocated_bytes' = total_allocated_bytes + size
  BY DEF ReserveFails
<1>3. total_allocated_bytes' \in Int /\ bytes_in_use' \in Int
  BY <1>0, <1>1, <1>2 DEF TypeOK
<1>4. TypeOK'
  BY <1>0, <1>1, <1>2, <1>3 DEF TypeOK
<1>5. ReqOK'
  BY <1>0, <1>2 DEF ReqOK
<1> QED BY <1>0, <1>2, <1>4, <1>5 DEF ArenaInv

\* Free of a reserved block.
LEMMA FreeReservedInv ==
    ASSUME ArenaInv, NEW r \in reserved, FreeReserved(r)
    PROVE  ArenaInv'
<1>0. HeapOK(heap, regions) /\ MemoryOK(regions, reserved) /\ ReqOK /\ TypeOK
  BY DEF ArenaInv
<1>1. /\ UNCHANGED <<heap, regions, null_reserved, curr_region_allocation_bytes, pc, req>>
      /\ reserved' = reserved \ {r}
      /\ bytes_in_use' = bytes_in_use - r.size
      /\ total_allocated_bytes' = total_allocated_bytes - r.size
  BY DEF FreeReserved
<1>2. r.size \in Nat
  BY <1>0 DEF TypeOK
<1>3. total_allocated_bytes' \in Int /\ bytes_in_use' \in Int
  BY <1>0, <1>1, <1>2 DEF TypeOK
<1>4. TypeOK'
  BY <1>0, <1>1, <1>3 DEF TypeOK
<1>5. MemoryOK(regions', reserved')
  <2>1. GoodRegions(regions \cup (reserved \ {r}))
    BY <1>0 DEF MemoryOK, GoodRegions
  <2> QED BY <1>0, <1>1, <2>1 DEF MemoryOK
<1>6. ReqOK'
  BY <1>0, <1>1 DEF ReqOK
<1> QED BY <1>0, <1>1, <1>4, <1>5, <1>6 DEF ArenaInv

\* The handle that the map has for p is that of the chunk the client holds.
LEMMA FreedChunk ==
    ASSUME ArenaInv, NEW p \in Addr, FreeChunk(p), NEW h, h = heap.handles[p]
    PROVE  h \in InUse(heap) /\ heap.chunks[h].ptr = p
<1>1. h # kInvalidChunkHandle /\ heap.chunks[h].in_use
  BY DEF FreeChunk
<1> QED BY <1>1 DEF ArenaInv, HeapOK, Tiled, Mapped, InUse

\* Free of a chunk.
LEMMA FreeChunkInv ==
    ASSUME ArenaInv, NEW p \in Addr, FreeChunk(p)
    PROVE  ArenaInv'
<1>0. /\ HeapOK(heap, regions) /\ MemoryOK(regions, reserved) /\ ReqOK /\ TypeOK
      /\ GoodRegions(regions)
  BY DEF ArenaInv, MemoryOK, GoodRegions
<1>1. PICK h : h = heap.handles[p]
  OBVIOUS
<1>2. PICK t : t = FreeAndMaybeCoalesce(heap, h)
  OBVIOUS
<1>3. /\ heap' = t /\ bytes_in_use' = bytes_in_use - heap.chunks[h].size
      /\ UNCHANGED <<regions, reserved, null_reserved, total_allocated_bytes,
                     curr_region_allocation_bytes, pc, req>>
  BY <1>1, <1>2 DEF FreeChunk
<1>4. h \in InUse(heap)
  BY <1>1, FreedChunk
<1>5. HeapOK(t, regions)
  BY <1>0, <1>2, <1>4, FreeKeeps
<1>6. heap.chunks[h].size \in Nat
  BY <1>0, <1>4, HeapTypes DEF InUse
<1>7. HeapOK(heap', regions')
  BY <1>3, <1>5
<1>8. TypeOK'
  <2>1. bytes_in_use' \in Int
    BY <1>0, <1>3, <1>6 DEF TypeOK
  <2>2. /\ heap'.chunks \in Seq(ChunkType) /\ heap'.free_list \in Seq(Nat)
        /\ heap'.bins \in [BinNum -> SUBSET Nat] /\ heap'.handles \in [Addr -> Nat]
    BY <1>7, HeapTypes
  <2> QED BY <1>0, <1>3, <2>1, <2>2 DEF TypeOK
<1>9. ReqOK'
  BY <1>0, <1>3 DEF ReqOK
<1> QED BY <1>0, <1>3, <1>7, <1>8, <1>9 DEF ArenaInv

\* Every step keeps the invariant.
LEMMA StepInv ==
    ASSUME ArenaInv, [Next]_vars
    PROVE  ArenaInv'
<1>1. CASE UNCHANGED vars
  <2>1. /\ heap' = heap /\ regions' = regions /\ reserved' = reserved
        /\ null_reserved' = null_reserved
        /\ bytes_in_use' = bytes_in_use /\ total_allocated_bytes' = total_allocated_bytes
        /\ curr_region_allocation_bytes' = curr_region_allocation_bytes /\ pc' = pc /\ req' = req
    BY <1>1 DEF vars
  <2>2. TypeOK' /\ ReqOK'
    BY <2>1 DEF ArenaInv, TypeOK, ReqOK
  <2> QED BY <2>1, <2>2 DEF ArenaInv
<1>2. ASSUME NEW n \in AllocSizes, AllocFromBins(n) PROVE ArenaInv'
  BY <1>2, AllocFromBinsInv
<1>3. ASSUME NEW n \in AllocSizes, AllocExtends(n) PROVE ArenaInv'
  BY <1>3, AllocExtendsInv
<1>4. CASE ExtendGrow
  BY <1>4, ExtendGrowInv
<1>5. CASE ExtendFirstTry
  BY <1>5, ExtendFirstTryInv
<1>6. ASSUME NEW base \in DeviceBases, DeviceDelivers(base) PROVE ArenaInv'
  BY <1>6, DeviceDeliversInv
<1>7. CASE DeviceFails
  BY <1>7, DeviceFailsInv
<1>8. CASE DeviceThrows
  BY <1>8, DeviceThrowsInv
<1>9. ASSUME NEW size \in ReserveSizes, NEW base \in DeviceBases, Reserve(size, base) PROVE ArenaInv'
  BY <1>9, ReserveInv
<1>10. ASSUME NEW r \in reserved, FreeReserved(r) PROVE ArenaInv'
  BY <1>10, FreeReservedInv
<1>11. ASSUME NEW p \in Addr, FreeChunk(p) PROVE ArenaInv'
  BY <1>11, FreeChunkInv
<1>12. ASSUME NEW size \in ReserveSizes, ReserveFails(size) PROVE ArenaInv'
  BY <1>12, ReserveFailsInv
<1> QED BY <1>1, <1>2, <1>3, <1>4, <1>5, <1>6, <1>7, <1>8, <1>9, <1>10, <1>11, <1>12 DEF Next

-----------------------------------------------------------------------------
(* What the invariant says of the properties. *)

\* The chunks of a tiled heap form the lists that tile the regions.
LEMMA InvTiles == ArenaInv => ListsTileRegions
<1> SUFFICES ASSUME ArenaInv PROVE ListsTileRegions
  OBVIOUS
<1>1. Tiled(heap, regions) /\ ShapeOK(heap)
  BY DEF ArenaInv, HeapOK
<1>2. \A h \in Live : EndOf(h) = End(heap, h) /\ Chunk(h) = heap.chunks[h]
  BY DEF EndOf, End, Chunk
<1>3. \A h, g \in Live : h # g => EndOf(h) <= Chunk(g).ptr \/ EndOf(g) <= Chunk(h).ptr
  BY <1>1, <1>2 DEF Tiled, ApartIn, Live
<1>4. ASSUME NEW h \in Live
      PROVE  IF Chunk(h).next # kInvalidChunkHandle
             THEN /\ Chunk(h).next \in Live
                  /\ Chunk(Chunk(h).next).prev = h
                  /\ Chunk(Chunk(h).next).ptr = EndOf(h)
             ELSE \E r \in regions : r.ptr + r.size = EndOf(h)
  <2>1. NextLinked(heap, regions, h)
    BY <1>1 DEF Tiled, Linked, Live
  <2>2. CASE heap.chunks[h].next # kInvalidChunkHandle
    BY <1>2, <2>1, <2>2 DEF NextLinked, Live, Chunk
  <2>3. CASE heap.chunks[h].next = kInvalidChunkHandle
    BY <1>2, <2>1, <2>3 DEF NextLinked, Chunk
  <2> QED BY <2>2, <2>3
<1>5. ASSUME NEW h \in Live
      PROVE  IF Chunk(h).prev # kInvalidChunkHandle
             THEN Chunk(h).prev \in Live /\ Chunk(Chunk(h).prev).next = h
             ELSE \E r \in regions : r.ptr = Chunk(h).ptr
  <2>1. PrevLinked(heap, regions, h)
    BY <1>1 DEF Tiled, Linked, Live
  <2>2. CASE heap.chunks[h].prev # kInvalidChunkHandle
    BY <2>1, <2>2 DEF PrevLinked, Live, Chunk
  <2>3. CASE heap.chunks[h].prev = kInvalidChunkHandle
    BY <2>1, <2>3 DEF PrevLinked, Chunk
  <2> QED BY <2>2, <2>3
<1> QED BY <1>3, <1>4, <1>5 DEF ListsTileRegions

\* No two neighbours are both free.
LEMMA InvCoalesced == ArenaInv => Coalesced
BY DEF ArenaInv, HeapOK, CoalescedIn, Coalesced, Live, Chunk

\* The bins and the map are exact.
LEMMA InvIndexes == ArenaInv => IndexesExact
<1> SUFFICES ASSUME ArenaInv PROVE IndexesExact
  OBVIOUS
<1>1. Tiled(heap, regions) /\ ShapeOK(heap) /\ Binned(heap, FreeChunks(heap))
  BY DEF ArenaInv, HeapOK
<1>2. ASSUME NEW b \in BinNum
      PROVE  heap.bins[b] = {h \in Live : ~ Chunk(h).in_use /\ BinNumForSize(Chunk(h).size) = b}
  BY <1>1 DEF Binned, FreeChunks, Live, Chunk
<1>3. ASSUME NEW h \in Handles(heap)
      PROVE  Chunk(h).bin_num = IF h \in Live /\ ~ Chunk(h).in_use
                                THEN BinNumForSize(Chunk(h).size) ELSE kInvalidBinNum
  <2>1. CASE h \in FreeChunks(heap)
    <3>1. h \in Live /\ ~ Chunk(h).in_use
      BY <2>1 DEF FreeChunks, Live, Chunk
    <3> QED BY <1>1, <2>1, <3>1 DEF Binned, Chunk
  <2>2. CASE h \notin FreeChunks(heap)
    <3>1. ~ (h \in Live /\ ~ Chunk(h).in_use)
      BY <2>2 DEF FreeChunks, Live, Chunk
    <3>2. heap.chunks[h].bin_num = kInvalidBinNum
      BY <1>1, <2>2 DEF Binned
    <3> QED BY <3>1, <3>2 DEF Chunk
  <2> QED BY <2>1, <2>2
<1>4. ASSUME NEW p \in Addr
      PROVE  heap.handles[p] = IF \E h \in Live : Chunk(h).ptr = p
                               THEN CHOOSE h \in Live : Chunk(h).ptr = p ELSE kInvalidChunkHandle
  <2>1. \A h \in Live : Chunk(h).ptr = p => heap.handles[p] = h
    BY <1>1 DEF Tiled, Mapped, Live, Chunk
  <2>2. heap.handles[p] # kInvalidChunkHandle =>
           heap.handles[p] \in Live /\ Chunk(heap.handles[p]).ptr = p
    BY <1>1 DEF Tiled, Mapped, Live, Chunk
  <2>3. CASE \E h \in Live : Chunk(h).ptr = p
    <3>1. PICK c : c = CHOOSE h \in Live : Chunk(h).ptr = p
      OBVIOUS
    <3>2. c \in Live /\ Chunk(c).ptr = p
      BY <2>3, <3>1
    <3> QED BY <2>1, <2>3, <3>1, <3>2
  <2>4. CASE ~ \E h \in Live : Chunk(h).ptr = p
    BY <2>2, <2>4
  <2> QED BY <2>3, <2>4
<1> QED BY <1>2, <1>3, <1>4 DEF IndexesExact

\* The first fit over the bins is the best fit.
LEMMA InvBestFit == ArenaInv => BestFit
<1> SUFFICES ASSUME ArenaInv, NEW n \in AllocSizes, NEW rounded, rounded = RoundedBytes(n),
                    NEW enough, enough = {h \in Live : ~ Chunk(h).in_use /\ Chunk(h).size >= rounded}
             PROVE  IF enough = {} THEN Fitting(heap, rounded) = {}
                    ELSE /\ FirstFit(heap, rounded) \in enough
                         /\ \A g \in enough : Chunk(FirstFit(heap, rounded)).size <= Chunk(g).size
  BY DEF BestFit
<1>1. rounded \in Nat /\ HeapOK(heap, regions)
  BY RequestFacts DEF ArenaInv
<1>2. Fitting(heap, rounded) = enough
  BY <1>1, FittingAll DEF FreeChunks, Live, Chunk
<1>3. ASSUME enough # {}
      PROVE  /\ FirstFit(heap, rounded) \in enough
             /\ \A g \in enough : Chunk(FirstFit(heap, rounded)).size <= Chunk(g).size
  <2>1. PICK h : h = FirstFit(heap, rounded)
    OBVIOUS
  <2>2. /\ h \in FreeChunks(heap) /\ heap.chunks[h].size >= rounded
        /\ \A g \in Fitting(heap, rounded) : heap.chunks[h].size <= heap.chunks[g].size
    BY <1>1, <1>2, <1>3, <2>1, FirstFitBest
  <2> QED BY <1>2, <2>1, <2>2 DEF FreeChunks, Live, Chunk
<1> QED BY <1>2, <1>3

-----------------------------------------------------------------------------
(* The theorems. *)

\* The invariant holds of every behaviour: of any number of allocations and
\* frees, in any order, wherever the device places its memory.
THEOREM ArenaInvariant == Spec => []ArenaInv
<1>1. ArenaInv /\ [Next]_vars => ArenaInv'
  BY StepInv
<1> QED BY <1>1, InitInv, PTL DEF Spec

\* The state of the arena keeps its types.
THEOREM AlwaysTypeOK == Spec => []TypeOK
<1>1. ArenaInv => TypeOK
  BY DEF ArenaInv
<1> QED BY <1>1, ArenaInvariant, PTL

\* SplitChunk, Merge and the recycling of handles never lose or share a byte:
\* the doubly linked lists tile the regions.
THEOREM AlwaysListsTileRegions == Spec => []ListsTileRegions
BY ArenaInvariant, InvTiles, PTL

\* FreeAndMaybeCoalesce leaves no two free neighbours.
THEOREM AlwaysCoalesced == Spec => []Coalesced
BY ArenaInvariant, InvCoalesced, PTL

\* The bins hold the free chunks and nothing else, each in the bin of its
\* size, and the map sends a pointer to the chunk that starts there.
THEOREM AlwaysIndexesExact == Spec => []IndexesExact
BY ArenaInvariant, InvIndexes, PTL

\* FindChunkPtr returns a smallest chunk that is large enough and fails only
\* when there is none.
THEOREM AlwaysBestFit == Spec => []BestFit
BY ArenaInvariant, InvBestFit, PTL

-----------------------------------------------------------------------------
(* The abstract allocator. *)

\* The block that the client of chunk h knows: what it asked for, not the whole chunk;
\* and all such blocks.
BlockOf(s, h) == [ptr |-> s.chunks[h].ptr, size |-> s.chunks[h].requested_size]
BlocksOf(s) == {BlockOf(s, h) : h \in InUse(s)}

\* Two blocks share no byte.
BlocksApart(a, b) == a.ptr + a.size <= b.ptr \/ b.ptr + b.size <= a.ptr

\* What a client holds is the start of a chunk, and not longer than it.
LEMMA BlockFacts ==
    ASSUME NEW s, NEW R, HeapOK(s, R), GoodRegions(R), NEW h \in InUse(s), NEW b, b = BlockOf(s, h)
    PROVE  /\ b.ptr = s.chunks[h].ptr /\ b.ptr \in Addr /\ b.ptr \in Nat
           /\ b.size \in AllocSizes /\ b.size \in Nat \ {0} /\ End(s, h) \in Nat
           /\ b.ptr + b.size <= End(s, h)
           /\ b \in [ptr : Addr, size : AllocSizes]
<1>1. h \in LiveHandles(s) /\ ShapeOK(s) /\ Tiled(s, R) /\ HeldOK(s)
  BY DEF InUse, HeapOK
<1>2. s.chunks[h].ptr \in Addr
  BY <1>1, LiveAddr
<1>3. s.chunks[h].ptr \in Nat /\ s.chunks[h].size \in Nat /\ End(s, h) \in Nat
  BY <1>1, LiveFields
<1>4. s.chunks[h].requested_size \in AllocSizes /\ s.chunks[h].requested_size <= s.chunks[h].size
  BY <1>1 DEF HeldOK
<1>5. s.chunks[h].requested_size \in Nat \ {0}
  BY <1>4, ArenaConstants
<1>6. b.ptr = s.chunks[h].ptr /\ b.size = s.chunks[h].requested_size
  BY DEF BlockOf
<1>7. b \in [ptr : Addr, size : AllocSizes]
  BY <1>2, <1>4 DEF BlockOf
<1> QED BY <1>2, <1>3, <1>4, <1>5, <1>6, <1>7 DEF End

\* Blocks from the regions share no byte with each other.
LEMMA HeldApart ==
    ASSUME NEW s, NEW R, HeapOK(s, R), GoodRegions(R), NEW h \in InUse(s), NEW k \in InUse(s), h # k
    PROVE  BlocksApart(BlockOf(s, h), BlockOf(s, k)) /\ BlockOf(s, h) # BlockOf(s, k)
<1>1. PICK a : a = BlockOf(s, h)
  OBVIOUS
<1>2. PICK b : b = BlockOf(s, k)
  OBVIOUS
<1>3. /\ a.ptr = s.chunks[h].ptr /\ a.ptr \in Nat /\ a.size \in Nat \ {0}
      /\ a.ptr + a.size <= End(s, h) /\ End(s, h) \in Nat
  BY <1>1, BlockFacts
<1>4. /\ b.ptr = s.chunks[k].ptr /\ b.ptr \in Nat /\ b.size \in Nat \ {0}
      /\ b.ptr + b.size <= End(s, k) /\ End(s, k) \in Nat
  BY <1>2, BlockFacts
<1>5. End(s, h) <= s.chunks[k].ptr \/ End(s, k) <= s.chunks[h].ptr
  BY DEF HeapOK, Tiled, ApartIn, InUse
<1>6. BlocksApart(a, b)
  BY <1>3, <1>4, <1>5 DEF BlocksApart
<1>7. a # b
  BY <1>3, <1>4, <1>6 DEF BlocksApart
<1> QED BY <1>1, <1>2, <1>6, <1>7

\* A block from a region shares no byte with memory the device placed
\* elsewhere.
LEMMA OutsideApart ==
    ASSUME NEW s, NEW R, HeapOK(s, R), GoodRegions(R), NEW h \in InUse(s),
           NEW q, q.ptr \in Nat, q.size \in Nat \ {0},
           \A r \in R : r.ptr + r.size <= q.ptr \/ q.ptr + q.size <= r.ptr
    PROVE  BlocksApart(BlockOf(s, h), q) /\ BlocksApart(q, BlockOf(s, h)) /\ BlockOf(s, h) # q
<1>1. PICK a : a = BlockOf(s, h)
  OBVIOUS
<1>2. /\ a.ptr = s.chunks[h].ptr /\ a.ptr \in Nat /\ a.size \in Nat \ {0}
      /\ a.ptr + a.size <= End(s, h) /\ End(s, h) \in Nat
  BY <1>1, BlockFacts
<1>3. PICK r \in R : Contains(r, s, h)
  BY DEF HeapOK, Tiled, Inside, InUse
<1>4. r.ptr \in Nat /\ r.size \in Nat /\ (r.ptr + r.size <= q.ptr \/ q.ptr + q.size <= r.ptr)
  BY DEF GoodRegions
<1>5. r.ptr <= a.ptr /\ a.ptr + a.size <= r.ptr + r.size
  BY <1>2, <1>3, <1>4 DEF Contains
<1>6. BlocksApart(a, q) /\ BlocksApart(q, a)
  BY <1>2, <1>4, <1>5 DEF BlocksApart
<1>7. a # q
  BY <1>2, <1>6 DEF BlocksApart
<1> QED BY <1>1, <1>6, <1>7

\* Regions and reserved blocks are apart.
LEMMA ReservedOutside ==
    ASSUME NEW R, NEW Q, MemoryOK(R, Q), NEW q \in Q
    PROVE  /\ q.ptr \in Nat /\ q.size \in Nat \ {0} /\ GoodRegions(R)
           /\ \A r \in R : r.ptr + r.size <= q.ptr \/ q.ptr + q.size <= r.ptr
           /\ q \in [ptr : Addr, size : ReserveSizes]
<1>1. q \in [ptr : Addr, size : ReserveSizes] /\ q.size \in Nat \ {0} /\ q.ptr \in Nat
  <2>1. q \in [ptr : Addr, size : ReserveSizes]
    BY DEF MemoryOK
  <2>2. PICK p, z : p = q.ptr /\ z = q.size
    OBVIOUS
  <2>3. p \in Addr /\ z \in ReserveSizes
    BY <2>1, <2>2
  <2>4. z \in Nat \ {0}
    BY <2>3, ArenaConstants
  <2>5. p \in Nat
    BY <2>3, ArenaConstants DEF Addr
  <2> QED BY <2>1, <2>2, <2>4, <2>5
<1>2. \A r \in R : r # q
  BY DEF MemoryOK
<1> QED BY <1>1, <1>2 DEF MemoryOK, GoodRegions

\* The same chunks in use are the same blocks.
LEMMA SameBlocks ==
    ASSUME NEW s, NEW t, SameHeld(s, t)
    PROVE  BlocksOf(t) = BlocksOf(s)
<1>1. \A h \in InUse(s) : BlockOf(t, h) = BlockOf(s, h)
  BY DEF SameHeld, BlockOf
<1>2. InUse(t) = InUse(s)
  BY DEF SameHeld
<1> QED BY <1>1, <1>2 DEF BlocksOf

\* Taking a chunk adds its block, which overlaps no other.
LEMMA PlusBlocks ==
    ASSUME NEW s, NEW t, NEW R, NEW Q, HeapOK(t, R), MemoryOK(R, Q), GoodRegions(R),
           NEW h, NEW n, HeldPlus(s, t, h, n), NEW b, b = BlockOf(t, h)
    PROVE  /\ BlocksOf(t) = BlocksOf(s) \cup {b} /\ b \in [ptr : Addr, size : AllocSizes]
           /\ \A q \in Q \cup BlocksOf(s) : BlocksApart(b, q)
<1>1. InUse(t) = InUse(s) \cup {h} /\ h \notin InUse(s) /\ h \in InUse(t)
  BY DEF HeldPlus
<1>2. \A k \in InUse(s) : BlockOf(t, k) = BlockOf(s, k)
  BY DEF HeldPlus, BlockOf
<1>3. BlocksOf(t) = BlocksOf(s) \cup {b}
  BY <1>1, <1>2 DEF BlocksOf
<1>4. \A q \in BlocksOf(s) : BlocksApart(b, q)
  <2> SUFFICES ASSUME NEW k \in InUse(s) PROVE BlocksApart(b, BlockOf(s, k))
    BY DEF BlocksOf
  <2>1. k \in InUse(t) /\ k # h
    BY <1>1
  <2> QED BY <1>1, <1>2, <2>1, HeldApart
<1>5. \A q \in Q : BlocksApart(b, q)
  BY <1>1, ReservedOutside, OutsideApart
<1>6. b \in [ptr : Addr, size : AllocSizes]
  BY <1>1, BlockFacts
<1> QED BY <1>3, <1>4, <1>5, <1>6

\* Block b is one of the blocks of s, and what Q and t hold is what Q and s
\* held without it.
BlockTaken(s, t, Q, b) ==
    /\ Q \cup BlocksOf(t) = (Q \cup BlocksOf(s)) \ {b}
    /\ b \in BlocksOf(s) /\ b \in [ptr : Addr, size : AllocSizes]

\* Freeing a chunk takes its block and no other.
LEMMA MinusBlocks ==
    ASSUME NEW s, NEW t, NEW R, NEW Q, HeapOK(s, R), MemoryOK(R, Q), GoodRegions(R),
           NEW h \in InUse(s), HeldMinus(s, t, h), NEW b, b = BlockOf(s, h)
    PROVE  BlockTaken(s, t, Q, b)
<1>1. InUse(t) = InUse(s) \ {h}
  BY DEF HeldMinus
<1>2. \A k \in InUse(t) : BlockOf(t, k) = BlockOf(s, k)
  BY DEF HeldMinus, BlockOf
<1>3. \A k \in InUse(t) : BlockOf(s, k) # b
  <2> SUFFICES ASSUME NEW k \in InUse(t) PROVE BlockOf(s, k) # b
    OBVIOUS
  <2>1. k \in InUse(s) /\ k # h
    BY <1>1
  <2> QED BY <2>1, HeldApart
<1>4. BlocksOf(t) = BlocksOf(s) \ {b}
  BY <1>1, <1>2, <1>3 DEF BlocksOf
<1>5. \A q \in Q : q # b
  BY ReservedOutside, OutsideApart
<1>6. b \in BlocksOf(s) /\ b \in [ptr : Addr, size : AllocSizes]
  BY BlockFacts DEF BlocksOf
<1> QED BY <1>4, <1>5, <1>6 DEF BlockTaken

\* What clients hold: the reserved blocks and those of the chunks in use.
LEMMA HeldBlocksAre == HeldBlocks = reserved \cup BlocksOf(heap)
BY DEF HeldBlocks, BlocksOf, BlockOf, InUse, Live, Chunk

\* A block is handed out.
LEMMA GrantStep ==
    ASSUME NEW b \in [ptr : Addr, size : AllocSizes \cup ReserveSizes],
           \A q \in HeldBlocks : BlocksApart(b, q), HeldBlocks' = HeldBlocks \cup {b}
    PROVE  Abstract!Next
BY DEF Abstract!Next, Abstract!Grant, Abstract!Apart, Abstract!Block, BlocksApart

\* A block is given back.
LEMMA ReturnStep ==
    ASSUME NEW b \in [ptr : Addr, size : AllocSizes \cup ReserveSizes],
           b \in HeldBlocks, HeldBlocks' = HeldBlocks \ {b}
    PROVE  Abstract!Next
BY DEF Abstract!Next, Abstract!Return, Abstract!Block

\* Every step of the arena is a step of the abstract allocator, or changes
\* nothing that clients hold.
LEMMA StepImplements ==
    ASSUME ArenaInv, ArenaInv', [Next]_vars
    PROVE  [Abstract!Next]_HeldBlocks
<1>0. /\ HeapOK(heap, regions) /\ MemoryOK(regions, reserved) /\ GoodRegions(regions)
      /\ HeapOK(heap', regions') /\ MemoryOK(regions', reserved') /\ GoodRegions(regions')
  BY DEF ArenaInv, MemoryOK, GoodRegions
<1>1. /\ HeldBlocks = reserved \cup BlocksOf(heap)
      /\ HeldBlocks' = reserved' \cup BlocksOf(heap')
  <2>1. HeldBlocks = reserved \cup BlocksOf(heap)
    BY HeldBlocksAre
  <2>2. (HeldBlocks = reserved \cup BlocksOf(heap))'
    BY HeldBlocksAre, PTL
  <2> QED BY <2>1, <2>2
\* Most steps touch neither the heap nor the reserved blocks.
<1>2. ASSUME heap' = heap, reserved' = reserved PROVE HeldBlocks' = HeldBlocks
  BY <1>1, <1>2
\* FindChunkPtr, from a heap s in which clients hold what they held.
<1>3. ASSUME NEW s, BlocksOf(s) = BlocksOf(heap), reserved' = reserved,
             NEW h, NEW n, HeldPlus(s, heap', h, n)
      PROVE  Abstract!Next
  <2>1. PICK b : b = BlockOf(heap', h)
    OBVIOUS
  <2>2. /\ BlocksOf(heap') = BlocksOf(s) \cup {b} /\ b \in [ptr : Addr, size : AllocSizes]
        /\ \A q \in reserved' \cup BlocksOf(s) : BlocksApart(b, q)
    BY <1>0, <1>3, <2>1, PlusBlocks
  <2>3. HeldBlocks' = HeldBlocks \cup {b} /\ \A q \in HeldBlocks : BlocksApart(b, q)
    BY <1>1, <1>3, <2>2
  <2>4. b \in [ptr : Addr, size : AllocSizes \cup ReserveSizes]
    BY <2>2
  <2> QED BY <2>3, <2>4, GrantStep
<1>4. CASE UNCHANGED vars
  BY <1>2, <1>4 DEF vars
<1>5. ASSUME NEW n \in AllocSizes, AllocFromBins(n) PROVE Abstract!Next
  <2>1. PICK rounded \in Nat : rounded = RoundedBytes(n) /\ 0 < rounded /\ n <= rounded
    BY RequestFacts
  <2>2. PICK h : h = FirstFit(heap, rounded)
    OBVIOUS
  <2>3. /\ Fitting(heap, rounded) # {} /\ heap' = Take(heap, h, rounded, n) /\ reserved' = reserved
    BY <1>5, <2>1, <2>2 DEF AllocFromBins, Grant
  <2>4. HeldPlus(heap, heap', h, n)
    BY <1>0, <2>1, <2>2, <2>3, GrantKeeps
  <2> QED BY <1>3, <2>3, <2>4
<1>6. ASSUME NEW n \in AllocSizes, AllocExtends(n) PROVE HeldBlocks' = HeldBlocks
  BY <1>2, <1>6 DEF AllocExtends
<1>7. CASE ExtendGrow \/ ExtendFirstTry \/ DeviceFails \/ DeviceThrows
  BY <1>2, <1>7 DEF ExtendGrow, ExtendFirstTry, DeviceFails, DeviceThrows
<1>8. ASSUME NEW base \in DeviceBases, DeviceDelivers(base)
      PROVE  Abstract!Next \/ HeldBlocks' = HeldBlocks
  <2>1. PICK n \in AllocSizes, rounded \in Nat, bytes \in Nat \ {0} :
           /\ n = req.num_bytes /\ rounded = req.rounded /\ bytes = req.bytes
           /\ 0 < rounded /\ n <= rounded
    BY <1>8, DeliveredRequest
  <2>2. PICK grown : grown = AddRegion(heap, base, bytes)
    OBVIOUS
  <2>3. HeapOK(grown, regions') /\ SameHeld(heap, grown)
    BY <1>8, <2>1, <2>2, DeliveredHeap
  <2>4. BlocksOf(grown) = BlocksOf(heap) /\ reserved' = reserved
    BY <1>8, <2>3, SameBlocks DEF DeviceDelivers
  <2>5. CASE Fitting(grown, rounded) # {}
    <3>1. PICK h : h = FirstFit(grown, rounded)
      OBVIOUS
    <3>2. heap' = Take(grown, h, rounded, n)
      BY <1>8, <2>1, <2>2, <2>5, <3>1 DEF DeviceDelivers, Grant
    <3>3. HeldPlus(grown, heap', h, n)
      BY <1>0, <2>1, <2>3, <2>5, <3>1, <3>2, GrantKeeps
    <3> QED BY <1>3, <2>4, <3>3
  <2>6. CASE Fitting(grown, rounded) = {}
    <3>1. heap' = grown
      BY <1>8, <2>1, <2>2, <2>6 DEF DeviceDelivers
    <3> QED BY <1>1, <2>4, <3>1
  <2> QED BY <2>5, <2>6
<1>9. ASSUME NEW size \in ReserveSizes, NEW base \in DeviceBases, Reserve(size, base)
      PROVE  Abstract!Next
  <2>1. PICK b : b = [ptr |-> base, size |-> size]
    OBVIOUS
  <2>2. /\ reserved' = reserved \cup {b} /\ heap' = heap
        /\ \A r \in regions \cup reserved : base + size <= r.ptr \/ r.ptr + r.size <= base
    BY <1>9, <2>1 DEF Reserve, DevicePlaces
  <2>3. base \in Addr /\ base \in Nat /\ size \in Nat \ {0} /\ b.ptr = base /\ b.size = size
    BY <2>1, ArenaConstants DEF Addr
  <2>4. b \in [ptr : Addr, size : AllocSizes \cup ReserveSizes]
    BY <2>1, <2>3
  <2>5. \A q \in reserved : BlocksApart(b, q)
    BY <2>2, <2>3 DEF BlocksApart
  <2>6. \A q \in BlocksOf(heap) : BlocksApart(b, q)
    <3> SUFFICES ASSUME NEW h \in InUse(heap) PROVE BlocksApart(b, BlockOf(heap, h))
      BY DEF BlocksOf
    <3>1. /\ b.ptr \in Nat /\ b.size \in Nat \ {0}
          /\ \A r \in regions : r.ptr + r.size <= b.ptr \/ b.ptr + b.size <= r.ptr
      BY <2>2, <2>3
    <3> QED BY <1>0, <3>1, OutsideApart
  <2>7. HeldBlocks' = HeldBlocks \cup {b} /\ \A q \in HeldBlocks : BlocksApart(b, q)
    BY <1>1, <2>2, <2>5, <2>6
  <2> QED BY <2>4, <2>7, GrantStep
<1>10. ASSUME NEW r \in reserved, FreeReserved(r) PROVE Abstract!Next
  <2>1. reserved' = reserved \ {r} /\ heap' = heap
    BY <1>10 DEF FreeReserved
  <2>2. /\ r.ptr \in Nat /\ r.size \in Nat \ {0}
        /\ \A q \in regions : q.ptr + q.size <= r.ptr \/ r.ptr + r.size <= q.ptr
        /\ r \in [ptr : Addr, size : ReserveSizes]
    BY <1>0, ReservedOutside
  <2>3. r \notin BlocksOf(heap)
    <3> SUFFICES ASSUME NEW h \in InUse(heap) PROVE BlockOf(heap, h) # r
      BY DEF BlocksOf
    <3> QED BY <1>0, <2>2, OutsideApart
  <2>4. HeldBlocks' = HeldBlocks \ {r} /\ r \in HeldBlocks
    BY <1>1, <2>1, <2>3
  <2>5. r \in [ptr : Addr, size : AllocSizes \cup ReserveSizes]
    BY <2>2
  <2> QED BY <2>4, <2>5, ReturnStep
<1>11. ASSUME NEW p \in Addr, FreeChunk(p) PROVE Abstract!Next
  <2>1. PICK h : h = heap.handles[p]
    OBVIOUS
  <2>2. h \in InUse(heap)
    BY <1>11, <2>1, FreedChunk
  <2>3. heap' = FreeAndMaybeCoalesce(heap, h) /\ reserved' = reserved
    BY <1>11, <2>1 DEF FreeChunk
  <2>4. HeldMinus(heap, heap', h)
    BY <1>0, <2>2, <2>3, FreeKeeps
  <2>5. PICK b : b = BlockOf(heap, h)
    OBVIOUS
  <2>6. /\ reserved \cup BlocksOf(heap') = (reserved \cup BlocksOf(heap)) \ {b}
        /\ b \in BlocksOf(heap) /\ b \in [ptr : Addr, size : AllocSizes]
    <3>1. PICK t : t = heap'
      OBVIOUS
    <3>2. HeldMinus(heap, t, h)
      BY <2>4, <3>1
    <3>3. BlockTaken(heap, t, reserved, b)
      BY <1>0, <2>2, <2>5, <3>2, MinusBlocks
    <3> QED BY <3>1, <3>3 DEF BlockTaken
  <2>7. HeldBlocks' = HeldBlocks \ {b} /\ b \in HeldBlocks
    BY <1>1, <2>3, <2>6
  <2>8. b \in [ptr : Addr, size : AllocSizes \cup ReserveSizes]
    BY <2>6
  <2> QED BY <2>7, <2>8, ReturnStep
<1>12. ASSUME NEW size \in ReserveSizes, ReserveFails(size) PROVE HeldBlocks' = HeldBlocks
  BY <1>2, <1>12 DEF ReserveFails
<1> QED BY <1>4, <1>5, <1>6, <1>7, <1>8, <1>9, <1>10, <1>11, <1>12 DEF Next

\* Nobody holds anything at first.
LEMMA InitImplements == Init => Abstract!Init
<1> SUFFICES ASSUME Init PROVE HeldBlocks = {}
  BY DEF Abstract!Init
<1>1. heap.chunks = <<>> /\ reserved = {}
  BY DEF Init
<1>2. LiveHandles(heap) = {}
  BY <1>1 DEF LiveHandles, Handles
<1> QED BY <1>1, <1>2, HeldBlocksAre DEF BlocksOf, InUse

\* The arena implements the abstract allocator: a block that Alloc or Reserve
\* hands out overlaps none that is held, a held block never moves, and Free
\* takes back the block it is given and no other.
THEOREM ArenaImplementsAllocator == Spec => ImplementsAllocator
<1>1. ArenaInv /\ ArenaInv' /\ [Next]_vars => [Abstract!Next]_HeldBlocks
  BY StepImplements
<1> QED BY <1>1, InitImplements, ArenaInvariant, PTL DEF Spec, ImplementsAllocator, Abstract!Spec
-----------------------------------------------------------------------------
(* The statistics. *)

\* The bytes of the chunks H of a heap.
ChunkBytes(s, H) == UNION {Bytes(s.chunks[k]) : k \in H}

\* The bytes of a block in the address space are as many as its size.
LEMMA BytesAdded ==
    ASSUME NEW A, A \subseteq Addr, NEW b, b.ptr \in Nat, b.size \in Nat,
           b.ptr + b.size <= AddrSpace, \A x \in A : x \notin Bytes(b)
    PROVE  Cardinality(A \cup Bytes(b)) = Cardinality(A) + b.size /\ Cardinality(A) \in Nat
<1>1. PICK p \in Nat, z \in Nat : p = b.ptr /\ z = b.size
  OBVIOUS
<1>2. PICK B : B = p .. p + z - 1
  OBVIOUS
<1>3. B = Bytes(b) /\ A \cap B = {}
  BY <1>1, <1>2 DEF Bytes
<1>4. IsFiniteSet(A)
  <2>1. AddrSpace \in Nat
    BY ArenaConstants
  <2>2. IsFiniteSet(0 .. AddrSpace - 1)
    BY <2>1, FS_Interval
  <2> QED BY <2>2, FS_Subset DEF Addr
<1>5. IsFiniteSet(B) /\ Cardinality(B) = z
  <2>1. p \in Int /\ p + z - 1 \in Int
    OBVIOUS
  <2>2. IsFiniteSet(B) /\ Cardinality(B) = IF p > p + z - 1 THEN 0 ELSE (p + z - 1) - p + 1
    BY <1>2, <2>1, FS_Interval
  <2> QED BY <2>2
<1>6. Cardinality(A) \in Nat
  BY <1>4, FS_CardinalityType
<1>7. Cardinality(A \cup B) = Cardinality(A) + Cardinality(B) - Cardinality(A \cap B)
  BY <1>4, <1>5, FS_Union
<1>8. Cardinality(A \cap B) = 0
  BY <1>3, FS_EmptySet
<1> QED BY <1>1, <1>3, <1>5, <1>6, <1>7, <1>8

\* Blocks that are apart share no byte.
LEMMA BytesApart ==
    ASSUME NEW a, NEW b, a.ptr \in Nat, a.size \in Nat, b.ptr \in Nat, b.size \in Nat,
           BlocksApart(a, b)
    PROVE  \A x \in Bytes(a) : x \notin Bytes(b)
BY DEF BlocksApart, Bytes

\* The bytes of blocks in the address space are addresses.
LEMMA BytesAddr ==
    ASSUME NEW b, b.ptr \in Nat, b.size \in Nat, b.ptr + b.size <= AddrSpace
    PROVE  Bytes(b) \subseteq Addr
BY ArenaConstants DEF Bytes, Addr

\* A chunk in use lies in the address space, apart from the other chunks and
\* from what the device placed outside the regions.
LEMMA ChunkApart ==
    ASSUME NEW s, NEW R, NEW Q, HeapOK(s, R), MemoryOK(R, Q), NEW h \in InUse(s),
           NEW c, c = s.chunks[h]
    PROVE  /\ c.ptr \in Nat /\ c.size \in Nat /\ c.ptr + c.size <= AddrSpace
           /\ \A k \in InUse(s) \ {h} : BlocksApart(s.chunks[k], c)
           /\ \A q \in Q : BlocksApart(q, c)
<1>1. h \in LiveHandles(s) /\ ShapeOK(s) /\ Tiled(s, R) /\ GoodRegions(R)
  BY DEF InUse, HeapOK, MemoryOK, GoodRegions
<1>2. c.ptr \in Nat /\ c.size \in Nat /\ End(s, h) = c.ptr + c.size
  BY <1>1, LiveFields DEF End
<1>3. PICK r \in R : Contains(r, s, h)
  BY <1>1 DEF Tiled, Inside
<1>4. /\ r.ptr \in Nat /\ r.size \in Nat /\ r.ptr + r.size <= AddrSpace
      /\ r.ptr <= c.ptr /\ c.ptr + c.size <= r.ptr + r.size
  BY <1>1, <1>2, <1>3 DEF GoodRegions, Contains
<1>5. c.ptr + c.size <= AddrSpace
  BY <1>2, <1>4, ArenaConstants
<1>6. ASSUME NEW k \in InUse(s) \ {h} PROVE BlocksApart(s.chunks[k], c)
  <2>1. k \in LiveHandles(s) /\ k # h
    BY DEF InUse
  <2>2. End(s, h) <= s.chunks[k].ptr \/ End(s, k) <= s.chunks[h].ptr
    BY <1>1, <2>1 DEF Tiled, ApartIn
  <2> QED BY <2>2 DEF BlocksApart, End
<1>7. ASSUME NEW q \in Q PROVE BlocksApart(q, c)
  <2>1. /\ q.ptr \in Nat /\ q.size \in Nat
        /\ r.ptr + r.size <= q.ptr \/ q.ptr + q.size <= r.ptr
    BY <1>3, ReservedOutside
  <2> QED BY <1>2, <1>4, <2>1 DEF BlocksApart
<1> QED BY <1>2, <1>5, <1>6, <1>7

\* A device block lies in the address space, apart from the others.
LEMMA RegionApart ==
    ASSUME NEW S, GoodRegions(S), NEW r \in S
    PROVE  /\ r.ptr \in Nat /\ r.size \in Nat /\ r.ptr + r.size <= AddrSpace
           /\ \A q \in S \ {r} : BlocksApart(q, r)
BY DEF GoodRegions, BlocksApart

\* The bytes A and those of b are disjoint addresses and together make up T.
Parted(A, b, T) ==
    /\ A \subseteq Addr /\ b.ptr \in Nat /\ b.size \in Nat /\ b.ptr + b.size <= AddrSpace
    /\ \A x \in A : x \notin Bytes(b)
    /\ T = A \cup Bytes(b)

\* The count of the bytes with the block is the count without it and its size.
LEMMA PartedCount ==
    ASSUME NEW A, NEW b, NEW T, Parted(A, b, T)
    PROVE  Cardinality(T) = Cardinality(A) + b.size /\ Cardinality(A) \in Nat /\ b.size \in Nat
BY BytesAdded DEF Parted

\* What clients hold but one chunk, and that chunk.
LEMMA HeldParted ==
    ASSUME NEW s, NEW R, NEW Q, HeapOK(s, R), MemoryOK(R, Q), NEW h \in InUse(s)
    PROVE  Parted(ChunkBytes(s, InUse(s) \ {h}) \cup BytesOf(Q), s.chunks[h],
                  ChunkBytes(s, InUse(s)) \cup BytesOf(Q))
<1>1. PICK c : c = s.chunks[h]
  OBVIOUS
<1>2. /\ c.ptr \in Nat /\ c.size \in Nat /\ c.ptr + c.size <= AddrSpace
      /\ \A k \in InUse(s) \ {h} : BlocksApart(s.chunks[k], c)
      /\ \A q \in Q : BlocksApart(q, c)
  BY <1>1, ChunkApart
<1>3. ASSUME NEW k \in InUse(s) \ {h}
      PROVE  Bytes(s.chunks[k]) \subseteq Addr /\ \A x \in Bytes(s.chunks[k]) : x \notin Bytes(c)
  <2>1. PICK d : d = s.chunks[k]
    OBVIOUS
  <2>2. d.ptr \in Nat /\ d.size \in Nat /\ d.ptr + d.size <= AddrSpace
    BY <2>1, ChunkApart
  <2>3. BlocksApart(d, c)
    BY <1>2, <2>1
  <2> QED BY <1>2, <2>1, <2>2, <2>3, BytesApart, BytesAddr
<1>4. ASSUME NEW q \in Q
      PROVE  Bytes(q) \subseteq Addr /\ \A x \in Bytes(q) : x \notin Bytes(c)
  <2>1. q.ptr \in Nat /\ q.size \in Nat /\ q.ptr + q.size <= AddrSpace
    BY DEF MemoryOK, GoodRegions
  <2>2. BlocksApart(q, c)
    BY <1>2
  <2> QED BY <1>2, <2>1, <2>2, BytesApart, BytesAddr
<1>5. ChunkBytes(s, InUse(s)) = ChunkBytes(s, InUse(s) \ {h}) \cup Bytes(c)
  BY <1>1 DEF ChunkBytes
<1> QED BY <1>1, <1>2, <1>3, <1>4, <1>5 DEF Parted, ChunkBytes, BytesOf

\* What clients hold but one reserved block, and that block.
LEMMA ReservedParted ==
    ASSUME NEW s, NEW R, NEW Q, HeapOK(s, R), MemoryOK(R, Q), NEW r \in Q
    PROVE  Parted(ChunkBytes(s, InUse(s)) \cup BytesOf(Q \ {r}), r,
                  ChunkBytes(s, InUse(s)) \cup BytesOf(Q))
<1>1. GoodRegions(R \cup Q)
  BY DEF MemoryOK
<1>2. /\ r.ptr \in Nat /\ r.size \in Nat /\ r.ptr + r.size <= AddrSpace
      /\ \A q \in Q \ {r} : BlocksApart(q, r)
  <2>1. PICK S : S = R \cup Q
    OBVIOUS
  <2>2. GoodRegions(S) /\ r \in S
    BY <1>1, <2>1
  <2>3. /\ r.ptr \in Nat /\ r.size \in Nat /\ r.ptr + r.size <= AddrSpace
        /\ \A q \in S \ {r} : BlocksApart(q, r)
    BY <2>2, RegionApart
  <2> QED BY <2>1, <2>3
<1>3. ASSUME NEW k \in InUse(s)
      PROVE  Bytes(s.chunks[k]) \subseteq Addr /\ \A x \in Bytes(s.chunks[k]) : x \notin Bytes(r)
  <2>1. PICK d : d = s.chunks[k]
    OBVIOUS
  <2>2. /\ d.ptr \in Nat /\ d.size \in Nat /\ d.ptr + d.size <= AddrSpace
        /\ BlocksApart(r, d)
    BY <2>1, ChunkApart
  <2>3. BlocksApart(d, r)
    BY <2>2 DEF BlocksApart
  <2> QED BY <1>2, <2>1, <2>2, <2>3, BytesApart, BytesAddr
<1>4. ASSUME NEW q \in Q \ {r}
      PROVE  Bytes(q) \subseteq Addr /\ \A x \in Bytes(q) : x \notin Bytes(r)
  <2>1. q.ptr \in Nat /\ q.size \in Nat /\ q.ptr + q.size <= AddrSpace
    BY <1>1, RegionApart
  <2>2. BlocksApart(q, r)
    BY <1>2
  <2> QED BY <1>2, <2>1, <2>2, BytesApart, BytesAddr
<1>5. BytesOf(Q) = BytesOf(Q \ {r}) \cup Bytes(r)
  BY DEF BytesOf
<1> QED BY <1>2, <1>3, <1>4, <1>5 DEF Parted, ChunkBytes, BytesOf

\* What the device placed but one block, and that block.
LEMMA DeviceParted ==
    ASSUME NEW S, GoodRegions(S), NEW r \in S
    PROVE  Parted(BytesOf(S \ {r}), r, BytesOf(S))
<1>1. /\ r.ptr \in Nat /\ r.size \in Nat /\ r.ptr + r.size <= AddrSpace
      /\ \A q \in S \ {r} : BlocksApart(q, r)
  BY RegionApart
<1>2. ASSUME NEW q \in S \ {r}
      PROVE  Bytes(q) \subseteq Addr /\ \A x \in Bytes(q) : x \notin Bytes(r)
  <2>1. q.ptr \in Nat /\ q.size \in Nat /\ q.ptr + q.size <= AddrSpace
    BY RegionApart
  <2>2. BlocksApart(q, r)
    BY <1>1
  <2> QED BY <1>1, <2>1, <2>2, BytesApart, BytesAddr
<1>3. BytesOf(S) = BytesOf(S \ {r}) \cup Bytes(r)
  BY DEF BytesOf
<1> QED BY <1>1, <1>2, <1>3 DEF Parted, BytesOf

\* The statistics, of a heap and of what the device gave out.
InUseExact(s, Q, n) == n = Cardinality(ChunkBytes(s, InUse(s)) \cup BytesOf(Q))
TotalExact(S, n) == n = Cardinality(BytesOf(S))

\* The two statistics are exact, unless a null pointer is on the books.
LEMMA StatsAre ==
    StatsExact <=> (null_reserved = 0 =>
                       /\ InUseExact(heap, reserved, bytes_in_use)
                       /\ TotalExact(regions \cup reserved, total_allocated_bytes))
<1>1. PICK C : C = {Chunk(h) : h \in {g \in Live : Chunk(g).in_use}}
  OBVIOUS
<1>2. C = {heap.chunks[k] : k \in InUse(heap)}
  BY <1>1 DEF Chunk, Live, InUse
<1>3. BytesOf(C \cup reserved) = ChunkBytes(heap, InUse(heap)) \cup BytesOf(reserved)
  BY <1>2 DEF BytesOf, ChunkBytes
<1> QED BY <1>1, <1>3 DEF StatsExact, InUseExact, TotalExact

\* FindChunkPtr counts the chunk it hands out.
LEMMA PlusCounts ==
    ASSUME NEW s, NEW t, NEW R, NEW Q, HeapOK(t, R), MemoryOK(R, Q), NEW h, NEW n,
           HeldPlus(s, t, h, n), NEW m, InUseExact(s, Q, m)
    PROVE  InUseExact(t, Q, m + t.chunks[h].size)
<1>1. h \in InUse(t) /\ InUse(t) \ {h} = InUse(s)
  BY DEF HeldPlus
<1>2. \A k \in InUse(s) : Bytes(t.chunks[k]) = Bytes(s.chunks[k])
  BY DEF HeldPlus, Bytes
<1>3. ChunkBytes(t, InUse(t) \ {h}) = ChunkBytes(s, InUse(s))
  BY <1>1, <1>2 DEF ChunkBytes
<1>4. Parted(ChunkBytes(s, InUse(s)) \cup BytesOf(Q), t.chunks[h],
             ChunkBytes(t, InUse(t)) \cup BytesOf(Q))
  BY <1>1, <1>3, HeldParted
<1> QED BY <1>4, PartedCount DEF InUseExact

\* Freeing a chunk counts it down by its own size.
LEMMA MinusCounts ==
    ASSUME NEW s, NEW t, NEW R, NEW Q, HeapOK(s, R), MemoryOK(R, Q), NEW h \in InUse(s),
           HeldMinus(s, t, h), NEW m, InUseExact(s, Q, m)
    PROVE  InUseExact(t, Q, m - s.chunks[h].size)
<1>1. InUse(t) = InUse(s) \ {h}
  BY DEF HeldMinus
<1>2. \A k \in InUse(t) : Bytes(t.chunks[k]) = Bytes(s.chunks[k])
  BY DEF HeldMinus, Bytes
<1>3. ChunkBytes(s, InUse(s) \ {h}) = ChunkBytes(t, InUse(t))
  BY <1>1, <1>2 DEF ChunkBytes
<1>4. Parted(ChunkBytes(t, InUse(t)) \cup BytesOf(Q), s.chunks[h],
             ChunkBytes(s, InUse(s)) \cup BytesOf(Q))
  BY <1>3, HeldParted
<1> QED BY <1>4, PartedCount DEF InUseExact

\* The same chunks in use are the same bytes.
LEMMA SameCounts ==
    ASSUME NEW s, NEW t, SameHeld(s, t), NEW Q, NEW m, InUseExact(s, Q, m)
    PROVE  InUseExact(t, Q, m)
<1>1. InUse(t) = InUse(s) /\ \A k \in InUse(s) : Bytes(t.chunks[k]) = Bytes(s.chunks[k])
  BY DEF SameHeld, Bytes
<1>2. ChunkBytes(t, InUse(t)) = ChunkBytes(s, InUse(s))
  BY <1>1 DEF ChunkBytes
<1> QED BY <1>2 DEF InUseExact

\* A block that the device places is counted as allocated.
LEMMA PlacedCounts ==
    ASSUME NEW S, NEW r, r \notin S, GoodRegions(S \cup {r}), NEW m, TotalExact(S, m)
    PROVE  TotalExact(S \cup {r}, m + r.size)
<1>1. PICK T : T = S \cup {r}
  OBVIOUS
<1>2. r \in T /\ T \ {r} = S
  BY <1>1
<1>3. Parted(BytesOf(S), r, BytesOf(T))
  BY <1>1, <1>2, DeviceParted
<1> QED BY <1>1, <1>3, PartedCount DEF TotalExact

\* Every step keeps the statistics exact.
LEMMA StepStats ==
    ASSUME ArenaInv, ArenaInv', StatsExact, [Next]_vars
    PROVE  StatsExact'
<1>0. /\ HeapOK(heap, regions) /\ MemoryOK(regions, reserved) /\ GoodRegions(regions)
      /\ HeapOK(heap', regions') /\ MemoryOK(regions', reserved') /\ GoodRegions(regions')
      /\ GoodRegions(regions \cup reserved) /\ GoodRegions(regions' \cup reserved')
  BY DEF ArenaInv, MemoryOK, GoodRegions
<1> SUFFICES ASSUME null_reserved' = 0
             PROVE  /\ InUseExact(heap', reserved', bytes_in_use')
                    /\ TotalExact(regions' \cup reserved', total_allocated_bytes')
  <2>1. (StatsExact <=> (null_reserved = 0 =>
                            /\ InUseExact(heap, reserved, bytes_in_use)
                            /\ TotalExact(regions \cup reserved, total_allocated_bytes)))'
    BY StatsAre, PTL
  <2> QED BY <2>1
\* The entry for nullptr is never taken off the books.
<1>1. /\ InUseExact(heap, reserved, bytes_in_use)
      /\ TotalExact(regions \cup reserved, total_allocated_bytes)
  <2>1. null_reserved = 0
    BY DEF Next, vars, AllocFromBins, AllocExtends, ExtendGrow, ExtendFirstTry, DeviceDelivers,
           DeviceFails, DeviceThrows, Reserve, ReserveFails, FreeReserved, FreeChunk
  <2> QED BY <2>1, StatsAre
\* Most steps change none of this.
<1>2. ASSUME UNCHANGED <<heap, regions, reserved, bytes_in_use, total_allocated_bytes>>
      PROVE  /\ InUseExact(heap', reserved', bytes_in_use')
             /\ TotalExact(regions' \cup reserved', total_allocated_bytes')
  BY <1>1, <1>2
<1>3. CASE UNCHANGED vars
  BY <1>2, <1>3 DEF vars
<1>4. ASSUME NEW n \in AllocSizes, AllocFromBins(n)
      PROVE  /\ InUseExact(heap', reserved', bytes_in_use')
             /\ TotalExact(regions' \cup reserved', total_allocated_bytes')
  <2>1. PICK rounded \in Nat : rounded = RoundedBytes(n) /\ 0 < rounded /\ n <= rounded
    BY RequestFacts
  <2>2. PICK h : h = FirstFit(heap, rounded)
    OBVIOUS
  <2>3. PICK t : t = Take(heap, h, rounded, n)
    OBVIOUS
  <2>4. /\ Fitting(heap, rounded) # {} /\ heap' = t /\ bytes_in_use' = bytes_in_use + t.chunks[h].size
        /\ reserved' = reserved /\ regions' = regions
        /\ total_allocated_bytes' = total_allocated_bytes
    BY <1>4, <2>1, <2>2, <2>3 DEF AllocFromBins, Grant
  <2>5. HeapOK(t, regions) /\ HeldPlus(heap, t, h, n)
    BY <1>0, <2>1, <2>2, <2>3, <2>4, GrantKeeps
  <2>6. InUseExact(t, reserved, bytes_in_use + t.chunks[h].size)
    BY <1>0, <1>1, <2>5, PlusCounts
  <2> QED BY <1>1, <2>4, <2>6
<1>5. ASSUME NEW n \in AllocSizes, AllocExtends(n)
      PROVE  UNCHANGED <<heap, regions, reserved, bytes_in_use, total_allocated_bytes>>
  BY <1>5 DEF AllocExtends
<1>6. CASE ExtendGrow \/ ExtendFirstTry \/ DeviceFails \/ DeviceThrows
  BY <1>2, <1>6 DEF ExtendGrow, ExtendFirstTry, DeviceFails, DeviceThrows
<1>7. ASSUME NEW base \in DeviceBases, DeviceDelivers(base)
      PROVE  /\ InUseExact(heap', reserved', bytes_in_use')
             /\ TotalExact(regions' \cup reserved', total_allocated_bytes')
  <2>1. PICK n \in AllocSizes, rounded \in Nat, bytes \in Nat \ {0} :
           /\ n = req.num_bytes /\ rounded = req.rounded /\ bytes = req.bytes
           /\ 0 < rounded /\ n <= rounded
    BY <1>7, DeliveredRequest
  <2>2. PICK grown : grown = AddRegion(heap, base, bytes)
    OBVIOUS
  <2>3. PICK r0 : r0 = [ptr |-> base, size |-> bytes]
    OBVIOUS
  <2>4. HeapOK(grown, regions') /\ SameHeld(heap, grown)
    BY <1>7, <2>1, <2>2, DeliveredHeap
  <2>5. /\ regions' = regions \cup {r0} /\ reserved' = reserved
        /\ r0 \notin regions \cup reserved
        /\ GoodRegions((regions \cup reserved) \cup {r0})
    BY <1>7, <2>1, <2>3, DeliveredPlace DEF PlacedApart
  <2>6. InUseExact(grown, reserved, bytes_in_use)
    BY <1>1, <2>4, SameCounts
  <2>7. TotalExact(regions' \cup reserved', total_allocated_bytes')
    <3>1. PICK S : S = regions \cup reserved
      OBVIOUS
    <3>2. TotalExact(S \cup {r0}, total_allocated_bytes + r0.size)
      BY <1>1, <2>5, <3>1, PlacedCounts
    <3>3. regions' \cup reserved' = S \cup {r0}
      BY <2>5, <3>1
    <3>4. total_allocated_bytes' = total_allocated_bytes + r0.size
      BY <1>7, <2>1, <2>3 DEF DeviceDelivers
    <3> QED BY <3>2, <3>3, <3>4
  <2>8. InUseExact(heap', reserved', bytes_in_use')
    <3>1. CASE Fitting(grown, rounded) # {}
      <4>1. PICK h : h = FirstFit(grown, rounded)
        OBVIOUS
      <4>2. PICK t : t = Take(grown, h, rounded, n)
        OBVIOUS
      <4>3. heap' = t /\ bytes_in_use' = bytes_in_use + t.chunks[h].size
        BY <1>7, <2>1, <2>2, <3>1, <4>1, <4>2 DEF DeviceDelivers, Grant
      <4>4. HeapOK(t, regions') /\ HeldPlus(grown, t, h, n)
        BY <1>0, <2>1, <2>4, <3>1, <4>1, <4>2, GrantKeeps
      <4>5. MemoryOK(regions', reserved)
        BY <1>0, <2>5
      <4>6. InUseExact(t, reserved, bytes_in_use + t.chunks[h].size)
        BY <2>6, <4>4, <4>5, PlusCounts
      <4> QED BY <2>5, <4>3, <4>6
    <3>2. CASE Fitting(grown, rounded) = {}
      <4>1. heap' = grown /\ bytes_in_use' = bytes_in_use
        BY <1>7, <2>1, <2>2, <3>2 DEF DeviceDelivers
      <4> QED BY <2>5, <2>6, <4>1
    <3> QED BY <3>1, <3>2
  <2> QED BY <2>7, <2>8
<1>8. ASSUME NEW size \in ReserveSizes, NEW base \in DeviceBases, Reserve(size, base)
      PROVE  /\ InUseExact(heap', reserved', bytes_in_use')
             /\ TotalExact(regions' \cup reserved', total_allocated_bytes')
  <2>1. PICK r0 : r0 = [ptr |-> base, size |-> size]
    OBVIOUS
  <2>2. /\ reserved' = reserved \cup {r0} /\ heap' = heap /\ regions' = regions
        /\ bytes_in_use' = bytes_in_use + r0.size
        /\ total_allocated_bytes' = total_allocated_bytes + r0.size
        /\ \A r \in regions \cup reserved : base + size <= r.ptr \/ r.ptr + r.size <= base
        /\ base + size <= AddrSpace
    BY <1>8, <2>1 DEF Reserve, DevicePlaces
  <2>3. r0 \notin regions \cup reserved
    <3>1. FreePlace(regions, reserved, base, size)
      BY <2>2 DEF FreePlace
    <3>2. size \in Nat \ {0}
      BY ArenaConstants
    <3>3. PlacedApart(regions, reserved, base, r0)
      BY <1>0, <2>1, <3>1, <3>2, PlaceFacts
    <3> QED BY <3>3 DEF PlacedApart
  <2>4. PICK Q : Q = reserved \cup {r0}
    OBVIOUS
  <2>5. Q \ {r0} = reserved /\ r0 \in Q
    BY <2>3, <2>4
  <2>6. HeapOK(heap, regions) /\ MemoryOK(regions, Q)
    BY <1>0, <2>2, <2>4
  <2>7. Parted(ChunkBytes(heap, InUse(heap)) \cup BytesOf(reserved), r0,
               ChunkBytes(heap, InUse(heap)) \cup BytesOf(Q))
    BY <2>5, <2>6, ReservedParted
  <2>8. InUseExact(heap, Q, bytes_in_use + r0.size)
    BY <1>1, <2>7, PartedCount DEF InUseExact
  <2>9. TotalExact(regions \cup Q, total_allocated_bytes + r0.size)
    <3>1. PICK S : S = regions \cup reserved
      OBVIOUS
    <3>2. regions \cup Q = S \cup {r0} /\ r0 \notin S /\ GoodRegions(S \cup {r0})
      BY <2>3, <2>4, <2>6, <3>1 DEF MemoryOK
    <3>3. TotalExact(S, total_allocated_bytes)
      BY <1>1, <3>1
    <3>4. TotalExact(S \cup {r0}, total_allocated_bytes + r0.size)
      BY <3>2, <3>3, PlacedCounts
    <3> QED BY <3>2, <3>4
  <2> QED BY <2>2, <2>4, <2>8, <2>9
<1>9. ASSUME NEW r \in reserved, FreeReserved(r)
      PROVE  /\ InUseExact(heap', reserved', bytes_in_use')
             /\ TotalExact(regions' \cup reserved', total_allocated_bytes')
  <2>1. /\ reserved' = reserved \ {r} /\ heap' = heap /\ regions' = regions
        /\ bytes_in_use' = bytes_in_use - r.size
        /\ total_allocated_bytes' = total_allocated_bytes - r.size
    BY <1>9 DEF FreeReserved
  <2>2. Parted(ChunkBytes(heap, InUse(heap)) \cup BytesOf(reserved \ {r}), r,
               ChunkBytes(heap, InUse(heap)) \cup BytesOf(reserved))
    BY <1>0, ReservedParted
  <2>3. InUseExact(heap, reserved \ {r}, bytes_in_use - r.size)
    BY <1>1, <2>2, PartedCount DEF InUseExact
  <2>4. PICK S : S = regions \cup reserved
    OBVIOUS
  <2>5. r \in S /\ GoodRegions(S) /\ TotalExact(S, total_allocated_bytes)
    BY <1>0, <1>1, <2>4
  <2>6. regions \cup (reserved \ {r}) = S \ {r}
    BY <1>0, <2>4 DEF MemoryOK
  <2>7. Parted(BytesOf(S \ {r}), r, BytesOf(S))
    BY <2>5, DeviceParted
  <2>8. TotalExact(S \ {r}, total_allocated_bytes - r.size)
    BY <2>5, <2>7, PartedCount DEF TotalExact
  <2> QED BY <2>1, <2>3, <2>6, <2>8
<1>10. ASSUME NEW p \in Addr, FreeChunk(p)
      PROVE  /\ InUseExact(heap', reserved', bytes_in_use')
             /\ TotalExact(regions' \cup reserved', total_allocated_bytes')
  <2>1. PICK h : h = heap.handles[p]
    OBVIOUS
  <2>2. PICK t : t = FreeAndMaybeCoalesce(heap, h)
    OBVIOUS
  <2>3. h \in InUse(heap)
    BY <1>10, <2>1, FreedChunk
  <2>4. /\ heap' = t /\ bytes_in_use' = bytes_in_use - heap.chunks[h].size
        /\ reserved' = reserved /\ regions' = regions
        /\ total_allocated_bytes' = total_allocated_bytes
    BY <1>10, <2>1, <2>2 DEF FreeChunk
  <2>5. HeldMinus(heap, t, h)
    BY <1>0, <2>2, <2>3, FreeKeeps
  <2>6. InUseExact(t, reserved, bytes_in_use - heap.chunks[h].size)
    BY <1>0, <1>1, <2>3, <2>5, MinusCounts
  <2> QED BY <1>1, <2>4, <2>6
<1>11. ASSUME NEW size \in ReserveSizes, ReserveFails(size) PROVE FALSE
  <2>1. null_reserved' = size /\ size # 0
    BY <1>11, ArenaConstants DEF ReserveFails
  <2> QED BY <2>1
<1> QED BY <1>2, <1>3, <1>4, <1>5, <1>6, <1>7, <1>8, <1>9, <1>10, <1>11 DEF Next

\* At first nothing is held and nothing obtained.
LEMMA InitStats == Init => StatsExact
<1> SUFFICES ASSUME Init PROVE StatsExact
  OBVIOUS
<1>1. /\ heap.chunks = <<>> /\ reserved = {} /\ regions = {}
      /\ bytes_in_use = 0 /\ total_allocated_bytes = 0
  BY DEF Init
<1>2. InUse(heap) = {}
  BY <1>1 DEF InUse, LiveHandles, Handles
<1>3. ChunkBytes(heap, InUse(heap)) \cup BytesOf(reserved) = {} /\ BytesOf(regions \cup reserved) = {}
  BY <1>1, <1>2 DEF ChunkBytes, BytesOf
<1>4. Cardinality({}) = 0
  BY FS_EmptySet
<1>5. /\ InUseExact(heap, reserved, bytes_in_use)
      /\ TotalExact(regions \cup reserved, total_allocated_bytes)
  BY <1>1, <1>3, <1>4 DEF InUseExact, TotalExact
<1> QED BY <1>5, StatsAre

\* stats_ is exact whatever is allocated, reserved and freed, in any order and
\* whatever Alloc's device requests come to: bytes_in_use counts the bytes of
\* the chunks and blocks that clients hold, total_allocated_bytes those that
\* the device has given out.  The one event that ends this is a null pointer
\* that the device gives to Reserve.
THEOREM AlwaysStatsExact == Spec => []StatsExact
<1>1. StatsExact /\ ArenaInv /\ ArenaInv' /\ [Next]_vars => StatsExact'
  BY StepStats
<1> QED BY <1>1, InitStats, ArenaInvariant, PTL DEF Spec
=============================================================================
