---------------------------- MODULE BFCHeapProofs ----------------------------
(***************************************************************************)
(* The heap of BFCArena: what it means for it to be well formed, and that  *)
(* the private helpers of the arena keep it so.                            *)
(***************************************************************************)
EXTENDS BFCArena, SequenceTheorems, WellFoundedInduction, TLAPS

\* What a heap is made of, whatever its chunks say of each other.
HeapType == [chunks : Seq(ChunkType), free_list : Seq(Nat),
             bins : [BinNum -> SUBSET Nat], handles : [Addr -> Nat]]

\* The first byte after chunk h.
End(s, h) == s.chunks[h].ptr + s.chunks[h].size

\* The dead handles are chunks, and none is in the list twice.
FreeListOK(s) ==
    /\ \A i \in DOMAIN s.free_list : s.free_list[i] \in Handles(s)
    /\ \A i, j \in DOMAIN s.free_list : s.free_list[i] = s.free_list[j] => i = j

\* The chunk vector, the list of dead handles, the bins and the map have their types.
ShapeOK(s) == s \in HeapType /\ FreeListOK(s)

-----------------------------------------------------------------------------
(* Sequences and records. *)

\* A handle is put in front of the list of dead chunks.
LEMMA PushFacts ==
    ASSUME NEW q \in Seq(Nat), NEW h \in Nat
    PROVE  /\ <<h>> \o q \in Seq(Nat)
           /\ Len(<<h>> \o q) = Len(q) + 1
           /\ (<<h>> \o q)[1] = h
           /\ \A i \in 1 .. Len(q) : (<<h>> \o q)[i + 1] = q[i]
OBVIOUS

\* DeallocateChunk puts a live handle in front of the list: the list still names no
\* handle twice.
LEMMA PushedInjective ==
    ASSUME NEW q \in Seq(Nat), NEW h \in Nat, NEW p \in Seq(Nat), p = <<h>> \o q,
           \A i \in DOMAIN q : q[i] # h,
           \A i, j \in DOMAIN q : q[i] = q[j] => i = j
    PROVE  /\ {p[i] : i \in DOMAIN p} = {q[i] : i \in DOMAIN q} \cup {h}
           /\ \A i, j \in DOMAIN p : p[i] = p[j] => i = j
<1>1. DOMAIN q = 1 .. Len(q) /\ DOMAIN p = 1 .. Len(q) + 1 /\ Len(q) \in Nat
  BY PushFacts
<1>2. p[1] = h /\ \A i \in 1 .. Len(q) : p[i + 1] = q[i]
  BY PushFacts
<1>3. \A i \in DOMAIN p : i = 1 \/ (i - 1 \in DOMAIN q /\ p[i] = q[i - 1])
  BY <1>1, <1>2
<1>4. \A i, j \in DOMAIN p : p[i] = p[j] => i = j
  BY <1>1, <1>2, <1>3
<1>5. \A x : x \in {p[i] : i \in DOMAIN p} <=> x \in {q[i] : i \in DOMAIN q} \cup {h}
  <2> TAKE x
  <2>1. ASSUME NEW i \in DOMAIN p, x = p[i]
        PROVE  x \in {q[k] : k \in DOMAIN q} \cup {h}
    BY <1>2, <1>3, <2>1
  <2>2. ASSUME NEW i \in DOMAIN q, x = q[i]
        PROVE  i + 1 \in DOMAIN p /\ x = p[i + 1]
    BY <1>1, <1>2, <2>2
  <2>3. 1 \in DOMAIN p
    BY <1>1
  <2> QED BY <1>2, <2>1, <2>2, <2>3
<1> QED BY <1>4, <1>5

\* A handle is taken from the front of the list.
LEMMA PopFacts ==
    ASSUME NEW q \in Seq(Nat), q # <<>>,
           \A i, j \in DOMAIN q : q[i] = q[j] => i = j
    PROVE  /\ Tail(q) \in Seq(Nat)
           /\ Head(q) \in {q[i] : i \in DOMAIN q}
           /\ {Tail(q)[i] : i \in DOMAIN Tail(q)} = {q[i] : i \in DOMAIN q} \ {Head(q)}
           /\ \A i, j \in DOMAIN Tail(q) : Tail(q)[i] = Tail(q)[j] => i = j
<1>1. Len(q) \in Nat \ {0} /\ DOMAIN q = 1 .. Len(q) /\ Head(q) = q[1]
  OBVIOUS
<1>2. Tail(q) \in Seq(Nat) /\ DOMAIN Tail(q) = 1 .. Len(q) - 1
  BY <1>1
<1>3. \A i \in 1 .. Len(q) - 1 : Tail(q)[i] = q[i + 1]
  BY <1>1
<1>4. PICK p : p = Tail(q)
  OBVIOUS
<1>5. \A i, j \in DOMAIN p : p[i] = p[j] => i = j
  BY <1>1, <1>2, <1>3, <1>4
<1>6. \A x : x \in {p[i] : i \in DOMAIN p} <=> x \in {q[i] : i \in DOMAIN q} \ {q[1]}
  <2> TAKE x
  <2>1. ASSUME NEW i \in DOMAIN p, x = p[i]
        PROVE  x \in {q[k] : k \in DOMAIN q} \ {q[1]}
    <3>1. i + 1 \in DOMAIN q /\ x = q[i + 1] /\ i + 1 # 1 /\ 1 \in DOMAIN q
      BY <1>1, <1>2, <1>3, <1>4, <2>1
    <3> QED BY <3>1
  <2>2. ASSUME NEW i \in DOMAIN q, x = q[i], x # q[1]
        PROVE  i - 1 \in DOMAIN p /\ x = p[i - 1]
    BY <1>1, <1>2, <1>3, <1>4, <2>2
  <2> QED BY <2>1, <2>2
<1> QED BY <1>1, <1>2, <1>4, <1>5, <1>6

\* One chunk of the sequence is replaced.
LEMMA ChunkSet ==
    ASSUME NEW q \in Seq(ChunkType), NEW h \in 1 .. Len(q), NEW c \in ChunkType
    PROVE  /\ [q EXCEPT ![h] = c] \in Seq(ChunkType)
           /\ Len([q EXCEPT ![h] = c]) = Len(q)
           /\ [q EXCEPT ![h] = c][h] = c
           /\ \A g \in 1 .. Len(q) : g # h => [q EXCEPT ![h] = c][g] = q[g]
OBVIOUS

\* The fields of a chunk.
LEMMA ChunkFields ==
    ASSUME NEW c \in ChunkType
    PROVE  /\ c.ptr \in Nat /\ c.size \in Nat /\ c.requested_size \in Nat
           /\ c.prev \in Nat /\ c.next \in Nat
           /\ c.bin_num \in BinNum \cup {kInvalidBinNum}
BY DEF ChunkType

\* The parts of a heap.
LEMMA HeapFields ==
    ASSUME NEW s \in HeapType
    PROVE  /\ s.chunks \in Seq(ChunkType) /\ s.free_list \in Seq(Nat)
           /\ s.bins \in [BinNum -> SUBSET Nat] /\ s.handles \in [Addr -> Nat]
           /\ \A h \in Handles(s) : s.chunks[h] \in ChunkType /\ h \in Nat \ {0}
BY DEF HeapType, Handles

-----------------------------------------------------------------------------
(* Size classes. *)

\* A set of naturals has a least element.
LEMMA NatMin ==
    ASSUME NEW T, T \subseteq Nat, T # {}
    PROVE  \E x \in T : \A y \in T : x <= y
<1>1. PICK R : R = OpToRel(<, Nat)
  OBVIOUS
<1>2. \A x, y \in Nat : x < y => <<x, y>> \in R
  BY <1>1 DEF OpToRel
<1>3. IsWellFoundedOn(R, Nat)
  BY <1>1, NatLessThanWellFounded
<1>4. PICK x \in T : \A y \in T : ~(<<y, x>> \in R)
  BY <1>3, WFMin
<1>5. \A y \in T : ~(y < x)
  BY <1>2, <1>4
<1> QED BY <1>5

\* Division by a positive number.
LEMMA DivFacts ==
    ASSUME NEW x \in Nat, NEW y \in Nat \ {0}
    PROVE  x \div y \in Nat /\ y * (x \div y) <= x /\ x < y * (x \div y) + y
OBVIOUS

\* How many allocation units BinNumForSize counts, and the bins whose upper bound is
\* beyond them: the bin of a size is the least of these.
Units(bytes) == Larger(bytes, kMinAllocationSize) \div kMinAllocationSize
Holding(bytes) == {b \in BinNum : b = kNumBins - 1 \/ Units(bytes) < 2 ^ (b + 1)}

\* More bytes are no fewer units.
LEMMA UnitsMonotone ==
    ASSUME NEW m \in Nat, NEW n \in Nat, m <= n
    PROVE  Units(m) \in Nat /\ Units(n) \in Nat /\ Units(m) <= Units(n)
<1>1. PICK k \in Nat \ {0} : k = kMinAllocationSize
  BY ArenaConstants
<1>2. PICK x \in Nat, y \in Nat : x = Larger(m, k) /\ y = Larger(n, k) /\ x <= y
  BY <1>1 DEF Larger
<1>3. PICK u \in Nat, v \in Nat : u = x \div k /\ v = y \div k
  BY DivFacts
<1>4. k * u <= x /\ y < k * v + k
  BY <1>3, DivFacts
<1>5. k * u < k * (v + 1)
  BY <1>2, <1>3, <1>4
<1>6. u < v + 1
  BY <1>5
<1> QED BY <1>1, <1>2, <1>3, <1>6 DEF Units

\* BinNumForSize gives a bin, and the smallest one for the size.
LEMMA BinLeast ==
    ASSUME NEW n \in Nat
    PROVE  /\ BinNumForSize(n) \in Holding(n)
           /\ \A b \in Holding(n) : BinNumForSize(n) <= b
           /\ BinNumForSize(n) \in BinNum
<1>1. Holding(n) \subseteq Nat /\ Holding(n) \subseteq BinNum
  BY DEF Holding, BinNum
<1>2. kNumBins - 1 \in Holding(n)
  BY ArenaConstants DEF Holding, BinNum
<1>3. \E x \in Holding(n) : \A y \in Holding(n) : x <= y
  BY <1>1, <1>2, NatMin
<1>4. BinNumForSize(n) = CHOOSE b \in Holding(n) : \A other \in Holding(n) : b <= other
  BY DEF BinNumForSize, Holding, Units
<1>5. BinNumForSize(n) \in Holding(n) /\ \A b \in Holding(n) : BinNumForSize(n) <= b
  BY <1>3, <1>4
<1> QED BY <1>1, <1>5

\* A larger size is in no lower bin.
LEMMA BinMonotone ==
    ASSUME NEW m \in Nat, NEW n \in Nat, m <= n
    PROVE  BinNumForSize(m) <= BinNumForSize(n)
<1>1. Units(m) \in Nat /\ Units(n) \in Nat /\ Units(m) <= Units(n)
  BY UnitsMonotone
<1>2. Holding(n) \subseteq Holding(m)
  <2> SUFFICES ASSUME NEW b \in Holding(n), b # kNumBins - 1 PROVE b \in Holding(m)
    BY DEF Holding
  <2>1. b \in BinNum /\ b \in Nat /\ Units(n) < 2 ^ (b + 1)
    BY DEF Holding, BinNum
  <2>2. Units(m) < 2 ^ (b + 1)
    BY <1>1, <2>1
  <2> QED BY <2>1, <2>2 DEF Holding
<1> QED BY <1>2, BinLeast

-----------------------------------------------------------------------------
(* What the helpers do, field by field. *)

\* InsertFreeChunkIntoBin.
LEMMA InsertFacts ==
    ASSUME NEW s, ShapeOK(s), NEW h \in Handles(s), NEW t, t = InsertFreeChunkIntoBin(s, h)
    PROVE  /\ ShapeOK(t) /\ Handles(t) = Handles(s) /\ LiveHandles(t) = LiveHandles(s)
           /\ t.handles = s.handles /\ t.free_list = s.free_list
           /\ t.chunks[h] = [s.chunks[h] EXCEPT !.bin_num = BinNumForSize(s.chunks[h].size)]
           /\ \A g \in Handles(s) : g # h => t.chunks[g] = s.chunks[g]
           /\ t.bins = [s.bins EXCEPT ![BinNumForSize(s.chunks[h].size)] = @ \cup {h}]
<1>1. s \in HeapType /\ s.chunks[h] \in ChunkType /\ h \in Nat /\ h \in 1 .. Len(s.chunks)
  BY HeapFields DEF ShapeOK, Handles
<1>2. PICK b \in BinNum : b = BinNumForSize(s.chunks[h].size)
  BY <1>1, ChunkFields, BinLeast
<1>3. PICK c : c = [s.chunks[h] EXCEPT !.bin_num = b]
  OBVIOUS
<1>4. c \in ChunkType
  BY <1>1, <1>3 DEF ChunkType
<1>5. t = [s EXCEPT !.chunks[h].bin_num = b, !.bins[b] = @ \cup {h}]
  BY <1>2 DEF InsertFreeChunkIntoBin
<1>6. /\ t.chunks = [s.chunks EXCEPT ![h] = c]
      /\ t.free_list = s.free_list
      /\ t.bins = [s.bins EXCEPT ![b] = @ \cup {h}]
      /\ t.handles = s.handles
  BY <1>1, <1>3, <1>5 DEF HeapType
<1>7. t.chunks \in Seq(ChunkType) /\ Len(t.chunks) = Len(s.chunks)
  BY <1>1, <1>4, <1>6, ChunkSet, HeapFields
<1>8. t.bins \in [BinNum -> SUBSET Nat]
  BY <1>1, <1>6, HeapFields
<1>9. t \in HeapType
  BY <1>1, <1>5, <1>7, <1>8, <1>6 DEF HeapType
<1>10. Handles(t) = Handles(s) /\ LiveHandles(t) = LiveHandles(s)
  BY <1>6, <1>7 DEF Handles, LiveHandles, DeadHandles
<1>11. FreeListOK(t)
  BY <1>6, <1>10 DEF FreeListOK, ShapeOK
<1>12. t.chunks[h] = c /\ \A g \in Handles(s) : g # h => t.chunks[g] = s.chunks[g]
  BY <1>1, <1>4, <1>6, ChunkSet, HeapFields DEF Handles
<1> QED BY <1>2, <1>3, <1>6, <1>9, <1>10, <1>11, <1>12 DEF ShapeOK

\* RemoveFreeChunkFromBin.
LEMMA RemoveFacts ==
    ASSUME NEW s, ShapeOK(s), NEW h \in Handles(s), s.chunks[h].bin_num \in BinNum,
           NEW t, t = RemoveFreeChunkFromBin(s, h)
    PROVE  /\ ShapeOK(t) /\ Handles(t) = Handles(s) /\ LiveHandles(t) = LiveHandles(s)
           /\ t.handles = s.handles /\ t.free_list = s.free_list
           /\ t.chunks[h] = [s.chunks[h] EXCEPT !.bin_num = kInvalidBinNum]
           /\ \A g \in Handles(s) : g # h => t.chunks[g] = s.chunks[g]
           /\ t.bins = [s.bins EXCEPT ![s.chunks[h].bin_num] = @ \ {h}]
<1>1. s \in HeapType /\ s.chunks[h] \in ChunkType /\ h \in Nat /\ h \in 1 .. Len(s.chunks)
  BY HeapFields DEF ShapeOK, Handles
<1>2. PICK b \in BinNum : b = s.chunks[h].bin_num
  OBVIOUS
<1>3. PICK c : c = [s.chunks[h] EXCEPT !.bin_num = kInvalidBinNum]
  OBVIOUS
<1>4. c \in ChunkType
  BY <1>1, <1>3 DEF ChunkType
<1>5. t = [s EXCEPT !.bins[b] = @ \ {h}, !.chunks[h].bin_num = kInvalidBinNum]
  BY <1>2 DEF RemoveFreeChunkFromBin
<1>6. /\ t.chunks = [s.chunks EXCEPT ![h] = c]
      /\ t.free_list = s.free_list
      /\ t.bins = [s.bins EXCEPT ![b] = @ \ {h}]
      /\ t.handles = s.handles
  BY <1>1, <1>3, <1>5 DEF HeapType
<1>7. t.chunks \in Seq(ChunkType) /\ Len(t.chunks) = Len(s.chunks)
  BY <1>1, <1>4, <1>6, ChunkSet, HeapFields
<1>8. t.bins \in [BinNum -> SUBSET Nat]
  BY <1>1, <1>6, HeapFields
<1>9. t \in HeapType
  BY <1>1, <1>5, <1>7, <1>8, <1>6 DEF HeapType
<1>10. Handles(t) = Handles(s) /\ LiveHandles(t) = LiveHandles(s)
  BY <1>6, <1>7 DEF Handles, LiveHandles, DeadHandles
<1>11. FreeListOK(t)
  BY <1>6, <1>10 DEF FreeListOK, ShapeOK
<1>12. t.chunks[h] = c /\ \A g \in Handles(s) : g # h => t.chunks[g] = s.chunks[g]
  BY <1>1, <1>4, <1>6, ChunkSet, HeapFields DEF Handles
<1> QED BY <1>2, <1>3, <1>6, <1>9, <1>10, <1>11, <1>12 DEF ShapeOK

\* The chunk that AllocateChunk appends.
LEMMA NewChunkType == NewChunk \in ChunkType
BY DEF NewChunk, ChunkType, kInvalidChunkHandle

\* A live handle is an index of the vector and is not in the list of dead ones.
LEMMA LiveAreHandles ==
    ASSUME NEW s
    PROVE  LiveHandles(s) \subseteq Handles(s) /\ DeadHandles(s) \cap LiveHandles(s) = {}
BY DEF LiveHandles

\* AllocateChunk: a handle that was dead, or a new one.
LEMMA AllocateFacts ==
    ASSUME NEW s, ShapeOK(s), NEW t, t = AllocateChunk(s), NEW g, g = NextHandle(s)
    PROVE  /\ ShapeOK(t) /\ Handles(t) = Handles(s) \cup {g}
           /\ LiveHandles(t) = LiveHandles(s) \cup {g} /\ g \notin LiveHandles(s)
           /\ t.handles = s.handles /\ t.bins = s.bins
           /\ \A k \in Handles(s) : t.chunks[k] = s.chunks[k]
           /\ g \notin Handles(s) => t.chunks[g] = NewChunk
<1>1. s \in HeapType /\ FreeListOK(s)
  BY DEF ShapeOK
<1>2. s.chunks \in Seq(ChunkType) /\ s.free_list \in Seq(Nat) /\ Len(s.chunks) \in Nat
  BY <1>1, HeapFields
<1>3. CASE s.free_list # <<>>
  <2>1. t = [s EXCEPT !.free_list = Tail(@)] /\ g = Head(s.free_list)
    BY <1>3 DEF AllocateChunk, NextHandle
  <2>2. /\ t.chunks = s.chunks /\ t.handles = s.handles /\ t.bins = s.bins
        /\ t.free_list = Tail(s.free_list)
    BY <1>1, <2>1 DEF HeapType
  <2>3. /\ Tail(s.free_list) \in Seq(Nat)
        /\ g \in DeadHandles(s)
        /\ DeadHandles(t) = DeadHandles(s) \ {g}
        /\ \A i, j \in DOMAIN t.free_list : t.free_list[i] = t.free_list[j] => i = j
    <3>1. PICK q \in Seq(Nat) : q = s.free_list /\ q # <<>>
      BY <1>2, <1>3
    <3>2. \A i, j \in DOMAIN q : q[i] = q[j] => i = j
      BY <1>1, <3>1 DEF FreeListOK
    <3>3. /\ Tail(q) \in Seq(Nat)
          /\ Head(q) \in {q[i] : i \in DOMAIN q}
          /\ {Tail(q)[i] : i \in DOMAIN Tail(q)} = {q[i] : i \in DOMAIN q} \ {Head(q)}
          /\ \A i, j \in DOMAIN Tail(q) : Tail(q)[i] = Tail(q)[j] => i = j
      BY <3>1, <3>2, PopFacts
    <3>4. t.free_list = Tail(q) /\ g = Head(q)
      BY <2>1, <2>2, <3>1
    <3>5. DeadHandles(s) = {q[i] : i \in DOMAIN q}
      BY <3>1 DEF DeadHandles
    <3>6. DeadHandles(t) = {Tail(q)[i] : i \in DOMAIN Tail(q)}
      BY <3>4 DEF DeadHandles
    <3> QED BY <3>1, <3>3, <3>4, <3>5, <3>6
  <2>4. t \in HeapType
    BY <1>1, <2>1, <2>3 DEF HeapType
  <2>5. Handles(t) = Handles(s) /\ DeadHandles(s) \subseteq Handles(s)
    BY <1>1, <2>2 DEF Handles, DeadHandles, FreeListOK
  <2>6. FreeListOK(t)
    <3>1. \A i \in DOMAIN t.free_list : t.free_list[i] \in DeadHandles(t)
      BY DEF DeadHandles
    <3> QED BY <2>3, <2>5, <3>1 DEF FreeListOK
  <2> QED BY <2>2, <2>3, <2>4, <2>5, <2>6 DEF ShapeOK, LiveHandles
<1>4. CASE s.free_list = <<>>
  <2>1. t = [s EXCEPT !.chunks = Append(@, NewChunk)] /\ g = Len(s.chunks) + 1
    BY <1>4 DEF AllocateChunk, NextHandle
  <2>2. /\ t.chunks = Append(s.chunks, NewChunk) /\ t.handles = s.handles /\ t.bins = s.bins
        /\ t.free_list = s.free_list
    BY <1>1, <2>1 DEF HeapType
  <2>3. t.chunks \in Seq(ChunkType) /\ Len(t.chunks) = Len(s.chunks) + 1
    BY <1>2, <2>2, NewChunkType
  <2>4. t \in HeapType
    BY <1>1, <2>1, <2>2, <2>3 DEF HeapType
  <2>5. Handles(t) = Handles(s) \cup {g} /\ g \notin Handles(s)
    BY <1>2, <2>1, <2>3 DEF Handles
  <2>6. DeadHandles(t) = {} /\ DeadHandles(s) = {} /\ FreeListOK(t)
    BY <1>4, <2>2 DEF DeadHandles, FreeListOK
  <2>7. t.chunks[g] = NewChunk /\ \A k \in Handles(s) : t.chunks[k] = s.chunks[k]
    BY <1>2, <2>1, <2>2, NewChunkType DEF Handles
  <2> QED BY <2>2, <2>4, <2>5, <2>6, <2>7 DEF ShapeOK, LiveHandles
<1> QED BY <1>3, <1>4

\* DeleteChunk: the handle is dead, and the map forgets the address.
LEMMA DeleteFacts ==
    ASSUME NEW s, ShapeOK(s), NEW h \in LiveHandles(s), s.chunks[h].ptr \in Addr,
           NEW t, t = DeleteChunk(s, h)
    PROVE  /\ ShapeOK(t) /\ Handles(t) = Handles(s) /\ LiveHandles(t) = LiveHandles(s) \ {h}
           /\ t.bins = s.bins
           /\ t.handles = [s.handles EXCEPT ![s.chunks[h].ptr] = kInvalidChunkHandle]
           /\ t.chunks[h].bin_num = s.chunks[h].bin_num
           /\ \A k \in Handles(s) : k # h => t.chunks[k] = s.chunks[k]
<1>1. /\ s \in HeapType /\ FreeListOK(s)
      /\ s.chunks[h] \in ChunkType /\ h \in Nat /\ h \in 1 .. Len(s.chunks)
  BY HeapFields, LiveAreHandles DEF ShapeOK, Handles
<1>2. PICK c : c = [NewChunk EXCEPT !.bin_num = s.chunks[h].bin_num]
  OBVIOUS
<1>3. c \in ChunkType /\ c.bin_num = s.chunks[h].bin_num
  BY <1>1, <1>2, NewChunkType DEF ChunkType
<1>4. t = [s EXCEPT !.handles[s.chunks[h].ptr] = kInvalidChunkHandle,
                    !.chunks[h] = c, !.free_list = <<h>> \o @]
  BY <1>2 DEF DeleteChunk
<1>5. /\ t.chunks = [s.chunks EXCEPT ![h] = c]
      /\ t.free_list = <<h>> \o s.free_list
      /\ t.bins = s.bins
      /\ t.handles = [s.handles EXCEPT ![s.chunks[h].ptr] = kInvalidChunkHandle]
  BY <1>1, <1>4 DEF HeapType
<1>6. t.chunks \in Seq(ChunkType) /\ Len(t.chunks) = Len(s.chunks)
  BY <1>1, <1>3, <1>5, ChunkSet, HeapFields
<1>7. t.handles \in [Addr -> Nat]
  BY <1>1, <1>5, HeapFields DEF kInvalidChunkHandle
<1>8. t.free_list \in Seq(Nat)
  BY <1>1, <1>5, HeapFields, PushFacts
<1>9. t \in HeapType
  BY <1>1, <1>4, <1>5, <1>6, <1>7, <1>8 DEF HeapType
<1>10. h \notin DeadHandles(s) /\ \A i \in DOMAIN s.free_list : s.free_list[i] # h
  BY DEF LiveHandles, DeadHandles
<1>11. /\ DeadHandles(t) = DeadHandles(s) \cup {h}
       /\ \A i, j \in DOMAIN t.free_list : t.free_list[i] = t.free_list[j] => i = j
  BY <1>1, <1>5, <1>8, <1>10, HeapFields, PushedInjective DEF DeadHandles, FreeListOK
<1>12. Handles(t) = Handles(s) /\ LiveHandles(t) = LiveHandles(s) \ {h}
  BY <1>6, <1>11 DEF Handles, LiveHandles
<1>13. FreeListOK(t)
  <2>1. \A i \in DOMAIN t.free_list : t.free_list[i] \in DeadHandles(t)
    BY DEF DeadHandles
  <2>2. DeadHandles(s) \subseteq Handles(s)
    BY <1>1 DEF FreeListOK, DeadHandles
  <2> QED BY <1>11, <1>12, <2>1, <2>2, LiveAreHandles DEF FreeListOK
<1>14. t.chunks[h] = c /\ \A g \in Handles(s) : g # h => t.chunks[g] = s.chunks[g]
  BY <1>1, <1>3, <1>5, ChunkSet, HeapFields DEF Handles
<1> QED BY <1>3, <1>5, <1>9, <1>12, <1>13, <1>14 DEF ShapeOK

\* LinkBack: the chunk after, if there is one, gets a new prev.
LEMMA LinkFacts ==
    ASSUME NEW q \in Seq(ChunkType), NEW after \in Nat, NEW h \in Nat,
           after # kInvalidChunkHandle => after \in 1 .. Len(q),
           NEW p, p = LinkBack(q, after, h)
    PROVE  /\ p \in Seq(ChunkType) /\ Len(p) = Len(q)
           /\ \A g \in 1 .. Len(q) : g # after => p[g] = q[g]
           /\ after # kInvalidChunkHandle => p[after] = [q[after] EXCEPT !.prev = h]
<1>1. CASE after = kInvalidChunkHandle
  <2>1. p = q
    BY <1>1 DEF LinkBack
  <2> QED BY <1>1, <2>1
<1>2. CASE after # kInvalidChunkHandle
  <2>1. PICK c : c = [q[after] EXCEPT !.prev = h]
    OBVIOUS
  <2>2. q[after] \in ChunkType
    BY <1>2
  <2>3. c \in ChunkType
    BY <2>1, <2>2 DEF ChunkType
  <2>4. p = [q EXCEPT ![after] = c]
    BY <1>2, <2>1 DEF LinkBack
  <2> QED BY <1>2, <2>1, <2>3, <2>4, ChunkSet
<1> QED BY <1>1, <1>2

\* Merge: h1 grows over h2, whose handle is dead.
Merged(s, h1, h2, after, t) ==
    /\ ShapeOK(t) /\ Handles(t) = Handles(s) /\ LiveHandles(t) = LiveHandles(s) \ {h2}
    /\ t.bins = s.bins
    /\ t.handles = [s.handles EXCEPT ![s.chunks[h2].ptr] = kInvalidChunkHandle]
    /\ t.chunks[h2].bin_num = s.chunks[h2].bin_num
    /\ t.chunks[h1] = [s.chunks[h1] EXCEPT !.next = after,
                                           !.size = s.chunks[h1].size + s.chunks[h2].size]
    /\ after # kInvalidChunkHandle => t.chunks[after] = [s.chunks[after] EXCEPT !.prev = h1]
    /\ \A k \in Handles(s) \ {h1, h2, after} : t.chunks[k] = s.chunks[k]

\* Merge does that, given neighbours in the list.
LEMMA MergeFacts ==
    ASSUME NEW s, ShapeOK(s), NEW h1 \in LiveHandles(s), NEW h2 \in LiveHandles(s), h1 # h2,
           s.chunks[h2].ptr \in Addr,
           NEW after, after = s.chunks[h2].next,
           after # kInvalidChunkHandle => after \in LiveHandles(s) \ {h1, h2},
           NEW t, t = Merge(s, h1, h2)
    PROVE  Merged(s, h1, h2, after, t)
<1>1. /\ s \in HeapType /\ FreeListOK(s) /\ s.chunks \in Seq(ChunkType)
      /\ s.chunks[h1] \in ChunkType /\ s.chunks[h2] \in ChunkType
      /\ h1 \in Nat /\ h2 \in Nat /\ h1 \in 1 .. Len(s.chunks) /\ h2 \in 1 .. Len(s.chunks)
      /\ after \in Nat
      /\ after # kInvalidChunkHandle => after \in 1 .. Len(s.chunks)
  BY HeapFields, LiveAreHandles, ChunkFields DEF ShapeOK, Handles
<1>2. PICK c : c = [s.chunks[h1] EXCEPT !.next = after, !.size = s.chunks[h1].size + s.chunks[h2].size]
  OBVIOUS
<1>3. c \in ChunkType
  <2>1. s.chunks[h1].size \in Nat /\ s.chunks[h2].size \in Nat
    BY <1>1, ChunkFields
  <2>2. PICK z \in Nat : z = s.chunks[h1].size + s.chunks[h2].size
    BY <2>1
  <2>3. c = [s.chunks[h1] EXCEPT !.next = after, !.size = z]
    BY <1>2, <2>2
  <2> QED BY <1>1, <2>3 DEF ChunkType
<1>4. PICK joined : joined = [s.chunks EXCEPT ![h1] = c]
  OBVIOUS
<1>5. joined = [s.chunks EXCEPT ![h1].next = after, ![h1].size = @ + s.chunks[h2].size]
  BY <1>1, <1>2, <1>4
<1>6. /\ joined \in Seq(ChunkType) /\ Len(joined) = Len(s.chunks)
      /\ joined[h1] = c /\ \A g \in 1 .. Len(s.chunks) : g # h1 => joined[g] = s.chunks[g]
  BY <1>1, <1>3, <1>4, ChunkSet
<1>7. PICK p : p = LinkBack(joined, after, h1)
  OBVIOUS
<1>8. /\ p \in Seq(ChunkType) /\ Len(p) = Len(s.chunks)
      /\ \A g \in 1 .. Len(s.chunks) : g # after => p[g] = joined[g]
      /\ after # kInvalidChunkHandle => p[after] = [joined[after] EXCEPT !.prev = h1]
  BY <1>1, <1>6, <1>7, LinkFacts
<1>9. PICK u : u = [s EXCEPT !.chunks = p]
  OBVIOUS
<1>10. /\ u \in HeapType /\ u.chunks = p /\ u.free_list = s.free_list
       /\ u.bins = s.bins /\ u.handles = s.handles
  BY <1>1, <1>8, <1>9 DEF HeapType
<1>11. /\ Handles(u) = Handles(s) /\ LiveHandles(u) = LiveHandles(s) /\ ShapeOK(u)
  BY <1>1, <1>8, <1>10 DEF Handles, LiveHandles, DeadHandles, ShapeOK, FreeListOK
<1>12. t = DeleteChunk(u, h2)
  BY <1>5, <1>7, <1>9 DEF Merge
<1>13. u.chunks[h2] = s.chunks[h2]
  <2>1. h2 # after
    BY <1>1 DEF kInvalidChunkHandle
  <2> QED BY <1>1, <1>6, <1>8, <1>10, <2>1
<1>14. /\ ShapeOK(t) /\ Handles(t) = Handles(u) /\ LiveHandles(t) = LiveHandles(u) \ {h2}
       /\ t.bins = u.bins
       /\ t.handles = [u.handles EXCEPT ![u.chunks[h2].ptr] = kInvalidChunkHandle]
       /\ t.chunks[h2].bin_num = u.chunks[h2].bin_num
       /\ \A k \in Handles(u) : k # h2 => t.chunks[k] = u.chunks[k]
  BY <1>11, <1>12, <1>13, DeleteFacts
<1>15. t.chunks[h1] = c
  <2>1. h1 # after
    BY LiveAreHandles, <1>1 DEF kInvalidChunkHandle
  <2> QED BY <1>1, <1>6, <1>8, <1>10, <1>11, <1>14, <2>1 DEF Handles
<1>16. after # kInvalidChunkHandle => t.chunks[after] = [s.chunks[after] EXCEPT !.prev = h1]
  BY <1>1, <1>6, <1>8, <1>10, <1>11, <1>14 DEF Handles
<1>17. \A k \in Handles(s) \ {h1, h2, after} : t.chunks[k] = s.chunks[k]
  BY <1>6, <1>8, <1>10, <1>11, <1>14 DEF Handles
<1> QED BY <1>2, <1>10, <1>11, <1>13, <1>14, <1>15, <1>16, <1>17 DEF Merged

\* SplitChunk: h keeps num_bytes, a chunk with a fresh handle g gets the rest
\* and goes into its bin.
SplitOff(s, h, n, after, g, b, t) ==
    /\ ShapeOK(t) /\ Handles(t) = Handles(s) \cup {g}
    /\ LiveHandles(t) = LiveHandles(s) \cup {g} /\ g \notin LiveHandles(s)
    /\ t.bins = [s.bins EXCEPT ![b] = @ \cup {g}]
    /\ t.handles = [s.handles EXCEPT ![s.chunks[h].ptr + n] = g]
    /\ t.chunks[h] = [s.chunks[h] EXCEPT !.size = n, !.next = g]
    /\ t.chunks[g].ptr = s.chunks[h].ptr + n /\ t.chunks[g].size = s.chunks[h].size - n
    /\ ~t.chunks[g].in_use /\ t.chunks[g].prev = h /\ t.chunks[g].next = after
    /\ t.chunks[g].bin_num = b
    /\ after # kInvalidChunkHandle => t.chunks[after] = [s.chunks[after] EXCEPT !.prev = g]
    /\ \A k \in Handles(s) \ {g, h, after} : t.chunks[k] = s.chunks[k]

\* SplitChunk does that.
LEMMA SplitFacts ==
    ASSUME NEW s, ShapeOK(s), NEW h \in LiveHandles(s), NEW n \in Nat, n < s.chunks[h].size,
           s.chunks[h].ptr + n \in Addr,
           NEW after, after = s.chunks[h].next,
           after # kInvalidChunkHandle => after \in LiveHandles(s) \ {h},
           NEW g, g = NextHandle(s), NEW t, t = SplitChunk(s, h, n),
           NEW b, b = BinNumForSize(s.chunks[h].size - n)
    PROVE  SplitOff(s, h, n, after, g, b, t)
<1>1. /\ s \in HeapType /\ FreeListOK(s) /\ s.chunks \in Seq(ChunkType)
      /\ s.chunks[h] \in ChunkType /\ h \in Nat /\ h \in Handles(s)
      /\ after \in Nat
  BY HeapFields, LiveAreHandles, ChunkFields DEF ShapeOK
<1>2. PICK u : u = AllocateChunk(s)
  OBVIOUS
<1>3. /\ ShapeOK(u) /\ Handles(u) = Handles(s) \cup {g}
      /\ LiveHandles(u) = LiveHandles(s) \cup {g} /\ g \notin LiveHandles(s)
      /\ u.handles = s.handles /\ u.bins = s.bins
      /\ \A k \in Handles(s) : u.chunks[k] = s.chunks[k]
  BY <1>2, AllocateFacts
<1>4. /\ u \in HeapType /\ u.chunks \in Seq(ChunkType) /\ g \in Handles(u) /\ h \in Handles(u)
      /\ u.chunks[g] \in ChunkType /\ g \in Nat /\ g # h /\ g # after
      /\ Handles(u) = 1 .. Len(u.chunks) /\ Handles(s) \subseteq Handles(u)
      /\ after # kInvalidChunkHandle => after \in Handles(s)
  <2>1. g \in Handles(u) /\ h \in Handles(u) /\ g # h
    BY <1>1, <1>3
  <2>2. after # kInvalidChunkHandle => after \in Handles(s) /\ after # g
    BY <1>3, LiveAreHandles
  <2>3. u \in HeapType /\ u.chunks \in Seq(ChunkType) /\ u.chunks[g] \in ChunkType /\ g \in Nat \ {0}
    BY <1>3, <2>1, HeapFields DEF ShapeOK
  <2> QED BY <1>3, <2>1, <2>2, <2>3 DEF Handles, kInvalidChunkHandle
<1>5. PICK rest : rest = [u.chunks[g] EXCEPT !.ptr = s.chunks[h].ptr + n,
                                             !.size = s.chunks[h].size - n,
                                             !.in_use = FALSE, !.prev = h, !.next = after]
  OBVIOUS
<1>6. /\ rest \in ChunkType
      /\ rest.ptr = s.chunks[h].ptr + n /\ rest.size = s.chunks[h].size - n /\ ~rest.in_use
      /\ rest.prev = h /\ rest.next = after
  <2>1. PICK x \in Nat, y \in Nat : x = s.chunks[h].ptr + n /\ y = s.chunks[h].size - n
    <3>1. s.chunks[h].ptr \in Nat /\ s.chunks[h].size \in Nat
      BY <1>1, ChunkFields
    <3> QED BY <3>1
  <2>2. rest = [u.chunks[g] EXCEPT !.ptr = x, !.size = y, !.in_use = FALSE, !.prev = h, !.next = after]
    BY <1>5, <2>1
  <2>3. /\ rest \in ChunkType /\ rest.ptr = x /\ rest.size = y /\ ~rest.in_use
        /\ rest.prev = h /\ rest.next = after
    BY <1>1, <1>4, <2>2 DEF ChunkType
  <2> QED BY <2>1, <2>3
<1>7. PICK c : c = [s.chunks[h] EXCEPT !.size = n, !.next = g]
  OBVIOUS
<1>8. c \in ChunkType
  BY <1>1, <1>4, <1>7 DEF ChunkType
<1>9. PICK q : q = [u.chunks EXCEPT ![g] = rest]
  OBVIOUS
<1>10. /\ q \in Seq(ChunkType) /\ Len(q) = Len(u.chunks) /\ q[g] = rest
       /\ \A k \in Handles(u) : k # g => q[k] = u.chunks[k]
  BY <1>4, <1>6, <1>9, ChunkSet
<1>11. PICK cut : cut = [q EXCEPT ![h] = c]
  OBVIOUS
<1>12. /\ cut \in Seq(ChunkType) /\ Len(cut) = Len(u.chunks) /\ cut[h] = c /\ cut[g] = rest
       /\ \A k \in Handles(u) : k # g /\ k # h => cut[k] = u.chunks[k]
  BY <1>4, <1>8, <1>10, <1>11, ChunkSet
<1>13. cut = [u.chunks EXCEPT ![g] = rest, ![h].size = n, ![h].next = g]
  <2>1. u.chunks[h] = s.chunks[h]
    BY <1>1, <1>3
  <2> QED BY <1>4, <1>7, <1>9, <1>11, <2>1
<1>14. PICK p : p = LinkBack(cut, after, g)
  OBVIOUS
<1>15. /\ p \in Seq(ChunkType) /\ Len(p) = Len(u.chunks)
       /\ \A k \in Handles(u) : k # after => p[k] = cut[k]
       /\ after # kInvalidChunkHandle => p[after] = [cut[after] EXCEPT !.prev = g]
  BY <1>1, <1>4, <1>12, <1>14, LinkFacts
<1>16. PICK v : v = [u EXCEPT !.chunks = p, !.handles[s.chunks[h].ptr + n] = g]
  OBVIOUS
<1>17. /\ v.chunks = p /\ v.free_list = u.free_list /\ v.bins = u.bins
       /\ v.handles = [u.handles EXCEPT ![s.chunks[h].ptr + n] = g]
  BY <1>4, <1>16 DEF HeapType
<1>18. v.handles \in [Addr -> Nat]
  BY <1>4, <1>17, HeapFields
<1>19. v \in HeapType
  BY <1>4, <1>15, <1>16, <1>17, <1>18 DEF HeapType
<1>20. Handles(v) = Handles(u) /\ LiveHandles(v) = LiveHandles(u) /\ ShapeOK(v)
  BY <1>3, <1>15, <1>17, <1>19 DEF Handles, LiveHandles, DeadHandles, ShapeOK, FreeListOK
<1>21. t = InsertFreeChunkIntoBin(v, g)
  BY <1>2, <1>5, <1>13, <1>14, <1>16 DEF SplitChunk
<1>22. v.chunks[g] = rest
  BY <1>4, <1>12, <1>15, <1>17
<1>23. /\ ShapeOK(t) /\ Handles(t) = Handles(v) /\ LiveHandles(t) = LiveHandles(v)
       /\ t.handles = v.handles
       /\ t.chunks[g] = [v.chunks[g] EXCEPT !.bin_num = BinNumForSize(v.chunks[g].size)]
       /\ \A k \in Handles(v) : k # g => t.chunks[k] = v.chunks[k]
       /\ t.bins = [v.bins EXCEPT ![BinNumForSize(v.chunks[g].size)] = @ \cup {g}]
  BY <1>4, <1>20, <1>21, InsertFacts
<1>24. BinNumForSize(v.chunks[g].size) = b
  BY <1>6, <1>22
<1>25. t.chunks[h] = c
  <2>1. h # after
    BY <1>1, HeapFields DEF kInvalidChunkHandle, ShapeOK
  <2> QED BY <1>4, <1>12, <1>15, <1>17, <1>20, <1>23, <2>1
<1>26. after # kInvalidChunkHandle => t.chunks[after] = [s.chunks[after] EXCEPT !.prev = g]
  <2> SUFFICES ASSUME after # kInvalidChunkHandle
               PROVE  t.chunks[after] = [s.chunks[after] EXCEPT !.prev = g]
    OBVIOUS
  <2>1. after \in Handles(s) /\ after \in Handles(u) /\ after # g /\ after # h
    BY <1>4
  <2>2. cut[after] = s.chunks[after]
    BY <1>3, <1>12, <2>1
  <2>3. t.chunks[after] = p[after]
    BY <1>17, <1>20, <1>23, <2>1
  <2> QED BY <1>15, <2>2, <2>3
<1>27. \A k \in Handles(s) \ {g, h, after} : t.chunks[k] = s.chunks[k]
  BY <1>3, <1>4, <1>12, <1>15, <1>17, <1>20, <1>23
<1>28. t.chunks[g] = [rest EXCEPT !.bin_num = b]
  BY <1>22, <1>23, <1>24
<1>29. /\ t.chunks[g].ptr = rest.ptr /\ t.chunks[g].size = rest.size
       /\ t.chunks[g].in_use = rest.in_use /\ t.chunks[g].prev = rest.prev
       /\ t.chunks[g].next = rest.next /\ t.chunks[g].bin_num = b
  BY <1>6, <1>28 DEF ChunkType
<1>30. t.handles = [s.handles EXCEPT ![s.chunks[h].ptr + n] = g] /\ t.bins = [s.bins EXCEPT ![b] = @ \cup {g}]
  BY <1>3, <1>17, <1>23, <1>24
<1> QED BY <1>3, <1>6, <1>7, <1>20, <1>23, <1>25, <1>26, <1>27, <1>29, <1>30 DEF SplitOff

\* Extend: one free chunk for the whole of the new region.
RegionAdded(s, base, bytes, g, b, t) ==
    /\ ShapeOK(t) /\ Handles(t) = Handles(s) \cup {g}
    /\ LiveHandles(t) = LiveHandles(s) \cup {g} /\ g \notin LiveHandles(s)
    /\ t.bins = [s.bins EXCEPT ![b] = @ \cup {g}]
    /\ t.handles = [s.handles EXCEPT ![base] = g]
    /\ t.chunks[g].ptr = base /\ t.chunks[g].size = bytes
    /\ ~t.chunks[g].in_use /\ t.chunks[g].prev = kInvalidChunkHandle
    /\ t.chunks[g].next = kInvalidChunkHandle
    /\ t.chunks[g].bin_num = b
    /\ \A k \in Handles(s) \ {g} : t.chunks[k] = s.chunks[k]

\* AddRegion does that.
LEMMA AddRegionFacts ==
    ASSUME NEW s, ShapeOK(s), NEW base \in Addr, NEW bytes \in Nat,
           NEW g, g = NextHandle(s), NEW t, t = AddRegion(s, base, bytes),
           NEW b, b = BinNumForSize(bytes)
    PROVE  RegionAdded(s, base, bytes, g, b, t)
<1>1. PICK u : u = AllocateChunk(s)
  OBVIOUS
<1>2. /\ ShapeOK(u) /\ Handles(u) = Handles(s) \cup {g}
      /\ LiveHandles(u) = LiveHandles(s) \cup {g} /\ g \notin LiveHandles(s)
      /\ u.handles = s.handles /\ u.bins = s.bins
      /\ \A k \in Handles(s) : u.chunks[k] = s.chunks[k]
  BY <1>1, AllocateFacts
<1>3. /\ u \in HeapType /\ u.chunks \in Seq(ChunkType) /\ g \in Handles(u)
      /\ u.chunks[g] \in ChunkType /\ g \in Nat
      /\ Handles(u) = 1 .. Len(u.chunks)
  BY <1>2, HeapFields DEF ShapeOK, Handles
<1>4. PICK c : c = [u.chunks[g] EXCEPT !.ptr = base, !.size = bytes, !.in_use = FALSE,
                                       !.prev = kInvalidChunkHandle, !.next = kInvalidChunkHandle]
  OBVIOUS
<1>5. /\ c \in ChunkType /\ c.ptr = base /\ c.size = bytes /\ ~c.in_use
      /\ c.prev = kInvalidChunkHandle /\ c.next = kInvalidChunkHandle
  <2>1. base \in Nat /\ kInvalidChunkHandle \in Nat
    BY DEF Addr, kInvalidChunkHandle
  <2> QED BY <1>3, <1>4, <2>1 DEF ChunkType
<1>6. PICK p : p = [u.chunks EXCEPT ![g] = c]
  OBVIOUS
<1>7. /\ p \in Seq(ChunkType) /\ Len(p) = Len(u.chunks) /\ p[g] = c
      /\ \A k \in Handles(u) : k # g => p[k] = u.chunks[k]
  BY <1>3, <1>5, <1>6, ChunkSet
<1>8. PICK v : v = [u EXCEPT !.chunks = p, !.handles[base] = g]
  OBVIOUS
<1>9. /\ v.chunks = p /\ v.free_list = u.free_list /\ v.bins = u.bins
      /\ v.handles = [u.handles EXCEPT ![base] = g]
  BY <1>3, <1>8 DEF HeapType
<1>10. v = [u EXCEPT !.chunks[g] = c, !.handles[base] = g]
  BY <1>6, <1>8
<1>11. v.handles \in [Addr -> Nat]
  BY <1>3, <1>9, HeapFields
<1>12. v \in HeapType
  BY <1>3, <1>7, <1>8, <1>9, <1>11 DEF HeapType
<1>13. Handles(v) = Handles(u) /\ LiveHandles(v) = LiveHandles(u) /\ ShapeOK(v)
  BY <1>2, <1>7, <1>9, <1>12 DEF Handles, LiveHandles, DeadHandles, ShapeOK, FreeListOK
<1>14. t = InsertFreeChunkIntoBin(v, g)
  BY <1>1, <1>4, <1>10 DEF AddRegion
<1>15. v.chunks[g] = c
  BY <1>7, <1>9
<1>16. /\ ShapeOK(t) /\ Handles(t) = Handles(v) /\ LiveHandles(t) = LiveHandles(v)
       /\ t.handles = v.handles
       /\ t.chunks[g] = [v.chunks[g] EXCEPT !.bin_num = BinNumForSize(v.chunks[g].size)]
       /\ \A k \in Handles(v) : k # g => t.chunks[k] = v.chunks[k]
       /\ t.bins = [v.bins EXCEPT ![BinNumForSize(v.chunks[g].size)] = @ \cup {g}]
  BY <1>3, <1>13, <1>14, InsertFacts
<1>17. BinNumForSize(v.chunks[g].size) = b
  BY <1>5, <1>15
<1>18. t.chunks[g] = [c EXCEPT !.bin_num = b]
  BY <1>15, <1>16, <1>17
<1>19. /\ t.chunks[g].ptr = c.ptr /\ t.chunks[g].size = c.size
       /\ t.chunks[g].in_use = c.in_use /\ t.chunks[g].prev = c.prev
       /\ t.chunks[g].next = c.next /\ t.chunks[g].bin_num = b
  BY <1>5, <1>18 DEF ChunkType
<1>20. \A k \in Handles(s) \ {g} : t.chunks[k] = s.chunks[k]
  BY <1>2, <1>7, <1>9, <1>13, <1>16
<1>21. t.handles = [s.handles EXCEPT ![base] = g] /\ t.bins = [s.bins EXCEPT ![b] = @ \cup {g}]
  BY <1>2, <1>9, <1>16, <1>17
<1> QED BY <1>2, <1>5, <1>13, <1>16, <1>19, <1>20, <1>21 DEF RegionAdded

-----------------------------------------------------------------------------
(* The lists of chunks and the regions they tile. *)

\* Regions lie in the address space and apart from each other.
GoodRegions(R) ==
    /\ \A r \in R : r.ptr \in Nat /\ r.size \in Nat /\ r.ptr + r.size <= AddrSpace
    /\ \A r, q \in R : r # q => r.ptr + r.size <= q.ptr \/ q.ptr + q.size <= r.ptr

\* Chunk h lies in region r.
Contains(r, s, h) == r.ptr <= s.chunks[h].ptr /\ End(s, h) <= r.ptr + r.size

\* No live chunk is empty.
Sized(s) == \A h \in LiveHandles(s) : s.chunks[h].size > 0

\* No two live chunks share a byte.
ApartIn(s) ==
    \A h, g \in LiveHandles(s) :
        h # g => End(s, h) <= s.chunks[g].ptr \/ End(s, g) <= s.chunks[h].ptr

\* The next chunk starts where h ends and points back to it; the last chunk of a list
\* ends where a region ends.
NextLinked(s, R, h) ==
    LET n == s.chunks[h].next
    IN  /\ n # kInvalidChunkHandle =>
              n \in LiveHandles(s) /\ s.chunks[n].prev = h /\ s.chunks[n].ptr = End(s, h)
        /\ n = kInvalidChunkHandle => \E r \in R : r.ptr + r.size = End(s, h)

\* The previous chunk points to h; the first chunk of a list starts where a region does.
PrevLinked(s, R, h) ==
    LET p == s.chunks[h].prev
    IN  /\ p # kInvalidChunkHandle => p \in LiveHandles(s) /\ s.chunks[p].next = h
        /\ p = kInvalidChunkHandle => \E r \in R : r.ptr = s.chunks[h].ptr

\* The lists of chunks, read in both directions.
Linked(s, R) == \A h \in LiveHandles(s) : NextLinked(s, R, h) /\ PrevLinked(s, R, h)

\* A chunk lies in a region, and its neighbour in the same one.
Inside(s, R) ==
    \A h \in LiveHandles(s) :
        /\ \E r \in R : Contains(r, s, h)
        /\ s.chunks[h].next # kInvalidChunkHandle =>
              \A r \in R : Contains(r, s, h) <=> Contains(r, s, s.chunks[h].next)

\* The map sends the start of every chunk, and no other address, to its handle.
Mapped(s) ==
    /\ \A h \in LiveHandles(s) : s.handles[s.chunks[h].ptr] = h
    /\ \A p \in Addr : s.handles[p] # kInvalidChunkHandle =>
          s.handles[p] \in LiveHandles(s) /\ s.chunks[s.handles[p]].ptr = p

\* The lists of live chunks tile the regions R, and the map knows them.
Tiled(s, R) == Sized(s) /\ ApartIn(s) /\ Linked(s, R) /\ Inside(s, R) /\ Mapped(s)

\* The fields of a live chunk are numbers, and its bytes are addresses.
LEMMA LiveFields ==
    ASSUME NEW s, ShapeOK(s), NEW h \in LiveHandles(s)
    PROVE  /\ h \in Nat /\ h # kInvalidChunkHandle /\ h \in Handles(s) /\ s.chunks[h] \in ChunkType
           /\ s.chunks[h].ptr \in Nat /\ s.chunks[h].size \in Nat /\ End(s, h) \in Nat
           /\ s.chunks[h].prev \in Nat /\ s.chunks[h].next \in Nat
<1>1. h \in Handles(s) /\ h \in Nat \ {0} /\ s.chunks[h] \in ChunkType
  BY LiveAreHandles, HeapFields DEF ShapeOK
<1>2. s.chunks[h].ptr \in Nat /\ s.chunks[h].size \in Nat
  BY <1>1, ChunkFields
<1> QED BY <1>1, <1>2, ChunkFields DEF End, kInvalidChunkHandle

\* A live chunk lies in the address space.
LEMMA LiveAddr ==
    ASSUME NEW s, NEW R, ShapeOK(s), Tiled(s, R), GoodRegions(R), NEW h \in LiveHandles(s)
    PROVE  s.chunks[h].ptr \in Addr /\ End(s, h) <= AddrSpace
<1>1. PICK r \in R : Contains(r, s, h)
  BY DEF Tiled, Inside
<1>2. PICK x \in Nat, y \in Nat : x = s.chunks[h].ptr /\ y = s.chunks[h].size /\ y > 0
  BY LiveFields DEF Tiled, Sized
<1>3. r.ptr \in Nat /\ r.size \in Nat /\ r.ptr + r.size <= AddrSpace
  BY DEF GoodRegions
<1>4. r.ptr <= x /\ x + y <= r.ptr + r.size
  BY <1>1, <1>2 DEF Contains, End
<1> QED BY <1>2, <1>3, <1>4, ArenaConstants DEF Addr, End

\* Two heaps with the same chunks in the same places.
SamePlaces(s, t) ==
    /\ LiveHandles(t) = LiveHandles(s) /\ t.handles = s.handles
    /\ \A h \in LiveHandles(s) : /\ t.chunks[h].ptr = s.chunks[h].ptr
                                 /\ t.chunks[h].size = s.chunks[h].size
                                 /\ t.chunks[h].prev = s.chunks[h].prev
                                 /\ t.chunks[h].next = s.chunks[h].next

\* Tiling depends on nothing else.
LEMMA TiledSame ==
    ASSUME NEW s, NEW t, NEW R, Tiled(s, R), SamePlaces(s, t)
    PROVE  Tiled(t, R)
<1>0. /\ LiveHandles(t) = LiveHandles(s) /\ t.handles = s.handles
      /\ \A h \in LiveHandles(s) : /\ t.chunks[h].ptr = s.chunks[h].ptr
                                   /\ t.chunks[h].size = s.chunks[h].size
                                   /\ t.chunks[h].prev = s.chunks[h].prev
                                   /\ t.chunks[h].next = s.chunks[h].next
  BY DEF SamePlaces
<1>1. \A h \in LiveHandles(s) : End(t, h) = End(s, h) /\ \A r : Contains(r, t, h) <=> Contains(r, s, h)
  BY <1>0 DEF End, Contains
<1>2. Sized(t) /\ ApartIn(t)
  BY <1>0, <1>1 DEF Tiled, Sized, ApartIn
<1>3. Linked(t, R)
  BY <1>0, <1>1 DEF Tiled, Linked, NextLinked, PrevLinked
<1>4. Inside(t, R)
  <2> SUFFICES ASSUME NEW h \in LiveHandles(s)
               PROVE  /\ \E r \in R : Contains(r, t, h)
                      /\ t.chunks[h].next # kInvalidChunkHandle =>
                            \A r \in R : Contains(r, t, h) <=> Contains(r, t, t.chunks[h].next)
    BY <1>0 DEF Inside
  <2>1. s.chunks[h].next # kInvalidChunkHandle => s.chunks[h].next \in LiveHandles(s)
    BY DEF Tiled, Linked, NextLinked
  <2> QED BY <1>0, <1>1, <2>1 DEF Tiled, Inside
<1>5. Mapped(t)
  BY <1>0 DEF Tiled, Mapped
<1> QED BY <1>2, <1>3, <1>4, <1>5 DEF Tiled

\* The neighbours of a chunk are other chunks.
LEMMA NextIsOther ==
    ASSUME NEW s, NEW R, ShapeOK(s), Tiled(s, R), NEW h \in LiveHandles(s),
           NEW n, n = s.chunks[h].next, n # kInvalidChunkHandle
    PROVE  /\ n \in LiveHandles(s) /\ n # h /\ s.chunks[n].prev = h /\ s.chunks[n].ptr = End(s, h)
           /\ s.chunks[h].ptr < s.chunks[n].ptr
           /\ s.chunks[n].next # kInvalidChunkHandle => s.chunks[n].next \in LiveHandles(s) \ {h, n}
<1>1. n \in LiveHandles(s) /\ s.chunks[n].prev = h /\ s.chunks[n].ptr = End(s, h)
  BY DEF Tiled, Linked, NextLinked
<1>2. s.chunks[h].ptr < s.chunks[n].ptr
  BY <1>1, LiveFields DEF Tiled, Sized, End
<1>3. ASSUME s.chunks[n].next # kInvalidChunkHandle
      PROVE  s.chunks[n].next \in LiveHandles(s) \ {h, n}
  <2>1. PICK a : a = s.chunks[n].next
    OBVIOUS
  <2>2. a \in LiveHandles(s) /\ s.chunks[a].ptr = End(s, n)
    BY <1>1, <1>3, <2>1 DEF Tiled, Linked, NextLinked
  <2>3. s.chunks[n].ptr < s.chunks[a].ptr
    BY <1>1, <2>2, LiveFields DEF Tiled, Sized, End
  <2>4. s.chunks[h].ptr \in Nat /\ s.chunks[n].ptr \in Nat /\ s.chunks[a].ptr \in Nat
    BY <1>1, <2>2, LiveFields
  <2> QED BY <1>2, <2>1, <2>2, <2>3, <2>4
<1>4. n # h
  BY <1>1, <1>2, LiveFields
<1> QED BY <1>1, <1>2, <1>3, <1>4

\* Merge keeps the regions tiled.
LEMMA MergeTiled ==
    ASSUME NEW s, NEW R, ShapeOK(s), Tiled(s, R), GoodRegions(R),
           NEW h1 \in LiveHandles(s), NEW h2, h2 = s.chunks[h1].next, h2 # kInvalidChunkHandle,
           NEW t, t = Merge(s, h1, h2)
    PROVE  Tiled(t, R)
<1>1. PICK after : after = s.chunks[h2].next
  OBVIOUS
<1>2. /\ h2 \in LiveHandles(s) /\ h1 # h2
      /\ s.chunks[h2].prev = h1
      /\ s.chunks[h2].ptr = End(s, h1)
      /\ after # kInvalidChunkHandle => after \in LiveHandles(s) \ {h1, h2}
  BY <1>1, NextIsOther
<1>3. /\ h1 # after /\ h2 # after
      /\ after # kInvalidChunkHandle =>
            s.chunks[after].prev = h2 /\ s.chunks[after].ptr = End(s, h2)
  BY <1>1, <1>2, LiveFields DEF Tiled, Linked, NextLinked
<1>4. s.chunks[h2].ptr \in Addr
  BY <1>2, LiveAddr
<1>5. Merged(s, h1, h2, after, t)
  BY <1>1, <1>2, <1>4, MergeFacts, Zenon
<1>5a. /\ LiveHandles(t) = LiveHandles(s) \ {h2}
       /\ t.handles = [s.handles EXCEPT ![s.chunks[h2].ptr] = kInvalidChunkHandle]
  BY <1>5 DEF Merged
<1>5b. /\ t.chunks[h1] = [s.chunks[h1] EXCEPT !.next = after,
                                              !.size = s.chunks[h1].size + s.chunks[h2].size]
       /\ after # kInvalidChunkHandle => t.chunks[after] = [s.chunks[after] EXCEPT !.prev = h1]
       /\ \A k \in Handles(s) \ {h1, h2, after} : t.chunks[k] = s.chunks[k]
  BY <1>5 DEF Merged
\* The new geometry.
<1>6. /\ t.chunks[h1].ptr = s.chunks[h1].ptr /\ t.chunks[h1].prev = s.chunks[h1].prev
      /\ t.chunks[h1].next = after
      /\ t.chunks[h1].size = s.chunks[h1].size + s.chunks[h2].size
      /\ End(t, h1) = End(s, h2)
  <2>1. s.chunks[h1] \in ChunkType /\ s.chunks[h1].ptr \in Nat /\ s.chunks[h1].size \in Nat
        /\ s.chunks[h2].ptr \in Nat /\ s.chunks[h2].size \in Nat
    BY <1>2, LiveFields
  <2>2. /\ t.chunks[h1].ptr = s.chunks[h1].ptr /\ t.chunks[h1].prev = s.chunks[h1].prev
        /\ t.chunks[h1].next = after
        /\ t.chunks[h1].size = s.chunks[h1].size + s.chunks[h2].size
    BY <1>5b, <2>1 DEF ChunkType
  <2> QED BY <1>2, <2>1, <2>2 DEF End
<1>7. ASSUME after # kInvalidChunkHandle
      PROVE  /\ t.chunks[after].ptr = s.chunks[after].ptr /\ t.chunks[after].size = s.chunks[after].size
             /\ t.chunks[after].next = s.chunks[after].next /\ t.chunks[after].prev = h1
  <2>1. s.chunks[after] \in ChunkType
    BY <1>2, <1>7, LiveFields
  <2> QED BY <1>5b, <1>7, <2>1 DEF ChunkType
<1>8. \A k \in LiveHandles(t) \ {h1} :
         /\ t.chunks[k].ptr = s.chunks[k].ptr /\ t.chunks[k].size = s.chunks[k].size
         /\ t.chunks[k].next = s.chunks[k].next /\ End(t, k) = End(s, k)
         /\ k # after => t.chunks[k].prev = s.chunks[k].prev
  <2> SUFFICES ASSUME NEW k \in LiveHandles(t) \ {h1}
               PROVE  /\ t.chunks[k].ptr = s.chunks[k].ptr /\ t.chunks[k].size = s.chunks[k].size
                      /\ t.chunks[k].next = s.chunks[k].next
                      /\ k # after => t.chunks[k].prev = s.chunks[k].prev
    BY DEF End
  <2>1. k \in LiveHandles(s) /\ k # h2 /\ k \in Handles(s) /\ k # kInvalidChunkHandle
    BY <1>5a, LiveFields
  <2>2. CASE k = after
    BY <1>7, <2>1, <2>2
  <2>3. CASE k # after
    BY <1>5b, <2>1, <2>3
  <2> QED BY <2>2, <2>3
<1>9. \A k \in LiveHandles(s) : k \in Nat /\ s.chunks[k].ptr \in Nat /\ s.chunks[k].size \in Nat
                                /\ s.chunks[k].size > 0 /\ End(s, k) = s.chunks[k].ptr + s.chunks[k].size
  BY LiveFields DEF Tiled, Sized, End
<1>10. Sized(t)
  <2>1. t.chunks[h1].size > 0
    BY <1>2, <1>6, <1>9
  <2>2. \A k \in LiveHandles(t) \ {h1} : t.chunks[k].size > 0
    BY <1>5a, <1>8, <1>9
  <2> QED BY <2>1, <2>2 DEF Sized
<1>11. ApartIn(t)
  <2>1. \A g \in LiveHandles(t) \ {h1} : End(t, h1) <= t.chunks[g].ptr \/ End(t, g) <= t.chunks[h1].ptr
    <3> SUFFICES ASSUME NEW g \in LiveHandles(t) \ {h1}
                 PROVE  End(s, h2) <= s.chunks[g].ptr \/ End(s, g) <= s.chunks[h1].ptr
      BY <1>6, <1>8
    <3>1. g \in LiveHandles(s) /\ g # h1 /\ g # h2
      BY <1>5a
    <3>2. /\ End(s, h1) <= s.chunks[g].ptr \/ End(s, g) <= s.chunks[h1].ptr
          /\ End(s, h2) <= s.chunks[g].ptr \/ End(s, g) <= s.chunks[h2].ptr
      BY <1>2, <3>1 DEF Tiled, ApartIn
    <3> QED BY <1>2, <1>9, <3>1, <3>2
  <2>2. ASSUME NEW k \in LiveHandles(t) \ {h1}, NEW g \in LiveHandles(t) \ {h1}, k # g
        PROVE  End(t, k) <= t.chunks[g].ptr \/ End(t, g) <= t.chunks[k].ptr
    <3>1. k \in LiveHandles(s) /\ g \in LiveHandles(s)
      BY <1>5a
    <3>2. End(s, k) <= s.chunks[g].ptr \/ End(s, g) <= s.chunks[k].ptr
      BY <2>2, <3>1 DEF Tiled, ApartIn
    <3> QED BY <1>8, <3>2
  <2> QED BY <2>1, <2>2 DEF ApartIn
<1>12. Linked(t, R)
  <2> SUFFICES ASSUME NEW k \in LiveHandles(t) PROVE NextLinked(t, R, k) /\ PrevLinked(t, R, k)
    BY DEF Linked
  <2>0. k \in LiveHandles(s) /\ k # h2 /\ NextLinked(s, R, k) /\ PrevLinked(s, R, k)
        /\ NextLinked(s, R, h2)
    BY <1>2, <1>5a DEF Tiled, Linked
  <2>1. CASE k = h1
    <3>1. NextLinked(t, R, k)
      <4>1. CASE after = kInvalidChunkHandle
        <5>1. \E r \in R : r.ptr + r.size = End(s, h2)
          BY <1>1, <2>0, <4>1 DEF NextLinked
        <5> QED BY <1>6, <2>1, <4>1, <5>1 DEF NextLinked
      <4>2. CASE after # kInvalidChunkHandle
        <5>1. after \in LiveHandles(t)
          BY <1>2, <1>5a, <4>2
        <5>2. t.chunks[after].prev = h1 /\ t.chunks[after].ptr = End(t, h1)
          BY <1>3, <1>6, <1>7, <4>2
        <5> QED BY <1>6, <2>1, <4>2, <5>1, <5>2 DEF NextLinked
      <4> QED BY <4>1, <4>2
    <3>2. s.chunks[h1].prev # kInvalidChunkHandle =>
            /\ s.chunks[h1].prev \in LiveHandles(t)
            /\ t.chunks[s.chunks[h1].prev].next = h1
      <4> SUFFICES ASSUME NEW p, p = s.chunks[h1].prev, p # kInvalidChunkHandle
                   PROVE  p \in LiveHandles(t) /\ t.chunks[p].next = h1
        OBVIOUS
      <4>1. p \in LiveHandles(s) /\ s.chunks[p].next = h1
        BY <2>0, <2>1 DEF PrevLinked
      <4>2. p # h1
        BY <4>1, <1>2
      <4>3. p # h2
        BY <1>1, <1>3, <4>1
      <4> QED BY <1>5a, <1>8, <4>1, <4>2, <4>3
    <3> QED BY <1>6, <2>0, <2>1, <3>1, <3>2 DEF PrevLinked
  <2>2. CASE k # h1
    <3>0. k \in LiveHandles(t) \ {h1}
      BY <2>2
    <3>1. NextLinked(t, R, k)
      <4>1. CASE s.chunks[k].next = kInvalidChunkHandle
        BY <1>8, <2>0, <3>0, <4>1 DEF NextLinked
      <4>2. CASE s.chunks[k].next # kInvalidChunkHandle
        <5>1. PICK n : n = s.chunks[k].next
          OBVIOUS
        <5>2. n \in LiveHandles(s) /\ s.chunks[n].prev = k /\ s.chunks[n].ptr = End(s, k)
          BY <2>0, <4>2, <5>1 DEF NextLinked
        <5>3. n # h2 /\ n # after
          BY <1>2, <1>3, <2>0, <2>2, <4>2, <5>1, <5>2
        <5>4. n \in LiveHandles(t) /\ t.chunks[n].prev = k /\ t.chunks[n].ptr = End(s, k)
          <6>1. n \in LiveHandles(t)
            BY <1>5a, <5>2, <5>3
          <6>2. CASE n = h1
            BY <1>6, <5>2, <6>1, <6>2
          <6>3. CASE n # h1
            <7>1. n \in LiveHandles(t) \ {h1}
              BY <6>1, <6>3
            <7> QED BY <1>8, <5>2, <5>3, <7>1
          <6> QED BY <6>2, <6>3
        <5> QED BY <1>8, <3>0, <4>2, <5>1, <5>4 DEF NextLinked
      <4> QED BY <4>1, <4>2
    <3>2. PrevLinked(t, R, k)
      <4>1. CASE k = after
        <5>1. t.chunks[k].prev = h1 /\ h1 # kInvalidChunkHandle /\ h1 \in LiveHandles(t)
          BY <1>2, <1>5a, <1>7, <2>0, <4>1, LiveFields
        <5> QED BY <1>6, <4>1, <5>1 DEF PrevLinked
      <4>2. CASE k # after
        <5>1. t.chunks[k].prev = s.chunks[k].prev /\ t.chunks[k].ptr = s.chunks[k].ptr
          BY <1>8, <3>0, <4>2
        <5>2. CASE s.chunks[k].prev = kInvalidChunkHandle
          BY <2>0, <5>1, <5>2 DEF PrevLinked
        <5>3. CASE s.chunks[k].prev # kInvalidChunkHandle
          <6>1. PICK p : p = s.chunks[k].prev
            OBVIOUS
          <6>2. p \in LiveHandles(s) /\ s.chunks[p].next = k
            BY <2>0, <5>3, <6>1 DEF PrevLinked
          <6>3. p # h2 /\ p # h1
            BY <1>1, <2>0, <4>2, <6>2
          <6>4. p \in LiveHandles(t) /\ t.chunks[p].next = k
            BY <1>5a, <1>8, <6>2, <6>3
          <6> QED BY <5>1, <5>3, <6>1, <6>4 DEF PrevLinked
        <5> QED BY <5>2, <5>3
      <4> QED BY <4>1, <4>2
    <3> QED BY <3>1, <3>2
  <2> QED BY <2>1, <2>2
<1>13. Inside(t, R)
  <2>1. \A r \in R : Contains(r, t, h1) <=> Contains(r, s, h1)
    <3> SUFFICES ASSUME NEW r \in R PROVE Contains(r, t, h1) <=> Contains(r, s, h1)
      OBVIOUS
    <3>1. Contains(r, s, h1) <=> Contains(r, s, h2)
      BY DEF Tiled, Inside
    <3>2. r.ptr \in Nat /\ r.size \in Nat
      BY DEF GoodRegions
    <3> QED BY <1>2, <1>6, <1>9, <3>1, <3>2 DEF Contains
  <2>2. \A k \in LiveHandles(t) : \A r \in R : Contains(r, t, k) <=> Contains(r, s, k)
    BY <1>8, <2>1 DEF Contains
  <2>3. \A r \in R : (Contains(r, s, h1) <=> Contains(r, s, h2))
                     /\ (after # kInvalidChunkHandle => (Contains(r, s, h2) <=> Contains(r, s, after)))
    BY <1>1, <1>2 DEF Tiled, Inside
  <2> SUFFICES ASSUME NEW k \in LiveHandles(t)
               PROVE  /\ \E r \in R : Contains(r, t, k)
                      /\ t.chunks[k].next # kInvalidChunkHandle =>
                            \A r \in R : Contains(r, t, k) <=> Contains(r, t, t.chunks[k].next)
    BY DEF Inside
  <2>4. \E r \in R : Contains(r, t, k)
    BY <1>5a, <2>2 DEF Tiled, Inside
  <2>5. t.chunks[k].next # kInvalidChunkHandle => t.chunks[k].next \in LiveHandles(t)
    BY <1>12 DEF Linked, NextLinked
  <2>6. CASE k = h1
    BY <1>6, <2>2, <2>3, <2>4, <2>5, <2>6
  <2>7. CASE k # h1
    <3>1. k \in LiveHandles(s) /\ t.chunks[k].next = s.chunks[k].next
      BY <1>5a, <1>8, <2>7
    <3>2. s.chunks[k].next # kInvalidChunkHandle =>
             \A r \in R : Contains(r, s, k) <=> Contains(r, s, s.chunks[k].next)
      BY <3>1 DEF Tiled, Inside
    <3> QED BY <2>2, <2>4, <2>5, <3>1, <3>2
  <2> QED BY <2>6, <2>7
<1>14. Mapped(t)
  <2>1. \A k \in LiveHandles(t) : t.chunks[k].ptr = s.chunks[k].ptr
    BY <1>6, <1>8
  <2>2. \A k \in LiveHandles(t) : s.chunks[k].ptr # s.chunks[h2].ptr
    <3> SUFFICES ASSUME NEW k \in LiveHandles(t), s.chunks[k].ptr = s.chunks[h2].ptr PROVE FALSE
      OBVIOUS
    <3>1. k \in LiveHandles(s) /\ k # h2
      BY <1>5a
    <3>2. End(s, k) <= s.chunks[h2].ptr \/ End(s, h2) <= s.chunks[k].ptr
      BY <1>2, <3>1 DEF Tiled, ApartIn
    <3> QED BY <1>2, <1>9, <3>1, <3>2
  <2>3. s.handles \in [Addr -> Nat]
    BY HeapFields DEF ShapeOK
  <2>4. \A k \in LiveHandles(t) : k \in LiveHandles(s) /\ s.chunks[k].ptr \in Addr
    BY <1>5a, LiveAddr
  <2>5. ASSUME NEW k \in LiveHandles(t) PROVE t.handles[t.chunks[k].ptr] = k
    <3>1. s.handles[s.chunks[k].ptr] = k
      BY <2>4 DEF Tiled, Mapped
    <3> QED BY <1>4, <1>5a, <2>1, <2>2, <2>3, <2>4, <3>1
  <2>6. ASSUME NEW p \in Addr, t.handles[p] # kInvalidChunkHandle
        PROVE  t.handles[p] \in LiveHandles(t) /\ t.chunks[t.handles[p]].ptr = p
    <3>1. p # s.chunks[h2].ptr /\ t.handles[p] = s.handles[p]
      BY <1>4, <1>5a, <2>3, <2>6
    <3>2. s.handles[p] \in LiveHandles(s) /\ s.chunks[s.handles[p]].ptr = p
      BY <2>6, <3>1 DEF Tiled, Mapped
    <3> QED BY <1>5a, <2>1, <3>1, <3>2
  <2> QED BY <2>5, <2>6 DEF Mapped
<1> QED BY <1>10, <1>11, <1>12, <1>13, <1>14 DEF Tiled

\* Bytes lie in at most one region.
LEMMA OneRegion ==
    ASSUME NEW R, GoodRegions(R), NEW r \in R, NEW q \in R, NEW x \in Nat, NEW y \in Nat, x < y,
           r.ptr <= x, y <= r.ptr + r.size, q.ptr <= x, y <= q.ptr + q.size
    PROVE  r = q
<1>1. r.ptr \in Nat /\ r.size \in Nat /\ q.ptr \in Nat /\ q.size \in Nat
  BY DEF GoodRegions
<1>2. r # q => r.ptr + r.size <= q.ptr \/ q.ptr + q.size <= r.ptr
  BY DEF GoodRegions
<1> QED BY <1>1, <1>2

\* SplitChunk keeps the regions tiled.
LEMMA SplitTiled ==
    ASSUME NEW s, NEW R, ShapeOK(s), Tiled(s, R), GoodRegions(R),
           NEW h \in LiveHandles(s), NEW n \in Nat, 0 < n, n < s.chunks[h].size,
           NEW after, after = s.chunks[h].next,
           NEW g, NEW b, NEW t, SplitOff(s, h, n, after, g, b, t)
    PROVE  Tiled(t, R)
<1>1. \A k \in LiveHandles(s) : k \in Nat /\ s.chunks[k].ptr \in Nat /\ s.chunks[k].size \in Nat
                                /\ s.chunks[k].size > 0 /\ End(s, k) = s.chunks[k].ptr + s.chunks[k].size
                                /\ k \in Handles(s) /\ k # kInvalidChunkHandle
  BY LiveFields DEF Tiled, Sized, End
<1>2. /\ LiveHandles(t) = LiveHandles(s) \cup {g} /\ g \notin LiveHandles(s) /\ ShapeOK(t)
      /\ t.handles = [s.handles EXCEPT ![s.chunks[h].ptr + n] = g]
  BY DEF SplitOff
<1>3. /\ after # h
      /\ after # kInvalidChunkHandle =>
            after \in LiveHandles(s) /\ s.chunks[after].prev = h /\ s.chunks[after].ptr = End(s, h)
  BY <1>1, NextIsOther
<1>4. h # g /\ after # g
  <2>1. g \in LiveHandles(t) /\ h \in LiveHandles(t)
    BY <1>2
  <2>2. g # kInvalidChunkHandle
    BY <1>2, <2>1, LiveFields
  <2> QED BY <1>2, <1>3, <2>2
\* The new geometry.
<1>5. /\ t.chunks[h].ptr = s.chunks[h].ptr /\ t.chunks[h].prev = s.chunks[h].prev
      /\ t.chunks[h].next = g /\ t.chunks[h].size = n
  <2>1. s.chunks[h] \in ChunkType
    BY LiveFields
  <2> QED BY <2>1 DEF ChunkType, SplitOff
<1>6. /\ t.chunks[g].ptr = s.chunks[h].ptr + n /\ t.chunks[g].size = s.chunks[h].size - n
      /\ t.chunks[g].prev = h /\ t.chunks[g].next = after
  BY DEF SplitOff
<1>7. /\ End(t, h) = t.chunks[g].ptr /\ End(t, g) = End(s, h) /\ t.chunks[g].ptr \in Nat
      /\ s.chunks[h].ptr < t.chunks[g].ptr /\ t.chunks[g].ptr < End(s, h)
  BY <1>1, <1>5, <1>6 DEF End
<1>8. ASSUME after # kInvalidChunkHandle
      PROVE  /\ t.chunks[after].ptr = s.chunks[after].ptr /\ t.chunks[after].size = s.chunks[after].size
             /\ t.chunks[after].next = s.chunks[after].next /\ t.chunks[after].prev = g
  <2>1. s.chunks[after] \in ChunkType
    BY <1>3, <1>8, LiveFields
  <2> QED BY <1>8, <2>1 DEF ChunkType, SplitOff
<1>9. \A k \in LiveHandles(s) \ {h} :
         /\ t.chunks[k].ptr = s.chunks[k].ptr /\ t.chunks[k].size = s.chunks[k].size
         /\ t.chunks[k].next = s.chunks[k].next /\ End(t, k) = End(s, k)
         /\ k # after => t.chunks[k].prev = s.chunks[k].prev
  <2> SUFFICES ASSUME NEW k \in LiveHandles(s) \ {h}
               PROVE  /\ t.chunks[k].ptr = s.chunks[k].ptr /\ t.chunks[k].size = s.chunks[k].size
                      /\ t.chunks[k].next = s.chunks[k].next
                      /\ k # after => t.chunks[k].prev = s.chunks[k].prev
    BY DEF End
  <2>1. k \in Handles(s) /\ k # g /\ k # kInvalidChunkHandle
    BY <1>1, <1>2
  <2>2. CASE k = after
    BY <1>8, <2>1, <2>2
  <2>3. CASE k # after
    <3>1. t.chunks[k] = s.chunks[k]
      BY <2>1, <2>3 DEF SplitOff
    <3> QED BY <3>1
  <2> QED BY <2>2, <2>3
<1>10. Sized(t)
  <2>1. t.chunks[h].size > 0 /\ t.chunks[g].size > 0
    BY <1>1, <1>5, <1>6
  <2>2. \A k \in LiveHandles(s) \ {h} : t.chunks[k].size > 0
    BY <1>1, <1>9
  <2> QED BY <1>2, <2>1, <2>2 DEF Sized
<1>11. ApartIn(t)
  <2>1. ASSUME NEW k \in LiveHandles(s) \ {h}
        PROVE  /\ End(t, h) <= t.chunks[k].ptr \/ End(t, k) <= t.chunks[h].ptr
               /\ End(t, g) <= t.chunks[k].ptr \/ End(t, k) <= t.chunks[g].ptr
    <3>1. End(s, h) <= s.chunks[k].ptr \/ End(s, k) <= s.chunks[h].ptr
      BY DEF Tiled, ApartIn
    <3>2. /\ s.chunks[k].ptr \in Nat /\ End(s, k) \in Nat /\ s.chunks[h].ptr \in Nat /\ End(s, h) \in Nat
          /\ t.chunks[k].ptr = s.chunks[k].ptr /\ End(t, k) = End(s, k)
      BY <1>1, <1>9
    <3> QED BY <1>5, <1>7, <3>1, <3>2
  <2>2. ASSUME NEW k \in LiveHandles(s) \ {h}, NEW j \in LiveHandles(s) \ {h}, k # j
        PROVE  End(t, k) <= t.chunks[j].ptr \/ End(t, j) <= t.chunks[k].ptr
    <3>1. End(s, k) <= s.chunks[j].ptr \/ End(s, j) <= s.chunks[k].ptr
      BY <2>2 DEF Tiled, ApartIn
    <3> QED BY <1>9, <3>1
  <2>3. End(t, h) <= t.chunks[g].ptr
    BY <1>7
  <2> SUFFICES ASSUME NEW k \in LiveHandles(t), NEW j \in LiveHandles(t), k # j
               PROVE  End(t, k) <= t.chunks[j].ptr \/ End(t, j) <= t.chunks[k].ptr
    BY DEF ApartIn
  <2>4. \/ k \in {h, g} /\ j \in {h, g}
        \/ k \in {h, g} /\ j \in LiveHandles(s) \ {h}
        \/ k \in LiveHandles(s) \ {h} /\ j \in {h, g}
        \/ k \in LiveHandles(s) \ {h} /\ j \in LiveHandles(s) \ {h}
    BY <1>2
  <2> QED BY <2>1, <2>2, <2>3, <2>4
<1>12. Linked(t, R)
  <2>0. NextLinked(s, R, h) /\ PrevLinked(s, R, h)
    BY DEF Tiled, Linked
  <2>1. NextLinked(t, R, h)
    <3>1. g \in LiveHandles(t) /\ g # kInvalidChunkHandle
      BY <1>2, LiveFields
    <3> QED BY <1>5, <1>6, <1>7, <3>1 DEF NextLinked
  <2>2. PrevLinked(t, R, g)
    BY <1>1, <1>2, <1>5, <1>6 DEF PrevLinked
  <2>3. NextLinked(t, R, g)
    <3>1. CASE after = kInvalidChunkHandle
      <4>1. \E r \in R : r.ptr + r.size = End(s, h)
        BY <2>0, <3>1 DEF NextLinked
      <4> QED BY <1>6, <1>7, <3>1, <4>1 DEF NextLinked
    <3>2. CASE after # kInvalidChunkHandle
      <4>1. after \in LiveHandles(t) /\ t.chunks[after].prev = g /\ t.chunks[after].ptr = End(t, g)
        BY <1>2, <1>3, <1>7, <1>8, <3>2
      <4> QED BY <1>6, <3>2, <4>1 DEF NextLinked
    <3> QED BY <3>1, <3>2
  <2>4. PrevLinked(t, R, h)
    <3>1. CASE s.chunks[h].prev = kInvalidChunkHandle
      BY <1>5, <2>0, <3>1 DEF PrevLinked
    <3>2. CASE s.chunks[h].prev # kInvalidChunkHandle
      <4>1. PICK p : p = s.chunks[h].prev
        OBVIOUS
      <4>2. p \in LiveHandles(s) /\ s.chunks[p].next = h
        BY <2>0, <3>2, <4>1 DEF PrevLinked
      <4>3. p # h
        BY <1>3, <4>2
      <4>4. p \in LiveHandles(s) \ {h}
        BY <4>2, <4>3
      <4>5. p \in LiveHandles(t) /\ t.chunks[p].next = h
        BY <1>2, <1>9, <4>2, <4>4
      <4> QED BY <1>5, <3>2, <4>1, <4>5 DEF PrevLinked
    <3> QED BY <3>1, <3>2
  <2>5. ASSUME NEW k \in LiveHandles(s) \ {h} PROVE NextLinked(t, R, k)
    <3>0. NextLinked(s, R, k) /\ t.chunks[k].next = s.chunks[k].next /\ End(t, k) = End(s, k)
      BY <1>9 DEF Tiled, Linked
    <3>1. CASE s.chunks[k].next = kInvalidChunkHandle
      BY <3>0, <3>1 DEF NextLinked
    <3>2. CASE s.chunks[k].next # kInvalidChunkHandle
      <4>1. PICK m : m = s.chunks[k].next
        OBVIOUS
      <4>2. m \in LiveHandles(s) /\ s.chunks[m].prev = k /\ s.chunks[m].ptr = End(s, k)
        BY <3>0, <3>2, <4>1 DEF NextLinked
      <4>3. m # after
        BY <1>3, <3>2, <4>1, <4>2
      <4>4. m \in LiveHandles(t) /\ t.chunks[m].prev = k /\ t.chunks[m].ptr = End(s, k)
        <5>1. CASE m = h
          BY <1>2, <1>5, <4>2, <5>1
        <5>2. CASE m # h
          <6>1. m \in LiveHandles(s) \ {h}
            BY <4>2, <5>2
          <6> QED BY <1>2, <1>9, <4>2, <4>3, <6>1
        <5> QED BY <5>1, <5>2
      <4> QED BY <3>0, <3>2, <4>1, <4>4 DEF NextLinked
    <3> QED BY <3>1, <3>2
  <2>6. ASSUME NEW k \in LiveHandles(s) \ {h} PROVE PrevLinked(t, R, k)
    <3>0. PrevLinked(s, R, k) /\ t.chunks[k].ptr = s.chunks[k].ptr
      BY <1>9 DEF Tiled, Linked
    <3>1. CASE k = after
      <4>1. t.chunks[k].prev = g /\ g \in LiveHandles(t) /\ t.chunks[g].next = k
        BY <1>1, <1>2, <1>6, <1>8, <3>1
      <4>2. g # kInvalidChunkHandle
        BY <1>2, <4>1, LiveFields
      <4> QED BY <4>1, <4>2 DEF PrevLinked
    <3>2. CASE k # after
      <4>0. t.chunks[k].prev = s.chunks[k].prev
        BY <1>9, <3>2
      <4>1. CASE s.chunks[k].prev = kInvalidChunkHandle
        BY <3>0, <4>0, <4>1 DEF PrevLinked
      <4>2. CASE s.chunks[k].prev # kInvalidChunkHandle
        <5>1. PICK p : p = s.chunks[k].prev
          OBVIOUS
        <5>2. p \in LiveHandles(s) /\ s.chunks[p].next = k
          BY <3>0, <4>2, <5>1 DEF PrevLinked
        <5>3. p \in LiveHandles(s) \ {h}
          BY <3>2, <5>2
        <5>4. p \in LiveHandles(t) /\ t.chunks[p].next = k
          BY <1>2, <1>9, <5>2, <5>3
        <5> QED BY <4>0, <4>2, <5>1, <5>4 DEF PrevLinked
      <4> QED BY <4>1, <4>2
    <3> QED BY <3>1, <3>2
  <2> SUFFICES ASSUME NEW k \in LiveHandles(t) PROVE NextLinked(t, R, k) /\ PrevLinked(t, R, k)
    BY DEF Linked
  <2>7. k = h \/ k = g \/ k \in LiveHandles(s) \ {h}
    BY <1>2
  <2> QED BY <2>1, <2>2, <2>3, <2>4, <2>5, <2>6, <2>7
<1>13. Inside(t, R)
  <2>0. PICK home \in R : Contains(home, s, h)
    BY DEF Tiled, Inside
  <2>1. s.chunks[h].ptr \in Nat /\ End(s, h) \in Nat
    BY <1>1
  <2>2. \A r \in R : r.ptr \in Nat /\ r.size \in Nat
    BY DEF GoodRegions
  <2>3. ASSUME NEW r \in R PROVE Contains(r, t, h) <=> Contains(r, s, h)
    <3>1. Contains(r, s, h) => Contains(r, t, h)
      BY <1>5, <1>7, <2>1, <2>2 DEF Contains
    <3>2. Contains(home, t, h)
      BY <1>5, <1>7, <2>0, <2>1, <2>2 DEF Contains
    <3>3. Contains(r, t, h) => r = home
      BY <1>5, <1>7, <2>1, <3>2, OneRegion DEF Contains
    <3> QED BY <2>0, <3>1, <3>3
  <2>4. ASSUME NEW r \in R PROVE Contains(r, t, g) <=> Contains(r, s, h)
    <3>1. Contains(r, s, h) => Contains(r, t, g)
      BY <1>7, <2>1, <2>2 DEF Contains
    <3>2. Contains(home, t, g)
      BY <1>7, <2>0, <2>1, <2>2 DEF Contains
    <3>3. Contains(r, t, g) => r = home
      BY <1>7, <2>1, <3>2, OneRegion DEF Contains
    <3> QED BY <2>0, <3>1, <3>3
  <2>5. ASSUME NEW r \in R, NEW k \in LiveHandles(s) PROVE Contains(r, t, k) <=> Contains(r, s, k)
    <3>1. CASE k = h
      BY <2>3, <3>1
    <3>2. CASE k # h
      BY <1>9, <3>2 DEF Contains
    <3> QED BY <3>1, <3>2
  <2> SUFFICES ASSUME NEW k \in LiveHandles(t)
               PROVE  /\ \E r \in R : Contains(r, t, k)
                      /\ t.chunks[k].next # kInvalidChunkHandle =>
                            \A r \in R : Contains(r, t, k) <=> Contains(r, t, t.chunks[k].next)
    BY DEF Inside
  <2>6. CASE k = h
    BY <1>5, <2>0, <2>3, <2>4, <2>6
  <2>7. CASE k = g
    <3>1. \E r \in R : Contains(r, t, g)
      BY <2>0, <2>4
    <3>2. after # kInvalidChunkHandle => \A r \in R : Contains(r, s, h) <=> Contains(r, s, after)
      BY DEF Tiled, Inside
    <3>3. after # kInvalidChunkHandle => \A r \in R : Contains(r, t, after) <=> Contains(r, s, after)
      BY <1>3, <2>5
    <3> QED BY <1>6, <2>4, <2>7, <3>1, <3>2, <3>3
  <2>8. CASE k \in LiveHandles(s) \ {h}
    <3>1. \E r \in R : Contains(r, t, k)
      BY <2>5, <2>8 DEF Tiled, Inside
    <3>2. t.chunks[k].next = s.chunks[k].next
      BY <1>9, <2>8
    <3>3. s.chunks[k].next # kInvalidChunkHandle => s.chunks[k].next \in LiveHandles(s)
      BY <2>8 DEF Tiled, Linked, NextLinked
    <3>4. s.chunks[k].next # kInvalidChunkHandle =>
             \A r \in R : Contains(r, s, k) <=> Contains(r, s, s.chunks[k].next)
      BY <2>8 DEF Tiled, Inside
    <3> QED BY <2>5, <2>8, <3>1, <3>2, <3>3, <3>4
  <2> QED BY <1>2, <2>6, <2>7, <2>8
<1>14. Mapped(t)
  <2>0. s.handles \in [Addr -> Nat] /\ s.chunks[h].ptr + n \in Addr
    <3>1. s.chunks[h].ptr \in Addr /\ End(s, h) <= AddrSpace
      BY LiveAddr
    <3>2. s.chunks[h].ptr + n < End(s, h) /\ s.chunks[h].ptr + n \in Nat /\ End(s, h) \in Nat
      BY <1>1, <1>6, <1>7
    <3>3. s.chunks[h].ptr + n \in Addr
      BY <3>1, <3>2, ArenaConstants DEF Addr
    <3> QED BY <3>3, HeapFields DEF ShapeOK
  <2>1. \A k \in LiveHandles(s) : t.chunks[k].ptr = s.chunks[k].ptr
    BY <1>5, <1>9
  <2>2. ASSUME NEW k \in LiveHandles(s) PROVE s.chunks[k].ptr # t.chunks[g].ptr
    <3>1. CASE k = h
      BY <1>1, <1>7, <3>1
    <3>2. CASE k # h
      <4>1. End(s, h) <= s.chunks[k].ptr \/ End(s, k) <= s.chunks[h].ptr
        BY <3>2 DEF Tiled, ApartIn
      <4>2. s.chunks[k].ptr \in Nat /\ s.chunks[h].ptr \in Nat /\ End(s, h) \in Nat
            /\ s.chunks[k].ptr < End(s, k) /\ End(s, k) \in Nat
        BY <1>1
      <4> QED BY <1>7, <4>1, <4>2
    <3> QED BY <3>1, <3>2
  <2>3. ASSUME NEW k \in LiveHandles(t) PROVE t.handles[t.chunks[k].ptr] = k
    <3>1. CASE k = g
      BY <1>2, <1>6, <2>0, <3>1
    <3>2. CASE k # g
      <4>1. k \in LiveHandles(s)
        BY <1>2, <3>2
      <4>2. s.handles[s.chunks[k].ptr] = k /\ s.chunks[k].ptr \in Addr
        BY <4>1, LiveAddr DEF Tiled, Mapped
      <4>3. s.chunks[k].ptr # s.chunks[h].ptr + n
        BY <1>6, <2>2, <4>1
      <4> QED BY <1>2, <2>0, <2>1, <4>1, <4>2, <4>3
    <3> QED BY <3>1, <3>2
  <2>4. ASSUME NEW p \in Addr, t.handles[p] # kInvalidChunkHandle
        PROVE  t.handles[p] \in LiveHandles(t) /\ t.chunks[t.handles[p]].ptr = p
    <3>1. CASE p = s.chunks[h].ptr + n
      BY <1>2, <1>6, <2>0, <3>1
    <3>2. CASE p # s.chunks[h].ptr + n
      <4>1. t.handles[p] = s.handles[p]
        BY <1>2, <2>0, <3>2
      <4>2. s.handles[p] \in LiveHandles(s) /\ s.chunks[s.handles[p]].ptr = p
        BY <2>4, <4>1 DEF Tiled, Mapped
      <4> QED BY <1>2, <2>1, <4>1, <4>2
    <3> QED BY <3>1, <3>2
  <2> QED BY <2>3, <2>4 DEF Mapped
<1> QED BY <1>10, <1>11, <1>12, <1>13, <1>14 DEF Tiled

\* A region that lies apart from the others is tiled by its one chunk.
LEMMA AddRegionTiled ==
    ASSUME NEW s, NEW R, ShapeOK(s), Tiled(s, R), GoodRegions(R),
           NEW base \in Addr, NEW bytes \in Nat, bytes > 0,
           NEW r0, r0 = [ptr |-> base, size |-> bytes], GoodRegions(R \cup {r0}), r0 \notin R,
           NEW g, NEW b, NEW t, RegionAdded(s, base, bytes, g, b, t)
    PROVE  Tiled(t, R \cup {r0})
<1>1. \A k \in LiveHandles(s) : k \in Nat /\ s.chunks[k].ptr \in Nat /\ s.chunks[k].size \in Nat
                                /\ s.chunks[k].size > 0 /\ End(s, k) = s.chunks[k].ptr + s.chunks[k].size
                                /\ k \in Handles(s) /\ k # kInvalidChunkHandle
  BY LiveFields DEF Tiled, Sized, End
<1>2. /\ LiveHandles(t) = LiveHandles(s) \cup {g} /\ g \notin LiveHandles(s)
      /\ t.handles = [s.handles EXCEPT ![base] = g]
  BY DEF RegionAdded
<1>3. /\ t.chunks[g].ptr = base /\ t.chunks[g].size = bytes
      /\ t.chunks[g].prev = kInvalidChunkHandle /\ t.chunks[g].next = kInvalidChunkHandle
      /\ End(t, g) = base + bytes
  BY DEF RegionAdded, End
<1>4. \A k \in LiveHandles(s) : t.chunks[k] = s.chunks[k] /\ End(t, k) = End(s, k)
  BY <1>1, <1>2 DEF RegionAdded, End
<1>5. r0.ptr = base /\ r0.size = bytes /\ base \in Nat
  BY DEF Addr
<1>6. ASSUME NEW k \in LiveHandles(s)
      PROVE  End(s, k) <= base \/ base + bytes <= s.chunks[k].ptr
  <2>1. PICK r \in R : Contains(r, s, k)
    BY DEF Tiled, Inside
  <2>2. r.ptr \in Nat /\ r.size \in Nat /\ (r.ptr + r.size <= base \/ base + bytes <= r.ptr)
    BY <1>5 DEF GoodRegions
  <2> QED BY <1>1, <1>5, <2>1, <2>2 DEF Contains
<1>7. Sized(t)
  BY <1>1, <1>2, <1>3, <1>4 DEF Sized
<1>8. ApartIn(t)
  <2>1. \A k \in LiveHandles(s) : End(t, k) <= t.chunks[g].ptr \/ End(t, g) <= t.chunks[k].ptr
    BY <1>3, <1>4, <1>6
  <2>2. ASSUME NEW k \in LiveHandles(s), NEW j \in LiveHandles(s), k # j
        PROVE  End(t, k) <= t.chunks[j].ptr \/ End(t, j) <= t.chunks[k].ptr
    <3>1. End(s, k) <= s.chunks[j].ptr \/ End(s, j) <= s.chunks[k].ptr
      BY <2>2 DEF Tiled, ApartIn
    <3> QED BY <1>4, <3>1
  <2> QED BY <1>2, <2>1, <2>2 DEF ApartIn
<1>9. Linked(t, R \cup {r0})
  <2>1. NextLinked(t, R \cup {r0}, g) /\ PrevLinked(t, R \cup {r0}, g)
    BY <1>3, <1>5 DEF NextLinked, PrevLinked
  <2>2. ASSUME NEW k \in LiveHandles(s)
        PROVE  NextLinked(t, R \cup {r0}, k) /\ PrevLinked(t, R \cup {r0}, k)
    <3>1. NextLinked(s, R, k) /\ PrevLinked(s, R, k)
      BY DEF Tiled, Linked
    <3>2. NextLinked(t, R \cup {r0}, k)
      BY <1>2, <1>4, <3>1 DEF NextLinked
    <3>3. PrevLinked(t, R \cup {r0}, k)
      BY <1>2, <1>4, <3>1 DEF PrevLinked
    <3> QED BY <3>2, <3>3
  <2> QED BY <1>2, <2>1, <2>2 DEF Linked
<1>10. Inside(t, R \cup {r0})
  <2>1. Contains(r0, t, g)
    BY <1>3, <1>5 DEF Contains
  <2>2. ASSUME NEW k \in LiveHandles(s) PROVE ~Contains(r0, t, k)
    BY <1>1, <1>4, <1>5, <1>6 DEF Contains
  <2>3. \A k \in LiveHandles(s) : \A r \in R : Contains(r, t, k) <=> Contains(r, s, k)
    BY <1>4 DEF Contains
  <2>4. ASSUME NEW k \in LiveHandles(s)
        PROVE  /\ \E r \in R \cup {r0} : Contains(r, t, k)
               /\ t.chunks[k].next # kInvalidChunkHandle =>
                     \A r \in R \cup {r0} : Contains(r, t, k) <=> Contains(r, t, t.chunks[k].next)
    <3>1. s.chunks[k].next # kInvalidChunkHandle => s.chunks[k].next \in LiveHandles(s)
      BY DEF Tiled, Linked, NextLinked
    <3>2. /\ \E r \in R : Contains(r, s, k)
          /\ s.chunks[k].next # kInvalidChunkHandle =>
                \A r \in R : Contains(r, s, k) <=> Contains(r, s, s.chunks[k].next)
      BY DEF Tiled, Inside
    <3> QED BY <1>4, <2>2, <2>3, <3>1, <3>2
  <2> QED BY <1>2, <1>3, <2>1, <2>4 DEF Inside
<1>11. Mapped(t)
  <2>0. s.handles \in [Addr -> Nat]
    BY HeapFields DEF ShapeOK
  <2>1. ASSUME NEW k \in LiveHandles(s) PROVE s.chunks[k].ptr # base
    BY <1>1, <1>5, <1>6
  <2>2. ASSUME NEW k \in LiveHandles(t) PROVE t.handles[t.chunks[k].ptr] = k
    <3>1. CASE k = g
      BY <1>2, <1>3, <2>0, <3>1
    <3>2. CASE k # g
      <4>1. k \in LiveHandles(s)
        BY <1>2, <3>2
      <4>2. s.handles[s.chunks[k].ptr] = k /\ s.chunks[k].ptr \in Addr
        BY <4>1, LiveAddr DEF Tiled, Mapped
      <4> QED BY <1>2, <1>4, <2>0, <2>1, <4>1, <4>2
    <3> QED BY <3>1, <3>2
  <2>3. ASSUME NEW p \in Addr, t.handles[p] # kInvalidChunkHandle
        PROVE  t.handles[p] \in LiveHandles(t) /\ t.chunks[t.handles[p]].ptr = p
    <3>1. CASE p = base
      BY <1>2, <1>3, <2>0, <3>1
    <3>2. CASE p # base
      <4>1. t.handles[p] = s.handles[p]
        BY <1>2, <2>0, <3>2
      <4>2. s.handles[p] \in LiveHandles(s) /\ s.chunks[s.handles[p]].ptr = p
        BY <2>3, <4>1 DEF Tiled, Mapped
      <4> QED BY <1>2, <1>4, <4>1, <4>2
    <3> QED BY <3>1, <3>2
  <2> QED BY <2>2, <2>3 DEF Mapped
<1> QED BY <1>7, <1>8, <1>9, <1>10, <1>11 DEF Tiled

-----------------------------------------------------------------------------
(* The bins, and what clients hold. *)

\* The chunks that clients hold, and those that can be given out.
InUse(s) == {h \in LiveHandles(s) : s.chunks[h].in_use}
FreeChunks(s) == {h \in LiveHandles(s) : ~ s.chunks[h].in_use}

\* The bins hold the chunks of F, each in the bin of its size.
Binned(s, F) ==
    /\ F \subseteq LiveHandles(s)
    /\ \A b \in BinNum : s.bins[b] = {h \in F : BinNumForSize(s.chunks[h].size) = b}
    /\ \A h \in F : s.chunks[h].bin_num = BinNumForSize(s.chunks[h].size)
    /\ \A h \in Handles(s) \ F : s.chunks[h].bin_num = kInvalidBinNum

\* Two heaps with the same chunks, whatever the bins.
SameChunks(s, t) ==
    /\ LiveHandles(t) = LiveHandles(s) /\ t.handles = s.handles
    /\ \A h \in LiveHandles(s) :
          /\ t.chunks[h].ptr = s.chunks[h].ptr /\ t.chunks[h].size = s.chunks[h].size
          /\ t.chunks[h].prev = s.chunks[h].prev /\ t.chunks[h].next = s.chunks[h].next
          /\ t.chunks[h].in_use = s.chunks[h].in_use
          /\ t.chunks[h].requested_size = s.chunks[h].requested_size

\* Clients hold the same chunks, unmoved.
SameHeld(s, t) ==
    /\ InUse(t) = InUse(s)
    /\ \A h \in InUse(s) : /\ t.chunks[h].ptr = s.chunks[h].ptr
                           /\ t.chunks[h].size = s.chunks[h].size
                           /\ t.chunks[h].requested_size = s.chunks[h].requested_size

\* Changing the bins moves no chunk.
LEMMA SameChunksHeld ==
    ASSUME NEW s, NEW t, SameChunks(s, t)
    PROVE  SameHeld(s, t) /\ FreeChunks(t) = FreeChunks(s)
BY DEF SameChunks, SameHeld, InUse, FreeChunks

\* Clients hold the same after two steps that each leave what they hold alone.
LEMMA HeldTransitive ==
    ASSUME NEW s, NEW t, NEW u, SameHeld(s, t), SameHeld(t, u)
    PROVE  SameHeld(s, u)
BY DEF SameHeld

\* A chunk goes into its bin.
LEMMA InsertKeeps ==
    ASSUME NEW s, NEW R, NEW F, ShapeOK(s), Tiled(s, R), Binned(s, F),
           NEW h \in LiveHandles(s), h \notin F, NEW t, t = InsertFreeChunkIntoBin(s, h)
    PROVE  ShapeOK(t) /\ Tiled(t, R) /\ Binned(t, F \cup {h}) /\ SameChunks(s, t)
<1>1. h \in Handles(s) /\ s.chunks[h] \in ChunkType /\ h \in Nat
  BY LiveFields
<1>2. /\ ShapeOK(t) /\ Handles(t) = Handles(s) /\ LiveHandles(t) = LiveHandles(s)
      /\ t.handles = s.handles /\ t.free_list = s.free_list
      /\ t.chunks[h] = [s.chunks[h] EXCEPT !.bin_num = BinNumForSize(s.chunks[h].size)]
      /\ \A g \in Handles(s) : g # h => t.chunks[g] = s.chunks[g]
      /\ t.bins = [s.bins EXCEPT ![BinNumForSize(s.chunks[h].size)] = @ \cup {h}]
  BY <1>1, InsertFacts
<1>3. PICK b \in BinNum : b = BinNumForSize(s.chunks[h].size)
  BY <1>1, ChunkFields, BinLeast
<1>4. /\ t.chunks[h].ptr = s.chunks[h].ptr /\ t.chunks[h].size = s.chunks[h].size
      /\ t.chunks[h].prev = s.chunks[h].prev /\ t.chunks[h].next = s.chunks[h].next
      /\ t.chunks[h].in_use = s.chunks[h].in_use
      /\ t.chunks[h].requested_size = s.chunks[h].requested_size
      /\ t.chunks[h].bin_num = b
  BY <1>1, <1>2, <1>3 DEF ChunkType
<1>5. \A k \in Handles(s) \ {h} : t.chunks[k] = s.chunks[k]
  BY <1>2
<1>6. SameChunks(s, t)
  <2>1. LiveHandles(s) \subseteq Handles(s)
    BY LiveAreHandles
  <2> QED BY <1>2, <1>4, <1>5, <2>1 DEF SameChunks
<1>7. Tiled(t, R)
  BY <1>6, TiledSame DEF SameChunks, SamePlaces
<1>8. ASSUME NEW k \in BinNum
      PROVE  t.bins[k] = {g \in F \cup {h} : BinNumForSize(t.chunks[g].size) = k}
  <2>1. s.bins[k] = {g \in F : BinNumForSize(s.chunks[g].size) = k}
    BY DEF Binned
  <2>2. \A g \in F \cup {h} : t.chunks[g].size = s.chunks[g].size
    BY <1>6 DEF SameChunks, Binned
  <2>3. t.bins[k] = IF k = b THEN s.bins[k] \cup {h} ELSE s.bins[k]
    <3>1. s.bins \in [BinNum -> SUBSET Nat]
      BY HeapFields DEF ShapeOK
    <3> QED BY <1>2, <1>3, <3>1
  <2> QED BY <1>3, <2>1, <2>2, <2>3
<1>9. Binned(t, F \cup {h})
  <2>1. \A k \in F : k \in Handles(s) \ {h} /\ s.chunks[k].bin_num = BinNumForSize(s.chunks[k].size)
    BY LiveAreHandles DEF Binned
  <2>2. \A k \in Handles(s) \ (F \cup {h}) : s.chunks[k].bin_num = kInvalidBinNum
    BY DEF Binned
  <2>3. F \cup {h} \subseteq LiveHandles(t)
    BY <1>2 DEF Binned
  <2>4. \A k \in F \cup {h} : t.chunks[k].bin_num = BinNumForSize(t.chunks[k].size)
    BY <1>3, <1>4, <1>5, <2>1
  <2>5. \A k \in Handles(t) \ (F \cup {h}) : t.chunks[k].bin_num = kInvalidBinNum
    BY <1>2, <1>5, <2>2
  <2> QED BY <1>8, <2>3, <2>4, <2>5 DEF Binned
<1> QED BY <1>2, <1>6, <1>7, <1>9

\* A chunk leaves its bin.
LEMMA RemoveKeeps ==
    ASSUME NEW s, NEW R, NEW F, ShapeOK(s), Tiled(s, R), Binned(s, F),
           NEW h \in F, NEW t, t = RemoveFreeChunkFromBin(s, h)
    PROVE  ShapeOK(t) /\ Tiled(t, R) /\ Binned(t, F \ {h}) /\ SameChunks(s, t)
<1>1. h \in LiveHandles(s) /\ h \in Handles(s) /\ s.chunks[h] \in ChunkType /\ h \in Nat
  <2>1. h \in LiveHandles(s)
    BY DEF Binned
  <2> QED BY <2>1, LiveFields
<1>3. PICK b \in BinNum : b = BinNumForSize(s.chunks[h].size)
  BY <1>1, ChunkFields, BinLeast
<1>0. s.chunks[h].bin_num = b
  BY <1>3 DEF Binned
<1>2. /\ ShapeOK(t) /\ Handles(t) = Handles(s) /\ LiveHandles(t) = LiveHandles(s)
      /\ t.handles = s.handles /\ t.free_list = s.free_list
      /\ t.chunks[h] = [s.chunks[h] EXCEPT !.bin_num = kInvalidBinNum]
      /\ \A g \in Handles(s) : g # h => t.chunks[g] = s.chunks[g]
      /\ t.bins = [s.bins EXCEPT ![s.chunks[h].bin_num] = @ \ {h}]
  BY <1>0, <1>1, RemoveFacts
<1>4. /\ t.chunks[h].ptr = s.chunks[h].ptr /\ t.chunks[h].size = s.chunks[h].size
      /\ t.chunks[h].prev = s.chunks[h].prev /\ t.chunks[h].next = s.chunks[h].next
      /\ t.chunks[h].in_use = s.chunks[h].in_use
      /\ t.chunks[h].requested_size = s.chunks[h].requested_size
      /\ t.chunks[h].bin_num = kInvalidBinNum
  BY <1>1, <1>2 DEF ChunkType
<1>5. \A k \in Handles(s) \ {h} : t.chunks[k] = s.chunks[k]
  BY <1>2
<1>6. SameChunks(s, t)
  <2>1. LiveHandles(s) \subseteq Handles(s)
    BY LiveAreHandles
  <2> QED BY <1>2, <1>4, <1>5, <2>1 DEF SameChunks
<1>7. Tiled(t, R)
  BY <1>6, TiledSame DEF SameChunks, SamePlaces
<1>8. ASSUME NEW k \in BinNum
      PROVE  t.bins[k] = {g \in F \ {h} : BinNumForSize(t.chunks[g].size) = k}
  <2>1. s.bins[k] = {g \in F : BinNumForSize(s.chunks[g].size) = k}
    BY DEF Binned
  <2>2. \A g \in F : t.chunks[g].size = s.chunks[g].size
    BY <1>6 DEF SameChunks, Binned
  <2>3. t.bins[k] = IF k = b THEN s.bins[k] \ {h} ELSE s.bins[k]
    <3>1. s.bins \in [BinNum -> SUBSET Nat]
      BY HeapFields DEF ShapeOK
    <3> QED BY <1>0, <1>2, <1>3, <3>1
  <2> QED BY <1>3, <2>1, <2>2, <2>3
<1>9. Binned(t, F \ {h})
  <2>1. \A k \in F : k \in Handles(s) /\ s.chunks[k].bin_num = BinNumForSize(s.chunks[k].size)
    BY LiveAreHandles DEF Binned
  <2>2. \A k \in Handles(s) \ F : s.chunks[k].bin_num = kInvalidBinNum
    BY DEF Binned
  <2>3. F \ {h} \subseteq LiveHandles(t)
    BY <1>2 DEF Binned
  <2>4. \A k \in F \ {h} : t.chunks[k].bin_num = BinNumForSize(t.chunks[k].size)
    BY <1>5, <2>1
  <2>5. \A k \in Handles(t) \ (F \ {h}) : t.chunks[k].bin_num = kInvalidBinNum
    BY <1>2, <1>4, <1>5, <2>2
  <2> QED BY <1>8, <2>3, <2>4, <2>5 DEF Binned
<1> QED BY <1>2, <1>6, <1>7, <1>9

\* Two free neighbours, both out of the bins, become one chunk.
LEMMA MergeKeeps ==
    ASSUME NEW s, NEW R, NEW F, ShapeOK(s), Tiled(s, R), GoodRegions(R), Binned(s, F),
           NEW h1 \in LiveHandles(s), NEW h2, h2 = s.chunks[h1].next, h2 # kInvalidChunkHandle,
           h1 \notin F, h2 \notin F, ~ s.chunks[h1].in_use, ~ s.chunks[h2].in_use,
           NEW t, t = Merge(s, h1, h2)
    PROVE  /\ ShapeOK(t) /\ Tiled(t, R) /\ Binned(t, F) /\ SameHeld(s, t)
           /\ h2 \in LiveHandles(s) /\ h1 # h2 /\ LiveHandles(t) = LiveHandles(s) \ {h2}
           /\ t.chunks[h1].next = s.chunks[h2].next /\ t.chunks[h1].prev = s.chunks[h1].prev
           /\ \A k \in LiveHandles(t) : t.chunks[k].in_use = s.chunks[k].in_use
           /\ \A k \in LiveHandles(t) \ {h1} : t.chunks[k].next = s.chunks[k].next
<1>1. PICK after : after = s.chunks[h2].next
  OBVIOUS
<1>2. /\ h2 \in LiveHandles(s) /\ h1 # h2
      /\ after # kInvalidChunkHandle => after \in LiveHandles(s) \ {h1, h2}
  BY <1>1, NextIsOther
<1>3. s.chunks[h2].ptr \in Addr
  BY <1>2, LiveAddr
<1>4. Merged(s, h1, h2, after, t)
  BY <1>1, <1>2, <1>3, MergeFacts, Zenon
<1>5. /\ ShapeOK(t) /\ Handles(t) = Handles(s) /\ LiveHandles(t) = LiveHandles(s) \ {h2}
      /\ t.bins = s.bins
      /\ t.chunks[h2].bin_num = s.chunks[h2].bin_num
  BY <1>4 DEF Merged
<1>6. Tiled(t, R)
  BY MergeTiled
<1>7. /\ t.chunks[h1].ptr = s.chunks[h1].ptr /\ t.chunks[h1].prev = s.chunks[h1].prev
      /\ t.chunks[h1].next = after /\ t.chunks[h1].in_use = s.chunks[h1].in_use
      /\ t.chunks[h1].bin_num = s.chunks[h1].bin_num
  <2>1. s.chunks[h1] \in ChunkType
    BY LiveFields
  <2> QED BY <1>4, <2>1 DEF Merged, ChunkType
<1>8. ASSUME NEW k \in Handles(s) \ {h1, h2}
      PROVE  /\ t.chunks[k].ptr = s.chunks[k].ptr /\ t.chunks[k].size = s.chunks[k].size
             /\ t.chunks[k].next = s.chunks[k].next /\ t.chunks[k].in_use = s.chunks[k].in_use
             /\ t.chunks[k].requested_size = s.chunks[k].requested_size
             /\ t.chunks[k].bin_num = s.chunks[k].bin_num
  <2>1. s.chunks[k] \in ChunkType /\ k # kInvalidChunkHandle
    BY HeapFields DEF ShapeOK, kInvalidChunkHandle
  <2>2. CASE k = after
    <3>1. t.chunks[k] = [s.chunks[k] EXCEPT !.prev = h1]
      BY <1>4, <2>1, <2>2 DEF Merged
    <3> QED BY <2>1, <3>1 DEF ChunkType
  <2>3. CASE k # after
    <3>1. t.chunks[k] = s.chunks[k]
      BY <1>4, <2>3 DEF Merged
    <3> QED BY <3>1
  <2> QED BY <2>2, <2>3
<1>9. LiveHandles(s) \subseteq Handles(s)
  BY LiveAreHandles
<1>10. \A k \in LiveHandles(t) : t.chunks[k].in_use = s.chunks[k].in_use
  BY <1>5, <1>7, <1>8, <1>9
<1>11. SameHeld(s, t)
  <2>1. InUse(s) \subseteq LiveHandles(s) \ {h1, h2}
    BY DEF InUse
  <2>2. InUse(t) = InUse(s)
    BY <1>5, <1>10, <2>1 DEF InUse
  <2>3. InUse(s) \subseteq Handles(s) \ {h1, h2}
    BY <1>9, <2>1
  <2> QED BY <1>8, <2>2, <2>3 DEF SameHeld
<1>12. Binned(t, F)
  <2>1. F \subseteq LiveHandles(t) /\ F \subseteq Handles(s) \ {h1, h2}
    BY <1>5, <1>9 DEF Binned
  <2>2. \A k \in F : t.chunks[k].size = s.chunks[k].size
    BY <1>8, <2>1
  <2>3. \A k \in Handles(s) : t.chunks[k].bin_num = s.chunks[k].bin_num
    BY <1>5, <1>7, <1>8
  <2>4. ASSUME NEW b \in BinNum
        PROVE  t.bins[b] = {h \in F : BinNumForSize(t.chunks[h].size) = b}
    <3>1. t.bins[b] = {h \in F : BinNumForSize(s.chunks[h].size) = b}
      BY <1>5 DEF Binned
    <3> QED BY <2>2, <3>1
  <2>5. \A k \in F : t.chunks[k].bin_num = BinNumForSize(t.chunks[k].size)
    BY <2>1, <2>2, <2>3 DEF Binned
  <2>6. \A k \in Handles(t) \ F : t.chunks[k].bin_num = kInvalidBinNum
    BY <1>5, <2>3 DEF Binned
  <2> QED BY <2>1, <2>4, <2>5, <2>6 DEF Binned
<1>13. \A k \in LiveHandles(t) \ {h1} : t.chunks[k].next = s.chunks[k].next
  BY <1>5, <1>8, <1>9
<1> QED BY <1>1, <1>2, <1>5, <1>6, <1>7, <1>10, <1>11, <1>12, <1>13

\* A fresh chunk joins the bins: SplitChunk and Extend.
LEMMA BinnedPlus ==
    ASSUME NEW s, NEW F, ShapeOK(s), Binned(s, F), NEW t, NEW g, NEW b \in BinNum,
           g \notin LiveHandles(s), LiveHandles(t) = LiveHandles(s) \cup {g},
           Handles(t) = Handles(s) \cup {g},
           t.bins = [s.bins EXCEPT ![b] = @ \cup {g}],
           BinNumForSize(t.chunks[g].size) = b, t.chunks[g].bin_num = b,
           \A k \in F : t.chunks[k].size = s.chunks[k].size,
           \A k \in Handles(s) \ {g} : t.chunks[k].bin_num = s.chunks[k].bin_num
    PROVE  Binned(t, F \cup {g})
<1>1. g \notin F /\ F \subseteq LiveHandles(s) /\ F \subseteq Handles(s) \ {g}
  BY LiveAreHandles DEF Binned
<1>2. ASSUME NEW k \in BinNum
      PROVE  t.bins[k] = {h \in F \cup {g} : BinNumForSize(t.chunks[h].size) = k}
  <2>1. s.bins[k] = {h \in F : BinNumForSize(s.chunks[h].size) = k}
    BY DEF Binned
  <2>2. t.bins[k] = IF k = b THEN s.bins[k] \cup {g} ELSE s.bins[k]
    <3>1. s.bins \in [BinNum -> SUBSET Nat]
      BY HeapFields DEF ShapeOK
    <3> QED BY <3>1
  <2> QED BY <1>1, <2>1, <2>2
<1>3. \A k \in F \cup {g} : t.chunks[k].bin_num = BinNumForSize(t.chunks[k].size)
  BY <1>1 DEF Binned
<1>4. \A k \in Handles(t) \ (F \cup {g}) : t.chunks[k].bin_num = kInvalidBinNum
  BY DEF Binned
<1>5. F \cup {g} \subseteq LiveHandles(t)
  BY <1>1
<1> QED BY <1>2, <1>3, <1>4, <1>5 DEF Binned

\* The heap t is s with h cut to n bytes, the rest g free and in its bin.
CutKept(s, R, F, h, n, g, t) ==
    /\ ShapeOK(t) /\ Tiled(t, R) /\ Binned(t, F \cup {g}) /\ SameHeld(s, t)
    /\ LiveHandles(t) = LiveHandles(s) \cup {g} /\ g \notin LiveHandles(s)
    /\ t.chunks[h].ptr = s.chunks[h].ptr /\ t.chunks[h].size = n
    /\ t.chunks[h].next = g /\ t.chunks[g].next = s.chunks[h].next
    /\ \A k \in LiveHandles(s) : t.chunks[k].in_use = s.chunks[k].in_use
    /\ ~ t.chunks[g].in_use
    /\ \A k \in LiveHandles(s) \ {h} : t.chunks[k].next = s.chunks[k].next

\* A free chunk that is out of the bins is cut; the rest goes into a bin.
LEMMA SplitKeeps ==
    ASSUME NEW s, NEW R, NEW F, ShapeOK(s), Tiled(s, R), GoodRegions(R), Binned(s, F),
           NEW h \in LiveHandles(s), h \notin F, ~ s.chunks[h].in_use,
           NEW n \in Nat, 0 < n, n < s.chunks[h].size,
           NEW g, g = NextHandle(s), NEW t, t = SplitChunk(s, h, n)
    PROVE  CutKept(s, R, F, h, n, g, t)
<1>1. PICK after : after = s.chunks[h].next
  OBVIOUS
<1>2. after # kInvalidChunkHandle => after \in LiveHandles(s) \ {h}
  BY <1>1, NextIsOther
<1>3. s.chunks[h] \in ChunkType /\ s.chunks[h].ptr \in Nat /\ s.chunks[h].size \in Nat
  BY LiveFields
<1>4. PICK b : b = BinNumForSize(s.chunks[h].size - n)
  OBVIOUS
<1>5. b \in BinNum
  <2>1. s.chunks[h].size - n \in Nat
    BY <1>3
  <2> QED BY <1>4, <2>1, BinLeast
<1>6. s.chunks[h].ptr + n \in Addr
  <2>1. s.chunks[h].ptr \in Addr /\ s.chunks[h].ptr + s.chunks[h].size <= AddrSpace
    BY LiveAddr DEF End
  <2> QED BY <1>3, <2>1, ArenaConstants DEF Addr
<1>7. SplitOff(s, h, n, after, g, b, t)
  BY <1>1, <1>2, <1>4, <1>6, SplitFacts, Zenon
<1>8. Tiled(t, R)
  BY <1>1, <1>7, SplitTiled
<1>9. /\ ShapeOK(t) /\ Handles(t) = Handles(s) \cup {g}
      /\ LiveHandles(t) = LiveHandles(s) \cup {g} /\ g \notin LiveHandles(s)
      /\ t.bins = [s.bins EXCEPT ![b] = @ \cup {g}]
      /\ t.chunks[g].size = s.chunks[h].size - n
      /\ ~t.chunks[g].in_use /\ t.chunks[g].next = after
      /\ t.chunks[g].bin_num = b
  BY <1>7 DEF SplitOff
<1>10. /\ t.chunks[h].ptr = s.chunks[h].ptr /\ t.chunks[h].size = n
       /\ t.chunks[h].next = g /\ t.chunks[h].in_use = s.chunks[h].in_use
       /\ t.chunks[h].bin_num = s.chunks[h].bin_num
  BY <1>3, <1>7 DEF SplitOff, ChunkType
<1>11. ASSUME NEW k \in Handles(s) \ {g, h}
       PROVE  /\ t.chunks[k].ptr = s.chunks[k].ptr /\ t.chunks[k].size = s.chunks[k].size
              /\ t.chunks[k].next = s.chunks[k].next /\ t.chunks[k].in_use = s.chunks[k].in_use
              /\ t.chunks[k].requested_size = s.chunks[k].requested_size
              /\ t.chunks[k].bin_num = s.chunks[k].bin_num
  <2>1. s.chunks[k] \in ChunkType /\ k # kInvalidChunkHandle
    BY HeapFields DEF ShapeOK, kInvalidChunkHandle
  <2>2. CASE k = after
    <3>1. t.chunks[k] = [s.chunks[k] EXCEPT !.prev = g]
      BY <1>7, <2>1, <2>2 DEF SplitOff
    <3> QED BY <2>1, <3>1 DEF ChunkType
  <2>3. CASE k # after
    <3>1. t.chunks[k] = s.chunks[k]
      BY <1>7, <2>3 DEF SplitOff
    <3> QED BY <3>1
  <2> QED BY <2>2, <2>3
<1>12. LiveHandles(s) \subseteq Handles(s) \ {g}
  BY <1>9, LiveAreHandles
<1>13. \A k \in LiveHandles(s) : t.chunks[k].in_use = s.chunks[k].in_use
  BY <1>10, <1>11, <1>12
<1>14. SameHeld(s, t)
  <2>1. InUse(s) \subseteq LiveHandles(s) \ {h}
    BY DEF InUse
  <2>2. InUse(t) = InUse(s)
    BY <1>9, <1>13 DEF InUse
  <2>3. InUse(s) \subseteq Handles(s) \ {g, h}
    BY <1>12, <2>1
  <2> QED BY <1>11, <2>2, <2>3 DEF SameHeld
<1>15. Binned(t, F \cup {g})
  <2>1. F \subseteq Handles(s) \ {g, h}
    BY <1>12 DEF Binned
  <2>2. \A k \in F : t.chunks[k].size = s.chunks[k].size
    BY <1>11, <2>1
  <2>3. \A k \in Handles(s) \ {g} : t.chunks[k].bin_num = s.chunks[k].bin_num
    BY <1>10, <1>11
  <2>4. BinNumForSize(t.chunks[g].size) = b
    BY <1>4, <1>9
  <2> QED BY <1>5, <1>9, <2>2, <2>3, <2>4, BinnedPlus
<1>16. \A k \in LiveHandles(s) \ {h} : t.chunks[k].next = s.chunks[k].next
  BY <1>11, <1>12
<1> QED BY <1>1, <1>8, <1>9, <1>10, <1>13, <1>14, <1>15, <1>16 DEF CutKept

\* The heap t is s with the region r0 and its free chunk g.
RegionKept(s, R, F, r0, bytes, g, t) ==
    /\ ShapeOK(t) /\ Tiled(t, R \cup {r0}) /\ Binned(t, F \cup {g}) /\ SameHeld(s, t)
    /\ LiveHandles(t) = LiveHandles(s) \cup {g} /\ g \notin LiveHandles(s)
    /\ t.chunks[g].next = kInvalidChunkHandle /\ t.chunks[g].size = bytes
    /\ \A k \in LiveHandles(s) : t.chunks[k] = s.chunks[k]
    /\ ~ t.chunks[g].in_use

\* A region joins with one free chunk, in its bin.
LEMMA AddRegionKeeps ==
    ASSUME NEW s, NEW R, NEW F, ShapeOK(s), Tiled(s, R), GoodRegions(R), Binned(s, F),
           NEW base \in Addr, NEW bytes \in Nat, bytes > 0,
           NEW r0, r0 = [ptr |-> base, size |-> bytes], GoodRegions(R \cup {r0}), r0 \notin R,
           NEW g, g = NextHandle(s), NEW t, t = AddRegion(s, base, bytes)
    PROVE  RegionKept(s, R, F, r0, bytes, g, t)
<1>1. PICK b \in BinNum : b = BinNumForSize(bytes)
  BY BinLeast
<1>2. RegionAdded(s, base, bytes, g, b, t)
  BY <1>1, AddRegionFacts, Zenon
<1>3. Tiled(t, R \cup {r0})
  BY <1>2, AddRegionTiled
<1>4. /\ ShapeOK(t) /\ Handles(t) = Handles(s) \cup {g}
      /\ LiveHandles(t) = LiveHandles(s) \cup {g} /\ g \notin LiveHandles(s)
      /\ t.bins = [s.bins EXCEPT ![b] = @ \cup {g}]
      /\ t.chunks[g].size = bytes
      /\ ~t.chunks[g].in_use /\ t.chunks[g].next = kInvalidChunkHandle
      /\ t.chunks[g].bin_num = b
      /\ \A k \in Handles(s) \ {g} : t.chunks[k] = s.chunks[k]
  BY <1>2 DEF RegionAdded
<1>5. LiveHandles(s) \subseteq Handles(s) \ {g}
  BY <1>4, LiveAreHandles
<1>6. \A k \in LiveHandles(s) : t.chunks[k] = s.chunks[k]
  BY <1>4, <1>5
<1>7. SameHeld(s, t)
  <2>1. InUse(t) = InUse(s)
    BY <1>4, <1>6 DEF InUse
  <2> QED BY <1>6, <2>1 DEF SameHeld, InUse
<1>8. Binned(t, F \cup {g})
  <2>1. \A k \in F : t.chunks[k].size = s.chunks[k].size
    BY <1>6 DEF Binned
  <2>2. \A k \in Handles(s) \ {g} : t.chunks[k].bin_num = s.chunks[k].bin_num
    BY <1>4
  <2>3. BinNumForSize(t.chunks[g].size) = b
    BY <1>1, <1>4
  <2> QED BY <1>4, <2>1, <2>2, <2>3, BinnedPlus
<1> QED BY <1>3, <1>4, <1>6, <1>7, <1>8 DEF RegionKept

-----------------------------------------------------------------------------
(* Giving a chunk back: FreeAndMaybeCoalesce. *)

\* No two neighbours are both free.
CoalescedIn(s) ==
    \A h \in LiveHandles(s) : s.chunks[h].next # kInvalidChunkHandle /\ ~ s.chunks[h].in_use
                                => s.chunks[s.chunks[h].next].in_use

\* The same, for the neighbours of which neither is x.
CoalescedBut(s, x) ==
    \A h \in LiveHandles(s) \ {x} :
        s.chunks[h].next # kInvalidChunkHandle /\ s.chunks[h].next # x /\ ~ s.chunks[h].in_use
            => s.chunks[s.chunks[h].next].in_use

\* The chunk x is free and in no bin; all else is in order.
Pending(s, R, x) ==
    /\ ShapeOK(s) /\ Tiled(s, R) /\ Binned(s, FreeChunks(s) \ {x})
    /\ x \in FreeChunks(s)

\* A client's request fits in the chunk it holds.
HeldOK(s) ==
    \A h \in InUse(s) : /\ s.chunks[h].requested_size \in AllocSizes
                        /\ s.chunks[h].requested_size <= s.chunks[h].size

\* The heap's part of the inductive invariant: it holds between two operations.
HeapOK(s, R) ==
    ShapeOK(s) /\ Tiled(s, R) /\ Binned(s, FreeChunks(s)) /\ CoalescedIn(s) /\ HeldOK(s)

\* The heap t is s with c for h.
MarkKept(s, R, F, h, c, t) ==
    /\ ShapeOK(t) /\ Tiled(t, R) /\ Binned(t, F) /\ LiveHandles(t) = LiveHandles(s)
    /\ t.chunks[h] = c
    /\ \A k \in LiveHandles(s) \ {h} : t.chunks[k] = s.chunks[k]

\* One chunk is replaced by one that differs in in_use and requested_size only.
LEMMA MarkFacts ==
    ASSUME NEW s, NEW R, NEW F, ShapeOK(s), Tiled(s, R), Binned(s, F), NEW h \in LiveHandles(s),
           NEW c \in ChunkType, c.ptr = s.chunks[h].ptr, c.size = s.chunks[h].size,
           c.prev = s.chunks[h].prev, c.next = s.chunks[h].next, c.bin_num = s.chunks[h].bin_num,
           NEW t, t = [s EXCEPT !.chunks = [s.chunks EXCEPT ![h] = c]]
    PROVE  MarkKept(s, R, F, h, c, t)
<1>1. s \in HeapType /\ h \in Handles(s) /\ h \in 1 .. Len(s.chunks) /\ s.chunks \in Seq(ChunkType)
  BY LiveFields, HeapFields DEF ShapeOK, Handles
<1>2. PICK q : q = [s.chunks EXCEPT ![h] = c]
  OBVIOUS
<1>3. /\ q \in Seq(ChunkType) /\ Len(q) = Len(s.chunks) /\ q[h] = c
      /\ \A k \in 1 .. Len(s.chunks) : k # h => q[k] = s.chunks[k]
  BY <1>1, <1>2, ChunkSet
<1>4. /\ t \in HeapType /\ t.chunks = q /\ t.free_list = s.free_list
      /\ t.bins = s.bins /\ t.handles = s.handles
  BY <1>1, <1>2, <1>3 DEF HeapType
<1>5. Handles(t) = Handles(s) /\ LiveHandles(t) = LiveHandles(s) /\ ShapeOK(t)
  BY <1>1, <1>3, <1>4 DEF Handles, LiveHandles, DeadHandles, ShapeOK, FreeListOK
<1>6. t.chunks[h] = c /\ \A k \in Handles(s) \ {h} : t.chunks[k] = s.chunks[k]
  BY <1>3, <1>4 DEF Handles
<1>7. \A k \in Handles(s) : /\ t.chunks[k].ptr = s.chunks[k].ptr
                            /\ t.chunks[k].size = s.chunks[k].size
                            /\ t.chunks[k].prev = s.chunks[k].prev
                            /\ t.chunks[k].next = s.chunks[k].next
                            /\ t.chunks[k].bin_num = s.chunks[k].bin_num
  BY <1>6
<1>8. LiveHandles(s) \subseteq Handles(s)
  BY LiveAreHandles
<1>9. Tiled(t, R)
  <2>1. \A k \in LiveHandles(s) : /\ t.chunks[k].ptr = s.chunks[k].ptr
                                   /\ t.chunks[k].size = s.chunks[k].size
                                   /\ t.chunks[k].prev = s.chunks[k].prev
                                   /\ t.chunks[k].next = s.chunks[k].next
    BY <1>7, <1>8
  <2>2. t.handles = s.handles /\ LiveHandles(t) = LiveHandles(s)
    BY <1>4, <1>5
  <2>3. SamePlaces(s, t)
    BY <2>1, <2>2 DEF SamePlaces
  <2> QED BY <2>3, TiledSame
<1>10. Binned(t, F)
  <2>1. F \subseteq Handles(s) /\ F \subseteq LiveHandles(t)
    BY <1>5, <1>8 DEF Binned
  <2>2. ASSUME NEW b \in BinNum
        PROVE  t.bins[b] = {k \in F : BinNumForSize(t.chunks[k].size) = b}
    <3>1. t.bins[b] = {k \in F : BinNumForSize(s.chunks[k].size) = b}
      BY <1>4 DEF Binned
    <3> QED BY <1>7, <2>1, <3>1
  <2>3. \A k \in F : t.chunks[k].bin_num = BinNumForSize(t.chunks[k].size)
    BY <1>7, <2>1 DEF Binned
  <2>4. \A k \in Handles(t) \ F : t.chunks[k].bin_num = kInvalidBinNum
    BY <1>5, <1>7 DEF Binned
  <2> QED BY <2>1, <2>2, <2>3, <2>4 DEF Binned
<1> QED BY <1>5, <1>6, <1>8, <1>9, <1>10 DEF MarkKept

\* The chunk is merged with the free chunk after it.
LEMMA CoalesceNextKeeps ==
    ASSUME NEW s, NEW R, NEW h, Pending(s, R, h), GoodRegions(R), CoalescedBut(s, h),
           NEW t, t = CoalesceNext(s, h)
    PROVE  /\ Pending(t, R, h) /\ CoalescedBut(t, h) /\ SameHeld(s, t)
           /\ t.chunks[h].next # kInvalidChunkHandle => t.chunks[t.chunks[h].next].in_use
<1>0. /\ ShapeOK(s) /\ Tiled(s, R) /\ Binned(s, FreeChunks(s) \ {h})
      /\ h \in LiveHandles(s) /\ ~ s.chunks[h].in_use
  BY DEF Pending, FreeChunks
<1>1. PICK n : n = s.chunks[h].next
  OBVIOUS
<1>2. CASE ~ Coalescible(s, n)
  <2>1. t = s
    BY <1>1, <1>2 DEF CoalesceNext
  <2>2. SameHeld(s, s)
    BY DEF SameHeld
  <2> QED BY <1>1, <1>2, <2>1, <2>2 DEF Coalescible
<1>3. CASE Coalescible(s, n)
  <2>1. /\ n # kInvalidChunkHandle /\ ~ s.chunks[n].in_use
        /\ n \in LiveHandles(s) /\ n # h /\ s.chunks[n].prev = h
        /\ s.chunks[n].next # kInvalidChunkHandle => s.chunks[n].next \in LiveHandles(s) \ {h, n}
    <3>1. n # kInvalidChunkHandle /\ ~ s.chunks[n].in_use
      BY <1>3 DEF Coalescible
    <3> QED BY <1>0, <1>1, <3>1, NextIsOther
  <2>2. n \in FreeChunks(s) \ {h}
    BY <2>1 DEF FreeChunks
  <2>3. PICK F : F = (FreeChunks(s) \ {h}) \ {n}
    OBVIOUS
  <2>4. PICK r : r = RemoveFreeChunkFromBin(s, n)
    OBVIOUS
  <2>5. ShapeOK(r) /\ Tiled(r, R) /\ Binned(r, F) /\ SameChunks(s, r)
    BY <1>0, <2>2, <2>3, <2>4, RemoveKeeps
  <2>6. t = Merge(r, h, n)
    BY <1>1, <1>3, <2>4 DEF CoalesceNext
  <2>7. /\ LiveHandles(r) = LiveHandles(s)
        /\ \A k \in LiveHandles(s) : r.chunks[k].next = s.chunks[k].next
        /\ \A k \in LiveHandles(s) : r.chunks[k].in_use = s.chunks[k].in_use
    BY <2>5 DEF SameChunks
  <2>8. /\ ShapeOK(t) /\ Tiled(t, R) /\ Binned(t, F) /\ SameHeld(r, t)
        /\ LiveHandles(t) = LiveHandles(r) \ {n}
        /\ t.chunks[h].next = r.chunks[n].next
        /\ \A k \in LiveHandles(t) : t.chunks[k].in_use = r.chunks[k].in_use
        /\ \A k \in LiveHandles(t) \ {h} : t.chunks[k].next = r.chunks[k].next
    <3>1. /\ h \in LiveHandles(r) /\ n = r.chunks[h].next /\ ~ r.chunks[h].in_use
          /\ ~ r.chunks[n].in_use
      BY <1>0, <1>1, <2>1, <2>7
    <3>2. h \notin F /\ n \notin F
      BY <2>3
    <3> QED BY <2>1, <2>5, <2>6, <3>1, <3>2, MergeKeeps
  <2>9. SameHeld(s, t)
    BY <2>5, <2>8, SameChunksHeld, HeldTransitive
  <2>10. /\ LiveHandles(t) = LiveHandles(s) \ {n}
         /\ t.chunks[h].next = s.chunks[n].next
         /\ \A k \in LiveHandles(t) : t.chunks[k].in_use = s.chunks[k].in_use
         /\ \A k \in LiveHandles(t) \ {h} : t.chunks[k].next = s.chunks[k].next
    BY <2>1, <2>7, <2>8
  <2>11. FreeChunks(t) = FreeChunks(s) \ {n}
    BY <2>10 DEF FreeChunks
  <2>12. Pending(t, R, h)
    <3>1. F = FreeChunks(t) \ {h}
      BY <2>3, <2>11
    <3>2. h \in FreeChunks(t)
      BY <1>0, <2>1, <2>11 DEF FreeChunks
    <3> QED BY <2>8, <3>1, <3>2 DEF Pending
  <2>13. t.chunks[h].next # kInvalidChunkHandle => t.chunks[t.chunks[h].next].in_use
    <3> SUFFICES ASSUME NEW a, a = t.chunks[h].next, a # kInvalidChunkHandle
                 PROVE  t.chunks[a].in_use
      OBVIOUS
    <3>1. a = s.chunks[n].next /\ a \in LiveHandles(s) /\ a # h /\ a # n
      BY <2>1, <2>10
    <3>2. s.chunks[a].in_use
      BY <2>1, <3>1 DEF CoalescedBut
    <3> QED BY <2>10, <3>1, <3>2
  <2>14. CoalescedBut(t, h)
    <3> SUFFICES ASSUME NEW k \in LiveHandles(t) \ {h}, NEW m, m = t.chunks[k].next,
                        m # kInvalidChunkHandle, m # h, ~ t.chunks[k].in_use
                 PROVE  t.chunks[m].in_use
      BY DEF CoalescedBut
    <3>1. k \in LiveHandles(s) \ {h} /\ m = s.chunks[k].next /\ ~ s.chunks[k].in_use
      BY <2>10
    <3>2. s.chunks[m].in_use
      BY <3>1 DEF CoalescedBut
    <3>3. m \in LiveHandles(s) /\ m # n
      BY <1>0, <2>1, <3>1, <3>2 DEF Tiled, Linked, NextLinked
    <3> QED BY <2>10, <3>2, <3>3
  <2> QED BY <2>9, <2>12, <2>13, <2>14
<1> QED BY <1>2, <1>3

\* It is merged into the free chunk before it.
LEMMA CoalescePrevKeeps ==
    ASSUME NEW s, NEW R, NEW h, Pending(s, R, h), GoodRegions(R), CoalescedBut(s, h),
           s.chunks[h].next # kInvalidChunkHandle => s.chunks[s.chunks[h].next].in_use,
           NEW t, t = CoalescePrev(s, h),
           NEW x, x = IF Coalescible(s, s.chunks[h].prev) THEN s.chunks[h].prev ELSE h
    PROVE  Pending(t, R, x) /\ CoalescedIn(t) /\ SameHeld(s, t)
<1>0. /\ ShapeOK(s) /\ Tiled(s, R) /\ Binned(s, FreeChunks(s) \ {h})
      /\ h \in LiveHandles(s) /\ ~ s.chunks[h].in_use
  BY DEF Pending, FreeChunks
<1>1. PICK p : p = s.chunks[h].prev
  OBVIOUS
<1>2. \A k \in LiveHandles(s) : s.chunks[k].next = h => k = p /\ k # kInvalidChunkHandle
  <2> SUFFICES ASSUME NEW k \in LiveHandles(s), s.chunks[k].next = h
               PROVE  k = p /\ k # kInvalidChunkHandle
    OBVIOUS
  <2>1. h # kInvalidChunkHandle /\ k # kInvalidChunkHandle
    BY <1>0, LiveFields
  <2> QED BY <1>0, <1>1, <2>1 DEF Tiled, Linked, NextLinked
<1>3. CASE ~ Coalescible(s, p)
  <2>1. t = s /\ x = h
    BY <1>1, <1>3 DEF CoalescePrev
  <2>2. SameHeld(s, s)
    BY DEF SameHeld
  <2>3. CoalescedIn(s)
    <3> SUFFICES ASSUME NEW k \in LiveHandles(s), s.chunks[k].next # kInvalidChunkHandle,
                        ~ s.chunks[k].in_use
                 PROVE  s.chunks[s.chunks[k].next].in_use
      BY DEF CoalescedIn
    <3>1. CASE k = h
      BY <3>1
    <3>2. CASE k # h /\ s.chunks[k].next = h
      BY <1>2, <1>3, <3>2 DEF Coalescible
    <3>3. CASE k # h /\ s.chunks[k].next # h
      BY <3>3 DEF CoalescedBut
    <3> QED BY <3>1, <3>2, <3>3
  <2> QED BY <2>1, <2>2, <2>3
<1>4. CASE Coalescible(s, p)
  <2>0. p # kInvalidChunkHandle /\ ~ s.chunks[p].in_use /\ x = p
    BY <1>1, <1>4 DEF Coalescible
  <2>1. /\ p \in LiveHandles(s) /\ s.chunks[p].next = h /\ h # kInvalidChunkHandle /\ p # h
        /\ s.chunks[h].next # kInvalidChunkHandle => s.chunks[h].next \in LiveHandles(s) \ {p, h}
    <3>1. p \in LiveHandles(s) /\ s.chunks[p].next = h
      BY <1>0, <1>1, <2>0 DEF Tiled, Linked, PrevLinked
    <3>2. h # kInvalidChunkHandle
      BY <1>0, LiveFields
    <3> QED BY <1>0, <3>1, <3>2, NextIsOther
  <2>2. p \in FreeChunks(s) \ {h}
    BY <2>0, <2>1 DEF FreeChunks
  <2>3. PICK F : F = (FreeChunks(s) \ {h}) \ {p}
    OBVIOUS
  <2>4. PICK r : r = RemoveFreeChunkFromBin(s, p)
    OBVIOUS
  <2>5. ShapeOK(r) /\ Tiled(r, R) /\ Binned(r, F) /\ SameChunks(s, r)
    BY <1>0, <2>2, <2>3, <2>4, RemoveKeeps
  <2>6. t = Merge(r, p, h)
    BY <1>1, <1>4, <2>4 DEF CoalescePrev
  <2>7. /\ LiveHandles(r) = LiveHandles(s)
        /\ \A k \in LiveHandles(s) : r.chunks[k].next = s.chunks[k].next
        /\ \A k \in LiveHandles(s) : r.chunks[k].in_use = s.chunks[k].in_use
    BY <2>5 DEF SameChunks
  <2>8. /\ ShapeOK(t) /\ Tiled(t, R) /\ Binned(t, F) /\ SameHeld(r, t)
        /\ LiveHandles(t) = LiveHandles(r) \ {h}
        /\ t.chunks[p].next = r.chunks[h].next
        /\ \A k \in LiveHandles(t) : t.chunks[k].in_use = r.chunks[k].in_use
        /\ \A k \in LiveHandles(t) \ {p} : t.chunks[k].next = r.chunks[k].next
    <3>1. /\ p \in LiveHandles(r) /\ h = r.chunks[p].next /\ ~ r.chunks[h].in_use
          /\ ~ r.chunks[p].in_use
      BY <1>0, <2>0, <2>1, <2>7
    <3>2. h \notin F /\ p \notin F
      BY <2>3
    <3> QED BY <2>1, <2>5, <2>6, <3>1, <3>2, MergeKeeps
  <2>9. SameHeld(s, t)
    BY <2>5, <2>8, SameChunksHeld, HeldTransitive
  <2>10. /\ LiveHandles(t) = LiveHandles(s) \ {h}
         /\ t.chunks[p].next = s.chunks[h].next
         /\ \A k \in LiveHandles(t) : t.chunks[k].in_use = s.chunks[k].in_use
         /\ \A k \in LiveHandles(t) \ {p} : t.chunks[k].next = s.chunks[k].next
    BY <1>0, <2>7, <2>8
  <2>11. FreeChunks(t) = FreeChunks(s) \ {h}
    BY <2>10 DEF FreeChunks
  <2>12. Pending(t, R, x)
    <3>1. F = FreeChunks(t) \ {p}
      BY <2>3, <2>11
    <3>2. p \in FreeChunks(t)
      BY <2>2, <2>11
    <3> QED BY <2>0, <2>8, <3>1, <3>2 DEF Pending
  <2>13. CoalescedIn(t)
    <3> SUFFICES ASSUME NEW k \in LiveHandles(t), NEW m, m = t.chunks[k].next,
                        m # kInvalidChunkHandle, ~ t.chunks[k].in_use
                 PROVE  t.chunks[m].in_use
      BY DEF CoalescedIn
    <3>1. CASE k = p
      <4>1. m = s.chunks[h].next /\ m \in LiveHandles(t) /\ s.chunks[m].in_use
        BY <2>1, <2>10, <3>1
      <4> QED BY <2>10, <4>1
    <3>2. CASE k # p
      <4>1. k \in LiveHandles(s) \ {h} /\ m = s.chunks[k].next /\ ~ s.chunks[k].in_use
        BY <2>10, <3>2
      <4>2. m # h
        BY <1>2, <3>2, <4>1
      <4>3. s.chunks[m].in_use
        BY <4>1, <4>2 DEF CoalescedBut
      <4>4. m \in LiveHandles(s)
        BY <1>0, <4>1 DEF Tiled, Linked, NextLinked
      <4> QED BY <2>10, <4>2, <4>3, <4>4
    <3> QED BY <3>1, <3>2
  <2> QED BY <2>9, <2>12, <2>13
<1> QED BY <1>3, <1>4

\* Clients hold what they held but h, unmoved.
HeldMinus(s, t, h) ==
    /\ InUse(t) = InUse(s) \ {h}
    /\ \A k \in InUse(t) : /\ t.chunks[k].ptr = s.chunks[k].ptr
                           /\ t.chunks[k].size = s.chunks[k].size
                           /\ t.chunks[k].requested_size = s.chunks[k].requested_size

\* FreeAndMaybeCoalesce of a chunk in use leaves the heap in order and takes
\* nothing but that chunk.
LEMMA FreeKeeps ==
    ASSUME NEW s, NEW R, HeapOK(s, R), GoodRegions(R), NEW h \in InUse(s),
           NEW t, t = FreeAndMaybeCoalesce(s, h)
    PROVE  HeapOK(t, R) /\ HeldMinus(s, t, h)
<1>0. /\ ShapeOK(s) /\ Tiled(s, R) /\ Binned(s, FreeChunks(s)) /\ CoalescedIn(s) /\ HeldOK(s)
      /\ h \in LiveHandles(s) /\ s.chunks[h].in_use
      /\ s.chunks[h] \in ChunkType /\ s \in HeapType
  BY LiveFields DEF HeapOK, InUse, ShapeOK
<1>1. PICK c : c = [s.chunks[h] EXCEPT !.in_use = FALSE, !.requested_size = 0]
  OBVIOUS
<1>2. /\ c \in ChunkType /\ c.ptr = s.chunks[h].ptr /\ c.size = s.chunks[h].size
      /\ c.prev = s.chunks[h].prev /\ c.next = s.chunks[h].next
      /\ c.bin_num = s.chunks[h].bin_num /\ ~ c.in_use
  BY <1>0, <1>1 DEF ChunkType
<1>3. PICK u : u = [s EXCEPT !.chunks = [s.chunks EXCEPT ![h] = c]]
  OBVIOUS
<1>4. u = [s EXCEPT !.chunks[h].in_use = FALSE, !.chunks[h].requested_size = 0]
  <2>1. h \in 1 .. Len(s.chunks) /\ s.chunks \in Seq(ChunkType)
    BY <1>0, LiveFields, HeapFields DEF Handles
  <2> QED BY <1>0, <1>1, <1>3, <2>1 DEF HeapType
<1>5. /\ ShapeOK(u) /\ Tiled(u, R) /\ Binned(u, FreeChunks(s)) /\ LiveHandles(u) = LiveHandles(s)
      /\ u.chunks[h] = c
      /\ \A k \in LiveHandles(s) \ {h} : u.chunks[k] = s.chunks[k]
  <2>1. MarkKept(s, R, FreeChunks(s), h, c, u)
    BY <1>0, <1>2, <1>3, MarkFacts
  <2> QED BY <2>1 DEF MarkKept
<1>6. h \notin FreeChunks(s) /\ FreeChunks(u) = FreeChunks(s) \cup {h} /\ InUse(u) = InUse(s) \ {h}
  BY <1>0, <1>2, <1>5 DEF FreeChunks, InUse
<1>7. Pending(u, R, h)
  <2>1. FreeChunks(u) \ {h} = FreeChunks(s)
    BY <1>6
  <2> QED BY <1>5, <1>6, <2>1 DEF Pending
<1>8. \A k \in LiveHandles(s) : u.chunks[k].next = s.chunks[k].next
  BY <1>2, <1>5
<1>9. CoalescedBut(u, h)
  <2> SUFFICES ASSUME NEW k \in LiveHandles(s) \ {h}, NEW m, m = s.chunks[k].next,
                      m # kInvalidChunkHandle, m # h, ~ s.chunks[k].in_use
               PROVE  u.chunks[m].in_use
    BY <1>5 DEF CoalescedBut
  <2>1. s.chunks[m].in_use
    BY <1>0 DEF CoalescedIn
  <2>2. m \in LiveHandles(s)
    BY <1>0 DEF Tiled, Linked, NextLinked
  <2> QED BY <1>5, <2>1, <2>2
<1>10. PICK v : v = CoalesceNext(u, h)
  OBVIOUS
<1>11. /\ Pending(v, R, h) /\ CoalescedBut(v, h) /\ SameHeld(u, v)
       /\ v.chunks[h].next # kInvalidChunkHandle => v.chunks[v.chunks[h].next].in_use
  BY <1>7, <1>9, <1>10, CoalesceNextKeeps
<1>12. PICK w : w = CoalescePrev(v, h)
  OBVIOUS
<1>13. PICK x : x = IF Coalescible(v, v.chunks[h].prev) THEN v.chunks[h].prev ELSE h
  OBVIOUS
<1>14. Pending(w, R, x) /\ CoalescedIn(w) /\ SameHeld(v, w)
  BY <1>11, <1>12, <1>13, CoalescePrevKeeps
<1>15. t = InsertFreeChunkIntoBin(w, x)
  BY <1>4, <1>10, <1>12, <1>13 DEF FreeAndMaybeCoalesce
<1>16. /\ ShapeOK(w) /\ Tiled(w, R) /\ Binned(w, FreeChunks(w) \ {x})
       /\ x \in LiveHandles(w) /\ x \in FreeChunks(w) /\ x \notin FreeChunks(w) \ {x}
  BY <1>14 DEF Pending, FreeChunks
<1>17. ShapeOK(t) /\ Tiled(t, R) /\ Binned(t, (FreeChunks(w) \ {x}) \cup {x}) /\ SameChunks(w, t)
  BY <1>15, <1>16, InsertKeeps
<1>18. SameHeld(w, t) /\ FreeChunks(t) = FreeChunks(w)
  BY <1>17, SameChunksHeld
<1>19. Binned(t, FreeChunks(t))
  <2>1. (FreeChunks(w) \ {x}) \cup {x} = FreeChunks(t)
    BY <1>16, <1>18
  <2> QED BY <1>17, <2>1
<1>20. CoalescedIn(t)
  <2> SUFFICES ASSUME NEW k \in LiveHandles(t), NEW m, m = t.chunks[k].next,
                      m # kInvalidChunkHandle, ~ t.chunks[k].in_use
               PROVE  t.chunks[m].in_use
    BY DEF CoalescedIn
  <2>1. k \in LiveHandles(w) /\ m = w.chunks[k].next /\ ~ w.chunks[k].in_use
    BY <1>17 DEF SameChunks
  <2>2. w.chunks[m].in_use /\ m \in LiveHandles(w)
    BY <1>14, <1>16, <2>1 DEF CoalescedIn, Tiled, Linked, NextLinked
  <2> QED BY <1>17, <2>2 DEF SameChunks
<1>21. SameHeld(u, t)
  BY <1>11, <1>14, <1>18, HeldTransitive
<1>22. \A k \in InUse(u) : k \in LiveHandles(s) \ {h} /\ u.chunks[k] = s.chunks[k]
  BY <1>5, <1>6 DEF InUse
<1>23. HeldMinus(s, t, h)
  BY <1>6, <1>21, <1>22 DEF SameHeld, HeldMinus
<1>24. HeldOK(t)
  <2>1. \A k \in InUse(t) : /\ k \in InUse(s)
                            /\ t.chunks[k].size = s.chunks[k].size
                            /\ t.chunks[k].requested_size = s.chunks[k].requested_size
    BY <1>6, <1>21, <1>22 DEF SameHeld
  <2> QED BY <1>0, <2>1 DEF HeldOK
<1> QED BY <1>17, <1>19, <1>20, <1>23, <1>24 DEF HeapOK

-----------------------------------------------------------------------------
(* Handing a chunk out: FindChunkPtr. *)

\* Clients hold what they held, unmoved, and h besides.
HeldPlus(s, t, h, num_bytes) ==
    /\ h \notin InUse(s) /\ InUse(t) = InUse(s) \cup {h}
    /\ t.chunks[h].requested_size = num_bytes
    /\ \A k \in InUse(s) : /\ t.chunks[k].ptr = s.chunks[k].ptr
                           /\ t.chunks[k].size = s.chunks[k].size
                           /\ t.chunks[k].requested_size = s.chunks[k].requested_size

\* Taking a free chunk that is large enough leaves the heap in order and
\* touches nothing that a client holds.
LEMMA TakeKeeps ==
    ASSUME NEW s, NEW R, HeapOK(s, R), GoodRegions(R), NEW h \in FreeChunks(s),
           NEW rounded \in Nat, 0 < rounded, rounded <= s.chunks[h].size,
           NEW num_bytes \in AllocSizes, num_bytes <= rounded,
           NEW t, t = Take(s, h, rounded, num_bytes)
    PROVE  HeapOK(t, R) /\ HeldPlus(s, t, h, num_bytes)
<1>0. /\ ShapeOK(s) /\ Tiled(s, R) /\ Binned(s, FreeChunks(s)) /\ CoalescedIn(s) /\ HeldOK(s)
      /\ h \in LiveHandles(s) /\ ~ s.chunks[h].in_use /\ h \notin InUse(s)
      /\ s.chunks[h].size \in Nat /\ num_bytes \in Nat
  BY LiveFields, ArenaConstants DEF HeapOK, InUse, FreeChunks
<1>1. PICK out : out = RemoveFreeChunkFromBin(s, h)
  OBVIOUS
<1>2. ShapeOK(out) /\ Tiled(out, R) /\ Binned(out, FreeChunks(s) \ {h}) /\ SameChunks(s, out)
  BY <1>0, <1>1, RemoveKeeps
<1>3. /\ LiveHandles(out) = LiveHandles(s) /\ FreeChunks(out) = FreeChunks(s) /\ SameHeld(s, out)
      /\ \A k \in LiveHandles(s) : /\ out.chunks[k].next = s.chunks[k].next
                                   /\ out.chunks[k].in_use = s.chunks[k].in_use
                                   /\ out.chunks[k].size = s.chunks[k].size
  BY <1>2, SameChunksHeld DEF SameChunks
<1>4. PICK big : big = (s.chunks[h].size >= 2 * rounded
                         \/ s.chunks[h].size - rounded >= kMaxInternalFragmentation)
  OBVIOUS
<1>5. PICK fit : fit = IF big THEN SplitChunk(out, h, rounded) ELSE out
  OBVIOUS
\* Before the chunk is marked: its bytes are taken, the rest is in the bins.
<1>6. /\ ShapeOK(fit) /\ Tiled(fit, R) /\ h \in LiveHandles(fit) /\ ~ fit.chunks[h].in_use
      /\ Binned(fit, FreeChunks(fit) \ {h}) /\ SameHeld(s, fit)
      /\ rounded <= fit.chunks[h].size
      /\ CoalescedBut(fit, h)
      /\ \A k \in LiveHandles(fit) : fit.chunks[k].next = h => fit.chunks[k].in_use
  <2>0. \A k \in LiveHandles(s) : s.chunks[k].next = h => s.chunks[k].in_use
    <3>1. h # kInvalidChunkHandle
      BY <1>0, LiveFields
    <3> QED BY <1>0, <3>1 DEF CoalescedIn
  <2>1. CASE ~ big
    <3>1. fit = out
      BY <1>5, <2>1
    <3>2. CoalescedBut(out, h)
      <4> SUFFICES ASSUME NEW k \in LiveHandles(s) \ {h}, NEW m, m = s.chunks[k].next,
                          m # kInvalidChunkHandle, m # h, ~ s.chunks[k].in_use
                   PROVE  out.chunks[m].in_use
        BY <1>3 DEF CoalescedBut
      <4>1. s.chunks[m].in_use /\ m \in LiveHandles(s)
        BY <1>0 DEF CoalescedIn, Tiled, Linked, NextLinked
      <4> QED BY <1>3, <4>1
    <3>3. /\ h \in LiveHandles(out) /\ ~ out.chunks[h].in_use
          /\ rounded <= out.chunks[h].size
          /\ \A k \in LiveHandles(out) : out.chunks[k].next = h => out.chunks[k].in_use
      BY <1>0, <1>3, <2>0
    <3>4. Binned(out, FreeChunks(out) \ {h})
      BY <1>2, <1>3
    <3> QED BY <1>2, <1>3, <3>1, <3>2, <3>3, <3>4
  <2>2. CASE big
    <3>1. PICK g : g = NextHandle(out)
      OBVIOUS
    <3>2. fit = SplitChunk(out, h, rounded)
      BY <1>5, <2>2
    <3>3. rounded < out.chunks[h].size
      <4>1. PICK x \in Nat : x = s.chunks[h].size /\ x = out.chunks[h].size
        BY <1>0, <1>3
      <4>2. x >= 2 * rounded \/ x - rounded >= kMaxInternalFragmentation
        BY <1>4, <2>2, <4>1
      <4>3. PICK y \in Nat \ {0} : y = kMaxInternalFragmentation
        BY ArenaConstants
      <4>4. x > rounded
        BY <4>2, <4>3
      <4> QED BY <4>1, <4>4
    <3>4. h \in LiveHandles(out) /\ h \notin FreeChunks(s) \ {h} /\ ~ out.chunks[h].in_use
      BY <1>0, <1>3
    <3>5. /\ ShapeOK(fit) /\ Tiled(fit, R) /\ Binned(fit, (FreeChunks(s) \ {h}) \cup {g})
          /\ SameHeld(out, fit)
          /\ LiveHandles(fit) = LiveHandles(out) \cup {g} /\ g \notin LiveHandles(out)
          /\ fit.chunks[h].ptr = out.chunks[h].ptr /\ fit.chunks[h].size = rounded
          /\ fit.chunks[h].next = g /\ fit.chunks[g].next = out.chunks[h].next
          /\ \A k \in LiveHandles(out) : fit.chunks[k].in_use = out.chunks[k].in_use
          /\ ~ fit.chunks[g].in_use
          /\ \A k \in LiveHandles(out) \ {h} : fit.chunks[k].next = out.chunks[k].next
      <4>1. PICK F : F = FreeChunks(s) \ {h}
        OBVIOUS
      <4>2. CutKept(out, R, F, h, rounded, g, fit)
        BY <1>2, <3>1, <3>2, <3>3, <3>4, <4>1, SplitKeeps
      <4> QED BY <4>1, <4>2 DEF CutKept
    <3>6. /\ LiveHandles(fit) = LiveHandles(s) \cup {g} /\ g \notin LiveHandles(s)
          /\ fit.chunks[h].next = g /\ fit.chunks[g].next = s.chunks[h].next
          /\ \A k \in LiveHandles(s) : fit.chunks[k].in_use = s.chunks[k].in_use
          /\ ~ fit.chunks[g].in_use
          /\ \A k \in LiveHandles(s) \ {h} : fit.chunks[k].next = s.chunks[k].next
      BY <1>0, <1>3, <3>5
    <3>7. SameHeld(s, fit)
      BY <1>3, <3>5, HeldTransitive
    <3>8. FreeChunks(fit) = FreeChunks(s) \cup {g}
      BY <3>6 DEF FreeChunks
    <3>9. Binned(fit, FreeChunks(fit) \ {h})
      <4>1. (FreeChunks(s) \ {h}) \cup {g} = FreeChunks(fit) \ {h}
        BY <1>0, <3>6, <3>8
      <4> QED BY <3>5, <4>1
    <3>10. s.chunks[h].next # kInvalidChunkHandle =>
             s.chunks[s.chunks[h].next].in_use /\ s.chunks[h].next \in LiveHandles(s)
      BY <1>0 DEF CoalescedIn, Tiled, Linked, NextLinked
    <3>11. CoalescedBut(fit, h)
      <4> SUFFICES ASSUME NEW k \in LiveHandles(fit) \ {h}, NEW m, m = fit.chunks[k].next,
                          m # kInvalidChunkHandle, m # h, ~ fit.chunks[k].in_use
                   PROVE  fit.chunks[m].in_use
        BY DEF CoalescedBut
      <4>1. CASE k = g
        BY <3>6, <3>10, <4>1
      <4>2. CASE k # g
        <5>1. k \in LiveHandles(s) \ {h} /\ m = s.chunks[k].next /\ ~ s.chunks[k].in_use
          BY <3>6, <4>2
        <5>2. s.chunks[m].in_use /\ m \in LiveHandles(s)
          BY <1>0, <5>1 DEF CoalescedIn, Tiled, Linked, NextLinked
        <5> QED BY <3>6, <5>2
      <4> QED BY <4>1, <4>2
    <3>12. ASSUME NEW k \in LiveHandles(fit), fit.chunks[k].next = h PROVE fit.chunks[k].in_use
      <4>1. k # h
        BY <1>0, <3>6, <3>12
      <4>2. k # g
        <5>1. s.chunks[h].next # h
          BY <1>0, NextIsOther, LiveFields
        <5> QED BY <3>6, <3>12, <5>1
      <4> QED BY <2>0, <3>6, <3>12, <4>1, <4>2
    <3>13. h \in LiveHandles(fit) /\ ~ fit.chunks[h].in_use /\ rounded <= fit.chunks[h].size
      BY <1>0, <3>5, <3>6
    <3> QED BY <3>5, <3>7, <3>9, <3>11, <3>12, <3>13
  <2> QED BY <2>1, <2>2
<1>7. PICK c : c = [fit.chunks[h] EXCEPT !.requested_size = num_bytes, !.in_use = TRUE]
  OBVIOUS
<1>8. fit.chunks[h] \in ChunkType /\ fit \in HeapType
  BY <1>6, LiveFields DEF ShapeOK
<1>9. /\ c \in ChunkType /\ c.ptr = fit.chunks[h].ptr /\ c.size = fit.chunks[h].size
      /\ c.prev = fit.chunks[h].prev /\ c.next = fit.chunks[h].next
      /\ c.bin_num = fit.chunks[h].bin_num /\ c.in_use /\ c.requested_size = num_bytes
  BY <1>0, <1>7, <1>8 DEF ChunkType
<1>10. PICK u : u = [fit EXCEPT !.chunks = [fit.chunks EXCEPT ![h] = c]]
  OBVIOUS
<1>11. t = u
  <2>1. h \in 1 .. Len(fit.chunks) /\ fit.chunks \in Seq(ChunkType)
    BY <1>6, <1>8, LiveFields, HeapFields DEF Handles
  <2>2. t = [fit EXCEPT !.chunks[h].requested_size = num_bytes, !.chunks[h].in_use = TRUE]
    BY <1>1, <1>4, <1>5 DEF Take
  <2>3. PICK q : q = [fit.chunks EXCEPT ![h] = c]
    OBVIOUS
  <2>4. q = [fit.chunks EXCEPT ![h].requested_size = num_bytes, ![h].in_use = TRUE]
    BY <1>7, <2>1, <2>3
  <2>5. t = [fit EXCEPT !.chunks = q]
    BY <1>8, <2>2, <2>4 DEF HeapType
  <2> QED BY <1>10, <2>3, <2>5
<1>12. /\ ShapeOK(t) /\ Tiled(t, R) /\ Binned(t, FreeChunks(fit) \ {h})
       /\ LiveHandles(t) = LiveHandles(fit)
       /\ t.chunks[h] = c
       /\ \A k \in LiveHandles(fit) \ {h} : t.chunks[k] = fit.chunks[k]
  <2>1. t = [fit EXCEPT !.chunks = [fit.chunks EXCEPT ![h] = c]]
    BY <1>10, <1>11
  <2>2. PICK F : F = FreeChunks(fit) \ {h}
    OBVIOUS
  <2>3. Binned(fit, F)
    BY <1>6, <2>2
  <2>4. MarkKept(fit, R, F, h, c, t)
    BY <1>6, <1>9, <2>1, <2>3, MarkFacts
  <2> QED BY <2>2, <2>4 DEF MarkKept
<1>13. FreeChunks(t) = FreeChunks(fit) \ {h} /\ InUse(t) = InUse(fit) \cup {h}
  BY <1>6, <1>9, <1>12 DEF FreeChunks, InUse
<1>14. InUse(fit) = InUse(s)
  BY <1>6 DEF SameHeld
<1>15. \A k \in InUse(s) : k \in LiveHandles(fit) \ {h} /\ t.chunks[k] = fit.chunks[k]
  BY <1>0, <1>12, <1>14 DEF InUse
<1>16. HeldPlus(s, t, h, num_bytes)
  BY <1>0, <1>6, <1>9, <1>12, <1>13, <1>14, <1>15 DEF HeldPlus, SameHeld
<1>17. HeldOK(t)
  <2>1. t.chunks[h].requested_size \in AllocSizes /\ t.chunks[h].requested_size <= t.chunks[h].size
    <3>1. PICK z \in Nat : z = fit.chunks[h].size
      BY <1>6, LiveFields
    <3>2. rounded <= z /\ t.chunks[h].size = z /\ t.chunks[h].requested_size = num_bytes
      BY <1>6, <1>9, <1>12, <3>1
    <3>3. num_bytes <= z
      BY <1>0, <3>1, <3>2
    <3> QED BY <3>2, <3>3
  <2>2. \A k \in InUse(s) : t.chunks[k].size = s.chunks[k].size
                            /\ t.chunks[k].requested_size = s.chunks[k].requested_size
    BY <1>6, <1>15 DEF SameHeld
  <2> QED BY <1>0, <1>13, <1>14, <2>1, <2>2 DEF HeldOK
<1>18. CoalescedIn(t)
  <2> SUFFICES ASSUME NEW k \in LiveHandles(t), NEW m, m = t.chunks[k].next,
                      m # kInvalidChunkHandle, ~ t.chunks[k].in_use
               PROVE  t.chunks[m].in_use
    BY DEF CoalescedIn
  <2>1. k # h /\ k \in LiveHandles(fit) \ {h} /\ m = fit.chunks[k].next /\ ~ fit.chunks[k].in_use
    BY <1>9, <1>12
  <2>2. m # h
    BY <1>6, <2>1
  <2>3. fit.chunks[m].in_use
    BY <1>6, <2>1, <2>2 DEF CoalescedBut
  <2>4. m \in LiveHandles(fit)
    BY <1>6, <2>1 DEF Tiled, Linked, NextLinked
  <2> QED BY <1>12, <2>2, <2>3, <2>4
<1>19. Binned(t, FreeChunks(t))
  BY <1>12, <1>13
<1> QED BY <1>12, <1>16, <1>17, <1>18, <1>19 DEF HeapOK

\* The bins that FindChunkPtr visits miss no chunk that is large enough.
LEMMA FittingAll ==
    ASSUME NEW s, NEW R, HeapOK(s, R), NEW rounded \in Nat
    PROVE  Fitting(s, rounded) = {h \in FreeChunks(s) : s.chunks[h].size >= rounded}
<1>1. /\ ShapeOK(s) /\ Binned(s, FreeChunks(s))
      /\ \A h \in FreeChunks(s) : h \in LiveHandles(s) /\ s.chunks[h].size \in Nat
  BY LiveFields DEF HeapOK, FreeChunks
<1>2. PICK low \in BinNum : low = BinNumForSize(rounded)
  BY BinLeast
<1>3. ASSUME NEW h \in Fitting(s, rounded)
      PROVE  h \in FreeChunks(s) /\ s.chunks[h].size >= rounded
  <2>1. PICK b \in low .. kNumBins - 1 : h \in s.bins[b] /\ s.chunks[h].size >= rounded
    BY <1>2 DEF Fitting
  <2>2. b \in BinNum
    BY <1>2, ArenaConstants DEF BinNum
  <2> QED BY <1>1, <2>1, <2>2 DEF Binned
<1>4. ASSUME NEW h \in FreeChunks(s), s.chunks[h].size >= rounded
      PROVE  h \in Fitting(s, rounded)
  <2>1. PICK b \in BinNum : b = BinNumForSize(s.chunks[h].size)
    BY <1>1, BinLeast
  <2>2. low <= b
    BY <1>1, <1>2, <1>4, <2>1, BinMonotone
  <2>3. b \in low .. kNumBins - 1
    BY <1>2, <2>1, <2>2, ArenaConstants DEF BinNum
  <2>4. h \in s.bins[b]
    BY <1>1, <2>1 DEF Binned
  <2> QED BY <1>2, <1>4, <2>3, <2>4 DEF Fitting
<1> QED BY <1>3, <1>4

\* FindChunkPtr finds a chunk if there is one that is large enough, and none
\* that is large enough is smaller.
LEMMA FirstFitBest ==
    ASSUME NEW s, NEW R, HeapOK(s, R), NEW rounded \in Nat, Fitting(s, rounded) # {},
           NEW h, h = FirstFit(s, rounded)
    PROVE  /\ h \in FreeChunks(s) /\ s.chunks[h].size >= rounded
           /\ \A g \in Fitting(s, rounded) : s.chunks[h].size <= s.chunks[g].size
<1>1. PICK T : T = Fitting(s, rounded)
  OBVIOUS
<1>2. T = {k \in FreeChunks(s) : s.chunks[k].size >= rounded} /\ T # {}
  BY <1>1, FittingAll
<1>3. ASSUME NEW k \in T
      PROVE  /\ s.chunks[k].size \in Nat /\ s.chunks[k].ptr \in Nat
             /\ s.chunks[k].bin_num = BinNumForSize(s.chunks[k].size)
             /\ s.chunks[k].bin_num \in Nat
  <2>1. k \in FreeChunks(s) /\ k \in LiveHandles(s) /\ ShapeOK(s) /\ Binned(s, FreeChunks(s))
    BY <1>2 DEF HeapOK, FreeChunks
  <2>2. s.chunks[k].size \in Nat /\ s.chunks[k].ptr \in Nat
    BY <2>1, LiveFields
  <2>3. s.chunks[k].bin_num = BinNumForSize(s.chunks[k].size)
    BY <2>1 DEF Binned
  <2>4. BinNumForSize(s.chunks[k].size) \in Nat
    BY <2>2, BinLeast DEF BinNum
  <2> QED BY <2>2, <2>3, <2>4
\* The least bin, in it the least size, and of that size the least address.
<1>4. PICK b \in {s.chunks[k].bin_num : k \in T} : \A c \in {s.chunks[k].bin_num : k \in T} : b <= c
  <2>1. {s.chunks[k].bin_num : k \in T} \subseteq Nat /\ {s.chunks[k].bin_num : k \in T} # {}
    BY <1>2, <1>3
  <2> QED BY <2>1, NatMin
<1>5. PICK U : U = {k \in T : s.chunks[k].bin_num = b}
  OBVIOUS
<1>6. PICK z \in {s.chunks[k].size : k \in U} : \A c \in {s.chunks[k].size : k \in U} : z <= c
  <2>1. {s.chunks[k].size : k \in U} \subseteq Nat /\ {s.chunks[k].size : k \in U} # {}
    BY <1>3, <1>4, <1>5
  <2> QED BY <2>1, NatMin
<1>7. PICK V : V = {k \in U : s.chunks[k].size = z}
  OBVIOUS
<1>8. PICK p \in {s.chunks[k].ptr : k \in V} : \A c \in {s.chunks[k].ptr : k \in V} : p <= c
  <2>0. V \subseteq T /\ V # {}
    BY <1>5, <1>6, <1>7
  <2>1. {s.chunks[k].ptr : k \in V} \subseteq Nat /\ {s.chunks[k].ptr : k \in V} # {}
    BY <1>3, <2>0
  <2> QED BY <2>1, NatMin
<1>9. PICK first \in V : s.chunks[first].ptr = p
  BY <1>8
<1>10. first \in T /\ \A g \in T : Before(s, first, g)
  <2>1. first \in T /\ s.chunks[first].bin_num = b /\ s.chunks[first].size = z
    BY <1>5, <1>7, <1>9
  <2> SUFFICES ASSUME NEW g \in T PROVE Before(s, first, g)
    BY <2>1
  <2>2. PICK b2 \in Nat, z2 \in Nat, p2 \in Nat :
           b2 = s.chunks[g].bin_num /\ z2 = s.chunks[g].size /\ p2 = s.chunks[g].ptr
    BY <1>3
  <2>3. b \in Nat /\ z \in Nat /\ p \in Nat
    BY <1>3, <1>9, <2>1
  <2>4. b <= b2
    BY <1>4, <2>2
  <2>5. b2 = b => z <= z2
    BY <1>5, <1>6, <2>2
  <2>6. b2 = b /\ z2 = z => p <= p2
    BY <1>5, <1>7, <1>8, <2>2
  <2>7. \/ b < b2
        \/ b = b2 /\ (z < z2 \/ (z = z2 /\ p <= p2))
    BY <2>2, <2>3, <2>4, <2>5, <2>6
  <2> QED BY <1>9, <2>1, <2>2, <2>7 DEF Before
<1>11. h \in T /\ \A g \in T : Before(s, h, g)
  <2>1. h = CHOOSE k \in T : \A g \in T : Before(s, k, g)
    BY <1>1 DEF FirstFit
  <2> QED BY <1>10, <2>1
<1>12. ASSUME NEW g \in T PROVE s.chunks[h].size <= s.chunks[g].size
  <2>1. PICK x \in Nat, y \in Nat : x = s.chunks[h].size /\ y = s.chunks[g].size
    BY <1>3, <1>11
  <2>2. \/ s.chunks[h].bin_num < s.chunks[g].bin_num
        \/ x <= y
    BY <1>11, <2>1 DEF Before
  <2>3. CASE s.chunks[h].bin_num < s.chunks[g].bin_num
    <3>1. BinNumForSize(x) < BinNumForSize(y)
      BY <1>3, <1>11, <2>1, <2>3
    <3>2. BinNumForSize(x) \in Nat /\ BinNumForSize(y) \in Nat
      BY BinLeast DEF BinNum
    <3>3. ~ (y <= x)
      BY <3>1, <3>2, BinMonotone
    <3> QED BY <2>1, <3>3
  <2> QED BY <2>1, <2>2, <2>3
<1> QED BY <1>1, <1>2, <1>11, <1>12

\* FindChunkPtr leaves the heap in order and touches nothing that is held.
LEMMA GrantKeeps ==
    ASSUME NEW s, NEW R, HeapOK(s, R), GoodRegions(R),
           NEW rounded \in Nat, 0 < rounded, Fitting(s, rounded) # {},
           NEW num_bytes \in AllocSizes, num_bytes <= rounded,
           NEW h, h = FirstFit(s, rounded), NEW t, t = Take(s, h, rounded, num_bytes)
    PROVE  HeapOK(t, R) /\ HeldPlus(s, t, h, num_bytes)
<1>1. h \in FreeChunks(s) /\ s.chunks[h].size >= rounded
  BY FirstFitBest
<1>2. s.chunks[h].size \in Nat
  BY <1>1, LiveFields DEF HeapOK, FreeChunks
<1>3. rounded <= s.chunks[h].size
  BY <1>1, <1>2
<1> QED BY <1>1, <1>3, TakeKeeps

\* A region of its own leaves the heap in order.
LEMMA ExtendKeeps ==
    ASSUME NEW s, NEW R, HeapOK(s, R), GoodRegions(R),
           NEW base \in Addr, NEW bytes \in Nat, bytes > 0,
           NEW r0, r0 = [ptr |-> base, size |-> bytes], GoodRegions(R \cup {r0}), r0 \notin R,
           NEW t, t = AddRegion(s, base, bytes)
    PROVE  HeapOK(t, R \cup {r0}) /\ SameHeld(s, t)
<1>0. ShapeOK(s) /\ Tiled(s, R) /\ Binned(s, FreeChunks(s)) /\ CoalescedIn(s) /\ HeldOK(s)
  BY DEF HeapOK
<1>1. PICK g : g = NextHandle(s)
  OBVIOUS
<1>2. /\ ShapeOK(t) /\ Tiled(t, R \cup {r0}) /\ Binned(t, FreeChunks(s) \cup {g}) /\ SameHeld(s, t)
      /\ LiveHandles(t) = LiveHandles(s) \cup {g} /\ g \notin LiveHandles(s)
      /\ t.chunks[g].next = kInvalidChunkHandle /\ t.chunks[g].size = bytes
      /\ \A k \in LiveHandles(s) : t.chunks[k] = s.chunks[k]
      /\ ~ t.chunks[g].in_use
  <2>1. PICK F : F = FreeChunks(s)
    OBVIOUS
  <2>2. Binned(s, F)
    BY <1>0, <2>1
  <2>3. RegionKept(s, R, F, r0, bytes, g, t)
    BY <1>0, <1>1, <2>2, AddRegionKeeps
  <2> QED BY <2>1, <2>3 DEF RegionKept
<1>3. FreeChunks(t) = FreeChunks(s) \cup {g}
  BY <1>2 DEF FreeChunks
<1>4. CoalescedIn(t)
  <2> SUFFICES ASSUME NEW k \in LiveHandles(t), t.chunks[k].next # kInvalidChunkHandle,
                      ~ t.chunks[k].in_use
               PROVE  t.chunks[t.chunks[k].next].in_use
    BY DEF CoalescedIn
  <2>1. k \in LiveHandles(s) /\ t.chunks[k] = s.chunks[k]
    BY <1>2
  <2>2. s.chunks[k].next \in LiveHandles(s) /\ s.chunks[s.chunks[k].next].in_use
    BY <1>0, <2>1 DEF CoalescedIn, Tiled, Linked, NextLinked
  <2> QED BY <1>2, <2>1, <2>2
<1>5. HeldOK(t)
  BY <1>0, <1>2 DEF HeldOK, SameHeld
<1> QED BY <1>2, <1>3, <1>4, <1>5 DEF HeapOK
=============================================================================
