-------------------------- MODULE MemPatternProofs --------------------------
(***************************************************************************)
(* For any number of values and any sizes: the planner keeps its list of   *)
(* live blocks sorted, and the pattern it generates keeps apart all values *)
(* that were ever live together and fits the buffer of PeakSize() bytes.   *)
(***************************************************************************)
EXTENDS MemPatternPlanner, SequenceTheorems, TLAPS

-----------------------------------------------------------------------------
(* The two list operations, element by element.                            *)

\* list::insert before position i: what is behind moves up by one.
LEMMA InsertAtElements ==
    ASSUME NEW s \in Seq(Nat), NEW i \in 1 .. Len(s) + 1, NEW e \in Nat
    PROVE  /\ InsertAt(s, i, e) \in Seq(Nat)
           /\ Len(InsertAt(s, i, e)) = Len(s) + 1
           /\ \A k \in 1 .. i - 1 : InsertAt(s, i, e)[k] = s[k]
           /\ InsertAt(s, i, e)[i] = e
           /\ \A k \in i + 1 .. Len(s) + 1 : InsertAt(s, i, e)[k] = s[k - 1]
  <1>n. PICK n : n = Len(s) OBVIOUS
  <1>1. n \in Nat /\ i \in Int /\ i \in 1 .. n + 1 /\ \A k \in 1 .. n : s[k] \in Nat
    BY <1>n, LenProperties, ElementOfSeq
  <1>2. PICK front : front = SubSeq(s, 1, i - 1) OBVIOUS
  <1>3. PICK back : back = SubSeq(s, i, n) OBVIOUS
  <1>4. /\ front \in Seq(Nat) /\ Len(front) = i - 1
        /\ \A k \in 1 .. i - 1 : front[k] = s[k]
    <2>1. \A k \in 1 .. i - 1 : s[k] \in Nat BY <1>1
    <2> QED BY <1>1, <1>2, <2>1, SubSeqProperties, Z3
  <1>5. /\ back \in Seq(Nat) /\ Len(back) = n - i + 1
        /\ \A k \in 1 .. n - i + 1 : back[k] = s[i + k - 1]
    <2>1. \A k \in i .. n : s[k] \in Nat BY <1>1
    <2> QED BY <1>1, <1>3, <2>1, SubSeqProperties, Z3
  <1>6. PICK new : new = <<e>> OBVIOUS
  <1>7. new \in Seq(Nat) /\ Len(new) = 1 /\ new[1] = e BY <1>6
  <1>8. PICK middle : middle = front \o new OBVIOUS
  <1>9. /\ middle \in Seq(Nat) /\ Len(middle) = i
        /\ \A k \in 1 .. i - 1 : middle[k] = s[k]
        /\ middle[i] = e
    <2>1. /\ middle \in Seq(Nat) /\ Len(middle) = Len(front) + Len(new)
          /\ \A k \in 1 .. Len(front) + Len(new) : middle[k] =
                IF k <= Len(front) THEN front[k] ELSE new[k - Len(front)]
      BY ONLY <1>4, <1>7, <1>8, ConcatProperties
    <2>2. Len(front) + Len(new) = i BY <1>1, <1>4, <1>7
    <2>3. \A k \in 1 .. i : middle[k] = IF k <= i - 1 THEN front[k] ELSE new[k - (i - 1)]
      BY ONLY <1>4, <2>1, <2>2
    <2>4. \A k \in 1 .. i - 1 : k \in 1 .. i /\ k <= i - 1 BY ONLY <1>1
    <2>5. i \in 1 .. i /\ ~ (i <= i - 1) /\ i - (i - 1) = 1 BY ONLY <1>1
    <2>6. \A k \in 1 .. i - 1 : middle[k] = s[k] BY ONLY <1>4, <2>3, <2>4
    <2>7. middle[i] = e BY ONLY <1>7, <2>3, <2>5
    <2> QED BY ONLY <2>1, <2>2, <2>6, <2>7
  <1>10. PICK all : all = middle \o back OBVIOUS
  <1>11. /\ all \in Seq(Nat) /\ Len(all) = n + 1
         /\ \A k \in 1 .. i - 1 : all[k] = s[k]
         /\ all[i] = e
         /\ \A k \in i + 1 .. n + 1 : all[k] = s[k - 1]
    <2>1. /\ all \in Seq(Nat) /\ Len(all) = Len(middle) + Len(back)
          /\ \A k \in 1 .. Len(middle) + Len(back) : all[k] =
                IF k <= Len(middle) THEN middle[k] ELSE back[k - Len(middle)]
      BY ONLY <1>5, <1>9, <1>10, ConcatProperties
    <2>2. Len(middle) + Len(back) = n + 1 BY <1>1, <1>5, <1>9
    <2>3. \A k \in 1 .. n + 1 : all[k] = IF k <= i THEN middle[k] ELSE back[k - i]
      BY ONLY <1>9, <2>1, <2>2
    <2>4. \A k \in 1 .. i - 1 : k \in 1 .. n + 1 /\ k <= i BY ONLY <1>1
    <2>5. i \in 1 .. n + 1 /\ i <= i BY ONLY <1>1
    <2>6. \A k \in i + 1 .. n + 1 : /\ k \in 1 .. n + 1 /\ ~ (k <= i)
                                    /\ k - i \in 1 .. n - i + 1 /\ i + (k - i) - 1 = k - 1
      BY ONLY <1>1
    <2>7. \A k \in 1 .. i - 1 : all[k] = s[k] BY ONLY <1>9, <2>3, <2>4
    <2>8. all[i] = e BY ONLY <1>9, <2>3, <2>5
    <2>9. ASSUME NEW k \in i + 1 .. n + 1 PROVE all[k] = s[k - 1]
      <3>1. all[k] = back[k - i] BY ONLY <2>3, <2>6, k \in i + 1 .. n + 1
      <3>2. back[k - i] = s[i + (k - i) - 1] BY ONLY <1>5, <2>6, k \in i + 1 .. n + 1
      <3> QED BY ONLY <2>6, <3>1, <3>2, k \in i + 1 .. n + 1
    <2> QED BY ONLY <2>1, <2>2, <2>7, <2>8, <2>9
  <1>12. InsertAt(s, i, e) = all
    BY <1>n, <1>2, <1>3, <1>6, <1>8, <1>10, Zenon DEF InsertAt
  <1> QED BY ONLY <1>n, <1>11, <1>12

\* list::erase at position i: what is behind moves down by one.
LEMMA RemoveAtElements ==
    ASSUME NEW s \in Seq(Nat), NEW i \in 1 .. Len(s)
    PROVE  /\ RemoveAt(s, i) \in Seq(Nat)
           /\ Len(RemoveAt(s, i)) = Len(s) - 1
           /\ \A k \in 1 .. i - 1 : RemoveAt(s, i)[k] = s[k]
           /\ \A k \in i .. Len(s) - 1 : RemoveAt(s, i)[k] = s[k + 1]
  <1>n. PICK n : n = Len(s) OBVIOUS
  <1>1. n \in Nat /\ i \in Int /\ i \in 1 .. n /\ \A k \in 1 .. n : s[k] \in Nat
    BY <1>n, LenProperties, ElementOfSeq
  <1>2. PICK front : front = SubSeq(s, 1, i - 1) OBVIOUS
  <1>3. PICK back : back = SubSeq(s, i + 1, n) OBVIOUS
  <1>4. /\ front \in Seq(Nat) /\ Len(front) = i - 1
        /\ \A k \in 1 .. i - 1 : front[k] = s[k]
    <2>1. \A k \in 1 .. i - 1 : s[k] \in Nat BY <1>1
    <2> QED BY <1>1, <1>2, <2>1, SubSeqProperties, Z3
  <1>5. /\ back \in Seq(Nat) /\ Len(back) = n - i
        /\ \A k \in 1 .. n - i : back[k] = s[i + k]
    <2>1. \A k \in i + 1 .. n : s[k] \in Nat BY <1>1
    <2> QED BY <1>1, <1>3, <2>1, SubSeqProperties, Z3
  <1>6. PICK all : all = front \o back OBVIOUS
  <1>7. /\ all \in Seq(Nat) /\ Len(all) = n - 1
        /\ \A k \in 1 .. i - 1 : all[k] = s[k]
        /\ \A k \in i .. n - 1 : all[k] = s[k + 1]
    <2>1. /\ all \in Seq(Nat) /\ Len(all) = Len(front) + Len(back)
          /\ \A k \in 1 .. Len(front) + Len(back) : all[k] =
                IF k <= Len(front) THEN front[k] ELSE back[k - Len(front)]
      BY ONLY <1>4, <1>5, <1>6, ConcatProperties
    <2>2. Len(front) + Len(back) = n - 1 BY <1>1, <1>4, <1>5
    <2>3. \A k \in 1 .. n - 1 : all[k] = IF k <= i - 1 THEN front[k] ELSE back[k - (i - 1)]
      BY ONLY <1>4, <2>1, <2>2
    <2>4. \A k \in 1 .. i - 1 : k \in 1 .. n - 1 /\ k <= i - 1 BY ONLY <1>1
    <2>5. \A k \in i .. n - 1 : /\ k \in 1 .. n - 1 /\ ~ (k <= i - 1)
                                /\ k - (i - 1) \in 1 .. n - i /\ i + (k - (i - 1)) = k + 1
      BY ONLY <1>1
    <2>6. \A k \in 1 .. i - 1 : all[k] = s[k] BY ONLY <1>4, <2>3, <2>4
    <2>7. ASSUME NEW k \in i .. n - 1 PROVE all[k] = s[k + 1]
      <3>1. all[k] = back[k - (i - 1)] BY ONLY <2>3, <2>5, k \in i .. n - 1
      <3>2. back[k - (i - 1)] = s[i + (k - (i - 1))] BY ONLY <1>5, <2>5, k \in i .. n - 1
      <3> QED BY ONLY <2>5, <3>1, <3>2, k \in i .. n - 1
    <2> QED BY ONLY <2>1, <2>2, <2>6, <2>7
  <1>8. RemoveAt(s, i) = all BY <1>n, <1>2, <1>3, <1>6, Zenon DEF RemoveAt
  <1> QED BY ONLY <1>n, <1>7, <1>8

-----------------------------------------------------------------------------
(* The inductive invariant.  The pattern speaks of values, the state of    *)
(* allocations: no value has two of them, so the two agree.                *)

OneAllocPerValue ==
    \A m, n \in DOMAIN allocs : allocs[m].index = allocs[n].index => m = n

AllocsFit == \A n \in DOMAIN allocs : EndOf(allocs[n]) <= buffer_size

Disjoint(a, b) == EndOf(a) <= b.offset \/ EndOf(b) <= a.offset

CoexistedApart ==
    \A m, n \in DOMAIN allocs :
        <<allocs[m].index, allocs[n].index>> \in coexisted => Disjoint(allocs[m], allocs[n])

CoexistedKnown == coexisted \subseteq AllocatedValues \X AllocatedValues

IndInv == /\ TypeOK
          /\ BlocksSorted
          /\ OneAllocPerValue
          /\ AllocsFit
          /\ CoexistedApart
          /\ CoexistedKnown

\* Facts about sequences and blocks that every step uses.
LEMMA BlockFacts ==
    ASSUME TypeOK
    PROVE  /\ Len(allocs) \in Nat /\ DOMAIN allocs = 1 .. Len(allocs)
           /\ Len(blocks) \in Nat /\ DOMAIN blocks = 1 .. Len(blocks)
           /\ \A n \in DOMAIN allocs : /\ allocs[n] \in AllocType
                                       /\ allocs[n].index \in Values
                                       /\ allocs[n].offset \in Nat /\ allocs[n].size \in Nat
                                       /\ EndOf(allocs[n]) \in Nat
           /\ \A i \in DOMAIN blocks : blocks[i] \in DOMAIN allocs
  <1>1. allocs \in Seq(AllocType) /\ blocks \in Seq(Nat) BY DEF TypeOK
  <1>2. /\ Len(allocs) \in Nat /\ DOMAIN allocs = 1 .. Len(allocs)
        /\ Len(blocks) \in Nat /\ DOMAIN blocks = 1 .. Len(blocks)
    BY <1>1, LenProperties
  <1>3. \A n \in DOMAIN allocs : allocs[n] \in AllocType BY <1>1, <1>2, ElementOfSeq
  <1>4. \A i \in DOMAIN blocks : blocks[i] \in DOMAIN allocs BY DEF TypeOK
  <1> QED BY <1>2, <1>3, <1>4 DEF AllocType, EndOf

\* Appending to allocs_ keeps what it held.
LEMMA AppendAlloc ==
    ASSUME TypeOK, NEW a \in AllocType, allocs' = Append(allocs, a)
    PROVE  /\ allocs' \in Seq(AllocType)
           /\ DOMAIN allocs' = 1 .. Len(allocs) + 1
           /\ \A n \in DOMAIN allocs : allocs'[n] = allocs[n]
           /\ allocs'[Len(allocs) + 1] = a
           /\ AllocatedValues' = AllocatedValues \cup {a.index}
  <1>1. allocs \in Seq(AllocType) BY DEF TypeOK
  <1>2. /\ allocs' \in Seq(AllocType)
        /\ Len(allocs') = Len(allocs) + 1
        /\ \A n \in 1 .. Len(allocs) : allocs'[n] = allocs[n]
        /\ allocs'[Len(allocs) + 1] = a
    BY <1>1, AppendProperties
  <1>3. DOMAIN allocs = 1 .. Len(allocs) /\ Len(allocs) \in Nat BY BlockFacts
  <1>4. DOMAIN allocs' = 1 .. Len(allocs) + 1 BY <1>2, LenProperties
  <1>5. AllocatedValues' = AllocatedValues \cup {a.index}
    BY <1>2, <1>3, <1>4 DEF AllocatedValues
  <1> QED BY <1>2, <1>3, <1>4, <1>5

\* A block put where the blocks before position i end and those from i on
\* have not begun keeps the invariant.
LEMMA InsertKeepsInv ==
    ASSUME IndInv,
           NEW v \in Values, v \notin AllocatedValues,
           NEW size \in Nat, NEW offset \in Nat,
           NEW i \in 1 .. Len(blocks) + 1,
           \A k \in 1 .. i - 1 : EndOf(BlockOf(k)) <= offset,
           \A k \in i .. Len(blocks) : offset + size <= BlockOf(k).offset,
           Insert(v, size, offset, i)
    PROVE  IndInv'
  <1>0. PICK N : N = Len(allocs) + 1 OBVIOUS
  <1> DEFINE a == [index |-> v, offset |-> offset, size |-> size]
  <1>1. TypeOK BY DEF IndInv
  <1>2. /\ Len(allocs) \in Nat /\ DOMAIN allocs = 1 .. Len(allocs)
        /\ Len(blocks) \in Nat /\ DOMAIN blocks = 1 .. Len(blocks)
        /\ \A n \in DOMAIN allocs : /\ allocs[n] \in AllocType
                                    /\ allocs[n].index \in Values
                                    /\ allocs[n].offset \in Nat /\ allocs[n].size \in Nat
                                    /\ EndOf(allocs[n]) \in Nat
        /\ \A k \in DOMAIN blocks : blocks[k] \in DOMAIN allocs
    BY <1>1, BlockFacts
  <1>3. a \in AllocType /\ a.index = v /\ a.offset = offset /\ a.size = size
    BY DEF AllocType
  <1>4. /\ allocs' \in Seq(AllocType)
        /\ DOMAIN allocs' = 1 .. N
        /\ \A n \in DOMAIN allocs : allocs'[n] = allocs[n]
        /\ allocs'[N] = a
        /\ AllocatedValues' = AllocatedValues \cup {v}
    BY <1>0, <1>1, <1>3, AppendAlloc DEF Insert
  <1> HIDE DEF a
  <1>5. N \in Nat /\ N \notin DOMAIN allocs BY <1>0, <1>2
  <1>m. PICK M : M = Len(blocks) OBVIOUS
  <1>M. M \in Nat /\ i \in 1 .. M + 1 /\ DOMAIN blocks = 1 .. M BY <1>m, <1>2
  <1>s. /\ blocks' \in Seq(Nat)
        /\ DOMAIN blocks' = 1 .. M + 1
        /\ \A k \in 1 .. i - 1 : blocks'[k] = blocks[k]
        /\ blocks'[i] = N
        /\ \A k \in i + 1 .. M + 1 : blocks'[k] = blocks[k - 1]
    <2>1. blocks \in Seq(Nat) /\ N \in Nat BY <1>1, <1>5 DEF TypeOK
    <2>2. blocks' = InsertAt(blocks, i, N) BY <1>0 DEF Insert
    <2>3. /\ blocks' \in Seq(Nat)
          /\ Len(blocks') = Len(blocks) + 1
          /\ \A k \in 1 .. i - 1 : blocks'[k] = blocks[k]
          /\ blocks'[i] = N
          /\ \A k \in i + 1 .. Len(blocks) + 1 : blocks'[k] = blocks[k - 1]
      BY ONLY <2>1, <2>2, i \in 1 .. Len(blocks) + 1, InsertAtElements, ZenonT(60)
    <2>4. DOMAIN blocks' = 1 .. Len(blocks') BY <2>3, LenProperties
    <2> QED BY <1>m, <2>3, <2>4
  \* Position by position: in front of the new block, the new block, behind it.
  <1>6. /\ \A k \in 1 .. M + 1 : k < i => k \in DOMAIN blocks /\ blocks'[k] = blocks[k]
        /\ blocks'[i] = N
        /\ \A k \in 1 .. M + 1 : k > i => k - 1 \in DOMAIN blocks /\ blocks'[k] = blocks[k - 1]
    <2>1. \A k \in 1 .. M + 1 : k < i => k \in 1 .. i - 1 /\ k \in 1 .. M BY <1>M
    <2>2. \A k \in 1 .. M + 1 : k > i => k \in i + 1 .. M + 1 /\ k - 1 \in 1 .. M BY <1>M
    <2> QED BY <1>M, <1>s, <2>1, <2>2
  <1>7. coexisted' = coexisted \cup {<<BlockOf(k).index, v>> : k \in DOMAIN blocks}
    BY DEF Insert
  <1>8. buffer_size \in Nat /\ buffer_size' \in Nat
        /\ buffer_size <= buffer_size' /\ offset + size <= buffer_size'
    BY <1>1 DEF Insert, TypeOK
  \* Blocks keep their places; the new one lies between its neighbours.
  <1>9. \A k \in DOMAIN blocks : allocs'[blocks[k]] = BlockOf(k)
    BY <1>2, <1>4 DEF BlockOf
  <1>10. EndOf(a) = offset + size /\ a.offset = offset BY <1>3 DEF EndOf
  <1>11. TypeOK'
    <2>1. coexisted' \subseteq Values \X Values
      BY <1>1, <1>2, <1>7 DEF TypeOK, BlockOf
    <2>2. (freed \subseteq Values)' BY <1>1 DEF TypeOK, Insert
    <2>3. ASSUME NEW k \in 1 .. M + 1 PROVE blocks'[k] \in 1 .. N
      <3>1. k < i \/ k = i \/ k > i BY <1>M
      <3>2. \A n \in DOMAIN allocs : n \in 1 .. N BY <1>0, <1>2
      <3>3. N \in 1 .. N BY <1>0, <1>2
      <3> QED BY <1>2, <1>6, <3>1, <3>2, <3>3
    <2>4. \A k \in DOMAIN blocks' : blocks'[k] \in DOMAIN allocs' BY <1>4, <1>s, <2>3
    <2> QED BY <1>4, <1>s, <1>8, <2>1, <2>2, <2>4 DEF TypeOK
  <1>12. BlocksSorted'
    <2> SUFFICES ASSUME NEW j \in 1 .. M + 1, NEW k \in 1 .. M + 1, j < k
                 PROVE  EndOf(allocs'[blocks'[j]]) <= allocs'[blocks'[k]].offset
      BY <1>s DEF BlocksSorted, BlockOf, EndOf
    <2>1. \A p, q \in DOMAIN blocks : p < q => EndOf(BlockOf(p)) <= BlockOf(q).offset
      BY DEF IndInv, BlocksSorted
    <2>2. CASE k < i
      <3>1. j < i BY <1>M, <2>2
      <3>2. allocs'[blocks'[j]] = BlockOf(j) /\ allocs'[blocks'[k]] = BlockOf(k)
        BY <1>6, <1>9, <2>2, <3>1
      <3> QED BY <1>6, <2>1, <2>2, <3>1, <3>2
    <2>3. CASE k = i
      <3>1. j < i /\ j \in 1 .. i - 1 BY <1>M, <2>3
      <3>2. allocs'[blocks'[j]] = BlockOf(j) /\ allocs'[blocks'[k]] = a
        BY <1>4, <1>6, <1>9, <2>3, <3>1
      <3> QED BY <1>10, <3>1, <3>2
    <2>4. CASE j < i /\ k > i
      <3>1. j < k - 1 BY <1>M, <2>4
      <3>2. allocs'[blocks'[j]] = BlockOf(j) /\ allocs'[blocks'[k]] = BlockOf(k - 1)
        BY <1>6, <1>9, <2>4
      <3> QED BY <1>6, <2>1, <2>4, <3>1, <3>2
    <2>5. CASE j = i
      <3>1. k > i /\ k - 1 \in i .. Len(blocks) BY <1>M, <1>m, <2>5
      <3>2. allocs'[blocks'[j]] = a /\ allocs'[blocks'[k]] = BlockOf(k - 1)
        BY <1>4, <1>6, <1>9, <2>5, <3>1
      <3> QED BY <1>10, <3>1, <3>2
    <2>6. CASE j > i
      <3>1. k > i /\ j - 1 < k - 1 BY <1>M, <2>6
      <3>2. allocs'[blocks'[j]] = BlockOf(j - 1) /\ allocs'[blocks'[k]] = BlockOf(k - 1)
        BY <1>6, <1>9, <2>6, <3>1
      <3> QED BY <1>6, <2>1, <2>6, <3>1, <3>2
    <2> QED BY <1>M, <2>2, <2>3, <2>4, <2>5, <2>6
  <1>13. OneAllocPerValue'
    <2>1. \A n \in DOMAIN allocs : allocs[n].index # v BY DEF AllocatedValues
    <2>2. \A p \in 1 .. N : p \in DOMAIN allocs \/ p = N BY <1>0, <1>2
    <2>3. ASSUME NEW m \in 1 .. N, NEW n \in 1 .. N, allocs'[m].index = allocs'[n].index
          PROVE  m = n
      BY <1>3, <1>4, <2>1, <2>2, <2>3 DEF IndInv, OneAllocPerValue
    <2> QED BY <1>4, <2>3 DEF OneAllocPerValue
  <1>14. AllocsFit'
    <2>1. \A n \in DOMAIN allocs : EndOf(allocs[n]) <= buffer_size
      BY DEF IndInv, AllocsFit
    <2>2. \A n \in 1 .. N : n \in DOMAIN allocs \/ n = N BY <1>0, <1>2
    <2>3. ASSUME NEW n \in 1 .. N PROVE EndOf(allocs'[n]) <= buffer_size'
      BY <1>2, <1>4, <1>8, <1>10, <2>1, <2>2
    <2> QED BY <1>4, <2>3 DEF AllocsFit, EndOf
  <1>15. CoexistedKnown'
    <2>1. \A k \in DOMAIN blocks : BlockOf(k).index \in AllocatedValues
      BY <1>2 DEF AllocatedValues, BlockOf
    <2>2. coexisted \subseteq AllocatedValues \X AllocatedValues BY DEF IndInv, CoexistedKnown
    <2>3. coexisted' \subseteq AllocatedValues' \X AllocatedValues' BY <1>4, <1>7, <2>1, <2>2
    <2> QED BY <2>3 DEF CoexistedKnown
  <1>16. CoexistedApart'
    <2> SUFFICES ASSUME NEW m \in 1 .. N, NEW n \in 1 .. N,
                        <<allocs'[m].index, allocs'[n].index>> \in coexisted'
                 PROVE  Disjoint(allocs'[m], allocs'[n])
      BY <1>4 DEF CoexistedApart, Disjoint, EndOf
    <2>1. \A p \in 1 .. N : p \in DOMAIN allocs \/ p = N BY <1>0, <1>2
    <2>2. \A p \in DOMAIN allocs : allocs[p].index # v BY DEF AllocatedValues
    <2>3. \A c \in coexisted : c[1] # v /\ c[2] # v BY DEF IndInv, CoexistedKnown
    <2>4. CASE <<allocs'[m].index, allocs'[n].index>> \in coexisted
      <3>1. allocs'[m].index # v /\ allocs'[n].index # v BY <2>3, <2>4
      <3>2. m \in DOMAIN allocs /\ n \in DOMAIN allocs BY <1>3, <1>4, <2>1, <3>1
      <3> QED BY <1>4, <2>4, <3>2 DEF IndInv, CoexistedApart
    <2>5. CASE \E k \in DOMAIN blocks :
                  <<allocs'[m].index, allocs'[n].index>> = <<BlockOf(k).index, v>>
      <3>1. PICK k \in DOMAIN blocks :
                  allocs'[m].index = BlockOf(k).index /\ allocs'[n].index = v
        BY <2>5
      <3>2. n = N BY <1>4, <2>1, <2>2, <3>1
      <3>3. BlockOf(k).index # v BY <1>2, <2>2 DEF BlockOf
      <3>4. m \in DOMAIN allocs BY <1>3, <1>4, <2>1, <3>1, <3>3
      <3>5. m = blocks[k] BY <1>2, <1>4, <3>1, <3>4 DEF IndInv, OneAllocPerValue, BlockOf
      <3>6. allocs'[m] = BlockOf(k) /\ allocs'[n] = a BY <1>4, <1>9, <3>2, <3>5
      <3>7. EndOf(BlockOf(k)) <= offset \/ offset + size <= BlockOf(k).offset
        BY <1>2
      <3> QED BY <1>10, <3>6, <3>7 DEF Disjoint
    <2> QED BY <1>7, <2>4, <2>5
  <1> QED BY <1>11, <1>12, <1>13, <1>14, <1>15, <1>16 DEF IndInv

\* Releasing a value only shortens the list.
LEMMA TraceFreeKeepsInv ==
    ASSUME IndInv, NEW v \in Values, TraceFree(v)
    PROVE  IndInv'
  <1>1. TypeOK BY DEF IndInv
  <1>2. /\ Len(allocs) \in Nat /\ DOMAIN allocs = 1 .. Len(allocs)
        /\ Len(blocks) \in Nat /\ DOMAIN blocks = 1 .. Len(blocks)
        /\ \A n \in DOMAIN allocs : /\ allocs[n].offset \in Nat
                                    /\ EndOf(allocs[n]) \in Nat
        /\ \A k \in DOMAIN blocks : blocks[k] \in DOMAIN allocs
    BY <1>1, BlockFacts
  <1>3. /\ UNCHANGED <<allocs, buffer_size, coexisted>>
        /\ freed' \subseteq Values
    BY <1>1 DEF TraceFree, TypeOK
  <1>4. /\ blocks' \in Seq(Nat)
        /\ \A k \in DOMAIN blocks' : blocks'[k] \in DOMAIN allocs
        /\ BlocksSorted'
    <2>1. CASE UNCHANGED blocks
      BY <1>1, <1>3, <2>1 DEF TypeOK, IndInv, BlocksSorted, BlockOf, EndOf
    <2>2. CASE \E i \in DOMAIN blocks : blocks' = RemoveAt(blocks, i)
      <3>m. PICK M : M = Len(blocks) OBVIOUS
      <3>0. M \in Nat /\ DOMAIN blocks = 1 .. M BY <1>2, <3>m
      <3>1. PICK i \in 1 .. Len(blocks) : blocks' = RemoveAt(blocks, i) BY <1>2, <2>2
      <3>2. blocks \in Seq(Nat) BY <1>1 DEF TypeOK
      <3>3. /\ blocks' \in Seq(Nat)
            /\ Len(blocks') = Len(blocks) - 1
            /\ \A k \in 1 .. i - 1 : blocks'[k] = blocks[k]
            /\ \A k \in i .. Len(blocks) - 1 : blocks'[k] = blocks[k + 1]
        BY ONLY <3>1, <3>2, i \in 1 .. Len(blocks), RemoveAtElements
      <3>4. DOMAIN blocks' = 1 .. M - 1 BY <3>m, <3>3, LenProperties
      \* Each remaining block had a place before, and their order is kept.
      <3>5. \A k \in 1 .. M - 1 :
               \/ k < i /\ k \in DOMAIN blocks /\ blocks'[k] = blocks[k]
               \/ ~ (k < i) /\ k + 1 \in DOMAIN blocks /\ blocks'[k] = blocks[k + 1]
        <4>0. i \in Int /\ i \in 1 .. M BY <3>m, <3>0
        <4>1. \A k \in 1 .. M - 1 : /\ k < i => k \in 1 .. i - 1
                                    /\ ~ (k < i) => k \in i .. M - 1
          BY ONLY <3>0, <4>0
        <4>2. \A k \in 1 .. M - 1 : k \in 1 .. M /\ k + 1 \in 1 .. M BY ONLY <3>0
        <4>3. /\ \A k \in 1 .. i - 1 : blocks'[k] = blocks[k]
              /\ \A k \in i .. M - 1 : blocks'[k] = blocks[k + 1]
          BY ONLY <3>m, <3>3
        <4> QED BY ONLY <3>0, <4>1, <4>2, <4>3
      <3>6. ASSUME NEW j \in 1 .. M - 1, NEW k \in 1 .. M - 1, j < k
            PROVE  \E p, q \in DOMAIN blocks :
                      p < q /\ blocks'[j] = blocks[p] /\ blocks'[k] = blocks[q]
        <4>1. j \in Int /\ k \in Int /\ i \in Int /\ j < k /\ j < k + 1 /\ j + 1 < k + 1
          BY <3>0, <3>6
        <4>2. CASE k < i
          <5>1. j < i /\ k < i BY ONLY <4>1, <4>2
          <5>2. j \in DOMAIN blocks /\ blocks'[j] = blocks[j]
            BY ONLY <3>5, <5>1, j \in 1 .. M - 1
          <5>3. k \in DOMAIN blocks /\ blocks'[k] = blocks[k]
            BY ONLY <3>5, <5>1, k \in 1 .. M - 1
          <5> QED BY ONLY <4>1, <5>2, <5>3
        <4>3. CASE j < i /\ ~ (k < i)
          <5>1. j < i /\ ~ (k < i) BY ONLY <4>1, <4>3
          <5>2. j \in DOMAIN blocks /\ blocks'[j] = blocks[j]
            BY ONLY <3>5, <5>1, j \in 1 .. M - 1
          <5>3. k + 1 \in DOMAIN blocks /\ blocks'[k] = blocks[k + 1]
            BY ONLY <3>5, <5>1, k \in 1 .. M - 1
          <5> QED BY ONLY <4>1, <5>2, <5>3
        <4>4. CASE ~ (j < i)
          <5>1. ~ (j < i) /\ ~ (k < i) BY ONLY <4>1, <4>4
          <5>2. j + 1 \in DOMAIN blocks /\ blocks'[j] = blocks[j + 1]
            BY ONLY <3>5, <5>1, j \in 1 .. M - 1
          <5>3. k + 1 \in DOMAIN blocks /\ blocks'[k] = blocks[k + 1]
            BY ONLY <3>5, <5>1, k \in 1 .. M - 1
          <5> QED BY ONLY <4>1, <5>2, <5>3
        <4> QED BY <4>2, <4>3, <4>4
      <3>7. BlocksSorted'
        <4>1. ASSUME NEW j \in 1 .. M - 1, NEW k \in 1 .. M - 1, j < k
              PROVE  EndOf(allocs[blocks'[j]]) <= allocs[blocks'[k]].offset
          BY <3>6, <4>1 DEF IndInv, BlocksSorted, BlockOf
        <4> QED BY <1>3, <3>4, <4>1 DEF BlocksSorted, BlockOf, EndOf
      <3>8. \A k \in DOMAIN blocks' : blocks'[k] \in DOMAIN allocs BY <1>2, <3>4, <3>5
      <3> QED BY <3>3, <3>7, <3>8
    <2> QED BY <2>1, <2>2 DEF TraceFree
  <1>5. TypeOK' BY <1>1, <1>3, <1>4 DEF TypeOK
  <1>6. OneAllocPerValue' /\ AllocsFit' /\ CoexistedApart' /\ CoexistedKnown'
    BY <1>3 DEF IndInv, OneAllocPerValue, AllocsFit, CoexistedApart, CoexistedKnown,
                Disjoint, EndOf, AllocatedValues
  <1> QED BY <1>4, <1>5, <1>6 DEF IndInv

\* An empty tensor is recorded at offset 0 and takes no room.
LEMMA TraceEmptyKeepsInv ==
    ASSUME IndInv, NEW v \in Values, TraceEmpty(v)
    PROVE  IndInv'
  <1> DEFINE a == [index |-> v, offset |-> 0, size |-> 0]
             N == Len(allocs) + 1
  <1>1. TypeOK BY DEF IndInv
  <1>2. /\ Len(allocs) \in Nat /\ DOMAIN allocs = 1 .. Len(allocs)
        /\ Len(blocks) \in Nat /\ DOMAIN blocks = 1 .. Len(blocks)
        /\ \A n \in DOMAIN allocs : EndOf(allocs[n]) \in Nat
        /\ \A k \in DOMAIN blocks : blocks[k] \in DOMAIN allocs
    BY <1>1, BlockFacts
  <1>3. a \in AllocType /\ a.index = v /\ EndOf(a) = 0 BY DEF AllocType, EndOf
  <1>4. /\ allocs' \in Seq(AllocType)
        /\ DOMAIN allocs' = 1 .. N
        /\ \A n \in DOMAIN allocs : allocs'[n] = allocs[n]
        /\ allocs'[N] = a
        /\ AllocatedValues' = AllocatedValues \cup {v}
    BY <1>1, <1>3, AppendAlloc DEF TraceEmpty
  <1> HIDE DEF a
  <1>5. UNCHANGED <<blocks, buffer_size, freed, coexisted>> /\ v \notin AllocatedValues
    BY DEF TraceEmpty
  <1>6. \A n \in 1 .. N : n \in DOMAIN allocs \/ n = N BY <1>2
  <1>7. \A n \in DOMAIN allocs : allocs[n].index # v BY <1>5 DEF AllocatedValues
  <1>8. \A c \in coexisted : c[1] # v /\ c[2] # v BY <1>5 DEF IndInv, CoexistedKnown
  <1> HIDE DEF N
  <1>9. TypeOK'
    <2>1. \A n \in DOMAIN allocs : n \in 1 .. N BY <1>2 DEF N
    <2> QED BY <1>1, <1>2, <1>4, <1>5, <2>1 DEF TypeOK
  <1>10. BlocksSorted'
    BY <1>2, <1>4, <1>5 DEF IndInv, BlocksSorted, BlockOf, EndOf
  <1>11. OneAllocPerValue'
    BY <1>3, <1>4, <1>6, <1>7 DEF IndInv, OneAllocPerValue
  <1>12. AllocsFit'
    <2>1. buffer_size \in Nat BY <1>1 DEF TypeOK
    <2>2. ASSUME NEW n \in 1 .. N PROVE EndOf(allocs'[n]) <= buffer_size
      BY <1>3, <1>4, <1>6, <2>1 DEF IndInv, AllocsFit
    <2> QED BY <1>4, <1>5, <2>2 DEF AllocsFit, EndOf
  <1>13. CoexistedApart'
    <2> SUFFICES ASSUME NEW m \in 1 .. N, NEW n \in 1 .. N,
                        <<allocs'[m].index, allocs'[n].index>> \in coexisted
                 PROVE  Disjoint(allocs'[m], allocs'[n])
      BY <1>4, <1>5 DEF CoexistedApart, Disjoint, EndOf
    <2>1. allocs'[m].index # v /\ allocs'[n].index # v BY <1>8
    <2>2. m \in DOMAIN allocs /\ n \in DOMAIN allocs BY <1>3, <1>4, <1>6, <2>1
    <2> QED BY <1>4, <2>2 DEF IndInv, CoexistedApart
  <1>14. CoexistedKnown' BY <1>4, <1>5 DEF IndInv, CoexistedKnown
  <1> QED BY <1>9, <1>10, <1>11, <1>12, <1>13, <1>14 DEF IndInv

\* TraceAllocation chooses a place where the new block fits.
LEMMA TraceAllocationKeepsInv ==
    ASSUME IndInv, NEW v \in Values, NEW size \in Sizes, TraceAllocation(v, size)
    PROVE  IndInv'
  <1>1. TypeOK /\ size \in Nat BY PlannerConstants DEF IndInv
  <1>2. /\ Len(blocks) \in Nat /\ DOMAIN blocks = 1 .. Len(blocks)
        /\ \A k \in DOMAIN blocks : /\ BlockOf(k).offset \in Nat /\ BlockOf(k).size \in Nat
                                    /\ EndOf(BlockOf(k)) \in Nat
                                    /\ BlockOf(k).offset <= EndOf(BlockOf(k))
    BY <1>1, BlockFacts DEF BlockOf, EndOf
  <1>3. \A p, q \in DOMAIN blocks : p < q => EndOf(BlockOf(p)) <= BlockOf(q).offset
    BY DEF IndInv, BlocksSorted
  \* The gap before position i begins after all blocks in front of it.
  <1>4. ASSUME NEW i \in 1 .. Len(blocks) + 1
        PROVE  /\ GapStart(i) \in Nat
               /\ \A k \in 1 .. i - 1 : EndOf(BlockOf(k)) <= GapStart(i)
    <2>1. CASE i = 1 BY <2>1 DEF GapStart
    <2>2. CASE i # 1
      <3>1. i - 1 \in DOMAIN blocks /\ GapStart(i) = EndOf(BlockOf(i - 1))
        BY <1>2, <2>2 DEF GapStart
      <3>2. ASSUME NEW k \in 1 .. i - 1 PROVE EndOf(BlockOf(k)) <= EndOf(BlockOf(i - 1))
        <4>1. k \in DOMAIN blocks BY <1>2
        <4>2. CASE k = i - 1 BY <1>2, <3>1, <4>2
        <4>3. CASE k < i - 1
          <5>1. EndOf(BlockOf(k)) <= BlockOf(i - 1).offset BY <1>3, <3>1, <4>1, <4>3
          <5> QED BY <1>2, <3>1, <4>1, <5>1
        <4> QED BY <1>2, <4>2, <4>3
      <3> QED BY <1>2, <3>1, <3>2
    <2> QED BY <2>1, <2>2
  <1>5. CASE \E i \in DOMAIN blocks : TraceInGap(v, size, i)
    <2>1. PICK i \in DOMAIN blocks : TraceInGap(v, size, i) BY <1>5
    <2>2. i \in 1 .. Len(blocks) + 1 /\ i \in Int BY <1>2
    <2>3. GapStart(i) \in Nat /\ \A k \in 1 .. i - 1 : EndOf(BlockOf(k)) <= GapStart(i)
      BY <1>4, <2>2
    <2>4. BlockOf(i).offset - GapStart(i) >= size
      BY <2>1 DEF TraceInGap, FittingGaps, GapSize
    <2>5. ASSUME NEW k \in i .. Len(blocks)
          PROVE  GapStart(i) + size <= BlockOf(k).offset
      <3>1. k \in DOMAIN blocks BY <1>2, <2>2
      <3>2. GapStart(i) + size <= BlockOf(i).offset BY <1>1, <1>2, <2>3, <2>4
      <3>3. CASE k = i BY <3>2, <3>3
      <3>4. CASE i < k
        <4>1. EndOf(BlockOf(i)) <= BlockOf(k).offset BY <1>3, <3>1, <3>4
        <4> QED BY <1>1, <1>2, <2>3, <3>1, <3>2, <4>1
      <3> QED BY <1>2, <2>2, <3>3, <3>4
    <2>6. v \notin AllocatedValues /\ Insert(v, size, GapStart(i), i)
      BY <2>1 DEF TraceInGap
    <2> QED BY <1>1, <2>2, <2>3, <2>5, <2>6, InsertKeepsInv
  <1>6. CASE TraceAtEnd(v, size)
    <2> DEFINE i == Len(blocks) + 1
    <2>1. i \in 1 .. Len(blocks) + 1 BY <1>2
    <2>2. GapStart(i) \in Nat /\ \A k \in 1 .. i - 1 : EndOf(BlockOf(k)) <= GapStart(i)
      BY <1>4, <2>1
    <2>3. \A k \in i .. Len(blocks) : GapStart(i) + size <= BlockOf(k).offset BY <1>2
    <2>4. v \notin AllocatedValues /\ Insert(v, size, GapStart(i), i)
      BY <1>6 DEF TraceAtEnd
    <2> HIDE DEF i
    <2> QED BY <1>1, <2>1, <2>2, <2>3, <2>4, InsertKeepsInv
  <1> QED BY <1>5, <1>6 DEF TraceAllocation

-----------------------------------------------------------------------------
\* Every reachable state satisfies the inductive invariant.
THEOREM IndInvHolds == Spec => []IndInv
  <1>1. Init => IndInv
    BY EmptySeq DEF Init, IndInv, TypeOK, BlocksSorted, OneAllocPerValue, AllocsFit,
           CoexistedApart, CoexistedKnown, AllocatedValues
  <1>2. IndInv /\ [Next]_vars => IndInv'
    <2> SUFFICES ASSUME IndInv, [Next]_vars PROVE IndInv' OBVIOUS
    <2>1. ASSUME NEW v \in Values, TraceEmpty(v) PROVE IndInv'
      BY <2>1, TraceEmptyKeepsInv
    <2>2. ASSUME NEW v \in Values, NEW size \in Sizes, TraceAllocation(v, size) PROVE IndInv'
      BY <2>2, TraceAllocationKeepsInv
    <2>3. ASSUME NEW v \in Values, TraceFree(v) PROVE IndInv'
      BY <2>3, TraceFreeKeepsInv
    <2>4. CASE UNCHANGED vars
      BY <2>4 DEF vars, IndInv, TypeOK, BlocksSorted, OneAllocPerValue, AllocsFit,
            CoexistedApart, CoexistedKnown, AllocatedValues, BlockOf, Disjoint, EndOf
    <2> QED BY <2>1, <2>2, <2>3, <2>4 DEF Next
  <1> QED BY <1>1, <1>2, PTL DEF Spec

\* The planner's members keep their types (mem_pattern_planner.h).
THEOREM TypeCorrect == Spec => []TypeOK
  <1>1. IndInv => TypeOK BY DEF IndInv
  <1> QED BY <1>1, IndInvHolds, PTL

\* blocks_ is always sorted, each block ending before the next begins.
THEOREM BlocksStaySorted == Spec => []BlocksSorted
  <1>1. IndInv => BlocksSorted BY DEF IndInv
  <1> QED BY <1>1, IndInvHolds, PTL

\* What GenerateMemPattern returns for a value is its one allocation.
LEMMA PatternIsAlloc ==
    ASSUME IndInv, NEW v \in AllocatedValues
    PROVE  \E n \in DOMAIN allocs : allocs[n].index = v /\ Pattern[v] = allocs[n]
  <1>1. PICK n \in DOMAIN allocs : allocs[n].index = v BY DEF AllocatedValues
  <1>2. DOMAIN allocs = 1 .. Len(allocs) /\ Len(allocs) \in Nat
    BY BlockFacts DEF IndInv
  <1> DEFINE P(k) == allocs[k].index = v /\ \A m \in k + 1 .. Len(allocs) : allocs[m].index # v
  <1>3. P(n)
    <2>1. \A m \in n + 1 .. Len(allocs) : m \in DOMAIN allocs /\ m # n BY <1>2
    <2> QED BY <1>1, <2>1 DEF IndInv, OneAllocPerValue
  <1>4. P(CHOOSE k \in DOMAIN allocs : P(k)) /\ (CHOOSE k \in DOMAIN allocs : P(k)) \in DOMAIN allocs
    BY <1>3
  <1> QED BY <1>4 DEF Pattern

\* Values that were ever live together are apart in the pattern, so a run
\* that replays it never puts one on top of the other.
THEOREM PatternAlwaysKeepsApart == Spec => []PatternKeepsApart
  <1>1. ASSUME IndInv PROVE PatternKeepsApart
    <2> SUFFICES ASSUME NEW c \in coexisted
                 PROVE  \/ EndOf(Pattern[c[1]]) <= Pattern[c[2]].offset
                        \/ EndOf(Pattern[c[2]]) <= Pattern[c[1]].offset
      BY DEF PatternKeepsApart
    <2>1. c[1] \in AllocatedValues /\ c[2] \in AllocatedValues /\ c = <<c[1], c[2]>>
      BY <1>1 DEF IndInv, CoexistedKnown
    <2>2. PICK m \in DOMAIN allocs : allocs[m].index = c[1] /\ Pattern[c[1]] = allocs[m]
      BY <1>1, <2>1, PatternIsAlloc
    <2>3. PICK n \in DOMAIN allocs : allocs[n].index = c[2] /\ Pattern[c[2]] = allocs[n]
      BY <1>1, <2>1, PatternIsAlloc
    <2>4. Disjoint(allocs[m], allocs[n])
      BY <1>1, <2>1, <2>2, <2>3 DEF IndInv, CoexistedApart
    <2> QED BY <2>2, <2>3, <2>4 DEF Disjoint
  <1> QED BY <1>1, IndInvHolds, PTL

\* Every place in the pattern lies within PeakSize() bytes.
THEOREM PatternAlwaysFitsPeak == Spec => []PatternFitsPeak
  <1>1. ASSUME IndInv PROVE PatternFitsPeak
    BY <1>1, PatternIsAlloc DEF PatternFitsPeak, IndInv, AllocsFit
  <1> QED BY <1>1, IndInvHolds, PTL
=============================================================================
