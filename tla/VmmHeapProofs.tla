---------------------------- MODULE VmmHeapProofs ----------------------------
(***************************************************************************)
(* For every page size, heap and number of physical pages: the map of the  *)
(* kernel's address space stays in order and whole, no two zones overlap,  *)
(* and a list node is never used for two things.                           *)
(***************************************************************************)
EXTENDS VmmHeap, SequenceTheorems, WellFoundedInduction, TLAPS

-----------------------------------------------------------------------------
(* Whole pages. *)

\* A number whose remainder is 0 is a multiple of the page size.
LEMMA Multiple ==
    ASSUME NEW x \in Nat, x % PageSize = 0
    PROVE  \E k \in Nat : x = k * PageSize
<1>1. x \div PageSize \in Nat
    BY PageSizeAssumption
<1>2. x = (x \div PageSize) * PageSize
    BY PageSizeAssumption
<1> QED
    BY <1>1, <1>2

\* A multiple of the page size leaves remainder 0.
LEMMA MultipleRemainder ==
    ASSUME NEW k \in Nat
    PROVE  (k * PageSize) % PageSize = 0
BY PageSizeAssumption

\* The sum of two whole numbers of pages is one.
LEMMA AlignedSum ==
    ASSUME NEW x \in Nat, NEW y \in Nat, x % PageSize = 0, y % PageSize = 0
    PROVE  (x + y) % PageSize = 0
<1>1. PICK j \in Nat : x = j * PageSize
    BY Multiple
<1>2. PICK k \in Nat : y = k * PageSize
    BY Multiple
<1>3. x + y = (j + k) * PageSize
    BY <1>1, <1>2, PageSizeAssumption
<1> QED
    BY <1>3, MultipleRemainder

\* The difference of two whole numbers of pages is one.
LEMMA AlignedDifference ==
    ASSUME NEW x \in Nat, NEW y \in Nat, y <= x,
           x % PageSize = 0, y % PageSize = 0
    PROVE  (x - y) % PageSize = 0
<1>1. PICK j \in Nat : x = j * PageSize
    BY Multiple
<1>2. PICK k \in Nat : y = k * PageSize
    BY Multiple
<1>3. j - k \in Nat
    BY <1>1, <1>2, PageSizeAssumption
<1>4. x - y = (j - k) * PageSize
    BY <1>1, <1>2, PageSizeAssumption
<1> QED
    BY <1>3, <1>4, MultipleRemainder

\* mm_roundDownPage gives a whole number of pages, at most one page below.
LEMMA RoundDown ==
    ASSUME NEW x \in Nat
    PROVE  /\ mm_roundDownPage(x) \in Nat
           /\ mm_roundDownPage(x) % PageSize = 0
           /\ mm_roundDownPage(x) <= x
           /\ x < mm_roundDownPage(x) + PageSize
<1>1. x % PageSize \in 0 .. (PageSize - 1)
    BY PageSizeAssumption
<1>2. x \div PageSize \in Nat
    BY PageSizeAssumption
<1>3. x - (x % PageSize) = (x \div PageSize) * PageSize
    BY PageSizeAssumption
<1>4. (x - (x % PageSize)) % PageSize = 0
    BY <1>2, <1>3, MultipleRemainder
<1>5. x % PageSize <= x
    BY PageSizeAssumption
<1> QED
    BY <1>1, <1>4, <1>5, PageSizeAssumption DEF mm_roundDownPage

\* mm_roundUpPage gives the next whole number of pages.
LEMMA RoundUp ==
    ASSUME NEW x \in Nat
    PROVE  /\ mm_roundUpPage(x) \in Nat /\ mm_roundUpPage(x) % PageSize = 0
           /\ x <= mm_roundUpPage(x) /\ mm_roundUpPage(x) < x + PageSize
           /\ x % PageSize = 0 => mm_roundUpPage(x) = x
<1>1. PICK d : d = mm_roundDownPage(x)
    OBVIOUS
<1>2. d \in Nat /\ d % PageSize = 0 /\ d <= x /\ x < d + PageSize
    BY <1>1, RoundDown
<1>3. CASE d = x
    BY <1>1, <1>2, <1>3, PageSizeAssumption DEF mm_roundUpPage
<1>4. CASE d # x
  <2>1. mm_roundUpPage(x) = d + PageSize
      BY <1>1, <1>4 DEF mm_roundUpPage
  <2>2. PageSize % PageSize = 0 /\ PageSize \in Nat
      BY PageSizeAssumption
  <2>3. (d + PageSize) % PageSize = 0
      BY <1>2, <2>2, AlignedSum
  <2>4. x % PageSize # 0
    <3>1. d = x - (x % PageSize)
        BY <1>1 DEF mm_roundDownPage
    <3>2. x % PageSize \in Int
        BY PageSizeAssumption
    <3> QED
        BY <1>4, <3>1, <3>2
  <2> QED
      BY <1>2, <1>4, <2>1, <2>3, <2>4, PageSizeAssumption
<1> QED
    BY <1>3, <1>4

\* A range of whole pages is what it is rounded to.
LEMMA AlignedRange ==
    ASSUME NEW ptr \in Nat, NEW size \in Nat, ptr % PageSize = 0
    PROVE  LET range == mm_alignRange([ptr |-> ptr, size |-> size])
           IN  range.ptr = ptr /\ range.size = mm_roundUpPage(size)
BY DEF mm_alignRange

\* A range that is rounded is never empty.
LEMMA RoundedRange ==
    ASSUME NEW ptr \in Nat, NEW size \in Nat \ {0}
    PROVE  LET range == mm_alignRange([ptr |-> ptr, size |-> size])
           IN  range.ptr \in Nat /\ range.size \in Nat \ {0}
<1>1. PICK offset : offset = ptr % PageSize
    OBVIOUS
<1>2. offset \in Nat /\ offset <= ptr
    BY <1>1, PageSizeAssumption
<1>3. mm_roundUpPage(size + offset) \in Nat /\ size + offset <= mm_roundUpPage(size + offset)
    BY <1>2, RoundUp
<1> QED
    BY <1>1, <1>2, <1>3 DEF mm_alignRange

-----------------------------------------------------------------------------
(* Lists of ranges. *)

\* A set of numbers that is not empty has a least element.
LEMMA LeastNumber ==
    ASSUME NEW T, T \subseteq Nat, T # {}
    PROVE  \E x \in T : \A y \in T : x <= y
<1> DEFINE R == OpToRel(<, Nat)
<1>1. IsWellFoundedOn(R, Nat)
    BY NatLessThanWellFounded, Zenon
<1>2. \A x, y \in Nat : <<y, x>> \in R <=> y < x
    BY DEF OpToRel
<1> HIDE DEF R
<1>3. PICK x \in T : \A y \in T : ~(<<y, x>> \in R)
    BY <1>1, WFMin
<1>4. ASSUME NEW y \in T PROVE x <= y
  <2>1. x \in Nat /\ y \in Nat
      OBVIOUS
  <2>2. ~(y < x)
      BY <1>2, <1>3, <2>1
  <2> QED
      BY <2>1, <2>2
<1> QED
    BY <1>4

\* What InsertAt returns, index by index.
LEMMA InsertAtIndex ==
    ASSUME NEW S, NEW list \in Seq(S), NEW k \in 1 .. (Len(list) + 1), NEW e \in S
    PROVE  /\ InsertAt(list, k, e) \in Seq(S)
           /\ Len(InsertAt(list, k, e)) = Len(list) + 1
           /\ \A i \in 1 .. (Len(list) + 1) :
                InsertAt(list, k, e)[i] =
                    IF i < k THEN list[i] ELSE IF i = k THEN e ELSE list[i - 1]
<1> DEFINE front == SubSeq(list, 1, k - 1)
           back == SubSeq(list, k, Len(list))
<1>0. Len(list) \in Nat
    BY LenProperties
<1>1. /\ front \in Seq(S) /\ Len(front) = k - 1
      /\ \A i \in 1 .. (k - 1) : front[i] = list[i]
    BY <1>0
<1>2. /\ back \in Seq(S) /\ Len(back) = Len(list) + 1 - k
      /\ \A i \in 1 .. (Len(list) + 1 - k) : back[i] = list[k + i - 1]
    BY <1>0
<1>3. <<e>> \in Seq(S) /\ Len(<<e>>) = 1 /\ <<e>>[1] = e
    OBVIOUS
<1>4. InsertAt(list, k, e) = (front \o <<e>>) \o back
    BY DEF InsertAt
<1> HIDE DEF front, back
<1>5. /\ front \o <<e>> \in Seq(S) /\ Len(front \o <<e>>) = k
      /\ \A i \in 1 .. k : (front \o <<e>>)[i] = IF i < k THEN list[i] ELSE e
    BY <1>0, <1>1, <1>3
<1> DEFINE head == front \o <<e>>
<1>6. head \in Seq(S) /\ back \in Seq(S)
    BY <1>2, <1>5
<1> HIDE DEF head
<1>7. /\ head \o back \in Seq(S)
      /\ Len(head \o back) = Len(head) + Len(back)
      /\ \A i \in 1 .. Len(head) + Len(back) :
            (head \o back)[i] =
                IF i <= Len(head) THEN head[i] ELSE back[i - Len(head)]
    BY <1>6, ConcatProperties
<1>8. Len(head) = k /\ \A i \in 1 .. k : head[i] = IF i < k THEN list[i] ELSE e
    BY <1>5 DEF head
<1>9. \A i \in 1 .. (Len(list) + 1) :
          (head \o back)[i] =
              IF i < k THEN list[i] ELSE IF i = k THEN e ELSE list[i - 1]
  <2> TAKE i \in 1 .. (Len(list) + 1)
  <2>0. i <= k \/ i > k
      BY <1>0
  <2>1. CASE i <= k
      BY <2>1, <1>0, <1>2, <1>7, <1>8
  <2>2. CASE i > k
    <3>1. (head \o back)[i] = back[i - k] /\ i - k \in 1 .. (Len(list) + 1 - k)
        BY <2>2, <1>0, <1>2, <1>7, <1>8
    <3>2. back[i - k] = list[k + (i - k) - 1]
        BY <3>1, <1>2
    <3>3. k + (i - k) - 1 = i - 1
        BY <1>0
    <3> QED
        BY <2>2, <3>1, <3>2, <3>3
  <2> QED
      BY <2>0, <2>1, <2>2
<1>10. InsertAt(list, k, e) = head \o back
    BY <1>4 DEF head
<1> QED
    BY <1>0, <1>2, <1>7, <1>8, <1>9, <1>10

\* What RemoveAt returns, index by index.
LEMMA RemoveAtIndex ==
    ASSUME NEW S, NEW list \in Seq(S), NEW k \in 1 .. Len(list)
    PROVE  /\ RemoveAt(list, k) \in Seq(S)
           /\ Len(RemoveAt(list, k)) = Len(list) - 1
           /\ \A i \in 1 .. (Len(list) - 1) :
                RemoveAt(list, k)[i] = IF i < k THEN list[i] ELSE list[i + 1]
<1> DEFINE front == SubSeq(list, 1, k - 1)
           back == SubSeq(list, k + 1, Len(list))
<1>0. Len(list) \in Nat
    BY LenProperties
<1>1. /\ front \in Seq(S) /\ Len(front) = k - 1
      /\ \A i \in 1 .. (k - 1) : front[i] = list[i]
    BY <1>0
<1>2. /\ back \in Seq(S) /\ Len(back) = Len(list) - k
      /\ \A i \in 1 .. (Len(list) - k) : back[i] = list[k + i]
    BY <1>0
<1>3. RemoveAt(list, k) = front \o back
    BY DEF RemoveAt
<1> HIDE DEF front, back
<1>4. /\ front \o back \in Seq(S)
      /\ Len(front \o back) = Len(front) + Len(back)
      /\ \A i \in 1 .. Len(front) + Len(back) :
            (front \o back)[i] =
                IF i <= Len(front) THEN front[i] ELSE back[i - Len(front)]
    BY <1>1, <1>2, ConcatProperties
<1>5. \A i \in 1 .. (Len(list) - 1) :
          (front \o back)[i] = IF i < k THEN list[i] ELSE list[i + 1]
  <2> TAKE i \in 1 .. (Len(list) - 1)
  <2>0. i < k \/ i >= k
      BY <1>0
  <2>1. CASE i < k
      BY <2>1, <1>0, <1>1, <1>2, <1>4
  <2>2. CASE i >= k
    <3>1. /\ (front \o back)[i] = back[i - (k - 1)]
          /\ i - (k - 1) \in 1 .. (Len(list) - k)
        BY <2>2, <1>0, <1>1, <1>2, <1>4
    <3>2. back[i - (k - 1)] = list[k + (i - (k - 1))]
        BY <3>1, <1>2
    <3>3. k + (i - (k - 1)) = i + 1
        BY <1>0
    <3> QED
        BY <2>2, <3>1, <3>2, <3>3
  <2> QED
      BY <2>0, <2>1, <2>2
<1> QED
    BY <1>0, <1>1, <1>2, <1>3, <1>4, <1>5

\* The first range of a list that is large enough, if there is one.
LEMMA FirstFit ==
    ASSUME NEW list, Len(list) \in Nat, NEW size, NEW I, NEW i,
           I = {j \in 1 .. Len(list) : list[j].size >= size}, i = IF I # {} THEN Min(I) ELSE 0
    PROVE  \/ i = 0 /\ \A j \in 1 .. Len(list) : ~(list[j].size >= size)
           \/ i \in 1 .. Len(list) /\ list[i].size >= size
<1>1. I = {j \in 1 .. Len(list) : list[j].size >= size}
    OBVIOUS
<1>2. i = IF I # {} THEN Min(I) ELSE 0
    OBVIOUS
<1>3. CASE I = {}
    BY <1>1, <1>2, <1>3
<1>4. CASE I # {}
  <2>1. I \subseteq Nat
      BY <1>1
  <2>2. \E x \in I : \A y \in I : x <= y
      BY <1>4, <2>1, LeastNumber
  <2>3. Min(I) \in I
      BY <2>2, Zenon DEF Min
  <2> QED
      BY <1>1, <1>2, <1>4, <2>3
<1> QED
    BY <1>3, <1>4

\* Where a new range goes: in front of the first that does not start below it.
LEMMA FirstAbove ==
    ASSUME NEW list, Len(list) \in Nat, NEW ptr \in Nat, NEW k,
           \A j \in 1 .. Len(list) : list[j].ptr \in Nat,
           NEW I, I = {j \in 1 .. Len(list) : list[j].ptr >= ptr},
           NEW i, i = IF I # {} THEN Min(I) ELSE 0,
           k = IF i = 0 THEN Len(list) + 1 ELSE i
    PROVE  /\ k \in 1 .. Len(list) + 1
           /\ \A j \in 1 .. Len(list) : j < k => list[j].ptr < ptr
           /\ k <= Len(list) => list[k].ptr >= ptr
<1>1. I = {j \in 1 .. Len(list) : list[j].ptr >= ptr}
    OBVIOUS
<1>2. i = IF I # {} THEN Min(I) ELSE 0
    OBVIOUS
<1>3. CASE I = {}
  <2>1. i = 0 /\ k = Len(list) + 1
      BY <1>2, <1>3
  <2>2. ASSUME NEW j \in 1 .. Len(list) PROVE list[j].ptr < ptr
    <3>1. list[j].ptr \in Nat /\ ~(list[j].ptr >= ptr)
        BY <1>1, <1>3
    <3> QED
        BY <3>1
  <2>3. k \in 1 .. Len(list) + 1 /\ ~(k <= Len(list))
      BY <2>1
  <2> QED
      BY <2>2, <2>3, Zenon
<1>4. CASE I # {}
  <2>1. I \subseteq Nat
      BY <1>1
  <2>2. \E x \in I : \A y \in I : x <= y
      BY <1>4, <2>1, LeastNumber
  <2>3. Min(I) \in I /\ \A y \in I : Min(I) <= y
      BY <2>2, Zenon DEF Min
  <2>4. i = Min(I) /\ i \in 1 .. Len(list) /\ list[i].ptr >= ptr /\ k = i
    <3>1. i = Min(I)
        BY ONLY <1>2, <1>4
    <3>2. i \in I
        BY ONLY <2>3, <3>1
    <3>3. i \in 1 .. Len(list) /\ list[i].ptr >= ptr
        BY ONLY <1>1, <3>2
    <3>4. i # 0
        BY <3>3
    <3> QED
        BY <3>1, <3>3, <3>4
  <2>5. ASSUME NEW j \in 1 .. Len(list), j < i PROVE list[j].ptr < ptr
    <3>1. j \notin I
      <4>1. i \in Nat /\ j \in Nat /\ \A y \in I : i <= y
          BY <2>3, <2>4
      <4> QED
          BY ONLY <2>5, <4>1
    <3> QED
        BY <1>1, <3>1
  <2>6. k \in 1 .. Len(list) + 1 /\ (k <= Len(list) => list[k].ptr >= ptr)
    <3>1. i \in 1 .. Len(list) + 1
        BY <2>4
    <3> QED
        BY <2>4, <3>1, Zenon
  <2>7. \A j \in 1 .. Len(list) : j < k => list[j].ptr < ptr
      BY <2>4, <2>5
  <2> QED
      BY <2>6, <2>7
<1> QED
    BY <1>3, <1>4

\* The fields of a range of the map.
LEMMA EntryFields ==
    ASSUME NEW e \in Entry
    PROVE  e.node \in Phys /\ e.ptr \in Nat /\ e.size \in Nat /\ e.size > 0
BY DEF Entry

\* The nodes lie in physical memory, below every range of the heap.
LEMMA PhysBelowHeap ==
    ASSUME NEW p \in Phys
    PROVE  p \in Nat /\ p # Null /\ p < HeapBase
<1>1. PICK n \in 1 .. PhysPages : p = n * PageSize
    BY DEF Phys
<1>2. n \in Nat /\ n <= PhysPages /\ n >= 1 /\ PhysPages \in Nat /\ PageSize \in Nat /\ PageSize > 0
    BY HeapAssumption, PageSizeAssumption
<1>3. n * PageSize \in Nat /\ PhysPages * PageSize \in Nat /\ n * PageSize <= PhysPages * PageSize
    BY <1>2
<1>4. n * PageSize > 0
    BY <1>2
<1>5. PhysPages * PageSize < HeapBase
    BY <1>3, HeapAssumption, PageSizeAssumption
<1>6. HeapBase \in Nat
    BY HeapAssumption
<1> QED
    BY <1>1, <1>3, <1>4, <1>5, <1>6 DEF Null

\* mm_alloc fails, unlinks a node of exactly the size, or shortens a larger one.
LEMMA AllocCases ==
    ASSUME NEW list \in Seq(Entry), NEW size \in Nat \ {0}, NEW got, got = mm_alloc(list, size)
    PROVE  /\ got.list \in Seq(Entry)
           /\ \/ got.list = list /\ got.ptr = Null
              \/ \E i \in 1 .. Len(list) :
                    /\ got.ptr = list[i].node /\ Len(got.list) = Len(list) - 1
                    /\ \A j \in 1 .. Len(list) - 1 :
                        got.list[j] = IF j < i THEN list[j] ELSE list[j + 1]
              \/ \E i \in 1 .. Len(list) :
                    /\ list[i].size > size /\ got.ptr = list[i].ptr + list[i].size - size
                    /\ Len(got.list) = Len(list)
                    /\ \A j \in 1 .. Len(list) : j # i => got.list[j] = list[j]
                    /\ got.list[i].node = list[i].node /\ got.list[i].ptr = list[i].ptr
                    /\ got.list[i].size = list[i].size - size
<1>1. PICK i : i = SelectInSeq(list, LAMBDA e : e.size >= size)
    OBVIOUS
<1>2. Len(list) \in Nat /\ \A j \in 1 .. Len(list) : list[j] \in Entry
    OBVIOUS
<1>3. \/ i = 0 /\ \A j \in 1 .. Len(list) : ~(list[j].size >= size)
      \/ i \in 1 .. Len(list) /\ list[i].size >= size
  <2>1. PICK I : I = {j \in 1 .. Len(list) : list[j].size >= size}
      OBVIOUS
  <2>2. i = IF I # {} THEN Min(I) ELSE 0
      BY <1>1, <2>1 DEF SelectInSeq
  <2> QED
      BY <1>2, <2>1, <2>2, FirstFit
<1>4. got = IF i = 0
            THEN [list |-> list, ptr |-> Null]
            ELSE IF list[i].size = size
            THEN [list |-> RemoveAt(list, i), ptr |-> list[i].node]
            ELSE [list |-> [list EXCEPT ![i].size = @ - size],
                  ptr |-> mm_getEntryEndAddress(list[i]) - size]
    BY <1>1 DEF mm_alloc
<1>5. CASE i = 0
    BY <1>4, <1>5
<1>6. CASE i \in 1 .. Len(list) /\ list[i].size = size
  <2>1. i # 0
      BY <1>2, <1>6
  <2>2. got.list = RemoveAt(list, i) /\ got.ptr = list[i].node
      BY <1>4, <1>6, <2>1
  <2>3. /\ RemoveAt(list, i) \in Seq(Entry) /\ Len(RemoveAt(list, i)) = Len(list) - 1
        /\ \A j \in 1 .. (Len(list) - 1) :
             RemoveAt(list, i)[j] = IF j < i THEN list[j] ELSE list[j + 1]
      BY <1>6, RemoveAtIndex
  <2> QED
      BY <1>6, <2>2, <2>3
<1>7. CASE i \in 1 .. Len(list) /\ list[i].size >= size /\ list[i].size # size
  <2>0. i # 0
      BY <1>2, <1>7
  <2>1. /\ got.list = [list EXCEPT ![i].size = list[i].size - size]
        /\ got.ptr = mm_getEntryEndAddress(list[i]) - size
      BY <1>4, <1>7, <2>0
  <2>2. /\ list[i] \in Entry /\ list[i].node \in Phys /\ list[i].ptr \in Nat
        /\ list[i].size \in Nat /\ list[i].size > 0
      BY <1>2, <1>7, EntryFields
  <2>3. list[i].size > size /\ list[i].size - size \in Nat \ {0}
      BY <1>7, <2>2
  <2>4. PICK new : new = [list[i] EXCEPT !.size = list[i].size - size]
      OBVIOUS
  <2>5. /\ new \in Entry /\ new.node = list[i].node /\ new.ptr = list[i].ptr
        /\ new.size = list[i].size - size
      BY <2>2, <2>3, <2>4 DEF Entry
  <2>6. got.list = [list EXCEPT ![i] = new]
      BY <2>1, <2>4
  <2>7. /\ got.list \in Seq(Entry) /\ Len(got.list) = Len(list) /\ got.list[i] = new
        /\ \A j \in 1 .. Len(list) : j # i => got.list[j] = list[j]
      BY <1>7, <2>5, <2>6
  <2>8. got.ptr = list[i].ptr + list[i].size - size
      BY <2>1, <2>2 DEF mm_getEntryEndAddress
  <2>9. PICK k \in 1 .. Len(list) : k = i
      BY <1>7
  <2> QED
      BY <2>3, <2>5, <2>7, <2>8, <2>9
<1> QED
    BY <1>3, <1>5, <1>6, <1>7

\* mm_tryMergeNodes changes nothing, or the second of two nodes goes away.
LEMMA MergeCases ==
    ASSUME NEW list \in Seq(Entry), NEW i \in 1 .. Len(list), NEW merged,
           merged = mm_tryMergeNodes(list, i)
    PROVE  \/ merged.list = list /\ merged.freed = <<>>
           \/ /\ i < Len(list) /\ list[i].ptr + list[i].size = list[i + 1].node
              /\ merged.list \in Seq(Entry) /\ Len(merged.list) = Len(list) - 1
              /\ \A j \in 1 .. Len(list) - 1 :
                    merged.list[j].node = IF j <= i THEN list[j].node ELSE list[j + 1].node
              /\ merged.freed = <<list[i + 1].node>>
<1>1. Len(list) \in Nat /\ \A j \in 1 .. Len(list) : list[j] \in Entry
    OBVIOUS
<1>2. CASE ~(i < Len(list) /\ mm_getEntryEndAddress(list[i]) = list[i + 1].node)
    BY <1>2 DEF mm_tryMergeNodes
<1>3. CASE i < Len(list) /\ mm_getEntryEndAddress(list[i]) = list[i + 1].node
  <2>1. i + 1 \in 1 .. Len(list)
      BY <1>1, <1>3
  <2>2. PICK wide : wide = [list EXCEPT ![i].size = list[i].size + list[i + 1].size]
      OBVIOUS
  <2>3. merged.list = RemoveAt(wide, i + 1) /\ merged.freed = <<list[i + 1].node>>
      BY <1>3, <2>2 DEF mm_tryMergeNodes
  <2>4. /\ list[i] \in Entry /\ list[i].node \in Phys /\ list[i].ptr \in Nat
        /\ list[i].size \in Nat /\ list[i].size > 0
      BY <1>1, EntryFields
  <2>5. list[i + 1].size \in Nat
      BY <1>1, <2>1, EntryFields
  <2>6. PICK new : new = [list[i] EXCEPT !.size = list[i].size + list[i + 1].size]
      OBVIOUS
  <2>7. new \in Entry /\ new.node = list[i].node
    <3>1. list[i].size + list[i + 1].size \in Nat \ {0}
        BY <2>4, <2>5
    <3> QED
        BY <2>4, <2>6, <3>1 DEF Entry
  <2>8. wide = [list EXCEPT ![i] = new]
      BY <2>2, <2>6
  <2>9. /\ wide \in Seq(Entry) /\ Len(wide) = Len(list) /\ wide[i] = new
        /\ \A j \in 1 .. Len(list) : j # i => wide[j] = list[j]
      BY <2>7, <2>8
  <2>10. i + 1 \in 1 .. Len(wide)
      BY <2>1, <2>9
  <2>11. /\ RemoveAt(wide, i + 1) \in Seq(Entry) /\ Len(RemoveAt(wide, i + 1)) = Len(wide) - 1
         /\ \A j \in 1 .. (Len(wide) - 1) :
              RemoveAt(wide, i + 1)[j] = IF j < i + 1 THEN wide[j] ELSE wide[j + 1]
      BY <2>9, <2>10, RemoveAtIndex
  <2>12. ASSUME NEW j \in 1 .. Len(list) - 1
         PROVE  merged.list[j].node = IF j <= i THEN list[j].node ELSE list[j + 1].node
    <3>1. CASE j <= i
      <4>1. merged.list[j] = wide[j]
          BY <1>1, <2>3, <2>9, <2>11, <3>1
      <4>2. j \in 1 .. Len(list)
          BY <1>1
      <4>3. CASE j = i
          BY <2>7, <2>9, <3>1, <4>1, <4>3
      <4>4. CASE j # i
          BY <2>9, <3>1, <4>1, <4>2, <4>4
      <4> QED
          BY <4>3, <4>4
    <3>2. CASE ~(j <= i)
      <4>1. j + 1 \in 1 .. Len(list) /\ j + 1 # i /\ ~(j < i + 1)
          BY <1>1, <3>2
      <4>2. merged.list[j] = wide[j + 1]
          BY <2>3, <2>9, <2>11, <4>1
      <4> QED
          BY <2>9, <3>2, <4>1, <4>2
    <3> QED
        BY <3>1, <3>2
  <2>13. list[i].ptr + list[i].size = list[i + 1].node
      BY <1>3 DEF mm_getEntryEndAddress
  <2> QED
      BY <1>3, <2>3, <2>9, <2>11, <2>12, <2>13
<1> QED
    BY <1>2, <1>3

-----------------------------------------------------------------------------
(* The nodes of the map and of the pool. *)

\* No node is in a list or in a pool twice, or in both.
Distinct(list, entries) ==
    /\ \A i, j \in 1 .. Len(list) : list[i].node = list[j].node => i = j
    /\ \A i, j \in 1 .. Len(entries) : entries[i] = entries[j] => i = j
    /\ \A i \in 1 .. Len(list), j \in 1 .. Len(entries) : list[i].node # entries[j]

\* The nodes of a list and of a pool are all in a set.
Within(list, entries, S) ==
    /\ \A i \in 1 .. Len(list) : list[i].node \in S
    /\ \A j \in 1 .. Len(entries) : entries[j] \in S

\* One node in front of a pool.
LEMMA PushFacts ==
    ASSUME NEW n \in Phys, NEW entries \in Seq(Phys), NEW pushed, pushed = <<n>> \o entries
    PROVE  /\ pushed \in Seq(Phys) /\ Len(pushed) = Len(entries) + 1 /\ Len(entries) \in Nat
           /\ pushed[1] = n
           /\ \A j \in 1 .. Len(pushed) :
                \/ j = 1 /\ pushed[j] = n
                \/ j - 1 \in 1 .. Len(entries) /\ pushed[j] = entries[j - 1]
OBVIOUS

\* A merge moves a node from the list to the pool.
LEMMA MergeDistinct ==
    ASSUME NEW list \in Seq(Entry), NEW i \in 1 .. Len(list), NEW merged,
           merged = mm_tryMergeNodes(list, i),
           NEW entries \in Seq(Phys), NEW S, Distinct(list, entries), Within(list, entries, S)
    PROVE  /\ merged.list \in Seq(Entry)
           /\ Len(merged.list) \in Nat /\ i <= Len(merged.list)
           /\ merged.freed = <<>> \/ \E n \in Phys : merged.freed = <<n>>
           /\ merged.freed \o entries \in Seq(Phys)
           /\ Distinct(merged.list, merged.freed \o entries)
           /\ Within(merged.list, merged.freed \o entries, S)
<1>0. Len(list) \in Nat /\ \A j \in 1 .. Len(list) : list[j] \in Entry
    OBVIOUS
<1>1. CASE merged.list = list /\ merged.freed = <<>>
  <2>1. merged.freed \o entries = entries
      BY <1>1
  <2> QED
      BY <1>0, <1>1, <2>1
<1>2. CASE /\ i < Len(list) /\ list[i].ptr + list[i].size = list[i + 1].node
           /\ merged.list \in Seq(Entry) /\ Len(merged.list) = Len(list) - 1
           /\ \A j \in 1 .. Len(list) - 1 :
                 merged.list[j].node = IF j <= i THEN list[j].node ELSE list[j + 1].node
           /\ merged.freed = <<list[i + 1].node>>
  <2>1. PICK n : n = list[i + 1].node
      OBVIOUS
  <2>2. i + 1 \in 1 .. Len(list) /\ n \in Phys
      BY <1>0, <1>2, <2>1, EntryFields
  <2>3. PICK pushed : pushed = <<n>> \o entries
      OBVIOUS
  <2>4. /\ pushed \in Seq(Phys) /\ Len(pushed) = Len(entries) + 1 /\ Len(entries) \in Nat
        /\ pushed[1] = n
        /\ \A j \in 1 .. Len(pushed) :
             \/ j = 1 /\ pushed[j] = n
             \/ j - 1 \in 1 .. Len(entries) /\ pushed[j] = entries[j - 1]
      BY <2>2, <2>3, PushFacts
  <2> DEFINE at(j) == IF j <= i THEN j ELSE j + 1
  <2>5. ASSUME NEW j \in 1 .. Len(merged.list)
        PROVE  /\ at(j) \in 1 .. Len(list) /\ at(j) # i + 1
               /\ merged.list[j].node = list[at(j)].node
      BY <1>0, <1>2
  <2>6. \A a, b \in 1 .. Len(list) : list[a].node = list[b].node => a = b
      BY DEF Distinct
  <2>7. ASSUME NEW a \in 1 .. Len(merged.list), NEW b \in 1 .. Len(merged.list),
               merged.list[a].node = merged.list[b].node
        PROVE  a = b
    <3>1. at(a) = at(b)
      <4>1. at(a) \in 1 .. Len(list) /\ merged.list[a].node = list[at(a)].node
          BY <2>5
      <4>2. at(b) \in 1 .. Len(list) /\ merged.list[b].node = list[at(b)].node
          BY <2>5
      <4> HIDE DEF at
      <4> QED
          BY <2>6, <2>7, <4>1, <4>2
    <3> QED
        BY <1>0, <1>2, <3>1
  <2>8. ASSUME NEW a \in 1 .. Len(merged.list), NEW b \in 1 .. Len(pushed)
        PROVE  merged.list[a].node # pushed[b]
    <3>1. /\ at(a) \in 1 .. Len(list) /\ at(a) # i + 1
          /\ merged.list[a].node = list[at(a)].node
        BY <2>5
    <3> HIDE DEF at
    <3>2. list[at(a)].node # n
        BY <2>1, <2>2, <2>6, <3>1
    <3>3. \A j \in 1 .. Len(entries) : list[at(a)].node # entries[j]
        BY <3>1 DEF Distinct
    <3> QED
        BY <2>4, <3>1, <3>2, <3>3
  <2>9. ASSUME NEW a \in 1 .. Len(pushed), NEW b \in 1 .. Len(pushed), pushed[a] = pushed[b]
        PROVE  a = b
    <3>1. \A j \in 1 .. Len(entries) : entries[j] # n
        BY <2>1, <2>2 DEF Distinct
    <3>2. \A j, k \in 1 .. Len(entries) : entries[j] = entries[k] => j = k
        BY DEF Distinct
    <3>3. \/ a = 1 /\ pushed[a] = n
          \/ a - 1 \in 1 .. Len(entries) /\ pushed[a] = entries[a - 1]
        BY <2>4
    <3>5. \/ b = 1 /\ pushed[b] = n
          \/ b - 1 \in 1 .. Len(entries) /\ pushed[b] = entries[b - 1]
        BY <2>4
    <3>4. a = b \/ a - 1 = b - 1
        BY <2>9, <3>1, <3>2, <3>3, <3>5
    <3> QED
        BY <2>4, <3>4
  <2>10. Distinct(merged.list, pushed)
      BY <2>7, <2>8, <2>9 DEF Distinct
  <2>11. Within(merged.list, pushed, S)
    <3>1. \A j \in 1 .. Len(merged.list) : merged.list[j].node \in S
      <4> HIDE DEF at
      <4> QED
          BY <2>5 DEF Within
    <3>2. n \in S /\ \A j \in 1 .. Len(entries) : entries[j] \in S
        BY <2>1, <2>2 DEF Within
    <3>3. \A j \in 1 .. Len(pushed) : pushed[j] \in S
        BY <2>4, <3>2
    <3> QED
        BY <3>1, <3>3 DEF Within
  <2>12. merged.freed = <<n>> /\ merged.freed \o entries = pushed
      BY <1>2, <2>1, <2>3
  <2>13. Len(merged.list) \in Nat /\ i <= Len(merged.list)
      BY <1>0, <1>2
  <2> QED
      BY <1>2, <2>2, <2>4, <2>10, <2>11, <2>12, <2>13
<1> QED
    BY <1>1, <1>2, MergeCases

\* The first node of the pool goes into the list.
LEMMA InsertDistinct ==
    ASSUME NEW list \in Seq(Entry), NEW entries \in Seq(Phys), entries # <<>>, NEW S,
           Distinct(list, entries), Within(list, entries, S),
           NEW e \in Entry, e.node = Head(entries), NEW k \in 1 .. Len(list) + 1,
           NEW new, new = InsertAt(list, k, e)
    PROVE  /\ new \in Seq(Entry) /\ Len(new) = Len(list) + 1 /\ Tail(entries) \in Seq(Phys)
           /\ Distinct(new, Tail(entries)) /\ Within(new, Tail(entries), S)
<1>0. Len(list) \in Nat /\ Len(entries) \in Nat /\ Len(entries) > 0
    OBVIOUS
<1>1. /\ new \in Seq(Entry) /\ Len(new) = Len(list) + 1
      /\ \A i \in 1 .. (Len(list) + 1) :
           new[i] = IF i < k THEN list[i] ELSE IF i = k THEN e ELSE list[i - 1]
    BY InsertAtIndex
<1>2. PICK rest : rest = Tail(entries)
    OBVIOUS
<1>3. /\ rest \in Seq(Phys) /\ Len(rest) = Len(entries) - 1 /\ e.node = entries[1]
      /\ \A j \in 1 .. Len(rest) : j + 1 \in 1 .. Len(entries) /\ rest[j] = entries[j + 1]
    BY <1>0, <1>2
<1> DEFINE at(j) == IF j < k THEN j ELSE j - 1
<1>4. ASSUME NEW j \in 1 .. Len(new)
      PROVE  \/ j = k /\ new[j].node = entries[1]
             \/ j # k /\ at(j) \in 1 .. Len(list) /\ new[j].node = list[at(j)].node
  <2>1. CASE j = k
      BY <1>0, <1>1, <1>3, <2>1
  <2>2. CASE j < k
      BY <1>0, <1>1, <2>2
  <2>3. CASE j > k
      BY <1>0, <1>1, <2>3
  <2> QED
      BY <1>0, <1>1, <2>1, <2>2, <2>3
<1>5. /\ \A a, b \in 1 .. Len(list) : list[a].node = list[b].node => a = b
      /\ \A a, b \in 1 .. Len(entries) : entries[a] = entries[b] => a = b
      /\ \A a \in 1 .. Len(list), b \in 1 .. Len(entries) : list[a].node # entries[b]
    BY DEF Distinct
<1>6. 1 \in 1 .. Len(entries)
    BY <1>0
<1>7. ASSUME NEW a \in 1 .. Len(new), NEW b \in 1 .. Len(new), new[a].node = new[b].node
      PROVE  a = b
  <2>1. \/ a = k /\ new[a].node = entries[1]
        \/ a # k /\ at(a) \in 1 .. Len(list) /\ new[a].node = list[at(a)].node
      BY <1>4
  <2>2. \/ b = k /\ new[b].node = entries[1]
        \/ b # k /\ at(b) \in 1 .. Len(list) /\ new[b].node = list[at(b)].node
      BY <1>4
  <2>3. \/ a = k /\ b = k
        \/ a # k /\ b # k /\ at(a) = at(b)
    <3> HIDE DEF at
    <3>1. CASE a = k
        BY <1>5, <1>6, <1>7, <2>1, <2>2, <3>1
    <3>2. CASE b = k
        BY <1>5, <1>6, <1>7, <2>1, <2>2, <3>2
    <3>3. CASE a # k /\ b # k
        BY <1>5, <1>7, <2>1, <2>2, <3>3
    <3> QED
        BY <3>1, <3>2, <3>3
  <2> QED
      BY <1>0, <1>1, <2>3
<1>8. ASSUME NEW a \in 1 .. Len(new), NEW b \in 1 .. Len(rest) PROVE new[a].node # rest[b]
  <2>1. b + 1 \in 1 .. Len(entries) /\ rest[b] = entries[b + 1] /\ b + 1 # 1
      BY <1>0, <1>3
  <2> HIDE DEF at
  <2>2. CASE new[a].node = entries[1]
      BY <1>5, <1>6, <2>1, <2>2
  <2>3. CASE at(a) \in 1 .. Len(list) /\ new[a].node = list[at(a)].node
    <3>1. list[at(a)].node # entries[b + 1]
        BY <1>5, <2>1, <2>3
    <3> QED
        BY <2>1, <2>3, <3>1
  <2> QED
      BY <1>4, <2>2, <2>3
<1>9. ASSUME NEW a \in 1 .. Len(rest), NEW b \in 1 .. Len(rest), rest[a] = rest[b] PROVE a = b
  <2>1. a + 1 = b + 1
      BY <1>3, <1>5, <1>9
  <2> QED
      BY <1>0, <1>3, <2>1
<1>10. Within(new, rest, S)
  <2> HIDE DEF at
  <2> QED
      BY <1>3, <1>4, <1>6 DEF Within
<1>11. Distinct(new, rest)
    BY <1>7, <1>8, <1>9 DEF Distinct
<1> QED
    BY <1>1, <1>2, <1>3, <1>10, <1>11

\* The nodes that two merges free come to the pool last one first.
LEMMA FreedOrder ==
    ASSUME NEW a, NEW b, NEW t \in Seq(Phys),
           a = <<>> \/ \E n \in Phys : a = <<n>>, b = <<>> \/ \E n \in Phys : b = <<n>>
    PROVE  Reverse(a \o b) \o t = b \o (a \o t)
<1>1. CASE a = <<>> /\ b = <<>>
  <2>1. a \o b = <<>>
      BY <1>1
  <2>2. Reverse(<<>>) = <<>>
      BY DEF Reverse
  <2> QED
      BY <1>1, <2>1, <2>2
<1>2. ASSUME NEW n \in Phys, a = <<n>>, b = <<>> PROVE Reverse(a \o b) \o t = b \o (a \o t)
  <2>1. a \o b = <<n>>
      BY <1>2
  <2>2. Reverse(<<n>>) = <<n>>
      BY DEF Reverse
  <2>3. a \o t \in Seq(Phys)
      BY <1>2
  <2>4. b \o (a \o t) = a \o t
      BY <1>2, <2>3
  <2> QED
      BY <1>2, <2>1, <2>2, <2>4
<1>3. ASSUME NEW n \in Phys, a = <<>>, b = <<n>> PROVE Reverse(a \o b) \o t = b \o (a \o t)
  <2>1. a \o b = <<n>>
      BY <1>3
  <2>2. Reverse(<<n>>) = <<n>>
      BY DEF Reverse
  <2>3. a \o t = t
      BY <1>3
  <2> QED
      BY <1>3, <2>1, <2>2, <2>3
<1>4. ASSUME NEW m \in Phys, NEW n \in Phys, a = <<m>>, b = <<n>>
      PROVE  Reverse(a \o b) \o t = b \o (a \o t)
  <2>1. a \o b = <<m, n>>
    <3>1. /\ a \o b \in Seq(Phys) /\ Len(a \o b) = 2
          /\ (a \o b)[1] = m /\ (a \o b)[2] = n
        BY <1>4
    <3>2. /\ <<m, n>> \in Seq(Phys) /\ Len(<<m, n>>) = 2
          /\ <<m, n>>[1] = m /\ <<m, n>>[2] = n
        OBVIOUS
    <3>3. \A i \in 1 .. 2 : (a \o b)[i] = <<m, n>>[i]
        BY <3>1, <3>2
    <3> QED
        BY <3>1, <3>2, <3>3, SeqEqual
  <2>2. Reverse(<<m, n>>) = <<n, m>>
      BY DEF Reverse
  <2>3. <<n, m>> \o t = <<n>> \o (<<m>> \o t)
    <3>1. PICK u, v, w : u = <<m>> \o t /\ v = <<n>> \o u /\ w = <<n, m>> \o t
        OBVIOUS
    <3>2. /\ u \in Seq(Phys) /\ Len(u) = Len(t) + 1 /\ u[1] = m
          /\ \A j \in 1 .. Len(t) : u[j + 1] = t[j]
        BY <3>1
    <3>3. /\ v \in Seq(Phys) /\ Len(v) = Len(u) + 1 /\ v[1] = n
          /\ \A j \in 1 .. Len(u) : v[j + 1] = u[j]
        BY <3>1, <3>2
    <3>4. /\ w \in Seq(Phys) /\ Len(w) = Len(t) + 2 /\ w[1] = n /\ w[2] = m
          /\ \A j \in 1 .. Len(t) : w[j + 2] = t[j]
        BY <3>1
    <3>5. Len(t) \in Nat /\ Len(v) = Len(w)
        BY <3>2, <3>3, <3>4
    <3>6. ASSUME NEW j \in 1 .. Len(w) PROVE w[j] = v[j]
      <4>1. CASE j = 1
          BY <3>3, <3>4, <4>1
      <4>2. CASE j = 2
        <5>1. 1 \in 1 .. Len(u) /\ 1 + 1 = 2
            BY <3>2, <3>5
        <5> QED
            BY <3>2, <3>3, <3>4, <4>2, <5>1
      <4>3. CASE j > 2
        <5>1. j - 2 \in 1 .. Len(t) /\ (j - 2) + 2 = j /\ (j - 2) + 1 = j - 1
              /\ j - 1 \in 1 .. Len(u) /\ (j - 1) + 1 = j
            BY <3>2, <3>4, <3>5, <4>3
        <5>2. w[j] = t[j - 2]
            BY <3>4, <5>1
        <5>3. u[j - 1] = t[j - 2]
            BY <3>2, <5>1
        <5>4. v[j] = u[j - 1]
            BY <3>3, <5>1
        <5> QED
            BY <5>2, <5>3, <5>4
      <4>4. j \in Nat /\ j >= 1
          BY <3>4, <3>5
      <4> QED
          BY <4>1, <4>2, <4>3, <4>4
    <3>7. w = v
        BY <3>3, <3>4, <3>5, <3>6, SeqEqual
    <3> QED
        BY <3>1, <3>7
  <2> QED
      BY <1>4, <2>1, <2>2, <2>3
<1> QED
    BY <1>1, <1>2, <1>3, <1>4

\* A range in the heap does not end at a node: it is not merged.
LEMMA NoMerge ==
    ASSUME NEW list \in Seq(Entry), NEW i \in 1 .. Len(list), NEW merged,
           merged = mm_tryMergeNodes(list, i), list[i].ptr >= HeapBase
    PROVE  merged.list = list
<1> SUFFICES ASSUME i < Len(list), list[i].ptr + list[i].size = list[i + 1].node
             PROVE  FALSE
    BY MergeCases
<1>1. i + 1 \in 1 .. Len(list)
    OBVIOUS
<1>2. list[i] \in Entry /\ list[i + 1] \in Entry
    BY <1>1
<1>3. list[i].ptr \in Nat /\ list[i].size \in Nat /\ list[i + 1].node \in Phys
    BY <1>2, EntryFields
<1>4. list[i + 1].node \in Nat /\ list[i + 1].node < HeapBase
    BY <1>3, PhysBelowHeap
<1> QED
    BY <1>3, <1>4, HeapAssumption

\* What mm_addNodeToMap does with the first node of the pool: the node is linked in
\* address order, what is merged away comes back to the pool, and in the heap nothing is.
LEMMA AddFacts ==
    ASSUME NEW list \in Seq(Entry), NEW entries \in Seq(Phys), entries # <<>>, NEW S,
           Distinct(list, entries), Within(list, entries, S),
           NEW e \in Entry, e.node = Head(entries), NEW added, added = mm_addNodeToMap(list, e),
           NEW rest, rest = Reverse(added.freed) \o Tail(entries)
    PROVE  /\ added.list \in Seq(Entry) /\ rest \in Seq(Phys)
           /\ Distinct(added.list, rest) /\ Within(added.list, rest, S)
           /\ \E k \in 1 .. Len(list) + 1 :
                /\ \A j \in 1 .. Len(list) : j < k => list[j].ptr < e.ptr
                /\ k <= Len(list) => list[k].ptr >= e.ptr
                /\ (\A j \in 1 .. Len(list) : list[j].ptr >= HeapBase) /\ e.ptr >= HeapBase
                   => added.list = InsertAt(list, k, e)
<1>0. Len(list) \in Nat /\ \A j \in 1 .. Len(list) : list[j] \in Entry
    OBVIOUS
<1>1. PICK above : above = SelectInSeq(list, LAMBDA x : x.ptr >= e.ptr)
    OBVIOUS
<1>2. PICK k : k = IF above = 0 THEN Len(list) + 1 ELSE above
    OBVIOUS
<1>3. /\ k \in 1 .. Len(list) + 1
      /\ \A j \in 1 .. Len(list) : j < k => list[j].ptr < e.ptr
      /\ k <= Len(list) => list[k].ptr >= e.ptr
  <2>1. PICK I : I = {j \in 1 .. Len(list) : list[j].ptr >= e.ptr}
      OBVIOUS
  <2>2. above = IF I # {} THEN Min(I) ELSE 0
      BY <1>1, <2>1 DEF SelectInSeq
  <2>3. e.ptr \in Nat /\ \A j \in 1 .. Len(list) : list[j].ptr \in Nat
      BY <1>0, EntryFields
  <2> QED
      BY <1>0, <1>2, <2>1, <2>2, <2>3, FirstAbove
<1>4. PICK ins : ins = InsertAt(list, k, e)
    OBVIOUS
<1>5. PICK next : next = mm_tryMergeNodes(ins, k)
    OBVIOUS
<1>6. PICK previous : previous = IF k > 1 THEN mm_tryMergeNodes(next.list, k - 1)
                                 ELSE [list |-> next.list, freed |-> <<>>]
    OBVIOUS
<1>7. added = [list |-> previous.list, freed |-> next.freed \o previous.freed]
    BY <1>1, <1>2, <1>4, <1>5, <1>6 DEF mm_addNodeToMap
<1>8. PICK tail : tail = Tail(entries)
    OBVIOUS
<1>9. /\ ins \in Seq(Entry) /\ Len(ins) = Len(list) + 1 /\ tail \in Seq(Phys)
      /\ Distinct(ins, tail) /\ Within(ins, tail, S)
    BY <1>3, <1>4, <1>8, InsertDistinct
<1>10. k \in 1 .. Len(ins)
    BY <1>3, <1>9
<1>11. PICK first : first = next.freed \o tail
    OBVIOUS
<1>12. /\ next.list \in Seq(Entry) /\ Len(next.list) \in Nat /\ k <= Len(next.list)
       /\ next.freed = <<>> \/ \E n \in Phys : next.freed = <<n>>
       /\ first \in Seq(Phys) /\ Distinct(next.list, first) /\ Within(next.list, first, S)
    BY <1>5, <1>9, <1>10, <1>11, MergeDistinct
<1>13. /\ previous.list \in Seq(Entry)
       /\ previous.freed = <<>> \/ \E n \in Phys : previous.freed = <<n>>
       /\ previous.freed \o first \in Seq(Phys)
       /\ Distinct(previous.list, previous.freed \o first)
       /\ Within(previous.list, previous.freed \o first, S)
  <2>1. CASE k > 1
    <3>1. previous = mm_tryMergeNodes(next.list, k - 1) /\ k - 1 \in 1 .. Len(next.list)
        BY <1>0, <1>3, <1>6, <1>12, <2>1
    <3>2. PICK list2, i : list2 = next.list /\ i = k - 1
        OBVIOUS
    <3>3. /\ list2 \in Seq(Entry) /\ i \in 1 .. Len(list2) /\ previous = mm_tryMergeNodes(list2, i)
          /\ Distinct(list2, first) /\ Within(list2, first, S)
        BY <1>12, <3>1, <3>2
    <3> QED
        BY <1>12, <3>3, MergeDistinct
  <2>2. CASE ~(k > 1)
    <3>1. previous.list = next.list /\ previous.freed = <<>>
        BY <1>6, <2>2
    <3>2. previous.freed \o first = first
        BY <1>12, <3>1
    <3> QED
        BY <1>12, <3>1, <3>2
  <2> QED
      BY <2>1, <2>2
<1>14. rest = previous.freed \o first
  <2>1. PICK a, b : a = next.freed /\ b = previous.freed
      OBVIOUS
  <2>2. added.freed = a \o b
    <3>1. added.freed = next.freed \o previous.freed
        BY ONLY <1>7
    <3> QED
        BY ONLY <2>1, <3>1
  <2>3. Reverse(a \o b) \o tail = b \o (a \o tail)
    <3>1. a = <<>> \/ \E n \in Phys : a = <<n>>
        BY <1>12, <2>1
    <3>2. b = <<>> \/ \E n \in Phys : b = <<n>>
        BY <1>13, <2>1
    <3> QED
        BY <1>9, <3>1, <3>2, FreedOrder
  <2> QED
      BY <1>8, <1>11, <2>1, <2>2, <2>3
<1>17. \A j \in 1 .. (Len(list) + 1) :
           ins[j] = IF j < k THEN list[j] ELSE IF j = k THEN e ELSE list[j - 1]
  <2>1. k \in 1 .. (Len(list) + 1) /\ list \in Seq(Entry) /\ e \in Entry
      BY <1>3
  <2>2. \A j \in 1 .. (Len(list) + 1) :
            InsertAt(list, k, e)[j] =
                IF j < k THEN list[j] ELSE IF j = k THEN e ELSE list[j - 1]
      BY ONLY <2>1, InsertAtIndex
  <2> QED
      BY ONLY <1>4, <2>2
<1>15. ASSUME \A j \in 1 .. Len(list) : list[j].ptr >= HeapBase, e.ptr >= HeapBase
       PROVE  added.list = ins
  <2>1. \A j \in 1 .. Len(ins) : ins[j].ptr >= HeapBase
    <3>1. \A j \in 1 .. (Len(list) + 1) :
              ins[j] = IF j < k THEN list[j] ELSE IF j = k THEN e ELSE list[j - 1]
        BY <1>17
    <3>2. ASSUME NEW j \in 1 .. Len(ins) PROVE ins[j].ptr >= HeapBase
      <4>1. CASE j < k
        <5>1. j \in 1 .. Len(list) /\ ins[j] = list[j]
            BY <1>0, <1>3, <1>9, <3>1, <4>1
        <5> QED
            BY <1>15, <5>1
      <4>2. CASE j = k
          BY <1>9, <1>15, <3>1, <4>2
      <4>3. CASE j > k
        <5>1. j - 1 \in 1 .. Len(list) /\ ins[j] = list[j - 1]
            BY <1>0, <1>3, <1>9, <3>1, <4>3
        <5> QED
            BY <1>15, <5>1
      <4> QED
          BY <1>3, <1>9, <4>1, <4>2, <4>3
    <3> QED
        BY <3>2
  <2>2. next.list = ins
      BY <1>5, <1>9, <1>10, <2>1, NoMerge
  <2>3. previous.list = ins
    <3>1. CASE k > 1
      <4>1. k - 1 \in 1 .. Len(ins)
          BY <1>0, <1>3, <1>9, <3>1
      <4>2. PICK i : i = k - 1
          OBVIOUS
      <4>3. previous = mm_tryMergeNodes(ins, i) /\ i \in 1 .. Len(ins) /\ ins[i].ptr >= HeapBase
          BY <1>6, <2>1, <2>2, <3>1, <4>1, <4>2
      <4> QED
          BY <1>9, <4>3, NoMerge
    <3>2. CASE ~(k > 1)
        BY <1>6, <2>2, <3>2
    <3> QED
        BY <3>1, <3>2
  <2> QED
      BY <1>7, <2>3
<1>16. added.list = previous.list
    BY <1>7
<1> QED
    BY <1>3, <1>4, <1>13, <1>14, <1>15, <1>16

-----------------------------------------------------------------------------
(* The addresses of the ranges. *)

Ordered(list) ==
    \A i, j \in 1 .. Len(list) : i < j => list[i].ptr + list[i].size <= list[j].ptr

\* A range of whole pages of the heap.
InHeap(ptr, size) ==
    /\ ptr % PageSize = 0 /\ size % PageSize = 0
    /\ HeapBase <= ptr /\ ptr + size <= HeapBase + HeapSize

Between(ptr, size, x) == ptr <= x /\ x < ptr + size

\* An address is in one of the ranges of a list.
Covers(list, x) == \E i \in 1 .. Len(list) : Between(list[i].ptr, list[i].size, x)

\* A larger range is shortened at its end.
LEMMA ShortenRange ==
    ASSUME NEW list \in Seq(Entry), Ordered(list),
           \A j \in 1 .. Len(list) : InHeap(list[j].ptr, list[j].size),
           NEW size \in Nat \ {0}, size % PageSize = 0,
           NEW i \in 1 .. Len(list), list[i].size > size,
           NEW ptr, ptr = list[i].ptr + list[i].size - size,
           NEW new \in Seq(Entry), Len(new) = Len(list),
           \A j \in 1 .. Len(list) : j # i => new[j] = list[j],
           new[i].ptr = list[i].ptr, new[i].size = list[i].size - size
    PROVE  /\ ptr \in Nat /\ ptr # Null /\ InHeap(ptr, size)
           /\ Ordered(new) /\ \A j \in 1 .. Len(new) : InHeap(new[j].ptr, new[j].size)
           /\ \A x \in Int : Between(ptr, size, x) => Covers(list, x)
           /\ \A x \in Int : Covers(new, x) <=> Covers(list, x) /\ ~Between(ptr, size, x)
<1>0. Len(list) \in Nat
    OBVIOUS
<1>1. \A j \in 1 .. Len(list) : list[j].ptr \in Nat /\ list[j].size \in Nat /\ list[j].size > 0
  <2>1. \A j \in 1 .. Len(list) : list[j] \in Entry
      OBVIOUS
  <2> QED
      BY <2>1, EntryFields
<1>2. PICK low, all : low = list[i].ptr /\ all = list[i].size
    OBVIOUS
<1>3. low \in Nat /\ all \in Nat /\ all > size
    BY <1>1, <1>2
<1>4. InHeap(low, all)
    BY <1>2
<1>5. ptr = low + (all - size) /\ all - size \in Nat /\ all - size > 0
    BY <1>2, <1>3
<1>6. (all - size) % PageSize = 0
  <2>1. all % PageSize = 0
      BY <1>4 DEF InHeap
  <2> QED
      BY <1>3, <2>1, AlignedDifference
<1>7. (low + (all - size)) % PageSize = 0
  <2>1. low % PageSize = 0
      BY <1>4 DEF InHeap
  <2>2. PICK d : d = all - size
      OBVIOUS
  <2>3. d \in Nat /\ d % PageSize = 0
      BY <1>5, <1>6, <2>2
  <2>4. (low + d) % PageSize = 0
      BY <1>3, <2>1, <2>3, AlignedSum
  <2> QED
      BY <2>2, <2>4
<1>8. ptr \in Nat /\ ptr # Null /\ ptr + size = low + all /\ low < ptr
    BY <1>3, <1>5 DEF Null
<1>9. InHeap(ptr, size)
  <2>1. HeapBase <= low /\ low + all <= HeapBase + HeapSize
      BY <1>4 DEF InHeap
  <2>2. HeapBase <= ptr
      BY <1>3, <1>8, <2>1, HeapAssumption
  <2> QED
      BY <1>5, <1>7, <1>8, <2>1, <2>2 DEF InHeap
<1>10. \A j \in 1 .. Len(list) : new[j].ptr = list[j].ptr
    OBVIOUS
<1>11. new[i].size = all - size /\ \A j \in 1 .. Len(list) : j # i => new[j].size = list[j].size
    BY <1>2
<1>12. Ordered(new)
  <2>1. ASSUME NEW a \in 1 .. Len(list), NEW b \in 1 .. Len(list), a < b
        PROVE  new[a].ptr + new[a].size <= new[b].ptr
    <3>1. list[a].ptr + list[a].size <= list[b].ptr
        BY <2>1 DEF Ordered
    <3>2. new[a].size \in Nat /\ new[a].size <= list[a].size
      <4>1. CASE a = i
          BY <1>2, <1>3, <1>11, <4>1
      <4>2. CASE a # i
          BY <1>1, <1>11, <4>2
      <4> QED
          BY <4>1, <4>2
    <3>3. /\ new[a].ptr = list[a].ptr /\ new[b].ptr = list[b].ptr
          /\ list[a].ptr \in Nat /\ list[b].ptr \in Nat /\ list[a].size \in Nat
        BY <1>1, <1>10
    <3> QED
        BY <3>1, <3>2, <3>3
  <2> QED
      BY <2>1 DEF Ordered
<1>13. ASSUME NEW j \in 1 .. Len(new) PROVE InHeap(new[j].ptr, new[j].size)
  <2>1. CASE j = i
    <3>1. InHeap(low, all - size)
        BY <1>3, <1>4, <1>5, <1>6, HeapAssumption DEF InHeap
    <3> QED
        BY <1>2, <1>10, <1>11, <2>1, <3>1
  <2>2. CASE j # i
      BY <1>10, <1>11, <2>2
  <2> QED
      BY <2>1, <2>2
<1>14. ASSUME NEW x \in Int, Between(ptr, size, x) PROVE Covers(list, x)
  <2>1. Between(low, all, x)
      BY <1>3, <1>8, <1>14 DEF Between
  <2> QED
      BY <1>2, <2>1 DEF Covers
<1>15. ASSUME NEW x \in Int, Covers(new, x) PROVE Covers(list, x) /\ ~Between(ptr, size, x)
  <2>1. PICK j \in 1 .. Len(list) : Between(new[j].ptr, new[j].size, x)
      BY <1>15 DEF Covers
  <2>2. CASE j = i
    <3>1. Between(low, all - size, x)
        BY <1>2, <1>10, <1>11, <2>1, <2>2
    <3>2. Between(low, all, x) /\ ~Between(ptr, size, x)
        BY <1>3, <1>5, <3>1 DEF Between
    <3> QED
        BY <1>2, <3>2 DEF Covers
  <2>3. CASE j # i
    <3>1. Between(list[j].ptr, list[j].size, x)
        BY <1>10, <1>11, <2>1, <2>3
    <3>2. /\ list[j].ptr \in Nat /\ list[j].size \in Nat
          /\ \/ list[j].ptr + list[j].size <= low
             \/ low + all <= list[j].ptr
      <4>1. j < i \/ i < j
          BY <1>0, <2>3
      <4> QED
          BY <1>1, <1>2, <4>1 DEF Ordered
    <3>3. ~Between(ptr, size, x)
      <4>1. PICK p, s : p = list[j].ptr /\ s = list[j].size
          OBVIOUS
      <4>2. p \in Nat /\ s \in Nat /\ (p + s <= low \/ low + all <= p) /\ p <= x /\ x < p + s
          BY <3>1, <3>2, <4>1 DEF Between
      <4>3. size \in Nat
          OBVIOUS
      <4> QED
          BY ONLY <1>3, <1>8, <4>2, <4>3, x \in Int DEF Between
    <3> QED
        BY <3>1, <3>3 DEF Covers
  <2> QED
      BY <2>2, <2>3
<1>16. ASSUME NEW x \in Int, Covers(list, x), ~Between(ptr, size, x) PROVE Covers(new, x)
  <2>1. PICK j \in 1 .. Len(list) : Between(list[j].ptr, list[j].size, x)
      BY <1>16 DEF Covers
  <2>2. CASE j = i
    <3>1. Between(low, all, x)
        BY <1>2, <2>1, <2>2
    <3>2. Between(low, all - size, x)
        BY <1>3, <1>5, <1>16, <3>1 DEF Between
    <3> QED
        BY <1>2, <1>10, <1>11, <3>2 DEF Covers
  <2>3. CASE j # i
      BY <2>1, <2>3 DEF Covers
  <2> QED
      BY <2>2, <2>3
<1> QED
    BY <1>8, <1>9, <1>12, <1>13, <1>14, <1>15, <1>16

\* A range that is apart from those of a list goes in at the place of its address.
LEMMA InsertRange ==
    ASSUME NEW list \in Seq(Entry), Ordered(list),
           \A j \in 1 .. Len(list) : InHeap(list[j].ptr, list[j].size),
           NEW e \in Entry, InHeap(e.ptr, e.size),
           \A x \in Int : Between(e.ptr, e.size, x) => ~Covers(list, x),
           NEW k \in 1 .. Len(list) + 1,
           \A j \in 1 .. Len(list) : j < k => list[j].ptr < e.ptr,
           k <= Len(list) => list[k].ptr >= e.ptr,
           NEW new, new = InsertAt(list, k, e)
    PROVE  /\ Ordered(new) /\ \A j \in 1 .. Len(new) : InHeap(new[j].ptr, new[j].size)
           /\ \A x \in Int : Covers(new, x) <=> Covers(list, x) \/ Between(e.ptr, e.size, x)
<1>0. Len(list) \in Nat
    OBVIOUS
<1>1. \A j \in 1 .. Len(list) : list[j].ptr \in Nat /\ list[j].size \in Nat /\ list[j].size > 0
  <2>1. \A j \in 1 .. Len(list) : list[j] \in Entry
      OBVIOUS
  <2> QED
      BY <2>1, EntryFields
<1>2. e.ptr \in Nat /\ e.size \in Nat /\ e.size > 0
    BY EntryFields
<1>3. /\ Len(new) = Len(list) + 1
      /\ \A i \in 1 .. (Len(list) + 1) :
           new[i] = IF i < k THEN list[i] ELSE IF i = k THEN e ELSE list[i - 1]
  <2>1. k \in 1 .. (Len(list) + 1) /\ list \in Seq(Entry) /\ e \in Entry /\ new = InsertAt(list, k, e)
      OBVIOUS
  <2> QED
      BY ONLY <2>1, InsertAtIndex
<1>4. ASSUME NEW j \in 1 .. Len(list), j < k PROVE list[j].ptr + list[j].size <= e.ptr
  <2>1. list[j].ptr < e.ptr
      BY <1>4
  <2>2. CASE list[j].ptr + list[j].size > e.ptr
    <3>1. Between(e.ptr, e.size, e.ptr) /\ Between(list[j].ptr, list[j].size, e.ptr)
        BY <1>1, <1>2, <2>1, <2>2 DEF Between
    <3>2. Covers(list, e.ptr)
        BY <3>1 DEF Covers
    <3> QED
        BY <1>2, <3>1, <3>2
  <2> QED
      BY <1>1, <1>2, <2>2
<1>5. ASSUME NEW j \in 1 .. Len(list), j >= k PROVE e.ptr + e.size <= list[j].ptr
  <2>1. k \in 1 .. Len(list) /\ list[k].ptr >= e.ptr
      BY <1>0, <1>5
  <2>2. list[j].ptr >= e.ptr
    <3>1. CASE j = k
        BY <2>1, <3>1
    <3>2. CASE j > k
      <4>1. list[k].ptr + list[k].size <= list[j].ptr
          BY <2>1, <3>2 DEF Ordered
      <4> QED
          BY <1>1, <1>2, <2>1, <4>1
    <3> QED
        BY <1>0, <1>5, <3>1, <3>2
  <2>3. CASE list[j].ptr < e.ptr + e.size
    <3>1. /\ Between(e.ptr, e.size, list[j].ptr)
          /\ Between(list[j].ptr, list[j].size, list[j].ptr)
        BY <1>1, <1>2, <2>2, <2>3 DEF Between
    <3>2. Covers(list, list[j].ptr) /\ list[j].ptr \in Int
        BY <1>1, <3>1 DEF Covers
    <3> QED
        BY <3>1, <3>2
  <2> QED
      BY <1>1, <1>2, <2>3
<1>6. ASSUME NEW j \in 1 .. Len(new)
      PROVE  \/ j < k /\ j \in 1 .. Len(list) /\ new[j] = list[j]
             \/ j = k /\ new[j] = e
             \/ j > k /\ j - 1 \in 1 .. Len(list) /\ j - 1 >= k /\ new[j] = list[j - 1]
  <2>1. CASE j < k
      BY <1>0, <1>3, <2>1
  <2>2. CASE j = k
      BY <1>3, <2>2
  <2>3. CASE j > k
      BY <1>0, <1>3, <2>3
  <2> QED
      BY <1>0, <1>3, <2>1, <2>2, <2>3
<1>7. ASSUME NEW a \in 1 .. Len(new), NEW b \in 1 .. Len(new), a < b
      PROVE  new[a].ptr + new[a].size <= new[b].ptr
  <2>1. \/ a < k /\ a \in 1 .. Len(list) /\ new[a] = list[a]
        \/ a = k /\ new[a] = e
        \/ a > k /\ a - 1 \in 1 .. Len(list) /\ a - 1 >= k /\ new[a] = list[a - 1]
      BY <1>6
  <2>2. \/ b < k /\ b \in 1 .. Len(list) /\ new[b] = list[b]
        \/ b = k /\ new[b] = e
        \/ b > k /\ b - 1 \in 1 .. Len(list) /\ b - 1 >= k /\ new[b] = list[b - 1]
      BY <1>6
  <2>3. \A i, j \in 1 .. Len(list) : i < j => list[i].ptr + list[i].size <= list[j].ptr
      BY DEF Ordered
  <2>4. CASE a = k
    <3>1. b > k /\ b - 1 \in 1 .. Len(list) /\ b - 1 >= k /\ new[b] = list[b - 1] /\ new[a] = e
        BY <1>0, <1>7, <2>1, <2>2, <2>4
    <3> QED
        BY <1>5, <3>1
  <2>5. CASE b = k
    <3>1. a < k /\ a \in 1 .. Len(list) /\ new[a] = list[a] /\ new[b] = e
        BY <1>0, <1>7, <2>1, <2>2, <2>5
    <3> QED
        BY <1>4, <3>1
  <2>6. CASE a < k /\ b < k
      BY <1>7, <2>1, <2>2, <2>3, <2>6
  <2>7. CASE a < k /\ b > k
    <3>1. /\ a \in 1 .. Len(list) /\ new[a] = list[a]
          /\ b - 1 \in 1 .. Len(list) /\ a < b - 1 /\ new[b] = list[b - 1]
        BY <1>0, <2>1, <2>2, <2>7
    <3> QED
        BY <2>3, <3>1
  <2>8. CASE a > k
    <3>1. /\ a - 1 \in 1 .. Len(list) /\ new[a] = list[a - 1]
          /\ b - 1 \in 1 .. Len(list) /\ a - 1 < b - 1 /\ new[b] = list[b - 1]
        BY <1>0, <1>7, <2>1, <2>2, <2>8
    <3> QED
        BY <2>3, <3>1
  <2> QED
      BY <1>0, <2>1, <2>2, <2>4, <2>5, <2>6, <2>7, <2>8
<1>8. ASSUME NEW j \in 1 .. Len(new) PROVE InHeap(new[j].ptr, new[j].size)
    BY <1>6
<1>9. ASSUME NEW x \in Int, Covers(new, x) PROVE Covers(list, x) \/ Between(e.ptr, e.size, x)
  <2>1. PICK j \in 1 .. Len(new) : Between(new[j].ptr, new[j].size, x)
      BY <1>9 DEF Covers
  <2>2. new[j] = e \/ \E i \in 1 .. Len(list) : new[j] = list[i]
      BY <1>6
  <2> QED
      BY <2>1, <2>2 DEF Covers
<1>10. ASSUME NEW x \in Int, Between(e.ptr, e.size, x) PROVE Covers(new, x)
  <2>1. k \in 1 .. Len(new) /\ new[k] = e
      BY <1>0, <1>3
  <2> QED
      BY <1>10, <2>1 DEF Covers
<1>11. ASSUME NEW x \in Int, Covers(list, x) PROVE Covers(new, x)
  <2>1. PICK j \in 1 .. Len(list) : Between(list[j].ptr, list[j].size, x)
      BY <1>11 DEF Covers
  <2>2. CASE j < k
    <3>1. j \in 1 .. Len(new) /\ new[j] = list[j]
        BY <1>0, <1>3, <2>2
    <3> QED
        BY <2>1, <3>1 DEF Covers
  <2>3. CASE j >= k
    <3>1. j + 1 \in 1 .. Len(new) /\ new[j + 1] = list[j]
      <4>1. j + 1 \in 1 .. (Len(list) + 1) /\ ~(j + 1 < k) /\ j + 1 # k /\ (j + 1) - 1 = j
          BY <1>0, <2>3
      <4> QED
          BY <1>3, <4>1
    <3> QED
        BY <2>1, <3>1 DEF Covers
  <2> QED
      BY <1>0, <2>2, <2>3
<1> QED
    BY <1>7, <1>8, <1>9, <1>10, <1>11 DEF Ordered

-----------------------------------------------------------------------------
(* The free map and the zones together. *)

\* An address is in one of the pages of a zone.
InZone(z, x) == Between(z.ptr, mm_roundUpPage(z.size), x)

\* Ranges and zones are whole pages of the heap and share no address.
Ranges(list, zs) ==
    /\ Ordered(list)
    /\ \A j \in 1 .. Len(list) : InHeap(list[j].ptr, list[j].size)
    /\ \A z \in zs : InHeap(z.ptr, mm_roundUpPage(z.size))
    /\ \A z \in zs, x \in Int : InZone(z, x) => ~Covers(list, x)
    /\ \A y, z \in zs, x \in Int : InZone(y, x) /\ InZone(z, x) => y = z

\* Ranges and zones are together the heap.
Whole(list, zs) ==
    \A x \in Int :
        Covers(list, x) \/ (\E z \in zs : InZone(z, x)) <=> Between(HeapBase, HeapSize, x)

\* What mm_alloc cuts off the end of a range becomes a zone.
LEMMA AllocRanges ==
    ASSUME NEW list \in Seq(Entry), NEW zs, Ranges(list, zs),
           NEW asked \in Nat \ {0}, NEW size, size = mm_roundUpPage(asked),
           NEW i \in 1 .. Len(list), list[i].size > size,
           NEW ptr, ptr = list[i].ptr + list[i].size - size,
           NEW new \in Seq(Entry), Len(new) = Len(list),
           \A j \in 1 .. Len(list) : j # i => new[j] = list[j],
           new[i].ptr = list[i].ptr, new[i].size = list[i].size - size,
           NEW zone, zone = [ptr |-> ptr, size |-> asked]
    PROVE  /\ ptr \in Nat /\ ptr # Null /\ ptr \in Heap
           /\ Ranges(new, zs \cup {zone})
           /\ Whole(list, zs) => Whole(new, zs \cup {zone})
<1>0. /\ Ordered(list)
      /\ \A j \in 1 .. Len(list) : InHeap(list[j].ptr, list[j].size)
      /\ \A z \in zs : InHeap(z.ptr, mm_roundUpPage(z.size))
      /\ \A z \in zs, x \in Int : InZone(z, x) => ~Covers(list, x)
      /\ \A y, z \in zs, x \in Int : InZone(y, x) /\ InZone(z, x) => y = z
    BY DEF Ranges
<1>1. size \in Nat \ {0} /\ size % PageSize = 0
    BY RoundUp
<1>2. /\ ptr \in Nat /\ ptr # Null /\ InHeap(ptr, size)
      /\ Ordered(new) /\ \A j \in 1 .. Len(new) : InHeap(new[j].ptr, new[j].size)
      /\ \A x \in Int : Between(ptr, size, x) => Covers(list, x)
      /\ \A x \in Int : Covers(new, x) <=> Covers(list, x) /\ ~Between(ptr, size, x)
  <2>1. Ordered(list) /\ \A j \in 1 .. Len(list) : InHeap(list[j].ptr, list[j].size)
      BY <1>0
  <2>2. /\ list \in Seq(Entry) /\ i \in 1 .. Len(list) /\ list[i].size > size
        /\ ptr = list[i].ptr + list[i].size - size
        /\ new \in Seq(Entry) /\ Len(new) = Len(list)
        /\ \A j \in 1 .. Len(list) : j # i => new[j] = list[j]
        /\ new[i].ptr = list[i].ptr /\ new[i].size = list[i].size - size
      OBVIOUS
  <2> QED
      BY ONLY <1>1, <2>1, <2>2, ShortenRange, SMTT(60)
<1>3. zone.ptr = ptr /\ zone.size = asked
    OBVIOUS
<1>4. \A x : InZone(zone, x) <=> Between(ptr, size, x)
    BY <1>3 DEF InZone
<1>5. ptr \in Heap
  <2>1. HeapBase <= ptr /\ ptr + size <= HeapBase + HeapSize
      BY <1>2 DEF InHeap
  <2> QED
      BY <1>1, <1>2, <2>1, HeapAssumption DEF Heap, Chunk
<1>6. Ranges(new, zs \cup {zone})
  <2>1. \A z \in zs \cup {zone} : InHeap(z.ptr, mm_roundUpPage(z.size))
      BY <1>0, <1>2, <1>3
  <2>2. ASSUME NEW z \in zs \cup {zone}, NEW x \in Int, InZone(z, x) PROVE ~Covers(new, x)
    <3>1. Covers(new, x) <=> Covers(list, x) /\ ~Between(ptr, size, x)
        BY <1>2
    <3>2. CASE z = zone
        BY <1>4, <2>2, <3>1, <3>2
    <3>3. CASE z \in zs
        BY <1>0, <2>2, <3>1, <3>3
    <3> QED
        BY <3>2, <3>3
  <2>3. ASSUME NEW y \in zs \cup {zone}, NEW z \in zs \cup {zone}, NEW x \in Int,
               InZone(y, x), InZone(z, x)
        PROVE  y = z
    <3>1. InZone(zone, x) => Covers(list, x)
        BY <1>2, <1>4
    <3>2. \A w \in zs : InZone(w, x) => ~Covers(list, x)
        BY <1>0
    <3> QED
        BY <1>0, <2>3, <3>1, <3>2
  <2> QED
      BY <1>2, <2>1, <2>2, <2>3 DEF Ranges
<1>7. ASSUME Whole(list, zs) PROVE Whole(new, zs \cup {zone})
  <2>1. ASSUME NEW x \in Int
        PROVE  Covers(new, x) \/ (\E z \in zs \cup {zone} : InZone(z, x))
               <=> Between(HeapBase, HeapSize, x)
    <3>1. Covers(list, x) \/ (\E z \in zs : InZone(z, x)) <=> Between(HeapBase, HeapSize, x)
        BY <1>7 DEF Whole
    <3>2. /\ Covers(new, x) <=> Covers(list, x) /\ ~InZone(zone, x)
          /\ InZone(zone, x) => Covers(list, x)
        BY <1>2, <1>4
    <3>3. (\E z \in zs \cup {zone} : InZone(z, x)) <=> (\E z \in zs : InZone(z, x)) \/ InZone(zone, x)
        OBVIOUS
    <3> QED
        BY <3>1, <3>2, <3>3
  <2> QED
      BY <2>1 DEF Whole
<1> QED
    BY <1>2, <1>5, <1>6, <1>7

\* A zone that is freed becomes a range again.
LEMMA FreeRanges ==
    ASSUME NEW list, NEW zs, Ranges(list, zs), NEW zone \in zs, NEW new,
           Ordered(new), \A j \in 1 .. Len(new) : InHeap(new[j].ptr, new[j].size),
           \A x \in Int : Covers(new, x) <=> Covers(list, x) \/ InZone(zone, x)
    PROVE  /\ Ranges(new, zs \ {zone})
           /\ Whole(list, zs) => Whole(new, zs \ {zone})
<1>0. /\ \A z \in zs : InHeap(z.ptr, mm_roundUpPage(z.size))
      /\ \A z \in zs, x \in Int : InZone(z, x) => ~Covers(list, x)
      /\ \A y, z \in zs, x \in Int : InZone(y, x) /\ InZone(z, x) => y = z
    BY DEF Ranges
<1>1. \A z \in zs \ {zone} : InHeap(z.ptr, mm_roundUpPage(z.size))
    BY <1>0
<1>2. ASSUME NEW z \in zs \ {zone}, NEW x \in Int, InZone(z, x) PROVE ~Covers(new, x)
    BY <1>0, <1>2
<1>3. \A y, z \in zs \ {zone}, x \in Int : InZone(y, x) /\ InZone(z, x) => y = z
    BY <1>0
<1>4. Ranges(new, zs \ {zone})
    BY <1>1, <1>2, <1>3 DEF Ranges
<1>5. ASSUME Whole(list, zs) PROVE Whole(new, zs \ {zone})
  <2>1. ASSUME NEW x \in Int
        PROVE  Covers(new, x) \/ (\E z \in zs \ {zone} : InZone(z, x))
               <=> Between(HeapBase, HeapSize, x)
    <3>1. Covers(list, x) \/ (\E z \in zs : InZone(z, x)) <=> Between(HeapBase, HeapSize, x)
        BY <1>5 DEF Whole
    <3>2. Covers(new, x) <=> Covers(list, x) \/ InZone(zone, x)
        OBVIOUS
    <3>3. (\E z \in zs : InZone(z, x)) <=> (\E z \in zs \ {zone} : InZone(z, x)) \/ InZone(zone, x)
        OBVIOUS
    <3> QED
        BY <3>1, <3>2, <3>3
  <2> QED
      BY <2>1 DEF Whole
<1> QED
    BY <1>4, <1>5

-----------------------------------------------------------------------------
(* The invariant, with the ranges as intervals rather than as sets. *)

HeapFacts ==
    /\ HeapShape
    /\ Distinct(map, pool) /\ Within(map, pool, Phys \ physFree)
    /\ ~misreturned => Ranges(map, zones)
    /\ state = "running" /\ ~misreturned => Whole(map, zones)

\* At boot the map is empty and everything is left to the first vmm_free.
LEMMA InitFacts == Init => HeapFacts
<1> SUFFICES ASSUME Init PROVE HeapFacts
    OBVIOUS
<1>1. HeapShape
  <2>1. map \in Seq(Entry) /\ pool \in Seq(Phys) /\ zones \subseteq [ptr : Nat, size : 1 .. MaxZone]
      BY DEF Init
  <2> QED
      BY <2>1 DEF Init, HeapShape
<1>2. Len(map) = 0 /\ Len(pool) = 0 /\ zones = {} /\ state = "boot"
    BY DEF Init
<1>3. Distinct(map, pool) /\ Within(map, pool, Phys \ physFree)
    BY <1>2 DEF Distinct, Within
<1>4. Ranges(map, zones)
    BY <1>2 DEF Ranges, Ordered
<1> QED
    BY <1>1, <1>2, <1>3, <1>4 DEF HeapFacts

\* vmm_free on a pool that holds a node: what every caller of FreeWith needs.
LEMMA FreeWithFacts ==
    ASSUME HeapShape, NEW entries \in Seq(Phys), entries # <<>>, NEW S,
           Distinct(map, entries), Within(map, entries, S),
           NEW ptr \in Nat, NEW size \in Nat \ {0}, NEW zone, zone = [ptr |-> ptr, size |-> size],
           FreeWith(entries, zone)
    PROVE  /\ map' \in Seq(Entry) /\ pool' \in Seq(Phys)
           /\ Distinct(map', pool') /\ Within(map', pool', S)
           /\ /\ Ordered(map)
              /\ \A j \in 1 .. Len(map) : InHeap(map[j].ptr, map[j].size)
              /\ InHeap(ptr, mm_roundUpPage(size))
              /\ \A x \in Int : InZone(zone, x) => ~Covers(map, x)
              => /\ Ordered(map')
                 /\ \A j \in 1 .. Len(map') : InHeap(map'[j].ptr, map'[j].size)
                 /\ \A x \in Int : Covers(map', x) <=> Covers(map, x) \/ InZone(zone, x)
<1>1. PICK list : list = map
    OBVIOUS
<1>2. list \in Seq(Entry)
    BY <1>1 DEF HeapShape
<1>3. PICK range : range = mm_alignRange(zone)
    OBVIOUS
<1>4. PICK added :
        added = mm_addNodeToMap(list,
                    [node |-> Head(entries), ptr |-> range.ptr, size |-> range.size])
    OBVIOUS
<1>5. PICK rest : rest = Reverse(added.freed) \o Tail(entries)
    OBVIOUS
<1>6. map' = added.list /\ pool' = rest
    BY <1>1, <1>3, <1>4, <1>5 DEF FreeWith
<1>7. /\ Distinct(list, entries) /\ Within(list, entries, S)
    BY <1>1
<1>8. PICK e : e = [node |-> Head(entries), ptr |-> range.ptr, size |-> range.size]
    OBVIOUS
<1>9. range.ptr \in Nat /\ range.size \in Nat \ {0}
    BY <1>3, RoundedRange
<1>10. Head(entries) \in Phys
    OBVIOUS
<1>11. e \in Entry /\ e.node = Head(entries) /\ e.ptr = range.ptr /\ e.size = range.size
    BY <1>8, <1>9, <1>10 DEF Entry
<1>12. added = mm_addNodeToMap(list, e)
    BY <1>4, <1>8
<1>13. /\ added.list \in Seq(Entry) /\ rest \in Seq(Phys)
      /\ Distinct(added.list, rest) /\ Within(added.list, rest, S)
      /\ \E k \in 1 .. Len(list) + 1 :
           /\ \A j \in 1 .. Len(list) : j < k => list[j].ptr < e.ptr
           /\ k <= Len(list) => list[k].ptr >= e.ptr
           /\ (\A j \in 1 .. Len(list) : list[j].ptr >= HeapBase) /\ e.ptr >= HeapBase
              => added.list = InsertAt(list, k, e)
  <2>1. /\ list \in Seq(Entry) /\ entries \in Seq(Phys) /\ entries # <<>>
        /\ Distinct(list, entries) /\ Within(list, entries, S)
        /\ rest = Reverse(added.freed) \o Tail(entries)
      BY <1>2, <1>5, <1>7
  <2> QED
      BY ONLY <1>11, <1>12, <2>1, AddFacts, ZenonT(120)
<1>14. ASSUME Ordered(list), \A j \in 1 .. Len(list) : InHeap(list[j].ptr, list[j].size),
             InHeap(ptr, mm_roundUpPage(size)),
             \A x \in Int : InZone(zone, x) => ~Covers(list, x)
      PROVE  /\ Ordered(added.list)
             /\ \A j \in 1 .. Len(added.list) : InHeap(added.list[j].ptr, added.list[j].size)
             /\ \A x \in Int : Covers(added.list, x) <=> Covers(list, x) \/ InZone(zone, x)
  <2>1. ptr % PageSize = 0 /\ HeapBase <= ptr
      BY <1>14 DEF InHeap
  <2>2. e.ptr = ptr /\ e.size = mm_roundUpPage(size)
      BY <1>3, <1>11, <2>1, AlignedRange
  <2>3. zone.ptr = ptr /\ zone.size = size
      OBVIOUS
  <2>4. \A x : InZone(zone, x) <=> Between(e.ptr, e.size, x)
      BY <2>2, <2>3 DEF InZone
  <2>5. InHeap(e.ptr, e.size) /\ \A x \in Int : Between(e.ptr, e.size, x) => ~Covers(list, x)
      BY <1>14, <2>2, <2>4
  <2>6. PICK k \in 1 .. Len(list) + 1 :
           /\ \A j \in 1 .. Len(list) : j < k => list[j].ptr < e.ptr
           /\ k <= Len(list) => list[k].ptr >= e.ptr
           /\ (\A j \in 1 .. Len(list) : list[j].ptr >= HeapBase) /\ e.ptr >= HeapBase
              => added.list = InsertAt(list, k, e)
      BY <1>13
  <2>7. \A j \in 1 .. Len(list) : list[j].ptr >= HeapBase
      BY <1>14 DEF InHeap
  <2>8. added.list = InsertAt(list, k, e)
      BY <2>1, <2>2, <2>6, <2>7
  <2>9. /\ Ordered(added.list)
        /\ \A j \in 1 .. Len(added.list) : InHeap(added.list[j].ptr, added.list[j].size)
        /\ \A x \in Int : Covers(added.list, x) <=> Covers(list, x) \/ Between(e.ptr, e.size, x)
    <3>1. PICK new : new = added.list
        OBVIOUS
    <3>2. new = InsertAt(list, k, e) /\ Ordered(list) /\ e \in Entry
        BY <1>11, <1>14, <2>8, <3>1
    <3>3. \A j \in 1 .. Len(list) : InHeap(list[j].ptr, list[j].size)
        BY <1>14
    <3>4. (\A j \in 1 .. Len(list) : j < k => list[j].ptr < e.ptr)
          /\ (k <= Len(list) => list[k].ptr >= e.ptr)
        BY <2>6
    <3>5. /\ Ordered(new) /\ \A j \in 1 .. Len(new) : InHeap(new[j].ptr, new[j].size)
          /\ \A x \in Int : Covers(new, x) <=> Covers(list, x) \/ Between(e.ptr, e.size, x)
        BY <1>2, <2>5, <3>2, <3>3, <3>4, InsertRange
    <3> QED
        BY <3>1, <3>5
  <2> QED
      BY <2>4, <2>9
<1> QED
    BY <1>1, <1>6, <1>13, <1>14

\* A zone as a pair of numbers.
LEMMA ZoneFields ==
    ASSUME HeapShape, NEW zone \in zones
    PROVE  /\ zone.ptr \in Nat /\ zone.size \in Nat \ {0}
           /\ zone = [ptr |-> zone.ptr, size |-> zone.size]
<1>1. zone \in [ptr : Nat, size : 1 .. MaxZone]
    BY DEF HeapShape
<1>2. MaxZone \in Nat
    BY HeapAssumption
<1>3. zone.ptr \in Nat /\ zone.size \in 1 .. MaxZone /\ zone = [ptr |-> zone.ptr, size |-> zone.size]
    BY <1>1
<1> QED
    BY <1>2, <1>3

\* A pool refilled with a page of pmm_alloc: one node that was in no list.
LEMMA RefillFacts ==
    ASSUME HeapFacts, pool = <<>>, NEW page \in physFree
    PROVE  /\ vmm_refillEntryPool(page) = <<page>> /\ <<page>> \in Seq(Phys) /\ <<page>> # <<>>
           /\ Distinct(map, <<page>>) /\ Within(map, <<page>>, Phys \ (physFree \ {page}))
<1>0. HeapShape /\ Distinct(map, pool) /\ Within(map, pool, Phys \ physFree)
    BY DEF HeapFacts
<1>1. page \in Phys /\ allocations = <<>>
    BY <1>0 DEF HeapShape
<1>2. vmm_refillEntryPool(page) = <<page>>
    BY <1>1 DEF vmm_refillEntryPool
<1>3. <<page>> \in Seq(Phys) /\ <<page>> # <<>> /\ Len(<<page>>) = 1 /\ <<page>>[1] = page
    BY <1>1
<1>4. \A i \in 1 .. Len(map) : map[i].node \in Phys \ physFree
    BY <1>0 DEF Within
<1>5. PICK new : new = <<page>>
    OBVIOUS
<1>6. \A j \in 1 .. Len(new) : j = 1 /\ new[j] = page
    BY <1>3, <1>5
<1>7. Distinct(map, new)
  <2>1. \A i, j \in 1 .. Len(map) : map[i].node = map[j].node => i = j
      BY <1>0 DEF Distinct
  <2> QED
      BY <1>4, <1>6, <2>1 DEF Distinct
<1>8. Within(map, new, Phys \ (physFree \ {page}))
    BY <1>1, <1>4, <1>6 DEF Within
<1> QED
    BY <1>2, <1>3, <1>5, <1>7, <1>8

\* The kernel context starts with the whole heap as one range.
LEMMA InitKernelContextStep ==
    ASSUME HeapFacts, vmm_initKernelContext
    PROVE  HeapFacts'
<1>0. HeapShape /\ state = "boot"
    BY DEF HeapFacts, vmm_initKernelContext
<1>1. /\ map = <<>> /\ pool = <<>> /\ zones = {} /\ ~misreturned
      /\ allocations = <<>> /\ physFree \subseteq Phys
    BY <1>0 DEF HeapShape
<1>2. CASE panic
  <2>1. HeapShape'
      BY <1>0, <1>2 DEF panic, HeapShape
  <2>2. Distinct(map, pool)' /\ Within(map, pool, Phys \ physFree)' /\ Ranges(map, zones)'
      BY <1>1, <1>2 DEF panic, HeapFacts
  <2>3. state' # "running"
      BY <1>2 DEF panic
  <2> QED
      BY <2>1, <2>2, <2>3 DEF HeapFacts
<1>3. ASSUME NEW page \in physFree, physFree' = physFree \ {page},
             FreeWith(vmm_refillEntryPool(page), [ptr |-> HeapBase, size |-> HeapSize]),
             state' = "running", UNCHANGED <<allocations, zones, misreturned>>
      PROVE  HeapFacts'
  <2>1. PICK entries : entries = <<page>>
      OBVIOUS
  <2>2. /\ vmm_refillEntryPool(page) = entries /\ entries \in Seq(Phys) /\ entries # <<>>
        /\ Distinct(map, entries) /\ Within(map, entries, Phys \ (physFree \ {page}))
      BY <1>1, <2>1, RefillFacts
  <2>3. PICK zone : zone = [ptr |-> HeapBase, size |-> HeapSize]
      OBVIOUS
  <2>4. HeapBase \in Nat /\ HeapSize \in Nat \ {0} /\ FreeWith(entries, zone)
      BY <1>3, <2>2, <2>3, HeapAssumption
  <2>5. HeapSize = mm_roundUpPage(HeapSize) /\ HeapBase % PageSize = 0 /\ HeapSize % PageSize = 0
      BY <2>4, RoundUp, HeapAssumption
  <2>6. InHeap(HeapBase, mm_roundUpPage(HeapSize))
      BY <2>4, <2>5 DEF InHeap
  <2>7. \A x \in Int : ~Covers(map, x)
      BY <1>1 DEF Covers
  <2>8. Ordered(map) /\ \A j \in 1 .. Len(map) : InHeap(map[j].ptr, map[j].size)
      BY <1>1 DEF Ordered
  <2>9. /\ map' \in Seq(Entry) /\ pool' \in Seq(Phys)
        /\ Distinct(map', pool') /\ Within(map', pool', Phys \ (physFree \ {page}))
        /\ Ordered(map') /\ \A j \in 1 .. Len(map') : InHeap(map'[j].ptr, map'[j].size)
        /\ \A x \in Int : Covers(map', x) <=> Covers(map, x) \/ InZone(zone, x)
      BY <1>0, <2>2, <2>3, <2>4, <2>6, <2>7, <2>8, FreeWithFacts
  <2>10. zones' = {} /\ allocations' = <<>> /\ misreturned' = misreturned
      BY <1>1, <1>3
  <2>11. HeapShape'
    <3>1. zones' \subseteq [ptr : Nat, size : 1 .. MaxZone]
        BY <2>10
    <3>2. physFree' \subseteq Phys
        BY <1>1, <1>3
    <3> QED
        BY <1>0, <1>3, <2>9, <2>10, <3>1, <3>2 DEF HeapShape
  <2>12. Ranges(map', zones')
      BY <2>9, <2>10 DEF Ranges
  <2>13. Whole(map', zones')
    <3>1. zone.ptr = HeapBase /\ zone.size = HeapSize
        BY <2>3
    <3>2. \A x : InZone(zone, x) <=> Between(HeapBase, HeapSize, x)
        BY <2>5, <3>1 DEF InZone
    <3> QED
        BY <2>7, <2>9, <2>10, <3>2 DEF Whole
  <2> QED
      BY <1>3, <2>9, <2>11, <2>12, <2>13 DEF HeapFacts
<1> QED
    BY <1>2, <1>3 DEF vmm_initKernelContext

\* vmm_free gives the pages of a zone back to the map.
LEMMA FreeZone ==
    ASSUME HeapFacts, state = "running", NEW zone \in zones,
           NEW entries \in Seq(Phys), entries # <<>>, NEW S,
           Distinct(map, entries), Within(map, entries, S), FreeWith(entries, zone),
           physFree' \subseteq Phys, S = Phys \ physFree', zones' = zones \ {zone},
           UNCHANGED <<state, allocations, misreturned>>
    PROVE  HeapFacts'
<1>0. /\ HeapShape
      /\ ~misreturned => Ranges(map, zones) /\ Whole(map, zones)
    BY DEF HeapFacts
<1>1. PICK ptr, size : ptr = zone.ptr /\ size = zone.size
    OBVIOUS
<1>2. ptr \in Nat /\ size \in Nat \ {0} /\ zone = [ptr |-> ptr, size |-> size]
    BY <1>0, <1>1, ZoneFields
<1>3. /\ map' \in Seq(Entry) /\ pool' \in Seq(Phys)
      /\ Distinct(map', pool') /\ Within(map', pool', S)
      /\ /\ Ordered(map)
         /\ \A j \in 1 .. Len(map) : InHeap(map[j].ptr, map[j].size)
         /\ InHeap(ptr, mm_roundUpPage(size))
         /\ \A x \in Int : InZone(zone, x) => ~Covers(map, x)
         => /\ Ordered(map')
            /\ \A j \in 1 .. Len(map') : InHeap(map'[j].ptr, map'[j].size)
            /\ \A x \in Int : Covers(map', x) <=> Covers(map, x) \/ InZone(zone, x)
    BY <1>0, <1>2, FreeWithFacts
<1>4. HeapShape'
  <2>1. zones' \subseteq [ptr : Nat, size : 1 .. MaxZone]
      BY <1>0 DEF HeapShape
  <2> QED
      BY <1>0, <1>3, <2>1 DEF HeapShape
<1>5. ASSUME ~misreturned PROVE Ranges(map', zones') /\ Whole(map', zones')
  <2>1. PICK list, zs, new : list = map /\ zs = zones /\ new = map'
      OBVIOUS
  <2>2. Ranges(list, zs) /\ Whole(list, zs) /\ zone \in zs
      BY <1>0, <1>5, <2>1
  <2>3. /\ Ordered(list) /\ \A j \in 1 .. Len(list) : InHeap(list[j].ptr, list[j].size)
        /\ InHeap(zone.ptr, mm_roundUpPage(zone.size))
        /\ \A x \in Int : InZone(zone, x) => ~Covers(list, x)
      BY <2>2 DEF Ranges
  <2>4. /\ Ordered(new) /\ \A j \in 1 .. Len(new) : InHeap(new[j].ptr, new[j].size)
        /\ \A x \in Int : Covers(new, x) <=> Covers(list, x) \/ InZone(zone, x)
      BY <1>1, <1>3, <2>1, <2>3
  <2>5. Ranges(new, zs \ {zone}) /\ Whole(new, zs \ {zone})
      BY ONLY <2>2, <2>4, FreeRanges
  <2> QED
      BY <2>1, <2>5
<1> QED
    BY <1>3, <1>4, <1>5 DEF HeapFacts

\* vmm_free with a node in the pool, after a refill, and in panic().
LEMMA FreeStep ==
    ASSUME HeapFacts, NEW zone \in zones, vmm_free(zone)
    PROVE  HeapFacts'
<1>0. HeapShape /\ Distinct(map, pool) /\ Within(map, pool, Phys \ physFree) /\ state = "running"
    BY DEF HeapFacts, vmm_free
<1>1. pool \in Seq(Phys) /\ physFree \subseteq Phys
    BY <1>0 DEF HeapShape
<1>2. ASSUME pool # <<>>, FreeWith(pool, zone), zones' = zones \ {zone},
             UNCHANGED <<state, allocations, physFree, misreturned>>
      PROVE  HeapFacts'
  <2>1. PICK entries, S : entries = pool /\ S = Phys \ physFree
      OBVIOUS
  <2>2. /\ entries \in Seq(Phys) /\ entries # <<>> /\ FreeWith(entries, zone)
        /\ Distinct(map, entries) /\ Within(map, entries, S)
      BY <1>0, <1>1, <1>2, <2>1
  <2>3. physFree' \subseteq Phys /\ S = Phys \ physFree'
      BY <1>1, <1>2, <2>1
  <2> QED
      BY <1>0, <1>2, <2>2, <2>3, FreeZone
<1>3. ASSUME pool = <<>>, NEW page \in physFree, physFree' = physFree \ {page},
             FreeWith(vmm_refillEntryPool(page), zone), zones' = zones \ {zone},
             UNCHANGED <<state, allocations, misreturned>>
      PROVE  HeapFacts'
  <2>1. PICK entries, S : entries = <<page>> /\ S = Phys \ (physFree \ {page})
      OBVIOUS
  <2>2. /\ entries \in Seq(Phys) /\ entries # <<>> /\ FreeWith(entries, zone)
        /\ Distinct(map, entries) /\ Within(map, entries, S)
      BY <1>3, <2>1, RefillFacts
  <2>3. physFree' \subseteq Phys /\ S = Phys \ physFree'
      BY <1>1, <1>3, <2>1
  <2> QED
      BY <1>0, <1>3, <2>2, <2>3, FreeZone
<1>4. CASE panic
  <2>1. HeapShape'
      BY <1>0, <1>4 DEF panic, HeapShape
  <2>2. Distinct(map, pool)' /\ Within(map, pool, Phys \ physFree)'
        /\ (~misreturned => Ranges(map, zones))'
      BY <1>4 DEF panic, HeapFacts
  <2>3. state' # "running"
      BY <1>4 DEF panic
  <2> QED
      BY <2>1, <2>2, <2>3 DEF HeapFacts
<1> QED
    BY <1>2, <1>3, <1>4 DEF vmm_free

\* Nodes stay apart when one of them leaves the list.
LEMMA RemoveDistinct ==
    ASSUME NEW list, Len(list) \in Nat, NEW entries, NEW S,
           Distinct(list, entries), Within(list, entries, S), NEW i \in 1 .. Len(list), NEW new,
           Len(new) = Len(list) - 1,
           \A j \in 1 .. Len(list) - 1 : new[j] = IF j < i THEN list[j] ELSE list[j + 1]
    PROVE  Distinct(new, entries) /\ Within(new, entries, S)
<1> DEFINE at(j) == IF j < i THEN j ELSE j + 1
<1>1. \A j \in 1 .. Len(new) : at(j) \in 1 .. Len(list) /\ new[j] = list[at(j)]
    OBVIOUS
<1>2. \A a, b \in 1 .. Len(new) : at(a) = at(b) => a = b
    OBVIOUS
<1>3. \A j \in 1 .. Len(new) : new[j].node = list[at(j)].node
    BY <1>1
<1>4. \A j \in 1 .. Len(new) : at(j) \in 1 .. Len(list)
    BY <1>1
<1> HIDE DEF at
<1>5. \A a, b \in 1 .. Len(new) : new[a].node = new[b].node => a = b
  <2>1. \A a, b \in 1 .. Len(list) : list[a].node = list[b].node => a = b
      BY DEF Distinct
  <2> QED
      BY ONLY <1>2, <1>3, <1>4, <2>1, Zenon
<1>6. \A a \in 1 .. Len(new), b \in 1 .. Len(entries) : new[a].node # entries[b]
  <2>1. \A a \in 1 .. Len(list), b \in 1 .. Len(entries) : list[a].node # entries[b]
      BY DEF Distinct
  <2> QED
      BY ONLY <1>3, <1>4, <2>1, Zenon
<1>7. \A a \in 1 .. Len(new) : new[a].node \in S
  <2>1. \A a \in 1 .. Len(list) : list[a].node \in S
      BY DEF Within
  <2> QED
      BY ONLY <1>3, <1>4, <2>1, Zenon
<1> QED
    BY <1>5, <1>6, <1>7 DEF Distinct, Within

\* Nodes stay apart when only the size of a range changes.
LEMMA ShortenDistinct ==
    ASSUME NEW list, NEW entries, NEW S,
           Distinct(list, entries), Within(list, entries, S), NEW i, NEW new,
           Len(new) = Len(list), new[i].node = list[i].node,
           \A j \in 1 .. Len(list) : j # i => new[j] = list[j]
    PROVE  Distinct(new, entries) /\ Within(new, entries, S)
<1>1. \A j \in 1 .. Len(list) : new[j].node = list[j].node
    OBVIOUS
<1> QED
    BY <1>1 DEF Distinct, Within

\* vmm_alloc: nothing fits, the address of a node is returned, or the end of a
\* range is cut off.
LEMMA AllocStep ==
    ASSUME HeapFacts, NEW asked \in 1 .. MaxZone, vmm_alloc(asked)
    PROVE  HeapFacts'
<1>0. /\ HeapShape /\ Distinct(map, pool) /\ Within(map, pool, Phys \ physFree)
      /\ state = "running" /\ ~misreturned => Ranges(map, zones) /\ Whole(map, zones)
    BY DEF HeapFacts, vmm_alloc
<1>1. PICK list, zs : list = map /\ zs = zones
    OBVIOUS
<1>2. list \in Seq(Entry) /\ zs \subseteq [ptr : Nat, size : 1 .. MaxZone] /\ misreturned \in BOOLEAN
    BY <1>0, <1>1 DEF HeapShape
<1>3. asked \in Nat \ {0}
    BY HeapAssumption
<1>4. PICK size : size = mm_roundUpPage(asked)
    OBVIOUS
<1>5. size \in Nat \ {0}
    BY <1>3, <1>4, RoundUp
<1>6. PICK got : got = mm_alloc(list, size)
    OBVIOUS
<1>7. /\ map' = got.list /\ UNCHANGED <<state, pool, allocations, physFree>> /\ state = "running"
      /\ got.ptr = Null => UNCHANGED <<zones, misreturned>>
      /\ got.ptr # Null =>
            /\ zones' = zs \cup {[ptr |-> got.ptr, size |-> asked]}
            /\ misreturned' = (misreturned \/ got.ptr \notin Heap)
    BY <1>1, <1>4, <1>6 DEF vmm_alloc
<1>8. /\ got.list \in Seq(Entry)
      /\ \/ got.list = list /\ got.ptr = Null
         \/ \E i \in 1 .. Len(list) :
               /\ got.ptr = list[i].node /\ Len(got.list) = Len(list) - 1
               /\ \A j \in 1 .. Len(list) - 1 :
                   got.list[j] = IF j < i THEN list[j] ELSE list[j + 1]
         \/ \E i \in 1 .. Len(list) :
               /\ list[i].size > size /\ got.ptr = list[i].ptr + list[i].size - size
               /\ Len(got.list) = Len(list)
               /\ \A j \in 1 .. Len(list) : j # i => got.list[j] = list[j]
               /\ got.list[i].node = list[i].node /\ got.list[i].ptr = list[i].ptr
               /\ got.list[i].size = list[i].size - size
    BY ONLY <1>2, <1>5, <1>6, AllocCases, SMTT(60)
<1>9. PICK new : new = got.list
    OBVIOUS
<1>10. ASSUME got.ptr \in Nat, got.ptr # Null PROVE HeapShape'
  <2>1. zones' \subseteq [ptr : Nat, size : 1 .. MaxZone]
      BY <1>2, <1>7, <1>10
  <2>2. misreturned' \in BOOLEAN
      BY <1>7, <1>10
  <2> QED
      BY <1>0, <1>7, <1>8, <2>1, <2>2 DEF HeapShape
<1>11. CASE got.list = list /\ got.ptr = Null
  <2>1. UNCHANGED vars
      BY <1>1, <1>7, <1>11 DEF vars
  <2> QED
      BY <2>1 DEF HeapFacts, HeapShape, vars
<1>12. ASSUME NEW i \in 1 .. Len(list), got.ptr = list[i].node, Len(new) = Len(list) - 1,
              \A j \in 1 .. Len(list) - 1 : new[j] = IF j < i THEN list[j] ELSE list[j + 1]
       PROVE  HeapFacts'
  <2>1. list[i].node \in Phys
      BY <1>2, EntryFields
  <2>2. got.ptr \in Nat /\ got.ptr # Null /\ got.ptr < HeapBase
      BY <1>12, <2>1, PhysBelowHeap
  <2>3. got.ptr \notin Heap
      BY <2>2, HeapAssumption DEF Heap, Chunk
  <2>4. misreturned'
      BY <1>7, <2>2, <2>3
  <2>5. Distinct(map', pool') /\ Within(map', pool', Phys \ physFree')
    <3>1. Distinct(list, pool) /\ Within(list, pool, Phys \ physFree) /\ Len(list) \in Nat
        BY <1>0, <1>1, <1>2
    <3>2. Distinct(new, pool) /\ Within(new, pool, Phys \ physFree)
        BY <1>12, <3>1, RemoveDistinct
    <3> QED
        BY <1>7, <1>9, <3>2
  <2> QED
      BY <1>10, <2>2, <2>4, <2>5 DEF HeapFacts
<1>13. ASSUME NEW i \in 1 .. Len(list), list[i].size > size,
              got.ptr = list[i].ptr + list[i].size - size, Len(new) = Len(list),
              \A j \in 1 .. Len(list) : j # i => new[j] = list[j],
              new[i].node = list[i].node, new[i].ptr = list[i].ptr,
              new[i].size = list[i].size - size
       PROVE  HeapFacts'
  <2>1. PICK ptr : ptr = got.ptr
      OBVIOUS
  <2>2. ptr \in Nat /\ ptr # Null
    <3>1. list[i].ptr \in Nat /\ list[i].size \in Nat
        BY <1>2, EntryFields
    <3>2. PICK p, s : p = list[i].ptr /\ s = list[i].size
        OBVIOUS
    <3>3. p \in Nat /\ s \in Nat /\ s > size /\ ptr = p + s - size
        BY <1>13, <2>1, <3>1, <3>2
    <3> QED
        BY ONLY <1>5, <3>3 DEF Null
  <2>3. Distinct(map', pool') /\ Within(map', pool', Phys \ physFree')
    <3>1. Distinct(list, pool) /\ Within(list, pool, Phys \ physFree)
        BY <1>0, <1>1
    <3>2. Distinct(new, pool) /\ Within(new, pool, Phys \ physFree)
        BY <1>13, <3>1, ShortenDistinct
    <3> QED
        BY <1>7, <1>9, <3>2
  <2>4. PICK zone : zone = [ptr |-> ptr, size |-> asked]
      OBVIOUS
  <2>5. zones' = zs \cup {zone} /\ misreturned' = (misreturned \/ ptr \notin Heap)
      BY <1>7, <2>1, <2>2, <2>4
  <2>6. ASSUME ~misreturned PROVE Ranges(map', zones') /\ Whole(map', zones')
    <3>1. Ranges(list, zs) /\ Whole(list, zs)
        BY <1>0, <1>1, <1>7, <2>6
    <3>2. new \in Seq(Entry) /\ ptr = list[i].ptr + list[i].size - size
        BY <1>8, <1>9, <1>13, <2>1
    <3>3. /\ list[i].size > size /\ Len(new) = Len(list)
          /\ \A j \in 1 .. Len(list) : j # i => new[j] = list[j]
          /\ new[i].ptr = list[i].ptr /\ new[i].size = list[i].size - size
        BY <1>13
    <3>4. Ranges(new, zs \cup {zone}) /\ Whole(new, zs \cup {zone})
        BY ONLY i \in 1 .. Len(list), <1>2, <1>3, <1>4, <2>4, <3>1, <3>2, <3>3, AllocRanges, SMTT(60)
    <3> QED
        BY <1>7, <1>9, <2>5, <3>4
  <2> QED
      BY <1>10, <2>1, <2>2, <2>3, <2>5, <2>6 DEF HeapFacts
<1> QED
    BY <1>8, <1>9, <1>11, <1>12, <1>13

\* Every step keeps the invariant.
LEMMA NextFacts == HeapFacts /\ [Next]_vars => HeapFacts'
<1> SUFFICES ASSUME HeapFacts, [Next]_vars PROVE HeapFacts'
    OBVIOUS
<1>1. CASE UNCHANGED vars
    BY <1>1 DEF HeapFacts, HeapShape, vars
<1>2. CASE vmm_initKernelContext
    BY <1>2, InitKernelContextStep
<1>3. ASSUME NEW asked \in 1 .. MaxZone, vmm_alloc(asked) PROVE HeapFacts'
    BY <1>3, AllocStep
<1>4. ASSUME NEW zone \in zones, vmm_free(zone) PROVE HeapFacts'
    BY <1>4, FreeStep
<1> QED
    BY <1>1, <1>2, <1>3, <1>4 DEF Next

\* The invariant holds in every reachable state.
LEMMA AlwaysFacts == Spec => []HeapFacts
<1> QED
    BY InitFacts, NextFacts, PTL DEF Spec

-----------------------------------------------------------------------------
(* What the invariant says of the sets of addresses. *)

\* A chunk holds the addresses between its ends.
LEMMA ChunkBetween ==
    ASSUME NEW ptr \in Nat, NEW size \in Nat
    PROVE  \A x : x \in Chunk(ptr, size) <=> x \in Int /\ Between(ptr, size, x)
BY DEF Chunk, Between

\* The memory of the map, address by address.
LEMMA MemoryCovers ==
    ASSUME HeapShape
    PROVE  \A x : x \in Memory(map) <=> x \in Int /\ Covers(map, x)
<1>1. map \in Seq(Entry) /\ DOMAIN map = 1 .. Len(map)
    BY DEF HeapShape
<1>2. \A i \in 1 .. Len(map) : map[i].ptr \in Nat /\ map[i].size \in Nat
    BY <1>1, EntryFields
<1>3. \A i \in 1 .. Len(map) : \A x :
        x \in Chunk(map[i].ptr, map[i].size) <=> x \in Int /\ Between(map[i].ptr, map[i].size, x)
    BY <1>2, ChunkBetween
<1>4. \A x : x \in Memory(map) <=> \E i \in 1 .. Len(map) : x \in Chunk(map[i].ptr, map[i].size)
    BY <1>1 DEF Memory
<1> QED
    BY <1>3, <1>4 DEF Covers

\* The pages of a zone, address by address.
LEMMA ZonePagesIn ==
    ASSUME HeapShape, NEW z \in zones
    PROVE  \A x : x \in ZonePages(z) <=> x \in Int /\ InZone(z, x)
<1>1. z.ptr \in Nat /\ z.size \in Nat \ {0}
    BY ZoneFields
<1>2. mm_roundUpPage(z.size) \in Nat
    BY <1>1, RoundUp
<1>3. \A x : x \in Chunk(z.ptr, mm_roundUpPage(z.size))
             <=> x \in Int /\ Between(z.ptr, mm_roundUpPage(z.size), x)
    BY <1>1, <1>2, ChunkBetween
<1> QED
    BY <1>3 DEF ZonePages, InZone

\* The nodes of the map and of the pool, one after the other, are distinct.
LEMMA FactsNodes ==
    ASSUME HeapFacts
    PROVE  NodesDistinct
<1>0. HeapShape /\ Distinct(map, pool) /\ Within(map, pool, Phys \ physFree)
    BY DEF HeapFacts
<1>1. map \in Seq(Entry) /\ pool \in Seq(Phys) /\ DOMAIN map = 1 .. Len(map) /\ Len(map) \in Nat
    BY <1>0 DEF HeapShape
<1>2. \A i \in 1 .. Len(map) : map[i].node \in Phys
    BY <1>1, EntryFields
<1>3. PICK first : first = [i \in DOMAIN map |-> map[i].node]
    OBVIOUS
<1>4. first \in Seq(Phys) /\ Len(first) = Len(map) /\ \A i \in 1 .. Len(map) : first[i] = map[i].node
    BY <1>1, <1>2, <1>3
<1>5. PICK nodes : nodes = first \o pool
    OBVIOUS
<1>6. /\ DOMAIN nodes = 1 .. Len(map) + Len(pool) /\ Len(pool) \in Nat
      /\ \A i \in 1 .. Len(map) + Len(pool) :
            nodes[i] = IF i <= Len(map) THEN first[i] ELSE pool[i - Len(map)]
  <2>1. PICK m, n, p : m = Len(map) /\ n = Len(pool) /\ p = pool
      OBVIOUS
  <2>2. m \in Nat /\ n \in Nat /\ p \in Seq(Phys) /\ Len(p) = n /\ Len(first) = m /\ nodes = first \o p
      BY <1>1, <1>4, <1>5, <2>1
  <2>3. first \in Seq(Phys)
      BY <1>4
  <2>4. /\ DOMAIN nodes = 1 .. m + n
        /\ \A i \in 1 .. m + n : nodes[i] = IF i <= m THEN first[i] ELSE p[i - m]
    <3>1. nodes \in Seq(Phys) /\ Len(nodes) = m + n
        BY ONLY <2>2, <2>3, ConcatProperties
    <3>2. \A i \in 1 .. m + n : nodes[i] = IF i <= m THEN first[i] ELSE p[i - m]
        BY ONLY <2>2, <2>3, ConcatProperties
    <3> QED
        BY ONLY <3>1, <3>2
  <2> QED
      BY <2>1, <2>2, <2>4
<1>7. \A i \in DOMAIN nodes :
        \/ i \in 1 .. Len(map) /\ nodes[i] = map[i].node
        \/ i - Len(map) \in 1 .. Len(pool) /\ nodes[i] = pool[i - Len(map)]
    BY <1>1, <1>4, <1>6
<1>8. ASSUME NEW a \in DOMAIN nodes, NEW b \in DOMAIN nodes, nodes[a] = nodes[b] PROVE a = b
  <2>1. a \in Int /\ b \in Int
      BY <1>6
  <2>2. /\ \A i, j \in 1 .. Len(map) : map[i].node = map[j].node => i = j
        /\ \A i, j \in 1 .. Len(pool) : pool[i] = pool[j] => i = j
        /\ \A i \in 1 .. Len(map), j \in 1 .. Len(pool) : map[i].node # pool[j]
      BY <1>0 DEF Distinct
  <2>3. CASE a \in 1 .. Len(map) /\ nodes[a] = map[a].node
    <3>1. CASE b \in 1 .. Len(map) /\ nodes[b] = map[b].node
        BY <1>8, <2>2, <2>3, <3>1
    <3>2. CASE b - Len(map) \in 1 .. Len(pool) /\ nodes[b] = pool[b - Len(map)]
        BY <1>8, <2>2, <2>3, <3>2
    <3> QED
        BY <1>7, <3>1, <3>2
  <2>4. CASE a - Len(map) \in 1 .. Len(pool) /\ nodes[a] = pool[a - Len(map)]
    <3>1. CASE b \in 1 .. Len(map) /\ nodes[b] = map[b].node
        BY <1>8, <2>2, <2>4, <3>1
    <3>2. CASE b - Len(map) \in 1 .. Len(pool) /\ nodes[b] = pool[b - Len(map)]
      <4>1. a - Len(map) = b - Len(map)
          BY <1>8, <2>2, <2>4, <3>2
      <4> QED
          BY <1>1, <2>1, <4>1
    <3> QED
        BY <1>7, <3>1, <3>2
  <2> QED
      BY <1>7, <2>3, <2>4
<1>9. \A a \in DOMAIN nodes : nodes[a] \notin physFree
  <2>1. /\ \A i \in 1 .. Len(map) : map[i].node \in Phys \ physFree
        /\ \A j \in 1 .. Len(pool) : pool[j] \in Phys \ physFree
      BY <1>0 DEF Within
  <2> QED
      BY <1>7, <2>1
<1>10. IsInjective(nodes) /\ Range(nodes) \cap physFree = {}
    BY <1>8, <1>9 DEF IsInjective, Range
<1> QED
    BY <1>3, <1>5, <1>10 DEF NodesDistinct

\* Ranges and zones as sets of addresses.
LEMMA FactsHeap == HeapFacts => HeapInv
<1> SUFFICES ASSUME HeapFacts PROVE HeapInv
    OBVIOUS
<1>0. /\ HeapShape
      /\ ~misreturned => Ranges(map, zones)
      /\ state = "running" /\ ~misreturned => Whole(map, zones)
    BY DEF HeapFacts
<1>1. DOMAIN map = 1 .. Len(map)
    BY <1>0 DEF HeapShape
<1>2. WholePages
    BY <1>0, <1>1 DEF WholePages, Ranges, InHeap, mm_getEntryEndAddress
<1>3. MapOrdered
    BY <1>0, <1>1 DEF MapOrdered, Ranges, Ordered, mm_getEntryEndAddress
<1>4. ASSUME ~misreturned
      PROVE  /\ ZoneMemory \cap Memory(map) = {}
             /\ \A y, z \in zones : y # z => ZonePages(y) \cap ZonePages(z) = {}
  <2>1. /\ \A z \in zones, x \in Int : InZone(z, x) => ~Covers(map, x)
        /\ \A y, z \in zones, x \in Int : InZone(y, x) /\ InZone(z, x) => y = z
      BY <1>0, <1>4 DEF Ranges
  <2>2. \A z \in zones : \A x : x \in ZonePages(z) <=> x \in Int /\ InZone(z, x)
      BY <1>0, ZonePagesIn
  <2>3. \A x : x \in Memory(map) <=> x \in Int /\ Covers(map, x)
      BY <1>0, MemoryCovers
  <2>4. \A x : x \in ZoneMemory <=> \E z \in zones : x \in ZonePages(z)
      BY DEF ZoneMemory
  <2>5. ZoneMemory \cap Memory(map) = {}
      BY <2>1, <2>2, <2>3, <2>4
  <2>6. \A y, z \in zones : y # z => ZonePages(y) \cap ZonePages(z) = {}
      BY <2>1, <2>2
  <2> QED
      BY <2>5, <2>6
<1>5. ASSUME state = "running", ~misreturned PROVE Memory(map) \cup ZoneMemory = Heap
  <2>1. \A x \in Int : Covers(map, x) \/ (\E z \in zones : InZone(z, x))
                       <=> Between(HeapBase, HeapSize, x)
      BY <1>0, <1>5 DEF Whole
  <2>2. \A z \in zones : \A x : x \in ZonePages(z) <=> x \in Int /\ InZone(z, x)
      BY <1>0, ZonePagesIn
  <2>3. \A x : x \in Memory(map) <=> x \in Int /\ Covers(map, x)
      BY <1>0, MemoryCovers
  <2>4. \A x : x \in ZoneMemory <=> \E z \in zones : x \in ZonePages(z)
      BY DEF ZoneMemory
  <2>5. \A x : x \in Heap <=> x \in Int /\ Between(HeapBase, HeapSize, x)
    <3>1. HeapBase \in Nat /\ HeapSize \in Nat
        BY HeapAssumption
    <3> QED
        BY <3>1, ChunkBetween DEF Heap
  <2> QED
      BY <2>1, <2>2, <2>3, <2>4, <2>5
<1>6. NodesDistinct
    BY FactsNodes
<1>7. ZonesDisjoint
    BY <1>4 DEF ZonesDisjoint
<1>8. HeapConserved
    BY <1>5 DEF HeapConserved
<1> QED
    BY <1>0, <1>2, <1>3, <1>6, <1>7, <1>8 DEF HeapInv

\* The type invariant.
LEMMA HeapTypes == HeapInv => TypeOK
<1> SUFFICES ASSUME HeapInv PROVE TypeOK
    OBVIOUS
<1>0. HeapShape
    BY DEF HeapInv
<1>1. map \in Seq(Entry) /\ DOMAIN map = 1 .. Len(map)
    BY <1>0 DEF HeapShape
<1>2. \A i \in 1 .. Len(map) : map[i].node \in Phys /\ map[i].ptr \in Nat /\ map[i].size \in Nat \ {0}
    BY <1>1, EntryFields
<1>3. ASSUME NEW z \in zones PROVE z \in Zone
  <2>1. z.ptr \in Nat /\ z.size \in Nat \ {0} /\ z = [ptr |-> z.ptr, size |-> z.size]
      BY <1>0, ZoneFields
  <2> QED
      BY <2>1 DEF Zone
<1> QED
    BY <1>0, <1>1, <1>2, <1>3 DEF TypeOK, HeapShape

-----------------------------------------------------------------------------

\* For every page size, heap, number of physical pages and bound on a request: the
\* invariant of the kernel's address space holds through every vmm_alloc, vmm_free
\* and refill.
THEOREM HeapInvariant == Spec => []HeapInv
<1> QED
    BY AlwaysFacts, FactsHeap, PTL

\* The map of vmm.c stays well formed and in address order, and with the zones it
\* is the whole heap: no page of address space is lost.
THEOREM MapIsWhole == Spec => []MapInv
<1>1. HeapInv => MapInv
    BY HeapTypes DEF HeapInv, MapInv
<1> QED
    BY <1>1, HeapInvariant, PTL

\* Two zones that vmm_alloc handed out never share a page, and none shares one
\* with the free map.
THEOREM ZonesAreDisjoint == Spec => []ZonesDisjoint
<1>1. HeapInv => ZonesDisjoint
    BY DEF HeapInv
<1> QED
    BY <1>1, HeapInvariant, PTL

\* A list node is in one place, and in no page that pmm_alloc could hand out, even
\* after its address has been returned by vmm_alloc.
THEOREM NodesHaveOneUse == Spec => []NodesDistinct
<1>1. HeapInv => NodesDistinct
    BY DEF HeapInv
<1> QED
    BY <1>1, HeapInvariant, PTL
=============================================================================
