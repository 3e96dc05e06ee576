---------------------------- MODULE MallocProofs ----------------------------
(***************************************************************************)
(* For every page size, heap and set of requests that satisfy the          *)
(* assumptions of module Malloc: the pool stays in order, blocks never     *)
(* overlap each other or the pool, no memory is lost or invented by a      *)
(* split, a merge or a refill, and no physical page is mapped twice.       *)
(***************************************************************************)
EXTENDS Malloc, SequenceTheorems, WellFoundedInduction, TLAPS

-----------------------------------------------------------------------------
(* Whole pages. *)

\* A number whose remainder is 0 is a multiple of the page size.
LEMMA Multiple ==
    ASSUME NEW x \in Nat, x % PageSize = 0
    PROVE  \E k \in Nat : x = k * PageSize
<1>1. x \div PageSize \in Nat
    BY PageSizeAssumption
<1>2. x = (x \div PageSize) * PageSize
    BY PageSizeAssumption
<1> QED
    BY <1>1, <1>2

\* A multiple of the page size leaves remainder 0.
LEMMA MultipleRemainder ==
    ASSUME NEW k \in Nat
    PROVE  (k * PageSize) % PageSize = 0
BY PageSizeAssumption

\* The sum of two whole numbers of pages is one.
LEMMA AlignedSum ==
    ASSUME NEW x \in Nat, NEW y \in Nat, x % PageSize = 0, y % PageSize = 0
    PROVE  (x + y) % PageSize = 0
<1>1. PICK j \in Nat : x = j * PageSize
    BY Multiple
<1>2. PICK k \in Nat : y = k * PageSize
    BY Multiple
<1>3. x + y = (j + k) * PageSize
    BY <1>1, <1>2, PageSizeAssumption
<1> QED
    BY <1>3, MultipleRemainder

\* The difference of two whole numbers of pages is one.
LEMMA AlignedDifference ==
    ASSUME NEW x \in Nat, NEW y \in Nat, y <= x,
           x % PageSize = 0, y % PageSize = 0
    PROVE  (x - y) % PageSize = 0
<1>1. PICK j \in Nat : x = j * PageSize
    BY Multiple
<1>2. PICK k \in Nat : y = k * PageSize
    BY Multiple
<1>3. j - k \in Nat
    BY <1>1, <1>2, PageSizeAssumption
<1>4. x - y = (j - k) * PageSize
    BY <1>1, <1>2, PageSizeAssumption
<1> QED
    BY <1>3, <1>4, MultipleRemainder

\* mm_roundDownPage gives a whole number of pages, at most one page below.
LEMMA RoundDown ==
    ASSUME NEW x \in Nat
    PROVE  /\ mm_roundDownPage(x) \in Nat
           /\ mm_roundDownPage(x) % PageSize = 0
           /\ mm_roundDownPage(x) <= x
           /\ x < mm_roundDownPage(x) + PageSize
<1>1. x % PageSize \in 0 .. (PageSize - 1)
    BY PageSizeAssumption
<1>2. x \div PageSize \in Nat
    BY PageSizeAssumption
<1>3. x - (x % PageSize) = (x \div PageSize) * PageSize
    BY PageSizeAssumption
<1>4. (x - (x % PageSize)) % PageSize = 0
    BY <1>2, <1>3, MultipleRemainder
<1>5. x % PageSize <= x
    BY PageSizeAssumption
<1> QED
    BY <1>1, <1>4, <1>5, PageSizeAssumption DEF mm_roundDownPage

\* mm_roundUpPage gives the next whole number of pages.
LEMMA RoundUp ==
    ASSUME NEW x \in Nat
    PROVE  /\ mm_roundUpPage(x) \in Nat /\ mm_roundUpPage(x) % PageSize = 0
           /\ x <= mm_roundUpPage(x) /\ mm_roundUpPage(x) < x + PageSize
           /\ x % PageSize = 0 => mm_roundUpPage(x) = x
<1>1. PICK d : d = mm_roundDownPage(x)
    OBVIOUS
<1>2. d \in Nat /\ d % PageSize = 0 /\ d <= x /\ x < d + PageSize
    BY <1>1, RoundDown
<1>3. CASE d = x
    BY <1>1, <1>2, <1>3, PageSizeAssumption DEF mm_roundUpPage
<1>4. CASE d # x
  <2>1. mm_roundUpPage(x) = d + PageSize
      BY <1>1, <1>4 DEF mm_roundUpPage
  <2>2. PageSize % PageSize = 0 /\ PageSize \in Nat
      BY PageSizeAssumption
  <2>3. (d + PageSize) % PageSize = 0
      BY <1>2, <2>2, AlignedSum
  <2>4. x % PageSize # 0
    <3>1. d = x - (x % PageSize)
        BY <1>1 DEF mm_roundDownPage
    <3>2. x % PageSize \in Int
        BY PageSizeAssumption
    <3> QED
        BY <1>4, <3>1, <3>2
  <2> QED
      BY <1>2, <1>4, <2>1, <2>3, <2>4, PageSizeAssumption
<1> QED
    BY <1>3, <1>4


-----------------------------------------------------------------------------
(* Lists of ranges. *)

\* A set of numbers that is not empty has a least element.
LEMMA LeastNumber ==
    ASSUME NEW T, T \subseteq Nat, T # {}
    PROVE  \E x \in T : \A y \in T : x <= y
<1> DEFINE R == OpToRel(<, Nat)
<1>1. IsWellFoundedOn(R, Nat)
    BY NatLessThanWellFounded, Zenon
<1>2. \A x, y \in Nat : <<y, x>> \in R <=> y < x
    BY DEF OpToRel
<1> HIDE DEF R
<1>3. PICK x \in T : \A y \in T : ~(<<y, x>> \in R)
    BY <1>1, WFMin
<1>4. ASSUME NEW y \in T PROVE x <= y
  <2>1. x \in Nat /\ y \in Nat
      OBVIOUS
  <2>2. ~(y < x)
      BY <1>2, <1>3, <2>1
  <2> QED
      BY <2>1, <2>2
<1> QED
    BY <1>4

\* What InsertAt returns, index by index.
LEMMA InsertAtIndex ==
    ASSUME NEW S, NEW list \in Seq(S), NEW k \in 1 .. (Len(list) + 1), NEW e \in S
    PROVE  /\ InsertAt(list, k, e) \in Seq(S)
           /\ Len(InsertAt(list, k, e)) = Len(list) + 1
           /\ \A i \in 1 .. (Len(list) + 1) :
                InsertAt(list, k, e)[i] =
                    IF i < k THEN list[i] ELSE IF i = k THEN e ELSE list[i - 1]
<1> DEFINE front == SubSeq(list, 1, k - 1)
           back == SubSeq(list, k, Len(list))
<1>0. Len(list) \in Nat
    BY LenProperties
<1>1. /\ front \in Seq(S) /\ Len(front) = k - 1
      /\ \A i \in 1 .. (k - 1) : front[i] = list[i]
    BY <1>0
<1>2. /\ back \in Seq(S) /\ Len(back) = Len(list) + 1 - k
      /\ \A i \in 1 .. (Len(list) + 1 - k) : back[i] = list[k + i - 1]
    BY <1>0
<1>3. <<e>> \in Seq(S) /\ Len(<<e>>) = 1 /\ <<e>>[1] = e
    OBVIOUS
<1>4. InsertAt(list, k, e) = (front \o <<e>>) \o back
    BY DEF InsertAt
<1> HIDE DEF front, back
<1>5. /\ front \o <<e>> \in Seq(S) /\ Len(front \o <<e>>) = k
      /\ \A i \in 1 .. k : (front \o <<e>>)[i] = IF i < k THEN list[i] ELSE e
    BY <1>0, <1>1, <1>3
<1> DEFINE head == front \o <<e>>
<1>6. head \in Seq(S) /\ back \in Seq(S)
    BY <1>2, <1>5
<1> HIDE DEF head
<1>7. /\ head \o back \in Seq(S)
      /\ Len(head \o back) = Len(head) + Len(back)
      /\ \A i \in 1 .. Len(head) + Len(back) :
            (head \o back)[i] =
                IF i <= Len(head) THEN head[i] ELSE back[i - Len(head)]
    BY <1>6, ConcatProperties
<1>8. Len(head) = k /\ \A i \in 1 .. k : head[i] = IF i < k THEN list[i] ELSE e
    BY <1>5 DEF head
<1>9. \A i \in 1 .. (Len(list) + 1) :
          (head \o back)[i] =
              IF i < k THEN list[i] ELSE IF i = k THEN e ELSE list[i - 1]
  <2> TAKE i \in 1 .. (Len(list) + 1)
  <2>0. i <= k \/ i > k
      BY <1>0
  <2>1. CASE i <= k
      BY <2>1, <1>0, <1>2, <1>7, <1>8
  <2>2. CASE i > k
    <3>1. (head \o back)[i] = back[i - k] /\ i - k \in 1 .. (Len(list) + 1 - k)
        BY <2>2, <1>0, <1>2, <1>7, <1>8
    <3>2. back[i - k] = list[k + (i - k) - 1]
        BY <3>1, <1>2
    <3>3. k + (i - k) - 1 = i - 1
        BY <1>0
    <3> QED
        BY <2>2, <3>1, <3>2, <3>3
  <2> QED
      BY <2>0, <2>1, <2>2
<1>10. InsertAt(list, k, e) = head \o back
    BY <1>4 DEF head
<1> QED
    BY <1>0, <1>2, <1>7, <1>8, <1>9, <1>10

\* What RemoveAt returns, index by index.
LEMMA RemoveAtIndex ==
    ASSUME NEW S, NEW list \in Seq(S), NEW k \in 1 .. Len(list)
    PROVE  /\ RemoveAt(list, k) \in Seq(S)
           /\ Len(RemoveAt(list, k)) = Len(list) - 1
           /\ \A i \in 1 .. (Len(list) - 1) :
                RemoveAt(list, k)[i] = IF i < k THEN list[i] ELSE list[i + 1]
<1> DEFINE front == SubSeq(list, 1, k - 1)
           back == SubSeq(list, k + 1, Len(list))
<1>0. Len(list) \in Nat
    BY LenProperties
<1>1. /\ front \in Seq(S) /\ Len(front) = k - 1
      /\ \A i \in 1 .. (k - 1) : front[i] = list[i]
    BY <1>0
<1>2. /\ back \in Seq(S) /\ Len(back) = Len(list) - k
      /\ \A i \in 1 .. (Len(list) - k) : back[i] = list[k + i]
    BY <1>0
<1>3. RemoveAt(list, k) = front \o back
    BY DEF RemoveAt
<1> HIDE DEF front, back
<1>4. /\ front \o back \in Seq(S)
      /\ Len(front \o back) = Len(front) + Len(back)
      /\ \A i \in 1 .. Len(front) + Len(back) :
            (front \o back)[i] =
                IF i <= Len(front) THEN front[i] ELSE back[i - Len(front)]
    BY <1>1, <1>2, ConcatProperties
<1>5. \A i \in 1 .. (Len(list) - 1) :
          (front \o back)[i] = IF i < k THEN list[i] ELSE list[i + 1]
  <2> TAKE i \in 1 .. (Len(list) - 1)
  <2>0. i < k \/ i >= k
      BY <1>0
  <2>1. CASE i < k
      BY <2>1, <1>0, <1>1, <1>2, <1>4
  <2>2. CASE i >= k
    <3>1. /\ (front \o back)[i] = back[i - (k - 1)]
          /\ i - (k - 1) \in 1 .. (Len(list) - k)
        BY <2>2, <1>0, <1>1, <1>2, <1>4
    <3>2. back[i - (k - 1)] = list[k + (i - (k - 1))]
        BY <3>1, <1>2
    <3>3. k + (i - (k - 1)) = i + 1
        BY <1>0
    <3> QED
        BY <2>2, <3>1, <3>2, <3>3
  <2> QED
      BY <2>0, <2>1, <2>2
<1> QED
    BY <1>0, <1>1, <1>2, <1>3, <1>4, <1>5

\* The first range of a list that is large enough, if there is one.
LEMMA FirstFit ==
    ASSUME NEW list, Len(list) \in Nat, NEW size, NEW I, NEW i,
           I = {j \in 1 .. Len(list) : list[j].size >= size}, i = IF I # {} THEN Min(I) ELSE 0
    PROVE  \/ i = 0 /\ \A j \in 1 .. Len(list) : ~(list[j].size >= size)
           \/ i \in 1 .. Len(list) /\ list[i].size >= size
<1>1. I = {j \in 1 .. Len(list) : list[j].size >= size}
    OBVIOUS
<1>2. i = IF I # {} THEN Min(I) ELSE 0
    OBVIOUS
<1>3. CASE I = {}
    BY <1>1, <1>2, <1>3
<1>4. CASE I # {}
  <2>1. I \subseteq Nat
      BY <1>1
  <2>2. \E x \in I : \A y \in I : x <= y
      BY <1>4, <2>1, LeastNumber
  <2>3. Min(I) \in I
      BY <2>2, Zenon DEF Min
  <2> QED
      BY <1>1, <1>2, <1>4, <2>3
<1> QED
    BY <1>3, <1>4

\* Where a new range goes: in front of the first that does not start below it.
LEMMA FirstAbove ==
    ASSUME NEW list, Len(list) \in Nat, NEW ptr \in Nat, NEW k,
           \A j \in 1 .. Len(list) : list[j].ptr \in Nat,
           NEW I, I = {j \in 1 .. Len(list) : list[j].ptr >= ptr},
           NEW i, i = IF I # {} THEN Min(I) ELSE 0,
           k = IF i = 0 THEN Len(list) + 1 ELSE i
    PROVE  /\ k \in 1 .. Len(list) + 1
           /\ \A j \in 1 .. Len(list) : j < k => list[j].ptr < ptr
           /\ k <= Len(list) => list[k].ptr >= ptr
<1>1. I = {j \in 1 .. Len(list) : list[j].ptr >= ptr}
    OBVIOUS
<1>2. i = IF I # {} THEN Min(I) ELSE 0
    OBVIOUS
<1>3. CASE I = {}
  <2>1. i = 0 /\ k = Len(list) + 1
      BY <1>2, <1>3
  <2>2. ASSUME NEW j \in 1 .. Len(list) PROVE list[j].ptr < ptr
    <3>1. list[j].ptr \in Nat /\ ~(list[j].ptr >= ptr)
        BY <1>1, <1>3
    <3> QED
        BY <3>1
  <2>3. k \in 1 .. Len(list) + 1 /\ ~(k <= Len(list))
      BY <2>1
  <2> QED
      BY <2>2, <2>3, Zenon
<1>4. CASE I # {}
  <2>1. I \subseteq Nat
      BY <1>1
  <2>2. \E x \in I : \A y \in I : x <= y
      BY <1>4, <2>1, LeastNumber
  <2>3. Min(I) \in I /\ \A y \in I : Min(I) <= y
      BY <2>2, Zenon DEF Min
  <2>4. i = Min(I) /\ i \in 1 .. Len(list) /\ list[i].ptr >= ptr /\ k = i
    <3>1. i = Min(I)
        BY ONLY <1>2, <1>4
    <3>2. i \in I
        BY ONLY <2>3, <3>1
    <3>3. i \in 1 .. Len(list) /\ list[i].ptr >= ptr
        BY ONLY <1>1, <3>2
    <3>4. i # 0
        BY <3>3
    <3> QED
        BY <3>1, <3>3, <3>4
  <2>5. ASSUME NEW j \in 1 .. Len(list), j < i PROVE list[j].ptr < ptr
    <3>1. j \notin I
      <4>1. i \in Nat /\ j \in Nat /\ \A y \in I : i <= y
          BY <2>3, <2>4
      <4> QED
          BY ONLY <2>5, <4>1
    <3> QED
        BY <1>1, <3>1
  <2>6. k \in 1 .. Len(list) + 1 /\ (k <= Len(list) => list[k].ptr >= ptr)
    <3>1. i \in 1 .. Len(list) + 1
        BY <2>4
    <3> QED
        BY <2>4, <3>1, Zenon
  <2>7. \A j \in 1 .. Len(list) : j < k => list[j].ptr < ptr
      BY <2>4, <2>5
  <2> QED
      BY <2>6, <2>7
<1> QED
    BY <1>3, <1>4
-----------------------------------------------------------------------------
(* What the operations of mm.c do to a list whose nodes lie in their ranges. *)

\* A range of the pool: its node is stored at its start.
Entry ==
    {e \in [node : Nat, ptr : Nat, size : Nat \ {0}] : e.node = e.ptr /\ e.ptr # Null}

\* The fields of a range of the pool.
LEMMA EntryFields ==
    ASSUME NEW e \in Entry
    PROVE  /\ e.node = e.ptr /\ e.ptr \in Nat /\ e.ptr # Null
           /\ e.size \in Nat /\ e.size > 0
BY DEF Entry

\* A range of the pool whose size changes remains one.
LEMMA EntryResized ==
    ASSUME NEW e \in Entry, NEW size \in Nat \ {0}, NEW new, new = [e EXCEPT !.size = size]
    PROVE  new \in Entry /\ new.node = e.node /\ new.ptr = e.ptr /\ new.size = size
BY DEF Entry

\* mm_alloc fails, unlinks a node of exactly the size, or shortens a larger one.
LEMMA AllocCases ==
    ASSUME NEW list \in Seq(Entry), NEW size \in Nat \ {0}, NEW got, got = mm_alloc(list, size)
    PROVE  /\ got.list \in Seq(Entry)
           /\ \/ /\ got.list = list /\ got.ptr = Null
                 /\ \A j \in 1 .. Len(list) : ~(list[j].size >= size)
              \/ \E i \in 1 .. Len(list) :
                    /\ list[i].size = size /\ got.ptr = list[i].ptr
                    /\ Len(got.list) = Len(list) - 1
                    /\ \A j \in 1 .. Len(list) - 1 :
                        got.list[j] = IF j < i THEN list[j] ELSE list[j + 1]
              \/ \E i \in 1 .. Len(list) :
                    /\ list[i].size > size /\ got.ptr = list[i].ptr + (list[i].size - size)
                    /\ Len(got.list) = Len(list)
                    /\ \A j \in 1 .. Len(list) : j # i => got.list[j] = list[j]
                    /\ got.list[i].ptr = list[i].ptr
                    /\ got.list[i].size = list[i].size - size
<1>1. PICK i : i = SelectInSeq(list, LAMBDA e : e.size >= size)
    OBVIOUS
<1>2. Len(list) \in Nat /\ \A j \in 1 .. Len(list) : list[j] \in Entry
    OBVIOUS
<1>3. \/ i = 0 /\ \A j \in 1 .. Len(list) : ~(list[j].size >= size)
      \/ i \in 1 .. Len(list) /\ list[i].size >= size
  <2>1. PICK I : I = {j \in 1 .. Len(list) : list[j].size >= size}
      OBVIOUS
  <2>2. i = IF I # {} THEN Min(I) ELSE 0
      BY <1>1, <2>1 DEF SelectInSeq
  <2> QED
      BY <1>2, <2>1, <2>2, FirstFit
<1>4. got = IF i = 0
            THEN [list |-> list, ptr |-> Null]
            ELSE IF list[i].size = size
            THEN [list |-> RemoveAt(list, i), ptr |-> list[i].node]
            ELSE [list |-> [list EXCEPT ![i].size = @ - size],
                  ptr |-> mm_getEntryEndAddress(list[i]) - size]
    BY <1>1 DEF mm_alloc
<1>5. CASE i = 0
    BY <1>3, <1>4, <1>5
<1>6. CASE i \in 1 .. Len(list) /\ list[i].size = size
  <2>1. i # 0
      BY <1>2, <1>6
  <2>2. got.list = RemoveAt(list, i) /\ got.ptr = list[i].node
      BY <1>4, <1>6, <2>1
  <2>3. /\ RemoveAt(list, i) \in Seq(Entry) /\ Len(RemoveAt(list, i)) = Len(list) - 1
        /\ \A j \in 1 .. (Len(list) - 1) :
             RemoveAt(list, i)[j] = IF j < i THEN list[j] ELSE list[j + 1]
      BY <1>6, RemoveAtIndex
  <2>4. got.ptr = list[i].ptr
      BY <1>2, <1>6, <2>2, EntryFields
  <2> QED
      BY <1>6, <2>2, <2>3, <2>4
<1>7. CASE i \in 1 .. Len(list) /\ list[i].size >= size /\ list[i].size # size
  <2>0. i # 0
      BY <1>2, <1>7
  <2>1. /\ got.list = [list EXCEPT ![i].size = list[i].size - size]
        /\ got.ptr = mm_getEntryEndAddress(list[i]) - size
      BY <1>4, <1>7, <2>0
  <2>2. /\ list[i] \in Entry /\ list[i].ptr \in Nat
        /\ list[i].size \in Nat /\ list[i].size > 0
      BY <1>2, <1>7, EntryFields
  <2>3. list[i].size > size /\ list[i].size - size \in Nat \ {0}
      BY <1>7, <2>2
  <2>4. PICK new : new = [list[i] EXCEPT !.size = list[i].size - size]
      OBVIOUS
  <2>5. /\ new \in Entry /\ new.ptr = list[i].ptr
        /\ new.size = list[i].size - size
      BY <2>2, <2>3, <2>4, EntryResized
  <2>6. got.list = [list EXCEPT ![i] = new]
      BY <2>1, <2>4
  <2>7. /\ got.list \in Seq(Entry) /\ Len(got.list) = Len(list) /\ got.list[i] = new
        /\ \A j \in 1 .. Len(list) : j # i => got.list[j] = list[j]
      BY <1>7, <2>5, <2>6
  <2>8. got.ptr = list[i].ptr + (list[i].size - size)
      BY <2>1, <2>2 DEF mm_getEntryEndAddress
  <2>9. PICK k \in 1 .. Len(list) : k = i
      BY <1>7
  <2> QED
      BY <2>3, <2>5, <2>7, <2>8, <2>9
<1> QED
    BY <1>3, <1>5, <1>6, <1>7

-----------------------------------------------------------------------------
(* The addresses of the ranges. *)

Ordered(list) ==
    \A i, j \in 1 .. Len(list) : i < j => list[i].ptr + list[i].size <= list[j].ptr

Between(ptr, size, x) == ptr <= x /\ x < ptr + size

\* An address is in one of the ranges of a list.
Covers(list, x) == \E i \in 1 .. Len(list) : Between(list[i].ptr, list[i].size, x)

\* The fields of the ranges of a list.
LEMMA ListFields ==
    ASSUME NEW list \in Seq(Entry)
    PROVE  /\ Len(list) \in Nat
           /\ \A j \in 1 .. Len(list) :
                /\ list[j].node = list[j].ptr /\ list[j].ptr \in Nat /\ list[j].ptr # Null
                /\ list[j].size \in Nat /\ list[j].size > 0
<1>1. Len(list) \in Nat /\ \A j \in 1 .. Len(list) : list[j] \in Entry
    OBVIOUS
<1> QED
    BY <1>1, EntryFields

\* A larger range is shortened at its end.
LEMMA ShortenRange ==
    ASSUME NEW list \in Seq(Entry), Ordered(list),
           NEW size \in Nat \ {0},
           NEW i \in 1 .. Len(list), list[i].size > size,
           NEW ptr, ptr = list[i].ptr + (list[i].size - size),
           NEW new \in Seq(Entry), Len(new) = Len(list),
           \A j \in 1 .. Len(list) : j # i => new[j] = list[j],
           new[i].ptr = list[i].ptr, new[i].size = list[i].size - size
    PROVE  /\ ptr \in Nat /\ ptr # Null /\ Ordered(new)
           /\ \A x \in Int : Between(ptr, size, x) => Covers(list, x)
           /\ \A x \in Int : Covers(new, x) <=> Covers(list, x) /\ ~Between(ptr, size, x)
<1>0. Len(list) \in Nat
    OBVIOUS
<1>1. \A j \in 1 .. Len(list) : list[j].ptr \in Nat /\ list[j].size \in Nat /\ list[j].size > 0
    BY ListFields
<1>2. PICK low, all : low = list[i].ptr /\ all = list[i].size
    OBVIOUS
<1>3. low \in Nat /\ all \in Nat /\ all > size
    BY <1>1, <1>2
<1>5. ptr = low + (all - size) /\ all - size \in Nat /\ all - size > 0
    BY <1>2, <1>3
<1>8. ptr \in Nat /\ ptr # Null /\ ptr + size = low + all /\ low < ptr
  <2>1. size \in Nat
      OBVIOUS
  <2> QED
      BY ONLY <1>3, <1>5, <2>1 DEF Null
<1>10. \A j \in 1 .. Len(list) : new[j].ptr = list[j].ptr
    OBVIOUS
<1>11. new[i].size = all - size /\ \A j \in 1 .. Len(list) : j # i => new[j].size = list[j].size
    BY <1>2
<1>12. Ordered(new)
  <2>1. ASSUME NEW a \in 1 .. Len(list), NEW b \in 1 .. Len(list), a < b
        PROVE  new[a].ptr + new[a].size <= new[b].ptr
    <3>1. list[a].ptr + list[a].size <= list[b].ptr
        BY <2>1 DEF Ordered
    <3>2. new[a].size \in Nat /\ new[a].size <= list[a].size
      <4>1. CASE a = i
          BY <1>2, <1>3, <1>11, <4>1
      <4>2. CASE a # i
          BY <1>1, <1>11, <4>2
      <4> QED
          BY <4>1, <4>2
    <3>3. /\ new[a].ptr = list[a].ptr /\ new[b].ptr = list[b].ptr
          /\ list[a].ptr \in Nat /\ list[b].ptr \in Nat /\ list[a].size \in Nat
        BY <1>1, <1>10
    <3> QED
        BY <3>1, <3>2, <3>3
  <2> QED
      BY <2>1 DEF Ordered
<1>14. ASSUME NEW x \in Int, Between(ptr, size, x) PROVE Covers(list, x)
  <2>1. Between(low, all, x)
      BY <1>3, <1>8, <1>14 DEF Between
  <2> QED
      BY <1>2, <2>1 DEF Covers
<1>15. ASSUME NEW x \in Int, Covers(new, x) PROVE Covers(list, x) /\ ~Between(ptr, size, x)
  <2>1. PICK j \in 1 .. Len(list) : Between(new[j].ptr, new[j].size, x)
      BY <1>15 DEF Covers
  <2>2. CASE j = i
    <3>1. Between(low, all - size, x)
        BY <1>2, <1>10, <1>11, <2>1, <2>2
    <3>2. Between(low, all, x) /\ ~Between(ptr, size, x)
        BY <1>3, <1>5, <3>1 DEF Between
    <3> QED
        BY <1>2, <3>2 DEF Covers
  <2>3. CASE j # i
    <3>1. Between(list[j].ptr, list[j].size, x)
        BY <1>10, <1>11, <2>1, <2>3
    <3>2. /\ list[j].ptr \in Nat /\ list[j].size \in Nat
          /\ \/ list[j].ptr + list[j].size <= low
             \/ low + all <= list[j].ptr
      <4>1. j < i \/ i < j
          BY <1>0, <2>3
      <4> QED
          BY <1>1, <1>2, <4>1 DEF Ordered
    <3>3. ~Between(ptr, size, x)
      <4>1. PICK p, s : p = list[j].ptr /\ s = list[j].size
          OBVIOUS
      <4>2. p \in Nat /\ s \in Nat /\ (p + s <= low \/ low + all <= p) /\ p <= x /\ x < p + s
          BY <3>1, <3>2, <4>1 DEF Between
      <4>3. size \in Nat
          OBVIOUS
      <4> QED
          BY ONLY <1>3, <1>8, <4>2, <4>3, x \in Int DEF Between
    <3> QED
        BY <3>1, <3>3 DEF Covers
  <2> QED
      BY <2>2, <2>3
<1>16. ASSUME NEW x \in Int, Covers(list, x), ~Between(ptr, size, x) PROVE Covers(new, x)
  <2>1. PICK j \in 1 .. Len(list) : Between(list[j].ptr, list[j].size, x)
      BY <1>16 DEF Covers
  <2>2. CASE j = i
    <3>1. Between(low, all, x)
        BY <1>2, <2>1, <2>2
    <3>2. Between(low, all - size, x)
        BY <1>3, <1>5, <1>16, <3>1 DEF Between
    <3> QED
        BY <1>2, <1>10, <1>11, <3>2 DEF Covers
  <2>3. CASE j # i
      BY <2>1, <2>3 DEF Covers
  <2> QED
      BY <2>2, <2>3
<1> QED
    BY <1>8, <1>12, <1>14, <1>15, <1>16

\* A range that is apart from those of a list goes in at the place of its address.
LEMMA InsertRange ==
    ASSUME NEW list \in Seq(Entry), Ordered(list),
           NEW e \in Entry,
           \A x \in Int : Between(e.ptr, e.size, x) => ~Covers(list, x),
           NEW k \in 1 .. Len(list) + 1,
           \A j \in 1 .. Len(list) : j < k => list[j].ptr < e.ptr,
           k <= Len(list) => list[k].ptr >= e.ptr,
           NEW new, new = InsertAt(list, k, e)
    PROVE  /\ new \in Seq(Entry) /\ Len(new) = Len(list) + 1 /\ Ordered(new)
           /\ \A x \in Int : Covers(new, x) <=> Covers(list, x) \/ Between(e.ptr, e.size, x)
<1>0. Len(list) \in Nat
    OBVIOUS
<1>1. \A j \in 1 .. Len(list) : list[j].ptr \in Nat /\ list[j].size \in Nat /\ list[j].size > 0
    BY ListFields
<1>2. e.ptr \in Nat /\ e.size \in Nat /\ e.size > 0
    BY EntryFields
<1>3. /\ new \in Seq(Entry) /\ Len(new) = Len(list) + 1
      /\ \A i \in 1 .. (Len(list) + 1) :
           new[i] = IF i < k THEN list[i] ELSE IF i = k THEN e ELSE list[i - 1]
  <2>1. k \in 1 .. (Len(list) + 1) /\ list \in Seq(Entry) /\ e \in Entry /\ new = InsertAt(list, k, e)
      OBVIOUS
  <2>2. /\ InsertAt(list, k, e) \in Seq(Entry)
        /\ Len(InsertAt(list, k, e)) = Len(list) + 1
        /\ \A i \in 1 .. (Len(list) + 1) :
             InsertAt(list, k, e)[i] =
                 IF i < k THEN list[i] ELSE IF i = k THEN e ELSE list[i - 1]
      BY ONLY <2>1, InsertAtIndex
  <2> QED
      BY ONLY <2>1, <2>2
<1>4. ASSUME NEW j \in 1 .. Len(list), j < k PROVE list[j].ptr + list[j].size <= e.ptr
  <2>1. list[j].ptr < e.ptr
      BY <1>4
  <2>2. CASE list[j].ptr + list[j].size > e.ptr
    <3>1. Between(e.ptr, e.size, e.ptr) /\ Between(list[j].ptr, list[j].size, e.ptr)
        BY <1>1, <1>2, <2>1, <2>2 DEF Between
    <3>2. Covers(list, e.ptr)
        BY <3>1 DEF Covers
    <3> QED
        BY <1>2, <3>1, <3>2
  <2> QED
      BY <1>1, <1>2, <2>2
<1>5. ASSUME NEW j \in 1 .. Len(list), j >= k PROVE e.ptr + e.size <= list[j].ptr
  <2>1. k \in 1 .. Len(list) /\ list[k].ptr >= e.ptr
      BY <1>0, <1>5
  <2>2. list[j].ptr >= e.ptr
    <3>1. CASE j = k
        BY <2>1, <3>1
    <3>2. CASE j > k
      <4>1. list[k].ptr + list[k].size <= list[j].ptr
          BY <2>1, <3>2 DEF Ordered
      <4> QED
          BY <1>1, <1>2, <2>1, <4>1
    <3> QED
        BY <1>0, <1>5, <3>1, <3>2
  <2>3. CASE list[j].ptr < e.ptr + e.size
    <3>1. /\ Between(e.ptr, e.size, list[j].ptr)
          /\ Between(list[j].ptr, list[j].size, list[j].ptr)
        BY <1>1, <1>2, <2>2, <2>3 DEF Between
    <3>2. Covers(list, list[j].ptr) /\ list[j].ptr \in Int
        BY <1>1, <3>1 DEF Covers
    <3> QED
        BY <3>1, <3>2
  <2> QED
      BY <1>1, <1>2, <2>3
<1>6. ASSUME NEW j \in 1 .. Len(new)
      PROVE  \/ j < k /\ j \in 1 .. Len(list) /\ new[j] = list[j]
             \/ j = k /\ new[j] = e
             \/ j > k /\ j - 1 \in 1 .. Len(list) /\ j - 1 >= k /\ new[j] = list[j - 1]
  <2>1. CASE j < k
      BY <1>0, <1>3, <2>1
  <2>2. CASE j = k
      BY <1>3, <2>2
  <2>3. CASE j > k
      BY <1>0, <1>3, <2>3
  <2> QED
      BY <1>0, <1>3, <2>1, <2>2, <2>3
<1>7. ASSUME NEW a \in 1 .. Len(new), NEW b \in 1 .. Len(new), a < b
      PROVE  new[a].ptr + new[a].size <= new[b].ptr
  <2>1. \/ a < k /\ a \in 1 .. Len(list) /\ new[a] = list[a]
        \/ a = k /\ new[a] = e
        \/ a > k /\ a - 1 \in 1 .. Len(list) /\ a - 1 >= k /\ new[a] = list[a - 1]
      BY <1>6
  <2>2. \/ b < k /\ b \in 1 .. Len(list) /\ new[b] = list[b]
        \/ b = k /\ new[b] = e
        \/ b > k /\ b - 1 \in 1 .. Len(list) /\ b - 1 >= k /\ new[b] = list[b - 1]
      BY <1>6
  <2>3. \A i, j \in 1 .. Len(list) : i < j => list[i].ptr + list[i].size <= list[j].ptr
      BY DEF Ordered
  <2>4. CASE a = k
    <3>1. b > k /\ b - 1 \in 1 .. Len(list) /\ b - 1 >= k /\ new[b] = list[b - 1] /\ new[a] = e
        BY <1>0, <1>7, <2>1, <2>2, <2>4
    <3> QED
        BY <1>5, <3>1
  <2>5. CASE b = k
    <3>1. a < k /\ a \in 1 .. Len(list) /\ new[a] = list[a] /\ new[b] = e
        BY <1>0, <1>7, <2>1, <2>2, <2>5
    <3> QED
        BY <1>4, <3>1
  <2>6. CASE a < k /\ b < k
      BY <1>7, <2>1, <2>2, <2>3, <2>6
  <2>7. CASE a < k /\ b > k
    <3>1. /\ a \in 1 .. Len(list) /\ new[a] = list[a]
          /\ b - 1 \in 1 .. Len(list) /\ a < b - 1 /\ new[b] = list[b - 1]
        BY <1>0, <2>1, <2>2, <2>7
    <3> QED
        BY <2>3, <3>1
  <2>8. CASE a > k
    <3>1. /\ a - 1 \in 1 .. Len(list) /\ new[a] = list[a - 1]
          /\ b - 1 \in 1 .. Len(list) /\ a - 1 < b - 1 /\ new[b] = list[b - 1]
        BY <1>0, <1>7, <2>1, <2>2, <2>8
    <3> QED
        BY <2>3, <3>1
  <2> QED
      BY <1>0, <2>1, <2>2, <2>4, <2>5, <2>6, <2>7, <2>8
<1>9. ASSUME NEW x \in Int, Covers(new, x) PROVE Covers(list, x) \/ Between(e.ptr, e.size, x)
  <2>1. PICK j \in 1 .. Len(new) : Between(new[j].ptr, new[j].size, x)
      BY <1>9 DEF Covers
  <2>2. new[j] = e \/ \E i \in 1 .. Len(list) : new[j] = list[i]
      BY <1>6
  <2> QED
      BY <2>1, <2>2 DEF Covers
<1>10. ASSUME NEW x \in Int, Between(e.ptr, e.size, x) PROVE Covers(new, x)
  <2>1. k \in 1 .. Len(new) /\ new[k] = e
      BY <1>0, <1>3
  <2> QED
      BY <1>10, <2>1 DEF Covers
<1>11. ASSUME NEW x \in Int, Covers(list, x) PROVE Covers(new, x)
  <2>1. PICK j \in 1 .. Len(list) : Between(list[j].ptr, list[j].size, x)
      BY <1>11 DEF Covers
  <2>2. CASE j < k
    <3>1. j \in 1 .. Len(new) /\ new[j] = list[j]
        BY <1>0, <1>3, <2>2
    <3> QED
        BY <2>1, <3>1 DEF Covers
  <2>3. CASE j >= k
    <3>1. j + 1 \in 1 .. Len(new) /\ new[j + 1] = list[j]
      <4>1. j + 1 \in 1 .. (Len(list) + 1) /\ ~(j + 1 < k) /\ j + 1 # k /\ (j + 1) - 1 = j
          BY <1>0, <2>3
      <4> QED
          BY <1>3, <4>1
    <3> QED
        BY <2>1, <3>1 DEF Covers
  <2> QED
      BY <1>0, <2>2, <2>3
<1> QED
    BY <1>3, <1>7, <1>9, <1>10, <1>11 DEF Ordered

\* A range that fits exactly is unlinked.
LEMMA RemoveRange ==
    ASSUME NEW list \in Seq(Entry), Ordered(list), NEW i \in 1 .. Len(list),
           NEW new \in Seq(Entry), Len(new) = Len(list) - 1,
           \A j \in 1 .. Len(list) - 1 : new[j] = IF j < i THEN list[j] ELSE list[j + 1]
    PROVE  /\ Ordered(new)
           /\ \A x \in Int : Between(list[i].ptr, list[i].size, x) => Covers(list, x)
           /\ \A x \in Int : Covers(new, x) <=>
                  Covers(list, x) /\ ~Between(list[i].ptr, list[i].size, x)
<1>1. /\ Len(list) \in Nat
      /\ \A j \in 1 .. Len(list) : list[j].ptr \in Nat /\ list[j].size \in Nat /\ list[j].size > 0
    BY ListFields
<1>2. ASSUME NEW j \in 1 .. Len(new)
      PROVE  \/ j < i /\ j \in 1 .. Len(list) /\ new[j] = list[j]
             \/ j >= i /\ j + 1 \in 1 .. Len(list) /\ new[j] = list[j + 1]
  <2>1. CASE j < i
      BY <1>1, <2>1
  <2>2. CASE j >= i
      BY <1>1, <2>2
  <2> QED
      BY <1>1, <2>1, <2>2
<1>3. \A a, b \in 1 .. Len(list) : a < b => list[a].ptr + list[a].size <= list[b].ptr
    BY DEF Ordered
<1>4. ASSUME NEW a \in 1 .. Len(new), NEW b \in 1 .. Len(new), a < b
      PROVE  new[a].ptr + new[a].size <= new[b].ptr
  <2>1. PICK c \in 1 .. Len(list) :
            new[a] = list[c] /\ ((a < i /\ c = a) \/ (a >= i /\ c = a + 1))
    <3>1. \/ a < i /\ a \in 1 .. Len(list) /\ new[a] = list[a]
          \/ a >= i /\ a + 1 \in 1 .. Len(list) /\ new[a] = list[a + 1]
        BY <1>2
    <3>2. CASE a < i /\ a \in 1 .. Len(list) /\ new[a] = list[a]
        BY <3>2
    <3>3. CASE a >= i /\ a + 1 \in 1 .. Len(list) /\ new[a] = list[a + 1]
        BY <3>3
    <3> QED
        BY <3>1, <3>2, <3>3
  <2>2. PICK d \in 1 .. Len(list) :
            new[b] = list[d] /\ ((b < i /\ d = b) \/ (b >= i /\ d = b + 1))
    <3>1. \/ b < i /\ b \in 1 .. Len(list) /\ new[b] = list[b]
          \/ b >= i /\ b + 1 \in 1 .. Len(list) /\ new[b] = list[b + 1]
        BY <1>2
    <3>2. CASE b < i /\ b \in 1 .. Len(list) /\ new[b] = list[b]
        BY <3>2
    <3>3. CASE b >= i /\ b + 1 \in 1 .. Len(list) /\ new[b] = list[b + 1]
        BY <3>3
    <3> QED
        BY <3>1, <3>2, <3>3
  <2>3. c < d
      BY <1>1, <1>4, <2>1, <2>2
  <2> QED
      BY <1>3, <2>1, <2>2, <2>3
<1>5. \A x \in Int : Between(list[i].ptr, list[i].size, x) => Covers(list, x)
    BY DEF Covers
<1>6. ASSUME NEW x \in Int, Covers(new, x)
      PROVE  Covers(list, x) /\ ~Between(list[i].ptr, list[i].size, x)
  <2>1. PICK j \in 1 .. Len(new) : Between(new[j].ptr, new[j].size, x)
      BY <1>6 DEF Covers
  <2>2. PICK c \in 1 .. Len(list) : new[j] = list[c] /\ c # i
    <3>1. \/ j < i /\ j \in 1 .. Len(list) /\ new[j] = list[j]
          \/ j >= i /\ j + 1 \in 1 .. Len(list) /\ new[j] = list[j + 1]
        BY <1>2
    <3> QED
        BY <1>1, <3>1
  <2>3. c < i \/ i < c
      BY <1>1, <2>2
  <2>4. \/ list[c].ptr + list[c].size <= list[i].ptr
        \/ list[i].ptr + list[i].size <= list[c].ptr
      BY <1>3, <2>3
  <2>5. PICK p, s, q, r : p = list[c].ptr /\ s = list[c].size /\ q = list[i].ptr /\ r = list[i].size
      OBVIOUS
  <2>6. p \in Nat /\ s \in Nat /\ q \in Nat /\ r \in Nat /\ Between(p, s, x)
      BY <1>1, <2>1, <2>2, <2>5
  <2>7. ~Between(q, r, x)
    <3>1. p + s <= q \/ q + r <= p
        BY <2>4, <2>5
    <3> QED
        BY ONLY <2>6, <3>1, x \in Int DEF Between
  <2> QED
      BY <2>1, <2>2, <2>5, <2>7 DEF Covers
<1>7. ASSUME NEW x \in Int, Covers(list, x), ~Between(list[i].ptr, list[i].size, x)
      PROVE  Covers(new, x)
  <2>1. PICK j \in 1 .. Len(list) : Between(list[j].ptr, list[j].size, x)
      BY <1>7 DEF Covers
  <2>2. CASE j < i
    <3>1. j \in 1 .. Len(new) /\ new[j] = list[j]
        BY <1>1, <2>2
    <3> QED
        BY <2>1, <3>1 DEF Covers
  <2>3. CASE j > i
    <3>1. j - 1 \in 1 .. Len(new) /\ ~(j - 1 < i) /\ (j - 1) + 1 = j
        BY <1>1, <2>3
    <3>2. new[j - 1] = list[j]
        BY <3>1
    <3> QED
        BY <2>1, <3>1, <3>2 DEF Covers
  <2>4. j # i
      BY <1>7, <2>1
  <2> QED
      BY <1>1, <2>2, <2>3, <2>4
<1> QED
    BY <1>4, <1>5, <1>6, <1>7 DEF Ordered

\* mm_tryMergeNodes keeps the order, and the memory of the list.
LEMMA MergeRange ==
    ASSUME NEW list \in Seq(Entry), Ordered(list), NEW i \in 1 .. Len(list),
           NEW new, new = mm_tryMergeNodes(list, i).list
    PROVE  /\ new \in Seq(Entry) /\ Ordered(new)
           /\ Len(new) \in {Len(list) - 1, Len(list)}
           /\ \A x \in Int : Covers(new, x) <=> Covers(list, x)
<1>1. /\ Len(list) \in Nat
      /\ \A j \in 1 .. Len(list) :
            /\ list[j] \in Entry /\ list[j].node = list[j].ptr
            /\ list[j].ptr \in Nat /\ list[j].size \in Nat /\ list[j].size > 0
    BY ListFields
<1>2. CASE ~(i < Len(list) /\ mm_getEntryEndAddress(list[i]) = list[i + 1].node)
    BY <1>1, <1>2 DEF mm_tryMergeNodes
<1>3. CASE i < Len(list) /\ mm_getEntryEndAddress(list[i]) = list[i + 1].node
  <2>1. i + 1 \in 1 .. Len(list)
      BY <1>1, <1>3
  <2>2. PICK p, s, t : p = list[i].ptr /\ s = list[i].size /\ t = list[i + 1].size
      OBVIOUS
  <2>3. /\ p \in Nat /\ s \in Nat /\ s > 0 /\ t \in Nat /\ t > 0
        /\ list[i + 1].ptr = p + s
      BY <1>1, <1>3, <2>1, <2>2 DEF mm_getEntryEndAddress
  <2>4. PICK one : one = [list[i] EXCEPT !.size = s + t]
      OBVIOUS
  <2>5. one \in Entry /\ one.ptr = p /\ one.size = s + t
    <3>1. s + t \in Nat \ {0} /\ list[i] \in Entry
        BY <1>1, <2>3
    <3> QED
        BY <2>2, <2>4, <3>1, EntryResized
  <2>6. PICK wide : wide = [list EXCEPT ![i] = one]
      OBVIOUS
  <2>7. new = RemoveAt(wide, i + 1)
      BY <1>3, <2>2, <2>4, <2>6 DEF mm_tryMergeNodes
  <2>8. /\ wide \in Seq(Entry) /\ Len(wide) = Len(list) /\ wide[i] = one
        /\ \A j \in 1 .. Len(list) : j # i => wide[j] = list[j]
      BY <2>5, <2>6
  <2>9. /\ new \in Seq(Entry) /\ Len(new) = Len(list) - 1
        /\ \A j \in 1 .. Len(list) - 1 : new[j] = IF j < i + 1 THEN wide[j] ELSE wide[j + 1]
    <3>1. i + 1 \in 1 .. Len(wide)
        BY <2>1, <2>8
    <3>2. /\ RemoveAt(wide, i + 1) \in Seq(Entry)
          /\ Len(RemoveAt(wide, i + 1)) = Len(wide) - 1
          /\ \A j \in 1 .. (Len(wide) - 1) :
                RemoveAt(wide, i + 1)[j] = IF j < i + 1 THEN wide[j] ELSE wide[j + 1]
        BY <2>8, <3>1, RemoveAtIndex
    <3> QED
        BY <2>7, <2>8, <3>2
  <2>10. ASSUME NEW j \in 1 .. Len(new)
         PROVE  \/ j < i /\ j \in 1 .. Len(list) /\ new[j] = list[j]
                \/ j = i /\ new[j] = one
                \/ j > i /\ j + 1 \in 1 .. Len(list) /\ new[j] = list[j + 1]
    <3>1. CASE j < i
        BY <1>1, <2>8, <2>9, <3>1
    <3>2. CASE j = i
        BY <1>1, <2>8, <2>9, <3>2
    <3>3. CASE j > i
      <4>1. ~(j < i + 1) /\ j + 1 \in 1 .. Len(list) /\ j + 1 # i
          BY <1>1, <2>9, <3>3
      <4> QED
          BY <2>8, <2>9, <3>3, <4>1
    <3> QED
        BY <1>1, <2>9, <3>1, <3>2, <3>3
  <2>11. \A a, b \in 1 .. Len(list) : a < b => list[a].ptr + list[a].size <= list[b].ptr
      BY DEF Ordered
  <2>12. ASSUME NEW a \in 1 .. Len(new), NEW b \in 1 .. Len(new), a < b
         PROVE  new[a].ptr + new[a].size <= new[b].ptr
    <3>1. \/ a < i /\ a \in 1 .. Len(list) /\ new[a] = list[a]
          \/ a = i /\ new[a] = one
          \/ a > i /\ a + 1 \in 1 .. Len(list) /\ new[a] = list[a + 1]
        BY <2>10
    <3>2. \/ b < i /\ b \in 1 .. Len(list) /\ new[b] = list[b]
          \/ b = i /\ new[b] = one
          \/ b > i /\ b + 1 \in 1 .. Len(list) /\ new[b] = list[b + 1]
        BY <2>10
    <3>3. CASE a < i /\ b < i
        BY <2>11, <2>12, <3>1, <3>2, <3>3
    <3>4. CASE a < i /\ b = i
      <4>1. a \in 1 .. Len(list) /\ new[a] = list[a] /\ new[b] = one
          BY <1>1, <3>1, <3>2, <3>4
      <4>2. list[a].ptr + list[a].size <= list[i].ptr
          BY <2>11, <3>4, <4>1
      <4> QED
          BY <2>2, <2>5, <4>1, <4>2
    <3>5. CASE a < i /\ b > i
      <4>1. a \in 1 .. Len(list) /\ new[a] = list[a] /\ a < b + 1
            /\ b + 1 \in 1 .. Len(list) /\ new[b] = list[b + 1]
          BY <1>1, <3>1, <3>2, <3>5
      <4> QED
          BY <2>11, <4>1
    <3>6. CASE a = i
      <4>1. /\ new[a] = one /\ b + 1 \in 1 .. Len(list) /\ new[b] = list[b + 1]
            /\ i + 1 < b + 1
          BY <1>1, <2>12, <3>1, <3>2, <3>6
      <4>2. list[i + 1].ptr + list[i + 1].size <= list[b + 1].ptr
          BY <2>1, <2>11, <4>1
      <4>3. (p + s) + t <= list[b + 1].ptr
          BY <2>2, <2>3, <4>2
      <4>4. list[b + 1].ptr \in Nat
          BY <1>1, <4>1
      <4>5. p + (s + t) <= list[b + 1].ptr
          BY <2>3, <4>3, <4>4
      <4> QED
          BY <2>5, <4>1, <4>5
    <3>7. CASE a > i
      <4>1. /\ a + 1 \in 1 .. Len(list) /\ new[a] = list[a + 1] /\ a + 1 < b + 1
            /\ b + 1 \in 1 .. Len(list) /\ new[b] = list[b + 1]
          BY <1>1, <2>12, <3>1, <3>2, <3>7
      <4> QED
          BY <2>11, <4>1
    <3> QED
        BY <1>1, <3>1, <3>2, <3>3, <3>4, <3>5, <3>6, <3>7
  <2>13. \A x \in Int : Between(p, s + t, x) <=> Between(p, s, x) \/ Between(p + s, t, x)
      BY <2>3 DEF Between
  <2>14. ASSUME NEW x \in Int, Covers(new, x) PROVE Covers(list, x)
    <3>1. PICK j \in 1 .. Len(new) : Between(new[j].ptr, new[j].size, x)
        BY <2>14 DEF Covers
    <3>2. CASE j = i
      <4>1. Between(p, s, x) \/ Between(p + s, t, x)
          BY <1>1, <2>5, <2>10, <2>13, <3>1, <3>2
      <4>2. Between(list[i].ptr, list[i].size, x) \/ Between(list[i + 1].ptr, list[i + 1].size, x)
          BY <2>2, <2>3, <4>1
      <4> QED
          BY <2>1, <4>2 DEF Covers
    <3>3. CASE j # i
      <4>1. PICK c \in 1 .. Len(list) : new[j] = list[c]
          BY <2>10, <3>3
      <4> QED
          BY <3>1, <4>1 DEF Covers
    <3> QED
        BY <3>2, <3>3
  <2>15. ASSUME NEW x \in Int, Covers(list, x) PROVE Covers(new, x)
    <3>0. i \in 1 .. Len(new) /\ new[i] = one
      <4>1. i \in 1 .. Len(new) /\ i \in 1 .. Len(list) - 1 /\ i < i + 1
          BY <1>1, <1>3, <2>9
      <4> QED
          BY <2>8, <2>9, <4>1
    <3>1. PICK j \in 1 .. Len(list) : Between(list[j].ptr, list[j].size, x)
        BY <2>15 DEF Covers
    <3>2. CASE j < i
      <4>1. j \in 1 .. Len(list) - 1 /\ j < i + 1 /\ j # i
          BY <1>1, <1>3, <3>2
      <4>2. j \in 1 .. Len(new) /\ new[j] = list[j]
          BY <2>8, <2>9, <4>1
      <4> QED
          BY <3>1, <4>2 DEF Covers
    <3>3. CASE j = i \/ j = i + 1
      <4>1. Between(p, s, x) \/ Between(p + s, t, x)
          BY <2>2, <2>3, <3>1, <3>3
      <4>2. Between(new[i].ptr, new[i].size, x)
          BY <2>5, <2>13, <3>0, <4>1
      <4> QED
          BY <3>0, <4>2 DEF Covers
    <3>4. CASE j > i + 1
      <4>1. j - 1 \in 1 .. Len(list) - 1 /\ ~(j - 1 < i + 1) /\ (j - 1) + 1 = j /\ j # i
          BY <1>1, <3>4
      <4>2. new[j - 1] = wide[j] /\ j - 1 \in 1 .. Len(new)
          BY <2>9, <4>1
      <4>3. new[j - 1] = list[j]
          BY <2>8, <4>1, <4>2
      <4> QED
          BY <3>1, <4>2, <4>3 DEF Covers
    <3> QED
        BY <1>1, <3>2, <3>3, <3>4
  <2> QED
      BY <2>9, <2>12, <2>14, <2>15 DEF Ordered
<1> QED
    BY <1>2, <1>3

\* mm_addNodeToMap keeps the order and adds exactly the new range.
LEMMA AddRange ==
    ASSUME NEW list \in Seq(Entry), Ordered(list), NEW e \in Entry,
           \A x \in Int : Between(e.ptr, e.size, x) => ~Covers(list, x),
           NEW new, new = mm_addNodeToMap(list, e).list
    PROVE  /\ new \in Seq(Entry) /\ Ordered(new)
           /\ \A x \in Int : Covers(new, x) <=> Covers(list, x) \/ Between(e.ptr, e.size, x)
<1>1. PICK above : above = SelectInSeq(list, LAMBDA x : x.ptr >= e.ptr)
    OBVIOUS
<1>2. PICK k : k = IF above = 0 THEN Len(list) + 1 ELSE above
    OBVIOUS
<1>3. Len(list) \in Nat /\ (\A j \in 1 .. Len(list) : list[j].ptr \in Nat) /\ e.ptr \in Nat
    BY ListFields, EntryFields
<1>4. /\ k \in 1 .. Len(list) + 1
      /\ \A j \in 1 .. Len(list) : j < k => list[j].ptr < e.ptr
      /\ k <= Len(list) => list[k].ptr >= e.ptr
  <2>1. PICK I : I = {j \in 1 .. Len(list) : list[j].ptr >= e.ptr}
      OBVIOUS
  <2>2. above = IF I # {} THEN Min(I) ELSE 0
      BY <1>1, <2>1 DEF SelectInSeq
  <2>3. PICK ptr : ptr = e.ptr
      OBVIOUS
  <2>4. /\ ptr \in Nat /\ I = {j \in 1 .. Len(list) : list[j].ptr >= ptr}
      BY <1>3, <2>1, <2>3
  <2>5. /\ k \in 1 .. Len(list) + 1
        /\ \A j \in 1 .. Len(list) : j < k => list[j].ptr < ptr
        /\ k <= Len(list) => list[k].ptr >= ptr
      BY ONLY <1>2, <1>3, <2>2, <2>4, FirstAbove
  <2> QED
      BY <2>3, <2>5
<1>5. PICK linked : linked = InsertAt(list, k, e)
    OBVIOUS
<1>6. /\ linked \in Seq(Entry) /\ Len(linked) = Len(list) + 1 /\ Ordered(linked)
      /\ \A x \in Int : Covers(linked, x) <=> Covers(list, x) \/ Between(e.ptr, e.size, x)
    BY <1>4, <1>5, InsertRange
<1>7. PICK next : next = mm_tryMergeNodes(linked, k).list
    OBVIOUS
<1>8. /\ next \in Seq(Entry) /\ Ordered(next) /\ Len(next) \in {Len(linked) - 1, Len(linked)}
      /\ \A x \in Int : Covers(next, x) <=> Covers(linked, x)
  <2>1. k \in 1 .. Len(linked)
      BY <1>4, <1>6
  <2> QED
      BY <1>6, <1>7, <2>1, MergeRange
<1>9. new = IF k > 1 THEN mm_tryMergeNodes(next, k - 1).list ELSE next
    BY <1>1, <1>2, <1>5, <1>7 DEF mm_addNodeToMap
<1>10. CASE k > 1
  <2>1. k - 1 \in 1 .. Len(next)
      BY <1>3, <1>4, <1>6, <1>8, <1>10
  <2>2. new = mm_tryMergeNodes(next, k - 1).list
      BY <1>9, <1>10
  <2>3. PICK m : m = k - 1
      OBVIOUS
  <2>4. /\ new \in Seq(Entry) /\ Ordered(new)
        /\ \A x \in Int : Covers(new, x) <=> Covers(next, x)
      BY <1>8, <2>1, <2>2, <2>3, MergeRange
  <2> QED
      BY <1>6, <1>8, <2>4
<1>11. CASE ~(k > 1)
    BY <1>6, <1>8, <1>9, <1>11
<1> QED
    BY <1>10, <1>11

\* mm_alloc takes exactly the range that it returns out of the list, or finds
\* no range that is large enough.
LEMMA AllocRange ==
    ASSUME NEW list \in Seq(Entry), Ordered(list), NEW size \in Nat \ {0},
           NEW got, got = mm_alloc(list, size)
    PROVE  /\ got.list \in Seq(Entry) /\ Ordered(got.list)
           /\ \/ got.ptr = Null /\ \A j \in 1 .. Len(list) : ~(list[j].size >= size)
              \/ /\ got.ptr \in Nat /\ got.ptr # Null
                 /\ \A x \in Int : Between(got.ptr, size, x) => Covers(list, x)
                 /\ \A x \in Int : Covers(got.list, x) <=>
                        Covers(list, x) /\ ~Between(got.ptr, size, x)
<1>1. got.list \in Seq(Entry)
    BY AllocCases
<1>2. CASE /\ got.list = list /\ got.ptr = Null
           /\ \A j \in 1 .. Len(list) : ~(list[j].size >= size)
    BY <1>2
<1>3. ASSUME NEW i \in 1 .. Len(list), list[i].size = size, got.ptr = list[i].ptr,
             Len(got.list) = Len(list) - 1,
             \A j \in 1 .. Len(list) - 1 :
                got.list[j] = IF j < i THEN list[j] ELSE list[j + 1]
      PROVE  /\ got.ptr \in Nat /\ got.ptr # Null /\ Ordered(got.list)
             /\ \A x \in Int : Between(got.ptr, size, x) => Covers(list, x)
             /\ \A x \in Int : Covers(got.list, x) <=>
                    Covers(list, x) /\ ~Between(got.ptr, size, x)
  <2>1. PICK new : new = got.list
      OBVIOUS
  <2>2. /\ new \in Seq(Entry) /\ Len(new) = Len(list) - 1
        /\ \A j \in 1 .. Len(list) - 1 : new[j] = IF j < i THEN list[j] ELSE list[j + 1]
      BY <1>1, <1>3, <2>1
  <2>3. /\ Ordered(new)
        /\ \A x \in Int : Between(list[i].ptr, list[i].size, x) => Covers(list, x)
        /\ \A x \in Int : Covers(new, x) <=>
               Covers(list, x) /\ ~Between(list[i].ptr, list[i].size, x)
      BY <2>2, RemoveRange
  <2>4. list[i].ptr \in Nat /\ list[i].ptr # Null
      BY ListFields
  <2> QED
      BY <1>3, <2>1, <2>3, <2>4
<1>4. ASSUME NEW i \in 1 .. Len(list), list[i].size > size,
             got.ptr = list[i].ptr + (list[i].size - size),
             Len(got.list) = Len(list),
             \A j \in 1 .. Len(list) : j # i => got.list[j] = list[j],
             got.list[i].ptr = list[i].ptr,
             got.list[i].size = list[i].size - size
      PROVE  /\ got.ptr \in Nat /\ got.ptr # Null /\ Ordered(got.list)
             /\ \A x \in Int : Between(got.ptr, size, x) => Covers(list, x)
             /\ \A x \in Int : Covers(got.list, x) <=>
                    Covers(list, x) /\ ~Between(got.ptr, size, x)
  <2>1. PICK new, ptr : new = got.list /\ ptr = got.ptr
      OBVIOUS
  <2>2. /\ new \in Seq(Entry) /\ Len(new) = Len(list)
        /\ ptr = list[i].ptr + (list[i].size - size)
        /\ \A j \in 1 .. Len(list) : j # i => new[j] = list[j]
        /\ new[i].ptr = list[i].ptr /\ new[i].size = list[i].size - size
      BY <1>1, <1>4, <2>1
  <2>3. /\ ptr \in Nat /\ ptr # Null /\ Ordered(new)
        /\ \A x \in Int : Between(ptr, size, x) => Covers(list, x)
        /\ \A x \in Int : Covers(new, x) <=> Covers(list, x) /\ ~Between(ptr, size, x)
      BY <1>4, <2>2, ShortenRange
  <2> QED
      BY <2>1, <2>3
<1>5. \/ /\ got.list = list /\ got.ptr = Null
         /\ \A j \in 1 .. Len(list) : ~(list[j].size >= size)
      \/ \E i \in 1 .. Len(list) :
            /\ list[i].size = size /\ got.ptr = list[i].ptr
            /\ Len(got.list) = Len(list) - 1
            /\ \A j \in 1 .. Len(list) - 1 :
                  got.list[j] = IF j < i THEN list[j] ELSE list[j + 1]
      \/ \E i \in 1 .. Len(list) :
            /\ list[i].size > size /\ got.ptr = list[i].ptr + (list[i].size - size)
            /\ Len(got.list) = Len(list)
            /\ \A j \in 1 .. Len(list) : j # i => got.list[j] = list[j]
            /\ got.list[i].ptr = list[i].ptr
            /\ got.list[i].size = list[i].size - size
    BY AllocCases
<1>6. CASE \E i \in 1 .. Len(list) :
            /\ list[i].size = size /\ got.ptr = list[i].ptr
            /\ Len(got.list) = Len(list) - 1
            /\ \A j \in 1 .. Len(list) - 1 :
                  got.list[j] = IF j < i THEN list[j] ELSE list[j + 1]
    BY <1>1, <1>3, <1>6
<1>7. CASE \E i \in 1 .. Len(list) :
            /\ list[i].size > size /\ got.ptr = list[i].ptr + (list[i].size - size)
            /\ Len(got.list) = Len(list)
            /\ \A j \in 1 .. Len(list) : j # i => got.list[j] = list[j]
            /\ got.list[i].ptr = list[i].ptr
            /\ got.list[i].size = list[i].size - size
    BY <1>1, <1>4, <1>7
<1> QED
    BY <1>2, <1>5, <1>6, <1>7

-----------------------------------------------------------------------------
(* The halving of the chunks of a refill. *)

\* The chunks that remain fit exactly: whole pages, a whole number of chunks.
Exact(pages, got, block) ==
    /\ block > 0 /\ block % PageSize = 0 /\ got <= pages
    /\ \E n \in Nat : pages - got = n * block

\* No half of such a chunk is a whole number of pages again.
Skew(block) ==
    \/ block < PageSize
    \/ \E j, q, e \in Nat \ {0} :
          /\ block = j * q /\ q * e = PageSize
          /\ j % 2 = 1 /\ j < PageSize /\ e % 2 = 0

\* An odd number of pages was halved: the chunk ends more than a page before the
\* end of the range.
Skewed(pages, got, block) ==
    /\ got % PageSize = 0 /\ got + block + PageSize <= pages /\ Skew(block)

\* Such a chunk was mapped: the next one is not at a page boundary.
Cut(pages, got) == got % PageSize # 0 /\ got + PageSize <= pages

\* A factor of a product is not larger than it.
LEMMA FactorBound ==
    ASSUME NEW d \in Nat \ {0}, NEW e \in Nat \ {0}
    PROVE  d <= d * e /\ e <= d * e
<1>1. d \in Nat /\ e \in Nat /\ e - 1 \in Nat /\ d - 1 \in Nat
    OBVIOUS
<1>2. d * e = d + d * (e - 1) /\ d * e = e + e * (d - 1)
    OBVIOUS
<1>3. d * (e - 1) \in Nat /\ e * (d - 1) \in Nat
    BY <1>1
<1>4. d * e \in Nat
    BY <1>1
<1> QED
    BY <1>1, <1>2, <1>3, <1>4

\* A factor of the page size is 1 or even.
LEMMA PageFactor ==
    ASSUME NEW d \in Nat \ {0}, NEW e \in Nat \ {0}, d * e = PageSize
    PROVE  d = 1 \/ d % 2 = 0
<1>1. d \in 1 .. PageSize /\ e \in 1 .. PageSize
    BY FactorBound, PageSizeAssumption
<1> QED
    BY <1>1, HalvingAssumption

\* The halves of an even and of an odd number.
LEMMA Halves ==
    ASSUME NEW x \in Nat
    PROVE  \/ \E h \in Nat : x = 2 * h /\ x \div 2 = h /\ x % 2 = 0
           \/ \E h \in Nat : x = 2 * h + 1 /\ x \div 2 = h /\ x % 2 = 1
OBVIOUS

\* Half of twice a number.
LEMMA HalfOfDouble ==
    ASSUME NEW x \in Nat
    PROVE  (2 * x) \div 2 = x /\ (2 * x) % 2 = 0
OBVIOUS

\* A skewed chunk that is not empty is no whole number of pages.
LEMMA SkewUnaligned ==
    ASSUME NEW block \in Nat \ {0}, Skew(block)
    PROVE  block % PageSize # 0
<1>1. CASE block < PageSize
    BY <1>1, PageSizeAssumption
<1>2. ASSUME NEW j \in Nat \ {0}, NEW q \in Nat \ {0}, NEW e \in Nat \ {0},
             block = j * q, q * e = PageSize, j % 2 = 1, e % 2 = 0, block % PageSize = 0
      PROVE  FALSE
  <2>1. PICK m \in Nat : block = m * PageSize
      BY <1>2, Multiple
  <2>2. PICK h \in Nat : e = 2 * h
      BY <1>2, Halves
  <2>3. j * q = (m * e) * q
    <3>1. m * (q * e) = (m * e) * q
        OBVIOUS
    <3> QED
        BY <1>2, <2>1, <3>1
  <2>4. j = m * e
    <3>1. m * e \in Nat /\ j \in Nat /\ q \in Nat /\ q > 0
        OBVIOUS
    <3>2. PICK y : y = m * e
        OBVIOUS
    <3>3. y \in Nat /\ j * q = y * q
        BY <2>3, <3>1, <3>2
    <3>4. (j - y) * q = 0
        BY <3>1, <3>3
    <3>5. j - y = 0
        BY <3>1, <3>3, <3>4
    <3> QED
        BY <3>1, <3>2, <3>5
  <2>5. j = 2 * (m * h) /\ m * h \in Nat
      BY <2>2, <2>4
  <2>6. j % 2 = 0
      BY <2>5, HalfOfDouble
  <2> QED
      BY <1>2, <2>6
<1> QED
    BY <1>1, <1>2 DEF Skew

\* Half of a skewed chunk is skewed.
LEMMA SkewHalved ==
    ASSUME NEW block \in Nat, Skew(block)
    PROVE  Skew(block \div 2)
<1>1. CASE block < PageSize
  <2>1. block \div 2 <= block /\ block \div 2 \in Nat
      OBVIOUS
  <2> QED
      BY <1>1, <2>1, PageSizeAssumption DEF Skew
<1>2. ASSUME NEW j \in Nat \ {0}, NEW q \in Nat \ {0}, NEW e \in Nat \ {0},
             block = j * q, q * e = PageSize, j % 2 = 1, j < PageSize, e % 2 = 0
      PROVE  Skew(block \div 2)
  <2>1. CASE q = 1
    <3>1. block = j
        BY <1>2, <2>1
    <3>2. block \div 2 <= j /\ block \div 2 \in Nat
        BY <3>1
    <3> QED
        BY <1>2, <3>2, PageSizeAssumption DEF Skew
  <2>2. CASE q % 2 = 0
    <3>1. PICK h \in Nat : q = 2 * h
        BY <2>2, Halves
    <3>2. h \in Nat \ {0}
        BY <3>1
    <3>3. block = 2 * (j * h) /\ j * h \in Nat
        BY <1>2, <3>1
    <3>4. block \div 2 = j * h
        BY <3>3, HalfOfDouble
    <3>5. h * (2 * e) = PageSize /\ 2 * e \in Nat \ {0} /\ (2 * e) % 2 = 0
      <4>1. h * (2 * e) = (2 * h) * e
          OBVIOUS
      <4>2. 2 * e \in Nat \ {0} /\ (2 * e) % 2 = 0
          BY HalfOfDouble
      <4> QED
          BY <1>2, <3>1, <4>1, <4>2
    <3> QED
        BY <1>2, <3>2, <3>4, <3>5 DEF Skew
  <2> QED
      BY <1>2, <2>1, <2>2, PageFactor
<1> QED
    BY <1>1, <1>2 DEF Skew

\* While chunks fit exactly and memory is still missing, the next one does not
\* go beyond the range, and starts at a page boundary.
LEMMA ExactNext ==
    ASSUME NEW pages \in Nat, pages % PageSize = 0, NEW got \in Nat, NEW block \in Nat,
           Exact(pages, got, block), got < pages
    PROVE  /\ got % PageSize = 0 /\ got + block <= pages
           /\ Exact(pages, got + block, block)
<1>1. PICK n \in Nat : pages - got = n * block
    BY DEF Exact
<1>2. block > 0 /\ block % PageSize = 0
    BY DEF Exact
<1>3. n # 0
    BY <1>1
<1>4. n - 1 \in Nat /\ n * block = block + (n - 1) * block /\ (n - 1) * block \in Nat
    BY <1>3
<1>5. got + block <= pages /\ pages - (got + block) = (n - 1) * block
    BY <1>1, <1>4
<1>6. (n * block) % PageSize = 0
  <2>1. PICK j \in Nat : block = j * PageSize
      BY <1>2, Multiple
  <2>2. n * block = (n * j) * PageSize /\ n * j \in Nat
      BY <2>1, PageSizeAssumption
  <2> QED
      BY <2>2, MultipleRemainder
<1>7. got % PageSize = 0
  <2>1. n * block \in Nat /\ n * block <= pages /\ got = pages - n * block
      BY <1>1
  <2>2. PICK y : y = n * block
      OBVIOUS
  <2>3. y \in Nat /\ y <= pages /\ y % PageSize = 0 /\ got = pages - y
      BY <1>6, <2>1, <2>2
  <2>4. (pages - y) % PageSize = 0
      BY <2>3, AlignedDifference
  <2> QED
      BY <2>3, <2>4
<1> QED
    BY <1>2, <1>4, <1>5, <1>7 DEF Exact

\* Half of a chunk that fits exactly fits exactly, or is skewed.
LEMMA ExactHalved ==
    ASSUME NEW pages \in Nat, pages % PageSize = 0, pages <= PageSize * PageSize,
           NEW got \in Nat, NEW block \in Nat,
           Exact(pages, got, block), got < pages, block # PageSize
    PROVE  Exact(pages, got, block \div 2) \/ Skewed(pages, got, block \div 2)
<1>1. got % PageSize = 0 /\ got + block <= pages
    BY ExactNext
<1>2. block > 0 /\ block % PageSize = 0
    BY DEF Exact
<1>3. PICK n \in Nat : pages - got = n * block
    BY DEF Exact
<1>4. PICK j \in Nat : block = j * PageSize
    BY <1>2, Multiple
<1>5. PageSize \in Nat /\ PageSize > 0
    BY PageSizeAssumption
<1>6. j # 0 /\ j # 1
    BY <1>2, <1>4, <1>5
<1>7. CASE j % 2 = 0
  <2>1. PICK h \in Nat : j = 2 * h
      BY <1>7, Halves
  <2>2. block = 2 * (h * PageSize) /\ h * PageSize \in Nat
      BY <1>4, <1>5, <2>1
  <2>3. block \div 2 = h * PageSize
      BY <2>2, HalfOfDouble
  <2>4. h * PageSize > 0
      BY <1>2, <2>2
  <2>5. (h * PageSize) % PageSize = 0
      BY MultipleRemainder
  <2>6. pages - got = (2 * n) * (h * PageSize)
    <3>1. n * (2 * (h * PageSize)) = (2 * n) * (h * PageSize)
        BY <1>5
    <3> QED
        BY <1>3, <2>2, <3>1
  <2>7. 2 * n \in Nat /\ got <= pages
      OBVIOUS
  <2> QED
      BY <2>3, <2>4, <2>5, <2>6, <2>7 DEF Exact
<1>8. CASE j % 2 = 1
  <2>0. j \in Nat \ {0} /\ j >= 3
    <3>1. j # 2
        BY <1>8
    <3> QED
        BY <1>6, <3>1
  <2>1. j <= PageSize
    <3>1. j * PageSize <= PageSize * PageSize
        BY <1>1, <1>4, <1>5
    <3>2. CASE j > PageSize
      <4>1. j - PageSize \in Nat /\ j - PageSize > 0
          BY <1>5, <3>2
      <4>2. j * PageSize = PageSize * PageSize + (j - PageSize) * PageSize
          BY <1>5
      <4>3. (j - PageSize) * PageSize > 0
          BY <1>5, <4>1
      <4>4. (j - PageSize) * PageSize \in Nat /\ PageSize * PageSize \in Nat
          BY <1>5, <4>1
      <4> QED
          BY <3>1, <4>2, <4>3, <4>4
    <3> QED
        BY <1>5, <3>2
  <2>2. PageSize % 2 = 0
    <3>1. PageSize \in Nat \ {0} /\ 1 \in Nat \ {0} /\ PageSize * 1 = PageSize
        BY <1>5
    <3>2. PageSize = 1 \/ PageSize % 2 = 0
        BY ONLY <3>1, PageFactor
    <3> QED
        BY <1>5, <2>0, <2>1, <3>2
  <2>3. j < PageSize
      BY <1>5, <1>8, <2>1, <2>2
  <2>4. PICK q \in Nat : PageSize = 2 * q
      BY <1>5, <2>2, Halves
  <2>5. q \in Nat \ {0} /\ q * 2 = PageSize /\ 2 \in Nat \ {0} /\ 2 % 2 = 0
      BY <1>5, <2>4
  <2>6. block = 2 * (j * q) /\ j * q \in Nat
      BY <1>4, <2>4
  <2>7. block \div 2 = j * q
      BY <2>6, HalfOfDouble
  <2>8. Skew(block \div 2)
      BY <1>8, <2>0, <2>3, <2>5, <2>7 DEF Skew
  <2>9. got + (j * q) + PageSize <= pages
    <3>1. j * q = 3 * q + (j - 3) * q /\ j - 3 \in Nat
        BY <2>0
    <3>2. (j - 3) * q \in Nat
        BY <3>1
    <3>3. j * q >= 3 * q
        BY <2>6, <3>1, <3>2
    <3>4. got + 2 * (j * q) <= pages
        BY <1>1, <2>6
    <3>5. PICK y : y = j * q
        OBVIOUS
    <3>6. y \in Nat /\ y >= 3 * q /\ got + 2 * y <= pages
        BY <2>6, <3>3, <3>4, <3>5
    <3>7. got + y + 2 * q <= pages
        BY <3>6
    <3> QED
        BY <2>4, <3>5, <3>7
  <2> QED
      BY <1>1, <2>7, <2>8, <2>9 DEF Skewed
<1> QED
    BY <1>7, <1>8, Halves

\* When the range has all the memory that was asked for, it is full.
LEMMA ExactEnds ==
    ASSUME NEW pages \in Nat, pages % PageSize = 0, NEW got \in Nat, NEW block \in Nat,
           Exact(pages, got, block), pages < got + PageSize
    PROVE  got = pages
<1>1. CASE got < pages
  <2>1. got + block <= pages /\ block > 0 /\ block % PageSize = 0
      BY <1>1, ExactNext DEF Exact
  <2>2. PICK j \in Nat : block = j * PageSize
      BY <2>1, Multiple
  <2>3. j \in Nat \ {0} /\ PageSize \in Nat \ {0}
      BY <2>1, <2>2, PageSizeAssumption
  <2>4. PageSize <= block
      BY <2>2, <2>3, FactorBound
  <2> QED
      BY <2>1, <2>3, <2>4
<1>2. got <= pages
    BY DEF Exact
<1> QED
    BY <1>1, <1>2

-----------------------------------------------------------------------------
(* The pool and the blocks together. *)

\* The size of a block is a whole number of words and has room for its header
\* and for what was asked for.
LEMMA BlockRoom ==
    ASSUME NEW asked \in Requests, NEW size, size = BlockSize(asked)
    PROVE  asked \in Nat /\ size \in Nat \ {0} /\ HeaderSize + asked <= size
<1>1. asked \in Nat /\ WordSize \in Nat /\ WordSize > 0
    BY MallocAssumption
<1>2. PICK n : n = IF asked + HeaderSize < NodeSize THEN NodeSize ELSE asked + HeaderSize
    OBVIOUS
<1>3. n \in Nat /\ n >= asked + WordSize
    BY <1>1, <1>2 DEF HeaderSize, NodeSize
<1>4. size = ((n + (WordSize - 1)) \div WordSize) * WordSize
    BY <1>2 DEF BlockSize, RoundUpWord
<1>5. PICK y, k, r : y = n + (WordSize - 1) /\ k = y \div WordSize /\ r = y % WordSize
    OBVIOUS
<1>6. y \in Nat /\ k \in Nat /\ r \in 0 .. (WordSize - 1) /\ y = k * WordSize + r
    BY <1>1, <1>3, <1>5
<1>7. k * WordSize \in Nat /\ k * WordSize >= n
    BY <1>1, <1>3, <1>5, <1>6
<1> QED
    BY <1>1, <1>3, <1>4, <1>5, <1>7 DEF HeaderSize

\* A block in use.
InHand(b) ==
    /\ b.ptr \in Nat /\ b.ptr # Null
    /\ b.asked \in Requests /\ b.size = BlockSize(b.asked)

\* The blocks share no address with each other or with the pool.
Apart(list, bs) ==
    /\ \A b, c \in bs : b # c =>
          \A x \in Int : ~(Between(b.ptr, b.size, x) /\ Between(c.ptr, c.size, x))
    /\ \A b \in bs, x \in Int : Between(b.ptr, b.size, x) => ~Covers(list, x)

Arena(list, bs) ==
    /\ list \in Seq(Entry) /\ Ordered(list)
    /\ \A b \in bs : InHand(b)
    /\ Apart(list, bs)

\* An address belongs to the pool or to a block.
InUse(list, bs, x) == Covers(list, x) \/ \E b \in bs : Between(b.ptr, b.size, x)

\* One of the ranges of a list is long enough.
HasRoom(list, size) == \E j \in 1 .. Len(list) : list[j].size >= size

\* A list with a range in front.
PutFront(list, base, size) == <<[node |-> base, ptr |-> base, size |-> size]>> \o list

\* Nothing is in use below an address.
AllAbove(list, bs, top) == \A x \in Int : InUse(list, bs, x) => top <= x

\* Taking a block moves a range from the pool to the blocks.
LEMMA TakeArena ==
    ASSUME NEW list, NEW bs, Arena(list, bs), NEW asked \in Requests,
           NEW got, got = mm_alloc(list, BlockSize(asked)),
           got.ptr # Null \/ HasRoom(list, BlockSize(asked)),
           NEW new,
           new = bs \cup {[ptr |-> got.ptr, size |-> BlockSize(asked), asked |-> asked]}
    PROVE  /\ Arena(got.list, new)
           /\ \A x \in Int : InUse(got.list, new, x) <=> InUse(list, bs, x)
<1>1. list \in Seq(Entry) /\ Ordered(list) /\ (\A b \in bs : InHand(b)) /\ Apart(list, bs)
    BY DEF Arena
<1>2. PICK size, ptr, rest, one :
          /\ size = BlockSize(asked) /\ ptr = got.ptr /\ rest = got.list
          /\ one = [ptr |-> ptr, size |-> size, asked |-> asked]
    OBVIOUS
<1>3. size \in Nat \ {0}
    BY <1>2, BlockRoom
<1>4. got = mm_alloc(list, size)
    BY <1>2
<1>5. /\ rest \in Seq(Entry) /\ Ordered(rest)
      /\ \/ ptr = Null /\ \A j \in 1 .. Len(list) : ~(list[j].size >= size)
         \/ /\ ptr \in Nat /\ ptr # Null
            /\ \A x \in Int : Between(ptr, size, x) => Covers(list, x)
            /\ \A x \in Int : Covers(rest, x) <=> Covers(list, x) /\ ~Between(ptr, size, x)
    BY <1>1, <1>2, <1>3, <1>4, AllocRange
<1>6. /\ ptr \in Nat /\ ptr # Null
      /\ \A x \in Int : Between(ptr, size, x) => Covers(list, x)
      /\ \A x \in Int : Covers(rest, x) <=> Covers(list, x) /\ ~Between(ptr, size, x)
    BY <1>2, <1>5 DEF HasRoom
<1>7. one.ptr = ptr /\ one.size = size /\ one.asked = asked /\ new = bs \cup {one}
    BY <1>2
<1>8. InHand(one)
    BY <1>2, <1>6, <1>7 DEF InHand
<1>9. \A b \in bs, x \in Int : Between(b.ptr, b.size, x) => ~Covers(list, x)
    BY <1>1 DEF Apart
<1>10. \A b \in bs, x \in Int : ~(Between(b.ptr, b.size, x) /\ Between(ptr, size, x))
    BY <1>6, <1>9
<1>11. \A b, c \in bs : b # c =>
          \A x \in Int : ~(Between(b.ptr, b.size, x) /\ Between(c.ptr, c.size, x))
    BY <1>1 DEF Apart
<1>12. Apart(rest, new)
  <2>1. ASSUME NEW b \in new, NEW c \in new, b # c, NEW x \in Int
        PROVE  ~(Between(b.ptr, b.size, x) /\ Between(c.ptr, c.size, x))
    <3>1. CASE b \in bs /\ c \in bs
        BY <1>11, <2>1, <3>1
    <3>2. CASE b \in bs /\ c = one
        BY <1>7, <1>10, <3>2
    <3>3. CASE c \in bs /\ b = one
        BY <1>7, <1>10, <3>3
    <3> QED
        BY <1>7, <2>1, <3>1, <3>2, <3>3
  <2>2. ASSUME NEW b \in new, NEW x \in Int, Between(b.ptr, b.size, x)
        PROVE  ~Covers(rest, x)
    <3>1. CASE b \in bs
        BY <1>6, <1>9, <2>2, <3>1
    <3>2. CASE b = one
        BY <1>6, <1>7, <2>2, <3>2
    <3> QED
        BY <1>7, <3>1, <3>2
  <2> QED
      BY <2>1, <2>2 DEF Apart
<1>13. Arena(rest, new)
    BY <1>1, <1>5, <1>7, <1>8, <1>12 DEF Arena
<1>14. ASSUME NEW x \in Int PROVE InUse(rest, new, x) <=> InUse(list, bs, x)
  <2>1. (\E b \in new : Between(b.ptr, b.size, x)) <=>
            Between(ptr, size, x) \/ \E b \in bs : Between(b.ptr, b.size, x)
      BY <1>7
  <2> QED
      BY <1>6, <2>1 DEF InUse
<1> QED
    BY <1>2, <1>13, <1>14

\* Freeing a block moves its range to the pool.
LEMMA FreeArena ==
    ASSUME NEW list, NEW bs, Arena(list, bs), NEW b \in bs, NEW new,
           new = mm_addNodeToMap(list, [node |-> b.ptr, ptr |-> b.ptr, size |-> b.size]).list
    PROVE  /\ Arena(new, bs \ {b})
           /\ \A x \in Int : InUse(new, bs \ {b}, x) <=> InUse(list, bs, x)
<1>1. list \in Seq(Entry) /\ Ordered(list) /\ (\A c \in bs : InHand(c)) /\ Apart(list, bs)
    BY DEF Arena
<1>2. PICK e : e = [node |-> b.ptr, ptr |-> b.ptr, size |-> b.size]
    OBVIOUS
<1>3. e.ptr = b.ptr /\ e.size = b.size /\ e \in Entry
  <2>1. b.ptr \in Nat /\ b.ptr # Null /\ b.size \in Nat \ {0}
      BY <1>1, BlockRoom DEF InHand
  <2> QED
      BY <1>2, <2>1 DEF Entry
<1>4. \A c \in bs, x \in Int : Between(c.ptr, c.size, x) => ~Covers(list, x)
    BY <1>1 DEF Apart
<1>5. \A c, d \in bs : c # d =>
          \A x \in Int : ~(Between(c.ptr, c.size, x) /\ Between(d.ptr, d.size, x))
    BY <1>1 DEF Apart
<1>6. \A x \in Int : Between(e.ptr, e.size, x) => ~Covers(list, x)
    BY <1>3, <1>4
<1>7. /\ new \in Seq(Entry) /\ Ordered(new)
      /\ \A x \in Int : Covers(new, x) <=> Covers(list, x) \/ Between(e.ptr, e.size, x)
    BY <1>1, <1>2, <1>3, <1>6, AddRange
<1>8. \A x \in Int : Covers(new, x) <=> Covers(list, x) \/ Between(b.ptr, b.size, x)
    BY <1>3, <1>7
<1>9. Apart(new, bs \ {b})
  <2>1. ASSUME NEW c \in bs \ {b}, NEW x \in Int, Between(c.ptr, c.size, x)
        PROVE  ~Covers(new, x)
      BY <1>4, <1>5, <1>8, <2>1
  <2> QED
      BY <1>5, <2>1 DEF Apart
<1>10. Arena(new, bs \ {b})
    BY <1>1, <1>7, <1>9 DEF Arena
<1>11. ASSUME NEW x \in Int PROVE InUse(new, bs \ {b}, x) <=> InUse(list, bs, x)
    BY <1>8 DEF InUse
<1> QED
    BY <1>10, <1>11

\* A range below all others is put in front of the pool.
LEMMA RefilledArena ==
    ASSUME NEW list, NEW bs, Arena(list, bs), NEW base \in Nat \ {0}, NEW size \in Nat \ {0},
           NEW top, top = base + size, AllAbove(list, bs, top),
           NEW new, new = PutFront(list, base, size)
    PROVE  /\ Arena(new, bs) /\ Len(new) >= 1 /\ new[1].size = size
           /\ \A x \in Int : InUse(new, bs, x) <=> InUse(list, bs, x) \/ Between(base, size, x)
<1>1. list \in Seq(Entry) /\ Ordered(list) /\ (\A c \in bs : InHand(c)) /\ Apart(list, bs)
    BY DEF Arena
<1>2. PICK e : e = [node |-> base, ptr |-> base, size |-> size]
    OBVIOUS
<1>3. e \in Entry /\ e.ptr = base /\ e.size = size
    BY <1>2 DEF Entry, Null
<1>4. /\ Len(list) \in Nat
      /\ \A j \in 1 .. Len(list) : list[j].ptr \in Nat /\ list[j].size \in Nat /\ list[j].size > 0
    BY <1>1, ListFields
<1>5. /\ new \in Seq(Entry) /\ Len(new) = 1 + Len(list)
      /\ \A j \in 1 .. 1 + Len(list) : new[j] = IF j <= 1 THEN e ELSE list[j - 1]
  <2>1. <<e>> \in Seq(Entry) /\ Len(<<e>>) = 1 /\ <<e>>[1] = e
      BY <1>3
  <2>2. PICK front : front = <<e>>
      OBVIOUS
  <2>3. /\ front \o list \in Seq(Entry)
        /\ Len(front \o list) = Len(front) + Len(list)
        /\ \A j \in 1 .. Len(front) + Len(list) :
             (front \o list)[j] = IF j <= Len(front) THEN front[j] ELSE list[j - Len(front)]
      BY <1>1, <2>1, <2>2, ConcatProperties
  <2>4. new = front \o list /\ Len(front) = 1 /\ front[1] = e
      BY <1>2, <2>1, <2>2 DEF PutFront
  <2>5. ASSUME NEW j \in 1 .. 1 + Len(list)
        PROVE  new[j] = IF j <= 1 THEN e ELSE list[j - 1]
    <3>1. CASE j <= 1
        BY <1>4, <2>3, <2>4, <3>1
    <3>2. CASE ~(j <= 1)
        BY <1>4, <2>3, <2>4, <3>2
    <3> QED
        BY <3>1, <3>2
  <2> QED
      BY <2>3, <2>4, <2>5
<1>6. ASSUME NEW j \in 1 .. Len(list) PROVE base + size <= list[j].ptr
  <2>1. Between(list[j].ptr, list[j].size, list[j].ptr)
      BY <1>4 DEF Between
  <2>2. InUse(list, bs, list[j].ptr) /\ list[j].ptr \in Int
      BY <1>4, <2>1 DEF InUse, Covers
  <2> QED
      BY <2>2 DEF AllAbove
<1>7. Ordered(new)
  <2>1. ASSUME NEW a \in 1 .. Len(new), NEW b \in 1 .. Len(new), a < b
        PROVE  new[a].ptr + new[a].size <= new[b].ptr
    <3>1. b - 1 \in 1 .. Len(list) /\ new[b] = list[b - 1]
        BY <1>4, <1>5, <2>1
    <3>2. CASE a = 1
      <4>1. new[a] = e
          BY <1>4, <1>5, <3>2
      <4> QED
          BY <1>3, <1>6, <3>1, <4>1
    <3>3. CASE a # 1
      <4>1. a - 1 \in 1 .. Len(list) /\ new[a] = list[a - 1] /\ a - 1 < b - 1
          BY <1>4, <1>5, <2>1, <3>3
      <4> QED
          BY <1>1, <3>1, <4>1 DEF Ordered
    <3> QED
        BY <3>2, <3>3
  <2> QED
      BY <2>1 DEF Ordered
<1>8. ASSUME NEW x \in Int PROVE Covers(new, x) <=> Covers(list, x) \/ Between(base, size, x)
  <2>1. 1 \in 1 .. Len(new) /\ new[1] = e
      BY <1>4, <1>5
  <2>2. ASSUME Between(base, size, x) PROVE Covers(new, x)
      BY <1>3, <2>1, <2>2 DEF Covers
  <2>3. ASSUME Covers(list, x) PROVE Covers(new, x)
    <3>1. PICK j \in 1 .. Len(list) : Between(list[j].ptr, list[j].size, x)
        BY <2>3 DEF Covers
    <3>2. j + 1 \in 1 .. Len(new) /\ new[j + 1] = list[j]
      <4>1. j + 1 \in 1 .. 1 + Len(list) /\ ~(j + 1 <= 1) /\ (j + 1) - 1 = j
          BY <1>4
      <4> QED
          BY <1>5, <4>1
    <3> QED
        BY <3>1, <3>2 DEF Covers
  <2>4. ASSUME Covers(new, x) PROVE Covers(list, x) \/ Between(base, size, x)
    <3>1. PICK j \in 1 .. Len(new) : Between(new[j].ptr, new[j].size, x)
        BY <2>4 DEF Covers
    <3>2. CASE j = 1
        BY <1>3, <2>1, <3>1, <3>2
    <3>3. CASE j # 1
      <4>1. j - 1 \in 1 .. Len(list) /\ new[j] = list[j - 1]
          BY <1>4, <1>5, <3>3
      <4> QED
          BY <3>1, <4>1 DEF Covers
    <3> QED
        BY <3>2, <3>3
  <2> QED
      BY <2>2, <2>3, <2>4
<1>9. ASSUME NEW b \in bs, NEW x \in Int, Between(b.ptr, b.size, x) PROVE ~Covers(new, x)
  <2>1. ~Covers(list, x)
      BY <1>1, <1>9 DEF Apart
  <2>2. base + size <= x
      BY <1>9 DEF InUse, AllAbove
  <2>3. ~Between(base, size, x)
      BY <2>2 DEF Between
  <2> QED
      BY <1>8, <2>1, <2>3
<1>10. Apart(new, bs)
  <2>1. \A c, d \in bs : c # d =>
            \A x \in Int : ~(Between(c.ptr, c.size, x) /\ Between(d.ptr, d.size, x))
      BY <1>1 DEF Apart
  <2> QED
      BY <1>9, <2>1 DEF Apart
<1>11. Arena(new, bs)
    BY <1>1, <1>5, <1>7, <1>10 DEF Arena
<1>12. Len(new) >= 1 /\ new[1].size = size
    BY <1>3, <1>4, <1>5
<1>13. \A x \in Int : InUse(new, bs, x) <=> InUse(list, bs, x) \/ Between(base, size, x)
    BY <1>8 DEF InUse
<1> QED
    BY <1>11, <1>12, <1>13

-----------------------------------------------------------------------------
(* The pages that are mapped. *)

\* An address is in a page that is mapped.
Mapped(m, x) == \E page \in DOMAIN m : Between(page * PageSize, PageSize, x)

\* The mapped pages lie in the used part of the heap and lead to physical pages.
MapFacts(m, low) ==
    \A page \in DOMAIN m :
        /\ page \in Nat /\ m[page] \in Frames
        /\ HeapBase <= page * PageSize /\ low <= page * PageSize /\ page * PageSize < HeapTop

\* No two pages lead to the same physical page, or to one that is free.
Backed(m, avail) ==
    /\ \A a, b \in DOMAIN m : m[a] = m[b] => a = b
    /\ \A a \in DOMAIN m : m[a] \notin avail

\* The pages of a range of addresses.
PagesOf(start, size) ==
    {page \in 0 .. HeapTop : /\ start <= page * PageSize + (PageSize - 1)
                             /\ page * PageSize < start + size}

\* The physical pages that pmm_alloc gives for a size, from one on.
RunOf(f, size) == f .. (f + (mm_roundUpPage(size) \div PageSize) - 1)

\* The mapping after pages from first on are made to lead to a run of frames.
MapRun(m, run, first, f) ==
    [page \in DOMAIN m \cup run |-> IF page \in run THEN f + (page - first) ELSE m[page]]

\* Of a range at low, the first got bytes are mapped.
MappedUpTo(m, low, pages, got) ==
    \A page \in Nat : low <= page * PageSize /\ page * PageSize < low + pages =>
        (page \in DOMAIN m <=> page * PageSize < low + got)

\* A chunk that fits in what is left of the range of a refill.
NextChunk(low, pages, got, block) ==
    /\ low \in Nat /\ pages \in Nat /\ got \in Nat /\ block \in Nat
    /\ low % PageSize = 0 /\ pages % PageSize = 0 /\ got % PageSize = 0
    /\ got + block <= pages /\ HeapBase <= low /\ low + pages <= HeapTop

\* The chunk has been added to the mapping.
ChunkAdded(m, n, low, got, block, f, frames) ==
    /\ frames = RunOf(f, block)
    /\ n = MapRun(m, PagesOf(low + got, block), (low + got) \div PageSize, f)

MappedAfter(m, low, pages, got, block) == MappedUpTo(m, low, pages, got + block)

\* Two mappings agree above a range.
SameFrom(low, pages, n, m) ==
    \A x \in Int : low + pages <= x => (Mapped(n, x) <=> Mapped(m, x))

\* The page of an address.
LEMMA PageOf ==
    ASSUME NEW x \in Nat
    PROVE  \E page \in Nat : Between(page * PageSize, PageSize, x)
<1>1. PICK page, r : page = x \div PageSize /\ r = x % PageSize
    OBVIOUS
<1>2. page \in Nat /\ r \in 0 .. (PageSize - 1) /\ x = page * PageSize + r
    BY <1>1, PageSizeAssumption
<1>3. page * PageSize \in Nat
    BY <1>2, PageSizeAssumption
<1> QED
    BY <1>2, <1>3, PageSizeAssumption DEF Between

\* A page that starts before a page boundary ends before it.
LEMMA PageBelow ==
    ASSUME NEW page \in Nat, NEW y \in Nat, y % PageSize = 0, page * PageSize < y
    PROVE  page * PageSize + PageSize <= y
<1>1. PICK k \in Nat : y = k * PageSize
    BY Multiple
<1>2. PageSize \in Nat /\ PageSize > 0
    BY PageSizeAssumption
<1>3. page < k
  <2>1. CASE k <= page
    <3>1. page - k \in Nat /\ page * PageSize = k * PageSize + (page - k) * PageSize
        BY <1>2, <2>1
    <3>2. (page - k) * PageSize \in Nat /\ k * PageSize \in Nat
        BY <1>2, <3>1
    <3> QED
        BY <1>1, <3>1, <3>2
  <2> QED
      BY <2>1
<1>4. k - (page + 1) \in Nat
    BY <1>3
<1>5. k * PageSize = (page * PageSize + PageSize) + (k - (page + 1)) * PageSize
    BY <1>2
<1>6. (k - (page + 1)) * PageSize \in Nat /\ page * PageSize + PageSize \in Nat
    BY <1>2, <1>4
<1> QED
    BY <1>1, <1>5, <1>6

\* The number of a page boundary.
LEMMA PageIndex ==
    ASSUME NEW y \in Nat, y % PageSize = 0
    PROVE  y \div PageSize \in Nat /\ y = (y \div PageSize) * PageSize
BY PageSizeAssumption

\* Pages are in the order of their numbers.
LEMMA PageOrder ==
    ASSUME NEW a \in Nat, NEW b \in Nat
    PROVE  /\ a * PageSize \in Nat /\ a <= a * PageSize
           /\ (a + b) * PageSize = a * PageSize + b * PageSize
           /\ a < b <=> a * PageSize < b * PageSize
<1>1. PageSize \in Nat \ {0}
    BY PageSizeAssumption
<1>2. a * PageSize \in Nat /\ b * PageSize \in Nat
    BY <1>1
<1>3. a <= a * PageSize
  <2>1. CASE a = 0
      BY <1>1, <2>1
  <2>2. CASE a # 0
      BY <1>1, <2>2, FactorBound
  <2> QED
      BY <2>1, <2>2
<1>4. ASSUME a < b PROVE a * PageSize < b * PageSize
  <2>1. b - a \in Nat \ {0}
      BY <1>4
  <2>2. b * PageSize = a * PageSize + (b - a) * PageSize
      BY <1>1
  <2>3. PageSize <= (b - a) * PageSize /\ (b - a) * PageSize \in Nat
      BY <1>1, <2>1, FactorBound
  <2> QED
      BY <1>1, <1>2, <2>2, <2>3
<1>5. ASSUME b <= a PROVE b * PageSize <= a * PageSize
  <2>1. a - b \in Nat
      BY <1>5
  <2>2. a * PageSize = b * PageSize + (a - b) * PageSize
      BY <1>1
  <2>3. (a - b) * PageSize \in Nat
      BY <1>1, <2>1
  <2> QED
      BY <1>2, <2>2, <2>3
<1>6. (a + b) * PageSize = a * PageSize + b * PageSize
    BY <1>1
<1> QED
    BY <1>2, <1>3, <1>4, <1>5, <1>6

\* One chunk of a refill: its pages are the next of the range, and lead to
\* different physical pages that were free.
LEMMA ChunkMapped ==
    ASSUME NEW m, NEW avail, avail \subseteq Frames, NEW low, NEW pages, NEW got, NEW block,
           NextChunk(low, pages, got, block), MapFacts(m, low), Backed(m, avail),
           NEW f \in avail, NEW frames, frames \subseteq avail, NEW n,
           ChunkAdded(m, n, low, got, block, f, frames), MappedUpTo(m, low, pages, got)
    PROVE  /\ MapFacts(n, low) /\ Backed(n, avail \ frames)
           /\ MappedAfter(n, low, pages, got, block)
           /\ SameFrom(low, pages, n, m)
           /\ PagesOf(low + got, block) \cap DOMAIN m = {}
<1>00. PICK start, chunk, first, done :
           /\ start = low + got /\ first = start \div PageSize /\ done = got + block
           /\ chunk = PagesOf(start, block)
    OBVIOUS
<1>01. frames = RunOf(f, block) /\ n = MapRun(m, chunk, first, f)
    BY <1>00 DEF ChunkAdded
<1>.  /\ low \in Nat /\ pages \in Nat /\ got \in Nat /\ block \in Nat
      /\ low % PageSize = 0 /\ pages % PageSize = 0 /\ got % PageSize = 0
      /\ got + block <= pages /\ HeapBase <= low /\ low + pages <= HeapTop
    BY DEF NextChunk
<1>0. /\ PageSize \in Nat /\ PageSize > 0 /\ HeapTop \in Nat /\ HeapBase \in Nat
      /\ Frames \subseteq Nat
    BY PageSizeAssumption, MallocAssumption
<1>1. start = low + got
    BY <1>00
<1>2. start \in Nat /\ start % PageSize = 0 /\ start + block <= low + pages
    BY <1>1, AlignedSum
<1>3. first \in Nat /\ start = first * PageSize
    BY <1>00, <1>1, <1>2, PageIndex
<1>4. PICK R, r : R = mm_roundUpPage(block) /\ r = R \div PageSize
    OBVIOUS
<1>5. R \in Nat /\ R % PageSize = 0 /\ block <= R
    BY <1>4, RoundUp
<1>6. r \in Nat /\ R = r * PageSize
    BY <1>4, <1>5, PageIndex
<1>7. frames = f .. (f + r - 1) /\ f \in Nat
    BY <1>0, <1>01, <1>4 DEF RunOf
<1>8. ASSUME NEW page \in Nat
      PROVE  page \in chunk <=> start <= page * PageSize /\ page * PageSize < start + block
  <2>0. PICK y : y = page * PageSize
      OBVIOUS
  <2>1. y \in Nat
      BY <1>0, <2>0
  <2>2. page \in chunk <=> /\ page <= HeapTop /\ start <= y + (PageSize - 1)
                           /\ y < start + block
      BY <1>0, <1>00, <1>1, <2>0 DEF PagesOf
  <2>3. y < start => y + PageSize <= start
      BY <1>2, <2>0, PageBelow
  <2>4. page <= y
      BY <2>0, PageOrder
  <2>5. start + block <= HeapTop
      BY <1>0, <1>2
  <2>6. start <= y + (PageSize - 1) <=> start <= y
      BY ONLY <1>0, <1>2, <2>1, <2>3
  <2>7. y < start + block => page <= HeapTop
      BY <1>0, <1>2, <2>1, <2>4, <2>5
  <2> QED
      BY <2>0, <2>2, <2>6, <2>7
<1>9. chunk \subseteq Nat
    BY <1>00 DEF PagesOf
<1>10. ASSUME NEW page \in chunk
       PROVE  /\ page \in Nat /\ start <= page * PageSize /\ page * PageSize < start + block
              /\ first <= page /\ page < first + r
  <2>1. page \in Nat /\ start <= page * PageSize /\ page * PageSize < start + block
      BY <1>8, <1>9
  <2>2. CASE page < first
    <3>1. page * PageSize < start /\ page * PageSize \in Nat
        BY ONLY <1>3, <2>1, <2>2, PageOrder
    <3> QED
        BY ONLY <1>2, <2>1, <3>1
  <2>3. CASE page >= first + r
    <3>1. PICK b : b = first + r
        OBVIOUS
    <3>2. b \in Nat /\ ~(page < b)
        BY ONLY <1>3, <1>6, <2>1, <2>3, <3>1
    <3>3. ~(page * PageSize < b * PageSize) /\ page * PageSize \in Nat
        BY ONLY <2>1, <3>2, PageOrder
    <3>4. b * PageSize = start + R
        BY ONLY <1>3, <1>6, <3>1, PageOrder
    <3> QED
        BY ONLY <1>2, <1>5, <2>1, <3>3, <3>4, block \in Nat
  <2> QED
      BY <1>3, <1>6, <2>1, <2>2, <2>3
<1>11. \A page \in chunk : f + (page - first) \in frames
    BY ONLY <1>3, <1>6, <1>7, <1>10
<1>12. DOMAIN n = DOMAIN m \cup chunk
    BY <1>01 DEF MapRun
<1>13. /\ \A page \in chunk : n[page] = f + (page - first)
       /\ \A page \in DOMAIN m : page \notin chunk => n[page] = m[page]
    BY <1>01 DEF MapRun
<1>14. MapFacts(n, low)
  <2>1. ASSUME NEW page \in chunk
        PROVE  /\ page \in Nat /\ n[page] \in Frames
               /\ HeapBase <= page * PageSize /\ low <= page * PageSize
               /\ page * PageSize < HeapTop
    <3>1. PICK y : y = page * PageSize
        OBVIOUS
    <3>2. page \in Nat /\ y \in Nat /\ start <= y /\ y < start + block
        BY ONLY <1>10, <3>1, page \in chunk, PageOrder
    <3>3. HeapBase <= y /\ low <= y /\ y < HeapTop
      <4>1. low \in Nat /\ pages \in Nat /\ got \in Nat /\ block \in Nat
            /\ HeapBase <= low /\ low + pages <= HeapTop
          OBVIOUS
      <4> QED
          BY ONLY <1>0, <1>1, <1>2, <3>2, <4>1
    <3>4. n[page] \in Frames
        BY <1>11, <1>13
    <3> QED
        BY <3>1, <3>2, <3>3, <3>4
  <2> QED
      BY <1>12, <1>13, <2>1 DEF MapFacts
<1>15. Backed(n, avail \ frames)
  <2>1. ASSUME NEW a \in DOMAIN n, NEW b \in DOMAIN n, n[a] = n[b] PROVE a = b
    <3>1. CASE a \in chunk /\ b \in chunk
      <4>1. a \in Nat /\ b \in Nat /\ f + (a - first) = f + (b - first)
          BY <1>10, <1>13, <2>1, <3>1
      <4> QED
          BY <1>3, <1>7, <4>1
    <3>2. CASE a \in chunk /\ b \notin chunk
        BY <1>11, <1>12, <1>13, <2>1, <3>2 DEF Backed
    <3>3. CASE a \notin chunk /\ b \in chunk
        BY <1>11, <1>12, <1>13, <2>1, <3>3 DEF Backed
    <3>4. CASE a \notin chunk /\ b \notin chunk
        BY <1>12, <1>13, <2>1, <3>4 DEF Backed
    <3> QED
        BY <3>1, <3>2, <3>3, <3>4
  <2>2. ASSUME NEW a \in DOMAIN n PROVE n[a] \notin avail \ frames
    <3>1. CASE a \in chunk
        BY <1>11, <1>13, <3>1
    <3>2. CASE a \notin chunk
        BY <1>12, <1>13, <3>2 DEF Backed
    <3> QED
        BY <3>1, <3>2
  <2> QED
      BY <2>1, <2>2 DEF Backed
<1>16. ASSUME NEW page \in Nat, low <= page * PageSize, page * PageSize < low + pages
       PROVE  page \in DOMAIN n <=> page * PageSize < low + (got + block)
  <2>1. PICK y : y = page * PageSize
      OBVIOUS
  <2>2. y \in Nat
      BY <1>0, <2>1
  <2>3. page \in DOMAIN m <=> y < start
      BY <1>1, <1>16, <2>1 DEF MappedUpTo
  <2>4. page \in chunk <=> start <= y /\ y < start + block
      BY <1>8, <2>1
  <2>5. start + block = low + (got + block)
      BY <1>1
  <2> QED
      BY <1>2, <1>12, <2>1, <2>2, <2>3, <2>4, <2>5
<1>17. ASSUME NEW x \in Int, low + pages <= x PROVE Mapped(n, x) <=> Mapped(m, x)
  <2>1. ASSUME NEW page \in chunk PROVE ~Between(page * PageSize, PageSize, x)
    <3>1. page \in Nat /\ page * PageSize < start + block /\ page * PageSize \in Nat
        BY ONLY <1>10, page \in chunk, PageOrder
    <3>2. low + pages \in Nat /\ (low + pages) % PageSize = 0
        BY AlignedSum
    <3>3. page * PageSize < low + pages
        BY <1>2, <3>1, <3>2
    <3>4. page * PageSize + PageSize <= low + pages
        BY <3>1, <3>2, <3>3, PageBelow
    <3> QED
        BY ONLY <1>0, <1>17, <3>1, <3>2, <3>4, x \in Int DEF Between
  <2> QED
      BY <1>12, <2>1 DEF Mapped
<1>18. MappedAfter(n, low, pages, got, block)
    BY <1>16 DEF MappedUpTo, MappedAfter
<1>19. SameFrom(low, pages, n, m)
    BY <1>17 DEF SameFrom
<1>20. ASSUME NEW page \in chunk PROVE page \notin DOMAIN m
  <2>1. PICK y, z : y = page * PageSize /\ z = start + block
      OBVIOUS
  <2>2. page \in Nat /\ y \in Nat /\ start <= y /\ y < z /\ z \in Nat /\ z <= low + pages
      BY <1>2, <1>10, <2>1, PageOrder
  <2>3. low <= y /\ y < low + pages /\ ~(y < low + got)
      BY <1>1, <1>2, <2>2
  <2> QED
      BY <2>1, <2>2, <2>3 DEF MappedUpTo
<1>21. PagesOf(low + got, block) \cap DOMAIN m = {}
    BY <1>00, <1>20
<1> QED
    BY <1>14, <1>15, <1>18, <1>19, <1>21

-----------------------------------------------------------------------------
(* The inductive invariant. *)

Locals == [asked : Nat, size : Nat, base : Nat, block : Nat, got : Nat]

\* The range of the refill that is under way, in bytes.
RangeSize == mm_roundUpPage(loc.size)

\* A refill under way has mapped the first loc.got bytes of its range, which lies
\* below everything that is in use.
RefillFacts ==
    /\ loc.asked \in Requests /\ loc.size = BlockSize(loc.asked) /\ loc.base = vtop
    /\ HeapBase < vtop /\ vtop + RangeSize <= HeapTop
    /\ \A x \in Int :
          InUse(pool, blocks, x) <=> Mapped(mapping, x) /\ vtop + RangeSize <= x
    /\ \A page \in Nat : vtop <= page * PageSize /\ page * PageSize < vtop + RangeSize =>
          (page \in DOMAIN mapping <=> page * PageSize < vtop + loc.got)

\* The chunks that remain fit exactly, or the refill cannot end well any more.
ChunkFacts ==
    \/ Exact(RangeSize, loc.got, loc.block)
    \/ Skewed(RangeSize, loc.got, loc.block)
    \/ Cut(RangeSize, loc.got)

\* Outside a refill, the pool and the blocks are what is mapped.
IdleFacts == \A x \in Int : InUse(pool, blocks, x) <=> Mapped(mapping, x)

MallocFacts ==
    /\ pc \in {"idle", "refill", "rollback", "hung", "panic", "fault"} /\ torn \in BOOLEAN
    /\ loc \in Locals
    /\ Arena(pool, blocks)
    /\ vtop \in Nat /\ vtop % PageSize = 0 /\ vtop <= HeapTop
    /\ pmmFree \subseteq Frames
    /\ MapFacts(mapping, vtop) /\ Backed(mapping, pmmFree)
    /\ pc = "idle" => IdleFacts
    /\ pc \in {"refill", "rollback"} => RefillFacts
    /\ pc = "refill" => ChunkFacts

\* The range of a refill: whole pages, less than a page more than was asked for,
\* and not more pages than a page has bytes.
LEMMA RangeFacts ==
    ASSUME NEW asked \in Requests, NEW pages, pages = mm_roundUpPage(BlockSize(asked))
    PROVE  /\ BlockSize(asked) \in Nat \ {0}
           /\ pages \in Nat \ {0} /\ pages % PageSize = 0
           /\ BlockSize(asked) <= pages /\ pages < BlockSize(asked) + PageSize
           /\ pages <= PageSize * PageSize
<1>1. PICK size : size = BlockSize(asked)
    OBVIOUS
<1>2. size \in Nat \ {0}
    BY <1>1, BlockRoom
<1>3. /\ mm_roundUpPage(size) \in Nat /\ mm_roundUpPage(size) % PageSize = 0
      /\ size <= mm_roundUpPage(size) /\ mm_roundUpPage(size) < size + PageSize
    BY <1>2, RoundUp
<1>4. pages <= PageSize * PageSize
    BY HalvingAssumption
<1> QED
    BY <1>1, <1>2, <1>3, <1>4

\* No local variable is in use outside malloc.
LEMMA NoLocalsTyped == NoLocals \in Locals
BY DEF NoLocals, Locals, Null

\* At first nothing is mapped or in use.
LEMMA InitFacts == Init => MallocFacts
<1> SUFFICES ASSUME Init PROVE MallocFacts
    OBVIOUS
<1>1. /\ pc = "idle" /\ pool = <<>> /\ blocks = {} /\ vtop = HeapTop
      /\ mapping = <<>> /\ pmmFree = Frames /\ torn = FALSE /\ loc \in Locals
    BY NoLocalsTyped DEF Init
<1>2. pool \in Seq(Entry) /\ Len(pool) = 0 /\ DOMAIN mapping = {}
    BY <1>1
<1>3. Ordered(pool) /\ \A x \in Int : ~Covers(pool, x)
    BY <1>2 DEF Ordered, Covers
<1>4. Arena(pool, blocks)
    BY <1>1, <1>2, <1>3 DEF Arena, Apart
<1>5. MapFacts(mapping, vtop) /\ Backed(mapping, pmmFree)
    BY <1>2 DEF MapFacts, Backed
<1>6. IdleFacts
    BY <1>1, <1>2, <1>3 DEF IdleFacts, InUse, Mapped
<1>7. vtop \in Nat /\ vtop % PageSize = 0 /\ vtop <= HeapTop
    BY <1>1, MallocAssumption
<1> QED
    BY <1>1, <1>4, <1>5, <1>6, <1>7 DEF MallocFacts

\* malloc, when the pool has room.
LEMMA TakeStep ==
    ASSUME MallocFacts, NEW asked \in Requests, pc = "idle", CanTake(pool, asked),
           TakeBlock(pool, asked), UNCHANGED <<pc, loc, vtop, mapping, pmmFree>>
    PROVE  MallocFacts'
<1>1. PICK got : got = mm_alloc(pool, BlockSize(asked))
    OBVIOUS
<1>2. /\ got.ptr # Null /\ pool' = got.list
      /\ blocks' = blocks \cup {[ptr |-> got.ptr, size |-> BlockSize(asked), asked |-> asked]}
    BY <1>1 DEF CanTake, TakeBlock
<1>3. torn' \in BOOLEAN
    BY Zenon DEF TakeBlock
<1>4. Arena(pool, blocks) /\ IdleFacts
    BY DEF MallocFacts
<1>5. /\ Arena(got.list, blocks')
      /\ \A x \in Int : InUse(got.list, blocks', x) <=> InUse(pool, blocks, x)
    BY <1>1, <1>2, <1>4, TakeArena
<1>6. Arena(pool', blocks') /\ IdleFacts'
    BY <1>2, <1>4, <1>5 DEF IdleFacts
<1> QED
    BY <1>3, <1>6 DEF MallocFacts

\* malloc, when it begins a refill.
LEMMA BeginStep ==
    ASSUME MallocFacts, NEW asked \in Requests, NEW pages, pc = "idle",
           pages = mm_roundUpPage(BlockSize(asked)), vtop - pages > HeapBase,
           vtop' = vtop - pages, pc' = "refill",
           loc' = [asked |-> asked, size |-> BlockSize(asked),
                   base |-> vtop - pages, block |-> pages, got |-> 0],
           UNCHANGED <<pool, blocks, mapping, pmmFree, torn>>
    PROVE  MallocFacts'
<1>1. /\ BlockSize(asked) \in Nat \ {0}
      /\ pages \in Nat \ {0} /\ pages % PageSize = 0
    BY RangeFacts
<1>2. /\ vtop \in Nat /\ vtop % PageSize = 0 /\ vtop <= HeapTop /\ IdleFacts
      /\ MapFacts(mapping, vtop) /\ Backed(mapping, pmmFree)
      /\ Arena(pool, blocks) /\ pmmFree \subseteq Frames /\ torn \in BOOLEAN
    BY DEF MallocFacts
<1>3. HeapBase \in Nat /\ HeapTop \in Nat /\ asked \in Nat
    BY MallocAssumption
<1>4. vtop' \in Nat /\ vtop' + pages = vtop /\ HeapBase < vtop' /\ vtop' <= vtop
    BY <1>1, <1>2, <1>3
<1>5. vtop' % PageSize = 0
    BY <1>1, <1>2, <1>4, AlignedDifference
<1>6. loc' \in Locals
    BY <1>1, <1>3, <1>4 DEF Locals
<1>7. /\ loc'.asked = asked /\ loc'.size = BlockSize(asked) /\ loc'.base = vtop'
      /\ loc'.block = pages /\ loc'.got = 0
    OBVIOUS
<1>8. RangeSize' = pages
    BY <1>7 DEF RangeSize
<1>9. ASSUME NEW page \in DOMAIN mapping
      PROVE  /\ page \in Nat /\ mapping[page] \in Frames
             /\ HeapBase <= page * PageSize /\ vtop <= page * PageSize
             /\ page * PageSize < HeapTop /\ page * PageSize \in Nat
    BY <1>2, PageOrder DEF MapFacts
<1>10. MapFacts(mapping, vtop')
    BY <1>2, <1>4, <1>9 DEF MapFacts
<1>11. ASSUME NEW x \in Int
       PROVE  InUse(pool, blocks, x) <=> Mapped(mapping, x) /\ vtop <= x
  <2>1. ASSUME Mapped(mapping, x) PROVE vtop <= x
    <3>1. PICK page \in DOMAIN mapping : Between(page * PageSize, PageSize, x)
        BY <2>1 DEF Mapped
    <3>2. vtop <= page * PageSize /\ page * PageSize \in Nat
        BY <1>9
    <3> QED
        BY <1>2, <3>1, <3>2 DEF Between
  <2> QED
      BY <1>2, <2>1 DEF IdleFacts
<1>12. ASSUME NEW page \in Nat, vtop' <= page * PageSize, page * PageSize < vtop
       PROVE  page \in DOMAIN mapping <=> page * PageSize < vtop' + 0
  <2>1. page * PageSize \in Nat
      BY PageOrder
  <2>2. page \notin DOMAIN mapping
      BY <1>2, <1>9, <1>12, <2>1
  <2>3. ~(page * PageSize < vtop' + 0)
      BY <1>4, <1>12, <2>1
  <2> QED
      BY <2>2, <2>3
<1>13. RefillFacts'
    BY <1>2, <1>4, <1>7, <1>8, <1>11, <1>12 DEF RefillFacts
<1>14. Exact(pages, 0, pages)
  <2>1. pages - 0 = 1 * pages /\ 1 \in Nat /\ pages > 0 /\ 0 <= pages
      BY <1>1
  <2> QED
      BY <1>1, <2>1 DEF Exact
<1>15. ChunkFacts'
    BY <1>7, <1>8, <1>14 DEF ChunkFacts
<1>16. vtop' <= HeapTop
    BY <1>2, <1>3, <1>4
<1> QED
    BY <1>2, <1>4, <1>5, <1>6, <1>10, <1>13, <1>15, <1>16 DEF MallocFacts

\* malloc takes a block, begins a refill or changes nothing.
LEMMA MallocStep ==
    ASSUME MallocFacts, NEW asked \in Requests, malloc(asked)
    PROVE  MallocFacts'
<1>1. CASE CanTake(pool, asked) /\ TakeBlock(pool, asked)
  <2>1. pc = "idle" /\ UNCHANGED <<pc, loc, vtop, mapping, pmmFree>>
      BY <1>1 DEF malloc
  <2> QED
      BY <1>1, <2>1, TakeStep
<1>2. CASE ~CanTake(pool, asked)
  <2>1. PICK pages : pages = mm_roundUpPage(BlockSize(asked))
      OBVIOUS
  <2>2. /\ pc = "idle" /\ vtop - pages > HeapBase /\ vtop' = vtop - pages /\ pc' = "refill"
        /\ loc' = [asked |-> asked, size |-> BlockSize(asked),
                   base |-> vtop - pages, block |-> pages, got |-> 0]
        /\ UNCHANGED <<pool, blocks, mapping, pmmFree, torn>>
      BY <1>2, <2>1 DEF malloc
  <2> QED
      BY <2>1, <2>2, BeginStep
<1> QED
    BY <1>1, <1>2 DEF malloc

\* The local variables of a refill.
LEMMA RefillLocals ==
    ASSUME MallocFacts, pc \in {"refill", "rollback"}
    PROVE  /\ RangeSize \in Nat \ {0} /\ RangeSize % PageSize = 0
           /\ RangeSize <= PageSize * PageSize
           /\ loc.size \in Nat \ {0} /\ loc.size <= RangeSize /\ RangeSize < loc.size + PageSize
           /\ loc.got \in Nat /\ loc.block \in Nat /\ loc.base = vtop
           /\ vtop \in Nat /\ vtop % PageSize = 0
<1>1. RefillFacts /\ loc \in Locals /\ vtop \in Nat /\ vtop % PageSize = 0
    BY DEF MallocFacts
<1>2. loc.asked \in Requests /\ loc.size = BlockSize(loc.asked) /\ loc.base = vtop
    BY <1>1 DEF RefillFacts
<1>3. loc.got \in Nat /\ loc.block \in Nat
    BY <1>1 DEF Locals
<1>4. PICK asked \in Requests : asked = loc.asked
    BY <1>2
<1>5. RangeSize = mm_roundUpPage(BlockSize(asked)) /\ loc.size = BlockSize(asked)
    BY <1>2, <1>4 DEF RangeSize
<1>6. /\ BlockSize(asked) \in Nat \ {0}
      /\ RangeSize \in Nat \ {0} /\ RangeSize % PageSize = 0
      /\ BlockSize(asked) <= RangeSize /\ RangeSize < BlockSize(asked) + PageSize
      /\ RangeSize <= PageSize * PageSize
    BY <1>5, RangeFacts
<1> QED
    BY <1>1, <1>2, <1>3, <1>5, <1>6

\* A refill step that only changes the size of the chunks.
LEMMA RetryStep ==
    ASSUME MallocFacts, RefillRetry
    PROVE  MallocFacts'
<1>1. pc = "refill" /\ loc.got < loc.size /\ UNCHANGED <<pool, blocks, vtop, mapping, pmmFree, torn>>
    BY DEF RefillRetry
<1>2. CASE loc.block = PageSize
  <2>1. pc' = "rollback" /\ loc' = loc
      BY <1>2 DEF RefillRetry
  <2>2. RefillFacts'
      BY <1>1, <2>1 DEF MallocFacts, RefillFacts, RangeSize
  <2> QED
      BY <1>1, <2>1, <2>2 DEF MallocFacts
<1>3. CASE loc.block # PageSize
  <2>1. pc' = "refill" /\ loc' = [loc EXCEPT !.block = loc.block \div 2]
      BY <1>1, <1>3 DEF RefillRetry
  <2>2. loc \in Locals /\ RefillFacts /\ ChunkFacts
      BY <1>1 DEF MallocFacts
  <2>3. PICK pages, got, block : pages = RangeSize /\ got = loc.got /\ block = loc.block
      OBVIOUS
  <2>4. /\ pages \in Nat /\ pages % PageSize = 0 /\ pages <= PageSize * PageSize
        /\ got \in Nat /\ block \in Nat /\ got < pages /\ block # PageSize
      BY <1>1, <1>3, <2>3, RefillLocals
  <2>5. block \div 2 \in Nat /\ block \div 2 <= block
      BY <2>4
  <2>6. /\ loc' \in Locals /\ loc'.asked = loc.asked /\ loc'.size = loc.size
        /\ loc'.base = loc.base /\ loc'.got = got /\ loc'.block = block \div 2
      BY <2>1, <2>2, <2>3, <2>5 DEF Locals
  <2>7. RangeSize' = pages
      BY <2>3, <2>6 DEF RangeSize
  <2>8. RefillFacts'
      BY <1>1, <2>2, <2>3, <2>6, <2>7 DEF RefillFacts
  <2>9. Exact(pages, got, block \div 2) \/ Skewed(pages, got, block \div 2) \/ Cut(pages, got)
    <3>1. CASE Exact(pages, got, block)
        BY <2>4, <3>1, ExactHalved
    <3>2. CASE Skewed(pages, got, block)
      <4>1. Skew(block \div 2)
          BY <2>4, <3>2, SkewHalved DEF Skewed
      <4>2. got + (block \div 2) + PageSize <= pages
        <5>1. PICK half : half = block \div 2
            OBVIOUS
        <5>2. half \in Nat /\ half <= block /\ got + block + PageSize <= pages
            BY <2>5, <3>2, <5>1 DEF Skewed
        <5>3. got + half + PageSize <= pages
            BY <2>4, <5>2, PageSizeAssumption
        <5> QED
            BY <5>1, <5>3
      <4> QED
          BY <3>2, <4>1, <4>2 DEF Skewed
    <3> QED
        BY <2>2, <2>3, <3>1, <3>2 DEF ChunkFacts
  <2>10. ChunkFacts'
      BY <2>6, <2>7, <2>9 DEF ChunkFacts
  <2> QED
      BY <1>1, <2>1, <2>6, <2>8, <2>10 DEF MallocFacts
<1> QED
    BY <1>2, <1>3

\* A chunk that is mapped starts at a page boundary and ends within the range; a
\* skewed one is not empty only if no other can follow it.
LEMMA ChunkNext ==
    ASSUME NEW pages \in Nat, pages % PageSize = 0, NEW got \in Nat, NEW block \in Nat,
           got < pages, got % PageSize = 0,
           Exact(pages, got, block) \/ Skewed(pages, got, block) \/ Cut(pages, got)
    PROVE  /\ got + block <= pages
           /\ \/ Exact(pages, got + block, block)
              \/ Skewed(pages, got + block, block)
              \/ Cut(pages, got + block)
<1>0. PageSize \in Nat /\ PageSize > 0
    BY PageSizeAssumption
<1>1. CASE Exact(pages, got, block)
    BY <1>1, ExactNext
<1>2. CASE Skewed(pages, got, block)
  <2>1. got + block + PageSize <= pages /\ Skew(block)
      BY <1>2 DEF Skewed
  <2>2. got + block <= pages /\ (got + block) + PageSize <= pages
      BY <1>0, <2>1
  <2>3. CASE block = 0
      BY <1>2, <2>2, <2>3
  <2>4. CASE block # 0
    <3>1. block % PageSize # 0
        BY <2>1, <2>4, SkewUnaligned
    <3>2. CASE (got + block) % PageSize = 0
      <4>1. PICK y : y = got + block
          OBVIOUS
      <4>2. y \in Nat /\ y % PageSize = 0 /\ got <= y /\ y - got = block
          BY <3>2, <4>1
      <4>3. (y - got) % PageSize = 0
          BY <4>2, AlignedDifference
      <4> QED
          BY <3>1, <4>2, <4>3
    <3> QED
        BY <2>2, <3>2 DEF Cut
  <2> QED
      BY <2>2, <2>3, <2>4
<1>3. ~Cut(pages, got)
    BY DEF Cut
<1> QED
    BY <1>1, <1>2, <1>3

\* A part of a mapping is as good as the whole of it, and so is one that leads to
\* the same pages when fewer are left.
LEMMA PartMapped ==
    ASSUME NEW n, NEW part, NEW low, NEW avail, NEW less, less \subseteq avail,
           MapFacts(n, low), Backed(n, avail), DOMAIN part \subseteq DOMAIN n,
           \A page \in DOMAIN part : part[page] = n[page]
    PROVE  MapFacts(part, low) /\ Backed(part, less)
<1>1. MapFacts(part, low)
    BY DEF MapFacts
<1>2. ASSUME NEW a \in DOMAIN part, NEW b \in DOMAIN part, part[a] = part[b] PROVE a = b
    BY <1>2 DEF Backed
<1>3. ASSUME NEW a \in DOMAIN part PROVE part[a] \notin less
    BY DEF Backed
<1> QED
    BY <1>1, <1>2, <1>3 DEF Backed

\* The next chunk of a refill, mapped to a run of frames.
LEMMA NextLed ==
    ASSUME MallocFacts, pc = "refill", loc.got < loc.size,
           (loc.base + loc.got) % PageSize = 0, NEW f \in pmmFree, NEW frames,
           frames = f .. (f + (mm_roundUpPage(loc.block) \div PageSize) - 1),
           frames \subseteq pmmFree, NEW full, full = Led(ChunkPages, f)
    PROVE  /\ loc.got + loc.block <= RangeSize
           /\ \/ Exact(RangeSize, loc.got + loc.block, loc.block)
              \/ Skewed(RangeSize, loc.got + loc.block, loc.block)
              \/ Cut(RangeSize, loc.got + loc.block)
           /\ MapFacts(full, vtop) /\ Backed(full, pmmFree \ frames)
           /\ MappedUpTo(full, vtop, RangeSize, loc.got + loc.block)
           /\ \A x \in Int : vtop + RangeSize <= x => (Mapped(full, x) <=> Mapped(mapping, x))
           /\ ChunkPages \cap DOMAIN mapping = {}
<1>1. /\ loc \in Locals /\ RefillFacts /\ ChunkFacts /\ pmmFree \subseteq Frames
      /\ MapFacts(mapping, vtop) /\ Backed(mapping, pmmFree)
    BY DEF MallocFacts
<1>2. PICK pages, got, block, low, chunk, m, avail, first :
          /\ pages = RangeSize /\ got = loc.got /\ block = loc.block /\ low = vtop
          /\ chunk = ChunkPages /\ m = mapping /\ avail = pmmFree
          /\ first = (loc.base + loc.got) \div PageSize
    OBVIOUS
<1>3. /\ pages \in Nat /\ pages % PageSize = 0 /\ got \in Nat /\ block \in Nat
      /\ low \in Nat /\ low % PageSize = 0 /\ got < pages /\ loc.base = low
    BY <1>1, <1>2, RefillLocals
<1>4. got % PageSize = 0
  <2>1. PICK y : y = low + got
      OBVIOUS
  <2>2. y \in Nat /\ low <= y /\ y % PageSize = 0 /\ y - low = got
      BY <1>2, <1>3, <2>1
  <2>3. (y - low) % PageSize = 0
      BY <1>3, <2>2, AlignedDifference
  <2> QED
      BY <2>2, <2>3
<1>5. Exact(pages, got, block) \/ Skewed(pages, got, block) \/ Cut(pages, got)
    BY <1>1, <1>2 DEF ChunkFacts
<1>6. /\ got + block <= pages
      /\ \/ Exact(pages, got + block, block)
         \/ Skewed(pages, got + block, block)
         \/ Cut(pages, got + block)
    BY <1>3, <1>4, <1>5, ChunkNext
<1>7. chunk = PagesOf(low + got, block) /\ first = (low + got) \div PageSize
    BY <1>2, <1>3 DEF ChunkPages, PagesOf
<1>8. /\ HeapBase <= low /\ low + pages <= HeapTop /\ MappedUpTo(m, low, pages, got)
  <2>1. HeapBase < low /\ HeapBase \in Nat
      BY <1>1, <1>2, MallocAssumption DEF RefillFacts
  <2>2. HeapBase <= low
      BY <1>3, <2>1
  <2> QED
      BY <1>1, <1>2, <2>2 DEF RefillFacts, MappedUpTo
<1>9. full = MapRun(m, chunk, first, f)
    BY <1>2 DEF Led, MapRun
<1>10. NextChunk(low, pages, got, block)
    BY <1>3, <1>4, <1>6, <1>8 DEF NextChunk
<1>11. ChunkAdded(m, full, low, got, block, f, frames)
    BY <1>2, <1>7, <1>9 DEF ChunkAdded, RunOf
<1>12. /\ avail \subseteq Frames /\ MapFacts(m, low) /\ Backed(m, avail) /\ f \in avail
       /\ frames \subseteq avail /\ MappedUpTo(m, low, pages, got)
    BY <1>1, <1>2, <1>8
<1>13. /\ MapFacts(full, low) /\ Backed(full, avail \ frames)
       /\ MappedAfter(full, low, pages, got, block) /\ SameFrom(low, pages, full, m)
       /\ PagesOf(low + got, block) \cap DOMAIN m = {}
    BY ONLY <1>10, <1>11, <1>12, ChunkMapped
<1> QED
    BY <1>2, <1>6, <1>7, <1>13 DEF SameFrom, MappedAfter

\* vmm_map maps a whole chunk.
LEMMA MapStep ==
    ASSUME MallocFacts, pc = "refill", loc.got < loc.size,
           (loc.base + loc.got) % PageSize = 0, NEW f \in pmmFree, NEW frames,
           frames = f .. (f + (mm_roundUpPage(loc.block) \div PageSize) - 1),
           frames \subseteq pmmFree, MapChunk(f, frames), UNCHANGED <<pool, blocks, vtop, torn>>
    PROVE  MallocFacts'
<1>1. /\ loc \in Locals /\ RefillFacts /\ pmmFree \subseteq Frames
    BY DEF MallocFacts
<1>2. PICK tables :
          /\ tables \in SUBSET (pmmFree \ frames)
          /\ pmmFree' = pmmFree \ (frames \cup tables)
    BY DEF MapChunk
<1>3. /\ mapping' = Led(ChunkPages, f) /\ loc' = [loc EXCEPT !.got = loc.got + loc.block]
      /\ pc' = "refill"
    BY DEF MapChunk
<1>4. PICK pages, got, block, low :
          pages = RangeSize /\ got = loc.got /\ block = loc.block /\ low = vtop
    OBVIOUS
<1>5. /\ pages \in Nat /\ got \in Nat /\ block \in Nat /\ low \in Nat
    BY <1>4, RefillLocals
<1>6. /\ got + block <= pages
      /\ \/ Exact(pages, got + block, block)
         \/ Skewed(pages, got + block, block)
         \/ Cut(pages, got + block)
      /\ MapFacts(mapping', low) /\ Backed(mapping', pmmFree \ frames)
      /\ MappedUpTo(mapping', low, pages, got + block)
      /\ \A x \in Int : low + pages <= x => (Mapped(mapping', x) <=> Mapped(mapping, x))
    BY <1>3, <1>4, NextLed
<1>7. /\ loc' \in Locals /\ loc'.asked = loc.asked /\ loc'.size = loc.size
      /\ loc'.base = loc.base /\ loc'.got = got + block /\ loc'.block = block
  <2>1. got + block \in Nat
      BY <1>5
  <2> QED
      BY <1>1, <1>3, <1>4, <2>1 DEF Locals
<1>8. RangeSize' = pages /\ vtop' = low
    BY <1>4, <1>7 DEF RangeSize
<1>9. ASSUME NEW x \in Int
      PROVE  InUse(pool', blocks', x) <=> Mapped(mapping', x) /\ low + pages <= x
  <2>1. InUse(pool, blocks, x) <=> Mapped(mapping, x) /\ low + pages <= x
      BY <1>1, <1>4 DEF RefillFacts
  <2> QED
      BY <1>6, <2>1
<1>10. RefillFacts'
  <2>1. loc'.asked \in Requests /\ loc'.size = BlockSize(loc'.asked) /\ loc'.base = vtop'
      BY <1>1, <1>7 DEF RefillFacts
  <2>2. HeapBase < vtop' /\ vtop' + RangeSize' <= HeapTop
      BY <1>1, <1>4, <1>8 DEF RefillFacts
  <2> QED
      BY <1>6, <1>7, <1>8, <1>9, <2>1, <2>2 DEF RefillFacts, MappedUpTo
<1>11. ChunkFacts'
    BY <1>6, <1>7, <1>8 DEF ChunkFacts
<1>12. MapFacts(mapping', vtop') /\ Backed(mapping', pmmFree') /\ pmmFree' \subseteq Frames
  <2>1. Backed(mapping', pmmFree')
    <3>1. pmmFree' \subseteq pmmFree \ frames
        BY <1>2
    <3> QED
        BY <1>6, <3>1 DEF Backed
  <2> QED
      BY <1>1, <1>2, <1>6, <1>8, <2>1
<1> QED
    BY <1>3, <1>7, <1>10, <1>11, <1>12 DEF MallocFacts

\* vmm_map maps a part of a chunk and never returns.
LEMMA HangStep ==
    ASSUME MallocFacts, pc = "refill", loc.got < loc.size,
           (loc.base + loc.got) % PageSize = 0, NEW f \in pmmFree, NEW frames,
           frames = f .. (f + (mm_roundUpPage(loc.block) \div PageSize) - 1),
           frames \subseteq pmmFree, MapChunkHangs(f, frames),
           UNCHANGED <<pool, blocks, vtop, torn>>
    PROVE  MallocFacts'
<1>1. PICK mapped :
          /\ mapped \subseteq ChunkPages
          /\ mapping' = Led(mapped, f)
    BY DEF MapChunkHangs
<1>2. pmmFree' = {} /\ pc' = "hung" /\ loc' = loc
    BY DEF MapChunkHangs
<1>3. PICK full, chunk, m, part, low, avail, first :
          /\ full = Led(ChunkPages, f) /\ chunk = ChunkPages /\ m = mapping
          /\ part = mapping' /\ low = vtop /\ avail = pmmFree \ frames
          /\ first = (loc.base + loc.got) \div PageSize
    OBVIOUS
<1>4. MapFacts(full, low) /\ Backed(full, avail)
    BY <1>3, NextLed
<1>5. full = MapRun(m, chunk, first, f) /\ part = MapRun(m, mapped, first, f)
    BY <1>1, <1>3 DEF Led, MapRun
<1>6. mapped \subseteq chunk
    BY <1>1, <1>3
<1>7. chunk \cap DOMAIN m = {}
    BY <1>3, NextLed
<1>8. DOMAIN part \subseteq DOMAIN full /\ \A page \in DOMAIN part : part[page] = full[page]
    BY <1>5, <1>6, <1>7 DEF MapRun
<1>9. MapFacts(part, low) /\ Backed(part, {})
    BY ONLY <1>4, <1>8, PartMapped
<1>10. MapFacts(mapping', vtop') /\ Backed(mapping', pmmFree') /\ pmmFree' \subseteq Frames
    BY <1>2, <1>3, <1>9
<1> QED
    BY <1>2, <1>10 DEF MallocFacts

\* A chunk is mapped, or refused and the refill is undone, or never comes back.
LEMMA ChunkStep ==
    ASSUME MallocFacts, RefillChunk
    PROVE  MallocFacts'
<1>1. pc = "refill" /\ loc.got < loc.size /\ UNCHANGED <<pool, blocks, vtop, torn>>
    BY DEF RefillChunk
<1>2. PICK f \in pmmFree : \E frames :
          /\ frames = f .. (f + (mm_roundUpPage(loc.block) \div PageSize) - 1)
          /\ frames \subseteq pmmFree
          /\ IF (loc.base + loc.got) % PageSize = 0
             THEN MapChunk(f, frames) \/ MapChunkHangs(f, frames)
             ELSE RefuseChunk
    BY DEF RefillChunk
<1>3. PICK frames :
          /\ frames = f .. (f + (mm_roundUpPage(loc.block) \div PageSize) - 1)
          /\ frames \subseteq pmmFree
          /\ IF (loc.base + loc.got) % PageSize = 0
             THEN MapChunk(f, frames) \/ MapChunkHangs(f, frames)
             ELSE RefuseChunk
    BY <1>2
<1>4. CASE (loc.base + loc.got) % PageSize # 0
  <2>1. pc' = "rollback" /\ UNCHANGED <<loc, mapping, pmmFree>>
      BY <1>3, <1>4 DEF RefuseChunk
  <2>2. RefillFacts'
      BY <1>1, <2>1 DEF MallocFacts, RefillFacts, RangeSize
  <2> QED
      BY <1>1, <2>1, <2>2 DEF MallocFacts
<1>5. CASE (loc.base + loc.got) % PageSize = 0
  <2>1. CASE MapChunk(f, frames)
      BY <1>1, <1>3, <1>5, <2>1, MapStep
  <2>2. CASE MapChunkHangs(f, frames)
      BY <1>1, <1>3, <1>5, <2>2, HangStep
  <2> QED
      BY <1>3, <1>5, <2>1, <2>2
<1> QED
    BY <1>4, <1>5

\* The refill is complete: its range joins the pool and malloc takes the block.
LEMMA DoneStep ==
    ASSUME MallocFacts, RefillDone
    PROVE  MallocFacts'
<1>1. PICK base, got, asked, from :
          /\ base = loc.base /\ got = loc.got /\ asked = loc.asked
          /\ from = <<[node |-> base, ptr |-> base, size |-> got]>> \o pool
    OBVIOUS
<1>2. /\ pc = "refill" /\ got >= loc.size /\ TakeBlock(from, asked)
      /\ pc' = "idle" /\ loc' = NoLocals /\ UNCHANGED <<vtop, mapping, pmmFree>>
    BY <1>1 DEF RefillDone, Refilled
<1>3. /\ RefillFacts /\ ChunkFacts /\ Arena(pool, blocks) /\ MapFacts(mapping, vtop)
    BY <1>2 DEF MallocFacts
<1>4. PICK pages : pages = RangeSize
    OBVIOUS
<1>5. /\ pages \in Nat \ {0} /\ pages % PageSize = 0 /\ got \in Nat /\ base = vtop
      /\ vtop \in Nat /\ vtop % PageSize = 0 /\ loc.block \in Nat
      /\ loc.size \in Nat \ {0} /\ loc.size <= pages /\ pages < loc.size + PageSize
    BY <1>1, <1>2, <1>4, RefillLocals
<1>6. PageSize \in Nat /\ PageSize > 0
    BY PageSizeAssumption
<1>7. pages < got + PageSize
    BY <1>2, <1>5, <1>6
<1>8. got = pages
  <2>1. CASE Exact(pages, got, loc.block)
      BY <1>5, <1>7, <2>1, ExactEnds
  <2>2. ~Skewed(pages, got, loc.block)
      BY <1>5, <1>6, <1>7 DEF Skewed
  <2>3. ~Cut(pages, got)
      BY <1>5, <1>6, <1>7 DEF Cut
  <2> QED
      BY <1>1, <1>3, <1>4, <2>1, <2>2, <2>3 DEF ChunkFacts
<1>9. base \in Nat \ {0} /\ got \in Nat \ {0}
  <2>1. HeapBase < vtop /\ HeapBase \in Nat
      BY <1>3, MallocAssumption DEF RefillFacts
  <2> QED
      BY <1>5, <1>8, <2>1
<1>10. \A x \in Int : InUse(pool, blocks, x) <=> Mapped(mapping, x) /\ base + got <= x
    BY <1>1, <1>3, <1>4, <1>5, <1>8 DEF RefillFacts
<1>11. /\ Arena(from, blocks) /\ Len(from) >= 1 /\ from[1].size = got
       /\ \A x \in Int : InUse(from, blocks, x) <=> InUse(pool, blocks, x) \/ Between(base, got, x)
  <2>1. PICK list, bs, top : list = pool /\ bs = blocks /\ top = base + got
      OBVIOUS
  <2>2. /\ Arena(list, bs) /\ top = base + got
        /\ from = PutFront(list, base, got)
      BY <1>1, <1>3, <2>1 DEF PutFront
  <2>3. AllAbove(list, bs, top)
      BY <1>10, <2>1 DEF AllAbove
  <2>4. /\ Arena(from, bs) /\ Len(from) >= 1 /\ from[1].size = got
        /\ \A x \in Int : InUse(from, bs, x) <=> InUse(list, bs, x) \/ Between(base, got, x)
      BY ONLY <1>9, <2>2, <2>3, RefilledArena
  <2> QED
      BY <2>1, <2>4
<1>12. asked \in Requests /\ loc.size = BlockSize(asked)
    BY <1>1, <1>3 DEF RefillFacts
<1>13. PICK take : take = mm_alloc(from, BlockSize(asked))
    OBVIOUS
<1>14. /\ pool' = take.list
       /\ blocks' = blocks \cup {[ptr |-> take.ptr, size |-> BlockSize(asked), asked |-> asked]}
    BY <1>2, <1>13 DEF TakeBlock
<1>15. HasRoom(from, BlockSize(asked))
  <2>1. Len(from) \in Nat
      BY <1>11, ListFields DEF Arena
  <2>2. 1 \in 1 .. Len(from)
      BY <1>11, <2>1
  <2> QED
      BY <1>2, <1>11, <1>12, <2>2 DEF HasRoom
<1>16. /\ Arena(take.list, blocks')
       /\ \A x \in Int : InUse(take.list, blocks', x) <=> InUse(from, blocks, x)
  <2>1. PICK bs, new : bs = blocks /\ new = blocks'
      OBVIOUS
  <2>2. /\ Arena(from, bs) /\ asked \in Requests /\ take = mm_alloc(from, BlockSize(asked))
        /\ take.ptr # Null \/ HasRoom(from, BlockSize(asked))
        /\ new = bs \cup {[ptr |-> take.ptr, size |-> BlockSize(asked), asked |-> asked]}
      BY <1>11, <1>12, <1>13, <1>14, <1>15, <2>1
  <2>3. /\ Arena(take.list, new)
        /\ \A x \in Int : InUse(take.list, new, x) <=> InUse(from, bs, x)
      BY ONLY <2>2, TakeArena
  <2> QED
      BY <2>1, <2>3
<1>17. ASSUME NEW x \in Int PROVE InUse(from, blocks, x) <=> Mapped(mapping, x)
  <2>1. InUse(from, blocks, x) <=>
            (Mapped(mapping, x) /\ base + got <= x) \/ Between(base, got, x)
      BY <1>10, <1>11
  <2>2. ASSUME Mapped(mapping, x) PROVE base <= x
    <3>1. PICK page \in DOMAIN mapping : Between(page * PageSize, PageSize, x)
        BY <2>2 DEF Mapped
    <3>2. page \in Nat /\ base <= page * PageSize /\ page * PageSize \in Nat
        BY <1>3, <1>5, PageOrder DEF MapFacts
    <3> QED
        BY <1>9, <3>1, <3>2 DEF Between
  <2>3. ASSUME Between(base, got, x) PROVE Mapped(mapping, x)
    <3>1. x \in Nat
        BY <1>9, <2>3 DEF Between
    <3>2. PICK page \in Nat : Between(page * PageSize, PageSize, x)
        BY <3>1, PageOf
    <3>3. page * PageSize \in Nat
        BY PageOrder
    <3>4. page * PageSize < base => page * PageSize + PageSize <= base
        BY <1>5, PageBelow
    <3>5. base <= page * PageSize /\ page * PageSize < base + got
        BY <1>6, <1>9, <2>3, <3>1, <3>2, <3>3, <3>4 DEF Between
    <3>6. page \in DOMAIN mapping
        BY <1>1, <1>3, <1>4, <1>5, <1>8, <3>5 DEF RefillFacts
    <3> QED
        BY <3>2, <3>6 DEF Mapped
  <2>4. x < base + got /\ base <= x => Between(base, got, x)
      BY DEF Between
  <2>5. base + got <= x \/ x < base + got
      BY <1>9
  <2> QED
      BY <2>1, <2>2, <2>3, <2>4, <2>5
<1>18. Arena(pool', blocks') /\ IdleFacts'
    BY <1>2, <1>14, <1>16, <1>17 DEF IdleFacts
<1>19. torn' \in BOOLEAN
    BY <1>2, Zenon DEF TakeBlock
<1> QED
    BY <1>2, <1>18, <1>19, NoLocalsTyped DEF MallocFacts

\* After a refill that is undone, the machine halts.
LEMMA RollbackStep ==
    ASSUME MallocFacts, Rollback
    PROVE  MallocFacts'
<1>1. pc' \in {"panic", "fault"} /\ UNCHANGED <<loc, pool, blocks, vtop, mapping, pmmFree, torn>>
    BY DEF Rollback
<1> QED
    BY <1>1 DEF MallocFacts

\* free moves a block to the pool.
LEMMA FreeStep ==
    ASSUME MallocFacts, NEW b \in blocks, free(b)
    PROVE  MallocFacts'
<1>1. /\ pc = "idle" /\ UNCHANGED <<pc, loc, vtop, mapping, pmmFree, torn>>
      /\ pool' = mm_addNodeToMap(pool, [node |-> b.ptr, ptr |-> b.ptr, size |-> b.size]).list
      /\ blocks' = blocks \ {b}
    BY DEF free
<1>2. Arena(pool, blocks) /\ IdleFacts
    BY <1>1 DEF MallocFacts
<1>3. PICK new : new = pool'
    OBVIOUS
<1>4. /\ Arena(new, blocks \ {b})
      /\ \A x \in Int : InUse(new, blocks \ {b}, x) <=> InUse(pool, blocks, x)
  <2>1. PICK list, bs : list = pool /\ bs = blocks
      OBVIOUS
  <2>2. /\ Arena(list, bs) /\ b \in bs
        /\ new = mm_addNodeToMap(list, [node |-> b.ptr, ptr |-> b.ptr, size |-> b.size]).list
      BY <1>1, <1>2, <1>3, <2>1
  <2>3. /\ Arena(new, bs \ {b})
        /\ \A x \in Int : InUse(new, bs \ {b}, x) <=> InUse(list, bs, x)
      BY ONLY <2>2, FreeArena
  <2> QED
      BY <2>1, <2>3
<1>5. Arena(pool', blocks') /\ IdleFacts'
    BY <1>1, <1>2, <1>3, <1>4 DEF IdleFacts
<1> QED
    BY <1>1, <1>5 DEF MallocFacts

\* Every step of malloc, of its refill and of free keeps the invariant.
LEMMA NextFacts == MallocFacts /\ [Next]_vars => MallocFacts'
<1> SUFFICES ASSUME MallocFacts, [Next]_vars PROVE MallocFacts'
    OBVIOUS
<1>1. CASE UNCHANGED vars
    BY <1>1 DEF vars, MallocFacts, IdleFacts, RefillFacts, ChunkFacts, RangeSize
<1>2. ASSUME NEW asked \in Requests, malloc(asked) PROVE MallocFacts'
    BY <1>2, MallocStep
<1>3. ASSUME NEW b \in blocks, free(b) PROVE MallocFacts'
    BY <1>3, FreeStep
<1> QED
    BY <1>1, <1>2, <1>3, ChunkStep, RetryStep, DoneStep, RollbackStep DEF Next

\* The invariant holds in every state.
LEMMA AlwaysFacts == Spec => []MallocFacts
BY InitFacts, NextFacts, PTL DEF Spec

-----------------------------------------------------------------------------
(* What the invariant says of the sets of addresses. *)

\* A chunk holds the addresses between its ends.
LEMMA ChunkBetween ==
    ASSUME NEW ptr \in Nat, NEW size \in Nat
    PROVE  \A x : x \in Chunk(ptr, size) <=> x \in Int /\ Between(ptr, size, x)
BY DEF Chunk, Between

\* The memory of a list, address by address.
LEMMA MemoryCovers ==
    ASSUME NEW list \in Seq(Entry)
    PROVE  \A x : x \in Memory(list) <=> x \in Int /\ Covers(list, x)
<1>1. DOMAIN list = 1 .. Len(list)
    OBVIOUS
<1>2. \A i \in 1 .. Len(list) : list[i].ptr \in Nat /\ list[i].size \in Nat
    BY ListFields
<1>3. \A i \in 1 .. Len(list) : \A x :
        x \in Chunk(list[i].ptr, list[i].size)
            <=> x \in Int /\ Between(list[i].ptr, list[i].size, x)
    BY <1>2, ChunkBetween
<1>4. \A x : x \in Memory(list)
                 <=> \E i \in 1 .. Len(list) : x \in Chunk(list[i].ptr, list[i].size)
    BY <1>1 DEF Memory
<1> QED
    BY <1>3, <1>4 DEF Covers

\* The owner of a block touches no address outside the range of the block.
LEMMA TouchesBetween ==
    ASSUME NEW b, InHand(b)
    PROVE  \A x : x \in Touches(b) => x \in Int /\ Between(b.ptr, b.size, x)
<1>1. /\ b.ptr \in Nat /\ b.asked \in Requests /\ b.size = BlockSize(b.asked)
    BY DEF InHand
<1>2. b.asked \in Nat /\ b.size \in Nat /\ HeaderSize + b.asked <= b.size
    BY <1>1, BlockRoom
<1>3. HeaderSize \in Nat
    BY MallocAssumption DEF HeaderSize
<1>4. PICK room : room = HeaderSize + b.asked
    OBVIOUS
<1>5. room \in Nat /\ room <= b.size
    BY <1>2, <1>3, <1>4
<1>6. \A x : x \in Chunk(b.ptr, room) <=> x \in Int /\ Between(b.ptr, room, x)
    BY <1>1, <1>5, ChunkBetween
<1>7. \A x \in Int : Between(b.ptr, room, x) => Between(b.ptr, b.size, x)
    BY <1>1, <1>2, <1>5 DEF Between
<1> QED
    BY <1>4, <1>6, <1>7 DEF Touches

\* The invariant implies the type of every variable.
LEMMA FactsType == MallocFacts => TypeOK
<1> SUFFICES ASSUME MallocFacts PROVE TypeOK
    OBVIOUS
<1>1. pool \in Seq(Entry) /\ MapFacts(mapping, vtop) /\ pmmFree \subseteq Frames
    BY DEF MallocFacts, Arena
<1>2. \A i \in DOMAIN pool :
          pool[i].node \in Nat /\ pool[i].ptr \in Nat /\ pool[i].size \in Nat \ {0}
  <2>1. DOMAIN pool = 1 .. Len(pool)
      BY <1>1
  <2> QED
      BY <1>1, <2>1, ListFields
<1>3. PICK bottom, end : bottom = HeapBase \div PageSize /\ end = HeapTop \div PageSize
    OBVIOUS
<1>4. /\ bottom \in Nat /\ HeapBase = bottom * PageSize
      /\ end \in Nat /\ HeapTop = end * PageSize
    BY <1>3, MallocAssumption, PageIndex
<1>5. ASSUME NEW page \in DOMAIN mapping PROVE page \in bottom .. end
  <2>1. page \in Nat /\ bottom * PageSize <= page * PageSize /\ page * PageSize < end * PageSize
      BY <1>1, <1>4 DEF MapFacts
  <2>2. page < end
      BY <1>4, <2>1, PageOrder
  <2>3. page * PageSize \in Nat /\ bottom * PageSize \in Nat
      BY <1>4, <2>1, PageOrder
  <2>4. ~(page * PageSize < bottom * PageSize)
      BY <2>1, <2>3
  <2>5. ~(page < bottom)
      BY <1>4, <2>1, <2>4, PageOrder
  <2> QED
      BY ONLY <1>4, <2>1, <2>2, <2>5
<1> QED
    BY <1>1, <1>2, <1>3, <1>5 DEF TypeOK, MallocFacts

\* The invariant implies that outside a refill the pool and the blocks are the
\* memory that is mapped.
LEMMA FactsConserved == MallocFacts => PoolConserved
<1> SUFFICES ASSUME MallocFacts, pc = "idle"
             PROVE  Memory(pool) \cup UNION {Chunk(b.ptr, b.size) : b \in blocks}
                        = UNION {Chunk(page * PageSize, PageSize) : page \in DOMAIN mapping}
    BY DEF PoolConserved
<1>1. /\ pool \in Seq(Entry) /\ (\A b \in blocks : InHand(b))
      /\ MapFacts(mapping, vtop) /\ IdleFacts
    BY DEF MallocFacts, Arena
<1>2. \A x : x \in Memory(pool) <=> x \in Int /\ Covers(pool, x)
    BY <1>1, MemoryCovers
<1>3. \A b \in blocks : b.ptr \in Nat /\ b.size \in Nat
  <2>1. ASSUME NEW b \in blocks PROVE b.ptr \in Nat /\ b.size \in Nat
    <3>1. b.ptr \in Nat /\ b.asked \in Requests /\ b.size = BlockSize(b.asked)
        BY <1>1 DEF InHand
    <3> QED
        BY <3>1, BlockRoom
  <2> QED
      BY <2>1
<1>4. \A b \in blocks : \A x :
          x \in Chunk(b.ptr, b.size) <=> x \in Int /\ Between(b.ptr, b.size, x)
    BY <1>3, ChunkBetween
<1>5. \A page \in DOMAIN mapping : page * PageSize \in Nat
    BY <1>1, PageOrder DEF MapFacts
<1>6. \A page \in DOMAIN mapping : \A x :
          x \in Chunk(page * PageSize, PageSize)
              <=> x \in Int /\ Between(page * PageSize, PageSize, x)
    BY <1>5, ChunkBetween, PageSizeAssumption
<1>7. ASSUME NEW x
      PROVE  x \in UNION {Chunk(b.ptr, b.size) : b \in blocks}
                 <=> x \in Int /\ \E b \in blocks : Between(b.ptr, b.size, x)
  <2>1. x \in UNION {Chunk(b.ptr, b.size) : b \in blocks}
            <=> \E b \in blocks : x \in Chunk(b.ptr, b.size)
      OBVIOUS
  <2> QED
      BY <1>4, <2>1
<1>8. ASSUME NEW x
      PROVE  x \in UNION {Chunk(page * PageSize, PageSize) : page \in DOMAIN mapping}
                 <=> x \in Int /\ Mapped(mapping, x)
  <2>1. x \in UNION {Chunk(page * PageSize, PageSize) : page \in DOMAIN mapping}
            <=> \E page \in DOMAIN mapping : x \in Chunk(page * PageSize, PageSize)
      OBVIOUS
  <2> QED
      BY <1>6, <2>1 DEF Mapped
<1>9. \A x \in Int : (Covers(pool, x) \/ \E b \in blocks : Between(b.ptr, b.size, x))
                         <=> Mapped(mapping, x)
    BY <1>1 DEF IdleFacts, InUse
<1>10. PICK inPool, inBlocks, inPages :
           /\ inPool = Memory(pool)
           /\ inBlocks = UNION {Chunk(b.ptr, b.size) : b \in blocks}
           /\ inPages = UNION {Chunk(page * PageSize, PageSize) : page \in DOMAIN mapping}
    OBVIOUS
<1>11. ASSUME NEW x PROVE x \in inPool \/ x \in inBlocks <=> x \in inPages
    BY <1>2, <1>7, <1>8, <1>9, <1>10
<1>12. inPool \cup inBlocks = inPages
    BY <1>11
<1> QED
    BY <1>10, <1>12

\* The invariant implies that no two owners share an address.
LEMMA FactsDisjoint == MallocFacts => BlocksDisjoint
<1> SUFFICES ASSUME MallocFacts PROVE BlocksDisjoint
    OBVIOUS
<1>1. /\ pool \in Seq(Entry) /\ (\A b \in blocks : InHand(b)) /\ Apart(pool, blocks)
    BY DEF MallocFacts, Arena
<1>2. \A b \in blocks : \A x : x \in Touches(b) => x \in Int /\ Between(b.ptr, b.size, x)
    BY <1>1, TouchesBetween
<1>3. \A x : x \in Memory(pool) <=> x \in Int /\ Covers(pool, x)
    BY <1>1, MemoryCovers
<1>4. ASSUME NEW b \in blocks, NEW c \in blocks, b # c
      PROVE  Touches(b) \cap Touches(c) = {}
    BY <1>1, <1>2, <1>4 DEF Apart
<1>5. ASSUME NEW b \in blocks PROVE Touches(b) \cap Memory(pool) = {}
    BY <1>1, <1>2, <1>3 DEF Apart
<1> QED
    BY <1>4, <1>5 DEF BlocksDisjoint

-----------------------------------------------------------------------------
(* The theorems. *)

\* The pool of malloc through every split, merge and refill: its nodes are well
\* formed and in address order, as the search of mm_addNodeToMap needs, and
\* between two calls the pool and the blocks in use are exactly the memory that
\* the refills have mapped.  No call follows a refill that fails.
THEOREM PoolInvariant == Spec => []PoolInv
<1>1. MallocFacts => PoolOrdered
  <2>1. ASSUME MallocFacts PROVE PoolOrdered
    <3>1. pool \in Seq(Entry) /\ Ordered(pool)
        BY <2>1 DEF MallocFacts, Arena
    <3>2. DOMAIN pool = 1 .. Len(pool)
        BY <3>1
    <3> QED
        BY <3>1, <3>2 DEF PoolOrdered, Ordered, mm_getEntryEndAddress
  <2> QED
      BY <2>1
<1>2. MallocFacts => PoolInv
    BY <1>1, FactsType, FactsConserved DEF PoolInv
<1> QED
    BY <1>2, AlwaysFacts, PTL

\* The memory that malloc hands out, header included, is never shared: not by
\* two blocks, and not by a block and a free range that malloc may hand out.
THEOREM BlocksNeverOverlap == Spec => []BlocksDisjoint
BY FactsDisjoint, AlwaysFacts, PTL

\* No two pages of the heap lead to the same physical page, and none leads to a
\* page that pmm_alloc can return again, whatever chunks the refills were
\* mapped in, wherever they failed, and with however few pages left for tables.
THEOREM PagesAreBackedOnce == Spec => []BackedOnce
<1>1. MallocFacts => BackedOnce
  <2>1. ASSUME MallocFacts PROVE BackedOnce
    <3>1. Backed(mapping, pmmFree)
        BY <2>1 DEF MallocFacts
    <3> QED
        BY <3>1 DEF Backed, BackedOnce, IsInjective, Range
  <2> QED
      BY <2>1
<1> QED
    BY <1>1, AlwaysFacts, PTL
=============================================================================
