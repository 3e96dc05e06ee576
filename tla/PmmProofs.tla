----------------------------- MODULE PmmProofs -----------------------------
(***************************************************************************)
(* For every page size, word size and memory map that satisfy the          *)
(* assumptions of module Pmm: the free list stays ordered and disjoint, no *)
(* byte is both free and handed out, no operation loses memory, and the    *)
(* list-based manager implements the abstract allocator.  For every map    *)
(* of the boot loader that satisfies those of module Bootstrap: what the   *)
(* manager takes over is the usable memory.  And for any set of contexts:  *)
(* the spinlock that guards the list lets one in at a time.                *)
(***************************************************************************)
EXTENDS Bootstrap, Spinlock, SequenceTheorems, FiniteSetTheorems,
        WellFoundedInduction, TLAPS

-----------------------------------------------------------------------------
(* Rounding to pages. *)

\* A number whose remainder is 0 is a multiple of the page size.
LEMMA Multiple ==
    ASSUME NEW x \in Nat, x % PageSize = 0
    PROVE  \E k \in Nat : x = k * PageSize
<1>1. x \div PageSize \in Nat
    BY SizeAssumption
<1>2. x = (x \div PageSize) * PageSize
    BY SizeAssumption
<1> QED
    BY <1>1, <1>2

\* A multiple of the page size leaves remainder 0.
LEMMA MultipleRemainder ==
    ASSUME NEW k \in Nat
    PROVE  (k * PageSize) % PageSize = 0
BY SizeAssumption

\* The sum of two whole numbers of pages is one.
LEMMA AlignedSum ==
    ASSUME NEW x \in Nat, NEW y \in Nat, x % PageSize = 0, y % PageSize = 0
    PROVE  (x + y) % PageSize = 0
<1>1. PICK j \in Nat : x = j * PageSize
    BY Multiple
<1>2. PICK k \in Nat : y = k * PageSize
    BY Multiple
<1>3. x + y = (j + k) * PageSize
    BY <1>1, <1>2, SizeAssumption
<1> QED
    BY <1>3, MultipleRemainder

\* The difference of two whole numbers of pages is one.
LEMMA AlignedDifference ==
    ASSUME NEW x \in Nat, NEW y \in Nat, y <= x,
           x % PageSize = 0, y % PageSize = 0
    PROVE  (x - y) % PageSize = 0
<1>1. PICK j \in Nat : x = j * PageSize
    BY Multiple
<1>2. PICK k \in Nat : y = k * PageSize
    BY Multiple
<1>3. j - k \in Nat
    BY <1>1, <1>2, SizeAssumption
<1>4. x - y = (j - k) * PageSize
    BY <1>1, <1>2, SizeAssumption
<1> QED
    BY <1>3, <1>4, MultipleRemainder

\* mm_roundDownPage gives a whole number of pages, at most one page below.
LEMMA RoundDown ==
    ASSUME NEW x \in Nat
    PROVE  /\ mm_roundDownPage(x) \in Nat
           /\ mm_roundDownPage(x) % PageSize = 0
           /\ mm_roundDownPage(x) <= x
           /\ x < mm_roundDownPage(x) + PageSize
<1>1. x % PageSize \in 0 .. (PageSize - 1)
    BY SizeAssumption
<1>2. x \div PageSize \in Nat
    BY SizeAssumption
<1>3. x - (x % PageSize) = (x \div PageSize) * PageSize
    BY SizeAssumption
<1>4. (x - (x % PageSize)) % PageSize = 0
    BY <1>2, <1>3, MultipleRemainder
<1>5. x % PageSize <= x
    BY SizeAssumption
<1> QED
    BY <1>1, <1>4, <1>5, SizeAssumption DEF mm_roundDownPage

\* Rounding down does not go below a whole number of pages.
LEMMA RoundDownAbove ==
    ASSUME NEW x \in Nat, NEW y \in Nat, y % PageSize = 0, x < y
    PROVE  mm_roundDownPage(x) + PageSize <= y
<1> DEFINE d == mm_roundDownPage(x)
<1>1. d \in Nat /\ d % PageSize = 0 /\ d <= x
    BY RoundDown
<1>2. PICK j \in Nat : d = j * PageSize
    BY <1>1, Multiple
<1>3. PICK k \in Nat : y = k * PageSize
    BY Multiple
<1>4. j * PageSize < k * PageSize
    BY <1>1, <1>2, <1>3
<1>5. j + 1 <= k
    BY <1>4, SizeAssumption
<1>6. (j + 1) * PageSize <= k * PageSize
    BY <1>5, SizeAssumption
<1>7. (j + 1) * PageSize = j * PageSize + PageSize
    BY SizeAssumption
<1> QED
    BY <1>2, <1>3, <1>6, <1>7

\* mm_roundUpPage gives the next whole number of pages, or wraps to 0 in the
\* last page of the address space.
LEMMA RoundUp ==
    ASSUME NEW x \in Nat, x < Word
    PROVE  /\ mm_roundUpPage(x) \in Nat
           /\ mm_roundUpPage(x) % PageSize = 0
           /\ mm_roundUpPage(x) < x + PageSize
           /\ mm_roundUpPage(x) < Word
           /\ mm_roundUpPage(x) >= x \/ x + PageSize > Word
<1> DEFINE d == mm_roundDownPage(x)
<1>1. d \in Nat /\ d % PageSize = 0 /\ d <= x /\ x < d + PageSize
    BY RoundDown
<1>2. d + PageSize <= Word
    BY RoundDownAbove, SizeAssumption
<1>3. CASE d = x
    BY <1>1, <1>3, SizeAssumption DEF mm_roundUpPage
<1>4. CASE d # x /\ d + PageSize < Word
  <2>1. (d + PageSize) % Word = d + PageSize
      BY <1>1, <1>4, SizeAssumption
  <2>2. (d + PageSize) % PageSize = 0
    <3>1. PageSize % PageSize = 0 /\ PageSize \in Nat
        BY SizeAssumption
    <3> QED
        BY <3>1, <1>1, AlignedSum
  <2>3. mm_roundUpPage(x) = d + PageSize
      BY <1>4, <2>1 DEF mm_roundUpPage
  <2> HIDE DEF d
  <2> QED
      BY <1>1, <1>4, <2>2, <2>3, SizeAssumption
<1>5. CASE d # x /\ d + PageSize = Word
  <2>1. Word % Word = 0 /\ 0 % PageSize = 0
      BY <1>1, <1>5, SizeAssumption
  <2>2. mm_roundUpPage(x) = 0
      BY <1>5, <2>1 DEF mm_roundUpPage
  <2> HIDE DEF d
  <2> QED
      BY <1>1, <1>5, <2>1, <2>2, SizeAssumption
<1> HIDE DEF d
<1> QED
    BY <1>1, <1>2, <1>3, <1>4, <1>5, SizeAssumption

-----------------------------------------------------------------------------
(* Lists of ranges. *)

\* A byte is in the list's memory when some range of the list contains it.
LEMMA BytesMember ==
    ASSUME NEW list \in Seq(Node), NEW a
    PROVE  a \in Bytes(list) <=>
               \E i \in 1 .. Len(list) :
                   /\ a \in Int
                   /\ list[i].ptr <= a
                   /\ a < End(list[i])
<1>1. \A i \in 1 .. Len(list) : list[i] \in Node
    BY ElementOfSeq
<1>2. DOMAIN list = 1 .. Len(list)
    BY LenProperties
<1>3. \A i \in 1 .. Len(list) :
          a \in Chunk(list[i].ptr, list[i].size) <=>
              a \in Int /\ list[i].ptr <= a /\ a < End(list[i])
    BY <1>1 DEF Chunk, End, Node
<1> QED
    BY <1>2, <1>3 DEF Bytes

\* What InsertAt returns, index by index.
LEMMA InsertAtIndex ==
    ASSUME NEW list \in Seq(Node), NEW k \in 1 .. (Len(list) + 1), NEW e \in Node
    PROVE  /\ InsertAt(list, k, e) \in Seq(Node)
           /\ Len(InsertAt(list, k, e)) = Len(list) + 1
           /\ \A i \in 1 .. (Len(list) + 1) :
                InsertAt(list, k, e)[i] =
                    IF i < k THEN list[i] ELSE IF i = k THEN e ELSE list[i - 1]
<1> DEFINE front == SubSeq(list, 1, k - 1)
           back == SubSeq(list, k, Len(list))
<1>0. Len(list) \in Nat
    BY LenProperties
<1>1. /\ front \in Seq(Node) /\ Len(front) = k - 1
      /\ \A i \in 1 .. (k - 1) : front[i] = list[i]
    BY <1>0
<1>2. /\ back \in Seq(Node) /\ Len(back) = Len(list) + 1 - k
      /\ \A i \in 1 .. (Len(list) + 1 - k) : back[i] = list[k + i - 1]
    BY <1>0
<1>3. <<e>> \in Seq(Node) /\ Len(<<e>>) = 1 /\ <<e>>[1] = e
    OBVIOUS
<1>4. InsertAt(list, k, e) = (front \o <<e>>) \o back
    BY DEF InsertAt
<1> HIDE DEF front, back
<1>5. /\ front \o <<e>> \in Seq(Node) /\ Len(front \o <<e>>) = k
      /\ \A i \in 1 .. k : (front \o <<e>>)[i] = IF i < k THEN list[i] ELSE e
    BY <1>0, <1>1, <1>3
<1> DEFINE head == front \o <<e>>
<1>6. head \in Seq(Node) /\ back \in Seq(Node)
    BY <1>2, <1>5
<1> HIDE DEF head
<1>7. /\ head \o back \in Seq(Node)
      /\ Len(head \o back) = Len(head) + Len(back)
      /\ \A i \in 1 .. Len(head) + Len(back) :
            (head \o back)[i] =
                IF i <= Len(head) THEN head[i] ELSE back[i - Len(head)]
    BY <1>6, ConcatProperties
<1>8. Len(head) = k /\ \A i \in 1 .. k : head[i] = IF i < k THEN list[i] ELSE e
    BY <1>5 DEF head
<1>9. \A i \in 1 .. (Len(list) + 1) :
          (head \o back)[i] =
              IF i < k THEN list[i] ELSE IF i = k THEN e ELSE list[i - 1]
  <2> TAKE i \in 1 .. (Len(list) + 1)
  <2>0. i <= k \/ i > k
      BY <1>0
  <2>1. CASE i <= k
      BY <2>1, <1>0, <1>2, <1>7, <1>8
  <2>2. CASE i > k
    <3>1. (head \o back)[i] = back[i - k] /\ i - k \in 1 .. (Len(list) + 1 - k)
        BY <2>2, <1>0, <1>2, <1>7, <1>8
    <3>2. back[i - k] = list[k + (i - k) - 1]
        BY <3>1, <1>2
    <3>3. k + (i - k) - 1 = i - 1
        BY <1>0
    <3> QED
        BY <2>2, <3>1, <3>2, <3>3
  <2> QED
      BY <2>0, <2>1, <2>2
<1>10. InsertAt(list, k, e) = head \o back
    BY <1>4 DEF head
<1> QED
    BY <1>0, <1>2, <1>7, <1>8, <1>9, <1>10

\* What RemoveAt returns, index by index.
LEMMA RemoveAtIndex ==
    ASSUME NEW list \in Seq(Node), NEW k \in 1 .. Len(list)
    PROVE  /\ RemoveAt(list, k) \in Seq(Node)
           /\ Len(RemoveAt(list, k)) = Len(list) - 1
           /\ \A i \in 1 .. (Len(list) - 1) :
                RemoveAt(list, k)[i] = IF i < k THEN list[i] ELSE list[i + 1]
<1> DEFINE front == SubSeq(list, 1, k - 1)
           back == SubSeq(list, k + 1, Len(list))
<1>0. Len(list) \in Nat
    BY LenProperties
<1>1. /\ front \in Seq(Node) /\ Len(front) = k - 1
      /\ \A i \in 1 .. (k - 1) : front[i] = list[i]
    BY <1>0
<1>2. /\ back \in Seq(Node) /\ Len(back) = Len(list) - k
      /\ \A i \in 1 .. (Len(list) - k) : back[i] = list[k + i]
    BY <1>0
<1>3. RemoveAt(list, k) = front \o back
    BY DEF RemoveAt
<1> HIDE DEF front, back
<1>4. /\ front \o back \in Seq(Node)
      /\ Len(front \o back) = Len(front) + Len(back)
      /\ \A i \in 1 .. Len(front) + Len(back) :
            (front \o back)[i] =
                IF i <= Len(front) THEN front[i] ELSE back[i - Len(front)]
    BY <1>1, <1>2, ConcatProperties
<1>5. \A i \in 1 .. (Len(list) - 1) :
          (front \o back)[i] = IF i < k THEN list[i] ELSE list[i + 1]
  <2> TAKE i \in 1 .. (Len(list) - 1)
  <2>0. i < k \/ i >= k
      BY <1>0
  <2>1. CASE i < k
      BY <2>1, <1>0, <1>1, <1>2, <1>4
  <2>2. CASE i >= k
    <3>1. /\ (front \o back)[i] = back[i - (k - 1)]
          /\ i - (k - 1) \in 1 .. (Len(list) - k)
        BY <2>2, <1>0, <1>1, <1>2, <1>4
    <3>2. back[i - (k - 1)] = list[k + (i - (k - 1))]
        BY <3>1, <1>2
    <3>3. k + (i - (k - 1)) = i + 1
        BY <1>0
    <3> QED
        BY <2>2, <3>1, <3>2, <3>3
  <2> QED
      BY <2>0, <2>1, <2>2
<1> QED
    BY <1>0, <1>1, <1>2, <1>3, <1>4, <1>5

\* What the proofs know of a list of free ranges.
GoodList(list) ==
    /\ list \in Seq(Node)
    /\ OrderedList(list)
    /\ WholePageList(list)
    /\ InMemory(list)

\* A good list, index by index, in the terms the arithmetic needs.
LEMMA GoodListIndex ==
    ASSUME NEW list \in Seq(Node)
    PROVE  /\ Len(list) \in Nat
           /\ DOMAIN list = 1 .. Len(list)
           /\ \A i \in 1 .. Len(list) :
                /\ list[i] \in Node
                /\ list[i].ptr \in Nat /\ list[i].size \in Nat
                /\ End(list[i]) = list[i].ptr + list[i].size
<1>1. Len(list) \in Nat /\ DOMAIN list = 1 .. Len(list)
    BY LenProperties
<1>2. ASSUME NEW i \in 1 .. Len(list) PROVE list[i] \in Node
    BY ElementOfSeq
<1> QED
    BY <1>1, <1>2 DEF Node, End

\* Linking a range that overlaps no free memory at its place in address order
\* keeps the list good and adds exactly that range.
LEMMA InsertGood ==
    ASSUME NEW list, GoodList(list), NEW k \in 1 .. (Len(list) + 1),
           NEW ptr \in Nat, NEW size \in Nat,
           size > 0, ptr % PageSize = 0, size % PageSize = 0,
           PageSize <= ptr, ptr + size <= Word,
           Chunk(ptr, size) \cap Bytes(list) = {},
           \A j \in 1 .. (k - 1) : list[j].ptr < ptr,
           k <= Len(list) => list[k].ptr >= ptr
    PROVE  LET new == InsertAt(list, k, [ptr |-> ptr, size |-> size])
           IN  /\ GoodList(new)
               /\ Len(new) = Len(list) + 1
               /\ Bytes(new) = Bytes(list) \cup Chunk(ptr, size)
<1> DEFINE node == [ptr |-> ptr, size |-> size]
           new == InsertAt(list, k, node)
<1>1. node \in Node /\ node.ptr = ptr /\ node.size = size /\ End(node) = ptr + size
    BY DEF Node, End
<1>2. list \in Seq(Node)
    BY DEF GoodList
<1>3. /\ Len(list) \in Nat
      /\ DOMAIN list = 1 .. Len(list)
      /\ \A i \in 1 .. Len(list) :
            /\ list[i].ptr \in Nat /\ list[i].size \in Nat
            /\ End(list[i]) = list[i].ptr + list[i].size
    BY <1>2, GoodListIndex
<1> HIDE DEF node
<1>4. /\ new \in Seq(Node)
      /\ Len(new) = Len(list) + 1
      /\ \A i \in 1 .. (Len(list) + 1) :
            new[i] = IF i < k THEN list[i] ELSE IF i = k THEN node ELSE list[i - 1]
    BY ONLY <1>1, <1>2, k \in 1 .. (Len(list) + 1), InsertAtIndex DEF new
<1>5. DOMAIN new = 1 .. (Len(list) + 1)
    BY <1>4, GoodListIndex
<1> HIDE DEF new
<1>6. \A i \in 1 .. Len(list), j \in 1 .. Len(list) :
          /\ list[i].size > 0
          /\ i < j => End(list[i]) <= list[j].ptr
    BY <1>3 DEF GoodList, OrderedList
<1>7. \A a \in ptr .. (ptr + size - 1), i \in 1 .. Len(list) :
          ~(list[i].ptr <= a /\ a < End(list[i]))
  <2> SUFFICES ASSUME NEW a \in ptr .. (ptr + size - 1), NEW i \in 1 .. Len(list),
                      list[i].ptr <= a, a < End(list[i])
               PROVE  FALSE
      OBVIOUS
  <2>1. a \in Int
      OBVIOUS
  <2>2. a \in Bytes(list)
      BY <1>2, <2>1, BytesMember
  <2> QED
      BY <2>2 DEF Chunk
<1>8. \A i \in 1 .. (k - 1) : End(list[i]) <= ptr
  <2> TAKE i \in 1 .. (k - 1)
  <2>1. i \in 1 .. Len(list) /\ list[i].ptr < ptr
      BY <1>3
  <2>2. ptr \in ptr .. (ptr + size - 1)
      OBVIOUS
  <2> QED
      BY <2>1, <2>2, <1>3, <1>7
<1>9. \A i \in k .. Len(list) : ptr + size <= list[i].ptr
  <2>1. ASSUME k <= Len(list) PROVE ptr + size <= list[k].ptr
    <3>0. k \in 1 .. Len(list) /\ list[k].ptr >= ptr
        BY <2>1, <1>3
    <3>1. list[k].ptr < End(list[k])
        BY <3>0, <1>3, <1>6
    <3>2. list[k].ptr \notin ptr .. (ptr + size - 1)
        BY <3>0, <3>1, <1>3, <1>7
    <3> QED
        BY <3>0, <3>2, <1>3
  <2> TAKE i \in k .. Len(list)
  <2>2. k \in 1 .. Len(list) /\ i \in 1 .. Len(list) /\ (i = k \/ k < i)
      BY <1>3
  <2>3. CASE i = k
      BY <2>1, <2>2, <2>3
  <2>4. CASE k < i
    <3>1. End(list[k]) <= list[i].ptr /\ list[k].ptr <= End(list[k])
        BY <2>2, <2>4, <1>3, <1>6
    <3>2. ptr + size <= list[k].ptr
        BY <2>1, <2>2, <1>3
    <3> QED
        BY <2>2, <3>1, <3>2, <1>3
  <2> QED
      BY <2>2, <2>3, <2>4
<1>10. \A i \in 1 .. (Len(list) + 1) :
          \/ i < k /\ i \in 1 .. Len(list) /\ new[i] = list[i]
          \/ i = k /\ new[i] = node
          \/ i > k /\ i - 1 \in k .. Len(list) /\ i - 1 \in 1 .. Len(list)
             /\ new[i] = list[i - 1]
    BY <1>3, <1>4
<1>11. OrderedList(new)
  <2>1. \A i \in 1 .. (Len(list) + 1) : new[i].size > 0
      BY <1>1, <1>6, <1>10
  <2>2. ASSUME NEW i \in 1 .. (Len(list) + 1), NEW j \in 1 .. (Len(list) + 1), i < j
        PROVE  End(new[i]) <= new[j].ptr
    <3>1. CASE j < k
        BY <3>1, <2>2, <1>3, <1>6, <1>10
    <3>2. CASE j = k
        BY <3>2, <2>2, <1>1, <1>3, <1>8, <1>10
    <3>3. CASE i < k /\ j > k
      <4>1. i \in 1 .. Len(list) /\ j - 1 \in 1 .. Len(list) /\ i < j - 1
          BY <3>3, <1>3
      <4>2. new[i] = list[i] /\ new[j] = list[j - 1]
          BY <3>3, <1>3, <1>4
      <4> QED
          BY <4>1, <4>2, <1>6
    <3>4. CASE i = k /\ j > k
        BY <3>4, <2>2, <1>1, <1>3, <1>9, <1>10
    <3>5. CASE i > k /\ j > k
      <4>1. i - 1 \in 1 .. Len(list) /\ j - 1 \in 1 .. Len(list) /\ i - 1 < j - 1
          BY <3>5, <2>2, <1>3
      <4>2. ~(i < k) /\ i # k /\ ~(j < k) /\ j # k
          BY <3>5, <1>3
      <4>3. new[i] = list[i - 1] /\ new[j] = list[j - 1]
          BY <4>2, <1>3, <1>4
      <4> QED
          BY <4>1, <4>3, <1>6
    <3> QED
        BY <3>1, <3>2, <3>3, <3>4, <3>5, <2>2, <1>3
  <2> QED
      BY <2>1, <2>2, <1>5 DEF OrderedList
<1>12. WholePageList(new)
    BY <1>1, <1>3, <1>5, <1>10 DEF GoodList, WholePageList
<1>13. InMemory(new)
    BY <1>1, <1>3, <1>5, <1>10 DEF GoodList, InMemory
<1>14. Bytes(new) = Bytes(list) \cup Chunk(ptr, size)
  <2>1. ASSUME NEW a \in Bytes(new) PROVE a \in Bytes(list) \cup Chunk(ptr, size)
    <3>1. PICK i \in 1 .. (Len(list) + 1) :
              a \in Int /\ new[i].ptr <= a /\ a < End(new[i])
        BY <1>4, BytesMember
    <3>2. CASE i = k
        BY <3>1, <3>2, <1>1, <1>10 DEF Chunk
    <3>3. CASE i # k
      <4>1. PICK m \in 1 .. Len(list) : new[i] = list[m]
          BY <3>3, <1>10
      <4> QED
          BY <3>1, <4>1, <1>2, BytesMember
    <3> QED
        BY <3>2, <3>3
  <2>2. ASSUME NEW a \in Bytes(list) PROVE a \in Bytes(new)
    <3>1. PICK i \in 1 .. Len(list) :
              a \in Int /\ list[i].ptr <= a /\ a < End(list[i])
        BY <1>2, BytesMember
    <3>2. PICK m \in 1 .. (Len(list) + 1) : new[m] = list[i]
      <4>1. CASE i < k
          BY <4>1, <1>3, <1>4
      <4>2. CASE i >= k
        <5>1. i + 1 \in 1 .. (Len(list) + 1) /\ i + 1 > k /\ (i + 1) - 1 = i
            BY <4>2, <1>3
        <5>2. new[i + 1] = list[(i + 1) - 1]
            BY <5>1, <1>4
        <5> QED
            BY <5>1, <5>2
      <4> QED
          BY <4>1, <4>2, <1>3
    <3> QED
        BY <3>1, <3>2, <1>4, BytesMember
  <2>3. ASSUME NEW a \in Chunk(ptr, size) PROVE a \in Bytes(new)
    <3>1. a \in Int /\ ptr <= a /\ a < ptr + size
        BY <2>3 DEF Chunk
    <3>2. k \in 1 .. Len(new) /\ new[k] = node
        BY <1>3, <1>4
    <3> QED
        BY <3>1, <3>2, <1>1, <1>4, BytesMember
  <2> QED
      BY <2>1, <2>2, <2>3
<1> QED
    BY <1>4, <1>11, <1>12, <1>13, <1>14 DEF GoodList, new, node

\* Assigning the size of one node, index by index.
LEMMA ResizeIndex ==
    ASSUME NEW list \in Seq(Node), NEW i \in 1 .. Len(list), NEW size \in Nat
    PROVE  LET new == [list EXCEPT ![i].size = size]
           IN  /\ new \in Seq(Node)
               /\ Len(new) = Len(list)
               /\ \A j \in 1 .. Len(list) :
                    /\ new[j].ptr = list[j].ptr
                    /\ new[j].size = IF j = i THEN size ELSE list[j].size
                    /\ j # i => new[j] = list[j]
<1> DEFINE e == [list[i] EXCEPT !.size = size]
           new == [list EXCEPT ![i] = e]
<1>1. list[i] \in Node
    BY GoodListIndex
<1>2. e \in Node /\ e.ptr = list[i].ptr /\ e.size = size
    BY <1>1 DEF Node
<1> HIDE DEF e
<1>3. new \in Seq(Node) /\ Len(new) = Len(list)
    BY <1>2, ExceptSeq
<1>4. \A j \in 1 .. Len(list) : new[j] = IF j = i THEN e ELSE list[j]
    BY <1>2, ExceptSeq
<1> QED
    BY <1>2, <1>3, <1>4 DEF e

\* pmm_tryMergeNodes keeps a good list good and describes the same memory.
LEMMA MergeGood ==
    ASSUME NEW list, GoodList(list), NEW i \in 1 .. (Len(list) - 1)
    PROVE  LET new == pmm_tryMergeNodes(list, i)
           IN  /\ GoodList(new)
               /\ Bytes(new) = Bytes(list)
<1>1. list \in Seq(Node)
    BY DEF GoodList
<1>2. /\ Len(list) \in Nat
      /\ DOMAIN list = 1 .. Len(list)
      /\ \A j \in 1 .. Len(list) :
            /\ list[j].ptr \in Nat /\ list[j].size \in Nat
            /\ End(list[j]) = list[j].ptr + list[j].size
    BY <1>1, GoodListIndex
<1>3. \A j \in 1 .. Len(list), m \in 1 .. Len(list) :
          /\ list[j].size > 0
          /\ j < m => End(list[j]) <= list[m].ptr
    BY <1>2 DEF GoodList, OrderedList
<1>4. i \in 1 .. Len(list) /\ i + 1 \in 1 .. Len(list)
    BY <1>2
<1>5. CASE End(list[i]) # list[i + 1].ptr
    BY <1>5 DEF pmm_tryMergeNodes
<1>6. CASE End(list[i]) = list[i + 1].ptr
  <2> DEFINE sum == list[i].size + list[i + 1].size
             wide == [list EXCEPT ![i].size = sum]
             new == RemoveAt(wide, i + 1)
  <2>1. sum \in Nat
      BY <1>2, <1>4
  <2> HIDE DEF sum
  <2>2. /\ wide \in Seq(Node)
        /\ Len(wide) = Len(list)
        /\ \A j \in 1 .. Len(list) :
              /\ wide[j].ptr = list[j].ptr
              /\ wide[j].size = IF j = i THEN sum ELSE list[j].size
              /\ j # i => wide[j] = list[j]
      BY <1>1, <1>4, <2>1, ResizeIndex
  <2> HIDE DEF wide
  <2>3. /\ new \in Seq(Node)
        /\ Len(new) = Len(list) - 1
        /\ \A j \in 1 .. (Len(list) - 1) :
              new[j] = IF j < i + 1 THEN wide[j] ELSE wide[j + 1]
      BY <1>4, <2>2, RemoveAtIndex
  <2> HIDE DEF new
  <2>4. /\ DOMAIN new = 1 .. (Len(list) - 1)
        /\ \A j \in 1 .. (Len(list) - 1) :
              /\ new[j].ptr \in Nat /\ new[j].size \in Nat
              /\ End(new[j]) = new[j].ptr + new[j].size
      BY <2>3, GoodListIndex
  <2>5. \A j \in 1 .. (Len(list) - 1) : j < i => new[j] = list[j]
      BY <1>2, <2>2, <2>3
  <2>6. new[i].ptr = list[i].ptr /\ new[i].size = sum /\ End(new[i]) = End(list[i + 1])
    <3>1. i \in 1 .. (Len(list) - 1) /\ i < i + 1
        BY <1>2
    <3>2. new[i] = wide[i]
        BY <3>1, <2>3
    <3>3. new[i].ptr = list[i].ptr /\ new[i].size = sum
        BY <3>2, <1>4, <2>2
    <3> QED
        BY <3>1, <3>3, <1>2, <1>4, <1>6, <2>4 DEF sum
  <2>7. \A j \in 1 .. (Len(list) - 1) : j > i => new[j] = list[j + 1]
    <3> SUFFICES ASSUME NEW j \in 1 .. (Len(list) - 1), j > i
                 PROVE  new[j] = list[j + 1]
        OBVIOUS
    <3>1. j + 1 \in 1 .. Len(list) /\ j + 1 # i /\ ~(j < i + 1)
        BY <1>2
    <3> QED
        BY <3>1, <2>2, <2>3
  <2>8. OrderedList(new)
    <3>1. ASSUME NEW j \in 1 .. (Len(list) - 1) PROVE new[j].size > 0
      <4>1. CASE j < i
          BY <4>1, <1>2, <1>3, <2>5
      <4>2. CASE j = i
          BY <4>2, <1>2, <1>3, <1>4, <2>6 DEF sum
      <4>3. CASE j > i
          BY <4>3, <1>2, <1>3, <2>7
      <4> QED
          BY <4>1, <4>2, <4>3
    <3>2. ASSUME NEW j \in 1 .. (Len(list) - 1), NEW m \in 1 .. (Len(list) - 1), j < m
          PROVE  End(new[j]) <= new[m].ptr
      <4>1. CASE m < i
          BY <4>1, <3>2, <1>2, <1>3, <2>5
      <4>2. CASE m = i
          BY <4>2, <3>2, <1>2, <1>3, <1>4, <2>5, <2>6
      <4>3. CASE j < i /\ m > i
        <5>1. j \in 1 .. Len(list) /\ m + 1 \in 1 .. Len(list) /\ j < m + 1
            BY <4>3, <1>2
        <5>2. new[j] = list[j] /\ new[m] = list[m + 1]
            BY <4>3, <2>5, <2>7
        <5> QED
            BY <5>1, <5>2, <1>3
      <4>4. CASE j = i /\ m > i
        <5>1. i + 1 \in 1 .. Len(list) /\ m + 1 \in 1 .. Len(list) /\ i + 1 < m + 1
            BY <4>4, <1>2, <1>4
        <5>2. End(new[j]) = End(list[i + 1]) /\ new[m] = list[m + 1]
            BY <4>4, <2>6, <2>7
        <5> QED
            BY <5>1, <5>2, <1>3
      <4>5. CASE j > i /\ m > i
        <5>1. j + 1 \in 1 .. Len(list) /\ m + 1 \in 1 .. Len(list) /\ j + 1 < m + 1
            BY <4>5, <3>2, <1>2
        <5>2. new[j] = list[j + 1] /\ new[m] = list[m + 1]
            BY <4>5, <2>7
        <5> QED
            BY <5>1, <5>2, <1>3
      <4> QED
          BY <4>1, <4>2, <4>3, <4>4, <4>5, <3>2
    <3> QED
        BY <3>1, <3>2, <2>4 DEF OrderedList
  <2>9. WholePageList(new)
    <3>1. ASSUME NEW j \in 1 .. (Len(list) - 1)
          PROVE  new[j].ptr % PageSize = 0 /\ new[j].size % PageSize = 0
      <4>0. \A m \in 1 .. Len(list) :
                list[m].ptr % PageSize = 0 /\ list[m].size % PageSize = 0
          BY <1>2 DEF GoodList, WholePageList
      <4>1. CASE j < i
        <5>1. j \in 1 .. Len(list) /\ new[j] = list[j]
            BY <4>1, <1>2, <2>5
        <5> QED
            BY <4>0, <5>1
      <4>2. CASE j = i
        <5>1. sum % PageSize = 0
            BY <4>0, <1>2, <1>4, AlignedSum DEF sum
        <5> QED
            BY <4>0, <4>2, <5>1, <1>4, <2>6
      <4>3. CASE j > i
        <5>1. j + 1 \in 1 .. Len(list) /\ new[j] = list[j + 1]
            BY <4>3, <1>2, <2>7
        <5> QED
            BY <4>0, <5>1
      <4> QED
          BY <4>1, <4>2, <4>3
    <3> QED
        BY <3>1, <2>4 DEF WholePageList
  <2>10. InMemory(new)
    <3>1. ASSUME NEW j \in 1 .. (Len(list) - 1)
          PROVE  PageSize <= new[j].ptr /\ End(new[j]) <= Word
      <4>0. \A m \in 1 .. Len(list) : PageSize <= list[m].ptr /\ End(list[m]) <= Word
          BY <1>2 DEF GoodList, InMemory
      <4>1. CASE j < i
        <5>1. j \in 1 .. Len(list) /\ new[j] = list[j]
            BY <4>1, <1>2, <2>5
        <5> QED
            BY <4>0, <5>1
      <4>2. CASE j = i
          BY <4>0, <4>2, <1>4, <2>6
      <4>3. CASE j > i
        <5>1. j + 1 \in 1 .. Len(list) /\ new[j] = list[j + 1]
            BY <4>3, <1>2, <2>7
        <5> QED
            BY <4>0, <5>1
      <4> QED
          BY <4>1, <4>2, <4>3
    <3> QED
        BY <3>1, <2>4 DEF InMemory
  <2>11. Bytes(new) = Bytes(list)
    <3>1. ASSUME NEW a \in Bytes(new) PROVE a \in Bytes(list)
      <4>1. PICK j \in 1 .. (Len(list) - 1) :
                a \in Int /\ new[j].ptr <= a /\ a < End(new[j])
          BY <2>3, BytesMember
      <4>2. \E m \in 1 .. Len(list) : list[m].ptr <= a /\ a < End(list[m])
        <5>1. CASE j < i
            BY <4>1, <5>1, <1>2, <2>5
        <5>2. CASE j = i
          <6>1. list[i].ptr <= a /\ a < End(list[i + 1])
              BY <4>1, <5>2, <2>6
          <6>2. a < End(list[i]) \/ list[i + 1].ptr <= a
              BY <4>1, <1>2, <1>4, <1>6
          <6> QED
              BY <6>1, <6>2, <1>4
        <5>3. CASE j > i
          <6>1. j + 1 \in 1 .. Len(list) /\ new[j] = list[j + 1]
              BY <5>3, <1>2, <2>7
          <6> QED
              BY <4>1, <6>1
        <5> QED
            BY <5>1, <5>2, <5>3
      <4> QED
          BY <4>1, <4>2, <1>1, BytesMember
    <3>2. ASSUME NEW a \in Bytes(list) PROVE a \in Bytes(new)
      <4>1. PICK j \in 1 .. Len(list) :
                a \in Int /\ list[j].ptr <= a /\ a < End(list[j])
          BY <1>1, BytesMember
      <4>2. \E m \in 1 .. (Len(list) - 1) : new[m].ptr <= a /\ a < End(new[m])
        <5>1. CASE j < i
          <6>1. j \in 1 .. (Len(list) - 1) /\ new[j] = list[j]
              BY <5>1, <1>2, <2>5
          <6> QED
              BY <4>1, <6>1
        <5>2. CASE j = i \/ j = i + 1
          <6>1. list[i].ptr <= a /\ a < End(list[i + 1])
            <7>0. /\ list[i].ptr \in Nat /\ list[i + 1].ptr \in Nat
                  /\ End(list[i]) \in Nat /\ End(list[i + 1]) \in Nat
                  /\ list[i].ptr < End(list[i]) /\ End(list[i]) = list[i + 1].ptr
                  /\ list[i + 1].ptr < End(list[i + 1])
              <8>1. /\ list[i].ptr \in Nat /\ list[i].size \in Nat
                    /\ End(list[i]) = list[i].ptr + list[i].size
                  BY <1>2, <1>4
              <8>2. /\ list[i + 1].ptr \in Nat /\ list[i + 1].size \in Nat
                    /\ End(list[i + 1]) = list[i + 1].ptr + list[i + 1].size
                  BY <1>2, <1>4
              <8>3. list[i].size > 0 /\ list[i + 1].size > 0
                  BY <1>3, <1>4
              <8> QED
                  BY <8>1, <8>2, <8>3, <1>6
            <7>1. CASE j = i
                BY <4>1, <7>0, <7>1
            <7>2. CASE j = i + 1
                BY <4>1, <7>0, <7>2
            <7> QED
                BY <5>2, <7>1, <7>2
          <6> QED
              BY <6>1, <1>4, <2>6
        <5>3. CASE j > i + 1
          <6>1. j - 1 \in 1 .. (Len(list) - 1) /\ j - 1 > i /\ (j - 1) + 1 = j
              BY <5>3, <1>2
          <6>2. new[j - 1] = list[(j - 1) + 1]
              BY <6>1, <2>7
          <6> QED
              BY <4>1, <6>1, <6>2
        <5> QED
            BY <5>1, <5>2, <5>3, <1>2
      <4> QED
          BY <4>1, <4>2, <2>3, BytesMember
    <3> QED
        BY <3>1, <3>2
  <2>12. pmm_tryMergeNodes(list, i) = new
      BY <1>6 DEF pmm_tryMergeNodes, new, wide, sum
  <2> QED
      BY <2>3, <2>8, <2>9, <2>10, <2>11, <2>12 DEF GoodList
<1> QED
    BY <1>5, <1>6

\* Unlinking a node keeps a good list good and removes exactly its range.
LEMMA RemoveGood ==
    ASSUME NEW list, GoodList(list), NEW i \in 1 .. Len(list)
    PROVE  /\ GoodList(RemoveAt(list, i))
           /\ Bytes(RemoveAt(list, i)) =
                  Bytes(list) \ Chunk(list[i].ptr, list[i].size)
<1> DEFINE new == RemoveAt(list, i)
<1>1. list \in Seq(Node)
    BY DEF GoodList
<1>2. /\ Len(list) \in Nat
      /\ DOMAIN list = 1 .. Len(list)
      /\ \A j \in 1 .. Len(list) :
            /\ list[j].ptr \in Nat /\ list[j].size \in Nat
            /\ End(list[j]) = list[j].ptr + list[j].size
    BY <1>1, GoodListIndex
<1>3. \A j \in 1 .. Len(list), m \in 1 .. Len(list) :
          j < m => End(list[j]) <= list[m].ptr
    BY <1>2 DEF GoodList, OrderedList
<1>4. /\ new \in Seq(Node)
      /\ Len(new) = Len(list) - 1
      /\ \A j \in 1 .. (Len(list) - 1) :
            new[j] = IF j < i THEN list[j] ELSE list[j + 1]
    BY <1>1, RemoveAtIndex
<1>5. DOMAIN new = 1 .. (Len(list) - 1)
    BY <1>4, GoodListIndex
<1> HIDE DEF new
<1> DEFINE old(j) == IF j < i THEN j ELSE j + 1
<1>6. \A j \in 1 .. (Len(list) - 1) :
          old(j) \in 1 .. Len(list) /\ old(j) # i /\ new[j] = list[old(j)]
    BY <1>2, <1>4
<1>7. \A j, m \in 1 .. (Len(list) - 1) : j < m => old(j) < old(m)
    BY <1>2
<1> HIDE DEF old
<1>8. OrderedList(new)
    BY <1>2, <1>5, <1>6, <1>7 DEF GoodList, OrderedList
<1>9. WholePageList(new)
    BY <1>2, <1>5, <1>6 DEF GoodList, WholePageList
<1>10. InMemory(new)
    BY <1>2, <1>5, <1>6 DEF GoodList, InMemory
<1>11. ASSUME NEW a \in Bytes(new)
       PROVE  a \in Bytes(list) \ Chunk(list[i].ptr, list[i].size)
  <2>1. PICK j \in 1 .. (Len(list) - 1) :
            a \in Int /\ new[j].ptr <= a /\ a < End(new[j])
      BY <1>4, BytesMember
  <2>2. PICK m \in 1 .. Len(list) : m # i /\ list[m].ptr <= a /\ a < End(list[m])
      BY <1>6, <2>1
  <2>3. a \in Bytes(list)
      BY <1>1, <2>1, <2>2, BytesMember
  <2>4. m < i \/ i < m
      BY <1>2, <2>2
  <2>5. ~(list[i].ptr <= a /\ a < End(list[i]))
    <3>1. CASE m < i
      <4>1. End(list[m]) <= list[i].ptr
          BY <3>1, <1>3
      <4> QED
          BY <4>1, <1>2, <2>1, <2>2
    <3>2. CASE i < m
      <4>1. End(list[i]) <= list[m].ptr
          BY <3>2, <1>3
      <4> QED
          BY <4>1, <1>2, <2>1, <2>2
    <3> QED
        BY <2>4, <3>1, <3>2
  <2>6. a \notin Chunk(list[i].ptr, list[i].size)
      BY <1>2, <2>5 DEF Chunk
  <2> QED
      BY <2>3, <2>6
<1>12. ASSUME NEW a \in Bytes(list), a \notin Chunk(list[i].ptr, list[i].size)
       PROVE  a \in Bytes(new)
  <2>1. PICK j \in 1 .. Len(list) : a \in Int /\ list[j].ptr <= a /\ a < End(list[j])
      BY <1>1, BytesMember
  <2>2. j # i
      BY <1>2, <1>12, <2>1 DEF Chunk
  <2>3. \E m \in 1 .. (Len(list) - 1) : new[m] = list[j]
    <3>1. CASE j < i
      <4>1. j \in 1 .. (Len(list) - 1)
          BY <3>1, <1>2
      <4> QED
          BY <3>1, <4>1, <1>4
    <3>2. CASE j > i
      <4>1. j - 1 \in 1 .. (Len(list) - 1) /\ ~(j - 1 < i) /\ (j - 1) + 1 = j
          BY <3>2, <1>2
      <4>2. new[j - 1] = list[(j - 1) + 1]
          BY <4>1, <1>4
      <4> QED
          BY <4>1, <4>2
    <3> QED
        BY <2>2, <3>1, <3>2, <1>2
  <2> QED
      BY <1>4, <2>1, <2>3, BytesMember
<1> QED
    BY <1>4, <1>8, <1>9, <1>10, <1>11, <1>12 DEF GoodList, new

\* Shrinking a node from its end keeps a good list good and removes exactly
\* the bytes that the node gave up.
LEMMA ShrinkGood ==
    ASSUME NEW list, GoodList(list), NEW i \in 1 .. Len(list),
           NEW size \in Nat, size < list[i].size, size % PageSize = 0
    PROVE  /\ GoodList(Shrink(list, i, size))
           /\ Bytes(Shrink(list, i, size)) =
                  Bytes(list) \ Chunk(End(list[i]) - size, size)
<1> DEFINE less == list[i].size - size
           new == Shrink(list, i, size)
<1>0. new = [list EXCEPT ![i].size = less]
    BY DEF Shrink
<1> HIDE DEF new
<1>1. list \in Seq(Node)
    BY DEF GoodList
<1>2. /\ Len(list) \in Nat
      /\ DOMAIN list = 1 .. Len(list)
      /\ \A j \in 1 .. Len(list) :
            /\ list[j].ptr \in Nat /\ list[j].size \in Nat
            /\ End(list[j]) = list[j].ptr + list[j].size
    BY <1>1, GoodListIndex
<1>3. \A j \in 1 .. Len(list), m \in 1 .. Len(list) :
          /\ list[j].size > 0
          /\ j < m => End(list[j]) <= list[m].ptr
    BY <1>2 DEF GoodList, OrderedList
<1>4. less \in Nat /\ less > 0 /\ less = list[i].size - size
    BY <1>2
<1> HIDE DEF less
<1>5. /\ new \in Seq(Node)
      /\ Len(new) = Len(list)
      /\ \A j \in 1 .. Len(list) :
            /\ new[j].ptr = list[j].ptr
            /\ new[j].size = IF j = i THEN less ELSE list[j].size
            /\ j # i => new[j] = list[j]
    BY <1>0, <1>1, <1>4, ResizeIndex
<1>6. /\ DOMAIN new = 1 .. Len(list)
      /\ \A j \in 1 .. Len(list) : End(new[j]) = new[j].ptr + new[j].size
    BY <1>5, GoodListIndex
<1>7. \A j \in 1 .. Len(list) :
          /\ new[j].size > 0
          /\ End(new[j]) = IF j = i THEN End(list[i]) - size ELSE End(list[j])
  <2> TAKE j \in 1 .. Len(list)
  <2>1. CASE j = i
    <3>1. new[i].ptr = list[i].ptr /\ new[i].size = less
        BY <1>5
    <3>2. End(new[i]) = list[i].ptr + less /\ End(list[i]) = list[i].ptr + list[i].size
        BY <3>1, <1>2, <1>6
    <3>3. list[i].ptr \in Nat /\ list[i].size \in Nat
        BY <1>2
    <3> QED
        BY <2>1, <3>1, <3>2, <3>3, <1>4
  <2>2. CASE j # i
      BY <2>2, <1>3, <1>5
  <2> QED
      BY <2>1, <2>2
<1>8. \A j \in 1 .. Len(list) : End(list[j]) \in Nat
    BY <1>2
<1>9. \A j \in 1 .. Len(list) : End(new[j]) \in Int /\ End(new[j]) <= End(list[j])
    BY <1>2, <1>7, <1>8
<1>10. OrderedList(new)
  <2>1. ASSUME NEW j \in 1 .. Len(list), NEW m \in 1 .. Len(list), j < m
        PROVE  End(new[j]) <= new[m].ptr
    <3>1. End(new[j]) <= End(list[j]) /\ End(list[j]) <= list[m].ptr
        BY <2>1, <1>3, <1>9
    <3>2. new[m].ptr = list[m].ptr /\ list[m].ptr \in Nat
        BY <1>2, <1>5
    <3>3. End(list[j]) \in Nat /\ End(new[j]) \in Int
        BY <1>8, <1>9
    <3> QED
        BY <3>1, <3>2, <3>3
  <2> QED
      BY <2>1, <1>6, <1>7 DEF OrderedList
<1>11. WholePageList(new)
  <2>1. less % PageSize = 0
    <3>1. list[i].size % PageSize = 0 /\ list[i].size \in Nat /\ size <= list[i].size
        BY <1>2 DEF GoodList, WholePageList
    <3> QED
        BY <1>4, <3>1, AlignedDifference
  <2> QED
      BY <1>2, <1>5, <1>6, <2>1 DEF GoodList, WholePageList
<1>12. InMemory(new)
  <2>1. \A j \in 1 .. Len(list) : PageSize <= list[j].ptr /\ End(list[j]) <= Word
      BY <1>2 DEF GoodList, InMemory
  <2>3. \A j \in 1 .. Len(list) : End(new[j]) <= Word
    <3> TAKE j \in 1 .. Len(list)
    <3>1. End(new[j]) <= End(list[j]) /\ End(list[j]) <= Word
        BY <2>1, <1>9
    <3>2. End(new[j]) \in Int /\ End(list[j]) \in Int
        BY <1>8, <1>9
    <3> QED
        BY <3>1, <3>2, SizeAssumption
  <2> QED
      BY <2>1, <2>3, <1>5, <1>6 DEF InMemory
<1>13. ASSUME NEW a \in Bytes(new)
       PROVE  a \in Bytes(list) \ Chunk(End(list[i]) - size, size)
  <2>1. PICK j \in 1 .. Len(list) : a \in Int /\ new[j].ptr <= a /\ a < End(new[j])
      BY <1>5, BytesMember
  <2>2. list[j].ptr <= a /\ a < End(list[j])
    <3>1. new[j].ptr = list[j].ptr
        BY <1>5
    <3>2. End(new[j]) <= End(list[j]) /\ End(new[j]) \in Int /\ End(list[j]) \in Int
        BY <1>8, <1>9
    <3> QED
        BY <2>1, <3>1, <3>2
  <2>3. a \in Bytes(list)
      BY <1>1, <2>1, <2>2, BytesMember
  <2>4. ~(End(list[i]) - size <= a /\ a < End(list[i]))
    <3>1. CASE j = i
        BY <3>1, <1>2, <1>7, <2>1
    <3>2. CASE j < i
      <4>1. End(list[j]) <= list[i].ptr
          BY <3>2, <1>3
      <4> QED
          BY <4>1, <1>2, <2>1, <2>2
    <3>3. CASE j > i
      <4>1. End(list[i]) <= list[j].ptr
          BY <3>3, <1>3
      <4> QED
          BY <4>1, <1>2, <2>1, <2>2
    <3> QED
        BY <3>1, <3>2, <3>3, <1>2
  <2>5. a \notin Chunk(End(list[i]) - size, size)
      BY <1>2, <2>4 DEF Chunk
  <2> QED
      BY <2>3, <2>5
<1>14. ASSUME NEW a \in Bytes(list), a \notin Chunk(End(list[i]) - size, size)
       PROVE  a \in Bytes(new)
  <2>1. PICK j \in 1 .. Len(list) : a \in Int /\ list[j].ptr <= a /\ a < End(list[j])
      BY <1>1, BytesMember
  <2>2. new[j].ptr <= a /\ a < End(new[j])
    <3>1. CASE j = i
        BY <3>1, <1>2, <1>5, <1>7, <1>14, <2>1 DEF Chunk
    <3>2. CASE j # i
        BY <3>2, <1>5, <2>1
    <3> QED
        BY <3>1, <3>2
  <2> QED
      BY <1>5, <2>1, <2>2, BytesMember
<1> QED
    BY <1>5, <1>10, <1>11, <1>12, <1>13, <1>14 DEF GoodList, new

-----------------------------------------------------------------------------
(* The operations. *)

\* Taking size bytes off the end of node i: the bytes were free, and they are
\* exactly what the list loses.
LEMMA TakeGood ==
    ASSUME GoodList(freeList), NEW i \in DOMAIN freeList,
           NEW size \in Nat, size <= freeList[i].size, size % PageSize = 0
    PROVE  LET chunk == Chunk(End(freeList[i]) - size, size)
           IN  /\ GoodList(Take(i, size))
               /\ Bytes(Take(i, size)) = Bytes(freeList) \ chunk
               /\ chunk \subseteq Bytes(freeList)
               /\ End(freeList[i]) - size \in 0 .. Word
               /\ size \in 0 .. Word
<1>1. freeList \in Seq(Node)
    BY DEF GoodList
<1>2. /\ i \in 1 .. Len(freeList)
      /\ freeList[i].ptr \in Nat /\ freeList[i].size \in Nat
      /\ End(freeList[i]) = freeList[i].ptr + freeList[i].size
    BY <1>1, GoodListIndex
<1>3. End(freeList[i]) <= Word
    BY DEF GoodList, InMemory
<1>4. Chunk(End(freeList[i]) - size, size) \subseteq Bytes(freeList)
  <2>1. ASSUME NEW a \in Chunk(End(freeList[i]) - size, size)
        PROVE  a \in Bytes(freeList)
    <3>1. a \in Int /\ freeList[i].ptr <= a /\ a < End(freeList[i])
        BY <1>2 DEF Chunk
    <3> QED
        BY <3>1, <1>1, <1>2, BytesMember
  <2> QED
      BY <2>1
<1>5. CASE freeList[i].size = size
  <2>1. End(freeList[i]) - size = freeList[i].ptr
      BY <1>2, <1>5
  <2>2. Take(i, size) = RemoveAt(freeList, i)
      BY <1>5 DEF Take
  <2>3. /\ GoodList(RemoveAt(freeList, i))
        /\ Bytes(RemoveAt(freeList, i)) =
               Bytes(freeList) \ Chunk(freeList[i].ptr, freeList[i].size)
      BY <1>2, RemoveGood
  <2>4. End(freeList[i]) - size \in 0 .. Word /\ size \in 0 .. Word
      BY <1>2, <1>3, <2>1, SizeAssumption
  <2>5. Bytes(Take(i, size)) = Bytes(freeList) \ Chunk(End(freeList[i]) - size, size)
      BY <1>5, <2>1, <2>2, <2>3
  <2> QED
      BY <1>4, <2>2, <2>3, <2>4, <2>5
<1>6. CASE freeList[i].size # size
  <2>1. size < freeList[i].size
      BY <1>2, <1>6
  <2>2. /\ GoodList(Take(i, size))
        /\ Bytes(Take(i, size)) =
               Bytes(freeList) \ Chunk(End(freeList[i]) - size, size)
    <3>1. Take(i, size) = Shrink(freeList, i, size)
        BY <1>6 DEF Take
    <3> QED
        BY <1>2, <2>1, <3>1, ShrinkGood
  <2> QED
      BY <1>2, <1>3, <1>4, <2>2, SizeAssumption
<1> QED
    BY <1>5, <1>6

\* Linking a freed range and trying both merges: the list stays good and gains
\* exactly the freed range.
LEMMA GiveBackGood ==
    ASSUME GoodList(freeList), NEW k \in 1 .. (Len(freeList) + 1),
           NEW ptr \in Nat, NEW size \in Nat,
           size > 0, ptr % PageSize = 0, size % PageSize = 0,
           PageSize <= ptr, ptr + size <= Word,
           Chunk(ptr, size) \cap Bytes(freeList) = {},
           InsertionPoint(k, ptr)
    PROVE  LET new == GiveBack(k, [ptr |-> ptr, size |-> size])
           IN  /\ GoodList(new)
               /\ Bytes(new) = Bytes(freeList) \cup Chunk(ptr, size)
<1> DEFINE linked == InsertAt(freeList, k, [ptr |-> ptr, size |-> size])
           merged == IF k > 1 THEN pmm_tryMergeNodes(linked, k - 1) ELSE linked
<1>1. /\ GoodList(linked)
      /\ Len(linked) = Len(freeList) + 1
      /\ Bytes(linked) = Bytes(freeList) \cup Chunk(ptr, size)
    BY InsertGood DEF InsertionPoint
<1>2. Len(freeList) \in Nat
    BY LenProperties DEF GoodList
<1> HIDE DEF linked
<1>3. GoodList(merged) /\ Bytes(merged) = Bytes(linked)
  <2>1. CASE k > 1
    <3>1. k - 1 \in 1 .. (Len(linked) - 1)
        BY <1>1, <1>2, <2>1
    <3> QED
        BY <1>1, <2>1, <3>1, MergeGood
  <2>2. CASE ~(k > 1)
      BY <1>1, <2>2
  <2> QED
      BY <2>1, <2>2
<1>4. GiveBack(k, [ptr |-> ptr, size |-> size]) =
          IF Len(merged) = Len(linked) /\ k <= Len(freeList)
          THEN pmm_tryMergeNodes(merged, k)
          ELSE merged
    BY DEF GiveBack, linked
<1> HIDE DEF merged
<1>5. CASE Len(merged) = Len(linked) /\ k <= Len(freeList)
  <2>1. k \in 1 .. (Len(merged) - 1)
      BY <1>1, <1>2, <1>5
  <2>2. /\ GoodList(pmm_tryMergeNodes(merged, k))
        /\ Bytes(pmm_tryMergeNodes(merged, k)) = Bytes(merged)
      BY <1>3, <2>1, MergeGood
  <2> QED
      BY <1>1, <1>3, <1>4, <1>5, <2>2
<1>6. CASE ~(Len(merged) = Len(linked) /\ k <= Len(freeList))
    BY <1>1, <1>3, <1>4, <1>6
<1> QED
    BY <1>5, <1>6

\* The free memory of a good list is usable memory.
LEMMA GoodBytes ==
    ASSUME NEW list, GoodList(list)
    PROVE  Bytes(list) \subseteq PageSize .. (Word - 1)
<1> SUFFICES ASSUME NEW a \in Bytes(list) PROVE a \in PageSize .. (Word - 1)
    OBVIOUS
<1>1. list \in Seq(Node)
    BY DEF GoodList
<1>2. PICK i \in 1 .. Len(list) : a \in Int /\ list[i].ptr <= a /\ a < End(list[i])
    BY <1>1, BytesMember
<1>3. PageSize <= list[i].ptr /\ End(list[i]) <= Word
    BY <1>1, GoodListIndex DEF GoodList, InMemory
<1>4. list[i].ptr \in Nat /\ End(list[i]) \in Nat
    BY <1>1, GoodListIndex
<1> QED
    BY <1>2, <1>3, <1>4, SizeAssumption

\* What one iteration of pmm_init adds to the list: nothing, or the whole pages
\* of a FREE entry that starts on a page boundary.
LEMMA InitEntryAdds ==
    ASSUME TypeOK, InitEntry
    PROVE  \/ UNCHANGED freeList
           \/ \E size \in Nat :
                /\ size > 0
                /\ size % PageSize = 0
                /\ size <= MemoryMap[index].size
                /\ MemoryMap[index].ptr % PageSize = 0
                /\ freeList' = InsertAt(freeList, 1,
                                   [ptr |-> MemoryMap[index].ptr, size |-> size])
<1> DEFINE entry == MemoryMap[index]
           start == mm_roundUpPage(entry.ptr)
           startOffset == (entry.ptr - start) % Word
           size == mm_roundDownPage((entry.size - (start - entry.ptr)) % Word)
<1>1. index \in DOMAIN MemoryMap
  <2>1. Len(MemoryMap) \in Nat /\ DOMAIN MemoryMap = 1 .. Len(MemoryMap)
      BY MapAssumption, LenProperties
  <2> QED
      BY <2>1 DEF InitEntry, TypeOK
<1>2. entry.ptr \in Nat /\ entry.size \in Nat
  <2>1. entry \in MapEntry
      BY <1>1, MapAssumption, ElementOfSeq, LenProperties
  <2> QED
      BY <2>1 DEF MapEntry
<1>3. entry.ptr >= PageSize /\ entry.ptr + entry.size + PageSize <= Word
    BY <1>1, MapAssumption
<1> HIDE DEF entry
<1>4. entry.ptr < Word /\ entry.ptr + PageSize <= Word
    BY <1>2, <1>3, SizeAssumption
<1>5. /\ start \in Nat /\ start % PageSize = 0
      /\ entry.ptr <= start /\ start < entry.ptr + PageSize
    BY <1>2, <1>4, RoundUp, SizeAssumption
<1>6. \/ UNCHANGED freeList
      \/ /\ entry.size >= startOffset
         /\ size # 0
         /\ freeList' = InsertAt(freeList, 1, [ptr |-> start, size |-> size])
    BY DEF InitEntry, entry
<1> HIDE DEF start
<1>7. ASSUME entry.size >= startOffset PROVE start = entry.ptr
  <2>1. SUFFICES ASSUME start > entry.ptr PROVE FALSE
      BY <1>2, <1>5
  <2>2. start - entry.ptr \in Nat /\ start - entry.ptr > 0 /\ start - entry.ptr < PageSize
      BY <2>1, <1>2, <1>5, SizeAssumption
  <2>3. entry.ptr - start = 0 - (start - entry.ptr)
      BY <1>2, <1>5
  <2>4. (0 - (start - entry.ptr)) % Word = Word - (start - entry.ptr)
    <3> DEFINE d == start - entry.ptr
    <3>1. d \in Nat /\ d > 0 /\ d <= Word
        BY <2>2, <1>4, <1>2, SizeAssumption
    <3> HIDE DEF d
    <3>2. (0 - d) % Word = Word - d
        BY <3>1, SizeAssumption
    <3> QED
        BY <3>2 DEF d
  <2>5. startOffset > Word - PageSize
      BY <2>2, <2>3, <2>4, SizeAssumption
  <2> HIDE DEF startOffset
  <2> QED
      BY <1>7, <2>5, <2>2, <2>3, <2>4, <1>2, <1>3, SizeAssumption DEF startOffset
<1>8. ASSUME start = entry.ptr, size # 0
      PROVE  size \in Nat /\ size > 0 /\ size % PageSize = 0 /\ size <= entry.size
  <2>1. entry.size - (start - entry.ptr) = entry.size
      BY <1>8, <1>2
  <2>2. entry.size % Word = entry.size
      BY <1>2, <1>3, SizeAssumption
  <2>3. size = mm_roundDownPage(entry.size)
      BY <2>1, <2>2
  <2> HIDE DEF size
  <2> QED
      BY <1>2, <1>8, <2>3, RoundDown
<1> HIDE DEF size, startOffset
<1> QED
    BY <1>5, <1>6, <1>7, <1>8 DEF entry

\* One iteration of pmm_init preserves the invariant, and either changes no
\* memory or hands new memory over.
LEMMA InitEntryStep ==
    ASSUME PmmInv, InitEntry
    PROVE  /\ PmmInv'
           /\ \/ UNCHANGED <<Bytes(freeList), owned>>
              \/ \E ptr, size \in 0 .. Word : Pages!Donate(Chunk(ptr, size))
<1> DEFINE entry == MemoryMap[index]
<1>1. GoodList(freeList) /\ TypeOK
    BY DEF PmmInv, GoodList, TypeOK, Ordered, WholePages
<1>2. index \in 1 .. Len(MemoryMap) /\ index' = index - 1 /\ Len(MemoryMap) \in Nat
    BY <1>1, MapAssumption, LenProperties DEF InitEntry, TypeOK
<1>3. owned = {} /\ owned' = {} /\ ret = NoCall /\ ret' = NoCall
    BY <1>2 DEF PmmInv, BootFrontier, InitEntry
<1>4. /\ \A j \in 1 .. Len(MemoryMap) :
            /\ MemoryMap[j].ptr \in Nat /\ MemoryMap[j].size \in Nat
            /\ End(MemoryMap[j]) = MemoryMap[j].ptr + MemoryMap[j].size
      /\ \A j \in 1 .. (index - 1) : End(MemoryMap[j]) <= entry.ptr
      /\ entry.ptr >= PageSize /\ entry.ptr + entry.size <= Word
  <2>1. \A j \in 1 .. Len(MemoryMap) :
            MemoryMap[j].ptr \in Nat /\ MemoryMap[j].size \in Nat
    <3> TAKE j \in 1 .. Len(MemoryMap)
    <3>1. MemoryMap[j] \in MapEntry
        BY MapAssumption, ElementOfSeq
    <3> QED
        BY <3>1 DEF MapEntry
  <2>2. DOMAIN MemoryMap = 1 .. Len(MemoryMap)
      BY MapAssumption, LenProperties
  <2>3. \A j \in 1 .. (index - 1) : End(MemoryMap[j]) <= entry.ptr
    <3> TAKE j \in 1 .. (index - 1)
    <3>1. j \in DOMAIN MemoryMap /\ index \in DOMAIN MemoryMap /\ j < index
        BY <1>2, <2>2
    <3> QED
        BY <3>1, MapAssumption DEF End
  <2>4. entry.ptr >= PageSize /\ entry.ptr + entry.size + PageSize <= Word
      BY <1>2, <2>2, MapAssumption
  <2>5. entry.ptr \in Nat /\ entry.size \in Nat
      BY <1>2, <2>1
  <2>6. entry.ptr + entry.size <= Word
    <3> HIDE DEF entry
    <3> QED
        BY <2>4, <2>5, SizeAssumption
  <2> QED
      BY <2>1, <2>3, <2>4, <2>6 DEF End
<1>5. \A i \in DOMAIN freeList : End(entry) <= freeList[i].ptr
    BY <1>2 DEF PmmInv, BootFrontier
<1>6. CASE UNCHANGED freeList
  <2>1. TypeOK'
      BY <1>1, <1>2, <1>3, <1>6 DEF TypeOK, NoCall, Null
  <2>2. BootFrontier'
      BY <1>2, <1>3, <1>6 DEF PmmInv, BootFrontier
  <2>3. PmmInv'
      BY <1>3, <1>6, <2>1, <2>2
      DEF PmmInv, Ordered, Exclusive, WholePages
  <2> QED
      BY <1>3, <1>6, <2>3
<1>7. ASSUME NEW size \in Nat, size > 0, size % PageSize = 0, size <= entry.size,
             entry.ptr % PageSize = 0,
             freeList' = InsertAt(freeList, 1, [ptr |-> entry.ptr, size |-> size])
      PROVE  /\ PmmInv'
             /\ \E p, s \in 0 .. Word : Pages!Donate(Chunk(p, s))
  <2> DEFINE ptr == entry.ptr
             chunk == Chunk(ptr, size)
  <2>1. ptr \in Nat /\ PageSize <= ptr /\ ptr + size <= Word /\ ptr + size <= End(entry)
    <3>1. entry.ptr \in Nat /\ entry.size \in Nat /\ End(entry) = entry.ptr + entry.size
        BY <1>2, <1>4
    <3>2. entry.ptr >= PageSize /\ entry.ptr + entry.size <= Word
        BY <1>4
    <3> HIDE DEF entry
    <3> QED
        BY <3>1, <3>2, <1>7, SizeAssumption
  <2>2. chunk \cap Bytes(freeList) = {}
    <3>1. ASSUME NEW a \in chunk, a \in Bytes(freeList) PROVE FALSE
      <4>1. PICK i \in 1 .. Len(freeList) :
                a \in Int /\ freeList[i].ptr <= a /\ a < End(freeList[i])
          BY <3>1, <1>1, BytesMember DEF GoodList
      <4>2. End(entry) <= freeList[i].ptr /\ freeList[i].ptr \in Nat
          BY <1>1, <1>5, GoodListIndex DEF GoodList
      <4>3. a < ptr + size
          BY <3>1, <2>1 DEF Chunk
      <4>4. End(entry) \in Nat
          BY <1>2, <1>4
      <4> QED
          BY <2>1, <4>1, <4>2, <4>3, <4>4
    <3> QED
        BY <3>1
  <2>3. Len(freeList) \in Nat /\ 1 \in 1 .. (Len(freeList) + 1)
      BY <1>1, LenProperties DEF GoodList
  <2>4. 1 <= Len(freeList) => freeList[1].ptr >= ptr
    <3> SUFFICES ASSUME 1 <= Len(freeList) PROVE freeList[1].ptr >= ptr
        OBVIOUS
    <3>1. 1 \in DOMAIN freeList /\ freeList[1].ptr \in Nat
        BY <1>1, <2>3, GoodListIndex DEF GoodList
    <3>2. End(entry) <= freeList[1].ptr /\ End(entry) \in Nat
        BY <1>2, <1>4, <1>5, <3>1
    <3> QED
        BY <2>1, <3>1, <3>2
  <2>5. /\ GoodList(freeList')
        /\ Bytes(freeList') = Bytes(freeList) \cup chunk
    <3> HIDE DEF ptr
    <3>1. \A j \in 1 .. (1 - 1) : freeList[j].ptr < ptr
        OBVIOUS
    <3>2. freeList' = InsertAt(freeList, 1, [ptr |-> ptr, size |-> size])
        BY <1>7 DEF ptr
    <3>3. ptr % PageSize = 0
        BY <1>7 DEF ptr
    <3> QED
        BY <1>1, <1>7, <2>1, <2>2, <2>3, <2>4, <3>1, <3>2, <3>3, InsertGood
  <2>6. TypeOK'
      BY <1>1, <1>2, <1>3, <2>5 DEF TypeOK, NoCall, Null, GoodList
  <2>7. BootFrontier'
    <3>1. ASSUME NEW i \in DOMAIN freeList', NEW j \in 1 .. (index - 1)
          PROVE  End(MemoryMap[j]) <= freeList'[i].ptr
      <4>0. [ptr |-> ptr, size |-> size] \in Node
          BY <2>1 DEF Node
      <4>1. /\ DOMAIN freeList' = 1 .. (Len(freeList) + 1)
            /\ \A m \in 1 .. (Len(freeList) + 1) :
                 freeList'[m] = IF m < 1 THEN freeList[m]
                                ELSE IF m = 1 THEN [ptr |-> ptr, size |-> size]
                                ELSE freeList[m - 1]
        <5> DEFINE node == [ptr |-> ptr, size |-> size]
        <5>1. freeList \in Seq(Node) /\ freeList' \in Seq(Node)
            BY <1>1, <2>5 DEF GoodList
        <5>2. freeList' = InsertAt(freeList, 1, node) /\ node \in Node
            BY <4>0, <1>7
        <5> HIDE DEF node
        <5>3. /\ Len(freeList') = Len(freeList) + 1
              /\ \A m \in 1 .. (Len(freeList) + 1) :
                    freeList'[m] = IF m < 1 THEN freeList[m]
                                   ELSE IF m = 1 THEN node ELSE freeList[m - 1]
            BY <5>1, <5>2, <2>3, InsertAtIndex
        <5>4. DOMAIN freeList' = 1 .. Len(freeList')
            BY <5>1, LenProperties
        <5> QED
            BY <5>3, <5>4 DEF node
      <4>2. CASE i = 1
          BY <4>1, <4>2, <2>3, <1>4
      <4>3. CASE i # 1
        <5>1. i - 1 \in DOMAIN freeList /\ freeList'[i] = freeList[i - 1]
            BY <4>1, <4>3, <2>3, <1>1, GoodListIndex DEF GoodList
        <5>2. j \in 1 .. index
            BY <1>2
        <5> QED
            BY <5>1, <5>2 DEF PmmInv, BootFrontier
      <4> QED
          BY <4>2, <4>3
    <3> QED
        BY <3>1, <1>2, <1>3 DEF BootFrontier
  <2>8. PmmInv'
      BY <1>3, <2>5, <2>6, <2>7
      DEF PmmInv, GoodList, Ordered, Exclusive, WholePages
  <2>9. ptr \in 0 .. Word /\ size \in 0 .. Word
      BY <2>1, SizeAssumption
  <2>10. Pages!Donate(chunk)
      BY <1>3, <2>2, <2>5 DEF Pages!Donate
  <2> QED
      BY <2>8, <2>9, <2>10
<1>8. \/ UNCHANGED freeList
      \/ \E size \in Nat :
            /\ size > 0 /\ size % PageSize = 0 /\ size <= entry.size
            /\ entry.ptr % PageSize = 0
            /\ freeList' = InsertAt(freeList, 1, [ptr |-> entry.ptr, size |-> size])
    BY <1>1, InitEntryAdds
<1> HIDE DEF entry
<1> QED
    BY <1>6, <1>7, <1>8

\* pmm_alloc preserves the invariant, loses no memory, and either changes no
\* memory or is an abstract allocation.
LEMMA AllocStep ==
    ASSUME PmmInv, NEW asked \in 0 .. MaxRequest, pmm_alloc(asked)
    PROVE  /\ PmmInv'
           /\ (Bytes(freeList) \cup owned)' = Bytes(freeList) \cup owned
           /\ \/ UNCHANGED <<Bytes(freeList), owned>>
              \/ \E ptr, size \in 0 .. Word : Pages!Alloc(ptr, size)
<1> DEFINE size == mm_roundUpPage(asked)
<1>1. GoodList(freeList) /\ TypeOK /\ Exclusive
    BY DEF PmmInv, GoodList, TypeOK, Ordered, WholePages
<1>2. index = 0 /\ index' = 0
    BY DEF pmm_alloc
<1>3. asked \in Nat /\ asked < Word
    BY SizeAssumption
<1>4. size \in Nat /\ size % PageSize = 0
    BY <1>3, RoundUp
<1>5. \/ \E i \in DOMAIN freeList :
            /\ FirstFit(i, size)
            /\ freeList' = Take(i, size)
            /\ owned' = owned \cup Chunk(End(freeList[i]) - size, size)
            /\ ret' = [asked |-> asked, ptr |-> End(freeList[i]) - size]
      \/ ret' = [asked |-> asked, ptr |-> Null] /\ UNCHANGED <<freeList, owned>>
    BY DEF pmm_alloc
<1> HIDE DEF size
<1>6. CASE ret' = [asked |-> asked, ptr |-> Null] /\ UNCHANGED <<freeList, owned>>
  <2>1. TypeOK'
      BY <1>1, <1>2, <1>3, <1>6 DEF TypeOK, Null
  <2>2. PmmInv'
      BY <1>2, <1>6, <2>1
      DEF PmmInv, Ordered, Exclusive, WholePages, BootFrontier
  <2> QED
      BY <1>6, <2>2
<1>7. ASSUME NEW i \in DOMAIN freeList,
             FirstFit(i, size),
             freeList' = Take(i, size),
             owned' = owned \cup Chunk(End(freeList[i]) - size, size),
             ret' = [asked |-> asked, ptr |-> End(freeList[i]) - size]
      PROVE  /\ PmmInv'
             /\ (Bytes(freeList) \cup owned)' = Bytes(freeList) \cup owned
             /\ \E p, s \in 0 .. Word : Pages!Alloc(p, s)
  <2> DEFINE start == End(freeList[i]) - size
             chunk == Chunk(start, size)
  <2>1. size <= freeList[i].size
    <3>1. freeList[i].size \in Nat
        BY <1>1, GoodListIndex DEF GoodList
    <3> QED
        BY <1>4, <1>7, <3>1 DEF FirstFit
  <2>2. /\ GoodList(freeList')
        /\ Bytes(freeList') = Bytes(freeList) \ chunk
        /\ chunk \subseteq Bytes(freeList)
        /\ start \in 0 .. Word
        /\ size \in 0 .. Word
      BY <1>1, <1>4, <1>7, <2>1, TakeGood
  <2>3. owned' = owned \cup chunk
      BY <1>7
  <2>4. start \in Nat
      BY <2>2, SizeAssumption
  <2>5. ret' \in [asked : Nat, ptr : Nat]
      BY <1>3, <1>7, <2>4
  <2> HIDE DEF start
  <2>6. Bytes(freeList) \subseteq PageSize .. (Word - 1)
      BY <1>1, GoodBytes
  <2>7. owned' \subseteq PageSize .. (Word - 1)
      BY <2>2, <2>3, <2>6 DEF PmmInv
  <2>8. PageSize .. (Word - 1) \subseteq Nat
      BY SizeAssumption
  <2> HIDE DEF chunk
  <2>9. TypeOK'
      BY <1>1, <1>2, <2>2, <2>5, <2>7, <2>8, MapAssumption, LenProperties
      DEF TypeOK, GoodList
  <2>10. Exclusive'
      BY <1>1, <2>2, <2>3 DEF Exclusive
  <2>11. PmmInv'
      BY <1>2, <2>2, <2>7, <2>9, <2>10
      DEF PmmInv, GoodList, Ordered, WholePages, BootFrontier
  <2>12. (Bytes(freeList) \cup owned)' = Bytes(freeList) \cup owned
      BY <2>2, <2>3
  <2>13. Pages!Alloc(start, size)
      BY <2>2, <2>3 DEF Pages!Alloc, Pages!Chunk, chunk, Chunk
  <2> QED
      BY <2>2, <2>11, <2>12, <2>13
<1> QED
    BY <1>5, <1>6, <1>7

\* pmm_free preserves the invariant, loses no memory and is an abstract free.
LEMMA FreeStep ==
    ASSUME PmmInv, NEW ptr \in owned, NEW asked \in 1 .. MaxRequest,
           pmm_free(ptr, asked)
    PROVE  /\ PmmInv'
           /\ (Bytes(freeList) \cup owned)' = Bytes(freeList) \cup owned
           /\ \E p, s \in 0 .. Word : Pages!Free(p, s)
<1> DEFINE size == mm_roundUpPage(asked)
           chunk == Chunk(ptr, size)
<1>1. GoodList(freeList) /\ TypeOK /\ Exclusive
    BY DEF PmmInv, GoodList, TypeOK, Ordered, WholePages
<1>2. index = 0 /\ index' = 0 /\ ret' = NoCall
    BY DEF pmm_free
<1>3. asked \in Nat /\ asked < Word
    BY SizeAssumption
<1>4. size \in Nat /\ size % PageSize = 0
    BY <1>3, RoundUp
<1>5. PICK k \in 1 .. (Len(freeList) + 1) :
          /\ InsertionPoint(k, ptr)
          /\ freeList' = GiveBack(k, [ptr |-> ptr, size |-> size])
    BY DEF pmm_free
<1>6. /\ size > 0
      /\ ptr % PageSize = 0
      /\ chunk \subseteq owned
      /\ owned' = owned \ chunk
    BY DEF pmm_free
<1> HIDE DEF size
<1>7. owned \subseteq PageSize .. (Word - 1)
    BY DEF PmmInv
<1>8. ptr \in Nat /\ PageSize <= ptr /\ ptr + size <= Word
  <2>1. ptr \in PageSize .. (Word - 1)
      BY <1>7
  <2>2. ptr + size - 1 \in chunk
      BY <1>4, <1>6, <2>1, SizeAssumption DEF Chunk
  <2>3. ptr + size - 1 \in PageSize .. (Word - 1)
      BY <1>6, <1>7, <2>2
  <2> QED
      BY <1>4, <2>1, <2>3, SizeAssumption
<1>9. chunk \cap Bytes(freeList) = {}
    BY <1>1, <1>6 DEF Exclusive
<1>10. /\ GoodList(freeList')
       /\ Bytes(freeList') = Bytes(freeList) \cup chunk
    BY <1>1, <1>4, <1>5, <1>6, <1>8, <1>9, GiveBackGood
<1> HIDE DEF chunk
<1>11. owned' \subseteq PageSize .. (Word - 1) /\ PageSize .. (Word - 1) \subseteq Nat
    BY <1>6, <1>7, SizeAssumption
<1>12. TypeOK'
    BY <1>1, <1>2, <1>10, <1>11 DEF TypeOK, GoodList, NoCall, Null
<1>13. Exclusive'
    BY <1>1, <1>6, <1>10 DEF Exclusive
<1>14. PmmInv'
    BY <1>2, <1>10, <1>11, <1>12, <1>13
    DEF PmmInv, GoodList, Ordered, WholePages, BootFrontier
<1>15. (Bytes(freeList) \cup owned)' = Bytes(freeList) \cup owned
    BY <1>6, <1>10
<1>16. Pages!Free(ptr, size)
    BY <1>6, <1>10 DEF Pages!Free, Pages!Chunk, chunk, Chunk
<1>17. ptr \in 0 .. Word /\ size \in 0 .. Word
    BY <1>4, <1>8, SizeAssumption
<1> QED
    BY <1>14, <1>15, <1>16, <1>17

-----------------------------------------------------------------------------
(* The theorems. *)

\* A step that changes nothing preserves the invariant.
LEMMA StutterInv == PmmInv /\ UNCHANGED vars => PmmInv'
BY DEF PmmInv, TypeOK, Ordered, Exclusive, WholePages, BootFrontier, vars

\* The inductive invariant of pmm.c: the list is well formed, everything in it
\* is usable memory made of whole pages, no free byte is handed out, and during
\* pmm_init the list stays above the entries still to come.
THEOREM PmmInvariant == Spec => []PmmInv
<1>1. Init => PmmInv
  <2> SUFFICES ASSUME Init PROVE PmmInv
      OBVIOUS
  <2>1. freeList \in Seq(Node) /\ DOMAIN freeList = {} /\ Bytes(freeList) = {}
      BY DEF Init, Bytes
  <2>2. Len(MemoryMap) \in Nat
      BY MapAssumption, LenProperties
  <2>3. TypeOK
      BY <2>1, <2>2 DEF Init, TypeOK, NoCall, Null
  <2> QED
      BY <2>1, <2>3
      DEF Init, PmmInv, Ordered, OrderedList, Exclusive, WholePages,
          WholePageList, InMemory, BootFrontier
<1>2. PmmInv /\ [Next]_vars => PmmInv'
    BY InitEntryStep, AllocStep, FreeStep, StutterInv DEF Next
<1> QED
    BY <1>1, <1>2, PTL DEF Spec

\* The free list of pmm.c stays in address order with disjoint, non-empty
\* ranges of whole pages, through boot and every sequence of pmm_alloc and
\* pmm_free: the searches find their place, and the in-band node always fits.
THEOREM FreeListStaysSound == Spec => []FreeListSound
<1>1. PmmInv => FreeListSound
    BY DEF PmmInv, FreeListSound
<1> QED
    BY <1>1, PmmInvariant, PTL

\* pmm_alloc never hands out a byte that is already handed out, and pmm_free
\* never leaves a byte both free and owned.
THEOREM NoSharing == Spec => []Exclusive
<1>1. PmmInv => Exclusive
    BY DEF PmmInv
<1> QED
    BY <1>1, PmmInvariant, PTL

\* As long as callers ask for less than the last page of the address space, a
\* pmm_alloc that returns a pointer has given its caller every byte asked for.
THEOREM AllocGivesChunk ==
    ASSUME MaxRequest + PageSize <= Word
    PROVE  Spec => []ChunkIsOwned
<1>1. Init => ChunkIsOwned
    BY DEF Init, ChunkIsOwned, NoCall
<1>2. PmmInv /\ ChunkIsOwned /\ [Next]_vars => ChunkIsOwned'
  <2> SUFFICES ASSUME PmmInv, ChunkIsOwned, [Next]_vars PROVE ChunkIsOwned'
      OBVIOUS
  <2>1. CASE InitEntry
      BY <2>1 DEF InitEntry, ChunkIsOwned
  <2>2. ASSUME NEW asked \in 0 .. MaxRequest, pmm_alloc(asked) PROVE ChunkIsOwned'
    <3> DEFINE size == mm_roundUpPage(asked)
    <3>1. asked \in Nat /\ asked < Word /\ asked + PageSize <= Word
        BY SizeAssumption
    <3>2. size \in Nat /\ asked <= size
        BY <3>1, RoundUp, SizeAssumption
    <3>3. \/ \E i \in DOMAIN freeList :
                /\ owned' = owned \cup Chunk(End(freeList[i]) - size, size)
                /\ ret' = [asked |-> asked, ptr |-> End(freeList[i]) - size]
          \/ ret' = [asked |-> asked, ptr |-> Null]
        BY <2>2 DEF pmm_alloc
    <3> HIDE DEF size
    <3>4. ASSUME NEW i \in DOMAIN freeList,
                 owned' = owned \cup Chunk(End(freeList[i]) - size, size),
                 ret' = [asked |-> asked, ptr |-> End(freeList[i]) - size]
          PROVE  ChunkIsOwned'
      <4> DEFINE start == End(freeList[i]) - size
      <4>1. start \in Int
        <5>1. freeList[i].ptr \in Nat /\ End(freeList[i]) = freeList[i].ptr + freeList[i].size
              /\ freeList[i].size \in Nat
            BY GoodListIndex DEF PmmInv, TypeOK
        <5> QED
            BY <5>1, <3>2
      <4>2. owned' = owned \cup Chunk(start, size) /\ ret'.asked = asked /\ ret'.ptr = start
          BY <3>4
      <4> HIDE DEF start
      <4>3. Chunk(start, asked) \subseteq Chunk(start, size)
          BY <4>1, <3>1, <3>2 DEF Chunk
      <4> QED
          BY <4>2, <4>3 DEF ChunkIsOwned
    <3> QED
        BY <3>3, <3>4 DEF ChunkIsOwned
  <2>3. ASSUME NEW ptr \in owned, NEW asked \in 1 .. MaxRequest, pmm_free(ptr, asked)
        PROVE  ChunkIsOwned'
      BY <2>3 DEF pmm_free, ChunkIsOwned, NoCall
  <2>4. CASE UNCHANGED vars
      BY <2>4 DEF vars, ChunkIsOwned
  <2> QED
      BY <2>1, <2>2, <2>3, <2>4 DEF Next
<1> QED
    BY <1>1, <1>2, PmmInvariant, PTL DEF Spec

\* After pmm_init, no pmm_alloc and no pmm_free loses or invents memory.
THEOREM Conservation == Spec => NothingLost
<1>1. PmmInv /\ [Next]_vars =>
          [index = 0 => (Bytes(freeList) \cup owned)' = Bytes(freeList) \cup owned]_vars
  <2> SUFFICES ASSUME PmmInv, Next, index = 0
               PROVE  (Bytes(freeList) \cup owned)' = Bytes(freeList) \cup owned
      OBVIOUS
  <2>1. ~InitEntry
      BY DEF InitEntry
  <2> QED
      BY <2>1, AllocStep, FreeStep DEF Next
<1> QED
    BY <1>1, PmmInvariant, PTL DEF Spec, NothingLost

\* pmm.c implements the abstract allocator: every boot step, allocation and
\* free is the abstract operation or changes no memory.
THEOREM PmmImplementsPageAllocator == Spec => ImplementsPageAllocator
<1>1. Init => Pages!Init
    BY DEF Init, Pages!Init, Bytes
<1>2. PmmInv /\ [Next]_vars => [Pages!Next]_<<Bytes(freeList), owned>>
  <2> SUFFICES ASSUME PmmInv, [Next]_vars
               PROVE  Pages!Next \/ UNCHANGED <<Bytes(freeList), owned>>
      OBVIOUS
  <2>0. \A p, s : Pages!Chunk(p, s) = Chunk(p, s)
      BY DEF Pages!Chunk, Chunk
  <2>1. CASE InitEntry
      BY <2>0, <2>1, InitEntryStep DEF Pages!Next
  <2>2. ASSUME NEW asked \in 0 .. MaxRequest, pmm_alloc(asked)
        PROVE  Pages!Next \/ UNCHANGED <<Bytes(freeList), owned>>
      BY <2>2, AllocStep DEF Pages!Next
  <2>3. ASSUME NEW ptr \in owned, NEW asked \in 1 .. MaxRequest, pmm_free(ptr, asked)
        PROVE  Pages!Next
      BY <2>3, FreeStep DEF Pages!Next
  <2>4. CASE UNCHANGED vars
      BY <2>4 DEF vars
  <2> QED
      BY <2>1, <2>2, <2>3, <2>4 DEF Next
<1> QED
    BY <1>1, <1>2, PmmInvariant, PTL
    DEF Spec, ImplementsPageAllocator, Pages!Spec, Pages!vars

-----------------------------------------------------------------------------
(* What bootstrap_init copies. *)

\* A set of numbers that is not empty has a least element.
LEMMA LeastNumber ==
    ASSUME NEW T, T \subseteq Nat, T # {}
    PROVE  \E x \in T : \A y \in T : x <= y
<1> DEFINE R == OpToRel(<, Nat)
<1>1. IsWellFoundedOn(R, Nat)
    BY NatLessThanWellFounded, Zenon
<1>2. \A x, y \in Nat : <<y, x>> \in R <=> y < x
    BY DEF OpToRel
<1> HIDE DEF R
<1>3. PICK x \in T : \A y \in T : ~(<<y, x>> \in R)
    BY <1>1, WFMin
<1>4. ASSUME NEW y \in T PROVE x <= y
  <2>1. x \in Nat /\ y \in Nat
      OBVIOUS
  <2>2. ~(y < x)
      BY <1>2, <1>3, <2>1
  <2> QED
      BY <2>1, <2>2
<1> QED
    BY <1>4

\* f[n] is the array after n iterations, for the first k entries.
Copying(f, k) ==
    f = [n \in 0 .. k |-> IF n = 0 THEN <<>> ELSE AddEntry(f[n - 1], LoaderMap[n])]

\* The iterations of the loop are well defined.
LEMMA CopyingExists == \A k \in Nat : \E f : Copying(f, k)
<1> DEFINE Bad == {k \in Nat : ~\E f : Copying(f, k)}
<1>1. SUFFICES ASSUME Bad # {} PROVE FALSE
    OBVIOUS
<1>2. PICK k \in Bad : \A y \in Bad : k <= y
    BY <1>1, LeastNumber
<1>3. k \in Nat /\ ~\E f : Copying(f, k)
    OBVIOUS
<1>4. CASE k = 0
  <2>1. PICK f : f = [n \in 0 .. 0 |-> <<>>]
      OBVIOUS
  <2>2. Copying(f, 0)
      BY <2>1 DEF Copying
  <2> QED
      BY <1>3, <1>4, <2>2
<1>5. CASE k # 0
  <2>1. k - 1 \in Nat /\ k - 1 \notin Bad
      BY <1>2, <1>3, <1>5
  <2>2. PICK g : Copying(g, k - 1)
      BY <2>1
  <2>3. PICK f : f = [n \in 0 .. k |->
                         IF n = k THEN AddEntry(g[k - 1], LoaderMap[k]) ELSE g[n]]
      OBVIOUS
  <2>4. ASSUME NEW n \in 0 .. k
        PROVE  f[n] = IF n = 0 THEN <<>> ELSE AddEntry(f[n - 1], LoaderMap[n])
    <3>1. CASE n = k
      <4>1. f[k] = AddEntry(g[k - 1], LoaderMap[k]) /\ f[k - 1] = g[k - 1]
          BY <1>3, <1>5, <2>3
      <4> QED
          BY <1>5, <3>1, <4>1
    <3>2. CASE n # k
      <4>1. n \in 0 .. (k - 1) /\ f[n] = g[n]
          BY <1>3, <2>3, <3>2
      <4>2. g[n] = IF n = 0 THEN <<>> ELSE AddEntry(g[n - 1], LoaderMap[n])
          BY <2>2, <4>1 DEF Copying
      <4>3. n # 0 => f[n - 1] = g[n - 1]
          BY <1>3, <2>3, <3>2
      <4> QED
          BY <4>1, <4>2, <4>3
    <3> QED
        BY <3>1, <3>2
  <2>5. f = [n \in 0 .. k |-> f[n]]
      BY <2>3
  <2>6. Copying(f, k)
      BY <2>4, <2>5 DEF Copying
  <2> QED
      BY <1>3, <2>6
<1> QED
    BY <1>4, <1>5

\* The entries that are copied among the first n.
KeptUpTo(n) == {j \in 1 .. n : LoaderMap[j].type \in Copied}

\* How many there are.
LEMMA KeptCount ==
    /\ Cardinality(KeptUpTo(0)) = 0
    /\ \A n \in Nat : Cardinality(KeptUpTo(n)) \in Nat
    /\ \A n \in Nat \ {0} :
          Cardinality(KeptUpTo(n)) = IF LoaderMap[n].type \in Copied
                                     THEN Cardinality(KeptUpTo(n - 1)) + 1
                                     ELSE Cardinality(KeptUpTo(n - 1))
<1>1. ASSUME NEW n \in Nat PROVE IsFiniteSet(KeptUpTo(n))
  <2>1. KeptUpTo(n) \in SUBSET (1 .. n) /\ IsFiniteSet(1 .. n)
      BY FS_Interval DEF KeptUpTo
  <2> QED
      BY <2>1, FS_Subset
<1>2. Cardinality(KeptUpTo(0)) = 0
  <2>1. KeptUpTo(0) = {}
      BY DEF KeptUpTo
  <2> QED
      BY <2>1, FS_EmptySet
<1>3. \A n \in Nat : Cardinality(KeptUpTo(n)) \in Nat
    BY <1>1, FS_CardinalityType
<1>4. ASSUME NEW n \in Nat \ {0}
      PROVE  Cardinality(KeptUpTo(n)) = IF LoaderMap[n].type \in Copied
                                        THEN Cardinality(KeptUpTo(n - 1)) + 1
                                        ELSE Cardinality(KeptUpTo(n - 1))
  <2>1. n - 1 \in Nat
      OBVIOUS
  <2>2. CASE LoaderMap[n].type \in Copied
    <3>1. KeptUpTo(n) = KeptUpTo(n - 1) \cup {n} /\ n \notin KeptUpTo(n - 1)
        BY <2>2 DEF KeptUpTo
    <3> QED
        BY <1>1, <2>1, <2>2, <3>1, FS_AddElement
  <2>3. CASE LoaderMap[n].type \notin Copied
    <3>1. KeptUpTo(n) = KeptUpTo(n - 1)
        BY <2>3 DEF KeptUpTo
    <3> QED
        BY <2>3, <3>1
  <2> QED
      BY <2>2, <2>3
<1> QED
    BY <1>2, <1>3, <1>4

\* An entry as it stands in the array.
Translated(entry) == [entry EXCEPT !.type = EntryType(entry.type)]
AllTranslated == {Translated(LoaderMap[i]) : i \in 1 .. Len(LoaderMap)}

\* What an array that was copied from the first n entries holds.
CopyFacts(list, n) ==
    /\ list \in Seq(AllTranslated)
    /\ Len(list) = IF Cardinality(KeptUpTo(n)) < MaxEntries
                   THEN Cardinality(KeptUpTo(n)) ELSE MaxEntries
    /\ \A e : (\E k \in 1 .. Len(list) : list[k] = e) <=>
              \E i \in 1 .. n : /\ LoaderMap[i].type \in Copied
                                /\ Cardinality(KeptUpTo(i)) <= MaxEntries
                                /\ e = Translated(LoaderMap[i])

\* One iteration of the loop.
LEMMA AddEntryFacts ==
    ASSUME NEW n \in 1 .. Len(LoaderMap), NEW list, CopyFacts(list, n - 1)
    PROVE  CopyFacts(AddEntry(list, LoaderMap[n]), n)
<1> DEFINE entry == LoaderMap[n]
<1>1. PICK count, next : /\ count = Cardinality(KeptUpTo(n - 1))
                         /\ next = Cardinality(KeptUpTo(n))
    OBVIOUS
<1>2. Len(LoaderMap) \in Nat /\ n \in Nat \ {0} /\ n - 1 \in Nat /\ MaxEntries \in Nat
    BY LoaderAssumption, LenProperties
<1>3. /\ count \in Nat /\ next \in Nat
      /\ next = IF entry.type \in Copied THEN count + 1 ELSE count
    BY <1>1, <1>2, KeptCount
<1>5. Translated(entry) \in AllTranslated
    BY DEF AllTranslated
<1>6. /\ list \in Seq(AllTranslated) /\ Len(list) \in Nat
      /\ Len(list) = IF count < MaxEntries THEN count ELSE MaxEntries
    BY <1>1, LenProperties DEF CopyFacts
<1>7. \A e : (\E k \in 1 .. Len(list) : list[k] = e) <=>
              \E i \in 1 .. (n - 1) : /\ LoaderMap[i].type \in Copied
                                      /\ Cardinality(KeptUpTo(i)) <= MaxEntries
                                      /\ e = Translated(LoaderMap[i])
    BY DEF CopyFacts
<1>8. ASSUME NEW i PROVE i \in 1 .. n <=> i \in 1 .. (n - 1) \/ i = n
    BY <1>2
<1>9. CASE entry.type \in Copied /\ Len(list) < MaxEntries
  <2>1. PICK new : new = Append(list, Translated(entry))
      OBVIOUS
  <2>2. AddEntry(list, entry) = new
      BY <1>9, <2>1 DEF AddEntry, Translated
  <2>3. /\ new \in Seq(AllTranslated) /\ Len(new) = Len(list) + 1
        /\ \A k \in 1 .. Len(list) : new[k] = list[k]
        /\ new[Len(list) + 1] = Translated(entry)
      BY <1>5, <1>6, <2>1, AppendProperties
  <2>4. next <= MaxEntries /\ Len(new) = next /\ ~(MaxEntries < next)
      BY <1>2, <1>3, <1>6, <1>9, <2>3
  <2>5. Len(new) = IF next < MaxEntries THEN next ELSE MaxEntries
      BY <1>2, <1>3, <2>4
  <2>6. ASSUME NEW e
        PROVE  (\E k \in 1 .. Len(new) : new[k] = e) <=>
                   (\E k \in 1 .. Len(list) : list[k] = e) \/ e = Translated(entry)
    <3>1. PICK len, one : len = Len(list) /\ one = Translated(entry)
        OBVIOUS
    <3>2. len \in Nat /\ Len(new) = len + 1 /\ new[len + 1] = one
        BY <1>6, <2>3, <3>1
    <3>3. \A k \in 1 .. len : new[k] = list[k]
        BY <2>3, <3>1
    <3>4. \A k : k \in 1 .. Len(new) <=> k \in 1 .. len \/ k = len + 1
        BY ONLY <3>2
    <3>5. (\E k \in 1 .. Len(new) : new[k] = e) <=> (\E k \in 1 .. len : list[k] = e) \/ e = one
        BY ONLY <3>2, <3>3, <3>4
    <3> QED
        BY <3>1, <3>5
  <2>7. ASSUME NEW e
        PROVE  (\E i \in 1 .. n : /\ LoaderMap[i].type \in Copied
                                  /\ Cardinality(KeptUpTo(i)) <= MaxEntries
                                  /\ e = Translated(LoaderMap[i]))
               <=> \/ \E i \in 1 .. (n - 1) : /\ LoaderMap[i].type \in Copied
                                              /\ Cardinality(KeptUpTo(i)) <= MaxEntries
                                              /\ e = Translated(LoaderMap[i])
                   \/ e = Translated(entry)
      BY <1>1, <1>8, <1>9, <2>4
  <2> QED
      BY <1>1, <1>7, <2>2, <2>3, <2>5, <2>6, <2>7 DEF CopyFacts
<1>10. CASE ~(entry.type \in Copied /\ Len(list) < MaxEntries)
  <2>1. AddEntry(list, entry) = list
      BY <1>10 DEF AddEntry
  <2>2. ~(entry.type \in Copied /\ next <= MaxEntries)
      BY <1>2, <1>3, <1>6, <1>10
  <2>3. Len(list) = IF next < MaxEntries THEN next ELSE MaxEntries
      BY <1>2, <1>3, <1>6, <1>10
  <2>4. ASSUME NEW e
        PROVE  (\E i \in 1 .. n : /\ LoaderMap[i].type \in Copied
                                  /\ Cardinality(KeptUpTo(i)) <= MaxEntries
                                  /\ e = Translated(LoaderMap[i]))
               <=> \E i \in 1 .. (n - 1) : /\ LoaderMap[i].type \in Copied
                                           /\ Cardinality(KeptUpTo(i)) <= MaxEntries
                                           /\ e = Translated(LoaderMap[i])
      BY <1>1, <1>8, <2>2
  <2> QED
      BY <1>1, <1>6, <1>7, <2>1, <2>3, <2>4 DEF CopyFacts
<1> QED
    BY <1>9, <1>10

\* The memory map that pmm_init reads.
LEMMA MapCopied == CopyFacts(MemoryMap, Len(LoaderMap))
<1>1. PICK last : last = Len(LoaderMap)
    OBVIOUS
<1>2. last \in Nat
    BY <1>1, LoaderAssumption, LenProperties
<1>3. PICK f : f = (CHOOSE g : Copying(g, last))
    OBVIOUS
<1>4. Copying(f, last)
    BY <1>2, <1>3, CopyingExists, Zenon
<1>5. MemoryMap = f[last]
  <2>1. MemoryMap = bootstrap_init(LoaderMap)
      BY MapIsCopied
  <2> QED
      BY <1>1, <1>3, <2>1, Zenon DEF bootstrap_init, Copying
<1>6. f[0] = <<>> /\ \A n \in 1 .. last : f[n] = AddEntry(f[n - 1], LoaderMap[n])
    BY <1>2, <1>4 DEF Copying
<1> DEFINE Bad == {n \in 0 .. last : ~CopyFacts(f[n], n)}
<1>7. SUFFICES Bad = {}
    BY <1>1, <1>2, <1>5
<1>8. SUFFICES ASSUME Bad # {} PROVE FALSE
    OBVIOUS
<1>9. PICK n \in Bad : \A y \in Bad : n <= y
  <2>1. Bad \subseteq Nat
      BY <1>2
  <2> QED
      BY <1>8, <2>1, LeastNumber
<1>10. n \in 0 .. last /\ ~CopyFacts(f[n], n)
    OBVIOUS
<1>11. CASE n = 0
  <2>1. CopyFacts(<<>>, 0)
    <3>1. <<>> \in Seq(AllTranslated) /\ Len(<<>>) = 0
        OBVIOUS
    <3>2. Len(<<>>) = IF Cardinality(KeptUpTo(0)) < MaxEntries
                      THEN Cardinality(KeptUpTo(0)) ELSE MaxEntries
        BY <3>1, KeptCount, LoaderAssumption
    <3> QED
        BY <3>1, <3>2 DEF CopyFacts
  <2> QED
      BY <1>6, <1>10, <1>11, <2>1
<1>12. CASE n # 0
  <2>1. n \in 1 .. last /\ n - 1 \in 0 .. last /\ n - 1 \notin Bad
      BY <1>2, <1>9, <1>10, <1>12
  <2>2. CopyFacts(f[n - 1], n - 1)
      BY <2>1
  <2>3. CopyFacts(f[n], n)
      BY <1>1, <1>6, <2>1, <2>2, AddEntryFacts
  <2> QED
      BY <1>10, <2>3
<1> QED
    BY <1>11, <1>12

-----------------------------------------------------------------------------
(* The memory that pmm_init takes over. *)

\* The fields of the entries of the two maps.
LEMMA MapFields ==
    /\ Len(MemoryMap) \in Nat /\ Len(LoaderMap) \in Nat
    /\ DOMAIN LoaderMap = 1 .. Len(LoaderMap)
    /\ \A k \in 1 .. Len(MemoryMap) :
          /\ MemoryMap[k].ptr \in Nat /\ MemoryMap[k].size \in Nat
          /\ MemoryMap[k].ptr + MemoryMap[k].size + PageSize <= Word
    /\ \A i \in 1 .. Len(LoaderMap) :
          /\ Translated(LoaderMap[i]).ptr = LoaderMap[i].ptr
          /\ Translated(LoaderMap[i]).size = LoaderMap[i].size
          /\ Translated(LoaderMap[i]).type = EntryType(LoaderMap[i].type)
<1>1. /\ Len(MemoryMap) \in Nat /\ DOMAIN MemoryMap = 1 .. Len(MemoryMap)
      /\ Len(LoaderMap) \in Nat /\ DOMAIN LoaderMap = 1 .. Len(LoaderMap)
    BY MapAssumption, LoaderAssumption, LenProperties
<1>2. ASSUME NEW k \in 1 .. Len(MemoryMap)
      PROVE  MemoryMap[k].ptr \in Nat /\ MemoryMap[k].size \in Nat
  <2>1. MemoryMap[k] \in MapEntry
      BY MapAssumption, ElementOfSeq
  <2> QED
      BY <2>1 DEF MapEntry
<1>3. \A k \in 1 .. Len(MemoryMap) : MemoryMap[k].ptr + MemoryMap[k].size + PageSize <= Word
    BY <1>1, MapAssumption
<1>4. ASSUME NEW i \in 1 .. Len(LoaderMap)
      PROVE  /\ Translated(LoaderMap[i]).ptr = LoaderMap[i].ptr
             /\ Translated(LoaderMap[i]).size = LoaderMap[i].size
             /\ Translated(LoaderMap[i]).type = EntryType(LoaderMap[i].type)
  <2>1. PICK e : e = LoaderMap[i]
      OBVIOUS
  <2>2. e \in [ptr : Nat, size : Nat, type : STRING]
      BY <2>1, LoaderAssumption, ElementOfSeq
  <2>3. PICK t : t = EntryType(e.type)
      OBVIOUS
  <2>4. LET n == [e EXCEPT !.type = t] IN n.ptr = e.ptr /\ n.size = e.size /\ n.type = t
      BY <2>2
  <2> QED
      BY <2>1, <2>3, <2>4 DEF Translated
<1> QED
    BY <1>1, <1>2, <1>3, <1>4

\* The free entries of the map are the usable entries that were not dropped.
LEMMA FreeIsUsable ==
    /\ \A k \in 1 .. Len(MemoryMap) : MemoryMap[k].type = "FREE" =>
          \E i \in UsableEntries : /\ MemoryMap[k].ptr = LoaderMap[i].ptr
                                   /\ MemoryMap[k].size = LoaderMap[i].size
    /\ \A i \in UsableEntries : \E k \in 1 .. Len(MemoryMap) :
          /\ MemoryMap[k].type = "FREE"
          /\ MemoryMap[k].ptr = LoaderMap[i].ptr /\ MemoryMap[k].size = LoaderMap[i].size
<1>1. \A e : (\E k \in 1 .. Len(MemoryMap) : MemoryMap[k] = e) <=>
              \E i \in 1 .. Len(LoaderMap) : /\ LoaderMap[i].type \in Copied
                                             /\ Cardinality(KeptUpTo(i)) <= MaxEntries
                                             /\ e = Translated(LoaderMap[i])
    BY MapCopied DEF CopyFacts
<1>2. ASSUME NEW i
      PROVE  i \in UsableEntries <=> /\ i \in 1 .. Len(LoaderMap)
                                     /\ LoaderMap[i].type = "USABLE"
                                     /\ Cardinality(KeptUpTo(i)) <= MaxEntries
    BY MapFields DEF UsableEntries, KeptUpTo
<1>3. \A t : (t \in Copied /\ EntryType(t) = "FREE") <=> t = "USABLE"
    BY DEF Copied, EntryType
<1>4. ASSUME NEW k \in 1 .. Len(MemoryMap), MemoryMap[k].type = "FREE"
      PROVE  \E i \in UsableEntries : /\ MemoryMap[k].ptr = LoaderMap[i].ptr
                                      /\ MemoryMap[k].size = LoaderMap[i].size
  <2>1. PICK i \in 1 .. Len(LoaderMap) : /\ LoaderMap[i].type \in Copied
                                         /\ Cardinality(KeptUpTo(i)) <= MaxEntries
                                         /\ MemoryMap[k] = Translated(LoaderMap[i])
      BY <1>1
  <2>2. /\ MemoryMap[k].ptr = LoaderMap[i].ptr /\ MemoryMap[k].size = LoaderMap[i].size
        /\ EntryType(LoaderMap[i].type) = "FREE"
      BY <1>4, <2>1, MapFields
  <2>3. i \in UsableEntries
      BY <1>2, <1>3, <2>1, <2>2
  <2> QED
      BY <2>2, <2>3
<1>5. ASSUME NEW i \in UsableEntries
      PROVE  \E k \in 1 .. Len(MemoryMap) :
                 /\ MemoryMap[k].type = "FREE" /\ MemoryMap[k].ptr = LoaderMap[i].ptr
                 /\ MemoryMap[k].size = LoaderMap[i].size
  <2>1. /\ i \in 1 .. Len(LoaderMap) /\ Cardinality(KeptUpTo(i)) <= MaxEntries
        /\ LoaderMap[i].type \in Copied /\ EntryType(LoaderMap[i].type) = "FREE"
      BY <1>2, <1>3
  <2>2. PICK k \in 1 .. Len(MemoryMap) : MemoryMap[k] = Translated(LoaderMap[i])
      BY <1>1, <2>1
  <2> QED
      BY <2>1, <2>2, MapFields
<1> QED
    BY <1>4, <1>5

\* The whole pages of a range that starts on a page boundary.
LEMMA WholePagesAre ==
    ASSUME NEW e, e.ptr \in Nat, e.size \in Nat, e.ptr % PageSize = 0, e.ptr + e.size <= Word
    PROVE  \A x : x \in WholePagesOf(e) <=>
                      x \in Int /\ e.ptr <= x /\ x < e.ptr + mm_roundDownPage(e.size)
<1>1. PICK ptr, size, whole : ptr = e.ptr /\ size = e.size /\ whole = mm_roundDownPage(size)
    OBVIOUS
<1>2. /\ ptr \in Nat /\ size \in Nat /\ ptr % PageSize = 0 /\ ptr + size <= Word
      /\ PageSize \in Nat /\ PageSize > 0 /\ Word \in Nat
    BY <1>1, SizeAssumption
<1>3. whole \in Nat /\ whole % PageSize = 0 /\ whole <= size
    BY <1>1, <1>2, RoundDown
<1>4. ASSUME NEW x
      PROVE  x \in WholePagesOf(e) <=>
                 \E p \in 0 .. (Word \div PageSize) :
                     /\ x \in Chunk(p * PageSize, PageSize)
                     /\ Chunk(p * PageSize, PageSize) \subseteq Chunk(ptr, size)
    BY <1>1 DEF WholePagesOf
<1>5. ASSUME NEW p \in Nat, NEW x, x \in Chunk(p * PageSize, PageSize),
             Chunk(p * PageSize, PageSize) \subseteq Chunk(ptr, size)
      PROVE  x \in Int /\ ptr <= x /\ x < ptr + whole
  <2>1. PICK y : y = p * PageSize
      OBVIOUS
  <2>2. y \in Nat /\ y % PageSize = 0
      BY <1>2, <2>1, MultipleRemainder
  <2>3. x \in Int /\ y <= x /\ x < y + PageSize
      BY <1>2, <1>5, <2>1, <2>2 DEF Chunk
  <2>4. y \in Chunk(y, PageSize) /\ y + PageSize - 1 \in Chunk(y, PageSize)
      BY ONLY <1>2, <2>2 DEF Chunk
  <2>5. y \in Chunk(ptr, size) /\ y + PageSize - 1 \in Chunk(ptr, size)
      BY <1>5, <2>1, <2>4
  <2>6. ptr <= y /\ y + PageSize <= ptr + size
      BY ONLY <1>2, <2>2, <2>5 DEF Chunk
  <2>7. PICK d : d = y - ptr
      OBVIOUS
  <2>8. d \in Nat /\ d % PageSize = 0 /\ d + PageSize <= size
    <3>1. (y - ptr) % PageSize = 0
        BY <1>2, <2>2, <2>6, AlignedDifference
    <3>2. d \in Nat /\ d + PageSize <= size
        BY ONLY <1>2, <2>2, <2>6, <2>7
    <3> QED
        BY <2>7, <3>1, <3>2
  <2>9. d + PageSize <= whole
    <3>1. CASE whole < d + PageSize
      <4>1. (d + PageSize) % PageSize = 0 /\ d + PageSize \in Nat
        <5>1. PageSize % PageSize = 0
            BY <1>2
        <5> QED
            BY <1>2, <2>8, <5>1, AlignedSum
      <4>2. mm_roundDownPage(whole) + PageSize <= d + PageSize
          BY <1>3, <3>1, <4>1, RoundDownAbove
      <4>3. mm_roundDownPage(whole) = whole
          BY <1>3 DEF mm_roundDownPage
      <4>4. size < whole + PageSize
          BY <1>1, <1>2, RoundDown
      <4> QED
          BY ONLY <1>2, <1>3, <2>8, <4>2, <4>3, <4>4
    <3> QED
        BY ONLY <1>2, <1>3, <2>8, <3>1
  <2> QED
      BY ONLY <1>2, <1>3, <2>2, <2>3, <2>6, <2>7, <2>8, <2>9
<1>6. ASSUME NEW x \in Int, ptr <= x, x < ptr + whole
      PROVE  \E p \in 0 .. (Word \div PageSize) :
                 /\ x \in Chunk(p * PageSize, PageSize)
                 /\ Chunk(p * PageSize, PageSize) \subseteq Chunk(ptr, size)
  <2>1. x \in Nat /\ x < Word
      BY ONLY <1>2, <1>3, <1>6
  <2>2. PICK y : y = mm_roundDownPage(x)
      OBVIOUS
  <2>3. y \in Nat /\ y % PageSize = 0 /\ y <= x /\ x < y + PageSize
      BY <2>1, <2>2, RoundDown
  <2>4. PICK p \in Nat : y = p * PageSize
      BY <2>3, Multiple
  <2>5. p \in 0 .. (Word \div PageSize)
    <3>1. PICK q \in Nat : Word = q * PageSize
        BY SizeAssumption, Multiple
    <3>2. Word \div PageSize = q
        BY <1>2, <3>1
    <3>3. p * PageSize < q * PageSize
        BY ONLY <1>2, <2>1, <2>3, <2>4, <3>1
    <3>4. p < q
        BY ONLY <1>2, <3>3, p \in Nat, q \in Nat
    <3> QED
        BY <3>2, <3>4
  <2>6. ptr <= y
    <3>1. CASE y < ptr
      <4>1. mm_roundDownPage(y) + PageSize <= ptr
          BY <1>2, <2>3, <3>1, RoundDownAbove
      <4>2. mm_roundDownPage(y) = y
          BY <2>3 DEF mm_roundDownPage
      <4> QED
          BY ONLY <1>2, <1>6, <2>3, <4>1, <4>2
    <3> QED
        BY ONLY <1>2, <2>3, <3>1
  <2>7. y + PageSize <= ptr + whole
    <3>1. (ptr + whole) % PageSize = 0 /\ ptr + whole \in Nat
        BY <1>2, <1>3, AlignedSum
    <3> QED
        BY <1>6, <2>1, <2>2, <3>1, RoundDownAbove
  <2>8. x \in Chunk(y, PageSize) /\ Chunk(y, PageSize) \subseteq Chunk(ptr, size)
      BY ONLY <1>2, <1>3, <2>1, <2>3, <2>6, <2>7 DEF Chunk
  <2> QED
      BY <2>4, <2>5, <2>8
<1>7. 0 .. (Word \div PageSize) \subseteq Nat
    OBVIOUS
<1> QED
    BY <1>1, <1>4, <1>5, <1>6, <1>7

\* What is linked in front of a list adds its memory to the list's.
LEMMA FrontBytes ==
    ASSUME NEW list \in Seq(Node), NEW node \in Node
    PROVE  \A a : a \in Bytes(InsertAt(list, 1, node)) <=>
                      a \in Bytes(list) \/ (a \in Int /\ node.ptr <= a /\ a < End(node))
<1>1. PICK new, len : new = InsertAt(list, 1, node) /\ len = Len(list)
    OBVIOUS
<1>2. len \in Nat /\ 1 \in 1 .. (len + 1)
    BY <1>1, LenProperties
<1>3. /\ new \in Seq(Node) /\ Len(new) = len + 1
      /\ \A i \in 1 .. (len + 1) :
            new[i] = IF i < 1 THEN list[i] ELSE IF i = 1 THEN node ELSE list[i - 1]
    BY <1>1, <1>2, InsertAtIndex
<1>4. new[1] = node /\ \A i \in 1 .. len : i + 1 \in 1 .. (len + 1) /\ new[i + 1] = list[i]
  <2>1. ASSUME NEW i \in 1 .. len PROVE i + 1 \in 1 .. (len + 1) /\ new[i + 1] = list[i]
    <3>1. i + 1 \in 1 .. (len + 1) /\ ~(i + 1 < 1) /\ i + 1 # 1 /\ (i + 1) - 1 = i
        BY <1>2
    <3> QED
        BY <1>3, <3>1
  <2> QED
      BY <1>2, <1>3, <2>1
<1>5. \A i \in 1 .. (len + 1) : i = 1 \/ (i - 1 \in 1 .. len /\ new[i] = list[i - 1])
    BY <1>2, <1>3
<1>6. ASSUME NEW a
      PROVE  /\ a \in Bytes(new) <=> \E i \in 1 .. (len + 1) :
                    a \in Int /\ new[i].ptr <= a /\ a < End(new[i])
             /\ a \in Bytes(list) <=> \E i \in 1 .. len :
                    a \in Int /\ list[i].ptr <= a /\ a < End(list[i])
    BY <1>1, <1>3, BytesMember
<1>7. ASSUME NEW a
      PROVE  a \in Bytes(new) <=>
                 a \in Bytes(list) \/ (a \in Int /\ node.ptr <= a /\ a < End(node))
  <2>1. ASSUME a \in Bytes(new)
        PROVE  a \in Bytes(list) \/ (a \in Int /\ node.ptr <= a /\ a < End(node))
    <3>1. PICK i \in 1 .. (len + 1) : a \in Int /\ new[i].ptr <= a /\ a < End(new[i])
        BY <1>6, <2>1
    <3> QED
        BY <1>4, <1>5, <1>6, <3>1
  <2>2. ASSUME a \in Bytes(list) PROVE a \in Bytes(new)
    <3>1. PICK i \in 1 .. len : a \in Int /\ list[i].ptr <= a /\ a < End(list[i])
        BY <1>6, <2>2
    <3> QED
        BY <1>4, <1>6, <3>1
  <2>3. ASSUME a \in Int, node.ptr <= a, a < End(node) PROVE a \in Bytes(new)
      BY <1>2, <1>4, <1>6, <2>3
  <2> QED
      BY <2>1, <2>2, <2>3
<1> QED
    BY <1>1, <1>7

\* One iteration of pmm_init links the whole pages of a free entry, if there are
\* any.
LEMMA InitEntryExact ==
    ASSUME TypeOK, InitEntry, NEW entry, entry = MemoryMap[index],
           entry.type = "FREE" => entry.ptr % PageSize = 0,
           NEW size, size = mm_roundDownPage(entry.size)
    PROVE  IF entry.type = "FREE" /\ size # 0
           THEN freeList' = InsertAt(freeList, 1, [ptr |-> entry.ptr, size |-> size])
           ELSE UNCHANGED freeList
<1>1. index \in 1 .. Len(MemoryMap)
  <2>1. index \in 0 .. Len(MemoryMap) /\ index > 0 /\ Len(MemoryMap) \in Nat
      BY MapFields DEF InitEntry, TypeOK
  <2> QED
      BY <2>1
<1>2. PICK ptr, bytes : ptr = entry.ptr /\ bytes = entry.size
    OBVIOUS
<1>3. /\ ptr \in Nat /\ bytes \in Nat /\ ptr + bytes + PageSize <= Word
      /\ PageSize \in Nat /\ PageSize > 0 /\ Word \in Nat
    BY <1>1, <1>2, MapFields, SizeAssumption
<1>4. CASE entry.type # "FREE"
    BY <1>4 DEF InitEntry
<1>5. CASE entry.type = "FREE"
  <2>1. ptr % PageSize = 0
      BY <1>2, <1>5
  <2>2. mm_roundUpPage(ptr) = ptr
    <3>1. mm_roundDownPage(ptr) = ptr
        BY <1>3, <2>1 DEF mm_roundDownPage
    <3> QED
        BY <3>1 DEF mm_roundUpPage
  <2>3. (ptr - ptr) % Word = 0 /\ bytes >= 0
    <3>1. ptr - ptr = 0 /\ Word > 0
        BY <1>3
    <3>2. 0 % Word = 0
        BY <1>3, <3>1
    <3> QED
        BY <1>3, <3>1, <3>2
  <2>4. (bytes - (ptr - ptr)) % Word = bytes
    <3>1. bytes - (ptr - ptr) = bytes /\ bytes < Word
        BY <1>3
    <3>2. bytes % Word = bytes
        BY <1>3, <3>1
    <3> QED
        BY <3>1, <3>2
  <2>5. IF entry.type = "FREE" /\ bytes >= (ptr - mm_roundUpPage(ptr)) % Word
             /\ mm_roundDownPage((bytes - (mm_roundUpPage(ptr) - ptr)) % Word) # 0
        THEN freeList' = InsertAt(freeList, 1,
                 [ptr |-> mm_roundUpPage(ptr),
                  size |-> mm_roundDownPage((bytes - (mm_roundUpPage(ptr) - ptr)) % Word)])
        ELSE UNCHANGED freeList
      BY <1>2 DEF InitEntry
  <2> QED
      BY <1>2, <1>5, <2>2, <2>3, <2>4, <2>5
<1> QED
    BY <1>4, <1>5

\* The memory of the free entries that pmm_init has looked at.
TakenOver(k, x) ==
    \E j \in (k + 1) .. Len(MemoryMap) :
        MemoryMap[j].type = "FREE" /\ x \in WholePagesOf(MemoryMap[j])

\* The manager and its callers have the memory of those entries.
Manages == \A x : x \in Bytes(freeList) \/ x \in owned <=> TakenOver(index, x)

\* One iteration of pmm_init takes over the whole pages of one entry.
LEMMA InitEntryManages ==
    ASSUME PmmInv, Manages, InitEntry
    PROVE  Manages'
<1>1. /\ index \in 1 .. Len(MemoryMap) /\ index' = index - 1 /\ Len(MemoryMap) \in Nat
      /\ owned = {} /\ owned' = {} /\ freeList \in Seq(Node) /\ TypeOK
  <2>1. index \in 0 .. Len(MemoryMap) /\ index > 0 /\ Len(MemoryMap) \in Nat
      BY MapFields DEF InitEntry, PmmInv, TypeOK
  <2> QED
      BY <2>1 DEF InitEntry, PmmInv, TypeOK, BootFrontier
<1>2. PICK entry, size, k :
          entry = MemoryMap[index] /\ size = mm_roundDownPage(entry.size) /\ k = index
    OBVIOUS
<1>3. /\ entry.ptr \in Nat /\ entry.size \in Nat /\ entry.ptr + entry.size + PageSize <= Word
      /\ PageSize \in Nat /\ Word \in Nat
    BY <1>1, <1>2, MapFields, SizeAssumption
<1>4. ASSUME entry.type = "FREE" PROVE entry.ptr % PageSize = 0
  <2>1. PICK i \in UsableEntries : entry.ptr = LoaderMap[i].ptr
      BY <1>1, <1>2, <1>4, FreeIsUsable
  <2> QED
      BY <2>1, LoaderAssumption DEF UsableEntries
<1>5. size \in Nat
    BY <1>2, <1>3, RoundDown
<1>6. ASSUME NEW x
      PROVE  TakenOver(k - 1, x) <=>
                 TakenOver(k, x) \/ (entry.type = "FREE" /\ x \in WholePagesOf(entry))
  <2>1. \A j : j \in ((k - 1) + 1) .. Len(MemoryMap) <=> j = k \/ j \in (k + 1) .. Len(MemoryMap)
      BY <1>1, <1>2
  <2> QED
      BY <1>2, <2>1 DEF TakenOver
<1>7. ASSUME entry.type = "FREE", NEW x
      PROVE  x \in WholePagesOf(entry) <=> x \in Int /\ entry.ptr <= x /\ x < entry.ptr + size
  <2>1. entry.ptr + entry.size <= Word
      BY <1>3
  <2> QED
      BY <1>2, <1>3, <1>4, <1>7, <2>1, WholePagesAre
<1>8. IF entry.type = "FREE" /\ size # 0
      THEN freeList' = InsertAt(freeList, 1, [ptr |-> entry.ptr, size |-> size])
      ELSE UNCHANGED freeList
    BY <1>1, <1>2, <1>4, InitEntryExact
<1>9. ASSUME NEW x
      PROVE  x \in Bytes(freeList') <=>
                 x \in Bytes(freeList) \/ (entry.type = "FREE" /\ x \in WholePagesOf(entry))
  <2>1. CASE entry.type = "FREE" /\ size # 0
    <3>1. PICK node, list : node = [ptr |-> entry.ptr, size |-> size] /\ list = freeList
        OBVIOUS
    <3>2. node \in Node /\ node.ptr = entry.ptr /\ End(node) = entry.ptr + size
        BY <1>3, <1>5, <3>1 DEF Node, End
    <3>3. list \in Seq(Node) /\ freeList' = InsertAt(list, 1, node)
        BY <1>1, <1>8, <2>1, <3>1
    <3>4. x \in Bytes(InsertAt(list, 1, node)) <=>
              x \in Bytes(list) \/ (x \in Int /\ node.ptr <= x /\ x < End(node))
        BY <3>2, <3>3, FrontBytes
    <3> QED
        BY <1>7, <2>1, <3>1, <3>2, <3>3, <3>4
  <2>2. CASE entry.type = "FREE" /\ size = 0
    <3>1. freeList' = freeList
        BY <1>8, <2>2
    <3>2. x \notin WholePagesOf(entry)
        BY <1>3, <1>7, <2>2
    <3> QED
        BY <3>1, <3>2
  <2>3. CASE entry.type # "FREE"
      BY <1>8, <2>3
  <2> QED
      BY <2>1, <2>2, <2>3
<1>10. ASSUME NEW x PROVE x \in Bytes(freeList') \/ x \in owned' <=> TakenOver(index', x)
  <2>1. x \in Bytes(freeList) \/ x \in owned <=> TakenOver(index, x)
      BY DEF Manages
  <2> QED
      BY <1>1, <1>2, <1>6, <1>9, <2>1
<1> QED
    BY <1>10 DEF Manages, TakenOver

\* From the end of pmm_init on, the manager and its callers have exactly the
\* whole pages of the memory that the boot loader calls usable: none of the
\* kernel's, the boot loader's or the firmware's, whatever the map and however
\* many of its entries fit in the array of bootstrap_init.
THEOREM UsableIsManaged == Spec => []ManagesUsable
<1>1. Init => Manages
  <2> SUFFICES ASSUME Init, NEW x
               PROVE  x \in Bytes(freeList) \/ x \in owned <=> TakenOver(index, x)
      BY DEF Manages
  <2>1. Bytes(freeList) = {} /\ owned = {} /\ index = Len(MemoryMap)
      BY DEF Init, Bytes
  <2>2. (Len(MemoryMap) + 1) .. Len(MemoryMap) = {}
      BY MapFields
  <2> QED
      BY <2>1, <2>2 DEF TakenOver
<1>2. PmmInv /\ Manages /\ [Next]_vars => Manages'
  <2> SUFFICES ASSUME PmmInv, Manages, [Next]_vars PROVE Manages'
      OBVIOUS
  <2>1. CASE InitEntry
      BY <2>1, InitEntryManages
  <2>2. ASSUME index' = index, (Bytes(freeList) \cup owned)' = Bytes(freeList) \cup owned
        PROVE  Manages'
    <3>1. ASSUME NEW x PROVE x \in Bytes(freeList') \/ x \in owned' <=> TakenOver(index', x)
      <4>1. x \in Bytes(freeList) \/ x \in owned <=> TakenOver(index, x)
          BY DEF Manages
      <4>2. x \in Bytes(freeList') \cup owned' <=> x \in Bytes(freeList) \cup owned
          BY <2>2
      <4> QED
          BY <2>2, <4>1, <4>2
    <3> QED
        BY <3>1 DEF Manages, TakenOver
  <2>3. ASSUME NEW asked \in 0 .. MaxRequest, pmm_alloc(asked) PROVE Manages'
    <3>1. index' = index
        BY <2>3 DEF pmm_alloc
    <3> QED
        BY <2>2, <2>3, <3>1, AllocStep
  <2>4. ASSUME NEW ptr \in owned, NEW asked \in 1 .. MaxRequest, pmm_free(ptr, asked)
        PROVE  Manages'
    <3>1. index' = index
        BY <2>4 DEF pmm_free
    <3> QED
        BY <2>2, <2>4, <3>1, FreeStep
  <2>5. CASE UNCHANGED vars
      BY <2>2, <2>5 DEF vars
  <2> QED
      BY <2>1, <2>3, <2>4, <2>5 DEF Next
<1>3. Manages => ManagesUsable
  <2> SUFFICES ASSUME Manages, index = 0
               PROVE  Bytes(freeList) \cup owned
                          = UNION {WholePagesOf(LoaderMap[i]) : i \in UsableEntries}
      BY DEF ManagesUsable
  <2>1. ASSUME NEW x PROVE x \in Bytes(freeList) \cup owned <=> TakenOver(0, x)
      BY DEF Manages
  <2>2. \A a, b : a.ptr = b.ptr /\ a.size = b.size => WholePagesOf(a) = WholePagesOf(b)
      BY DEF WholePagesOf
  <2>3. (0 + 1) .. Len(MemoryMap) = 1 .. Len(MemoryMap)
      OBVIOUS
  <2>4. ASSUME NEW x
        PROVE  TakenOver(0, x) <=> \E i \in UsableEntries : x \in WholePagesOf(LoaderMap[i])
      BY <2>2, <2>3, FreeIsUsable DEF TakenOver
  <2> QED
      BY <2>1, <2>4
<1> QED
    BY <1>1, <1>2, <1>3, PmmInvariant, PTL DEF Spec

-----------------------------------------------------------------------------
(* The lock that guards the list. *)

\* Every instruction of the routines, executed by any context, preserves the
\* inductive invariant.
LEMMA LockInvStep == LockInv /\ [LockNext]_lockVars => LockInv'
<1> SUFFICES ASSUME LockInv, [LockNext]_lockVars PROVE LockInv'
    OBVIOUS
<1> USE DEF LockInv, LockTypeOK, MutualExclusion, WordMeansHeld, Labels, Goto
<1>1. ASSUME NEW c \in Contexts, CallAcquire(c) PROVE LockInv'
    BY <1>1 DEF CallAcquire
<1>2. ASSUME NEW c \in Contexts, Test(c) PROVE LockInv'
    BY <1>2 DEF Test
<1>3. ASSUME NEW c \in Contexts, BitTestAndSet(c) PROVE LockInv'
    BY <1>3 DEF BitTestAndSet
<1>4. ASSUME NEW c \in Contexts, Pause(c) PROVE LockInv'
    BY <1>4 DEF Pause
<1>5. ASSUME NEW c \in Contexts, Release(c) PROVE LockInv'
    BY <1>5 DEF Release
<1>6. CASE UNCHANGED lockVars
    BY <1>6 DEF lockVars
<1> QED
    BY <1>1, <1>2, <1>3, <1>4, <1>5, <1>6 DEF LockNext

\* The conjunction of typing, exclusion and the meaning of the lock word holds
\* in every reachable state of spinlock.asm, whatever the number of contexts.
THEOREM LockInvariant == LockSpec => []LockInv
<1>1. LockInit => LockInv
    BY DEF LockInit, LockInv, LockTypeOK, MutualExclusion, WordMeansHeld, Labels
<1> QED
    BY <1>1, LockInvStep, PTL DEF LockSpec

\* Two contexts never hold the lock together (spinlock_acquire / lock bts).
THEOREM Exclusion == LockSpec => []MutualExclusion
<1>1. LockInv => MutualExclusion
    BY DEF LockInv
<1> QED
    BY <1>1, LockInvariant, PTL

\* While a context holds the lock, the refinement mapping names it.
LEMMA HolderIsUnique ==
    ASSUME MutualExclusion, NEW c \in Contexts, pc[c] = "held"
    PROVE  Holder = c
BY DEF MutualExclusion, Holder

\* While nobody holds the lock, the refinement mapping names nobody.
LEMMA HolderIsNobody ==
    ASSUME \A c \in Contexts : pc[c] # "held"
    PROVE  Holder = Nobody
BY DEF Holder

\* Every instruction either leaves the abstract holder alone or is the
\* abstract acquire (a lock bts that found 0) or release (the store of 0).
LEMMA StepRefines == LockInv /\ LockInv' /\ [LockNext]_lockVars => [Lock!Next]_Holder
<1> SUFFICES ASSUME LockInv, LockInv', [LockNext]_lockVars
             PROVE  Lock!Next \/ Holder' = Holder
    OBVIOUS
<1> USE DEF LockInv, LockTypeOK, Labels
<1>0. ASSUME \A c \in Contexts : pc'[c] = "held" <=> pc[c] = "held"
      PROVE  Holder' = Holder
    BY <1>0 DEF Holder
<1>1. ASSUME NEW c \in Contexts, CallAcquire(c) PROVE Holder' = Holder
    BY <1>0, <1>1 DEF CallAcquire, Goto
<1>2. ASSUME NEW c \in Contexts, Test(c) PROVE Holder' = Holder
    BY <1>0, <1>2 DEF Test, Goto
<1>3. ASSUME NEW c \in Contexts, BitTestAndSet(c)
      PROVE  Lock!Acquire(c) \/ Holder' = Holder
  <2>1. CASE word = 1
      BY <1>0, <1>3, <2>1 DEF BitTestAndSet, Goto
  <2>2. CASE word = 0
    <3>1. Holder = Nobody
        BY <2>2, HolderIsNobody DEF WordMeansHeld
    <3>2. pc'[c] = "held"
        BY <1>3, <2>2 DEF BitTestAndSet, Goto
    <3>3. Holder' = c
        BY <3>2 DEF MutualExclusion, Holder
    <3> QED
        BY <3>1, <3>3 DEF Lock!Acquire
  <2> QED
      BY <2>1, <2>2
<1>4. ASSUME NEW c \in Contexts, Pause(c) PROVE Holder' = Holder
    BY <1>0, <1>4 DEF Pause, Goto
<1>5. ASSUME NEW c \in Contexts, Release(c) PROVE Lock!Release(c)
  <2>1. Holder = c
      BY <1>5, HolderIsUnique DEF Release, Goto
  <2>2. \A d \in Contexts : pc'[d] # "held"
      BY <1>5 DEF Release, Goto, WordMeansHeld
  <2>3. Holder' = Nobody
      BY <2>2 DEF Holder
  <2> QED
      BY <2>1, <2>3 DEF Lock!Release
<1>6. CASE UNCHANGED lockVars
    BY <1>0, <1>6 DEF lockVars
<1> QED
    BY <1>1, <1>2, <1>3, <1>4, <1>5, <1>6 DEF LockNext, Lock!Next

\* spinlock.asm implements the abstract lock: a step of any instruction is an
\* abstract acquire, an abstract release or invisible.
THEOREM SpinlockImplementsMutex == LockSpec => ImplementsMutex
<1>1. LockInit => Lock!Init
    BY HolderIsNobody DEF LockInit, Lock!Init
<1> QED
    BY <1>1, LockInvariant, StepRefines, PTL DEF LockSpec, ImplementsMutex, Lock!Spec
=============================================================================
