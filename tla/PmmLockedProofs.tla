-------------------------- MODULE PmmLockedProofs --------------------------
(***************************************************************************)
(* For any number of contexts, pages and memory map entries: contexts that *)
(* walk and change the free list in the free pages themselves, and are     *)
(* kept apart by the lock alone, never see or leave anything but the list  *)
(* that module Pmm describes, and never hand a page to two owners.         *)
(***************************************************************************)
EXTENDS PmmLocked, SequenceTheorems, WellFoundedInduction, TLAPS

-----------------------------------------------------------------------------
(* Induction over numbers, in a form without operator parameters. *)

\* A set of numbers that is not empty has a least element.
LEMMA LeastNumber ==
    ASSUME NEW T, T \subseteq Nat, T # {}
    PROVE  \E x \in T : \A y \in T : x <= y
<1> DEFINE R == OpToRel(<, Nat)
<1>1. IsWellFoundedOn(R, Nat)
    BY NatLessThanWellFounded, Zenon
<1>2. \A x, y \in Nat : <<y, x>> \in R <=> y < x
    BY DEF OpToRel
<1> HIDE DEF R
<1>3. PICK x \in T : \A y \in T : ~(<<y, x>> \in R)
    BY <1>1, WFMin
<1>4. ASSUME NEW y \in T PROVE x <= y
  <2>1. x \in Nat /\ y \in Nat
      OBVIOUS
  <2>2. ~(y < x)
      BY <1>2, <1>3, <2>1
  <2> QED
      BY <2>1, <2>2
<1> QED
    BY <1>4

\* A set that contains 0, and with a number the next one, contains all numbers.
LEMMA NumberInduction ==
    ASSUME NEW S, 0 \in S, \A n \in Nat : n \in S => n + 1 \in S
    PROVE  Nat \subseteq S
<1> DEFINE T == Nat \ S
<1> SUFFICES ASSUME T # {} PROVE FALSE
    OBVIOUS
<1>1. PICK x \in T : \A y \in T : x <= y
  <2>1. T \subseteq Nat
      OBVIOUS
  <2> HIDE DEF T
  <2> QED
      BY <2>1, LeastNumber
<1>2. x \in Nat /\ x # 0
    OBVIOUS
<1>3. x - 1 \in Nat /\ x - 1 \in S
    BY <1>1, <1>2
<1>4. (x - 1) + 1 \in S
    BY <1>3
<1> QED
    BY <1>2, <1>4

\* The values of g up to N come from the first one by one step after the other.
Iterates(g, V, v0, step, N) ==
    /\ g \in [0 .. N -> V] /\ g[0] = v0
    /\ \A k \in 1 .. N : g[k] = step[g[k - 1]]

\* A value for 0 and a step from each value to the next define a function on the
\* numbers up to N.
LEMMA RecursiveFunction ==
    ASSUME NEW V, NEW v0 \in V, NEW step \in [V -> V], NEW N \in Nat
    PROVE  \E g : Iterates(g, V, v0, step, N)
<1> DEFINE Def(n, g) == Iterates(g, V, v0, step, n)
           S == {n \in Nat : \E g : Def(n, g)}
<1> USE DEF Iterates
<1>1. 0 \in S
  <2>1. Def(0, [k \in 0 .. 0 |-> v0])
      OBVIOUS
  <2> QED
      BY <2>1
<1>2. ASSUME NEW n \in Nat, n \in S PROVE n + 1 \in S
  <2>1. PICK g : Def(n, g)
      BY <1>2
  <2> DEFINE h == [k \in 0 .. n + 1 |-> IF k <= n THEN g[k] ELSE step[g[n]]]
  <2>2. g[n] \in V
      BY <2>1
  <2>3. h \in [0 .. n + 1 -> V]
      BY <2>1, <2>2
  <2>4. h[0] = v0
      BY <2>1
  <2>5. ASSUME NEW k \in 1 .. n + 1 PROVE h[k] = step[h[k - 1]]
    <3>1. h[k - 1] = g[k - 1]
        OBVIOUS
    <3>2. CASE k <= n
        BY <2>1, <3>1, <3>2
    <3>3. CASE k = n + 1
        BY <3>1, <3>3
    <3> QED
        BY <3>2, <3>3
  <2> HIDE DEF h
  <2>6. Def(n + 1, h)
      BY <2>3, <2>4, <2>5
  <2> QED
      BY <2>6
<1> HIDE DEF S
<1>3. Nat \subseteq S
    BY <1>1, <1>2, NumberInduction
<1>4. N \in S
    BY <1>3
<1>5. PICK g : Def(N, g)
    BY <1>4 DEF S
<1> QED
    BY <1>5
-----------------------------------------------------------------------------
(* Sequences. *)

\* What InsertAt returns, index by index.
LEMMA InsertAtIndex ==
    ASSUME NEW S, NEW list \in Seq(S), NEW k \in 1 .. Len(list) + 1, NEW e \in S
    PROVE  /\ Manager!InsertAt(list, k, e) \in Seq(S)
           /\ Len(Manager!InsertAt(list, k, e)) = Len(list) + 1
           /\ \A i \in 1 .. Len(list) + 1 :
                Manager!InsertAt(list, k, e)[i] =
                    IF i < k THEN list[i] ELSE IF i = k THEN e ELSE list[i - 1]
<1> DEFINE front == SubSeq(list, 1, k - 1)
           back == SubSeq(list, k, Len(list))
           first == front \o <<e>>
           whole == first \o back
<1>0. Len(list) \in Nat
    BY LenProperties
<1>1. /\ front \in Seq(S) /\ Len(front) = k - 1
      /\ \A i \in 1 .. k - 1 : front[i] = list[i]
    BY <1>0
<1>2. /\ back \in Seq(S) /\ Len(back) = Len(list) + 1 - k
      /\ \A i \in 1 .. Len(list) + 1 - k : back[i] = list[k + i - 1]
    BY <1>0
<1>3. Manager!InsertAt(list, k, e) = whole
    BY DEF Manager!InsertAt
<1> HIDE DEF front, back
<1>4. /\ first \in Seq(S) /\ Len(first) = k
      /\ \A i \in 1 .. k : first[i] = IF i < k THEN list[i] ELSE e
    BY <1>0, <1>1
<1> HIDE DEF first
<1>5. /\ whole \in Seq(S) /\ Len(whole) = Len(first) + Len(back)
      /\ \A i \in 1 .. Len(first) + Len(back) :
            whole[i] = IF i <= Len(first) THEN first[i] ELSE back[i - Len(first)]
    BY <1>2, <1>4, ConcatProperties
<1> HIDE DEF whole
<1>6. ASSUME NEW i \in 1 .. Len(list) + 1, i > k
      PROVE  whole[i] = list[i - 1]
  <2>1. i - k \in 1 .. Len(list) + 1 - k
      BY <1>0, <1>6
  <2>2. back[i - k] = list[k + (i - k) - 1]
      BY <1>2, <2>1
  <2>3. k + (i - k) - 1 = i - 1
      BY <1>0
  <2>4. whole[i] = back[i - k]
    <3>1. i \in 1 .. Len(first) + Len(back) /\ ~(i <= Len(first))
        BY <1>0, <1>2, <1>4, <1>6
    <3> QED
        BY <1>4, <1>5, <3>1
  <2> QED
      BY <2>2, <2>3, <2>4
<1>7. ASSUME NEW i \in 1 .. Len(list) + 1
      PROVE  whole[i] =
                 IF i < k THEN list[i] ELSE IF i = k THEN e ELSE list[i - 1]
  <2>1. CASE i <= k
    <3>1. i \in 1 .. k
        BY <1>0, <2>1
    <3>2. i \in 1 .. Len(first) + Len(back) /\ i <= Len(first)
        BY <1>0, <1>2, <1>4, <2>1
    <3>3. whole[i] = first[i]
        BY <1>5, <3>2
    <3>4. first[i] = IF i < k THEN list[i] ELSE e
        BY <1>4, <3>1
    <3>5. ~(i < k) => i = k
        BY <1>0, <2>1
    <3> QED
        BY <3>3, <3>4, <3>5
  <2>2. CASE i > k
    <3>1. whole[i] = list[i - 1]
        BY <1>6, <2>2
    <3>2. ~(i < k) /\ ~(i = k)
        BY <1>0, <2>2
    <3> QED
        BY <3>1, <3>2
  <2> QED
      BY <1>0, <2>1, <2>2
<1>8. Len(whole) = Len(list) + 1
  <2>1. Len(whole) = k + (Len(list) + 1 - k)
      BY <1>2, <1>4, <1>5
  <2> QED
      BY <1>0, <2>1
<1> QED
    BY <1>3, <1>5, <1>7, <1>8

\* What RemoveAt returns, index by index.
LEMMA RemoveAtIndex ==
    ASSUME NEW S, NEW list \in Seq(S), NEW k \in 1 .. Len(list)
    PROVE  /\ Manager!RemoveAt(list, k) \in Seq(S)
           /\ Len(Manager!RemoveAt(list, k)) = Len(list) - 1
           /\ \A i \in 1 .. Len(list) - 1 :
                Manager!RemoveAt(list, k)[i] = IF i < k THEN list[i] ELSE list[i + 1]
<1> DEFINE front == SubSeq(list, 1, k - 1)
           back == SubSeq(list, k + 1, Len(list))
           whole == front \o back
<1>0. Len(list) \in Nat
    BY LenProperties
<1>1. /\ front \in Seq(S) /\ Len(front) = k - 1
      /\ \A i \in 1 .. k - 1 : front[i] = list[i]
    BY <1>0
<1>2. /\ back \in Seq(S) /\ Len(back) = Len(list) - k
      /\ \A i \in 1 .. Len(list) - k : back[i] = list[k + i]
    BY <1>0
<1>3. Manager!RemoveAt(list, k) = whole
    BY DEF Manager!RemoveAt
<1> HIDE DEF front, back
<1>4. /\ whole \in Seq(S) /\ Len(whole) = Len(front) + Len(back)
      /\ \A i \in 1 .. Len(front) + Len(back) :
            whole[i] = IF i <= Len(front) THEN front[i] ELSE back[i - Len(front)]
    BY <1>1, <1>2, ConcatProperties
<1> HIDE DEF whole
<1>5. ASSUME NEW i \in 1 .. Len(list) - 1, i >= k
      PROVE  whole[i] = list[i + 1]
  <2>1. i - (k - 1) \in 1 .. Len(list) - k
      BY <1>0, <1>5
  <2>2. back[i - (k - 1)] = list[k + (i - (k - 1))]
      BY <1>2, <2>1
  <2>3. k + (i - (k - 1)) = i + 1
      BY <1>0
  <2>4. whole[i] = back[i - (k - 1)]
    <3>1. i \in 1 .. Len(front) + Len(back) /\ ~(i <= Len(front))
        BY <1>0, <1>1, <1>2, <1>5
    <3> QED
        BY <1>1, <1>4, <3>1
  <2> QED
      BY <2>2, <2>3, <2>4
<1>6. ASSUME NEW i \in 1 .. Len(list) - 1
      PROVE  whole[i] = IF i < k THEN list[i] ELSE list[i + 1]
  <2>1. CASE i < k
    <3>1. i \in 1 .. k - 1
        BY <1>0, <2>1
    <3>2. i \in 1 .. Len(front) + Len(back) /\ i <= Len(front)
      <4>1. Len(front) = k - 1 /\ Len(back) = Len(list) - k
          BY <1>1, <1>2
      <4> QED
          BY <1>0, <2>1, <4>1
    <3>3. whole[i] = front[i]
        BY <1>4, <3>2
    <3>4. front[i] = list[i]
        BY <1>1, <3>1
    <3> QED
        BY <2>1, <3>3, <3>4
  <2>2. CASE i >= k
    <3>1. whole[i] = list[i + 1]
        BY <1>5, <2>2
    <3>2. ~(i < k)
        BY <1>0, <2>2
    <3> QED
        BY <3>1, <3>2
  <2> QED
      BY <1>0, <2>1, <2>2
<1>7. Len(whole) = Len(list) - 1
  <2>1. Len(whole) = (k - 1) + (Len(list) - k)
      BY <1>1, <1>2, <1>4
  <2> QED
      BY <1>0, <2>1
<1> QED
    BY <1>3, <1>4, <1>6, <1>7

-----------------------------------------------------------------------------
(* The list that is read from memory. *)

\* What Walk computes, link by link.
LEMMA WalkStep ==
    ASSUME mem \in [Pages -> NodeType]
    PROVE  /\ \A n \in 0 .. MaxPage : Walk[n][Null] = <<>>
           /\ \A n \in 1 .. MaxPage, p \in Pages :
                Walk[n][p] = <<[ptr |-> mem[p].ptr, size |-> mem[p].size]>>
                                 \o Walk[n - 1][mem[p].next]
<1> DEFINE D == {Null} \cup Pages
           R == [ptr : 0 .. MaxPage, size : 0 .. MaxPage]
           V == [D -> Seq(R)]
           v0 == [p \in D |-> <<>>]
           Longer(f) ==
               [p \in D |->
                   IF p = Null THEN <<>>
                   ELSE <<[ptr |-> mem[p].ptr, size |-> mem[p].size]>> \o f[mem[p].next]]
           step == [f \in V |-> Longer(f)]
           Eq(g) ==
               g = [n \in 0 .. MaxPage |->
                       [p \in D |->
                           IF n = 0 \/ p = Null
                           THEN <<>>
                           ELSE <<[ptr |-> mem[p].ptr, size |-> mem[p].size]>>
                                    \o g[n - 1][mem[p].next]]]
<1>0. MaxPage \in Nat
    BY PagesAssumption
<1>1. v0 \in V
    OBVIOUS
<1>2. ASSUME NEW f \in V PROVE Longer(f) \in V
  <2>0. <<>> \in Seq(R)
      OBVIOUS
  <2>1. ASSUME NEW p \in D, p # Null
        PROVE  <<[ptr |-> mem[p].ptr, size |-> mem[p].size]>> \o f[mem[p].next] \in Seq(R)
    <3>1. mem[p] \in NodeType
        BY <2>1
    <3>2. [ptr |-> mem[p].ptr, size |-> mem[p].size] \in R /\ mem[p].next \in D
        BY <3>1 DEF NodeType
    <3>3. f[mem[p].next] \in Seq(R)
        BY <3>2
    <3> QED
        BY <3>2, <3>3
  <2> HIDE DEF R
  <2> QED
      BY <2>0, <2>1, Zenon
<1>3. step \in [V -> V]
    BY <1>2
<1>4. PICK g \in [0 .. MaxPage -> V] :
          g[0] = v0 /\ \A k \in 1 .. MaxPage : g[k] = step[g[k - 1]]
  <2> HIDE DEF V, v0, step
  <2>1. \E g : Iterates(g, V, v0, step, MaxPage)
      BY <1>0, <1>1, <1>3, RecursiveFunction
  <2> QED
      BY <2>1, Zenon DEF Iterates
<1>5. Eq(g)
  <2> DEFINE G(n) ==
                 [p \in D |->
                     IF n = 0 \/ p = Null
                     THEN <<>>
                     ELSE <<[ptr |-> mem[p].ptr, size |-> mem[p].size]>>
                              \o g[n - 1][mem[p].next]]
  <2>1. g[0] = G(0)
      BY <1>4
  <2>2. ASSUME NEW n \in 1 .. MaxPage PROVE g[n] = G(n)
    <3>1. g[n - 1] \in V
      <4>1. n - 1 \in 0 .. MaxPage
          BY <1>0
      <4> HIDE DEF V
      <4> QED
          BY <1>4, <4>1
    <3>2. g[n] = Longer(g[n - 1])
        BY <1>4, <3>1
    <3>3. Longer(g[n - 1]) = G(n)
        BY <1>0
    <3> QED
        BY <3>2, <3>3
  <2>3. ASSUME NEW n \in 0 .. MaxPage PROVE g[n] = G(n)
    <3>1. n = 0 \/ n \in 1 .. MaxPage
        BY <1>0
    <3> HIDE DEF G
    <3> QED
        BY <2>1, <2>2, <3>1
  <2> HIDE DEF V
  <2>4. g = [n \in 0 .. MaxPage |-> g[n]]
      BY <1>4
  <2>5. g = [n \in 0 .. MaxPage |-> G(n)]
    <3> HIDE DEF G
    <3> QED
        BY <2>3, <2>4
  <2> QED
      BY <2>5
<1>6. Walk = CHOOSE h : Eq(h)
    BY DEF Walk
<1> HIDE DEF Eq
<1>7. Eq(Walk)
    BY <1>5, <1>6
<1> HIDE DEF V, D
<1>8. ASSUME NEW n \in 0 .. MaxPage, NEW p \in {Null} \cup Pages
      PROVE  Walk[n][p] =
                 IF n = 0 \/ p = Null
                 THEN <<>>
                 ELSE <<[ptr |-> mem[p].ptr, size |-> mem[p].size]>>
                          \o Walk[n - 1][mem[p].next]
  <2> DEFINE W(i) ==
                 [q \in {Null} \cup Pages |->
                     IF i = 0 \/ q = Null
                     THEN <<>>
                     ELSE <<[ptr |-> mem[q].ptr, size |-> mem[q].size]>>
                              \o Walk[i - 1][mem[q].next]]
  <2>1. Walk = [i \in 0 .. MaxPage |-> W(i)]
      BY <1>7, Zenon DEF Eq, D
  <2>2. Walk[n] = W(n)
    <3> HIDE DEF W
    <3> QED
        BY <2>1
  <2> QED
      BY <2>2
<1>9. ASSUME NEW n \in 1 .. MaxPage, NEW p \in Pages
      PROVE  Walk[n][p] = <<[ptr |-> mem[p].ptr, size |-> mem[p].size]>>
                              \o Walk[n - 1][mem[p].next]
  <2>1. n \in 0 .. MaxPage /\ n # 0 /\ p # Null
      BY <1>0 DEF Null, Pages
  <2> QED
      BY <1>8, <2>1
<1> QED
    BY <1>8, <1>9

\* A sound list, index by index, in the terms the arithmetic needs.
LEMMA SoundIndex ==
    ASSUME NEW list, Sound(list)
    PROVE  /\ list \in Seq(Node) /\ Len(list) \in Nat
           /\ \A i \in 1 .. Len(list) :
                /\ list[i] \in Node
                /\ list[i].ptr \in Nat /\ list[i].ptr \in Pages /\ list[i].ptr # Null
                /\ list[i].size \in Nat /\ list[i].size > 0
                /\ End(list[i]) = list[i].ptr + list[i].size
                /\ End(list[i]) <= MaxPage + 1
           /\ \A i, j \in 1 .. Len(list) : i < j => End(list[i]) <= list[j].ptr
           /\ \A i, j \in 1 .. Len(list) : list[i].ptr = list[j].ptr => i = j
<1>1. list \in Seq(Node) /\ Len(list) \in Nat
    BY LenProperties DEF Sound
<1>2. ASSUME NEW i \in 1 .. Len(list) PROVE list[i] \in Node
    BY <1>1, ElementOfSeq
<1>3. ASSUME NEW i \in 1 .. Len(list)
      PROVE  /\ list[i].ptr \in Nat /\ list[i].ptr \in Pages /\ list[i].ptr # Null
             /\ list[i].size \in Nat /\ list[i].size > 0
             /\ End(list[i]) = list[i].ptr + list[i].size
    BY <1>2, PagesAssumption DEF Node, Pages, End, Null
<1>4. /\ \A i \in 1 .. Len(list) : End(list[i]) <= MaxPage + 1
      /\ \A i, j \in 1 .. Len(list) : i < j => End(list[i]) <= list[j].ptr
    BY DEF Sound
<1>5. ASSUME NEW i \in 1 .. Len(list), NEW j \in 1 .. Len(list), list[i].ptr = list[j].ptr
      PROVE  i = j
  <2>1. CASE i < j
      BY <1>3, <1>4, <1>5, <2>1
  <2>2. CASE j < i
      BY <1>3, <1>4, <1>5, <2>2
  <2> QED
      BY <1>1, <2>1, <2>2
<1> QED
    BY <1>1, <1>2, <1>3, <1>4, <1>5

\* The ranges of a list lie in different pages, so there are no more than pages.
LEMMA LengthBound ==
    ASSUME NEW list, Sound(list)
    PROVE  Len(list) <= MaxPage
<1> DEFINE S == {n \in Nat : n + 1 <= Len(list) => list[n + 1].ptr > n}
<1>1. /\ Len(list) \in Nat
      /\ \A i \in 1 .. Len(list) :
            /\ list[i].ptr \in Nat /\ list[i].ptr \in Pages
            /\ list[i].size \in Nat /\ list[i].size > 0
            /\ End(list[i]) = list[i].ptr + list[i].size
      /\ \A i, j \in 1 .. Len(list) : i < j => End(list[i]) <= list[j].ptr
    BY SoundIndex
<1>2. 0 \in S
  <2>1. ASSUME 1 <= Len(list) PROVE list[1].ptr > 0
    <3>1. 1 \in 1 .. Len(list)
        BY <1>1, <2>1
    <3> QED
        BY <1>1, <3>1, PagesAssumption DEF Pages
  <2> QED
      BY <2>1
<1>3. ASSUME NEW n \in Nat, n \in S PROVE n + 1 \in S
  <2> SUFFICES ASSUME (n + 1) + 1 <= Len(list)
               PROVE  list[(n + 1) + 1].ptr > n + 1
      OBVIOUS
  <2>1. n + 1 \in 1 .. Len(list) /\ (n + 1) + 1 \in 1 .. Len(list)
      BY <1>1
  <2>2. list[n + 1].ptr > n
      BY <1>3, <2>1
  <2>3. End(list[n + 1]) <= list[(n + 1) + 1].ptr
      BY <1>1, <2>1
  <2> QED
      BY <1>1, <2>1, <2>2, <2>3
<1> HIDE DEF S
<1>4. Nat \subseteq S
    BY <1>2, <1>3, NumberInduction
<1>5. ASSUME Len(list) > 0 PROVE Len(list) <= MaxPage
  <2>1. Len(list) - 1 \in Nat /\ (Len(list) - 1) + 1 = Len(list)
      BY <1>1, <1>5
  <2>2. Len(list) - 1 \in S
      BY <1>4, <2>1
  <2>3. list[Len(list)].ptr > Len(list) - 1
      BY <1>1, <2>1, <2>2 DEF S
  <2>4. list[Len(list)].ptr \in Pages
      BY <1>1, <1>5
  <2> QED
      BY <1>1, <2>3, <2>4, PagesAssumption DEF Pages
<1> QED
    BY <1>1, <1>5, PagesAssumption

\* Following the links of a list that is stored in memory gives that list.
LEMMA ReadsStored ==
    ASSUME mem \in [Pages -> NodeType], NEW list, Sound(list), Stored(list)
    PROVE  CurrentList = list
<1> DEFINE L == Len(list)
           Rest(i) == SubSeq(list, i, L)
           S == {n \in Nat : n <= MaxPage =>
                    \A i \in 1 .. L + 1 : L + 1 - i <= n => Walk[n][LinkOf(list, i - 1)] = Rest(i)}
<1>0. MaxPage \in Nat
    BY PagesAssumption
<1>1. /\ list \in Seq(Node) /\ L \in Nat
      /\ \A i \in 1 .. L : list[i] \in Node /\ list[i].ptr \in Pages
    BY SoundIndex
<1>2. Rest(L + 1) = <<>>
    BY <1>1
<1>3. ASSUME NEW i \in 1 .. L PROVE Rest(i) = <<list[i]>> \o Rest(i + 1)
    BY <1>1, <1>3
<1>4. /\ \A n \in 0 .. MaxPage : Walk[n][Null] = <<>>
      /\ \A n \in 1 .. MaxPage, p \in Pages :
            Walk[n][p] = <<[ptr |-> mem[p].ptr, size |-> mem[p].size]>>
                             \o Walk[n - 1][mem[p].next]
    BY WalkStep
<1>5. LinkOf(list, L) = Null
    BY <1>1 DEF LinkOf
<1> HIDE DEF Rest, L
<1>6. ASSUME NEW n \in 0 .. MaxPage PROVE Walk[n][LinkOf(list, (L + 1) - 1)] = Rest(L + 1)
    BY <1>1, <1>2, <1>4, <1>5
<1>7. 0 \in S
  <2>1. ASSUME NEW i \in 1 .. L + 1, L + 1 - i <= 0 PROVE i = L + 1
      BY <1>1, <2>1
  <2> QED
      BY <1>0, <1>6, <2>1
<1>8. ASSUME NEW n \in Nat, n \in S PROVE n + 1 \in S
  <2> SUFFICES ASSUME n + 1 <= MaxPage, NEW i \in 1 .. L + 1, L + 1 - i <= n + 1
               PROVE  Walk[n + 1][LinkOf(list, i - 1)] = Rest(i)
      OBVIOUS
  <2>1. CASE i = L + 1
      BY <1>0, <1>6, <2>1
  <2>2. CASE i \in 1 .. L
    <3>1. i + 1 \in 1 .. L + 1 /\ L + 1 - (i + 1) <= n /\ (i + 1) - 1 = i /\ n <= MaxPage
        BY <1>0, <1>1, <2>2
    <3>2. Walk[n][LinkOf(list, i)] = Rest(i + 1)
        BY <1>8, <3>1
    <3>3. LinkOf(list, i - 1) = list[i].ptr
        BY <1>1, <2>2 DEF LinkOf, L
    <3>4. mem[list[i].ptr] =
              [next |-> LinkOf(list, i), ptr |-> list[i].ptr, size |-> list[i].size]
        BY <2>2 DEF Stored, StoredIn, L
    <3>5. list[i] = [ptr |-> list[i].ptr, size |-> list[i].size]
        BY <1>1, <2>2 DEF Node
    <3>6. n + 1 \in 1 .. MaxPage /\ (n + 1) - 1 = n
        BY <1>0
    <3>7. Walk[n + 1][list[i].ptr] =
              <<[ptr |-> mem[list[i].ptr].ptr, size |-> mem[list[i].ptr].size]>>
                  \o Walk[n][mem[list[i].ptr].next]
        BY <1>1, <1>4, <2>2, <3>6
    <3>8. Walk[n + 1][list[i].ptr] = <<list[i]>> \o Rest(i + 1)
        BY <3>2, <3>4, <3>5, <3>7
    <3> QED
        BY <1>3, <2>2, <3>3, <3>8
  <2> QED
      BY <1>1, <2>1, <2>2
<1> HIDE DEF S
<1>9. Nat \subseteq S
    BY <1>7, <1>8, NumberInduction
<1>10. MaxPage \in S
    BY <1>0, <1>9
<1>11. L <= MaxPage
    BY LengthBound DEF L
<1>12. Walk[MaxPage][LinkOf(list, 0)] = Rest(1)
    BY <1>0, <1>1, <1>10, <1>11 DEF S
<1>13. Rest(1) = list
    BY <1>1 DEF Rest, L
<1> QED
    BY <1>12, <1>13 DEF CurrentList, Stored, StoredIn

-----------------------------------------------------------------------------
(* Linking a node. *)

\* A range that shares no page with the list, linked at its place in address
\* order, leaves a sound list that covers the range and nothing else besides.
LEMMA InsertSound ==
    ASSUME NEW list, Sound(list), NEW k \in 1 .. Len(list) + 1,
           NEW node \in Node, End(node) <= MaxPage + 1,
           \A j \in 1 .. k - 1 : list[j].ptr < node.ptr,
           k <= Len(list) => list[k].ptr >= node.ptr,
           \A p \in Chunk(node.ptr, node.size) : ~Covers(list, p)
    PROVE  LET new == Manager!InsertAt(list, k, node)
           IN  /\ Sound(new)
               /\ \A p \in Pages :
                    Covers(new, p) => Covers(list, p) \/ p \in Chunk(node.ptr, node.size)
<1> DEFINE new == Manager!InsertAt(list, k, node)
           L == Len(list)
<1>1. /\ list \in Seq(Node) /\ L \in Nat
      /\ \A i \in 1 .. L :
            /\ list[i].ptr \in Nat /\ list[i].size \in Nat /\ list[i].size > 0
            /\ End(list[i]) = list[i].ptr + list[i].size
            /\ End(list[i]) <= MaxPage + 1
      /\ \A i, j \in 1 .. L : i < j => End(list[i]) <= list[j].ptr
    BY SoundIndex
<1>2. /\ new \in Seq(Node) /\ Len(new) = L + 1
      /\ \A i \in 1 .. L + 1 :
            new[i] = IF i < k THEN list[i] ELSE IF i = k THEN node ELSE list[i - 1]
    BY <1>1, InsertAtIndex
<1>3. node.ptr \in Nat /\ node.size \in Nat /\ node.size > 0 /\ End(node) = node.ptr + node.size
    BY PagesAssumption DEF Node, Pages, End
<1>0. k \in 1 .. L + 1 /\ k \in Nat
    BY <1>1
<1> HIDE DEF new, L
<1>10. /\ new[k] = node
       /\ \A i \in 1 .. L + 1 : i < k => i \in 1 .. L /\ new[i] = list[i]
       /\ \A i \in 1 .. L + 1 : i > k => i - 1 \in 1 .. L /\ new[i] = list[i - 1]
    BY <1>0, <1>1, <1>2
<1>4. ASSUME NEW j \in 1 .. L, j < k PROVE End(list[j]) <= node.ptr
  <2>1. list[j].ptr < node.ptr
      BY <1>1, <1>4
  <2>2. ~Covers(list, node.ptr)
      BY <1>3 DEF Chunk
  <2> QED
      BY <1>1, <1>3, <1>4, <2>1, <2>2 DEF Covers, L
<1>5. ASSUME NEW j \in 1 .. L, j >= k PROVE End(node) <= list[j].ptr
  <2>1. list[j].ptr >= node.ptr
    <3>1. k \in 1 .. L /\ list[k].ptr >= node.ptr
        BY <1>1, <1>5 DEF L
    <3>2. CASE j = k
        BY <3>1, <3>2
    <3>3. CASE k < j
      <4>1. End(list[k]) <= list[j].ptr
          BY <1>1, <3>1, <3>3
      <4> QED
          BY <1>1, <1>3, <3>1, <4>1
    <3> QED
        BY <1>1, <1>5, <3>2, <3>3
  <2>2. Covers(list, list[j].ptr)
      BY <1>1 DEF Covers, L
  <2>3. list[j].ptr \notin Chunk(node.ptr, node.size)
      BY <2>2
  <2> QED
      BY <1>1, <1>3, <2>1, <2>3 DEF Chunk
<1>6. ASSUME NEW i \in 1 .. L + 1 PROVE End(new[i]) <= MaxPage + 1
  <2>1. CASE i < k
      BY <1>1, <1>10, <2>1
  <2>2. CASE i = k
      BY <1>10, <2>2
  <2>3. CASE i > k
    <3>1. i - 1 \in 1 .. L /\ new[i] = list[i - 1]
        BY <1>10, <2>3, Zenon
    <3> QED
        BY <1>1, <3>1
  <2> QED
      BY <1>0, <1>1, <2>1, <2>2, <2>3
<1>7. ASSUME NEW i \in 1 .. L + 1, NEW j \in 1 .. L + 1, i < j
      PROVE  End(new[i]) <= new[j].ptr
  <2>1. CASE j < k
    <3>1. i < k
        BY <1>0, <1>1, <1>7, <2>1
    <3> QED
        BY <1>1, <1>7, <1>10, <2>1, <3>1
  <2>2. CASE j = k
    <3>1. i < k
        BY <1>7, <2>2
    <3> QED
        BY <1>4, <1>10, <2>2, <3>1
  <2>3. CASE j > k
    <3>1. j - 1 \in 1 .. L /\ new[j] = list[j - 1]
        BY <1>10, <2>3, Zenon
    <3>2. CASE i < k
      <4>1. i \in 1 .. L /\ new[i] = list[i] /\ i < j - 1
          BY <1>0, <1>1, <1>10, <2>3, <3>2
      <4> QED
          BY <1>1, <3>1, <4>1
    <3>3. CASE i = k
      <4>1. j - 1 >= k
          BY <1>0, <1>1, <2>3
      <4> QED
          BY <1>5, <1>10, <3>1, <3>3, <4>1
    <3>4. CASE i > k
      <4>1. i - 1 \in 1 .. L /\ new[i] = list[i - 1]
          BY <1>10, <3>4, Zenon
      <4>2. i - 1 < j - 1
          BY <1>1, <1>7
      <4> QED
          BY <1>1, <3>1, <4>1, <4>2
    <3> QED
        BY <1>0, <1>1, <3>2, <3>3, <3>4
  <2> QED
      BY <1>0, <1>1, <2>1, <2>2, <2>3
<1>8. Sound(new)
    BY <1>2, <1>6, <1>7 DEF Sound
<1>9. ASSUME NEW p \in Pages, Covers(new, p)
      PROVE  Covers(list, p) \/ p \in Chunk(node.ptr, node.size)
  <2>1. PICK i \in 1 .. L + 1 : new[i].ptr <= p /\ p < End(new[i])
      BY <1>2, <1>9 DEF Covers
  <2>2. CASE i = k
      BY <1>3, <1>10, <2>1, <2>2, PagesAssumption DEF Chunk, Pages
  <2>3. CASE i < k
      BY <1>10, <2>1, <2>3 DEF Covers, L
  <2>4. CASE i > k
    <3>1. i - 1 \in 1 .. L /\ new[i] = list[i - 1]
        BY <1>10, <2>4, Zenon
    <3> QED
        BY <2>1, <3>1 DEF Covers, L
  <2> QED
      BY <1>0, <1>1, <2>2, <2>3, <2>4
<1> QED
    BY <1>8, <1>9 DEF new

\* Memory after the two stores of pmm_free that link the node.
LinkedWords(m, list, k, node) ==
    LET linked == [m EXCEPT ![node.ptr].next = LinkOf(list, k - 1)]
    IN  IF k = 1 THEN linked ELSE [linked EXCEPT ![list[k - 1].ptr].next = node.ptr]

\* They put the longer list into memory.
LEMMA InsertStored ==
    ASSUME NEW m \in [Pages -> NodeType], NEW h, NEW list, NEW k \in 1 .. Len(list) + 1,
           NEW node \in Node, Sound(list), Sound(Manager!InsertAt(list, k, node)),
           StoredIn(m, h, list),
           m[node.ptr].ptr = node.ptr, m[node.ptr].size = node.size
    PROVE  StoredIn(LinkedWords(m, list, k, node), IF k = 1 THEN node.ptr ELSE h,
                    Manager!InsertAt(list, k, node))
<1> DEFINE new == Manager!InsertAt(list, k, node)
           L == Len(list)
           linked == [m EXCEPT ![node.ptr].next = LinkOf(list, k - 1)]
           m2 == IF k = 1 THEN linked ELSE [linked EXCEPT ![list[k - 1].ptr].next = node.ptr]
<1>12. LinkedWords(m, list, k, node) = m2
    BY DEF LinkedWords
<1> HIDE DEF linked, m2
<1>1. /\ list \in Seq(Node) /\ L \in Nat
      /\ \A i \in 1 .. L : list[i].ptr \in Pages
    BY SoundIndex
<1>2. /\ Len(new) = L + 1
      /\ \A i \in 1 .. L + 1 :
            new[i] = IF i < k THEN list[i] ELSE IF i = k THEN node ELSE list[i - 1]
    BY <1>1, InsertAtIndex, SMTT(30)
<1>3. /\ \A i, j \in 1 .. L + 1 : new[i].ptr = new[j].ptr => i = j
      /\ \A i \in 1 .. L + 1 : new[i].ptr \in Pages
    BY <1>2, SoundIndex
<1>0. k \in 1 .. L + 1 /\ k \in Nat
    BY <1>1
<1> HIDE DEF new, L
<1>11. /\ new[k] = node
       /\ \A i \in 1 .. L + 1 : i < k => i \in 1 .. L /\ new[i] = list[i]
       /\ \A i \in 1 .. L + 1 : i > k => i - 1 \in 1 .. L /\ new[i] = list[i - 1]
    BY <1>0, <1>1, <1>2
<1>4. ASSUME NEW i \in 0 .. L + 1
      PROVE  LinkOf(new, i) = IF i < k - 1 THEN LinkOf(list, i)
                              ELSE IF i = k - 1 THEN node.ptr ELSE LinkOf(list, i - 1)
  <2>1. CASE i < k - 1
      BY <1>1, <1>2, <2>1 DEF LinkOf, L
  <2>2. CASE i = k - 1
      BY <1>1, <1>2, <2>2 DEF LinkOf, L
  <2>3. CASE i > k - 1 /\ i < L + 1
    <3>1. new[i + 1] = list[(i + 1) - 1] /\ (i + 1) - 1 = (i - 1) + 1 /\ i - 1 < L
        BY <1>1, <1>2, <2>3
    <3> QED
        BY <1>1, <1>2, <2>3, <3>1 DEF LinkOf, L
  <2>4. CASE i > k - 1 /\ i = L + 1
      BY <1>1, <1>2, <2>4 DEF LinkOf, L
  <2> QED
      BY <1>1, <2>1, <2>2, <2>3, <2>4
<1>5. \A i \in 1 .. L :
          m[list[i].ptr] =
              [next |-> LinkOf(list, i), ptr |-> list[i].ptr, size |-> list[i].size]
    BY DEF StoredIn, L
<1>6. node.ptr \in Pages /\ m[node.ptr] \in NodeType
    BY DEF Node
<1>7. /\ linked \in [Pages -> NodeType \cup {linked[node.ptr]}]
      /\ linked[node.ptr] =
            [next |-> LinkOf(list, k - 1), ptr |-> node.ptr, size |-> node.size]
      /\ \A p \in Pages \ {node.ptr} : linked[p] = m[p]
    BY <1>6 DEF NodeType, linked
<1>8. ASSUME k # 1
      PROVE  /\ list[k - 1].ptr \in Pages \ {node.ptr}
             /\ m2[list[k - 1].ptr] =
                    [next |-> node.ptr, ptr |-> list[k - 1].ptr, size |-> list[k - 1].size]
             /\ \A p \in Pages \ {list[k - 1].ptr} : m2[p] = linked[p]
  <2>1. k - 1 \in 1 .. L /\ k - 1 \in 1 .. L + 1 /\ k \in 1 .. L + 1 /\ k - 1 # k
      BY <1>1, <1>8 DEF L
  <2>2. new[k - 1] = list[k - 1] /\ new[k] = node
      BY <1>1, <1>2, <2>1
  <2>3. list[k - 1].ptr \in Pages \ {node.ptr}
      BY <1>1, <1>3, <2>1, <2>2
  <2>4. linked[list[k - 1].ptr] =
            [next |-> LinkOf(list, k - 1), ptr |-> list[k - 1].ptr, size |-> list[k - 1].size]
      BY <1>5, <1>7, <2>1, <2>3
  <2> QED
      BY <1>7, <1>8, <2>3, <2>4 DEF m2
<1>9. ASSUME NEW i \in 1 .. L + 1
      PROVE  m2[new[i].ptr] =
                 [next |-> LinkOf(new, i), ptr |-> new[i].ptr, size |-> new[i].size]
  <2>1. CASE i = k
    <3>1. i \in 0 .. L + 1 /\ ~(i < k - 1) /\ i # k - 1
        BY <1>0, <1>1, <2>1
    <3>2. new[i] = node /\ LinkOf(new, i) = LinkOf(list, k - 1)
        BY <1>4, <1>11, <2>1, <3>1
    <3>3. m2[node.ptr] = linked[node.ptr]
        BY <1>6, <1>8 DEF m2
    <3> QED
        BY <1>7, <3>2, <3>3
  <2>2. CASE i = k - 1
    <3>1. k # 1 /\ i < k /\ i \in 0 .. L + 1
        BY <1>0, <1>1, <2>2
    <3>2. new[i] = list[k - 1]
        BY <1>11, <2>2, <3>1
    <3>3. LinkOf(new, i) = node.ptr
        BY <1>0, <1>4, <2>2, <3>1
    <3> QED
        BY <1>8, <3>1, <3>2, <3>3
  <2>3. CASE i # k /\ i # k - 1
    <3>1. PICK j \in 1 .. L : new[i] = list[j] /\ LinkOf(new, i) = LinkOf(list, j)
      <4>1. CASE i < k - 1
        <5>1. i < k /\ i \in 0 .. L + 1
            BY <1>0, <1>1, <4>1
        <5> QED
            BY <1>4, <1>11, <4>1, <5>1
      <4>2. CASE i > k
        <5>1. i \in 0 .. L + 1 /\ ~(i < k - 1)
            BY <1>0, <1>1, <4>2
        <5>2. LinkOf(new, i) = LinkOf(list, i - 1)
            BY <1>4, <2>3, <5>1
        <5> QED
            BY <1>11, <4>2, <5>2
      <4> QED
          BY <1>0, <1>1, <2>3, <4>1, <4>2
    <3>2. new[i].ptr \in Pages /\ new[i].ptr # node.ptr
        BY <1>0, <1>3, <1>11, <2>3
    <3>3. k # 1 => new[i].ptr # list[k - 1].ptr
      <4> SUFFICES ASSUME k # 1 PROVE new[i].ptr # list[k - 1].ptr
          OBVIOUS
      <4>1. k - 1 \in 1 .. L + 1 /\ k - 1 < k
          BY <1>0, <1>1
      <4>2. new[k - 1] = list[k - 1]
          BY <1>11, <4>1
      <4> QED
          BY <1>3, <2>3, <4>1, <4>2
    <3>4. m2[new[i].ptr] = m[new[i].ptr]
        BY <1>7, <1>8, <3>2, <3>3 DEF m2
    <3> QED
        BY <1>5, <3>1, <3>4
  <2> QED
      BY <2>1, <2>2, <2>3
<1>10. (IF k = 1 THEN node.ptr ELSE h) = LinkOf(new, 0)
    BY <1>1, <1>4 DEF StoredIn, L
<1> QED
    BY <1>2, <1>9, <1>10, <1>12 DEF StoredIn, new

-----------------------------------------------------------------------------
(* Merging two neighbours. *)

\* The list after node i has swallowed the next one, index by index.
LEMMA MergeIndex ==
    ASSUME NEW list, Sound(list), NEW i \in 1 .. Len(list) - 1,
           End(list[i]) = list[i + 1].ptr
    PROVE  LET new == Manager!pmm_tryMergeNodes(list, i)
               sum == [ptr |-> list[i].ptr, size |-> list[i].size + list[i + 1].size]
           IN  /\ new \in Seq(Node) /\ Len(new) = Len(list) - 1
               /\ new[i] = sum /\ End(sum) = End(list[i + 1])
               /\ \A j \in 1 .. Len(list) - 1 : j < i => j \in 1 .. Len(list) /\ new[j] = list[j]
               /\ \A j \in 1 .. Len(list) - 1 : j > i => j + 1 \in 1 .. Len(list) /\ new[j] = list[j + 1]
<1> DEFINE new == Manager!pmm_tryMergeNodes(list, i)
           L == Len(list)
           sum == [ptr |-> list[i].ptr, size |-> list[i].size + list[i + 1].size]
           grown == [list EXCEPT ![i].size = @ + list[i + 1].size]
<1>1. /\ list \in Seq(Node) /\ L \in Nat
      /\ \A j \in 1 .. L :
            /\ list[j] \in Node
            /\ list[j].ptr \in Nat /\ list[j].size \in Nat /\ list[j].size > 0
            /\ list[j].ptr \in Pages
            /\ End(list[j]) = list[j].ptr + list[j].size
            /\ End(list[j]) <= MaxPage + 1
    BY SoundIndex
<1>2. i \in 1 .. L /\ i + 1 \in 1 .. L
    BY <1>1
<1>3. sum \in Node /\ End(sum) = End(list[i + 1])
  <2>1. list[i].size + list[i + 1].size \in Pages
    <3>1. /\ list[i].ptr \in Nat /\ list[i].ptr >= 1
          /\ list[i].size \in Nat /\ list[i].size > 0
          /\ list[i + 1].size \in Nat /\ list[i + 1].size > 0
        BY <1>1, <1>2, PagesAssumption DEF Pages
    <3>2. (list[i].ptr + list[i].size) + list[i + 1].size <= MaxPage + 1
        BY <1>1, <1>2
    <3> QED
        BY <3>1, <3>2, PagesAssumption DEF Pages
  <2>2. End(sum) = list[i].ptr + (list[i].size + list[i + 1].size)
      BY DEF End
  <2> QED
      BY <1>1, <1>2, <2>1, <2>2 DEF Node
<1>4. /\ grown \in Seq(Node) /\ Len(grown) = L
      /\ grown[i] = sum
      /\ \A j \in 1 .. L : j # i => grown[j] = list[j]
  <2>1. list[i] = [ptr |-> list[i].ptr, size |-> list[i].size]
      BY <1>1, <1>2 DEF Node
  <2>2. [list[i] EXCEPT !.size = @ + list[i + 1].size] = sum
      BY <2>1
  <2>3. grown = [list EXCEPT ![i] = sum]
      BY <2>2
  <2> HIDE DEF grown, sum
  <2>4. DOMAIN list = 1 .. L
      BY <1>1
  <2> QED
      BY <1>1, <1>2, <1>3, <2>3, <2>4, ExceptSeq
<1>5. new = Manager!RemoveAt(grown, i + 1)
    BY DEF Manager!pmm_tryMergeNodes, Manager!End, End
<1> HIDE DEF grown, new
<1>6. /\ new \in Seq(Node) /\ Len(new) = L - 1
      /\ \A j \in 1 .. L - 1 : new[j] = IF j < i + 1 THEN grown[j] ELSE grown[j + 1]
    BY <1>2, <1>4, <1>5, RemoveAtIndex
<1>7. new[i] = sum
    BY <1>1, <1>4, <1>6
<1> HIDE DEF sum, L
<1>8. ASSUME NEW j \in 1 .. L - 1, j < i PROVE j \in 1 .. L /\ new[j] = list[j]
  <2>1. j \in 1 .. L /\ j < i + 1 /\ j # i
      BY <1>1, <1>2, <1>8
  <2> QED
      BY <1>4, <1>6, <2>1
<1>9. ASSUME NEW j \in 1 .. L - 1, j > i PROVE j + 1 \in 1 .. L /\ new[j] = list[j + 1]
  <2>1. j + 1 \in 1 .. L /\ ~(j < i + 1) /\ j + 1 # i
      BY <1>1, <1>2, <1>9
  <2> QED
      BY <1>4, <1>6, <2>1
<1> QED
    BY <1>3, <1>6, <1>7, <1>8, <1>9 DEF new, L, sum

\* It is sound, and covers what the list covered.
LEMMA MergeSound ==
    ASSUME NEW list, Sound(list), NEW i \in 1 .. Len(list) - 1,
           End(list[i]) = list[i + 1].ptr
    PROVE  /\ Sound(Manager!pmm_tryMergeNodes(list, i))
           /\ \A p \in Pages : Covers(Manager!pmm_tryMergeNodes(list, i), p) => Covers(list, p)
<1> DEFINE new == Manager!pmm_tryMergeNodes(list, i)
           L == Len(list)
           sum == [ptr |-> list[i].ptr, size |-> list[i].size + list[i + 1].size]
<1>1. /\ list \in Seq(Node) /\ L \in Nat
      /\ \A j \in 1 .. L :
            /\ list[j].ptr \in Nat /\ list[j].size \in Nat /\ list[j].size > 0
            /\ End(list[j]) = list[j].ptr + list[j].size
            /\ End(list[j]) <= MaxPage + 1
      /\ \A a, b \in 1 .. L : a < b => End(list[a]) <= list[b].ptr
    BY SoundIndex
<1>2. i \in 1 .. L /\ i + 1 \in 1 .. L /\ i \in Nat
    BY <1>1
<1>3. /\ new \in Seq(Node) /\ Len(new) = L - 1
      /\ new[i] = sum /\ End(sum) = End(list[i + 1])
      /\ \A j \in 1 .. L - 1 : j < i => j \in 1 .. L /\ new[j] = list[j]
      /\ \A j \in 1 .. L - 1 : j > i => j + 1 \in 1 .. L /\ new[j] = list[j + 1]
    BY MergeIndex
<1>4. sum.ptr = list[i].ptr
    OBVIOUS
<1> HIDE DEF new, L, sum
<1>5. ASSUME NEW j \in 1 .. L - 1
      PROVE  \E a, b \in 1 .. L :
                /\ new[j].ptr = list[a].ptr /\ End(new[j]) = End(list[b])
                /\ j <= a /\ (j < i => a = j /\ b = j) /\ (j > i => a = j + 1 /\ b = j + 1)
                /\ (j = i => a = i /\ b = i + 1)
  <2>1. CASE j < i
      BY <1>1, <1>2, <1>3, <2>1
  <2>2. CASE j = i
      BY <1>1, <1>2, <1>3, <1>4, <2>2
  <2>3. CASE j > i
      BY <1>1, <1>2, <1>3, <2>3
  <2> QED
      BY <1>1, <1>2, <2>1, <2>2, <2>3
<1>6. ASSUME NEW j \in 1 .. L - 1 PROVE End(new[j]) <= MaxPage + 1
    BY <1>1, <1>5
<1>7. ASSUME NEW j \in 1 .. L - 1, NEW n \in 1 .. L - 1, j < n
      PROVE  End(new[j]) <= new[n].ptr
  <2>1. PICK a, b \in 1 .. L :
            /\ End(new[j]) = End(list[b])
            /\ (j < i => b = j) /\ (j > i => b = j + 1) /\ (j = i => b = i + 1)
      BY <1>5
  <2>2. PICK u, v \in 1 .. L :
            /\ new[n].ptr = list[u].ptr
            /\ (n < i => u = n) /\ (n > i => u = n + 1) /\ (n = i => u = i)
      BY <1>5
  <2>3. b < u
      BY <1>1, <1>2, <1>7, <2>1, <2>2
  <2> QED
      BY <1>1, <2>1, <2>2, <2>3
<1>8. Sound(new)
    BY <1>3, <1>6, <1>7 DEF Sound
<1>9. ASSUME NEW p \in Pages, Covers(new, p) PROVE Covers(list, p)
  <2>1. PICK j \in 1 .. L - 1 : new[j].ptr <= p /\ p < End(new[j])
      BY <1>3, <1>9 DEF Covers
  <2>2. p \in Nat
      BY PagesAssumption DEF Pages
  <2>3. CASE j < i
      BY <1>3, <2>1, <2>3 DEF Covers, L
  <2>4. CASE j > i
      BY <1>3, <2>1, <2>4 DEF Covers, L
  <2>5. CASE j = i
    <3>1. list[i].ptr <= p /\ p < End(list[i + 1])
        BY <1>3, <1>4, <2>1, <2>5
    <3>2. CASE p < End(list[i])
        BY <1>2, <3>1, <3>2 DEF Covers, L
    <3>3. CASE p >= End(list[i])
        BY <1>2, <3>1, <3>3 DEF Covers, L
    <3> QED
        BY <1>1, <1>2, <2>2, <3>2, <3>3
  <2> QED
      BY <1>1, <1>2, <2>3, <2>4, <2>5
<1> QED
    BY <1>8, <1>9 DEF new

\* The two stores of pmm_tryMergeNodes put it into memory.
LEMMA MergeStored ==
    ASSUME NEW m \in [Pages -> NodeType], NEW h, NEW list, Sound(list),
           NEW i \in 1 .. Len(list) - 1, End(list[i]) = list[i + 1].ptr,
           StoredIn(m, h, list)
    PROVE  LET node == list[i].ptr
               next == list[i + 1].ptr
           IN  StoredIn([m EXCEPT ![node] = [next |-> m[next].next, ptr |-> m[node].ptr,
                                             size |-> m[node].size + m[next].size]],
                        h, Manager!pmm_tryMergeNodes(list, i))
<1> DEFINE a == list[i].ptr
           b == list[i + 1].ptr
           m2 == [m EXCEPT ![a] = [next |-> m[b].next, ptr |-> m[a].ptr,
                                   size |-> m[a].size + m[b].size]]
           new == Manager!pmm_tryMergeNodes(list, i)
           L == Len(list)
           sum == [ptr |-> list[i].ptr, size |-> list[i].size + list[i + 1].size]
<1>1. /\ list \in Seq(Node) /\ L \in Nat
      /\ \A j \in 1 .. L : list[j].ptr \in Pages
      /\ \A j, k \in 1 .. L : list[j].ptr = list[k].ptr => j = k
    BY SoundIndex
<1>2. i \in 1 .. L /\ i + 1 \in 1 .. L /\ i \in Nat
    BY <1>1
<1>3. /\ new \in Seq(Node) /\ Len(new) = L - 1 /\ new[i] = sum
      /\ \A j \in 1 .. L - 1 : j < i => j \in 1 .. L /\ new[j] = list[j]
      /\ \A j \in 1 .. L - 1 : j > i => j + 1 \in 1 .. L /\ new[j] = list[j + 1]
    BY MergeIndex
<1>4. sum.ptr = list[i].ptr /\ sum.size = list[i].size + list[i + 1].size
    OBVIOUS
<1>5. h = LinkOf(list, 0)
      /\ \A j \in 1 .. L :
          m[list[j].ptr] =
              [next |-> LinkOf(list, j), ptr |-> list[j].ptr, size |-> list[j].size]
    BY DEF StoredIn
<1>6. /\ m2[list[i].ptr] =
            [next |-> LinkOf(list, i + 1), ptr |-> sum.ptr, size |-> sum.size]
      /\ \A p \in Pages : p # list[i].ptr => m2[p] = m[p]
  <2> HIDE DEF sum, L, m2
  <2>1. m[a] = [next |-> LinkOf(list, i), ptr |-> list[i].ptr, size |-> list[i].size]
      BY <1>2, <1>5
  <2>2. m[b] = [next |-> LinkOf(list, i + 1), ptr |-> list[i + 1].ptr,
                size |-> list[i + 1].size]
      BY <1>2, <1>5, Zenon
  <2>3. a \in Pages
      BY <1>1, <1>2
  <2> HIDE DEF a, b
  <2>4. /\ m2[a] = [next |-> m[b].next, ptr |-> m[a].ptr, size |-> m[a].size + m[b].size]
        /\ \A p \in Pages : p # a => m2[p] = m[p]
      BY <2>3 DEF m2
  <2>5. m2[a] = [next |-> LinkOf(list, i + 1), ptr |-> sum.ptr, size |-> sum.size]
      BY <1>4, <2>1, <2>2, <2>4
  <2> QED
      BY <2>4, <2>5 DEF a
<1> HIDE DEF new, L, sum, m2
<1>7. ASSUME NEW j \in 0 .. L - 1
      PROVE  LinkOf(new, j) = IF j < i THEN LinkOf(list, j) ELSE LinkOf(list, j + 1)
  <2>1. CASE j < i - 1
    <3>1. j + 1 \in 1 .. L - 1 /\ j + 1 < i /\ j < L /\ j < L - 1
        BY <1>1, <1>2, <2>1
    <3>2. new[j + 1] = list[j + 1]
        BY <1>3, <3>1
    <3> QED
        BY <1>2, <1>3, <2>1, <3>1, <3>2 DEF LinkOf, L
  <2>2. CASE j = i - 1
    <3>1. j < L /\ j < L - 1 /\ j + 1 = i
        BY <1>1, <1>2, <2>2
    <3> QED
        BY <1>2, <1>3, <1>4, <2>2, <3>1 DEF LinkOf, L
  <2>3. CASE j >= i /\ j < L - 1
    <3>1. j + 1 \in 1 .. L - 1 /\ j + 1 > i /\ j + 1 < L /\ ~(j < i)
        BY <1>1, <1>2, <2>3
    <3>2. new[j + 1] = list[(j + 1) + 1]
        BY <1>3, <3>1
    <3> QED
        BY <1>3, <2>3, <3>1, <3>2 DEF LinkOf, L
  <2>4. CASE j >= i /\ j = L - 1
      BY <1>1, <1>2, <1>3, <2>4 DEF LinkOf, L
  <2>5. j < i - 1 \/ j = i - 1 \/ (j >= i /\ j < L - 1) \/ (j >= i /\ j = L - 1)
      BY <1>1, <1>2
  <2> QED
      BY <2>1, <2>2, <2>3, <2>4, <2>5
<1>8. ASSUME NEW j \in 1 .. L - 1
      PROVE  m2[new[j].ptr] =
                 [next |-> LinkOf(new, j), ptr |-> new[j].ptr, size |-> new[j].size]
  <2>0. j \in 0 .. L - 1
      BY <1>1
  <2>1. CASE j < i
    <3>1. LinkOf(new, j) = LinkOf(list, j) /\ j \in 1 .. L /\ new[j] = list[j]
        BY <1>3, <1>7, <2>0, <2>1
    <3>2. list[j].ptr # list[i].ptr /\ list[j].ptr \in Pages
        BY <1>1, <1>2, <2>1, <3>1
    <3> QED
        BY <1>5, <1>6, <3>1, <3>2
  <2>2. CASE j = i
    <3>1. LinkOf(new, j) = LinkOf(list, i + 1) /\ new[j] = sum
        BY <1>2, <1>3, <1>7, <2>0, <2>2
    <3> QED
        BY <1>4, <1>6, <3>1
  <2>3. CASE j > i
    <3>0. ~(j < i) /\ j + 1 # i
        BY <1>1, <1>2, <2>3
    <3>1. LinkOf(new, j) = LinkOf(list, j + 1) /\ j + 1 \in 1 .. L /\ new[j] = list[j + 1]
        BY <1>3, <1>7, <2>0, <2>3, <3>0
    <3>2. list[j + 1].ptr # list[i].ptr /\ list[j + 1].ptr \in Pages
        BY <1>1, <1>2, <3>0, <3>1
    <3> QED
        BY <1>5, <1>6, <3>1, <3>2
  <2> QED
      BY <1>1, <1>2, <2>1, <2>2, <2>3
<1>9. h = LinkOf(new, 0)
  <2>1. 0 \in 0 .. L - 1 /\ 0 < i
      BY <1>1, <1>2
  <2> QED
      BY <1>5, <1>7, <2>1
<1> QED
    BY <1>3, <1>8, <1>9 DEF StoredIn, new, m2

-----------------------------------------------------------------------------
(* Taking memory off a node. *)

\* Unlinking node k: a sound list that covers nothing of the node any more.
LEMMA RemoveSound ==
    ASSUME NEW list, Sound(list), NEW k \in 1 .. Len(list)
    PROVE  /\ Sound(Manager!RemoveAt(list, k))
           /\ \A p \in Pages : Covers(Manager!RemoveAt(list, k), p) =>
                Covers(list, p) /\ ~(list[k].ptr <= p /\ p < End(list[k]))
<1> DEFINE new == Manager!RemoveAt(list, k)
           L == Len(list)
<1>1. /\ list \in Seq(Node) /\ L \in Nat
      /\ \A j \in 1 .. L :
            /\ list[j].ptr \in Nat /\ list[j].size \in Nat /\ list[j].size > 0
            /\ End(list[j]) = list[j].ptr + list[j].size
            /\ End(list[j]) <= MaxPage + 1
      /\ \A a, b \in 1 .. L : a < b => End(list[a]) <= list[b].ptr
    BY SoundIndex
<1>2. k \in 1 .. L /\ k \in Nat
    BY <1>1
<1>3. /\ new \in Seq(Node) /\ Len(new) = L - 1
      /\ \A j \in 1 .. L - 1 : new[j] = IF j < k THEN list[j] ELSE list[j + 1]
    BY <1>1, RemoveAtIndex
<1> HIDE DEF new, L
<1>4. ASSUME NEW j \in 1 .. L - 1
      PROVE  \E a \in 1 .. L : new[j] = list[a] /\ a = IF j < k THEN j ELSE j + 1
  <2>1. j \in 1 .. L /\ j + 1 \in 1 .. L
      BY <1>1
  <2> QED
      BY <1>3, <2>1
<1>5. ASSUME NEW j \in 1 .. L - 1 PROVE End(new[j]) <= MaxPage + 1
    BY <1>1, <1>4
<1>6. ASSUME NEW j \in 1 .. L - 1, NEW n \in 1 .. L - 1, j < n
      PROVE  End(new[j]) <= new[n].ptr
  <2>1. PICK a \in 1 .. L : new[j] = list[a] /\ a = IF j < k THEN j ELSE j + 1
      BY <1>4
  <2>2. PICK b \in 1 .. L : new[n] = list[b] /\ b = IF n < k THEN n ELSE n + 1
      BY <1>4
  <2>3. a < b
      BY <1>1, <1>2, <1>6, <2>1, <2>2
  <2> QED
      BY <1>1, <2>1, <2>2, <2>3
<1>7. Sound(new)
    BY <1>3, <1>5, <1>6 DEF Sound
<1>8. ASSUME NEW p \in Pages, Covers(new, p)
      PROVE  Covers(list, p) /\ ~(list[k].ptr <= p /\ p < End(list[k]))
  <2>1. PICK j \in 1 .. L - 1 : new[j].ptr <= p /\ p < End(new[j])
      BY <1>3, <1>8 DEF Covers
  <2>2. PICK a \in 1 .. L : new[j] = list[a] /\ a = IF j < k THEN j ELSE j + 1
      BY <1>4
  <2>3. a # k /\ p \in Nat
      BY <1>1, <1>2, <2>2, PagesAssumption DEF Pages
  <2>4. list[a].ptr <= p /\ p < End(list[a])
      BY <2>1, <2>2
  <2>5. Covers(list, p)
      BY <2>4 DEF Covers, L
  <2>6. CASE a < k
    <3>1. End(list[a]) <= list[k].ptr
        BY <1>1, <1>2, <2>6
    <3> QED
        BY <1>1, <1>2, <2>3, <2>4, <2>5, <3>1
  <2>7. CASE k < a
    <3>1. End(list[k]) <= list[a].ptr
        BY <1>1, <1>2, <2>7
    <3> QED
        BY <1>1, <1>2, <2>3, <2>4, <2>5, <3>1
  <2> QED
      BY <1>1, <1>2, <2>3, <2>6, <2>7
<1> QED
    BY <1>7, <1>8 DEF new, L

\* The one store of pmm_alloc that unlinks the node does it.
LEMMA RemoveStored ==
    ASSUME NEW m \in [Pages -> NodeType], NEW h, NEW list, Sound(list),
           NEW k \in 1 .. Len(list), StoredIn(m, h, list)
    PROVE  StoredIn(IF k = 1 THEN m
                    ELSE [m EXCEPT ![list[k - 1].ptr].next = m[list[k].ptr].next],
                    IF k = 1 THEN m[list[k].ptr].next ELSE h,
                    Manager!RemoveAt(list, k))
<1> DEFINE new == Manager!RemoveAt(list, k)
           L == Len(list)
           m2 == IF k = 1 THEN m
                 ELSE [m EXCEPT ![list[k - 1].ptr].next = m[list[k].ptr].next]
           h2 == IF k = 1 THEN m[list[k].ptr].next ELSE h
<1>1. /\ list \in Seq(Node) /\ L \in Nat
      /\ \A j \in 1 .. L : list[j].ptr \in Pages
      /\ \A a, b \in 1 .. L : list[a].ptr = list[b].ptr => a = b
    BY SoundIndex
<1>2. k \in 1 .. L /\ k \in Nat
    BY <1>1
<1>3. /\ new \in Seq(Node) /\ Len(new) = L - 1
      /\ \A j \in 1 .. L - 1 : new[j] = IF j < k THEN list[j] ELSE list[j + 1]
    BY <1>1, RemoveAtIndex
<1>4. /\ h = LinkOf(list, 0)
      /\ \A j \in 1 .. L :
          m[list[j].ptr] =
              [next |-> LinkOf(list, j), ptr |-> list[j].ptr, size |-> list[j].size]
    BY DEF StoredIn
<1> HIDE DEF new, L, m2, h2
<1>5. ASSUME NEW j \in 0 .. L - 1
      PROVE  LinkOf(new, j) = IF j < k - 1 THEN LinkOf(list, j) ELSE LinkOf(list, j + 1)
  <2>1. CASE j < k - 1
    <3>1. j + 1 \in 1 .. L - 1 /\ j + 1 < k /\ j < L /\ j < L - 1
        BY <1>1, <1>2, <2>1
    <3>2. new[j + 1] = list[j + 1]
        BY <1>3, <3>1
    <3> QED
        BY <1>3, <2>1, <3>1, <3>2 DEF LinkOf, L
  <2>2. CASE ~(j < k - 1) /\ j < L - 1
    <3>1. j + 1 \in 1 .. L - 1 /\ ~(j + 1 < k) /\ j + 1 < L
        BY <1>1, <1>2, <2>2
    <3>2. new[j + 1] = list[(j + 1) + 1]
        BY <1>3, <3>1
    <3> QED
        BY <1>3, <2>2, <3>1, <3>2 DEF LinkOf, L
  <2>3. CASE ~(j < k - 1) /\ j = L - 1
      BY <1>1, <1>2, <1>3, <2>3 DEF LinkOf, L
  <2>4. j < k - 1 \/ (~(j < k - 1) /\ j < L - 1) \/ (~(j < k - 1) /\ j = L - 1)
      BY <1>1, <1>2
  <2> QED
      BY <2>1, <2>2, <2>3, <2>4
<1>6. m[list[k].ptr].next = LinkOf(list, k)
  <2>1. m[list[k].ptr] =
            [next |-> LinkOf(list, k), ptr |-> list[k].ptr, size |-> list[k].size]
      BY <1>2, <1>4, Zenon
  <2> QED
      BY <2>1
<1>7. ASSUME k # 1
      PROVE  /\ k - 1 \in 1 .. L
             /\ m2[list[k - 1].ptr] =
                    [next |-> LinkOf(list, k), ptr |-> list[k - 1].ptr, size |-> list[k - 1].size]
             /\ \A p \in Pages : p # list[k - 1].ptr => m2[p] = m[p]
  <2>1. k - 1 \in 1 .. L
      BY <1>1, <1>2, <1>7
  <2>2. m[list[k - 1].ptr] =
            [next |-> LinkOf(list, k - 1), ptr |-> list[k - 1].ptr, size |-> list[k - 1].size]
      BY <1>4, <2>1, Zenon
  <2>3. list[k - 1].ptr \in Pages
      BY <1>1, <2>1
  <2>4. m2 = [m EXCEPT ![list[k - 1].ptr].next = LinkOf(list, k)]
      BY <1>6, <1>7 DEF m2
  <2> QED
      BY <2>1, <2>2, <2>3, <2>4
<1>8. k = 1 => m2 = m
    BY DEF m2
<1>9. ASSUME NEW j \in 1 .. L - 1
      PROVE  m2[new[j].ptr] =
                 [next |-> LinkOf(new, j), ptr |-> new[j].ptr, size |-> new[j].size]
  <2>0. j \in 0 .. L - 1 /\ j \in 1 .. L /\ j + 1 \in 1 .. L
      BY <1>1
  <2>1. CASE j = k - 1
    <3>1. k # 1 /\ j < k /\ ~(j < k - 1) /\ j + 1 = k
        BY <1>1, <1>2, <2>1
    <3>2. new[j] = list[k - 1] /\ LinkOf(new, j) = LinkOf(list, k)
        BY <1>3, <1>5, <2>0, <2>1, <3>1
    <3> QED
        BY <1>7, <3>1, <3>2
  <2>2. CASE j # k - 1
    <3>1. PICK a \in 1 .. L : new[j] = list[a] /\ LinkOf(new, j) = LinkOf(list, a) /\ a # k - 1
      <4>1. CASE j < k - 1
        <5>1. j < k
            BY <1>2, <4>1
        <5> QED
            BY <1>3, <1>5, <2>0, <2>2, <4>1, <5>1
      <4>2. CASE ~(j < k - 1)
        <5>1. ~(j < k) /\ j + 1 # k - 1
            BY <1>2, <2>2, <4>2
        <5> QED
            BY <1>3, <1>5, <2>0, <4>2, <5>1
      <4> QED
          BY <4>1, <4>2
    <3>2. m2[list[a].ptr] = m[list[a].ptr]
      <4>1. k # 1 => list[a].ptr # list[k - 1].ptr
          BY <1>1, <1>7, <3>1
      <4> QED
          BY <1>1, <1>7, <1>8, <4>1
    <3> QED
        BY <1>4, <3>1, <3>2
  <2> QED
      BY <2>1, <2>2
<1>10. h2 = LinkOf(new, 0)
  <2>1. CASE L = 1
    <3>1. k = 1 /\ LinkOf(list, 1) = Null
        BY <1>1, <1>2, <2>1 DEF LinkOf, L
    <3>2. LinkOf(new, 0) = Null
        BY <1>3, <2>1 DEF LinkOf
    <3> QED
        BY <1>6, <3>1, <3>2 DEF h2
  <2>2. CASE L > 1
    <3>1. 0 \in 0 .. L - 1 /\ (0 < k - 1 <=> k # 1)
        BY <1>1, <1>2, <2>2
    <3> QED
        BY <1>4, <1>5, <1>6, <3>1 DEF h2
  <2> QED
      BY <1>1, <1>2, <2>1, <2>2
<1> QED
    BY <1>3, <1>9, <1>10 DEF StoredIn, new, m2, h2

\* Shrinking node k by size: it keeps its start, and no longer covers its end.
LEMMA ShrinkSound ==
    ASSUME NEW list, Sound(list), NEW k \in 1 .. Len(list),
           NEW size \in Nat, size > 0, size < list[k].size
    PROVE  LET new == Manager!Shrink(list, k, size)
           IN  /\ Sound(new) /\ Len(new) = Len(list)
               /\ new[k] = [ptr |-> list[k].ptr, size |-> list[k].size - size]
               /\ \A j \in 1 .. Len(list) : j # k => new[j] = list[j]
               /\ \A p \in Pages : Covers(new, p) =>
                    Covers(list, p) /\ ~(End(list[k]) - size <= p /\ p < End(list[k]))
<1> DEFINE new == Manager!Shrink(list, k, size)
           L == Len(list)
           less == [ptr |-> list[k].ptr, size |-> list[k].size - size]
<1>1. /\ list \in Seq(Node) /\ L \in Nat
      /\ \A j \in 1 .. L :
            /\ list[j] \in Node /\ list[j].ptr \in Pages
            /\ list[j].ptr \in Nat /\ list[j].size \in Nat /\ list[j].size > 0
            /\ End(list[j]) = list[j].ptr + list[j].size
            /\ End(list[j]) <= MaxPage + 1
      /\ \A a, b \in 1 .. L : a < b => End(list[a]) <= list[b].ptr
    BY SoundIndex
<1>2. k \in 1 .. L /\ k \in Nat
    BY <1>1
<1>3. less \in Node /\ less.ptr = list[k].ptr /\ End(less) = End(list[k]) - size
  <2>1. list[k].size - size \in Pages
      BY <1>1, <1>2, PagesAssumption DEF Node, Pages
  <2>2. End(less) = list[k].ptr + (list[k].size - size)
      BY DEF End
  <2> QED
      BY <1>1, <1>2, <2>1, <2>2 DEF Node
<1>4. /\ new \in Seq(Node) /\ Len(new) = L /\ new[k] = less
      /\ \A j \in 1 .. L : j # k => new[j] = list[j]
  <2>1. list[k] = [ptr |-> list[k].ptr, size |-> list[k].size]
      BY <1>1, <1>2 DEF Node
  <2>2. [list[k] EXCEPT !.size = @ - size] = less
      BY <2>1
  <2>3. new = [list EXCEPT ![k] = less]
      BY <2>2 DEF Manager!Shrink
  <2> HIDE DEF new, less
  <2> QED
      BY <1>1, <1>2, <1>3, <2>3, ExceptSeq
<1> HIDE DEF new, L, less
<1>5. ASSUME NEW j \in 1 .. L
      PROVE  /\ new[j].ptr = list[j].ptr
             /\ End(new[j]) <= End(list[j]) /\ End(new[j]) \in Int
  <2>1. CASE j = k
      BY <1>1, <1>3, <1>4, <2>1
  <2>2. CASE j # k
    <3>1. new[j] = list[j]
        BY <1>4, <2>2
    <3>2. list[j].ptr \in Nat /\ list[j].size \in Nat /\ End(list[j]) = list[j].ptr + list[j].size
        BY <1>1
    <3>3. End(list[j]) \in Int
        BY <3>2
    <3> QED
        BY <3>1, <3>3
  <2> QED
      BY <2>1, <2>2
<1>6. Sound(new)
  <2>1. ASSUME NEW j \in 1 .. L PROVE End(new[j]) <= MaxPage + 1
    <3>1. End(new[j]) <= End(list[j]) /\ End(new[j]) \in Int
        BY <1>5
    <3>2. End(list[j]) <= MaxPage + 1 /\ End(list[j]) \in Int
        BY <1>1
    <3> QED
        BY <3>1, <3>2, PagesAssumption
  <2>2. ASSUME NEW i \in 1 .. L, NEW j \in 1 .. L, i < j PROVE End(new[i]) <= new[j].ptr
    <3>1. End(new[i]) <= End(list[i]) /\ End(new[i]) \in Int /\ new[j].ptr = list[j].ptr
        BY <1>5
    <3>2. End(list[i]) <= list[j].ptr /\ End(list[i]) \in Int /\ list[j].ptr \in Int
        BY <1>1, <2>2
    <3> QED
        BY <3>1, <3>2
  <2> QED
      BY <1>4, <2>1, <2>2 DEF Sound
<1>7. ASSUME NEW p \in Pages, Covers(new, p)
      PROVE  Covers(list, p) /\ ~(End(list[k]) - size <= p /\ p < End(list[k]))
  <2>1. PICK j \in 1 .. L : new[j].ptr <= p /\ p < End(new[j])
      BY <1>4, <1>7 DEF Covers
  <2>2. p \in Nat
      BY PagesAssumption DEF Pages
  <2>3. list[j].ptr <= p /\ p < End(list[j])
    <3>1. /\ new[j].ptr = list[j].ptr
          /\ End(new[j]) <= End(list[j]) /\ End(new[j]) \in Int
        BY <1>5
    <3>2. End(list[j]) \in Int
        BY <1>1
    <3> QED
        BY <2>1, <2>2, <3>1, <3>2
  <2>4. Covers(list, p)
      BY <2>3 DEF Covers, L
  <2>5. CASE j = k
      BY <1>1, <1>3, <1>4, <2>1, <2>2, <2>4, <2>5
  <2>6. CASE j < k
    <3>1. End(list[j]) <= list[k].ptr
        BY <1>1, <1>2, <2>6
    <3> QED
        BY <1>1, <1>2, <2>2, <2>3, <2>4, <3>1
  <2>7. CASE k < j
    <3>1. End(list[k]) <= list[j].ptr
        BY <1>1, <1>2, <2>7
    <3> QED
        BY <1>1, <1>2, <2>2, <2>3, <2>4, <3>1
  <2> QED
      BY <1>1, <1>2, <2>5, <2>6, <2>7
<1> QED
    BY <1>4, <1>6, <1>7 DEF new, L, less

\* The one store of pmm_alloc that shrinks the node does it.
LEMMA ShrinkStored ==
    ASSUME NEW m \in [Pages -> NodeType], NEW h, NEW list, Sound(list),
           NEW k \in 1 .. Len(list), StoredIn(m, h, list),
           NEW size \in Nat, size > 0, size < list[k].size
    PROVE  StoredIn([m EXCEPT ![list[k].ptr].size = @ - size], h,
                    Manager!Shrink(list, k, size))
<1> DEFINE new == Manager!Shrink(list, k, size)
           L == Len(list)
           a == list[k].ptr
           m2 == [m EXCEPT ![a].size = @ - size]
<1>1. /\ list \in Seq(Node) /\ L \in Nat
      /\ \A j \in 1 .. L : list[j].ptr \in Pages
      /\ \A i, j \in 1 .. L : list[i].ptr = list[j].ptr => i = j
    BY SoundIndex
<1>2. /\ Len(new) = L
      /\ new[k] = [ptr |-> list[k].ptr, size |-> list[k].size - size]
      /\ \A j \in 1 .. L : j # k => new[j] = list[j]
    BY ShrinkSound
<1>3. /\ h = LinkOf(list, 0)
      /\ \A j \in 1 .. L :
          m[list[j].ptr] =
              [next |-> LinkOf(list, j), ptr |-> list[j].ptr, size |-> list[j].size]
    BY DEF StoredIn
<1>4. k \in 1 .. L
    OBVIOUS
<1> HIDE DEF new, L, m2
<1>5. ASSUME NEW j \in 1 .. L PROVE new[j].ptr = list[j].ptr
    BY <1>2
<1>6. ASSUME NEW j \in 0 .. L PROVE LinkOf(new, j) = LinkOf(list, j)
  <2>1. j < L => j + 1 \in 1 .. L
      BY <1>1
  <2> QED
      BY <1>1, <1>2, <1>5, <2>1 DEF LinkOf, L
<1>7. a \in Pages /\ m[a] = [next |-> LinkOf(list, k), ptr |-> list[k].ptr, size |-> list[k].size]
    BY <1>1, <1>3, <1>4
<1>8. /\ m2[a] = [next |-> LinkOf(list, k), ptr |-> list[k].ptr, size |-> list[k].size - size]
      /\ \A p \in Pages : p # a => m2[p] = m[p]
  <2> HIDE DEF a
  <2> QED
      BY <1>7 DEF m2
<1>9. ASSUME NEW j \in 1 .. L
      PROVE  m2[new[j].ptr] =
                 [next |-> LinkOf(new, j), ptr |-> new[j].ptr, size |-> new[j].size]
  <2>0. j \in 0 .. L
      BY <1>1
  <2>1. CASE j = k
      BY <1>2, <1>6, <1>8, <2>0, <2>1
  <2>2. CASE j # k
    <3>1. list[j].ptr \in Pages /\ list[j].ptr # a
        BY <1>1, <1>4, <2>2
    <3> QED
        BY <1>2, <1>3, <1>6, <1>8, <2>0, <2>2, <3>1
  <2> QED
      BY <2>1, <2>2
<1>10. h = LinkOf(new, 0)
    BY <1>1, <1>3, <1>6
<1> QED
    BY <1>2, <1>9, <1>10 DEF StoredIn, new, m2

\* Memory holds a list as long as the words of its nodes are left alone.
LEMMA KeepsStored ==
    ASSUME NEW m, NEW m2, NEW h, NEW list, StoredIn(m, h, list),
           \A i \in 1 .. Len(list) : m2[list[i].ptr] = m[list[i].ptr]
    PROVE  StoredIn(m2, h, list)
    BY DEF StoredIn

-----------------------------------------------------------------------------
(* The list in memory while the lock is held. *)

\* The labels, one by one.
LEMMA LabelSets ==
    /\ Inside \subseteq Labels /\ "idle" \in Labels /\ "idle" \notin Inside
    /\ "alloc_acquire" \notin Inside /\ "free_acquire" \notin Inside
    /\ AllocInside \cap FreeInside = {} /\ Inside = AllocInside \cup FreeInside
    /\ FreeInside \subseteq InFree /\ AllocInside \subseteq InAlloc
    /\ "idle" \notin InFree /\ "idle" \notin InAlloc
    BY DEF Inside, AllocInside, FreeInside, InFree, InAlloc, Labels

\* The holder of the lock is the one context inside, and boot is over.
LEMMA HolderInside ==
    ASSUME LockedInv, NEW c \in Contexts, pc[c] \in Inside
    PROVE  /\ holder = c /\ c # Nobody /\ index = 0
           /\ \A d \in Contexts : d # c => pc[d] \notin Inside
<1>1. \A d \in Contexts : pc[d] \in Inside <=> holder = d
    BY DEF LockedInv, CallInv
<1>2. c # Nobody
    BY PagesAssumption
<1>3. ~(index > 0)
  <2> SUFFICES ASSUME index > 0 PROVE FALSE
      OBVIOUS
  <2>1. pc[c] = "idle"
      BY DEF LockedInv, BootInv
  <2> QED
      BY <2>1, LabelSets
<1>4. index \in Nat
    BY LenProperties, PagesAssumption DEF LockedInv, TypeOK
<1> QED
    BY <1>1, <1>2, <1>3, <1>4

\* What is freed is not in the list yet.
LEMMA FreedPages ==
    ASSUME LockedInv, NEW c \in Contexts, pc[c] \in InFree
    PROVE  /\ Freed(c) \in Node /\ End(Freed(c)) <= MaxPage + 1
           /\ Freed(c).ptr = loc[c].ptr /\ Freed(c).size = loc[c].size
           /\ loc[c].ptr \in Pages /\ loc[c].size \in Pages
           /\ Chunk(loc[c].ptr, loc[c].size) \subseteq Pages
           /\ loc[c].ptr \in Chunk(loc[c].ptr, loc[c].size)
           /\ \A p \in Chunk(loc[c].ptr, loc[c].size) :
                owner[p] = c /\ ~Covers(committed, p)
<1>1. /\ Freed(c) \in Node /\ End(Freed(c)) <= MaxPage + 1
      /\ \A p \in Chunk(loc[c].ptr, loc[c].size) : owner[p] = c
    BY DEF LockedInv, CallInv
<1>2. Freed(c).ptr = loc[c].ptr /\ Freed(c).size = loc[c].size
    BY DEF Freed
<1>3. loc[c].ptr \in Pages /\ loc[c].size \in Pages
    BY <1>1, <1>2 DEF Node
<1>4. loc[c].ptr + loc[c].size <= MaxPage + 1
    BY <1>1, <1>2 DEF End
<1>5. /\ Chunk(loc[c].ptr, loc[c].size) \subseteq Pages
      /\ loc[c].ptr \in Chunk(loc[c].ptr, loc[c].size)
    BY <1>3, <1>4, PagesAssumption DEF Chunk, Pages
<1>6. ASSUME NEW p \in Chunk(loc[c].ptr, loc[c].size) PROVE ~Covers(committed, p)
  <2>1. owner[p] # Nobody /\ p \in Pages
      BY <1>1, <1>5, PagesAssumption
  <2> QED
      BY <2>1 DEF LockedInv
<1> QED
    BY <1>1, <1>2, <1>3, <1>5, <1>6

\* The list with the freed range linked into it.
LEMMA LinkedList ==
    ASSUME LockedInv, NEW c \in Contexts, pc[c] \in FreeInside \ {"free_search"},
           NEW k \in 1 .. Len(committed) + 1, Found(c, k)
    PROVE  /\ Sound(Linked(c, k)) /\ Len(Linked(c, k)) = Len(committed) + 1
           /\ Linked(c, k)[k] = Freed(c)
           /\ k > 1 => k - 1 \in 1 .. Len(committed) /\ Linked(c, k)[k - 1] = committed[k - 1]
           /\ k <= Len(committed) => Linked(c, k)[k + 1] = committed[k]
           /\ \A p \in Pages : Covers(Linked(c, k), p) =>
                Covers(committed, p) \/ p \in Chunk(loc[c].ptr, loc[c].size)
<1>1. pc[c] \in InFree /\ pc[c] \in FreeInside /\ pc[c] # "free_search"
    BY LabelSets
<1>2. /\ Freed(c) \in Node /\ End(Freed(c)) <= MaxPage + 1
      /\ Freed(c).ptr = loc[c].ptr /\ Freed(c).size = loc[c].size
      /\ \A p \in Chunk(loc[c].ptr, loc[c].size) : ~Covers(committed, p)
    BY <1>1, FreedPages
<1>3. Sound(committed)
    BY DEF LockedInv
<1>4. /\ \A j \in 1 .. k - 1 : committed[j].ptr < Freed(c).ptr
      /\ k <= Len(committed) => committed[k].ptr >= Freed(c).ptr
    BY <1>1, <1>2 DEF Found
<1>5. /\ Sound(Linked(c, k))
      /\ \A p \in Pages : Covers(Linked(c, k), p) =>
            Covers(committed, p) \/ p \in Chunk(loc[c].ptr, loc[c].size)
    BY <1>2, <1>3, <1>4, InsertSound DEF Linked
<1>6. committed \in Seq(Node) /\ Len(committed) \in Nat
    BY <1>3, SoundIndex
<1>7. /\ Len(Linked(c, k)) = Len(committed) + 1
      /\ \A i \in 1 .. Len(committed) + 1 :
            Linked(c, k)[i] =
                IF i < k THEN committed[i] ELSE IF i = k THEN Freed(c) ELSE committed[i - 1]
    BY <1>2, <1>6, InsertAtIndex DEF Linked
<1>8. Linked(c, k)[k] = Freed(c)
    BY <1>7
<1>9. k > 1 => k - 1 \in 1 .. Len(committed) /\ Linked(c, k)[k - 1] = committed[k - 1]
    BY <1>6, <1>7
<1>10. k <= Len(committed) => Linked(c, k)[k + 1] = committed[k]
  <2> SUFFICES ASSUME k <= Len(committed) PROVE Linked(c, k)[k + 1] = committed[k]
      OBVIOUS
  <2>1. k + 1 \in 1 .. Len(committed) + 1 /\ ~(k + 1 < k) /\ k + 1 # k /\ (k + 1) - 1 = k
      BY <1>6
  <2>2. Linked(c, k)[k + 1] = committed[(k + 1) - 1]
      BY <1>7, <2>1
  <2> QED
      BY <2>1, <2>2
<1> QED
    BY <1>5, <1>7, <1>8, <1>9, <1>10

\* Whether the node before the freed range ends where the range starts.
Swallowed(c, k) == k > 1 /\ End(committed[k - 1]) = loc[c].ptr

\* The list after the first merge attempt: if the freed range was swallowed, its
\* page is no node of the list any more.
LEMMA MergedList ==
    ASSUME LockedInv, NEW c \in Contexts, pc[c] \in FreeInside \ {"free_search"},
           NEW k \in 1 .. Len(committed) + 1, Found(c, k)
    PROVE  /\ Sound(Merged(c, k))
           /\ \A p \in Pages : Covers(Merged(c, k), p) => Covers(Linked(c, k), p)
           /\ ~Swallowed(c, k) => Merged(c, k) = Linked(c, k)
           /\ Swallowed(c, k) =>
                /\ Merged(c, k) = Manager!pmm_tryMergeNodes(Linked(c, k), k - 1)
                /\ Len(Merged(c, k)) = Len(committed)
                /\ \A i \in 1 .. Len(Merged(c, k)) : Merged(c, k)[i].ptr # loc[c].ptr
<1> DEFINE list == Linked(c, k)
           L == Len(committed)
<1>1. /\ Sound(list) /\ Len(list) = L + 1 /\ list[k] = Freed(c)
      /\ k > 1 => k - 1 \in 1 .. L /\ list[k - 1] = committed[k - 1]
    BY LinkedList
<1>2. L \in Nat /\ k \in Nat /\ k \in 1 .. L + 1
    BY LenProperties, SoundIndex DEF LockedInv
<1>3. list[k].ptr = loc[c].ptr
    BY <1>1 DEF Freed
<1> HIDE DEF list, L
<1>4. CASE ~Swallowed(c, k)
  <2>1. k > 1 => End(list[k - 1]) # list[(k - 1) + 1].ptr
      BY <1>1, <1>2, <1>3, <1>4 DEF Swallowed
  <2>2. Merged(c, k) = list
      BY <2>1 DEF Merged, list, Manager!pmm_tryMergeNodes, Manager!End, End
  <2> QED
      BY <1>1, <1>4, <2>2 DEF list
<1>5. CASE Swallowed(c, k)
  <2> DEFINE new == Manager!pmm_tryMergeNodes(list, k - 1)
  <2>1. k > 1 /\ k - 1 \in 1 .. Len(list) - 1 /\ (k - 1) + 1 = k
      BY <1>1, <1>2, <1>5 DEF Swallowed
  <2>2. End(list[k - 1]) = list[(k - 1) + 1].ptr
      BY <1>1, <1>3, <1>5, <2>1 DEF Swallowed
  <2>3. Merged(c, k) = new
      BY <2>1 DEF Merged, list
  <2>4. Sound(new) /\ \A p \in Pages : Covers(new, p) => Covers(list, p)
      BY <1>1, <2>1, <2>2, MergeSound
  <2>5. /\ Len(new) = L
        /\ new[k - 1].ptr = list[k - 1].ptr
        /\ \A j \in 1 .. L : j < k - 1 => j \in 1 .. Len(list) /\ new[j] = list[j]
        /\ \A j \in 1 .. L : j > k - 1 => j + 1 \in 1 .. Len(list) /\ new[j] = list[j + 1]
    <3>1. Len(list) - 1 = L
        BY <1>1, <1>2
    <3> DEFINE q == k - 1
    <3>2. q \in 1 .. Len(list) - 1 /\ End(list[q]) = list[q + 1].ptr
        BY <2>1, <2>2
    <3> HIDE DEF q
    <3> DEFINE merged == Manager!pmm_tryMergeNodes(list, q)
               sum == [ptr |-> list[q].ptr, size |-> list[q].size + list[q + 1].size]
    <3>3. /\ Len(merged) = Len(list) - 1 /\ merged[q] = sum
          /\ \A j \in 1 .. Len(list) - 1 : j < q => j \in 1 .. Len(list) /\ merged[j] = list[j]
          /\ \A j \in 1 .. Len(list) - 1 :
                j > q => j + 1 \in 1 .. Len(list) /\ merged[j] = list[j + 1]
        BY <1>1, <3>2, MergeIndex
    <3>4. sum.ptr = list[q].ptr
        OBVIOUS
    <3>5. merged = new
        BY DEF q
    <3> HIDE DEF merged, new, sum
    <3> QED
        BY <3>1, <3>3, <3>4, <3>5 DEF q
  <2> HIDE DEF new
  <2>6. ASSUME NEW i \in 1 .. L PROVE new[i].ptr # list[k].ptr
    <3>1. PICK j \in 1 .. Len(list) : new[i].ptr = list[j].ptr /\ j # k
      <4>1. CASE i < k - 1
        <5>1. i # k
            BY <1>2, <4>1
        <5> QED
            BY <2>5, <4>1, <5>1
      <4>2. CASE i = k - 1
          BY <1>1, <1>2, <2>1, <2>5, <4>2
      <4>3. CASE i > k - 1
          BY <1>2, <2>5, <4>3
      <4> QED
          BY <1>2, <4>1, <4>2, <4>3
    <3>2. k \in 1 .. Len(list)
        BY <1>1, <1>2
    <3>3. \A a, b \in 1 .. Len(list) : list[a].ptr = list[b].ptr => a = b
        BY <1>1, SoundIndex
    <3> QED
        BY <3>1, <3>2, <3>3
  <2> QED
      BY <1>3, <1>5, <2>3, <2>4, <2>5, <2>6 DEF list, L, new
<1> QED
    BY <1>4, <1>5

\* The list when pmm_free releases the lock.
LEMMA GivenBack ==
    ASSUME LockedInv, NEW c \in Contexts, pc[c] \in FreeInside \ {"free_search"},
           NEW k \in 1 .. Len(committed) + 1, Found(c, k)
    PROVE  /\ Sound(Manager!GiveBack(k, Freed(c)))
           /\ \A p \in Pages : Covers(Manager!GiveBack(k, Freed(c)), p) => Covers(Linked(c, k), p)
           /\ Swallowed(c, k) \/ k > Len(committed) =>
                Manager!GiveBack(k, Freed(c)) = Merged(c, k)
           /\ ~Swallowed(c, k) /\ k <= Len(committed) =>
                Manager!GiveBack(k, Freed(c)) = Manager!pmm_tryMergeNodes(Linked(c, k), k)
<1> DEFINE list == Linked(c, k)
           L == Len(committed)
           new == Manager!pmm_tryMergeNodes(list, k)
<1>1. Sound(list) /\ Len(list) = L + 1
    BY LinkedList
<1>2. L \in Nat /\ k \in Nat /\ k \in 1 .. L + 1
    BY LenProperties, SoundIndex DEF LockedInv
<1>3. /\ Sound(Merged(c, k))
      /\ \A p \in Pages : Covers(Merged(c, k), p) => Covers(list, p)
      /\ ~Swallowed(c, k) => Merged(c, k) = list
      /\ Swallowed(c, k) => Len(Merged(c, k)) = L
    BY MergedList
<1>4. Manager!GiveBack(k, Freed(c)) =
          IF Len(Merged(c, k)) = Len(list) /\ k <= L
          THEN Manager!pmm_tryMergeNodes(Merged(c, k), k) ELSE Merged(c, k)
    BY DEF Manager!GiveBack, Merged, Linked
<1> HIDE DEF list, L, new
<1>5. CASE Swallowed(c, k) \/ k > L
  <2>1. ~(Len(Merged(c, k)) = Len(list) /\ k <= L)
      BY <1>1, <1>2, <1>3, <1>5
  <2>2. Manager!GiveBack(k, Freed(c)) = Merged(c, k)
      BY <1>4, <2>1
  <2>3. ~(~Swallowed(c, k) /\ k <= L)
      BY <1>2, <1>5
  <2> QED
      BY <1>3, <2>2, <2>3 DEF list, L
<1>6. CASE ~Swallowed(c, k) /\ k <= L
  <2>1. Manager!GiveBack(k, Freed(c)) = new
      BY <1>3, <1>4, <1>6 DEF new
  <2>2. Sound(new) /\ \A p \in Pages : Covers(new, p) => Covers(list, p)
    <3>1. k \in 1 .. Len(list) - 1
        BY <1>1, <1>2, <1>6
    <3>2. CASE End(list[k]) = list[k + 1].ptr
        BY <1>1, <3>1, <3>2, MergeSound DEF new
    <3>3. CASE End(list[k]) # list[k + 1].ptr
      <4>1. new = list
          BY <3>3 DEF new, Manager!pmm_tryMergeNodes, Manager!End, End
      <4> QED
          BY <1>1, <4>1
    <3> QED
        BY <3>2, <3>3
  <2>3. ~(Swallowed(c, k) \/ k > L)
      BY <1>2, <1>6
  <2> QED
      BY <2>1, <2>2, <2>3 DEF list, L, new
<1> QED
    BY <1>2, <1>5, <1>6

\* The list that pmm_alloc leaves covers nothing of what it hands out.
LEMMA TakenList ==
    ASSUME LockedInv, NEW c \in Contexts, pc[c] \in {"alloc_take", "alloc_release"},
           NEW k \in 1 .. Len(committed), Found(c, k)
    PROVE  LET start == End(committed[k]) - loc[c].size
           IN  /\ Sound(Manager!Take(k, loc[c].size))
               /\ start \in Pages /\ start + loc[c].size = End(committed[k])
               /\ \A p \in Chunk(start, loc[c].size) : p \in Pages /\ Covers(committed, p)
               /\ \A p \in Pages : Covers(Manager!Take(k, loc[c].size), p) =>
                    Covers(committed, p) /\ p \notin Chunk(start, loc[c].size)
<1> DEFINE size == loc[c].size
           start == End(committed[k]) - size
           node == committed[k]
<1>1. Sound(committed) /\ Len(committed) \in Nat
    BY SoundIndex DEF LockedInv
<1>2. size \in Nat /\ size > 0
  <2>1. size \in 1 .. MaxRequest
      BY DEF LockedInv, CallInv, InAlloc, AllocInside
  <2> QED
      BY <2>1, PagesAssumption
<1>3. node.size >= size
  <2>1. pc[c] \in AllocInside /\ pc[c] # "alloc_search" /\ k <= Len(committed)
      BY <1>1 DEF AllocInside
  <2> QED
      BY <2>1 DEF Found
<1>4. /\ node.ptr \in Nat /\ node.ptr >= 1 /\ node.size \in Nat
      /\ End(node) = node.ptr + node.size /\ End(node) <= MaxPage + 1
  <2>1. /\ node.ptr \in Pages /\ node.size \in Nat
        /\ End(node) = node.ptr + node.size /\ End(node) <= MaxPage + 1
      BY <1>1, SoundIndex
  <2> QED
      BY <2>1, PagesAssumption DEF Pages
<1> HIDE DEF node, size
<1>5. start = (node.ptr + node.size) - size
    BY <1>4 DEF node
<1>6. start \in Pages /\ start + size = End(node)
    BY <1>2, <1>3, <1>4, <1>5, PagesAssumption DEF Pages
<1> HIDE DEF start
<1>7. ASSUME NEW p \in Chunk(start, size)
      PROVE  p \in Pages /\ node.ptr <= p /\ p < End(node)
  <2>1. PICK first \in Nat : first = node.ptr /\ first >= 1
      BY <1>4
  <2>2. PICK end \in Nat : end = End(node) /\ end <= MaxPage + 1
    <3>1. End(node) \in Nat
        BY <1>4
    <3> QED
        BY <1>4, <3>1
  <2>3. start \in Nat /\ first <= start /\ start + size = end
    <3>1. start = (first + node.size) - size
        BY <1>5, <2>1
    <3>2. start \in Nat /\ first <= start
        BY <1>2, <1>3, <1>4, <2>1, <3>1
    <3> QED
        BY <1>6, <2>2, <3>2
  <2>4. p \in Int /\ start <= p /\ p <= start + size - 1
      BY <1>2, <2>3 DEF Chunk
  <2>5. p \in Int /\ first <= p /\ p < end
      BY <1>2, <2>1, <2>2, <2>3, <2>4
  <2>6. p \in Pages
    <3>1. MaxPage \in Nat
        BY PagesAssumption
    <3> QED
        BY <2>1, <2>2, <2>5, <3>1 DEF Pages
  <2> QED
      BY <2>1, <2>2, <2>5, <2>6
<1>8. ASSUME NEW p \in Chunk(start, size) PROVE p \in Pages /\ Covers(committed, p)
    BY <1>1, <1>7 DEF Covers, node
<1>9. Sound(Manager!Take(k, size))
      /\ \A p \in Pages : Covers(Manager!Take(k, size), p) =>
            Covers(committed, p) /\ p \notin Chunk(start, size)
  <2>1. CASE node.size = size
    <3>1. Manager!Take(k, size) = Manager!RemoveAt(committed, k)
        BY <2>1 DEF Manager!Take, node
    <3>2. Sound(Manager!RemoveAt(committed, k))
          /\ \A p \in Pages : Covers(Manager!RemoveAt(committed, k), p) =>
                Covers(committed, p) /\ ~(node.ptr <= p /\ p < End(node))
        BY <1>1, RemoveSound DEF node
    <3> QED
        BY <1>7, <3>1, <3>2
  <2>2. CASE node.size # size
    <3>1. Manager!Take(k, size) = Manager!Shrink(committed, k, size)
        BY <2>2 DEF Manager!Take, node
    <3>2. size < committed[k].size
        BY <1>2, <1>3, <1>4, <2>2 DEF node
    <3>3. Sound(Manager!Shrink(committed, k, size))
          /\ \A p \in Pages : Covers(Manager!Shrink(committed, k, size), p) =>
                Covers(committed, p) /\ ~(End(node) - size <= p /\ p < End(node))
        BY <1>1, <1>2, <3>2, ShrinkSound DEF node
    <3>4. ASSUME NEW p \in Chunk(start, size) PROVE End(node) - size <= p /\ p < End(node)
        BY <1>2, <1>4, <1>6, <1>7, PagesAssumption DEF Chunk, Pages, start, node
    <3> QED
        BY <3>1, <3>3, <3>4
  <2> QED
      BY <2>1, <2>2
<1> QED
    BY <1>6, <1>8, <1>9 DEF start, size, node

\* Whatever the stage, the list is sound, and nobody but the holder of the lock
\* has a page of it.
LEMMA StageSound ==
    ASSUME LockedInv, NEW c \in Contexts, pc[c] \in Inside,
           NEW k \in 1 .. Len(committed) + 1, Found(c, k)
    PROVE  /\ Sound(StageList(c, k))
           /\ \A p \in Pages : Covers(StageList(c, k), p) => owner[p] \in {Nobody, c}
<1>1. Sound(committed) /\ \A p \in Pages : Covers(committed, p) => owner[p] = Nobody
    BY DEF LockedInv
<1>2. CASE pc[c] = "alloc_release" /\ k <= Len(committed)
  <2>1. k \in 1 .. Len(committed)
      BY <1>1, <1>2, SoundIndex
  <2>2. StageList(c, k) = Manager!Take(k, loc[c].size)
      BY <1>2 DEF StageList
  <2> QED
      BY <1>1, <1>2, <2>1, <2>2, TakenList
<1>3. CASE pc[c] \in {"free_merge_previous", "free_merge_next", "free_release"}
  <2>1. pc[c] \in FreeInside \ {"free_search"} /\ pc[c] \in InFree
      BY <1>3 DEF FreeInside, InFree
  <2>2. /\ Sound(Linked(c, k))
        /\ \A p \in Pages : Covers(Linked(c, k), p) => owner[p] \in {Nobody, c}
      BY <1>1, <2>1, LinkedList, FreedPages
  <2>3. CASE pc[c] = "free_merge_previous"
    <3>1. StageList(c, k) = Linked(c, k)
        BY <2>3 DEF StageList
    <3> QED
        BY <2>2, <3>1
  <2>4. CASE pc[c] = "free_merge_next"
    <3>1. StageList(c, k) = Merged(c, k)
        BY <2>4 DEF StageList
    <3> QED
        BY <2>1, <2>2, <3>1, MergedList
  <2>5. CASE pc[c] = "free_release"
    <3>1. StageList(c, k) = Manager!GiveBack(k, Freed(c))
        BY <2>5 DEF StageList
    <3> QED
        BY <2>1, <2>2, <3>1, GivenBack
  <2> QED
      BY <1>3, <2>3, <2>4, <2>5
<1>4. CASE /\ ~(pc[c] = "alloc_release" /\ k <= Len(committed))
           /\ pc[c] \notin {"free_merge_previous", "free_merge_next", "free_release"}
  <2>1. StageList(c, k) = committed
      BY <1>4 DEF StageList
  <2> QED
      BY <1>1, <2>1
<1> QED
    BY <1>2, <1>3, <1>4

\* The pages of the nodes, in particular.
LEMMA StageNodes ==
    ASSUME LockedInv, NEW c \in Contexts, pc[c] \in Inside,
           NEW k \in 1 .. Len(committed) + 1, Found(c, k)
    PROVE  \A i \in 1 .. Len(StageList(c, k)) :
               StageList(c, k)[i].ptr \in Pages /\ owner[StageList(c, k)[i].ptr] \in {Nobody, c}
<1> DEFINE list == StageList(c, k)
<1>1. Sound(list) /\ \A p \in Pages : Covers(list, p) => owner[p] \in {Nobody, c}
    BY StageSound
<1> HIDE DEF list
<1>2. ASSUME NEW i \in 1 .. Len(list) PROVE list[i].ptr \in Pages /\ Covers(list, list[i].ptr)
  <2>1. /\ list[i].ptr \in Pages /\ list[i].ptr \in Nat
        /\ list[i].size \in Nat /\ list[i].size > 0
        /\ End(list[i]) = list[i].ptr + list[i].size
      BY <1>1, SoundIndex
  <2> QED
      BY <2>1 DEF Covers
<1> QED
    BY <1>1, <1>2 DEF list

-----------------------------------------------------------------------------
(* What a step of one context leaves of the other contexts' part of LockedInv. *)

\* A context that is not the one that steps keeps what it knows of its own call.
LEMMA CallFrame ==
    ASSUME LockedInv, NEW d \in Contexts, pc'[d] = pc[d], loc'[d] = loc[d],
           pc[d] \in Inside <=> holder' = d,
           \A p \in Pages : owner[p] = d => owner'[p] = d /\ mem'[p] = mem[p]
    PROVE  CallInv(d)'
<1>1. CallInv(d)
    BY DEF LockedInv
<1>2. CASE pc[d] \in InFree
  <2>1. /\ loc[d].ptr \in Pages /\ Chunk(loc[d].ptr, loc[d].size) \subseteq Pages
        /\ loc[d].ptr \in Chunk(loc[d].ptr, loc[d].size)
        /\ \A p \in Chunk(loc[d].ptr, loc[d].size) : owner[p] = d
      BY <1>2, FreedPages
  <2>2. \A p \in Chunk(loc[d].ptr, loc[d].size) : owner'[p] = d
      BY <2>1
  <2>3. mem'[loc[d].ptr] = mem[loc[d].ptr]
      BY <2>1
  <2> QED
      BY <1>1, <2>2, <2>3 DEF CallInv, Freed, Node, End, Chunk
<1>3. CASE pc[d] \notin InFree
    BY <1>1, <1>3 DEF CallInv
<1> QED
    BY <1>2, <1>3

\* A step of the holder of the lock that keeps the lock.
LEMMA InsideStep ==
    ASSUME LockedInv, NEW c \in Contexts, pc[c] \in Inside,
           UNCHANGED <<index, holder, owner, committed, ret>>,
           mem' \in [Pages -> NodeType], head' \in {Null} \cup Pages,
           pc' \in [Contexts -> Labels], loc' \in [Contexts -> Locals],
           \A d \in Contexts : d # c => pc'[d] = pc[d] /\ loc'[d] = loc[d],
           \A p \in Pages : owner[p] \notin {Nobody, c} => mem'[p] = mem[p],
           CallInv(c)', StageInv(c)'
    PROVE  LockedInv'
<1>1. /\ holder = c /\ c # Nobody /\ index = 0
      /\ \A d \in Contexts : d # c => pc[d] \notin Inside
    BY HolderInside
<1>2. TypeOK'
    BY DEF LockedInv, TypeOK
<1>3. BootInv'
    BY <1>1 DEF BootInv
<1>4. /\ Sound(committed)'
      /\ (\A p \in Pages : Covers(committed, p) => owner[p] = Nobody)'
  <2>1. Sound(committed) /\ \A p \in Pages : Covers(committed, p) => owner[p] = Nobody
      BY DEF LockedInv
  <2> QED
      BY <2>1
<1>5. (holder = Nobody => Stored(committed))'
    BY <1>1
<1>6. ASSUME NEW d \in Contexts PROVE (CallInv(d) /\ StageInv(d))'
  <2>1. CASE d = c
      BY <2>1
  <2>2. CASE d # c
    <3>1. pc'[d] = pc[d] /\ loc'[d] = loc[d] /\ pc[d] \notin Inside /\ holder' # d
        BY <1>1, <2>2
    <3>2. d # Nobody
        BY PagesAssumption
    <3>3. \A p \in Pages : owner[p] = d => owner'[p] = d /\ mem'[p] = mem[p]
        BY <2>2, <3>2
    <3>4. CallInv(d)'
        BY <3>1, <3>3, CallFrame
    <3> QED
        BY <3>1, <3>4 DEF StageInv
  <2> QED
      BY <2>1, <2>2
<1> QED
    BY <1>2, <1>3, <1>4, <1>5, <1>6 DEF LockedInv

\* The list of a stage depends on nothing but the holder's part of the state.
LEMMA StageFrame ==
    ASSUME NEW c \in Contexts, NEW k, pc'[c] = pc[c], loc'[c] = loc[c], committed' = committed
    PROVE  StageList(c, k)' = StageList(c, k) /\ (Found(c, k)' <=> Found(c, k))
<1>1. Freed(c)' = Freed(c)
    BY DEF Freed
<1>2. Linked(c, k)' = Linked(c, k)
    BY <1>1 DEF Linked
<1>3. Merged(c, k)' = Merged(c, k)
    BY <1>2 DEF Merged
<1>4. Manager!Take(k, loc[c].size)' = Manager!Take(k, loc[c].size)
    BY DEF Manager!Take
<1>5. Manager!GiveBack(k, Freed(c))' = Manager!GiveBack(k, Freed(c))
    BY <1>1 DEF Manager!GiveBack
<1>6. StageList(c, k)' = StageList(c, k)
    BY <1>2, <1>3, <1>4, <1>5 DEF StageList
<1>7. Found(c, k)' <=> Found(c, k)
    BY DEF Found
<1> QED
    BY <1>6, <1>7

\* A step of a context that is in no call: it may write into its own pages only.
LEMMA OutsideStep ==
    ASSUME LockedInv, NEW d \in Contexts, pc[d] = "idle",
           UNCHANGED <<index, head, holder, owner, committed, ret>>,
           mem' \in [Pages -> NodeType],
           pc' \in [Contexts -> Labels], loc' \in [Contexts -> Locals],
           \A c \in Contexts : c # d => pc'[c] = pc[c] /\ loc'[c] = loc[c],
           \A p \in Pages : owner[p] # d => mem'[p] = mem[p],
           index > 0 => pc' = pc,
           pc'[d] \notin Inside, CallInv(d)'
    PROVE  LockedInv'
<1>0. d # Nobody
    BY PagesAssumption
<1>1. TypeOK'
    BY DEF LockedInv, TypeOK
<1>2. BootInv'
    BY DEF LockedInv, BootInv
<1>3. /\ Sound(committed) /\ \A p \in Pages : Covers(committed, p) => owner[p] = Nobody
    BY DEF LockedInv
<1>4. ASSUME NEW c \in Contexts, c # d PROVE CallInv(c)' /\ StageInv(c)'
  <2>1. pc'[c] = pc[c] /\ loc'[c] = loc[c]
      BY <1>4
  <2>2. \A p \in Pages : owner[p] = c => owner'[p] = c /\ mem'[p] = mem[p]
      BY <1>4
  <2>3. CallInv(c)'
    <3>1. pc[c] \in Inside <=> holder' = c
        BY DEF LockedInv, CallInv
    <3> QED
        BY <2>1, <2>2, <3>1, CallFrame
  <2>4. ASSUME pc[c] \in Inside
        PROVE  \E k \in 1 .. Len(committed') + 1 : (Found(c, k) /\ Stored(StageList(c, k)))'
    <3>1. PICK k \in 1 .. Len(committed) + 1 : Found(c, k) /\ Stored(StageList(c, k))
        BY <2>4 DEF LockedInv, StageInv
    <3>2. \A i \in 1 .. Len(StageList(c, k)) :
              StageList(c, k)[i].ptr \in Pages /\ owner[StageList(c, k)[i].ptr] \in {Nobody, c}
        BY <2>4, <3>1, StageNodes
    <3>3. \A i \in 1 .. Len(StageList(c, k)) :
              mem'[StageList(c, k)[i].ptr] = mem[StageList(c, k)[i].ptr]
        BY <1>0, <1>4, <3>2
    <3>4. StoredIn(mem', head, StageList(c, k))
      <4>1. StoredIn(mem, head, StageList(c, k))
          BY <3>1 DEF Stored
      <4> QED
          BY <3>3, <4>1, KeepsStored
    <3>5. StageList(c, k)' = StageList(c, k) /\ Found(c, k)'
        BY <2>1, <3>1, StageFrame
    <3>6. Stored(StageList(c, k))'
        BY <3>4, <3>5 DEF Stored
    <3> QED
        BY <3>5, <3>6
  <2>5. StageInv(c)'
      BY <2>1, <2>4 DEF StageInv
  <2> QED
      BY <2>3, <2>5
<1>5. StageInv(d)'
    BY DEF StageInv
<1>6. ASSUME holder = Nobody PROVE Stored(committed)'
  <2>1. StoredIn(mem, head, committed)
      BY <1>6 DEF LockedInv, Stored
  <2>2. ASSUME NEW i \in 1 .. Len(committed)
        PROVE  mem'[committed[i].ptr] = mem[committed[i].ptr]
    <3>1. /\ committed[i].ptr \in Pages /\ committed[i].ptr \in Nat
          /\ committed[i].size \in Nat /\ committed[i].size > 0
          /\ End(committed[i]) = committed[i].ptr + committed[i].size
        BY <1>3, SoundIndex
    <3>2. Covers(committed, committed[i].ptr)
        BY <3>1 DEF Covers
    <3>3. owner[committed[i].ptr] # d
        BY <1>0, <1>3, <3>1, <3>2
    <3> QED
        BY <3>1, <3>3
  <2>3. StoredIn(mem', head, committed)
      BY <2>1, <2>2, KeepsStored
  <2> QED
      BY <2>3 DEF Stored
<1>7. /\ Sound(committed)'
      /\ (\A p \in Pages : Covers(committed, p) => owner[p] = Nobody)'
    BY <1>3
<1>8. (holder = Nobody => Stored(committed))'
    BY <1>6
<1> QED
    BY <1>1, <1>2, <1>4, <1>5, <1>7, <1>8 DEF LockedInv

-----------------------------------------------------------------------------
(* The steps outside the lock, and those that take it. *)

\* What the node pointer of a search says about its place.
LEMMA AtPlace ==
    ASSUME NEW list, Sound(list), NEW k \in 1 .. Len(list) + 1
    PROVE  /\ LinkOf(list, k - 1) = Null <=> k = Len(list) + 1
           /\ LinkOf(list, k - 1) # Null => k \in 1 .. Len(list) /\ LinkOf(list, k - 1) = list[k].ptr
           /\ LinkOf(list, k - 1) \in {Null} \cup Pages
<1>1. /\ Len(list) \in Nat
      /\ \A i \in 1 .. Len(list) : list[i].ptr \in Pages /\ list[i].ptr # Null
    BY SoundIndex
<1>2. CASE k = Len(list) + 1
    BY <1>1, <1>2 DEF LinkOf
<1>3. CASE k \in 1 .. Len(list)
    BY <1>1, <1>3 DEF LinkOf
<1> QED
    BY <1>1, <1>2, <1>3

\* The types of the variables and of the local variables, which the invariant implies.
LEMMA Typing ==
    ASSUME LockedInv
    PROVE  /\ mem \in [Pages -> NodeType] /\ head \in {Null} \cup Pages
           /\ pc \in [Contexts -> Labels] /\ loc \in [Contexts -> Locals]
           /\ Sound(committed) /\ Len(committed) \in Nat
           /\ \A p \in Pages : Covers(committed, p) => owner[p] = Nobody
           /\ owner \in [Pages -> Contexts \cup {Nobody}]
    BY SoundIndex DEF LockedInv, TypeOK

\* What the owner of a page writes into it reaches neither the list nor the range that
\* another context has written into a page that it frees.
LEMMA UsePageStep ==
    ASSUME LockedInv, NEW c \in Contexts, NEW p \in Pages, UsePage(c, p)
    PROVE  LockedInv'
<1>1. pc[c] = "idle" /\ pc' = pc /\ loc' = loc
    BY DEF UsePage
<1>2. Junk(p) \in NodeType
    BY PagesAssumption DEF Junk, NodeType, Pages, Null
<1>3. mem' \in [Pages -> NodeType] /\ \A q \in Pages : owner[q] # c => mem'[q] = mem[q]
    BY <1>2, Typing DEF UsePage
<1>4. pc' \in [Contexts -> Labels] /\ loc' \in [Contexts -> Locals]
    BY <1>1, Typing
<1>5. CallInv(c)'
  <2>1. CallInv(c)
      BY DEF LockedInv
  <2> QED
      BY <1>1, <2>1, LabelSets DEF CallInv, UsePage
<1>6. UNCHANGED <<index, head, holder, owner, committed, ret>>
    BY DEF UsePage
<1> QED
    BY <1>1, <1>3, <1>4, <1>5, <1>6, LabelSets, OutsideStep

\* A call of pmm_alloc only prepares the local variables of its context.
LEMMA CallAllocStep ==
    ASSUME LockedInv, NEW c \in Contexts, NEW size \in 1 .. MaxRequest, CallAlloc(c, size)
    PROVE  LockedInv'
<1>1. /\ pc[c] = "idle" /\ index = 0
      /\ pc' = [pc EXCEPT ![c] = "alloc_acquire"]
      /\ loc' = [loc EXCEPT ![c] = [NoLocals EXCEPT !.size = size]]
      /\ UNCHANGED <<index, mem, head, holder, owner, committed, ret>>
    BY DEF CallAlloc
<1>2. [NoLocals EXCEPT !.size = size] \in Locals
    BY PagesAssumption DEF NoLocals, Locals, Null
<1>3. /\ pc' \in [Contexts -> Labels] /\ loc' \in [Contexts -> Locals]
      /\ pc'[c] = "alloc_acquire" /\ loc'[c] = [NoLocals EXCEPT !.size = size]
      /\ \A d \in Contexts : d # c => pc'[d] = pc[d] /\ loc'[d] = loc[d]
    BY <1>1, <1>2, Typing DEF Labels, InAlloc
<1>4. CallInv(c)'
  <2>1. holder # c
      BY <1>1, LabelSets DEF LockedInv, CallInv
  <2>2. loc'[c].ret = Null /\ loc'[c].prev = Null /\ loc'[c].size = size
      BY <1>3 DEF NoLocals
  <2>3. pc'[c] \notin Inside /\ pc'[c] \notin InFree
      BY <1>3 DEF Inside, InFree, AllocInside, FreeInside
  <2> QED
      BY <1>1, <1>3, <2>1, <2>2, <2>3 DEF CallInv
<1>5. mem' \in [Pages -> NodeType]
    BY <1>1, Typing
<1>6. pc'[c] \notin Inside
    BY <1>3, LabelSets
<1> QED
    BY <1>1, <1>3, <1>4, <1>5, <1>6, OutsideStep

\* pmm_free writes the range into a page that its caller owns, which is outside the
\* list, before it has the lock.
LEMMA CallFreeStep ==
    ASSUME LockedInv, NEW c \in Contexts, NEW ptr \in Pages, NEW size \in 1 .. MaxRequest,
           CallFree(c, ptr, size)
    PROVE  LockedInv'
<1> DEFINE node == [next |-> mem[ptr].next, ptr |-> ptr, size |-> size]
           locals == [NoLocals EXCEPT !.ptr = ptr, !.size = size]
<1>1. /\ pc[c] = "idle" /\ size > 0
      /\ \A p \in Chunk(ptr, size) : p \in Pages /\ owner[p] = c
      /\ mem' = [mem EXCEPT ![ptr] = node]
      /\ pc' = [pc EXCEPT ![c] = "free_acquire"]
      /\ loc' = [loc EXCEPT ![c] = locals]
      /\ UNCHANGED <<index, head, holder, owner, committed, ret>>
    BY DEF CallFree
<1>2. /\ ptr \in Nat /\ ptr >= 1 /\ size \in Nat /\ MaxPage \in Nat
      /\ ptr \in Chunk(ptr, size) /\ ptr + size - 1 \in Chunk(ptr, size)
    BY PagesAssumption DEF Pages, Chunk
<1>3. ptr + size <= MaxPage + 1 /\ size \in Pages
  <2>1. ptr + size - 1 \in Pages
      BY <1>1, <1>2
  <2> QED
      BY <1>1, <1>2, <2>1 DEF Pages
<1>4. node \in NodeType
  <2>1. mem[ptr].next \in {Null} \cup Pages
      BY Typing DEF NodeType
  <2> QED
      BY <1>2, <1>3, <2>1 DEF NodeType, Pages
<1>5. /\ locals \in Locals /\ locals.prev = Null
      /\ locals.ptr = ptr /\ locals.size = size
    BY <1>2 DEF NoLocals, Locals, Null
<1>6. node.ptr = ptr /\ node.size = size
    OBVIOUS
<1> HIDE DEF node, locals
<1>7. owner[ptr] = c
    BY <1>1, <1>2
<1>8. /\ mem' \in [Pages -> NodeType] /\ mem'[ptr] = node
      /\ \A q \in Pages : owner[q] # c => mem'[q] = mem[q]
    BY <1>1, <1>4, <1>7, Typing
<1>9. /\ pc' \in [Contexts -> Labels] /\ loc' \in [Contexts -> Locals]
      /\ pc'[c] = "free_acquire" /\ loc'[c] = locals
      /\ \A d \in Contexts : d # c => pc'[d] = pc[d] /\ loc'[d] = loc[d]
    BY <1>1, <1>5, Typing DEF Labels, InFree
<1>10. CallInv(c)'
  <2>1. holder # c
      BY <1>1, LabelSets DEF LockedInv, CallInv
  <2>2. pc'[c] \notin Inside /\ pc'[c] \in InFree
      BY <1>9, LabelSets DEF InFree
  <2>3. Freed(c)' = [ptr |-> ptr, size |-> size]
      BY <1>5, <1>9 DEF Freed
  <2>4. (Freed(c) \in Node)' /\ (End(Freed(c)) <= MaxPage + 1)'
      BY <1>3, <2>3 DEF Node, End
  <2>5. (\A p \in Chunk(loc[c].ptr, loc[c].size) : owner[p] = c)'
      BY <1>1, <1>5, <1>9 DEF Chunk
  <2>6. (mem[loc[c].ptr].ptr = loc[c].ptr /\ mem[loc[c].ptr].size = loc[c].size)'
      BY <1>5, <1>6, <1>8, <1>9
  <2>7. loc'[c].size \in 1 .. MaxRequest /\ loc'[c].prev = Null
      BY <1>5, <1>9
  <2> QED
      BY <1>1, <1>9, <2>1, <2>2, <2>4, <2>5, <2>6, <2>7 DEF CallInv
<1>11. index > 0 => pc' = pc
  <2> SUFFICES ASSUME index > 0 PROVE FALSE
      OBVIOUS
  <2>1. owner[ptr] = Nobody
      BY DEF LockedInv, BootInv
  <2> QED
      BY <1>7, <2>1, PagesAssumption
<1>12. pc'[c] \notin Inside
    BY <1>9, LabelSets
<1> QED
    BY <1>1, <1>8, <1>9, <1>10, <1>11, <1>12, OutsideStep

\* A context that takes the lock starts its search at the head of the list that
\* the last holder left.
LEMMA AcquireStep ==
    ASSUME LockedInv, NEW c \in Contexts, NEW label \in {"alloc_search", "free_search"},
           pc[c] = IF label = "alloc_search" THEN "alloc_acquire" ELSE "free_acquire",
           holder = Nobody, holder' = c,
           pc' = [pc EXCEPT ![c] = label], loc' = [loc EXCEPT ![c].node = head],
           UNCHANGED <<index, mem, head, owner, committed, ret>>
    PROVE  LockedInv'
<1>1. c # Nobody /\ \A d \in Contexts : pc[d] \notin Inside
  <2>1. c # Nobody /\ \A d \in Contexts : d # Nobody
      BY PagesAssumption
  <2> QED
      BY <2>1 DEF LockedInv, CallInv
<1>2. /\ loc'[c] = [loc[c] EXCEPT !.node = head]
      /\ pc'[c] = label /\ label \in Labels
      /\ \A d \in Contexts : d # c => pc'[d] = pc[d] /\ loc'[d] = loc[d]
      /\ loc[c] \in Locals /\ head \in {Null} \cup Pages
    BY Typing DEF Labels, InAlloc, InFree, AllocInside, FreeInside
<1>3. loc'[c] \in Locals
    BY <1>2 DEF Locals
<1>4. pc' \in [Contexts -> Labels] /\ loc' \in [Contexts -> Locals]
    BY <1>2, <1>3, Typing
<1>5. /\ loc'[c].node = head /\ loc'[c].prev = loc[c].prev /\ loc'[c].ptr = loc[c].ptr
      /\ loc'[c].size = loc[c].size /\ loc'[c].ret = loc[c].ret
    BY <1>2 DEF Locals
<1>6. TypeOK'
  <2>1. DOMAIN pc' = Contexts /\ DOMAIN loc' = Contexts
      BY <1>4
  <2> QED
      BY <2>1 DEF LockedInv, TypeOK
<1>7. BootInv'
  <2>1. index > 0 => pc[c] = "idle"
      BY DEF LockedInv, BootInv
  <2> QED
      BY <2>1 DEF BootInv
<1>8. /\ Sound(committed)'
      /\ (\A p \in Pages : Covers(committed, p) => owner[p] = Nobody)'
    BY Typing
<1>9. (holder = Nobody => Stored(committed))'
    BY <1>1
<1>10. ASSUME NEW d \in Contexts, d # c PROVE (CallInv(d) /\ StageInv(d))'
  <2>1. pc'[d] = pc[d] /\ loc'[d] = loc[d] /\ pc[d] \notin Inside /\ holder' # d
      BY <1>1, <1>2, <1>10
  <2>2. CallInv(d)'
      BY <2>1, CallFrame
  <2> QED
      BY <2>1, <2>2 DEF StageInv
<1>11. CallInv(c)'
  <2>1. CallInv(c)
      BY DEF LockedInv
  <2>2. CASE label = "alloc_search"
    <3>1. /\ pc[c] \in InAlloc /\ pc'[c] \in InAlloc /\ pc'[c] \notin InFree /\ pc'[c] \in Inside
          /\ pc'[c] # "alloc_acquire" /\ pc'[c] # "free_acquire"
        BY <1>2, <2>2 DEF InAlloc, InFree, Inside, AllocInside, FreeInside
    <3> QED
        BY <1>2, <1>5, <2>1, <3>1 DEF CallInv
  <2>3. CASE label = "free_search"
    <3>1. /\ pc[c] \in InFree \ {"free_release"} /\ pc'[c] \in InFree \ {"free_release"}
          /\ pc'[c] \in Inside
          /\ pc'[c] # "alloc_acquire" /\ pc'[c] # "free_acquire"
        BY <1>2, <2>3 DEF InAlloc, InFree, Inside, AllocInside, FreeInside
    <3>2. Freed(c)' = Freed(c)
        BY <1>5 DEF Freed
    <3> QED
        BY <1>2, <1>5, <2>1, <3>1, <3>2 DEF CallInv, Chunk
  <2> QED
      BY <2>2, <2>3
<1>12. StageInv(c)'
  <2>1. Stored(committed)
      BY DEF LockedInv
  <2>2. head = LinkOf(committed, 1 - 1)
      BY <2>1 DEF Stored, StoredIn
  <2>3. /\ loc[c].prev = Null
        /\ label = "alloc_search" => loc[c].ret = Null
      BY DEF LockedInv, CallInv
  <2>4. Found(c, 1)'
    <3>1. \A j \in 1 .. 1 - 1 : FALSE
        OBVIOUS
    <3>2. CASE label = "alloc_search"
      <4>1. /\ pc'[c] \notin FreeInside /\ pc'[c] # "alloc_take" /\ pc'[c] # "alloc_release"
            /\ pc'[c] = "alloc_search"
          BY <1>2, <3>2 DEF FreeInside
      <4> QED
          BY <1>5, <2>2, <2>3, <3>1, <3>2, <4>1 DEF Found
    <3>3. CASE label = "free_search"
      <4>1. pc'[c] \notin AllocInside /\ pc'[c] = "free_search"
          BY <1>2, <3>3 DEF AllocInside
      <4> QED
          BY <1>5, <2>2, <2>3, <3>1, <4>1 DEF Found
    <3> QED
        BY <3>2, <3>3
  <2>5. StageList(c, 1)' = committed
      BY <1>2 DEF StageList
  <2>6. Stored(StageList(c, 1))'
      BY <2>1, <2>5 DEF Stored
  <2>7. 1 \in 1 .. Len(committed') + 1
      BY Typing
  <2> QED
      BY <2>4, <2>6, <2>7 DEF StageInv
<1> QED
    BY <1>4, <1>6, <1>7, <1>8, <1>9, <1>10, <1>11, <1>12 DEF LockedInv

-----------------------------------------------------------------------------
(* The steps of pmm_alloc inside the lock. *)

\* Each turn of the search of pmm_alloc preserves the invariant.
LEMMA AllocSearchStep ==
    ASSUME LockedInv, NEW c \in Contexts, AllocSearch(c)
    PROVE  LockedInv'
<1>0. pc[c] = "alloc_search"
    BY DEF AllocSearch
<1>1. pc[c] \in Inside /\ pc[c] \in AllocInside /\ pc[c] \in InAlloc
    BY <1>0 DEF Inside, AllocInside, InAlloc
<1>2. UNCHANGED <<index, mem, head, holder, owner, committed, ret>>
    BY DEF AllocSearch
<1>3. PICK k \in 1 .. Len(committed) + 1 : Found(c, k) /\ Stored(StageList(c, k))
    BY <1>1 DEF LockedInv, StageInv
<1>4. StageList(c, k) = committed
    BY <1>0 DEF StageList
<1>5. Stored(committed)
    BY <1>3, <1>4
<1> DEFINE node == loc[c].node
<1>6. /\ node = LinkOf(committed, k - 1)
      /\ loc[c].prev = IF k = 1 THEN Null ELSE committed[k - 1].ptr
      /\ \A j \in 1 .. k - 1 : committed[j].size < loc[c].size
      /\ loc[c].ret = Null
    BY <1>0, <1>1, <1>3 DEF Found
<1>7. /\ node = Null <=> k = Len(committed) + 1
      /\ node # Null => k \in 1 .. Len(committed) /\ node = committed[k].ptr
    BY <1>6, Typing, AtPlace
<1>8. node # Null =>
          mem[node] = [next |-> LinkOf(committed, k), ptr |-> committed[k].ptr,
                       size |-> committed[k].size]
    BY <1>5, <1>7 DEF Stored, StoredIn
<1>9. k \in Nat /\ Len(committed) \in Nat
    BY Typing
<1>10. CallInv(c) /\ loc[c] \in Locals
    BY Typing DEF LockedInv
<1>11. CASE /\ node = Null
            /\ pc' = [pc EXCEPT ![c] = "alloc_release"] /\ loc' = loc
  <2>1. /\ pc'[c] = "alloc_release" /\ pc' \in [Contexts -> Labels]
        /\ \A d \in Contexts : d # c => pc'[d] = pc[d]
      BY <1>11, Typing DEF Labels, InAlloc, AllocInside
  <2>2. CallInv(c)'
      BY <1>0, <1>1, <1>2, <1>10, <1>11, <2>1
      DEF CallInv, Inside, AllocInside, FreeInside, InAlloc, InFree
  <2>3. Found(c, k)'
      BY <1>2, <1>6, <1>7, <1>9, <1>11, <2>1 DEF Found, AllocInside, FreeInside
  <2>4. StageList(c, k)' = committed
      BY <1>2, <1>7, <1>9, <1>11, <2>1 DEF StageList
  <2>5. Stored(StageList(c, k))'
      BY <1>2, <1>5, <2>4 DEF Stored
  <2>6. StageInv(c)'
      BY <1>2, <2>3, <2>5 DEF StageInv
  <2> QED
      BY <1>1, <1>2, <1>11, <2>1, <2>2, <2>6, Typing, InsideStep
<1>12. CASE /\ node # Null /\ mem[node].size >= loc[c].size
            /\ pc' = [pc EXCEPT ![c] = "alloc_take"] /\ loc' = loc
  <2>1. /\ pc'[c] = "alloc_take" /\ pc' \in [Contexts -> Labels]
        /\ \A d \in Contexts : d # c => pc'[d] = pc[d]
      BY <1>12, Typing DEF Labels, InAlloc, AllocInside
  <2>2. CallInv(c)'
      BY <1>0, <1>1, <1>2, <1>10, <1>12, <2>1
      DEF CallInv, Inside, AllocInside, FreeInside, InAlloc, InFree
  <2>3. committed[k].size >= loc[c].size /\ k <= Len(committed)
      BY <1>7, <1>8, <1>9, <1>12
  <2>4. Found(c, k)'
      BY <1>2, <1>6, <1>12, <2>1, <2>3 DEF Found, AllocInside, FreeInside
  <2>5. StageList(c, k)' = committed
      BY <1>2, <2>1 DEF StageList
  <2>6. Stored(StageList(c, k))'
      BY <1>2, <1>5, <2>5 DEF Stored
  <2>7. StageInv(c)'
      BY <1>2, <2>4, <2>6 DEF StageInv
  <2> QED
      BY <1>1, <1>2, <1>12, <2>1, <2>2, <2>7, Typing, InsideStep
<1>13. CASE /\ node # Null /\ mem[node].size < loc[c].size
            /\ loc' = [loc EXCEPT ![c].prev = node, ![c].node = mem[node].next] /\ pc' = pc
  <2>1. /\ mem[node].next = LinkOf(committed, k) /\ mem[node].size = committed[k].size
        /\ node = committed[k].ptr /\ k \in 1 .. Len(committed)
      BY <1>7, <1>8, <1>13
  <2>2. k + 1 \in 1 .. Len(committed) + 1 /\ (k + 1) - 1 = k /\ k + 1 # 1
      BY <1>9, <2>1
  <2>3. LinkOf(committed, k) \in {Null} \cup Pages /\ node \in {Null} \cup Pages
    <3>1. LinkOf(committed, (k + 1) - 1) \in {Null} \cup Pages
        BY <2>2, Typing, AtPlace
    <3> QED
        BY <1>10, <2>2, <3>1 DEF Locals
  <2> DEFINE locals == [loc[c] EXCEPT !.prev = node, !.node = mem[node].next]
  <2>4. /\ locals.prev = node /\ locals.node = mem[node].next /\ locals.ptr = loc[c].ptr
        /\ locals.size = loc[c].size /\ locals.ret = loc[c].ret /\ locals \in Locals
      BY <1>10, <2>1, <2>3 DEF Locals
  <2>5. /\ loc'[c] = locals /\ \A d \in Contexts : d # c => loc'[d] = loc[d]
        /\ loc' = [loc EXCEPT ![c] = locals]
      BY <1>13, Typing
  <2> HIDE DEF locals, node
  <2>6. loc' \in [Contexts -> Locals]
      BY <2>4, <2>5, Typing
  <2>7. CallInv(c)'
      BY <1>0, <1>1, <1>2, <1>10, <1>13, <2>4, <2>5
      DEF CallInv, Inside, AllocInside, FreeInside, InAlloc, InFree
  <2>8. \A j \in 1 .. (k + 1) - 1 : committed[j].size < loc[c].size
      BY <1>6, <1>9, <1>13, <2>1
  <2>9. Found(c, k + 1)'
    <3>1. pc'[c] = "alloc_search" /\ pc'[c] \notin FreeInside
        BY <1>0, <1>13 DEF FreeInside
    <3>2. loc'[c].prev = (IF k + 1 = 1 THEN Null ELSE committed'[(k + 1) - 1].ptr)
        BY <1>2, <2>1, <2>2, <2>4, <2>5
    <3>3. loc'[c].node = LinkOf(committed', (k + 1) - 1)
        BY <1>2, <2>1, <2>2, <2>4, <2>5
    <3>4. \A j \in 1 .. (k + 1) - 1 : committed'[j].size < loc'[c].size
        BY <1>2, <2>4, <2>5, <2>8
    <3>5. loc'[c].ret = Null
        BY <1>6, <2>4, <2>5
    <3> QED
        BY <3>1, <3>2, <3>3, <3>4, <3>5 DEF Found
  <2>10. StageList(c, k + 1)' = committed
      BY <1>0, <1>2, <1>13 DEF StageList
  <2>11. Stored(StageList(c, k + 1))'
      BY <1>2, <1>5, <2>10 DEF Stored
  <2>12. StageInv(c)'
      BY <1>2, <2>2, <2>9, <2>11 DEF StageInv
  <2> QED
      BY <1>1, <1>2, <1>13, <2>5, <2>6, <2>7, <2>12, Typing, InsideStep
<1> QED
    BY <1>11, <1>12, <1>13 DEF AllocSearch

\* Taking the memory off the node that was found preserves the invariant.
LEMMA AllocTakeStep ==
    ASSUME LockedInv, NEW c \in Contexts, AllocTake(c)
    PROVE  LockedInv'
<1>0. pc[c] = "alloc_take"
    BY DEF AllocTake
<1>1. pc[c] \in Inside /\ pc[c] \in AllocInside /\ pc[c] \in InAlloc
    BY <1>0 DEF Inside, AllocInside, InAlloc
<1>2. UNCHANGED <<index, holder, owner, committed, ret>>
    BY DEF AllocTake
<1>3. PICK k \in 1 .. Len(committed) + 1 : Found(c, k) /\ Stored(StageList(c, k))
    BY <1>1 DEF LockedInv, StageInv
<1>4. StageList(c, k) = committed
    BY <1>0 DEF StageList
<1>5. StoredIn(mem, head, committed)
    BY <1>3, <1>4 DEF Stored
<1> DEFINE node == loc[c].node
           prev == loc[c].prev
           size == loc[c].size
<1>6. /\ node = LinkOf(committed, k - 1) /\ k <= Len(committed)
      /\ prev = IF k = 1 THEN Null ELSE committed[k - 1].ptr
      /\ \A j \in 1 .. k - 1 : committed[j].size < size
      /\ committed[k].size >= size
    BY <1>0, <1>1, <1>3 DEF Found
<1>7. Sound(committed) /\ Len(committed) \in Nat /\ k \in 1 .. Len(committed) /\ k \in Nat
    BY <1>6, Typing
<1>8. node = committed[k].ptr
    BY <1>6, <1>7 DEF LinkOf
<1>9. /\ \A i \in 1 .. Len(committed) :
            /\ committed[i].ptr \in Pages /\ committed[i].ptr # Null
            /\ Covers(committed, committed[i].ptr)
      /\ committed[k].ptr \in Nat /\ committed[k].size \in Nat
      /\ End(committed[k]) = committed[k].ptr + committed[k].size
  <2>1. \A i \in 1 .. Len(committed) :
            /\ committed[i].ptr \in Pages /\ committed[i].ptr # Null /\ committed[i].ptr \in Nat
            /\ committed[i].size \in Nat /\ committed[i].size > 0
            /\ End(committed[i]) = committed[i].ptr + committed[i].size
      BY <1>7, SoundIndex
  <2>2. ASSUME NEW i \in 1 .. Len(committed) PROVE Covers(committed, committed[i].ptr)
      BY <2>1 DEF Covers
  <2> QED
      BY <1>7, <2>1, <2>2
<1>10. mem[node] = [next |-> LinkOf(committed, k), ptr |-> committed[k].ptr,
                    size |-> committed[k].size]
    BY <1>5, <1>7, <1>8 DEF StoredIn
<1>11. size \in Nat /\ size > 0
  <2>1. size \in 1 .. MaxRequest
      BY <1>1 DEF LockedInv, CallInv
  <2> QED
      BY <2>1, PagesAssumption
<1>12. k # 1 => k - 1 \in 1 .. Len(committed) /\ prev = committed[k - 1].ptr
    BY <1>6, <1>7
<1>13. prev = Null <=> k = 1
    BY <1>6, <1>9, <1>12
<1>14. mem \in [Pages -> NodeType] /\ head \in {Null} \cup Pages /\ node \in Pages
    BY <1>7, <1>8, <1>9, Typing
<1>15. owner[node] = Nobody /\ (k # 1 => prev \in Pages /\ owner[prev] = Nobody)
  <2>1. \A i \in 1 .. Len(committed) :
            committed[i].ptr \in Pages /\ owner[committed[i].ptr] = Nobody
      BY <1>9, Typing
  <2> QED
      BY <1>7, <1>8, <1>12, <2>1
<1>16. loc[c] \in Locals /\ CallInv(c)
    BY Typing DEF LockedInv
<1> HIDE DEF node, prev, size
<1>17. /\ head' = IF mem[node].size = size /\ prev = Null THEN mem[node].next ELSE head
       /\ mem' = IF ~(mem[node].size = size)
                 THEN [mem EXCEPT ![node].size = @ - size]
                 ELSE IF prev # Null
                      THEN [mem EXCEPT ![prev].next = mem[node].next]
                      ELSE mem
       /\ loc' = [loc EXCEPT ![c].ret = mem[node].ptr + mem[node].size - size]
       /\ pc' = [pc EXCEPT ![c] = "alloc_release"]
    BY DEF AllocTake, node, prev, size
<1>18. mem[node].size = committed[k].size /\ mem[node].ptr = committed[k].ptr
       /\ mem[node].next = LinkOf(committed, k) /\ mem[node].next \in {Null} \cup Pages
  <2>1. mem[node] \in NodeType
      BY <1>14
  <2> QED
      BY <1>10, <2>1 DEF NodeType
<1>19. StoredIn(mem', head', Manager!Take(k, size))
  <2>1. CASE mem[node].size = size
    <3>1. Manager!Take(k, size) = Manager!RemoveAt(committed, k)
        BY <1>18, <2>1 DEF Manager!Take
    <3>2. mem' = IF k = 1 THEN mem
                 ELSE [mem EXCEPT ![committed[k - 1].ptr].next = mem[committed[k].ptr].next]
        BY <1>8, <1>12, <1>13, <1>17, <2>1
    <3>3. head' = IF k = 1 THEN mem[committed[k].ptr].next ELSE head
        BY <1>8, <1>13, <1>17, <2>1
    <3> QED
        BY <1>5, <1>7, <1>14, <3>1, <3>2, <3>3, RemoveStored
  <2>2. CASE mem[node].size # size
    <3>1. Manager!Take(k, size) = Manager!Shrink(committed, k, size)
        BY <1>18, <2>2 DEF Manager!Take
    <3>2. mem' = [mem EXCEPT ![committed[k].ptr].size = @ - size] /\ head' = head
        BY <1>8, <1>17, <2>2
    <3>3. size < committed[k].size
        BY <1>6, <1>9, <1>11, <1>18, <2>2
    <3>4. StoredIn([mem EXCEPT ![committed[k].ptr].size = @ - size], head,
                   Manager!Shrink(committed, k, size))
        BY <1>5, <1>7, <1>11, <1>14, <3>3, ShrinkStored
    <3> QED
        BY <3>1, <3>2, <3>4
  <2> QED
      BY <2>1, <2>2
<1>20. mem' \in [Pages -> NodeType] /\ head' \in {Null} \cup Pages
       /\ \A p \in Pages : owner[p] # Nobody => mem'[p] = mem[p]
  <2>1. head' \in {Null} \cup Pages
      BY <1>14, <1>17, <1>18
  <2>2. CASE mem[node].size # size
    <3>1. mem' = [mem EXCEPT ![node].size = @ - size]
        BY <1>17, <2>2
    <3>2. mem[node] \in NodeType /\ mem[node].size - size \in 0 .. MaxPage
      <4>1. mem[node] \in NodeType
          BY <1>14
      <4>2. mem[node].size \in 0 .. MaxPage /\ mem[node].size >= size
          BY <1>6, <1>18, <4>1 DEF NodeType
      <4> QED
          BY <1>11, <4>1, <4>2, PagesAssumption
    <3>3. mem' \in [Pages -> NodeType] /\ \A p \in Pages : p # node => mem'[p] = mem[p]
      <4> DEFINE rest == mem[node].size - size
      <4>1. mem' = [mem EXCEPT ![node].size = rest]
          BY <3>1
      <4> HIDE DEF rest
      <4>2. rest \in 0 .. MaxPage
          BY <3>2 DEF rest
      <4> QED
          BY <1>14, <3>2, <4>1, <4>2 DEF NodeType
    <3> QED
        BY <1>15, <2>1, <3>3
  <2>3. CASE mem[node].size = size /\ prev # Null
    <3>1. mem' = [mem EXCEPT ![prev].next = mem[node].next] /\ prev \in Pages
        BY <1>13, <1>15, <1>17, <2>3
    <3>2. mem' \in [Pages -> NodeType] /\ \A p \in Pages : p # prev => mem'[p] = mem[p]
        BY <1>14, <1>18, <3>1 DEF NodeType
    <3> QED
        BY <1>13, <1>15, <2>1, <2>3, <3>2
  <2>4. CASE mem[node].size = size /\ prev = Null
    <3>1. mem' = mem
        BY <1>17, <2>4
    <3> QED
        BY <1>14, <2>1, <3>1
  <2> QED
      BY <2>2, <2>3, <2>4
<1> DEFINE result == End(committed[k]) - size
<1>21. /\ loc' = [loc EXCEPT ![c].ret = result] /\ result \in Nat
  <2>1. mem[node].ptr + mem[node].size - size = result
      BY <1>9, <1>11, <1>18
  <2>2. result \in Nat
      BY <1>6, <1>9, <1>11 DEF size
  <2> QED
      BY <1>17, <2>1, <2>2
<1> HIDE DEF result
<1>22. /\ loc'[c].prev = loc[c].prev /\ loc'[c].node = loc[c].node /\ loc'[c].ptr = loc[c].ptr
       /\ loc'[c].size = loc[c].size /\ loc'[c].ret = result
       /\ \A d \in Contexts : d # c => loc'[d] = loc[d]
       /\ loc' \in [Contexts -> Locals]
    BY <1>16, <1>21, Typing DEF Locals
<1>23. /\ pc'[c] = "alloc_release" /\ pc' \in [Contexts -> Labels]
       /\ \A d \in Contexts : d # c => pc'[d] = pc[d]
    BY <1>17, Typing DEF Labels, InAlloc, AllocInside
<1>24. CallInv(c)'
    BY <1>0, <1>1, <1>2, <1>16, <1>22, <1>23
    DEF CallInv, Inside, AllocInside, FreeInside, InAlloc, InFree
<1>25. Found(c, k)'
  <2>1. pc'[c] \in AllocInside /\ pc'[c] \notin FreeInside
      BY <1>23 DEF AllocInside, FreeInside
  <2>2. /\ loc'[c].prev = (IF k = 1 THEN Null ELSE committed'[k - 1].ptr)
        /\ loc'[c].node = LinkOf(committed', k - 1)
        /\ \A j \in 1 .. k - 1 : committed'[j].size < loc'[c].size
        /\ committed'[k].size >= loc'[c].size
      BY <1>2, <1>6, <1>22 DEF node, prev, size
  <2>3. k <= Len(committed') /\ loc'[c].ret = End(committed'[k]) - loc'[c].size
      BY <1>2, <1>6, <1>22 DEF result, size, End
  <2> QED
      BY <1>23, <2>1, <2>2, <2>3 DEF Found
<1>26. StageList(c, k)' = Manager!Take(k, size)
  <2>1. Manager!Take(k, loc[c].size)' = Manager!Take(k, size)
      BY <1>2, <1>22 DEF Manager!Take, size
  <2> QED
      BY <1>2, <1>6, <1>23, <2>1 DEF StageList
<1>27. StageInv(c)'
  <2>1. Stored(StageList(c, k))'
      BY <1>19, <1>26 DEF Stored
  <2> QED
      BY <1>2, <1>25, <2>1 DEF StageInv
<1> QED
    BY <1>1, <1>2, <1>20, <1>22, <1>23, <1>24, <1>27, InsideStep

-----------------------------------------------------------------------------
(* The steps of pmm_free inside the lock. *)

\* Each turn of the search of pmm_free preserves the invariant.
LEMMA FreeSearchStep ==
    ASSUME LockedInv, NEW c \in Contexts, FreeSearch(c)
    PROVE  LockedInv'
<1>0. pc[c] = "free_search"
    BY DEF FreeSearch
<1>1. pc[c] \in Inside /\ pc[c] \in FreeInside /\ pc[c] \in InFree \ {"free_release"}
    BY <1>0 DEF Inside, FreeInside, InFree
<1>2. UNCHANGED <<index, mem, head, holder, owner, committed, ret>>
    BY DEF FreeSearch
<1>3. PICK k \in 1 .. Len(committed) + 1 : Found(c, k) /\ Stored(StageList(c, k))
    BY <1>1 DEF LockedInv, StageInv
<1>4. StageList(c, k) = committed
    BY <1>0 DEF StageList
<1>5. Stored(committed)
    BY <1>3, <1>4
<1> DEFINE node == loc[c].node
<1>6. /\ node = LinkOf(committed, k - 1)
      /\ loc[c].prev = IF k = 1 THEN Null ELSE committed[k - 1].ptr
      /\ \A j \in 1 .. k - 1 : committed[j].ptr < loc[c].ptr
    BY <1>0, <1>1, <1>3 DEF Found
<1>7. /\ node = Null <=> k = Len(committed) + 1
      /\ node # Null => k \in 1 .. Len(committed) /\ node = committed[k].ptr
    BY <1>6, Typing, AtPlace
<1>8. node # Null =>
          mem[node] = [next |-> LinkOf(committed, k), ptr |-> committed[k].ptr,
                       size |-> committed[k].size]
    BY <1>5, <1>7 DEF Stored, StoredIn
<1>9. k \in Nat /\ Len(committed) \in Nat
    BY Typing
<1>10. CallInv(c) /\ loc[c] \in Locals
    BY Typing DEF LockedInv
<1>11. CASE /\ ~(node # Null /\ mem[node].ptr < loc[c].ptr)
            /\ pc' = [pc EXCEPT ![c] = "free_link"] /\ loc' = loc
  <2>1. /\ pc'[c] = "free_link" /\ pc' \in [Contexts -> Labels]
        /\ \A d \in Contexts : d # c => pc'[d] = pc[d]
      BY <1>11, Typing DEF Labels, InFree, FreeInside
  <2>2. CallInv(c)'
    <3>1. pc'[c] \in Inside /\ pc'[c] \in InFree \ {"free_release"}
        BY <2>1 DEF Inside, InFree, FreeInside
    <3>2. Freed(c)' = Freed(c)
        BY <1>11 DEF Freed
    <3> QED
        BY <1>1, <1>2, <1>10, <1>11, <2>1, <3>1, <3>2 DEF CallInv, Chunk
  <2>3. k <= Len(committed) => committed[k].ptr >= loc[c].ptr
    <3> SUFFICES ASSUME k <= Len(committed) PROVE committed[k].ptr >= loc[c].ptr
        OBVIOUS
    <3>1. node # Null /\ k \in 1 .. Len(committed)
        BY <1>7, <1>9
    <3>2. ~(committed[k].ptr < loc[c].ptr)
        BY <1>8, <1>11, <3>1
    <3>3. committed[k].ptr \in Nat /\ loc[c].ptr \in Nat
        BY <1>10, <3>1, Typing, SoundIndex DEF Locals
    <3> QED
        BY <3>2, <3>3
  <2>4. Found(c, k)'
    <3>1. pc'[c] \notin AllocInside
        BY <2>1 DEF AllocInside
    <3> QED
        BY <1>2, <1>6, <1>11, <2>3, <3>1 DEF Found
  <2>5. StageList(c, k)' = committed
      BY <1>2, <2>1 DEF StageList
  <2>6. Stored(StageList(c, k))'
      BY <1>2, <1>5, <2>5 DEF Stored
  <2>7. StageInv(c)'
      BY <1>2, <2>4, <2>6 DEF StageInv
  <2> QED
      BY <1>1, <1>2, <1>11, <2>1, <2>2, <2>7, Typing, InsideStep
<1>12. CASE /\ node # Null /\ mem[node].ptr < loc[c].ptr
            /\ loc' = [loc EXCEPT ![c].prev = node, ![c].node = mem[node].next] /\ pc' = pc
  <2>1. /\ mem[node].next = LinkOf(committed, k) /\ mem[node].ptr = committed[k].ptr
        /\ node = committed[k].ptr /\ k \in 1 .. Len(committed)
      BY <1>7, <1>8, <1>12
  <2>2. k + 1 \in 1 .. Len(committed) + 1 /\ (k + 1) - 1 = k /\ k + 1 # 1
      BY <1>9, <2>1
  <2>3. LinkOf(committed, k) \in {Null} \cup Pages /\ node \in {Null} \cup Pages
    <3>1. LinkOf(committed, (k + 1) - 1) \in {Null} \cup Pages
        BY <2>2, Typing, AtPlace
    <3> QED
        BY <1>10, <2>2, <3>1 DEF Locals
  <2> DEFINE locals == [loc[c] EXCEPT !.prev = node, !.node = mem[node].next]
  <2>4. /\ locals.prev = node /\ locals.node = mem[node].next /\ locals.ptr = loc[c].ptr
        /\ locals.size = loc[c].size /\ locals.ret = loc[c].ret /\ locals \in Locals
      BY <1>10, <2>1, <2>3 DEF Locals
  <2>5. /\ loc'[c] = locals /\ \A d \in Contexts : d # c => loc'[d] = loc[d]
        /\ loc' = [loc EXCEPT ![c] = locals]
      BY <1>12, Typing
  <2> HIDE DEF locals, node
  <2>6. loc' \in [Contexts -> Locals]
      BY <2>4, <2>5, Typing
  <2>7. CallInv(c)'
    <3>1. Freed(c)' = Freed(c)
        BY <2>4, <2>5 DEF Freed
    <3>2. pc[c] # "free_acquire" /\ pc[c] # "alloc_acquire"
        BY <1>0
    <3> QED
        BY <1>1, <1>2, <1>10, <1>12, <2>4, <2>5, <3>1, <3>2 DEF CallInv, Chunk
  <2>8. \A j \in 1 .. (k + 1) - 1 : committed[j].ptr < loc[c].ptr
      BY <1>6, <1>9, <1>12, <2>1
  <2>9. Found(c, k + 1)'
    <3>1. pc'[c] = "free_search" /\ pc'[c] \notin AllocInside
        BY <1>0, <1>12 DEF AllocInside
    <3>2. loc'[c].prev = (IF k + 1 = 1 THEN Null ELSE committed'[(k + 1) - 1].ptr)
        BY <1>2, <2>1, <2>2, <2>4, <2>5
    <3>3. loc'[c].node = LinkOf(committed', (k + 1) - 1)
        BY <1>2, <2>1, <2>2, <2>4, <2>5
    <3>4. \A j \in 1 .. (k + 1) - 1 : committed'[j].ptr < loc'[c].ptr
        BY <1>2, <2>4, <2>5, <2>8
    <3> QED
        BY <3>1, <3>2, <3>3, <3>4 DEF Found
  <2>10. StageList(c, k + 1)' = committed
      BY <1>0, <1>2, <1>12 DEF StageList
  <2>11. Stored(StageList(c, k + 1))'
      BY <1>2, <1>5, <2>10 DEF Stored
  <2>12. StageInv(c)'
      BY <1>2, <2>2, <2>9, <2>11 DEF StageInv
  <2> QED
      BY <1>1, <1>2, <1>12, <2>5, <2>6, <2>7, <2>12, Typing, InsideStep
<1> QED
    BY <1>11, <1>12 DEF FreeSearch

\* What the stages of pmm_free after the search have in common.
LEMMA FreeStage ==
    ASSUME LockedInv, NEW c \in Contexts,
           pc[c] \in {"free_link", "free_merge_previous", "free_merge_next"}
    PROVE  /\ pc[c] \in Inside /\ pc[c] \in FreeInside \ {"free_search"}
           /\ pc[c] \in InFree \ {"free_release"}
           /\ loc[c].ptr \in Pages /\ owner[loc[c].ptr] = c /\ Freed(c) \in Node
           /\ Freed(c).ptr = loc[c].ptr /\ Freed(c).size = loc[c].size
           /\ mem[loc[c].ptr].ptr = loc[c].ptr /\ mem[loc[c].ptr].size = loc[c].size
           /\ \E k \in 1 .. Len(committed) + 1 : Found(c, k) /\ Stored(StageList(c, k))
           /\ \A k \in 1 .. Len(committed) + 1 : Found(c, k) =>
                /\ loc[c].node = LinkOf(committed, k - 1)
                /\ loc[c].prev = Null <=> k = 1
                /\ k # 1 => /\ k - 1 \in 1 .. Len(committed)
                            /\ loc[c].prev = committed[k - 1].ptr /\ loc[c].prev \in Pages
                            /\ owner[loc[c].prev] = Nobody
<1>1. /\ pc[c] \in Inside /\ pc[c] \in FreeInside \ {"free_search"}
      /\ pc[c] \in InFree \ {"free_release"}
    BY DEF Inside, FreeInside, InFree
<1>2. /\ loc[c].ptr \in Pages /\ owner[loc[c].ptr] = c /\ Freed(c) \in Node
      /\ Freed(c).ptr = loc[c].ptr /\ Freed(c).size = loc[c].size
    BY <1>1, FreedPages
<1>3. mem[loc[c].ptr].ptr = loc[c].ptr /\ mem[loc[c].ptr].size = loc[c].size
    BY <1>1 DEF LockedInv, CallInv
<1>4. \E k \in 1 .. Len(committed) + 1 : Found(c, k) /\ Stored(StageList(c, k))
    BY <1>1 DEF LockedInv, StageInv
<1>5. ASSUME NEW k \in 1 .. Len(committed) + 1, Found(c, k)
      PROVE  /\ loc[c].node = LinkOf(committed, k - 1)
             /\ loc[c].prev = Null <=> k = 1
             /\ k # 1 => /\ k - 1 \in 1 .. Len(committed)
                         /\ loc[c].prev = committed[k - 1].ptr /\ loc[c].prev \in Pages
                         /\ owner[loc[c].prev] = Nobody
  <2>1. /\ loc[c].node = LinkOf(committed, k - 1)
        /\ loc[c].prev = (IF k = 1 THEN Null ELSE committed[k - 1].ptr)
      BY <1>5 DEF Found
  <2>2. ASSUME k # 1
        PROVE  /\ k - 1 \in 1 .. Len(committed)
               /\ committed[k - 1].ptr \in Pages /\ committed[k - 1].ptr # Null
               /\ owner[committed[k - 1].ptr] = Nobody
    <3>1. k - 1 \in 1 .. Len(committed)
        BY <2>2, Typing
    <3>2. /\ committed[k - 1].ptr \in Pages /\ committed[k - 1].ptr # Null
          /\ committed[k - 1].ptr \in Nat
          /\ committed[k - 1].size \in Nat /\ committed[k - 1].size > 0
          /\ End(committed[k - 1]) = committed[k - 1].ptr + committed[k - 1].size
        BY <3>1, Typing, SoundIndex
    <3>3. Covers(committed, committed[k - 1].ptr)
        BY <3>1, <3>2 DEF Covers
    <3> QED
        BY <3>1, <3>2, <3>3, Typing
  <2> QED
      BY <2>1, <2>2
<1> QED
    BY <1>1, <1>2, <1>3, <1>4, <1>5

\* A step of pmm_free that changes nothing but memory, the head and its label.
LEMMA FreeStep ==
    ASSUME LockedInv, NEW c \in Contexts,
           pc[c] \in {"free_link", "free_merge_previous", "free_merge_next"},
           NEW label \in {"free_merge_previous", "free_merge_next", "free_release"},
           UNCHANGED <<index, holder, owner, loc, committed, ret>>,
           pc' = [pc EXCEPT ![c] = label],
           mem' \in [Pages -> NodeType], head' \in {Null} \cup Pages,
           \A p \in Pages : owner[p] \notin {Nobody, c} => mem'[p] = mem[p],
           label # "free_release" =>
               mem'[loc[c].ptr].ptr = loc[c].ptr /\ mem'[loc[c].ptr].size = loc[c].size,
           NEW k \in 1 .. Len(committed) + 1, Found(c, k),
           StoredIn(mem', head',
                    IF label = "free_merge_previous" THEN Linked(c, k)
                    ELSE IF label = "free_merge_next" THEN Merged(c, k)
                    ELSE Manager!GiveBack(k, Freed(c)))
    PROVE  LockedInv'
<1>1. /\ pc[c] \in Inside /\ pc[c] \in FreeInside /\ pc[c] # "free_search"
      /\ pc[c] \in InFree \ {"free_release"} /\ pc[c] \notin AllocInside
    BY DEF Inside, FreeInside, InFree, AllocInside
<1>2. /\ pc'[c] = label /\ pc' \in [Contexts -> Labels]
      /\ \A d \in Contexts : d # c => pc'[d] = pc[d]
    BY Typing DEF Labels, InFree, FreeInside
<1>3. /\ pc'[c] \in Inside /\ pc'[c] \in FreeInside /\ pc'[c] # "free_search"
      /\ pc'[c] \in InFree /\ pc'[c] \notin AllocInside
      /\ pc'[c] # "alloc_acquire" /\ pc'[c] # "free_acquire"
    BY <1>2 DEF Inside, FreeInside, InFree, AllocInside
<1>4. Freed(c)' = Freed(c)
    BY DEF Freed
<1>5. CallInv(c)'
  <2>1. CallInv(c)
      BY DEF LockedInv
  <2> QED
      BY <1>1, <1>2, <1>3, <1>4, <2>1 DEF CallInv, Chunk
<1>6. Found(c, k)'
    BY <1>1, <1>3 DEF Found
<1>7. Linked(c, k)' = Linked(c, k)
    BY <1>4 DEF Linked
<1>8. Merged(c, k)' = Merged(c, k)
    BY <1>7 DEF Merged
<1>9. Manager!GiveBack(k, Freed(c))' = Manager!GiveBack(k, Freed(c))
    BY <1>4 DEF Manager!GiveBack
<1>10. Stored(StageList(c, k))'
  <2>1. CASE label = "free_merge_previous"
    <3>1. StageList(c, k)' = Linked(c, k)
        BY <1>2, <1>7, <2>1 DEF StageList
    <3> QED
        BY <2>1, <3>1 DEF Stored
  <2>2. CASE label = "free_merge_next"
    <3>1. StageList(c, k)' = Merged(c, k)
        BY <1>2, <1>8, <2>2 DEF StageList
    <3> QED
        BY <2>2, <3>1 DEF Stored
  <2>3. CASE label = "free_release"
    <3>1. StageList(c, k)' = Manager!GiveBack(k, Freed(c))
        BY <1>2, <1>9, <2>3 DEF StageList
    <3> QED
        BY <2>3, <3>1 DEF Stored
  <2> QED
      BY <2>1, <2>2, <2>3
<1>11. StageInv(c)'
    BY <1>6, <1>10 DEF StageInv
<1> QED
    BY <1>1, <1>2, <1>5, <1>11, Typing, InsideStep

\* Linking the freed range preserves the invariant.
LEMMA FreeLinkStep ==
    ASSUME LockedInv, NEW c \in Contexts, FreeLink(c)
    PROVE  LockedInv'
<1> DEFINE new == loc[c].ptr
           prev == loc[c].prev
           linked == [mem EXCEPT ![new].next = loc[c].node]
<1>0. pc[c] = "free_link"
    BY DEF FreeLink
<1>1. /\ pc[c] \in FreeInside \ {"free_search"}
      /\ new \in Pages /\ owner[new] = c /\ Freed(c) \in Node
      /\ Freed(c).ptr = new /\ Freed(c).size = loc[c].size
      /\ mem[new].ptr = new /\ mem[new].size = loc[c].size
    BY <1>0, FreeStage
<1>2. PICK k \in 1 .. Len(committed) + 1 : Found(c, k) /\ Stored(StageList(c, k))
    BY <1>0, FreeStage
<1>3. /\ loc[c].node = LinkOf(committed, k - 1)
      /\ prev = Null <=> k = 1
      /\ k # 1 => prev = committed[k - 1].ptr /\ prev \in Pages /\ owner[prev] = Nobody
    BY <1>0, <1>2, FreeStage
<1>4. StoredIn(mem, head, committed)
    BY <1>0, <1>2 DEF StageList, Stored
<1>5. /\ mem' = IF prev = Null THEN linked ELSE [linked EXCEPT ![prev].next = new]
      /\ head' = IF prev = Null THEN new ELSE head
      /\ pc' = [pc EXCEPT ![c] = "free_merge_previous"]
      /\ UNCHANGED <<index, holder, owner, loc, committed, ret>>
    BY DEF FreeLink
<1>6. /\ Sound(committed) /\ Sound(Linked(c, k)) /\ Linked(c, k)[k] = Freed(c)
      /\ Len(Linked(c, k)) = Len(committed) + 1
    BY <1>1, <1>2, LinkedList, Typing
<1>7. mem \in [Pages -> NodeType] /\ head \in {Null} \cup Pages
      /\ loc[c].node \in {Null} \cup Pages
    BY Typing DEF Locals
<1> HIDE DEF new, prev, linked
<1>8. StoredIn(mem', head', Linked(c, k))
  <2>1. linked = [mem EXCEPT ![Freed(c).ptr].next = LinkOf(committed, k - 1)]
      BY <1>1, <1>3 DEF linked
  <2>2. mem' = IF k = 1 THEN linked
               ELSE [linked EXCEPT ![committed[k - 1].ptr].next = Freed(c).ptr]
      BY <1>1, <1>3, <1>5
  <2>3. head' = IF k = 1 THEN Freed(c).ptr ELSE head
      BY <1>1, <1>3, <1>5
  <2>4. mem[Freed(c).ptr].ptr = Freed(c).ptr /\ mem[Freed(c).ptr].size = Freed(c).size
      BY <1>1
  <2>5. Sound(Manager!InsertAt(committed, k, Freed(c)))
      BY <1>6 DEF Linked
  <2>6. StoredIn(mem', IF k = 1 THEN Freed(c).ptr ELSE head,
                 Manager!InsertAt(committed, k, Freed(c)))
    <3>1. mem' = LinkedWords(mem, committed, k, Freed(c))
        BY <2>1, <2>2 DEF LinkedWords
    <3>2. StoredIn(LinkedWords(mem, committed, k, Freed(c)),
                   IF k = 1 THEN Freed(c).ptr ELSE head,
                   Manager!InsertAt(committed, k, Freed(c)))
        BY <1>1, <1>4, <1>6, <1>7, <2>4, <2>5, InsertStored
    <3> QED
        BY <3>1, <3>2
  <2> QED
      BY <2>3, <2>6 DEF Linked
<1>9. /\ mem' \in [Pages -> NodeType]
      /\ \A p \in Pages : p # new /\ p # prev => mem'[p] = mem[p]
  <2>1. /\ linked \in [Pages -> NodeType]
        /\ \A p \in Pages : p # new => linked[p] = mem[p]
      BY <1>1, <1>7 DEF linked, NodeType
  <2>2. CASE prev = Null
      BY <1>5, <2>1, <2>2
  <2>3. CASE prev # Null
    <3>1. mem' = [linked EXCEPT ![prev].next = new] /\ prev \in Pages /\ new \in {Null} \cup Pages
        BY <1>1, <1>3, <1>5, <2>3
    <3> QED
        BY <2>1, <3>1 DEF NodeType
  <2> QED
      BY <2>2, <2>3
<1>10. \A p \in Pages : owner[p] \notin {Nobody, c} => mem'[p] = mem[p]
  <2>1. prev \in Pages => owner[prev] = Nobody
    <3>1. Null \notin Pages
        BY PagesAssumption DEF Null, Pages
    <3> QED
        BY <1>3, <3>1
  <2> QED
      BY <1>1, <1>9, <2>1
<1>11. head' \in {Null} \cup Pages
    BY <1>1, <1>5, <1>7
<1>12. mem'[loc[c].ptr].ptr = loc[c].ptr /\ mem'[loc[c].ptr].size = loc[c].size
  <2>1. k \in 1 .. Len(Linked(c, k))
      BY <1>6
  <2>2. mem'[Linked(c, k)[k].ptr] =
            [next |-> LinkOf(Linked(c, k), k), ptr |-> Linked(c, k)[k].ptr,
             size |-> Linked(c, k)[k].size]
      BY <1>8, <2>1 DEF StoredIn
  <2> QED
      BY <1>1, <1>6, <2>2 DEF new
<1> QED
    BY <1>0, <1>2, <1>5, <1>8, <1>9, <1>10, <1>11, <1>12, FreeStep

\* The words of a node of a stored list.
LEMMA StoredNode ==
    ASSUME NEW m, NEW h, NEW list, StoredIn(m, h, list), NEW i \in 1 .. Len(list)
    PROVE  /\ m[list[i].ptr].next = LinkOf(list, i)
           /\ m[list[i].ptr].ptr = list[i].ptr
           /\ m[list[i].ptr].size = list[i].size
<1>1. m[list[i].ptr] =
          [next |-> LinkOf(list, i), ptr |-> list[i].ptr, size |-> list[i].size]
    BY DEF StoredIn
<1> QED
    BY <1>1

\* Two nodes that touch still fit into the memory when they are one.
LEMMA MergeType ==
    ASSUME mem \in [Pages -> NodeType], NEW a \in Pages, NEW b \in Pages,
           mem[a].ptr = a, mem[a].size \in Nat, mem[b].ptr = b, mem[b].size \in Nat,
           mem[b].ptr + mem[b].size <= MaxPage + 1
    PROVE  /\ pmm_tryMergeNodes(a, b) \in [Pages -> NodeType]
           /\ \A p \in Pages : p # a => pmm_tryMergeNodes(a, b)[p] = mem[p]
<1>1. CASE mem[a].ptr + mem[a].size = mem[b].ptr
  <2> DEFINE node == [next |-> mem[b].next, ptr |-> mem[a].ptr, size |-> mem[a].size + mem[b].size]
  <2>1. mem[a].size + mem[b].size \in 0 .. MaxPage
      BY <1>1, PagesAssumption DEF Pages
  <2>2. mem[b].next \in {Null} \cup Pages /\ mem[a].ptr \in 0 .. MaxPage
      BY DEF NodeType
  <2>3. node \in NodeType
      BY <2>1, <2>2 DEF NodeType
  <2>4. pmm_tryMergeNodes(a, b) = [mem EXCEPT ![a] = node]
      BY <1>1 DEF pmm_tryMergeNodes
  <2> HIDE DEF node
  <2> QED
      BY <2>3, <2>4
<1>2. CASE mem[a].ptr + mem[a].size # mem[b].ptr
    BY <1>2 DEF pmm_tryMergeNodes
<1> QED
    BY <1>1, <1>2

\* Merging the freed range into the node before it preserves the invariant.
LEMMA FreeMergePreviousStep ==
    ASSUME LockedInv, NEW c \in Contexts, FreeMergePrevious(c)
    PROVE  LockedInv'
<1> DEFINE new == loc[c].ptr
           prev == loc[c].prev
<1>0. pc[c] = "free_merge_previous"
    BY DEF FreeMergePrevious
<1>1. /\ pc[c] \in FreeInside \ {"free_search"}
      /\ new \in Pages /\ owner[new] = c /\ Freed(c) \in Node
      /\ Freed(c).ptr = new /\ Freed(c).size = loc[c].size
      /\ mem[new].ptr = new /\ mem[new].size = loc[c].size
      /\ pc[c] \in InFree
    BY <1>0, FreeStage
<1>2. PICK k \in 1 .. Len(committed) + 1 : Found(c, k) /\ Stored(StageList(c, k))
    BY <1>0, FreeStage
<1>3. /\ prev = Null <=> k = 1
      /\ k # 1 => prev = committed[k - 1].ptr /\ prev \in Pages /\ owner[prev] = Nobody
    BY <1>0, <1>2, FreeStage
<1>4. StoredIn(mem, head, Linked(c, k))
    BY <1>0, <1>2 DEF StageList, Stored
<1>5. /\ mem' = IF prev = Null THEN mem ELSE pmm_tryMergeNodes(prev, new)
      /\ pc' = [pc EXCEPT ![c] = "free_merge_next"]
      /\ UNCHANGED <<index, head, holder, owner, loc, committed, ret>>
    BY DEF FreeMergePrevious
<1>6. mem \in [Pages -> NodeType] /\ head \in {Null} \cup Pages /\ Len(committed) \in Nat
    BY Typing
<1>7. /\ Sound(Linked(c, k)) /\ Len(Linked(c, k)) = Len(committed) + 1
      /\ Linked(c, k)[k] = Freed(c)
      /\ k > 1 => k - 1 \in 1 .. Len(committed) /\ Linked(c, k)[k - 1] = committed[k - 1]
    BY <1>1, <1>2, LinkedList
<1>8. /\ ~Swallowed(c, k) => Merged(c, k) = Linked(c, k)
      /\ Swallowed(c, k) => Merged(c, k) = Manager!pmm_tryMergeNodes(Linked(c, k), k - 1)
    BY <1>1, <1>2, MergedList
<1> HIDE DEF new, prev
<1>9. CASE k = 1
  <2>1. mem' = mem /\ Merged(c, k) = Linked(c, k)
      BY <1>3, <1>5, <1>8, <1>9 DEF Swallowed
  <2>2. StoredIn(mem', head', Merged(c, k))
      BY <1>4, <1>5, <2>1
  <2>3. mem'[loc[c].ptr].ptr = loc[c].ptr /\ mem'[loc[c].ptr].size = loc[c].size
      BY <1>1, <2>1 DEF new
  <2> QED
      BY <1>0, <1>2, <1>5, <1>6, <2>1, <2>2, <2>3, FreeStep
<1>10. CASE k # 1
  <2> DEFINE list == Linked(c, k)
             q == k - 1
  <2>1. /\ k > 1 /\ q \in 1 .. Len(list) - 1 /\ q \in 1 .. Len(list) /\ q + 1 = k
        /\ k \in 1 .. Len(list)
      BY <1>6, <1>7, <1>10
  <2>2. list[q].ptr = prev /\ list[q + 1].ptr = new /\ list[q + 1].size = loc[c].size
      BY <1>1, <1>3, <1>7, <1>10, <2>1
  <2>3. mem' = pmm_tryMergeNodes(prev, new) /\ prev \in Pages /\ owner[prev] = Nobody
      BY <1>3, <1>5, <1>10
  <2>4. Swallowed(c, k) <=> End(list[q]) = list[q + 1].ptr
      BY <1>7, <2>1, <2>2 DEF Swallowed, new
  <2> HIDE DEF list, q
  <2>5. mem[prev].ptr = list[q].ptr /\ mem[prev].size = list[q].size
    <3>1. StoredIn(mem, head, list)
        BY <1>4 DEF list
    <3>2. mem[list[q].ptr].ptr = list[q].ptr /\ mem[list[q].ptr].size = list[q].size
        BY <2>1, <3>1, StoredNode
    <3> QED
        BY <2>2, <3>2
  <2>6. End(list[q]) = mem[prev].ptr + mem[prev].size
      BY <2>5 DEF End
  <2>7. StoredIn(mem', head', Merged(c, k))
    <3>1. CASE Swallowed(c, k)
      <4>1. mem' = [mem EXCEPT ![prev] = [next |-> mem[new].next, ptr |-> mem[prev].ptr,
                                          size |-> mem[prev].size + mem[new].size]]
          BY <1>1, <2>2, <2>3, <2>4, <2>6, <3>1 DEF pmm_tryMergeNodes
      <4>2. Sound(list) /\ StoredIn(mem, head, list) /\ End(list[q]) = list[q + 1].ptr
          BY <1>4, <1>7, <2>4, <3>1 DEF list
      <4>3. LET a == list[q].ptr
                b == list[q + 1].ptr
            IN  StoredIn([mem EXCEPT ![a] = [next |-> mem[b].next, ptr |-> mem[a].ptr,
                                             size |-> mem[a].size + mem[b].size]],
                         head, Manager!pmm_tryMergeNodes(list, q))
          BY <1>6, <2>1, <4>2, MergeStored
      <4>4. StoredIn(mem', head, Manager!pmm_tryMergeNodes(list, q))
          BY <2>2, <4>1, <4>3
      <4> QED
          BY <1>5, <1>8, <3>1, <4>4 DEF list, q
    <3>2. CASE ~Swallowed(c, k)
      <4>1. mem' = mem
          BY <1>1, <2>2, <2>3, <2>4, <2>6, <3>2 DEF pmm_tryMergeNodes
      <4> QED
          BY <1>4, <1>5, <1>8, <3>2, <4>1
    <3> QED
        BY <3>1, <3>2
  <2>8. mem' \in [Pages -> NodeType] /\ \A p \in Pages : p # prev => mem'[p] = mem[p]
    <3>1. /\ mem[prev].ptr = prev /\ mem[prev].size \in Nat
      <4>1. mem[prev] \in NodeType
          BY <1>6, <2>3
      <4> QED
          BY <2>2, <2>5, <4>1, PagesAssumption DEF NodeType
    <3>2. mem[new].size \in Nat /\ mem[new].ptr + mem[new].size <= MaxPage + 1
      <4>1. mem[new] \in NodeType
          BY <1>1, <1>6
      <4>2. End(Freed(c)) <= MaxPage + 1
          BY <1>1, FreedPages
      <4> QED
          BY <1>1, <4>1, <4>2, PagesAssumption DEF NodeType, End
    <3> QED
        BY <1>1, <1>6, <2>3, <3>1, <3>2, MergeType
  <2>9. /\ \A p \in Pages : owner[p] \notin {Nobody, c} => mem'[p] = mem[p]
        /\ mem'[loc[c].ptr].ptr = loc[c].ptr /\ mem'[loc[c].ptr].size = loc[c].size
    <3>1. new # prev
        BY <1>1, <2>3, PagesAssumption
    <3> QED
        BY <1>1, <2>3, <2>8, <3>1 DEF new
  <2> QED
      BY <1>0, <1>2, <1>5, <1>6, <2>7, <2>8, <2>9, FreeStep
<1> QED
    BY <1>9, <1>10

\* Merging the next node into the freed range preserves the invariant, also when
\* the range is out of the list already: the store then hits no node.
LEMMA FreeMergeNextStep ==
    ASSUME LockedInv, NEW c \in Contexts, FreeMergeNext(c)
    PROVE  LockedInv'
<1> DEFINE new == loc[c].ptr
           next == loc[c].node
<1>0. pc[c] = "free_merge_next"
    BY DEF FreeMergeNext
<1>1. /\ pc[c] \in FreeInside \ {"free_search"}
      /\ new \in Pages /\ owner[new] = c /\ Freed(c) \in Node
      /\ Freed(c).ptr = new /\ Freed(c).size = loc[c].size
      /\ mem[new].ptr = new /\ mem[new].size = loc[c].size
      /\ pc[c] \in InFree
    BY <1>0, FreeStage
<1>2. PICK k \in 1 .. Len(committed) + 1 : Found(c, k) /\ Stored(StageList(c, k))
    BY <1>0, FreeStage
<1>3. next = LinkOf(committed, k - 1)
    BY <1>0, <1>2, FreeStage
<1>4. StoredIn(mem, head, Merged(c, k))
    BY <1>0, <1>2 DEF StageList, Stored
<1>5. /\ mem' = IF next = Null THEN mem ELSE pmm_tryMergeNodes(new, next)
      /\ pc' = [pc EXCEPT ![c] = "free_release"]
      /\ UNCHANGED <<index, head, holder, owner, loc, committed, ret>>
    BY DEF FreeMergeNext
<1>6. /\ mem \in [Pages -> NodeType] /\ head \in {Null} \cup Pages
      /\ Len(committed) \in Nat /\ Sound(committed)
    BY Typing
<1>7. /\ next = Null <=> k = Len(committed) + 1
      /\ next # Null => k \in 1 .. Len(committed) /\ next = committed[k].ptr
    BY <1>3, <1>6, AtPlace
<1>8. /\ Sound(Linked(c, k)) /\ Len(Linked(c, k)) = Len(committed) + 1
      /\ Linked(c, k)[k] = Freed(c)
      /\ k <= Len(committed) => Linked(c, k)[k + 1] = committed[k]
      /\ k > 1 => Linked(c, k)[k - 1] = committed[k - 1]
    BY <1>1, <1>2, LinkedList
<1>9. /\ Sound(Merged(c, k))
      /\ ~Swallowed(c, k) => Merged(c, k) = Linked(c, k)
      /\ Swallowed(c, k) =>
            /\ Merged(c, k) = Manager!pmm_tryMergeNodes(Linked(c, k), k - 1)
            /\ Len(Merged(c, k)) = Len(committed)
            /\ \A i \in 1 .. Len(Merged(c, k)) : Merged(c, k)[i].ptr # loc[c].ptr
    BY <1>1, <1>2, MergedList
<1>10. /\ Swallowed(c, k) \/ k > Len(committed) =>
              Manager!GiveBack(k, Freed(c)) = Merged(c, k)
       /\ ~Swallowed(c, k) /\ k <= Len(committed) =>
              Manager!GiveBack(k, Freed(c)) = Manager!pmm_tryMergeNodes(Linked(c, k), k)
    BY <1>1, <1>2, GivenBack
<1>11. CASE next = Null
  <2>1. mem' = mem /\ Manager!GiveBack(k, Freed(c)) = Merged(c, k)
      BY <1>5, <1>6, <1>7, <1>10, <1>11
  <2>2. StoredIn(mem', head', Manager!GiveBack(k, Freed(c)))
      BY <1>4, <1>5, <2>1
  <2> QED
      BY <1>0, <1>2, <1>5, <1>6, <2>1, <2>2, FreeStep
<1>12. CASE next # Null
  <2> DEFINE list == Linked(c, k)
  <2>1. /\ k \in 1 .. Len(committed) /\ next = committed[k].ptr /\ k <= Len(committed)
        /\ mem' = pmm_tryMergeNodes(new, next)
      BY <1>5, <1>6, <1>7, <1>12
  <2>2. /\ committed[k].ptr \in Pages /\ committed[k].size \in Nat
        /\ End(committed[k]) = committed[k].ptr + committed[k].size
        /\ End(committed[k]) <= MaxPage + 1
      BY <1>6, <2>1, SoundIndex
  <2>3. mem[next].ptr = committed[k].ptr /\ mem[next].size = committed[k].size
    <3>1. CASE ~Swallowed(c, k)
      <4>1. StoredIn(mem, head, list) /\ k + 1 \in 1 .. Len(list)
          BY <1>4, <1>6, <1>8, <1>9, <2>1, <3>1
      <4> HIDE DEF list
      <4>2. mem[list[k + 1].ptr].ptr = list[k + 1].ptr /\ mem[list[k + 1].ptr].size = list[k + 1].size
          BY <4>1, StoredNode
      <4> QED
          BY <1>8, <2>1, <4>2 DEF list
    <3>2. CASE Swallowed(c, k)
      <4> DEFINE merged == Merged(c, k)
                 q == k - 1
      <4>1. k > 1 /\ End(committed[k - 1]) = new
          BY <3>2 DEF Swallowed
      <4>2. /\ q \in 1 .. Len(list) - 1 /\ End(list[q]) = list[q + 1].ptr
            /\ k \in 1 .. Len(list) - 1 /\ k > q
        <5>1. q + 1 = k /\ q \in 1 .. Len(list) - 1 /\ k \in 1 .. Len(list) - 1 /\ k > q
            BY <1>6, <1>8, <2>1, <4>1
        <5>2. list[q] = committed[k - 1] /\ list[k].ptr = new
            BY <1>1, <1>8, <4>1
        <5> QED
            BY <4>1, <5>1, <5>2
      <4>3. merged = Manager!pmm_tryMergeNodes(list, q) /\ Len(merged) = Len(committed)
          BY <1>9, <3>2
      <4> HIDE DEF list, merged, q
      <4>4. merged[k] = list[k + 1]
        <5>1. Sound(list)
            BY <1>8 DEF list
        <5> DEFINE m == Manager!pmm_tryMergeNodes(list, q)
        <5>2. \A j \in 1 .. Len(list) - 1 : j > q => m[j] = list[j + 1]
            BY <4>2, <5>1, MergeIndex
        <5> HIDE DEF m
        <5>3. m[k] = list[k + 1]
            BY <4>2, <5>2
        <5> QED
            BY <4>3, <5>3 DEF m
      <4>5. StoredIn(mem, head, merged) /\ k \in 1 .. Len(merged)
          BY <1>4, <2>1, <4>3 DEF merged
      <4>6. mem[merged[k].ptr].ptr = merged[k].ptr /\ mem[merged[k].ptr].size = merged[k].size
          BY <4>5, StoredNode
      <4> QED
          BY <1>8, <2>1, <4>4, <4>6 DEF list
    <3> QED
        BY <3>1, <3>2
  <2>4. mem' \in [Pages -> NodeType] /\ \A p \in Pages : p # new => mem'[p] = mem[p]
    <3>1. loc[c].size \in Nat
        BY <1>1, FreedPages, PagesAssumption DEF Pages
    <3>2. /\ mem[new].ptr = new /\ mem[new].size \in Nat
          /\ next \in Pages /\ mem[next].ptr = next /\ mem[next].size \in Nat
          /\ mem[next].ptr + mem[next].size <= MaxPage + 1
        BY <1>1, <2>1, <2>2, <2>3, <3>1
    <3> QED
        BY <1>1, <1>6, <2>1, <3>2, MergeType
  <2>5. StoredIn(mem', head', Manager!GiveBack(k, Freed(c)))
    <3>1. CASE Swallowed(c, k)
      <4>1. \A i \in 1 .. Len(Merged(c, k)) :
                mem'[Merged(c, k)[i].ptr] = mem[Merged(c, k)[i].ptr]
        <5>1. \A i \in 1 .. Len(Merged(c, k)) : Merged(c, k)[i].ptr \in Pages
            BY <1>9, SoundIndex
        <5> QED
            BY <1>9, <2>4, <3>1, <5>1
      <4>2. StoredIn(mem', head, Merged(c, k))
          BY <1>4, <4>1, KeepsStored
      <4> QED
          BY <1>5, <1>10, <3>1, <4>2
    <3>2. CASE ~Swallowed(c, k)
      <4>1. StoredIn(mem, head, list) /\ Sound(list) /\ k \in 1 .. Len(list) - 1
          BY <1>4, <1>6, <1>8, <1>9, <2>1, <3>2
      <4>2. Manager!GiveBack(k, Freed(c)) = Manager!pmm_tryMergeNodes(list, k)
          BY <1>10, <2>1, <3>2
      <4>3. list[k].ptr = new /\ list[k].size = loc[c].size /\ list[k + 1].ptr = next
          BY <1>1, <1>8, <2>1
      <4> HIDE DEF list
      <4>4. End(list[k]) = mem[new].ptr + mem[new].size /\ list[k + 1].ptr = mem[next].ptr
          BY <1>1, <2>1, <2>3, <4>3 DEF End
      <4>5. CASE End(list[k]) = list[k + 1].ptr
        <5>1. mem' = [mem EXCEPT ![new] = [next |-> mem[next].next, ptr |-> mem[new].ptr,
                                           size |-> mem[new].size + mem[next].size]]
            BY <2>1, <4>4, <4>5 DEF pmm_tryMergeNodes
        <5>2. LET a == list[k].ptr
                  b == list[k + 1].ptr
              IN  StoredIn([mem EXCEPT ![a] = [next |-> mem[b].next, ptr |-> mem[a].ptr,
                                               size |-> mem[a].size + mem[b].size]],
                           head, Manager!pmm_tryMergeNodes(list, k))
            BY <1>6, <4>1, <4>5, MergeStored
        <5>3. StoredIn(mem', head, Manager!pmm_tryMergeNodes(list, k))
            BY <4>3, <5>1, <5>2
        <5> QED
            BY <1>5, <4>2, <5>3
      <4>6. CASE End(list[k]) # list[k + 1].ptr
        <5>1. mem' = mem
            BY <2>1, <4>4, <4>6 DEF pmm_tryMergeNodes
        <5>2. Manager!pmm_tryMergeNodes(list, k) = list
            BY <4>6 DEF Manager!pmm_tryMergeNodes, Manager!End, End
        <5> QED
            BY <1>5, <4>1, <4>2, <5>1, <5>2
      <4> QED
          BY <4>5, <4>6
    <3> QED
        BY <3>1, <3>2
  <2>6. \A p \in Pages : owner[p] \notin {Nobody, c} => mem'[p] = mem[p]
      BY <1>1, <2>4
  <2> QED
      BY <1>0, <1>2, <1>5, <1>6, <2>4, <2>5, <2>6, FreeStep
<1> QED
    BY <1>11, <1>12

-----------------------------------------------------------------------------
(* The steps that release the lock, where an operation takes effect. *)

\* The list that the holder reads back when it releases the lock.
LEMMA ReadsStage ==
    ASSUME LockedInv, NEW c \in Contexts, pc[c] \in Inside,
           NEW k \in 1 .. Len(committed) + 1, Found(c, k), Stored(StageList(c, k))
    PROVE  CurrentList = StageList(c, k)
    BY StageSound, Typing, ReadsStored

\* The release of the lock preserves the invariant, if the pages that changed
\* hands were the holder's own or nobody's.
LEMMA ReleaseStep ==
    ASSUME LockedInv, NEW c \in Contexts, pc[c] \in Inside,
           NEW k \in 1 .. Len(committed) + 1, Found(c, k), Stored(StageList(c, k)),
           holder' = Nobody, committed' = CurrentList,
           pc' = [pc EXCEPT ![c] = "idle"], loc' = [loc EXCEPT ![c] = NoLocals],
           UNCHANGED <<index, mem, head>>,
           owner' \in [Pages -> Contexts \cup {Nobody}],
           \A p \in Pages : owner[p] \notin {Nobody, c} => owner'[p] = owner[p],
           \A p \in Pages : Covers(StageList(c, k), p) => owner'[p] = Nobody
    PROVE  LockedInv'
<1>1. /\ holder = c /\ c # Nobody /\ index = 0
      /\ \A d \in Contexts : d # c => pc[d] \notin Inside
    BY HolderInside
<1>2. committed' = StageList(c, k) /\ Sound(StageList(c, k))
    BY ReadsStage, StageSound
<1>3. /\ pc'[c] = "idle" /\ pc' \in [Contexts -> Labels]
      /\ loc' \in [Contexts -> Locals]
      /\ \A d \in Contexts : d # c => pc'[d] = pc[d] /\ loc'[d] = loc[d]
  <2>1. NoLocals \in Locals
      BY DEF NoLocals, Locals, Null
  <2> QED
      BY <2>1, Typing, LabelSets
<1>4. TypeOK'
  <2>1. DOMAIN pc' = Contexts /\ DOMAIN loc' = Contexts
      BY <1>3
  <2> QED
      BY <2>1 DEF LockedInv, TypeOK
<1>5. BootInv'
    BY <1>1 DEF BootInv
<1>6. /\ Sound(committed)'
      /\ (\A p \in Pages : Covers(committed, p) => owner[p] = Nobody)'
    BY <1>2
<1>7. (holder = Nobody => Stored(committed))'
    BY <1>2 DEF Stored
<1>8. ASSUME NEW d \in Contexts PROVE (CallInv(d) /\ StageInv(d))'
  <2>0. d # Nobody
      BY PagesAssumption
  <2>1. CASE d = c
      BY <1>1, <1>3, <2>1, LabelSets DEF CallInv, StageInv
  <2>2. CASE d # c
    <3>1. pc'[d] = pc[d] /\ loc'[d] = loc[d] /\ pc[d] \notin Inside /\ holder' # d
        BY <1>1, <1>3, <2>0, <2>2
    <3>2. CallInv(d)'
        BY <2>0, <2>2, <3>1, CallFrame
    <3> QED
        BY <3>1, <3>2 DEF StageInv
  <2> QED
      BY <2>1, <2>2
<1> QED
    BY <1>3, <1>4, <1>5, <1>6, <1>7, <1>8 DEF LockedInv

\* What AllocRelease hands out, or that it hands out nothing.
LEMMA AllocReleaseFacts ==
    ASSUME LockedInv, NEW c \in Contexts, AllocRelease(c)
    PROVE  /\ pc[c] \in Inside /\ holder' = Nobody /\ loc[c].size \in 1 .. MaxRequest
           /\ \E k \in 1 .. Len(committed) + 1 :
                /\ Found(c, k) /\ Stored(StageList(c, k))
                /\ \A j \in 1 .. k - 1 : committed[j].size < loc[c].size
                /\ \/ /\ k = Len(committed) + 1 /\ loc[c].ret = Null
                      /\ StageList(c, k) = committed
                   \/ /\ k \in 1 .. Len(committed) /\ committed[k].size >= loc[c].size
                      /\ loc[c].ret = End(committed[k]) - loc[c].size /\ loc[c].ret # Null
                      /\ StageList(c, k) = Manager!Take(k, loc[c].size)
<1>0. pc[c] = "alloc_release" /\ holder' = Nobody
    BY DEF AllocRelease, Lock!Release
<1>1. pc[c] \in Inside /\ pc[c] \in AllocInside /\ pc[c] \in InAlloc
    BY <1>0 DEF Inside, AllocInside, InAlloc
<1>2. loc[c].size \in 1 .. MaxRequest
    BY <1>1 DEF LockedInv, CallInv
<1>3. PICK k \in 1 .. Len(committed) + 1 : Found(c, k) /\ Stored(StageList(c, k))
    BY <1>1 DEF LockedInv, StageInv
<1>4. /\ \A j \in 1 .. k - 1 : committed[j].size < loc[c].size
      /\ k <= Len(committed) => committed[k].size >= loc[c].size
      /\ loc[c].ret = IF k <= Len(committed) THEN End(committed[k]) - loc[c].size ELSE Null
    BY <1>0, <1>1, <1>3 DEF Found
<1>5. Len(committed) \in Nat
    BY Typing
<1>6. CASE k = Len(committed) + 1
  <2>1. ~(k <= Len(committed))
      BY <1>5, <1>6
  <2>2. loc[c].ret = Null /\ StageList(c, k) = committed
      BY <1>0, <1>4, <2>1 DEF StageList
  <2> QED
      BY <1>0, <1>1, <1>2, <1>3, <1>4, <1>6, <2>2
<1>7. CASE k \in 1 .. Len(committed)
  <2>1. k <= Len(committed)
      BY <1>5, <1>7
  <2>2. StageList(c, k) = Manager!Take(k, loc[c].size)
      BY <1>0, <2>1 DEF StageList
  <2>3. End(committed[k]) - loc[c].size \in Pages
      BY <1>0, <1>3, <1>7, TakenList
  <2>4. loc[c].ret # Null
      BY <1>4, <2>1, <2>3, PagesAssumption DEF Pages, Null
  <2> QED
      BY <1>0, <1>1, <1>2, <1>3, <1>4, <1>7, <2>1, <2>2, <2>4
<1> QED
    BY <1>5, <1>6, <1>7

\* pmm_alloc hands out pages that were in the list and are no longer.
LEMMA AllocReleaseStep ==
    ASSUME LockedInv, NEW c \in Contexts, AllocRelease(c)
    PROVE  /\ LockedInv'
           /\ \A p \in Pages : owner'[p] # owner[p] => owner[p] = Nobody
<1>1. pc[c] \in Inside /\ holder' = Nobody /\ loc[c].size \in 1 .. MaxRequest
    BY AllocReleaseFacts
<1>2. PICK k \in 1 .. Len(committed) + 1 :
          /\ Found(c, k) /\ Stored(StageList(c, k))
          /\ \/ /\ k = Len(committed) + 1 /\ loc[c].ret = Null
                /\ StageList(c, k) = committed
             \/ /\ k \in 1 .. Len(committed)
                /\ loc[c].ret = End(committed[k]) - loc[c].size /\ loc[c].ret # Null
                /\ StageList(c, k) = Manager!Take(k, loc[c].size)
    BY AllocReleaseFacts
<1>3. /\ pc[c] = "alloc_release" /\ committed' = CurrentList
      /\ pc' = [pc EXCEPT ![c] = "idle"] /\ loc' = [loc EXCEPT ![c] = NoLocals]
      /\ UNCHANGED <<index, mem, head>>
      /\ owner' = IF loc[c].ret = Null THEN owner
                  ELSE [p \in Pages |->
                          IF p \in Chunk(loc[c].ret, loc[c].size) THEN c ELSE owner[p]]
    BY DEF AllocRelease
<1>4. owner \in [Pages -> Contexts \cup {Nobody}]
      /\ \A p \in Pages : Covers(committed, p) => owner[p] = Nobody
    BY Typing
<1>5. CASE k = Len(committed) + 1 /\ loc[c].ret = Null /\ StageList(c, k) = committed
  <2>1. owner' = owner
      BY <1>3, <1>5
  <2>2. LockedInv'
      BY <1>1, <1>2, <1>3, <1>4, <1>5, <2>1, ReleaseStep
  <2> QED
      BY <2>1, <2>2
<1>6. CASE /\ k \in 1 .. Len(committed) /\ loc[c].ret # Null
           /\ loc[c].ret = End(committed[k]) - loc[c].size
           /\ StageList(c, k) = Manager!Take(k, loc[c].size)
  <2> DEFINE chunk == Chunk(loc[c].ret, loc[c].size)
  <2>1. /\ \A p \in chunk : p \in Pages /\ Covers(committed, p)
        /\ \A p \in Pages : Covers(StageList(c, k), p) => Covers(committed, p) /\ p \notin chunk
      BY <1>2, <1>3, <1>6, TakenList
  <2>2. owner' = [p \in Pages |-> IF p \in chunk THEN c ELSE owner[p]]
      BY <1>3, <1>6
  <2> HIDE DEF chunk
  <2>3. owner' \in [Pages -> Contexts \cup {Nobody}]
      BY <1>4, <2>2
  <2>4. \A p \in Pages : owner'[p] # owner[p] => owner[p] = Nobody
      BY <1>4, <2>1, <2>2
  <2>5. \A p \in Pages : Covers(StageList(c, k), p) => owner'[p] = Nobody
      BY <1>4, <2>1, <2>2
  <2>6. LockedInv'
      BY <1>1, <1>2, <1>3, <2>3, <2>4, <2>5, ReleaseStep
  <2> QED
      BY <2>4, <2>6
<1> QED
    BY <1>2, <1>5, <1>6

\* pmm_free gives up pages of its caller.
LEMMA FreeReleaseStep ==
    ASSUME LockedInv, NEW c \in Contexts, FreeRelease(c)
    PROVE  /\ LockedInv'
           /\ \A p \in Pages : owner'[p] # owner[p] => owner'[p] = Nobody
<1>0. /\ pc[c] = "free_release" /\ holder' = Nobody /\ committed' = CurrentList
      /\ pc' = [pc EXCEPT ![c] = "idle"] /\ loc' = [loc EXCEPT ![c] = NoLocals]
      /\ UNCHANGED <<index, mem, head>>
      /\ owner' = [p \in Pages |->
                      IF p \in Chunk(loc[c].ptr, loc[c].size) THEN Nobody ELSE owner[p]]
    BY DEF FreeRelease, Lock!Release
<1>1. pc[c] \in Inside /\ pc[c] \in FreeInside \ {"free_search"} /\ pc[c] \in InFree
    BY <1>0 DEF Inside, FreeInside, InFree
<1>2. PICK k \in 1 .. Len(committed) + 1 : Found(c, k) /\ Stored(StageList(c, k))
    BY <1>1 DEF LockedInv, StageInv
<1>3. StageList(c, k) = Manager!GiveBack(k, Freed(c))
    BY <1>0 DEF StageList
<1> DEFINE chunk == Chunk(loc[c].ptr, loc[c].size)
<1>4. /\ \A p \in Pages : Covers(Manager!GiveBack(k, Freed(c)), p) => Covers(Linked(c, k), p)
      /\ \A p \in Pages : Covers(Linked(c, k), p) => Covers(committed, p) \/ p \in chunk
    BY <1>1, <1>2, GivenBack, LinkedList
<1>5. \A p \in chunk : owner[p] = c
    BY <1>1, FreedPages
<1>6. owner \in [Pages -> Contexts \cup {Nobody}]
      /\ \A p \in Pages : Covers(committed, p) => owner[p] = Nobody
    BY Typing
<1>7. owner' = [p \in Pages |-> IF p \in chunk THEN Nobody ELSE owner[p]]
    BY <1>0
<1> HIDE DEF chunk
<1>8. /\ owner' \in [Pages -> Contexts \cup {Nobody}]
      /\ \A p \in Pages : owner[p] \notin {Nobody, c} => owner'[p] = owner[p]
      /\ \A p \in Pages : owner'[p] # owner[p] => owner'[p] = Nobody
    BY <1>5, <1>6, <1>7
<1>9. \A p \in Pages : Covers(StageList(c, k), p) => owner'[p] = Nobody
    BY <1>3, <1>4, <1>6, <1>7
<1>10. LockedInv'
    BY <1>0, <1>1, <1>2, <1>8, <1>9, ReleaseStep
<1> QED
    BY <1>8, <1>10

-----------------------------------------------------------------------------
(* Boot. *)

\* Linking at the head is the same as inserting at the first place.
LEMMA InsertFirst ==
    ASSUME NEW S, NEW list \in Seq(S), NEW e \in S
    PROVE  Manager!InsertAt(list, 1, e) = <<e>> \o list
<1> DEFINE new == Manager!InsertAt(list, 1, e)
           one == <<e>>
           cat == one \o list
<1>1. Len(list) \in Nat /\ 1 \in 1 .. Len(list) + 1
    BY LenProperties
<1>2. /\ new \in Seq(S) /\ Len(new) = Len(list) + 1
      /\ \A i \in 1 .. Len(list) + 1 :
            new[i] = IF i < 1 THEN list[i] ELSE IF i = 1 THEN e ELSE list[i - 1]
    BY <1>1, InsertAtIndex
<1>3. one \in Seq(S) /\ Len(one) = 1 /\ one[1] = e
    OBVIOUS
<1> HIDE DEF new, one
<1>4. /\ cat \in Seq(S) /\ Len(cat) = Len(one) + Len(list)
      /\ \A i \in 1 .. Len(one) + Len(list) :
            cat[i] = IF i <= Len(one) THEN one[i] ELSE list[i - Len(one)]
    BY <1>3, ConcatProperties
<1> HIDE DEF cat
<1>5. Len(new) = Len(cat)
    BY <1>1, <1>2, <1>3, <1>4
<1>6. ASSUME NEW i \in 1 .. Len(new) PROVE new[i] = cat[i]
  <2>1. i \in 1 .. Len(list) + 1 /\ i \in 1 .. Len(one) + Len(list) /\ i \in Nat /\ ~(i < 1)
      BY <1>1, <1>2, <1>3
  <2>2. new[i] = IF i = 1 THEN e ELSE list[i - 1]
      BY <1>2, <2>1
  <2>3. cat[i] = IF i <= 1 THEN one[i] ELSE list[i - 1]
      BY <1>3, <1>4, <2>1
  <2> QED
      BY <1>3, <2>1, <2>2, <2>3
<1>7. new = cat
    BY <1>2, <1>4, <1>5, <1>6, SeqEqual
<1> QED
    BY <1>7 DEF new, cat, one

\* An entry of the memory map, in the terms the arithmetic needs.
LEMMA MapEntryFacts ==
    ASSUME NEW i \in 1 .. Len(MemoryMap)
    PROVE  /\ MemoryMap[i].ptr \in Pages /\ MemoryMap[i].ptr \in Nat /\ MemoryMap[i].size \in Nat
           /\ End(MemoryMap[i]) = MemoryMap[i].ptr + MemoryMap[i].size
           /\ End(MemoryMap[i]) <= MaxPage + 1
           /\ \A j \in 1 .. Len(MemoryMap) : j < i => End(MemoryMap[j]) <= MemoryMap[i].ptr
<1>1. MemoryMap \in Seq([ptr : Pages, size : Nat, type : {"FREE", "RESERVED"}])
    BY PagesAssumption
<1>2. MemoryMap[i] \in [ptr : Pages, size : Nat, type : {"FREE", "RESERVED"}]
    BY <1>1, ElementOfSeq
<1>3. DOMAIN MemoryMap = 1 .. Len(MemoryMap)
    BY <1>1
<1>4. MemoryMap[i].ptr \in Pages /\ MemoryMap[i].ptr \in Nat /\ MemoryMap[i].size \in Nat
    BY <1>2, PagesAssumption DEF Pages
<1>5. End(MemoryMap[i]) <= MaxPage + 1
    BY <1>3, PagesAssumption DEF End
<1>6. \A j \in 1 .. Len(MemoryMap) : j < i => End(MemoryMap[j]) <= MemoryMap[i].ptr
    BY <1>3, PagesAssumption DEF End
<1> QED
    BY <1>4, <1>5, <1>6 DEF End

\* One turn of the loop of pmm_init preserves the invariant.
LEMMA InitEntryStep ==
    ASSUME LockedInv, InitEntry
    PROVE  LockedInv'
<1> DEFINE entry == MemoryMap[index]
           node == [ptr |-> entry.ptr, size |-> entry.size]
           taken == entry.type = "FREE" /\ entry.size # 0
<1>1. /\ index > 0 /\ index' = index - 1
      /\ IF taken
         THEN /\ mem' = [mem EXCEPT ![entry.ptr] =
                            [next |-> head, ptr |-> node.ptr, size |-> node.size]]
              /\ head' = entry.ptr
              /\ committed' = <<node>> \o committed
         ELSE UNCHANGED <<mem, head, committed>>
      /\ UNCHANGED <<holder, owner, pc, loc, ret>>
    BY DEF InitEntry
<1>2. /\ index \in 1 .. Len(MemoryMap) /\ index' \in 0 .. Len(MemoryMap) /\ index \in Nat
      /\ 1 .. index' \subseteq 1 .. Len(MemoryMap)
      /\ \A j \in 1 .. index' : j < index /\ j \in 1 .. index
  <2>1. index \in 0 .. Len(MemoryMap) /\ Len(MemoryMap) \in Nat
      BY LenProperties, PagesAssumption DEF LockedInv, TypeOK
  <2> QED
      BY <1>1, <2>1
<1>3. /\ pc = [c \in Contexts |-> "idle"]
      /\ owner = [p \in Pages |-> Nobody]
      /\ ret = NoCall
      /\ \A i \in 1 .. Len(committed), j \in 1 .. index :
            End(MemoryMap[j]) <= committed[i].ptr
    BY <1>1 DEF LockedInv, BootInv
<1>4. /\ entry.ptr \in Pages /\ entry.ptr \in Nat /\ entry.size \in Nat
      /\ End(entry) = entry.ptr + entry.size /\ End(entry) <= MaxPage + 1
      /\ \A j \in 1 .. Len(MemoryMap) : j < index => End(MemoryMap[j]) <= entry.ptr
    BY <1>2, MapEntryFacts
<1>5. /\ mem \in [Pages -> NodeType] /\ head \in {Null} \cup Pages
      /\ Sound(committed) /\ Len(committed) \in Nat
    BY Typing
<1>6. ASSUME NEW i \in 1 .. Len(committed) PROVE End(entry) <= committed[i].ptr
    BY <1>2, <1>3
<1>7. ASSUME NEW d \in Contexts PROVE (CallInv(d) /\ StageInv(d))'
  <2>1. pc[d] = "idle" /\ pc'[d] = "idle" /\ CallInv(d)
      BY <1>1, <1>3 DEF LockedInv
  <2> QED
      BY <1>1, <2>1, LabelSets DEF CallInv, StageInv
<1>8. /\ pc' \in [Contexts -> Labels] /\ loc' \in [Contexts -> Locals]
    BY <1>1, Typing
<1>9. (\A p \in Pages : Covers(committed, p) => owner[p] = Nobody)'
    BY <1>1, <1>3
<1>10. CASE ~taken
  <2>1. UNCHANGED <<mem, head, committed>>
      BY <1>1, <1>10
  <2>2. TypeOK'
      BY <1>1, <1>2, <2>1 DEF LockedInv, TypeOK
  <2>3. BootInv'
      BY <1>1, <1>2, <1>3, <2>1 DEF BootInv
  <2>4. Sound(committed)' /\ (holder = Nobody => Stored(committed))'
      BY <1>1, <1>5, <2>1 DEF LockedInv, Stored
  <2> QED
      BY <1>7, <1>8, <1>9, <2>2, <2>3, <2>4 DEF LockedInv
<1>11. CASE taken
  <2> DEFINE new == Manager!InsertAt(committed, 1, node)
  <2>1. /\ node \in Node /\ node.ptr = entry.ptr /\ node.size = entry.size
        /\ End(node) = End(entry)
    <3>1. entry.size \in Pages
        BY <1>4, <1>11, PagesAssumption DEF Pages
    <3> QED
        BY <1>4, <3>1 DEF Node, End
  <2> HIDE DEF node, entry, taken
  <2>2. committed' = new
    <3>1. committed \in Seq(Node)
        BY <1>5, SoundIndex
    <3> QED
        BY <1>1, <1>11, <2>1, <3>1, InsertFirst
  <2>3. Sound(new)
    <3>1. \A p \in Chunk(node.ptr, node.size) : ~Covers(committed, p)
      <4> SUFFICES ASSUME NEW p \in Chunk(node.ptr, node.size),
                          NEW i \in 1 .. Len(committed), committed[i].ptr <= p
                   PROVE  FALSE
          BY DEF Covers
      <4>1. End(entry) <= committed[i].ptr /\ committed[i].ptr \in Nat
          BY <1>5, <1>6, SoundIndex
      <4>2. p \in Int /\ p < End(entry)
          BY <1>4, <2>1 DEF Chunk
      <4> QED
          BY <1>4, <4>1, <4>2
    <3>2. 1 <= Len(committed) => committed[1].ptr >= node.ptr
      <4> SUFFICES ASSUME 1 <= Len(committed) PROVE committed[1].ptr >= node.ptr
          OBVIOUS
      <4>1. 1 \in 1 .. Len(committed)
          BY <1>5
      <4>2. End(entry) <= committed[1].ptr /\ committed[1].ptr \in Nat
          BY <1>5, <1>6, <4>1, SoundIndex
      <4> QED
          BY <1>4, <2>1, <4>2
    <3>3. 1 \in 1 .. Len(committed) + 1 /\ \A j \in 1 .. 1 - 1 : committed[j].ptr < node.ptr
        BY <1>5
    <3>4. End(node) <= MaxPage + 1
        BY <1>4, <2>1
    <3> QED
        BY <1>5, <2>1, <3>1, <3>2, <3>3, <3>4, InsertSound
  <2>4. /\ committed' \in Seq(Node) /\ Len(committed') = Len(committed) + 1
        /\ committed'[1] = node
        /\ \A i \in 1 .. Len(committed) + 1 : i # 1 =>
              i - 1 \in 1 .. Len(committed) /\ committed'[i] = committed[i - 1]
    <3>1. committed \in Seq(Node) /\ 1 \in 1 .. Len(committed) + 1
        BY <1>5, SoundIndex
    <3>2. /\ new \in Seq(Node) /\ Len(new) = Len(committed) + 1
          /\ \A i \in 1 .. Len(committed) + 1 :
                new[i] = IF i < 1 THEN committed[i] ELSE IF i = 1 THEN node ELSE committed[i - 1]
        BY <2>1, <3>1, InsertAtIndex
    <3> HIDE DEF new
    <3> QED
        BY <1>5, <2>2, <3>2
  <2>5. BootInv'
    <3>1. ASSUME NEW i \in 1 .. Len(committed'), NEW j \in 1 .. index'
          PROVE  End(MemoryMap[j]) <= committed'[i].ptr
      <4>1. CASE i = 1
          BY <1>2, <1>4, <2>1, <2>4, <4>1
      <4>2. CASE i # 1
          BY <1>2, <1>3, <2>4, <4>2
      <4> QED
          BY <4>1, <4>2
    <3> QED
        BY <1>1, <1>3, <3>1 DEF BootInv
  <2>6. mem' \in [Pages -> NodeType] /\ head' \in {Null} \cup Pages
    <3>1. mem' = [mem EXCEPT ![entry.ptr] = [next |-> head, ptr |-> node.ptr, size |-> node.size]]
          /\ head' = entry.ptr
        BY <1>1, <1>11
    <3>2. [next |-> head, ptr |-> node.ptr, size |-> node.size] \in NodeType
        BY <1>5, <2>1, PagesAssumption DEF NodeType, Node, Pages
    <3> QED
        BY <1>4, <1>5, <3>1, <3>2
  <2>7. TypeOK'
      BY <1>1, <1>2, <2>6 DEF LockedInv, TypeOK
  <2>8. ASSUME holder = Nobody PROVE Stored(committed)'
    <3>1. StoredIn(mem, head, committed)
        BY <2>8 DEF LockedInv, Stored
    <3> DEFINE m0 == [mem EXCEPT ![node.ptr] =
                         [next |-> mem[node.ptr].next, ptr |-> node.ptr, size |-> node.size]]
    <3>2. node.ptr \in Pages /\ mem[node.ptr] \in NodeType
        BY <1>4, <1>5, <2>1
    <3>3. /\ m0 \in [Pages -> NodeType]
          /\ m0[node.ptr] = [next |-> mem[node.ptr].next, ptr |-> node.ptr, size |-> node.size]
          /\ \A p \in Pages : p # node.ptr => m0[p] = mem[p]
      <4>1. [next |-> mem[node.ptr].next, ptr |-> node.ptr, size |-> node.size] \in NodeType
          BY <2>1, <3>2, PagesAssumption DEF NodeType, Node, Pages
      <4> QED
          BY <1>5, <3>2, <4>1
    <3> HIDE DEF m0
    <3>4. ASSUME NEW i \in 1 .. Len(committed) PROVE m0[committed[i].ptr] = mem[committed[i].ptr]
      <4>1. End(entry) <= committed[i].ptr /\ committed[i].ptr \in Pages /\ committed[i].ptr \in Nat
          BY <1>5, <1>6, SoundIndex
      <4>2. entry.size # 0
          BY <1>11 DEF taken
      <4>3. committed[i].ptr # node.ptr
          BY <1>4, <2>1, <4>1, <4>2
      <4> QED
          BY <3>3, <4>1, <4>3
    <3>5. StoredIn(m0, head, committed)
        BY <3>1, <3>4, KeepsStored
    <3>6. m0[node.ptr].ptr = node.ptr /\ m0[node.ptr].size = node.size
        BY <3>3
    <3>7. 1 \in 1 .. Len(committed) + 1
        BY <1>5
    <3>8. StoredIn(LinkedWords(m0, committed, 1, node), IF 1 = 1 THEN node.ptr ELSE head, new)
        BY <1>5, <2>1, <2>3, <3>3, <3>5, <3>6, <3>7, InsertStored
    <3>9. LinkedWords(m0, committed, 1, node) = mem'
      <4>1. head = LinkOf(committed, 1 - 1)
          BY <3>1 DEF StoredIn
      <4>2. LinkedWords(m0, committed, 1, node) = [m0 EXCEPT ![node.ptr].next = head]
          BY <4>1 DEF LinkedWords
      <4>3. [m0 EXCEPT ![node.ptr].next = head] =
                [mem EXCEPT ![node.ptr] = [next |-> head, ptr |-> node.ptr, size |-> node.size]]
        <5> DEFINE a == [m0 EXCEPT ![node.ptr].next = head]
                   b == [mem EXCEPT ![node.ptr] =
                            [next |-> head, ptr |-> node.ptr, size |-> node.size]]
        <5>1. a = [p \in Pages |-> a[p]] /\ b = [p \in Pages |-> b[p]]
            BY <1>5, <3>3
        <5>2. a[node.ptr] = b[node.ptr]
            BY <1>5, <3>2, <3>3
        <5>3. ASSUME NEW p \in Pages, p # node.ptr PROVE a[p] = b[p]
            BY <1>5, <3>2, <3>3, <5>3
        <5> HIDE DEF a, b
        <5>4. a = b
            BY <5>1, <5>2, <5>3
        <5> QED
            BY <5>4 DEF a, b
      <4> QED
          BY <1>1, <1>11, <2>1, <4>2, <4>3
    <3> QED
        BY <1>1, <1>11, <2>1, <2>2, <3>8, <3>9 DEF Stored
  <2>9. Sound(committed)' /\ (holder = Nobody => Stored(committed))'
      BY <1>1, <2>2, <2>3, <2>8
  <2> QED
      BY <1>7, <1>8, <1>9, <2>5, <2>7, <2>9 DEF LockedInv
<1> QED
    BY <1>10, <1>11

-----------------------------------------------------------------------------
(* The theorems. *)

\* The invariant holds before pmm_init starts.
LEMMA InitLocked == Init => LockedInv
<1> SUFFICES ASSUME Init PROVE LockedInv
    OBVIOUS
<1>1. MaxPage \in Nat /\ Len(MemoryMap) \in Nat
    BY LenProperties, PagesAssumption
<1>2. committed = <<>> /\ Len(committed) = 0
    BY DEF Init
<1>3. TypeOK
  <2>1. ZeroNode \in NodeType
      BY <1>1 DEF ZeroNode, NodeType, Null
  <2> QED
      BY <1>1, <2>1 DEF Init, TypeOK, Lock!Init, Null
<1>4. pc \in [Contexts -> Labels] /\ loc \in [Contexts -> Locals]
    BY LabelSets DEF Init, NoLocals, Locals, Null
<1>5. BootInv
    BY <1>2 DEF BootInv, Init
<1>6. Sound(committed)
    BY <1>2 DEF Sound
<1>7. \A p \in Pages : Covers(committed, p) => owner[p] = Nobody
    BY <1>2 DEF Covers
<1>8. Stored(committed)
    BY <1>2 DEF Stored, StoredIn, LinkOf, Init
<1>9. ASSUME NEW c \in Contexts PROVE CallInv(c) /\ StageInv(c)
  <2>1. pc[c] = "idle" /\ holder = Nobody /\ c # Nobody
      BY PagesAssumption DEF Init, Lock!Init
  <2> QED
      BY <2>1, LabelSets DEF CallInv, StageInv
<1> QED
    BY <1>3, <1>4, <1>5, <1>6, <1>7, <1>8, <1>9 DEF LockedInv

\* Every step preserves it.
LEMMA NextLocked == LockedInv /\ [Next]_vars => LockedInv'
<1> SUFFICES ASSUME LockedInv, [Next]_vars PROVE LockedInv'
    OBVIOUS
<1>1. CASE InitEntry
    BY <1>1, InitEntryStep
<1>2. ASSUME NEW c \in Contexts, NEW p \in Pages, UsePage(c, p) PROVE LockedInv'
    BY <1>2, UsePageStep
<1>3. ASSUME NEW c \in Contexts, NEW size \in 1 .. MaxRequest, CallAlloc(c, size) PROVE LockedInv'
    BY <1>3, CallAllocStep
<1>4. ASSUME NEW c \in Contexts, NEW ptr \in Pages, NEW size \in 1 .. MaxRequest,
             CallFree(c, ptr, size)
      PROVE  LockedInv'
    BY <1>4, CallFreeStep
<1>5. ASSUME NEW c \in Contexts, Step(c) PROVE LockedInv'
  <2>1. CASE AllocAcquire(c)
    <3>1. "alloc_search" \in {"alloc_search", "free_search"}
        OBVIOUS
    <3> QED
        BY <2>1, <3>1, AcquireStep DEF AllocAcquire, Lock!Acquire
  <2>2. CASE AllocSearch(c)
      BY <2>2, AllocSearchStep
  <2>3. CASE AllocTake(c)
      BY <2>3, AllocTakeStep
  <2>4. CASE AllocRelease(c)
      BY <2>4, AllocReleaseStep
  <2>5. CASE FreeAcquire(c)
    <3>1. "free_search" \in {"alloc_search", "free_search"}
        OBVIOUS
    <3> QED
        BY <2>5, <3>1, AcquireStep DEF FreeAcquire, Lock!Acquire
  <2>6. CASE FreeSearch(c)
      BY <2>6, FreeSearchStep
  <2>7. CASE FreeLink(c)
      BY <2>7, FreeLinkStep
  <2>8. CASE FreeMergePrevious(c)
      BY <2>8, FreeMergePreviousStep
  <2>9. CASE FreeMergeNext(c)
      BY <2>9, FreeMergeNextStep
  <2>10. CASE FreeRelease(c)
      BY <2>10, FreeReleaseStep
  <2> QED
      BY <1>5, <2>1, <2>2, <2>3, <2>4, <2>5, <2>6, <2>7, <2>8, <2>9, <2>10 DEF Step
<1>6. CASE UNCHANGED vars
  <2>1. UNCHANGED <<index, mem, head, holder, owner, pc, loc, committed, ret>>
      BY <1>6 DEF vars
  <2> QED
      BY <2>1 DEF LockedInv, TypeOK, BootInv, CallInv, Freed, StageInv, Found, Stored, StageList,
         Linked, Merged, Manager!Take, Manager!GiveBack
<1> QED
    BY <1>1, <1>2, <1>3, <1>4, <1>5, <1>6 DEF Next

\* The inductive invariant: at every moment memory holds the list that the stage
\* of the lock's holder calls for, and nobody else has a page of it.
THEOREM LockedInvariant == Spec => []LockedInv
    BY InitLocked, NextLocked, PTL DEF Spec

\* While the lock is free, following the links in memory gives the list that the
\* last holder left.
THEOREM ListIsIntact == Spec => []ListInv
<1>1. LockedInv => ListInv
  <2> SUFFICES ASSUME LockedInv PROVE ListInv
      OBVIOUS
  <2>1. ASSUME holder = Nobody PROVE CurrentList = committed
    <3>1. Stored(committed)
        BY <2>1 DEF LockedInv
    <3> QED
        BY <3>1, Typing, ReadsStored
  <2>2. TypeOK
      BY DEF LockedInv
  <2> QED
      BY <2>1, <2>2 DEF ListInv, ListIntact
<1> QED
    BY <1>1, LockedInvariant, PTL

\* No step takes a page from one owner and gives it to another.
LEMMA StepsKeepOwners ==
    ASSUME LockedInv, [Next]_vars
    PROVE  \A p \in Pages : owner[p] # owner'[p] => owner[p] = Nobody \/ owner'[p] = Nobody
<1>1. ASSUME NEW c \in Contexts, AllocRelease(c)
      PROVE  \A p \in Pages : owner[p] # owner'[p] => owner[p] = Nobody
    BY <1>1, AllocReleaseStep
<1>2. ASSUME NEW c \in Contexts, FreeRelease(c)
      PROVE  \A p \in Pages : owner[p] # owner'[p] => owner'[p] = Nobody
    BY <1>2, FreeReleaseStep
<1>3. CASE owner' = owner
    BY <1>3
<1> QED
    BY <1>1, <1>2, <1>3
    DEF Next, vars, Step, InitEntry, UsePage, CallAlloc, CallFree, AllocAcquire, AllocSearch,
        AllocTake, FreeAcquire, FreeSearch, FreeLink, FreeMergePrevious, FreeMergeNext

\* Two contexts are never handed the same page.
THEOREM NoPageIsStolen == Spec => NoStolenPage
<1>1. LockedInv /\ [Next]_vars =>
          [\A p \in Pages : owner[p] # owner'[p] => owner[p] = Nobody \/ owner'[p] = Nobody]_vars
    BY StepsKeepOwners
<1> QED
    BY <1>1, LockedInvariant, PTL DEF Spec, NoStolenPage

-----------------------------------------------------------------------------
(* The refinement: each step is a step of module Pmm, or none. *)

\* Rounding does nothing to whole pages.
LEMMA WholePageRounding ==
    ASSUME NEW x \in Int
    PROVE  Manager!mm_roundDownPage(x) = x /\ Manager!mm_roundUpPage(x) = x
    BY DEF Manager!mm_roundDownPage, Manager!mm_roundUpPage

\* One turn of the loop of pmm_init is one of Pmm.
LEMMA InitEntryRefines ==
    ASSUME LockedInv, InitEntry
    PROVE  Manager!InitEntry
<1> DEFINE entry == MemoryMap[index]
           node == [ptr |-> entry.ptr, size |-> entry.size]
           taken == entry.type = "FREE" /\ entry.size # 0
           start == Manager!mm_roundUpPage(entry.ptr)
           offset == (entry.ptr - start) % (MaxPage + 3)
           size == Manager!mm_roundDownPage((entry.size - (start - entry.ptr)) % (MaxPage + 3))
<1>1. /\ index > 0 /\ index' = index - 1
      /\ IF taken THEN committed' = <<node>> \o committed ELSE committed' = committed
      /\ owner' = owner /\ ret' = ret
    BY DEF InitEntry
<1>2. index \in 1 .. Len(MemoryMap)
  <2>1. index \in 0 .. Len(MemoryMap) /\ Len(MemoryMap) \in Nat
      BY LenProperties, PagesAssumption DEF LockedInv, TypeOK
  <2> QED
      BY <1>1, <2>1
<1>3. /\ entry.ptr \in Pages /\ entry.ptr \in Nat /\ entry.size \in Nat
      /\ entry.ptr + entry.size <= MaxPage + 1 /\ MaxPage \in Nat
    BY <1>2, MapEntryFacts, PagesAssumption
<1> HIDE DEF entry
<1>4. start = entry.ptr
    BY <1>3, WholePageRounding
<1>5. offset = 0
    BY <1>3, <1>4
<1>6. (entry.size - (start - entry.ptr)) % (MaxPage + 3) = entry.size
  <2>1. entry.size - (start - entry.ptr) = entry.size
      BY <1>3, <1>4
  <2>2. entry.size < MaxPage + 3
      BY <1>3
  <2>3. entry.size % (MaxPage + 3) = entry.size
      BY <1>3, <2>2
  <2> QED
      BY <2>1, <2>3
<1>7. size = entry.size
    BY <1>3, <1>6, WholePageRounding
<1>8. (entry.type = "FREE" /\ entry.size >= offset /\ size # 0) <=> taken
    BY <1>3, <1>5, <1>7
<1>9. taken => committed' = Manager!InsertAt(committed, 1, [ptr |-> start, size |-> size])
  <2> SUFFICES ASSUME taken
               PROVE  committed' = Manager!InsertAt(committed, 1, [ptr |-> start, size |-> size])
      OBVIOUS
  <2>1. node \in Node
      BY <1>3, PagesAssumption DEF Node, Pages
  <2>2. committed \in Seq(Node)
      BY Typing, SoundIndex
  <2>3. committed' = <<node>> \o committed
      BY <1>1
  <2>4. node = [ptr |-> start, size |-> size]
      BY <1>4, <1>7
  <2> HIDE DEF node, start, size, taken
  <2>5. Manager!InsertAt(committed, 1, node) = <<node>> \o committed
      BY <2>1, <2>2, InsertFirst
  <2> QED
      BY <2>3, <2>4, <2>5
<1> HIDE DEF start, offset, size, taken, node
<1>10. IF entry.type = "FREE" /\ entry.size >= offset /\ size # 0
       THEN committed' = Manager!InsertAt(committed, 1, [ptr |-> start, size |-> size])
       ELSE committed' = committed
    BY <1>1, <1>8, <1>9
<1> QED
    BY <1>1, <1>10 DEF Manager!InitEntry, entry, start, offset, size

\* The release at the end of pmm_alloc is pmm_alloc.
LEMMA AllocReleaseRefines ==
    ASSUME LockedInv, NEW c \in Contexts, AllocRelease(c)
    PROVE  Manager!Next
<1> DEFINE size == loc[c].size
           owned == {p \in Pages : owner[p] # Nobody}
<1>1. /\ pc[c] \in Inside /\ size \in 1 .. MaxRequest
    BY AllocReleaseFacts
<1>2. PICK k \in 1 .. Len(committed) + 1 :
          /\ Found(c, k) /\ Stored(StageList(c, k))
          /\ \A j \in 1 .. k - 1 : committed[j].size < size
          /\ \/ /\ k = Len(committed) + 1 /\ loc[c].ret = Null
                /\ StageList(c, k) = committed
             \/ /\ k \in 1 .. Len(committed) /\ committed[k].size >= size
                /\ loc[c].ret = End(committed[k]) - size /\ loc[c].ret # Null
                /\ StageList(c, k) = Manager!Take(k, size)
    BY AllocReleaseFacts
<1>3. /\ pc[c] = "alloc_release" /\ committed' = CurrentList
      /\ ret' = [asked |-> size, ptr |-> loc[c].ret] /\ index' = index
      /\ owner' = IF loc[c].ret = Null THEN owner
                  ELSE [p \in Pages |-> IF p \in Chunk(loc[c].ret, size) THEN c ELSE owner[p]]
    BY DEF AllocRelease
<1>4. committed' = StageList(c, k)
    BY <1>1, <1>2, <1>3, ReadsStage
<1>5. index = 0 /\ c # Nobody
    BY <1>1, HolderInside
<1>6. size \in 0 .. MaxRequest /\ size \in Int /\ Manager!mm_roundUpPage(size) = size
    BY <1>1, WholePageRounding, PagesAssumption
<1>7. DOMAIN committed = 1 .. Len(committed) /\ Len(committed) \in Nat
    BY Typing, SoundIndex
<1> HIDE DEF size, owned
<1>8. Manager!pmm_alloc(size)
  <2>1. CASE /\ k = Len(committed) + 1 /\ loc[c].ret = Null
             /\ StageList(c, k) = committed
    <3>1. \A i \in DOMAIN committed : committed[i].size < size
        BY <1>2, <1>7, <2>1
    <3>2. owner' = owner /\ committed' = committed /\ ret' = [asked |-> size, ptr |-> Null]
        BY <1>3, <1>4, <2>1
    <3> QED
        BY <1>3, <1>5, <1>6, <3>1, <3>2 DEF Manager!pmm_alloc, Manager!Null, Null
  <2>2. CASE /\ k \in 1 .. Len(committed) /\ committed[k].size >= size
             /\ loc[c].ret = End(committed[k]) - size /\ loc[c].ret # Null
             /\ StageList(c, k) = Manager!Take(k, size)
    <3> DEFINE start == End(committed[k]) - size
    <3>1. k \in DOMAIN committed /\ Manager!FirstFit(k, size)
        BY <1>2, <1>7, <2>2 DEF Manager!FirstFit
    <3>2. committed' = Manager!Take(k, size) /\ ret' = [asked |-> size, ptr |-> start]
        BY <1>3, <1>4, <2>2
    <3>3. \A p \in Chunk(start, size) : p \in Pages
        BY <1>2, <1>3, <2>2, TakenList DEF size
    <3>4. owner' = [p \in Pages |-> IF p \in Chunk(start, size) THEN c ELSE owner[p]]
        BY <1>3, <2>2
    <3>5. Manager!Chunk(start, size) = Chunk(start, size)
        BY DEF Manager!Chunk, Chunk
    <3>6. Manager!End(committed[k]) - size = start
        BY DEF Manager!End, End
    <3> HIDE DEF start
    <3>7. {p \in Pages : owner'[p] # Nobody} =
              {p \in Pages : owner[p] # Nobody} \cup Manager!Chunk(start, size)
        BY <1>5, <3>3, <3>4, <3>5
    <3> QED
        BY <1>3, <1>5, <1>6, <3>1, <3>2, <3>6, <3>7 DEF Manager!pmm_alloc
  <2> QED
      BY <1>2, <2>1, <2>2
<1>9. size \in 0 .. MaxRequest
    BY <1>6, PagesAssumption
<1>10. PICK asked \in 0 .. MaxRequest : asked = size
    BY <1>9
<1>11. Manager!pmm_alloc(asked)
    BY <1>8, <1>10 DEF Manager!pmm_alloc
<1> QED
    BY <1>11 DEF Manager!Next

\* The release at the end of pmm_free is pmm_free.
LEMMA FreeReleaseRefines ==
    ASSUME LockedInv, NEW c \in Contexts, FreeRelease(c)
    PROVE  Manager!Next
<1> DEFINE size == loc[c].size
           ptr == loc[c].ptr
<1>0. /\ pc[c] = "free_release" /\ committed' = CurrentList /\ ret' = NoCall /\ index' = index
      /\ owner' = [p \in Pages |-> IF p \in Chunk(ptr, size) THEN Nobody ELSE owner[p]]
    BY DEF FreeRelease
<1>1. pc[c] \in Inside /\ pc[c] \in FreeInside \ {"free_search"} /\ pc[c] \in InFree
    BY <1>0 DEF Inside, FreeInside, InFree
<1>2. PICK k \in 1 .. Len(committed) + 1 : Found(c, k) /\ Stored(StageList(c, k))
    BY <1>1 DEF LockedInv, StageInv
<1>3. committed' = Manager!GiveBack(k, Freed(c))
    BY <1>0, <1>1, <1>2, ReadsStage DEF StageList
<1>4. /\ \A j \in 1 .. k - 1 : committed[j].ptr < ptr
      /\ k <= Len(committed) => committed[k].ptr >= ptr
    BY <1>1, <1>2 DEF Found
<1>5. index = 0 /\ c # Nobody
    BY <1>1, HolderInside
<1>6. size \in 1 .. MaxRequest
    BY <1>1 DEF LockedInv, CallInv
<1>7. /\ ptr \in Pages /\ Chunk(ptr, size) \subseteq Pages /\ ptr \in Chunk(ptr, size)
      /\ \A p \in Chunk(ptr, size) : owner[p] = c
    BY <1>1, FreedPages
<1>8. Freed(c) = [ptr |-> ptr, size |-> size]
    BY DEF Freed
<1> HIDE DEF size, ptr
<1>9. size \in Int /\ size > 0 /\ Manager!mm_roundUpPage(size) = size
    BY <1>6, WholePageRounding, PagesAssumption
<1>10. ptr % 1 = 0
    BY <1>7, PagesAssumption DEF Pages
<1>11. Manager!Chunk(ptr, size) = Chunk(ptr, size)
    BY DEF Manager!Chunk, Chunk
<1>12. Manager!InsertionPoint(k, ptr)
    BY <1>4 DEF Manager!InsertionPoint
<1>13. {p \in Pages : owner'[p] # Nobody} =
           {p \in Pages : owner[p] # Nobody} \ Manager!Chunk(ptr, size)
    BY <1>0, <1>11
<1>14. /\ Manager!Chunk(ptr, size) \subseteq {p \in Pages : owner[p] # Nobody}
       /\ ptr \in {p \in Pages : owner[p] # Nobody}
    BY <1>5, <1>7, <1>11
<1>15. Manager!pmm_free(ptr, size)
    BY <1>0, <1>3, <1>5, <1>8, <1>9, <1>10, <1>12, <1>13, <1>14
    DEF Manager!pmm_free, Manager!NoCall, NoCall, Manager!Null, Null
<1>16. PICK q \in {p \in Pages : owner[p] # Nobody}, asked \in 1 .. MaxRequest :
           q = ptr /\ asked = size
    BY <1>6, <1>14
<1>17. Manager!pmm_free(q, asked)
    BY <1>15, <1>16 DEF Manager!pmm_free
<1> QED
    BY <1>17 DEF Manager!Next

\* The steps in between change nothing that Pmm sees.
LEMMA StepRefines ==
    ASSUME LockedInv, [Next]_vars
    PROVE  [Manager!Next]_(Manager!vars)
<1>1. CASE InitEntry
    BY <1>1, InitEntryRefines DEF Manager!Next
<1>2. ASSUME NEW c \in Contexts, AllocRelease(c) PROVE Manager!Next
    BY <1>2, AllocReleaseRefines
<1>3. ASSUME NEW c \in Contexts, FreeRelease(c) PROVE Manager!Next
    BY <1>3, FreeReleaseRefines
<1>4. CASE UNCHANGED <<index, committed, owner, ret>>
    BY <1>4 DEF Manager!vars
<1> QED
    BY <1>1, <1>2, <1>3, <1>4
    DEF Next, vars, Step, UsePage, CallAlloc, CallFree, AllocAcquire, AllocSearch,
        AllocTake, FreeAcquire, FreeSearch, FreeLink, FreeMergePrevious, FreeMergeNext

\* Whatever the interleaving, the contexts together behave like Pmm: each call
\* takes effect at once, when it releases the lock.
THEOREM LockedImplementsPmm == Spec => ImplementsPmm
<1>1. Init => Manager!Init
    BY DEF Init, Manager!Init, Manager!NoCall, NoCall, Manager!Null, Null
<1>2. LockedInv /\ [Next]_vars => [Manager!Next]_(Manager!vars)
    BY StepRefines
<1> QED
    BY <1>1, <1>2, LockedInvariant, PTL DEF Spec, ImplementsPmm, Manager!Spec
=============================================================================
