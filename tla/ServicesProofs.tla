--------------------------- MODULE ServicesProofs ---------------------------
(***************************************************************************)
(* For any number of blocks, lines, handlers and file systems: the lists   *)
(* of irq.c and vfs.c hold what has been added to them, whatever is in     *)
(* progress when an interrupt comes, and no block of the heap is lost or   *)
(* used twice.                                                             *)
(***************************************************************************)
EXTENDS Services, SequenceTheorems, FiniteSetTheorems, WellFoundedInduction, TLAPS

-----------------------------------------------------------------------------
(* Induction over numbers, in a form without operator parameters. *)

\* A set of numbers that is not empty has a least element.
LEMMA LeastNumber ==
    ASSUME NEW T, T \subseteq Nat, T # {}
    PROVE  \E x \in T : \A y \in T : x <= y
<1> DEFINE R == OpToRel(<, Nat)
<1>1. IsWellFoundedOn(R, Nat)
    BY NatLessThanWellFounded, Zenon
<1>2. \A x, y \in Nat : <<y, x>> \in R <=> y < x
    BY DEF OpToRel
<1> HIDE DEF R
<1>3. PICK x \in T : \A y \in T : ~(<<y, x>> \in R)
    BY <1>1, WFMin
<1>4. ASSUME NEW y \in T PROVE x <= y
  <2>1. x \in Nat /\ y \in Nat
      OBVIOUS
  <2>2. ~(y < x)
      BY <1>2, <1>3, <2>1
  <2> QED
      BY <2>1, <2>2
<1> QED
    BY <1>4

\* A set that contains 0, and with a number the next one, contains all numbers.
LEMMA NumberInduction ==
    ASSUME NEW S, 0 \in S, \A n \in Nat : n \in S => n + 1 \in S
    PROVE  Nat \subseteq S
<1> DEFINE T == Nat \ S
<1> SUFFICES ASSUME T # {} PROVE FALSE
    OBVIOUS
<1>1. PICK x \in T : \A y \in T : x <= y
  <2>1. T \subseteq Nat
      OBVIOUS
  <2> HIDE DEF T
  <2> QED
      BY <2>1, LeastNumber
<1>2. x \in Nat /\ x # 0
    OBVIOUS
<1>3. x - 1 \in Nat /\ x - 1 \in S
    BY <1>1, <1>2
<1>4. (x - 1) + 1 \in S
    BY <1>3
<1> QED
    BY <1>2, <1>4

\* The values of g up to N come from the first one by one step after the other.
Iterates(g, V, v0, step, N) ==
    /\ g \in [0 .. N -> V] /\ g[0] = v0
    /\ \A k \in 1 .. N : g[k] = step[g[k - 1]]

\* A value for 0 and a step from each value to the next define a function on the
\* numbers up to N.
LEMMA RecursiveFunction ==
    ASSUME NEW V, NEW v0 \in V, NEW step \in [V -> V], NEW N \in Nat
    PROVE  \E g : Iterates(g, V, v0, step, N)
<1> DEFINE Def(n, g) == Iterates(g, V, v0, step, n)
           S == {n \in Nat : \E g : Def(n, g)}
<1> USE DEF Iterates
<1>1. 0 \in S
  <2>1. Def(0, [k \in 0 .. 0 |-> v0])
      OBVIOUS
  <2> QED
      BY <2>1
<1>2. ASSUME NEW n \in Nat, n \in S PROVE n + 1 \in S
  <2>1. PICK g : Def(n, g)
      BY <1>2
  <2> DEFINE h == [k \in 0 .. n + 1 |-> IF k <= n THEN g[k] ELSE step[g[n]]]
  <2>2. g[n] \in V
      BY <2>1
  <2>3. h \in [0 .. n + 1 -> V]
      BY <2>1, <2>2
  <2>4. h[0] = v0
      BY <2>1
  <2>5. ASSUME NEW k \in 1 .. n + 1 PROVE h[k] = step[h[k - 1]]
    <3>1. h[k - 1] = g[k - 1]
        OBVIOUS
    <3>2. CASE k <= n
        BY <2>1, <3>1, <3>2
    <3>3. CASE k = n + 1
        BY <3>1, <3>3
    <3> QED
        BY <3>2, <3>3
  <2> HIDE DEF h
  <2>6. Def(n + 1, h)
      BY <2>3, <2>4, <2>5
  <2> QED
      BY <2>6
<1> HIDE DEF S
<1>3. Nat \subseteq S
    BY <1>1, <1>2, NumberInduction
<1>4. N \in S
    BY <1>3
<1>5. PICK g : Def(N, g)
    BY <1>4 DEF S
<1> QED
    BY <1>5
-----------------------------------------------------------------------------
(* The list that is read from memory. *)

\* What Walk computes, link by link.
LEMMA WalkStep ==
    ASSUME mem \in [Cells -> Blocks]
    PROVE  /\ Cardinality(Cells) \in Nat
           /\ \A n \in 0 .. Cardinality(Cells) : Walk[n][Null] = <<>>
           /\ \A n \in 1 .. Cardinality(Cells), c \in Cells :
                mem[c].kind = "node" => Walk[n][c] = <<c>> \o Walk[n - 1][mem[c].next]
<1> DEFINE N == Cardinality(Cells)
           D == Cells \cup {Null}
           V == [D -> Seq(Cells)]
           v0 == [c \in D |-> <<>>]
           Longer(f) ==
               [c \in D |->
                   IF c = Null \/ mem[c].kind # "node" THEN <<>> ELSE <<c>> \o f[mem[c].next]]
           step == [f \in V |-> Longer(f)]
           Eq(g) ==
               g = [n \in 0 .. N |->
                       [c \in D |->
                           IF n = 0 \/ c = Null \/ mem[c].kind # "node"
                           THEN <<>>
                           ELSE <<c>> \o g[n - 1][mem[c].next]]]
<1>0. N \in Nat
    BY CellAssumption, FS_CardinalityType
<1>1. v0 \in V
    OBVIOUS
<1>2. ASSUME NEW f \in V PROVE Longer(f) \in V
  <2>0. <<>> \in Seq(Cells)
      OBVIOUS
  <2>1. ASSUME NEW c \in D, c # Null PROVE <<c>> \o f[mem[c].next] \in Seq(Cells)
    <3>1. c \in Cells /\ mem[c] \in Blocks
        BY <2>1
    <3>2. mem[c].next \in D
        BY <3>1 DEF Blocks
    <3>3. f[mem[c].next] \in Seq(Cells)
        BY <3>2
    <3> QED
        BY <3>1, <3>3
  <2> QED
      BY <2>0, <2>1, Zenon
<1>3. step \in [V -> V]
    BY <1>2
<1>4. PICK g \in [0 .. N -> V] :
          g[0] = v0 /\ \A k \in 1 .. N : g[k] = step[g[k - 1]]
  <2> HIDE DEF V, v0, step, N
  <2>1. \E g : Iterates(g, V, v0, step, N)
      BY <1>0, <1>1, <1>3, RecursiveFunction
  <2> QED
      BY <2>1, Zenon DEF Iterates
<1> HIDE DEF N
<1>5. Eq(g)
  <2> DEFINE G(n) ==
                 [c \in D |->
                     IF n = 0 \/ c = Null \/ mem[c].kind # "node"
                     THEN <<>>
                     ELSE <<c>> \o g[n - 1][mem[c].next]]
  <2>1. g[0] = G(0)
      BY <1>4
  <2>2. ASSUME NEW n \in 1 .. N PROVE g[n] = G(n)
    <3>1. g[n - 1] \in V
      <4>1. n - 1 \in 0 .. N
          BY <1>0
      <4> HIDE DEF V
      <4> QED
          BY <1>4, <4>1
    <3>2. g[n] = Longer(g[n - 1])
        BY <1>4, <3>1
    <3>3. Longer(g[n - 1]) = G(n)
        BY <1>0
    <3> QED
        BY <3>2, <3>3
  <2>3. ASSUME NEW n \in 0 .. N PROVE g[n] = G(n)
    <3>1. n = 0 \/ n \in 1 .. N
        BY <1>0
    <3> HIDE DEF G
    <3> QED
        BY <2>1, <2>2, <3>1
  <2> HIDE DEF V
  <2>4. g = [n \in 0 .. N |-> g[n]]
      BY <1>4
  <2>5. g = [n \in 0 .. N |-> G(n)]
    <3> HIDE DEF G
    <3> QED
        BY <2>3, <2>4
  <2> QED
      BY <2>5
<1>6. Walk = CHOOSE h : Eq(h)
    BY DEF Walk, N
<1> HIDE DEF Eq
<1>7. Eq(Walk)
    BY <1>5, <1>6
<1> HIDE DEF V, D
<1>8. ASSUME NEW n \in 0 .. N, NEW c \in Cells \cup {Null}
      PROVE  Walk[n][c] = IF n = 0 \/ c = Null \/ mem[c].kind # "node" THEN <<>>
                          ELSE <<c>> \o Walk[n - 1][mem[c].next]
  <2> DEFINE W(i) ==
                 [q \in Cells \cup {Null} |->
                     IF i = 0 \/ q = Null \/ mem[q].kind # "node"
                     THEN <<>>
                     ELSE <<q>> \o Walk[i - 1][mem[q].next]]
  <2>1. Walk = [i \in 0 .. N |-> W(i)]
      BY <1>7, Zenon DEF Eq, D
  <2>2. Walk[n] = W(n)
    <3> HIDE DEF W
    <3> QED
        BY <2>1
  <2> QED
      BY <2>2
<1>9. ASSUME NEW n \in 1 .. N, NEW c \in Cells, mem[c].kind = "node"
      PROVE  Walk[n][c] = <<c>> \o Walk[n - 1][mem[c].next]
  <2>1. n \in 0 .. N /\ n # 0 /\ c # Null
      BY <1>0, CellAssumption
  <2> QED
      BY <1>8, <1>9, <2>1
<1> QED
    BY <1>0, <1>8, <1>9 DEF N

\* Blocks that are all different are no more than there are.
LEMMA ChainBound ==
    ASSUME NEW seq \in Seq(Cells), \A k, l \in 1 .. Len(seq) : seq[k] = seq[l] => k = l
    PROVE  Len(seq) <= Cardinality(Cells)
<1>1. Len(seq) \in Nat /\ Cardinality(Cells) \in Nat
    BY CellAssumption, FS_CardinalityType
<1>2. IsFiniteSet(1 .. Len(seq)) /\ Cardinality(1 .. Len(seq)) = Len(seq)
  <2>1. /\ IsFiniteSet(1 .. Len(seq))
        /\ Cardinality(1 .. Len(seq)) = IF 1 > Len(seq) THEN 0 ELSE Len(seq) - 1 + 1
    <3>1. 1 \in Int /\ Len(seq) \in Int
        BY <1>1
    <3> QED
        BY <3>1, FS_Interval, Zenon
  <2> QED
      BY <1>1, <2>1
<1>3. seq \in [1 .. Len(seq) -> Cells]
    OBVIOUS
<1> SUFFICES ASSUME Cardinality(Cells) < Len(seq) PROVE FALSE
    BY <1>1
<1>4. \E k, l \in 1 .. Len(seq) : k # l /\ seq[k] = seq[l]
    BY <1>2, <1>3, CellAssumption, FS_PigeonHole
<1> QED
    BY <1>4

\* Following the links of a list from any of its places gives the rest of it.
LEMMA ReadsChain ==
    ASSUME mem \in [Cells -> Blocks], NEW head, NEW seq \in Seq(Cells), IsChain(head, seq),
           \A k, l \in 1 .. Len(seq) : seq[k] = seq[l] => k = l
    PROVE  \A k \in 1 .. Len(seq) + 1 : Chain(LinkTo(seq, k)) = SubSeq(seq, k, Len(seq))
<1> DEFINE N == Cardinality(Cells)
           L == Len(seq)
           Rest(k) == SubSeq(seq, k, L)
           S == {n \in Nat : n <= N =>
                    \A k \in 1 .. L + 1 : L + 1 - k <= n => Walk[n][LinkTo(seq, k)] = Rest(k)}
<1>1. /\ N \in Nat
      /\ \A n \in 0 .. N : Walk[n][Null] = <<>>
      /\ \A n \in 1 .. N, c \in Cells :
            mem[c].kind = "node" => Walk[n][c] = <<c>> \o Walk[n - 1][mem[c].next]
    BY WalkStep
<1>2. L \in Nat /\ L <= N
    BY ChainBound
<1>3. Rest(L + 1) = <<>> /\ LinkTo(seq, L + 1) = Null
    BY <1>2 DEF LinkTo
<1>4. ASSUME NEW k \in 1 .. L PROVE Rest(k) = <<seq[k]>> \o Rest(k + 1)
    BY <1>2, <1>4
<1>5. \A k \in 1 .. L : /\ LinkTo(seq, k) = seq[k] /\ seq[k] \in Cells
                        /\ mem[seq[k]].kind = "node" /\ mem[seq[k]].next = LinkTo(seq, k + 1)
    BY <1>2 DEF LinkTo, IsChain
<1> HIDE DEF Rest, L, N
<1>6. ASSUME NEW n \in 0 .. N PROVE Walk[n][LinkTo(seq, L + 1)] = Rest(L + 1)
    BY <1>1, <1>3
<1>7. 0 \in S
  <2>1. ASSUME NEW k \in 1 .. L + 1, L + 1 - k <= 0 PROVE k = L + 1
      BY <1>2, <2>1
  <2> QED
      BY <1>1, <1>6, <2>1
<1>8. ASSUME NEW n \in Nat, n \in S PROVE n + 1 \in S
  <2> SUFFICES ASSUME n + 1 <= N, NEW k \in 1 .. L + 1, L + 1 - k <= n + 1
               PROVE  Walk[n + 1][LinkTo(seq, k)] = Rest(k)
      OBVIOUS
  <2>1. CASE k = L + 1
      BY <1>1, <1>6, <2>1
  <2>2. CASE k \in 1 .. L
    <3>1. k + 1 \in 1 .. L + 1 /\ L + 1 - (k + 1) <= n /\ n <= N
        BY <1>1, <1>2, <2>2
    <3>2. Walk[n][LinkTo(seq, k + 1)] = Rest(k + 1)
        BY <1>8, <3>1
    <3>3. n + 1 \in 1 .. N /\ (n + 1) - 1 = n
        BY <1>1
    <3>4. Walk[n + 1][seq[k]] = <<seq[k]>> \o Walk[n][LinkTo(seq, k + 1)]
      <4>1. Walk[n + 1][seq[k]] = <<seq[k]>> \o Walk[(n + 1) - 1][mem[seq[k]].next]
          BY <1>1, <1>5, <2>2, <3>3, Zenon
      <4> QED
          BY <1>5, <2>2, <3>3, <4>1
    <3> QED
        BY <1>4, <1>5, <2>2, <3>2, <3>4
  <2> QED
      BY <1>2, <2>1, <2>2
<1> HIDE DEF S
<1>9. Nat \subseteq S
    BY <1>7, <1>8, NumberInduction
<1>10. N \in S
    BY <1>1, <1>9
<1>11. \A k \in 1 .. L + 1 : Walk[N][LinkTo(seq, k)] = Rest(k)
    BY <1>1, <1>2, <1>10 DEF S
<1> QED
    BY <1>11 DEF Chain, N, L, Rest

-----------------------------------------------------------------------------
(* What a step leaves alone. *)

\* The nodes and the blocks of the handlers in the lists.
LEMMA ChainCells ==
    ASSUME NEW chains \in [Lines -> Seq(Cells)], HandlersInv(chains)
    PROVE  \A i \in Lines :
              /\ chains[i] \in Seq(Cells) /\ Len(chains[i]) \in Nat
              /\ \A k \in 1 .. Len(chains[i]) :
                    /\ chains[i][k] \in Cells /\ mem[chains[i][k]].kind = "node"
                    /\ mem[chains[i][k]].data \in Cells
                    /\ mem[mem[chains[i][k]].data].kind = "handler"
<1> SUFFICES ASSUME NEW i \in Lines
             PROVE  /\ chains[i] \in Seq(Cells) /\ Len(chains[i]) \in Nat
                    /\ \A k \in 1 .. Len(chains[i]) :
                          /\ chains[i][k] \in Cells /\ mem[chains[i][k]].kind = "node"
                          /\ mem[chains[i][k]].data \in Cells
                          /\ mem[mem[chains[i][k]].data].kind = "handler"
    OBVIOUS
<1>1. chains[i] \in Seq(Cells) /\ Len(chains[i]) \in Nat
    OBVIOUS
<1>2. ASSUME NEW k \in 1 .. Len(chains[i])
      PROVE  /\ chains[i][k] \in Cells /\ mem[chains[i][k]].kind = "node"
             /\ mem[chains[i][k]].data \in Cells
             /\ mem[mem[chains[i][k]].data].kind = "handler"
  <2>1. chains[i][k] \in Cells
      BY <1>1
  <2>2. mem[chains[i][k]].kind = "node"
      BY DEF HandlersInv, IsChain
  <2>3. /\ mem[chains[i][k]].data \in Cells
        /\ mem[mem[chains[i][k]].data] = Handler(registered[i][k])
      BY DEF HandlersInv
  <2> QED
      BY <2>1, <2>2, <2>3 DEF Handler
<1> QED
    BY <1>1, <1>2

\* The lists of handlers stay as they are when their blocks do.
LEMMA HandlersFrame ==
    ASSUME NEW chains \in [Lines -> Seq(Cells)], HandlersInv(chains),
           s_handlerList' = s_handlerList, registered' = registered,
           \A i \in Lines : \A k \in 1 .. Len(chains[i]) :
               /\ mem'[chains[i][k]] = mem[chains[i][k]]
               /\ mem'[mem[chains[i][k]].data] = mem[mem[chains[i][k]].data]
    PROVE  /\ HandlersInv(chains)'
           /\ \A c : LooseHandler(chains, c) /\ mem'[c] = mem[c] => LooseHandler(chains, c)'
<1>1. ASSUME NEW i \in Lines
      PROVE  /\ IsChain(s_handlerList[i], chains[i])'
             /\ registered'[i] \in Seq(Handlers) /\ Len(registered'[i]) = Len(chains[i])
             /\ \A k \in 1 .. Len(chains[i]) :
                    /\ mem'[chains[i][k]].data \in Cells
                    /\ mem'[mem'[chains[i][k]].data] = Handler(registered'[i][k])
  <2>1. /\ IsChain(s_handlerList[i], chains[i])
        /\ registered[i] \in Seq(Handlers) /\ Len(registered[i]) = Len(chains[i])
      BY DEF HandlersInv
  <2>2. IsChain(s_handlerList[i], chains[i])'
      BY <2>1 DEF IsChain
  <2>3. ASSUME NEW k \in 1 .. Len(chains[i])
        PROVE  /\ mem'[chains[i][k]].data \in Cells
               /\ mem'[mem'[chains[i][k]].data] = Handler(registered'[i][k])
    <3>1. /\ mem[chains[i][k]].data \in Cells
          /\ mem[mem[chains[i][k]].data] = Handler(registered[i][k])
        BY DEF HandlersInv
    <3> QED
        BY <3>1
  <2> QED
      BY <2>1, <2>2, <2>3
<1>2. \A i, j \in Lines : \A k \in 1 .. Len(chains[i]), l \in 1 .. Len(chains[j]) :
          \/ chains[i][k] = chains[j][l]
          \/ mem'[chains[i][k]].data = mem'[chains[j][l]].data
          => i = j /\ k = l
    BY DEF HandlersInv
<1> QED
    BY <1>1, <1>2 DEF HandlersInv, LooseHandler

\* So does the list of file systems.
LEMMA FilesFrame ==
    ASSUME NEW files \in Seq(Cells), FilesInv(files),
           s_fileSystemList' = s_fileSystemList, fsAdded' = fsAdded,
           \A k \in 1 .. Len(files) : mem'[files[k]] = mem[files[k]]
    PROVE  FilesInv(files)'
BY DEF FilesInv, IsChain

\* And the root.
LEMMA RootFrame ==
    ASSUME RootInv, s_rootNode' = s_rootNode, mounting' = mounting,
           \A v \in {s_rootNode, mounting.l_target} \ {Null} :
               mem'[v] = mem[v] /\ mem'[mem[v].data] = mem[mem[v].data]
    PROVE  RootInv'
<1>1. ASSUME NEW v \in {s_rootNode, mounting.l_target} \ {Null} PROVE IsRoot(v)'
  <2>1. IsRoot(v)
      BY DEF RootInv
  <2>2. mem'[v] = mem[v] /\ mem'[mem[v].data] = mem[mem[v].data]
      OBVIOUS
  <2> QED
      BY <2>1, <2>2 DEF IsRoot
<1>2. /\ mounting' \in [l_target : Cells \cup {Null}, p_target : Cells \cup {Null}]
      /\ mounting'.l_target = Null => mounting' = NotMounting
      /\ mounting' # NotMounting => /\ mounting'.p_target = s_rootNode'
                                    /\ s_rootNode' # Null => mounting'.l_target = s_rootNode'
    BY DEF RootInv
<1> QED
    BY <1>1, <1>2 DEF RootInv

\* The blocks that are not yet in use, or not yet written.
LEMMA NewBlocks ==
    ASSUME NEW chains \in [Lines -> Seq(Cells)], NEW files \in Seq(Cells),
           ServicesShape(chains, files), ~broken,
           \A c \in Cells : mem[c].kind \notin {"free", "raw"} => mem'[c] = mem[c]
    PROVE  /\ \A i \in Lines : \A k \in 1 .. Len(chains[i]) :
               /\ mem'[chains[i][k]] = mem[chains[i][k]]
               /\ mem'[mem[chains[i][k]].data] = mem[mem[chains[i][k]].data]
           /\ \A k \in 1 .. Len(files) : mem'[files[k]] = mem[files[k]]
           /\ \A v \in {s_rootNode, mounting.l_target} \ {Null} :
               mem'[v] = mem[v] /\ mem'[mem[v].data] = mem[mem[v].data]
           /\ \A c : LooseHandler(chains, c) => mem'[c] = mem[c]
<1>1. HandlersInv(chains) /\ FilesInv(files) /\ RootInv
    BY DEF ServicesShape, IntactInv
<1>2. ASSUME NEW i \in Lines, NEW k \in 1 .. Len(chains[i])
      PROVE  /\ mem'[chains[i][k]] = mem[chains[i][k]]
             /\ mem'[mem[chains[i][k]].data] = mem[mem[chains[i][k]].data]
    BY <1>1, ChainCells
<1>3. ASSUME NEW k \in 1 .. Len(files) PROVE mem'[files[k]] = mem[files[k]]
  <2>1. files[k] \in Cells /\ mem[files[k]].kind = "node"
      BY <1>1 DEF FilesInv, IsChain
  <2> QED
      BY <2>1
<1>4. ASSUME NEW v \in {s_rootNode, mounting.l_target} \ {Null}
      PROVE  mem'[v] = mem[v] /\ mem'[mem[v].data] = mem[mem[v].data]
  <2>1. IsRoot(v)
      BY <1>1 DEF RootInv
  <2>2. v \in Cells /\ mem[v].data \in Cells /\ mem[v] = Vnode(mem[v].data)
        /\ mem[mem[v].data] = Tree(v)
      BY <2>1 DEF IsRoot
  <2>3. mem[v].kind = "vnode"
      BY <2>2 DEF Vnode
  <2>4. mem[mem[v].data].kind = "tree"
      BY <2>2 DEF Tree
  <2> QED
      BY <2>2, <2>3, <2>4
<1>5. ASSUME NEW c, LooseHandler(chains, c) PROVE mem'[c] = mem[c]
    BY <1>5 DEF LooseHandler
<1> QED
    BY <1>2, <1>3, <1>4, <1>5

\* A block stays in its place when the lists, the root and the files do.
LEMMA PlaceFrame ==
    ASSUME NEW chains, NEW files, NEW c, InUse(chains, files, c),
           s_rootNode' = s_rootNode, mounting' = mounting,
           \A i \in Lines : \A k \in 1 .. Len(chains[i]) :
               mem'[chains[i][k]] = mem[chains[i][k]],
           \A v \in {s_rootNode, mounting.l_target} \ {Null} : mem'[v] = mem[v],
           orphans \subseteq orphans', c \in InCall => c \in InCall'
    PROVE  InUse(chains, files, c)'
<1>1. CASE \E i \in Lines : \E k \in 1 .. Len(chains[i]) :
               c = chains[i][k] \/ c = mem[chains[i][k]].data
    BY <1>1 DEF InUse
<1>2. CASE c \in InCall \/ c \in orphans
    BY <1>2 DEF InUse
<1>3. CASE \E v \in {s_rootNode, mounting.l_target} \ {Null} : c = v \/ c = mem[v].data
  <2>1. PICK v \in {s_rootNode, mounting.l_target} \ {Null} : c = v \/ c = mem[v].data
      BY <1>3
  <2>2. v \in {s_rootNode', mounting'.l_target} \ {Null} /\ (c = v \/ c = mem'[v].data)
      BY <2>1
  <2> QED
      BY <2>2 DEF InUse
<1>4. CASE \E k \in 1 .. Len(files) : c = files[k]
    BY <1>4 DEF InUse
<1> QED
    BY <1>1, <1>2, <1>3, <1>4 DEF InUse

-----------------------------------------------------------------------------
(* irq_addHandler. *)

\* Writing blocks that were free, or not yet written, leaves the lists, the root and
\* the handlers that are in no list as they are.
LEMMA NewBlocksKeep ==
    ASSUME NEW chains \in [Lines -> Seq(Cells)], NEW files \in Seq(Cells),
           ServicesShape(chains, files), ~broken,
           \A c \in Cells : mem[c].kind \notin {"free", "raw"} => mem'[c] = mem[c],
           s_handlerList' = s_handlerList, registered' = registered
    PROVE  /\ HandlersInv(chains)'
           /\ \A c : LooseHandler(chains, c) => LooseHandler(chains, c)' /\ mem'[c] = mem[c]
           /\ s_fileSystemList' = s_fileSystemList /\ fsAdded' = fsAdded => FilesInv(files)'
           /\ s_rootNode' = s_rootNode /\ mounting' = mounting => RootInv'
           /\ \A c : /\ InUse(chains, files, c) /\ s_rootNode' = s_rootNode /\ mounting' = mounting
                     /\ orphans \subseteq orphans' /\ (c \in InCall => c \in InCall')
                     => InUse(chains, files, c)'
<1>1. /\ \A i \in Lines : \A k \in 1 .. Len(chains[i]) :
           /\ mem'[chains[i][k]] = mem[chains[i][k]]
           /\ mem'[mem[chains[i][k]].data] = mem[mem[chains[i][k]].data]
      /\ \A k \in 1 .. Len(files) : mem'[files[k]] = mem[files[k]]
      /\ \A v \in {s_rootNode, mounting.l_target} \ {Null} :
           mem'[v] = mem[v] /\ mem'[mem[v].data] = mem[mem[v].data]
      /\ \A c : LooseHandler(chains, c) => mem'[c] = mem[c]
    BY NewBlocks
<1>2. HandlersInv(chains) /\ FilesInv(files) /\ RootInv
    BY DEF ServicesShape, IntactInv
<1>3. /\ HandlersInv(chains)'
      /\ \A c : LooseHandler(chains, c) /\ mem'[c] = mem[c] => LooseHandler(chains, c)'
    BY <1>1, <1>2, HandlersFrame
<1>4. s_fileSystemList' = s_fileSystemList /\ fsAdded' = fsAdded => FilesInv(files)'
    BY <1>1, <1>2, FilesFrame
<1>5. s_rootNode' = s_rootNode /\ mounting' = mounting => RootInv'
    BY <1>1, <1>2, RootFrame
<1>6. ASSUME NEW c, InUse(chains, files, c), s_rootNode' = s_rootNode, mounting' = mounting,
             orphans \subseteq orphans', c \in InCall => c \in InCall'
      PROVE  InUse(chains, files, c)'
    BY <1>1, <1>6, PlaceFrame
<1> QED
    BY <1>1, <1>3, <1>4, <1>5, <1>6

\* Between two calls nothing is in progress.
LEMMA IdleAdding ==
    ASSUME NEW chains, NEW files, adding' = NotAdding
    PROVE  AddingInv(chains, files)'
BY DEF AddingInv, NotAdding

\* What malloc returns.
LEMMA MallocFacts ==
    ASSUME NEW c \in malloc, c # Null
    PROVE  c \in Cells /\ mem[c] = Free /\ mem[c].kind = "free"
BY DEF malloc, Free

\* A free block is no handler.
LEMMA AddCallStep ==
    ASSUME NEW chains \in [Lines -> Seq(Cells)], NEW files \in Seq(Cells),
           ServicesShape(chains, files), NEW irq \in Lines, NEW h \in Handlers,
           AddCall(irq, h), UNCHANGED vfsVars
    PROVE  ServicesShape(chains, files)'
<1>1. /\ ~Interrupted /\ ~broken /\ adding = NotAdding
      /\ s_handlerList' = s_handlerList /\ serving' = serving /\ registered' = registered
      /\ orphans' = orphans /\ broken' = broken
      /\ s_rootNode' = s_rootNode /\ s_fileSystemList' = s_fileSystemList
      /\ mounting' = mounting /\ fsAdded' = fsAdded
    BY DEF AddCall, vfsVars
<1>2. PICK l_handler \in malloc :
          IF l_handler = Null THEN UNCHANGED <<adding, mem>>
          ELSE /\ mem' = [mem EXCEPT ![l_handler] = Handler(h)]
               /\ adding' = [pc |-> "node", irq |-> irq, l_handler |-> l_handler, l_node |-> Null]
    BY DEF AddCall
<1>3. /\ mem \in [Cells -> Blocks] /\ IntactInv(chains, files)
      /\ s_handlerList \in [Lines -> Cells \cup {Null}] /\ DOMAIN registered = Lines
      /\ broken \in BOOLEAN
    BY <1>1 DEF ServicesShape
<1>4. CASE l_handler = Null
  <2>1. adding' = adding /\ mem' = mem
      BY <1>2, <1>4
  <2> QED
      BY <1>1, <2>1 DEF ServicesShape, IntactInv, HandlersInv, IsChain, AddingInv, LooseHandler,
         ServingInv, Interrupted, FilesApart, InUse, InCall, FilesInv, RootInv, IsRoot
<1>5. CASE l_handler # Null
  <2>1. l_handler \in Cells /\ mem[l_handler] = Free /\ mem[l_handler].kind = "free"
      BY <1>5, MallocFacts
  <2>2. /\ mem' = [mem EXCEPT ![l_handler] = Handler(h)]
        /\ adding' = [pc |-> "node", irq |-> irq, l_handler |-> l_handler, l_node |-> Null]
      BY <1>2, <1>5
  <2>3. Handler(h) \in Blocks /\ Handler(h).kind = "handler"
      BY DEF Handler, Blocks
  <2>4. /\ mem' \in [Cells -> Blocks] /\ mem'[l_handler] = Handler(h)
        /\ \A c \in Cells : c # l_handler => mem'[c] = mem[c]
      BY <1>3, <2>1, <2>2, <2>3
  <2>5. \A c \in Cells : mem[c].kind \notin {"free", "raw"} => mem'[c] = mem[c]
      BY <2>1, <2>4
  <2>6. /\ HandlersInv(chains)' /\ FilesInv(files)' /\ RootInv'
        /\ \A c : LooseHandler(chains, c) => LooseHandler(chains, c)' /\ mem'[c] = mem[c]
        /\ \A c : InUse(chains, files, c) /\ (c \in InCall => c \in InCall')
                  => InUse(chains, files, c)'
      BY <1>1, <2>5, NewBlocksKeep
  <2>7. LooseHandler(chains, l_handler)' /\ l_handler \notin orphans
    <3>1. \A i \in Lines : \A k \in 1 .. Len(chains[i]) :
             /\ chains[i][k] \in Cells /\ mem[chains[i][k]].kind = "node"
             /\ mem[mem[chains[i][k]].data].kind = "handler"
        BY <1>3, ChainCells DEF IntactInv
    <3>2. \A i \in Lines : \A k \in 1 .. Len(chains[i]) :
             mem'[chains[i][k]] = mem[chains[i][k]] /\ mem[chains[i][k]].data # l_handler
        BY <2>1, <2>5, <3>1
    <3>3. \A i \in Lines : \A k \in 1 .. Len(chains[i]) : mem'[chains[i][k]].data # l_handler
        BY <3>2
    <3>4. l_handler \notin orphans
        BY <1>3, <2>1 DEF IntactInv, LooseHandler
    <3> QED
        BY <2>1, <2>3, <2>4, <3>3, <3>4 DEF LooseHandler
  <2>8. AddingInv(chains, files)'
    <3>1. \E g \in Handlers : mem'[l_handler] = Handler(g)
        BY <2>4
    <3> QED
        BY <1>1, <2>1, <2>2, <2>7, <3>1 DEF AddingInv
  <2>9. l_handler \in InCall'
      BY <1>5, <2>2 DEF InCall
  <2>10. InCall = {}
      BY <1>1 DEF InCall, NotAdding
  <2>11. ASSUME NEW c \in Cells, mem'[c] # Free PROVE InUse(chains, files, c)'
    <3>1. CASE c = l_handler
        BY <2>9, <3>1 DEF InUse
    <3>2. CASE c # l_handler
      <4>1. InUse(chains, files, c)
          BY <1>3, <2>4, <2>11, <3>2 DEF IntactInv
      <4> QED
          BY <2>6, <2>10, <4>1
    <3> QED
        BY <3>1, <3>2
  <2>12. ServingInv(chains)'
      BY <1>1 DEF ServingInv, Interrupted
  <2>13. FilesApart(chains, files)' /\ \A c \in orphans' : LooseHandler(chains, c)'
      BY <1>1, <1>3, <2>6 DEF IntactInv, FilesApart
  <2>14. IntactInv(chains, files)'
      BY <2>6, <2>8, <2>11, <2>12, <2>13 DEF IntactInv
  <2> QED
      BY <1>1, <1>3, <2>4, <2>6, <2>14 DEF ServicesShape
<1> QED
    BY <1>4, <1>5

\* The facts that every step of irq_addHandler starts from.
LEMMA AddingFacts ==
    ASSUME NEW chains \in [Lines -> Seq(Cells)], NEW files \in Seq(Cells),
           ServicesShape(chains, files), adding.pc # "idle"
    PROVE  /\ ~broken /\ broken \in BOOLEAN /\ IntactInv(chains, files)
           /\ mem \in [Cells -> Blocks]
           /\ s_handlerList \in [Lines -> Cells \cup {Null}] /\ DOMAIN registered = Lines
           /\ adding \in [pc : {"idle", "node", "link", "publish"}, irq : Lines \cup {Null},
                          l_handler : Cells \cup {Null}, l_node : Cells \cup {Null}]
           /\ adding.irq \in Lines
           /\ adding.l_handler \in Cells /\ mem[adding.l_handler].kind = "handler"
           /\ LooseHandler(chains, adding.l_handler) /\ adding.l_handler \notin orphans
           /\ \E h \in Handlers : mem[adding.l_handler] = Handler(h)
<1>1. ~broken
    BY DEF ServicesShape, NotAdding
<1>2. IntactInv(chains, files)
    BY <1>1 DEF ServicesShape
<1>3. /\ adding \in [pc : {"idle", "node", "link", "publish"}, irq : Lines \cup {Null},
                     l_handler : Cells \cup {Null}, l_node : Cells \cup {Null}]
      /\ adding.irq \in Lines
      /\ LooseHandler(chains, adding.l_handler) /\ adding.l_handler \notin orphans
      /\ \E h \in Handlers : mem[adding.l_handler] = Handler(h)
    BY <1>2 DEF IntactInv, AddingInv
<1> QED
    BY <1>1, <1>2, <1>3 DEF ServicesShape, LooseHandler

\* A node is taken from the free blocks, or the block of the handler is given back.
LEMMA AddNodeStep ==
    ASSUME NEW chains \in [Lines -> Seq(Cells)], NEW files \in Seq(Cells),
           ServicesShape(chains, files), AddNode, UNCHANGED vfsVars
    PROVE  ServicesShape(chains, files)'
<1>1. /\ ~Interrupted /\ adding.pc = "node"
      /\ s_handlerList' = s_handlerList /\ serving' = serving /\ registered' = registered
      /\ orphans' = orphans /\ broken' = broken
      /\ s_rootNode' = s_rootNode /\ s_fileSystemList' = s_fileSystemList
      /\ mounting' = mounting /\ fsAdded' = fsAdded
    BY DEF AddNode, vfsVars
<1>0. PICK old : old = adding.l_handler
    OBVIOUS
<1>2. /\ ~broken /\ broken \in BOOLEAN /\ IntactInv(chains, files)
      /\ mem \in [Cells -> Blocks]
      /\ s_handlerList \in [Lines -> Cells \cup {Null}] /\ DOMAIN registered = Lines
      /\ adding \in [pc : {"idle", "node", "link", "publish"}, irq : Lines \cup {Null},
                     l_handler : Cells \cup {Null}, l_node : Cells \cup {Null}]
      /\ adding.irq \in Lines
      /\ old \in Cells /\ mem[old].kind = "handler"
      /\ LooseHandler(chains, old) /\ old \notin orphans
      /\ \E h \in Handlers : mem[old] = Handler(h)
    BY <1>0, <1>1, AddingFacts
<1>3. adding.l_node = Null /\ InCall = {old}
  <2>1. adding.l_node = Null
      BY <1>1, <1>2 DEF IntactInv, AddingInv
  <2> QED
      BY <1>0, <1>2, <2>1, CellAssumption DEF InCall
<1>4. PICK l_node \in malloc :
          IF l_node = Null
          THEN mem' = [mem EXCEPT ![old] = Free] /\ adding' = NotAdding
          ELSE /\ mem' = [mem EXCEPT ![l_node] = Raw]
               /\ adding' = [adding EXCEPT !.pc = "link", !.l_node = l_node]
    BY <1>0 DEF AddNode
<1>5. ServingInv(chains)' /\ FilesApart(chains, files)'
    BY <1>1, <1>2 DEF ServingInv, Interrupted, IntactInv, FilesApart
<1>6. CASE l_node = Null
  <2>1. mem' = [mem EXCEPT ![old] = Free] /\ adding' = NotAdding
      BY <1>4, <1>6
  <2>2. Free \in Blocks
      BY DEF Free, Blocks
  <2>3. /\ mem' \in [Cells -> Blocks] /\ mem'[old] = Free
        /\ \A c \in Cells : c # old => mem'[c] = mem[c]
      BY <1>2, <2>1, <2>2
  <2>4. ASSUME NEW i \in Lines, NEW k \in 1 .. Len(chains[i])
        PROVE  /\ mem'[chains[i][k]] = mem[chains[i][k]]
               /\ mem'[mem[chains[i][k]].data] = mem[mem[chains[i][k]].data]
    <3>1. /\ chains[i][k] \in Cells /\ mem[chains[i][k]].kind = "node"
          /\ mem[chains[i][k]].data \in Cells
      <4>1. HandlersInv(chains)
          BY <1>2 DEF IntactInv
      <4> QED
          BY <4>1, ChainCells
    <3>2. mem[chains[i][k]].data # old
        BY <1>2 DEF LooseHandler
    <3> QED
        BY <1>2, <2>3, <3>1, <3>2
  <2>5. ASSUME NEW k \in 1 .. Len(files) PROVE mem'[files[k]] = mem[files[k]]
    <3>1. files[k] \in Cells /\ mem[files[k]].kind = "node"
        BY DEF ServicesShape, FilesInv, IsChain
    <3> QED
        BY <1>2, <2>3, <3>1
  <2>6. ASSUME NEW v \in {s_rootNode, mounting.l_target} \ {Null}
        PROVE  mem'[v] = mem[v] /\ mem'[mem[v].data] = mem[mem[v].data]
    <3>1. IsRoot(v)
        BY DEF ServicesShape, RootInv
    <3>2. /\ v \in Cells /\ mem[v].data \in Cells
          /\ mem[v].kind = "vnode" /\ mem[mem[v].data].kind = "tree"
        BY <3>1 DEF IsRoot, Vnode, Tree
    <3> QED
        BY <1>2, <2>3, <3>2
  <2>7. /\ HandlersInv(chains)'
        /\ \A c : LooseHandler(chains, c) /\ mem'[c] = mem[c] => LooseHandler(chains, c)'
      BY <1>1, <1>2, <2>4, HandlersFrame DEF IntactInv
  <2>8. FilesInv(files)'
      BY <1>1, <2>5, FilesFrame DEF ServicesShape
  <2>9. RootInv'
      BY <1>1, <2>6, RootFrame DEF ServicesShape
  <2>10. ASSUME NEW c \in orphans' PROVE LooseHandler(chains, c)'
    <3>1. LooseHandler(chains, c) /\ c # old
        BY <1>1, <1>2, <2>10 DEF IntactInv
    <3>2. c \in Cells
        BY <3>1 DEF LooseHandler
    <3> QED
        BY <2>3, <2>7, <3>1, <3>2
  <2>11. ASSUME NEW c \in Cells, mem'[c] # Free PROVE InUse(chains, files, c)'
    <3>1. c # old /\ InUse(chains, files, c)
        BY <1>2, <2>3, <2>11 DEF IntactInv
    <3>2. c \notin InCall
        BY <1>3, <3>1
    <3> QED
        BY <1>1, <2>4, <2>6, <3>1, <3>2, PlaceFrame
  <2>12. AddingInv(chains, files)'
      BY <2>1, IdleAdding
  <2>13. IntactInv(chains, files)'
      BY <1>5, <2>7, <2>10, <2>11, <2>12 DEF IntactInv
  <2> QED
      BY <1>1, <1>2, <2>3, <2>8, <2>9, <2>13 DEF ServicesShape
<1>7. CASE l_node # Null
  <2>1. l_node \in Cells /\ mem[l_node] = Free /\ mem[l_node].kind = "free"
      BY <1>7, MallocFacts
  <2>2. /\ mem' = [mem EXCEPT ![l_node] = Raw]
        /\ adding' = [adding EXCEPT !.pc = "link", !.l_node = l_node]
      BY <1>4, <1>7
  <2>3. Raw \in Blocks /\ Raw.kind = "raw"
      BY DEF Raw, Blocks
  <2>4. /\ mem' \in [Cells -> Blocks] /\ mem'[l_node] = Raw
        /\ \A c \in Cells : c # l_node => mem'[c] = mem[c]
      BY <1>2, <2>1, <2>2, <2>3
  <2>5. \A c \in Cells : mem[c].kind \notin {"free", "raw"} => mem'[c] = mem[c]
      BY <2>1, <2>4
  <2>6. /\ HandlersInv(chains)' /\ FilesInv(files)' /\ RootInv'
        /\ \A c : LooseHandler(chains, c) => LooseHandler(chains, c)' /\ mem'[c] = mem[c]
        /\ \A c : InUse(chains, files, c) /\ (c \in InCall => c \in InCall')
                  => InUse(chains, files, c)'
      BY <1>1, <1>2, <2>5, NewBlocksKeep
  <2>7. /\ adding' \in [pc : {"idle", "node", "link", "publish"}, irq : Lines \cup {Null},
                        l_handler : Cells \cup {Null}, l_node : Cells \cup {Null}]
        /\ adding'.pc = "link" /\ adding'.irq = adding.irq /\ adding'.l_handler = old
        /\ adding'.l_node = l_node
      BY <1>0, <1>2, <2>1, <2>2
  <2>8. AddingInv(chains, files)'
    <3>1. LooseHandler(chains, old)' /\ mem'[old] = mem[old]
        BY <1>2, <2>6
    <3>2. \E h \in Handlers : mem'[old] = Handler(h)
        BY <1>2, <3>1
    <3> QED
        BY <1>1, <1>2, <2>1, <2>3, <2>4, <2>7, <3>1, <3>2 DEF AddingInv
  <2>9. InCall' = {old, l_node}
      BY <1>2, <2>1, <2>7, CellAssumption DEF InCall
  <2>10. ASSUME NEW c \in Cells, mem'[c] # Free PROVE InUse(chains, files, c)'
    <3>1. CASE c = l_node
        BY <2>9, <3>1 DEF InUse
    <3>2. CASE c # l_node
      <4>1. InUse(chains, files, c)
          BY <1>2, <2>4, <2>10, <3>2 DEF IntactInv
      <4> QED
          BY <1>3, <2>6, <2>9, <4>1
    <3> QED
        BY <3>1, <3>2
  <2>11. \A c \in orphans' : LooseHandler(chains, c)'
      BY <1>1, <1>2, <2>6 DEF IntactInv
  <2>12. IntactInv(chains, files)'
      BY <1>5, <2>6, <2>8, <2>10, <2>11 DEF IntactInv
  <2> QED
      BY <1>1, <1>2, <2>4, <2>6, <2>12 DEF ServicesShape
<1> QED
    BY <1>6, <1>7

\* The node is written while nothing points to it.
LEMMA AddLinkStep ==
    ASSUME NEW chains \in [Lines -> Seq(Cells)], NEW files \in Seq(Cells),
           ServicesShape(chains, files), AddLink, UNCHANGED vfsVars
    PROVE  ServicesShape(chains, files)'
<1>0. PICK old, node : old = adding.l_handler /\ node = adding.l_node
    OBVIOUS
<1> DEFINE new == Linked(s_handlerList[adding.irq], old)
<1>1. /\ ~Interrupted /\ adding.pc = "link"
      /\ s_handlerList' = s_handlerList /\ serving' = serving /\ registered' = registered
      /\ orphans' = orphans /\ broken' = broken
      /\ s_rootNode' = s_rootNode /\ s_fileSystemList' = s_fileSystemList
      /\ mounting' = mounting /\ fsAdded' = fsAdded
      /\ mem' = [mem EXCEPT ![node] = new] /\ adding' = [adding EXCEPT !.pc = "publish"]
    BY <1>0 DEF AddLink, vfsVars
<1>2. /\ ~broken /\ broken \in BOOLEAN /\ IntactInv(chains, files)
      /\ mem \in [Cells -> Blocks]
      /\ s_handlerList \in [Lines -> Cells \cup {Null}] /\ DOMAIN registered = Lines
      /\ adding \in [pc : {"idle", "node", "link", "publish"}, irq : Lines \cup {Null},
                     l_handler : Cells \cup {Null}, l_node : Cells \cup {Null}]
      /\ adding.irq \in Lines
      /\ old \in Cells /\ mem[old].kind = "handler"
      /\ LooseHandler(chains, old) /\ old \notin orphans
      /\ \E h \in Handlers : mem[old] = Handler(h)
    BY <1>0, <1>1, AddingFacts
<1>3. node \in Cells /\ mem[node].kind = "raw"
    BY <1>0, <1>1, <1>2 DEF IntactInv, AddingInv
<1>4. new \in Blocks /\ new.kind = "node"
    BY <1>2 DEF Linked, Node, Blocks
<1>5. /\ adding' \in [pc : {"idle", "node", "link", "publish"}, irq : Lines \cup {Null},
                      l_handler : Cells \cup {Null}, l_node : Cells \cup {Null}]
      /\ adding'.pc = "publish" /\ adding'.irq = adding.irq /\ adding'.l_handler = old
      /\ adding'.l_node = node
    BY <1>0, <1>1, <1>2
<1> HIDE DEF new
<1>6. /\ mem' \in [Cells -> Blocks] /\ mem'[node] = new
      /\ \A c \in Cells : c # node => mem'[c] = mem[c]
    BY <1>1, <1>2, <1>3, <1>4
<1>7. \A c \in Cells : mem[c].kind \notin {"free", "raw"} => mem'[c] = mem[c]
    BY <1>3, <1>6
<1>8. InCall' = InCall
    BY <1>0, <1>5 DEF InCall
<1>9. /\ HandlersInv(chains)' /\ FilesInv(files)' /\ RootInv'
      /\ \A c : LooseHandler(chains, c) => LooseHandler(chains, c)' /\ mem'[c] = mem[c]
      /\ \A c : InUse(chains, files, c) => InUse(chains, files, c)'
    BY <1>1, <1>2, <1>7, <1>8, NewBlocksKeep
<1>10. AddingInv(chains, files)'
  <2>1. LooseHandler(chains, old)' /\ mem'[old] = mem[old]
      BY <1>2, <1>9
  <2>2. \E h \in Handlers : mem'[old] = Handler(h)
      BY <1>2, <2>1
  <2>3. \A i \in Lines : \A k \in 1 .. Len(chains[i]) : chains[i][k] # node
    <3>1. \A i \in Lines : \A k \in 1 .. Len(chains[i]) : mem[chains[i][k]].kind = "node"
      <4>1. HandlersInv(chains)
          BY <1>2 DEF IntactInv
      <4> QED
          BY <4>1, ChainCells
    <3> QED
        BY <1>3, <3>1
  <2>4. \A k \in 1 .. Len(files) : files[k] # node
      BY <1>3 DEF ServicesShape, FilesInv, IsChain
  <2>5. mem'[node] = Linked(s_handlerList'[adding'.irq], old)
      BY <1>1, <1>5, <1>6 DEF new
  <2> QED
      BY <1>1, <1>2, <1>3, <1>5, <2>1, <2>2, <2>3, <2>4, <2>5 DEF AddingInv
<1>11. ASSUME NEW c \in Cells, mem'[c] # Free PROVE InUse(chains, files, c)'
  <2>1. mem[c] # Free
    <3>1. CASE c = node
        BY <1>3, <3>1 DEF Free
    <3>2. CASE c # node
        BY <1>6, <1>11, <3>2
    <3> QED
        BY <3>1, <3>2
  <2> QED
      BY <1>2, <1>9, <2>1 DEF IntactInv
<1>12. ServingInv(chains)' /\ FilesApart(chains, files)'
    BY <1>1, <1>2 DEF ServingInv, Interrupted, IntactInv, FilesApart
<1>13. \A c \in orphans' : LooseHandler(chains, c)'
    BY <1>1, <1>2, <1>9 DEF IntactInv
<1>14. IntactInv(chains, files)'
    BY <1>9, <1>10, <1>11, <1>12, <1>13 DEF IntactInv
<1> QED
    BY <1>1, <1>2, <1>6, <1>9, <1>14 DEF ServicesShape

\* A node in front of a list: every node is the new one or keeps its neighbours.
LEMMA PrependChain ==
    ASSUME NEW chains \in [Lines -> Seq(Cells)], NEW irq \in Lines, NEW node \in Cells,
           NEW longer, longer = [chains EXCEPT ![irq] = <<node>> \o chains[irq]]
    PROVE  /\ longer \in [Lines -> Seq(Cells)]
           /\ longer[irq][1] = node /\ Len(longer[irq]) = Len(chains[irq]) + 1
           /\ \A k \in 1 .. Len(chains[irq]) : longer[irq][k + 1] = chains[irq][k]
           /\ \A i \in Lines \ {irq} : longer[i] = chains[i]
           /\ \A i \in Lines : \A k \in 1 .. Len(longer[i]) :
                \/ i = irq /\ k = 1 /\ longer[i][k] = node
                \/ i = irq /\ k - 1 \in 1 .. Len(chains[i]) /\ longer[i][k] = chains[i][k - 1]
                \/ i # irq /\ k \in 1 .. Len(chains[i]) /\ longer[i][k] = chains[i][k]
<1>1. chains[irq] \in Seq(Cells) /\ Len(chains[irq]) \in Nat
    OBVIOUS
<1>2. PICK seq : seq = <<node>> \o chains[irq]
    OBVIOUS
<1>3. seq \in Seq(Cells) /\ Len(seq) = Len(chains[irq]) + 1
    BY <1>1, <1>2
<1>4. \A k \in 1 .. Len(seq) : seq[k] = IF k = 1 THEN node ELSE chains[irq][k - 1]
    BY <1>1, <1>2
<1>5. longer \in [Lines -> Seq(Cells)] /\ longer[irq] = seq
      /\ \A i \in Lines \ {irq} : longer[i] = chains[i]
    BY <1>2, <1>3
<1>6. ASSUME NEW i \in Lines, NEW k \in 1 .. Len(longer[i])
      PROVE  \/ i = irq /\ k = 1 /\ longer[i][k] = node
             \/ i = irq /\ k - 1 \in 1 .. Len(chains[i]) /\ longer[i][k] = chains[i][k - 1]
             \/ i # irq /\ k \in 1 .. Len(chains[i]) /\ longer[i][k] = chains[i][k]
  <2>1. CASE i = irq
      BY <1>1, <1>3, <1>4, <1>5, <2>1
  <2>2. CASE i # irq
      BY <1>5, <2>2
  <2> QED
      BY <2>1, <2>2
<1>7. longer[irq][1] = node /\ Len(longer[irq]) = Len(chains[irq]) + 1
    BY <1>1, <1>3, <1>4, <1>5
<1>8. \A k \in 1 .. Len(chains[irq]) : longer[irq][k + 1] = chains[irq][k]
    BY <1>1, <1>3, <1>4, <1>5
<1> QED
    BY <1>5, <1>6, <1>7, <1>8

\* Writing the head puts the node, and the handler, in front of the others.
LEMMA AddPublishStep ==
    ASSUME NEW chains \in [Lines -> Seq(Cells)], NEW files \in Seq(Cells),
           ServicesShape(chains, files), AddPublish, UNCHANGED vfsVars
    PROVE  \E longer \in [Lines -> Seq(Cells)] : ServicesShape(longer, files)'
<1>0. PICK old, node, irq :
          old = adding.l_handler /\ node = adding.l_node /\ irq = adding.irq
    OBVIOUS
<1>1. /\ ~Interrupted /\ adding.pc = "publish"
      /\ s_handlerList' = [s_handlerList EXCEPT ![irq] = node]
      /\ registered' = [registered EXCEPT ![irq] = <<mem[old].data>> \o registered[irq]]
      /\ adding' = NotAdding
      /\ mem' = mem /\ serving' = serving /\ orphans' = orphans /\ broken' = broken
      /\ s_rootNode' = s_rootNode /\ s_fileSystemList' = s_fileSystemList
      /\ mounting' = mounting /\ fsAdded' = fsAdded
    BY <1>0 DEF AddPublish, vfsVars
<1>2. /\ ~broken /\ broken \in BOOLEAN /\ IntactInv(chains, files)
      /\ mem \in [Cells -> Blocks]
      /\ s_handlerList \in [Lines -> Cells \cup {Null}] /\ DOMAIN registered = Lines
      /\ irq \in Lines
      /\ old \in Cells /\ mem[old].kind = "handler"
      /\ LooseHandler(chains, old) /\ old \notin orphans
      /\ \E h \in Handlers : mem[old] = Handler(h)
    BY <1>0, <1>1, AddingFacts
<1>3. /\ node \in Cells /\ mem[node] = Linked(s_handlerList[irq], old)
      /\ \A i \in Lines : \A k \in 1 .. Len(chains[i]) : chains[i][k] # node
      /\ \A k \in 1 .. Len(files) : files[k] # node
    BY <1>0, <1>1, <1>2 DEF IntactInv, AddingInv
<1>4. mem[node].kind = "node" /\ mem[node].next = s_handlerList[irq] /\ mem[node].data = old
    BY <1>3 DEF Linked, Node
<1>5. PICK longer : longer = [chains EXCEPT ![irq] = <<node>> \o chains[irq]]
    OBVIOUS
<1>6. /\ longer \in [Lines -> Seq(Cells)]
      /\ longer[irq][1] = node /\ Len(longer[irq]) = Len(chains[irq]) + 1
      /\ \A k \in 1 .. Len(chains[irq]) : longer[irq][k + 1] = chains[irq][k]
      /\ \A i \in Lines \ {irq} : longer[i] = chains[i]
      /\ \A i \in Lines : \A k \in 1 .. Len(longer[i]) :
           \/ i = irq /\ k = 1 /\ longer[i][k] = node
           \/ i = irq /\ k - 1 \in 1 .. Len(chains[i]) /\ longer[i][k] = chains[i][k - 1]
           \/ i # irq /\ k \in 1 .. Len(chains[i]) /\ longer[i][k] = chains[i][k]
    BY <1>2, <1>3, <1>5, PrependChain
<1>7. HandlersInv(chains)
    BY <1>2 DEF IntactInv
<1>8. \A i \in Lines : Len(chains[i]) \in Nat /\ chains[i] \in Seq(Cells)
    OBVIOUS
<1>9. PICK h \in Handlers : mem[old] = Handler(h)
    BY <1>2
<1>10. mem[old].data = h
    BY <1>9 DEF Handler
<1>11. /\ registered[irq] \in Seq(Handlers) /\ Len(registered[irq]) = Len(chains[irq])
       /\ IsChain(s_handlerList[irq], chains[irq])
       /\ \A k \in 1 .. Len(chains[irq]) :
            /\ mem[chains[irq][k]].data \in Cells
            /\ mem[mem[chains[irq][k]].data] = Handler(registered[irq][k])
    BY <1>2, <1>7 DEF HandlersInv
<1>12. PICK regs : regs = <<h>> \o registered[irq]
    OBVIOUS
<1>13. /\ regs \in Seq(Handlers) /\ Len(regs) = Len(chains[irq]) + 1 /\ regs[1] = h
       /\ \A k \in 1 .. Len(chains[irq]) : regs[k + 1] = registered[irq][k]
    BY <1>11, <1>12
<1>14. /\ registered'[irq] = regs /\ DOMAIN registered' = Lines
       /\ \A i \in Lines \ {irq} : registered'[i] = registered[i]
    BY <1>1, <1>2, <1>10, <1>12
<1>15. /\ s_handlerList'[irq] = node /\ s_handlerList' \in [Lines -> Cells \cup {Null}]
       /\ \A i \in Lines \ {irq} : s_handlerList'[i] = s_handlerList[i]
    BY <1>1, <1>2, <1>3
<1>16. IsChain(s_handlerList'[irq], longer[irq])
  <2>1. /\ s_handlerList[irq] = LinkTo(chains[irq], 1)
        /\ \A k \in 1 .. Len(chains[irq]) :
             /\ mem[chains[irq][k]].kind = "node"
             /\ mem[chains[irq][k]].next = LinkTo(chains[irq], k + 1)
      BY <1>11 DEF IsChain
  <2>2. \A k \in 1 .. Len(chains[irq]) + 1 : LinkTo(longer[irq], k + 1) = LinkTo(chains[irq], k)
      BY <1>2, <1>6, <1>8 DEF LinkTo
  <2>3. node = LinkTo(longer[irq], 1)
      BY <1>2, <1>6, <1>8 DEF LinkTo
  <2>4. ASSUME NEW k \in 1 .. Len(longer[irq])
        PROVE  mem[longer[irq][k]].kind = "node" /\ mem[longer[irq][k]].next = LinkTo(longer[irq], k + 1)
    <3>1. CASE k = 1
      <4>1. LinkTo(longer[irq], 2) = LinkTo(chains[irq], 1)
          BY <1>2, <1>8, <2>2
      <4> QED
          BY <1>4, <1>6, <2>1, <3>1, <4>1
    <3>2. CASE k # 1
      <4>1. k - 1 \in 1 .. Len(chains[irq]) /\ (k - 1) + 1 = k
          BY <1>2, <1>6, <1>8, <3>2
      <4>2. longer[irq][k] = chains[irq][k - 1]
          BY <1>6, <4>1
      <4>3. LinkTo(longer[irq], k + 1) = LinkTo(chains[irq], k)
          BY <1>2, <1>6, <1>8, <2>2
      <4> QED
          BY <2>1, <4>1, <4>2, <4>3
    <3> QED
        BY <3>1, <3>2
  <2> QED
      BY <1>15, <2>3, <2>4 DEF IsChain
<1>17. ASSUME NEW i \in Lines
       PROVE  /\ IsChain(s_handlerList'[i], longer[i])
              /\ registered'[i] \in Seq(Handlers) /\ Len(registered'[i]) = Len(longer[i])
              /\ \A k \in 1 .. Len(longer[i]) :
                   /\ mem[longer[i][k]].data \in Cells
                   /\ mem[mem[longer[i][k]].data] = Handler(registered'[i][k])
  <2>1. CASE i = irq
    <3>1. ASSUME NEW k \in 1 .. Len(longer[irq])
          PROVE  /\ mem[longer[irq][k]].data \in Cells
                 /\ mem[mem[longer[irq][k]].data] = Handler(regs[k])
      <4>1. CASE k = 1
          BY <1>2, <1>4, <1>6, <1>9, <1>13, <4>1
      <4>2. CASE k # 1
        <5>1. k - 1 \in 1 .. Len(chains[irq]) /\ (k - 1) + 1 = k
            BY <1>2, <1>6, <1>8, <4>2
        <5>2. longer[irq][k] = chains[irq][k - 1] /\ regs[k] = registered[irq][k - 1]
            BY <1>6, <1>13, <5>1
        <5> QED
            BY <1>11, <5>1, <5>2
      <4> QED
          BY <4>1, <4>2
    <3> QED
        BY <1>6, <1>13, <1>14, <1>16, <2>1, <3>1
  <2>2. CASE i # irq
    <3>1. /\ IsChain(s_handlerList[i], chains[i])
          /\ registered[i] \in Seq(Handlers) /\ Len(registered[i]) = Len(chains[i])
          /\ \A k \in 1 .. Len(chains[i]) :
               /\ mem[chains[i][k]].data \in Cells
               /\ mem[mem[chains[i][k]].data] = Handler(registered[i][k])
        BY <1>7 DEF HandlersInv
    <3>2. /\ longer[i] = chains[i] /\ registered'[i] = registered[i]
          /\ s_handlerList'[i] = s_handlerList[i]
        BY <1>6, <1>14, <1>15, <2>2
    <3> QED
        BY <3>1, <3>2
  <2> QED
      BY <2>1, <2>2
<1>18. ASSUME NEW i \in Lines, NEW j \in Lines,
              NEW k \in 1 .. Len(longer[i]), NEW l \in 1 .. Len(longer[j]),
              longer[i][k] = longer[j][l] \/ mem[longer[i][k]].data = mem[longer[j][l]].data
       PROVE  i = j /\ k = l
  <2>1. \A a, b \in Lines : \A m \in 1 .. Len(chains[a]), n \in 1 .. Len(chains[b]) :
            \/ chains[a][m] = chains[b][n]
            \/ mem[chains[a][m]].data = mem[chains[b][n]].data
            => a = b /\ m = n
      BY <1>7 DEF HandlersInv
  <2>2. \A a \in Lines : \A m \in 1 .. Len(chains[a]) :
            chains[a][m] # node /\ mem[chains[a][m]].data # old
      BY <1>2, <1>3 DEF LooseHandler
  <2>3. \/ i = irq /\ k = 1 /\ longer[i][k] = node
        \/ i = irq /\ k - 1 \in 1 .. Len(chains[i]) /\ longer[i][k] = chains[i][k - 1]
        \/ i # irq /\ k \in 1 .. Len(chains[i]) /\ longer[i][k] = chains[i][k]
      BY <1>6
  <2>4. \/ j = irq /\ l = 1 /\ longer[j][l] = node
        \/ j = irq /\ l - 1 \in 1 .. Len(chains[j]) /\ longer[j][l] = chains[j][l - 1]
        \/ j # irq /\ l \in 1 .. Len(chains[j]) /\ longer[j][l] = chains[j][l]
      BY <1>6
  <2>5. CASE i = irq /\ k = 1
      BY <1>4, <1>18, <2>2, <2>3, <2>4, <2>5
  <2>6. CASE j = irq /\ l = 1
      BY <1>4, <1>18, <2>2, <2>3, <2>4, <2>6
  <2>7. CASE ~(i = irq /\ k = 1) /\ ~(j = irq /\ l = 1)
    <3> DEFINE m == IF i = irq THEN k - 1 ELSE k
               n == IF j = irq THEN l - 1 ELSE l
    <3>1. m \in 1 .. Len(chains[i]) /\ longer[i][k] = chains[i][m]
        BY <2>3, <2>7
    <3>2. n \in 1 .. Len(chains[j]) /\ longer[j][l] = chains[j][n]
        BY <2>4, <2>7
    <3>3. i = j /\ m = n
      <4> HIDE DEF m, n
      <4> QED
          BY <1>18, <2>1, <3>1, <3>2
    <3>4. k \in Int /\ l \in Int
        OBVIOUS
    <3> QED
        BY <3>3, <3>4
  <2> QED
      BY <2>5, <2>6, <2>7
<1>19. HandlersInv(longer)'
  <2>1. \A i \in Lines : IsChain(s_handlerList[i], longer[i])'
      BY <1>1, <1>17 DEF IsChain
  <2> QED
      BY <1>1, <1>17, <1>18, <2>1 DEF HandlersInv
<1>20. FilesInv(files)' /\ RootInv'
    BY <1>1 DEF ServicesShape, FilesInv, IsChain, RootInv, IsRoot
<1>21. AddingInv(longer, files)' /\ ServingInv(longer)'
    BY <1>1, IdleAdding DEF ServingInv, Interrupted
<1>22. FilesApart(longer, files)'
  <2>1. ASSUME NEW i \in Lines, NEW k \in 1 .. Len(longer[i]), NEW l \in 1 .. Len(files)
        PROVE  longer[i][k] # files[l]
    <3>1. \/ longer[i][k] = node
          \/ \E m \in 1 .. Len(chains[i]) : longer[i][k] = chains[i][m]
        BY <1>6
    <3>2. \A m \in 1 .. Len(chains[i]) : chains[i][m] # files[l]
        BY <1>2 DEF IntactInv, FilesApart
    <3> QED
        BY <1>3, <3>1, <3>2
  <2> QED
      BY <2>1 DEF FilesApart
<1>23. ASSUME NEW c \in orphans' PROVE LooseHandler(longer, c)'
  <2>1. LooseHandler(chains, c) /\ c # old
      BY <1>1, <1>2, <1>23 DEF IntactInv
  <2>2. ASSUME NEW i \in Lines, NEW k \in 1 .. Len(longer[i]) PROVE mem[longer[i][k]].data # c
    <3>1. \/ longer[i][k] = node
          \/ \E m \in 1 .. Len(chains[i]) : longer[i][k] = chains[i][m]
        BY <1>6
    <3> QED
        BY <1>4, <2>1, <3>1 DEF LooseHandler
  <2> QED
      BY <1>1, <2>1, <2>2 DEF LooseHandler
<1>24. ASSUME NEW c \in Cells, mem'[c] # Free PROVE InUse(longer, files, c)'
  <2>1. InUse(chains, files, c)
      BY <1>1, <1>2, <1>24 DEF IntactInv
  <2>2. ASSUME NEW i \in Lines, NEW k \in 1 .. Len(chains[i]),
               c = chains[i][k] \/ c = mem[chains[i][k]].data
        PROVE  \E m \in 1 .. Len(longer[i]) : c = longer[i][m] \/ c = mem[longer[i][m]].data
    <3>1. CASE i = irq
      <4>1. k + 1 \in 1 .. Len(longer[irq]) /\ longer[irq][k + 1] = chains[irq][k]
          BY <1>6, <1>8, <3>1
      <4> QED
          BY <2>2, <3>1, <4>1
    <3>2. CASE i # irq
        BY <1>6, <2>2, <3>2
    <3> QED
        BY <3>1, <3>2
  <2>3. CASE \E i \in Lines : \E k \in 1 .. Len(chains[i]) :
                 c = chains[i][k] \/ c = mem[chains[i][k]].data
      BY <1>1, <2>2, <2>3 DEF InUse
  <2>4. CASE c \in InCall
    <3>1. c = old \/ c = node
        BY <1>0, <2>4 DEF InCall
    <3>2. 1 \in 1 .. Len(longer[irq])
        BY <1>2, <1>6, <1>8
    <3> QED
        BY <1>1, <1>2, <1>4, <1>6, <3>1, <3>2 DEF InUse
  <2>5. CASE \/ c \in orphans
             \/ \E v \in {s_rootNode, mounting.l_target} \ {Null} : c = v \/ c = mem[v].data
             \/ \E k \in 1 .. Len(files) : c = files[k]
      BY <1>1, <2>5 DEF InUse
  <2> QED
      BY <2>1, <2>3, <2>4, <2>5 DEF InUse
<1>25. IntactInv(longer, files)'
    BY <1>19, <1>21, <1>22, <1>23, <1>24 DEF IntactInv
<1>26. ServicesShape(longer, files)'
    BY <1>1, <1>2, <1>14, <1>15, <1>20, <1>25 DEF ServicesShape
<1> QED
    BY <1>6, <1>26

-----------------------------------------------------------------------------
(* irq_removeHandler. *)

\* What the walk of a list returns, and what the list holds.
LEMMA HeadChain ==
    ASSUME mem \in [Cells -> Blocks], NEW head, NEW seq \in Seq(Cells), IsChain(head, seq),
           \A k, l \in 1 .. Len(seq) : seq[k] = seq[l] => k = l
    PROVE  /\ Chain(head) = seq
           /\ Items(head) = [k \in 1 .. Len(seq) |-> mem[seq[k]].data]
<1>1. Len(seq) \in Nat /\ DOMAIN seq = 1 .. Len(seq) /\ head = LinkTo(seq, 1)
    BY DEF IsChain
<1>2. Chain(LinkTo(seq, 1)) = SubSeq(seq, 1, Len(seq))
  <2>1. \A k \in 1 .. Len(seq) + 1 : Chain(LinkTo(seq, k)) = SubSeq(seq, k, Len(seq))
      BY ReadsChain
  <2>2. 1 \in 1 .. Len(seq) + 1
      BY <1>1
  <2> QED
      BY <2>1, <2>2
<1>3. SubSeq(seq, 1, Len(seq)) = seq
    OBVIOUS
<1>4. Chain(head) = seq
    BY <1>1, <1>2, <1>3
<1> QED
    BY <1>1, <1>4 DEF Items

\* The lists that irq.c and vfs.c walk.
LEMMA WalkedLists ==
    ASSUME NEW chains \in [Lines -> Seq(Cells)], NEW files \in Seq(Cells),
           ServicesShape(chains, files)
    PROVE  /\ Chain(s_fileSystemList) = files
           /\ Items(s_fileSystemList) = [k \in 1 .. Len(files) |-> mem[files[k]].data]
           /\ ~broken => \A i \in Lines :
                /\ Chain(s_handlerList[i]) = chains[i]
                /\ Items(s_handlerList[i]) = [k \in 1 .. Len(chains[i]) |-> mem[chains[i][k]].data]
<1>1. /\ mem \in [Cells -> Blocks] /\ IsChain(s_fileSystemList, files)
      /\ \A k, l \in 1 .. Len(files) : files[k] = files[l] => k = l
    BY DEF ServicesShape, FilesInv
<1>2. /\ Chain(s_fileSystemList) = files
      /\ Items(s_fileSystemList) = [k \in 1 .. Len(files) |-> mem[files[k]].data]
  <2>1. PICK head : head = s_fileSystemList
      OBVIOUS
  <2> QED
      BY <1>1, <2>1, HeadChain
<1>3. ASSUME ~broken, NEW i \in Lines
      PROVE  /\ Chain(s_handlerList[i]) = chains[i]
             /\ Items(s_handlerList[i]) = [k \in 1 .. Len(chains[i]) |-> mem[chains[i][k]].data]
  <2>1. HandlersInv(chains)
      BY <1>3 DEF ServicesShape, IntactInv
  <2>2. IsChain(s_handlerList[i], chains[i])
      BY <2>1 DEF HandlersInv
  <2>3. \A k, l \in 1 .. Len(chains[i]) : chains[i][k] = chains[i][l] => k = l
      BY <2>1 DEF HandlersInv
  <2>4. PICK head, seq : head = s_handlerList[i] /\ seq = chains[i]
      OBVIOUS
  <2>5. seq \in Seq(Cells)
      BY <2>4
  <2>6. Chain(head) = seq /\ Items(head) = [k \in 1 .. Len(seq) |-> mem[seq[k]].data]
    <3>1. IsChain(head, seq) /\ \A k, l \in 1 .. Len(seq) : seq[k] = seq[l] => k = l
        BY <2>2, <2>3, <2>4
    <3> QED
        BY <1>1, <2>5, <3>1, HeadChain
  <2> QED
      BY <2>4, <2>6
<1> QED
    BY <1>2, <1>3

\* A list of one node is emptied and its handler is lost; a longer one is broken.  The
\* list of file systems and the root are not touched.
LEMMA RemoveStep ==
    ASSUME NEW chains \in [Lines -> Seq(Cells)], NEW files \in Seq(Cells),
           ServicesShape(chains, files), NEW irq \in Lines, NEW h \in Handlers,
           irq_removeHandler(irq, h), UNCHANGED vfsVars
    PROVE  \E shorter \in [Lines -> Seq(Cells)] : ServicesShape(shorter, files)'
<1>1. /\ ~Interrupted /\ ~broken /\ adding = NotAdding
      /\ mem' = list_remove(s_handlerList[irq]) /\ adding' = adding /\ serving' = serving
      /\ s_rootNode' = s_rootNode /\ s_fileSystemList' = s_fileSystemList
      /\ mounting' = mounting /\ fsAdded' = fsAdded
    BY DEF irq_removeHandler, vfsVars
<1>2. PICK nodes : nodes = chains[irq]
    OBVIOUS
<1>3. /\ Chain(s_handlerList[irq]) = nodes
      /\ Items(s_handlerList[irq]) = [k \in 1 .. Len(nodes) |-> mem[nodes[k]].data]
  <2>1. /\ Chain(s_handlerList[irq]) = chains[irq]
        /\ Items(s_handlerList[irq]) = [k \in 1 .. Len(chains[irq]) |-> mem[chains[irq][k]].data]
      BY <1>1, WalkedLists
  <2> QED
      BY <1>2, <2>1
<1>4. nodes \in Seq(Cells) /\ Len(nodes) \in Nat /\ DOMAIN nodes = 1 .. Len(nodes)
    BY <1>2
<1>5. /\ mem \in [Cells -> Blocks] /\ IntactInv(chains, files)
      /\ s_handlerList \in [Lines -> Cells \cup {Null}] /\ DOMAIN registered = Lines
      /\ FilesInv(files) /\ RootInv
    BY <1>1 DEF ServicesShape
<1>6. HandlersInv(chains)
    BY <1>5 DEF IntactInv
<1>7. \A i \in Lines : \A k \in 1 .. Len(chains[i]) :
          /\ chains[i][k] \in Cells /\ mem[chains[i][k]].kind = "node"
          /\ mem[chains[i][k]].data \in Cells
          /\ mem[mem[chains[i][k]].data].kind = "handler"
    BY <1>6, ChainCells
<1>8. mem' = [c \in Cells |-> IF c \in Range(nodes) THEN Free ELSE mem[c]]
    BY <1>1, <1>3 DEF list_remove
<1>9. Free \in Blocks
    BY DEF Free, Blocks
<1>10. /\ mem' \in [Cells -> Blocks]
       /\ \A c \in Cells : c \notin Range(nodes) => mem'[c] = mem[c]
       /\ \A c \in Cells : c \in Range(nodes) => mem'[c] = Free
    BY <1>5, <1>8, <1>9
<1>11. \A c : c \in Range(nodes) <=> \E k \in 1 .. Len(nodes) : c = nodes[k]
    BY <1>4 DEF Range
<1>12. \A c \in Range(nodes) : mem[c].kind = "node"
    BY <1>2, <1>7, <1>11
<1>13. FilesInv(files)'
  <2>1. ASSUME NEW k \in 1 .. Len(files) PROVE mem'[files[k]] = mem[files[k]]
    <3>1. files[k] \notin Range(nodes)
      <4>1. \A m \in 1 .. Len(chains[irq]) : chains[irq][m] # files[k]
          BY <1>5 DEF IntactInv, FilesApart
      <4> QED
          BY <1>2, <1>11, <4>1
    <3> QED
        BY <1>10, <3>1
  <2> QED
      BY <1>1, <1>5, <2>1, FilesFrame
<1>14. ASSUME NEW v \in {s_rootNode, mounting.l_target} \ {Null}
       PROVE  mem'[v] = mem[v] /\ mem'[mem[v].data] = mem[mem[v].data]
  <2>1. IsRoot(v)
      BY <1>5 DEF RootInv
  <2>2. /\ v \in Cells /\ mem[v].data \in Cells
        /\ mem[v].kind = "vnode" /\ mem[mem[v].data].kind = "tree"
      BY <2>1 DEF IsRoot, Vnode, Tree
  <2>3. v \notin Range(nodes) /\ mem[v].data \notin Range(nodes)
      BY <1>12, <2>2
  <2> QED
      BY <1>10, <2>2, <2>3
<1>15. RootInv'
    BY <1>1, <1>5, <1>14, RootFrame
<1>16. ~Interrupted' /\ adding' = NotAdding
    BY <1>1 DEF Interrupted
<1>17. CASE Len(nodes) # 1
  <2>1. broken' = TRUE /\ s_handlerList' = s_handlerList /\ registered' = registered
      BY <1>3, <1>17 DEF irq_removeHandler
  <2> QED
      BY <1>5, <1>10, <1>13, <1>15, <1>16, <2>1 DEF ServicesShape
<1>18. CASE Len(nodes) = 1
  <2>1. PICK node, item : node = nodes[1] /\ item = mem[nodes[1]].data
      OBVIOUS
  <2>2. /\ s_handlerList' = [s_handlerList EXCEPT ![irq] = Null]
        /\ registered' = [registered EXCEPT ![irq] = <<>>]
        /\ orphans' = orphans \cup Range(Items(s_handlerList[irq])) /\ broken' = broken
      BY <1>3, <1>18 DEF irq_removeHandler
  <2>3. /\ 1 \in 1 .. Len(nodes) /\ node \in Cells /\ item \in Cells /\ node = chains[irq][1]
        /\ mem[node].kind = "node" /\ mem[item].kind = "handler" /\ mem[node].data = item
    <3>1. 1 \in 1 .. Len(nodes)
        BY <1>18
    <3>2. 1 \in 1 .. Len(chains[irq])
        BY <1>2, <3>1
    <3>3. /\ chains[irq][1] \in Cells /\ mem[chains[irq][1]].kind = "node"
          /\ mem[chains[irq][1]].data \in Cells
          /\ mem[mem[chains[irq][1]].data].kind = "handler"
        BY <1>7, <3>2
    <3> QED
        BY <1>2, <2>1, <3>1, <3>3
  <2>4. Range(Items(s_handlerList[irq])) = {item}
    <3>1. Items(s_handlerList[irq]) = [k \in {1} |-> item]
        BY <1>3, <1>18, <2>1
    <3> QED
        BY <3>1 DEF Range
  <2>5. \A c : c \in Range(nodes) <=> c = node
      BY <1>11, <1>18, <2>1
  <2>6. /\ mem'[node] = Free
        /\ \A c \in Cells : c # node => mem'[c] = mem[c]
      BY <1>10, <2>3, <2>5
  <2>7. PICK shorter : shorter = [chains EXCEPT ![irq] = <<>>]
      OBVIOUS
  <2>8. /\ shorter \in [Lines -> Seq(Cells)] /\ shorter[irq] = <<>> /\ Len(shorter[irq]) = 0
        /\ \A i \in Lines \ {irq} : shorter[i] = chains[i]
      BY <2>7
  <2>9. ASSUME NEW i \in Lines, NEW k \in 1 .. Len(shorter[i])
        PROVE  /\ i # irq /\ k \in 1 .. Len(chains[i]) /\ shorter[i][k] = chains[i][k]
               /\ shorter[i][k] # node /\ mem[shorter[i][k]].data # item
               /\ mem'[shorter[i][k]] = mem[shorter[i][k]]
               /\ mem'[mem[shorter[i][k]].data] = mem[mem[shorter[i][k]].data]
    <3>1. i # irq /\ k \in 1 .. Len(chains[i]) /\ shorter[i][k] = chains[i][k]
        BY <2>8, <2>9
    <3>2. chains[i][k] # node /\ mem[chains[i][k]].data # item
      <4>1. 1 \in 1 .. Len(chains[irq]) /\ node = chains[irq][1] /\ item = mem[chains[irq][1]].data
          BY <1>2, <2>1, <2>3
      <4> QED
          BY <1>6, <3>1, <4>1 DEF HandlersInv
    <3>3. chains[i][k] \in Cells /\ mem[chains[i][k]].data \in Cells
          /\ mem[chains[i][k]].data # node
      <4>1. /\ chains[i][k] \in Cells /\ mem[chains[i][k]].data \in Cells
            /\ mem[mem[chains[i][k]].data].kind = "handler"
          BY <1>7, <3>1
      <4> QED
          BY <2>3, <4>1
    <3> QED
        BY <2>6, <3>1, <3>2, <3>3
  <2>10. HandlersInv(shorter)'
    <3>1. ASSUME NEW i \in Lines
          PROVE  /\ IsChain(s_handlerList[i], shorter[i])'
                 /\ registered'[i] \in Seq(Handlers) /\ Len(registered'[i]) = Len(shorter[i])
                 /\ \A k \in 1 .. Len(shorter[i]) :
                      /\ mem'[shorter[i][k]].data \in Cells
                      /\ mem'[mem'[shorter[i][k]].data] = Handler(registered'[i][k])
      <4>1. CASE i = irq
        <5>1. s_handlerList'[irq] = Null /\ registered'[irq] = <<>>
            BY <1>5, <2>2
        <5> QED
            BY <2>8, <4>1, <5>1 DEF IsChain, LinkTo
      <4>2. CASE i # irq
        <5>1. /\ s_handlerList'[i] = s_handlerList[i] /\ registered'[i] = registered[i]
              /\ shorter[i] = chains[i]
            BY <1>5, <2>2, <2>8, <4>2
        <5>2. /\ IsChain(s_handlerList[i], chains[i])
              /\ registered[i] \in Seq(Handlers) /\ Len(registered[i]) = Len(chains[i])
              /\ \A k \in 1 .. Len(chains[i]) :
                   /\ mem[chains[i][k]].data \in Cells
                   /\ mem[mem[chains[i][k]].data] = Handler(registered[i][k])
            BY <1>6 DEF HandlersInv
        <5>3. \A k \in 1 .. Len(chains[i]) :
                  /\ mem'[chains[i][k]] = mem[chains[i][k]]
                  /\ mem'[mem[chains[i][k]].data] = mem[mem[chains[i][k]].data]
            BY <2>9, <5>1
        <5>4. IsChain(s_handlerList[i], shorter[i])'
            BY <5>1, <5>2, <5>3 DEF IsChain
        <5> QED
            BY <5>1, <5>2, <5>3, <5>4
      <4> QED
          BY <4>1, <4>2
    <3>2. ASSUME NEW i \in Lines, NEW j \in Lines,
                 NEW k \in 1 .. Len(shorter[i]), NEW l \in 1 .. Len(shorter[j]),
                 \/ shorter[i][k] = shorter[j][l]
                 \/ mem'[shorter[i][k]].data = mem'[shorter[j][l]].data
          PROVE  i = j /\ k = l
      <4>1. /\ k \in 1 .. Len(chains[i]) /\ shorter[i][k] = chains[i][k]
            /\ mem'[shorter[i][k]] = mem[chains[i][k]]
          BY <2>9
      <4>2. /\ l \in 1 .. Len(chains[j]) /\ shorter[j][l] = chains[j][l]
            /\ mem'[shorter[j][l]] = mem[chains[j][l]]
          BY <2>9
      <4>3. chains[i][k] = chains[j][l] \/ mem[chains[i][k]].data = mem[chains[j][l]].data
          BY <3>2, <4>1, <4>2
      <4> QED
          BY <1>6, <4>1, <4>2, <4>3 DEF HandlersInv
    <3> QED
        BY <3>1, <3>2 DEF HandlersInv
  <2>11. AddingInv(shorter, files)' /\ ServingInv(shorter)'
      BY <1>16, IdleAdding DEF ServingInv
  <2>12. FilesApart(shorter, files)'
      BY <1>5, <2>9 DEF IntactInv, FilesApart
  <2>13. ASSUME NEW c \in orphans' PROVE LooseHandler(shorter, c)'
    <3>1. c \in Cells /\ mem[c].kind = "handler"
        BY <1>5, <2>2, <2>3, <2>4, <2>13 DEF IntactInv, LooseHandler
    <3>2. mem'[c] = mem[c]
        BY <2>3, <2>6, <3>1
    <3>3. ASSUME NEW i \in Lines, NEW k \in 1 .. Len(shorter[i]) PROVE mem[shorter[i][k]].data # c
      <4>1. CASE c = item
          BY <2>9, <4>1
      <4>2. CASE c \in orphans
          BY <1>5, <2>9, <4>2 DEF IntactInv, LooseHandler
      <4> QED
          BY <2>2, <2>4, <2>13, <4>1, <4>2
    <3>4. \A i \in Lines : \A k \in 1 .. Len(shorter[i]) : mem'[shorter[i][k]].data # c
        BY <2>9, <3>3
    <3> QED
        BY <3>1, <3>2, <3>4 DEF LooseHandler
  <2>14. ASSUME NEW c \in Cells, mem'[c] # Free PROVE InUse(shorter, files, c)'
    <3>1. c # node /\ InUse(chains, files, c)
        BY <1>5, <2>6, <2>14 DEF IntactInv
    <3>2. CASE \E i \in Lines : \E k \in 1 .. Len(chains[i]) :
                   c = chains[i][k] \/ c = mem[chains[i][k]].data
      <4>0. PICK i \in Lines :
                \E k \in 1 .. Len(chains[i]) : c = chains[i][k] \/ c = mem[chains[i][k]].data
          BY <3>2
      <4>1. PICK k \in 1 .. Len(chains[i]) : c = chains[i][k] \/ c = mem[chains[i][k]].data
          BY <4>0
      <4>2. CASE i = irq
        <5>1. k = 1
          <6>1. Len(chains[i]) = 1
              BY <1>2, <1>18, <4>2
          <6> QED
              BY <6>1
        <5>2. c = item
            BY <1>2, <2>1, <3>1, <4>1, <4>2, <5>1
        <5> QED
            BY <2>2, <2>4, <5>2 DEF InUse
      <4>3. CASE i # irq
        <5>1. k \in 1 .. Len(shorter[i]) /\ shorter[i][k] = chains[i][k]
            BY <2>8, <4>3
        <5>2. mem'[shorter[i][k]] = mem[shorter[i][k]]
            BY <2>9, <5>1
        <5> QED
            BY <4>1, <5>1, <5>2 DEF InUse
      <4> QED
          BY <4>2, <4>3
    <3>3. CASE c \in InCall
        BY <1>1, <3>3 DEF InCall, NotAdding
    <3>4. CASE c \in orphans
        BY <2>2, <3>4 DEF InUse
    <3>5. CASE \E v \in {s_rootNode, mounting.l_target} \ {Null} : c = v \/ c = mem[v].data
      <4>1. PICK v \in {s_rootNode, mounting.l_target} \ {Null} : c = v \/ c = mem[v].data
          BY <3>5
      <4>2. v \in {s_rootNode', mounting'.l_target} \ {Null} /\ (c = v \/ c = mem'[v].data)
          BY <1>1, <1>14, <4>1
      <4> QED
          BY <4>2 DEF InUse
    <3>6. CASE \E k \in 1 .. Len(files) : c = files[k]
        BY <3>6 DEF InUse
    <3> QED
        BY <3>1, <3>2, <3>3, <3>4, <3>5, <3>6 DEF InUse
  <2>15. IntactInv(shorter, files)'
      BY <2>10, <2>11, <2>12, <2>13, <2>14 DEF IntactInv
  <2>16. s_handlerList' \in [Lines -> Cells \cup {Null}] /\ DOMAIN registered' = Lines
      BY <1>5, <2>2
  <2>17. ServicesShape(shorter, files)'
      BY <1>1, <1>10, <1>13, <1>15, <2>2, <2>15, <2>16 DEF ServicesShape
  <2> QED
      BY <2>8, <2>17
<1> QED
    BY <1>17, <1>18

-----------------------------------------------------------------------------
(* irq_service. *)

\* A step of irq_service changes nothing but where it is.
LEMMA ServingFrame ==
    ASSUME NEW chains \in [Lines -> Seq(Cells)], NEW files \in Seq(Cells),
           ServicesShape(chains, files), ~broken, ServingInv(chains)',
           mem' = mem, s_handlerList' = s_handlerList, adding' = adding,
           registered' = registered, orphans' = orphans, broken' = broken, UNCHANGED vfsVars
    PROVE  ServicesShape(chains, files)'
<1>1. /\ IntactInv(chains, files) /\ FilesInv(files) /\ RootInv
      /\ mem \in [Cells -> Blocks] /\ broken \in BOOLEAN
      /\ s_handlerList \in [Lines -> Cells \cup {Null}] /\ DOMAIN registered = Lines
    BY DEF ServicesShape
<1>2. /\ s_rootNode' = s_rootNode /\ s_fileSystemList' = s_fileSystemList
      /\ mounting' = mounting /\ fsAdded' = fsAdded
    BY DEF vfsVars
<1>3. FilesInv(files)' /\ RootInv'
    BY <1>1, <1>2 DEF FilesInv, IsChain, RootInv, IsRoot
<1>4. HandlersInv(chains)'
    BY <1>1 DEF IntactInv, HandlersInv, IsChain
<1>5. AddingInv(chains, files)'
    BY <1>1 DEF IntactInv, AddingInv, LooseHandler
<1>6. FilesApart(chains, files)' /\ \A c \in orphans' : LooseHandler(chains, c)'
    BY <1>1 DEF IntactInv, FilesApart, LooseHandler
<1>7. \A c \in Cells : mem'[c] # Free => InUse(chains, files, c)'
    BY <1>1, <1>2 DEF IntactInv, InUse, InCall
<1>8. IntactInv(chains, files)'
    BY <1>4, <1>5, <1>6, <1>7 DEF IntactInv
<1> QED
    BY <1>1, <1>3, <1>8 DEF ServicesShape

\* irq_service starts at the head of the list, with nothing called.
LEMMA ServiceStartStep ==
    ASSUME NEW chains \in [Lines -> Seq(Cells)], NEW files \in Seq(Cells),
           ServicesShape(chains, files), NEW irq \in Lines, ServiceStart(irq), UNCHANGED vfsVars
    PROVE  ServicesShape(chains, files)'
<1>1. /\ ~broken /\ mem' = mem /\ s_handlerList' = s_handlerList /\ adding' = adding
      /\ registered' = registered /\ orphans' = orphans /\ broken' = broken
      /\ serving' = [irq |-> irq, l_node |-> s_handlerList[irq], called |-> <<>>]
    BY DEF ServiceStart
<1>2. HandlersInv(chains)
    BY <1>1 DEF ServicesShape, IntactInv
<1>3. s_handlerList[irq] = LinkTo(chains[irq], 1) /\ registered[irq] \in Seq(Handlers)
    BY <1>2 DEF HandlersInv, IsChain
<1>4. SubSeq(registered[irq], 1, 1 - 1) = <<>> /\ 1 \in 1 .. Len(chains[irq]) + 1
    BY <1>3
<1>5. serving' = [irq |-> irq, l_node |-> LinkTo(chains[irq], 1),
                  called |-> SubSeq(registered[irq], 1, 1 - 1)]
    BY <1>1, <1>3, <1>4
<1>6. serving'.irq = irq
    BY <1>1
<1>7. ServingInv(chains)'
    BY <1>1, <1>4, <1>5, <1>6 DEF ServingInv
<1> QED
    BY <1>1, <1>7, ServingFrame

\* One handler is called, and the next node is reached.
LEMMA ServiceCallStep ==
    ASSUME NEW chains \in [Lines -> Seq(Cells)], NEW files \in Seq(Cells),
           ServicesShape(chains, files), ServiceCall, UNCHANGED vfsVars
    PROVE  ServicesShape(chains, files)'
<1>1. /\ Interrupted /\ serving.l_node # Null
      /\ mem' = mem /\ s_handlerList' = s_handlerList /\ adding' = adding
      /\ registered' = registered /\ orphans' = orphans /\ broken' = broken
    BY DEF ServiceCall
<1>2. ~broken /\ IntactInv(chains, files)
    BY <1>1 DEF ServicesShape
<1>3. PICK irq : irq = serving.irq
    OBVIOUS
<1>4. PICK k \in 1 .. Len(chains[irq]) + 1 :
          serving = [irq |-> irq, l_node |-> LinkTo(chains[irq], k),
                     called |-> SubSeq(registered[irq], 1, k - 1)]
    BY <1>1, <1>2, <1>3 DEF IntactInv, ServingInv
<1>5. irq \in Lines
    BY <1>1, <1>2, <1>3 DEF IntactInv, ServingInv
<1>6. chains[irq] \in Seq(Cells) /\ Len(chains[irq]) \in Nat
    BY <1>5
<1>7. k \in 1 .. Len(chains[irq]) /\ serving.l_node = chains[irq][k]
    BY <1>1, <1>4, <1>6 DEF LinkTo
<1>8. HandlersInv(chains)
    BY <1>2 DEF IntactInv
<1>9. /\ registered[irq] \in Seq(Handlers) /\ Len(registered[irq]) = Len(chains[irq])
      /\ mem[chains[irq][k]].data \in Cells
      /\ mem[mem[chains[irq][k]].data] = Handler(registered[irq][k])
      /\ mem[chains[irq][k]].next = LinkTo(chains[irq], k + 1)
    BY <1>5, <1>7, <1>8 DEF HandlersInv, IsChain
<1>10. PICK g : g = registered[irq][k]
    OBVIOUS
<1>11. mem[mem[chains[irq][k]].data].data = g /\ mem[chains[irq][k]].data # Null
    BY <1>9, <1>10, CellAssumption DEF Handler
<1>12. serving' = [serving EXCEPT !.called = Append(serving.called, g),
                                  !.l_node = LinkTo(chains[irq], k + 1)]
    BY <1>7, <1>9, <1>11 DEF ServiceCall
<1>13. Append(SubSeq(registered[irq], 1, k - 1), g) = SubSeq(registered[irq], 1, k)
    BY <1>6, <1>7, <1>9, <1>10
<1>14. k + 1 \in 1 .. Len(chains[irq]) + 1 /\ (k + 1) - 1 = k
    BY <1>6, <1>7
<1>15. serving' = [irq |-> irq, l_node |-> LinkTo(chains[irq], k + 1),
                   called |-> SubSeq(registered[irq], 1, (k + 1) - 1)]
    BY <1>4, <1>12, <1>13, <1>14
<1>16. serving'.irq = irq
    BY <1>15
<1>17. ServingInv(chains)'
    BY <1>1, <1>5, <1>14, <1>15, <1>16 DEF ServingInv
<1> QED
    BY <1>1, <1>2, <1>17, ServingFrame

\* The interrupted code goes on.
LEMMA ServiceEndStep ==
    ASSUME NEW chains \in [Lines -> Seq(Cells)], NEW files \in Seq(Cells),
           ServicesShape(chains, files), ServiceEnd, UNCHANGED vfsVars
    PROVE  ServicesShape(chains, files)'
<1>1. /\ Interrupted /\ serving' = NotServing
      /\ mem' = mem /\ s_handlerList' = s_handlerList /\ adding' = adding
      /\ registered' = registered /\ orphans' = orphans /\ broken' = broken
    BY DEF ServiceEnd
<1>2. ~broken
    BY <1>1 DEF ServicesShape
<1>3. ServingInv(chains)'
    BY <1>1 DEF ServingInv, Interrupted
<1> QED
    BY <1>1, <1>2, <1>3, ServingFrame

-----------------------------------------------------------------------------
(* vfs.c. *)

\* The blocks of the virtual file system.
VfsUse(files, c) ==
    \/ \E v \in {s_rootNode, mounting.l_target} \ {Null} : c = v \/ c = mem[v].data
    \/ \E k \in 1 .. Len(files) : c = files[k]

\* A step of vfs.c leaves the handlers alone; the blocks that it does not use keep
\* their places.
LEMMA VfsFrame ==
    ASSUME NEW chains \in [Lines -> Seq(Cells)], NEW files \in Seq(Cells),
           ServicesShape(chains, files), TaskInVfs, UNCHANGED irqVars,
           NEW more \in Seq(Cells), FilesInv(more)', RootInv', FilesApart(chains, more),
           mem' \in [Cells -> Blocks],
           \A c \in Cells : mem[c].kind \in {"node", "handler"} => mem'[c] = mem[c],
           \A c \in Cells : mem'[c] # Free =>
               VfsUse(more, c)' \/ (mem[c] # Free /\ ~VfsUse(files, c))
    PROVE  ServicesShape(chains, more)'
<1>1. /\ ~Interrupted /\ ~broken /\ adding = NotAdding
      /\ s_handlerList' = s_handlerList /\ adding' = adding /\ serving' = serving
      /\ registered' = registered /\ orphans' = orphans /\ broken' = broken
    BY DEF TaskInVfs, irqVars
<1>2. /\ IntactInv(chains, files) /\ broken \in BOOLEAN
      /\ s_handlerList \in [Lines -> Cells \cup {Null}] /\ DOMAIN registered = Lines
    BY <1>1 DEF ServicesShape
<1>3. HandlersInv(chains)
    BY <1>2 DEF IntactInv
<1>4. \A i \in Lines : \A k \in 1 .. Len(chains[i]) :
          /\ chains[i][k] \in Cells /\ mem[chains[i][k]].kind = "node"
          /\ mem[chains[i][k]].data \in Cells
          /\ mem[mem[chains[i][k]].data].kind = "handler"
    BY <1>3, ChainCells
<1>5. \A i \in Lines : \A k \in 1 .. Len(chains[i]) :
          /\ mem'[chains[i][k]] = mem[chains[i][k]]
          /\ mem'[mem[chains[i][k]].data] = mem[mem[chains[i][k]].data]
    BY <1>4
<1>6. /\ HandlersInv(chains)'
      /\ \A c : LooseHandler(chains, c) /\ mem'[c] = mem[c] => LooseHandler(chains, c)'
    BY <1>1, <1>3, <1>5, HandlersFrame
<1>7. ASSUME NEW c \in orphans' PROVE LooseHandler(chains, c)'
  <2>1. LooseHandler(chains, c)
      BY <1>1, <1>2, <1>7 DEF IntactInv
  <2>2. mem'[c] = mem[c]
      BY <2>1 DEF LooseHandler
  <2> QED
      BY <1>6, <2>1, <2>2
<1>8. AddingInv(chains, more)' /\ ServingInv(chains)' /\ FilesApart(chains, more)'
    BY <1>1, IdleAdding DEF ServingInv, Interrupted, FilesApart
<1>9. ASSUME NEW c \in Cells, mem'[c] # Free PROVE InUse(chains, more, c)'
  <2>1. CASE VfsUse(more, c)'
      BY <2>1 DEF VfsUse, InUse
  <2>2. CASE mem[c] # Free /\ ~VfsUse(files, c)
    <3>1. InUse(chains, files, c)
        BY <1>2, <2>2 DEF IntactInv
    <3>2. \/ \E i \in Lines : \E k \in 1 .. Len(chains[i]) :
                c = chains[i][k] \/ c = mem[chains[i][k]].data
          \/ c \in InCall \/ c \in orphans
        BY <2>2, <3>1 DEF InUse, VfsUse
    <3>3. c \notin InCall
        BY <1>1 DEF InCall, NotAdding
    <3>4. CASE c \in orphans
        BY <1>1, <3>4 DEF InUse
    <3>5. CASE \E i \in Lines : \E k \in 1 .. Len(chains[i]) :
                   c = chains[i][k] \/ c = mem[chains[i][k]].data
        BY <1>5, <3>5 DEF InUse
    <3> QED
        BY <3>2, <3>3, <3>4, <3>5
  <2> QED
      BY <1>9, <2>1, <2>2
<1>10. IntactInv(chains, more)'
    BY <1>6, <1>7, <1>8, <1>9 DEF IntactInv
<1> QED
    BY <1>1, <1>2, <1>10 DEF ServicesShape

\* Steps of vfs.c that leave the heap and the list alone, and that keep the root or
\* take the target of the mount for it.
LEMMA SameHeap ==
    ASSUME NEW chains \in [Lines -> Seq(Cells)], NEW files \in Seq(Cells),
           ServicesShape(chains, files), TaskInVfs, UNCHANGED irqVars,
           mem' = mem, s_fileSystemList' = s_fileSystemList, fsAdded' = fsAdded, RootInv',
           {s_rootNode', mounting'.l_target} \ {Null} = {s_rootNode, mounting.l_target} \ {Null}
    PROVE  ServicesShape(chains, files)'
<1>1. /\ mem \in [Cells -> Blocks] /\ FilesInv(files) /\ FilesApart(chains, files)
    BY DEF ServicesShape, TaskInVfs, IntactInv
<1>2. FilesInv(files)'
    BY <1>1, FilesFrame
<1>3. \A c : VfsUse(files, c)' <=> VfsUse(files, c)
    BY DEF VfsUse
<1>4. \A c \in Cells : mem'[c] # Free =>
          VfsUse(files, c)' \/ (mem[c] # Free /\ ~VfsUse(files, c))
    BY <1>3
<1> QED
    BY <1>1, <1>2, <1>4, VfsFrame

\* vfs_mount on the root.
LEMMA MountOnStep ==
    ASSUME NEW chains \in [Lines -> Seq(Cells)], NEW files \in Seq(Cells),
           ServicesShape(chains, files), TaskInVfs, MountOn(s_rootNode), UNCHANGED irqVars
    PROVE  ServicesShape(chains, files)'
<1>1. /\ mounting = NotMounting /\ s_rootNode # Null
      /\ mounting' = [l_target |-> s_rootNode, p_target |-> s_rootNode]
      /\ mem' = mem /\ s_rootNode' = s_rootNode
      /\ s_fileSystemList' = s_fileSystemList /\ fsAdded' = fsAdded
    BY DEF MountOn
<1>2. IsRoot(s_rootNode) /\ s_rootNode \in Cells
    BY <1>1 DEF ServicesShape, RootInv, IsRoot
<1>3. mounting'.l_target = s_rootNode /\ mounting'.p_target = s_rootNode
      /\ mounting.l_target = Null
    BY <1>1 DEF NotMounting
<1>4. IsRoot(s_rootNode)' /\ IsRoot(mounting.l_target)'
    BY <1>1, <1>2, <1>3 DEF IsRoot
<1>5. RootInv'
    BY <1>1, <1>2, <1>3, <1>4 DEF RootInv
<1>6. {s_rootNode', mounting'.l_target} \ {Null} = {s_rootNode, mounting.l_target} \ {Null}
    BY <1>1, <1>3
<1> QED
    BY <1>1, <1>5, <1>6, SameHeap

\* The file system has mounted: a root that was allocated for it is the root.
LEMMA MountDoneStep ==
    ASSUME NEW chains \in [Lines -> Seq(Cells)], NEW files \in Seq(Cells),
           ServicesShape(chains, files), TaskInVfs, MountDone, UNCHANGED irqVars
    PROVE  ServicesShape(chains, files)'
<1>1. /\ mounting # NotMounting /\ mounting' = NotMounting
      /\ s_rootNode' = IF mounting.p_target # Null THEN s_rootNode ELSE mounting.l_target
      /\ mem' = mem /\ s_fileSystemList' = s_fileSystemList /\ fsAdded' = fsAdded
    BY DEF MountDone
<1>2. /\ mounting.p_target = s_rootNode /\ mounting.l_target # Null
      /\ s_rootNode # Null => mounting.l_target = s_rootNode
      /\ IsRoot(mounting.l_target)
    BY <1>1 DEF ServicesShape, RootInv
<1>3. s_rootNode' = mounting.l_target
    BY <1>1, <1>2
<1>4. IsRoot(s_rootNode)'
    BY <1>1, <1>2, <1>3 DEF IsRoot
<1>5. RootInv'
    BY <1>1, <1>4 DEF RootInv, NotMounting
<1>6. {s_rootNode', mounting'.l_target} \ {Null} = {s_rootNode, mounting.l_target} \ {Null}
    BY <1>1, <1>2, <1>3 DEF NotMounting
<1> QED
    BY <1>1, <1>5, <1>6, SameHeap

\* The two blocks of a new root.
LEMMA MountRootStep ==
    ASSUME NEW chains \in [Lines -> Seq(Cells)], NEW files \in Seq(Cells),
           ServicesShape(chains, files), TaskInVfs, MountRoot, UNCHANGED irqVars
    PROVE  ServicesShape(chains, files)'
<1>1. /\ mounting = NotMounting /\ s_rootNode = Null /\ s_rootNode' = s_rootNode
      /\ s_fileSystemList' = s_fileSystemList /\ fsAdded' = fsAdded
    BY DEF MountRoot
<1>2. PICK l_target \in malloc \ {Null} : \E l_treeNode \in malloc \ {Null, l_target} :
          /\ mem' = [mem EXCEPT ![l_target] = Vnode(l_treeNode), ![l_treeNode] = Tree(l_target)]
          /\ mounting' = [l_target |-> l_target, p_target |-> Null]
    BY DEF MountRoot
<1>3. PICK l_treeNode \in malloc \ {Null, l_target} :
          /\ mem' = [mem EXCEPT ![l_target] = Vnode(l_treeNode), ![l_treeNode] = Tree(l_target)]
          /\ mounting' = [l_target |-> l_target, p_target |-> Null]
    BY <1>2
<1>4. /\ mem \in [Cells -> Blocks] /\ FilesInv(files) /\ FilesApart(chains, files)
    BY DEF ServicesShape, TaskInVfs, IntactInv
<1>5. /\ l_target \in Cells /\ mem[l_target].kind = "free" /\ l_target # Null
      /\ l_treeNode \in Cells /\ mem[l_treeNode].kind = "free" /\ l_target # l_treeNode
    BY MallocFacts
<1>6. Vnode(l_treeNode) \in Blocks /\ Tree(l_target) \in Blocks
    BY <1>5 DEF Vnode, Tree, Blocks
<1>7. /\ mem' \in [Cells -> Blocks]
      /\ mem'[l_target] = Vnode(l_treeNode) /\ mem'[l_treeNode] = Tree(l_target)
      /\ \A c \in Cells : c # l_target /\ c # l_treeNode => mem'[c] = mem[c]
    BY <1>3, <1>4, <1>5, <1>6
<1>8. \A c \in Cells : mem[c].kind \in {"node", "handler"} => mem'[c] = mem[c]
    BY <1>5, <1>7
<1>9. \A k \in 1 .. Len(files) : files[k] \in Cells /\ mem[files[k]].kind = "node"
    BY <1>4 DEF FilesInv, IsChain
<1>10. FilesInv(files)'
    BY <1>1, <1>4, <1>8, <1>9, FilesFrame
<1>11. mounting'.l_target = l_target /\ mounting'.p_target = Null
    BY <1>3
<1>12. IsRoot(mounting.l_target)'
  <2>1. mem'[l_target].data = l_treeNode
      BY <1>7 DEF Vnode
  <2> QED
      BY <1>5, <1>7, <1>11, <2>1 DEF IsRoot
<1>13. RootInv'
    BY <1>1, <1>3, <1>5, <1>11, <1>12 DEF RootInv
<1>14. ASSUME NEW c \in Cells, mem'[c] # Free
       PROVE  VfsUse(files, c)' \/ (mem[c] # Free /\ ~VfsUse(files, c))
  <2>1. CASE c = l_target \/ c = l_treeNode
    <3>1. mem'[l_target].data = l_treeNode
        BY <1>7 DEF Vnode
    <3> QED
        BY <1>5, <1>11, <2>1, <3>1 DEF VfsUse
  <2>2. CASE c # l_target /\ c # l_treeNode
    <3>1. mem[c] # Free
        BY <1>7, <1>14, <2>2
    <3>2. CASE \E k \in 1 .. Len(files) : c = files[k]
        BY <3>2 DEF VfsUse
    <3>3. CASE ~\E k \in 1 .. Len(files) : c = files[k]
        BY <1>1, <3>1, <3>3 DEF VfsUse, NotMounting
    <3> QED
        BY <3>2, <3>3
  <2> QED
      BY <2>1, <2>2
<1> QED
    BY <1>4, <1>7, <1>8, <1>10, <1>13, <1>14, VfsFrame

\* A root that nobody has mounted on is given back, and no other.
LEMMA MountFailedStep ==
    ASSUME NEW chains \in [Lines -> Seq(Cells)], NEW files \in Seq(Cells),
           ServicesShape(chains, files), TaskInVfs, MountFailed, UNCHANGED irqVars
    PROVE  ServicesShape(chains, files)'
<1>0. PICK v : v = mounting.l_target
    OBVIOUS
<1>1. /\ mounting # NotMounting /\ mounting' = NotMounting /\ s_rootNode' = s_rootNode
      /\ mem' = IF mounting.p_target # Null THEN mem
                ELSE [mem EXCEPT ![v] = Free, ![mem[v].data] = Free]
      /\ s_fileSystemList' = s_fileSystemList /\ fsAdded' = fsAdded
    BY <1>0 DEF MountFailed
<1>2. /\ mem \in [Cells -> Blocks] /\ FilesInv(files) /\ FilesApart(chains, files) /\ RootInv
    BY DEF ServicesShape, TaskInVfs, IntactInv
<1>3. /\ mounting.p_target = s_rootNode /\ v # Null
      /\ s_rootNode # Null => v = s_rootNode
      /\ IsRoot(v)
    BY <1>0, <1>1, <1>2 DEF RootInv
<1>4. mounting'.l_target = Null
    BY <1>1 DEF NotMounting
<1>5. CASE mounting.p_target # Null
  <2>1. mem' = mem
      BY <1>1, <1>5
  <2>2. {s_rootNode', mounting'.l_target} \ {Null} = {s_rootNode, mounting.l_target} \ {Null}
      BY <1>0, <1>1, <1>3, <1>4, <1>5
  <2>3. IsRoot(s_rootNode)'
    <3>1. s_rootNode' = v
        BY <1>1, <1>3, <1>5
    <3> QED
        BY <1>3, <2>1, <3>1 DEF IsRoot
  <2>4. RootInv'
      BY <1>1, <1>4, <2>3 DEF RootInv, NotMounting
  <2> QED
      BY <1>1, <2>1, <2>2, <2>4, SameHeap
<1>6. CASE mounting.p_target = Null
  <2>1. PICK t : t = mem[v].data
      OBVIOUS
  <2>2. mem' = [mem EXCEPT ![v] = Free, ![t] = Free]
      BY <1>1, <1>6, <2>1
  <2>3. v \in Cells /\ t \in Cells /\ mem[v].kind = "vnode" /\ mem[t].kind = "tree"
      BY <1>3, <2>1 DEF IsRoot, Vnode, Tree
  <2>4. Free \in Blocks
      BY DEF Free, Blocks
  <2>5. /\ mem' \in [Cells -> Blocks] /\ mem'[v] = Free /\ mem'[t] = Free
        /\ \A c \in Cells : c # v /\ c # t => mem'[c] = mem[c]
      BY <1>2, <2>2, <2>3, <2>4
  <2>6. \A c \in Cells : mem[c].kind \in {"node", "handler"} => mem'[c] = mem[c]
      BY <2>3, <2>5
  <2>7. \A k \in 1 .. Len(files) : files[k] \in Cells /\ mem[files[k]].kind = "node"
      BY <1>2 DEF FilesInv, IsChain
  <2>8. FilesInv(files)'
      BY <1>1, <1>2, <2>6, <2>7, FilesFrame
  <2>9. s_rootNode = Null
      BY <1>3, <1>6
  <2>10. RootInv'
      BY <1>1, <1>4, <2>9 DEF RootInv, NotMounting
  <2>11. ASSUME NEW c \in Cells, mem'[c] # Free
         PROVE  VfsUse(files, c)' \/ (mem[c] # Free /\ ~VfsUse(files, c))
    <3>1. c # v /\ c # t /\ mem[c] # Free
        BY <2>5, <2>11
    <3>2. CASE \E k \in 1 .. Len(files) : c = files[k]
        BY <3>2 DEF VfsUse
    <3>3. CASE ~\E k \in 1 .. Len(files) : c = files[k]
      <4>1. \A w \in {s_rootNode, mounting.l_target} \ {Null} : w = v /\ mem[w].data = t
          BY <1>0, <2>1, <2>9
      <4> QED
          BY <3>1, <3>3, <4>1 DEF VfsUse
    <3> QED
        BY <3>2, <3>3
  <2> QED
      BY <1>2, <2>5, <2>6, <2>8, <2>10, <2>11, VfsFrame
<1> QED
    BY <1>5, <1>6

\* A file system goes in front of the others.
LEMMA RegisterStep ==
    ASSUME NEW chains \in [Lines -> Seq(Cells)], NEW files \in Seq(Cells),
           ServicesShape(chains, files), TaskInVfs, NEW fs \in FileSystems,
           vfs_registerFileSystem(fs), UNCHANGED irqVars
    PROVE  \E more \in Seq(Cells) : ServicesShape(chains, more)'
<1>1. /\ fsAdded' = <<fs>> \o fsAdded /\ s_rootNode' = s_rootNode /\ mounting' = mounting
    BY DEF vfs_registerFileSystem
<1>2. PICK node \in malloc :
          /\ node # Null /\ mem' = [mem EXCEPT ![node] = Linked(s_fileSystemList, fs)]
          /\ s_fileSystemList' = node
    BY DEF vfs_registerFileSystem
<1>3. /\ mem \in [Cells -> Blocks] /\ FilesInv(files) /\ FilesApart(chains, files) /\ RootInv
      /\ ~broken /\ HandlersInv(chains)
    BY DEF ServicesShape, TaskInVfs, IntactInv
<1>4. node \in Cells /\ mem[node].kind = "free"
    BY <1>2, MallocFacts
<1>5. Len(files) \in Nat /\ \A k \in 1 .. Len(files) : files[k] \in Cells
    OBVIOUS
<1>6. /\ s_fileSystemList = LinkTo(files, 1)
      /\ fsAdded \in Seq(FileSystems) /\ Len(fsAdded) = Len(files)
      /\ \A k \in 1 .. Len(files) :
           /\ mem[files[k]].kind = "node" /\ mem[files[k]].next = LinkTo(files, k + 1)
           /\ mem[files[k]].data = fsAdded[k]
      /\ \A k, l \in 1 .. Len(files) : files[k] = files[l] => k = l
    BY <1>3 DEF FilesInv, IsChain
<1>7. s_fileSystemList \in Cells \cup {Null}
    BY <1>5, <1>6 DEF LinkTo
<1>8. PICK new : new = Linked(s_fileSystemList, fs)
    OBVIOUS
<1>9. new \in Blocks /\ new.kind = "node" /\ new.next = LinkTo(files, 1) /\ new.data = fs
    BY <1>6, <1>7, <1>8 DEF Linked, Node, Blocks
<1>10. /\ mem' \in [Cells -> Blocks] /\ mem'[node] = new
       /\ \A c \in Cells : c # node => mem'[c] = mem[c]
    BY <1>2, <1>3, <1>4, <1>8, <1>9
<1>11. \A c \in Cells : mem[c].kind # "free" => mem'[c] = mem[c]
    BY <1>4, <1>10
<1>12. PICK more : more = <<node>> \o files
    OBVIOUS
<1>13. /\ more \in Seq(Cells) /\ Len(more) = Len(files) + 1 /\ more[1] = node
       /\ \A k \in 1 .. Len(files) : more[k + 1] = files[k]
    BY <1>4, <1>5, <1>12
<1>14. ASSUME NEW k \in 1 .. Len(more)
       PROVE  \/ k = 1 /\ more[k] = node
              \/ /\ k - 1 \in 1 .. Len(files) /\ (k - 1) + 1 = k /\ more[k] = files[k - 1]
                 /\ more[k] # node /\ mem'[more[k]] = mem[files[k - 1]]
  <2>1. CASE k = 1
      BY <1>13, <2>1
  <2>2. CASE k # 1
    <3>1. k - 1 \in 1 .. Len(files) /\ (k - 1) + 1 = k
        BY <1>5, <1>13, <2>2
    <3>2. more[k] = files[k - 1]
        BY <1>13, <3>1
    <3>3. files[k - 1] \in Cells /\ mem[files[k - 1]].kind = "node"
        BY <1>5, <1>6, <3>1
    <3> QED
        BY <1>4, <1>11, <3>1, <3>2, <3>3
  <2> QED
      BY <2>1, <2>2
<1>15. PICK added : added = <<fs>> \o fsAdded
    OBVIOUS
<1>16. /\ added \in Seq(FileSystems) /\ Len(added) = Len(more) /\ added[1] = fs
       /\ \A k \in 1 .. Len(files) : added[k + 1] = fsAdded[k]
    BY <1>6, <1>13, <1>15
<1>17. \A k \in 1 .. Len(files) + 1 : LinkTo(more, k + 1) = LinkTo(files, k)
    BY <1>5, <1>13 DEF LinkTo
<1>18. ASSUME NEW k \in 1 .. Len(more)
       PROVE  /\ mem'[more[k]].kind = "node" /\ mem'[more[k]].next = LinkTo(more, k + 1)
              /\ mem'[more[k]].data = added[k]
  <2>1. CASE k = 1
    <3>1. LinkTo(more, 2) = LinkTo(files, 1)
        BY <1>5, <1>17
    <3> QED
        BY <1>9, <1>10, <1>13, <1>16, <2>1, <3>1
  <2>2. CASE k # 1
    <3>1. /\ k - 1 \in 1 .. Len(files) /\ (k - 1) + 1 = k
          /\ mem'[more[k]] = mem[files[k - 1]]
        BY <1>14, <2>2
    <3>2. LinkTo(more, k + 1) = LinkTo(files, k) /\ added[k] = fsAdded[k - 1]
        BY <1>13, <1>16, <1>17, <3>1
    <3> QED
        BY <1>6, <3>1, <3>2
  <2> QED
      BY <2>1, <2>2
<1>19. ASSUME NEW k \in 1 .. Len(more), NEW l \in 1 .. Len(more), more[k] = more[l]
       PROVE  k = l
  <2>1. \/ k = 1 /\ more[k] = node
        \/ k - 1 \in 1 .. Len(files) /\ more[k] = files[k - 1] /\ more[k] # node
      BY <1>14
  <2>2. \/ l = 1 /\ more[l] = node
        \/ l - 1 \in 1 .. Len(files) /\ more[l] = files[l - 1] /\ more[l] # node
      BY <1>14
  <2>3. CASE k = 1 \/ l = 1
      BY <1>13, <1>19, <2>1, <2>2, <2>3
  <2>4. CASE k # 1 /\ l # 1
    <3>1. k - 1 = l - 1
        BY <1>6, <1>19, <2>1, <2>2, <2>4
    <3> QED
        BY <3>1
  <2> QED
      BY <2>3, <2>4
<1>20. FilesInv(more)'
  <2>1. s_fileSystemList' = LinkTo(more, 1)
      BY <1>2, <1>5, <1>13 DEF LinkTo
  <2> QED
      BY <1>1, <1>15, <1>16, <1>18, <1>19, <2>1 DEF FilesInv, IsChain
<1>21. ASSUME NEW v \in {s_rootNode, mounting.l_target} \ {Null}
       PROVE  mem'[v] = mem[v] /\ mem'[mem[v].data] = mem[mem[v].data]
  <2>1. IsRoot(v)
      BY <1>3 DEF RootInv
  <2>2. /\ v \in Cells /\ mem[v].data \in Cells
        /\ mem[v].kind = "vnode" /\ mem[mem[v].data].kind = "tree"
      BY <2>1 DEF IsRoot, Vnode, Tree
  <2> QED
      BY <1>11, <2>2
<1>22. RootInv'
    BY <1>1, <1>3, <1>21, RootFrame
<1>23. FilesApart(chains, more)
  <2>1. \A i \in Lines : \A k \in 1 .. Len(chains[i]) : mem[chains[i][k]].kind = "node"
      BY <1>3, ChainCells
  <2>2. ASSUME NEW i \in Lines, NEW k \in 1 .. Len(chains[i]), NEW l \in 1 .. Len(more)
        PROVE  chains[i][k] # more[l]
    <3>1. more[l] = node \/ \E m \in 1 .. Len(files) : more[l] = files[m]
        BY <1>14
    <3> QED
        BY <1>3, <1>4, <2>1, <3>1 DEF FilesApart
  <2> QED
      BY <2>2 DEF FilesApart
<1>24. ASSUME NEW c \in Cells, mem'[c] # Free
       PROVE  VfsUse(more, c)' \/ (mem[c] # Free /\ ~VfsUse(files, c))
  <2>1. CASE c = node
    <3>1. 1 \in 1 .. Len(more)
        BY <1>5, <1>13
    <3> QED
        BY <1>13, <2>1, <3>1 DEF VfsUse
  <2>2. CASE c # node /\ VfsUse(files, c)
    <3>1. CASE \E v \in {s_rootNode, mounting.l_target} \ {Null} : c = v \/ c = mem[v].data
      <4>1. PICK v \in {s_rootNode, mounting.l_target} \ {Null} : c = v \/ c = mem[v].data
          BY <3>1
      <4>2. v \in {s_rootNode', mounting'.l_target} \ {Null} /\ (c = v \/ c = mem'[v].data)
          BY <1>1, <1>21, <4>1
      <4> QED
          BY <4>2 DEF VfsUse
    <3>2. CASE \E k \in 1 .. Len(files) : c = files[k]
      <4>1. PICK k \in 1 .. Len(files) : c = files[k]
          BY <3>2
      <4>2. k + 1 \in 1 .. Len(more) /\ c = more[k + 1]
          BY <1>5, <1>13, <4>1
      <4> QED
          BY <4>2 DEF VfsUse
    <3> QED
        BY <2>2, <3>1, <3>2 DEF VfsUse
  <2>3. CASE c # node /\ ~VfsUse(files, c)
      BY <1>10, <1>24, <2>3
  <2> QED
      BY <2>1, <2>2, <2>3
<1>25. \A c \in Cells : mem[c].kind \in {"node", "handler"} => mem'[c] = mem[c]
    BY <1>11
<1>26. ServicesShape(chains, more)'
    BY <1>10, <1>13, <1>20, <1>22, <1>23, <1>24, <1>25, VfsFrame
<1> QED
    BY <1>13, <1>26

-----------------------------------------------------------------------------
(* The invariant. *)

\* At first the heap is free and the lists are empty.
LEMMA InitServices ==
    ASSUME Init
    PROVE  ServicesInv
<1>1. PICK chains, files : chains = [i \in Lines |-> <<>>] /\ files = <<>>
    OBVIOUS
<1>2. /\ chains \in [Lines -> Seq(Cells)] /\ files \in Seq(Cells) /\ Len(files) = 0
      /\ \A i \in Lines : Len(chains[i]) = 0
    BY <1>1
<1>3. Free \in Blocks
    BY DEF Free, Blocks
<1>4. /\ mem \in [Cells -> Blocks] /\ \A c \in Cells : mem[c] = Free
      /\ s_handlerList \in [Lines -> Cells \cup {Null}] /\ DOMAIN registered = Lines
      /\ broken \in BOOLEAN
    BY <1>3 DEF Init, irq_init
<1>5. FilesInv(files)
    BY <1>2 DEF Init, vfs_init, FilesInv, IsChain, LinkTo
<1>6. RootInv
    BY DEF Init, vfs_init, RootInv, NotMounting
<1>7. HandlersInv(chains)
    BY <1>2 DEF Init, irq_init, HandlersInv, IsChain, LinkTo
<1>8. AddingInv(chains, files)
    BY DEF Init, irq_init, AddingInv, NotAdding
<1>9. ServingInv(chains) /\ FilesApart(chains, files)
    BY <1>2 DEF Init, irq_init, ServingInv, Interrupted, FilesApart
<1>10. IntactInv(chains, files)
    BY <1>4, <1>7, <1>8, <1>9 DEF Init, irq_init, IntactInv
<1>11. ServicesShape(chains, files)
    BY <1>4, <1>5, <1>6, <1>10 DEF Init, irq_init, ServicesShape
<1> QED
    BY <1>2, <1>11 DEF ServicesInv

\* Every step keeps it.
LEMMA NextServices ==
    ASSUME ServicesInv, [Next]_vars
    PROVE  ServicesInv'
<1>1. PICK chains \in [Lines -> Seq(Cells)], files \in Seq(Cells) : ServicesShape(chains, files)
    BY DEF ServicesInv
<1>2. ASSUME NEW irq \in Lines, NEW h \in Handlers, AddCall(irq, h), UNCHANGED vfsVars
      PROVE  ServicesInv'
    BY <1>1, <1>2, AddCallStep DEF ServicesInv
<1>3. ASSUME NEW irq \in Lines, NEW h \in Handlers, irq_removeHandler(irq, h), UNCHANGED vfsVars
      PROVE  ServicesInv'
    BY <1>1, <1>3, RemoveStep DEF ServicesInv
<1>4. CASE AddNode /\ UNCHANGED vfsVars
    BY <1>1, <1>4, AddNodeStep DEF ServicesInv
<1>5. CASE AddLink /\ UNCHANGED vfsVars
    BY <1>1, <1>5, AddLinkStep DEF ServicesInv
<1>6. CASE AddPublish /\ UNCHANGED vfsVars
    BY <1>1, <1>6, AddPublishStep DEF ServicesInv
<1>7. ASSUME NEW irq \in Lines, ServiceStart(irq), UNCHANGED vfsVars PROVE ServicesInv'
    BY <1>1, <1>7, ServiceStartStep DEF ServicesInv
<1>8. CASE ServiceCall /\ UNCHANGED vfsVars
    BY <1>1, <1>8, ServiceCallStep DEF ServicesInv
<1>9. CASE ServiceEnd /\ UNCHANGED vfsVars
    BY <1>1, <1>9, ServiceEndStep DEF ServicesInv
<1>10. CASE TaskInVfs /\ MountRoot /\ UNCHANGED irqVars
    BY <1>1, <1>10, MountRootStep DEF ServicesInv
<1>11. CASE TaskInVfs /\ MountOn(s_rootNode) /\ UNCHANGED irqVars
    BY <1>1, <1>11, MountOnStep DEF ServicesInv
<1>12. CASE TaskInVfs /\ MountFailed /\ UNCHANGED irqVars
    BY <1>1, <1>12, MountFailedStep DEF ServicesInv
<1>13. CASE TaskInVfs /\ MountDone /\ UNCHANGED irqVars
    BY <1>1, <1>13, MountDoneStep DEF ServicesInv
<1>14. ASSUME NEW fs \in FileSystems, TaskInVfs, vfs_registerFileSystem(fs), UNCHANGED irqVars
       PROVE  ServicesInv'
    BY <1>1, <1>14, RegisterStep DEF ServicesInv
<1>15. CASE UNCHANGED vars
  <2>1. /\ mem' = mem /\ s_handlerList' = s_handlerList /\ adding' = adding /\ serving' = serving
        /\ registered' = registered /\ orphans' = orphans /\ broken' = broken
        /\ s_rootNode' = s_rootNode /\ s_fileSystemList' = s_fileSystemList
        /\ mounting' = mounting /\ fsAdded' = fsAdded /\ UNCHANGED vfsVars
      BY <1>15 DEF vars, irqVars, vfsVars
  <2>2. CASE broken
      BY <1>1, <2>1, <2>2 DEF ServicesInv, ServicesShape, FilesInv, IsChain, RootInv, IsRoot,
         Interrupted
  <2>3. CASE ~broken
    <3>1. ServingInv(chains)'
        BY <1>1, <2>1, <2>3 DEF ServicesShape, IntactInv, ServingInv, Interrupted
    <3> QED
        BY <1>1, <2>1, <2>3, <3>1, ServingFrame DEF ServicesInv
  <2> QED
      BY <2>2, <2>3
<1> QED
    BY <1>2, <1>3, <1>4, <1>5, <1>6, <1>7, <1>8, <1>9, <1>10, <1>11, <1>12, <1>13, <1>14, <1>15
       DEF Next, irqNext, vfsNext

\* At every moment the lists of handlers and of file systems are chains of nodes of
\* their own that hold what has been added, a call of irq_addHandler that is under way
\* owns its blocks until the head is written, an interrupt has called the handlers of the
\* nodes it has passed, and every block in use has one place.
THEOREM ServicesInvariant == Spec => []ServicesInv
<1>1. Init => ServicesInv
    BY InitServices
<1>2. ServicesInv /\ [Next]_vars => ServicesInv'
    BY NextServices
<1> QED
    BY <1>1, <1>2, PTL DEF Spec

\* irq_service calls exactly the handlers of its line, the newest first, each once, at
\* whatever point of irq_addHandler it comes.
THEOREM InterruptServesRegistered == Spec => []ServesRegistered
<1>1. ASSUME ServicesInv, Interrupted
      PROVE  LET rest == Items(serving.l_node)
             IN  serving.called \o [i \in DOMAIN rest |-> mem[rest[i]].data]
                    = registered[serving.irq]
  <2>1. PICK chains \in [Lines -> Seq(Cells)], files \in Seq(Cells) :
            ServicesShape(chains, files)
      BY <1>1 DEF ServicesInv
  <2>2. mem \in [Cells -> Blocks] /\ HandlersInv(chains) /\ ServingInv(chains)
      BY <1>1, <2>1 DEF ServicesShape, IntactInv
  <2>3. PICK irq : irq = serving.irq
      OBVIOUS
  <2>4. irq \in Lines
      BY <1>1, <2>2, <2>3 DEF ServingInv
  <2>5. PICK k \in 1 .. Len(chains[irq]) + 1 :
            serving = [irq |-> irq, l_node |-> LinkTo(chains[irq], k),
                       called |-> SubSeq(registered[irq], 1, k - 1)]
      BY <1>1, <2>2, <2>3 DEF ServingInv
  <2>6. PICK seq, reg : seq = chains[irq] /\ reg = registered[irq]
      OBVIOUS
  <2>7. /\ seq \in Seq(Cells) /\ reg \in Seq(Handlers) /\ Len(reg) = Len(seq)
        /\ IsChain(s_handlerList[irq], seq) /\ Len(seq) \in Nat /\ k \in 1 .. Len(seq) + 1
        /\ \A m, n \in 1 .. Len(seq) : seq[m] = seq[n] => m = n
        /\ \A m \in 1 .. Len(seq) : mem[mem[seq[m]].data] = Handler(reg[m])
    <3>1. chains[irq] \in Seq(Cells) /\ Len(chains[irq]) \in Nat
        BY <2>4
    <3>2. /\ registered[irq] \in Seq(Handlers) /\ Len(registered[irq]) = Len(chains[irq])
          /\ IsChain(s_handlerList[irq], chains[irq])
          /\ \A m \in 1 .. Len(chains[irq]) :
               mem[mem[chains[irq][m]].data] = Handler(registered[irq][m])
        BY <2>2, <2>4 DEF HandlersInv
    <3>3. \A m, n \in 1 .. Len(chains[irq]) : chains[irq][m] = chains[irq][n] => m = n
        BY <2>2, <2>4 DEF HandlersInv
    <3> QED
        BY <2>6, <3>1, <3>2, <3>3
  <2>8. PICK head : head = s_handlerList[irq]
      OBVIOUS
  <2>9. Chain(serving.l_node) = SubSeq(seq, k, Len(seq))
    <3>1. \A m \in 1 .. Len(seq) + 1 : Chain(LinkTo(seq, m)) = SubSeq(seq, m, Len(seq))
        BY <2>2, <2>7, <2>8, ReadsChain
    <3>2. serving.l_node = LinkTo(seq, k)
        BY <2>5, <2>6
    <3> QED
        BY <2>7, <3>1, <3>2
  <2>10. PICK tail : tail = SubSeq(seq, k, Len(seq))
      OBVIOUS
  <2>11. /\ tail \in Seq(Cells) /\ DOMAIN tail = 1 .. Len(seq) - k + 1
         /\ \A i \in 1 .. Len(seq) - k + 1 : tail[i] = seq[k + i - 1]
      BY <2>7, <2>10
  <2>12. PICK rest : rest = Items(serving.l_node)
      OBVIOUS
  <2>13. rest = [i \in 1 .. Len(seq) - k + 1 |-> mem[tail[i]].data]
      BY <2>9, <2>10, <2>11, <2>12 DEF Items
  <2>14. \A m \in 1 .. Len(seq) : mem[mem[seq[m]].data].data = reg[m]
    <3>1. ASSUME NEW m \in 1 .. Len(seq) PROVE mem[mem[seq[m]].data].data = reg[m]
      <4>1. mem[mem[seq[m]].data] = Handler(reg[m])
          BY <2>7
      <4> QED
          BY <4>1 DEF Handler
    <3> QED
        BY <3>1
  <2>15. PICK called : called = [i \in DOMAIN rest |-> mem[rest[i]].data]
      OBVIOUS
  <2>16. called = [i \in 1 .. Len(seq) - k + 1 |-> reg[k + i - 1]]
    <3>1. \A i \in 1 .. Len(seq) - k + 1 : k + i - 1 \in 1 .. Len(seq)
        BY <2>7
    <3>2. \A i \in 1 .. Len(seq) - k + 1 : mem[rest[i]].data = reg[k + i - 1]
        BY <2>11, <2>13, <2>14, <3>1
    <3> QED
        BY <2>13, <2>15, <3>2
  <2>17. called = SubSeq(reg, k, Len(reg))
      BY <2>7, <2>16
  <2>18. SubSeq(reg, 1, k - 1) \o SubSeq(reg, k, Len(reg)) = reg
    <3>1. PICK a, b : a = SubSeq(reg, 1, k - 1) /\ b = SubSeq(reg, k, Len(reg))
        OBVIOUS
    <3>2. /\ a \in Seq(Handlers) /\ Len(a) = k - 1
          /\ \A i \in 1 .. k - 1 : a[i] = reg[i]
        BY <2>7, <3>1
    <3>3. /\ b \in Seq(Handlers) /\ Len(b) = Len(reg) - k + 1
          /\ \A i \in 1 .. Len(reg) - k + 1 : b[i] = reg[k + i - 1]
        BY <2>7, <3>1
    <3>4. a \o b \in Seq(Handlers) /\ Len(a \o b) = Len(reg)
        BY <2>7, <3>2, <3>3
    <3>5. ASSUME NEW i \in 1 .. Len(reg) PROVE (a \o b)[i] = reg[i]
      <4>1. CASE i <= k - 1
          BY <2>7, <3>2, <3>3, <4>1
      <4>2. CASE i > k - 1
        <5>1. (a \o b)[i] = b[i - (k - 1)]
            BY <2>7, <3>2, <3>3, <4>2
        <5>2. i - (k - 1) \in 1 .. Len(reg) - k + 1 /\ k + (i - (k - 1)) - 1 = i
            BY <2>7, <4>2
        <5> QED
            BY <3>3, <5>1, <5>2
      <4>3. i \in Int /\ k \in Int
          BY <2>7
      <4>4. i <= k - 1 \/ i > k - 1
          BY <4>3
      <4> QED
          BY <4>1, <4>2, <4>4, Zenon
    <3>6. a \o b = reg
        BY <2>7, <3>4, <3>5, SeqEqual
    <3> QED
        BY <3>1, <3>6
  <2>19. serving.called = SubSeq(reg, 1, k - 1)
      BY <2>5, <2>6
  <2> QED
      BY <2>3, <2>6, <2>12, <2>15, <2>17, <2>18, <2>19
<1>2. ServicesInv => ServesRegistered
    BY <1>1 DEF ServesRegistered
<1> QED
    BY <1>2, ServicesInvariant, PTL

\* The root of the tree is never taken away.
THEOREM RootIsWhole == Spec => []RootWhole
<1>1. ASSUME ServicesInv, s_rootNode # Null
      PROVE  mem[s_rootNode].kind = "vnode" /\ mem[mem[s_rootNode].data] = Tree(s_rootNode)
  <2>1. IsRoot(s_rootNode)
      BY <1>1 DEF ServicesInv, ServicesShape, RootInv
  <2> QED
      BY <2>1 DEF IsRoot, Vnode
<1>2. ServicesInv => RootWhole
    BY <1>1 DEF RootWhole
<1> QED
    BY <1>2, ServicesInvariant, PTL

\* A name leads to the file system that was registered last under it.
THEOREM NewestIsFound == Spec => []FindsNewest
<1>1. ASSUME ServicesInv PROVE Items(s_fileSystemList) = fsAdded
  <2>1. PICK chains \in [Lines -> Seq(Cells)], files \in Seq(Cells) :
            ServicesShape(chains, files)
      BY <1>1 DEF ServicesInv
  <2>2. Items(s_fileSystemList) = [k \in 1 .. Len(files) |-> mem[files[k]].data]
      BY <2>1, WalkedLists
  <2>3. /\ fsAdded \in Seq(FileSystems) /\ Len(fsAdded) = Len(files)
        /\ \A k \in 1 .. Len(files) : mem[files[k]].data = fsAdded[k]
      BY <2>1 DEF ServicesShape, FilesInv
  <2> QED
      BY <2>2, <2>3
<1>2. ServicesInv => FindsNewest
    BY <1>1, Zenon DEF FindsNewest, vfs_getFileSystemByName, SelectInSeq
<1> QED
    BY <1>2, ServicesInvariant, PTL

\* No block is lost but those of removed handlers, and none is used in two places,
\* whatever call has failed half way.
THEOREM BlocksHaveOnePlace == Spec => []BlocksAccounted
<1>1. ASSUME ServicesInv, ~broken
      PROVE  /\ {c \in Cells : mem[c] # Free} = InLists \cup InCall \cup InVfs \cup orphans
             /\ \A s, t \in {InLists, InCall, InVfs, orphans} : s = t \/ s \cap t = {}
  <2>1. PICK chains \in [Lines -> Seq(Cells)], files \in Seq(Cells) :
            ServicesShape(chains, files)
      BY <1>1 DEF ServicesInv
  <2>2. /\ IntactInv(chains, files) /\ FilesInv(files) /\ RootInv
        /\ HandlersInv(chains) /\ AddingInv(chains, files) /\ FilesApart(chains, files)
      BY <1>1, <2>1 DEF ServicesShape, IntactInv
  <2>3. \A i \in Lines : \A k \in 1 .. Len(chains[i]) :
            /\ chains[i][k] \in Cells /\ mem[chains[i][k]].kind = "node"
            /\ mem[chains[i][k]].data \in Cells
            /\ mem[mem[chains[i][k]].data].kind = "handler"
      BY <2>2, ChainCells
  <2>4. ASSUME NEW c
        PROVE  c \in InLists <=> \E i \in Lines : \E k \in 1 .. Len(chains[i]) :
                                     c = chains[i][k] \/ c = mem[chains[i][k]].data
    <3>1. ASSUME NEW i \in Lines
          PROVE  c \in Range(Chain(s_handlerList[i])) \cup Range(Items(s_handlerList[i])) <=>
                     \E k \in 1 .. Len(chains[i]) :
                         c = chains[i][k] \/ c = mem[chains[i][k]].data
      <4>1. /\ Chain(s_handlerList[i]) = chains[i]
            /\ Items(s_handlerList[i]) = [k \in 1 .. Len(chains[i]) |-> mem[chains[i][k]].data]
          BY <1>1, <2>1, WalkedLists
      <4>2. chains[i] \in Seq(Cells) /\ DOMAIN chains[i] = 1 .. Len(chains[i])
          OBVIOUS
      <4>3. c \in Range(Chain(s_handlerList[i])) <=>
                \E k \in 1 .. Len(chains[i]) : c = chains[i][k]
          BY <4>1, <4>2 DEF Range
      <4>4. c \in Range(Items(s_handlerList[i])) <=>
                \E k \in 1 .. Len(chains[i]) : c = mem[chains[i][k]].data
        <5>1. PICK items : items = Items(s_handlerList[i])
            OBVIOUS
        <5>2. /\ DOMAIN items = 1 .. Len(chains[i])
              /\ \A k \in 1 .. Len(chains[i]) : items[k] = mem[chains[i][k]].data
            BY <4>1, <5>1
        <5>3. c \in Range(items) <=> \E k \in 1 .. Len(chains[i]) : c = mem[chains[i][k]].data
            BY <5>2 DEF Range
        <5> QED
            BY <5>1, <5>3
      <4> QED
          BY <4>3, <4>4
    <3>2. c \in InLists <=> \E i \in Lines :
              c \in Range(Chain(s_handlerList[i])) \cup Range(Items(s_handlerList[i]))
        BY Zenon DEF InLists
    <3> QED
        BY <3>1, <3>2, Zenon
  <2>5. ASSUME NEW c PROVE c \in InVfs <=> VfsUse(files, c)
    <3>1. Chain(s_fileSystemList) = files /\ DOMAIN files = 1 .. Len(files)
        BY <2>1, WalkedLists
    <3> QED
        BY <3>1 DEF InVfs, VfsUse, Range
  <2>6. ASSUME NEW c \in InLists
        PROVE  /\ c \in Cells /\ mem[c].kind \in {"node", "handler"} /\ c \notin orphans
               /\ c \notin InCall /\ ~VfsUse(files, c)
    <3>1. PICK i \in Lines : \E k \in 1 .. Len(chains[i]) :
              c = chains[i][k] \/ c = mem[chains[i][k]].data
        BY <2>4, <2>6
    <3>2. PICK k \in 1 .. Len(chains[i]) : c = chains[i][k] \/ c = mem[chains[i][k]].data
        BY <3>1
    <3>3. c \in Cells /\ mem[c].kind \in {"node", "handler"}
        BY <2>3, <3>2
    <3>4. c \notin orphans
      <4>1. c \in orphans => mem[c].kind = "handler" /\ mem[chains[i][k]].data # c
          BY <2>2 DEF IntactInv, LooseHandler
      <4> QED
          BY <2>3, <3>2, <4>1
    <3>5. ASSUME c \in InCall PROVE FALSE
      <4>1. adding.pc # "idle"
          BY <2>2, <3>5 DEF AddingInv, InCall, NotAdding
      <4>2. /\ mem[adding.l_handler].kind = "handler"
            /\ mem[chains[i][k]].data # adding.l_handler
          BY <2>2, <4>1 DEF AddingInv, LooseHandler
      <4>3. c # adding.l_handler
          BY <2>3, <3>2, <4>2
      <4>4. adding.pc # "node" /\ c = adding.l_node
          BY <2>2, <3>5, <4>1, <4>3 DEF AddingInv, InCall
      <4>5. CASE adding.pc = "link"
          BY <2>2, <3>3, <4>1, <4>4, <4>5 DEF AddingInv
      <4>6. CASE adding.pc = "publish"
        <5>1. mem[adding.l_node].kind = "node" /\ chains[i][k] # adding.l_node
            BY <2>2, <4>1, <4>6 DEF AddingInv, Linked, Node
        <5> QED
            BY <2>3, <3>2, <4>4, <5>1
      <4> QED
          BY <2>2, <4>1, <4>4, <4>5, <4>6 DEF AddingInv
    <3>6. ~VfsUse(files, c)
      <4>1. \A v \in {s_rootNode, mounting.l_target} \ {Null} :
                mem[v].kind = "vnode" /\ mem[mem[v].data].kind = "tree"
          BY <2>2 DEF RootInv, IsRoot, Vnode, Tree
      <4>2. \A l \in 1 .. Len(files) : mem[files[l]].kind = "node" /\ files[l] # chains[i][k]
          BY <2>2 DEF FilesInv, IsChain, FilesApart
      <4> QED
          BY <2>3, <3>2, <3>3, <4>1, <4>2 DEF VfsUse
    <3> QED
        BY <3>3, <3>4, <3>5, <3>6
  <2>7. ASSUME NEW c, VfsUse(files, c)
        PROVE  c \in Cells /\ mem[c].kind \in {"node", "vnode", "tree"}
    <3>1. \A v \in {s_rootNode, mounting.l_target} \ {Null} :
              /\ v \in Cells /\ mem[v].data \in Cells
              /\ mem[v].kind = "vnode" /\ mem[mem[v].data].kind = "tree"
        BY <2>2 DEF RootInv, IsRoot, Vnode, Tree
    <3>2. \A l \in 1 .. Len(files) : files[l] \in Cells /\ mem[files[l]].kind = "node"
        BY <2>2 DEF FilesInv, IsChain
    <3> QED
        BY <2>7, <3>1, <3>2 DEF VfsUse
  <2>8. ASSUME NEW c \in InCall
        PROVE  /\ c \in Cells /\ mem[c].kind \in {"node", "handler", "raw"}
               /\ c \notin orphans /\ ~VfsUse(files, c)
    <3>1. adding.pc # "idle"
        BY <2>2, <2>8 DEF AddingInv, InCall, NotAdding
    <3>2. /\ adding.l_handler \in Cells /\ mem[adding.l_handler].kind = "handler"
          /\ adding.l_handler \notin orphans
        BY <2>2, <3>1 DEF AddingInv, LooseHandler
    <3>3. CASE c = adding.l_handler
        BY <2>7, <3>2, <3>3
    <3>4. CASE c # adding.l_handler
      <4>1. c = adding.l_node /\ c # Null
          BY <2>8, <3>4 DEF InCall
      <4>2. adding.pc # "node" /\ c \in Cells
          BY <2>2, <3>1, <4>1 DEF AddingInv
      <4>3. c \in orphans => mem[c].kind = "handler"
          BY <2>2 DEF IntactInv, LooseHandler
      <4>4. CASE adding.pc = "link"
        <5>1. mem[c].kind = "raw"
            BY <2>2, <3>1, <4>1, <4>4 DEF AddingInv
        <5> QED
            BY <2>7, <4>2, <4>3, <5>1
      <4>5. CASE adding.pc = "publish"
        <5>1. mem[c].kind = "node" /\ \A l \in 1 .. Len(files) : files[l] # c
            BY <2>2, <3>1, <4>1, <4>5 DEF AddingInv, Linked, Node
        <5>2. \A v \in {s_rootNode, mounting.l_target} \ {Null} :
                  mem[v].kind = "vnode" /\ mem[mem[v].data].kind = "tree"
            BY <2>2 DEF RootInv, IsRoot, Vnode, Tree
        <5>3. ~VfsUse(files, c)
            BY <5>1, <5>2 DEF VfsUse
        <5> QED
            BY <4>2, <4>3, <5>1, <5>3
      <4> QED
          BY <2>2, <3>1, <4>2, <4>4, <4>5 DEF AddingInv
    <3> QED
        BY <3>3, <3>4
  <2>9. ASSUME NEW c \in orphans
        PROVE  c \in Cells /\ mem[c].kind = "handler" /\ ~VfsUse(files, c)
    <3>1. c \in Cells /\ mem[c].kind = "handler"
        BY <2>2 DEF IntactInv, LooseHandler
    <3> QED
        BY <2>7, <3>1
  <2>10. ASSUME NEW c PROVE c \in Cells /\ mem[c] # Free <=>
                                c \in InLists \cup InCall \cup InVfs \cup orphans
    <3>1. ASSUME c \in Cells, mem[c] # Free
          PROVE  c \in InLists \cup InCall \cup InVfs \cup orphans
      <4>1. InUse(chains, files, c)
          BY <2>2, <3>1 DEF IntactInv
      <4> QED
          BY <2>4, <2>5, <4>1 DEF InUse, VfsUse
    <3>2. ASSUME c \in InLists \cup InCall \cup InVfs \cup orphans
          PROVE  c \in Cells /\ mem[c] # Free
      <4>1. c \in Cells /\ mem[c].kind # "free"
          BY <2>5, <2>6, <2>7, <2>8, <2>9, <3>2
      <4> QED
          BY <4>1 DEF Free
    <3> QED
        BY <3>1, <3>2
  <2>11. /\ InLists \cap InCall = {} /\ InLists \cap InVfs = {} /\ InLists \cap orphans = {}
         /\ InCall \cap InVfs = {} /\ InCall \cap orphans = {} /\ InVfs \cap orphans = {}
      BY <2>5, <2>6, <2>8, <2>9
  <2> QED
      BY <2>10, <2>11
<1>2. ServicesInv => BlocksAccounted
    BY <1>1 DEF BlocksAccounted
<1> QED
    BY <1>2, ServicesInvariant, PTL
=============================================================================
