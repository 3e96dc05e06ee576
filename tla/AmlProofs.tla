----------------------------- MODULE AmlProofs ------------------------------
(***************************************************************************)
(* For every table, the namespace stays a forest, scopes nest, and what a  *)
(* name leads to does not change.                                          *)
(***************************************************************************)
EXTENDS Aml, SequenceTheorems, WellFoundedInduction, TLAPS

-----------------------------------------------------------------------------
(* Induction over numbers, in a form without operator parameters. *)

\* A set of numbers that is not empty has a least element.
LEMMA LeastNumber ==
    ASSUME NEW T, T \subseteq Nat, T # {}
    PROVE  \E x \in T : \A y \in T : x <= y
<1> DEFINE R == OpToRel(<, Nat)
<1>1. IsWellFoundedOn(R, Nat)
    BY NatLessThanWellFounded, Zenon
<1>2. \A x, y \in Nat : <<y, x>> \in R <=> y < x
    BY DEF OpToRel
<1> HIDE DEF R
<1>3. PICK x \in T : \A y \in T : ~(<<y, x>> \in R)
    BY <1>1, WFMin
<1>4. ASSUME NEW y \in T PROVE x <= y
  <2>1. x \in Nat /\ y \in Nat
      OBVIOUS
  <2>2. ~(y < x)
      BY <1>2, <1>3, <2>1
  <2> QED
      BY <2>1, <2>2
<1> QED
    BY <1>4

\* A set that contains 0, and with a number the next one, contains all numbers.
LEMMA NumberInduction ==
    ASSUME NEW S, 0 \in S, \A n \in Nat : n \in S => n + 1 \in S
    PROVE  Nat \subseteq S
<1> DEFINE T == Nat \ S
<1> SUFFICES ASSUME T # {} PROVE FALSE
    OBVIOUS
<1>1. PICK x \in T : \A y \in T : x <= y
  <2>1. T \subseteq Nat
      OBVIOUS
  <2> HIDE DEF T
  <2> QED
      BY <2>1, LeastNumber
<1>2. x \in Nat /\ x # 0
    OBVIOUS
<1>3. x - 1 \in Nat /\ x - 1 \in S
    BY <1>1, <1>2
<1>4. (x - 1) + 1 \in S
    BY <1>3
<1> QED
    BY <1>2, <1>4

\* The values of g up to N come from the first one by one step after the other.
Iterates(g, V, v0, step, N) ==
    /\ g \in [0 .. N -> V] /\ g[0] = v0
    /\ \A k \in 1 .. N : g[k] = step[g[k - 1]]

\* A value for 0 and a step from each value to the next define a function on the
\* numbers up to N.
LEMMA RecursiveFunction ==
    ASSUME NEW V, NEW v0 \in V, NEW step \in [V -> V], NEW N \in Nat
    PROVE  \E g : Iterates(g, V, v0, step, N)
<1> DEFINE Def(n, g) == Iterates(g, V, v0, step, n)
           S == {n \in Nat : \E g : Def(n, g)}
<1> USE DEF Iterates
<1>1. 0 \in S
  <2>1. Def(0, [k \in 0 .. 0 |-> v0])
      OBVIOUS
  <2> QED
      BY <2>1
<1>2. ASSUME NEW n \in Nat, n \in S PROVE n + 1 \in S
  <2>1. PICK g : Def(n, g)
      BY <1>2
  <2> DEFINE h == [k \in 0 .. n + 1 |-> IF k <= n THEN g[k] ELSE step[g[n]]]
  <2>2. g[n] \in V
      BY <2>1
  <2>3. h \in [0 .. n + 1 -> V]
      BY <2>1, <2>2
  <2>4. h[0] = v0
      BY <2>1
  <2>5. ASSUME NEW k \in 1 .. n + 1 PROVE h[k] = step[h[k - 1]]
    <3>1. h[k - 1] = g[k - 1]
        OBVIOUS
    <3>2. CASE k <= n
        BY <2>1, <3>1, <3>2
    <3>3. CASE k = n + 1
        BY <3>1, <3>3
    <3> QED
        BY <3>2, <3>3
  <2> HIDE DEF h
  <2>6. Def(n + 1, h)
      BY <2>3, <2>4, <2>5
  <2> QED
      BY <2>6
<1> HIDE DEF S
<1>3. Nat \subseteq S
    BY <1>1, <1>2, NumberInduction
<1>4. N \in S
    BY <1>3
<1>5. PICK g : Def(N, g)
    BY <1>4 DEF S
<1> QED
    BY <1>5

-----------------------------------------------------------------------------
(* What is read from a table. *)

\* The table is a sequence of bytes.
LEMMA BytesType ==
    ASSUME TypeOK PROVE table.bytes \in Seq(0 .. 255) /\ Len(table.bytes) \in Nat
<1>1. table \in Images \/ table = NoTable
    BY Zenon DEF TypeOK
<1>2. NoTable.bytes = <<>> /\ <<>> \in Seq(0 .. 255)
    BY DEF NoTable
<1>3. \A image \in Images : image.bytes \in Seq(0 .. 255)
    BY AmlAssumption
<1>4. table.bytes \in Seq(0 .. 255)
    BY <1>1, <1>2, <1>3
<1> QED
    BY <1>4, LenProperties

\* A byte is a byte, in the table or behind it.
LEMMA ByteType == ASSUME TypeOK, NEW i \in Nat PROVE Byte(i) \in 0 .. 255
<1>1. PICK b \in Seq(0 .. 255) : b = table.bytes /\ Len(b) \in Nat
    BY BytesType
<1>2. CASE i < Len(b)
  <2>1. i + 1 \in 1 .. Len(b)
      BY <1>1, <1>2
  <2>2. b[i + 1] \in 0 .. 255
      BY <2>1, ElementOfSeq
  <2> QED
      BY <1>1, <1>2, <2>2 DEF Byte
<1>3. CASE ~(i < Len(b))
    BY <1>1, <1>3 DEF Byte
<1> QED
    BY <1>2, <1>3

\* A package length takes at least a byte, and is a number.
LEMMA PkgType ==
    ASSUME TypeOK, NEW i \in Nat, NEW pkg, pkg = acpi_amlParsePkgLength(i)
    PROVE  pkg.size \in Nat /\ pkg.size >= 1 /\ pkg.length \in Nat
<1>1. PICK lead \in 0 .. 255 : lead = Byte(i)
    BY ByteType
<1>2. PICK size \in Nat : size = lead \div 64 + 1 /\ size >= 1
    BY <1>1
<1>3. PICK b1 \in 0 .. 255 : b1 = Byte(i + 1)
    BY ByteType
<1>4. PICK b2 \in 0 .. 255 : b2 = Byte(i + 2)
    BY ByteType
<1>5. PICK b3 \in 0 .. 255 : b3 = Byte(i + 3)
    BY ByteType
<1>6. pkg = [size |-> size,
             length |-> IF size = 1 THEN lead % 64
                        ELSE (lead % 16) + (IF size > 1 THEN b1 * 16 ELSE 0)
                                 + (IF size > 2 THEN b2 * 4096 ELSE 0)
                                 + (IF size > 3 THEN b3 * 1048576 ELSE 0)]
    BY <1>1, <1>2, <1>3, <1>4, <1>5 DEF acpi_amlParsePkgLength
<1> QED
    BY <1>2, <1>6

\* The segment of a name is a sequence of bytes.
LEMMA SegType == ASSUME TypeOK, NEW i \in Nat PROVE acpi_amlParseNameSeg(i) \in Seq(0 .. 255)
<1> DEFINE T == {0} \cup {k \in 1 .. 4 : Byte(i + k - 1) # Underscore}
<1>1. T \subseteq 0 .. 4 /\ 0 \in T
    OBVIOUS
<1>2. PICK length : length = Max(T)
    OBVIOUS
<1> HIDE DEF T
<1>3. \E x \in T : \A y \in T : x >= y
    BY <1>1
<1>4. length \in 0 .. 4
  <2>1. Max(T) \in T
      BY <1>3, Zenon DEF Max
  <2> QED
      BY <1>1, <1>2, <2>1
<1>5. acpi_amlParseNameSeg(i) = [k \in 1 .. length |-> Byte(i + k - 1)]
    BY <1>2 DEF acpi_amlParseNameSeg, T
<1>6. \A k \in 1 .. length : Byte(i + k - 1) \in 0 .. 255
  <2> TAKE k \in 1 .. length
  <2>1. i + k - 1 \in Nat
      BY <1>4
  <2> QED
      BY <2>1, ByteType
<1> QED
    BY <1>4, <1>5, <1>6, IsASeq

\* A path ends: behind the table there are no prefixes.
LEMMA PathStart ==
    ASSUME TypeOK, NEW i \in Nat
    PROVE  \E j \in i .. i + Len(table.bytes) :
               Byte(j) \notin PathPrefixes /\ \A k \in i .. j - 1 : Byte(k) \in PathPrefixes
<1>1. PICK n \in Nat : n = Len(table.bytes)
    BY BytesType
<1> DEFINE T == {j \in i .. i + n : Byte(j) \notin PathPrefixes}
<1>2. i + n \in T
  <2>1. Byte(i + n) = 0
      BY <1>1 DEF Byte
  <2> QED
      BY <2>1 DEF PathPrefixes
<1>3. T \subseteq Nat /\ T # {}
    BY <1>2
<1>4. PICK j \in T : \A k \in T : j <= k
  <2> HIDE DEF T
  <2> QED
      BY <1>3, LeastNumber
<1>5. ASSUME NEW k \in i .. j - 1 PROVE Byte(k) \in PathPrefixes
  <2>1. k \in i .. i + n /\ ~(j <= k)
      OBVIOUS
  <2> QED
      BY <1>4, <2>1
<1> QED
    BY <1>1, <1>4, <1>5

\* A path is made of segments, and takes a number of bytes.
LEMMA NameType ==
    ASSUME TypeOK, NEW i \in Nat, NEW p, p = acpi_amlParseNameString(i)
    PROVE  p.segs \in Seq(Seq(0 .. 255)) /\ p.size \in Nat /\ p.ok \in BOOLEAN
<1>1. PICK start : start = CHOOSE j \in i .. i + Len(table.bytes) :
                     Byte(j) \notin PathPrefixes /\ \A k \in i .. j - 1 : Byte(k) \in PathPrefixes
    OBVIOUS
<1>2. start \in i .. i + Len(table.bytes)
    BY <1>1, PathStart, Zenon
<1>3. Len(table.bytes) \in Nat
    BY BytesType
<1>4. start \in Nat /\ start >= i
    BY <1>2, <1>3
<1> DEFINE path(first, count) ==
            [ok |-> TRUE, prefixed |-> start > i,
             segs |-> [k \in 1 .. count |-> acpi_amlParseNameSeg(first + 4 * (k - 1))],
             size |-> first + 4 * count - i]
<1>5. ASSUME NEW first \in Nat, NEW count \in Nat, first >= i, p = path(first, count)
      PROVE  p.segs \in Seq(Seq(0 .. 255)) /\ p.size \in Nat /\ p.ok \in BOOLEAN
  <2>1. \A k \in 1 .. count : acpi_amlParseNameSeg(first + 4 * (k - 1)) \in Seq(0 .. 255)
    <3> TAKE k \in 1 .. count
    <3>1. first + 4 * (k - 1) \in Nat
        OBVIOUS
    <3> QED
        BY <3>1, SegType
  <2>2. [k \in 1 .. count |-> acpi_amlParseNameSeg(first + 4 * (k - 1))] \in Seq(Seq(0 .. 255))
      BY <2>1, IsASeq
  <2>3. first + 4 * count - i \in Nat
      BY <1>5
  <2>4. /\ p.segs = [k \in 1 .. count |-> acpi_amlParseNameSeg(first + 4 * (k - 1))]
        /\ p.size = first + 4 * count - i /\ p.ok = TRUE
      BY <1>5
  <2> QED
      BY <2>2, <2>3, <2>4
<1>6. p = CASE Byte(start) = NullName         -> path(start + 1, 0)
            [] Byte(start) = DualNamePrefix   -> path(start + 1, 2)
            [] Byte(start) = MultiNamePrefix  -> path(start + 2, Byte(start + 1))
            [] Byte(start) \in LeadNameChars  -> path(start, 1)
            [] OTHER -> [ok |-> FALSE, prefixed |-> FALSE, segs |-> <<>>, size |-> 0]
    BY <1>1 DEF acpi_amlParseNameString
<1>7. Byte(start + 1) \in Nat
    BY <1>4, ByteType
<1>8. \/ p = path(start + 1, 0) \/ p = path(start + 1, 2)
      \/ p = path(start + 2, Byte(start + 1)) \/ p = path(start, 1)
      \/ p = [ok |-> FALSE, prefixed |-> FALSE, segs |-> <<>>, size |-> 0]
  <2> HIDE DEF path
  <2> QED
      BY <1>6, Zenon
<1>9. CASE p = [ok |-> FALSE, prefixed |-> FALSE, segs |-> <<>>, size |-> 0]
    BY <1>9
<1> HIDE DEF path
<1> QED
    BY <1>4, <1>5, <1>7, <1>8, <1>9

-----------------------------------------------------------------------------
(* The namespace. *)

\* What the invariant says of one node.
LEMMA NodeFacts ==
    ASSUME NamespaceInv, NEW n \in DOMAIN nodes
    PROVE  /\ n \in Nat /\ n # Null /\ n <= Len(nodes) /\ Len(nodes) \in Nat
           /\ nodes[n] \in Node
           /\ nodes[n].parent \in Nat /\ nodes[n].parent < n
           /\ nodes[n].parent # Null => nodes[n].parent \in DOMAIN nodes
           /\ \A i \in DOMAIN nodes[n].children :
                /\ nodes[n].children[i] \in DOMAIN nodes
                /\ nodes[nodes[n].children[i]].parent = n
<1>1. nodes \in Seq(Node)
    BY DEF NamespaceInv, TypeOK
<1>2. /\ n \in Nat /\ n # Null /\ n <= Len(nodes) /\ Len(nodes) \in Nat
      /\ DOMAIN nodes = 1 .. Len(nodes)
    BY <1>1 DEF Null
<1>3. nodes[n] \in Node
    BY <1>1, <1>2, ElementOfSeq
<1>4. nodes[n].parent \in Nat
    BY <1>3 DEF Node
<1>5. /\ nodes[n].parent < n
      /\ \A i \in DOMAIN nodes[n].children :
                /\ nodes[n].children[i] \in DOMAIN nodes
                /\ nodes[nodes[n].children[i]].parent = n
    BY DEF NamespaceInv, NamespaceForest
<1>6. nodes[n].parent # Null => nodes[n].parent \in DOMAIN nodes
    BY <1>2, <1>4, <1>5 DEF Null
<1> QED
    BY <1>2, <1>3, <1>4, <1>5, <1>6

\* acpi_getChildByName, and a step of acpi_getParentByPath, go to a child.
LEMMA ChildFound ==
    ASSUME NamespaceInv, NEW n \in DOMAIN nodes, NEW among, NEW c, c = FirstChild(n, among)
    PROVE  c = Null \/ (c \in DOMAIN nodes /\ nodes[c].parent = n)
<1> DEFINE children == nodes[n].children
           first(i) == children[i] \in among /\ \A j \in 1 .. i - 1 : children[j] \notin among
<1>1. CASE \E i \in DOMAIN children : first(i)
  <2>1. PICK i \in DOMAIN children : i = CHOOSE k \in DOMAIN children : first(k)
      BY <1>1, Zenon
  <2>2. c = children[i]
      BY <1>1, <2>1 DEF FirstChild
  <2>3. children[i] \in DOMAIN nodes /\ nodes[children[i]].parent = n
      BY <2>1, NodeFacts
  <2> QED
      BY <2>2, <2>3
<1>2. CASE ~(\E i \in DOMAIN children : first(i))
    BY <1>2 DEF FirstChild
<1> QED
    BY <1>1, <1>2

\* A node or a node above it: in every set of nodes with their parents.
AtOrAbove(n) ==
    {a \in DOMAIN nodes : \A S \in SUBSET DOMAIN nodes : n \in S /\ HoldsParents(S) => a \in S}

\* What is at or above a node is at or above its children.
LEMMA AboveChild ==
    ASSUME NamespaceInv, NEW n \in DOMAIN nodes, NEW c \in DOMAIN nodes, nodes[c].parent = n,
           NEW a \in AtOrAbove(n)
    PROVE  a \in AtOrAbove(c) /\ a \in Above(c)
<1>1. n # Null /\ n < c /\ n \in Nat /\ c \in Nat
    BY NodeFacts
<1>2. ASSUME NEW S \in SUBSET DOMAIN nodes, c \in S, HoldsParents(S) PROVE a \in S
  <2>1. n \in S
      BY <1>1, <1>2 DEF HoldsParents
  <2> QED
      BY <1>2, <2>1 DEF AtOrAbove
<1>3. a # c
  <2>1. \A m \in 1 .. n : m \in DOMAIN nodes /\ nodes[m].parent \in (1 .. n) \cup {Null}
    <3> TAKE m \in 1 .. n
    <3>1. m \in DOMAIN nodes
      <4>1. nodes \in Seq(Node)
          BY DEF NamespaceInv, TypeOK
      <4> QED
          BY <4>1
    <3>2. nodes[m].parent \in Nat /\ nodes[m].parent < m
        BY <3>1, NodeFacts
    <3> QED
        BY <1>1, <3>1, <3>2 DEF Null
  <2>2. HoldsParents(1 .. n) /\ (1 .. n) \in SUBSET DOMAIN nodes /\ n \in 1 .. n
      BY <1>1, <2>1 DEF HoldsParents, Null
  <2>3. a \in 1 .. n
      BY <2>2 DEF AtOrAbove
  <2> QED
      BY <1>1, <2>3
<1> QED
    BY <1>2, <1>3 DEF AtOrAbove, Above

\* acpi_getParentByPath stays where it is or goes down.
LEMMA ParentFound ==
    ASSUME NamespaceInv, NEW base \in DOMAIN nodes, NEW path, path.segs \in Seq(Seq(0 .. 255)),
           NEW p, p = acpi_getParentByPath(base, path)
    PROVE  p = Null \/ (p \in DOMAIN nodes /\ base \in AtOrAbove(p))
<1> DEFINE Below == {x \in DOMAIN nodes : base \in AtOrAbove(x)}
           V == {Null} \cup Below
           Down(x) == IF x = Null THEN Null ELSE FirstChild(x, Called(<<>>))
           step == [x \in V |-> Down(x)]
<1>1. PICK N \in Nat : N = Len(path.segs)
    BY LenProperties
<1> DEFINE Eq(g) == g = [k \in 0 .. Len(path.segs) |->
                            IF k = 0 THEN base
                            ELSE IF g[k - 1] = Null THEN Null
                            ELSE FirstChild(g[k - 1], Called(<<>>))]
<1>2. base \in V
    BY DEF AtOrAbove
<1>3. ASSUME NEW x \in V PROVE Down(x) \in V
  <2>1. CASE x = Null
      BY <2>1
  <2>2. CASE x # Null
    <3>1. x \in DOMAIN nodes /\ base \in AtOrAbove(x)
        BY <2>2
    <3>2. PICK c : c = FirstChild(x, Called(<<>>))
        OBVIOUS
    <3>3. c = Null \/ (c \in DOMAIN nodes /\ nodes[c].parent = x)
        BY <3>1, <3>2, ChildFound
    <3>4. CASE c = Null
        BY <2>2, <3>2, <3>4
    <3>5. CASE c \in DOMAIN nodes /\ nodes[c].parent = x
      <4>1. base \in AtOrAbove(c)
          BY <3>1, <3>5, AboveChild
      <4> QED
          BY <2>2, <3>2, <3>5, <4>1
    <3> QED
        BY <3>3, <3>4, <3>5
  <2> QED
      BY <2>1, <2>2
<1>4. step \in [V -> V]
  <2> HIDE DEF V, Down
  <2> QED
      BY <1>3
<1>5. PICK g : Iterates(g, V, base, step, N)
  <2> HIDE DEF V, step
  <2> QED
      BY <1>2, <1>4, RecursiveFunction
<1>6. g \in [0 .. N -> V] /\ g[0] = base /\ \A k \in 1 .. N : g[k] = Down(g[k - 1])
  <2>1. g \in [0 .. N -> V] /\ g[0] = base /\ \A k \in 1 .. N : g[k] = step[g[k - 1]]
    <3> HIDE DEF V, step
    <3> QED
        BY <1>5, Zenon DEF Iterates
  <2>2. \A k \in 1 .. N : k - 1 \in 0 .. N
      OBVIOUS
  <2> HIDE DEF V, Down
  <2>3. \A k \in 1 .. N : g[k - 1] \in V
      BY <2>1, <2>2
  <2> QED
      BY <2>1, <2>3
<1>7. Eq(g)
  <2> HIDE DEF V, Below
  <2>1. \A k \in 0 .. N : g[k] = IF k = 0 THEN base ELSE Down(g[k - 1])
    <3> HIDE DEF Down
    <3> QED
        BY <1>6
  <2> QED
      BY <1>1, <1>6, <2>1
<1>8. PICK down : down = CHOOSE h : Eq(h)
    OBVIOUS
<1>9. p = down[IF path.segs = <<>> THEN 0 ELSE Len(path.segs) - 1]
    BY <1>8 DEF acpi_getParentByPath
<1>10. Eq(down)
  <2> HIDE DEF Eq
  <2> QED
      BY <1>7, <1>8
<1>11. \A k \in 0 .. N : down[k] \in V
  <2> DEFINE S == {k \in Nat : k <= N => down[k] \in V}
  <2>1. 0 \in S
    <3>1. down[0] = base
        BY <1>1, <1>10
    <3> HIDE DEF V
    <3> QED
        BY <1>2, <3>1
  <2>2. ASSUME NEW n \in Nat, n \in S PROVE n + 1 \in S
    <3>1. SUFFICES ASSUME n + 1 <= N PROVE down[n + 1] \in V
        OBVIOUS
    <3>2. down[n + 1] = Down(down[n])
      <4>1. n + 1 \in 0 .. N /\ n + 1 # 0 /\ (n + 1) - 1 = n
          BY <3>1
      <4> QED
          BY <1>1, <1>10, <4>1
    <3>3. down[n] \in V
        BY <2>2, <3>1
    <3> HIDE DEF V, Down
    <3> QED
        BY <1>3, <3>2, <3>3
  <2> HIDE DEF S
  <2>3. Nat \subseteq S
      BY <2>1, <2>2, NumberInduction
  <2> QED
      BY <2>3 DEF S
<1>12. (IF path.segs = <<>> THEN 0 ELSE Len(path.segs) - 1) \in 0 .. N
  <2>1. path.segs # <<>> => Len(path.segs) # 0
      BY EmptySeq
  <2> QED
      BY <1>1, <2>1
<1> HIDE DEF Eq
<1>13. p \in V
    BY <1>9, <1>11, <1>12
<1> QED
    BY <1>13

-----------------------------------------------------------------------------
(* A new node. *)

\* There is one more node, without children, and it is the last child of its
\* parent.
NodeAdded(parent, name, new) ==
    /\ nodes' \in Seq(Node) /\ Len(nodes') = new
    /\ new \in Nat /\ new # Null /\ new \notin DOMAIN nodes
    /\ DOMAIN nodes' = DOMAIN nodes \cup {new}
    /\ nodes'[new].name = name /\ nodes'[new].parent = parent
    /\ nodes'[new].children = <<>>
    /\ \A n \in DOMAIN nodes :
        /\ nodes'[n].name = nodes[n].name /\ nodes'[n].parent = nodes[n].parent
        /\ nodes[n].children \in Seq(Nat)
        /\ nodes'[n].children = IF n = parent THEN Append(nodes[n].children, new)
                                ELSE nodes[n].children

\* This is what acpi_createNode does.
LEMMA NewNode ==
    ASSUME NamespaceInv, NEW parent \in {Null} \cup DOMAIN nodes, NEW name \in Seq(0 .. 255),
           nodes' = WithNode(parent, name),
           NEW new, new = Len(nodes) + 1
    PROVE  NodeAdded(parent, name, new)
<1>1. nodes \in Seq(Node) /\ Len(nodes) \in Nat /\ DOMAIN nodes = 1 .. Len(nodes)
    BY DEF NamespaceInv, TypeOK
<1>2. new \in Nat /\ new # Null /\ new \notin DOMAIN nodes
    BY <1>1 DEF Null
<1>3. PICK r : r = [name |-> name, parent |-> parent, children |-> <<>>]
    OBVIOUS
<1>4. PICK grown : grown = IF parent = Null THEN nodes
                           ELSE [nodes EXCEPT ![parent].children = Append(@, new)]
    OBVIOUS
<1>5. nodes' = Append(grown, r)
    BY <1>3, <1>4 DEF WithNode
<1>6. r \in Node
  <2>1. parent \in Nat
      BY <1>1 DEF Null
  <2> QED
      BY <1>3, <2>1 DEF Node
<1>7. \A n \in DOMAIN nodes : nodes[n] \in Node /\ nodes[n].children \in Seq(Nat)
  <2>1. \A n \in DOMAIN nodes : nodes[n] \in Node
      BY <1>1, ElementOfSeq
  <2> QED
      BY <2>1 DEF Node
<1>8. \A n \in DOMAIN nodes :
          /\ grown[n] \in Node
          /\ grown[n].name = nodes[n].name /\ grown[n].parent = nodes[n].parent
          /\ grown[n].children = IF n = parent THEN Append(nodes[n].children, new)
                                 ELSE nodes[n].children
  <2>1. CASE parent = Null
    <3>1. \A n \in DOMAIN nodes : n # parent
        BY <1>1, <2>1 DEF Null
    <3> QED
        BY <1>4, <1>7, <2>1, <3>1
  <2>2. CASE parent # Null
    <3>1. grown = [nodes EXCEPT ![parent].children = Append(nodes[parent].children, new)]
        BY <1>4, <2>2
    <3>2. ASSUME NEW n \in DOMAIN nodes, n # parent PROVE grown[n] = nodes[n]
        BY <3>1, <3>2
    <3>3. parent \in DOMAIN nodes
        BY <2>2
    <3>4. PICK q \in Seq(Nat) : q = Append(nodes[parent].children, new)
        BY <1>2, <1>7, <3>3, AppendProperties
    <3>5. grown[parent] = [nodes[parent] EXCEPT !.children = q]
        BY <3>1, <3>3, <3>4
    <3>6. /\ grown[parent] \in Node /\ grown[parent].name = nodes[parent].name
          /\ grown[parent].parent = nodes[parent].parent /\ grown[parent].children = q
      <4>1. nodes[parent] \in Node
          BY <1>7, <3>3
      <4> QED
          BY <3>5, <4>1 DEF Node
    <3> QED
        BY <1>7, <3>2, <3>4, <3>6
  <2> QED
      BY <2>1, <2>2
<1>9. DOMAIN grown = 1 .. Len(nodes) /\ grown \in Seq(Node) /\ Len(grown) = Len(nodes)
  <2>1. grown = [n \in 1 .. Len(nodes) |-> grown[n]]
    <3>1. CASE parent = Null
        BY <1>1, <1>4, <3>1
    <3>2. CASE parent # Null
        BY <1>1, <1>4, <3>2
    <3> QED
        BY <3>1, <3>2
  <2>2. grown \in [1 .. Len(nodes) -> Node]
      BY <1>1, <1>8, <2>1
  <2>3. grown \in Seq(Node)
      BY <1>1, <2>2, SeqDef
  <2> QED
      BY <1>1, <2>2, <2>3, LenProperties
<1>10. /\ nodes' \in Seq(Node) /\ Len(nodes') = new
       /\ \A n \in 1 .. Len(nodes) : nodes'[n] = grown[n]
       /\ nodes'[new] = r
    BY <1>5, <1>6, <1>9, AppendProperties
<1>11. DOMAIN nodes' = DOMAIN nodes \cup {new}
  <2>1. DOMAIN nodes' = 1 .. new
      BY <1>10, LenProperties
  <2> QED
      BY <1>1, <2>1
<1>12. /\ nodes'[new].name = name /\ nodes'[new].parent = parent
       /\ nodes'[new].children = <<>>
    BY <1>3, <1>10
<1> QED
    BY <1>1, <1>2, <1>7, <1>8, <1>10, <1>11, <1>12 DEF NodeAdded

\* The namespace is a forest with the new node, too.
LEMMA ForestGrows ==
    ASSUME NamespaceInv, NEW parent \in {Null} \cup DOMAIN nodes, NEW name \in Seq(0 .. 255),
           NodeAdded(parent, name, Len(nodes) + 1),
           m_root' = m_root \/ (parent = Null /\ m_root' = Len(nodes) + 1)
    PROVE  NamespaceForest'
<1>1. PICK new : new = Len(nodes) + 1
    OBVIOUS
<1>2. /\ new \in Nat /\ new # Null /\ new \notin DOMAIN nodes
      /\ DOMAIN nodes' = DOMAIN nodes \cup {new}
      /\ nodes'[new].parent = parent /\ nodes'[new].children = <<>>
      /\ \A n \in DOMAIN nodes :
                /\ nodes'[n].parent = nodes[n].parent
                /\ nodes[n].children \in Seq(Nat)
                /\ nodes'[n].children = IF n = parent THEN Append(nodes[n].children, new)
                                        ELSE nodes[n].children
    BY <1>1 DEF NodeAdded
<1>3. parent < new
  <2>1. nodes \in Seq(Node)
      BY DEF NamespaceInv, TypeOK
  <2> QED
      BY <1>1, <2>1 DEF Null
<1>4. ASSUME NEW n \in DOMAIN nodes, n = parent
      PROVE  /\ nodes'[n].children \in Seq(Nat)
             /\ Len(nodes'[n].children) = Len(nodes[n].children) + 1
             /\ \A i \in 1 .. Len(nodes[n].children) : nodes'[n].children[i] = nodes[n].children[i]
             /\ nodes'[n].children[Len(nodes[n].children) + 1] = new
  <2>1. nodes'[n].children = Append(nodes[n].children, new) /\ nodes[n].children \in Seq(Nat)
      BY <1>2, <1>4
  <2> QED
      BY <1>2, <2>1, AppendProperties
<1>5. ASSUME NEW n \in DOMAIN nodes, NEW i \in DOMAIN nodes[n].children
      PROVE  i \in DOMAIN nodes'[n].children /\ nodes'[n].children[i] = nodes[n].children[i]
  <2>1. /\ nodes[n].children \in Seq(Nat) /\ Len(nodes[n].children) \in Nat
        /\ i \in 1 .. Len(nodes[n].children)
      BY <1>2
  <2>2. CASE n = parent
    <3>1. DOMAIN nodes'[n].children = 1 .. Len(nodes[n].children) + 1
        BY <1>4, <2>2, LenProperties
    <3>2. i \in 1 .. Len(nodes[n].children) + 1
        BY <2>1
    <3> QED
        BY <1>4, <2>1, <2>2, <3>1, <3>2
  <2>3. CASE n # parent
      BY <1>2, <2>3
  <2> QED
      BY <2>2, <2>3
<1>6. ASSUME NEW n \in DOMAIN nodes, NEW i \in DOMAIN nodes'[n].children
      PROVE  \/ i \in DOMAIN nodes[n].children
             \/ /\ n = parent /\ nodes'[n].children[i] = new
                /\ \A j \in 1 .. i - 1 : j \in DOMAIN nodes[n].children
  <2>1. nodes[n].children \in Seq(Nat) /\ Len(nodes[n].children) \in Nat
      BY <1>2
  <2>2. CASE n = parent
    <3>1. i \in 1 .. Len(nodes[n].children) + 1
        BY <1>4, <2>2
    <3>2. CASE i = Len(nodes[n].children) + 1
        BY <1>4, <2>1, <2>2, <3>2
    <3>3. CASE i # Len(nodes[n].children) + 1
        BY <2>1, <3>1, <3>3
    <3> QED
        BY <3>2, <3>3
  <2>3. CASE n # parent
      BY <1>2, <2>3
  <2> QED
      BY <2>2, <2>3
<1>7. ASSUME NEW n \in DOMAIN nodes
      PROVE  /\ nodes'[n].parent < n
             /\ nodes'[n].parent # Null =>
                    \E i \in DOMAIN nodes'[nodes'[n].parent].children :
                        nodes'[nodes'[n].parent].children[i] = n
  <2>1. /\ nodes[n].parent < n
        /\ nodes[n].parent # Null => nodes[n].parent \in DOMAIN nodes
      BY NodeFacts
  <2>2. nodes[n].parent # Null => \E i \in DOMAIN nodes[nodes[n].parent].children :
                                      nodes[nodes[n].parent].children[i] = n
      BY DEF NamespaceInv, NamespaceForest
  <2>3. nodes'[n].parent = nodes[n].parent
      BY <1>2
  <2> QED
      BY <1>5, <2>1, <2>2, <2>3
<1>8. ASSUME NEW n \in DOMAIN nodes, NEW i \in DOMAIN nodes'[n].children
      PROVE  /\ nodes'[n].children[i] \in DOMAIN nodes' /\ nodes'[nodes'[n].children[i]].parent = n
             /\ \A j \in 1 .. i - 1 : nodes'[n].children[j] # nodes'[n].children[i]
  <2>1. nodes[n].children \in Seq(Nat) /\ DOMAIN nodes[n].children = 1 .. Len(nodes[n].children)
      BY <1>2
  <2>2. CASE i \in DOMAIN nodes[n].children
    <3>1. \A j \in 1 .. i - 1 : j \in DOMAIN nodes[n].children
        BY <2>1, <2>2
    <3>2. \A j \in 1 .. i - 1 : nodes[n].children[j] # nodes[n].children[i]
        BY <2>2 DEF NamespaceInv, NamespaceForest
    <3>3. nodes[n].children[i] \in DOMAIN nodes /\ nodes[nodes[n].children[i]].parent = n
        BY <2>2, NodeFacts
    <3>4. nodes'[n].children[i] = nodes[n].children[i]
        BY <1>5, <2>2
    <3>5. \A j \in 1 .. i - 1 : nodes'[n].children[j] = nodes[n].children[j]
        BY <1>5, <3>1
    <3> QED
        BY <1>2, <3>2, <3>3, <3>4, <3>5
  <2>3. CASE /\ n = parent /\ nodes'[n].children[i] = new
             /\ \A j \in 1 .. i - 1 : j \in DOMAIN nodes[n].children
    <3>1. \A j \in 1 .. i - 1 : nodes'[n].children[j] \in DOMAIN nodes
        BY <1>5, <2>3, NodeFacts
    <3> QED
        BY <1>2, <2>3, <3>1
  <2> QED
      BY <1>6, <2>2, <2>3
<1>9. parent # Null => \E i \in DOMAIN nodes'[parent].children : nodes'[parent].children[i] = new
  <2>1. SUFFICES ASSUME parent \in DOMAIN nodes
                 PROVE  \E i \in DOMAIN nodes'[parent].children : nodes'[parent].children[i] = new
      OBVIOUS
  <2>2. nodes[parent].children \in Seq(Nat)
      BY <1>2, <2>1
  <2>3. Len(nodes[parent].children) + 1 \in DOMAIN nodes'[parent].children
      BY <1>4, <2>1, <2>2
  <2> QED
      BY <1>4, <2>1, <2>3
<1>10. DOMAIN nodes'[new].children = {}
    BY <1>2
<1>11. m_root' # Null => nodes'[m_root'].parent = Null
  <2>1. CASE m_root' = m_root
    <3>1. m_root # Null => m_root \in DOMAIN nodes /\ nodes[m_root].parent = Null
        BY DEF NamespaceInv, NamespaceForest, TypeOK
    <3> QED
        BY <1>2, <2>1, <3>1
  <2>2. CASE parent = Null /\ m_root' = Len(nodes) + 1
      BY <1>1, <1>2, <2>2
  <2> QED
      BY <2>1, <2>2
<1>12. ASSUME NEW n \in DOMAIN nodes'
       PROVE  /\ nodes'[n].parent < n
              /\ nodes'[n].parent # Null =>
                    \E i \in DOMAIN nodes'[nodes'[n].parent].children :
                        nodes'[nodes'[n].parent].children[i] = n
              /\ \A i \in DOMAIN nodes'[n].children :
                    /\ nodes'[n].children[i] \in DOMAIN nodes'
                    /\ nodes'[nodes'[n].children[i]].parent = n
                    /\ \A j \in 1 .. i - 1 : nodes'[n].children[j] # nodes'[n].children[i]
  <2>1. CASE n \in DOMAIN nodes
      BY <1>7, <1>8, <2>1
  <2>2. CASE n = new
      BY <1>2, <1>3, <1>9, <1>10, <2>2
  <2> QED
      BY <1>2, <2>1, <2>2
<1> QED
    BY <1>11, <1>12 DEF NamespaceForest

\* Above a node is what was there before.
LEMMA AboveGrows ==
    ASSUME NamespaceInv, NEW parent, NEW name, NEW new, NodeAdded(parent, name, new),
           NEW n \in DOMAIN nodes, NEW a \in Above(n)
    PROVE  a \in Above(n)'
<1>1. /\ DOMAIN nodes' = DOMAIN nodes \cup {new}
      /\ \A m \in DOMAIN nodes : nodes'[m].parent = nodes[m].parent
    BY DEF NodeAdded
<1>2. a \in DOMAIN nodes /\ a # n
    BY DEF Above
<1>3. ASSUME NEW S \in SUBSET DOMAIN nodes', n \in S, HoldsParents(S)' PROVE a \in S
  <2> DEFINE T == S \cap DOMAIN nodes
  <2>1. ASSUME NEW m \in T PROVE nodes[m].parent \in T \cup {Null}
    <3>1. nodes'[m].parent \in S \cup {Null}
        BY <1>3 DEF HoldsParents
    <3>2. nodes[m].parent # Null => nodes[m].parent \in DOMAIN nodes
        BY NodeFacts
    <3> QED
        BY <1>1, <3>1, <3>2
  <2>2. HoldsParents(T) /\ T \in SUBSET DOMAIN nodes /\ n \in T
      BY <1>3, <2>1 DEF HoldsParents
  <2>3. a \in T
    <3> HIDE DEF T
    <3> QED
        BY <2>2 DEF Above
  <2> QED
      BY <2>3
<1> QED
    BY <1>1, <1>2, <1>3 DEF Above

\* Above the new node is its parent, and what is above that one.
LEMMA AboveNew ==
    ASSUME NamespaceInv, NEW parent \in DOMAIN nodes, NEW name, NEW new,
           NodeAdded(parent, name, new), NEW a \in AtOrAbove(parent)
    PROVE  a \in Above(new)'
<1>1. /\ DOMAIN nodes' = DOMAIN nodes \cup {new} /\ new \notin DOMAIN nodes
      /\ \A m \in DOMAIN nodes : nodes'[m].parent = nodes[m].parent
      /\ nodes'[new].parent = parent
    BY DEF NodeAdded
<1>2. a \in DOMAIN nodes /\ a # new /\ parent # Null
    BY <1>1, NodeFacts DEF AtOrAbove
<1>3. ASSUME NEW S \in SUBSET DOMAIN nodes', new \in S, HoldsParents(S)' PROVE a \in S
  <2> DEFINE T == S \cap DOMAIN nodes
  <2>1. ASSUME NEW m \in T PROVE nodes[m].parent \in T \cup {Null}
    <3>1. nodes'[m].parent \in S \cup {Null}
        BY <1>3 DEF HoldsParents
    <3>2. nodes[m].parent # Null => nodes[m].parent \in DOMAIN nodes
        BY NodeFacts
    <3> QED
        BY <1>1, <3>1, <3>2
  <2>2. nodes'[new].parent \in S \cup {Null}
      BY <1>3 DEF HoldsParents
  <2>3. HoldsParents(T) /\ T \in SUBSET DOMAIN nodes /\ parent \in T
      BY <1>1, <1>2, <2>1, <2>2 DEF HoldsParents
  <2>4. a \in T
    <3> HIDE DEF T
    <3> QED
        BY <2>3 DEF AtOrAbove
  <2> QED
      BY <2>4
<1> QED
    BY <1>1, <1>2, <1>3 DEF Above

\* Of some nodes, the first child is the same one after a new child has come.
LEMMA LookupGrows ==
    ASSUME NamespaceInv, NEW parent, NEW name, NEW new, NodeAdded(parent, name, new),
           NEW n \in DOMAIN nodes, NEW x, Lookup(n, x) # Null
    PROVE  Lookup(n, x)' = Lookup(n, x)
<1> DEFINE children == nodes[n].children
           first(i) == children[i] \in Called(x) /\ \A j \in 1 .. i - 1 : children[j] \notin Called(x)
           first2(i) == /\ nodes'[n].children[i] \in Called(x)'
                        /\ \A j \in 1 .. i - 1 : nodes'[n].children[j] \notin Called(x)'
<1>1. /\ DOMAIN nodes' = DOMAIN nodes \cup {new} /\ new \notin DOMAIN nodes
      /\ \A m \in DOMAIN nodes : nodes'[m].name = nodes[m].name
      /\ children \in Seq(Nat) /\ new \in Nat
      /\ nodes'[n].children = IF n = parent THEN Append(children, new) ELSE children
    BY DEF NodeAdded
<1>2. \A m \in DOMAIN nodes : m \in Called(x)' <=> m \in Called(x)
    BY <1>1 DEF Called
<1>3. PICK i \in DOMAIN children : first(i) /\ Lookup(n, x) = children[i]
  <2>1. \E i \in DOMAIN children : first(i)
      BY DEF Lookup, FirstChild
  <2>2. PICK i \in DOMAIN children : i = (CHOOSE k \in DOMAIN children : first(k)) /\ first(i)
      BY <2>1, Zenon
  <2>3. Lookup(n, x) = children[i]
      BY <2>1, <2>2 DEF Lookup, FirstChild
  <2> QED
      BY <2>2, <2>3
<1>4. /\ DOMAIN children = 1 .. Len(children) /\ Len(children) \in Nat
      /\ \A j \in DOMAIN children :
            /\ j \in DOMAIN nodes'[n].children /\ nodes'[n].children[j] = children[j]
            /\ children[j] \in DOMAIN nodes
  <2>1. DOMAIN children = 1 .. Len(children) /\ Len(children) \in Nat
      BY <1>1, LenProperties
  <2>2. \A j \in DOMAIN children : children[j] \in DOMAIN nodes
      BY NodeFacts
  <2>3. CASE n = parent
    <3>1. nodes'[n].children = Append(children, new)
        BY <1>1, <2>3
    <3> HIDE DEF children
    <3>2. /\ DOMAIN nodes'[n].children = 1 .. Len(children) + 1
          /\ \A j \in 1 .. Len(children) : nodes'[n].children[j] = children[j]
        BY <1>1, <3>1, AppendProperties, LenProperties
    <3> QED
        BY <2>1, <2>2, <3>2
  <2>4. CASE n # parent
      BY <1>1, <2>1, <2>2, <2>4
  <2> QED
      BY <2>3, <2>4
<1>5. \A j \in 1 .. i - 1 : j \in DOMAIN children
    BY <1>4
<1>6. i \in DOMAIN nodes'[n].children /\ first2(i)
    BY <1>2, <1>3, <1>4, <1>5
<1>7. ASSUME NEW k \in DOMAIN nodes'[n].children, first2(k) PROVE k = i
  <2>1. k \in Int /\ i \in Int /\ 1 <= k /\ 1 <= i
    <3>1. CASE n = parent
      <4> HIDE DEF children, first2
      <4>1. DOMAIN nodes'[n].children = 1 .. Len(children) + 1
          BY <1>1, <3>1, AppendProperties, LenProperties
      <4> QED
          BY <1>4, <4>1
    <3>2. CASE n # parent
      <4> HIDE DEF first2
      <4> QED
          BY <1>1, <1>4, <3>2
    <3> QED
        BY <3>1, <3>2
  <2>2. ~(k < i) /\ ~(i < k)
      BY <1>6, <1>7, <2>1
  <2> QED
      BY <2>1, <2>2
<1>8. Lookup(n, x)' = nodes'[n].children[i]
  <2>1. PICK k \in DOMAIN nodes'[n].children :
            k = (CHOOSE l \in DOMAIN nodes'[n].children : first2(l)) /\ first2(k)
      BY <1>6, Zenon
  <2>2. Lookup(n, x)' = nodes'[n].children[k]
      BY <1>6, <2>1 DEF Lookup, FirstChild
  <2> HIDE DEF first2
  <2> QED
      BY <1>7, <2>1, <2>2
<1> QED
    BY <1>3, <1>4, <1>8

-----------------------------------------------------------------------------
(* The steps of the parser. *)

\* What the code does with a path of any kind: it opens a node below that of the
\* list around it.
ListsNest ==
    \A i \in 2 .. Len(lists) :
        /\ lists[i].base > lists[i - 1].base + lists[i - 1].offset
        /\ garbage \/ lists[i - 1].node \in Above(lists[i].node)

\* What every step preserves.
AmlInv == NamespaceInv /\ ListsNest

\* While the parser runs there is a list that it is in, and a place in the table.
LEMMA TopFacts ==
    ASSUME AmlInv, result = "busy"
    PROVE  /\ lists \in Seq(List) /\ Len(lists) \in Nat \ {0} /\ Top = lists[Len(lists)]
           /\ Top \in List /\ Top.node \in DOMAIN nodes /\ Top.base \in Nat /\ Top.offset \in Nat
           /\ Top.size \in Nat
           /\ At \in Nat /\ At = Top.base + Top.offset
<1>1. lists \in Seq(List) /\ lists # <<>>
    BY DEF AmlInv, NamespaceInv, TypeOK
<1>2. Len(lists) \in Nat \ {0} /\ Top = lists[Len(lists)]
    BY <1>1, EmptySeq DEF Top, Last
<1>3. Top \in List
    BY <1>1, <1>2, ElementOfSeq
<1>4. Top.node \in DOMAIN nodes /\ Top.base \in Nat /\ Top.offset \in Nat /\ Top.size \in Nat
    BY <1>3 DEF List
<1> QED
    BY <1>1, <1>2, <1>3, <1>4 DEF At

\* The parser returns, and nothing is left of its lists.
LEMMA ReturnKeeps ==
    ASSUME AmlInv, NEW code \in {"ok", "error", "fault"}, Return(code), UNCHANGED <<nodes, m_root>>,
           garbage' \in BOOLEAN
    PROVE  AmlInv'
<1>1. TypeOK'
  <2>1. lists' = <<>> /\ table' = NoTable /\ result' = code
      BY DEF Return
  <2>2. nodes' \in Seq(Node) /\ m_root' \in {Null} \cup DOMAIN nodes'
      BY DEF AmlInv, NamespaceInv, TypeOK
  <2>3. lists' \in Seq(List')
      BY <2>1
  <2> QED
      BY <2>1, <2>2, <2>3 DEF TypeOK
<1>2. NamespaceForest'
    BY DEF AmlInv, NamespaceInv, NamespaceForest
<1>3. ListsNest'
  <2>1. Len(lists') = 0
      BY DEF Return
  <2> QED
      BY <2>1 DEF ListsNest
<1> QED
    BY <1>1, <1>2, <1>3 DEF AmlInv, NamespaceInv

\* A list that is opened: it lies further on in the table, and its node below
\* that of the list around it.
LEMMA OpenKeeps ==
    ASSUME AmlInv, result = "busy", NEW node, NEW pkg, NEW path, OpenScope(node, pkg, path),
           pkg.size \in Nat, pkg.size >= 1, pkg.length \in Nat, path.size \in Nat,
           node \in DOMAIN nodes', DOMAIN nodes \subseteq DOMAIN nodes',
           \/ garbage'
           \/ /\ ~garbage /\ Top.node \in Above(node)'
              /\ \A n \in DOMAIN nodes : \A a \in Above(n) : a \in Above(n)'
    PROVE  lists' \in Seq(List') /\ lists' # <<>> /\ ListsNest'
<1>1. PICK header \in Nat : header = 1 + pkg.size + path.size /\ header >= 1
    OBVIOUS
<1>2. PICK new : new = TermList(node, At + header, (pkg.length - header + 1) % Word, pkg.length + 1)
    OBVIOUS
<1>3. lists' = Append(lists, new)
    BY <1>1, <1>2 DEF OpenScope
<1>4. /\ lists \in Seq(List) /\ Len(lists) \in Nat \ {0} /\ Top = lists[Len(lists)]
      /\ At \in Nat /\ At = Top.base + Top.offset
    BY TopFacts
<1>5. new \in List'
  <2>1. (pkg.length - header + 1) % Word \in 0 .. Word - 1
    <3>1. pkg.length - header + 1 \in Int /\ Word \in Nat \ {0}
        BY AmlAssumption
    <3> QED
        BY <3>1
  <2>2. At + header \in Nat /\ pkg.length + 1 \in Nat
      BY <1>4
  <2> QED
      BY <1>2, <2>1, <2>2 DEF List, TermList
<1>6. lists \in Seq(List')
  <2>1. List \subseteq List'
      BY DEF List
  <2> QED
      BY <1>4, <2>1, SeqMonotonic
<1>7. /\ lists' \in Seq(List') /\ lists' # <<>> /\ Len(lists') = Len(lists) + 1
      /\ \A i \in 1 .. Len(lists) : lists'[i] = lists[i]
      /\ lists'[Len(lists) + 1] = new
    BY <1>3, <1>5, <1>6, AppendProperties
<1>8. new.base = At + header /\ new.node = node
    BY <1>2 DEF TermList
<1>9. ASSUME NEW i \in 2 .. Len(lists')
      PROVE  /\ lists'[i].base > lists'[i - 1].base + lists'[i - 1].offset
             /\ (garbage \/ lists[i - 1].node \in Above(lists[i].node))'
  <2>1. CASE i = Len(lists) + 1
    <3>1. lists'[i] = new /\ lists'[i - 1] = Top
        BY <1>4, <1>7, <2>1
    <3>2. (garbage \/ lists[i - 1].node \in Above(lists[i].node))'
        BY <1>8, <3>1 DEF Above
    <3> QED
        BY <1>1, <1>4, <1>8, <3>1, <3>2
  <2>2. CASE i # Len(lists) + 1
    <3>1. i \in 2 .. Len(lists) /\ i \in 1 .. Len(lists) /\ i - 1 \in 1 .. Len(lists)
        BY <1>4, <1>7, <2>2
    <3>2. lists'[i] = lists[i] /\ lists'[i - 1] = lists[i - 1]
        BY <1>7, <3>1
    <3>3. /\ lists[i].base > lists[i - 1].base + lists[i - 1].offset
          /\ garbage \/ lists[i - 1].node \in Above(lists[i].node)
        BY <3>1 DEF AmlInv, ListsNest
    <3>4. PICK n \in DOMAIN nodes : n = lists[i].node
      <4>1. lists[i] \in List
          BY <1>4, <3>1, ElementOfSeq
      <4> QED
          BY <4>1 DEF List
    <3>5. garbage' \/ lists[i - 1].node \in Above(n)'
        BY <3>3, <3>4
    <3>6. (garbage \/ lists[i - 1].node \in Above(lists[i].node))'
        BY <3>2, <3>4, <3>5 DEF Above
    <3> QED
        BY <3>2, <3>3, <3>6
  <2> QED
      BY <2>1, <2>2
<1>10. ListsNest'
    BY <1>9 DEF ListsNest
<1> QED
    BY <1>7, <1>10

\* The end of a list: the list around it moves on.
LEMMA ListEndKeeps == ASSUME AmlInv, result = "busy", ListEnd PROVE AmlInv'
<1>1. UNCHANGED <<nodes, m_root, garbage>>
    BY DEF ListEnd
<1>2. CASE Len(lists) = 1
  <2>1. Return("ok")
      BY <1>2 DEF ListEnd
  <2>2. garbage' \in BOOLEAN
    <3>1. garbage \in BOOLEAN /\ garbage' = garbage
        BY <1>1, Zenon DEF AmlInv, NamespaceInv, TypeOK
    <3> QED
        BY <3>1, Zenon
  <2> QED
      BY <1>1, <2>1, <2>2, ReturnKeeps
<1>3. CASE Len(lists) # 1
  <2>1. lists \in Seq(List) /\ Len(lists) \in Nat /\ Len(lists) >= 2 /\ Top.size \in Nat
    <3>1. lists \in Seq(List) /\ Len(lists) \in Nat \ {0} /\ Top.size \in Nat
        BY TopFacts
    <3>2. PICK len : len = Len(lists)
        OBVIOUS
    <3>3. len \in Nat /\ len # 0 /\ len # 1
        BY <1>3, <3>1, <3>2
    <3>4. len >= 2
        BY <3>3
    <3> QED
        BY <3>1, <3>2, <3>3, <3>4
  <2>2. PICK L \in Nat : L = Len(lists) - 1 /\ L >= 1
      BY <2>1
  <2>3. PICK f : f = Front(lists)
      OBVIOUS
  <2>4. f \in Seq(List) /\ Len(f) = L /\ \A i \in 1 .. L : f[i] = lists[i]
    <3>1. f = SubSeq(lists, 1, L)
        BY <2>2, <2>3 DEF Front
    <3> QED
        BY <2>1, <2>2, <3>1
  <2>5. lists' = [f EXCEPT ![L].offset = f[L].offset + Top.size] /\ UNCHANGED <<table, result>>
      BY <1>3, <2>2, <2>3 DEF ListEnd
  <2>6. f[L] \in List
      BY <2>2, <2>4, ElementOfSeq
  <2>7. PICK e : e = [f[L] EXCEPT !.offset = f[L].offset + Top.size]
      OBVIOUS
  <2>8. e \in List /\ e.base = f[L].base /\ e.node = f[L].node
    <3>1. f[L].offset \in Nat /\ Top.size \in Nat
        BY <2>1, <2>6 DEF List
    <3>2. f[L].offset + Top.size \in Nat
        BY <3>1
    <3> QED
        BY <2>6, <2>7, <3>2 DEF List
  <2>9. lists' = [f EXCEPT ![L] = e]
      BY <2>2, <2>4, <2>5, <2>7
  <2>10. /\ lists' \in Seq(List) /\ Len(lists') = L /\ lists'[L] = e
         /\ \A i \in 1 .. L - 1 : lists'[i] = lists[i]
    <3>1. lists' \in Seq(List) /\ Len(lists') = L
        BY <2>2, <2>4, <2>8, <2>9, ExceptSeq
    <3> QED
        BY <2>2, <2>4, <2>9, <3>1
  <2>11. lists' # <<>>
      BY <2>2, <2>10
  <2>12. TypeOK'
    <3>1. List' = List
        BY <1>1 DEF List
    <3>2. lists' \in Seq(List') /\ result' = "busy"
        BY <2>5, <2>10, <3>1
    <3>3. nodes' \in Seq(Node) /\ m_root' \in {Null} \cup DOMAIN nodes' /\ table' \in Images \cup {NoTable}
        BY <1>1, <2>5 DEF AmlInv, NamespaceInv, TypeOK
    <3>4. garbage' \in BOOLEAN
      <4>1. garbage \in BOOLEAN /\ garbage' = garbage
          BY <1>1, Zenon DEF AmlInv, NamespaceInv, TypeOK
      <4> QED
          BY <4>1, Zenon
    <3> QED
        BY <2>11, <3>2, <3>3, <3>4 DEF TypeOK
  <2>13. NamespaceForest'
      BY <1>1 DEF AmlInv, NamespaceInv, NamespaceForest
  <2>14. ASSUME NEW i \in 2 .. Len(lists')
         PROVE  /\ lists'[i].base > lists'[i - 1].base + lists'[i - 1].offset
                /\ (garbage \/ lists[i - 1].node \in Above(lists[i].node))'
    <3>1. i \in 2 .. Len(lists) /\ i \in 1 .. L /\ i - 1 \in 1 .. L - 1
        BY <2>2, <2>10
    <3>2. /\ lists[i].base > lists[i - 1].base + lists[i - 1].offset
          /\ garbage \/ lists[i - 1].node \in Above(lists[i].node)
        BY <3>1 DEF AmlInv, ListsNest
    <3>3. /\ lists'[i].base = lists[i].base /\ lists'[i].node = lists[i].node
          /\ lists'[i - 1] = lists[i - 1]
      <4>1. CASE i = L
          BY <2>4, <2>8, <2>10, <3>1, <4>1
      <4>2. CASE i # L
          BY <2>2, <2>10, <3>1, <4>2
      <4> QED
          BY <4>1, <4>2
    <3>4. (garbage \/ lists[i - 1].node \in Above(lists[i].node))'
        BY <1>1, <3>2, <3>3 DEF Above, HoldsParents
    <3> QED
        BY <3>2, <3>3, <3>4
  <2>15. ListsNest'
      BY <2>14 DEF ListsNest
  <2> QED
      BY <2>12, <2>13, <2>15 DEF AmlInv, NamespaceInv
<1> QED
    BY <1>2, <1>3

\* The name a scope gets is a sequence of bytes.
LEMMA PathNameType ==
    ASSUME NEW path, path.segs \in Seq(Seq(0 .. 255))
    PROVE  acpi_getPathName(path) \in Seq(0 .. 255)
<1>1. PICK segs \in Seq(Seq(0 .. 255)) : segs = path.segs
    OBVIOUS
<1>2. CASE Len(segs) < 2
  <2>1. acpi_getPathName(path) = <<>>
      BY <1>1, <1>2 DEF acpi_getPathName
  <2> QED
      BY <2>1
<1>3. CASE ~(Len(segs) < 2)
  <2>1. Len(segs) \in 1 .. Len(segs)
    <3>1. Len(segs) \in Nat
        BY LenProperties
    <3> QED
        BY <1>3, <3>1
  <2>2. segs[Len(segs)] \in Seq(0 .. 255)
      BY <2>1, ElementOfSeq
  <2> QED
      BY <1>1, <1>3, <2>2 DEF acpi_getPathName, Last
<1> QED
    BY <1>2, <1>3

\* What a step does to the nodes: nothing, or one is added, or a node that was
\* picked up from the stack has been used.
NodesKept == garbage' \/ nodes' = nodes \/ \E parent, name, new : NodeAdded(parent, name, new)

\* The scope exists already.
LEMMA FoundKeeps ==
    ASSUME AmlInv, result = "busy", NEW pkg, NEW path, NEW parent \in DOMAIN nodes, NEW child,
           Top.node \in AtOrAbove(parent), child = acpi_getChildByName(parent, path),
           pkg.size \in Nat, pkg.size >= 1, pkg.length \in Nat, path.size \in Nat,
           ScopeFound(pkg, path, parent, child), UNCHANGED m_root
    PROVE  AmlInv'
<1>1. UNCHANGED <<nodes, m_root, table, result, garbage>> /\ child # Null /\ OpenScope(child, pkg, path)
    BY DEF ScopeFound
<1>2. child \in DOMAIN nodes /\ nodes[child].parent = parent
  <2>1. PICK among : child = FirstChild(parent, among)
      BY DEF acpi_getChildByName
  <2> QED
      BY <1>1, <2>1, ChildFound DEF AmlInv
<1>3. Top.node \in Above(child)
  <2>1. PICK t : t = Top.node
      OBVIOUS
  <2>2. t \in Above(child)
      BY <1>2, <2>1, AboveChild DEF AmlInv
  <2> QED
      BY <2>1, <2>2
<1>4. \A n : Above(n)' = Above(n)
    BY <1>1 DEF Above, HoldsParents
<1>5. garbage \in BOOLEAN /\ garbage' = garbage
    BY <1>1, Zenon DEF AmlInv, NamespaceInv, TypeOK
<1>6. \/ garbage'
      \/ /\ ~garbage /\ Top.node \in Above(child)'
         /\ \A n \in DOMAIN nodes : \A a \in Above(n) : a \in Above(n)'
    BY <1>3, <1>4, <1>5
<1>7. lists' \in Seq(List') /\ lists' # <<>> /\ ListsNest'
    BY <1>1, <1>2, <1>6, OpenKeeps
<1>8. TypeOK'
  <2>1. /\ nodes' \in Seq(Node) /\ m_root' \in {Null} \cup DOMAIN nodes'
        /\ table' \in Images \cup {NoTable} /\ result' = "busy"
      BY <1>1 DEF AmlInv, NamespaceInv, TypeOK
  <2>2. garbage' \in BOOLEAN
      BY <1>5, Zenon
  <2> QED
      BY <1>7, <2>1, <2>2 DEF TypeOK
<1>9. NamespaceForest'
    BY <1>1 DEF AmlInv, NamespaceInv, NamespaceForest
<1> QED
    BY <1>7, <1>8, <1>9 DEF AmlInv, NamespaceInv

\* The scope is created.
LEMMA CreatedKeeps ==
    ASSUME AmlInv, result = "busy", NEW pkg, NEW path, NEW parent \in DOMAIN nodes, NEW child,
           Top.node \in AtOrAbove(parent), path.segs \in Seq(Seq(0 .. 255)),
           pkg.size \in Nat, pkg.size >= 1, pkg.length \in Nat, path.size \in Nat,
           ScopeCreated(pkg, path, parent, child), UNCHANGED m_root
    PROVE  AmlInv' /\ NodesKept
<1>1. /\ UNCHANGED <<m_root, table, result, garbage>> /\ OpenScope(Len(nodes'), pkg, path)
      /\ nodes' = WithNode(parent, acpi_getPathName(path))
    BY DEF ScopeCreated
<1>2. PICK name \in Seq(0 .. 255) : name = acpi_getPathName(path)
    BY PathNameType
<1>3. PICK new : new = Len(nodes) + 1
    OBVIOUS
<1>4. NodeAdded(parent, name, new)
    BY <1>1, <1>2, <1>3, NewNode DEF AmlInv
<1>5. /\ nodes' \in Seq(Node) /\ Len(nodes') = new /\ new \in DOMAIN nodes'
      /\ DOMAIN nodes \subseteq DOMAIN nodes'
    BY <1>4 DEF NodeAdded
<1>6. Top.node \in Above(new)'
  <2>1. PICK t \in AtOrAbove(parent) : t = Top.node
      OBVIOUS
  <2>2. t \in Above(new)'
      BY <1>4, AboveNew DEF AmlInv
  <2> QED
      BY <2>1, <2>2
<1>7. \A n \in DOMAIN nodes : \A a \in Above(n) : a \in Above(n)'
    BY <1>4, AboveGrows DEF AmlInv
<1>8. garbage \in BOOLEAN /\ garbage' = garbage
    BY <1>1, Zenon DEF AmlInv, NamespaceInv, TypeOK
<1>9. \/ garbage'
      \/ /\ ~garbage /\ Top.node \in Above(new)'
         /\ \A n \in DOMAIN nodes : \A a \in Above(n) : a \in Above(n)'
    BY <1>6, <1>7, <1>8
<1>10. OpenScope(new, pkg, path)
    BY <1>1, <1>5
<1>11. lists' \in Seq(List') /\ lists' # <<>> /\ ListsNest'
    BY <1>5, <1>9, <1>10, OpenKeeps
<1>12. TypeOK'
  <2>1. /\ m_root' \in {Null} \cup DOMAIN nodes'
        /\ table' \in Images \cup {NoTable} /\ result' = "busy"
      BY <1>1, <1>5 DEF AmlInv, NamespaceInv, TypeOK
  <2>2. garbage' \in BOOLEAN
      BY <1>8, Zenon
  <2> QED
      BY <1>5, <1>11, <2>1, <2>2 DEF TypeOK
<1>13. NamespaceForest'
    BY <1>1, <1>3, <1>4, ForestGrows DEF AmlInv
<1> QED
    BY <1>4, <1>11, <1>12, <1>13 DEF AmlInv, NamespaceInv, NodesKept

\* There is no memory for the scope: if it goes on, then with a node that it was
\* not given, under a new name.
LEMMA NotCreatedKeeps ==
    ASSUME AmlInv, result = "busy", NEW pkg, NEW path, NEW parent, NEW child,
           path.segs \in Seq(Seq(0 .. 255)),
           pkg.size \in Nat, pkg.size >= 1, pkg.length \in Nat, path.size \in Nat,
           ScopeNotCreated(pkg, path, parent, child), UNCHANGED m_root
    PROVE  AmlInv' /\ NodesKept
<1>1. PICK l_node \in {Null, Wild} \cup DOMAIN nodes :
        CASE l_node = Null -> Return("error") /\ UNCHANGED <<nodes, garbage>>
          [] l_node = Wild -> Return("fault") /\ UNCHANGED nodes /\ garbage' = TRUE
          [] OTHER -> /\ nodes' = [nodes EXCEPT ![l_node].name = acpi_getPathName(path)]
                      /\ OpenScope(l_node, pkg, path)
                      /\ garbage' = TRUE /\ UNCHANGED <<table, result>>
    BY DEF ScopeNotCreated
<1>2. Null # Wild
    BY DEF Null, Wild
<1>3. CASE l_node = Null
  <2>1. Return("error") /\ UNCHANGED <<nodes, garbage>>
      BY <1>1, <1>2, <1>3, Zenon
  <2>2. garbage' \in BOOLEAN
    <3>1. garbage \in BOOLEAN /\ garbage' = garbage
        BY <2>1, Zenon DEF AmlInv, NamespaceInv, TypeOK
    <3> QED
        BY <3>1, Zenon
  <2> QED
      BY <2>1, <2>2, ReturnKeeps DEF NodesKept
<1>4. CASE l_node = Wild
  <2>1. Return("fault") /\ UNCHANGED nodes /\ garbage' = TRUE
      BY <1>1, <1>2, <1>4, Zenon
  <2>2. garbage' \in BOOLEAN
      BY <2>1, Zenon
  <2> QED
      BY <2>1, <2>2, ReturnKeeps DEF NodesKept
<1>5. CASE l_node # Null /\ l_node # Wild
  <2>1. /\ nodes' = [nodes EXCEPT ![l_node].name = acpi_getPathName(path)]
        /\ OpenScope(l_node, pkg, path) /\ UNCHANGED <<table, result>> /\ l_node \in DOMAIN nodes
      BY <1>1, <1>5, Zenon
  <2>2. garbage' = TRUE /\ garbage' \in BOOLEAN
      BY <1>1, <1>5, Zenon
  <2>3. PICK name \in Seq(0 .. 255) : name = acpi_getPathName(path)
      BY PathNameType
  <2>4. nodes \in Seq(Node) /\ DOMAIN nodes = 1 .. Len(nodes) /\ Len(nodes) \in Nat
      BY DEF AmlInv, NamespaceInv, TypeOK
  <2>5. nodes[l_node] \in Node
      BY <2>1, <2>4, ElementOfSeq
  <2>6. PICK e : e = [nodes[l_node] EXCEPT !.name = name]
      OBVIOUS
  <2>7. e \in Node /\ e.parent = nodes[l_node].parent /\ e.children = nodes[l_node].children
      BY <2>3, <2>5, <2>6 DEF Node
  <2>8. nodes' = [nodes EXCEPT ![l_node] = e]
      BY <2>1, <2>3, <2>4, <2>6
  <2>9. nodes' \in Seq(Node) /\ DOMAIN nodes' = DOMAIN nodes
    <3>1. DOMAIN nodes' = DOMAIN nodes
        BY <2>8
    <3>2. l_node \in 1 .. Len(nodes)
        BY <2>1, <2>4
    <3>3. [nodes EXCEPT ![l_node] = e] \in Seq(Node)
        BY <2>4, <2>7, <3>2, ExceptSeq
    <3> QED
        BY <2>8, <3>1, <3>3
  <2>10. \A n \in DOMAIN nodes :
            nodes'[n].parent = nodes[n].parent /\ nodes'[n].children = nodes[n].children
      BY <2>1, <2>4, <2>7, <2>8
  <2>11. lists' \in Seq(List') /\ lists' # <<>> /\ ListsNest'
    <3>1. garbage'
        BY <2>2
    <3> QED
        BY <2>1, <2>9, <3>1, OpenKeeps
  <2>12. TypeOK'
    <3>1. /\ m_root' \in {Null} \cup DOMAIN nodes'
          /\ table' \in Images \cup {NoTable} /\ result' = "busy"
        BY <2>1, <2>9 DEF AmlInv, NamespaceInv, TypeOK
    <3> QED
        BY <2>2, <2>9, <2>11, <3>1 DEF TypeOK
  <2>13. NamespaceForest'
    <3>1. ASSUME NEW n \in DOMAIN nodes
          PROVE  /\ nodes'[n].parent < n
                 /\ nodes'[n].parent # Null =>
                        \E i \in DOMAIN nodes'[nodes'[n].parent].children :
                            nodes'[nodes'[n].parent].children[i] = n
                 /\ \A i \in DOMAIN nodes'[n].children :
                        /\ nodes'[n].children[i] \in DOMAIN nodes
                        /\ nodes'[nodes'[n].children[i]].parent = n
                        /\ \A j \in 1 .. i - 1 : nodes'[n].children[j] # nodes'[n].children[i]
      <4>1. nodes[n].parent # Null => nodes[n].parent \in DOMAIN nodes
          BY NodeFacts DEF AmlInv
      <4>2. /\ nodes[n].parent < n
            /\ nodes[n].parent # Null =>
                        \E i \in DOMAIN nodes[nodes[n].parent].children :
                            nodes[nodes[n].parent].children[i] = n
            /\ \A i \in DOMAIN nodes[n].children :
                        /\ nodes[n].children[i] \in DOMAIN nodes
                        /\ nodes[nodes[n].children[i]].parent = n
                        /\ \A j \in 1 .. i - 1 : nodes[n].children[j] # nodes[n].children[i]
          BY DEF AmlInv, NamespaceInv, NamespaceForest
      <4> QED
          BY <2>10, <4>1, <4>2
    <3>2. m_root' # Null => nodes'[m_root'].parent = Null
      <4>1. m_root # Null => m_root \in DOMAIN nodes /\ nodes[m_root].parent = Null
          BY DEF AmlInv, NamespaceInv, NamespaceForest, TypeOK
      <4> QED
          BY <2>10, <4>1
    <3> QED
        BY <2>9, <3>1, <3>2 DEF NamespaceForest
  <2> QED
      BY <2>2, <2>11, <2>12, <2>13 DEF AmlInv, NamespaceInv, NodesKept
<1> QED
    BY <1>3, <1>4, <1>5

\* acpi_amlParseDefScope, for whatever the table says.
LEMMA DefScopeKeeps ==
    ASSUME AmlInv, result = "busy", acpi_amlParseDefScope
    PROVE  AmlInv' /\ NodesKept
<1>1. PICK pkg \in {acpi_amlParsePkgLength(At + 1)} :
      \E path \in {acpi_amlParseNameString(At + 1 + pkg.size)} :
      \E parent \in {IF path.ok THEN acpi_getParentByPath(Top.node, path) ELSE Null} :
      \E child \in {IF parent = Null THEN Null ELSE acpi_getChildByName(parent, path)} :
            \/ ScopeRefused(parent)
            \/ ScopeFound(pkg, path, parent, child)
            \/ ScopeCreated(pkg, path, parent, child)
            \/ ScopeNotCreated(pkg, path, parent, child)
    BY Zenon DEF acpi_amlParseDefScope
<1>2. PICK path \in {acpi_amlParseNameString(At + 1 + pkg.size)} :
      \E parent \in {IF path.ok THEN acpi_getParentByPath(Top.node, path) ELSE Null} :
      \E child \in {IF parent = Null THEN Null ELSE acpi_getChildByName(parent, path)} :
            \/ ScopeRefused(parent)
            \/ ScopeFound(pkg, path, parent, child)
            \/ ScopeCreated(pkg, path, parent, child)
            \/ ScopeNotCreated(pkg, path, parent, child)
    BY <1>1, Zenon
<1>3. PICK parent, child :
            /\ parent = IF path.ok THEN acpi_getParentByPath(Top.node, path) ELSE Null
            /\ child = IF parent = Null THEN Null ELSE acpi_getChildByName(parent, path)
            /\ \/ ScopeRefused(parent)
               \/ ScopeFound(pkg, path, parent, child)
               \/ ScopeCreated(pkg, path, parent, child)
               \/ ScopeNotCreated(pkg, path, parent, child)
    BY <1>2, Zenon
<1>4. m_root' = m_root
    BY Zenon DEF acpi_amlParseDefScope
<1>5. TypeOK /\ At \in Nat /\ Top.node \in DOMAIN nodes
    BY TopFacts DEF AmlInv, NamespaceInv
<1>6. pkg.size \in Nat /\ pkg.size >= 1 /\ pkg.length \in Nat
  <2>1. At + 1 \in Nat /\ pkg = acpi_amlParsePkgLength(At + 1)
      BY <1>5
  <2> QED
      BY <1>5, <2>1, PkgType
<1>7. path.segs \in Seq(Seq(0 .. 255)) /\ path.size \in Nat
  <2>1. At + 1 + pkg.size \in Nat /\ path = acpi_amlParseNameString(At + 1 + pkg.size)
      BY <1>5, <1>6
  <2> QED
      BY <1>5, <2>1, NameType
<1>8. parent = Null \/ (parent \in DOMAIN nodes /\ Top.node \in AtOrAbove(parent))
  <2>1. CASE path.ok
    <3>1. PICK p : p = acpi_getParentByPath(Top.node, path)
        OBVIOUS
    <3>2. PICK t \in DOMAIN nodes : t = Top.node
        BY <1>5
    <3>3. p = acpi_getParentByPath(t, path)
        BY <3>1, <3>2
    <3>4. p = Null \/ (p \in DOMAIN nodes /\ t \in AtOrAbove(p))
        BY <1>7, <3>3, ParentFound DEF AmlInv
    <3> QED
        BY <1>3, <2>1, <3>1, <3>2, <3>4
  <2>2. CASE ~path.ok
      BY <1>3, <2>2
  <2> QED
      BY <2>1, <2>2
<1>9. CASE ScopeRefused(parent)
  <2>1. Return("error") /\ UNCHANGED <<nodes, garbage>>
      BY <1>9 DEF ScopeRefused
  <2>2. garbage' \in BOOLEAN
    <3>1. garbage \in BOOLEAN /\ garbage' = garbage
        BY <2>1, Zenon DEF AmlInv, NamespaceInv, TypeOK
    <3> QED
        BY <3>1, Zenon
  <2> QED
      BY <1>4, <2>1, <2>2, ReturnKeeps DEF NodesKept
<1>10. CASE ScopeFound(pkg, path, parent, child)
  <2>1. parent # Null /\ nodes' = nodes
      BY <1>10 DEF ScopeFound
  <2>2. child = acpi_getChildByName(parent, path)
      BY <1>3, <2>1
  <2>3. AmlInv'
      BY <1>4, <1>6, <1>7, <1>8, <1>10, <2>1, <2>2, FoundKeeps
  <2> QED
      BY <2>1, <2>3 DEF NodesKept
<1>11. CASE ScopeCreated(pkg, path, parent, child)
  <2>1. parent # Null
      BY <1>11 DEF ScopeCreated
  <2> QED
      BY <1>4, <1>6, <1>7, <1>8, <1>11, <2>1, CreatedKeeps
<1>12. CASE ScopeNotCreated(pkg, path, parent, child)
    BY <1>4, <1>6, <1>7, <1>12, NotCreatedKeeps
<1> QED
    BY <1>3, <1>9, <1>10, <1>11, <1>12

\* acpi_parseAml begins: with a new root, or with the one there is.
LEMMA ParseKeeps ==
    ASSUME AmlInv, NEW image \in Images, acpi_parseAml(image)
    PROVE  AmlInv' /\ NodesKept
<1> DEFINE list(root) == TermList(root, 0, (image.m_length - HeaderSize) % Word, 0)
<1>1. garbage' = garbage /\ garbage' \in BOOLEAN
  <2>1. garbage \in BOOLEAN /\ garbage' = garbage
      BY Zenon DEF AmlInv, NamespaceInv, TypeOK, acpi_parseAml
  <2> QED
      BY <2>1, Zenon
<1>2. ASSUME NEW root \in DOMAIN nodes', lists' = <<list(root)>>
      PROVE  lists' \in Seq(List') /\ lists' # <<>> /\ ListsNest'
  <2>1. (image.m_length - HeaderSize) % Word \in 0 .. Word - 1
    <3>1. image.m_length - HeaderSize \in Int /\ Word \in Nat \ {0}
        BY AmlAssumption
    <3> QED
        BY <3>1
  <2>2. list(root) \in List'
      BY <2>1 DEF List, TermList
  <2> HIDE DEF list
  <2>3. lists' \in Seq(List') /\ Len(lists') = 1
      BY <1>2, <2>2
  <2> QED
      BY <1>2, <2>3 DEF ListsNest
<1>3. CASE m_root # Null
  <2>1. /\ UNCHANGED <<nodes, m_root>> /\ table' = image /\ result' = "busy"
        /\ lists' = <<list(m_root)>>
      BY <1>3 DEF acpi_parseAml
  <2>2. nodes \in Seq(Node) /\ m_root \in DOMAIN nodes
      BY <1>3 DEF AmlInv, NamespaceInv, TypeOK
  <2> HIDE DEF list
  <2>3. lists' \in Seq(List') /\ lists' # <<>> /\ ListsNest'
      BY <1>2, <2>1, <2>2
  <2>4. TypeOK'
      BY <1>1, <2>1, <2>2, <2>3 DEF TypeOK
  <2>5. NamespaceForest'
      BY <2>1 DEF AmlInv, NamespaceInv, NamespaceForest
  <2> QED
      BY <2>1, <2>3, <2>4, <2>5 DEF AmlInv, NamespaceInv, NodesKept
<1>4. CASE m_root = Null /\ Return("error") /\ UNCHANGED <<nodes, m_root>>
    BY <1>1, <1>4, ReturnKeeps DEF NodesKept
<1>5. CASE /\ m_root = Null /\ nodes' = WithNode(Null, <<92>>) /\ m_root' = Len(nodes')
           /\ table' = image /\ result' = "busy" /\ lists' = <<list(m_root')>>
  <2>1. PICK new : new = Len(nodes) + 1
      OBVIOUS
  <2>2. <<92>> \in Seq(0 .. 255)
      OBVIOUS
  <2>3. NodeAdded(Null, <<92>>, new)
      BY <1>5, <2>1, <2>2, NewNode DEF AmlInv
  <2>4. nodes' \in Seq(Node) /\ new \in DOMAIN nodes' /\ m_root' = new
      BY <1>5, <2>3 DEF NodeAdded
  <2>5. NamespaceForest'
      BY <1>5, <2>1, <2>2, <2>3, <2>4, ForestGrows DEF AmlInv
  <2> HIDE DEF list
  <2>6. lists' \in Seq(List') /\ lists' # <<>> /\ ListsNest'
      BY <1>2, <1>5, <2>4
  <2>7. TypeOK'
      BY <1>1, <1>5, <2>4, <2>6 DEF TypeOK
  <2> QED
      BY <2>3, <2>5, <2>6, <2>7 DEF AmlInv, NamespaceInv, NodesKept
<1> QED
    BY <1>3, <1>4, <1>5 DEF acpi_parseAml

\* Every step keeps the namespace a forest, and the scopes nested in it.
LEMMA AmlInvStep == AmlInv /\ [Next]_vars => AmlInv' /\ NodesKept
<1> SUFFICES ASSUME AmlInv, [Next]_vars PROVE AmlInv' /\ NodesKept
    OBVIOUS
<1>1. CASE acpi_init
  <2>1. UNCHANGED <<nodes, table, lists, result, garbage>> /\ m_root' = Null
      BY <1>1 DEF acpi_init
  <2>2. TypeOK'
    <3>1. garbage' \in BOOLEAN
      <4>1. garbage \in BOOLEAN /\ garbage' = garbage
          BY <2>1, Zenon DEF AmlInv, NamespaceInv, TypeOK
      <4> QED
          BY <4>1, Zenon
    <3>2. List' = List
        BY <2>1 DEF List
    <3> QED
        BY <2>1, <3>1, <3>2 DEF AmlInv, NamespaceInv, TypeOK
  <2>3. NamespaceForest'
      BY <2>1 DEF AmlInv, NamespaceInv, NamespaceForest
  <2>4. ListsNest'
      BY <2>1 DEF AmlInv, ListsNest, Above, HoldsParents
  <2> QED
      BY <2>1, <2>2, <2>3, <2>4 DEF AmlInv, NamespaceInv, NodesKept
<1>2. ASSUME NEW image \in Images, acpi_parseAml(image) PROVE AmlInv' /\ NodesKept
    BY <1>2, ParseKeeps
<1>3. CASE acpi_amlParseTermList
  <2>1. result = "busy" /\ (acpi_amlParseTermObj \/ ListEnd)
      BY <1>3 DEF acpi_amlParseTermList
  <2>2. CASE ListEnd
    <3>1. nodes' = nodes
        BY <2>2 DEF ListEnd
    <3> QED
        BY <2>1, <2>2, <3>1, ListEndKeeps DEF NodesKept
  <2>3. CASE acpi_amlParseTermObj
    <3>1. CASE Byte(At) = ScopeOp
        BY <2>1, <2>3, <3>1, DefScopeKeeps DEF acpi_amlParseTermObj
    <3>2. CASE Byte(At) # ScopeOp
      <4>1. Return("error") /\ UNCHANGED <<nodes, m_root, garbage>>
          BY <2>3, <3>2 DEF acpi_amlParseTermObj
      <4>2. garbage' \in BOOLEAN
        <5>1. garbage \in BOOLEAN /\ garbage' = garbage
            BY <4>1, Zenon DEF AmlInv, NamespaceInv, TypeOK
        <5> QED
            BY <5>1, Zenon
      <4> QED
          BY <4>1, <4>2, ReturnKeeps DEF NodesKept
    <3> QED
        BY <3>1, <3>2
  <2> QED
      BY <2>1, <2>2, <2>3
<1>4. CASE UNCHANGED vars
  <2>1. UNCHANGED <<nodes, m_root, table, lists, result, garbage>>
      BY <1>4 DEF vars
  <2>2. TypeOK'
    <3>1. garbage' \in BOOLEAN
      <4>1. garbage \in BOOLEAN /\ garbage' = garbage
          BY <2>1, Zenon DEF AmlInv, NamespaceInv, TypeOK
      <4> QED
          BY <4>1, Zenon
    <3>2. List' = List
        BY <2>1 DEF List
    <3> QED
        BY <2>1, <3>1, <3>2 DEF AmlInv, NamespaceInv, TypeOK
  <2>3. NamespaceForest'
      BY <2>1 DEF AmlInv, NamespaceInv, NamespaceForest
  <2>4. ListsNest'
      BY <2>1 DEF AmlInv, ListsNest, Above, HoldsParents
  <2> QED
      BY <2>1, <2>2, <2>3, <2>4 DEF AmlInv, NamespaceInv, NodesKept
<1> QED
    BY <1>1, <1>2, <1>3, <1>4 DEF Next

\* Whatever the tables hold, of whatever length, and however often memory runs
\* out: the namespace is a forest and the open scopes are nested in it.
THEOREM AmlInvariant == Spec => []AmlInv
<1>1. Init => AmlInv
  <2> SUFFICES ASSUME Init PROVE AmlInv
      OBVIOUS
  <2>1. /\ nodes = <<>> /\ m_root = Null /\ table = NoTable /\ lists = <<>> /\ result = "ok"
      BY DEF Init
  <2>2. garbage \in BOOLEAN
      BY Zenon DEF Init
  <2>3. nodes \in Seq(Node) /\ lists \in Seq(List) /\ DOMAIN nodes = {} /\ Len(lists) = 0
      BY <2>1
  <2>4. TypeOK
      BY <2>1, <2>2, <2>3 DEF TypeOK
  <2>5. NamespaceForest
      BY <2>1, <2>3 DEF NamespaceForest
  <2>6. ListsNest
      BY <2>3 DEF ListsNest
  <2> QED
      BY <2>4, <2>5, <2>6 DEF AmlInv, NamespaceInv
<1> QED
    BY <1>1, AmlInvStep, PTL DEF Spec

\* The namespace acpi_createNode builds is a forest.
THEOREM NamespaceIsForest == Spec => []NamespaceInv
<1>1. AmlInv => NamespaceInv
    BY DEF AmlInv
<1> QED
    BY <1>1, AmlInvariant, PTL

\* A scope of acpi_amlParseDefScope opens further on in the table than the scope
\* around it and, if its path is relative, in a node below that scope's, as
\* long as no node is used that acpi_createNode has not returned.
THEOREM ScopesAreNested == Spec => []ScopesNest
<1>1. AmlInv => ScopesNest
    BY DEF AmlInv, ListsNest, ScopesNest
<1> QED
    BY <1>1, AmlInvariant, PTL

\* What a name leads to stays what it is, as long as no node is used that
\* acpi_createNode has not returned.
THEOREM LookupsAreStable == Spec => LookupsStable
<1> DEFINE Step == garbage' \/ \A n \in DOMAIN nodes, c \in DOMAIN nodes :
                        Lookup(n, nodes[c].name) # Null =>
                            Lookup(n, nodes[c].name)' = Lookup(n, nodes[c].name)
<1>1. AmlInv /\ [Next]_vars => [Step]_vars
  <2> SUFFICES ASSUME AmlInv, [Next]_vars, ~garbage', NEW n \in DOMAIN nodes, NEW c \in DOMAIN nodes,
                      Lookup(n, nodes[c].name) # Null
               PROVE  Lookup(n, nodes[c].name)' = Lookup(n, nodes[c].name)
      OBVIOUS
  <2>1. nodes' = nodes \/ \E parent, name, new : NodeAdded(parent, name, new)
      BY AmlInvStep DEF NodesKept
  <2>2. CASE nodes' = nodes
      BY <2>2 DEF Lookup, FirstChild, Called
  <2>3. ASSUME NEW parent, NEW name, NEW new, NodeAdded(parent, name, new)
        PROVE  Lookup(n, nodes[c].name)' = Lookup(n, nodes[c].name)
    <3>1. PICK x : x = nodes[c].name
        OBVIOUS
    <3>2. nodes'[c].name = x
        BY <2>3, <3>1 DEF NodeAdded
    <3>3. Lookup(n, x)' = Lookup(n, x)
        BY <2>3, <3>1, LookupGrows DEF AmlInv
    <3>4. Lookup(n, nodes[c].name)' = Lookup(n, x)'
        BY <3>2 DEF Lookup, FirstChild, Called
    <3> QED
        BY <3>1, <3>3, <3>4
  <2> QED
      BY <2>1, <2>2, <2>3
<1> QED
    BY <1>1, AmlInvariant, PTL DEF Spec, LookupsStable
=============================================================================
