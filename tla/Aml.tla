-------------------------------- MODULE Aml ---------------------------------
(***************************************************************************)
(* kernel/src/acpi/aml.c: acpi_parseAml reads a table of nested scopes and *)
(* builds the namespace, a tree of nodes on the heap.                      *)
(*                                                                         *)
(* The recursion of acpi_amlParseTermList, acpi_amlParseTermObj and        *)
(* acpi_amlParseDefScope is a stack of term lists.  A name is the sequence *)
(* of its characters; a path is kept as its segments, not as the string    *)
(* that joins them with dots.  Segments are made of name characters, which *)
(* the code does not check.  A node is its place in the order of           *)
(* allocation; nodes are never freed.                                      *)
(***************************************************************************)
EXTENDS Integers, Sequences, SequencesExt, FiniteSetsExt

CONSTANTS
    Images,     \* what may lie at a table's data and after it: bytes and m_length
    HeaderSize, \* the size of a table's header
    Word,       \* size_t counts modulo Word
    MaxNodes    \* bound on the nodes for which there is memory

ASSUME AmlAssumption ==
    /\ Images \subseteq [bytes : Seq(0 .. 255), m_length : Nat]
    /\ HeaderSize \in Nat /\ Word \in Nat \ {0} /\ MaxNodes \in Nat

Null == 0
Wild == -1      \* an address where no node is

VARIABLES
    nodes,      \* the nodes allocated: name, parent and children in list order
    m_root,     \* the root of the namespace
    table,      \* the table being parsed, or NoTable
    lists,      \* the term lists being parsed, the outermost first
    result,     \* what acpi_parseAml returned last (0 is "ok", -1 "error"), or
                \* "busy" while it runs, or "fault" if it never returns
    garbage     \* history: an uninitialised pointer to a node has been used

vars == <<nodes, m_root, table, lists, result, garbage>>

NoTable == [bytes |-> <<>>, m_length |-> 0]

Init ==
    /\ nodes = <<>> /\ m_root = Null
    /\ table = NoTable
    /\ lists = <<>> /\ result = "ok" /\ garbage = FALSE

-----------------------------------------------------------------------------
ScopeOp == 16
NullName == 0
DualNamePrefix == 46
MultiNamePrefix == 47
Underscore == 95
PathPrefixes == {92, 94}                    \* backslash and caret
LeadNameChars == (65 .. 90) \cup {Underscore}

\* The bytes at and after a table's data; further on there are zeros.
Byte(i) == IF i < Len(table.bytes) THEN table.bytes[i + 1] ELSE 0

\* The package length at i, and the number of bytes that hold it: 6 bits in a
\* single byte, or 4 bits and the bytes that follow.
acpi_amlParsePkgLength(i) ==
    LET lead == Byte(i)
        size == lead \div 64 + 1
        part(k, weight) == IF size > k THEN Byte(i + k) * weight ELSE 0
    IN  [size |-> size,
         length |-> IF size = 1 THEN lead % 64
                    ELSE (lead % 16) + part(1, 16) + part(2, 4096) + part(3, 1048576)]

\* The four characters at i without the underscores at their end.
acpi_amlParseNameSeg(i) ==
    LET length == Max({0} \cup {k \in 1 .. 4 : Byte(i + k - 1) # Underscore})
    IN  [k \in 1 .. length |-> Byte(i + k - 1)]

\* The path at i: whether it has prefixes, its segments, and the bytes it takes.
acpi_amlParseNameString(i) ==
    LET start == CHOOSE j \in i .. i + Len(table.bytes) :
                     Byte(j) \notin PathPrefixes /\ \A k \in i .. j - 1 : Byte(k) \in PathPrefixes
        path(first, count) ==
            [ok |-> TRUE, prefixed |-> start > i,
             segs |-> [k \in 1 .. count |-> acpi_amlParseNameSeg(first + 4 * (k - 1))],
             size |-> first + 4 * count - i]
    IN  CASE Byte(start) = NullName         -> path(start + 1, 0)
          [] Byte(start) = DualNamePrefix   -> path(start + 1, 2)
          [] Byte(start) = MultiNamePrefix  -> path(start + 2, Byte(start + 1))
          [] Byte(start) \in LeadNameChars  -> path(start, 1)
          [] OTHER -> [ok |-> FALSE, prefixed |-> FALSE, segs |-> <<>>, size |-> 0]

-----------------------------------------------------------------------------
\* The string of a path is this name: a path of two segments has a dot in it.
Spells(path, name) ==
    ~path.prefixed /\ (path.segs = <<name>> \/ (path.segs = <<>> /\ name = <<>>))

\* The first child that is one of some nodes, or Null.
FirstChild(node, among) ==
    LET children == nodes[node].children
        first(i) == children[i] \in among /\ \A j \in 1 .. i - 1 : children[j] \notin among
    IN  IF \E i \in DOMAIN children : first(i)
        THEN children[CHOOSE i \in DOMAIN children : first(i)]
        ELSE Null

Called(name) == {c \in DOMAIN nodes : nodes[c].name = name}

acpi_getChildByName(node, path) ==
    FirstChild(node, {c \in DOMAIN nodes : Spells(path, nodes[c].name)})

\* The last segment, if there is a dot before it.
acpi_getPathName(path) == IF Len(path.segs) < 2 THEN <<>> ELSE Last(path.segs)

\* Where a path without dots is looked up: in the base node, whatever its
\* prefixes.  For each dot the code goes down to a child, but the name it looks
\* for is the empty one, since l_name is never filled.
acpi_getParentByPath(base, path) ==
    LET down[k \in 0 .. Len(path.segs)] ==
            IF k = 0 THEN base
            ELSE IF down[k - 1] = Null THEN Null
            ELSE FirstChild(down[k - 1], Called(<<>>))
    IN  down[IF path.segs = <<>> THEN 0 ELSE Len(path.segs) - 1]

\* Mutant: the new node replaces the children there were.
WithNode_DropsSiblings(parent, name) ==
    LET new == Len(nodes) + 1
        grown == IF parent = Null THEN nodes ELSE [nodes EXCEPT ![parent].children = <<new>>]
    IN  Append(grown, [name |-> name, parent |-> parent, children |-> <<>>])

\* Mutant: the new node becomes the first child.
WithNode_Prepends(parent, name) ==
    LET new == Len(nodes) + 1
        grown == IF parent = Null THEN nodes
                 ELSE [nodes EXCEPT ![parent].children = <<new>> \o @]
    IN  Append(grown, [name |-> name, parent |-> parent, children |-> <<>>])

\* acpi_createNode, when there is memory: the new node becomes the last child.
WithNode(parent, name) ==
    LET new == Len(nodes) + 1
        grown == IF parent = Null THEN nodes
                 ELSE [nodes EXCEPT ![parent].children = Append(@, new)]
    IN  Append(grown, [name |-> name, parent |-> parent, children |-> <<>>])

-----------------------------------------------------------------------------
TermList(node, base, length, size) ==
    [node |-> node, base |-> base, length |-> length, offset |-> 0, size |-> size]

Return(code) == result' = code /\ lists' = <<>> /\ table' = NoTable

\* acpi_init clears s_acpi, and with it the root of the namespace.
acpi_init ==
    /\ result \notin {"busy", "fault"}
    /\ m_root' = Null
    /\ UNCHANGED <<nodes, table, lists, result, garbage>>

\* acpi_parseAml, up to the list of all terms; the subtraction may wrap.
acpi_parseAml(image) ==
    LET open(root) ==
            /\ table' = image /\ result' = "busy"
            /\ lists' = <<TermList(root, 0, (image.m_length - HeaderSize) % Word, 0)>>
    IN  /\ result \notin {"busy", "fault"}
        /\ \/ /\ m_root # Null
              /\ open(m_root)
              /\ UNCHANGED <<nodes, m_root>>
           \/ /\ m_root = Null /\ Len(nodes) < MaxNodes
              /\ nodes' = WithNode(Null, <<92>>)
              /\ m_root' = Len(nodes')
              /\ open(m_root')
           \/ /\ m_root = Null
              /\ Return("error")
              /\ UNCHANGED <<nodes, m_root>>
        /\ UNCHANGED garbage

Top == Last(lists)
At == Top.base + Top.offset     \* the byte at which the next term starts

\* A scope's terms start after its header.
OpenScope(node, pkg, path) ==
    LET header == 1 + pkg.size + path.size
    IN  lists' = Append(lists, TermList(node, At + header, (pkg.length - header + 1) % Word,
                                        pkg.length + 1))

ScopeRefused(parent) ==
    /\ parent = Null
    /\ Return("error")
    /\ UNCHANGED <<nodes, garbage>>

ScopeFound(pkg, path, parent, child) ==
    /\ parent # Null /\ child # Null
    /\ OpenScope(child, pkg, path)
    /\ UNCHANGED <<nodes, table, result, garbage>>

\* Mutant: the terms are parsed in the node around the new one.
ScopeCreated_ParsedInParent(pkg, path, parent, child) ==
    /\ parent # Null /\ child = Null /\ Len(nodes) < MaxNodes
    /\ nodes' = WithNode(parent, acpi_getPathName(path))
    /\ OpenScope(parent, pkg, path)
    /\ UNCHANGED <<table, result, garbage>>

ScopeCreated(pkg, path, parent, child) ==
    /\ parent # Null /\ child = Null /\ Len(nodes) < MaxNodes
    /\ nodes' = WithNode(parent, acpi_getPathName(path))
    /\ OpenScope(Len(nodes'), pkg, path)
    /\ UNCHANGED <<table, result, garbage>>

\* Without memory acpi_createNode leaves l_node as it is, and the caller looks at
\* l_node, not at the result: whatever was on the stack there decides.
ScopeNotCreated(pkg, path, parent, child) ==
    /\ parent # Null /\ child = Null
    /\ \E l_node \in {Null, Wild} \cup DOMAIN nodes :
        CASE l_node = Null -> Return("error") /\ UNCHANGED <<nodes, garbage>>
          [] l_node = Wild -> Return("fault") /\ UNCHANGED nodes /\ garbage' = TRUE
          [] OTHER -> /\ nodes' = [nodes EXCEPT ![l_node].name = acpi_getPathName(path)]
                      /\ OpenScope(l_node, pkg, path)
                      /\ garbage' = TRUE /\ UNCHANGED <<table, result>>

\* acpi_amlParseDefScope, up to the list of its terms.
acpi_amlParseDefScope ==
    /\ \E pkg \in {acpi_amlParsePkgLength(At + 1)} :
       \E path \in {acpi_amlParseNameString(At + 1 + pkg.size)} :
       \E parent \in {IF path.ok THEN acpi_getParentByPath(Top.node, path) ELSE Null} :
       \E child \in {IF parent = Null THEN Null ELSE acpi_getChildByName(parent, path)} :
            \/ ScopeRefused(parent)
            \/ ScopeFound(pkg, path, parent, child)
            \/ ScopeCreated(pkg, path, parent, child)
            \/ ScopeNotCreated(pkg, path, parent, child)
    /\ UNCHANGED m_root

\* Mutant: a term that is not known is passed over, but not its bytes.
acpi_amlParseTermObj_PassesOver ==
    IF Byte(At) = ScopeOp THEN acpi_amlParseDefScope ELSE UNCHANGED vars

\* Scopes are the only terms that are known.
acpi_amlParseTermObj ==
    IF Byte(At) = ScopeOp THEN acpi_amlParseDefScope
    ELSE Return("error") /\ UNCHANGED <<nodes, m_root, garbage>>

\* The end of a list: of the whole table, or of a scope, over which the
\* list around it then moves on.
ListEnd ==
    /\ IF Len(lists) = 1 THEN Return("ok")
       ELSE /\ lists' = [Front(lists) EXCEPT ![Len(lists) - 1].offset = @ + Top.size]
            /\ UNCHANGED <<table, result>>
    /\ UNCHANGED <<nodes, m_root, garbage>>

\* One iteration of the loop of the list that is being parsed.
acpi_amlParseTermList ==
    /\ result = "busy"
    /\ IF Top.offset <= Top.length THEN acpi_amlParseTermObj ELSE ListEnd

Next == acpi_init \/ (\E image \in Images : acpi_parseAml(image)) \/ acpi_amlParseTermList

Spec == Init /\ [][Next]_vars

\* The parser runs on once it has been called.
LiveSpec == Spec /\ WF_vars(acpi_amlParseTermList)

-----------------------------------------------------------------------------
Node == [name : Seq(0 .. 255), parent : Nat, children : Seq(Nat)]
List == [node : DOMAIN nodes, base : Nat, length : 0 .. Word - 1, offset : Nat, size : Nat]

TypeOK ==
    /\ nodes \in Seq(Node)
    /\ m_root \in {Null} \cup DOMAIN nodes
    /\ table \in Images \cup {NoTable}
    /\ lists \in Seq(List)
    /\ result \in {"ok", "error", "busy", "fault"}
    /\ result = "busy" <=> lists # <<>>
    /\ garbage \in BOOLEAN

\* The namespace is a forest, one tree for every acpi_init: a node is a child of
\* its parent and of no other node, once, and a parent is older than its
\* children.  It stays one when a scope that could not be allocated is opened
\* as a node whose address was left on the stack.
NamespaceForest ==
    /\ \A n \in DOMAIN nodes :
        LET children == nodes[n].children
        IN  /\ nodes[n].parent < n
            /\ nodes[n].parent # Null => \E i \in DOMAIN nodes[nodes[n].parent].children :
                                            nodes[nodes[n].parent].children[i] = n
            /\ \A i \in DOMAIN children :
                /\ children[i] \in DOMAIN nodes /\ nodes[children[i]].parent = n
                /\ \A j \in 1 .. i - 1 : children[j] # children[i]
    /\ m_root # Null => nodes[m_root].parent = Null

\* The inductive invariant of the namespace.
NamespaceInv == TypeOK /\ NamespaceForest

\* The nodes above a node: they are in every set that holds the node and, with
\* a node, its parent.
HoldsParents(S) == \A m \in S : nodes[m].parent \in S \cup {Null}
Above(n) ==
    {a \in DOMAIN nodes \ {n} :
        \A S \in SUBSET DOMAIN nodes : n \in S /\ HoldsParents(S) => a \in S}

\* A path that names something within the scope it stands in: it has no prefix
\* and is not the empty string.
Relative(path) == ~path.prefixed /\ ~Spells(path, <<>>)

\* The path of the scope that starts at a byte.
PathAt(at) == acpi_amlParseNameString(at + 1 + acpi_amlParsePkgLength(at + 1).size)

\* The scopes that acpi_amlParseDefScope is in lie one in the other in the table,
\* so that its recursion cannot be deeper than the table is long; and a scope
\* with a relative path is parsed in a node below that of the scope around it,
\* so that its terms never end up beside or above that scope.  Nothing is said of
\* the nodes once a pointer from the stack has been used for one (garbage), nor
\* of the node of a path with prefixes: the code looks such a path up in
\* the scope around it, where it should go back to the root or the parent.
ScopesNest ==
    \A i \in 2 .. Len(lists) :
        LET around == lists[i - 1].base + lists[i - 1].offset     \* where the scope starts
        IN  /\ lists[i].base > around
            /\ Relative(PathAt(around)) =>
                    garbage \/ lists[i - 1].node \in Above(lists[i].node)

\* What a name leads to in a node.
Lookup(n, name) == FirstChild(n, Called(name))

\* Once a name leads to a node it goes on leading to the same node, whatever is
\* parsed later; only a node that was picked up from the stack can change that.
LookupsStable ==
    [][garbage' \/ \A n \in DOMAIN nodes, c \in DOMAIN nodes :
            Lookup(n, nodes[c].name) # Null =>
                Lookup(n, nodes[c].name)' = Lookup(n, nodes[c].name)]_vars

\* acpi_parseAml returns, or a wild pointer stops it, whatever the table says of its
\* lengths.  It always returns with an error: the loop takes the byte behind each
\* list, and behind the table, for a term.  (Behind the table there are zeros
\* here, not scopes without end.)
ParseEnds == result = "busy" ~> result # "busy"
=============================================================================
