------------------------------ MODULE Services ------------------------------
(***************************************************************************)
(* The handler registry and the virtual file system share the heap.  One   *)
(* task calls both (a file system may add handlers while it mounts), and   *)
(* interrupts are served in between.                                       *)
(***************************************************************************)
EXTENDS IrqHandlers, Vfs

vars == <<mem, irqVars, vfsVars>>

Init ==
    /\ mem = [c \in Cells |-> Free]
    /\ irq_init /\ vfs_init

TaskInVfs == ~Interrupted /\ ~broken /\ adding = NotAdding

Next ==
    \/ irqNext /\ UNCHANGED vfsVars
    \/ TaskInVfs /\ vfsNext /\ UNCHANGED irqVars

Spec == Init /\ [][Next]_vars

-----------------------------------------------------------------------------
\* Every block of the heap is in use in one place or free: a call that fails half
\* way gives back what it had, and none takes what another uses.  The blocks of
\* removed handlers are lost for good.
BlocksAccounted ==
    broken \/ /\ {c \in Cells : mem[c] # Free} = InLists \cup InCall \cup InVfs \cup orphans
              /\ \A s, t \in {InLists, InCall, InVfs, orphans} : s = t \/ s \cap t = {}

-----------------------------------------------------------------------------
(* The inductive invariant, from which the invariants of the three modules   *)
(* follow.  chains are the nodes of the lists of handlers, files those of    *)
(* the list of file systems.                                                 *)

Blocks ==
    [kind : {"free", "raw", "node", "handler", "vnode", "tree"}, next : Cells \cup {Null},
     data : Cells \cup {Null} \cup Handlers \cup FileSystems]

\* Where place k of a list leads: behind its end, nowhere.
LinkTo(seq, k) == IF k <= Len(seq) THEN seq[k] ELSE Null

IsChain(head, seq) ==
    /\ head = LinkTo(seq, 1)
    /\ \A k \in 1 .. Len(seq) :
        mem[seq[k]].kind = "node" /\ mem[seq[k]].next = LinkTo(seq, k + 1)

\* The lists hold what has been added, and share neither nodes nor handlers.
HandlersInv(chains) ==
    /\ \A i \in Lines :
        /\ IsChain(s_handlerList[i], chains[i])
        /\ registered[i] \in Seq(Handlers) /\ Len(registered[i]) = Len(chains[i])
        /\ \A k \in 1 .. Len(chains[i]) :
            LET l_handler == mem[chains[i][k]].data
            IN  l_handler \in Cells /\ mem[l_handler] = Handler(registered[i][k])
    /\ \A i, j \in Lines : \A k \in 1 .. Len(chains[i]), l \in 1 .. Len(chains[j]) :
        \/ chains[i][k] = chains[j][l]
        \/ mem[chains[i][k]].data = mem[chains[j][l]].data
        => i = j /\ k = l

\* A block of a handler that is in no list.
LooseHandler(chains, c) ==
    /\ c \in Cells /\ mem[c].kind = "handler"
    /\ \A i \in Lines : \A k \in 1 .. Len(chains[i]) : mem[chains[i][k]].data # c

\* irq_addHandler under way: its blocks are its own until the head is written.
AddingInv(chains, files) ==
    /\ adding \in [pc : {"idle", "node", "link", "publish"}, irq : Lines \cup {Null},
                   l_handler : Cells \cup {Null}, l_node : Cells \cup {Null}]
    /\ adding.pc = "idle" => adding = NotAdding
    /\ adding.pc # "idle" =>
        /\ adding.irq \in Lines
        /\ LooseHandler(chains, adding.l_handler) /\ adding.l_handler \notin orphans
        /\ \E h \in Handlers : mem[adding.l_handler] = Handler(h)
        /\ IF adding.pc = "node" THEN adding.l_node = Null ELSE adding.l_node \in Cells
        /\ adding.pc = "link" => mem[adding.l_node].kind = "raw"
        /\ adding.pc = "publish" =>
            /\ mem[adding.l_node] = Linked(s_handlerList[adding.irq], adding.l_handler)
            /\ \A i \in Lines : \A k \in 1 .. Len(chains[i]) : chains[i][k] # adding.l_node
            /\ \A k \in 1 .. Len(files) : files[k] # adding.l_node

\* irq_service under way: it has called the handlers of the nodes it has passed.
ServingInv(chains) ==
    Interrupted =>
        /\ serving.irq \in Lines
        /\ \E k \in 1 .. Len(chains[serving.irq]) + 1 :
            serving = [irq |-> serving.irq, l_node |-> LinkTo(chains[serving.irq], k),
                       called |-> SubSeq(registered[serving.irq], 1, k - 1)]

\* The list of file systems, apart from the lists of handlers.
FilesInv(files) ==
    /\ IsChain(s_fileSystemList, files)
    /\ fsAdded \in Seq(FileSystems) /\ Len(fsAdded) = Len(files)
    /\ \A k \in 1 .. Len(files) : mem[files[k]].data = fsAdded[k]
    /\ \A k, l \in 1 .. Len(files) : files[k] = files[l] => k = l

FilesApart(chains, files) ==
    \A i \in Lines : \A k \in 1 .. Len(chains[i]), l \in 1 .. Len(files) : chains[i][k] # files[l]

\* A vnode and its tree node.
IsRoot(v) == /\ v \in Cells /\ mem[v].data \in Cells
             /\ mem[v] = Vnode(mem[v].data) /\ mem[mem[v].data] = Tree(v)

\* There is one root, or one that is being mounted.
RootInv ==
    /\ mounting \in [l_target : Cells \cup {Null}, p_target : Cells \cup {Null}]
    /\ s_rootNode # Null => IsRoot(s_rootNode)
    /\ mounting.l_target # Null => IsRoot(mounting.l_target)
    /\ mounting.l_target = Null => mounting = NotMounting
    /\ mounting # NotMounting =>
        mounting.p_target = s_rootNode /\ (s_rootNode # Null => mounting.l_target = s_rootNode)

\* The places of the blocks that are in use.
InUse(chains, files, c) ==
    \/ \E i \in Lines : \E k \in 1 .. Len(chains[i]) :
        c = chains[i][k] \/ c = mem[chains[i][k]].data
    \/ c \in InCall \/ c \in orphans
    \/ \E v \in {s_rootNode, mounting.l_target} \ {Null} : c = v \/ c = mem[v].data
    \/ \E k \in 1 .. Len(files) : c = files[k]

\* What list_remove breaks is the lists of handlers; nobody uses them any more.
IntactInv(chains, files) ==
    /\ HandlersInv(chains) /\ AddingInv(chains, files) /\ ServingInv(chains)
    /\ FilesApart(chains, files)
    /\ \A c \in orphans : LooseHandler(chains, c)
    /\ \A c \in Cells : mem[c] # Free => InUse(chains, files, c)

ServicesShape(chains, files) ==
    /\ mem \in [Cells -> Blocks]
    /\ s_handlerList \in [Lines -> Cells \cup {Null}] /\ DOMAIN registered = Lines
    /\ FilesInv(files) /\ RootInv
    /\ broken \in BOOLEAN
    /\ IF broken THEN ~Interrupted /\ adding = NotAdding ELSE IntactInv(chains, files)

ServicesInv ==
    \E chains \in [Lines -> Seq(Cells)], files \in Seq(Cells) : ServicesShape(chains, files)
=============================================================================
