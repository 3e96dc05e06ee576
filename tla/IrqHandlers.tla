---------------------------- MODULE IrqHandlers -----------------------------
(***************************************************************************)
(* kernel/src/irq.c: the handlers of each line, in lists that irq_service  *)
(* walks while it has interrupted irq_addHandler at any point.  Nothing    *)
(* masks interrupts meanwhile: it is the order of the stores that counts.  *)
(* On one processor the interrupted code waits until the service is over.  *)
(***************************************************************************)
EXTENDS List

CONSTANTS
    Lines,      \* the interrupt lines
    Handlers    \* pairs of a function and its argument

VARIABLES
    s_handlerList,
    adding,     \* irq_addHandler under way: where it is, and its locals
    serving,    \* irq_service under way: its line, the node it is at, what it has called
    registered, \* history: what has been added to each line, the newest first
    orphans,    \* history: the blocks of removed handlers, which nothing points to
    broken      \* history: list_remove has freed nodes that are still linked

irqVars == <<s_handlerList, adding, serving, registered, orphans, broken>>

NotAdding == [pc |-> "idle", irq |-> Null, l_handler |-> Null, l_node |-> Null]
NotServing == [irq |-> Null, l_node |-> Null, called |-> <<>>]

irq_init ==
    /\ s_handlerList = [i \in Lines |-> Null]
    /\ adding = NotAdding /\ serving = NotServing
    /\ registered = [i \in Lines |-> <<>>]
    /\ orphans = {} /\ broken = FALSE

Handler(h) == [kind |-> "handler", next |-> Null, data |-> h]

Interrupted == serving # NotServing

\* irq_addHandler: the block for the handler.
AddCall(irq, h) ==
    /\ ~Interrupted /\ ~broken /\ adding = NotAdding
    /\ \E l_handler \in malloc :
        IF l_handler = Null THEN UNCHANGED <<adding, mem>>
        ELSE /\ mem' = [mem EXCEPT ![l_handler] = Handler(h)]
             /\ adding' = [pc |-> "node", irq |-> irq, l_handler |-> l_handler, l_node |-> Null]
    /\ UNCHANGED <<s_handlerList, serving, registered, orphans, broken>>

\* Mutant: without a node the handler's block is not given back.
AddNode_Leaks ==
    /\ ~Interrupted /\ adding.pc = "node"
    /\ \E l_node \in malloc :
        IF l_node = Null THEN adding' = NotAdding /\ UNCHANGED mem
        ELSE /\ mem' = [mem EXCEPT ![l_node] = Raw]
             /\ adding' = [adding EXCEPT !.pc = "link", !.l_node = l_node]
    /\ UNCHANGED <<s_handlerList, serving, registered, orphans, broken>>

\* list_insertBeginning: the block for the node; without one, irq_addHandler
\* frees the handler's and fails.
AddNode ==
    /\ ~Interrupted /\ adding.pc = "node"
    /\ \E l_node \in malloc :
        IF l_node = Null
        THEN mem' = [mem EXCEPT ![adding.l_handler] = Free] /\ adding' = NotAdding
        ELSE /\ mem' = [mem EXCEPT ![l_node] = Raw]
             /\ adding' = [adding EXCEPT !.pc = "link", !.l_node = l_node]
    /\ UNCHANGED <<s_handlerList, serving, registered, orphans, broken>>

\* Mutant: the head is written before the node.
AddLink_PublishesFirst ==
    /\ ~Interrupted /\ adding.pc = "link"
    /\ s_handlerList' = [s_handlerList EXCEPT ![adding.irq] = adding.l_node]
    /\ adding' = [adding EXCEPT !.pc = "publish"]
    /\ UNCHANGED <<mem, serving, registered, orphans, broken>>

AddLink ==
    /\ ~Interrupted /\ adding.pc = "link"
    /\ mem' = [mem EXCEPT ![adding.l_node] = Linked(s_handlerList[adding.irq], adding.l_handler)]
    /\ adding' = [adding EXCEPT !.pc = "publish"]
    /\ UNCHANGED <<s_handlerList, serving, registered, orphans, broken>>

AddPublish ==
    /\ ~Interrupted /\ adding.pc = "publish"
    /\ s_handlerList' = [s_handlerList EXCEPT ![adding.irq] = adding.l_node]
    /\ registered' = [registered EXCEPT ![adding.irq] = <<mem[adding.l_handler].data>> \o @]
    /\ adding' = NotAdding
    /\ UNCHANGED <<mem, serving, orphans, broken>>

\* irq_removeHandler.  A list of more than the node that list_remove looks for is
\* left with links to freed blocks; what follows is undefined.  A single node leaves the list with one store, so this is
\* one step for an interrupt.  The block of the handler is never freed.
irq_removeHandler(irq, h) ==
    LET nodes == Chain(s_handlerList[irq])
        found == {i \in DOMAIN nodes : mem[mem[nodes[i]].data].data = h}
    IN  /\ ~Interrupted /\ ~broken /\ adding = NotAdding /\ found # {}
        /\ mem' = list_remove(s_handlerList[irq])
        /\ IF Len(nodes) = 1
           THEN /\ s_handlerList' = [s_handlerList EXCEPT ![irq] = Null]
                /\ registered' = [registered EXCEPT ![irq] = <<>>]
                /\ orphans' = orphans \cup Range(Items(s_handlerList[irq]))
                /\ UNCHANGED broken
           ELSE broken' = TRUE /\ UNCHANGED <<s_handlerList, registered, orphans>>
        /\ UNCHANGED <<adding, serving>>

-----------------------------------------------------------------------------
\* irq_service, when an interrupt comes.
ServiceStart(irq) ==
    /\ ~Interrupted /\ ~broken
    /\ serving' = [irq |-> irq, l_node |-> s_handlerList[irq], called |-> <<>>]
    /\ UNCHANGED <<mem, s_handlerList, adding, registered, orphans, broken>>

\* One iteration: the handler is called, then the next node is looked up.
ServiceCall ==
    /\ Interrupted /\ serving.l_node # Null
    /\ LET l_handler == mem[serving.l_node].data
           h == IF l_handler = Null THEN Null ELSE mem[l_handler].data
       IN  serving' = [serving EXCEPT !.called = Append(@, h),
                                      !.l_node = mem[serving.l_node].next]
    /\ UNCHANGED <<mem, s_handlerList, adding, registered, orphans, broken>>

\* irq_endOfInterrupt and task_resume.
ServiceEnd ==
    /\ Interrupted /\ serving.l_node = Null
    /\ serving' = NotServing
    /\ UNCHANGED <<mem, s_handlerList, adding, registered, orphans, broken>>

irqNext ==
    \/ \E irq \in Lines, h \in Handlers : AddCall(irq, h) \/ irq_removeHandler(irq, h)
    \/ AddNode \/ AddLink \/ AddPublish
    \/ \E irq \in Lines : ServiceStart(irq)
    \/ ServiceCall \/ ServiceEnd

-----------------------------------------------------------------------------
\* An interrupt calls exactly the handlers that have been added to its line, the newest
\* first, each once, at whatever point of irq_addHandler it comes.
ServesRegistered ==
    Interrupted =>
        LET rest == Items(serving.l_node)
        IN  serving.called \o [i \in DOMAIN rest |-> mem[rest[i]].data] = registered[serving.irq]

\* The blocks that the registry uses: those of the lists, and those of a call
\* under way.
InLists == UNION {Range(Chain(s_handlerList[i])) \cup Range(Items(s_handlerList[i])) : i \in Lines}
InCall == {adding.l_handler, adding.l_node} \ {Null}
=============================================================================
