---------------------------- MODULE FreeList_DAS ----------------------------
(***************************************************************************)
(* FreeList_DAS (BlockManager.h): the same free list with a tag beside the *)
(* head instead of reference counts.  Every successful compare-exchange    *)
(* gives the head the next tag, so that one that still expects the head of *)
(* an earlier time fails, although the same node is the head again.        *)
(*                                                                         *)
(* The tag is TagSize numbers wide and wraps (uint16_t in the code).  A    *)
(* call that sleeps while the head changes exactly TagSize times is        *)
(* fooled; Overtaken keeps those executions out, as README.md:165 does     *)
(* when it calls the overflow next to impossible.                          *)
(***************************************************************************)
EXTENDS Integers, FiniteSets

CONSTANTS
    Threads, Nodes,
    NoNode,     \* nullptr
    TagSize     \* number of tags

ASSUME NodesAssumption == NoNode \notin Nodes /\ IsFiniteSet(Nodes)
ASSUME TagAssumption == TagSize \in Nat \ {0, 1}

VARIABLES
    ListHead,       \* Head(): Ptr and Tag
    FreeListNext,   \* of each node
    held,           \* held[t]: the nodes that are thread t's
    call            \* call[t]: where t is in Add or TryGet, and CurrentHead

vars == <<ListHead, FreeListNext, held, call>>

NoCall == [step |-> "idle"]

\* The threads have taken all the nodes there are from the allocator.
Init ==
    /\ ListHead = [Ptr |-> NoNode, Tag |-> 0]
    /\ FreeListNext = [n \in Nodes |-> NoNode]
    /\ held \in [Threads -> SUBSET Nodes]
    /\ \A t, u \in Threads : t # u => held[t] \intersect held[u] = {}
    /\ UNION {held[t] : t \in Threads} = Nodes
    /\ call = [t \in Threads |-> NoCall]

-----------------------------------------------------------------------------
At(t, step) == call[t].step = step
Goto(t, to) == call' = [call EXCEPT ![t] = to]

\* Slip, for the runs to catch: only the pointers are compared.
SamePtr(seen) == ListHead.Ptr = seen.Ptr

Unchanged(seen) == ListHead = seen

NextTag(tag) == (tag + 1) % TagSize

\* Another call has slept for as long as there are tags.
Overtaken(t, tag) ==
    \E u \in Threads \ {t} : ~At(u, "idle") /\ call[u].CurrentHead.Tag = tag

\* Head().compare_exchange_strong( CurrentHead, {node, CurrentHead.Tag + 1} ):
\* on success the call goes on with done, else with again.
Swap(t, node, done, again) ==
    LET seen == call[t].CurrentHead
        tag  == NextTag(seen.Tag)
    IN  \/ /\ Unchanged(seen)
           /\ ~Overtaken(t, tag)
           /\ ListHead' = [Ptr |-> node, Tag |-> tag]
           /\ Goto(t, done)
        \/ /\ ~Unchanged(seen)
           /\ Goto(t, again)
           /\ UNCHANGED ListHead

-----------------------------------------------------------------------------
(* Add *)

AddBegins(t, n) ==
    /\ At(t, "idle")
    /\ n \in held[t]
    /\ held' = [held EXCEPT ![t] = @ \ {n}]
    /\ Goto(t, [step |-> "addNext", node |-> n, CurrentHead |-> ListHead])
    /\ UNCHANGED <<ListHead, FreeListNext>>

StoreNext(t) ==
    /\ At(t, "addNext")
    /\ FreeListNext' = [FreeListNext EXCEPT ![call[t].node] = call[t].CurrentHead.Ptr]
    /\ Goto(t, [call[t] EXCEPT !.step = "addSwap"])
    /\ UNCHANGED <<ListHead, held>>

SwapHeadIn(t) ==
    /\ At(t, "addSwap")
    /\ Swap(t, call[t].node, NoCall,
            [call[t] EXCEPT !.step = "addNext", !.CurrentHead = ListHead])
    /\ UNCHANGED <<FreeListNext, held>>

-----------------------------------------------------------------------------
(* TryGet *)

\* TryGet goes round its loop, or finds the list empty.
Try(head) ==
    IF head.Ptr = NoNode THEN NoCall ELSE [step |-> "getNext", CurrentHead |-> head]

GetBegins(t) ==
    /\ At(t, "idle")
    /\ ListHead.Ptr # NoNode
    /\ Goto(t, Try(ListHead))
    /\ UNCHANGED <<ListHead, FreeListNext, held>>

\* The node may have been taken by now, and its FreeListNext be another's.
LoadNext(t) ==
    /\ At(t, "getNext")
    /\ Goto(t, [step |-> "getSwap", CurrentHead |-> call[t].CurrentHead,
                next |-> FreeListNext[call[t].CurrentHead.Ptr]])
    /\ UNCHANGED <<ListHead, FreeListNext, held>>

SwapHeadOut(t) ==
    /\ At(t, "getSwap")
    /\ Swap(t, call[t].next, NoCall, Try(ListHead))
    /\ held' = IF Unchanged(call[t].CurrentHead)
               THEN [held EXCEPT ![t] = @ \union {ListHead.Ptr}] ELSE held
    /\ UNCHANGED FreeListNext

-----------------------------------------------------------------------------
Step(t) ==
    \/ \E n \in Nodes : AddBegins(t, n)
    \/ StoreNext(t)
    \/ SwapHeadIn(t)
    \/ GetBegins(t)
    \/ LoadNext(t)
    \/ SwapHeadOut(t)

Next == \E t \in Threads : Step(t)

Spec == Init /\ [][Next]_vars
=============================================================================
