------------------------------ MODULE FreeList ------------------------------
(***************************************************************************)
(* FreeList (BlockManager.h): a lock-free stack of blocks that any number  *)
(* of threads push to and pop from.  A node is never freed while the list  *)
(* lives, so a thread may read a node that was popped meanwhile; that the  *)
(* pop does not then install a stale Next (ABA) is what the reference      *)
(* counts are for.  A node is pushed back only when its count is zero;     *)
(* until then a flag, AddFlag, asks the last thread that still holds a     *)
(* reference to push it.  Each action is one atomic operation of the code. *)
(***************************************************************************)
EXTENDS Integers, FiniteSets

CONSTANTS
    Threads, Nodes,
    NoNode,         \* nullptr
    AddFlag,        \* the top bit of FreeListRefs; the bits below count
    RepeatedAdds    \* TRUE: Add may be called for a node that is in the list

ASSUME NodesAssumption == NoNode \notin Nodes
ASSUME FlagAssumption ==
    /\ AddFlag \in Nat
    /\ IsFiniteSet(Threads) /\ AddFlag > Cardinality(Threads) + 1
    /\ RepeatedAdds \in BOOLEAN

VARIABLES
    ListHead,   \* Head()
    FreeListNext, FreeListRefs,     \* of each node
    fresh,      \* the nodes no thread has had yet
    held,       \* held[t]: the nodes that are thread t's
    call        \* call[t]: where t is in Add or TryGet, and its locals

vars == <<ListHead, FreeListNext, FreeListRefs, fresh, held, call>>

NoCall == [step |-> "idle"]

Init ==
    /\ ListHead = NoNode
    /\ FreeListNext = [n \in Nodes |-> NoNode]
    /\ FreeListRefs = [n \in Nodes |-> 0]
    /\ fresh = Nodes
    /\ held = [t \in Threads |-> {}]
    /\ call = [t \in Threads |-> NoCall]

-----------------------------------------------------------------------------
\* fetch_add on the 32-bit count of node n.
Plus(n, k) ==
    FreeListRefs' = [FreeListRefs EXCEPT ![n] = (@ + k) % (2 * AddFlag)]

\* Slip, one of several for the runs to catch: a count of zero is not looked for.
TakenIgnored(refs) == FALSE

\* Refs & RefsMask is zero: the node is taken, or is being added.
Taken(refs) == refs % AddFlag = 0

At(t, step) == call[t].step = step
Goto(t, to) == call' = [call EXCEPT ![t] = to]

\* TryGet goes round its loop with node n as CurrentHead.
Try(n) == IF n = NoNode THEN NoCall ELSE [step |-> "refs", node |-> n]

\* After InnerAdd: Add returns, TryGet goes on with the head it saw.
AfterAdd(c) == IF c.get THEN Try(c.back) ELSE NoCall

-----------------------------------------------------------------------------
\* A set of nodes that has the head, and with each node the one after it.
Closed(S) ==
    /\ ListHead \in S \union {NoNode}
    /\ \A n \in S : FreeListNext[n] \in S \union {NoNode}

\* The nodes reachable from Head: the smallest such set.
Listed == {n \in Nodes : \A S \in SUBSET Nodes : Closed(S) => n \in S}

\* A thread gets a node from elsewhere: BlockManager says from where.
Obtain(t, n) ==
    /\ At(t, "idle")
    /\ n \in fresh
    /\ fresh' = fresh \ {n}
    /\ held' = [held EXCEPT ![t] = @ \union {n}]
    /\ UNCHANGED <<ListHead, FreeListNext, FreeListRefs, call>>

(* Add *)

Add(t, n) ==
    /\ At(t, "idle")
    /\ n \in held[t] \union (IF RepeatedAdds THEN Listed ELSE {})
    /\ held' = [held EXCEPT ![t] = @ \ {n}]
    /\ Plus(n, AddFlag)
    /\ IF FreeListRefs[n] = 0
       THEN Goto(t, [step |-> "addHead", node |-> n, get |-> FALSE, back |-> NoNode])
       ELSE UNCHANGED call
    /\ UNCHANGED <<ListHead, FreeListNext, fresh>>

(* InnerAdd, by Add or by the last thread to let go of the node *)

LoadHeadToAdd(t) ==
    /\ At(t, "addHead")
    /\ Goto(t, [step |-> "addNext", node |-> call[t].node, head |-> ListHead,
                get |-> call[t].get, back |-> call[t].back])
    /\ UNCHANGED <<ListHead, FreeListNext, FreeListRefs, fresh, held>>

StoreNext(t) ==
    /\ At(t, "addNext")
    /\ FreeListNext' = [FreeListNext EXCEPT ![call[t].node] = call[t].head]
    /\ Goto(t, [call[t] EXCEPT !.step = "addRefs"])
    /\ UNCHANGED <<ListHead, FreeListRefs, fresh, held>>

\* The list's own reference; AddFlag is cleared.
StoreRefs(t) ==
    /\ At(t, "addRefs")
    /\ FreeListRefs' = [FreeListRefs EXCEPT ![call[t].node] = 1]
    /\ Goto(t, [call[t] EXCEPT !.step = "addCas"])
    /\ UNCHANGED <<ListHead, FreeListNext, fresh, held>>

SwapHeadIn(t) ==
    /\ At(t, "addCas")
    /\ IF ListHead = call[t].head
       THEN ListHead' = call[t].node /\ Goto(t, AfterAdd(call[t]))
       ELSE /\ Goto(t, [call[t] EXCEPT !.step = "addBusy", !.head = ListHead])
            /\ UNCHANGED ListHead
    /\ UNCHANGED <<FreeListNext, FreeListRefs, fresh, held>>

\* The list's reference is taken back and the flag set again: another thread
\* that refers to the node by now will add it, else this one tries again.
AddBusy(t) ==
    /\ At(t, "addBusy")
    /\ Plus(call[t].node, AddFlag - 1)
    /\ Goto(t, IF FreeListRefs[call[t].node] = 1
               THEN [call[t] EXCEPT !.step = "addNext"]
               ELSE AfterAdd(call[t]))
    /\ UNCHANGED <<ListHead, FreeListNext, fresh, held>>

-----------------------------------------------------------------------------
(* TryGet *)

\* The head is loaded, to try for its node; without one TryGet returns nullptr.
LoadHead(t) ==
    /\ Goto(t, Try(ListHead))
    /\ UNCHANGED <<ListHead, FreeListNext, FreeListRefs, fresh, held>>

TryGet(t) == At(t, "idle") /\ ListHead # NoNode /\ LoadHead(t)

\* Again, when that node was taken by another thread.
Reload(t) == At(t, "reload") /\ LoadHead(t)

\* Slip: the same node is tried for again, not the head.
LoadRefsOfSame(t) ==
    /\ At(t, "refs")
    /\ ~Taken(FreeListRefs[call[t].node])
    /\ Goto(t, [step |-> "hold", node |-> call[t].node,
                refs |-> FreeListRefs[call[t].node]])
    /\ UNCHANGED <<ListHead, FreeListNext, FreeListRefs, fresh, held>>

LoadRefs(t) ==
    LET n == call[t].node
    IN  /\ At(t, "refs")
        /\ Goto(t, IF Taken(FreeListRefs[n]) THEN [step |-> "reload"]
                   ELSE [step |-> "hold", node |-> n, refs |-> FreeListRefs[n]])
        /\ UNCHANGED <<ListHead, FreeListNext, FreeListRefs, fresh, held>>

Hold(t) ==
    /\ At(t, "hold")
    /\ IF FreeListRefs[call[t].node] = call[t].refs
       THEN /\ Plus(call[t].node, 1)
            /\ Goto(t, [step |-> "next", node |-> call[t].node])
       ELSE /\ Goto(t, [step |-> "reload"])
            /\ UNCHANGED FreeListRefs
    /\ UNCHANGED <<ListHead, FreeListNext, fresh, held>>

LoadNext(t) ==
    /\ At(t, "next")
    /\ Goto(t, [step |-> "take", node |-> call[t].node,
                next |-> FreeListNext[call[t].node]])
    /\ UNCHANGED <<ListHead, FreeListNext, FreeListRefs, fresh, held>>

SwapHeadOut(t) ==
    /\ At(t, "take")
    /\ IF ListHead = call[t].node
       THEN ListHead' = call[t].next /\ Goto(t, [step |-> "taken", node |-> call[t].node])
       ELSE /\ Goto(t, [step |-> "letGo", node |-> call[t].node, back |-> ListHead])
            /\ UNCHANGED ListHead
    /\ UNCHANGED <<FreeListNext, FreeListRefs, fresh, held>>

\* Slip: only the thread's own reference is given up.
ReturnNodeKeepsRef(t) ==
    /\ At(t, "taken")
    /\ Plus(call[t].node, -1)
    /\ held' = [held EXCEPT ![t] = @ \union {call[t].node}]
    /\ Goto(t, NoCall)
    /\ UNCHANGED <<ListHead, FreeListNext, fresh>>

\* The node is the thread's: its reference and the list's are given up.
ReturnNode(t) ==
    /\ At(t, "taken")
    /\ Plus(call[t].node, -2)
    /\ held' = [held EXCEPT ![t] = @ \union {call[t].node}]
    /\ Goto(t, NoCall)
    /\ UNCHANGED <<ListHead, FreeListNext, fresh>>

\* Slip: nobody adds a node whose Add came while it was referred to.
LetGoOnly(t) ==
    /\ At(t, "letGo")
    /\ Plus(call[t].node, -1)
    /\ Goto(t, Try(call[t].back))
    /\ UNCHANGED <<ListHead, FreeListNext, fresh, held>>

\* The head has changed: let go of the node, and add it if that was asked for.
LetGo(t) ==
    /\ At(t, "letGo")
    /\ Plus(call[t].node, -1)
    /\ Goto(t, IF FreeListRefs[call[t].node] = AddFlag + 1
               THEN [step |-> "addHead", node |-> call[t].node, get |-> TRUE,
                     back |-> call[t].back]
               ELSE Try(call[t].back))
    /\ UNCHANGED <<ListHead, FreeListNext, fresh, held>>

-----------------------------------------------------------------------------
InCall(t) ==
    \/ LoadHeadToAdd(t) \/ StoreNext(t) \/ StoreRefs(t) \/ SwapHeadIn(t) \/ AddBusy(t)
    \/ Reload(t) \/ LoadRefs(t) \/ Hold(t) \/ LoadNext(t)
    \/ SwapHeadOut(t) \/ ReturnNode(t) \/ LetGo(t)

Step(t) == InCall(t) \/ TryGet(t) \/ \E n \in Nodes : Obtain(t, n) \/ Add(t, n)

Next == \E t \in Threads : Step(t)

Spec == Init /\ [][Next]_vars
=============================================================================
