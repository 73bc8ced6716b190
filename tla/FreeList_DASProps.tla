-------------------------- MODULE FreeList_DASProps --------------------------
(***************************************************************************)
(* What FreeList_DAS guarantees.                                           *)
(***************************************************************************)
EXTENDS FreeList_DAS

Tags == 0 .. (TagSize - 1)
Heads == [Ptr : Nodes \union {NoNode}, Tag : Tags]

Calls ==
    {NoCall}
    \union [step : {"addNext", "addSwap"}, node : Nodes, CurrentHead : Heads]
    \union [step : {"getNext"}, CurrentHead : Heads]
    \union [step : {"getSwap"}, CurrentHead : Heads, next : Nodes \union {NoNode}]

\* Every variable holds a value of its kind.
TypeOK ==
    /\ ListHead \in Heads
    /\ FreeListNext \in [Nodes -> Nodes \union {NoNode}]
    /\ held \in [Threads -> SUBSET Nodes]
    /\ call \in [Threads -> Calls]

\* A set of nodes that has the head, and with each node the one after it.
Closed(S) ==
    /\ ListHead.Ptr \in S \union {NoNode}
    /\ \A n \in S : FreeListNext[n] \in S \union {NoNode}

\* The nodes reachable from the head: the smallest such set.
Listed == {n \in Nodes : \A S \in SUBSET Nodes : Closed(S) => n \in S}

Adding(t) ==
    IF call[t].step \in {"addNext", "addSwap"} THEN {call[t].node} ELSE {}

\* A stale Next is never installed: at every moment each node is in the list,
\* or some thread's, or in that thread's call of Add, and in one place only.
EachNodeOnce ==
    LET threads(t) == held[t] \union Adding(t)
    IN  /\ Nodes = Listed \union UNION {threads(t) : t \in Threads}
        /\ \A t \in Threads :
              /\ held[t] \intersect Adding(t) = {}
              /\ threads(t) \intersect Listed = {}
              /\ \A u \in Threads \ {t} : threads(t) \intersect threads(u) = {}

\* The list is a chain: nothing in it leads to the head, or where another leads.
Chain ==
    \A n \in Listed : FreeListNext[n] # NoNode =>
        /\ FreeListNext[n] # ListHead.Ptr
        /\ \A m \in Listed \ {n} : FreeListNext[m] # FreeListNext[n]

\* A compare-exchange that can succeed has the Next that belongs to its head.
SwapsAreCurrent ==
    \A t \in Threads :
        /\ At(t, "addSwap") => FreeListNext[call[t].node] = call[t].CurrentHead.Ptr
        /\ call[t].step \in {"getNext", "getSwap"} => call[t].CurrentHead.Ptr # NoNode
        /\ At(t, "getSwap") /\ call[t].CurrentHead = ListHead =>
              call[t].next = FreeListNext[ListHead.Ptr]

\* The state invariant: the types, each node in one place, and why.
Inv == TypeOK /\ EachNodeOnce /\ Chain /\ SwapsAreCurrent

\* The list is a pool of nodes.
Pool == INSTANCE NodePool WITH
    pool <- Nodes \ UNION {held[t] : t \in Threads}
ImplementsNodePool == Pool!Spec
=============================================================================
