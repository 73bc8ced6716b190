------------------------------ MODULE NodePool ------------------------------
(***************************************************************************)
(* What a free list promises: a node is with one thread or in the pool,    *)
(* TryGet moves one from the pool to the caller and Add moves one back.    *)
(***************************************************************************)
CONSTANTS Threads, Nodes

VARIABLES
    held,   \* held[t]: the nodes thread t has
    pool    \* the nodes anybody may get

Init ==
    /\ held \in [Threads -> SUBSET Nodes]
    /\ \A t, u \in Threads : t # u => held[t] \intersect held[u] = {}
    /\ pool = Nodes \ UNION {held[t] : t \in Threads}

Add(t, n) ==
    /\ n \in held[t]
    /\ held' = [held EXCEPT ![t] = @ \ {n}]
    /\ pool' = pool \union {n}

TryGet(t, n) ==
    /\ n \in pool
    /\ held' = [held EXCEPT ![t] = @ \union {n}]
    /\ pool' = pool \ {n}

Next == \E t \in Threads, n \in Nodes : Add(t, n) \/ TryGet(t, n)

Spec == Init /\ [][Next]_<<held, pool>>
=============================================================================
