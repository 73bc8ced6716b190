---------------------------- MODULE SharedQueue ----------------------------
(***************************************************************************)
(* What every queue of this library promises to its consumers: items are   *)
(* numbered in the order the producer published them, a consumer takes the *)
(* next few published items in one step, and no item is handed out twice.  *)
(* The sub-queues of ConcurrentQueue.h are shown to implement it.          *)
(***************************************************************************)
EXTENDS Integers

CONSTANT Consumers

VARIABLES
    head,   \* number of items taken so far
    tail,   \* number of items published so far
    hand    \* hand[c]: the items consumer c has taken and still works on

vars == <<head, tail, hand>>

Init ==
    /\ head = 0
    /\ tail = 0
    /\ hand = [c \in Consumers |-> {}]

Publish ==
    /\ tail' \in Nat
    /\ tail' > tail
    /\ UNCHANGED <<head, hand>>

Take(c) ==
    /\ hand[c] = {}
    /\ head' \in Nat
    /\ head' >= head
    /\ head' <= tail
    /\ hand' = [hand EXCEPT ![c] = head .. (head' - 1)]
    /\ UNCHANGED tail

Release(c) ==
    /\ hand' = [hand EXCEPT ![c] = {}]
    /\ UNCHANGED <<head, tail>>

Next == Publish \/ \E c \in Consumers : Take(c) \/ Release(c)

Spec == Init /\ [][Next]_vars
=============================================================================
