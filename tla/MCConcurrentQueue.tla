------------------------- MODULE MCConcurrentQueue -------------------------
EXTENDS ConcurrentQueueProps, TLC

CONSTANTS c1, c2, x1, x2

\* c1 dequeues with two tokens of its own, c2 without one.
Own2AndNone == [c \in Consumers |-> IF c = c1 THEN {x1, x2} ELSE {}]

\* Owners come and go; consumers compete; a look at the sizes of three producers;
\* what destroyed tokens left behind is dequeued.
Programs ==
    {{"implicit", "destroy", "move", "token"},
     {"enqueue", "token", "swap", "from", "list"},
     {"enqueue", "implicit", "scan"},
     {"enqueue", "destroy", "list"}}

Symmetry ==
    Permutations(Nodes) \union Permutations(Tokens) \union Permutations({x1, x2})
=============================================================================
