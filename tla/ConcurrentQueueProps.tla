------------------------ MODULE ConcurrentQueueProps ------------------------
(***************************************************************************)
(* What ConcurrentQueue guarantees.                                        *)
(***************************************************************************)
EXTENDS ConcurrentQueue

\* The producer an owner has, or is putting into the list.
Own(o) == IF po[o].step \in {"link", "push"} THEN po[o].node ELSE node[o]

\* A sub-queue has one producer: no two tokens or threads ever have the same
\* node, however tokens are made, moved and destroyed at once, and a node that
\* was made is free for the search to give away exactly when nobody has it.
OneOwner ==
    /\ \A o \in Owners : Own(o) # Null =>
          /\ ~Inactive[Own(o)]
          /\ \A q \in Owners \ {o} : Own(q) # Own(o)
    /\ \A n \in Nodes :
          Type[n] # "none" => Inactive[n] \/ \E o \in Owners : Own(o) = n

\* Every producer that was made is, or is about to be, in the list that consumers
\* look through, whatever is pushed at the same time.
NoneLost ==
    \A n \in Nodes : Type[n] # "none" =>
        n \in Listed \/ \E o \in Owners : po[o].step # "idle" /\ Own(o) = n

\* ProducerCount covers the list a consumer steps round: it is never less than
\* the number of nodes from the head it loaded before, and in particular not zero
\* where it divides.
CountCoversList ==
    \A c \in Consumers :
        con[c].step = "offset" =>
            con[c].count >= Cardinality(ListFrom(con[c].head)) /\ con[c].count > 0

\* A call that had the queue to itself among consumers comes back with less than
\* it wanted only if every producer was empty at some moment of the call.
NoFalseEmpty == \A c \in Consumers : con[c].step = "short" => missed[c] = {}

\* A consumer dequeues from producers in the list, never from nullptr, also after
\* tokens were swapped, and its way round the ring of the head it loaded comes
\* back to where it began.
DequeuesFromListed ==
    \A c \in Consumers :
        /\ con[c].step \in {"current", "ringHead"} => CurrentProducer(c) \in Listed
        /\ con[c].step = "ring" =>
              {con[c].at, CurrentProducer(c)} \subseteq ListFrom(con[c].head)
=============================================================================
