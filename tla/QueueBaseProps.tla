--------------------------- MODULE QueueBaseProps ---------------------------
(***************************************************************************)
(* What the claim protocol of QueueBase guarantees.                        *)
(***************************************************************************)
EXTENDS QueueBase

\* Every variable holds a value of its kind.
TypeOK ==
    /\ HeadIndex \in Nat /\ TailIndex \in Nat
    /\ DequeueAttemptsCount \in Nat /\ DequeueFailedCount \in Nat
    /\ phase      \in [Consumers -> Phases]
    /\ failedSeen \in [Consumers -> Nat]
    /\ wanted     \in [Consumers -> Nat]
    /\ ticket     \in [Consumers -> Nat]
    /\ actual     \in [Consumers -> Nat]
    /\ first      \in [Consumers -> Nat]
    /\ Won \in SUBSET Nat /\ Lost \in SUBSET Nat

\* The consumers that hold tickets they have not settled.
Drawn(c) == phase[c] \in {"ticketed", "failing", "winning"}

\* The tickets consumer c drew and has not settled yet.  A consumer in phase
\* "winning" has given its other tickets back already.
Unsettled(c) == IF phase[c] = "winning" THEN actual[c] ELSE wanted[c]
Pending(c) ==
    IF Drawn(c) THEN ticket[c] .. (ticket[c] + Unsettled(c) - 1) ELSE {}

LostBelow(t) == {l \in Lost : l < t}

\* No consumer is ever sent to a position the producer has not published: the
\* fetch_add on HeadIndex cannot pass TailIndex, however the relaxed tests of
\* the consumers interleave.  (HeadIndex.fetch_add comes last and is not
\* conditional: Dequeue trusts its two tests.)
HeadWithinTail == HeadIndex <= TailIndex

\* Each drawn ticket is settled once: as won, as lost or still pending with one
\* consumer, and the counters count exactly those: when no call is in progress the
\* next test compares HeadIndex with TailIndex, and no item is out of reach.
TicketsAccounted ==
    /\ Won \intersect Lost = {}
    /\ Cardinality(Won) = HeadIndex
    /\ Cardinality(Lost) = DequeueFailedCount
    /\ Won \union Lost \union UNION {Pending(c) : c \in Consumers}
          = 0 .. (DequeueAttemptsCount - 1)

\* The items a consumer has claimed and not yet finished with.
Hand ==
    [c \in Consumers |->
        IF phase[c] = "claimed"
        THEN first[c] .. (first[c] + actual[c] - 1)
        ELSE {}]

\* The protocol hands out published items, in order, each to one consumer.
Queue == INSTANCE SharedQueue WITH
    head <- HeadIndex,
    tail <- TailIndex,
    hand <- Hand

ImplementsSharedQueue == Queue!Spec

-----------------------------------------------------------------------------
\* The inductive invariant: the lost tickets below a drawn one are at least
\* as many as the consumer knew of when it tested, so a kept ticket, less the
\* lost ones before it, is a position the producer has published.
KnowsLost ==
    \A c \in Consumers :
        /\ phase[c] \in {"counted", "checked"} =>
              failedSeen[c] <= DequeueFailedCount
        /\ phase[c] = "ticketed" =>
              failedSeen[c] <= Cardinality(LostBelow(ticket[c]))
        /\ phase[c] \in {"failing", "winning"} /\ actual[c] > 0 =>
              ticket[c] + actual[c] - Cardinality(LostBelow(ticket[c]))
                 <= TailIndex

WonPublished ==
    \A t \in Won : t + 1 - Cardinality(LostBelow(t)) <= TailIndex

PendingApart ==
    \A c \in Consumers :
        /\ Pending(c) \subseteq 0 .. (DequeueAttemptsCount - 1)
        /\ Pending(c) \intersect (Won \union Lost) = {}
        /\ \A d \in Consumers \ {c} : Pending(c) \intersect Pending(d) = {}
        /\ phase[c] \in {"failing", "winning"} => actual[c] <= wanted[c]
        /\ Drawn(c) => ticket[c] + wanted[c] <= DequeueAttemptsCount

Settled ==
    /\ Won \union Lost \subseteq 0 .. (DequeueAttemptsCount - 1)
    /\ Won \intersect Lost = {}
    /\ Cardinality(Won) = HeadIndex
    /\ Cardinality(Lost) = DequeueFailedCount

IndInv == Settled /\ PendingApart /\ KnowsLost /\ WonPublished

\* What is shown inductive: the types and the named parts of IndInv.
Inv == TypeOK /\ IndInv
=============================================================================
