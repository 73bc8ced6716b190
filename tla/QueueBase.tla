----------------------------- MODULE QueueBase -----------------------------
(***************************************************************************)
(* The claim protocol of _QueueBase (ConcurrentQueue.h): how any number of *)
(* consumers agree on which published items each of them dequeues.  A      *)
(* consumer never locks.  It draws tickets from DequeueAttemptsCount,      *)
(* gives back through DequeueFailedCount those it finds no item for, and   *)
(* takes as many positions of HeadIndex as it kept tickets.                *)
(*                                                                         *)
(* FastQueue and SlowQueue run the same protocol, in Dequeue and in        *)
(* DequeueBulk; Dequeue is DequeueBulk with MaxCount = 1.  The counters    *)
(* are natural numbers here: wrap-around of size_t is not in this module.  *)
(***************************************************************************)
EXTENDS Integers, FiniteSets

CONSTANTS
    Consumers,      \* the threads that dequeue
    MaxCounts,      \* the MaxCount arguments they pass
    PublishCounts,  \* the numbers of items one Enqueue(Bulk) publishes
    MaxTail,        \* bound: items published in all
    MaxAttempts,    \* bound: tickets drawn in all
    StaleLoads      \* TRUE: a plain load may return an older value

ASSUME CountsAssumption ==
    /\ MaxCounts \subseteq Nat
    /\ PublishCounts \subseteq Nat \ {0}

ASSUME BoundsAssumption ==
    /\ MaxTail \in Nat
    /\ MaxAttempts \in Nat
    /\ StaleLoads \in BOOLEAN

VARIABLES
    HeadIndex, TailIndex, DequeueAttemptsCount, DequeueFailedCount,
    phase,          \* where each consumer is inside Dequeue(Bulk)
    failedSeen,     \* its local FailedCount
    wanted,         \* its MaxCount argument, then its local DesiredCount
    ticket,         \* its local AttemptsCount: the first ticket it drew
    actual,         \* its local ActualCount
    first,          \* its local FirstIndex
    Won, Lost       \* auxiliary: the tickets settled with, and without, an item

shared == <<HeadIndex, TailIndex, DequeueAttemptsCount, DequeueFailedCount>>
locals == <<failedSeen, wanted, ticket, actual, first>>
vars   == <<shared, phase, locals, Won, Lost>>

Phases == {"idle", "counted", "checked", "ticketed", "failing", "winning",
           "claimed"}

Init ==
    /\ HeadIndex = 0 /\ TailIndex = 0
    /\ DequeueAttemptsCount = 0 /\ DequeueFailedCount = 0
    /\ phase      = [c \in Consumers |-> "idle"]
    /\ failedSeen = [c \in Consumers |-> 0]
    /\ wanted     = [c \in Consumers |-> 0]
    /\ ticket     = [c \in Consumers |-> 0]
    /\ actual     = [c \in Consumers |-> 0]
    /\ first      = [c \in Consumers |-> 0]
    /\ Won = {} /\ Lost = {}

-----------------------------------------------------------------------------
\* A slip a programmer could make here, one of several for the runs to catch: of
\* the tickets to give back only one is counted.
LostCountOne(c) == 1

-----------------------------------------------------------------------------
\* The values a load of a counter may return.  The counters only grow, so a
\* relaxed or acquire load that is not ordered after the last store returns
\* some earlier value; a read-modify-write always sees the last one.
Loads(counter) == IF StaleLoads THEN 0 .. counter ELSE {counter}

Smaller(a, b) == IF a <= b THEN a ELSE b

\* TailIndex - (AttemptsCount - FailedCount), the items the caller may count on.
Available(tail, attempts, failed) == tail - (attempts - failed)

\* The tickets a consumer keeps, and those it gives back.
Kept(c)     == ticket[c] .. (ticket[c] + actual[c] - 1)
GivenBack(c) == (ticket[c] + actual[c]) .. (ticket[c] + wanted[c] - 1)

\* How many tickets DequeueFailedCount is told of.
LostCount(c) == wanted[c] - actual[c]

Become(c, p) == phase' = [phase EXCEPT ![c] = p]

\* The locals of the call go out of scope.
Forget(c) ==
    /\ failedSeen' = [failedSeen EXCEPT ![c] = 0]
    /\ wanted'     = [wanted EXCEPT ![c] = 0]
    /\ ticket'     = [ticket EXCEPT ![c] = 0]
    /\ actual'     = [actual EXCEPT ![c] = 0]
    /\ first'      = [first EXCEPT ![c] = 0]

-----------------------------------------------------------------------------
\* The producer makes n constructed items visible.
Publish(n) ==
    /\ TailIndex + n <= MaxTail
    /\ TailIndex' = TailIndex + n
    /\ UNCHANGED <<HeadIndex, DequeueAttemptsCount, DequeueFailedCount,
                   phase, locals, Won, Lost>>

\* Dequeue(Bulk) begins: load DequeueFailedCount.
ReadFailedCount(c, max) ==
    /\ phase[c] = "idle"
    /\ \E f \in Loads(DequeueFailedCount) :
          failedSeen' = [failedSeen EXCEPT ![c] = f]
    /\ wanted' = [wanted EXCEPT ![c] = max]
    /\ Become(c, "counted")
    /\ UNCHANGED <<shared, ticket, actual, first, Won, Lost>>

\* The optimistic test on relaxed loads: nothing seems to be there.
PrecheckFails(c) ==
    /\ phase[c] = "counted"
    /\ \E attempts \in Loads(DequeueAttemptsCount), tail \in Loads(TailIndex) :
          Available(tail, attempts, failedSeen[c]) <= 0
    /\ Become(c, "idle")
    /\ Forget(c)
    /\ UNCHANGED <<shared, Won, Lost>>

\* The optimistic test passes: ask for no more than seems to be there.
PrecheckPasses(c) ==
    /\ phase[c] = "counted"
    /\ \E attempts \in Loads(DequeueAttemptsCount), tail \in Loads(TailIndex) :
          LET n == Available(tail, attempts, failedSeen[c])
          IN  /\ n > 0
              /\ wanted' = [wanted EXCEPT ![c] = Smaller(n, wanted[c])]
    /\ Become(c, "checked")
    /\ UNCHANGED <<shared, failedSeen, ticket, actual, first, Won, Lost>>

\* DequeueAttemptsCount.fetch_add( DesiredCount ).
DrawTickets(c) ==
    /\ phase[c] = "checked"
    /\ DequeueAttemptsCount + wanted[c] <= MaxAttempts
    /\ ticket' = [ticket EXCEPT ![c] = DequeueAttemptsCount]
    /\ DequeueAttemptsCount' = DequeueAttemptsCount + wanted[c]
    /\ Become(c, "ticketed")
    /\ UNCHANGED <<HeadIndex, TailIndex, DequeueFailedCount,
                   failedSeen, wanted, actual, first, Won, Lost>>

\* The test that decides, on the tickets really drawn: none has an item.
RecheckFails(c) ==
    /\ phase[c] = "ticketed"
    /\ \E tail \in Loads(TailIndex) :
          Available(tail, ticket[c], failedSeen[c]) <= 0
    /\ actual' = [actual EXCEPT ![c] = 0]
    /\ Become(c, "failing")
    /\ UNCHANGED <<shared, failedSeen, wanted, ticket, first, Won, Lost>>

\* The slip of loading DequeueFailedCount anew for this test: by now it may count
\* tickets drawn after this consumer's.
RecheckPassesReloaded(c) ==
    /\ phase[c] = "ticketed"
    /\ LET n    == Available(TailIndex, ticket[c], DequeueFailedCount)
           kept == Smaller(n, wanted[c])
       IN  /\ n > 0
           /\ actual' = [actual EXCEPT ![c] = kept]
           /\ Become(c, IF kept < wanted[c] THEN "failing" ELSE "winning")
    /\ UNCHANGED <<shared, failedSeen, wanted, ticket, first, Won, Lost>>

\* Some have: keep those, and give the others back before claiming.
RecheckPasses(c) ==
    /\ phase[c] = "ticketed"
    /\ \E tail \in Loads(TailIndex) :
          LET n    == Available(tail, ticket[c], failedSeen[c])
              kept == Smaller(n, wanted[c])
          IN  /\ n > 0
              /\ actual' = [actual EXCEPT ![c] = kept]
              /\ Become(c, IF kept < wanted[c] THEN "failing" ELSE "winning")
    /\ UNCHANGED <<shared, failedSeen, wanted, ticket, first, Won, Lost>>

\* DequeueFailedCount.fetch_add for the tickets that have no item.
AddFailedCount(c) ==
    /\ phase[c] = "failing"
    /\ DequeueFailedCount' = DequeueFailedCount + LostCount(c)
    /\ Lost' = Lost \union GivenBack(c)
    /\ \/ /\ actual[c] = 0             \* none kept: return false
          /\ Become(c, "idle")
          /\ Forget(c)
       \/ /\ actual[c] > 0
          /\ Become(c, "winning")
          /\ UNCHANGED locals
    /\ UNCHANGED <<HeadIndex, TailIndex, DequeueAttemptsCount, Won>>

\* The slip of claiming DesiredCount instead of ActualCount.
ClaimHeadWanted(c) ==
    /\ phase[c] = "winning"
    /\ first' = [first EXCEPT ![c] = HeadIndex]
    /\ HeadIndex' = HeadIndex + wanted[c]
    /\ Won' = Won \union Kept(c)
    /\ Become(c, "claimed")
    /\ UNCHANGED <<TailIndex, DequeueAttemptsCount, DequeueFailedCount,
                   failedSeen, wanted, ticket, actual, Lost>>

\* HeadIndex.fetch_add( ActualCount ): the items are this consumer's.
ClaimHead(c) ==
    /\ phase[c] = "winning"
    /\ first' = [first EXCEPT ![c] = HeadIndex]
    /\ HeadIndex' = HeadIndex + actual[c]
    /\ Won' = Won \union Kept(c)
    /\ Become(c, "claimed")
    /\ UNCHANGED <<TailIndex, DequeueAttemptsCount, DequeueFailedCount,
                   failedSeen, wanted, ticket, actual, Lost>>

\* The items have been moved out and destroyed; the call returns.
Return(c) ==
    /\ phase[c] = "claimed"
    /\ Become(c, "idle")
    /\ Forget(c)
    /\ UNCHANGED <<shared, Won, Lost>>

ConsumerStep(c) ==
    \/ \E max \in MaxCounts : ReadFailedCount(c, max)
    \/ PrecheckFails(c)
    \/ PrecheckPasses(c)
    \/ DrawTickets(c)
    \/ RecheckFails(c)
    \/ RecheckPasses(c)
    \/ AddFailedCount(c)
    \/ ClaimHead(c)
    \/ Return(c)

Next ==
    \/ \E n \in PublishCounts : Publish(n)
    \/ \E c \in Consumers : ConsumerStep(c)

Spec == Init /\ [][Next]_vars
=============================================================================
