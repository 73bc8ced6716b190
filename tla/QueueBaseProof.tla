--------------------------- MODULE QueueBaseProof ---------------------------
(***************************************************************************)
(* The claim protocol is safe for any number of consumers, any batch sizes *)
(* and any bounds, and also when the plain loads return stale values.      *)
(* At the end: why its counters, words that wrap around, may be taken for  *)
(* natural numbers.                                                        *)
(***************************************************************************)
EXTENDS QueueBaseProps, Counters, FiniteSetTheorems, WellFoundedInduction, TLAPS

\* A load, stale or not, returns a natural number that is not ahead of the
\* counter.
LEMMA LoadsBelow ==
    ASSUME NEW counter \in Nat, NEW v \in Loads(counter)
    PROVE  v \in Nat /\ v <= counter
BY DEF Loads

\* The minimum that DesiredCount and ActualCount are cut down to.
LEMMA SmallerBelow ==
    ASSUME NEW a \in Int, NEW b \in Int
    PROVE  /\ Smaller(a, b) \in {a, b}
           /\ Smaller(a, b) <= a
           /\ Smaller(a, b) <= b
BY DEF Smaller

\* Finite sets of tickets: the lost ones below a ticket are finitely many and
\* only become more when Lost grows.
LEMMA LostBelowGrows ==
    ASSUME IsFiniteSet(Lost'), Lost \subseteq Lost'
    PROVE  \A t : /\ Cardinality(LostBelow(t)) \in Nat
                  /\ Cardinality(LostBelow(t)') \in Nat
                  /\ Cardinality(LostBelow(t)) <= Cardinality(LostBelow(t)')
<1> TAKE t
<1>1. LostBelow(t) \subseteq LostBelow(t)' /\ LostBelow(t)' \subseteq Lost'
  BY DEF LostBelow
<1>2. IsFiniteSet(LostBelow(t)')
  BY <1>1, FS_Subset
<1>3. /\ IsFiniteSet(LostBelow(t))
      /\ Cardinality(LostBelow(t)) <= Cardinality(LostBelow(t)')
  BY <1>1, <1>2, FS_Subset
<1> QED BY <1>2, <1>3, FS_CardinalityType

\* Won and Lost are finite: they lie below the attempts counter.
LEMMA SettledFinite ==
    ASSUME TypeOK, Settled
    PROVE  IsFiniteSet(Won) /\ IsFiniteSet(Lost)
<1>1. IsFiniteSet(0 .. (DequeueAttemptsCount - 1))
  BY FS_Interval DEF TypeOK
<1>2. /\ Won \subseteq 0 .. (DequeueAttemptsCount - 1)
      /\ Lost \subseteq 0 .. (DequeueAttemptsCount - 1)
  BY DEF Settled
<1> QED BY <1>1, <1>2, FS_Subset

\* The number of tickets in a half-open range.
LEMMA RangeSize ==
    ASSUME NEW a \in Nat, NEW b \in Nat, a <= b
    PROVE  /\ IsFiniteSet(a .. (b - 1))
           /\ Cardinality(a .. (b - 1)) = b - a
<1>1. a \in Int /\ b - 1 \in Int
  OBVIOUS
<1>2. /\ IsFiniteSet(a .. (b - 1))
      /\ Cardinality(a .. (b - 1)) = IF a > b - 1 THEN 0 ELSE (b - 1) - a + 1
  BY <1>1, FS_Interval, Zenon
<1> QED BY <1>2

-----------------------------------------------------------------------------
LEMMA InitInv == Init => Inv
<1> SUFFICES ASSUME Init PROVE Inv
  OBVIOUS
<1>1. TypeOK
  BY DEF Init, TypeOK, Phases
<1>2. Settled
  BY FS_EmptySet DEF Init, Settled
<1>3. PendingApart
  BY DEF Init, PendingApart, Pending, Drawn
<1>4. KnowsLost /\ WonPublished
  BY DEF Init, KnowsLost, WonPublished
<1> QED BY <1>1, <1>2, <1>3, <1>4 DEF Inv, IndInv

LEMMA TypeStep == Inv /\ [Next]_vars => TypeOK'
<1> SUFFICES ASSUME Inv, [Next]_vars PROVE TypeOK'
  OBVIOUS
<1> USE DEF Inv, TypeOK, Phases, shared, locals, Become
<1>1. CASE \E n \in PublishCounts : Publish(n)
  BY <1>1, CountsAssumption DEF Publish
<1>2. ASSUME NEW c \in Consumers, ConsumerStep(c) PROVE TypeOK'
  <2>1. CASE \E max \in MaxCounts : ReadFailedCount(c, max)
    BY <2>1, CountsAssumption, LoadsBelow DEF ReadFailedCount
  <2>2. CASE PrecheckFails(c)
    BY <2>2 DEF PrecheckFails, Forget
  <2>3. CASE PrecheckPasses(c)
    <3>1. PICK attempts \in Loads(DequeueAttemptsCount), tail \in Loads(TailIndex) :
             LET n == Available(tail, attempts, failedSeen[c])
             IN  /\ n > 0
                 /\ wanted' = [wanted EXCEPT ![c] = Smaller(n, wanted[c])]
      BY <2>3 DEF PrecheckPasses
    <3>2. Available(tail, attempts, failedSeen[c]) \in Int
      BY LoadsBelow DEF Available
    <3>3. Smaller(Available(tail, attempts, failedSeen[c]), wanted[c]) \in Nat
      BY <3>1, <3>2, SmallerBelow
    <3> QED BY <2>3, <3>1, <3>3 DEF PrecheckPasses
  <2>4. CASE DrawTickets(c)
    BY <2>4 DEF DrawTickets
  <2>5. CASE RecheckFails(c)
    BY <2>5 DEF RecheckFails
  <2>6. CASE RecheckPasses(c)
    <3>1. PICK tail \in Loads(TailIndex) :
             LET n    == Available(tail, ticket[c], failedSeen[c])
                 kept == Smaller(n, wanted[c])
             IN  /\ n > 0
                 /\ actual' = [actual EXCEPT ![c] = kept]
                 /\ Become(c, IF kept < wanted[c] THEN "failing" ELSE "winning")
      BY <2>6 DEF RecheckPasses
    <3>2. Available(tail, ticket[c], failedSeen[c]) \in Int
      BY LoadsBelow DEF Available
    <3>3. Smaller(Available(tail, ticket[c], failedSeen[c]), wanted[c]) \in Nat
      BY <3>1, <3>2, SmallerBelow
    <3> QED BY <2>6, <3>1, <3>3 DEF RecheckPasses
  <2>7. CASE AddFailedCount(c)
    <3>1. actual[c] <= wanted[c]
      BY <2>7 DEF IndInv, PendingApart, AddFailedCount
    <3>2. LostCount(c) \in Nat /\ GivenBack(c) \subseteq Nat
      BY <3>1 DEF LostCount, GivenBack
    <3>3. DequeueFailedCount' \in Nat /\ Lost' \in SUBSET Nat
      <4>1. /\ DequeueFailedCount' = DequeueFailedCount + LostCount(c)
            /\ Lost' = Lost \union GivenBack(c)
        BY <2>7 DEF AddFailedCount
      <4>2. DequeueFailedCount' \in Nat
        BY <3>2, <4>1
      <4>3. Lost' \in SUBSET Nat
        BY <3>2, <4>1
      <4> QED BY <4>2, <4>3
    <3>4. CASE actual[c] = 0
      <4>1. Become(c, "idle") /\ Forget(c)
        BY <2>7, <3>4 DEF AddFailedCount
      <4> QED BY <2>7, <3>3, <4>1 DEF AddFailedCount, Forget
    <3>5. CASE actual[c] > 0
      <4>1. Become(c, "winning") /\ UNCHANGED locals
        BY <2>7, <3>5 DEF AddFailedCount
      <4> QED BY <2>7, <3>3, <4>1 DEF AddFailedCount
    <3> QED BY <3>4, <3>5
  <2>8. CASE ClaimHead(c)
    <3>1. Kept(c) \subseteq Nat
      BY DEF Kept
    <3>2. HeadIndex' = HeadIndex + actual[c] /\ Won' = Won \union Kept(c)
      BY <2>8 DEF ClaimHead
    <3>3. HeadIndex' \in Nat
      BY <3>2
    <3>4. Won' \in SUBSET Nat
      BY <3>1, <3>2
    <3> QED BY <2>8, <3>3, <3>4 DEF ClaimHead
  <2>9. CASE Return(c)
    BY <2>9 DEF Return, Forget
  <2> QED BY <1>2, <2>1, <2>2, <2>3, <2>4, <2>5, <2>6, <2>7, <2>8, <2>9
          DEF ConsumerStep
<1>3. CASE UNCHANGED vars
  BY <1>3 DEF vars
<1> QED BY <1>1, <1>2, <1>3 DEF Next

-----------------------------------------------------------------------------
(***************************************************************************)
(* A step of one consumer leaves the locals of the others alone.  The next *)
(* three lemmas reduce each part of IndInv to what the step does to the    *)
(* consumer that takes it.                                                 *)
(***************************************************************************)
OthersSame(c) ==
    \A d \in Consumers \ {c} :
        /\ phase'[d] = phase[d] /\ failedSeen'[d] = failedSeen[d]
        /\ wanted'[d] = wanted[d] /\ ticket'[d] = ticket[d]
        /\ actual'[d] = actual[d]

LEMMA OthersFrame ==
    ASSUME TypeOK, NEW c \in Consumers, ConsumerStep(c)
    PROVE  OthersSame(c)
<1> USE DEF TypeOK, OthersSame, Become, locals
<1>1. CASE \E max \in MaxCounts : ReadFailedCount(c, max)
  BY <1>1 DEF ReadFailedCount
<1>2. CASE PrecheckFails(c)
  BY <1>2 DEF PrecheckFails, Forget
<1>3. CASE PrecheckPasses(c)
  BY <1>3 DEF PrecheckPasses
<1>4. CASE DrawTickets(c)
  BY <1>4 DEF DrawTickets
<1>5. CASE RecheckFails(c)
  BY <1>5 DEF RecheckFails
<1>6. CASE RecheckPasses(c)
  BY <1>6 DEF RecheckPasses
<1>7. CASE AddFailedCount(c)
  BY <1>7 DEF AddFailedCount, Forget
<1>8. CASE ClaimHead(c)
  BY <1>8 DEF ClaimHead
<1>9. CASE Return(c)
  BY <1>9 DEF Return, Forget
<1> QED BY <1>1, <1>2, <1>3, <1>4, <1>5, <1>6, <1>7, <1>8, <1>9
        DEF ConsumerStep

LEMMA ApartStep ==
    ASSUME TypeOK, TypeOK', PendingApart, NEW c \in Consumers, OthersSame(c),
           DequeueAttemptsCount <= DequeueAttemptsCount',
           Won' \union Lost' \subseteq Won \union Lost \union Pending(c),
           Pending(c)' \intersect (Won' \union Lost') = {},
           Pending(c)' \subseteq 0 .. (DequeueAttemptsCount' - 1),
           \A d \in Consumers \ {c} : Pending(c)' \intersect Pending(d) = {},
           phase'[c] \in {"failing", "winning"} => actual'[c] <= wanted'[c],
           Drawn(c)' => ticket'[c] + wanted'[c] <= DequeueAttemptsCount'
    PROVE  PendingApart'
<1> SUFFICES ASSUME NEW d \in Consumers
    PROVE  /\ Pending(d)' \subseteq 0 .. (DequeueAttemptsCount' - 1)
           /\ Pending(d)' \intersect (Won' \union Lost') = {}
           /\ \A e \in Consumers \ {d} : Pending(d)' \intersect Pending(e)' = {}
           /\ phase'[d] \in {"failing", "winning"} => actual'[d] <= wanted'[d]
           /\ Drawn(d)' => ticket'[d] + wanted'[d] <= DequeueAttemptsCount'
  BY DEF PendingApart
<1>1. \A e \in Consumers \ {c} : Pending(e)' = Pending(e) /\ Drawn(e)' = Drawn(e)
  BY DEF OthersSame, Pending, Unsettled, Drawn
<1>2. CASE d = c
  BY <1>1, <1>2
<1>3. CASE d # c
  <2>1. Pending(d)' \subseteq 0 .. (DequeueAttemptsCount' - 1)
    <3>1. Pending(d)' \subseteq 0 .. (DequeueAttemptsCount - 1)
      BY <1>1, <1>3 DEF PendingApart
    <3> QED BY <3>1 DEF TypeOK
  <2>2. Pending(d)' \intersect (Won' \union Lost') = {}
    BY <1>1, <1>3 DEF PendingApart
  <2>3. \A e \in Consumers \ {d} : Pending(d)' \intersect Pending(e)' = {}
    BY <1>1, <1>3 DEF PendingApart
  <2>4. phase'[d] \in {"failing", "winning"} => actual'[d] <= wanted'[d]
    BY <1>3 DEF PendingApart, OthersSame
  <2>5. Drawn(d)' => ticket'[d] + wanted'[d] <= DequeueAttemptsCount'
    <3>1. Drawn(d) => ticket[d] + wanted[d] <= DequeueAttemptsCount
      BY DEF PendingApart
    <3> QED BY <1>1, <1>3, <3>1 DEF OthersSame, TypeOK
  <2> QED BY <2>1, <2>2, <2>3, <2>4, <2>5
<1> QED BY <1>2, <1>3

LEMMA KnowsStep ==
    ASSUME TypeOK, TypeOK', KnowsLost, NEW c \in Consumers, OthersSame(c),
           DequeueFailedCount <= DequeueFailedCount', TailIndex <= TailIndex',
           Lost \subseteq Lost', IsFiniteSet(Lost'),
           phase'[c] \in {"counted", "checked"} =>
              failedSeen'[c] <= DequeueFailedCount',
           phase'[c] = "ticketed" =>
              failedSeen'[c] <= Cardinality(LostBelow(ticket[c])'),
           phase'[c] \in {"failing", "winning"} /\ actual'[c] > 0 =>
              ticket'[c] + actual'[c] - Cardinality(LostBelow(ticket[c])')
                 <= TailIndex'
    PROVE  KnowsLost'
<1> SUFFICES ASSUME NEW d \in Consumers
    PROVE  /\ phase'[d] \in {"counted", "checked"} =>
                 failedSeen'[d] <= DequeueFailedCount'
           /\ phase'[d] = "ticketed" =>
                 failedSeen'[d] <= Cardinality(LostBelow(ticket[d])')
           /\ phase'[d] \in {"failing", "winning"} /\ actual'[d] > 0 =>
                 ticket'[d] + actual'[d] - Cardinality(LostBelow(ticket[d])')
                    <= TailIndex'
  BY DEF KnowsLost
<1>1. CASE d = c
  BY <1>1
<1>2. CASE d # c
  <2>1. LostBelow(ticket[d])' = {l \in Lost' : l < ticket[d]}
    BY <1>2 DEF OthersSame, LostBelow
  <2>2. LostBelow(ticket[d]) \subseteq LostBelow(ticket[d])'
    BY <2>1 DEF LostBelow
  <2>3. IsFiniteSet(LostBelow(ticket[d])')
    BY <2>1, FS_Subset
  <2>4. /\ Cardinality(LostBelow(ticket[d])) \in Nat
        /\ Cardinality(LostBelow(ticket[d])') \in Nat
        /\ Cardinality(LostBelow(ticket[d]))
              <= Cardinality(LostBelow(ticket[d])')
    BY <2>2, <2>3, FS_Subset, FS_CardinalityType
  <2> QED BY <1>2, <2>4 DEF KnowsLost, OthersSame, TypeOK
<1> QED BY <1>1, <1>2

LEMMA WonStep ==
    ASSUME TypeOK, TypeOK', WonPublished, TailIndex <= TailIndex',
           Lost \subseteq Lost', IsFiniteSet(Lost'),
           \A t \in Won' \ Won :
              t + 1 - Cardinality(LostBelow(t)') <= TailIndex'
    PROVE  WonPublished'
<1> SUFFICES ASSUME NEW t \in Won'
    PROVE  t + 1 - Cardinality(LostBelow(t)') <= TailIndex'
  BY DEF WonPublished
<1>1. CASE t \in Won
  BY <1>1, LostBelowGrows DEF WonPublished, TypeOK
<1> QED BY <1>1

-----------------------------------------------------------------------------
\* The steps before the tickets are drawn and after the items are returned
\* hold no tickets and change no counter.
LEMMA QuietStep ==
    ASSUME Inv, TypeOK', NEW c \in Consumers, OthersSame(c),
           UNCHANGED <<shared, Won, Lost>>, ~Drawn(c)', ~Drawn(c),
           phase'[c] \in {"counted", "checked"} =>
              failedSeen'[c] <= DequeueFailedCount
    PROVE  IndInv'
<1> USE DEF Inv, IndInv, shared
<1>0. IsFiniteSet(Lost')
  BY SettledFinite
<1>1. Settled'
  BY DEF Settled
<1>2. Pending(c)' = {}
  BY DEF Pending
<1>3. PendingApart'
  BY <1>2, ApartStep DEF Drawn, TypeOK
<1>4. KnowsLost'
  BY <1>0, KnowsStep DEF Drawn, TypeOK
<1>5. WonPublished'
  BY <1>0, WonStep DEF TypeOK
<1> QED BY <1>1, <1>3, <1>4, <1>5

\* Drawing tickets: they are new, and all that was lost before lies below them.
LEMMA DrawStep ==
    ASSUME Inv, TypeOK', NEW c \in Consumers, OthersSame(c), DrawTickets(c)
    PROVE  IndInv'
<1> USE DEF Inv, IndInv, Become
<1>0. /\ UNCHANGED <<HeadIndex, TailIndex, DequeueFailedCount, Won, Lost>>
      /\ phase'[c] = "ticketed" /\ ticket'[c] = DequeueAttemptsCount
      /\ wanted'[c] = wanted[c] /\ failedSeen'[c] = failedSeen[c]
      /\ DequeueAttemptsCount' = DequeueAttemptsCount + wanted[c]
      /\ wanted[c] \in Nat
  BY DEF DrawTickets, TypeOK
<1>1. IsFiniteSet(Lost')
  BY <1>0, SettledFinite
<1>2. Settled'
  <2>1. Won' \union Lost' \subseteq 0 .. (DequeueAttemptsCount' - 1)
    BY <1>0 DEF Settled, TypeOK
  <2> QED BY <1>0, <2>1 DEF Settled
<1>3. PendingApart'
  <2>1. Pending(c)' =
           DequeueAttemptsCount .. (DequeueAttemptsCount + wanted[c] - 1)
    <3>1. Pending(c)' = ticket'[c] .. (ticket'[c] + wanted'[c] - 1)
      BY <1>0 DEF Pending, Drawn, Unsettled
    <3> QED BY <1>0, <3>1
  <2>2. Pending(c)' \intersect (Won' \union Lost') = {}
    BY <1>0, <2>1 DEF Settled, TypeOK
  <2>3. \A d \in Consumers \ {c} : Pending(c)' \intersect Pending(d) = {}
    <3>1. \A d \in Consumers : Pending(d) \subseteq 0 .. (DequeueAttemptsCount - 1)
      BY DEF PendingApart
    <3>2. \A t \in Pending(c)' : t \notin 0 .. (DequeueAttemptsCount - 1)
      BY <2>1 DEF TypeOK
    <3> QED BY <3>1, <3>2
  <2>4. Pending(c)' \subseteq 0 .. (DequeueAttemptsCount' - 1)
    BY <1>0, <2>1 DEF TypeOK
  <2>5. ticket'[c] + wanted'[c] <= DequeueAttemptsCount'
    BY <1>0 DEF TypeOK
  <2>6. DequeueAttemptsCount <= DequeueAttemptsCount'
    BY <1>0 DEF TypeOK
  <2> QED BY <1>0, <2>2, <2>3, <2>4, <2>5, <2>6, ApartStep
<1>4. KnowsLost'
  <2>1. LostBelow(ticket[c])' = Lost
    <3>1. LostBelow(ticket[c])' = {l \in Lost' : l < ticket'[c]}
      BY DEF LostBelow
    <3>2. \A l \in Lost' : l < ticket'[c]
      BY <1>0 DEF Settled, TypeOK
    <3> QED BY <1>0, <3>1, <3>2
  <2>2. failedSeen[c] <= DequeueFailedCount
    BY DEF KnowsLost, DrawTickets
  <2>3. failedSeen'[c] <= Cardinality(LostBelow(ticket[c])')
    BY <1>0, <2>1, <2>2 DEF Settled
  <2> QED BY <1>0, <1>1, <2>3, KnowsStep DEF TypeOK
<1>5. WonPublished'
  BY <1>0, <1>1, WonStep DEF TypeOK
<1> QED BY <1>2, <1>3, <1>4, <1>5

\* The deciding test: a kept ticket, less what was known to be lost, lies
\* within the published items.  A stale TailIndex only makes it stricter.
LEMMA RecheckStep ==
    ASSUME Inv, TypeOK', NEW c \in Consumers, OthersSame(c),
           RecheckFails(c) \/ RecheckPasses(c)
    PROVE  IndInv'
<1> USE DEF Inv, IndInv, Become
<1>0. /\ UNCHANGED <<shared, Won, Lost, wanted, ticket, failedSeen>>
      /\ phase[c] = "ticketed"
  BY DEF RecheckFails, RecheckPasses
<1>1. IsFiniteSet(Lost')
  BY <1>0, SettledFinite
<1>2. /\ phase'[c] \in {"failing", "winning"}
      /\ phase'[c] = "winning" => actual'[c] = wanted[c]
      /\ actual'[c] <= wanted[c]
      /\ actual'[c] > 0 => ticket[c] - failedSeen[c] + actual'[c] <= TailIndex
  <2>1. CASE RecheckFails(c)
    BY <2>1 DEF RecheckFails, TypeOK
  <2>2. CASE RecheckPasses(c)
    <3>1. PICK tail \in Loads(TailIndex) :
             LET n    == Available(tail, ticket[c], failedSeen[c])
                 kept == Smaller(n, wanted[c])
             IN  /\ n > 0
                 /\ actual' = [actual EXCEPT ![c] = kept]
                 /\ Become(c, IF kept < wanted[c] THEN "failing" ELSE "winning")
      BY <2>2 DEF RecheckPasses
    <3> DEFINE n    == Available(tail, ticket[c], failedSeen[c])
               kept == Smaller(n, wanted[c])
    <3>2. /\ tail \in Nat /\ tail <= TailIndex
          /\ n = tail - (ticket[c] - failedSeen[c]) /\ n \in Int
      BY LoadsBelow DEF Available, TypeOK
    <3>3. kept <= n /\ kept <= wanted[c] /\ kept \in {n, wanted[c]}
      BY <3>2, SmallerBelow DEF TypeOK
    <3>4. /\ actual'[c] = kept
          /\ phase'[c] = IF kept < wanted[c] THEN "failing" ELSE "winning"
      BY <3>1 DEF TypeOK
    <3> HIDE DEF n, kept
    <3> QED BY <3>2, <3>3, <3>4 DEF TypeOK
  <2> QED BY <2>1, <2>2
<1>3. Settled'
  BY <1>0 DEF Settled, shared
<1>4. PendingApart'
  <2>1. Pending(c)' = Pending(c)
    BY <1>0, <1>2 DEF Pending, Drawn, Unsettled, TypeOK
  <2>2. /\ Pending(c) \subseteq 0 .. (DequeueAttemptsCount - 1)
        /\ Pending(c) \intersect (Won \union Lost) = {}
        /\ \A d \in Consumers \ {c} : Pending(c) \intersect Pending(d) = {}
        /\ ticket[c] + wanted[c] <= DequeueAttemptsCount
    BY <1>0 DEF PendingApart, Drawn
  <2> QED BY <1>0, <1>2, <2>1, <2>2, ApartStep DEF shared, TypeOK
<1>5. KnowsLost'
  <2>1. LostBelow(ticket[c])' = LostBelow(ticket[c])
    BY <1>0 DEF LostBelow
  <2>2. failedSeen[c] <= Cardinality(LostBelow(ticket[c]))
    BY <1>0 DEF KnowsLost
  <2>3. Cardinality(LostBelow(ticket[c])) \in Nat
    BY <1>0, <1>1, FS_Subset, FS_CardinalityType DEF LostBelow
  <2>4. actual'[c] > 0 =>
           ticket[c] + actual'[c] - Cardinality(LostBelow(ticket[c]))
              <= TailIndex
    BY <1>2, <2>2, <2>3 DEF TypeOK
  <2> QED BY <1>0, <1>1, <1>2, <2>1, <2>4, KnowsStep DEF shared, TypeOK
<1>6. WonPublished'
  BY <1>0, <1>1, WonStep DEF shared, TypeOK
<1> QED BY <1>3, <1>4, <1>5, <1>6

\* Giving back: DequeueFailedCount counts exactly the tickets now lost.
LEMMA AddFailedStep ==
    ASSUME Inv, TypeOK', NEW c \in Consumers, OthersSame(c), AddFailedCount(c)
    PROVE  IndInv'
<1> USE DEF Inv, IndInv
<1>t. /\ ticket[c] \in Nat /\ actual[c] \in Nat /\ wanted[c] \in Nat
      /\ HeadIndex \in Nat /\ TailIndex \in Nat /\ DequeueFailedCount \in Nat
  BY DEF TypeOK
<1>0. /\ UNCHANGED <<HeadIndex, TailIndex, DequeueAttemptsCount, Won>>
      /\ Lost' = Lost \union GivenBack(c)
      /\ DequeueFailedCount' = DequeueFailedCount + (wanted[c] - actual[c])
      /\ actual[c] <= wanted[c] /\ ticket[c] + wanted[c] <= DequeueAttemptsCount
      /\ Pending(c) = ticket[c] .. (ticket[c] + wanted[c] - 1)
  BY DEF AddFailedCount, LostCount, PendingApart, Pending, Drawn, Unsettled
<1>a. \/ actual[c] = 0 /\ phase'[c] = "idle"
      \/ /\ actual[c] > 0 /\ phase'[c] = "winning"
         /\ UNCHANGED <<ticket, actual, wanted>>
  BY DEF AddFailedCount, Become, TypeOK, locals
<1>b. /\ IsFiniteSet(Lost) /\ IsFiniteSet(GivenBack(c))
      /\ GivenBack(c) \subseteq Pending(c)
      /\ Cardinality(GivenBack(c)) = wanted[c] - actual[c]
  <2>1. /\ IsFiniteSet(GivenBack(c))
        /\ Cardinality(GivenBack(c)) = wanted[c] - actual[c]
    <3> DEFINE a == ticket[c] + actual[c]
               b == ticket[c] + wanted[c]
    <3>1. a \in Nat /\ b \in Nat /\ a <= b /\ b - a = wanted[c] - actual[c]
      BY <1>t, <1>0
    <3>2. GivenBack(c) = a .. (b - 1)
      <4>1. ticket[c] + wanted[c] - 1 = b - 1
        BY <1>t
      <4> QED BY <4>1, Zenon DEF GivenBack
    <3> HIDE DEF a, b
    <3> QED BY <3>1, <3>2, RangeSize
  <2>2. GivenBack(c) \subseteq Pending(c)
    <3>1. GivenBack(c) = (ticket[c] + actual[c]) .. (ticket[c] + wanted[c] - 1)
      BY DEF GivenBack
    <3> QED BY <1>t, <1>0, <3>1
  <2> QED BY <2>1, <2>2, SettledFinite
<1>c. /\ Pending(c) \subseteq 0 .. (DequeueAttemptsCount - 1)
      /\ Pending(c) \intersect (Won \union Lost) = {}
      /\ \A d \in Consumers \ {c} : Pending(c) \intersect Pending(d) = {}
  BY DEF PendingApart
<1>1. IsFiniteSet(Lost') /\ Lost \subseteq Lost'
  BY <1>0, <1>b, FS_Union
<1>2. Settled'
  <2>1. Lost \intersect GivenBack(c) = {}
    BY <1>b, <1>c
  <2>2. Cardinality(Lost') = Cardinality(Lost) + Cardinality(GivenBack(c))
    <3>1. Cardinality(Lost') = Cardinality(Lost) + Cardinality(GivenBack(c))
                                  - Cardinality(Lost \intersect GivenBack(c))
      BY <1>0, <1>b, FS_Union
    <3>2. Cardinality(Lost \intersect GivenBack(c)) = 0
      BY <2>1, FS_EmptySet
    <3> QED BY <1>b, <3>1, <3>2, FS_CardinalityType
  <2>3. Cardinality(Lost') = DequeueFailedCount'
    BY <1>0, <1>b, <2>2 DEF Settled
  <2>4. Won' \union Lost' \subseteq 0 .. (DequeueAttemptsCount' - 1)
    BY <1>0, <1>b, <1>c DEF Settled
  <2>5. Won' \intersect Lost' = {}
    BY <1>0, <1>b, <1>c DEF Settled
  <2> QED BY <1>0, <2>3, <2>4, <2>5 DEF Settled
<1>3. PendingApart'
  <2>1. Pending(c)' \subseteq Pending(c) /\ Pending(c)' \intersect GivenBack(c) = {}
    <3>1. CASE phase'[c] = "idle"
      BY <3>1 DEF Pending, Drawn
    <3>2. CASE phase'[c] = "winning"
      <4>1. Pending(c)' = ticket[c] .. (ticket[c] + actual[c] - 1)
        BY <1>a, <3>2 DEF Pending, Drawn, Unsettled
      <4>2. GivenBack(c) = (ticket[c] + actual[c]) .. (ticket[c] + wanted[c] - 1)
        BY DEF GivenBack
      <4>3. \A t \in Pending(c)' :
               t \in Int /\ ticket[c] <= t /\ t < ticket[c] + actual[c]
        BY <1>t, <4>1
      <4>4. \A t \in Pending(c)' : t \in Pending(c)
        BY <1>t, <1>0, <4>3
      <4>5. \A t \in Pending(c)' : t \notin GivenBack(c)
        BY <1>t, <4>2, <4>3
      <4> QED BY <4>4, <4>5
    <3> QED BY <1>a, <3>1, <3>2
  <2>2. Pending(c)' \intersect (Won' \union Lost') = {}
    BY <1>0, <1>c, <2>1
  <2>3. Won' \union Lost' \subseteq Won \union Lost \union Pending(c)
    BY <1>0, <1>b
  <2>4. Pending(c)' \subseteq 0 .. (DequeueAttemptsCount' - 1)
    BY <1>0, <1>c, <2>1
  <2>5. \A d \in Consumers \ {c} : Pending(c)' \intersect Pending(d) = {}
    BY <1>c, <2>1
  <2>6. Drawn(c)' => ticket'[c] + wanted'[c] <= DequeueAttemptsCount'
    BY <1>0, <1>a DEF Drawn
  <2>7. phase'[c] \in {"failing", "winning"} => actual'[c] <= wanted'[c]
    BY <1>0, <1>a
  <2>8. DequeueAttemptsCount <= DequeueAttemptsCount'
    BY <1>0 DEF TypeOK
  <2> QED BY <2>2, <2>3, <2>4, <2>5, <2>6, <2>7, <2>8, ApartStep
<1>4. KnowsLost'
  <2>1. phase'[c] = "winning" =>
           ticket'[c] + actual'[c] - Cardinality(LostBelow(ticket[c])')
              <= TailIndex'
    <3> SUFFICES ASSUME phase'[c] = "winning"
        PROVE  ticket'[c] + actual'[c] - Cardinality(LostBelow(ticket[c])')
                  <= TailIndex'
      OBVIOUS
    <3>1. /\ actual[c] > 0 /\ ticket' = ticket /\ actual' = actual
          /\ phase[c] = "failing"
      BY <1>a DEF AddFailedCount
    <3>2. LostBelow(ticket[c])' = {l \in Lost' : l < ticket[c]}
      BY <3>1 DEF LostBelow
    <3>3. LostBelow(ticket[c]) \subseteq LostBelow(ticket[c])'
      BY <1>1, <3>2 DEF LostBelow
    <3>4. IsFiniteSet(LostBelow(ticket[c])')
      BY <1>1, <3>2, FS_Subset
    <3>5. /\ Cardinality(LostBelow(ticket[c])) \in Nat
          /\ Cardinality(LostBelow(ticket[c])') \in Nat
          /\ Cardinality(LostBelow(ticket[c]))
                <= Cardinality(LostBelow(ticket[c])')
      BY <3>3, <3>4, FS_Subset, FS_CardinalityType
    <3>6. ticket[c] + actual[c] - Cardinality(LostBelow(ticket[c])) <= TailIndex
      BY <3>1 DEF KnowsLost
    <3>7. ticket'[c] = ticket[c] /\ actual'[c] = actual[c]
      BY <3>1
    <3> HIDE DEF Inv, IndInv
    <3> QED BY <1>t, <1>0, <3>5, <3>6, <3>7
  <2>2. DequeueFailedCount <= DequeueFailedCount'
    BY <1>0 DEF TypeOK
  <2>3. phase'[c] \in {"idle", "winning"} /\ TailIndex <= TailIndex'
    BY <1>t, <1>0, <1>a
  <2> QED BY <1>1, <2>1, <2>2, <2>3, KnowsStep
<1>5. WonPublished'
  <2>1. TailIndex <= TailIndex' /\ Won' = Won
    BY <1>t, <1>0
  <2> QED BY <1>1, <2>1, WonStep
<1> QED BY <1>2, <1>3, <1>4, <1>5

\* Claiming: HeadIndex counts exactly the tickets now won, and each of them
\* still is a published position.
LEMMA ClaimStep ==
    ASSUME Inv, TypeOK', NEW c \in Consumers, OthersSame(c), ClaimHead(c)
    PROVE  IndInv'
<1> USE DEF Inv, IndInv
<1>t. /\ ticket[c] \in Nat /\ actual[c] \in Nat /\ wanted[c] \in Nat
      /\ HeadIndex \in Nat /\ TailIndex \in Nat /\ DequeueFailedCount \in Nat
  BY DEF TypeOK
<1>0. /\ UNCHANGED <<TailIndex, DequeueAttemptsCount, DequeueFailedCount, Lost>>
      /\ Won' = Won \union Kept(c) /\ HeadIndex' = HeadIndex + actual[c]
      /\ Pending(c) = Kept(c) /\ phase[c] = "winning" /\ phase'[c] = "claimed"
  BY DEF ClaimHead, Become, Kept, Pending, Drawn, Unsettled, TypeOK
<1>1. IsFiniteSet(Lost') /\ IsFiniteSet(Won)
  BY <1>0, SettledFinite
<1>2. IsFiniteSet(Kept(c)) /\ Cardinality(Kept(c)) = actual[c]
  <2> DEFINE b == ticket[c] + actual[c]
  <2>1. b \in Nat /\ ticket[c] <= b /\ b - ticket[c] = actual[c]
    BY <1>t
  <2>2. Kept(c) = ticket[c] .. (b - 1)
    <3>1. ticket[c] + actual[c] - 1 = b - 1
      BY <1>t
    <3> QED BY <3>1, Zenon DEF Kept
  <2> HIDE DEF b
  <2> QED BY <1>t, <2>1, <2>2, RangeSize
<1>3. /\ Kept(c) \subseteq 0 .. (DequeueAttemptsCount - 1)
      /\ Kept(c) \intersect (Won \union Lost) = {}
  BY <1>0 DEF PendingApart
<1>4. Settled'
  <2>1. Cardinality(Won \intersect Kept(c)) = 0
    BY <1>3, FS_EmptySet
  <2>2. Cardinality(Won') = Cardinality(Won) + Cardinality(Kept(c))
                               - Cardinality(Won \intersect Kept(c))
    BY <1>0, <1>1, <1>2, FS_Union
  <2>3. Cardinality(Won') = HeadIndex'
    BY <1>0, <1>2, <2>1, <2>2 DEF Settled, TypeOK
  <2> QED BY <1>0, <1>3, <2>3 DEF Settled
<1>5. PendingApart'
  <2>1. Pending(c)' = {} /\ ~Drawn(c)'
    BY <1>0 DEF Pending, Drawn
  <2> QED BY <1>0, <2>1, ApartStep DEF TypeOK
<1>6. KnowsLost'
  BY <1>0, <1>1, KnowsStep DEF TypeOK
<1>7. WonPublished'
  <2>1. ASSUME NEW t \in Kept(c)
        PROVE  t + 1 - Cardinality(LostBelow(t)') <= TailIndex'
    <3>1. t \in Nat /\ ticket[c] <= t /\ t + 1 <= ticket[c] + actual[c]
      BY DEF Kept, TypeOK
    <3>2. LostBelow(ticket[c]) \subseteq LostBelow(t) /\ LostBelow(t)' = LostBelow(t)
      <4>1. LostBelow(t)' = LostBelow(t)
        BY <1>0 DEF LostBelow
      <4>2. \A l \in Lost : l < ticket[c] => l < t
        BY <1>t, <3>1 DEF TypeOK
      <4> QED BY <4>1, <4>2 DEF LostBelow
    <3>3. IsFiniteSet(LostBelow(t))
      BY <1>0, <1>1, FS_Subset DEF LostBelow
    <3>4. /\ Cardinality(LostBelow(t)) \in Nat
          /\ Cardinality(LostBelow(ticket[c])) \in Nat
          /\ Cardinality(LostBelow(ticket[c])) <= Cardinality(LostBelow(t))
      BY <3>2, <3>3, FS_Subset, FS_CardinalityType
    <3>5. ticket[c] + actual[c] - Cardinality(LostBelow(ticket[c])) <= TailIndex
      BY <1>0, <3>1 DEF KnowsLost, TypeOK
    <3> QED BY <1>0, <3>1, <3>2, <3>4, <3>5 DEF TypeOK
  <2> QED BY <1>0, <1>1, <2>1, WonStep DEF TypeOK
<1> QED BY <1>4, <1>5, <1>6, <1>7

\* Every step keeps the inductive invariant.
LEMMA NextInv == Inv /\ [Next]_vars => Inv'
<1> SUFFICES ASSUME Inv, [Next]_vars PROVE Inv'
  OBVIOUS
<1>0. TypeOK /\ TypeOK'
  BY TypeStep DEF Inv
<1>1. CASE \E n \in PublishCounts : Publish(n)
  <2>1. PICK n \in PublishCounts : Publish(n)
    BY <1>1
  <2>2. /\ TailIndex' \in Nat /\ TailIndex <= TailIndex'
        /\ UNCHANGED <<HeadIndex, DequeueAttemptsCount, DequeueFailedCount,
                       phase, locals, Won, Lost>>
    BY <1>0, <2>1, CountsAssumption DEF Publish, TypeOK
  <2>3. IsFiniteSet(Lost') /\ IsFiniteSet(Lost)
    BY <2>2, SettledFinite DEF Inv, IndInv
  <2>4. Settled'
    BY <2>2 DEF Inv, IndInv, Settled
  <2>5. PendingApart'
    BY <2>2 DEF Inv, IndInv, PendingApart, Pending, Unsettled, Drawn, locals
  <2>6. WonPublished'
    BY <1>0, <2>2, <2>3, WonStep DEF Inv, IndInv
  <2>7. KnowsLost'
    <3> SUFFICES ASSUME NEW c \in Consumers
        PROVE  /\ phase[c] \in {"counted", "checked"} =>
                     failedSeen[c] <= DequeueFailedCount
               /\ phase[c] = "ticketed" =>
                     failedSeen[c] <= Cardinality(LostBelow(ticket[c]))
               /\ phase[c] \in {"failing", "winning"} /\ actual[c] > 0 =>
                     ticket[c] + actual[c] - Cardinality(LostBelow(ticket[c]))
                        <= TailIndex'
      BY <2>2 DEF KnowsLost, LostBelow, locals
    <3>1. Cardinality(LostBelow(ticket[c])) \in Nat
      BY <2>3, FS_Subset, FS_CardinalityType DEF LostBelow
    <3>2. ticket[c] \in Nat /\ actual[c] \in Nat /\ TailIndex \in Nat
      BY <1>0 DEF TypeOK
    <3> QED BY <2>2, <3>1, <3>2 DEF Inv, IndInv, KnowsLost
  <2> QED BY <1>0, <2>4, <2>5, <2>6, <2>7 DEF Inv, IndInv
<1>2. ASSUME NEW c \in Consumers, ConsumerStep(c) PROVE IndInv'
  <2>0. OthersSame(c)
    BY <1>0, <1>2, OthersFrame
  <2>1. CASE \E max \in MaxCounts : ReadFailedCount(c, max)
    <3>1. PICK max \in MaxCounts : ReadFailedCount(c, max)
      BY <2>1
    <3>2. failedSeen'[c] <= DequeueFailedCount
      BY <1>0, <3>1, LoadsBelow DEF ReadFailedCount, TypeOK
    <3>3. ~Drawn(c) /\ ~Drawn(c)' /\ UNCHANGED <<shared, Won, Lost>>
      BY <1>0, <3>1 DEF ReadFailedCount, Drawn, Become, TypeOK
    <3> QED BY <1>0, <2>0, <3>2, <3>3, QuietStep
  <2>2. CASE PrecheckFails(c)
    BY <1>0, <2>0, <2>2, QuietStep DEF PrecheckFails, Drawn, Become, TypeOK
  <2>3. CASE PrecheckPasses(c)
    <3>1. failedSeen'[c] <= DequeueFailedCount
      BY <1>0, <2>3 DEF PrecheckPasses, Inv, IndInv, KnowsLost
    <3>2. ~Drawn(c) /\ ~Drawn(c)' /\ UNCHANGED <<shared, Won, Lost>>
      BY <1>0, <2>3 DEF PrecheckPasses, Drawn, Become, TypeOK
    <3> QED BY <1>0, <2>0, <3>1, <3>2, QuietStep
  <2>4. CASE DrawTickets(c)
    BY <1>0, <2>0, <2>4, DrawStep
  <2>5. CASE RecheckFails(c) \/ RecheckPasses(c)
    BY <1>0, <2>0, <2>5, RecheckStep
  <2>6. CASE AddFailedCount(c)
    BY <1>0, <2>0, <2>6, AddFailedStep
  <2>7. CASE ClaimHead(c)
    BY <1>0, <2>0, <2>7, ClaimStep
  <2>8. CASE Return(c)
    BY <1>0, <2>0, <2>8, QuietStep DEF Return, Drawn, Become, TypeOK
  <2> QED BY <1>2, <2>1, <2>2, <2>3, <2>4, <2>5, <2>6, <2>7, <2>8
          DEF ConsumerStep
<1>3. CASE UNCHANGED vars
  BY <1>3 DEF vars, shared, locals, Inv, IndInv, TypeOK, Settled, PendingApart,
              Pending, Unsettled, Drawn, KnowsLost, WonPublished, LostBelow
<1> QED BY <1>0, <1>1, <1>2, <1>3 DEF Next, Inv

\* A finite set of natural numbers has a largest member.
LEMMA LargestMember ==
    ASSUME NEW S \in SUBSET Nat, IsFiniteSet(S), S # {}
    PROVE  \E m \in S : \A t \in S : t <= m
<1> DEFINE From(t) == {u \in S : t <= u}
           T == {From(t) : t \in S}
<1>1. T \subseteq FiniteSubsetsOf(S) /\ T # {}
  <2>1. ASSUME NEW t \in S
        PROVE  From(t) \in SUBSET S /\ IsFiniteSet(From(t))
    <3>1. From(t) \in SUBSET S
      OBVIOUS
    <3> QED BY <3>1, FS_Subset
  <2> QED BY <2>1 DEF FiniteSubsetsOf
<1>2. PICK X \in T : \A Y \in T : <<Y, X>> \notin StrictSubsetOrdering(S)
  BY <1>1, FS_StrictSubsetOrderingWellFounded, WFMin
<1>3. PICK m \in S : X = From(m)
  BY <1>2
<1>4. ASSUME NEW t \in S, m < t PROVE FALSE
  <2>1. From(t) \subseteq From(m) /\ m \in From(m) /\ m \notin From(t)
    <3>1. t \in Nat /\ m \in Nat /\ ~(t <= m) /\ m <= m
      BY <1>4
    <3>2. \A u \in S : t <= u => m <= u
      BY <1>4, <3>1
    <3> QED BY <3>1, <3>2
  <2>2. <<From(t), From(m)>> \in StrictSubsetOrdering(S)
    BY <2>1 DEF StrictSubsetOrdering
  <2> QED BY <1>2, <1>3, <2>2
<1> QED BY <1>4

\* The counting argument: of the tickets up to the last won one, the lost ones
\* are not won, so there are at most TailIndex won ones.
LEMMA InvHeadWithinTail == Inv => HeadWithinTail
<1> SUFFICES ASSUME Inv PROVE HeadIndex <= TailIndex
  BY DEF HeadWithinTail
<1>1. /\ IsFiniteSet(Won) /\ IsFiniteSet(Lost)
      /\ Cardinality(Won) = HeadIndex /\ Won \intersect Lost = {}
      /\ Won \in SUBSET Nat /\ Lost \in SUBSET Nat
      /\ HeadIndex \in Nat /\ TailIndex \in Nat
  BY SettledFinite DEF Inv, IndInv, Settled, TypeOK
<1>2. CASE Won = {}
  BY <1>1, <1>2, FS_EmptySet
<1>3. CASE Won # {}
  <2>1. PICK m \in Won : \A t \in Won : t <= m
    BY <1>1, <1>3, LargestMember
  <2>2. m \in Nat /\ m + 1 - Cardinality(LostBelow(m)) <= TailIndex
    BY <1>1 DEF Inv, IndInv, WonPublished
  <2>3. LostBelow(m) \subseteq Lost /\ \A l \in LostBelow(m) : l <= m
    BY <1>1, <2>2 DEF LostBelow
  <2>4. IsFiniteSet(LostBelow(m)) /\ Cardinality(LostBelow(m)) \in Nat
    BY <1>1, <2>3, FS_Subset, FS_CardinalityType
  <2>5. Won \intersect LostBelow(m) = {}
    BY <1>1, <2>3
  <2>6. /\ Won \union LostBelow(m) \in SUBSET Nat
        /\ \A t \in Won \union LostBelow(m) : t <= m
    BY <1>1, <2>1, <2>3
  <2>7. Cardinality(Won \union LostBelow(m)) <= m + 1
    BY <2>2, <2>6, FS_BoundedSetOfNaturals
  <2>8. Cardinality(Won \union LostBelow(m))
           = Cardinality(Won) + Cardinality(LostBelow(m))
    <3>1. Cardinality(Won \intersect LostBelow(m)) = 0
      BY <2>5, FS_EmptySet
    <3>2. Cardinality(Won \union LostBelow(m))
             = Cardinality(Won) + Cardinality(LostBelow(m))
                  - Cardinality(Won \intersect LostBelow(m))
      BY <1>1, <2>4, FS_Union
    <3> QED BY <1>1, <2>4, <3>1, <3>2
  <2> QED BY <1>1, <2>2, <2>4, <2>7, <2>8
<1> QED BY <1>2, <1>3

-----------------------------------------------------------------------------
\* The inductive invariant holds of every behaviour of the claim protocol.
THEOREM Invariance == Spec => []Inv
BY InitInv, NextInv, PTL DEF Spec

\* The variables of the claim protocol keep their types.
THEOREM TypeCorrect == Spec => []TypeOK
<1>1. Inv => TypeOK
  BY DEF Inv
<1> QED BY <1>1, Invariance, PTL

\* No consumer claims a position the producer has not published, for any number
\* of consumers, any batch sizes and stale loads (FastQueue and SlowQueue,
\* Dequeue and DequeueBulk).
THEOREM NeverPastTail == Spec => []HeadWithinTail
BY Invariance, InvHeadWithinTail, PTL

-----------------------------------------------------------------------------
\* Every ticket that was drawn is won, lost or pending.
Covered ==
    Won \union Lost \union UNION {Pending(c) : c \in Consumers}
        = 0 .. (DequeueAttemptsCount - 1)

\* One consumer settles some of its tickets, or draws new ones.
LEMMA CoverFrame ==
    ASSUME Covered, NEW c \in Consumers, OthersSame(c), NEW New,
           Won' \union Lost' \union Pending(c)'
              = Won \union Lost \union Pending(c) \union New,
           0 .. (DequeueAttemptsCount' - 1) = 0 .. (DequeueAttemptsCount - 1) \union New
    PROVE  Covered'
<1>1. \A d \in Consumers \ {c} : Pending(d)' = Pending(d)
  BY DEF OthersSame, Pending, Unsettled, Drawn
<1> DEFINE Rest == UNION {Pending(d) : d \in Consumers \ {c}}
<1>2. /\ UNION {Pending(d) : d \in Consumers} = Pending(c) \union Rest
      /\ UNION {Pending(d) : d \in Consumers}' = Pending(c)' \union Rest
  BY <1>1
<1> QED BY <1>2 DEF Covered

LEMMA CoverStep ==
    ASSUME Inv, Covered, NEW c \in Consumers, ConsumerStep(c)
    PROVE  Covered'
<1>0. TypeOK /\ TypeOK' /\ OthersSame(c)
  BY TypeStep, OthersFrame DEF Inv, Next
<1>1. ASSUME UNCHANGED DequeueAttemptsCount,
             Won' \union Lost' \union Pending(c)' = Won \union Lost \union Pending(c)
      PROVE  Covered'
  <2> DEFINE New == {}
  <2>1. /\ Won' \union Lost' \union Pending(c)'
              = Won \union Lost \union Pending(c) \union New
        /\ 0 .. (DequeueAttemptsCount' - 1) = 0 .. (DequeueAttemptsCount - 1) \union New
    BY <1>1
  <2> HIDE DEF New
  <2> QED BY <1>0, <2>1, CoverFrame
<1> USE DEF Pending, Unsettled, Drawn, Become, TypeOK, shared
<1>2. CASE \/ \E max \in MaxCounts : ReadFailedCount(c, max)
           \/ PrecheckFails(c) \/ PrecheckPasses(c) \/ Return(c)
  BY <1>0, <1>1, <1>2 DEF ReadFailedCount, PrecheckFails, PrecheckPasses, Return
<1>3. CASE DrawTickets(c)
  <2> DEFINE New == ticket'[c] .. (ticket'[c] + wanted'[c] - 1)
  <2>1. Pending(c) = {} /\ Pending(c)' = New /\ UNCHANGED <<Won, Lost>>
    BY <1>0, <1>3 DEF DrawTickets
  <2>2. 0 .. (DequeueAttemptsCount' - 1) = 0 .. (DequeueAttemptsCount - 1) \union New
    BY <1>0, <1>3 DEF DrawTickets
  <2> QED BY <1>0, <2>1, <2>2, CoverFrame
<1>4. CASE RecheckFails(c)
  BY <1>0, <1>1, <1>4 DEF RecheckFails
<1>5. CASE RecheckPasses(c)
  <2>0. PICK tail \in Loads(TailIndex) :
           LET k == Available(tail, ticket[c], failedSeen[c])
           IN  /\ actual' = [actual EXCEPT ![c] = Smaller(k, wanted[c])]
               /\ Become(c, IF Smaller(k, wanted[c]) < wanted[c]
                            THEN "failing" ELSE "winning")
    BY <1>5 DEF RecheckPasses
  <2> DEFINE n == Available(tail, ticket[c], failedSeen[c])
  <2>1. /\ n \in Int
        /\ actual' = [actual EXCEPT ![c] = Smaller(n, wanted[c])]
        /\ Become(c, IF Smaller(n, wanted[c]) < wanted[c] THEN "failing" ELSE "winning")
    BY <1>0, <2>0, LoadsBelow DEF Available
  <2> HIDE DEF n
  <2>2. Smaller(n, wanted[c]) <= wanted[c]
    BY <1>0, <2>1, SmallerBelow
  <2>3. Pending(c)' = Pending(c) /\ UNCHANGED <<Won, Lost, DequeueAttemptsCount>>
    BY <1>0, <1>5, <2>1, <2>2 DEF RecheckPasses
  <2> QED BY <1>1, <2>3
<1>6. CASE AddFailedCount(c)
  <2>1. actual[c] \in 0 .. wanted[c] /\ phase[c] = "failing"
    BY <1>0, <1>6 DEF AddFailedCount, Inv, IndInv, PendingApart
  <2>2. Pending(c)' \union GivenBack(c) = Pending(c)
    BY <1>0, <1>6, <2>1 DEF AddFailedCount, GivenBack, locals
  <2>3. Lost' = Lost \union GivenBack(c) /\ UNCHANGED <<Won, DequeueAttemptsCount>>
    BY <1>6 DEF AddFailedCount
  <2> QED BY <1>1, <2>2, <2>3
<1>7. CASE ClaimHead(c)
  <2>1. Pending(c) = Kept(c) /\ Pending(c)' = {} /\ Won' = Won \union Kept(c)
    BY <1>0, <1>7 DEF ClaimHead, Kept
  <2> QED BY <1>1, <1>7, <2>1 DEF ClaimHead
<1> QED BY <1>2, <1>3, <1>4, <1>5, <1>6, <1>7 DEF ConsumerStep

\* No ticket is settled twice or forgotten, so the counters are right whenever no
\* call is in progress, for any number of consumers and stale loads.
THEOREM TicketsSettledOnce == Spec => []TicketsAccounted
<1>1. Init => Covered
  BY DEF Init, Covered, Pending, Drawn
<1>2. Inv /\ Covered /\ [Next]_vars => Covered'
  <2> SUFFICES ASSUME Inv, Covered, [Next]_vars PROVE Covered'
    OBVIOUS
  <2>1. CASE \E c \in Consumers : ConsumerStep(c)
    BY <2>1, CoverStep
  <2>2. CASE UNCHANGED <<phase, locals, Won, Lost, DequeueAttemptsCount>>
    BY <2>2 DEF Covered, Pending, Unsettled, Drawn, locals
  <2> QED BY <2>1, <2>2 DEF Next, Publish, vars, shared
<1>3. Inv /\ Covered => TicketsAccounted
  BY DEF Inv, IndInv, Settled, Covered, TicketsAccounted
<1> QED BY <1>1, <1>2, <1>3, Invariance, PTL DEF Spec

-----------------------------------------------------------------------------
\* A step that leaves the counters HeadIndex and TailIndex alone and neither
\* enters nor leaves "claimed" is a stutter of the abstract queue.
LEMMA HandFrame ==
    ASSUME TypeOK, NEW c \in Consumers, phase' \in [Consumers -> Phases],
           \A d \in Consumers \ {c} : phase'[d] = phase[d],
           \A d \in Consumers \ {c} :
              first'[d] = first[d] /\ actual'[d] = actual[d],
           phase[c] # "claimed", phase'[c] # "claimed"
    PROVE  Hand' = Hand
BY DEF Hand

LEMMA StepRefines ==
    Inv /\ Inv' /\ HeadWithinTail' /\ [Next]_vars => [Queue!Next]_(Queue!vars)
<1> SUFFICES ASSUME Inv, Inv', HeadWithinTail', [Next]_vars
    PROVE [Queue!Next]_(Queue!vars)
  OBVIOUS
<1> USE DEF Queue!vars
<1>0. TypeOK /\ TypeOK'
  BY DEF Inv
<1>1. CASE \E n \in PublishCounts : Publish(n)
  <2>1. /\ TailIndex' \in Nat /\ TailIndex' > TailIndex
        /\ UNCHANGED <<HeadIndex, phase, locals>>
    BY <1>0, <1>1, CountsAssumption DEF Publish, TypeOK
  <2>2. Hand' = Hand
    BY <2>1 DEF Hand, locals
  <2> QED BY <2>1, <2>2 DEF Queue!Next, Queue!Publish
<1>2. ASSUME NEW c \in Consumers, ConsumerStep(c) PROVE [Queue!Next]_(Queue!vars)
  <2>0. OthersSame(c)
    BY <1>0, <1>2, OthersFrame
  <2>a. \A d \in Consumers \ {c} : phase'[d] = phase[d] /\ actual'[d] = actual[d]
    BY <2>0 DEF OthersSame
  <2>b. phase' \in [Consumers -> Phases] /\ phase \in [Consumers -> Phases]
    BY <1>0 DEF TypeOK
  <2>1. ASSUME UNCHANGED <<HeadIndex, TailIndex>>,
               \A d \in Consumers \ {c} : first'[d] = first[d],
               phase[c] # "claimed", phase'[c] # "claimed"
        PROVE  UNCHANGED Queue!vars
    BY <1>0, <2>a, <2>b, <2>1, HandFrame
  <2>2. CASE \E max \in MaxCounts : ReadFailedCount(c, max)
    BY <1>0, <2>1, <2>2, <2>b DEF ReadFailedCount, Become, shared
  <2>3. CASE PrecheckFails(c)
    BY <1>0, <2>1, <2>3, <2>b DEF PrecheckFails, Become, Forget, TypeOK, shared
  <2>4. CASE PrecheckPasses(c)
    BY <1>0, <2>1, <2>4, <2>b DEF PrecheckPasses, Become, shared
  <2>5. CASE DrawTickets(c)
    BY <1>0, <2>1, <2>5, <2>b DEF DrawTickets, Become
  <2>6. CASE RecheckFails(c)
    BY <1>0, <2>1, <2>6, <2>b DEF RecheckFails, Become, shared
  <2>7. CASE RecheckPasses(c)
    BY <1>0, <2>1, <2>7, <2>b DEF RecheckPasses, Become, shared
  <2>8. CASE AddFailedCount(c)
    BY <1>0, <2>1, <2>8, <2>b
       DEF AddFailedCount, Become, Forget, TypeOK, locals
  <2>9. CASE ClaimHead(c)
    <3>1. /\ UNCHANGED <<TailIndex, actual>>
          /\ HeadIndex' = HeadIndex + actual[c]
          /\ first' = [first EXCEPT ![c] = HeadIndex]
          /\ phase[c] = "winning" /\ phase' = [phase EXCEPT ![c] = "claimed"]
          /\ HeadIndex \in Nat /\ actual[c] \in Nat /\ HeadIndex' \in Nat
      BY <1>0, <2>9 DEF ClaimHead, Become, TypeOK
    <3>2. HeadIndex' <= TailIndex
      BY <3>1 DEF HeadWithinTail
    <3>3. Hand[c] = {}
      BY <3>1 DEF Hand
    <3>4. Hand' = [Hand EXCEPT ![c] = HeadIndex .. (HeadIndex' - 1)]
      <4>1. Hand'[c] = HeadIndex .. (HeadIndex' - 1)
        <5>1. Hand'[c] = HeadIndex .. (HeadIndex + actual[c] - 1)
          BY <1>0, <3>1 DEF Hand, TypeOK
        <5>2. HeadIndex + actual[c] - 1 = HeadIndex' - 1
          BY <3>1
        <5> QED BY <5>1, <5>2, Zenon
      <4>2. \A d \in Consumers \ {c} : Hand'[d] = Hand[d]
        BY <1>0, <2>a, <3>1 DEF Hand, TypeOK
      <4> QED BY <4>1, <4>2 DEF Hand
    <3>5. HeadIndex' >= HeadIndex
      BY <3>1
    <3> QED BY <3>1, <3>2, <3>3, <3>4, <3>5 DEF Queue!Next, Queue!Take
  <2>10. CASE Return(c)
    <3>1. UNCHANGED <<HeadIndex, TailIndex>> /\ phase'[c] = "idle"
      BY <2>10, <2>b DEF Return, Become, shared
    <3>2. \A d \in Consumers \ {c} : first'[d] = first[d]
      BY <1>0, <2>10 DEF Return, Forget, TypeOK
    <3>3. Hand' = [Hand EXCEPT ![c] = {}]
      <4>1. Hand'[c] = {}
        BY <3>1 DEF Hand
      <4>2. \A d \in Consumers \ {c} : Hand'[d] = Hand[d]
        BY <2>a, <3>2 DEF Hand
      <4> QED BY <4>1, <4>2 DEF Hand
    <3> QED BY <3>1, <3>3 DEF Queue!Next, Queue!Release
  <2> QED BY <1>2, <2>2, <2>3, <2>4, <2>5, <2>6, <2>7, <2>8, <2>9, <2>10
          DEF ConsumerStep
<1>3. CASE UNCHANGED vars
  BY <1>3 DEF vars, shared, locals, Hand
<1> QED BY <1>1, <1>2, <1>3 DEF Next

\* The claim protocol implements the abstract queue: consumers are handed the
\* published items in order, each item once.
THEOREM Refinement == Spec => ImplementsSharedQueue
<1>1. Init => Queue!Init
  BY DEF Init, Queue!Init, Hand
<1>2. Inv /\ Inv' /\ HeadWithinTail' /\ [Next]_vars => [Queue!Next]_(Queue!vars)
  BY StepRefines
<1> QED BY <1>1, <1>2, Invariance, NeverPastTail, PTL
        DEF Spec, ImplementsSharedQueue, Queue!Spec

-----------------------------------------------------------------------------
(* Counters. *)

\* Remainders, where the quotient is 0, 1 or -1.
LEMMA WrapNear ==
  ASSUME Half \in Nat \ {0}, NEW x \in Int, -Word <= x, x < 2 * Word
  PROVE  Wrap(x) = IF x < 0 THEN x + Word ELSE IF x < Word THEN x ELSE x - Word
  BY DEF Wrap, Word

\* Whatever word a counter holds, one that is ahead of it by less than half a
\* word, wrapped or not, is found to be; it is not behind, and the difference of
\* the two is how far it is ahead, which the dequeues take for a number of items.
THEOREM ComparesAcrossWrap ==
  ASSUME Half \in Nat \ {0}, NEW a \in Words, NEW d \in 1 .. (Half - 1)
  PROVE  /\ CircularLessThan(a, Wrap(a + d))
         /\ ~CircularLessThan(Wrap(a + d), a)
         /\ ~CircularLessThan(a, a)
         /\ Wrap(Wrap(a + d) - a) = d
  BY WrapNear DEF CircularLessThan, Word, Words

\* A counter exactly half a word ahead is not: the bound on d is sharp.
THEOREM HalfAWordIsNotAhead ==
  ASSUME Half \in Nat \ {0}, NEW a \in Words
  PROVE  ~CircularLessThan(a, Wrap(a + Half))
  BY WrapNear DEF CircularLessThan, Word, Words
=============================================================================
