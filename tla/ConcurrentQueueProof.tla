------------------------ MODULE ConcurrentQueueProof ------------------------
(***************************************************************************)
(* For any number of tokens, threads, consumers and nodes: a sub-queue     *)
(* never has two producers, no producer drops out of the list, the count a *)
(* consumer goes round with covers the list, and what a consumer finds and *)
(* what it does not find is true.                                          *)
(***************************************************************************)
EXTENDS ConcurrentQueueProps, FiniteSetTheorems, WellFoundedInduction, TLAPS

NodeOrNull == Nodes \union {Null}

Searches ==
    {NoCall}
    \union [step : {"look", "claim"}, at : Nodes]
    \union [step : {"create"}, at : {Null}]
    \union [step : {"link", "push"}, node : Nodes]

OwnersTypeOK ==
    /\ ProducerListsHead \in NodeOrNull
    /\ Next \in [Nodes -> NodeOrNull]
    /\ Type \in [Nodes -> {"none", "Explicit", "Implicit"}]
    /\ Inactive \in [Nodes -> BOOLEAN]
    /\ node \in [Owners -> NodeOrNull]
    /\ po \in [Owners -> Searches]

\* Whoever looks for a producer has none.
SearchersHaveNone == \A o \in Owners : po[o].step # "idle" => node[o] = Null

\* A node that was not made is neither owned nor inactive: the one an owner makes
\* is nobody else's.
UnmadeIsFree ==
    \A n \in Nodes :
        Type[n] = "none" => ~Inactive[n] /\ \A o \in Owners : Own(o) # n

Inv == OwnersTypeOK /\ SearchersHaveNone /\ UnmadeIsFree /\ OneOwner

LEMMA InitInv == Init => Inv
  BY NodesAssumption
  DEF Init, Inv, OwnersTypeOK, SearchersHaveNone, UnmadeIsFree, OneOwner, Own,
      NoCall, Searches, NodeOrNull

\* Owners that are not in a step of their own, and nodes it does not concern,
\* stay as they are.
LEMMA Frame ==
  ASSUME Inv, UNCHANGED <<ProducerListsHead, Next, Type, owners>>
  PROVE  Inv'
  BY DEF owners, Inv, OwnersTypeOK, SearchersHaveNone, UnmadeIsFree, OneOwner, Own

LEMMA OwnerInv ==
  ASSUME Inv, NEW o \in Owners, OwnerStep(o)
  PROVE  Inv'
  <1> USE NodesAssumption
          DEF Inv, OwnersTypeOK, SearchersHaveNone, UnmadeIsFree, OneOwner, Own,
              NoCall, Searches, NodeOrNull, list, LookAt, Got
  <1>1. CASE BeginSearch(o)
    BY <1>1 DEF BeginSearch
  <1>2. CASE Look(o)
    <2>1. po[o] \in [step : {"look"}, at : Nodes]
      BY <1>2 DEF Look
    <2>2. CASE po' = [po EXCEPT ![o].step = "claim"]
      <3>1. po'[o] = [step |-> "claim", at |-> po[o].at]
        BY <2>1, <2>2
      <3> QED
        BY <1>2, <2>1, <2>2, <3>1 DEF Look
    <2>3. CASE LookAt(o, Next[po[o].at])
      BY <1>2, <2>1, <2>3 DEF Look
    <2> QED
      BY <1>2, <2>2, <2>3 DEF Look
  <1>3. CASE ClaimNode(o)
    <2>1. po[o] \in [step : {"claim"}, at : Nodes] /\ node[o] = Null
      BY <1>3 DEF ClaimNode
    <2>2. CASE Inactive[po[o].at]
      <3>1. \A q \in Owners : Own(q) # po[o].at
        BY <2>1, <2>2
      <3>2. /\ Inactive' = [Inactive EXCEPT ![po[o].at] = FALSE]
            /\ node' = [node EXCEPT ![o] = po[o].at]
            /\ po' = [po EXCEPT ![o] = NoCall]
            /\ UNCHANGED <<ProducerListsHead, Next, Type>>
        BY <1>3, <2>2 DEF ClaimNode
      <3>3. Type[po[o].at] # "none"
        BY <2>1, <2>2
      <3>4. OwnersTypeOK' /\ SearchersHaveNone'
        BY <2>1, <3>2
      <3>5. Own(o)' = po[o].at /\ \A q \in Owners \ {o} : Own(q)' = Own(q)
        BY <2>1, <3>2
      <3>6. UnmadeIsFree'
        BY <2>1, <3>2, <3>3, <3>5
      <3>7. OneOwner'
        BY <2>1, <3>1, <3>2, <3>5
      <3> QED
        BY <3>4, <3>6, <3>7
    <2>3. CASE ~Inactive[po[o].at]
      <3>1. LookAt(o, Next[po[o].at]) /\ UNCHANGED <<ProducerListsHead, Next, Type, node, Inactive>>
        BY <1>3, <2>3 DEF ClaimNode
      <3> QED
        BY <2>1, <3>1
    <2> QED
      BY <2>2, <2>3
  <1>4. CASE CreateNode(o)
    BY <1>4 DEF CreateNode, TypeOf
  <1>5. CASE Link(o)
    BY <1>5 DEF Link
  <1>6. CASE Push(o)
    <2>1. po[o] \in [step : {"push"}, node : Nodes]
      BY <1>6 DEF Push
    <2>2. CASE po' = [po EXCEPT ![o].step = "link"] /\ UNCHANGED <<ProducerListsHead, node>>
      <3>1. po'[o] = [step |-> "link", node |-> po[o].node]
        BY <2>1, <2>2
      <3>2. \A q \in Owners : Own(q)' = Own(q)
        BY <2>1, <2>2, <3>1
      <3> QED
        BY <1>6, <2>1, <2>2, <3>1, <3>2 DEF Push
    <2>3. CASE ProducerListsHead' = po[o].node /\ Got(o, po[o].node)
      <3>1. \A q \in Owners : Own(q)' = Own(q)
        BY <2>1, <2>3
      <3> QED
        BY <1>6, <2>1, <2>3, <3>1 DEF Push
    <2> QED
      BY <1>6, <2>2, <2>3 DEF Push
  <1> QED
    BY <1>1, <1>2, <1>3, <1>4, <1>5, <1>6 DEF OwnerStep

\* The owner's node becomes inactive as nobody has it any more.
LEMMA DestroyInv ==
  ASSUME Inv, NEW o \in Owners, DestroyToken(o)
  PROVE  Inv'
  <1> USE NodesAssumption
          DEF Inv, OwnersTypeOK, SearchersHaveNone, UnmadeIsFree, OneOwner, Own,
              NoCall, Searches, NodeOrNull, list
  <1>1. node[o] \in Nodes /\ po[o] = NoCall
    BY DEF DestroyToken
  <1>2. Own(o)' = Null /\ \A q \in Owners \ {o} : Own(q)' = Own(q)
    BY <1>1 DEF DestroyToken
  <1>3. \A q \in Owners \ {o} : Own(q) # node[o]
    BY <1>1
  <1> QED
    BY <1>1, <1>2, <1>3 DEF DestroyToken

LEMMA MoveInv ==
  ASSUME Inv, NEW o \in Tokens, NEW q \in Tokens, MoveToken(o, q)
  PROVE  Inv'
  <1> USE NodesAssumption
          DEF Inv, OwnersTypeOK, SearchersHaveNone, UnmadeIsFree, OneOwner, Own,
              NoCall, Searches, NodeOrNull, list
  <1>1. o \in Owners /\ q \in Owners /\ o # q /\ po[o] = NoCall /\ po[q] = NoCall
    BY DEF MoveToken, Owners
  <1>2. Own(q)' = Own(o) /\ Own(o)' = Null
    BY <1>1 DEF MoveToken
  <1>3. \A r \in Owners \ {o, q} : Own(r)' = Own(r)
    BY DEF MoveToken
  <1> QED
    BY <1>1, <1>2, <1>3 DEF MoveToken

\* No call of a consumer touches the list or an owner.
LEMMA ConsumersLeaveOwners ==
  ASSUME NEW c \in Consumers, ConsumerStep(c)
  PROVE  UNCHANGED <<list, owners>>
  <1>1. CASE CallStep(c)
    BY <1>1, Zenon
    DEF CallStep, Scan, TryBest, Walk, WalkEnds, UpdateHead, UpdateCount,
        UpdateProducer, TryCurrent, Rotate, RingHead, Ring, RingEnds, ReturnShort
  <1>2. CASE TokenCall(c)
    BY <1>2 DEF TokenCall, BeginToken
  <1>3. CASE \E x \in TokensOf[c] : MakeToken(c, x)
    BY <1>3 DEF MakeToken
  <1>4. CASE BeginScan(c)
    BY <1>4 DEF BeginScan
  <1>5. CASE \E want \in Wants \union {1} :
                BeginWalk(c, want) \/ \E o \in Tokens : TakeFrom(c, o, want)
    BY <1>5 DEF BeginWalk, TakeFrom
  <1>6. CASE \E x, y \in TokensOf[c] : x # y /\ SwapTokens(c, x, y)
    BY <1>6, Zenon DEF SwapTokens
  <1> QED
    BY <1>1, <1>2, <1>3, <1>4, <1>5, <1>6 DEF ConsumerStep

LEMMA NextInv == Inv /\ [NextStep]_vars => Inv'
  <1> SUFFICES ASSUME Inv, [NextStep]_vars PROVE Inv'
    OBVIOUS
  <1>1. CASE \E o \in Owners : OwnerStep(o)
    BY <1>1, OwnerInv
  <1>2. CASE \E o \in Owners : DestroyToken(o)
    BY <1>2, DestroyInv
  <1>3. CASE \E o \in Owners : Enqueue(o)
    BY <1>3, Frame DEF Enqueue, list
  <1>4. CASE \E o, q \in Tokens : MoveToken(o, q)
    BY <1>4, MoveInv
  <1>5. CASE \E c \in Consumers : ConsumerStep(c)
    BY <1>5, ConsumersLeaveOwners, Frame DEF list
  <1>6. CASE UNCHANGED vars
    BY <1>6, Frame DEF vars, list
  <1> QED
    BY <1>1, <1>2, <1>3, <1>4, <1>5, <1>6 DEF NextStep

\* Owners may come, go and pass their tokens on in any order, and search, push and
\* take over at once: a sub-queue has one producer at most.
THEOREM SingleProducer == Spec => []OneOwner
  <1>1. Spec => []Inv
    BY InitInv, NextInv, PTL DEF Spec
  <1>2. Inv => OneOwner
    BY DEF Inv
  <1> QED
    BY <1>1, <1>2, PTL

-----------------------------------------------------------------------------
(* The list *)

\* A node that an owner made and is putting into the list, and those that are in.
Pending(n) == \E o \in Owners : po[o].step \in {"link", "push"} /\ po[o].node = n
Linked == {n \in Nodes : Type[n] # "none" /\ ~Pending(n)}

\* Nothing leads to a node that is not in the list yet, so that an owner may set
\* its Next while others follow theirs.
ListInv ==
    /\ ProducerListsHead \in Linked \union {Null}
    /\ \A n \in Nodes : Next[n] \in Linked \union {Null}
    /\ Linked \subseteq Listed

LEMMA InitListInv == Init => ListInv
  BY DEF Init, ListInv, Linked

\* Where only the owners and searches change.
LEMMA ListFrame ==
  ASSUME ListInv, UNCHANGED <<ProducerListsHead, Next>>, Linked' = Linked
  PROVE  ListInv'
  BY DEF ListInv, Listed, ListFrom, Closed

\* Next of a pending node is set.
LEMMA LinkListInv ==
  ASSUME Inv, ListInv, NEW o \in Owners, Link(o)
  PROVE  ListInv' /\ Linked' = Linked
  <1> DEFINE n0 == po[o].node
  <1>1. po[o] \in [step : {"link"}, node : Nodes]
    BY DEF Link, Inv, OwnersTypeOK, Searches, NoCall
  <1>2. /\ po'[o] = [step |-> "push", node |-> n0]
        /\ \A q \in Owners \ {o} : po'[q] = po[q]
    <2>1. po'[o] = [po[o] EXCEPT !.step = "push"]
      BY DEF Link, Inv, OwnersTypeOK
    <2> QED
      BY <1>1, <2>1 DEF Link, Inv, OwnersTypeOK
  <1>3. Linked' = Linked
    BY <1>1, <1>2 DEF Link, Linked, Pending, Inv, OwnersTypeOK
  <1>4. n0 \notin Linked
    BY <1>1 DEF Linked, Pending
  <1>5. /\ \A n \in Nodes \ {n0} : Next'[n] = Next[n]
        /\ \A n \in Nodes : Next'[n] \in Linked \union {Null}
        /\ ProducerListsHead' = ProducerListsHead
    BY <1>1 DEF Link, ListInv, Inv, OwnersTypeOK
  <1>6. ASSUME NEW n \in Linked, NEW S \in SUBSET Nodes, Closed(S, ProducerListsHead)'
        PROVE  n \in S
    <2> DEFINE T == S \intersect Linked
    <2>1. T \in SUBSET Nodes /\ Closed(T, ProducerListsHead)
      BY <1>4, <1>5, <1>6 DEF Closed, ListInv
    <2> QED
      BY <2>1 DEF ListInv, Listed, ListFrom
  <1>7. Linked \subseteq Listed'
    BY <1>6 DEF Listed, ListFrom, Linked
  <1> QED
    BY <1>3, <1>5, <1>7 DEF ListInv

\* The head is swapped for a node whose Next it is.
LEMMA PushListInv ==
  ASSUME Inv, ListInv, NEW o \in Owners, Push(o)
  PROVE  ListInv' /\ Linked \subseteq Linked'
  <1> DEFINE n0 == po[o].node
  <1>1. po[o] \in [step : {"push"}, node : Nodes] /\ Own(o) = n0
    BY DEF Push, Inv, OwnersTypeOK, Searches, NoCall, Own
  <1>2. CASE ProducerListsHead = Next[n0]
    <2>1. /\ ProducerListsHead' = n0 /\ UNCHANGED <<Next, Type>>
          /\ po' = [po EXCEPT ![o] = NoCall]
      BY <1>2 DEF Push, Got
    <2>2. Type[n0] # "none"
      BY <1>1 DEF Inv, UnmadeIsFree
    <2>3. \A q \in Owners \ {o} : po[q].step \in {"link", "push"} => po[q].node # n0
      BY <1>1, NodesAssumption DEF Inv, OneOwner, Own
    <2>4. Linked' = Linked \union {n0}
      BY <1>1, <2>1, <2>2, <2>3 DEF Linked, Pending, NoCall, Inv, OwnersTypeOK
    <2>5. ASSUME NEW S \in SUBSET Nodes, Closed(S, ProducerListsHead)'
          PROVE  Linked \union {n0} \subseteq S
      <3>1. Closed(S, ProducerListsHead) /\ n0 \in S
        BY <1>1, <1>2, <2>1, <2>5, NodesAssumption DEF Closed
      <3> QED
        BY <3>1 DEF ListInv, Listed, ListFrom
    <2>6. Linked' \subseteq Listed'
      BY <1>1, <2>1, <2>4, <2>5 DEF Listed, ListFrom, Linked
    <2> QED
      BY <2>1, <2>4, <2>6 DEF ListInv
  <1>3. CASE ProducerListsHead # Next[n0]
    <2>1. /\ UNCHANGED <<ProducerListsHead, Next, Type>>
          /\ po' = [po EXCEPT ![o] = [step |-> "link", node |-> n0]]
      BY <1>1, <1>3 DEF Push
    <2>2. Linked' = Linked
      BY <1>1, <2>1 DEF Linked, Pending, Inv, OwnersTypeOK
    <2> QED
      BY <2>1, <2>2, ListFrame
  <1> QED
    BY <1>2, <1>3

\* In all the other steps of an owner the list stays.
LEMMA SearchListInv ==
  ASSUME Inv, ListInv, NEW o \in Owners,
         BeginSearch(o) \/ Look(o) \/ ClaimNode(o) \/ CreateNode(o)
  PROVE  ListInv' /\ Linked' = Linked
  <1>1. po[o].step \notin {"link", "push"} /\ UNCHANGED <<ProducerListsHead, Next>>
    BY DEF BeginSearch, Look, ClaimNode, CreateNode, list
  <1>2. CASE BeginSearch(o) \/ Look(o) \/ ClaimNode(o)
    <2>1. UNCHANGED Type /\ \A q \in Owners \ {o} : po'[q] = po[q]
      BY <1>2
      DEF BeginSearch, Look, ClaimNode, LookAt, Got, list, Inv, OwnersTypeOK
    <2>2. po'[o].step \notin {"link", "push"}
      BY <1>1, <1>2, OwnerInv
      DEF BeginSearch, Look, ClaimNode, LookAt, Got, NoCall, Inv, OwnersTypeOK,
          Searches, OwnerStep
    <2> QED
      BY <1>1, <2>1, <2>2, ListFrame DEF Linked, Pending
  <1>3. CASE CreateNode(o)
    <2>1. PICK n \in Nodes :
             /\ Type[n] = "none" /\ Type' = [Type EXCEPT ![n] = TypeOf(o)]
             /\ po' = [po EXCEPT ![o] = [step |-> "link", node |-> n]]
      BY <1>3 DEF CreateNode
    <2>2. Linked' = Linked
      BY <1>1, <2>1 DEF Linked, Pending, Inv, OwnersTypeOK
    <2> QED
      BY <1>1, <2>2, ListFrame
  <1> QED
    BY <1>2, <1>3

LEMMA OtherListInv ==
  ASSUME Inv, ListInv, UNCHANGED <<list, po>>
  PROVE  ListInv' /\ Linked' = Linked
  BY ListFrame DEF Linked, Pending, list

LEMMA NextListInv ==
  ASSUME Inv, ListInv, [NextStep]_vars
  PROVE  ListInv' /\ Linked \subseteq Linked'
  <1>1. CASE \E o \in Owners : OwnerStep(o)
    BY <1>1, SearchListInv, LinkListInv, PushListInv DEF OwnerStep
  <1>2. CASE \E o \in Owners : DestroyToken(o) \/ Enqueue(o)
    BY <1>2, OtherListInv DEF DestroyToken, Enqueue, owners
  <1>3. CASE \E o, q \in Tokens : MoveToken(o, q)
    BY <1>3, OtherListInv DEF MoveToken
  <1>4. CASE \E c \in Consumers : ConsumerStep(c)
    BY <1>4, ConsumersLeaveOwners, OtherListInv DEF owners
  <1>5. CASE UNCHANGED vars
    BY <1>5, OtherListInv DEF vars, owners
  <1> QED
    BY <1>1, <1>2, <1>3, <1>4, <1>5 DEF NextStep

\* Whatever is pushed at once, no producer drops out of the list: consumers find
\* every item.
THEOREM ListComplete == Spec => []NoneLost
  <1>1. Spec => [](Inv /\ ListInv)
    <2>1. Init => Inv /\ ListInv
      BY InitInv, InitListInv
    <2>2. Inv /\ ListInv /\ [NextStep]_vars => (Inv /\ ListInv)'
      BY NextInv, NextListInv
    <2> QED
      BY <2>1, <2>2, PTL DEF Spec
  <1>2. Inv /\ ListInv => NoneLost
    BY DEF Inv, OwnersTypeOK, ListInv, Linked, Pending, NoneLost, Own
  <1> QED
    BY <1>1, <1>2, PTL

-----------------------------------------------------------------------------
(* The count *)

Made == {n \in Nodes : Type[n] # "none"}

\* Records with the fields of a ConsumerToken, a call with one, and a walk.
IsToken(r) ==
    r \in [valid : {r.valid}, initial : {r.initial}, known : {r.known},
           items : {r.items}, current : {r.current}, desired : {r.desired}]
IsTokenCall(r) ==
    r \in [step : {r.step}, token : ConsumerTokens, want : {r.want}, bulk : {r.bulk},
           head : {r.head}, count : {r.count}, at : {r.at}]
IsWalk(r) == r \in [step : {"walk"}, at : {r.at}, want : {r.want}, skip : {r.skip}]

TokensOK ==
    /\ tok = [x \in ConsumerTokens |-> tok[x]]
    /\ \A x \in ConsumerTokens :
          IsToken(tok[x]) /\ (tok[x].desired # Null => ProducerCount > 0)

\* The nodes from head on are among as many as k that are linked.
AtMostFrom(head, k) ==
    \E S \in SUBSET Linked : Closed(S, head) /\ Cardinality(S) <= k

CallOK(r) ==
    /\ r.step \in {"update", "count", "offset", "current", "ringHead", "ring"}
          => IsTokenCall(r)
    /\ r.step = "walk" => IsWalk(r)
    /\ r.step = "count" => r.head \in Linked \union {Null} /\ ProducerCount > 0
    /\ r.step = "offset" =>
          /\ r.count \in Nat /\ 0 < r.count /\ r.count <= ProducerCount
          /\ AtMostFrom(r.head, r.count)

CallsOK == con = [c \in Consumers |-> con[c]] /\ \A c \in Consumers : CallOK(con[c])

MadeCounted == ProducerCount \in Nat /\ Cardinality(Made) <= ProducerCount

CountInv == MadeCounted /\ TokensOK /\ CallsOK

LEMMA InitCountInv == Init => CountInv
  <1> SUFFICES ASSUME Init PROVE CountInv
    OBVIOUS
  <1>1. MadeCounted
    <2>1. Made = {}
      BY DEF Init, Made
    <2> QED
      BY <2>1, FS_EmptySet DEF Init, MadeCounted
  <1>2. TokensOK
    BY DEF Init, TokensOK, IsToken, NoToken
  <1>3. CallsOK
    BY DEF Init, CallsOK, CallOK, NoCall
  <1> QED
    BY <1>1, <1>2, <1>3 DEF CountInv

\* What is linked stays, so what was counted remains enough.
LEMMA CallOKStays ==
  ASSUME ListInv, NEW r, CallOK(r), ProducerCount \in Nat, ProducerCount' \in Nat,
         ProducerCount <= ProducerCount', Linked \subseteq Linked',
         \A n \in Linked : Next'[n] = Next[n]
  PROVE  CallOK(r)'
  <1>1. ASSUME r.step = "offset" PROVE AtMostFrom(r.head, r.count)'
    <2>1. PICK S \in SUBSET Linked : Closed(S, r.head) /\ Cardinality(S) <= r.count
      BY <1>1 DEF CallOK, AtMostFrom
    <2>2. Closed(S, r.head)'
      BY <2>1 DEF Closed
    <2> QED
      BY <2>1, <2>2 DEF AtMostFrom
  <1> QED
    BY <1>1 DEF CallOK

\* The steps of the owners.
LEMMA OwnersCountInv ==
  ASSUME Inv, ListInv, CountInv, UNCHANGED <<tok, con>>,
         Linked \subseteq Linked',
         \A n \in Linked : Next'[n] = Next[n],
         \/ UNCHANGED <<Type, ProducerCount>>
         \/ \E n \in Nodes, t \in {"Explicit", "Implicit"} :
               /\ Type' = [Type EXCEPT ![n] = t]
               /\ ProducerCount' = ProducerCount + 1
  PROVE  CountInv'
  <1>1. MadeCounted' /\ ProducerCount <= ProducerCount'
    <2>1. CASE UNCHANGED <<Type, ProducerCount>>
      BY <2>1 DEF CountInv, MadeCounted, Made
    <2>2. CASE \E n \in Nodes, t \in {"Explicit", "Implicit"} :
                  /\ Type' = [Type EXCEPT ![n] = t]
                  /\ ProducerCount' = ProducerCount + 1
      <3>1. PICK n \in Nodes : Made' = Made \union {n}
        BY <2>2 DEF Made, Inv, OwnersTypeOK
      <3>2. IsFiniteSet(Made)
        BY NodesAssumption, FS_Subset DEF Made
      <3>3. Cardinality(Made) \in Nat
        BY <3>2, FS_CardinalityType
      <3>4. Cardinality(Made') <= Cardinality(Made) + 1
        BY <3>1, <3>2, <3>3, FS_AddElement
      <3>5. Cardinality(Made') \in Nat
        BY <3>1, <3>2, FS_AddElement, FS_CardinalityType
      <3> QED
        BY <2>2, <3>3, <3>4, <3>5 DEF CountInv, MadeCounted
    <2> QED
      BY <2>1, <2>2
  <1>2. TokensOK'
    BY <1>1 DEF CountInv, TokensOK, MadeCounted
  <1>3. CallsOK'
    BY <1>1, CallOKStays DEF CountInv, CallsOK, MadeCounted
  <1> QED
    BY <1>1, <1>2, <1>3 DEF CountInv
\* The steps of a consumer, one after the other: the list stays, and so do the
\* calls of the others.
LEMMA ConsumerFrame ==
  ASSUME ListInv, CountInv, UNCHANGED <<list, owners>>, NEW c \in Consumers
  PROVE  /\ MadeCounted' /\ Linked' = Linked
         /\ \A r : CallOK(r)' <=> CallOK(r)
  BY DEF CountInv, MadeCounted, Made, Linked, Pending, CallOK, AtMostFrom, Closed,
         list, owners

LEMMA GotoOK ==
  ASSUME ListInv, CountInv, UNCHANGED <<list, owners>>, NEW c \in Consumers,
         NEW r, CallOK(r), Goto(c, r)
  PROVE  CallsOK'
  BY ConsumerFrame DEF CountInv, CallsOK, Goto

LEMMA TokenChange ==
  ASSUME CountInv, UNCHANGED list, NEW x \in ConsumerTokens, NEW t, IsToken(t),
         t.desired \in {Null, tok[x].desired} \/ ProducerCount > 0,
         tok' = [tok EXCEPT ![x] = t]
  PROVE  TokensOK'
  BY DEF CountInv, TokensOK, list

LEMMA SameTokens ==
  ASSUME CountInv, UNCHANGED <<list, owners, tok>>
  PROVE  TokensOK'
  BY DEF CountInv, TokensOK, list

\* Every node is counted before it is linked, so the count that is loaded after
\* the head covers what the head leads to.
LEMMA CountCovers ==
  ASSUME Inv, ListInv, CountInv, NEW h \in Linked \union {Null}
  PROVE  AtMostFrom(h, ProducerCount)
  <1>1. Cardinality(Linked) <= Cardinality(Made)
    BY NodesAssumption, FS_Subset DEF Linked, Made
  <1>2. Cardinality(Linked) <= ProducerCount
    <2>1. Cardinality(Made) \in Nat /\ Cardinality(Linked) \in Nat
      BY NodesAssumption, FS_Subset, FS_CardinalityType DEF Made, Linked
    <2> QED
      BY <1>1, <2>1 DEF CountInv, MadeCounted
  <1>3. Closed(Linked, h)
    BY DEF Closed, ListInv, Linked
  <1> QED
    BY <1>2, <1>3 DEF AtMostFrom

LEMMA HeadIsCounted ==
  ASSUME Inv, ListInv, CountInv, ProducerListsHead # Null
  PROVE  ProducerCount > 0
  <1>1. ProducerListsHead \in Made
    BY DEF ListInv, Linked, Made
  <1>2. IsFiniteSet(Made) /\ Cardinality(Made) \in Nat
    BY NodesAssumption, FS_Subset, FS_CardinalityType DEF Made
  <1>3. Cardinality(Made) # 0
    BY <1>1, <1>2, FS_EmptySet
  <1> QED
    BY <1>2, <1>3 DEF CountInv, MadeCounted

LEMMA CallStepCountInv ==
  ASSUME Inv, ListInv, CountInv, NEW c \in Consumers, CallStep(c)
  PROVE  CountInv'
  <1> DEFINE r == con[c]
  <1>1. UNCHANGED <<list, owners>>
    BY ConsumersLeaveOwners DEF ConsumerStep
  <1>2. CallOK(r) /\ MadeCounted'
    BY <1>1, ConsumerFrame DEF CountInv, CallsOK
  <1>3. ASSUME NEW s, CallOK(s), Goto(c, s), UNCHANGED tok
        PROVE  CountInv'
    BY <1>1, <1>2, <1>3, GotoOK, SameTokens DEF CountInv
  <1>4. ASSUME NEW s, Goto(c, s), UNCHANGED tok, s.step \in {"scan", "short", "idle"}
        PROVE  CountInv'
    BY <1>3, <1>4 DEF CallOK
  <1>5. ASSUME NEW s, Goto(c, s), UNCHANGED tok, IsWalk(s)
        PROVE  CountInv'
    BY <1>3, <1>5 DEF CallOK, IsWalk
  <1>6. ASSUME NEW s, Goto(c, s), UNCHANGED tok, IsTokenCall(s),
               s.step \in {"current", "ringHead", "ring"}
        PROVE  CountInv'
    BY <1>3, <1>6 DEF CallOK
  <1>7. CASE Scan(c)
    BY <1>4, <1>7 DEF Scan, rotation
  <1>8. CASE TryBest(c)
    <2>1. UNCHANGED tok
      BY <1>8 DEF TryBest, rotation
    <2>2. \/ \E s : Goto(c, s) /\ s.step \in {"short", "idle"}
          \/ \E s : Goto(c, s) /\ IsWalk(s)
      BY <1>8 DEF TryBest, NoCall, IsWalk
    <2> QED
      BY <1>4, <1>5, <2>1, <2>2
  <1>9. CASE Walk(c)
    <2>1. UNCHANGED tok /\ IsWalk(r)
      BY <1>2, <1>9 DEF Walk, rotation, CallOK
    <2>2. \A v, w : IsWalk([r EXCEPT !.at = v, !.want = w])
      BY <2>1 DEF IsWalk
    <2>3. \/ Goto(c, NoCall)
          \/ \E k : Goto(c, [r EXCEPT !.at = Next[r.at], !.want = r.want - k])
      BY <1>9 DEF Walk
    <2> QED
      BY <1>4, <1>5, <2>1, <2>2, <2>3 DEF NoCall
  <1>10. CASE UpdateHead(c)
    <2>1. r.step = "update" /\ IsTokenCall(r) /\ UNCHANGED tok
      BY <1>2, <1>10 DEF UpdateHead, CallOK, rotation
    <2>2. CASE Token(c).desired = Null /\ ProducerListsHead = Null
      BY <1>4, <1>10, <2>1, <2>2 DEF UpdateHead
    <2>3. CASE Token(c).desired # Null \/ ProducerListsHead # Null
      <3> DEFINE s == [r EXCEPT !.step = "count", !.head = ProducerListsHead]
      <3>1. Goto(c, s)
        BY <1>10, <2>3 DEF UpdateHead
      <3>2. IsTokenCall(s) /\ s.step = "count" /\ s.head = ProducerListsHead
        BY <2>1 DEF IsTokenCall
      <3>3. CASE Token(c).desired # Null
        <4>1. ProducerCount > 0
          BY <2>1, <3>3 DEF Token, IsTokenCall, CountInv, TokensOK
        <4> QED
          BY <1>3, <2>1, <3>1, <3>2, <4>1 DEF CallOK, ListInv
      <3>4. CASE ProducerListsHead # Null
        <4>1. ProducerCount > 0
          BY <3>4, HeadIsCounted
        <4> QED
          BY <1>3, <2>1, <3>1, <3>2, <4>1 DEF CallOK, ListInv
      <3> QED
        BY <2>3, <3>3, <3>4
    <2> QED
      BY <2>2, <2>3
  <1>11. CASE UpdateCount(c)
    <2>1. r.step = "count" /\ IsTokenCall(r) /\ UNCHANGED tok
      BY <1>2, <1>11 DEF UpdateCount, CallOK, rotation
    <2> DEFINE s == [r EXCEPT !.step = "offset", !.count = ProducerCount]
    <2>2. /\ IsTokenCall(s) /\ s.step = "offset" /\ s.count = ProducerCount
          /\ s.head = r.head
      BY <2>1 DEF IsTokenCall
    <2>3. Goto(c, s)
      BY <1>11 DEF UpdateCount
    <2> HIDE DEF s
    <2>4. /\ ProducerCount > 0 /\ ProducerCount \in Nat
          /\ AtMostFrom(r.head, ProducerCount)
      BY <1>2, <2>1, CountCovers DEF CallOK, CountInv, MadeCounted
    <2> QED
      BY <1>3, <2>1, <2>2, <2>3, <2>4 DEF CallOK
  <1>12. CASE UpdateProducer(c)
    <2>1. r.step = "offset" /\ IsTokenCall(r)
      BY <1>2, <1>12 DEF UpdateProducer, CallOK
    <2>2. ProducerCount > 0
      BY <1>2, <2>1 DEF CallOK, CountInv, MadeCounted
    <2> DEFINE s == [r EXCEPT !.step = "current", !.head = Null, !.count = 0]
    <2>3. IsTokenCall(s) /\ s.step = "current" /\ Goto(c, s)
      BY <1>12, <2>1 DEF IsTokenCall, UpdateProducer
    <2>4. PICK v, w : tok' = [tok EXCEPT ![r.token] =
             [@ EXCEPT !.desired = v, !.current = v, !.known = w, !.items = 0]]
      BY <1>12 DEF UpdateProducer
    <2> DEFINE t == [tok[r.token] EXCEPT !.desired = v, !.current = v, !.known = w,
                                         !.items = 0]
    <2>5. tok' = [tok EXCEPT ![r.token] = t] /\ r.token \in ConsumerTokens
      BY <2>1, <2>4 DEF IsTokenCall
    <2>6. IsToken(t)
      BY <2>5 DEF CountInv, TokensOK, IsToken
    <2> HIDE DEF t
    <2>7. TokensOK'
      BY <1>1, <2>2, <2>5, <2>6, TokenChange
    <2>8. CallsOK'
      BY <1>1, <2>3, GotoOK DEF CallOK
    <2> QED
      BY <1>2, <2>7, <2>8 DEF CountInv
  <1>13. CASE TryCurrent(c)
    <2>1. r.step = "current" /\ IsTokenCall(r)
      BY <1>2, <1>13 DEF TryCurrent, CallOK
    <2>2. PICK k : /\ tok' = [tok EXCEPT ![r.token].items = Consumed(@ + k)]
                   /\ Goto(c, IF k < r.want
                              THEN [r EXCEPT !.step = "ringHead", !.want = @ - k]
                              ELSE IF QuotaReached(Token(c).items + k, r.bulk)
                              THEN [step |-> "rotate"] ELSE NoCall)
      BY <1>13 DEF TryCurrent
    <2> DEFINE t == [tok[r.token] EXCEPT !.items = Consumed(@ + k)]
    <2>3. tok' = [tok EXCEPT ![r.token] = t] /\ r.token \in ConsumerTokens
      BY <2>1, <2>2 DEF IsTokenCall
    <2>4. IsToken(t) /\ t.desired = tok[r.token].desired
      BY <2>3 DEF CountInv, TokensOK, IsToken
    <2> HIDE DEF t
    <2>5. TokensOK'
      BY <1>1, <2>3, <2>4, TokenChange
    <2> DEFINE s == [r EXCEPT !.step = "ringHead", !.want = @ - k]
    <2>6. IsTokenCall(s) /\ s.step = "ringHead"
      BY <2>1 DEF IsTokenCall
    <2>7. Goto(c, s) \/ Goto(c, [step |-> "rotate"]) \/ Goto(c, NoCall)
      BY <2>2
    <2> HIDE DEF s
    <2>8. CallOK(s) /\ CallOK([step |-> "rotate"]) /\ CallOK(NoCall)
      BY <2>6 DEF CallOK, NoCall
    <2> QED
      BY <1>1, <1>2, <2>5, <2>7, <2>8, GotoOK DEF CountInv
  <1>14. CASE RingHead(c)
    <2>1. IsTokenCall(r) /\ UNCHANGED tok
      BY <1>2, <1>14 DEF RingHead, CallOK, rotation
    <2>2. \A v, w : LET s == [r EXCEPT !.step = "ring", !.head = v, !.at = w]
                    IN  IsTokenCall(s) /\ s.step = "ring"
      BY <2>1 DEF IsTokenCall
    <2> QED
      BY <1>6, <1>14, <2>1, <2>2 DEF RingHead
  <1>15. CASE Ring(c)
    <2>1. r.step = "ring" /\ IsTokenCall(r)
      BY <1>2, <1>15 DEF Ring, CallOK
    <2>2. PICK k : /\ \/ UNCHANGED tok
                      \/ tok' = [tok EXCEPT ![r.token] =
                             [@ EXCEPT !.current = r.at, !.items = Consumed(k)]]
                   /\ \/ Goto(c, NoCall)
                      \/ Goto(c, [r EXCEPT !.want = @ - k, !.at = RingAfter(c)])
      BY <1>15 DEF Ring
    <2> DEFINE t == [tok[r.token] EXCEPT !.current = r.at, !.items = Consumed(k)]
    <2>3. r.token \in ConsumerTokens /\ IsToken(t) /\ t.desired = tok[r.token].desired
      BY <2>1 DEF CountInv, TokensOK, IsToken, IsTokenCall
    <2>4. UNCHANGED tok \/ tok' = [tok EXCEPT ![r.token] = t]
      BY <2>2
    <2> HIDE DEF t
    <2>5. TokensOK'
      BY <1>1, <2>3, <2>4, TokenChange, SameTokens
    <2> DEFINE s == [r EXCEPT !.want = @ - k, !.at = RingAfter(c)]
    <2>6. IsTokenCall(s) /\ s.step = "ring"
      BY <2>1 DEF IsTokenCall
    <2>7. Goto(c, s) \/ Goto(c, NoCall)
      BY <2>2
    <2> HIDE DEF s
    <2>8. CallOK(s) /\ CallOK(NoCall)
      BY <2>6 DEF CallOK, NoCall
    <2> QED
      BY <1>1, <1>2, <2>5, <2>7, <2>8, GotoOK DEF CountInv
  <1>16. CASE WalkEnds(c) \/ Rotate(c) \/ RingEnds(c) \/ ReturnShort(c)
    BY <1>4, <1>16 DEF WalkEnds, Rotate, RingEnds, ReturnShort, rotation, NoCall
  <1> QED
    BY <1>7, <1>8, <1>9, <1>10, <1>11, <1>12, <1>13, <1>14, <1>15, <1>16
    DEF CallStep

LEMMA ConsumerCountInv ==
  ASSUME Inv, ListInv, CountInv, NEW c \in Consumers, ConsumerStep(c)
  PROVE  CountInv'
  <1>1. UNCHANGED <<list, owners>>
    BY ConsumersLeaveOwners
  <1>2. MadeCounted'
    BY <1>1, ConsumerFrame
  <1>3. ASSUME NEW s, CallOK(s), Goto(c, s), UNCHANGED tok
        PROVE  CountInv'
    BY <1>1, <1>2, <1>3, GotoOK, SameTokens DEF CountInv
  <1>4. ASSUME UNCHANGED con PROVE CallsOK'
    BY <1>1, <1>4, ConsumerFrame DEF CountInv, CallsOK
  <1>5. CASE CallStep(c)
    BY <1>5, CallStepCountInv
  <1>6. CASE TokenCall(c)
    <2>x. PICK x \in TokensOf[c] : \E want, bulk : BeginToken(c, x, want, bulk)
      BY <1>6 DEF TokenCall
    <2>1. PICK want, bulk : BeginToken(c, x, want, bulk)
      BY <2>x
    <2> DEFINE s == [step |-> IF tok[x].desired = Null \/ tok[x].known # GlobalOffset
                              THEN "update" ELSE "current",
                     token |-> x, want |-> want, bulk |-> bulk,
                     head |-> Null, count |-> 0, at |-> Null]
    <2>2. Goto(c, s) /\ UNCHANGED tok
      BY <2>1 DEF BeginToken, rotation
    <2>3. IsTokenCall(s) /\ s.step \in {"update", "current"}
      BY DEF IsTokenCall, ConsumerTokens
    <2> HIDE DEF s
    <2> QED
      BY <1>3, <2>2, <2>3 DEF CallOK
  <1>7. CASE \E x \in TokensOf[c] : MakeToken(c, x)
    <2>1. PICK x \in TokensOf[c] : MakeToken(c, x)
      BY <1>7
    <2> DEFINE t == [valid |-> TRUE, initial |-> NextId, known |-> OffsetSize - 1,
                     items |-> 0, current |-> Null, desired |-> Null]
    <2>2. tok' = [tok EXCEPT ![x] = t] /\ x \in ConsumerTokens /\ UNCHANGED con
      BY <2>1 DEF MakeToken, ConsumerTokens
    <2>3. IsToken(t) /\ t.desired = Null
      BY DEF IsToken
    <2> HIDE DEF t
    <2> QED
      BY <1>1, <1>2, <1>4, <2>2, <2>3, TokenChange DEF CountInv
  <1>8. CASE BeginScan(c)
    BY <1>3, <1>8 DEF BeginScan, rotation, CallOK
  <1>9. CASE \E want \in Wants \union {1} : BeginWalk(c, want)
    <2>1. PICK s : Goto(c, s) /\ IsWalk(s) /\ UNCHANGED tok
      BY <1>9 DEF BeginWalk, IsWalk, rotation
    <2> QED
      BY <1>3, <2>1 DEF CallOK, IsWalk
  <1>10. CASE \E want \in Wants \union {1}, o \in Tokens : TakeFrom(c, o, want)
    BY <1>1, <1>2, <1>4, <1>10, SameTokens DEF TakeFrom, rotation, CountInv
  <1>11. CASE \E x, y \in TokensOf[c] : x # y /\ SwapTokens(c, x, y)
    <2>1. PICK x, y \in TokensOf[c] : x # y /\ SwapTokens(c, x, y)
      BY <1>11
    <2> DEFINE Mixed(a, b) == [a EXCEPT !.initial = b.initial, !.known = b.known,
                                        !.current = b.current]
    <2>2. /\ tok' = [tok EXCEPT ![x] = Mixed(tok[x], tok[y]),
                                ![y] = Mixed(tok[y], tok[x])]
          /\ UNCHANGED con
      BY <2>1 DEF SwapTokens
    <2>3. \A a, b : IsToken(a) =>
             IsToken(Mixed(a, b)) /\ Mixed(a, b).desired = a.desired
      BY DEF IsToken
    <2> HIDE DEF Mixed
    <2>4. TokensOK'
      <3>1. x \in ConsumerTokens /\ y \in ConsumerTokens
        BY DEF ConsumerTokens
      <3>2. /\ IsToken(tok[x]) /\ IsToken(tok[y])
            /\ tok = [z \in ConsumerTokens |-> tok[z]]
        BY <3>1 DEF CountInv, TokensOK
      <3>3. tok' = [z \in ConsumerTokens |->
                       IF z = y THEN Mixed(tok[y], tok[x])
                       ELSE IF z = x THEN Mixed(tok[x], tok[y]) ELSE tok[z]]
        BY <2>2, <3>1, <3>2
      <3>4. ASSUME NEW z \in ConsumerTokens
            PROVE  IsToken(tok'[z]) /\ tok'[z].desired = tok[z].desired
        BY <2>3, <3>1, <3>2, <3>3 DEF CountInv, TokensOK
      <3> QED
        BY <1>1, <3>3, <3>4 DEF CountInv, TokensOK, list
    <2> QED
      BY <1>2, <1>4, <2>2, <2>4 DEF CountInv
  <1> QED
    BY <1>5, <1>6, <1>7, <1>8, <1>9, <1>10, <1>11 DEF ConsumerStep

LEMMA NextCountInv ==
  ASSUME Inv, ListInv, CountInv, [NextStep]_vars
  PROVE  CountInv'
  <1>1. Linked \subseteq Linked'
    BY NextListInv
  <1>2. CASE \E o \in Owners : OwnerStep(o)
    <2>1. PICK o \in Owners : OwnerStep(o)
      BY <1>2
    <2>2. UNCHANGED <<tok, con>>
      BY <2>1 DEF OwnerStep, BeginSearch, Look, ClaimNode, CreateNode, Link, Push, rotation
    <2>3. \A n \in Linked : Next'[n] = Next[n]
      BY <2>1 DEF OwnerStep, BeginSearch, Look, ClaimNode, CreateNode, Link, Push, list,
                  Linked, Pending, Inv, OwnersTypeOK
    <2>4. \/ UNCHANGED <<Type, ProducerCount>>
          \/ \E n \in Nodes, t \in {"Explicit", "Implicit"} :
                /\ Type' = [Type EXCEPT ![n] = t]
                /\ ProducerCount' = ProducerCount + 1
      BY <2>1 DEF OwnerStep, BeginSearch, Look, ClaimNode, CreateNode, Link, Push, list,
                  TypeOf
    <2> QED
      BY <1>1, <2>2, <2>3, <2>4, OwnersCountInv
  <1>3. CASE \E c \in Consumers : ConsumerStep(c)
    BY <1>3, ConsumerCountInv
  <1>4. CASE UNCHANGED <<list, tok, con>>
    BY <1>1, <1>4, OwnersCountInv DEF list
  <1> QED
    BY <1>2, <1>3, <1>4
    DEF NextStep, vars, rotation, owners, DestroyToken, Enqueue, MoveToken

\* A consumer that goes round never divides by zero and never takes a count of
\* producers below what its head leads to, however many are made in between.
THEOREM CountCovered == Spec => []CountCoversList
  <1>1. Spec => [](Inv /\ ListInv /\ CountInv)
    <2>1. Init => Inv /\ ListInv /\ CountInv
      BY InitInv, InitListInv, InitCountInv
    <2>2. Inv /\ ListInv /\ CountInv /\ [NextStep]_vars => (Inv /\ ListInv /\ CountInv)'
      BY NextInv, NextListInv, NextCountInv
    <2> QED
      BY <2>1, <2>2, PTL DEF Spec
  <1>2. Inv /\ ListInv /\ CountInv => CountCoversList
    <2> SUFFICES ASSUME CountInv, NEW c \in Consumers, con[c].step = "offset"
                 PROVE  /\ con[c].count >= Cardinality(ListFrom(con[c].head))
                        /\ con[c].count > 0
      BY DEF CountCoversList
    <2>1. PICK S \in SUBSET Linked :
             /\ Closed(S, con[c].head) /\ Cardinality(S) <= con[c].count
             /\ con[c].count \in Nat /\ con[c].count > 0
      BY DEF CountInv, CallsOK, CallOK, AtMostFrom
    <2>2. IsFiniteSet(S) /\ ListFrom(con[c].head) \subseteq S
      BY <2>1, NodesAssumption, FS_Subset DEF ListFrom, Linked
    <2>3. /\ Cardinality(ListFrom(con[c].head)) <= Cardinality(S)
          /\ Cardinality(ListFrom(con[c].head)) \in Nat /\ Cardinality(S) \in Nat
      BY <2>2, FS_Subset, FS_CardinalityType
    <2> QED
      BY <2>1, <2>3
  <1> QED
    BY <1>1, <1>2, PTL

-----------------------------------------------------------------------------
(* Looking for items *)

\* Every way down the list ends.
Acyclic == \A S \in SUBSET Linked : S # {} => \E n \in S : Next[n] \notin S

\* A set that has all nodes from at on, round a ring that begins at head, before
\* last; and the nodes on that way: the smallest such set.
ClosedRing(S, at, head, last) ==
    /\ at = last \/ at \in S
    /\ \A n \in S : After(n, head) \in S \union {last}
RingFrom(at, head, last) ==
    {n \in Nodes : \A S \in SUBSET Nodes : ClosedRing(S, at, head, last) => n \in S}

\* A token that has no producer knows an offset no call begins at.
TokenKnows(t) ==
    /\ t.initial \in Nat /\ t.known \in Nat
    /\ {t.desired, t.current} \subseteq Linked \union {Null}
    /\ t.valid /\ t.current = Null => t.known = OffsetSize - 1

TokenSteps == {"update", "count", "offset", "current", "ringHead", "ring"}

\* What a call of consumer c in r has found.
Knows(c, r) ==
    /\ r.step \in TokenSteps => r.token \in TokensOf[c] /\ r.want \in Nat
    /\ r.step \in {"count", "offset", "ring"} => r.head \in Linked
    /\ r.step \in {"current", "ringHead"} => tok[r.token].current \in Linked
    /\ r.step = "ring" => {r.at, tok[r.token].current} \subseteq ListFrom(r.head)
    /\ r.step = "scan" =>
          /\ {r.at, r.best} \subseteq Linked \union {Null}
          /\ r.bestSize \in Nat /\ r.seen \in Nat
          /\ r.best = Null => r.bestSize = 0 /\ r.seen = 0
    /\ r.step = "walk" => r.at \in Linked \union {Null} /\ r.want \in Nat

\* The producers in M, that a call in r would miss, are still before it.
Misses(r, M) ==
    /\ r.step = "scan" /\ r.best = Null => M \subseteq ListFrom(r.at)
    /\ r.step = "walk" => M \subseteq ListFrom(r.at) \ {r.skip}
    /\ r.step = "ringHead" => tok[r.token].current \notin M
    /\ r.step = "ring" => M \subseteq RingFrom(r.at, r.head, tok[r.token].current)
    /\ r.step = "short" => M = {}

LookInv ==
    /\ Acyclic
    /\ size \in [Nodes -> Nat] /\ GlobalOffset \in Nat /\ NextId \in Nat
    /\ \A x \in ConsumerTokens : TokenKnows(tok[x])
    /\ \A c \in Consumers :
          Knows(c, con[c]) /\ missed[c] \subseteq Linked /\ Misses(con[c], missed[c])

\* A non-empty set of numbers has a least one.
LEMMA Least ==
  ASSUME NEW T, T \subseteq Nat, T # {}
  PROVE  \E x \in T : \A y \in T : x <= y
  <1>1. \A a, b \in Nat : a < b => <<a, b>> \in OpToRel(<, Nat)
    BY DEF OpToRel
  <1>2. PICK R : IsWellFoundedOn(R, Nat) /\ \A a, b \in Nat : a < b => <<a, b>> \in R
    BY <1>1, NatLessThanWellFounded
  <1>3. PICK x \in T : \A y \in T : ~(<<y, x>> \in R)
    <2>1. IsWellFoundedOn(R, Nat)
      BY <1>2
    <2> QED
      BY <2>1, WFMin
  <1>4. ASSUME NEW y \in T PROVE x <= y
    <2>1. y \in Nat /\ x \in Nat /\ ~(<<y, x>> \in R)
      BY <1>3
    <2> QED
      BY <1>2, <2>1
  <1> QED
    BY <1>4

LEMMA ListedIsLinked ==
  ASSUME ListInv
  PROVE  Listed = Linked
  <1>1. Closed(Linked, ProducerListsHead) /\ Linked \in SUBSET Nodes
    BY DEF ListInv, Closed, Linked
  <1> QED
    BY <1>1 DEF ListInv, Listed, ListFrom

LEMMA ListFromLinked ==
  ASSUME ListInv, NEW h \in Linked
  PROVE  /\ ListFrom(h) \subseteq Linked /\ h \in ListFrom(h)
         /\ \A n \in ListFrom(h) : After(n, h) \in ListFrom(h)
  <1>1. Closed(Linked, h) /\ Linked \in SUBSET Nodes
    BY DEF ListInv, Closed, Linked
  <1>2. h # Null /\ h \in Nodes
    BY NodesAssumption DEF Linked
  <1>3. ListFrom(h) \subseteq Linked /\ h \in ListFrom(h)
    BY <1>1, <1>2 DEF ListFrom, Closed
  <1>4. ASSUME NEW n \in ListFrom(h), Next[n] # Null
        PROVE  Next[n] \in ListFrom(h)
    <2>1. n \in Nodes /\ Next[n] \in Nodes
      BY <1>4 DEF ListFrom, ListInv, Linked
    <2>2. \A S \in SUBSET Nodes : Closed(S, h) => Next[n] \in S
      BY <1>4 DEF ListFrom, Closed
    <2> QED
      BY <2>1, <2>2 DEF ListFrom
  <1> QED
    BY <1>3, <1>4 DEF After

LEMMA NothingFromNull == ListFrom(Null) = {}
  <1>1. Closed({}, Null) /\ {} \in SUBSET Nodes
    BY DEF Closed
  <1> QED
    BY <1>1 DEF ListFrom

\* What is left of the way when its first node is done with.
LEMMA ListRest ==
  ASSUME NEW n \in Nodes
  PROVE  ListFrom(n) \ {n} \subseteq ListFrom(Next[n])
  <1> SUFFICES ASSUME NEW m \in ListFrom(n) \ {n}, NEW S \in SUBSET Nodes,
                      Closed(S, Next[n])
               PROVE  m \in S
    BY DEF ListFrom
  <1>1. Closed(S \union {n}, n) /\ S \union {n} \in SUBSET Nodes
    BY DEF Closed
  <1> QED
    BY <1>1 DEF ListFrom

LEMMA RingRest ==
  ASSUME NEW n \in Nodes, NEW h, NEW last
  PROVE  RingFrom(n, h, last) \ {n} \subseteq RingFrom(After(n, h), h, last)
  <1> SUFFICES ASSUME NEW m \in RingFrom(n, h, last) \ {n}, NEW S \in SUBSET Nodes,
                      ClosedRing(S, After(n, h), h, last)
               PROVE  m \in S
    BY DEF RingFrom
  <1>1. ClosedRing(S \union {n}, n, h, last) /\ S \union {n} \in SUBSET Nodes
    BY DEF ClosedRing
  <1> QED
    BY <1>1 DEF RingFrom

LEMMA RingEndsAtLast ==
  ASSUME NEW h, NEW last
  PROVE  RingFrom(last, h, last) = {}
  <1>1. ClosedRing({}, last, h, last) /\ {} \in SUBSET Nodes
    BY DEF ClosedRing
  <1> QED
    BY <1>1 DEF RingFrom

\* A way round the ring stays in it, and begun after its last node comes by all.
LEMMA RingInList ==
  ASSUME ListInv, NEW h \in Linked, NEW at \in ListFrom(h), NEW last
  PROVE  RingFrom(at, h, last) \subseteq ListFrom(h)
  <1>1. ClosedRing(ListFrom(h), at, h, last) /\ ListFrom(h) \in SUBSET Nodes
    BY ListFromLinked DEF ClosedRing, ListFrom
  <1> QED
    BY <1>1 DEF RingFrom

LEMMA RingCoversList ==
  ASSUME ListInv, Acyclic, NEW h \in Linked, NEW last \in Linked
  PROVE  ListFrom(h) \ {last} \subseteq RingFrom(After(last, h), h, last)
  <1> SUFFICES ASSUME NEW m \in ListFrom(h) \ {last}, NEW S \in SUBSET Nodes,
                      ClosedRing(S, After(last, h), h, last)
               PROVE  m \in S
    BY DEF RingFrom, ListFrom
  <1> DEFINE T == S \union {last}
  <1>1. \A n \in T : After(n, h) \in T
    BY DEF ClosedRing
  <1>2. T \in SUBSET Nodes
    BY DEF Linked
  <1>3. PICK n \in T \intersect Linked : Next[n] \notin T \intersect Linked
    BY DEF Acyclic
  <1>4. Next[n] = Null
    <2>1. Next[n] \in Linked \union {Null}
      BY <1>2, <1>3 DEF ListInv
    <2>2. Next[n] # Null => Next[n] \in T
      BY <1>1, <1>3 DEF After
    <2> QED
      BY <1>3, <2>1, <2>2
  <1>5. h \in T
    BY <1>1, <1>3, <1>4 DEF After
  <1>6. Closed(T, h)
    BY <1>1, <1>5 DEF Closed, After
  <1> QED
    BY <1>2, <1>6 DEF ListFrom

LEMMA StepsDef ==
  ASSUME NEW n, NEW head, NEW k \in Nat,
         NEW g, g = [i \in 0 .. k |-> IF i = 0 THEN n ELSE After(g[i - 1], head)]
  PROVE  \E f : /\ Steps(n, head, k) = f[k]
               /\ f = [i \in 0 .. k |-> IF i = 0 THEN n ELSE After(f[i - 1], head)]
  BY Zenon DEF Steps

\* A number of steps round the ring leads to a node of it.
LEMMA StepsInRing ==
  ASSUME NEW S, NEW head, \A m \in S : After(m, head) \in S, NEW n \in S, NEW k \in Nat
  PROVE  Steps(n, head, k) \in S
  <1> DEFINE Def(f, j) == f = [i \in 0 .. j |-> IF i = 0 THEN n ELSE After(f[i - 1], head)]
             P(j) == \E f : Def(f, j) /\ \A i \in 0 .. j : f[i] \in S
  <1>1. P(0)
    <2> DEFINE f == [i \in 0 .. 0 |-> n]
    <2>1. Def(f, 0) /\ \A i \in 0 .. 0 : f[i] \in S
      OBVIOUS
    <2> QED
      BY <2>1
  <1>2. ASSUME NEW j \in Nat, P(j) PROVE P(j + 1)
    <2>1. PICK f : Def(f, j) /\ \A i \in 0 .. j : f[i] \in S
      BY <1>2
    <2> DEFINE g == [i \in 0 .. (j + 1) |-> IF i = j + 1 THEN After(f[j], head) ELSE f[i]]
    <2>2. \A i \in 0 .. (j + 1) : g[i] = IF i = 0 THEN n ELSE After(g[i - 1], head)
      <3> SUFFICES ASSUME NEW i \in 0 .. (j + 1)
                   PROVE  g[i] = IF i = 0 THEN n ELSE After(g[i - 1], head)
        OBVIOUS
      <3>1. CASE i = j + 1
        <4>1. g[i] = After(f[j], head) /\ g[i - 1] = f[j] /\ i # 0
          BY <3>1
        <4> QED
          BY <4>1
      <3>2. CASE i # j + 1
        <4>1. i \in 0 .. j /\ g[i] = f[i]
          BY <3>2
        <4>2. f[i] = IF i = 0 THEN n ELSE After(f[i - 1], head)
          BY <2>1, <4>1
        <4>3. i # 0 => g[i - 1] = f[i - 1]
          BY <4>1
        <4> QED
          BY <4>1, <4>2, <4>3
      <3> QED
        BY <3>1, <3>2
    <2>3. Def(g, j + 1)
      BY <2>2
    <2>4. \A i \in 0 .. (j + 1) : g[i] \in S
      BY <2>1
    <2> QED
      BY <2>3, <2>4
  <1>3. \A j \in Nat : P(j)
    <2> HIDE DEF P
    <2> DEFINE T == {j \in Nat : ~P(j)}
    <2> SUFFICES ASSUME T # {} PROVE FALSE
      OBVIOUS
    <2>1. PICK j \in T : \A i \in T : j <= i
      BY Least
    <2>2. j # 0 /\ j \in Nat /\ ~P(j)
      BY <1>1
    <2>3. j - 1 \in Nat /\ j - 1 \notin T
      BY <2>1, <2>2
    <2>4. P((j - 1) + 1)
      BY <1>2, <2>3
    <2> QED
      BY <2>2, <2>4
  <1>4. PICK f : Steps(n, head, k) = f[k] /\ Def(f, k)
    <2>1. PICK g : Def(g, k)
      BY <1>3
    <2> QED
      BY <2>1, StepsDef
  <1>5. Def(f, k)
    BY <1>4
  <1>6. \A j \in 0 .. k : f[j] \in S
    <2> DEFINE T == {j \in 0 .. k : f[j] \notin S}
    <2> SUFFICES ASSUME T # {} PROVE FALSE
      OBVIOUS
    <2>0. T \subseteq Nat
      OBVIOUS
    <2>1. PICK j \in T : \A i \in T : j <= i
      <3> HIDE DEF T
      <3> QED
        BY <2>0, Least
    <2>2. f[j] = IF j = 0 THEN n ELSE After(f[j - 1], head)
      BY <1>5, <2>1
    <2>3. j # 0 /\ j - 1 \in 0 .. k /\ j - 1 \notin T
      BY <2>1, <2>2
    <2> QED
      BY <2>1, <2>2, <2>3
  <1> QED
    BY <1>4, <1>6

LEMMA AndIsNat ==
  ASSUME NEW a, NEW b \in Nat
  PROVE  And(a, b) \in Nat
  <1> DEFINE S == {0} \union {r \in 1 .. b : Bits(r) \subseteq Bits(a) \intersect Bits(b)}
             T == {b - r : r \in S}
  <1>1. T \subseteq Nat /\ T # {}
    OBVIOUS
  <1>2. PICK t \in T : \A u \in T : t <= u
    BY <1>1, Least
  <1>3. PICK r \in S : t = b - r
    OBVIOUS
  <1>4. \A s \in S : s \in Nat /\ b - s \in T
    OBVIOUS
  <1> HIDE DEF S, T
  <1>5. \A s \in S : r >= s
    BY <1>2, <1>3, <1>4
  <1>6. Max(S) \in S
    BY <1>5 DEF Max
  <1> QED
    BY <1>4, <1>6 DEF And, S

-----------------------------------------------------------------------------
\* What the list may do in a step: nodes are linked, and those that were linked
\* keep their Next.
Grows == Linked \subseteq Linked' /\ \A n \in Linked : Next'[n] = Next[n]

LEMMA ListFromGrows ==
  ASSUME ListInv, Grows, NEW h \in Linked \union {Null}
  PROVE  ListFrom(h) \subseteq ListFrom(h)'
  <1> SUFFICES ASSUME NEW m \in ListFrom(h), NEW S \in SUBSET Nodes, Closed(S, h)'
               PROVE  m \in S
    BY DEF ListFrom
  <1> DEFINE T == S \intersect Linked
  <1>1. Closed(T, h) /\ T \in SUBSET Nodes
    <2>1. h = Null \/ h \in T
      BY DEF Closed
    <2>2. ASSUME NEW n \in T PROVE Next[n] \in T \union {Null}
      <3>1. Next[n] \in S \union {Null}
        BY <2>2 DEF Closed, Grows
      <3>2. Next[n] \in Linked \union {Null}
        BY DEF ListInv
      <3> QED
        BY <3>1, <3>2
    <2> QED
      BY <2>1, <2>2 DEF Closed
  <1> QED
    BY <1>1 DEF ListFrom

LEMMA RingFromGrows ==
  ASSUME ListInv, Grows, NEW at \in Linked, NEW h \in Linked, NEW last \in Linked
  PROVE  RingFrom(at, h, last) \subseteq RingFrom(at, h, last)'
  <1> SUFFICES ASSUME NEW m \in RingFrom(at, h, last), NEW S \in SUBSET Nodes,
                      ClosedRing(S, at, h, last)'
               PROVE  m \in S
    BY DEF RingFrom
  <1> DEFINE T == S \intersect Linked
  <1>1. ClosedRing(T, at, h, last) /\ T \in SUBSET Nodes
    <2>1. at = last \/ at \in T
      BY DEF ClosedRing
    <2>2. ASSUME NEW n \in T PROVE After(n, h) \in T \union {last}
      <3>1. After(n, h) \in S \union {last}
        BY <2>2 DEF ClosedRing, Grows, After
      <3>2. After(n, h) \in Linked
        BY DEF ListInv, After
      <3> QED
        BY <3>1, <3>2
    <2> QED
      BY <2>1, <2>2 DEF ClosedRing
  <1> QED
    BY <1>1 DEF RingFrom

\* A node is linked to one that is in the list, never to itself.
LEMMA AcyclicGrows ==
  ASSUME ListInv, Acyclic, Grows, NEW p, p \notin Linked, p # Null, Next'[p] # p,
         Linked' \subseteq Linked \union {p}
  PROVE  Acyclic'
  <1> SUFFICES ASSUME NEW S \in SUBSET (Linked'), S # {}
               PROVE  \E n \in S : Next'[n] \notin S
    BY DEF Acyclic
  <1>1. CASE S \subseteq {p}
    BY <1>1
  <1>2. CASE ~(S \subseteq {p})
    <2>1. PICK n \in S \ {p} : Next[n] \notin S \ {p}
      <3>1. S \ {p} # {} /\ S \ {p} \in SUBSET Linked
        BY <1>2
      <3> QED
        BY <3>1 DEF Acyclic
    <2>2. n \in Linked /\ Next'[n] = Next[n]
      BY DEF Grows
    <2>3. Next[n] # p
      BY <2>2 DEF ListInv, Linked
    <2> QED
      BY <2>1, <2>2, <2>3
  <1> QED
    BY <1>1, <1>2

LEMMA AcyclicStays ==
  ASSUME Acyclic, Linked' = Linked, \A n \in Linked : Next'[n] = Next[n]
  PROVE  Acyclic'
  <1> SUFFICES ASSUME NEW S \in SUBSET Linked, S # {}
               PROVE  \E n \in S : Next'[n] \notin S
    BY DEF Acyclic
  <1> QED
    BY DEF Acyclic

LEMMA KnowsStays ==
  ASSUME ListInv, Grows, NEW c, NEW r, Knows(c, r),
         r.step \in TokenSteps => tok'[r.token] = tok[r.token]
  PROVE  Knows(c, r)'
  <1>1. Linked \subseteq Linked'
    BY DEF Grows
  <1>2. r.step = "ring" =>
           ListFrom(r.head) \subseteq ListFrom(r.head)'
    BY ListFromGrows DEF Knows
  <1> QED
    BY <1>1, <1>2 DEF Knows, TokenSteps

LEMMA MissesStays ==
  ASSUME ListInv, Grows, NEW c, NEW r, Knows(c, r),
         r.step \in TokenSteps => tok'[r.token] = tok[r.token],
         NEW M, NEW N, Misses(r, M), N \subseteq M
  PROVE  Misses(r, N)'
  <1>1. r.step \in {"scan", "walk"} => ListFrom(r.at) \subseteq ListFrom(r.at)'
    BY ListFromGrows DEF Knows
  <1>2. ASSUME r.step = "ring"
        PROVE  N \subseteq RingFrom(r.at, r.head, tok[r.token].current)'
    <2>1. {r.at, tok[r.token].current, r.head} \subseteq Linked
      BY <1>2, ListFromLinked DEF Knows
    <2>2. PICK l : l = tok[r.token].current
      OBVIOUS
    <2>3. l = tok'[r.token].current
      BY <1>2, <2>2 DEF TokenSteps
    <2>4. RingFrom(r.at, r.head, l) \subseteq RingFrom(r.at, r.head, l)'
      BY <2>1, <2>2, RingFromGrows
    <2>5. N \subseteq RingFrom(r.at, r.head, l)'
      BY <1>2, <2>2, <2>4 DEF Misses
    <2> QED
      BY <2>2, <2>3, <2>5
  <1> QED
    BY <1>1, <1>2 DEF Misses, TokenSteps

-----------------------------------------------------------------------------
LEMMA InitLookInv == Init => LookInv
  <1> SUFFICES ASSUME Init PROVE LookInv
    OBVIOUS
  <1>1. Linked = {}
    BY DEF Init, Linked
  <1>2. Acyclic
    BY <1>1 DEF Acyclic
  <1>3. TokenKnows(NoToken) /\ \A c : Knows(c, NoCall) /\ Misses(NoCall, {})
    BY DEF TokenKnows, NoToken, Knows, NoCall, Misses, TokenSteps
  <1>4. \A x \in ConsumerTokens : tok[x] = NoToken
    BY DEF Init
  <1>5. \A c \in Consumers : con[c] = NoCall /\ missed[c] = {}
    BY DEF Init
  <1> QED
    BY <1>2, <1>3, <1>4, <1>5 DEF LookInv, Init

\* What a step that ends with M missed in c's call says of M.
LEMMA Observed ==
  ASSUME Observe, NEW c \in Consumers
  PROVE  \E M : /\ M = missed'[c]
                /\ M # {} => /\ con'[c].step # "idle"
                             /\ \A d \in Consumers \ {c} : con'[d].step = "idle"
                /\ M \subseteq IF InCall(c) THEN missed[c] ELSE Listed
                /\ \A n \in M : size'[n] > 0
  <1> DEFINE Before == IF InCall(c) THEN missed[c] ELSE Listed
             M == {n \in Before : size[n] > 0 /\ size'[n] > 0}
             None == con'[c].step = "idle" \/ \E d \in Consumers \ {c} : con'[d].step # "idle"
  <1>1. missed'[c] = IF None THEN {} ELSE M
    BY DEF Observe
  <1> QED
    BY <1>1

\* A step that leaves the calls and tokens of all consumers alone.
LEMMA OwnersLook ==
  ASSUME Inv, ListInv, LookInv, Observe, Grows, Acyclic',
         UNCHANGED <<tok, con, GlobalOffset, NextId>>, size' \in [Nodes -> Nat]
  PROVE  LookInv'
  <1>1. ASSUME NEW x \in ConsumerTokens PROVE TokenKnows(tok[x])'
    BY <1>1 DEF TokenKnows, LookInv, Grows
  <1>2. ASSUME NEW c \in Consumers
        PROVE  Knows(c, con[c])' /\ (missed[c] \subseteq Linked)' /\ Misses(con[c], missed[c])'
    <2>1. PICK r : r = con[c]
      OBVIOUS
    <2>2. PICK M : M = missed[c]
      OBVIOUS
    <2>3. PICK N : /\ N = missed'[c]
                   /\ r.step = "idle" => N = {}
                   /\ N \subseteq IF InCall(c) THEN M ELSE Listed
      BY <2>1, <2>2, Observed
    <2>4. Knows(c, r) /\ Misses(r, M) /\ M \subseteq Linked
      BY <2>1, <2>2 DEF LookInv
    <2>5. N \subseteq M
      BY <2>1, <2>3 DEF InCall
    <2>9. r.step \in TokenSteps => tok'[r.token] = tok[r.token]
      OBVIOUS
    <2>6. Knows(c, r)' /\ Misses(r, N)'
      <3>1. Knows(c, r)'
        BY <2>4, <2>9, KnowsStays
      <3> QED
        BY <2>4, <2>5, <2>9, <3>1, MissesStays
    <2>7. N \subseteq Linked'
      BY <2>4, <2>5 DEF Grows
    <2>8. con'[c] = r
      BY <2>1
    <2> QED
      BY <2>3, <2>6, <2>7, <2>8
  <1> QED
    BY <1>1, <1>2 DEF LookInv

LEMMA OwnerStepLook ==
  ASSUME Inv, ListInv, LookInv, Observe, NEW o \in Owners, OwnerStep(o)
  PROVE  LookInv'
  <1>1. /\ UNCHANGED <<tok, con, GlobalOffset, NextId, size>>
        /\ \A n \in Linked : Next'[n] = Next[n]
    BY DEF OwnerStep, BeginSearch, Look, ClaimNode, CreateNode, Link, Push, rotation,
           list, Linked, Pending, Inv, OwnersTypeOK
  <1>2. Linked \subseteq Linked'
    BY SearchListInv, LinkListInv, PushListInv DEF OwnerStep
  <1>3. Grows
    BY <1>1, <1>2 DEF Grows
  <1>4. Acyclic'
    <2>1. CASE Linked' = Linked
      BY <1>1, <2>1, AcyclicStays DEF LookInv
    <2>2. CASE Linked' # Linked
      <3>1. Push(o)
        BY <2>2, SearchListInv, LinkListInv DEF OwnerStep
      <3> DEFINE p == po[o].node
      <3>2. po[o] \in [step : {"push"}, node : Nodes] /\ p \notin Linked
        BY <3>1 DEF Push, Inv, OwnersTypeOK, Searches, NoCall, Linked, Pending
      <3>3. Linked' \subseteq Linked \union {p}
        <4>1. UNCHANGED Type /\ \A q \in Owners \ {o} : po'[q] = po[q]
          BY <3>1 DEF Push, Got, Inv, OwnersTypeOK
        <4> QED
          BY <3>2, <4>1 DEF Linked, Pending
      <3>4. ProducerListsHead = Next[p]
        <4> SUFFICES ASSUME ProducerListsHead # Next[p] PROVE Linked' = Linked
          BY <2>2
        <4>1. po' = [po EXCEPT ![o] = [step |-> "link", node |-> p]] /\ UNCHANGED Type
          BY <3>1, <3>2 DEF Push
        <4> QED
          BY <3>2, <4>1 DEF Linked, Pending, Inv, OwnersTypeOK
      <3>5. Next'[p] # p /\ p # Null
        BY <3>1, <3>2, <3>4, NodesAssumption DEF Push, ListInv
      <3> HIDE DEF p
      <3> QED
        BY <1>3, <3>2, <3>3, <3>5, AcyclicGrows DEF LookInv
    <2> QED
      BY <2>1, <2>2
  <1>5. size' \in [Nodes -> Nat]
    BY <1>1 DEF LookInv
  <1> QED
    BY <1>1, <1>3, <1>4, <1>5, OwnersLook

LEMMA OtherOwnerLook ==
  ASSUME Inv, ListInv, LookInv, Observe,
         \/ \E o \in Owners : DestroyToken(o) \/ Enqueue(o)
         \/ \E o, q \in Tokens : MoveToken(o, q)
  PROVE  LookInv'
  <1>1. /\ UNCHANGED <<tok, con, GlobalOffset, NextId, list, po>>
    BY DEF DestroyToken, Enqueue, MoveToken, rotation, owners
  <1>2. Linked' = Linked /\ Next' = Next
    BY <1>1, OtherListInv DEF list
  <1>3. Grows /\ Acyclic'
    BY <1>2, AcyclicStays DEF Grows, LookInv
  <1>4. size' \in [Nodes -> Nat]
    <2>1. CASE UNCHANGED size
      BY <2>1 DEF LookInv
    <2>2. CASE \E o \in Owners : Enqueue(o)
      BY <2>2 DEF LookInv, Enqueue, Inv, OwnersTypeOK, NodeOrNull
    <2> QED
      BY <2>1, <2>2 DEF DestroyToken, MoveToken
  <1> QED
    BY <1>1, <1>3, <1>4, OwnersLook

-----------------------------------------------------------------------------
\* A step of a consumer does not change the list, nor any way in it.
LEMMA SameList ==
  ASSUME UNCHANGED <<list, owners>>
  PROVE  /\ Linked' = Linked /\ Listed' = Listed /\ Grows
         /\ \A h : ListFrom(h)' = ListFrom(h)
         /\ \A a, h, l : RingFrom(a, h, l)' = RingFrom(a, h, l)
  <1>1. Linked' = Linked
    BY DEF list, owners, Linked, Pending
  <1>2. \A S, h : Closed(S, h)' = Closed(S, h)
    BY DEF list, Closed
  <1>3. \A n, h : After(n, h)' = After(n, h)
    BY DEF list, After
  <1>4. \A S, a, h, l : ClosedRing(S, a, h, l)' = ClosedRing(S, a, h, l)
    BY <1>3 DEF ClosedRing
  <1>5. \A h : ListFrom(h)' = ListFrom(h)
    BY <1>2 DEF ListFrom
  <1>6. \A a, h, l : RingFrom(a, h, l)' = RingFrom(a, h, l)
    BY <1>4 DEF RingFrom
  <1>7. Listed' = Listed
    BY <1>5 DEF Listed, list
  <1> QED
    BY <1>1, <1>5, <1>6, <1>7 DEF Grows, list

\* What holds of the producers M that a call of c has missed after a step of c.
Sees(c, M) ==
    /\ M \subseteq Linked
    /\ InCall(c) => M \subseteq missed[c]
    /\ M # {} => \A d \in Consumers \ {c} : ~InCall(d)
    /\ \A n \in M : size'[n] > 0

\* Consumer c goes to s; the tokens of the others stay.
LEMMA ConsumerLook ==
  ASSUME ListInv, CountInv, LookInv, Observe, UNCHANGED <<list, owners>>,
         NEW c \in Consumers, NEW s, Goto(c, s), Knows(c, s)',
         \A M : Sees(c, M) => Misses(s, M)',
         \A x \in ConsumerTokens : TokenKnows(tok'[x]),
         \A x \in ConsumerTokens \ TokensOf[c] : tok'[x] = tok[x],
         size' \in [Nodes -> Nat], GlobalOffset' \in Nat, NextId' \in Nat
  PROVE  LookInv'
  <1>1. Linked' = Linked /\ Listed = Linked /\ Grows /\ Acyclic'
    BY SameList, ListedIsLinked, AcyclicStays DEF LookInv, list
  <1>2. ASSUME NEW x \in ConsumerTokens PROVE TokenKnows(tok[x])'
    BY <1>1, <1>2 DEF TokenKnows
  <1>3. con'[c] = s /\ \A d \in Consumers \ {c} : con'[d] = con[d]
    BY DEF Goto, CountInv, CallsOK
  <1>4. ASSUME NEW d \in Consumers
        PROVE  Knows(d, con[d])' /\ (missed[d] \subseteq Linked)' /\ Misses(con[d], missed[d])'
    <2>1. PICK r : r = con[d]
      OBVIOUS
    <2>2. PICK M : M = missed[d]
      OBVIOUS
    <2>3. PICK N : /\ N = missed'[d]
                   /\ N # {} => /\ con'[d].step # "idle"
                                /\ \A e \in Consumers \ {d} : con'[e].step = "idle"
                   /\ N \subseteq IF InCall(d) THEN M ELSE Listed
                   /\ \A n \in N : size'[n] > 0
      BY <2>2, Observed
    <2>4. Knows(d, r) /\ Misses(r, M) /\ M \subseteq Linked
      BY <2>1, <2>2 DEF LookInv
    <2>5. N \subseteq Linked
      BY <1>1, <2>3, <2>4
    <2>6. CASE d = c
      <3>1. Sees(c, N)
        BY <1>3, <2>2, <2>3, <2>5, <2>6 DEF Sees, InCall
      <3>2. Misses(s, N)'
        BY <3>1
      <3> QED
        BY <1>1, <1>3, <2>3, <2>5, <2>6, <3>2
    <2>7. CASE d # c
      <3>1. con'[d] = r
        BY <1>3, <2>1, <2>7
      <3>2. N \subseteq M
        BY <2>1, <2>3, <3>1 DEF InCall
      <3>3. r.step \in TokenSteps => tok'[r.token] = tok[r.token]
        BY <2>4, <2>7, TokensAssumption DEF Knows, ConsumerTokens
      <3>4. Knows(d, r)'
        BY <1>1, <2>4, <3>3, KnowsStays
      <3>5. Misses(r, N)'
        BY <1>1, <2>4, <3>2, <3>3, MissesStays
      <3> QED
        BY <1>1, <2>3, <2>5, <3>1, <3>4, <3>5
    <2> QED
      BY <2>6, <2>7
  <1> QED
    BY <1>1, <1>2, <1>4 DEF LookInv

\* The same where tokens and offsets stay.
LEMMA CallLook ==
  ASSUME ListInv, CountInv, LookInv, Observe, UNCHANGED <<list, owners>>,
         NEW c \in Consumers, NEW s, Goto(c, s), Knows(c, s),
         \A M : Sees(c, M) => Misses(s, M),
         UNCHANGED rotation, size' \in [Nodes -> Nat]
  PROVE  LookInv'
  <1>1. UNCHANGED <<tok, GlobalOffset, NextId>>
    BY DEF rotation
  <1>2. Knows(c, s)' /\ \A M : Misses(s, M)' = Misses(s, M)
    BY <1>1, SameList DEF Knows, Misses
  <1>3. \A x \in ConsumerTokens : TokenKnows(tok'[x]) /\ tok'[x] = tok[x]
    BY <1>1 DEF LookInv
  <1>4. GlobalOffset' \in Nat /\ NextId' \in Nat
    BY <1>1 DEF LookInv
  <1> QED
    BY <1>2, <1>3, <1>4, ConsumerLook

\* A call that gets less than it wants, with no other consumer about, leaves
\* nothing.
LEMMA GetsAll ==
  ASSUME size \in [Nodes -> Nat], NEW c \in Consumers, NEW n \in Nodes, NEW want \in Nat,
         NEW k \in Gets(c, n, want), Remove(n, k)
  PROVE  /\ k \in 0 .. want /\ size' \in [Nodes -> Nat]
         /\ k < want => \A M : Sees(c, M) => n \notin M
  <1> DEFINE most == IF size[n] < want THEN size[n] ELSE want
  <1>1. size[n] \in Nat /\ most \in Nat /\ most <= want /\ most <= size[n]
    OBVIOUS
  <1>2. k \in 0 .. most /\ ((\A d \in Consumers \ {c} : ~InCall(d)) => k = most)
    BY <1>1 DEF Gets
  <1>3. size' \in [Nodes -> Nat] /\ size'[n] = size[n] - k
    BY <1>1, <1>2 DEF Remove
  <1>4. ASSUME k < want, NEW M, Sees(c, M), n \in M PROVE FALSE
    <2>1. k = most /\ size'[n] > 0
      BY <1>2, <1>4 DEF Sees
    <2> QED
      BY <1>1, <1>3, <1>4, <2>1
  <1> QED
    BY <1>1, <1>2, <1>3, <1>4

-----------------------------------------------------------------------------
LEMMA ScanLook ==
  ASSUME ListInv, CountInv, LookInv, Observe, UNCHANGED <<list, owners>>,
         NEW c \in Consumers, BeginScan(c) \/ Scan(c) \/ TryBest(c)
  PROVE  LookInv'
  <1> DEFINE r == con[c]
  <1>1. Knows(c, r) /\ Misses(r, missed[c]) /\ size \in [Nodes -> Nat] /\ Acyclic
    BY DEF LookInv
  <1>2. ProducerListsHead \in Linked \union {Null} /\ Linked \subseteq ListFrom(ProducerListsHead)
    BY DEF ListInv, Listed
  <1>3. CASE BeginScan(c)
    <2> DEFINE s == [step |-> "scan", at |-> ProducerListsHead, seen |-> 0, best |-> Null,
                     bestSize |-> 0]
    <2>1. Goto(c, s) /\ UNCHANGED <<rotation, size>>
      BY <1>3 DEF BeginScan
    <2>2. Knows(c, s)
      BY <1>2 DEF Knows, TokenSteps
    <2>3. \A M : Sees(c, M) => Misses(s, M)
      BY <1>2 DEF Sees, Misses
    <2> HIDE DEF s
    <2> QED
      BY <1>1, <2>1, <2>2, <2>3, CallLook
  <1>4. CASE Scan(c)
    <2> DEFINE n == r.at
               s == [step |-> "scan", at |-> Next[n],
                     seen |-> IF size[n] > 0 THEN r.seen + 1 ELSE r.seen,
                     best |-> IF size[n] > r.bestSize THEN n ELSE r.best,
                     bestSize |-> IF size[n] > r.bestSize THEN size[n] ELSE r.bestSize]
    <2>1. Goto(c, s) /\ UNCHANGED <<rotation, size>> /\ r.step = "scan" /\ n # Null
      BY <1>4 DEF Scan
    <2>2. /\ n \in Linked /\ n \in Nodes /\ r.best \in Linked \union {Null}
          /\ r.bestSize \in Nat /\ r.seen \in Nat /\ size[n] \in Nat
          /\ r.best = Null => r.bestSize = 0 /\ r.seen = 0
      BY <1>1, <2>1 DEF Knows, Linked
    <2>3. Next[n] \in Linked \union {Null}
      BY <2>2 DEF ListInv
    <2>4. s.best = Null => size[n] = 0 /\ r.best = Null
      BY <2>1, <2>2
    <2>5. Knows(c, s)
      BY <2>2, <2>3, <2>4 DEF Knows, TokenSteps
    <2>6. ASSUME NEW M, Sees(c, M), s.best = Null PROVE M \subseteq ListFrom(Next[n])
      <3>1. M \subseteq ListFrom(n)
        BY <1>1, <2>1, <2>4, <2>6 DEF Misses, Sees, InCall
      <3>2. n \notin M
        BY <2>1, <2>2, <2>4, <2>6 DEF Sees
      <3> QED
        BY <2>2, <3>1, <3>2, ListRest
    <2>7. \A M : Sees(c, M) => Misses(s, M)
      BY <2>6 DEF Misses
    <2> HIDE DEF s
    <2> QED
      BY <1>1, <2>1, <2>5, <2>7, CallLook
  <1>5. CASE TryBest(c)
    <2>1. r.step = "scan" /\ UNCHANGED rotation /\ (r.at = Null \/ r.seen = 3)
      BY <1>5 DEF TryBest
    <2>2. CASE r.best = Null
      <3> DEFINE s == [step |-> "short"]
      <3>1. Goto(c, s) /\ UNCHANGED size /\ Knows(c, s)
        BY <1>5, <2>2 DEF TryBest, Knows, TokenSteps
      <3>2. r.at = Null
        BY <1>1, <2>1, <2>2 DEF Knows
      <3>3. \A M : Sees(c, M) => Misses(s, M)
        BY <1>1, <2>1, <2>2, <3>2, NothingFromNull DEF Sees, Misses, InCall
      <3> HIDE DEF s
      <3> QED
        BY <1>1, <2>1, <3>1, <3>3, CallLook
    <2>3. CASE r.best # Null
      <3> DEFINE n == r.best
                 s == [step |-> "walk", at |-> ProducerListsHead, want |-> 1, skip |-> n]
      <3>1. n \in Nodes
        BY <1>1, <2>1, <2>3 DEF Knows, Linked
      <3>2. PICK k \in Gets(c, n, 1) :
               Remove(n, k) /\ Goto(c, IF k = 1 THEN NoCall ELSE s)
        BY <1>5, <2>3 DEF TryBest
      <3>3. /\ k \in 0 .. 1 /\ size' \in [Nodes -> Nat]
            /\ k < 1 => \A M : Sees(c, M) => n \notin M
        BY <1>1, <3>1, <3>2, GetsAll
      <3>4. Knows(c, s) /\ Knows(c, NoCall)
        BY <1>2 DEF Knows, TokenSteps, NoCall
      <3>5. \A M : Misses(NoCall, M)
        BY DEF Misses, NoCall
      <3>6. k # 1 => \A M : Sees(c, M) => Misses(s, M)
        BY <1>2, <3>3 DEF Sees, Misses
      <3> HIDE DEF s, n
      <3>7. CASE k = 1
        BY <2>1, <3>2, <3>3, <3>4, <3>5, <3>7, CallLook
      <3>8. CASE k # 1
        BY <2>1, <3>2, <3>3, <3>4, <3>6, <3>8, CallLook
      <3> QED
        BY <3>7, <3>8
    <2> QED
      BY <2>2, <2>3
  <1> QED
    BY <1>3, <1>4, <1>5

LEMMA WalkLook ==
  ASSUME ListInv, CountInv, LookInv, Observe, UNCHANGED <<list, owners>>,
         NEW c \in Consumers,
         \/ \E want \in Wants \union {1} : BeginWalk(c, want)
         \/ Walk(c) \/ WalkEnds(c)
  PROVE  LookInv'
  <1> DEFINE r == con[c]
  <1>1. /\ Knows(c, r) /\ Misses(r, missed[c]) /\ size \in [Nodes -> Nat]
        /\ CallOK(r)
    BY DEF LookInv, CountInv, CallsOK
  <1>2. /\ ProducerListsHead \in Linked \union {Null} /\ Null \notin Linked
        /\ Linked \subseteq ListFrom(ProducerListsHead)
    BY NodesAssumption DEF ListInv, Listed, Linked
  <1>3. CASE \E want \in Wants \union {1} : BeginWalk(c, want)
    <2>1. PICK want \in Wants \union {1} : BeginWalk(c, want)
      BY <1>3
    <2> DEFINE s == [step |-> "walk", at |-> ProducerListsHead, want |-> want, skip |-> Null]
    <2>2. Goto(c, s) /\ UNCHANGED <<rotation, size>>
      BY <2>1 DEF BeginWalk
    <2>3. Knows(c, s)
      BY <1>2, NumbersAssumption DEF Knows, TokenSteps
    <2>4. \A M : Sees(c, M) => Misses(s, M)
      BY <1>2 DEF Sees, Misses
    <2> HIDE DEF s
    <2> QED
      BY <1>1, <2>2, <2>3, <2>4, CallLook
  <1>4. CASE Walk(c)
    <2> DEFINE n == r.at
    <2>1. r.step = "walk" /\ n # Null /\ UNCHANGED rotation
      BY <1>4 DEF Walk
    <2>2. n \in Linked /\ n \in Nodes /\ r.want \in Nat /\ IsWalk(r)
      BY <1>1, <2>1 DEF Knows, Linked, CallOK
    <2>3. PICK k \in IF n = r.skip THEN {0} ELSE Gets(c, n, r.want) :
             /\ Remove(n, k)
             /\ Goto(c, IF k = r.want THEN NoCall
                        ELSE [r EXCEPT !.at = Next[@], !.want = @ - k])
      BY <1>4 DEF Walk
    <2>4. k \in 0 .. r.want /\ size' \in [Nodes -> Nat]
      <3>1. CASE n = r.skip
        BY <1>1, <2>2, <2>3, <3>1 DEF Remove
      <3>2. CASE n # r.skip
        BY <1>1, <2>2, <2>3, <3>2, GetsAll
      <3> QED
        BY <3>1, <3>2
    <2> DEFINE s == [r EXCEPT !.at = Next[@], !.want = @ - k]
    <2>5. s.step = "walk" /\ s.at = Next[n] /\ s.want = r.want - k /\ s.skip = r.skip
      BY <2>1, <2>2 DEF IsWalk
    <2>6. Goto(c, NoCall) \/ (k # r.want /\ Goto(c, s))
      BY <2>3
    <2> HIDE DEF s
    <2>7. Knows(c, NoCall) /\ \A M : Misses(NoCall, M)
      BY DEF Knows, TokenSteps, NoCall, Misses
    <2>8. Knows(c, s)
      BY <2>2, <2>4, <2>5 DEF Knows, TokenSteps, ListInv
    <2>9. ASSUME k # r.want, NEW M, Sees(c, M) PROVE Misses(s, M)
      <3>1. M \subseteq ListFrom(n) \ {r.skip}
        BY <1>1, <2>1, <2>9 DEF Misses, Sees, InCall
      <3>2. n \notin M
        <4>1. CASE n = r.skip
          BY <3>1, <4>1
        <4>2. CASE n # r.skip
          <5>1. k < r.want
            BY <2>2, <2>4, <2>9
          <5> QED
            BY <1>1, <2>2, <2>3, <2>9, <4>2, <5>1, GetsAll
        <4> QED
          BY <4>1, <4>2
      <3>3. M \subseteq ListFrom(Next[n]) \ {r.skip}
        BY <2>2, <3>1, <3>2, ListRest
      <3> QED
        BY <2>5, <3>3 DEF Misses
    <2>10. CASE Goto(c, NoCall)
      BY <2>1, <2>4, <2>7, <2>10, CallLook
    <2>11. CASE k # r.want /\ Goto(c, s)
      BY <2>1, <2>4, <2>8, <2>9, <2>11, CallLook
    <2> QED
      BY <2>6, <2>10, <2>11
  <1>5. CASE WalkEnds(c)
    <2> DEFINE s == [step |-> "short"]
    <2>1. /\ Goto(c, s) /\ UNCHANGED <<rotation, size>> /\ Knows(c, s)
          /\ r.step = "walk" /\ r.at = Null
      BY <1>5 DEF WalkEnds, Knows, TokenSteps
    <2>2. \A M : Sees(c, M) => Misses(s, M)
      BY <1>1, <2>1, NothingFromNull DEF Sees, Misses, InCall
    <2> HIDE DEF s
    <2> QED
      BY <1>1, <2>1, <2>2, CallLook
  <1> QED
    BY <1>3, <1>4, <1>5

-----------------------------------------------------------------------------
(* Steps with a token *)

LEMMA TokenTypes ==
  ASSUME CountInv, NEW x \in ConsumerTokens
  PROVE  IsToken(tok[x]) /\ tok = [y \in ConsumerTokens |-> tok[y]]
  BY DEF CountInv, TokensOK

\* Consumer c goes to s and changes a token of its own to t.
LEMMA TokenLook ==
  ASSUME ListInv, CountInv, LookInv, Observe, UNCHANGED <<list, owners>>,
         NEW c \in Consumers, NEW s, Goto(c, s), Knows(c, s)',
         \A M : Sees(c, M) => Misses(s, M)',
         NEW x \in TokensOf[c], NEW t, tok' = [tok EXCEPT ![x] = t], TokenKnows(t),
         size' \in [Nodes -> Nat], GlobalOffset' \in Nat, NextId' \in Nat
  PROVE  LookInv'
  <1>1. x \in ConsumerTokens
    BY DEF ConsumerTokens
  <1>2. \A y \in ConsumerTokens : tok'[y] = IF y = x THEN t ELSE tok[y]
    BY <1>1, TokenTypes
  <1>3. \A y \in ConsumerTokens : TokenKnows(tok'[y])
    BY <1>2 DEF LookInv
  <1>4. \A y \in ConsumerTokens \ TokensOf[c] : tok'[y] = tok[y]
    BY <1>2
  <1> QED
    BY <1>3, <1>4, ConsumerLook

LEMMA BeginTokenLook ==
  ASSUME MaxOffset < OffsetSize - 1,
         ListInv, CountInv, LookInv, Observe, UNCHANGED <<list, owners>>,
         NEW c \in Consumers, TokenCall(c)
  PROVE  LookInv'
  <1>1. PICK x \in TokensOf[c], want \in Nat, bulk \in BOOLEAN : BeginToken(c, x, want, bulk)
    BY NumbersAssumption DEF TokenCall
  <1> DEFINE current == ~(tok[x].desired = Null \/ tok[x].known # GlobalOffset)
             s == [step |-> IF ~current THEN "update" ELSE "current",
                   token |-> x, want |-> want, bulk |-> bulk,
                   head |-> Null, count |-> 0, at |-> Null]
  <1>2. /\ Goto(c, s) /\ UNCHANGED <<rotation, size>>
        /\ tok[x].valid /\ GlobalOffset <= MaxOffset
    BY <1>1 DEF BeginToken
  <1>3. TokenKnows(tok[x]) /\ size \in [Nodes -> Nat] /\ GlobalOffset \in Nat
    BY DEF LookInv, ConsumerTokens
  <1>4. current => tok[x].current \in Linked
    <2>1. current => tok[x].known # OffsetSize - 1
      BY <1>2, <1>3, NumbersAssumption
    <2> QED
      BY <1>2, <1>3, <2>1 DEF TokenKnows
  <1>5. s.token = x /\ s.want = want /\ s.step = IF current THEN "current" ELSE "update"
    OBVIOUS
  <1> HIDE DEF s, current
  <1>6. Knows(c, s)
    BY <1>4, <1>5 DEF Knows
  <1>7. \A M : Misses(s, M)
    BY <1>5 DEF Misses
  <1> QED
    BY <1>2, <1>3, <1>6, <1>7, CallLook

LEMMA MakeTokenLook ==
  ASSUME ListInv, CountInv, LookInv, Observe, UNCHANGED <<list, owners>>,
         NEW c \in Consumers, NEW x \in TokensOf[c], MakeToken(c, x)
  PROVE  LookInv'
  <1> DEFINE t == [valid |-> TRUE, initial |-> NextId, known |-> OffsetSize - 1,
                   items |-> 0, current |-> Null, desired |-> Null]
  <1>1. tok' = [tok EXCEPT ![x] = t] /\ UNCHANGED <<con, size, GlobalOffset>>
    BY DEF MakeToken
  <1>2. TokenKnows(t)
    BY NumbersAssumption DEF TokenKnows, LookInv
  <1>3. GlobalOffset' \in Nat /\ size' \in [Nodes -> Nat]
    BY <1>1 DEF LookInv
  <1>4. NextId' \in Nat
    BY NumbersAssumption DEF MakeToken, LookInv
  <1> HIDE DEF t
  <1>5. PICK s : s = con[c]
    OBVIOUS
  <1>6. s.step = "idle" /\ Goto(c, s)
    BY <1>1, <1>5 DEF MakeToken, Idle, Goto, CountInv, CallsOK
  <1>7. Knows(c, s)' /\ \A M : Misses(s, M)'
    BY <1>6 DEF Knows, TokenSteps, Misses
  <1> QED
    BY <1>1, <1>2, <1>3, <1>4, <1>6, <1>7, TokenLook

LEMMA SwapLook ==
  ASSUME ListInv, CountInv, LookInv, Observe, UNCHANGED <<list, owners>>,
         NEW c \in Consumers, NEW x \in TokensOf[c], NEW y \in TokensOf[c], x # y,
         SwapTokens(c, x, y)
  PROVE  LookInv'
  <1> DEFINE Mixed(a, b) == [a EXCEPT !.initial = b.initial, !.known = b.known,
                                      !.current = b.current]
  <1>1. /\ tok' = [tok EXCEPT ![x] = Mixed(tok[x], tok[y]), ![y] = Mixed(tok[y], tok[x])]
        /\ UNCHANGED <<con, size, GlobalOffset, NextId>> /\ con[c].step = "idle"
        /\ tok[x].valid /\ tok[y].valid
    BY DEF SwapTokens, Idle
  <1>2. x \in ConsumerTokens /\ y \in ConsumerTokens
    BY DEF ConsumerTokens
  <1>3. \A a, b : IsToken(a) =>
           /\ Mixed(a, b).valid = a.valid /\ Mixed(a, b).desired = a.desired
           /\ Mixed(a, b).initial = b.initial /\ Mixed(a, b).known = b.known
           /\ Mixed(a, b).current = b.current
    BY DEF IsToken
  <1> HIDE DEF Mixed
  <1>4. \A a, b : IsToken(a) /\ TokenKnows(a) /\ TokenKnows(b) /\ b.valid
                  => TokenKnows(Mixed(a, b))
    BY <1>3 DEF TokenKnows
  <1>5. tok' = [z \in ConsumerTokens |->
                   IF z = y THEN Mixed(tok[y], tok[x])
                   ELSE IF z = x THEN Mixed(tok[x], tok[y]) ELSE tok[z]]
    BY <1>1, <1>2, TokenTypes
  <1>6. \A z \in ConsumerTokens : IsToken(tok[z]) /\ TokenKnows(tok[z])
    BY TokenTypes DEF LookInv
  <1>7. \A z \in ConsumerTokens : TokenKnows(tok'[z])
    BY <1>1, <1>2, <1>4, <1>5, <1>6
  <1>8. \A z \in ConsumerTokens \ TokensOf[c] : tok'[z] = tok[z]
    BY <1>5
  <1>9. GlobalOffset' \in Nat /\ NextId' \in Nat /\ size' \in [Nodes -> Nat]
    BY <1>1 DEF LookInv
  <1>10. PICK s : s = con[c]
    OBVIOUS
  <1>11. s.step = "idle" /\ Goto(c, s)
    BY <1>1, <1>10 DEF Goto, CountInv, CallsOK
  <1>12. Knows(c, s)' /\ \A M : Misses(s, M)'
    BY <1>11 DEF Knows, TokenSteps, Misses
  <1> QED
    BY <1>7, <1>8, <1>9, <1>11, <1>12, ConsumerLook

LEMMA TakeFromLook ==
  ASSUME Inv, ListInv, CountInv, LookInv, Observe, UNCHANGED <<list, owners>>,
         NEW c \in Consumers, NEW o \in Tokens, NEW want \in Wants \union {1},
         TakeFrom(c, o, want)
  PROVE  LookInv'
  <1>1. node[o] \in Nodes /\ want \in Nat /\ size \in [Nodes -> Nat]
    BY NumbersAssumption DEF TakeFrom, Inv, OwnersTypeOK, NodeOrNull, Owners, LookInv
  <1>2. PICK n \in Nodes : n = node[o]
    BY <1>1
  <1>3. \E k \in Gets(c, n, want) : Remove(n, k)
    BY <1>2 DEF TakeFrom
  <1>4. size' \in [Nodes -> Nat]
    BY <1>1, <1>3, GetsAll
  <1>5. PICK s : s = con[c]
    OBVIOUS
  <1>6. s.step = "idle" /\ Goto(c, s) /\ UNCHANGED rotation
    BY <1>5 DEF TakeFrom, Idle, Goto, CountInv, CallsOK
  <1>7. Knows(c, s) /\ \A M : Misses(s, M)
    BY <1>6 DEF Knows, TokenSteps, Misses
  <1> QED
    BY <1>4, <1>6, <1>7, CallLook

LEMMA UpdateLook ==
  ASSUME ListInv, CountInv, LookInv, Observe, UNCHANGED <<list, owners>>,
         NEW c \in Consumers, UpdateHead(c) \/ UpdateCount(c)
  PROVE  LookInv'
  <1> DEFINE r == con[c]
  <1>1. Knows(c, r) /\ CallOK(r) /\ size \in [Nodes -> Nat]
    BY DEF LookInv, CountInv, CallsOK
  <1>2. CASE UpdateHead(c)
    <2>1. r.step = "update" /\ IsTokenCall(r) /\ r.token \in TokensOf[c] /\ r.want \in Nat
      BY <1>1, <1>2 DEF UpdateHead, CallOK, Knows, TokenSteps
    <2>2. UNCHANGED <<rotation, size>>
      BY <1>2 DEF UpdateHead
    <2>3. CASE Token(c).desired = Null /\ ProducerListsHead = Null
      <3> DEFINE s == [step |-> "short"]
      <3>1. Goto(c, s) /\ Knows(c, s)
        BY <1>2, <2>3 DEF UpdateHead, Knows, TokenSteps
      <3>2. Linked = {}
        BY <2>3, ListedIsLinked, NothingFromNull DEF Listed
      <3>3. \A M : Sees(c, M) => Misses(s, M)
        BY <3>2 DEF Sees, Misses
      <3> HIDE DEF s
      <3> QED
        BY <1>1, <2>2, <3>1, <3>3, CallLook
    <2>4. CASE ~(Token(c).desired = Null /\ ProducerListsHead = Null)
      <3> DEFINE s == [r EXCEPT !.step = "count", !.head = ProducerListsHead]
      <3>1. Goto(c, s)
        BY <1>2, <2>4 DEF UpdateHead
      <3>2. ProducerListsHead \in Linked
        <4> SUFFICES ASSUME ProducerListsHead = Null PROVE FALSE
          BY DEF ListInv
        <4>1. Linked = {}
          BY ListedIsLinked, NothingFromNull DEF Listed
        <4>2. Token(c).desired \in Linked \union {Null}
          BY <2>1 DEF LookInv, TokenKnows, Token, ConsumerTokens
        <4> QED
          BY <2>4, <4>1, <4>2
      <3>3. s.step = "count" /\ s.head = ProducerListsHead /\ s.token = r.token /\ s.want = r.want
        BY <2>1 DEF IsTokenCall
      <3> HIDE DEF s
      <3>4. Knows(c, s) /\ \A M : Misses(s, M)
        BY <2>1, <3>2, <3>3 DEF Knows, Misses
      <3> QED
        BY <1>1, <2>2, <3>1, <3>4, CallLook
    <2> QED
      BY <2>3, <2>4
  <1>3. CASE UpdateCount(c)
    <2> DEFINE s == [r EXCEPT !.step = "offset", !.count = ProducerCount]
    <2>1. /\ r.step = "count" /\ IsTokenCall(r) /\ r.token \in TokensOf[c] /\ r.want \in Nat
          /\ r.head \in Linked
      BY <1>1, <1>3 DEF UpdateCount, CallOK, Knows, TokenSteps
    <2>2. Goto(c, s) /\ UNCHANGED <<rotation, size>>
      BY <1>3 DEF UpdateCount
    <2>3. s.step = "offset" /\ s.head = r.head /\ s.token = r.token /\ s.want = r.want
      BY <2>1 DEF IsTokenCall
    <2> HIDE DEF s
    <2>4. Knows(c, s) /\ \A M : Misses(s, M)
      BY <2>1, <2>3 DEF Knows, Misses
    <2> QED
      BY <1>1, <2>2, <2>4, CallLook
  <1> QED
    BY <1>2, <1>3

\* However often it goes round, the way from a producer leads to one in the list.
LEMMA UpdateProducerLook ==
  ASSUME ListInv, CountInv, LookInv, Observe, UNCHANGED <<list, owners>>,
         NEW c \in Consumers, UpdateProducer(c)
  PROVE  LookInv'
  <1> DEFINE r == con[c]
             head == r.head
             count == r.count
             x == r.token
             initial == Steps(head, head, tok[x].initial % count)
             first == IF tok[x].desired # Null THEN tok[x].desired ELSE initial
             delta == (GlobalOffset - tok[x].known) % OffsetSize
             rest == IF delta >= count THEN And(delta, count) ELSE delta
             now == Steps(first, head, rest)
             t == [tok[x] EXCEPT !.desired = now, !.current = now, !.known = GlobalOffset,
                                 !.items = 0]
  <1>1. r.step = "offset" /\ IsTokenCall(r) /\ count \in Nat /\ count > 0
    BY DEF UpdateProducer, CountInv, CallsOK, CallOK
  <1>2. /\ x \in TokensOf[c] /\ x \in ConsumerTokens /\ r.want \in Nat
        /\ head \in Linked
    BY <1>1 DEF LookInv, Knows, TokenSteps, ConsumerTokens
  <1>3. /\ tok[x].initial \in Nat /\ tok[x].known \in Nat
        /\ tok[x].desired \in Linked \union {Null}
    BY <1>2 DEF LookInv, TokenKnows
  <1>4. \A n \in Linked : After(n, head) \in Linked
    BY <1>2 DEF After, ListInv, Linked
  <1>5. tok[x].initial % count \in Nat
    BY <1>1, <1>3
  <1>6. delta \in Nat
    BY <1>3, NumbersAssumption DEF LookInv
  <1>7. rest \in Nat
    BY <1>1, <1>6, AndIsNat
  <1>8. first \in Linked
    <2>1. initial \in Linked
      BY <1>2, <1>4, <1>5, StepsInRing
    <2> QED
      BY <1>3, <2>1
  <1> HIDE DEF first, rest
  <1>9. now \in Linked
    BY <1>4, <1>7, <1>8, StepsInRing
  <1>10. /\ tok' = [tok EXCEPT ![x] = [@ EXCEPT !.desired = now, !.current = now,
                                               !.known = GlobalOffset, !.items = 0]]
         /\ Goto(c, [r EXCEPT !.step = "current", !.head = Null, !.count = 0])
         /\ UNCHANGED <<size, GlobalOffset, NextId>>
    BY DEF UpdateProducer, Token, first, rest
  <1> HIDE DEF now
  <1>11. tok' = [tok EXCEPT ![x] = t]
    BY <1>2, <1>10, TokenTypes
  <1>12. /\ t.initial = tok[x].initial /\ t.known = GlobalOffset
         /\ t.desired = now /\ t.current = now
    BY <1>2, TokenTypes DEF IsToken
  <1>13. PICK s : /\ Goto(c, s) /\ s.step = "current" /\ s.token = x
                  /\ s.want \in Nat
    <2>1. PICK s : s = [r EXCEPT !.step = "current", !.head = Null, !.count = 0]
      OBVIOUS
    <2>2. s.step = "current" /\ s.token = x /\ s.want = r.want
      BY <1>1, <2>1 DEF IsTokenCall
    <2> QED
      BY <1>2, <1>10, <2>1, <2>2
  <1> HIDE DEF t
  <1>14. TokenKnows(t)
    BY <1>3, <1>9, <1>12, NodesAssumption DEF TokenKnows, LookInv, Linked
  <1>15. tok'[x].current = now /\ Linked' = Linked
    BY <1>2, <1>11, <1>12, TokenTypes, SameList
  <1>16. Knows(c, s)' /\ \A M : Misses(s, M)'
    BY <1>2, <1>9, <1>13, <1>15 DEF Knows, Misses
  <1>17. size' \in [Nodes -> Nat] /\ GlobalOffset' \in Nat /\ NextId' \in Nat
    BY <1>10 DEF LookInv
  <1> QED
    BY <1>2, <1>11, <1>13, <1>14, <1>16, <1>17, TokenLook

LEMMA TryCurrentLook ==
  ASSUME ListInv, CountInv, LookInv, Observe, UNCHANGED <<list, owners>>,
         NEW c \in Consumers, TryCurrent(c)
  PROVE  LookInv'
  <1> DEFINE r == con[c]
             x == r.token
             n == tok[x].current
  <1>1. r.step = "current" /\ IsTokenCall(r) /\ size \in [Nodes -> Nat]
    BY DEF TryCurrent, CountInv, CallsOK, CallOK, LookInv
  <1>2. /\ x \in TokensOf[c] /\ x \in ConsumerTokens /\ r.want \in Nat
        /\ n \in Linked /\ n \in Nodes /\ TokenKnows(tok[x])
    BY <1>1 DEF LookInv, Knows, TokenSteps, ConsumerTokens, Linked
  <1>3. PICK k \in Gets(c, n, r.want) :
           /\ Remove(n, k)
           /\ tok' = [tok EXCEPT ![x].items = Consumed(@ + k)]
           /\ Goto(c, IF k < r.want
                      THEN [r EXCEPT !.step = "ringHead", !.want = @ - k]
                      ELSE IF QuotaReached(tok[x].items + k, r.bulk)
                      THEN [step |-> "rotate"] ELSE NoCall)
    BY DEF TryCurrent, CurrentProducer, Token
  <1>4. /\ k \in 0 .. r.want /\ size' \in [Nodes -> Nat]
        /\ k < r.want => \A M : Sees(c, M) => n \notin M
    BY <1>1, <1>2, <1>3, GetsAll
  <1> DEFINE t == [tok[x] EXCEPT !.items = Consumed(@ + k)]
  <1>5. tok' = [tok EXCEPT ![x] = t]
    BY <1>2, <1>3, TokenTypes
  <1>6. /\ t.initial = tok[x].initial /\ t.known = tok[x].known /\ t.valid = tok[x].valid
        /\ t.desired = tok[x].desired /\ t.current = n
    BY <1>2, TokenTypes DEF IsToken
  <1> HIDE DEF t
  <1>7. TokenKnows(t)
    BY <1>2, <1>6 DEF TokenKnows
  <1>8. tok'[x].current = n /\ Linked' = Linked
    BY <1>2, <1>5, <1>6, TokenTypes, SameList
  <1>9. GlobalOffset' \in Nat /\ NextId' \in Nat
    BY DEF TryCurrent, LookInv
  <1>10. CASE k < r.want
    <2>1. PICK s, m : /\ s.step = "ringHead" /\ s.token = x /\ s.want = r.want - k
                      /\ Goto(c, s) /\ m = n
      BY <1>1, <1>3, <1>10 DEF IsTokenCall
    <2>2. tok'[s.token].current = m /\ s.want \in Nat
      BY <1>2, <1>4, <1>8, <2>1
    <2>3. Knows(c, s)'
      BY <1>2, <1>8, <2>1, <2>2 DEF Knows
    <2>4. \A M : Sees(c, M) => Misses(s, M)'
      BY <1>4, <1>10, <2>1, <2>2 DEF Misses
    <2> QED
      BY <1>2, <1>4, <1>5, <1>7, <1>9, <2>1, <2>3, <2>4, TokenLook
  <1>11. CASE ~(k < r.want)
    <2>1. PICK s : Goto(c, s) /\ s.step \in {"rotate", "idle"}
      BY <1>3, <1>11 DEF NoCall
    <2>2. Knows(c, s)' /\ \A M : Misses(s, M)'
      BY <2>1 DEF Knows, TokenSteps, Misses
    <2> QED
      BY <1>2, <1>4, <1>5, <1>7, <1>9, <2>1, <2>2, TokenLook
  <1> QED
    BY <1>10, <1>11

LEMMA RotateLook ==
  ASSUME ListInv, CountInv, LookInv, Observe, UNCHANGED <<list, owners>>,
         NEW c \in Consumers, Rotate(c)
  PROVE  LookInv'
  <1>1. /\ Goto(c, NoCall) /\ UNCHANGED <<size, NextId, tok>>
        /\ GlobalOffset' \in Nat
    BY NumbersAssumption DEF Rotate, LookInv
  <1>2. Knows(c, NoCall)' /\ \A M : Misses(NoCall, M)'
    BY DEF Knows, TokenSteps, Misses, NoCall
  <1>3. /\ size' \in [Nodes -> Nat] /\ NextId' \in Nat
        /\ \A x \in ConsumerTokens : TokenKnows(tok'[x]) /\ tok'[x] = tok[x]
    BY <1>1 DEF LookInv
  <1> QED
    BY <1>1, <1>2, <1>3, ConsumerLook

LEMMA RingHeadLook ==
  ASSUME ListInv, CountInv, LookInv, Observe, UNCHANGED <<list, owners>>,
         NEW c \in Consumers, RingHead(c)
  PROVE  LookInv'
  <1> DEFINE r == con[c]
             n == tok[r.token].current
             h == ProducerListsHead
             s == [r EXCEPT !.step = "ring", !.head = h, !.at = After(n, h)]
  <1>1. /\ r.step = "ringHead" /\ IsTokenCall(r) /\ r.token \in TokensOf[c] /\ r.want \in Nat
        /\ n \in Linked /\ Misses(r, missed[c]) /\ size \in [Nodes -> Nat] /\ Acyclic
    BY DEF RingHead, CountInv, CallsOK, CallOK, LookInv, Knows, TokenSteps
  <1>2. Goto(c, s) /\ UNCHANGED <<rotation, size>>
    BY DEF RingHead, CurrentProducer, Token
  <1>3. ListFrom(h) = Linked
    BY ListedIsLinked DEF Listed
  <1>4. h \in Linked
    BY <1>1, <1>3, NothingFromNull DEF ListInv
  <1>5. After(n, h) \in ListFrom(h)
    BY <1>1, <1>3, <1>4, ListFromLinked
  <1>6. /\ s.step = "ring" /\ s.token = r.token /\ s.want = r.want
        /\ s.head = h /\ s.at = After(n, h)
    BY <1>1 DEF IsTokenCall
  <1> HIDE DEF s
  <1>7. Knows(c, s)
    BY <1>1, <1>3, <1>4, <1>5, <1>6 DEF Knows
  <1>8. ASSUME NEW M, Sees(c, M) PROVE Misses(s, M)
    <2>1. M \subseteq ListFrom(h) \ {n}
      BY <1>1, <1>3, <1>8 DEF Sees, InCall, Misses
    <2>2. M \subseteq RingFrom(After(n, h), h, n)
      BY <1>1, <1>4, <2>1, RingCoversList
    <2> QED
      BY <1>6, <2>2 DEF Misses
  <1> QED
    BY <1>1, <1>2, <1>7, <1>8, CallLook

\* The end of the way is the producer that items were last found in.
LEMMA RingLook ==
  ASSUME ListInv, CountInv, LookInv, Observe, UNCHANGED <<list, owners>>,
         NEW c \in Consumers, Ring(c)
  PROVE  LookInv'
  <1> DEFINE r == con[c]
             x == r.token
             last == tok[x].current
             n == r.at
             h == r.head
  <1>1. r.step = "ring" /\ IsTokenCall(r) /\ size \in [Nodes -> Nat] /\ Acyclic
    BY DEF Ring, CountInv, CallsOK, CallOK, LookInv
  <1>2. /\ x \in TokensOf[c] /\ x \in ConsumerTokens /\ r.want \in Nat /\ h \in Linked
        /\ {n, last} \subseteq ListFrom(h) /\ TokenKnows(tok[x])
        /\ missed[c] \subseteq RingFrom(n, h, last)
    BY <1>1 DEF LookInv, Knows, TokenSteps, ConsumerTokens, Misses
  <1>3. n \in Linked /\ last \in Linked /\ n \in Nodes
    BY <1>2, ListFromLinked DEF Linked
  <1>4. PICK k \in Gets(c, n, r.want) :
           /\ Remove(n, k)
           /\ tok' = IF k = 0 THEN tok
                     ELSE [tok EXCEPT ![x] = [@ EXCEPT !.current = n, !.items = Consumed(k)]]
           /\ Goto(c, IF k = r.want THEN NoCall
                      ELSE [r EXCEPT !.want = @ - k, !.at = After(n, h)])
    BY DEF Ring, CurrentProducer, Token, RingAfter
  <1>5. /\ k \in 0 .. r.want /\ size' \in [Nodes -> Nat]
        /\ k < r.want => \A M : Sees(c, M) => n \notin M
    BY <1>1, <1>2, <1>3, <1>4, GetsAll
  <1>6. UNCHANGED <<GlobalOffset, NextId>> /\ GlobalOffset' \in Nat /\ NextId' \in Nat
    BY DEF Ring, LookInv
  \* The token afterwards, and where it is.
  <1> DEFINE now == IF k = 0 THEN last ELSE n
  <1>7. PICK t : /\ tok' = [tok EXCEPT ![x] = t] /\ TokenKnows(t) /\ t.current = now
    <2>1. CASE k = 0
      BY <1>2, <1>4, <2>1, TokenTypes
    <2>2. CASE k # 0
      <3> DEFINE u == [tok[x] EXCEPT !.current = n, !.items = Consumed(k)]
      <3>1. tok' = [tok EXCEPT ![x] = u]
        BY <1>2, <1>4, <2>2, TokenTypes
      <3>2. /\ u.initial = tok[x].initial /\ u.known = tok[x].known
            /\ u.valid = tok[x].valid /\ u.desired = tok[x].desired /\ u.current = n
        BY <1>2, TokenTypes DEF IsToken
      <3> HIDE DEF u
      <3>3. TokenKnows(u)
        BY <1>2, <1>3, <3>2, NodesAssumption DEF TokenKnows, Linked
      <3> QED
        BY <2>2, <3>1, <3>2, <3>3
    <2> QED
      BY <2>1, <2>2
  <1>8. tok'[x].current = now /\ now \in Linked /\ now \in ListFrom(h)
    BY <1>2, <1>3, <1>7, TokenTypes
  <1>9. CASE k = r.want
    <2>1. Goto(c, NoCall)
      BY <1>4, <1>9
    <2>2. Knows(c, NoCall)' /\ \A M : Misses(NoCall, M)'
      BY DEF Knows, TokenSteps, Misses, NoCall
    <2> QED
      BY <1>2, <1>5, <1>6, <1>7, <2>1, <2>2, TokenLook
  <1>10. CASE k # r.want
    <2>1. k < r.want
      BY <1>2, <1>5, <1>10
    <2>2. PICK s : /\ Goto(c, s) /\ s.step = "ring" /\ s.token = x /\ s.head = h
                   /\ s.at = After(n, h) /\ s.want \in Nat
      <3>1. PICK s : s = [r EXCEPT !.want = @ - k, !.at = After(n, h)]
        OBVIOUS
      <3>2. /\ s.step = "ring" /\ s.token = x /\ s.head = h
            /\ s.at = After(n, h) /\ s.want = r.want - k
        BY <1>1, <3>1 DEF IsTokenCall
      <3>3. s.want \in Nat
        BY <1>2, <1>5, <3>2
      <3> QED
        BY <1>4, <1>10, <3>1, <3>2, <3>3
    <2>3. PICK l : l = now
      OBVIOUS
    <2>4. tok'[s.token].current = l
      BY <1>8, <2>2, <2>3
    <2>5. After(n, h) \in ListFrom(h)
      BY <1>2, ListFromLinked
    <2>6. ListFrom(s.head)' = ListFrom(s.head) /\ Linked' = Linked
      BY SameList
    <2>7. Knows(c, s)'
      BY <1>2, <1>8, <2>2, <2>3, <2>4, <2>5, <2>6 DEF Knows
    <2>8. ASSUME NEW M, Sees(c, M) PROVE Misses(s, M)'
      <3>1. M \subseteq RingFrom(n, h, last) /\ n \notin M
        BY <1>1, <1>2, <1>5, <2>1, <2>8 DEF Sees, InCall
      <3>2. M \subseteq RingFrom(After(n, h), h, now)
        <4>1. CASE k = 0
          BY <1>3, <3>1, <4>1, RingRest
        <4>2. CASE k # 0
          <5>1. M \subseteq ListFrom(h) \ {n}
            BY <1>2, <3>1, RingInList
          <5> QED
            BY <1>1, <1>2, <1>3, <4>2, <5>1, RingCoversList
        <4> QED
          BY <4>1, <4>2
      <3>3. M \subseteq RingFrom(s.at, s.head, l)
        BY <2>2, <2>3, <3>2
      <3>4. RingFrom(s.at, s.head, l)' = RingFrom(s.at, s.head, l)
        BY SameList
      <3>5. M \subseteq RingFrom(s.at, s.head, l)'
        BY <3>3, <3>4
      <3> QED
        BY <2>2, <2>4, <3>5 DEF Misses
    <2> QED
      BY <1>2, <1>5, <1>6, <1>7, <2>2, <2>7, <2>8, TokenLook
  <1> QED
    BY <1>9, <1>10

LEMMA EndLook ==
  ASSUME ListInv, CountInv, LookInv, Observe, UNCHANGED <<list, owners>>,
         NEW c \in Consumers, RingEnds(c) \/ ReturnShort(c)
  PROVE  LookInv'
  <1>1. UNCHANGED <<rotation, size>> /\ size' \in [Nodes -> Nat]
    BY DEF RingEnds, ReturnShort, LookInv
  <1>2. CASE RingEnds(c)
    <2> DEFINE s == [step |-> "short"]
    <2>1. /\ Goto(c, s) /\ con[c].step = "ring" /\ con[c].at = tok[con[c].token].current
      BY <1>2 DEF RingEnds, CurrentProducer, Token
    <2>2. Misses(con[c], missed[c]) /\ Knows(c, s)
      BY DEF LookInv, Knows, TokenSteps
    <2>3. \A M : Sees(c, M) => Misses(s, M)
      BY <2>1, <2>2, RingEndsAtLast DEF Sees, InCall, Misses
    <2> HIDE DEF s
    <2> QED
      BY <1>1, <2>1, <2>2, <2>3, CallLook
  <1>3. CASE ReturnShort(c)
    <2>1. Goto(c, NoCall)
      BY <1>3 DEF ReturnShort
    <2>2. Knows(c, NoCall) /\ \A M : Misses(NoCall, M)
      BY DEF Knows, TokenSteps, Misses, NoCall
    <2> QED
      BY <1>1, <2>1, <2>2, CallLook
  <1> QED
    BY <1>2, <1>3

LEMMA ConsumerStepLook ==
  ASSUME MaxOffset < OffsetSize - 1,
         Inv, ListInv, CountInv, LookInv, Observe, NEW c \in Consumers, ConsumerStep(c)
  PROVE  LookInv'
  <1>1. UNCHANGED <<list, owners>>
    BY ConsumersLeaveOwners
  <1>2. CASE CallStep(c)
    BY <1>1, <1>2, ScanLook, WalkLook, UpdateLook, UpdateProducerLook, TryCurrentLook,
       RotateLook, RingHeadLook, RingLook, EndLook DEF CallStep
  <1>3. CASE TokenCall(c)
    BY <1>1, <1>3, BeginTokenLook
  <1>4. CASE \E x \in TokensOf[c] : MakeToken(c, x)
    BY <1>1, <1>4, MakeTokenLook
  <1>5. CASE BeginScan(c)
    BY <1>1, <1>5, ScanLook
  <1>6. CASE \E want \in Wants \union {1} :
                BeginWalk(c, want) \/ \E o \in Tokens : TakeFrom(c, o, want)
    BY <1>1, <1>6, WalkLook, TakeFromLook
  <1>7. CASE \E x, y \in TokensOf[c] : x # y /\ SwapTokens(c, x, y)
    BY <1>1, <1>7, SwapLook
  <1> QED
    BY <1>2, <1>3, <1>4, <1>5, <1>6, <1>7 DEF ConsumerStep

LEMMA StutterLook ==
  ASSUME LookInv, UNCHANGED vars
  PROVE  LookInv'
  <1>1. UNCHANGED <<list, owners>> /\ UNCHANGED <<size, tok, con, GlobalOffset, NextId, missed>>
    BY DEF vars, rotation
  <1>2. /\ Linked' = Linked /\ Next' = Next
        /\ \A h : ListFrom(h)' = ListFrom(h)
        /\ \A a, h, l : RingFrom(a, h, l)' = RingFrom(a, h, l)
    BY <1>1, SameList DEF list
  <1>3. Acyclic' = Acyclic
    BY <1>2 DEF Acyclic
  <1>4. \A t : TokenKnows(t)' = TokenKnows(t)
    BY <1>2 DEF TokenKnows
  <1>5. \A c, r, M : Knows(c, r)' = Knows(c, r) /\ Misses(r, M)' = Misses(r, M)
    BY <1>1, <1>2 DEF Knows, Misses
  <1>6. ASSUME NEW c \in Consumers
        PROVE  Knows(c, con[c])' /\ (missed[c] \subseteq Linked)' /\ Misses(con[c], missed[c])'
    <2>1. PICK r, M : r = con[c] /\ M = missed[c]
      OBVIOUS
    <2>2. Knows(c, r)' /\ Misses(r, M)' /\ M \subseteq Linked
      BY <1>5, <2>1 DEF LookInv
    <2>3. con'[c] = r /\ missed'[c] = M
      BY <1>1, <2>1
    <2> QED
      BY <1>2, <2>2, <2>3
  <1>7. ASSUME NEW x \in ConsumerTokens PROVE TokenKnows(tok[x])'
    <2>1. PICK t : t = tok[x]
      OBVIOUS
    <2>2. TokenKnows(t)' /\ tok'[x] = t
      BY <1>1, <1>4, <2>1 DEF LookInv
    <2> QED
      BY <2>2
  <1> QED
    BY <1>1, <1>3, <1>6, <1>7 DEF LookInv

LEMMA AlwaysLookInv ==
  ASSUME MaxOffset < OffsetSize - 1
  PROVE  Spec => [](ListInv /\ LookInv)
  <1> DEFINE I == Inv /\ ListInv /\ CountInv /\ LookInv
  <1>1. Init => I
    BY InitInv, InitListInv, InitCountInv, InitLookInv
  <1>2. I /\ [NextStep]_vars => I'
    <2> SUFFICES ASSUME I, [NextStep]_vars PROVE I'
      OBVIOUS
    <2>1. (Inv /\ ListInv /\ CountInv)'
      BY NextInv, NextListInv, NextCountInv
    <2>2. LookInv'
      <3>1. CASE UNCHANGED vars
        BY <3>1, StutterLook
      <3>2. CASE NextStep
        BY <3>2, OwnerStepLook, OtherOwnerLook, ConsumerStepLook DEF NextStep
      <3> QED
        BY <3>1, <3>2
    <2> QED
      BY <2>1, <2>2
  <1> QED
    BY <1>1, <1>2, PTL DEF Spec

\* As long as no call with a token begins at the last offset, which is the one a
\* fresh token knows, a consumer dequeues from producers in the list only,
\* however tokens are swapped and the global offset goes on.
THEOREM DequeuesListed ==
  ASSUME MaxOffset < OffsetSize - 1
  PROVE  Spec => []DequeuesFromListed
  <1>1. ListInv /\ LookInv => DequeuesFromListed
    <2> SUFFICES ASSUME ListInv, LookInv, NEW c \in Consumers
                 PROVE  /\ con[c].step \in {"current", "ringHead"} =>
                              CurrentProducer(c) \in Listed
                        /\ con[c].step = "ring" =>
                              {con[c].at, CurrentProducer(c)} \subseteq ListFrom(con[c].head)
      BY DEF DequeuesFromListed
    <2>1. Knows(c, con[c]) /\ Listed = Linked
      BY ListedIsLinked DEF LookInv
    <2> QED
      BY <2>1 DEF Knows, CurrentProducer, Token
  <1> QED
    BY <1>1, AlwaysLookInv, PTL

\* Under the same condition a call that had the queue to itself, and comes back
\* with less than it wanted, missed no producer that had items all the time,
\* whatever was pushed and enqueued meanwhile.
THEOREM EmptyIsTrue ==
  ASSUME MaxOffset < OffsetSize - 1
  PROVE  Spec => []NoFalseEmpty
  <1>1. LookInv => NoFalseEmpty
    BY DEF LookInv, NoFalseEmpty, Misses
  <1> QED
    BY <1>1, AlwaysLookInv, PTL
=============================================================================
