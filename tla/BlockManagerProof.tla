-------------------------- MODULE BlockManagerProof --------------------------
(***************************************************************************)
(* For any number of threads and blocks: the counts of FreeList are exact, *)
(* no Add is lost, and the list is a pool of nodes, in every use of it by  *)
(* a client that adds only what it has, HakleBlockManager among them.      *)
(***************************************************************************)
EXTENDS BlockManagerProps, FiniteSetTheorems, TLAPS

AddSteps == {"addHead", "addNext", "addRefs", "addCas", "addBusy"}
Ends == Nodes \union {NoNode}

Calls ==
    {NoCall}
    \union [step : {"addHead"}, node : Nodes, get : BOOLEAN, back : Ends]
    \union [step : AddSteps \ {"addHead"}, node : Nodes, head : Ends,
            get : BOOLEAN, back : Ends]
    \union [step : {"reload"}]
    \union [step : {"refs", "next", "taken"}, node : Nodes]
    \union [step : {"hold"}, node : Nodes, refs : Nat]
    \union [step : {"take"}, node : Nodes, next : Ends]
    \union [step : {"letGo"}, node : Nodes, back : Ends]

\* Every variable holds a value of its kind.
TypeOK ==
    /\ ListHead \in Ends
    /\ FreeListNext \in [Nodes -> Ends]
    /\ FreeListRefs \in [Nodes -> 0 .. (2 * AddFlag - 1)]
    /\ fresh \in SUBSET Nodes
    /\ held \in [Threads -> SUBSET Nodes]
    /\ call \in [Threads -> Calls]

\* The node thread t is putting into the list, and all that are its own.
Adding(t) == IF call[t].step \in AddSteps THEN {call[t].node} ELSE {}
Mine(t) == Owned(t) \union Adding(t)

\* The nodes with AddFlag set; those in nobody's hands are pending, and all others
\* that nobody has are in the list.
Flagged == {n \in Nodes : FreeListRefs[n] >= AddFlag}
Free == {n \in Nodes : n \notin fresh \union Flagged /\ \A t \in Threads : n \notin Mine(t)}

Refers(t, n) ==
    call[t].step \in {"next", "take", "letGo", "taken"} /\ call[t].node = n

\* The list has a reference to all nodes but these.
Unlisted(n) == n \in fresh \/ \E t \in Threads : n \in held[t]

-----------------------------------------------------------------------------
\* What holds of one thread and its call.
Local(t) ==
    /\ held[t] \intersect Adding(t) = {}
    /\ At(t, "taken") => call[t].node \notin held[t]
    /\ Mine(t) \intersect fresh = {}
    /\ Owned(t) \intersect Flagged = {}
    /\ call[t].step \in {"addHead", "addNext", "addRefs"} =>
          FreeListRefs[call[t].node] = AddFlag
    /\ call[t].step \in {"addCas", "addBusy"} => call[t].node \notin Flagged
    /\ call[t].step \in {"addRefs", "addCas"} =>
          FreeListNext[call[t].node] = call[t].head
    /\ At(t, "hold") => ~Taken(call[t].refs)
    /\ At(t, "take") => call[t].next = FreeListNext[call[t].node]

Apart == \A t, u \in Threads : t # u => Mine(t) \intersect Mine(u) = {}

\* A node whose Add is still to be carried out is not forgotten.
Pending ==
    \A n \in Flagged :
        /\ n \notin fresh
        /\ \E t \in Threads : Refers(t, n) \/ n \in Adding(t)

Base(n) == IF n \in Flagged THEN AddFlag ELSE IF Unlisted(n) THEN 0 ELSE 1

Counted ==
    \A n \in Nodes : FreeListRefs[n] = Base(n) + Cardinality(Referrers(n))

\* What the list is like, said of the nodes nobody has.
FreeChain ==
    /\ Closed(Free)
    /\ \A S \in SUBSET Nodes : Closed(S) => Free \subseteq S
    /\ \A n \in Free : FreeListNext[n] # NoNode =>
          /\ FreeListNext[n] # ListHead
          /\ \A m \in Free \ {n} : FreeListNext[m] # FreeListNext[n]

IndInv ==
    /\ TypeOK
    /\ \A t \in Threads : Local(t)
    /\ Apart /\ Pending /\ Counted /\ FreeChain

-----------------------------------------------------------------------------
\* A fetch_add that stays within 32 bits.
LEMMA PlusIs ==
  ASSUME TypeOK, NEW n \in Nodes, NEW k \in Int, Plus(n, k),
         FreeListRefs[n] + k \in 0 .. (2 * AddFlag - 1)
  PROVE  /\ FreeListRefs' = [FreeListRefs EXCEPT ![n] = @ + k]
         /\ FreeListRefs'[n] = FreeListRefs[n] + k
         /\ \A m \in Nodes \ {n} : FreeListRefs'[m] = FreeListRefs[m]
         /\ FreeListRefs' \in [Nodes -> 0 .. (2 * AddFlag - 1)]
  <1>1. \A x \in 0 .. (2 * AddFlag - 1) : x % (2 * AddFlag) = x
    BY FlagAssumption
  <1>2. (FreeListRefs[n] + k) % (2 * AddFlag) = FreeListRefs[n] + k
    BY <1>1
  <1>3. FreeListRefs' = [FreeListRefs EXCEPT ![n] = @ + k]
    BY <1>2 DEF Plus
  <1> QED
    BY <1>3 DEF TypeOK

\* The bits below AddFlag.
LEMMA LowBits ==
  ASSUME NEW k \in Nat, k < AddFlag
  PROVE  k % AddFlag = k /\ (AddFlag + k) % AddFlag = k
  BY FlagAssumption

LEMMA ThreadsCounted ==
  ASSUME NEW n
  PROVE  /\ IsFiniteSet(Referrers(n)) /\ Cardinality(Referrers(n)) \in Nat
         /\ Cardinality(Referrers(n)) + 1 < AddFlag
         /\ Cardinality(Referrers(n)) = 0 <=> Referrers(n) = {}
         /\ \A t \in Threads : t \in Referrers(n) <=> Refers(t, n)
  <1>1. Referrers(n) \in SUBSET Threads
    BY DEF Referrers
  <1>2. IsFiniteSet(Referrers(n)) /\ Cardinality(Referrers(n)) <= Cardinality(Threads)
    BY <1>1, FlagAssumption, FS_Subset
  <1>3. Cardinality(Referrers(n)) \in Nat /\ Cardinality(Threads) \in Nat
    BY <1>2, FlagAssumption, FS_CardinalityType
  <1>4. Cardinality(Referrers(n)) = 0 <=> Referrers(n) = {}
    BY <1>2, FS_EmptySet
  <1>5. \A t \in Threads : t \in Referrers(n) <=> Refers(t, n)
    BY DEF Referrers, Refers
  <1> QED
    BY <1>2, <1>3, <1>4, <1>5, FlagAssumption

\* Another pair of states' count: what was said above holds after a step, too.
LEMMA ThreadsCountedNext ==
  ASSUME NEW n
  PROVE  /\ IsFiniteSet(Referrers(n)') /\ Cardinality(Referrers(n)') \in Nat
         /\ Cardinality(Referrers(n)') + 1 < AddFlag
  <1>1. Referrers(n)' \in SUBSET Threads
    BY DEF Referrers
  <1>2. /\ IsFiniteSet(Referrers(n)')
        /\ Cardinality(Referrers(n)') <= Cardinality(Threads)
    BY <1>1, FlagAssumption, FS_Subset
  <1>3. Cardinality(Referrers(n)') \in Nat /\ Cardinality(Threads) \in Nat
    BY <1>2, FlagAssumption, FS_CardinalityType
  <1> QED
    BY <1>2, <1>3, FlagAssumption

\* What the counts, and the rest of the invariant, say of one node.
LEMMA CountIs ==
  ASSUME IndInv, NEW n \in Nodes
  PROVE  /\ FreeListRefs[n] \in 0 .. (2 * AddFlag - 1)
         /\ FreeListRefs[n] = Base(n) + Cardinality(Referrers(n))
         /\ n \in Flagged <=> FreeListRefs[n] >= AddFlag
         /\ FreeListRefs[n] = 0 => n \notin Flagged /\ Referrers(n) = {}
         /\ FreeListRefs[n] = AddFlag => Referrers(n) = {} /\ n \in Flagged
  <1>1. FreeListRefs[n] = Base(n) + Cardinality(Referrers(n))
    BY DEF IndInv, Counted
  <1>2. FreeListRefs[n] \in 0 .. (2 * AddFlag - 1)
    BY DEF IndInv, TypeOK
  <1>3. n \in Flagged <=> FreeListRefs[n] >= AddFlag
    BY DEF Flagged
  <1> QED
    BY <1>1, <1>2, <1>3, ThreadsCounted, FlagAssumption DEF Base

-----------------------------------------------------------------------------
\* A step of thread t, or one of its calls.
Others(t) ==
    \A u \in Threads \ {t} : call'[u] = call[u] /\ held'[u] = held[u]

LEMMA OthersStay ==
  ASSUME NEW t \in Threads, Others(t), NEW u \in Threads \ {t}
  PROVE  /\ Adding(u)' = Adding(u) /\ Owned(u)' = Owned(u) /\ Mine(u)' = Mine(u)
         /\ \A n : Refers(u, n)' <=> Refers(u, n)
  BY DEF Others, Adding, Owned, Mine, Refers, At

\* A step changes the references to a node by its thread's own.
LEMMA ReferrersStep ==
  ASSUME NEW t \in Threads, Others(t), NEW n
  PROVE  Cardinality(Referrers(n)') =
            Cardinality(Referrers(n)) + (IF Refers(t, n)' THEN 1 ELSE 0)
                                      - (IF Refers(t, n) THEN 1 ELSE 0)
  <1>1. IsFiniteSet(Referrers(n)) /\ Cardinality(Referrers(n)) \in Nat
    BY ThreadsCounted
  <1>2. t \in Referrers(n) <=> Refers(t, n)
    BY DEF Referrers, Refers
  <1>3. Referrers(n)' = IF Refers(t, n)' THEN Referrers(n) \union {t}
                                         ELSE Referrers(n) \ {t}
    BY DEF Others, Referrers, Refers
  <1>4. CASE Refers(t, n)'
    <2>1. Cardinality(Referrers(n) \union {t}) =
            IF t \in Referrers(n) THEN Cardinality(Referrers(n))
            ELSE Cardinality(Referrers(n)) + 1
      BY <1>1, FS_AddElement
    <2> QED
      BY <1>1, <1>2, <1>3, <1>4, <2>1
  <1>5. CASE ~ Refers(t, n)'
    <2>1. Cardinality(Referrers(n) \ {t}) =
            IF t \in Referrers(n) THEN Cardinality(Referrers(n)) - 1
            ELSE Cardinality(Referrers(n))
      BY <1>1, FS_RemoveElement
    <2> QED
      BY <1>1, <1>2, <1>3, <1>5, <2>1
  <1> QED
    BY <1>4, <1>5

\* The other threads' part of the invariant.
LEMMA OthersLocal ==
  ASSUME IndInv, NEW t \in Threads, Others(t), fresh' \subseteq fresh,
         \A n \in Nodes \ Mine(t) : /\ FreeListRefs[n] = AddFlag =>
                                          FreeListRefs'[n] = AddFlag
                                    /\ n \in Flagged' <=> n \in Flagged,
         \A n \in Nodes : FreeListNext'[n] = FreeListNext[n]
                            \/ (n \in Mine(t) /\ Referrers(n) = {}),
         NEW u \in Threads \ {t}
  PROVE  Local(u)'
  <1>1. call'[u] = call[u] /\ held'[u] = held[u] /\ Local(u)
    BY DEF Others, IndInv
  <1>2. Adding(u)' = Adding(u) /\ Owned(u)' = Owned(u) /\ Mine(u)' = Mine(u)
    BY OthersStay
  <1>3. Mine(u) \subseteq Nodes \ Mine(t)
    <2>1. Mine(u) \subseteq Nodes
      BY DEF IndInv, TypeOK, Calls, NoCall, Mine, Adding, AddSteps, Owned, At
    <2> QED
      BY <2>1 DEF IndInv, Apart
  <1>4. Owned(u)' \intersect Flagged' = {}
    BY <1>1, <1>2, <1>3 DEF Local, Mine
  <1>5. call[u].step \in AddSteps => call[u].node \in Mine(u)
    BY DEF Mine, Adding
  <1>6. /\ call[u].step \in {"addHead", "addNext", "addRefs"} =>
              FreeListRefs'[call[u].node] = AddFlag
        /\ call[u].step \in {"addCas", "addBusy"} => call[u].node \notin Flagged'
        /\ call[u].step \in {"addRefs", "addCas"} =>
              FreeListNext'[call[u].node] = call[u].head
    BY <1>1, <1>3, <1>5 DEF Local, AddSteps
  <1>7. At(u, "take") => call[u].next = FreeListNext'[call[u].node]
    <2>1. At(u, "take") => call[u].node \in Nodes /\ u \in Referrers(call[u].node)
      BY DEF IndInv, TypeOK, Calls, NoCall, At, Referrers, AddSteps
    <2> QED
      BY <1>1, <2>1 DEF Local
  <1> QED
    BY <1>1, <1>2, <1>4, <1>6, <1>7 DEF Local, At

\* The list where nothing in it changes.
LEMMA Frame ==
  ASSUME FreeChain, Free' = Free, ListHead' = ListHead,
         \A n \in Free : FreeListNext'[n] = FreeListNext[n]
  PROVE  FreeChain'
  <1>1. \A S : Closed(S)' /\ S \in SUBSET Nodes => Closed(S \intersect Free)
    BY DEF FreeChain, Closed, Free
  <1>2. \A S \in SUBSET Nodes : Closed(S)' => Free \subseteq S
    BY <1>1 DEF FreeChain
  <1> QED
    BY <1>2 DEF FreeChain, Closed

\* A node is pushed onto the head its Next leads to.
LEMMA PushChain ==
  ASSUME FreeChain, NEW n \in Nodes \ Free, Free' = Free \union {n},
         FreeListNext[n] = ListHead, FreeListNext' = FreeListNext, ListHead' = n
  PROVE  FreeChain'
  <1> USE NodesAssumption
  <1>1. Closed(Free)'
    BY DEF FreeChain, Closed
  <1>2. ASSUME NEW S \in SUBSET Nodes, Closed(S)' PROVE Free' \subseteq S
    <2>1. n \in S /\ ListHead \in S \union {NoNode}
      BY <1>2 DEF Closed
    <2>2. Closed(S)
      BY <1>2, <2>1 DEF Closed
    <2> QED
      BY <2>1, <2>2 DEF FreeChain
  <1>3. \A m \in Free : FreeListNext[m] # n
    BY DEF FreeChain, Closed
  <1>4. ListHead # NoNode => \A m \in Free : FreeListNext[m] # ListHead
    BY DEF FreeChain, Closed
  <1>5. ListHead # n
    BY DEF FreeChain, Closed
  <1> QED
    BY <1>1, <1>2, <1>3, <1>4, <1>5 DEF FreeChain

\* The head is taken and its Next becomes the head.
LEMMA PopChain ==
  ASSUME FreeChain, NEW n \in Nodes, n = ListHead, Free' = Free \ {n},
         FreeListNext' = FreeListNext, ListHead' = FreeListNext[n]
  PROVE  FreeChain'
  <1> USE NodesAssumption
  <1>1. n \in Free
    BY DEF FreeChain, Closed
  <1>2. Closed(Free)'
    BY <1>1 DEF FreeChain, Closed
  <1>3. ASSUME NEW S \in SUBSET Nodes, Closed(S)' PROVE Free' \subseteq S
    <2>1. Closed(S \union {n})
      BY <1>3 DEF Closed
    <2> QED
      BY <2>1 DEF FreeChain
  <1> QED
    BY <1>1, <1>2, <1>3 DEF FreeChain

-----------------------------------------------------------------------------
LEMMA CallIs ==
  ASSUME TypeOK, NEW t \in Threads
  PROVE  /\ At(t, "addHead") =>
               call[t] \in [step : {"addHead"}, node : Nodes, get : BOOLEAN, back : Ends]
         /\ call[t].step \in AddSteps \ {"addHead"} =>
               call[t] \in [step : AddSteps \ {"addHead"}, node : Nodes, head : Ends,
                            get : BOOLEAN, back : Ends]
         /\ call[t].step \in {"refs", "next", "taken"} =>
               call[t] \in [step : {"refs", "next", "taken"}, node : Nodes]
         /\ At(t, "hold") => call[t] \in [step : {"hold"}, node : Nodes, refs : Nat]
         /\ At(t, "take") => call[t] \in [step : {"take"}, node : Nodes, next : Ends]
         /\ At(t, "letGo") => call[t] \in [step : {"letGo"}, node : Nodes, back : Ends]
  BY DEF TypeOK, Calls, NoCall, At, AddSteps

\* The next call of an InnerAdd.
LEMMA InnerAddOK ==
  ASSUME NEW N, NEW H, NEW G, NEW B, NEW s, NEW h,
         NEW r \in [step : AddSteps \ {"addHead"}, node : N, head : H, get : G, back : B]
  PROVE  /\ [r EXCEPT !.step = s]
               \in [step : {s}, node : {r.node}, head : {r.head}, get : {r.get},
                    back : {r.back}]
         /\ [r EXCEPT !.step = s, !.head = h]
               \in [step : {s}, node : {r.node}, head : {h}, get : {r.get},
                    back : {r.back}]
  OBVIOUS

LEMMA TryOK ==
  ASSUME NEW n \in Ends
  PROVE  /\ Try(n) \in Calls
         /\ Try(n).step \in {"idle", "refs"}
  BY DEF Try, Calls, NoCall, Ends

LEMMA AfterAddOK ==
  ASSUME NEW c, c.back \in Ends
  PROVE  AfterAdd(c) \in Calls /\ AfterAdd(c).step \in {"idle", "refs"}
  BY TryOK DEF AfterAdd, Calls, NoCall

\* A thread between two nodes has nothing to do with any of them.
LEMMA NoNodeInHand ==
  ASSUME NEW t \in Threads
  PROVE  /\ call[t].step \in {"idle", "refs", "reload", "hold"} =>
               /\ Adding(t) = {} /\ Owned(t) = held[t] /\ Mine(t) = held[t]
               /\ \A n : ~Refers(t, n)
         /\ call[t].step \in {"next", "take", "letGo"} =>
               /\ Adding(t) = {} /\ Owned(t) = held[t] /\ Mine(t) = held[t]
               /\ \A n : Refers(t, n) <=> n = call[t].node
         /\ call[t].step = "taken" =>
               /\ Adding(t) = {} /\ Owned(t) = held[t] \union {call[t].node}
               /\ Mine(t) = held[t] \union {call[t].node}
               /\ \A n : Refers(t, n) <=> n = call[t].node
         /\ call[t].step \in AddSteps =>
               /\ Adding(t) = {call[t].node} /\ Owned(t) = held[t]
               /\ Mine(t) = held[t] \union {call[t].node}
               /\ \A n : ~Refers(t, n)
  BY DEF Adding, Owned, Mine, Refers, At, AddSteps

LEMMA NoNodeInHandNext ==
  ASSUME NEW t \in Threads
  PROVE  /\ call'[t].step \in {"idle", "refs", "reload", "hold"} =>
               /\ Adding(t)' = {} /\ Owned(t)' = held'[t] /\ Mine(t)' = held'[t]
               /\ \A n : ~Refers(t, n)'
         /\ call'[t].step \in {"next", "take", "letGo"} =>
               /\ Adding(t)' = {} /\ Owned(t)' = held'[t] /\ Mine(t)' = held'[t]
               /\ \A n : Refers(t, n)' <=> n = call'[t].node
         /\ call'[t].step = "taken" =>
               /\ Adding(t)' = {} /\ Owned(t)' = held'[t] \union {call'[t].node}
               /\ Mine(t)' = held'[t] \union {call'[t].node}
               /\ \A n : Refers(t, n)' <=> n = call'[t].node
         /\ call'[t].step \in AddSteps =>
               /\ Adding(t)' = {call'[t].node} /\ Owned(t)' = held'[t]
               /\ Mine(t)' = held'[t] \union {call'[t].node}
               /\ \A n : ~Refers(t, n)'
  BY DEF Adding, Owned, Mine, Refers, At, AddSteps

\* What is left to show of a step.
LEMMA Close ==
  ASSUME IndInv, NEW t \in Threads, Others(t), TypeOK', Local(t)', fresh' \subseteq fresh,
         \A n \in Nodes \ Mine(t) : /\ FreeListRefs[n] = AddFlag =>
                                          FreeListRefs'[n] = AddFlag
                                    /\ n \in Flagged' <=> n \in Flagged,
         \A n \in Nodes : FreeListNext'[n] = FreeListNext[n]
                            \/ (n \in Mine(t) /\ Referrers(n) = {}),
         \A u \in Threads \ {t} : Mine(t)' \intersect Mine(u) = {},
         \A n \in Flagged' : n \in Mine(t) \/ Refers(t, n) =>
                \E u \in Threads : Refers(u, n)' \/ n \in Adding(u)',
         Counted', FreeChain'
  PROVE  IndInv'
  <1>1. \A u \in Threads : Local(u)'
    BY OthersLocal
  <1>2. \A u \in Threads \ {t} : Mine(u)' = Mine(u) /\ Adding(u)' = Adding(u)
                                 /\ \A n : Refers(u, n)' <=> Refers(u, n)
    BY OthersStay
  <1>3. Apart'
    BY <1>2 DEF IndInv, Apart
  <1>4. Pending'
    <2> SUFFICES ASSUME NEW n \in Flagged'
                 PROVE  n \notin fresh'
                        /\ \E u \in Threads : Refers(u, n)' \/ n \in Adding(u)'
      BY DEF Pending
    <2>1. n \in Nodes
      BY DEF Flagged
    <2>2. CASE n \in Mine(t)
      BY <2>2 DEF IndInv, Local
    <2>3. CASE n \notin Mine(t)
      <3>1. n \in Flagged
        BY <2>1, <2>3
      <3>2. n \notin fresh'
        BY <3>1 DEF IndInv, Pending
      <3>3. PICK u \in Threads : Refers(u, n) \/ n \in Adding(u)
        BY <3>1 DEF IndInv, Pending
      <3>4. u = t => Refers(t, n)
        BY <2>3, <3>3 DEF Mine
      <3> QED
        BY <1>2, <3>2, <3>3, <3>4
    <2> QED
      BY <2>2, <2>3
  <1> QED
    BY <1>1, <1>3, <1>4 DEF IndInv

\* The counts, where those of one node change.
LEMMA CountStep ==
  ASSUME IndInv, NEW t \in Threads, Others(t), NEW n \in Nodes,
         \A m \in Nodes \ {n} : /\ FreeListRefs'[m] = FreeListRefs[m]
                                /\ Refers(t, m)' <=> Refers(t, m)
                                /\ m \in fresh' <=> m \in fresh
                                /\ m \in held'[t] <=> m \in held[t],
         FreeListRefs'[n] = Base(n)' + Cardinality(Referrers(n)')
  PROVE  Counted'
  <1> SUFFICES ASSUME NEW m \in Nodes \ {n}
               PROVE  FreeListRefs'[m] = Base(m)' + Cardinality(Referrers(m)')
    BY DEF Counted
  <1>1. Cardinality(Referrers(m)') = Cardinality(Referrers(m))
    BY ReferrersStep, ThreadsCounted
  <1>2. (m \in Flagged)' <=> m \in Flagged
    BY DEF Flagged
  <1>3. Unlisted(m)' <=> Unlisted(m)
    BY DEF Unlisted, Others
  <1>4. Base(m)' = Base(m)
    BY <1>2, <1>3 DEF Base
  <1> QED
    BY <1>1, <1>4 DEF IndInv, Counted

\* A step that changes no node, nor what the thread has to do with any.
LEMMA QuietStep ==
  ASSUME IndInv, NEW t \in Threads, Others(t), TypeOK', Local(t)',
         UNCHANGED <<ListHead, FreeListNext, FreeListRefs, fresh, held>>,
         Adding(t)' = Adding(t), Owned(t)' = Owned(t),
         \A n : Refers(t, n)' <=> Refers(t, n)
  PROVE  IndInv'
  <1>1. Mine(t)' = Mine(t)
    BY DEF Mine
  <1>2. Flagged' = Flagged /\ \A n : Unlisted(n)' <=> Unlisted(n)
    BY DEF Flagged, Unlisted
  <1>3. \A u \in Threads \ {t} : /\ Mine(u)' = Mine(u) /\ Adding(u)' = Adding(u)
                                 /\ \A n : Refers(u, n)' <=> Refers(u, n)
    BY OthersStay
  <1>4. Free' = Free
    BY <1>1, <1>2, <1>3 DEF Free
  <1>5. FreeChain'
    BY <1>4, Frame DEF IndInv
  <1>6. Counted'
    <2>1. \A n : Cardinality(Referrers(n)') = Cardinality(Referrers(n))
      BY ReferrersStep, ThreadsCounted
    <2> QED
      BY <1>2, <2>1 DEF IndInv, Counted, Base
  <1>7. Pending' /\ Apart'
    BY <1>1, <1>2, <1>3 DEF IndInv, Pending, Apart
  <1>8. \A u \in Threads \ {t} : Local(u)'
    <2>1. /\ fresh' \subseteq fresh
          /\ \A n \in Nodes \ Mine(t) : /\ FreeListRefs[n] = AddFlag =>
                                              FreeListRefs'[n] = AddFlag
                                        /\ n \in Flagged' <=> n \in Flagged
          /\ \A n \in Nodes : FreeListNext'[n] = FreeListNext[n]
                                \/ (n \in Mine(t) /\ Referrers(n) = {})
      BY <1>2
    <2> QED
      BY <2>1, OthersLocal
  <1> QED
    BY <1>5, <1>6, <1>7, <1>8 DEF IndInv

-----------------------------------------------------------------------------
\* A thread that goes to a step where it has no node in hand, from one where it had
\* none either.
LEMMA EmptyHanded ==
  ASSUME IndInv, NEW t \in Threads, NEW c \in Calls, Goto(t, c),
         UNCHANGED <<ListHead, FreeListNext, FreeListRefs, fresh, held>>,
         call[t].step \in {"idle", "refs", "reload", "hold"},
         c.step \in {"idle", "refs", "reload", "hold"},
         c.step = "hold" => ~Taken(c.refs)
  PROVE  IndInv'
  <1>1. call' \in [Threads -> Calls] /\ call'[t] = c /\ Others(t)
    BY DEF IndInv, TypeOK, Goto, Others
  <1>2. TypeOK'
    BY <1>1 DEF IndInv, TypeOK
  <1>3. /\ Adding(t) = {} /\ Owned(t) = held[t] /\ Mine(t) = held[t]
        /\ \A n : ~Refers(t, n)
    BY NoNodeInHand
  <1>4. /\ Adding(t)' = {} /\ Owned(t)' = held'[t] /\ Mine(t)' = held'[t]
        /\ \A n : ~Refers(t, n)'
    BY <1>1, NoNodeInHandNext
  <1>5. Local(t)'
    <2>1. Local(t) /\ Flagged' = Flagged
      BY DEF IndInv, Flagged
    <2> QED
      BY <1>1, <1>3, <1>4, <2>1 DEF Local, At
  <1> QED
    BY <1>1, <1>2, <1>3, <1>4, <1>5, QuietStep

LEMMA AskStep ==
  ASSUME IndInv, NEW t \in Threads, At(t, "idle"), Goto(t, [step |-> "reload"]),
         UNCHANGED <<ListHead, FreeListNext, FreeListRefs, fresh, held>>
  PROVE  IndInv'
  BY EmptyHanded DEF Calls, At

LEMMA LoadHeadStep ==
  ASSUME IndInv, NEW t \in Threads, call[t].step \in {"idle", "reload"}, LoadHead(t)
  PROVE  IndInv'
  <1>1. Try(ListHead) \in Calls /\ Try(ListHead).step \in {"idle", "refs"}
    BY TryOK DEF IndInv, TypeOK
  <1> QED
    BY <1>1, EmptyHanded DEF LoadHead

LEMMA LoadRefsStep ==
  ASSUME IndInv, NEW t \in Threads, LoadRefs(t)
  PROVE  IndInv'
  <1>1. At(t, "refs") /\ call[t].node \in Nodes
    BY CallIs DEF LoadRefs, At, IndInv
  <1>2. FreeListRefs[call[t].node] \in Nat
    BY <1>1, FlagAssumption DEF IndInv, TypeOK
  <1>3. CASE Taken(FreeListRefs[call[t].node])
    BY <1>1, <1>3, EmptyHanded DEF LoadRefs, Calls, At
  <1>4. CASE ~Taken(FreeListRefs[call[t].node])
    <2> DEFINE c == [step |-> "hold", node |-> call[t].node,
                     refs |-> FreeListRefs[call[t].node]]
    <2>1. c \in Calls /\ c.step = "hold" /\ c.refs = FreeListRefs[call[t].node]
      BY <1>1, <1>2 DEF Calls
    <2>2. Goto(t, c) /\ UNCHANGED <<ListHead, FreeListNext, FreeListRefs, fresh, held>>
      BY <1>4 DEF LoadRefs
    <2> HIDE DEF c
    <2> QED
      BY <1>1, <1>4, <2>1, <2>2, EmptyHanded DEF At
  <1> QED
    BY <1>3, <1>4

\* An InnerAdd goes on with the same node.
LEMMA StillAdding ==
  ASSUME IndInv, NEW t \in Threads, NEW c \in Calls, Goto(t, c),
         UNCHANGED <<ListHead, FreeListNext, FreeListRefs, fresh, held>>,
         call[t].step \in AddSteps, c.step \in AddSteps, c.node = call[t].node,
         c.step \in {"addHead", "addNext", "addRefs"} =>
            FreeListRefs[c.node] = AddFlag,
         c.step \in {"addCas", "addBusy"} => c.node \notin Flagged,
         c.step \in {"addRefs", "addCas"} => FreeListNext[c.node] = c.head
  PROVE  IndInv'
  <1>1. call' \in [Threads -> Calls] /\ call'[t] = c /\ Others(t)
    BY DEF IndInv, TypeOK, Goto, Others
  <1>2. TypeOK'
    BY <1>1 DEF IndInv, TypeOK
  <1>3. /\ Adding(t) = {c.node} /\ Owned(t) = held[t]
        /\ Mine(t) = held[t] \union {c.node} /\ \A n : ~Refers(t, n)
    BY NoNodeInHand
  <1>4. /\ Adding(t)' = {c.node} /\ Owned(t)' = held'[t]
        /\ Mine(t)' = held'[t] \union {c.node} /\ \A n : ~Refers(t, n)'
    BY <1>1, NoNodeInHandNext
  <1>5. Local(t)'
    <2>1. c.step \notin {"taken", "hold", "take"}
      BY DEF AddSteps
    <2>2. Local(t) /\ Flagged' = Flagged
      BY DEF IndInv, Flagged
    <2> QED
      BY <1>1, <1>3, <1>4, <2>1, <2>2 DEF Local, At
  <1> QED
    BY <1>1, <1>2, <1>3, <1>4, <1>5, QuietStep

LEMMA LoadHeadToAddStep ==
  ASSUME IndInv, NEW t \in Threads, LoadHeadToAdd(t)
  PROVE  IndInv'
  <1> DEFINE c == [step |-> "addNext", node |-> call[t].node, head |-> ListHead,
                   get |-> call[t].get, back |-> call[t].back]
  <1>1. call[t] \in [step : {"addHead"}, node : Nodes, get : BOOLEAN, back : Ends]
    BY CallIs DEF LoadHeadToAdd, IndInv
  <1>2. c \in Calls /\ c.step = "addNext" /\ c.node = call[t].node
    BY <1>1 DEF IndInv, TypeOK, Calls, AddSteps
  <1>3. call[t].step \in AddSteps /\ FreeListRefs[call[t].node] = AddFlag
    BY <1>1 DEF IndInv, Local, AddSteps
  <1>4. Goto(t, c) /\ UNCHANGED <<ListHead, FreeListNext, FreeListRefs, fresh, held>>
    BY DEF LoadHeadToAdd
  <1> HIDE DEF c
  <1> QED
    BY <1>2, <1>3, <1>4, StillAdding DEF AddSteps

\* A TryGet goes on with the node it refers to.
LEMMA StillReferring ==
  ASSUME IndInv, NEW t \in Threads, NEW c \in Calls, Goto(t, c),
         UNCHANGED <<ListHead, FreeListNext, FreeListRefs, fresh, held>>,
         call[t].step \in {"next", "take", "letGo"},
         c.step \in {"next", "take", "letGo"}, c.node = call[t].node,
         c.step = "take" => c.next = FreeListNext[c.node]
  PROVE  IndInv'
  <1>1. call' \in [Threads -> Calls] /\ call'[t] = c /\ Others(t)
    BY DEF IndInv, TypeOK, Goto, Others
  <1>2. TypeOK'
    BY <1>1 DEF IndInv, TypeOK
  <1>3. /\ Adding(t) = {} /\ Owned(t) = held[t] /\ Mine(t) = held[t]
        /\ \A n : Refers(t, n) <=> n = c.node
    BY NoNodeInHand
  <1>4. /\ Adding(t)' = {} /\ Owned(t)' = held'[t] /\ Mine(t)' = held'[t]
        /\ \A n : Refers(t, n)' <=> n = c.node
    BY <1>1, NoNodeInHandNext
  <1>5. Local(t)'
    <2>1. Local(t) /\ Flagged' = Flagged
      BY DEF IndInv, Flagged
    <2> QED
      BY <1>1, <1>3, <1>4, <2>1 DEF Local, At
  <1> QED
    BY <1>1, <1>2, <1>3, <1>4, <1>5, QuietStep

LEMMA LoadNextStep ==
  ASSUME IndInv, NEW t \in Threads, LoadNext(t)
  PROVE  IndInv'
  <1> DEFINE c == [step |-> "take", node |-> call[t].node,
                   next |-> FreeListNext[call[t].node]]
  <1>1. At(t, "next") /\ call[t].node \in Nodes
    BY CallIs DEF LoadNext, IndInv, At
  <1>2. /\ c \in Calls /\ c.step = "take" /\ c.node = call[t].node
        /\ c.next = FreeListNext[call[t].node]
    BY <1>1 DEF IndInv, TypeOK, Calls
  <1>3. Goto(t, c) /\ UNCHANGED <<ListHead, FreeListNext, FreeListRefs, fresh, held>>
    BY DEF LoadNext
  <1> HIDE DEF c
  <1> QED
    BY <1>1, <1>2, <1>3, StillReferring DEF At

-----------------------------------------------------------------------------
\* The list's nodes are the same if no node comes to anybody's hands, or leaves all.
LEMMA FreeStays ==
  ASSUME NEW t \in Threads, Others(t),
         \A n \in Nodes : n \in fresh' \union Flagged' \union Mine(t)'
                            <=> n \in fresh \union Flagged \union Mine(t)
  PROVE  Free' = Free
  <1>1. \A u \in Threads \ {t} : Mine(u)' = Mine(u)
    BY OthersStay
  <1> QED
    BY <1>1 DEF Free

LEMMA ObtainStep ==
  ASSUME IndInv, NEW t \in Threads, NEW n \in Nodes, Obtain(t, n)
  PROVE  IndInv'
  <1>1. /\ At(t, "idle") /\ n \in fresh /\ fresh' = fresh \ {n}
        /\ held' = [held EXCEPT ![t] = @ \union {n}]
        /\ UNCHANGED <<ListHead, FreeListNext, FreeListRefs, call>>
    BY DEF Obtain
  <1>2. Others(t) /\ held'[t] = held[t] \union {n} /\ TypeOK'
    BY <1>1 DEF IndInv, TypeOK, Others
  <1>3. /\ Adding(t) = {} /\ Owned(t) = held[t] /\ Mine(t) = held[t]
        /\ \A m : ~Refers(t, m)
    BY <1>1, NoNodeInHand DEF At
  <1>4. /\ Adding(t)' = {} /\ Owned(t)' = held'[t] /\ Mine(t)' = held'[t]
        /\ \A m : ~Refers(t, m)'
    BY <1>1, NoNodeInHandNext DEF At
  <1>5. Flagged' = Flagged /\ n \notin Flagged
    BY <1>1 DEF IndInv, Flagged, Pending
  <1>6. Local(t)'
    <2>1. Local(t)
      BY DEF IndInv
    <2> QED
      BY <1>1, <1>2, <1>3, <1>4, <1>5, <2>1 DEF Local, At
  <1>7. \A u \in Threads \ {t} : Mine(t)' \intersect Mine(u) = {}
    BY <1>1, <1>2, <1>3, <1>4 DEF IndInv, Local, Apart
  <1>8. Counted'
    <2>1. Unlisted(n)' /\ Unlisted(n)
      BY <1>1, <1>2 DEF Unlisted
    <2>2. Base(n)' = Base(n)
      BY <1>5, <2>1 DEF Base
    <2>3. Cardinality(Referrers(n)') = Cardinality(Referrers(n))
      BY <1>2, <1>3, <1>4, ReferrersStep, ThreadsCounted
    <2>4. FreeListRefs'[n] = Base(n)' + Cardinality(Referrers(n)')
      BY <1>1, <2>2, <2>3, CountIs
    <2> QED
      BY <1>1, <1>2, <1>3, <1>4, <2>4, CountStep
  <1>9. FreeChain'
    <2>1. Free' = Free
      BY <1>1, <1>2, <1>3, <1>4, <1>5, FreeStays
    <2> QED
      BY <1>1, <2>1, Frame DEF IndInv
  <1>10. \A m \in Flagged' : ~(m \in Mine(t) \/ Refers(t, m))
    BY <1>3, <1>5 DEF IndInv, Local
  <1> QED
    BY <1>1, <1>2, <1>5, <1>6, <1>7, <1>8, <1>9, <1>10, Close

LEMMA AddStep ==
  ASSUME IndInv, RepeatedAdds = FALSE, NEW t \in Threads, NEW n \in Nodes, Add(t, n)
  PROVE  IndInv'
  <1> USE FlagAssumption
  <1>1. /\ At(t, "idle") /\ n \in held[t] /\ held' = [held EXCEPT ![t] = @ \ {n}]
        /\ Plus(n, AddFlag) /\ UNCHANGED <<ListHead, FreeListNext, fresh>>
    BY DEF Add
  <1>2. /\ Adding(t) = {} /\ Owned(t) = held[t] /\ Mine(t) = held[t]
        /\ \A m : ~Refers(t, m)
    BY <1>1, NoNodeInHand DEF At
  <1>3. n \notin Flagged /\ Base(n) = 0
    BY <1>1, <1>2 DEF IndInv, Local, Base, Unlisted
  <1>4. /\ FreeListRefs[n] = Cardinality(Referrers(n))
        /\ FreeListRefs[n] \in Nat /\ FreeListRefs[n] + 1 < AddFlag
    BY <1>3, CountIs, ThreadsCounted
  <1>5. /\ FreeListRefs'[n] = AddFlag + FreeListRefs[n]
        /\ \A m \in Nodes \ {n} : FreeListRefs'[m] = FreeListRefs[m]
        /\ FreeListRefs' \in [Nodes -> 0 .. (2 * AddFlag - 1)]
    BY <1>1, <1>4, PlusIs DEF IndInv
  <1>6. Flagged' = Flagged \union {n}
    BY <1>4, <1>5 DEF Flagged
  <1> DEFINE c == [step |-> "addHead", node |-> n, get |-> FALSE, back |-> NoNode]
  <1>7. c \in Calls /\ c.step = "addHead" /\ c.node = n /\ c.step \in AddSteps
    BY DEF Calls, Ends, AddSteps
  <1>8. IF FreeListRefs[n] = 0 THEN Goto(t, c) ELSE UNCHANGED call
    BY DEF Add
  <1> HIDE DEF c
  <1>9. Others(t) /\ held'[t] = held[t] \ {n} /\ TypeOK'
    BY <1>1, <1>5, <1>7, <1>8 DEF IndInv, TypeOK, Others, Goto
  <1>10. /\ FreeListRefs[n] = 0 => call'[t] = c
         /\ FreeListRefs[n] # 0 => call'[t] = call[t]
    BY <1>8 DEF IndInv, TypeOK, Goto
  <1>11. /\ Adding(t)' = IF FreeListRefs[n] = 0 THEN {n} ELSE {}
         /\ Owned(t)' = held'[t] /\ Mine(t)' \subseteq held[t]
         /\ Mine(t)' = held'[t] \union Adding(t)'
         /\ \A m : ~Refers(t, m)'
    <2>1. CASE FreeListRefs[n] = 0
      BY <1>1, <1>7, <1>9, <1>10, <2>1, NoNodeInHandNext
    <2>2. CASE FreeListRefs[n] # 0
      BY <1>1, <1>9, <1>10, <2>2, NoNodeInHandNext DEF At
    <2> QED
      BY <2>1, <2>2
  <1>12. Local(t)'
    <2>1. Local(t)
      BY DEF IndInv
    <2>2. Owned(t)' \intersect Flagged' = {} /\ Mine(t)' \intersect fresh' = {}
      BY <1>1, <1>2, <1>6, <1>9, <1>11, <2>1 DEF Local
    <2>3. held'[t] \intersect Adding(t)' = {}
      BY <1>9, <1>11
    <2>4. CASE FreeListRefs[n] = 0
      BY <1>5, <1>7, <1>10, <2>2, <2>3, <2>4 DEF Local, At
    <2>5. CASE FreeListRefs[n] # 0
      BY <1>1, <1>10, <2>2, <2>3, <2>5 DEF Local, At
    <2> QED
      BY <2>4, <2>5
  <1>13. \A u \in Threads \ {t} : Mine(t)' \intersect Mine(u) = {}
    BY <1>2, <1>11 DEF IndInv, Apart
  <1>14. \E u \in Threads : Refers(u, n)' \/ n \in Adding(u)'
    <2>1. CASE FreeListRefs[n] = 0
      BY <1>11, <2>1
    <2>2. CASE FreeListRefs[n] # 0
      <3>1. PICK u \in Threads : Refers(u, n)
        BY <1>4, <2>2, ThreadsCounted DEF Referrers, Refers
      <3> QED
        BY <1>2, <1>9, <3>1, OthersStay
    <2> QED
      BY <2>1, <2>2
  <1>15. Counted'
    <2>1. Base(n)' = AddFlag
      BY <1>6 DEF Base
    <2>2. Cardinality(Referrers(n)') = Cardinality(Referrers(n))
      BY <1>2, <1>9, <1>11, ReferrersStep, ThreadsCounted
    <2>3. FreeListRefs'[n] = Base(n)' + Cardinality(Referrers(n)')
      BY <1>4, <1>5, <2>1, <2>2
    <2> QED
      BY <1>1, <1>2, <1>5, <1>9, <1>11, <2>3, CountStep
  <1>16. FreeChain'
    <2>1. \A m \in Nodes : m \in fresh' \union Flagged' \union Mine(t)'
                            <=> m \in fresh \union Flagged \union Mine(t)
      BY <1>1, <1>2, <1>6, <1>9, <1>11
    <2> QED
      BY <1>1, <1>9, <2>1, FreeStays, Frame DEF IndInv
  <1>17. /\ \A m \in Nodes \ Mine(t) : /\ FreeListRefs'[m] = FreeListRefs[m]
                                       /\ m \in Flagged' <=> m \in Flagged
         /\ \A m \in Flagged' : m \in Mine(t) \/ Refers(t, m) => m = n
    BY <1>1, <1>2, <1>5, <1>6 DEF IndInv, Local
  <1> QED
    BY <1>1, <1>9, <1>12, <1>13, <1>14, <1>15, <1>16, <1>17, Close

-----------------------------------------------------------------------------
\* Where thread t is in InnerAdd.
LEMMA InnerAddIs ==
  ASSUME IndInv, NEW t \in Threads, call[t].step \in AddSteps \ {"addHead"}
  PROVE  /\ call[t] \in [step : AddSteps \ {"addHead"}, node : Nodes, head : Ends,
                         get : BOOLEAN, back : Ends]
         /\ call[t].node \in Nodes /\ call[t].back \in Ends
         /\ Adding(t) = {call[t].node} /\ Owned(t) = held[t]
         /\ Mine(t) = held[t] \union {call[t].node} /\ call[t].node \notin held[t]
         /\ call[t].node \notin fresh /\ ~Unlisted(call[t].node)
         /\ \A n : ~Refers(t, n)
  <1>1. call[t] \in [step : AddSteps \ {"addHead"}, node : Nodes, head : Ends,
                     get : BOOLEAN, back : Ends]
    BY CallIs DEF IndInv
  <1>2. /\ Adding(t) = {call[t].node} /\ Owned(t) = held[t]
        /\ Mine(t) = held[t] \union {call[t].node} /\ \A n : ~Refers(t, n)
    BY NoNodeInHand
  <1>3. Local(t)
    BY DEF IndInv
  <1>4. call[t].node \notin held[t] /\ call[t].node \notin fresh
    BY <1>2, <1>3 DEF Local
  <1>5. \A u \in Threads \ {t} : call[t].node \notin held[u]
    BY <1>2 DEF IndInv, Apart, Mine, Owned
  <1> QED
    BY <1>1, <1>2, <1>4, <1>5 DEF Unlisted

LEMMA StoreNextStep ==
  ASSUME IndInv, NEW t \in Threads, StoreNext(t)
  PROVE  IndInv'
  <1>0. PICK n : n = call[t].node
    OBVIOUS
  <1> USE <1>0
  <1> DEFINE c == [call[t] EXCEPT !.step = "addRefs"]
  <1>1. /\ At(t, "addNext") /\ FreeListNext' = [FreeListNext EXCEPT ![n] = call[t].head]
        /\ Goto(t, c) /\ UNCHANGED <<ListHead, FreeListRefs, fresh, held>>
    BY DEF StoreNext
  <1>2. call[t].step \in AddSteps \ {"addHead"}
    BY <1>1 DEF AddSteps, At
  <1>a. call[t] \in [step : AddSteps \ {"addHead"}, node : Nodes, head : Ends,
                     get : BOOLEAN, back : Ends]
    BY <1>2, InnerAddIs
  <1>3. c \in [step : {"addRefs"}, node : {n}, head : {call[t].head},
               get : {call[t].get}, back : {call[t].back}]
    BY <1>a, InnerAddOK
  <1>4. c \in Calls /\ c.step = "addRefs" /\ c.node = n /\ c.head = call[t].head
    BY <1>a, <1>3 DEF Calls, AddSteps
  <1> HIDE DEF c
  <1>5. Others(t) /\ TypeOK' /\ call'[t] = c
    BY <1>1, <1>a, <1>4 DEF IndInv, TypeOK, Others, Goto
  <1>6. /\ n \in Nodes /\ Adding(t) = {n} /\ Owned(t) = held[t]
        /\ Mine(t) = held[t] \union {n} /\ n \notin held[t] /\ \A m : ~Refers(t, m)
    BY <1>2, InnerAddIs
  <1>7. /\ Adding(t)' = {n} /\ Owned(t)' = held[t] /\ Mine(t)' = held[t] \union {n}
        /\ \A m : ~Refers(t, m)'
    BY <1>1, <1>4, <1>5, NoNodeInHandNext DEF AddSteps
  <1>8. FreeListRefs[n] = AddFlag /\ Referrers(n) = {} /\ Local(t) /\ Flagged' = Flagged
    BY <1>1, <1>6, CountIs DEF IndInv, Local, At, Flagged
  <1>9. FreeListNext'[n] = call[t].head /\
        \A m \in Nodes \ {n} : FreeListNext'[m] = FreeListNext[m]
    BY <1>1, <1>6 DEF IndInv, TypeOK
  <1>10. Local(t)'
    BY <1>1, <1>4, <1>5, <1>6, <1>7, <1>8, <1>9 DEF Local, At
  <1>11. \A u \in Threads \ {t} : Mine(t)' \intersect Mine(u) = {}
    BY <1>6, <1>7 DEF IndInv, Apart
  <1>12. \A m \in Flagged' : m \in Mine(t) \/ Refers(t, m) => m \in Adding(t)'
    BY <1>6, <1>7, <1>8 DEF Local
  <1>13. Counted'
    <2>1. Base(n)' = Base(n)
      BY <1>1, <1>8 DEF Base, Unlisted
    <2>2. Cardinality(Referrers(n)') = Cardinality(Referrers(n))
      BY <1>5, <1>6, <1>7, ReferrersStep, ThreadsCounted
    <2>3. FreeListRefs'[n] = Base(n)' + Cardinality(Referrers(n)')
      BY <1>1, <1>6, <2>1, <2>2, CountIs
    <2> QED
      BY <1>1, <1>5, <1>6, <1>7, <2>3, CountStep
  <1>14. FreeChain'
    <2>1. Free' = Free
      BY <1>1, <1>5, <1>6, <1>7, <1>8, FreeStays
    <2>2. n \notin Free
      BY <1>6 DEF Free
    <2> QED
      BY <1>1, <1>9, <2>1, <2>2, Frame DEF IndInv, Free
  <1> QED
    BY <1>1, <1>5, <1>6, <1>8, <1>9, <1>10, <1>11, <1>12, <1>13, <1>14, Close

LEMMA StoreRefsStep ==
  ASSUME IndInv, NEW t \in Threads, StoreRefs(t)
  PROVE  IndInv'
  <1> USE FlagAssumption
  <1>0. PICK n : n = call[t].node
    OBVIOUS
  <1> USE <1>0
  <1> DEFINE c == [call[t] EXCEPT !.step = "addCas"]
  <1>1. /\ At(t, "addRefs") /\ FreeListRefs' = [FreeListRefs EXCEPT ![n] = 1]
        /\ Goto(t, c) /\ UNCHANGED <<ListHead, FreeListNext, fresh, held>>
    BY DEF StoreRefs
  <1>2. call[t].step \in AddSteps \ {"addHead"}
    BY <1>1 DEF AddSteps, At
  <1>a. call[t] \in [step : AddSteps \ {"addHead"}, node : Nodes, head : Ends,
                     get : BOOLEAN, back : Ends]
    BY <1>2, InnerAddIs
  <1>3. c \in [step : {"addCas"}, node : {n}, head : {call[t].head},
               get : {call[t].get}, back : {call[t].back}]
    BY <1>a, InnerAddOK
  <1>4. c \in Calls /\ c.step = "addCas" /\ c.node = n /\ c.head = call[t].head
    BY <1>a, <1>3 DEF Calls, AddSteps
  <1> HIDE DEF c
  <1>5. Others(t) /\ TypeOK' /\ call'[t] = c
    BY <1>1, <1>a, <1>4 DEF IndInv, TypeOK, Others, Goto
  <1>6. /\ n \in Nodes /\ Adding(t) = {n} /\ Owned(t) = held[t] /\ ~Unlisted(n)
        /\ Mine(t) = held[t] \union {n} /\ n \notin held[t] /\ \A m : ~Refers(t, m)
    BY <1>2, InnerAddIs
  <1>7. /\ Adding(t)' = {n} /\ Owned(t)' = held[t] /\ Mine(t)' = held[t] \union {n}
        /\ \A m : ~Refers(t, m)'
    BY <1>1, <1>4, <1>5, NoNodeInHandNext DEF AddSteps
  <1>8. /\ FreeListRefs[n] = AddFlag /\ Referrers(n) = {} /\ Local(t)
        /\ FreeListNext[n] = call[t].head
    BY <1>1, <1>6, CountIs DEF IndInv, Local, At
  <1>b. /\ FreeListRefs'[n] = 1
        /\ \A m \in Nodes \ {n} : FreeListRefs'[m] = FreeListRefs[m]
    BY <1>1, <1>6 DEF IndInv, TypeOK
  <1>9. Flagged' = Flagged \ {n}
    BY <1>6, <1>b, ThreadsCounted DEF Flagged
  <1>10. Local(t)'
    BY <1>1, <1>4, <1>5, <1>6, <1>7, <1>8, <1>9, <1>b DEF Local, At
  <1>11. \A u \in Threads \ {t} : Mine(t)' \intersect Mine(u) = {}
    BY <1>6, <1>7 DEF IndInv, Apart
  <1>12. \A m \in Flagged' : ~(m \in Mine(t) \/ Refers(t, m))
    BY <1>6, <1>8, <1>9, <1>b DEF Local
  <1>13. Counted'
    <2>1. ~Unlisted(n)' /\ n \notin Flagged'
      BY <1>1, <1>6, <1>9, <1>b DEF Unlisted
    <2>2. Base(n)' = 1
      BY <2>1 DEF Base
    <2>3. Cardinality(Referrers(n)') = 0
      BY <1>5, <1>6, <1>7, <1>8, ReferrersStep, ThreadsCounted
    <2> QED
      BY <1>1, <1>5, <1>6, <1>7, <1>9, <1>b, <2>2, <2>3, CountStep
  <1>14. FreeChain'
    <2>1. Free' = Free
      BY <1>1, <1>5, <1>6, <1>7, <1>9, <1>b, FreeStays
    <2> QED
      BY <1>1, <2>1, Frame DEF IndInv
  <1> QED
    BY <1>1, <1>5, <1>6, <1>9, <1>b, <1>10, <1>11, <1>12, <1>13, <1>14, Close

LEMMA SwapHeadInStep ==
  ASSUME IndInv, NEW t \in Threads, SwapHeadIn(t)
  PROVE  IndInv'
  <1>0. PICK n : n = call[t].node
    OBVIOUS
  <1> USE <1>0
  <1>1. At(t, "addCas") /\ UNCHANGED <<FreeListNext, FreeListRefs, fresh, held>>
    BY DEF SwapHeadIn
  <1>2. call[t].step \in AddSteps \ {"addHead"} /\ call[t].step \in AddSteps
    BY <1>1 DEF AddSteps, At
  <1>3. call[t] \in [step : AddSteps \ {"addHead"}, node : Nodes, head : Ends,
                     get : BOOLEAN, back : Ends]
    BY <1>2, InnerAddIs
  <1>4. /\ n \in Nodes /\ Adding(t) = {n} /\ Owned(t) = held[t] /\ ~Unlisted(n)
        /\ Mine(t) = held[t] \union {n} /\ n \notin held[t] /\ n \notin fresh
        /\ \A m : ~Refers(t, m)
    BY <1>2, InnerAddIs
  <1>5. Local(t) /\ n \notin Flagged /\ FreeListNext[n] = call[t].head
    BY <1>1 DEF IndInv, Local, At
  <1>6. CASE ListHead # call[t].head
    <2> DEFINE c == [call[t] EXCEPT !.step = "addBusy", !.head = ListHead]
    <2>1. c \in [step : {"addBusy"}, node : {n}, head : {ListHead},
                 get : {call[t].get}, back : {call[t].back}]
      BY <1>3, InnerAddOK
    <2>2. c \in Calls /\ c.step = "addBusy" /\ c.node = n
      BY <1>3, <2>1 DEF Calls, AddSteps, IndInv, TypeOK
    <2>3. Goto(t, c) /\ UNCHANGED ListHead
      BY <1>6 DEF SwapHeadIn
    <2> HIDE DEF c
    <2> QED
      BY <1>1, <1>2, <1>5, <2>2, <2>3, StillAdding DEF AddSteps
  <1>7. CASE ListHead = call[t].head
    <2> DEFINE c == AfterAdd(call[t])
    <2>1. ListHead' = n /\ Goto(t, c)
      BY <1>7 DEF SwapHeadIn
    <2>2. c \in Calls /\ c.step \in {"idle", "refs"}
      BY <1>2, InnerAddIs, AfterAddOK
    <2> HIDE DEF c
    <2>3. Others(t) /\ TypeOK' /\ call'[t] = c
      BY <1>1, <1>4, <2>1, <2>2 DEF IndInv, TypeOK, Others, Goto, Ends
    <2>4. /\ Adding(t)' = {} /\ Owned(t)' = held[t] /\ Mine(t)' = held[t]
          /\ \A m : ~Refers(t, m)'
      BY <1>1, <2>2, <2>3, NoNodeInHandNext
    <2>5. Flagged' = Flagged
      BY <1>1 DEF Flagged
    <2>6. Local(t)'
      BY <1>1, <1>4, <1>5, <2>2, <2>3, <2>4, <2>5 DEF Local, At
    <2>7. \A u \in Threads \ {t} : Mine(t)' \intersect Mine(u) = {}
      BY <1>4, <2>4 DEF IndInv, Apart
    <2>8. \A m \in Flagged' : ~(m \in Mine(t) \/ Refers(t, m))
      BY <1>4, <1>5, <2>5 DEF Local
    <2>9. Counted'
      <3>1. Base(n)' = Base(n) /\ Cardinality(Referrers(n)') = Cardinality(Referrers(n))
        BY <1>1, <1>4, <2>3, <2>4, <2>5, ReferrersStep, ThreadsCounted DEF Base, Unlisted
      <3>2. FreeListRefs'[n] = Base(n)' + Cardinality(Referrers(n)')
        BY <1>1, <1>4, <3>1, CountIs
      <3> QED
        BY <1>1, <1>4, <2>3, <2>4, <3>2, CountStep
    <2>10. FreeChain'
      <3>1. n \notin Free
        BY <1>4 DEF Free
      <3>2. \A u \in Threads \ {t} : Mine(u)' = Mine(u) /\ n \notin Mine(u)
        BY <1>4, <2>3, OthersStay DEF IndInv, Apart
      <3>3. Free' = Free \union {n}
        BY <1>1, <1>4, <1>5, <2>4, <2>5, <3>2 DEF Free
      <3> QED
        BY <1>1, <1>4, <1>5, <1>7, <2>1, <3>1, <3>3, PushChain DEF IndInv
    <2> QED
      BY <1>1, <2>3, <2>5, <2>6, <2>7, <2>8, <2>9, <2>10, Close
  <1> QED
    BY <1>6, <1>7

LEMMA AddBusyStep ==
  ASSUME IndInv, NEW t \in Threads, AddBusy(t)
  PROVE  IndInv'
  <1> USE FlagAssumption
  <1>0. PICK n : n = call[t].node
    OBVIOUS
  <1> USE <1>0
  <1>1. /\ At(t, "addBusy") /\ Plus(n, AddFlag - 1)
        /\ UNCHANGED <<ListHead, FreeListNext, fresh, held>>
    BY DEF AddBusy
  <1>2. call[t].step \in AddSteps \ {"addHead"}
    BY <1>1 DEF AddSteps, At
  <1>3. /\ call[t] \in [step : AddSteps \ {"addHead"}, node : Nodes, head : Ends,
                        get : BOOLEAN, back : Ends]
        /\ call[t].back \in Ends
    BY <1>2, InnerAddIs
  <1>4. /\ n \in Nodes /\ Adding(t) = {n} /\ Owned(t) = held[t] /\ ~Unlisted(n)
        /\ Mine(t) = held[t] \union {n} /\ n \notin held[t] /\ n \notin fresh
        /\ \A m : ~Refers(t, m)
    BY <1>2, InnerAddIs
  <1>5. Local(t) /\ n \notin Flagged /\ Base(n) = 1
    BY <1>1, <1>4 DEF IndInv, Local, At, Base
  <1>6. /\ FreeListRefs[n] = Cardinality(Referrers(n)) + 1
        /\ FreeListRefs[n] \in Nat /\ FreeListRefs[n] < AddFlag
    BY <1>4, <1>5, CountIs, ThreadsCounted
  <1>7. /\ FreeListRefs'[n] = AddFlag + Cardinality(Referrers(n))
        /\ \A m \in Nodes \ {n} : FreeListRefs'[m] = FreeListRefs[m]
        /\ FreeListRefs' \in [Nodes -> 0 .. (2 * AddFlag - 1)]
    BY <1>1, <1>4, <1>6, PlusIs, ThreadsCounted DEF IndInv
  <1>8. Flagged' = Flagged \union {n}
    BY <1>4, <1>7, ThreadsCounted DEF Flagged
  <1>9. PICK c \in Calls :
           /\ Goto(t, c)
           /\ IF FreeListRefs[n] = 1 THEN c.step = "addNext" /\ c.node = n
                                     ELSE c.step \in {"idle", "refs"}
    <2>1. CASE FreeListRefs[n] = 1
      <3> DEFINE c == [call[t] EXCEPT !.step = "addNext"]
      <3>1. c \in [step : {"addNext"}, node : {n}, head : {call[t].head},
                   get : {call[t].get}, back : {call[t].back}]
        BY <1>3, InnerAddOK
      <3>2. c \in Calls /\ c.step = "addNext" /\ c.node = n
        BY <1>3, <1>4, <3>1 DEF Calls, AddSteps
      <3>3. Goto(t, c)
        BY <2>1 DEF AddBusy
      <3> HIDE DEF c
      <3> QED
        BY <2>1, <3>2, <3>3
    <2>2. CASE FreeListRefs[n] # 1
      BY <1>3, <2>2, AfterAddOK DEF AddBusy
    <2> QED
      BY <2>1, <2>2
  <1>10. Others(t) /\ TypeOK' /\ call'[t] = c
    BY <1>1, <1>7, <1>9 DEF IndInv, TypeOK, Others, Goto
  <1>11. /\ Adding(t)' = IF FreeListRefs[n] = 1 THEN {n} ELSE {}
         /\ Owned(t)' = held[t] /\ Mine(t)' = held[t] \union Adding(t)'
         /\ \A m : ~Refers(t, m)'
    <2>1. CASE FreeListRefs[n] = 1
      BY <1>1, <1>9, <1>10, <2>1, NoNodeInHandNext DEF AddSteps
    <2>2. CASE FreeListRefs[n] # 1
      BY <1>1, <1>9, <1>10, <2>2, NoNodeInHandNext
    <2> QED
      BY <2>1, <2>2
  <1>12. Local(t)'
    <2>1. Owned(t)' \intersect Flagged' = {} /\ Mine(t)' \intersect fresh' = {}
          /\ held'[t] \intersect Adding(t)' = {}
      BY <1>1, <1>4, <1>5, <1>8, <1>11 DEF Local
    <2>2. CASE FreeListRefs[n] = 1
      <3>1. FreeListRefs'[n] = AddFlag
        BY <1>6, <1>7, <2>2, ThreadsCounted
      <3> QED
        BY <1>9, <1>10, <2>1, <2>2, <3>1 DEF Local, At
    <2>3. CASE FreeListRefs[n] # 1
      BY <1>9, <1>10, <2>1, <2>3 DEF Local, At
    <2> QED
      BY <2>2, <2>3
  <1>13. \A u \in Threads \ {t} : Mine(t)' \intersect Mine(u) = {}
    BY <1>4, <1>11 DEF IndInv, Apart
  <1>14. \E u \in Threads : Refers(u, n)' \/ n \in Adding(u)'
    <2>1. CASE FreeListRefs[n] = 1
      BY <1>11, <2>1
    <2>2. CASE FreeListRefs[n] # 1
      <3>1. PICK u \in Threads : Refers(u, n)
        <4>1. Cardinality(Referrers(n)) # 0
          BY <1>6, <2>2, ThreadsCounted
        <4>2. Referrers(n) # {}
          BY <4>1, ThreadsCounted
        <4> QED
          BY <4>2 DEF Referrers, Refers
      <3> QED
        BY <1>4, <1>10, <3>1, OthersStay
    <2> QED
      BY <2>1, <2>2
  <1>15. Counted'
    <2>1. Base(n)' = AddFlag
      BY <1>8 DEF Base
    <2>2. Cardinality(Referrers(n)') = Cardinality(Referrers(n))
      BY <1>4, <1>10, <1>11, ReferrersStep, ThreadsCounted
    <2>3. FreeListRefs'[n] = Base(n)' + Cardinality(Referrers(n)')
      BY <1>7, <2>1, <2>2
    <2> QED
      BY <1>1, <1>4, <1>7, <1>10, <1>11, <2>3, CountStep
  <1>16. FreeChain'
    <2>1. \A m \in Nodes : m \in fresh' \union Flagged' \union Mine(t)'
                            <=> m \in fresh \union Flagged \union Mine(t)
      BY <1>1, <1>4, <1>8, <1>11
    <2> QED
      BY <1>1, <1>10, <2>1, FreeStays, Frame DEF IndInv
  <1>17. /\ \A m \in Nodes \ Mine(t) : /\ FreeListRefs'[m] = FreeListRefs[m]
                                       /\ m \in Flagged' <=> m \in Flagged
         /\ \A m \in Flagged' : m \in Mine(t) \/ Refers(t, m) => m = n
    BY <1>4, <1>5, <1>7, <1>8 DEF Local
  <1> QED
    BY <1>1, <1>10, <1>12, <1>13, <1>14, <1>15, <1>16, <1>17, Close

-----------------------------------------------------------------------------
\* A reference is got only to a node whose count was not zero.
LEMMA HoldStep ==
  ASSUME IndInv, NEW t \in Threads, Hold(t)
  PROVE  IndInv'
  <1> USE FlagAssumption
  <1>0. PICK n : n = call[t].node
    OBVIOUS
  <1> USE <1>0
  <1>1. At(t, "hold") /\ UNCHANGED <<ListHead, FreeListNext, fresh, held>>
    BY DEF Hold
  <1>2. n \in Nodes /\ ~Taken(call[t].refs)
    BY <1>1, CallIs DEF IndInv, Local
  <1>3. CASE FreeListRefs[n] # call[t].refs
    <2>1. /\ Goto(t, [step |-> "reload"])
          /\ UNCHANGED <<ListHead, FreeListNext, FreeListRefs, fresh, held>>
      BY <1>3 DEF Hold
    <2> QED
      BY <1>1, <2>1, EmptyHanded DEF Calls, At
  <1>4. CASE FreeListRefs[n] = call[t].refs
    <2> DEFINE c == [step |-> "next", node |-> n]
    <2>1. Plus(n, 1) /\ Goto(t, c)
      BY <1>4 DEF Hold
    <2>2. /\ Adding(t) = {} /\ Owned(t) = held[t] /\ Mine(t) = held[t]
          /\ \A m : ~Refers(t, m)
      BY <1>1, NoNodeInHand DEF At
    <2>3. FreeListRefs[n] # 0 /\ FreeListRefs[n] # AddFlag
      <3>a. /\ Cardinality(Referrers(n)) \in Nat
            /\ Cardinality(Referrers(n)) + 1 < AddFlag
        BY ThreadsCounted
      <3>b. AddFlag \in Nat /\ 0 < AddFlag /\ AddFlag + 0 = AddFlag
        BY <3>a
      <3>1. 0 % AddFlag = 0 /\ AddFlag % AddFlag = 0
        BY <3>b, LowBits
      <3> QED
        BY <1>2, <1>4, <3>1 DEF Taken
    <2>4. c \in Calls /\ c.step = "next" /\ c.node = n
      BY <1>2 DEF Calls
    <2> HIDE DEF c
    <2>5. Cardinality(Referrers(n)') = Cardinality(Referrers(n)) + 1
      <3>1. Others(t) /\ call'[t] = c
        BY <1>1, <2>1, <2>4 DEF IndInv, TypeOK, Others, Goto
      <3>2. Refers(t, n)'
        BY <2>4, <3>1, NoNodeInHandNext
      <3> QED
        BY <2>2, <3>1, <3>2, ReferrersStep, ThreadsCounted
    <2>6. /\ FreeListRefs[n] = Base(n) + Cardinality(Referrers(n))
          /\ Base(n) \in {0, 1, AddFlag} /\ FreeListRefs[n] \in Nat
          /\ n \in Flagged <=> Base(n) = AddFlag
          /\ Cardinality(Referrers(n)) + 2 < AddFlag
      <3>1. Base(n) \in {0, 1, AddFlag} /\ (n \in Flagged <=> Base(n) = AddFlag)
        BY ThreadsCounted DEF Base
      <3> QED
        BY <1>2, <2>5, <3>1, CountIs, ThreadsCounted, ThreadsCountedNext
    <2>7. /\ FreeListRefs'[n] = FreeListRefs[n] + 1
          /\ \A m \in Nodes \ {n} : FreeListRefs'[m] = FreeListRefs[m]
          /\ FreeListRefs' \in [Nodes -> 0 .. (2 * AddFlag - 1)]
      BY <1>2, <2>1, <2>6, PlusIs, ThreadsCounted DEF IndInv
    <2>8. Flagged' = Flagged
      <3>1. FreeListRefs'[n] >= AddFlag <=> n \in Flagged
        BY <2>6, <2>7, ThreadsCounted
      <3> QED
        BY <1>2, <2>7, <3>1 DEF Flagged
    <2>9. Others(t) /\ TypeOK' /\ call'[t] = c
      BY <1>1, <2>1, <2>4, <2>7 DEF IndInv, TypeOK, Others, Goto
    <2>10. /\ Adding(t)' = {} /\ Owned(t)' = held[t] /\ Mine(t)' = held[t]
           /\ \A m : Refers(t, m)' <=> m = n
      BY <1>1, <2>4, <2>9, NoNodeInHandNext
    <2>11. Local(t)'
      <3>1. Local(t)
        BY DEF IndInv
      <3> QED
        BY <1>1, <2>2, <2>4, <2>8, <2>9, <2>10, <3>1 DEF Local, At
    <2>12. Counted'
      <3>1. Base(n)' = Base(n)
        BY <1>1, <2>8 DEF Base, Unlisted
      <3>2. FreeListRefs'[n] = Base(n)' + Cardinality(Referrers(n)')
        BY <2>5, <2>6, <2>7, <3>1, ThreadsCounted
      <3> QED
        BY <1>1, <1>2, <2>2, <2>7, <2>9, <2>10, <3>2, CountStep
    <2>13. FreeChain'
      <3>1. Free' = Free
        BY <1>1, <2>2, <2>8, <2>9, <2>10, FreeStays
      <3> QED
        BY <1>1, <3>1, Frame DEF IndInv
    <2>14. \A m \in Flagged' : ~(m \in Mine(t) \/ Refers(t, m))
      BY <2>2, <2>8 DEF IndInv, Local
    <2>15. \A m \in Nodes : FreeListRefs[m] = AddFlag => FreeListRefs'[m] = AddFlag
      BY <2>3, <2>7
    <2>16. \A u \in Threads \ {t} : Mine(t)' \intersect Mine(u) = {}
      BY <2>2, <2>10 DEF IndInv, Apart
    <2> QED
      BY <1>1, <2>8, <2>9, <2>11, <2>12, <2>13, <2>14, <2>15, <2>16, Close
  <1> QED
    BY <1>3, <1>4

LEMMA SwapHeadOutStep ==
  ASSUME IndInv, NEW t \in Threads, SwapHeadOut(t)
  PROVE  IndInv'
  <1>0. PICK n : n = call[t].node
    OBVIOUS
  <1> USE <1>0
  <1>1. At(t, "take") /\ UNCHANGED <<FreeListNext, FreeListRefs, fresh, held>>
    BY DEF SwapHeadOut
  <1>2. n \in Nodes /\ call[t].next \in Ends /\ call[t].next = FreeListNext[n]
    BY <1>1, CallIs DEF IndInv, Local
  <1>3. CASE ListHead # n
    <2> DEFINE c == [step |-> "letGo", node |-> n, back |-> ListHead]
    <2>1. Goto(t, c) /\ UNCHANGED ListHead
      BY <1>3 DEF SwapHeadOut
    <2>2. c \in Calls /\ c.step = "letGo" /\ c.node = n
      BY <1>2 DEF Calls, IndInv, TypeOK
    <2> HIDE DEF c
    <2> QED
      BY <1>1, <2>1, <2>2, StillReferring DEF At
  <1>4. CASE ListHead = n
    <2> DEFINE c == [step |-> "taken", node |-> n]
    <2>1. ListHead' = FreeListNext[n] /\ Goto(t, c)
      BY <1>2, <1>4 DEF SwapHeadOut
    <2>2. c \in Calls /\ c.step = "taken" /\ c.node = n
      BY <1>2 DEF Calls
    <2> HIDE DEF c
    <2>3. Others(t) /\ TypeOK' /\ call'[t] = c
      BY <1>1, <1>2, <2>1, <2>2 DEF IndInv, TypeOK, Others, Goto
    <2>4. /\ Adding(t) = {} /\ Owned(t) = held[t] /\ Mine(t) = held[t]
          /\ \A m : Refers(t, m) <=> m = n
      BY <1>1, NoNodeInHand DEF At
    <2>5. /\ Adding(t)' = {} /\ Owned(t)' = held[t] \union {n}
          /\ Mine(t)' = held[t] \union {n} /\ \A m : Refers(t, m)' <=> m = n
      BY <1>1, <2>2, <2>3, NoNodeInHandNext
    <2>6. n \in Free
      BY <1>2, <1>4, NodesAssumption DEF IndInv, FreeChain, Closed
    <2>7. n \notin fresh /\ n \notin Flagged /\ \A u \in Threads : n \notin Mine(u)
      BY <2>6 DEF Free
    <2>8. Flagged' = Flagged
      BY <1>1 DEF Flagged
    <2>9. Local(t)'
      <3>1. Local(t)
        BY DEF IndInv
      <3> QED
        BY <1>1, <2>2, <2>3, <2>4, <2>5, <2>7, <2>8, <3>1 DEF Local, At
    <2>10. \A u \in Threads \ {t} : Mine(t)' \intersect Mine(u) = {}
      BY <2>4, <2>5, <2>7 DEF IndInv, Apart
    <2>11. Counted'
      <3>1. Base(n)' = Base(n)
        BY <1>1, <2>8 DEF Base, Unlisted
      <3>2. Cardinality(Referrers(n)') = Cardinality(Referrers(n))
        BY <2>3, <2>4, <2>5, ReferrersStep, ThreadsCounted
      <3>3. FreeListRefs'[n] = Base(n)' + Cardinality(Referrers(n)')
        BY <1>1, <1>2, <3>1, <3>2, CountIs
      <3> QED
        BY <1>1, <1>2, <2>3, <2>4, <2>5, <3>3, CountStep
    <2>12. FreeChain'
      <3>1. \A u \in Threads \ {t} : Mine(u)' = Mine(u)
        BY <2>3, OthersStay
      <3>2. Free' = Free \ {n}
        BY <1>1, <2>4, <2>5, <2>8, <3>1 DEF Free
      <3> QED
        BY <1>1, <1>2, <1>4, <2>1, <3>2, PopChain DEF IndInv
    <2>13. \A m \in Flagged' : ~(m \in Mine(t) \/ Refers(t, m))
      BY <2>4, <2>7, <2>8 DEF IndInv, Local
    <2> QED
      BY <1>1, <2>3, <2>8, <2>9, <2>10, <2>11, <2>12, <2>13, Close
  <1> QED
    BY <1>3, <1>4

LEMMA ReturnNodeStep ==
  ASSUME IndInv, NEW t \in Threads, ReturnNode(t)
  PROVE  IndInv'
  <1> USE FlagAssumption
  <1>0. PICK n : n = call[t].node
    OBVIOUS
  <1> USE <1>0
  <1>1. /\ At(t, "taken") /\ Plus(n, -2) /\ held' = [held EXCEPT ![t] = @ \union {n}]
        /\ Goto(t, NoCall) /\ UNCHANGED <<ListHead, FreeListNext, fresh>>
    BY DEF ReturnNode
  <1>2. n \in Nodes /\ Local(t)
    BY <1>1, CallIs DEF IndInv, At
  <1>3. /\ Adding(t) = {} /\ Owned(t) = held[t] \union {n}
        /\ Mine(t) = held[t] \union {n} /\ \A m : Refers(t, m) <=> m = n
    BY <1>1, NoNodeInHand DEF At
  <1>4. n \notin fresh /\ n \notin Flagged /\ n \notin held[t]
    BY <1>1, <1>2, <1>3 DEF Local
  <1>5. \A u \in Threads : n \notin held[u]
    BY <1>3, <1>4 DEF IndInv, Apart, Mine, Owned
  <1>6. Base(n) = 1
    BY <1>4, <1>5 DEF Base, Unlisted
  <1>7. Cardinality(Referrers(n)) # 0
    <2>1. t \in Referrers(n)
      BY <1>3 DEF Referrers, Refers
    <2> QED
      BY <2>1, ThreadsCounted
  <1>8. /\ FreeListRefs[n] = Cardinality(Referrers(n)) + 1
        /\ FreeListRefs[n] - 2 \in 0 .. (2 * AddFlag - 1)
        /\ FreeListRefs[n] < AddFlag
    BY <1>2, <1>6, <1>7, CountIs, ThreadsCounted
  <1>9. /\ FreeListRefs'[n] = Cardinality(Referrers(n)) - 1
        /\ \A m \in Nodes \ {n} : FreeListRefs'[m] = FreeListRefs[m]
        /\ FreeListRefs' \in [Nodes -> 0 .. (2 * AddFlag - 1)]
    <2>1. FreeListRefs[n] + -2 = Cardinality(Referrers(n)) - 1
      BY <1>8, ThreadsCounted
    <2>2. FreeListRefs[n] + -2 \in 0 .. (2 * AddFlag - 1)
      BY <1>8, ThreadsCounted
    <2> QED
      BY <1>1, <1>2, <2>1, <2>2, PlusIs DEF IndInv
  <1>10. Flagged' = Flagged
    <2>1. ~(FreeListRefs'[n] >= AddFlag)
      BY <1>9, ThreadsCounted
    <2> QED
      BY <1>2, <1>4, <1>9, <2>1 DEF Flagged
  <1>11. Others(t) /\ call'[t] = NoCall /\ held'[t] = held[t] \union {n}
    BY <1>1 DEF IndInv, TypeOK, Others, Goto
  <1>12. TypeOK'
    BY <1>1, <1>2, <1>9 DEF IndInv, TypeOK, Goto, Calls
  <1>13. /\ Adding(t)' = {} /\ Owned(t)' = held'[t] /\ Mine(t)' = held'[t]
         /\ \A m : ~Refers(t, m)'
    BY <1>11, NoNodeInHandNext DEF NoCall
  <1>14. Local(t)'
    BY <1>1, <1>2, <1>3, <1>10, <1>11, <1>13 DEF Local, At, NoCall
  <1>15. \A u \in Threads \ {t} : Mine(t)' \intersect Mine(u) = {}
    BY <1>3, <1>11, <1>13 DEF IndInv, Apart
  <1>16. Counted'
    <2>1. Base(n)' = 0
      BY <1>4, <1>10, <1>11 DEF Base, Unlisted
    <2>2. Cardinality(Referrers(n)') = Cardinality(Referrers(n)) - 1
      BY <1>3, <1>11, <1>13, ReferrersStep, ThreadsCounted
    <2>3. FreeListRefs'[n] = Base(n)' + Cardinality(Referrers(n)')
      BY <1>9, <2>1, <2>2, ThreadsCounted
    <2> QED
      BY <1>1, <1>2, <1>3, <1>9, <1>11, <1>13, <2>3, CountStep
  <1>17. FreeChain'
    <2>1. Free' = Free
      BY <1>1, <1>3, <1>10, <1>11, <1>13, FreeStays
    <2> QED
      BY <1>1, <2>1, Frame DEF IndInv
  <1>18. \A m \in Flagged' : ~(m \in Mine(t) \/ Refers(t, m))
    BY <1>2, <1>3, <1>4, <1>10 DEF Local
  <1>19. \A m \in Nodes \ Mine(t) : /\ FreeListRefs'[m] = FreeListRefs[m]
                                    /\ m \in Flagged' <=> m \in Flagged
    BY <1>3, <1>9, <1>10
  <1> QED
    BY <1>1, <1>11, <1>12, <1>14, <1>15, <1>16, <1>17, <1>18, <1>19, Close

\* The last thread that lets go of a pending node carries its Add out.
LEMMA LetGoStep ==
  ASSUME IndInv, NEW t \in Threads, LetGo(t)
  PROVE  IndInv'
  <1> USE FlagAssumption
  <1>0. PICK n : n = call[t].node
    OBVIOUS
  <1> USE <1>0
  <1>1. /\ At(t, "letGo") /\ Plus(n, -1)
        /\ UNCHANGED <<ListHead, FreeListNext, fresh, held>>
    BY DEF LetGo
  <1>2. n \in Nodes /\ call[t].back \in Ends /\ Local(t)
    BY <1>1, CallIs DEF IndInv
  <1>3. /\ Adding(t) = {} /\ Owned(t) = held[t] /\ Mine(t) = held[t]
        /\ \A m : Refers(t, m) <=> m = n
    BY <1>1, NoNodeInHand DEF At
  <1>4. /\ Cardinality(Referrers(n)) \in Nat /\ Cardinality(Referrers(n)) # 0
        /\ Cardinality(Referrers(n)) + 1 < AddFlag
    <2>1. t \in Referrers(n)
      BY <1>3 DEF Referrers, Refers
    <2> QED
      BY <2>1, ThreadsCounted
  <1>5. /\ Base(n) \in {0, 1, AddFlag} /\ (n \in Flagged <=> Base(n) = AddFlag)
        /\ FreeListRefs[n] = Base(n) + Cardinality(Referrers(n))
    <2>1. Base(n) \in {0, 1, AddFlag} /\ (n \in Flagged <=> Base(n) = AddFlag)
      BY <1>4 DEF Base
    <2> QED
      BY <1>2, <2>1, CountIs
  <1>6. FreeListRefs[n] + -1 \in 0 .. (2 * AddFlag - 1)
    BY <1>4, <1>5
  <1>7. /\ FreeListRefs'[n] = FreeListRefs[n] - 1
        /\ \A m \in Nodes \ {n} : FreeListRefs'[m] = FreeListRefs[m]
        /\ FreeListRefs' \in [Nodes -> 0 .. (2 * AddFlag - 1)]
    <2>1. FreeListRefs[n] + -1 = FreeListRefs[n] - 1
      BY <1>4, <1>5
    <2> QED
      BY <1>1, <1>2, <1>6, <2>1, PlusIs DEF IndInv
  <1>8. Flagged' = Flagged
    <2>1. FreeListRefs'[n] >= AddFlag <=> n \in Flagged
      BY <1>4, <1>5, <1>7
    <2> QED
      BY <1>2, <1>7, <2>1 DEF Flagged
  <1>9. FreeListRefs[n] = AddFlag + 1 <=> n \in Flagged /\ Cardinality(Referrers(n)) = 1
    BY <1>4, <1>5
  <1>10. PICK c \in Calls :
           /\ Goto(t, c)
           /\ IF FreeListRefs[n] = AddFlag + 1 THEN c.step = "addHead" /\ c.node = n
                                               ELSE c.step \in {"idle", "refs"}
    <2>1. CASE FreeListRefs[n] = AddFlag + 1
      <3> DEFINE c == [step |-> "addHead", node |-> n, get |-> TRUE,
                       back |-> call[t].back]
      <3>1. c \in Calls /\ c.step = "addHead" /\ c.node = n
        BY <1>2 DEF Calls
      <3>2. Goto(t, c)
        BY <2>1 DEF LetGo
      <3> HIDE DEF c
      <3> QED
        BY <2>1, <3>1, <3>2
    <2>2. CASE FreeListRefs[n] # AddFlag + 1
      BY <1>2, <2>2, TryOK DEF LetGo
    <2> QED
      BY <2>1, <2>2
  <1>11. Others(t) /\ TypeOK' /\ call'[t] = c
    BY <1>1, <1>7, <1>10 DEF IndInv, TypeOK, Others, Goto
  <1>12. /\ Adding(t)' = IF FreeListRefs[n] = AddFlag + 1 THEN {n} ELSE {}
         /\ Owned(t)' = held[t] /\ Mine(t)' = held[t] \union Adding(t)'
         /\ \A m : ~Refers(t, m)'
    <2>1. CASE FreeListRefs[n] = AddFlag + 1
      BY <1>1, <1>10, <1>11, <2>1, NoNodeInHandNext DEF AddSteps
    <2>2. CASE FreeListRefs[n] # AddFlag + 1
      BY <1>1, <1>10, <1>11, <2>2, NoNodeInHandNext
    <2> QED
      BY <2>1, <2>2
  <1>13. Local(t)'
    <2>1. CASE FreeListRefs[n] = AddFlag + 1
      <3>1. n \in Flagged /\ n \notin fresh /\ n \notin held[t]
        BY <1>2, <1>3, <1>9, <2>1 DEF IndInv, Pending, Local
      <3>2. FreeListRefs'[n] = AddFlag
        BY <1>7, <2>1
      <3> QED
        BY <1>1, <1>2, <1>3, <1>8, <1>10, <1>11, <1>12, <2>1, <3>1, <3>2 DEF Local, At
    <2>2. CASE FreeListRefs[n] # AddFlag + 1
      BY <1>1, <1>2, <1>3, <1>8, <1>10, <1>11, <1>12, <2>2 DEF Local, At
    <2> QED
      BY <2>1, <2>2
  <1>14. \A u \in Threads \ {t} : Mine(t)' \intersect Mine(u) = {}
    <2> SUFFICES ASSUME NEW u \in Threads \ {t} PROVE Mine(t)' \intersect Mine(u) = {}
      OBVIOUS
    <2>1. held[t] \intersect Mine(u) = {}
      BY <1>3 DEF IndInv, Apart
    <2>2. FreeListRefs[n] = AddFlag + 1 => n \notin Mine(u)
      <3> SUFFICES ASSUME FreeListRefs[n] = AddFlag + 1, n \in Mine(u) PROVE FALSE
        OBVIOUS
      <3>1. n \in Flagged /\ Local(u)
        BY <1>9 DEF IndInv
      <3>2. call[u].step \in AddSteps /\ call[u].node = n
        BY <3>1 DEF Mine, Adding, Local
      <3> QED
        BY <3>1, <3>2 DEF Local, AddSteps
    <2> QED
      BY <1>12, <2>1, <2>2
  <1>15. Cardinality(Referrers(n)') = Cardinality(Referrers(n)) - 1
    BY <1>3, <1>4, <1>11, <1>12, ReferrersStep
  <1>16. n \in Flagged => \E u \in Threads : Refers(u, n)' \/ n \in Adding(u)'
    <2>1. CASE Cardinality(Referrers(n)) = 1
      BY <1>9, <1>12, <2>1
    <2>2. CASE Cardinality(Referrers(n)) # 1
      <3>1. Cardinality(Referrers(n)') # 0
        BY <1>4, <1>15, <2>2
      <3>2. Referrers(n)' # {}
        BY <3>1, FS_EmptySet
      <3> QED
        BY <3>2 DEF Referrers, Refers
    <2> QED
      BY <2>1, <2>2
  <1>17. Counted'
    <2>1. Base(n)' = Base(n)
      BY <1>1, <1>8 DEF Base, Unlisted
    <2>2. FreeListRefs'[n] = Base(n)' + Cardinality(Referrers(n)')
      BY <1>4, <1>5, <1>7, <1>15, <2>1
    <2> QED
      BY <1>1, <1>2, <1>3, <1>7, <1>11, <1>12, <2>2, CountStep
  <1>18. FreeChain'
    <2>1. \A m \in Nodes : m \in fresh' \union Flagged' \union Mine(t)'
                            <=> m \in fresh \union Flagged \union Mine(t)
      BY <1>1, <1>3, <1>8, <1>9, <1>12
    <2> QED
      BY <1>1, <1>11, <2>1, FreeStays, Frame DEF IndInv
  <1>19. /\ \A m \in Nodes : FreeListRefs[m] = AddFlag => FreeListRefs'[m] = AddFlag
         /\ \A m \in Flagged' : m \in Mine(t) \/ Refers(t, m) => m = n
    <2>1. FreeListRefs[n] # AddFlag
      BY <1>4, <1>5
    <2> QED
      BY <1>2, <1>3, <1>7, <1>8, <2>1 DEF Local
  <1> QED
    BY <1>1, <1>8, <1>11, <1>13, <1>14, <1>16, <1>17, <1>18, <1>19, Close

-----------------------------------------------------------------------------
LEMMA InitInd == Init => IndInv
  <1> SUFFICES ASSUME Init PROVE IndInv
    OBVIOUS
  <1>1. TypeOK
    BY FlagAssumption, ThreadsCounted DEF Init, TypeOK, Calls, Ends
  <1>2. /\ \A t \in Threads : At(t, "idle") /\ held[t] = {}
        /\ \A t \in Threads : Adding(t) = {} /\ Owned(t) = {} /\ Mine(t) = {}
        /\ \A t \in Threads : \A n : ~Refers(t, n)
    BY DEF Init, NoCall, Adding, Owned, Mine, Refers, At, AddSteps
  <1>3. Flagged = {} /\ Free = {}
    <2>1. ~(0 >= AddFlag)
      BY ThreadsCounted, FlagAssumption
    <2> QED
      BY <2>1 DEF Init, Flagged, Free
  <1>4. \A t \in Threads : Local(t)
    BY <1>2, <1>3 DEF Local, At
  <1>5. Apart /\ Pending
    BY <1>2, <1>3 DEF Apart, Pending
  <1>6. Counted
    <2>1. \A n \in Nodes : Base(n) = 0
      BY <1>3 DEF Init, Base, Unlisted
    <2>2. \A n : Cardinality(Referrers(n)) = 0
      <3>1. \A n : Referrers(n) = {}
        BY <1>2 DEF Referrers, Refers
      <3> QED
        BY <3>1, FS_EmptySet
    <2> QED
      BY <2>1, <2>2 DEF Init, Counted
  <1>7. FreeChain
    BY <1>3 DEF Init, FreeChain, Closed
  <1> QED
    BY <1>1, <1>4, <1>5, <1>6, <1>7 DEF IndInv

LEMMA InCallInd ==
  ASSUME IndInv, NEW t \in Threads, InCall(t)
  PROVE  IndInv'
  <1>1. CASE Reload(t)
    BY <1>1, LoadHeadStep DEF Reload, At
  <1> QED
    BY <1>1, LoadHeadToAddStep, StoreNextStep, StoreRefsStep, SwapHeadInStep, AddBusyStep,
       LoadRefsStep, HoldStep, LoadNextStep, SwapHeadOutStep, ReturnNodeStep, LetGoStep
       DEF InCall

LEMMA StepInd ==
  ASSUME IndInv, RepeatedAdds = FALSE, NEW t \in Threads, Step(t)
  PROVE  IndInv'
  <1>1. CASE TryGet(t)
    BY <1>1, LoadHeadStep DEF TryGet, At
  <1> QED
    BY <1>1, InCallInd, ObtainStep, AddStep DEF Step

LEMMA StutterInd ==
  ASSUME IndInv, UNCHANGED vars
  PROVE  IndInv'
  <1> USE DEF vars
  <1>1. TypeOK'
    BY DEF IndInv, TypeOK
  <1>2. /\ \A t \in Threads : /\ Adding(t)' = Adding(t) /\ Owned(t)' = Owned(t)
                              /\ Mine(t)' = Mine(t)
                              /\ \A n : Refers(t, n)' <=> Refers(t, n)
        /\ Flagged' = Flagged
        /\ \A n : (Unlisted(n)' <=> Unlisted(n)) /\ Referrers(n)' = Referrers(n)
    BY DEF Adding, Owned, Mine, Refers, Flagged, Unlisted, Referrers, At
  <1>3. Free' = Free /\ \A n : Base(n)' = Base(n)
    BY <1>2 DEF Free, Base
  <1>4. \A t \in Threads : Local(t)'
    BY <1>2 DEF IndInv, Local, At
  <1>5. Apart' /\ Pending' /\ Counted'
    BY <1>2, <1>3 DEF IndInv, Apart, Pending, Counted
  <1>6. FreeChain'
    BY <1>3, Frame DEF IndInv
  <1> QED
    BY <1>1, <1>4, <1>5, <1>6 DEF IndInv

\* The nodes of the list are those that nobody has.
LEMMA ListedIsFree == FreeChain => Listed = Free
  BY DEF FreeChain, Listed, Free

LEMMA IndInvIsExact == IndInv => RefsAreExact
  <1> SUFFICES ASSUME IndInv, NEW n \in Nodes
               PROVE  FreeListRefs[n] % AddFlag = Cardinality(Referrers(n)) + ListRefs(n)
    BY DEF RefsAreExact
  <1> DEFINE Away(t) == call[t].step \in {"taken", "addCas", "addBusy"} /\ call[t].node = n
             k == Cardinality(Referrers(n))
  <1>1. FreeListRefs[n] = Base(n) + k /\ k \in Nat /\ k + 1 < AddFlag
    BY CountIs, ThreadsCounted
  <1>2. Listed = Free
    BY ListedIsFree DEF IndInv
  <1>3. ListRefs(n) = IF n \in Free \/ \E t \in Threads : Away(t) THEN 1 ELSE 0
    BY <1>2 DEF ListRefs
  <1>4. \A t \in Threads : Away(t) => n \in Mine(t) /\ n \notin held[t] /\ n \notin Flagged
    BY NoNodeInHand DEF IndInv, Local, At, AddSteps
  <1>5. CASE n \in Flagged
    <2>1. Base(n) = AddFlag /\ ListRefs(n) = 0
      BY <1>3, <1>4, <1>5 DEF Base, Free
    <2> QED
      BY <1>1, <2>1, LowBits, FlagAssumption
  <1>6. CASE n \notin Flagged /\ Unlisted(n)
    <2>1. Base(n) = 0
      BY <1>6 DEF Base
    <2>2. \A t \in Threads : ~Away(t)
      BY <1>4, <1>6 DEF IndInv, Local, Apart, Unlisted, Mine, Owned
    <2>3. n \notin Free
      BY <1>6 DEF Free, Unlisted, Mine, Owned
    <2> QED
      BY <1>1, <1>3, <2>1, <2>2, <2>3, LowBits, FlagAssumption
  <1>7. CASE n \notin Flagged /\ ~Unlisted(n)
    <2>1. Base(n) = 1
      BY <1>7 DEF Base
    <2>2. n \notin Free => \E t \in Threads : Away(t)
      <3> SUFFICES ASSUME n \notin Free PROVE \E t \in Threads : Away(t)
        OBVIOUS
      <3>1. PICK t \in Threads : n \in Mine(t) /\ n \notin held[t]
        BY <1>7 DEF Free, Unlisted
      <3>2. call[t].node = n /\ call[t].step \in {"taken"} \union AddSteps
        BY <3>1 DEF Mine, Owned, Adding, At
      <3>3. call[t].step \notin {"addHead", "addNext", "addRefs"}
        BY <1>7, <3>2, CountIs DEF IndInv, Local
      <3> QED
        BY <3>2, <3>3 DEF AddSteps
    <2>3. ListRefs(n) = 1
      BY <1>3, <2>2
    <2>4. (1 + k) % AddFlag = 1 + k
      BY <1>1, LowBits
    <2> QED
      BY <1>1, <2>1, <2>3, <2>4
  <1> QED
    BY <1>5, <1>6, <1>7

LEMMA IndInvLosesNothing == IndInv => NothingLost
  <1> SUFFICES ASSUME IndInv, \A t \in Threads : At(t, "idle")
               PROVE  Nodes = fresh \union Listed \union UNION {held[t] : t \in Threads}
    BY DEF NothingLost
  <1>1. \A t \in Threads : Mine(t) = held[t] /\ Adding(t) = {} /\ \A n : ~Refers(t, n)
    BY NoNodeInHand DEF At
  <1>2. Flagged = {}
    BY <1>1 DEF IndInv, Pending
  <1>3. Listed = Free
    BY ListedIsFree DEF IndInv
  <1> QED
    BY <1>1, <1>2, <1>3 DEF Free, IndInv, TypeOK

-----------------------------------------------------------------------------
\* A thread's call of the pool, seen from what it owns.
LEMMA PoolMove ==
  ASSUME IndInv, NEW t \in Threads, Others(t),
         \/ Owned(t)' = Owned(t)
         \/ \E n \in Nodes : n \in Owned(t) /\ Owned(t)' = Owned(t) \ {n}
         \/ \E n \in Nodes : /\ \A u \in Threads : n \notin Owned(u)
                             /\ Owned(t)' = Owned(t) \union {n}
  PROVE  [Pool!Next]_<<[u \in Threads |-> Owned(u)],
                       Nodes \ UNION {Owned(u) : u \in Threads}>>
  <1> DEFINE H == [u \in Threads |-> Owned(u)]
             P == Nodes \ UNION {Owned(u) : u \in Threads}
  <1>1. \A u \in Threads \ {t} : Owned(u)' = Owned(u)
    BY OthersStay
  <1>2. CASE Owned(t)' = Owned(t)
    <2>1. \A u \in Threads : Owned(u)' = Owned(u)
      BY <1>1, <1>2
    <2>2. H' = H /\ P' = P
      BY <2>1
    <2> QED
      BY <2>2
  <1>3. ASSUME NEW n \in Nodes, n \in Owned(t), Owned(t)' = Owned(t) \ {n}
        PROVE  Pool!Next
    <2>1. H' = [H EXCEPT ![t] = @ \ {n}]
      BY <1>1, <1>3
    <2>2. \A u \in Threads \ {t} : n \notin Owned(u)
      BY <1>3 DEF IndInv, Apart, Mine
    <2>3. P' = P \union {n}
      BY <1>1, <1>3, <2>2
    <2> QED
      BY <1>3, <2>1, <2>3 DEF Pool!Next, Pool!Add
  <1>4. ASSUME NEW n \in Nodes, \A u \in Threads : n \notin Owned(u),
               Owned(t)' = Owned(t) \union {n}
        PROVE  Pool!Next
    <2>1. H' = [H EXCEPT ![t] = @ \union {n}]
      BY <1>1, <1>4
    <2>2. P' = P \ {n} /\ n \in P
      BY <1>1, <1>4
    <2> QED
      BY <2>1, <2>2 DEF Pool!Next, Pool!TryGet
  <1> QED
    BY <1>2, <1>3, <1>4

LEMMA StepOthers ==
  ASSUME TypeOK, NEW t \in Threads, Step(t)
  PROVE  Others(t)
  <1>1. \A u \in Threads \ {t} : call'[u] = call[u]
    BY DEF TypeOK, Step, InCall, Obtain, Add, LoadHeadToAdd, StoreNext, StoreRefs,
           SwapHeadIn, AddBusy, TryGet, Reload, LoadHead, LoadRefs, Hold, LoadNext,
           SwapHeadOut, ReturnNode, LetGo, Goto
  <1>2. \A u \in Threads \ {t} : held'[u] = held[u]
    BY DEF TypeOK, Step, InCall, Obtain, Add, LoadHeadToAdd, StoreNext, StoreRefs,
           SwapHeadIn, AddBusy, TryGet, Reload, LoadHead, LoadRefs, Hold, LoadNext,
           SwapHeadOut, ReturnNode, LetGo
  <1> QED
    BY <1>1, <1>2 DEF Others

\* The node that TryGet takes is the thread's from its compare-exchange on; no other
\* step of the list changes what a thread owns.
LEMMA InCallOwned ==
  ASSUME IndInv, NEW t \in Threads, InCall(t)
  PROVE  \/ Owned(t)' = Owned(t)
         \/ \E n \in Nodes : /\ \A u \in Threads : n \notin Owned(u)
                             /\ Owned(t)' = Owned(t) \union {n}
  <1>1. ASSUME held'[t] = held[t], ~At(t, "taken"), ~At(t, "taken")'
        PROVE  Owned(t)' = Owned(t)
    BY <1>1 DEF Owned
  <1>2. CASE LoadHeadToAdd(t) \/ LoadRefs(t) \/ Hold(t) \/ LoadNext(t)
    BY <1>1, <1>2 DEF LoadHeadToAdd, LoadRefs, Hold, LoadNext, Goto, At, IndInv, TypeOK
  <1>3. CASE Reload(t)
    BY <1>1, <1>3, TryOK DEF Reload, LoadHead, Goto, At, IndInv, TypeOK
  <1>4. CASE StoreNext(t) \/ StoreRefs(t) \/ SwapHeadIn(t) \/ AddBusy(t)
    <2>1. call[t].step \in AddSteps \ {"addHead"}
      BY <1>4 DEF StoreNext, StoreRefs, SwapHeadIn, AddBusy, At, AddSteps
    <2>2. /\ call[t] \in [step : AddSteps \ {"addHead"}, node : Nodes, head : Ends,
                          get : BOOLEAN, back : Ends]
          /\ AfterAdd(call[t]).step # "taken"
      BY <2>1, InnerAddIs, AfterAddOK
    <2>3. /\ \A s : [call[t] EXCEPT !.step = s].step = s
          /\ \A s, h : [call[t] EXCEPT !.step = s, !.head = h].step = s
      BY <2>2
    <2>4. call'[t].step # "taken" /\ held'[t] = held[t]
      <3>1. CASE StoreNext(t)
        <4>1. call'[t] = [call[t] EXCEPT !.step = "addRefs"] /\ held' = held
          BY <3>1 DEF StoreNext, Goto, IndInv, TypeOK
        <4> QED
          BY <2>3, <4>1
      <3>2. CASE StoreRefs(t)
        <4>1. call'[t] = [call[t] EXCEPT !.step = "addCas"] /\ held' = held
          BY <3>2 DEF StoreRefs, Goto, IndInv, TypeOK
        <4> QED
          BY <2>3, <4>1
      <3>3. CASE SwapHeadIn(t)
        <4>1. /\ \/ call'[t] = AfterAdd(call[t])
                 \/ call'[t] = [call[t] EXCEPT !.step = "addBusy", !.head = ListHead]
              /\ held' = held
          BY <3>3 DEF SwapHeadIn, Goto, IndInv, TypeOK
        <4> QED
          BY <2>2, <2>3, <4>1
      <3>4. CASE AddBusy(t)
        <4>1. /\ \/ call'[t] = AfterAdd(call[t])
                 \/ call'[t] = [call[t] EXCEPT !.step = "addNext"]
              /\ held' = held
          BY <3>4 DEF AddBusy, Goto, IndInv, TypeOK
        <4> QED
          BY <2>2, <2>3, <4>1
      <3> QED
        BY <1>4, <3>1, <3>2, <3>3, <3>4
    <2> QED
      BY <1>1, <2>1, <2>4 DEF At, AddSteps
  <1>5. CASE SwapHeadOut(t)
    <2>1. CASE ListHead # call[t].node
      BY <1>1, <1>5, <2>1 DEF SwapHeadOut, Goto, At, IndInv, TypeOK
    <2>2. CASE ListHead = call[t].node
      <3>1. PICK n : n = call[t].node
        OBVIOUS
      <3>2. At(t, "take") /\ call'[t] = [step |-> "taken", node |-> n] /\ held' = held
        BY <1>5, <2>2, <3>1 DEF SwapHeadOut, Goto, IndInv, TypeOK
      <3>3. n \in Nodes
        BY <3>1, <3>2, CallIs DEF IndInv
      <3>4. n \in Free
        BY <2>2, <3>1, <3>3, NodesAssumption DEF IndInv, FreeChain, Closed
      <3>5. Owned(t)' = Owned(t) \union {n}
        BY <3>2 DEF Owned, At
      <3> QED
        BY <3>3, <3>4, <3>5 DEF Free, Mine
    <2> QED
      BY <2>1, <2>2
  <1>6. CASE ReturnNode(t)
    BY <1>6 DEF ReturnNode, Goto, Owned, At, NoCall, IndInv, TypeOK
  <1>7. CASE LetGo(t)
    BY <1>1, <1>7, CallIs, TryOK DEF LetGo, Goto, At, IndInv, TypeOK
  <1> QED
    BY <1>2, <1>3, <1>4, <1>5, <1>6, <1>7 DEF InCall

\* What a thread obtains nobody has had; what it adds it had.
LEMMA ObtainOwned ==
  ASSUME IndInv, NEW t \in Threads, NEW n \in Nodes, Obtain(t, n)
  PROVE  (\A u \in Threads : n \notin Owned(u)) /\ Owned(t)' = Owned(t) \union {n}
  <1>1. \A u \in Threads : n \notin Owned(u)
    BY DEF Obtain, IndInv, Local, Mine
  <1> QED
    BY <1>1 DEF Obtain, Owned, At, IndInv, TypeOK

LEMMA AddOwned ==
  ASSUME IndInv, RepeatedAdds = FALSE, NEW t \in Threads, NEW n \in Nodes, Add(t, n)
  PROVE  n \in Owned(t) /\ Owned(t)' = Owned(t) \ {n}
  <1>1. At(t, "idle") /\ n \in held[t] /\ held'[t] = held[t] \ {n}
    BY DEF Add, IndInv, TypeOK
  <1>2. ~At(t, "taken")'
    BY <1>1 DEF Add, Goto, At, IndInv, TypeOK
  <1> QED
    BY <1>1, <1>2 DEF Owned, At

-----------------------------------------------------------------------------
\* The manager's threads ask the pool between two calls of the list.
ManagerInv ==
    /\ IndInv
    /\ want \in [Threads -> {"nowhere", "pool", "list"}]
    /\ \A t \in Threads : want[t] = "pool" => At(t, "idle")

\* What a thread of the manager does with the list.
LEMMA ManagerStep ==
  ASSUME ManagerInv, RepeatedAdds = FALSE, NEW t \in Threads,
         InManager(t) \/ Requisition(t) \/ \E n \in Nodes : ReturnBlock(t, n)
  PROVE  \/ InCall(t)
         \/ \E n \in Nodes : Obtain(t, n) \/ Add(t, n)
         \/ /\ At(t, "idle") /\ Goto(t, [step |-> "reload"])
            /\ UNCHANGED <<ListHead, FreeListNext, FreeListRefs, fresh, held>>
         \/ UNCHANGED vars
  <1>1. CASE TakeFromPool(t)
    <2>1. Obtain(t, PoolBlocks[Index + 1])
      BY <1>1 DEF TakeFromPool
    <2>2. PoolBlocks[Index + 1] \in Nodes
      BY <2>1 DEF Obtain, ManagerInv, IndInv, TypeOK
    <2> QED
      BY <2>1, <2>2
  <1>2. CASE Allocate(t)
    BY <1>2 DEF Allocate, Heap, ManagerInv, IndInv, TypeOK
  <1>3. CASE MissPool(t) \/ Requisition(t)
    BY <1>3 DEF MissPool, Requisition, AskList, Idle, ManagerInv, vars
  <1>4. CASE ListStep(t) \/ GiveUp(t) \/ \E n \in Nodes : ReturnBlock(t, n)
    BY <1>4 DEF ListStep, GiveUp, ReturnBlock
  <1> QED
    BY <1>1, <1>2, <1>3, <1>4 DEF InManager

LEMMA ManagerInd ==
  ASSUME ManagerInv, RepeatedAdds = FALSE, [ManagerNext]_managerVars
  PROVE  ManagerInv'
  <1>1. CASE UNCHANGED managerVars
    BY <1>1, StutterInd DEF managerVars, ManagerInv, vars, At
  <1>2. ASSUME NEW t \in Threads,
               InManager(t) \/ Requisition(t) \/ \E n \in Nodes : ReturnBlock(t, n)
        PROVE  ManagerInv'
    <2>1. IndInv'
      BY <1>2, ManagerStep, InCallInd, ObtainStep, AddStep, AskStep, StutterInd
         DEF ManagerInv
    <2>2. Others(t)
      <3>1. CASE InCall(t) \/ \E n \in Nodes : Obtain(t, n) \/ Add(t, n)
        BY <3>1, StepOthers DEF Step, ManagerInv, IndInv
      <3> QED
        BY <1>2, <3>1, ManagerStep DEF ManagerInv, IndInv, TypeOK, Others, Goto, vars
    <2>3. want' \in [Threads -> {"nowhere", "pool", "list"}]
          /\ \A u \in Threads \ {t} : want'[u] = want[u]
      BY <1>2 DEF InManager, TakeFromPool, MissPool, ListStep, Allocate, GiveUp,
                  Requisition, ReturnBlock, AskList, Turn, ManagerInv
    <2>4. InCall(t) => ~At(t, "idle")
      BY DEF InCall, LoadHeadToAdd, StoreNext, StoreRefs, SwapHeadIn, AddBusy, Reload,
             LoadRefs, Hold, LoadNext, SwapHeadOut, ReturnNode, LetGo, At
    <2>5. want'[t] = "pool" => At(t, "idle")'
      BY <1>2, <2>4
         DEF InManager, TakeFromPool, MissPool, ListStep, Allocate, GiveUp, Requisition,
             ReturnBlock, AskList, Turn, Idle, At, ManagerInv
    <2>6. \A u \in Threads : want'[u] = "pool" => At(u, "idle")'
      BY <2>2, <2>3, <2>5 DEF ManagerInv, Others, At
    <2> QED
      BY <2>1, <2>3, <2>6 DEF ManagerInv
  <1> QED
    BY <1>1, <1>2 DEF ManagerNext

LEMMA ManagerStarts == ManagerInit => ManagerInv
  BY InitInd DEF ManagerInit, ManagerInv

LEMMA ManagerMoves ==
  ASSUME ManagerInv, RepeatedAdds = FALSE, [ManagerNext]_managerVars
  PROVE  [Pool!Next]_<<[u \in Threads |-> Owned(u)],
                       Nodes \ UNION {Owned(u) : u \in Threads}>>
  <1>1. CASE UNCHANGED managerVars
    <2>1. \A u \in Threads : Owned(u)' = Owned(u)
      BY <1>1 DEF managerVars, vars, Owned, At
    <2> QED
      BY <2>1
  <1>2. ASSUME NEW t \in Threads,
               InManager(t) \/ Requisition(t) \/ \E n \in Nodes : ReturnBlock(t, n)
        PROVE  [Pool!Next]_<<[u \in Threads |-> Owned(u)],
                             Nodes \ UNION {Owned(u) : u \in Threads}>>
    <2>1. CASE InCall(t) \/ \E n \in Nodes : Obtain(t, n) \/ Add(t, n)
      <3>1. Others(t)
        BY <2>1, StepOthers DEF Step, ManagerInv, IndInv
      <3>2. \/ Owned(t)' = Owned(t)
            \/ \E n \in Nodes : n \in Owned(t) /\ Owned(t)' = Owned(t) \ {n}
            \/ \E n \in Nodes : /\ \A u \in Threads : n \notin Owned(u)
                                /\ Owned(t)' = Owned(t) \union {n}
        BY <2>1, InCallOwned, ObtainOwned, AddOwned DEF ManagerInv
      <3> QED
        BY <3>1, <3>2, PoolMove DEF ManagerInv
    <2>2. CASE At(t, "idle") /\ Goto(t, [step |-> "reload"]) /\ held' = held
      <3>1. Others(t) /\ call'[t] = [step |-> "reload"]
        BY <2>2 DEF ManagerInv, IndInv, TypeOK, Others, Goto
      <3>2. Owned(t)' = Owned(t)
        BY <2>2, <3>1 DEF Owned, At
      <3> QED
        BY <3>1, <3>2, PoolMove DEF ManagerInv
    <2>3. CASE UNCHANGED vars
      <3>1. \A u \in Threads : Owned(u)' = Owned(u)
        BY <2>3 DEF vars, Owned, At
      <3> QED
        BY <3>1
    <2> QED
      BY <1>2, <2>1, <2>2, <2>3, ManagerStep
  <1> QED
    BY <1>1, <1>2 DEF ManagerNext

-----------------------------------------------------------------------------
LEMMA ManagerAlways ==
  ASSUME RepeatedAdds = FALSE
  PROVE  ManagerSpec => []ManagerInv
  <1>1. ManagerInv /\ [ManagerNext]_managerVars => ManagerInv'
    BY ManagerInd
  <1> QED
    BY <1>1, ManagerStarts, PTL DEF ManagerSpec

\* In the block manager, whatever its threads do, the low bits of FreeListRefs count
\* the references to a node: a count of zero, on which Add and LetGo decide who puts
\* the node into the list, means that nobody can be about to take it.
THEOREM CountsAreExact ==
  ASSUME RepeatedAdds = FALSE
  PROVE  ManagerSpec => []RefsAreExact
  <1>1. ManagerInv => RefsAreExact
    BY IndInvIsExact DEF ManagerInv
  <1> QED
    BY <1>1, ManagerAlways, PTL

\* An Add that finds its node referred to leaves it to another thread, which carries
\* it out: between calls no returned block is missing.
THEOREM NoBlockLost ==
  ASSUME RepeatedAdds = FALSE
  PROVE  ManagerSpec => []NothingLost
  <1>1. ManagerInv => NothingLost
    BY IndInvLosesNothing DEF ManagerInv
  <1> QED
    BY <1>1, ManagerAlways, PTL

\* The blocks of the manager are a pool: no two threads are given the same block.
THEOREM ManagerRefinement ==
  ASSUME RepeatedAdds = FALSE
  PROVE  ManagerSpec => ImplementsNodePool
  <1>1. Init => Pool!Init
    BY DEF Init, Pool!Init, Owned, At, NoCall
  <1>2. ManagerInit => Pool!Init
    BY <1>1 DEF ManagerInit
  <1>3. ManagerInv /\ [ManagerNext]_managerVars
        => [Pool!Next]_<<[t \in Threads |-> Owned(t)],
                         Nodes \ UNION {Owned(t) : t \in Threads}>>
    BY ManagerMoves
  <1>4. /\ Pool!Init
        /\ [][Pool!Next]_<<[t \in Threads |-> Owned(t)],
                           Nodes \ UNION {Owned(t) : t \in Threads}>>
        => ImplementsNodePool
    BY DEF ImplementsNodePool, Pool!Spec
  <1> QED
    BY <1>2, <1>3, <1>4, ManagerAlways, PTL DEF ManagerSpec
=============================================================================
