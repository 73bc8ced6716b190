-------------------------- MODULE FreeList_DASProof --------------------------
(***************************************************************************)
(* For any number of threads, nodes and tags: the tag keeps every stale    *)
(* compare-exchange from succeeding, so that each node is in one place,    *)
(* and the list is a pool of nodes.                                        *)
(***************************************************************************)
EXTENDS FreeList_DASProps, TLAPS

\* The nodes a thread has or is adding, and those nobody has.
Mine(t) == held[t] \union Adding(t)
Free == Nodes \ UNION {Mine(t) : t \in Threads}

OwnedOnce ==
    \A t \in Threads :
        /\ held[t] \intersect Adding(t) = {}
        /\ \A u \in Threads \ {t} : Mine(t) \intersect Mine(u) = {}

\* What the list is like, said of the nodes nobody has: it ends among them, and
\* they are all in it.
FreeChain ==
    /\ Closed(Free)
    /\ \A S \in SUBSET Nodes : Closed(S) => Free \subseteq S
    /\ \A n \in Free : FreeListNext[n] # NoNode =>
          /\ FreeListNext[n] # ListHead.Ptr
          /\ \A m \in Free \ {n} : FreeListNext[m] # FreeListNext[n]

IndInv == TypeOK /\ OwnedOnce /\ FreeChain /\ SwapsAreCurrent

\* The nodes of the list are those that nobody has.
LEMMA ListedIsFree == FreeChain => Listed = Free
  BY DEF FreeChain, Listed, Free

LEMMA IndInvIsInv == IndInv => Inv
  <1> SUFFICES ASSUME IndInv PROVE Inv
    OBVIOUS
  <1>1. Listed = Free
    BY ListedIsFree DEF IndInv
  <1>2. TypeOK /\ \A t \in Threads : Mine(t) \subseteq Nodes
    BY DEF IndInv, TypeOK, Mine, Adding, Calls, NoCall
  <1>3. EachNodeOnce
    <2>1. Nodes = Free \union UNION {Mine(t) : t \in Threads}
      BY <1>2 DEF Free
    <2>2. \A t \in Threads : Mine(t) \intersect Free = {}
      BY DEF Free
    <2> QED
      BY <1>1, <2>1, <2>2 DEF EachNodeOnce, IndInv, OwnedOnce, Mine
  <1>4. Chain
    BY <1>1 DEF IndInv, FreeChain, Chain
  <1> QED
    BY <1>2, <1>3, <1>4 DEF IndInv, Inv

LEMMA InitInd == Init => IndInv
  <1> SUFFICES ASSUME Init PROVE IndInv
    OBVIOUS
  <1>1. TypeOK
    BY TagAssumption DEF Init, TypeOK, Heads, Tags, Calls
  <1>2. \A t \in Threads : Adding(t) = {} /\ Mine(t) = held[t]
    BY DEF Init, Adding, Mine, NoCall
  <1>3. OwnedOnce
    BY <1>2 DEF Init, OwnedOnce
  <1>4. Free = {}
    BY <1>2 DEF Init, Free
  <1>5. FreeChain
    BY <1>4 DEF Init, FreeChain, Closed
  <1>6. SwapsAreCurrent
    BY DEF Init, SwapsAreCurrent, At, NoCall
  <1> QED
    BY <1>1, <1>3, <1>5, <1>6 DEF IndInv

-----------------------------------------------------------------------------
LEMMA NextTagOK == \A tag \in Tags : NextTag(tag) \in Tags
  BY TagAssumption DEF Tags, NextTag

\* The call of an Add that tries again.
LEMMA AgainOK ==
  ASSUME NEW r \in [step : {"addSwap"}, node : Nodes, CurrentHead : Heads], NEW head
  PROVE  [r EXCEPT !.step = "addNext", !.CurrentHead = head]
            \in [step : {"addNext"}, node : {r.node}, CurrentHead : {head}]
  OBVIOUS

LEMMA TypeStep ==
  ASSUME TypeOK, SwapsAreCurrent, NEW t \in Threads, Step(t)
  PROVE  TypeOK'
  <1> USE NodesAssumption DEF TypeOK, Heads, Calls, NoCall, At, Goto
  <1>1. ASSUME NEW n \in Nodes, AddBegins(t, n) PROVE TypeOK'
    BY <1>1 DEF AddBegins
  <1>2. CASE StoreNext(t)
    <2>1. call[t] \in [step : {"addNext"}, node : Nodes, CurrentHead : Heads]
      BY <1>2 DEF StoreNext
    <2> QED
      BY <1>2, <2>1 DEF StoreNext
  <1>3. CASE SwapHeadIn(t)
    <2>1. call[t] \in [step : {"addSwap"}, node : Nodes, CurrentHead : Heads]
      BY <1>3 DEF SwapHeadIn
    <2>2. ListHead' \in Heads
      BY <1>3, <2>1, NextTagOK DEF SwapHeadIn, Swap
    <2>3. [call[t] EXCEPT !.step = "addNext", !.CurrentHead = ListHead] \in Calls
      BY <2>1, AgainOK
    <2>4. call' \in [Threads -> Calls]
      BY <1>3, <2>1, <2>3 DEF SwapHeadIn, Swap
    <2> QED
      BY <1>3, <2>2, <2>4 DEF SwapHeadIn
  <1>4. CASE GetBegins(t)
    BY <1>4 DEF GetBegins, Try
  <1>5. CASE LoadNext(t)
    <2>1. /\ call[t] \in [step : {"getNext"}, CurrentHead : Heads]
          /\ call[t].CurrentHead.Ptr \in Nodes
      BY <1>5 DEF LoadNext, SwapsAreCurrent
    <2> QED
      BY <1>5, <2>1 DEF LoadNext
  <1>6. CASE SwapHeadOut(t)
    <2>1. /\ call[t] \in [step : {"getSwap"}, CurrentHead : Heads,
                          next : Nodes \union {NoNode}]
          /\ call[t].CurrentHead.Ptr \in Nodes
      BY <1>6 DEF SwapHeadOut, SwapsAreCurrent
    <2>2. ListHead' \in Heads
      BY <1>6, <2>1, NextTagOK DEF SwapHeadOut, Swap
    <2>3. call' \in [Threads -> Calls]
      BY <1>6, <2>1 DEF SwapHeadOut, Swap, Try
    <2>4. held' \in [Threads -> SUBSET Nodes]
      BY <1>6, <2>1 DEF SwapHeadOut, Unchanged
    <2> QED
      BY <1>6, <2>2, <2>3, <2>4 DEF SwapHeadOut
  <1> QED
    BY <1>1, <1>2, <1>3, <1>4, <1>5, <1>6 DEF Step

-----------------------------------------------------------------------------
\* What the other threads have, and where they are, stays.
LEMMA OthersStay ==
  ASSUME TypeOK, NEW t \in Threads, Step(t), NEW u \in Threads \ {t}
  PROVE  call'[u] = call[u] /\ held'[u] = held[u] /\ Adding(u)' = Adding(u)
         /\ Mine(u)' = Mine(u)
  <1>1. call'[u] = call[u]
    BY DEF TypeOK, Step, AddBegins, StoreNext, SwapHeadIn, GetBegins, LoadNext,
           SwapHeadOut, Swap, Goto
  <1>2. held'[u] = held[u]
    BY DEF TypeOK, Step, AddBegins, StoreNext, SwapHeadIn, GetBegins, LoadNext,
           SwapHeadOut
  <1> QED
    BY <1>1, <1>2 DEF Adding, Mine

\* A thread takes a node that nobody has, gives one up, or keeps what it has.
LEMMA OwnedStep ==
  ASSUME IndInv, NEW t \in Threads, Step(t), TypeOK',
         held'[t] \intersect Adding(t)' = {},
         Mine(t)' \subseteq Mine(t) \union Free
  PROVE  OwnedOnce' /\ Free' = (Free \union Mine(t)) \ Mine(t)'
  <1>1. \A u \in Threads \ {t} : /\ held'[u] \intersect Adding(u)' = {}
                                 /\ Mine(u)' = Mine(u)
    BY OthersStay DEF IndInv, OwnedOnce
  <1>2. \A u \in Threads \ {t} : Mine(t)' \intersect Mine(u) = {}
    BY DEF IndInv, OwnedOnce, Free
  <1>3. OwnedOnce'
    BY <1>1, <1>2 DEF IndInv, OwnedOnce
  <1>4. \A u \in Threads : Mine(u) \subseteq Nodes
    BY DEF IndInv, TypeOK, Mine, Adding, Calls, NoCall
  <1>5. Free' = (Free \union Mine(t)) \ Mine(t)'
    BY <1>1, <1>2, <1>4 DEF IndInv, OwnedOnce, Free
  <1> QED
    BY <1>3, <1>5

\* Where a thread keeps its nodes and the list is not touched.
LEMMA Frame ==
  ASSUME IndInv, NEW t \in Threads, Step(t), TypeOK',
         held'[t] \intersect Adding(t)' = {}, Mine(t)' = Mine(t),
         ListHead' = ListHead,
         \A n \in Free : FreeListNext'[n] = FreeListNext[n]
  PROVE  OwnedOnce' /\ FreeChain' /\ Free' = Free
  <1>1. OwnedOnce' /\ Free' = Free
    BY OwnedStep DEF Free
  <1>2. \A S : Closed(S)' /\ S \in SUBSET Nodes => Closed(S \intersect Free)
    BY DEF IndInv, FreeChain, Closed, Free
  <1>3. \A S \in SUBSET Nodes : Closed(S)' => Free \subseteq S
    BY <1>2 DEF IndInv, FreeChain
  <1> QED
    BY <1>1, <1>3 DEF IndInv, FreeChain, Closed

\* A node is pushed onto the head its Next leads to.
LEMMA PushChain ==
  ASSUME FreeChain, NEW n \in Nodes \ Free, Free' = Free \union {n},
         FreeListNext[n] = ListHead.Ptr, FreeListNext' = FreeListNext,
         ListHead'.Ptr = n
  PROVE  FreeChain'
  <1> USE NodesAssumption
  <1>1. Closed(Free)'
    BY DEF FreeChain, Closed
  <1>2. ASSUME NEW S \in SUBSET Nodes, Closed(S)' PROVE Free' \subseteq S
    <2>1. n \in S /\ ListHead.Ptr \in S \union {NoNode}
      BY <1>2 DEF Closed
    <2>2. Closed(S)
      BY <1>2, <2>1 DEF Closed
    <2> QED
      BY <2>1, <2>2 DEF FreeChain
  <1>3. \A m \in Free : FreeListNext[m] # n
    BY DEF FreeChain, Closed
  <1>4. ListHead.Ptr # NoNode => \A m \in Free : FreeListNext[m] # ListHead.Ptr
    BY DEF FreeChain, Closed
  <1>5. ListHead.Ptr # n
    BY DEF FreeChain, Closed
  <1> QED
    BY <1>1, <1>2, <1>3, <1>4, <1>5 DEF FreeChain

\* The head is taken and its Next, as it is in the list, becomes the head.
LEMMA PopChain ==
  ASSUME FreeChain, NEW n \in Nodes, n = ListHead.Ptr, Free' = Free \ {n},
         FreeListNext' = FreeListNext, ListHead'.Ptr = FreeListNext[n]
  PROVE  FreeChain'
  <1> USE NodesAssumption
  <1>1. n \in Free
    BY DEF FreeChain, Closed
  <1>2. Closed(Free)'
    BY <1>1 DEF FreeChain, Closed
  <1>3. ASSUME NEW S \in SUBSET Nodes, Closed(S)' PROVE Free' \subseteq S
    <2>1. Closed(S \union {n})
      BY <1>3 DEF Closed
    <2> QED
      BY <2>1 DEF FreeChain
  <1> QED
    BY <1>1, <1>2, <1>3 DEF FreeChain

-----------------------------------------------------------------------------
\* Other threads' compare-exchanges remain what they were, as long as the list's
\* nodes keep their Next, and a new head has a tag that no call remembers.
LEMMA SwapsOfOthers ==
  ASSUME IndInv, NEW t \in Threads, Step(t),
         \A n \in Nodes \ Mine(t) : FreeListNext'[n] = FreeListNext[n],
         \/ ListHead' = ListHead
         \/ ~Overtaken(t, ListHead'.Tag),
         NEW u \in Threads \ {t}
  PROVE  /\ At(u, "addSwap")' => FreeListNext'[call'[u].node] = call'[u].CurrentHead.Ptr
         /\ call'[u].step \in {"getNext", "getSwap"} => call'[u].CurrentHead.Ptr # NoNode
         /\ At(u, "getSwap")' /\ call'[u].CurrentHead = ListHead' =>
               call'[u].next = FreeListNext'[ListHead'.Ptr]
  <1>1. call'[u] = call[u]
    BY OthersStay DEF IndInv
  <1>2. CASE At(u, "addSwap")
    <2>1. call[u].node \in Nodes /\ call[u].node \in Mine(u)
      BY <1>2 DEF IndInv, TypeOK, Calls, NoCall, At, Mine, Adding
    <2>2. call[u].node \notin Mine(t)
      BY <2>1 DEF IndInv, OwnedOnce
    <2> QED
      BY <1>1, <1>2, <2>1, <2>2 DEF IndInv, SwapsAreCurrent, At
  <1>3. CASE At(u, "getSwap") /\ call[u].CurrentHead = ListHead'
    <2>1. ~At(u, "idle")
      BY <1>3 DEF At
    <2>2. ListHead' = ListHead
      BY <1>3, <2>1 DEF Overtaken
    <2>3. ListHead.Ptr \in Nodes \ Mine(t)
      BY <1>3, <2>2 DEF IndInv, SwapsAreCurrent, FreeChain, Closed, Free, At
    <2> QED
      BY <1>1, <1>3, <2>2, <2>3 DEF IndInv, SwapsAreCurrent, At
  <1> QED
    BY <1>1, <1>2, <1>3 DEF IndInv, SwapsAreCurrent, At

\* A step that changes neither the list nor what the thread has.
LEMMA QuietStep ==
  ASSUME IndInv, NEW t \in Threads, Step(t), TypeOK',
         UNCHANGED <<ListHead, FreeListNext>>, held'[t] = held[t], Adding(t)' = Adding(t)
  PROVE  OwnedOnce' /\ FreeChain'
  <1>1. held'[t] \intersect Adding(t)' = {} /\ Mine(t)' = Mine(t)
    BY DEF IndInv, OwnedOnce, Mine
  <1> QED
    BY <1>1, Frame

LEMMA StepInd ==
  ASSUME IndInv, NEW t \in Threads, Step(t)
  PROVE  IndInv'
  <1> USE NodesAssumption
  <1>t. TypeOK /\ TypeOK'
    BY TypeStep DEF IndInv
  <1> DEFINE Current(u) ==
        /\ At(u, "addSwap") => FreeListNext[call[u].node] = call[u].CurrentHead.Ptr
        /\ call[u].step \in {"getNext", "getSwap"} => call[u].CurrentHead.Ptr # NoNode
        /\ At(u, "getSwap") /\ call[u].CurrentHead = ListHead =>
              call[u].next = FreeListNext[ListHead.Ptr]
  <1>s. ASSUME OwnedOnce', FreeChain', Current(t)',
               \A n \in Nodes \ Mine(t) : FreeListNext'[n] = FreeListNext[n],
               ListHead' = ListHead \/ ~Overtaken(t, ListHead'.Tag)
        PROVE  IndInv'
    <2>1. \A u \in Threads \ {t} : Current(u)'
      BY <1>s, SwapsOfOthers DEF At
    <2> QED
      BY <1>s, <1>t, <2>1 DEF IndInv, SwapsAreCurrent
  <1>c. Current(t)
    BY DEF IndInv, SwapsAreCurrent
  <1>1. ASSUME NEW n \in Nodes, AddBegins(t, n) PROVE IndInv'
    <2>1. /\ call[t].step = "idle" /\ call'[t].step = "addNext" /\ call'[t].node = n
          /\ n \in held[t] /\ held'[t] = held[t] \ {n}
      BY <1>1, <1>t DEF AddBegins, TypeOK, At, Goto
    <2>2. held'[t] \intersect Adding(t)' = {} /\ Mine(t)' = Mine(t)
      BY <2>1 DEF Mine, Adding
    <2> QED
      BY <1>1, <1>s, <1>t, <2>1, <2>2, Frame DEF AddBegins, At
  <1>2. CASE StoreNext(t)
    <2>1. /\ call[t] \in [step : {"addNext"}, node : Nodes, CurrentHead : Heads]
          /\ call'[t] = [call[t] EXCEPT !.step = "addSwap"]
      BY <1>2, <1>t DEF StoreNext, TypeOK, Calls, NoCall, At, Goto
    <2>2. /\ call'[t].step = "addSwap" /\ call'[t].node = call[t].node
          /\ call'[t].CurrentHead = call[t].CurrentHead
      BY <2>1
    <2>3. Adding(t)' = {call[t].node} /\ Adding(t) = {call[t].node}
      BY <2>1, <2>2 DEF Adding
    <2>4. \A n \in Nodes \ Mine(t) : FreeListNext'[n] = FreeListNext[n]
      BY <1>2, <1>t, <2>3 DEF StoreNext, TypeOK, Mine
    <2>5. FreeListNext'[call[t].node] = call[t].CurrentHead.Ptr
      BY <1>2, <1>t, <2>1 DEF StoreNext, TypeOK
    <2>6. OwnedOnce' /\ FreeChain'
      <3>1. held'[t] \intersect Adding(t)' = {} /\ Mine(t)' = Mine(t)
        BY <1>2, <2>3 DEF StoreNext, IndInv, OwnedOnce, Mine
      <3> QED
        BY <1>2, <1>t, <2>4, <3>1, Frame DEF StoreNext, Free
    <2> QED
      BY <1>2, <1>s, <2>2, <2>4, <2>5, <2>6 DEF StoreNext, At
  <1>3. CASE SwapHeadIn(t)
    <2>1. call[t] \in [step : {"addSwap"}, node : Nodes, CurrentHead : Heads]
      BY <1>3, <1>t DEF SwapHeadIn, TypeOK, Calls, NoCall, At
    <2>2. Adding(t) = {call[t].node}
      BY <2>1 DEF Adding
    <2>3. CASE ~Unchanged(call[t].CurrentHead)
      <3>1. call'[t] = [call[t] EXCEPT !.step = "addNext", !.CurrentHead = ListHead]
        BY <1>3, <1>t, <2>3 DEF SwapHeadIn, Swap, TypeOK, Goto
      <3>2. call'[t].step = "addNext" /\ Adding(t)' = Adding(t)
        BY <2>1, <2>2, <3>1, AgainOK DEF Adding
      <3> QED
        BY <1>3, <1>s, <1>t, <2>3, <3>2, QuietStep DEF SwapHeadIn, Swap, At
    <2>4. CASE Unchanged(call[t].CurrentHead)
      <3> DEFINE n == call[t].node
      <3>1. /\ ListHead = call[t].CurrentHead /\ ~Overtaken(t, ListHead'.Tag)
            /\ ListHead'.Ptr = n /\ call'[t] = NoCall
        BY <1>3, <1>t, <2>4 DEF SwapHeadIn, Swap, TypeOK, Goto, Unchanged
      <3>2. held'[t] = held[t] /\ Adding(t)' = {} /\ Mine(t)' = held[t]
        BY <1>3, <3>1 DEF SwapHeadIn, Adding, NoCall, Mine
      <3>3. n \in Mine(t) /\ n \notin held[t] /\ Mine(t) = held[t] \union {n}
        BY <2>2 DEF IndInv, OwnedOnce, Mine
      <3>4. OwnedOnce' /\ Free' = Free \union {n}
        <4>1. OwnedOnce' /\ Free' = (Free \union Mine(t)) \ Mine(t)'
          BY <1>t, <3>2, <3>3, OwnedStep
        <4>2. Free \intersect Mine(t) = {}
          BY DEF Free
        <4> QED
          BY <3>2, <3>3, <4>1, <4>2
      <3>5. n \in Nodes \ Free /\ FreeListNext[n] = ListHead.Ptr
        BY <1>3, <2>1, <3>1, <3>3 DEF IndInv, SwapsAreCurrent, Free, SwapHeadIn
      <3>6. FreeChain'
        BY <1>3, <3>1, <3>4, <3>5, PushChain DEF SwapHeadIn, IndInv
      <3> QED
        BY <1>3, <1>s, <3>1, <3>4, <3>6 DEF SwapHeadIn, At, NoCall
    <2> QED
      BY <2>3, <2>4
  <1>4. CASE GetBegins(t)
    <2>1. call'[t] = [step |-> "getNext", CurrentHead |-> ListHead] /\ At(t, "idle")
      BY <1>4, <1>t DEF GetBegins, Try, TypeOK, Goto
    <2>2. Adding(t)' = {} /\ Adding(t) = {}
      BY <2>1 DEF Adding, At
    <2> QED
      BY <1>4, <1>s, <1>t, <2>1, <2>2, QuietStep DEF GetBegins, At
  <1>5. CASE LoadNext(t)
    <2>1. /\ At(t, "getNext")
          /\ call'[t] = [step |-> "getSwap", CurrentHead |-> call[t].CurrentHead,
                         next |-> FreeListNext[call[t].CurrentHead.Ptr]]
      BY <1>5, <1>t DEF LoadNext, TypeOK, Goto
    <2>2. Adding(t)' = {} /\ Adding(t) = {}
      BY <2>1 DEF Adding, At
    <2> QED
      BY <1>5, <1>c, <1>s, <1>t, <2>1, <2>2, QuietStep DEF LoadNext, At
  <1>6. CASE SwapHeadOut(t)
    <2>1. At(t, "getSwap") /\ Adding(t) = {} /\ Mine(t) = held[t]
      BY <1>6 DEF SwapHeadOut, Adding, At, Mine
    <2>2. CASE ~Unchanged(call[t].CurrentHead)
      <3>1. call'[t] = Try(ListHead) /\ UNCHANGED <<ListHead, FreeListNext, held>>
        BY <1>6, <1>t, <2>2 DEF SwapHeadOut, Swap, TypeOK, Goto
      <3>2. Adding(t)' = {} /\ ~At(t, "getSwap")' /\ ~At(t, "addSwap")'
        BY <3>1 DEF Adding, Try, NoCall, At
      <3>3. At(t, "getNext")' => call'[t].CurrentHead.Ptr # NoNode
        BY <3>1 DEF Try, NoCall, At
      <3> QED
        BY <1>s, <1>t, <2>1, <3>1, <3>2, <3>3, QuietStep DEF At
    <2>3. CASE Unchanged(call[t].CurrentHead)
      <3> DEFINE n == ListHead.Ptr
      <3>1. /\ ListHead = call[t].CurrentHead /\ ~Overtaken(t, ListHead'.Tag)
            /\ ListHead'.Ptr = call[t].next /\ call'[t] = NoCall
            /\ held'[t] = held[t] \union {n}
        BY <1>6, <1>t, <2>3 DEF SwapHeadOut, Swap, TypeOK, Goto, Unchanged
      <3>2. n \in Free /\ n \in Nodes /\ call[t].next = FreeListNext[n]
        BY <1>c, <2>1, <3>1 DEF IndInv, FreeChain, Closed, Free, At
      <3>3. Adding(t)' = {} /\ Mine(t)' = Mine(t) \union {n}
        BY <2>1, <3>1 DEF Adding, NoCall, Mine
      <3>4. OwnedOnce' /\ Free' = Free \ {n}
        <4>1. OwnedOnce' /\ Free' = (Free \union Mine(t)) \ Mine(t)'
          BY <1>t, <3>2, <3>3, OwnedStep
        <4>2. Free \intersect Mine(t) = {}
          BY DEF Free
        <4> QED
          BY <3>3, <4>1, <4>2
      <3>5. FreeChain'
        BY <1>6, <3>1, <3>2, <3>4, PopChain DEF SwapHeadOut, IndInv
      <3> QED
        BY <1>6, <1>s, <3>1, <3>4, <3>5 DEF SwapHeadOut, At, NoCall
    <2> QED
      BY <2>2, <2>3
  <1> QED
    BY <1>1, <1>2, <1>3, <1>4, <1>5, <1>6 DEF Step

LEMMA NextInd == IndInv /\ [Next]_vars => IndInv'
  <1>1. ASSUME IndInv, UNCHANGED vars PROVE IndInv'
    BY <1>1 DEF vars, IndInv, TypeOK, OwnedOnce, FreeChain, SwapsAreCurrent, Closed,
           Free, Mine, Adding, At
  <1> QED
    BY <1>1, StepInd DEF Next

\* Whatever the threads do, each node is in the list, with one thread, or in that
\* thread's Add; every compare-exchange that can succeed installs the Next that
\* belongs to the head.
THEOREM Invariance == Spec => []Inv
  <1>1. Spec => []IndInv
    BY InitInd, NextInd, PTL DEF Spec
  <1> QED
    BY <1>1, IndInvIsInv, PTL

-----------------------------------------------------------------------------
\* Add gives its node to the pool, where nobody gets it before it is in the list;
\* TryGet takes one out when its compare-exchange succeeds.  All else is a stutter
\* of the pool.
LEMMA PoolStep ==
  ASSUME IndInv, [Next]_vars
  PROVE  [Pool!Next]_<<held, Nodes \ UNION {held[t] : t \in Threads}>>
  <1> DEFINE Nobodys == Nodes \ UNION {held[t] : t \in Threads}
  <1>1. ASSUME UNCHANGED held PROVE [Pool!Next]_<<held, Nobodys>>
    BY <1>1
  <1>2. ASSUME NEW t \in Threads, NEW n \in Nodes, AddBegins(t, n)
        PROVE  Pool!Next
    <2>1. n \in held[t] /\ held' = [held EXCEPT ![t] = @ \ {n}]
      BY <1>2 DEF AddBegins
    <2>2. \A u \in Threads : held'[u] = held[u] \ {n}
      BY <2>1 DEF IndInv, TypeOK, OwnedOnce, Mine
    <2>3. Nobodys' = Nobodys \union {n}
      BY <2>2
    <2> QED
      BY <2>1, <2>3 DEF Pool!Next, Pool!Add
  <1>3. ASSUME NEW t \in Threads, SwapHeadOut(t), Unchanged(call[t].CurrentHead)
        PROVE  Pool!Next
    <2> DEFINE n == ListHead.Ptr
    <2>1. At(t, "getSwap") /\ held' = [held EXCEPT ![t] = @ \union {n}]
      BY <1>3 DEF SwapHeadOut
    <2>2. n \in Free /\ n \in Nodes
      BY <1>3, <2>1 DEF IndInv, SwapsAreCurrent, FreeChain, Closed, Free, At, Unchanged
    <2>3. n \in Nobodys
      BY <2>2 DEF Free, Mine
    <2>4. /\ held'[t] = held[t] \union {n}
          /\ \A u \in Threads \ {t} : held'[u] = held[u]
      BY <2>1 DEF IndInv, TypeOK
    <2>5. Nobodys' = Nobodys \ {n}
      BY <2>4
    <2> QED
      BY <2>1, <2>2, <2>3, <2>5 DEF Pool!Next, Pool!TryGet
  <1>4. ASSUME NEW t \in Threads, Step(t) PROVE [Pool!Next]_<<held, Nobodys>>
    BY <1>1, <1>2, <1>3, <1>4
       DEF Step, StoreNext, SwapHeadIn, GetBegins, LoadNext, SwapHeadOut
  <1> QED
    BY <1>1, <1>4 DEF Next, vars

\* The list is a pool: no two threads ever get the same node, and no node that a
\* thread has added is lost.
THEOREM Refinement == Spec => ImplementsNodePool
  <1>1. Init => Pool!Init
    BY DEF Init, Pool!Init
  <1>2. Spec => []IndInv
    BY InitInd, NextInd, PTL DEF Spec
  <1> QED
    BY <1>1, <1>2, PoolStep, PTL DEF Spec, ImplementsNodePool, Pool!Spec
=============================================================================
