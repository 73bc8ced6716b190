-------------------------- MODULE ConcurrentQueue --------------------------
(***************************************************************************)
(* ConcurrentQueue (ConcurrentQueue.h): a list of producers that only      *)
(* grows, each with a sub-queue.  An owner, a ProducerToken or a thread    *)
(* that enqueues without one, takes over a producer that a destroyed token *)
(* left inactive, or pushes a new one.  A consumer looks through the list  *)
(* for items: the fullest producers first, in list order, or round from    *)
(* the producer its ConsumerToken is at, which moves on as consumers       *)
(* rotate.                                                                 *)
(*                                                                         *)
(* A sub-queue is the number of its items: FastQueue, SlowQueue and        *)
(* QueueBase are about what is in it.  HashTable, which finds a thread's   *)
(* producer, is the function node.                                         *)
(***************************************************************************)
EXTENDS Integers, FiniteSets, FiniteSetsExt

CONSTANTS
    Tokens,         \* ProducerToken objects
    ImplicitThreads,    \* threads that enqueue without a token
    Consumers,
    TokensOf,       \* TokensOf[c]: the ConsumerToken objects of consumer c
    Nodes, Null,    \* ProducerListNodes that may be made; nullptr
    QUOTA,          \* EXPLICIT_CONSUMER_CONSUMPTION_QUOTA_BEFORE_ROTATE
    OffsetSize,     \* offsets are unsigned numbers below this (2^32)
    MaxOffset,      \* bound on the GlobalOffset a call with a token begins at;
                    \* OffsetSize - 1 is no bound
    CallSets,       \* each the kinds of calls a program makes: "implicit", "enqueue",
                    \* "destroy", "move", "scan", "list", "token", "swap", "from"
    Wants,          \* MaxCount of bulk calls
    MaxSize         \* bound on the items of a sub-queue

Owners == Tokens \union ImplicitThreads

ASSUME OwnersAssumption == Tokens \intersect ImplicitThreads = {}
ASSUME NodesAssumption == Null \notin Nodes /\ IsFiniteSet(Nodes)
ASSUME NumbersAssumption ==
    /\ QUOTA \in Nat \ {0} /\ OffsetSize \in Nat \ {0} /\ MaxOffset \in Nat /\ MaxSize \in Nat
    /\ Wants \subseteq Nat
\* A ConsumerToken is used by one consumer.
ASSUME TokensAssumption ==
    \A c, d \in Consumers : c # d => TokensOf[c] \intersect TokensOf[d] = {}

VARIABLES
    ProducerListsHead, ProducerCount,
    Next, Inactive, Type,   \* of each node; Type is "none" until it is made
    size,           \* size[n]: the items in the sub-queue of n
    node,           \* node[o]: the producer of owner o, or Null
    po,             \* po[o]: where o is in GetProducerListNode
    GlobalOffset,   \* GlobalExplicitConsumerOffset
    NextId,         \* NextExplicitConsumerId
    tok,            \* tok[x]: the ConsumerToken x
    con,            \* con[c]: where c is in a dequeue, and its locals
    calls,          \* auxiliary: the one of CallSets this is
    missed          \* auxiliary, see Observe

list     == <<ProducerListsHead, ProducerCount, Next, Type>>
owners   == <<node, po, Inactive>>
rotation == <<GlobalOffset, NextId, tok>>
vars     == <<list, owners, size, rotation, con, calls, missed>>

-----------------------------------------------------------------------------
NoCall == [step |-> "idle"]
NoToken == [valid |-> FALSE, initial |-> 0, known |-> 0, items |-> 0,
            current |-> Null, desired |-> Null]
ConsumerTokens == UNION {TokensOf[c] : c \in Consumers}
TypeOf(o) == IF o \in Tokens THEN "Explicit" ELSE "Implicit"

\* A set of nodes that has head and does not end before a Next that is Null.
Closed(S, head) ==
    /\ head = Null \/ head \in S
    /\ \A n \in S : Next[n] \in S \union {Null}

\* The nodes from head on: the smallest such set.
ListFrom(head) == {n \in Nodes : \A S \in SUBSET Nodes : Closed(S, head) => n \in S}

Listed == ListFrom(ProducerListsHead)

Init ==
    /\ ProducerListsHead = Null /\ ProducerCount = 0
    /\ Next = [n \in Nodes |-> Null]
    /\ Inactive = [n \in Nodes |-> FALSE]
    /\ Type = [n \in Nodes |-> "none"]
    /\ size = [n \in Nodes |-> 0]
    /\ node = [o \in Owners |-> Null]
    /\ po = [o \in Owners |-> NoCall]
    /\ GlobalOffset = 0 /\ NextId = 0
    /\ tok = [x \in ConsumerTokens |-> NoToken]
    /\ con = [c \in Consumers |-> NoCall]
    /\ calls \in CallSets
    /\ missed = [c \in Consumers |-> {}]

-----------------------------------------------------------------------------
(* GetProducerListNode, for a new token or a thread's first enqueue *)

\* The search goes on at n; after the last node one is created.
LookAt(o, n) ==
    po' = [po EXCEPT ![o] = [step |-> IF n = Null THEN "create" ELSE "look", at |-> n]]

Got(o, n) == node' = [node EXCEPT ![o] = n] /\ po' = [po EXCEPT ![o] = NoCall]

BeginSearch(o) ==
    /\ po[o].step = "idle" /\ node[o] = Null
    /\ o \in ImplicitThreads => "implicit" \in calls
    /\ LookAt(o, ProducerListsHead)
    /\ UNCHANGED <<list, node, Inactive, size, rotation, con>>

Look(o) ==
    /\ po[o].step = "look"
    /\ IF Inactive[po[o].at] /\ Type[po[o].at] = TypeOf(o)
       THEN po' = [po EXCEPT ![o].step = "claim"]
       ELSE LookAt(o, Next[po[o].at])
    /\ UNCHANGED <<list, node, Inactive, size, rotation, con>>

\* Slip: the node is taken over as it was seen.
ClaimSeenNode(o) ==
    /\ po[o].step = "claim"
    /\ Inactive' = [Inactive EXCEPT ![po[o].at] = FALSE]
    /\ Got(o, po[o].at)
    /\ UNCHANGED <<list, size, rotation, con>>

\* The compare-exchange of Inactive from true to false.
ClaimNode(o) ==
    /\ po[o].step = "claim"
    /\ IF Inactive[po[o].at]
       THEN Inactive' = [Inactive EXCEPT ![po[o].at] = FALSE] /\ Got(o, po[o].at)
       ELSE LookAt(o, Next[po[o].at]) /\ UNCHANGED <<node, Inactive>>
    /\ UNCHANGED <<list, size, rotation, con>>

\* Slip: the new producer is counted once it is in the list, if at all.
CreateNodeUncounted(o) ==
    /\ po[o].step = "create"
    /\ \E n \in Nodes :
          /\ Type[n] = "none"
          /\ Type' = [Type EXCEPT ![n] = TypeOf(o)]
          /\ po' = [po EXCEPT ![o] = [step |-> "link", node |-> n]]
    /\ UNCHANGED <<ProducerListsHead, ProducerCount, Next, node, Inactive, size,
                   rotation, con>>

\* CreateProducerListNode; AddProducer counts it before it is in the list.
CreateNode(o) ==
    /\ po[o].step = "create"
    /\ \E n \in Nodes :
          /\ Type[n] = "none"
          /\ Type' = [Type EXCEPT ![n] = TypeOf(o)]
          /\ po' = [po EXCEPT ![o] = [step |-> "link", node |-> n]]
    /\ ProducerCount' = ProducerCount + 1
    /\ UNCHANGED <<ProducerListsHead, Next, node, Inactive, size, rotation, con>>

\* The head is loaded, also by a failed compare-exchange, and linked to.
Link(o) ==
    /\ po[o].step = "link"
    /\ Next' = [Next EXCEPT ![po[o].node] = ProducerListsHead]
    /\ po' = [po EXCEPT ![o].step = "push"]
    /\ UNCHANGED <<ProducerListsHead, ProducerCount, Type, node, Inactive, size,
                   rotation, con>>

\* Slip: the head is stored without a comparison.
PushStored(o) ==
    /\ po[o].step = "push"
    /\ ProducerListsHead' = po[o].node
    /\ Got(o, po[o].node)
    /\ UNCHANGED <<ProducerCount, Next, Type, Inactive, size, rotation, con>>

Push(o) ==
    /\ po[o].step = "push"
    /\ IF ProducerListsHead = Next[po[o].node]
       THEN ProducerListsHead' = po[o].node /\ Got(o, po[o].node)
       ELSE /\ po' = [po EXCEPT ![o].step = "link"]
            /\ UNCHANGED <<ProducerListsHead, node>>
    /\ UNCHANGED <<ProducerCount, Next, Type, Inactive, size, rotation, con>>

\* ~ProducerToken: the sub-queue stays, with its items, for the next owner.
DestroyToken(o) ==
    /\ "destroy" \in calls /\ o \in Tokens /\ node[o] # Null
    /\ Inactive' = [Inactive EXCEPT ![node[o]] = TRUE]
    /\ node' = [node EXCEPT ![o] = Null]
    /\ UNCHANGED <<list, po, size, rotation, con>>

\* Token q is move-constructed from o.  (The move assignment and swap exchange
\* a token's producer with itself, and so change nothing.)
MoveToken(o, q) ==
    /\ "move" \in calls /\ node[o] # Null /\ node[q] = Null /\ po[q].step = "idle"
    /\ node' = [node EXCEPT ![q] = node[o], ![o] = Null]
    /\ UNCHANGED <<list, po, Inactive, size, rotation, con>>

Enqueue(o) ==
    /\ "enqueue" \in calls /\ node[o] # Null /\ size[node[o]] < MaxSize
    /\ size' = [size EXCEPT ![node[o]] = @ + 1]
    /\ UNCHANGED <<list, owners, rotation, con>>

OwnerStep(o) ==
    BeginSearch(o) \/ Look(o) \/ ClaimNode(o) \/ CreateNode(o) \/ Link(o) \/ Push(o)

-----------------------------------------------------------------------------
(* Dequeues.  A call wants one item, or as many as MaxCount (bulk).  It ends  *)
(* in "short" when it returns with less.                                      *)

InCall(c) == con[c].step # "idle"
Goto(c, to) == con' = [con EXCEPT ![c] = to]

\* How many of want items a dequeue from n can get: all there are, or less while
\* other consumers are in the queue.
Gets(c, n, want) ==
    LET most == IF size[n] < want THEN size[n] ELSE want
    IN  IF \E d \in Consumers \ {c} : InCall(d) THEN 0 .. most ELSE {most}

Remove(n, k) == size' = [size EXCEPT ![n] = @ - k]

Idle(c, kind) == con[c].step = "idle" /\ kind \in calls

(* TryDequeue without a token: a look at the sizes, then the fullest *)

BeginScan(c) ==
    /\ Idle(c, "scan")
    /\ Goto(c, [step |-> "scan", at |-> ProducerListsHead, seen |-> 0, best |-> Null,
                bestSize |-> 0])
    /\ UNCHANGED <<list, owners, size, rotation>>

\* The third producer with items ends the look.
Scan(c) ==
    /\ con[c].step = "scan" /\ con[c].at # Null /\ con[c].seen < 3
    /\ LET n == con[c].at
       IN  Goto(c, [step |-> "scan", at |-> Next[n],
                    seen |-> IF size[n] > 0 THEN con[c].seen + 1 ELSE con[c].seen,
                    best |-> IF size[n] > con[c].bestSize THEN n ELSE con[c].best,
                    bestSize |-> IF size[n] > con[c].bestSize THEN size[n]
                                 ELSE con[c].bestSize])
    /\ UNCHANGED <<list, owners, size, rotation>>

\* A dequeue that fails and the load of the list's head after it are one step: a
\* producer pushed between the two might as well have been pushed before, since
\* the dequeue does not look at the list.
TryBest(c) ==
    /\ con[c].step = "scan" /\ (con[c].at = Null \/ con[c].seen = 3)
    /\ IF con[c].best = Null
       THEN Goto(c, [step |-> "short"]) /\ UNCHANGED size
       ELSE \E k \in Gets(c, con[c].best, 1) :
               /\ Remove(con[c].best, k)
               /\ Goto(c, IF k = 1 THEN NoCall
                          ELSE [step |-> "walk", at |-> ProducerListsHead, want |-> 1,
                                skip |-> con[c].best])
    /\ UNCHANGED <<list, owners, rotation>>

(* TryDequeueNonInterleaved and TryDequeueBulk: down the list *)

BeginWalk(c, want) ==
    /\ Idle(c, "list")
    /\ Goto(c, [step |-> "walk", at |-> ProducerListsHead, want |-> want, skip |-> Null])
    /\ UNCHANGED <<list, owners, size, rotation>>

\* Slip: a producer without items ends the walk.
WalkWhileFound(c) ==
    /\ con[c].step = "walk" /\ con[c].at # Null
    /\ \E k \in IF con[c].at = con[c].skip THEN {0}
                ELSE Gets(c, con[c].at, con[c].want) :
          /\ Remove(con[c].at, k)
          /\ Goto(c, IF k = con[c].want THEN NoCall
                     ELSE IF k = 0 THEN [step |-> "short"]
                     ELSE [con[c] EXCEPT !.at = Next[@], !.want = @ - k])
    /\ UNCHANGED <<list, owners, rotation>>

Walk(c) ==
    /\ con[c].step = "walk" /\ con[c].at # Null
    /\ \E k \in IF con[c].at = con[c].skip THEN {0}
                ELSE Gets(c, con[c].at, con[c].want) :
          /\ Remove(con[c].at, k)
          /\ Goto(c, IF k = con[c].want THEN NoCall
                     ELSE [con[c] EXCEPT !.at = Next[@], !.want = @ - k])
    /\ UNCHANGED <<list, owners, rotation>>

WalkEnds(c) ==
    /\ con[c].step = "walk" /\ con[c].at = Null
    /\ Goto(c, [step |-> "short"])
    /\ UNCHANGED <<list, owners, size, rotation>>

(* ConsumerTokens *)

\* Slip: LastKnownGlobalOffset begins at 0.
MakeTokenAtZero(c, x) ==
    /\ Idle(c, "token") /\ ~tok[x].valid
    /\ tok' = [tok EXCEPT ![x] =
                  [valid |-> TRUE, initial |-> NextId, known |-> 0,
                   items |-> 0, current |-> Null, desired |-> Null]]
    /\ NextId' = (NextId + 1) % OffsetSize
    /\ UNCHANGED <<list, owners, size, GlobalOffset, con>>

MakeToken(c, x) ==
    /\ Idle(c, "token") /\ ~tok[x].valid
    /\ tok' = [tok EXCEPT ![x] =
                  [valid |-> TRUE, initial |-> NextId, known |-> OffsetSize - 1,
                   items |-> 0, current |-> Null, desired |-> Null]]
    /\ NextId' = (NextId + 1) % OffsetSize
    /\ UNCHANGED <<list, owners, size, GlobalOffset, con>>

\* swap leaves ItemsConsumed alone, and exchanges DesiredProducer twice.
SwapTokens(c, x, y) ==
    /\ Idle(c, "swap") /\ tok[x].valid /\ tok[y].valid
    /\ LET Mixed(a, b) == [a EXCEPT !.initial = b.initial, !.known = b.known,
                                    !.current = b.current]
       IN  tok' = [tok EXCEPT ![x] = Mixed(tok[x], tok[y]), ![y] = Mixed(tok[y], tok[x])]
    /\ UNCHANGED <<list, owners, size, GlobalOffset, NextId, con>>

\* TryDequeue and TryDequeueBulk with a token.
BeginToken(c, x, want, bulk) ==
    /\ Idle(c, "token") /\ tok[x].valid /\ GlobalOffset <= MaxOffset
    /\ Goto(c, [step |-> IF tok[x].desired = Null \/ tok[x].known # GlobalOffset
                         THEN "update" ELSE "current",
                token |-> x, want |-> want, bulk |-> bulk,
                head |-> Null, count |-> 0, at |-> Null])
    /\ UNCHANGED <<list, owners, size, rotation>>

\* The ConsumerToken of the call c is in, and its CurrentProducer.
Token(c) == tok[con[c].token]
CurrentProducer(c) == Token(c).current

(* UpdateProducerForConsumer *)

UpdateHead(c) ==
    /\ con[c].step = "update"
    /\ Goto(c, IF Token(c).desired = Null /\ ProducerListsHead = Null
               THEN [step |-> "short"]
               ELSE [con[c] EXCEPT !.step = "count", !.head = ProducerListsHead])
    /\ UNCHANGED <<list, owners, size, rotation>>

UpdateCount(c) ==
    /\ con[c].step = "count"
    /\ Goto(c, [con[c] EXCEPT !.step = "offset", !.count = ProducerCount])
    /\ UNCHANGED <<list, owners, size, rotation>>

\* The producer after n, round to head.
After(n, head) == IF Next[n] = Null THEN head ELSE Next[n]

Steps(n, head, k) ==
    LET at[i \in 0 .. k] == IF i = 0 THEN n ELSE After(at[i - 1], head)
    IN  at[k]

\* a & b: the greatest number whose bits are bits of both.
Bits(a) == {k \in 0 .. a : (a \div 2^k) % 2 = 1}
And(a, b) == Max({0} \union {r \in 1 .. b : Bits(r) \subseteq Bits(a) \intersect Bits(b)})

\* The first producer is chosen by InitialOffset; it moves on by as many as there
\* were rotations, or by what is left of them where it takes & for %.
UpdateProducer(c) ==
    /\ con[c].step = "offset"
    /\ LET head  == con[c].head
           count == con[c].count
           first == IF Token(c).desired # Null THEN Token(c).desired
                    ELSE Steps(head, head, Token(c).initial % count)
           delta == (GlobalOffset - Token(c).known) % OffsetSize
           now   == Steps(first, head, IF delta >= count THEN And(delta, count) ELSE delta)
       IN  tok' = [tok EXCEPT ![con[c].token] =
                      [@ EXCEPT !.desired = now, !.current = now, !.known = GlobalOffset,
                                !.items = 0]]
    /\ Goto(c, [con[c] EXCEPT !.step = "current", !.head = Null, !.count = 0])
    /\ UNCHANGED <<list, owners, size, GlobalOffset, NextId>>

\* A single dequeue compares for equality.
QuotaReached(items, bulk) == IF bulk THEN items >= QUOTA ELSE items = QUOTA

\* ItemsConsumed, not counted beyond QUOTA + 1: it is only compared with QUOTA.
Consumed(k) == IF k > QUOTA THEN QUOTA + 1 ELSE k

TryCurrent(c) ==
    /\ con[c].step = "current"
    /\ \E k \in Gets(c, CurrentProducer(c), con[c].want) :
          /\ Remove(CurrentProducer(c), k)
          /\ tok' = [tok EXCEPT ![con[c].token].items = Consumed(@ + k)]
          /\ Goto(c, IF k < con[c].want
                     THEN [con[c] EXCEPT !.step = "ringHead", !.want = @ - k]
                     ELSE IF QuotaReached(Token(c).items + k, con[c].bulk)
                     THEN [step |-> "rotate"] ELSE NoCall)
    /\ UNCHANGED <<list, owners, GlobalOffset, NextId>>

Rotate(c) ==
    /\ con[c].step = "rotate"
    /\ GlobalOffset' = (GlobalOffset + 1) % OffsetSize
    /\ Goto(c, NoCall)
    /\ UNCHANGED <<list, owners, size, NextId, tok>>

RingHead(c) ==
    /\ con[c].step = "ringHead"
    /\ Goto(c, [con[c] EXCEPT !.step = "ring", !.head = ProducerListsHead,
                              !.at = After(CurrentProducer(c), ProducerListsHead)])
    /\ UNCHANGED <<list, owners, size, rotation>>

RingAfter(c) == After(con[c].at, con[c].head)

\* Round the ring to CurrentProducer, which moves to where items were found.
Ring(c) ==
    /\ con[c].step = "ring" /\ con[c].at # CurrentProducer(c)
    /\ \E k \in Gets(c, con[c].at, con[c].want) :
          /\ Remove(con[c].at, k)
          /\ tok' = IF k = 0 THEN tok
                    ELSE [tok EXCEPT ![con[c].token] =
                             [@ EXCEPT !.current = con[c].at, !.items = Consumed(k)]]
          /\ Goto(c, IF k = con[c].want THEN NoCall
                     ELSE [con[c] EXCEPT !.want = @ - k, !.at = RingAfter(c)])
    /\ UNCHANGED <<list, owners, GlobalOffset, NextId>>

RingEnds(c) ==
    /\ con[c].step = "ring" /\ con[c].at = CurrentProducer(c)
    /\ Goto(c, [step |-> "short"])
    /\ UNCHANGED <<list, owners, size, rotation>>

ReturnShort(c) ==
    /\ con[c].step = "short"
    /\ Goto(c, NoCall)
    /\ UNCHANGED <<list, owners, size, rotation>>

\* TryDequeueFromProducer, TryDequeueBulkFromProducer
TakeFrom(c, o, want) ==
    /\ Idle(c, "from") /\ o \in Tokens /\ node[o] # Null
    /\ \E k \in Gets(c, node[o], want) : Remove(node[o], k)
    /\ UNCHANGED <<list, owners, rotation, con>>

CallStep(c) ==
    \/ Scan(c) \/ TryBest(c) \/ Walk(c) \/ WalkEnds(c)
    \/ UpdateHead(c) \/ UpdateCount(c) \/ UpdateProducer(c)
    \/ TryCurrent(c) \/ Rotate(c) \/ RingHead(c) \/ Ring(c) \/ RingEnds(c)
    \/ ReturnShort(c)

TokenCall(c) ==
    \E x \in TokensOf[c] :
        \/ BeginToken(c, x, 1, FALSE)
        \/ \E want \in Wants : BeginToken(c, x, want, TRUE)

ConsumerStep(c) ==
    \/ CallStep(c) \/ TokenCall(c)
    \/ \E x \in TokensOf[c] : MakeToken(c, x)
    \/ BeginScan(c)
    \/ \E want \in Wants \union {1} :
          BeginWalk(c, want) \/ \E o \in Tokens : TakeFrom(c, o, want)
    \/ \E x, y \in TokensOf[c] : x # y /\ SwapTokens(c, x, y)

-----------------------------------------------------------------------------
\* missed[c]: the producers that were in the list and had items when c's call
\* began and at every moment since, unless another consumer was in a call.
Observe ==
    missed' = [c \in Consumers |->
        IF con'[c].step = "idle" \/ (\E d \in Consumers \ {c} : con'[d].step # "idle")
        THEN {}
        ELSE {n \in IF InCall(c) THEN missed[c] ELSE Listed : size[n] > 0 /\ size'[n] > 0}]

NextStep ==
    /\ \/ \E o \in Owners : OwnerStep(o) \/ DestroyToken(o) \/ Enqueue(o)
       \/ \E o, q \in Tokens : MoveToken(o, q)
       \/ \E c \in Consumers : ConsumerStep(c)
    /\ Observe
    /\ UNCHANGED calls

Spec == Init /\ [][NextStep]_vars
=============================================================================
