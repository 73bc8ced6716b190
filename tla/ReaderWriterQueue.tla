-------------------------- MODULE ReaderWriterQueue --------------------------
(***************************************************************************)
(* ReaderWriterQueue (readerwriterqueue.h): one producer and one consumer  *)
(* on a ring of blocks, each of them a circular buffer.  The producer owns *)
(* TailBlock and the Tail of its block, the consumer FrontBlock and the    *)
(* Front of its block; each keeps in a block a copy of the other's index,  *)
(* LocalFront and LocalTail, and reads the shared one only when the copy   *)
(* says full or empty.  Each action makes at most one access to memory the *)
(* other thread writes.                                                    *)
(*                                                                         *)
(* Items are numbered in the order they are enqueued.                      *)
(***************************************************************************)
EXTENDS Integers

CONSTANTS
    InitialBlocks,      \* blocks the constructor makes
    InitialSize,        \* their size
    EXPECTED_BLOCK_SIZE,
    MaxBlocks,          \* bound: blocks there may ever be
    MaxItems,           \* bound: items enqueued in all
    Raw,                \* the content of a slot that holds no object
    StaleTail           \* TRUE: the load of Tail that follows the relaxed load of
                        \* TailBlock, with no fence between, may be the older one

ASSUME SizesAssumption ==
    /\ InitialBlocks \in 1 .. MaxBlocks
    /\ InitialSize \in 2 .. EXPECTED_BLOCK_SIZE
    /\ MaxBlocks \in Nat /\ EXPECTED_BLOCK_SIZE \in Nat /\ MaxItems \in Nat
    /\ Raw \notin Nat
    /\ StaleTail \in BOOLEAN

VARIABLES
    blocks,     \* how many blocks there are: 1 .. blocks
    BlockSize, FrontBlock, TailBlock,
    Size, Next, \* Size[b] (SizeMask + 1) and Next[b]
    Front, Tail, LocalFront, LocalTail,
    Data,       \* Data[b][i]: the item in slot i of b, or Raw
    put, got,   \* items enqueued, items dequeued
    pro, con    \* the producer's and the consumer's call

producerVars == <<blocks, BlockSize, TailBlock, Size, Next, Tail, LocalFront, put,
                  pro>>
consumerVars == <<FrontBlock, Front, got, con>>
vars == <<producerVars, consumerVars, LocalTail, Data>>

AllBlocks == 1 .. MaxBlocks
Indexes == 0 .. (EXPECTED_BLOCK_SIZE - 1)

NoCall == [step |-> "idle"]

Init ==
    /\ blocks = InitialBlocks /\ BlockSize = InitialSize
    /\ FrontBlock = 1 /\ TailBlock = 1
    /\ Size = [b \in AllBlocks |-> IF b <= InitialBlocks THEN InitialSize ELSE 0]
    /\ Next = [b \in AllBlocks |-> IF b < InitialBlocks THEN b + 1 ELSE 1]
    /\ Front = [b \in AllBlocks |-> 0] /\ Tail = [b \in AllBlocks |-> 0]
    /\ LocalFront = [b \in AllBlocks |-> 0] /\ LocalTail = [b \in AllBlocks |-> 0]
    /\ Data = [b \in AllBlocks |-> [i \in Indexes |-> Raw]]
    /\ put = 0 /\ got = 0
    /\ pro = NoCall /\ con = NoCall

-----------------------------------------------------------------------------
\* The index after i in block b.
After(b, i) == (i + 1) % Size[b]

\* Slip: the next tail is compared before it is masked.
RoomUnmasked(b, front) == Tail[b] + 1 # front

\* Block b has room for an item, as far as index front says.
Room(b, front) == After(b, Tail[b]) # front

(* InnerEnqueue *)

\* Room by the copy, or by Front itself once the copy says full.
EnqueueHere ==
    /\ pro.step = "idle"
    /\ put < MaxItems
    /\ \/ Room(TailBlock, LocalFront[TailBlock]) /\ UNCHANGED LocalFront
       \/ /\ ~Room(TailBlock, LocalFront[TailBlock])
          /\ Room(TailBlock, Front[TailBlock])
          /\ LocalFront' = [LocalFront EXCEPT ![TailBlock] = Front[TailBlock]]
    /\ pro' = [step |-> "construct", block |-> TailBlock]
    /\ UNCHANGED <<blocks, BlockSize, TailBlock, Size, Next, Tail, put,
                   consumerVars, LocalTail, Data>>

BlockIsFull ==
    /\ pro.step = "idle"
    /\ put < MaxItems
    /\ ~Room(TailBlock, LocalFront[TailBlock])
    /\ ~Room(TailBlock, Front[TailBlock])
    /\ LocalFront' = [LocalFront EXCEPT ![TailBlock] = Front[TailBlock]]
    /\ pro' = [step |-> "full"]
    /\ UNCHANGED <<blocks, BlockSize, TailBlock, Size, Next, Tail, put,
                   consumerVars, LocalTail, Data>>

\* Slip: the next block is taken although the consumer is in it.
NextIsAnother == Next[TailBlock] # TailBlock

\* The next block of the ring is not the one the consumer is in.
NextIsFree == Next[TailBlock] # FrontBlock

\* Slip: TailBlock moves on before the item is in.
EnqueueNextEarly ==
    /\ pro.step = "full"
    /\ NextIsFree
    /\ TailBlock' = Next[TailBlock]
    /\ pro' = [step |-> "localFront", block |-> Next[TailBlock]]
    /\ UNCHANGED <<blocks, BlockSize, Size, Next, Tail, LocalFront, put,
                   consumerVars, LocalTail, Data>>

\* It is empty, then: use it.
EnqueueNext ==
    /\ pro.step = "full"
    /\ NextIsFree
    /\ pro' = [step |-> "localFront", block |-> Next[TailBlock]]
    /\ UNCHANGED <<blocks, BlockSize, TailBlock, Size, Next, Tail, LocalFront, put,
                   consumerVars, LocalTail, Data>>

LoadNextFront ==
    /\ pro.step = "localFront"
    /\ LocalFront' = [LocalFront EXCEPT ![pro.block] = Front[pro.block]]
    /\ pro' = [pro EXCEPT !.step = "construct"]
    /\ UNCHANGED <<blocks, BlockSize, TailBlock, Size, Next, Tail, put,
                   consumerVars, LocalTail, Data>>

\* No block is free and the call may not allocate one.
EnqueueFails ==
    /\ pro.step = "full"
    /\ ~NextIsFree
    /\ pro' = NoCall
    /\ UNCHANGED <<blocks, BlockSize, TailBlock, Size, Next, Tail, LocalFront, put,
                   consumerVars, LocalTail, Data>>

\* Slip: the old block is not linked to the new one.
EnqueueNewBlockUnlinked ==
    /\ pro.step = "full"
    /\ ~NextIsFree
    /\ blocks < MaxBlocks
    /\ LET new == blocks + 1
       IN  /\ blocks' = new
           /\ Size' = [Size EXCEPT ![new] = BlockSize]
           /\ Data' = [Data EXCEPT ![new][0] = put]
           /\ Tail' = [Tail EXCEPT ![new] = 1]
           /\ LocalTail' = [LocalTail EXCEPT ![new] = 1]
           /\ Next' = [Next EXCEPT ![new] = Next[TailBlock]]
           /\ pro' = [step |-> "tailBlock", block |-> new]
    /\ UNCHANGED <<BlockSize, TailBlock, LocalFront, put, consumerVars>>

\* It may: a new block, twice the size of the last, already holds the item.
EnqueueNewBlock ==
    /\ pro.step = "full"
    /\ ~NextIsFree
    /\ blocks < MaxBlocks
    /\ LET new  == blocks + 1
           size == IF 2 * BlockSize > EXPECTED_BLOCK_SIZE
                   THEN EXPECTED_BLOCK_SIZE ELSE 2 * BlockSize
       IN  /\ blocks' = new
           /\ BlockSize' = size
           /\ Size' = [Size EXCEPT ![new] = size]
           /\ Data' = [Data EXCEPT ![new][0] = put]
           /\ Tail' = [Tail EXCEPT ![new] = 1]
           /\ LocalTail' = [LocalTail EXCEPT ![new] = 1]
           /\ Next' = [Next EXCEPT ![new] = Next[TailBlock], ![TailBlock] = new]
           /\ pro' = [step |-> "tailBlock", block |-> new]
    /\ UNCHANGED <<TailBlock, LocalFront, put, consumerVars>>

Construct ==
    /\ pro.step = "construct"
    /\ Data' = [Data EXCEPT ![pro.block][Tail[pro.block]] = put]
    /\ pro' = [pro EXCEPT !.step = "tail"]
    /\ UNCHANGED <<blocks, BlockSize, TailBlock, Size, Next, Tail, LocalFront, put,
                   consumerVars, LocalTail>>

\* Tail.Store: in TailBlock this publishes the item.
StoreTail ==
    /\ pro.step = "tail"
    /\ Tail' = [Tail EXCEPT ![pro.block] = After(pro.block, @)]
    /\ IF pro.block = TailBlock
       THEN put' = put + 1 /\ pro' = NoCall
       ELSE pro' = [pro EXCEPT !.step = "tailBlock"] /\ UNCHANGED put
    /\ UNCHANGED <<blocks, BlockSize, TailBlock, Size, Next, LocalFront,
                   consumerVars, LocalTail, Data>>

\* TailBlock.Store publishes the item in another block.
StoreTailBlock ==
    /\ pro.step = "tailBlock"
    /\ TailBlock' = pro.block
    /\ put' = put + 1
    /\ pro' = NoCall
    /\ UNCHANGED <<blocks, BlockSize, Size, Next, Tail, LocalFront, consumerVars,
                   LocalTail, Data>>

-----------------------------------------------------------------------------
(* TryDequeue, Pop and Peek *)

\* The call begins: is FrontBlock the last block?
TestTailBlock(op) ==
    /\ con.step = "idle"
    /\ con' = [step |-> "test", op |-> op, last |-> FrontBlock = TailBlock,
               some |-> put > got]
    /\ UNCHANGED <<producerVars, FrontBlock, Front, got, LocalTail, Data>>

\* Slip: only the copy is looked at.
TailLoadsCopy == {LocalTail[FrontBlock]}

\* What a load of Tail in the consumer's block may return: the consumer has seen
\* LocalTail, and does not see older ones.
TailLoads ==
    IF StaleTail
    THEN {i \in Indexes : i < Size[FrontBlock]
            /\ (i - LocalTail[FrontBlock]) % Size[FrontBlock]
                 <= (Tail[FrontBlock] - LocalTail[FrontBlock]) % Size[FrontBlock]}
    ELSE {Tail[FrontBlock]}

\* Pop and Peek trust a copy that shows an item.
TrustCopy ==
    /\ con.step = "test"
    /\ Front[FrontBlock] # LocalTail[FrontBlock]
    /\ con.last \/ con.op # "dequeue"
    /\ con' = [con EXCEPT !.step = "take"]
    /\ UNCHANGED <<producerVars, FrontBlock, Front, got, LocalTail, Data>>

\* Slip: an empty front block is taken for an empty queue.
LoadTailStopsHere ==
    /\ con.step = "test"
    /\ \/ Front[FrontBlock] = LocalTail[FrontBlock]
       \/ ~con.last /\ con.op = "dequeue"
    /\ \E tail \in TailLoads :
          /\ LocalTail' = [LocalTail EXCEPT ![FrontBlock] = tail]
          /\ con' = IF Front[FrontBlock] # tail THEN [con EXCEPT !.step = "take"]
                    ELSE NoCall
    /\ UNCHANGED <<producerVars, FrontBlock, Front, got, Data>>

\* Otherwise Tail is loaded: there is an item here, or there is one in the next
\* block, or there is none.  Pop and Peek load it a second time where the first
\* load showed an item and TailBlock is another block: the second shows it too,
\* since only the consumer takes items out.
LoadTail ==
    /\ con.step = "test"
    /\ \/ Front[FrontBlock] = LocalTail[FrontBlock]
       \/ ~con.last /\ con.op = "dequeue"
    /\ \E tail \in TailLoads :
          /\ LocalTail' = [LocalTail EXCEPT ![FrontBlock] = tail]
          /\ con' = IF Front[FrontBlock] # tail THEN [con EXCEPT !.step = "take"]
                    ELSE IF con.last THEN NoCall
                    ELSE [con EXCEPT !.step = "next"]
    /\ UNCHANGED <<producerVars, FrontBlock, Front, got, Data>>

\* On to the next block; Peek does not move FrontBlock.
LoadNextTail ==
    /\ con.step = "next"
    /\ LocalTail' = [LocalTail EXCEPT ![Next[FrontBlock]] = Tail[Next[FrontBlock]]]
    /\ con' = [con EXCEPT !.step = IF con.op = "peek" THEN "peeked" ELSE "move"]
    /\ UNCHANGED <<producerVars, FrontBlock, Front, got, Data>>

StoreFrontBlock ==
    /\ con.step = "move"
    /\ FrontBlock' = Next[FrontBlock]
    /\ con' = [con EXCEPT !.step = "take"]
    /\ UNCHANGED <<producerVars, Front, got, LocalTail, Data>>

\* Slip: the object moved from is not destroyed.
TakeWithoutDestroy ==
    /\ con.step = "take"
    /\ con.op # "peek"
    /\ con' = [con EXCEPT !.step = "front"]
    /\ UNCHANGED <<producerVars, FrontBlock, Front, got, LocalTail, Data>>

Take ==
    /\ con.step = "take"
    /\ con.op # "peek"
    /\ Data' = [Data EXCEPT ![FrontBlock][Front[FrontBlock]] = Raw]
    /\ con' = [con EXCEPT !.step = "front"]
    /\ UNCHANGED <<producerVars, FrontBlock, Front, got, LocalTail>>

\* Peek returns the address of the item.
PeekReturns ==
    /\ con.step = "peeked" \/ (con.step = "take" /\ con.op = "peek")
    /\ con' = NoCall
    /\ UNCHANGED <<producerVars, FrontBlock, Front, got, LocalTail, Data>>

StoreFront ==
    /\ con.step = "front"
    /\ Front' = [Front EXCEPT ![FrontBlock] = After(FrontBlock, @)]
    /\ got' = got + 1
    /\ con' = NoCall
    /\ UNCHANGED <<producerVars, FrontBlock, LocalTail, Data>>

-----------------------------------------------------------------------------
Producer ==
    \/ EnqueueHere
    \/ BlockIsFull
    \/ EnqueueNext
    \/ LoadNextFront
    \/ EnqueueFails
    \/ EnqueueNewBlock
    \/ Construct
    \/ StoreTail
    \/ StoreTailBlock

InConsumer ==
    \/ TrustCopy
    \/ LoadTail
    \/ LoadNextTail
    \/ StoreFrontBlock
    \/ Take
    \/ PeekReturns
    \/ StoreFront

Steps ==
    \/ Producer
    \/ InConsumer
    \/ \E op \in {"dequeue", "pop", "peek"} : TestTailBlock(op)

\* The threads run on inside a call, and the consumer keeps calling TryDequeue,
\* however often it calls Pop and Peek.
Fairness ==
    /\ WF_vars(InConsumer) /\ SF_vars(TestTailBlock("dequeue"))
    /\ WF_vars(pro.step # "idle" /\ Producer)

Spec == Init /\ [][Steps]_vars /\ Fairness
=============================================================================
