----------------------------- MODULE SlowQueue -----------------------------
(***************************************************************************)
(* SlowQueue (ConcurrentQueue.h): the sub-queue of a thread without a      *)
(* token, one producer and any number of consumers.  Other than FastQueue  *)
(* it has no ring: each block comes from the block manager, an index entry *)
(* (Key, Value) names it, and the consumer that empties its last slot      *)
(* clears the entry and gives the block back.  The producer reuses cleared *)
(* entries, doubles the index array and rewinds its tail meanwhile.        *)
(*                                                                         *)
(* Consumers claim positions in one step, as SharedQueue lets them         *)
(* (QueueBase implements it).  Item number k is the value of position k.   *)
(***************************************************************************)
EXTENDS Integers, Sequences, FiniteSets

CONSTANTS
    Consumers,      \* the threads that dequeue
    Blocks,         \* all the blocks there may ever be
    NoBlock,        \* nullptr
    Raw,            \* the content of a slot that holds no object
    BlockSize,      \* BLOCK_SIZE, a power of two
    InitialIndexSize,   \* size of the first index array (at least 2)
    PoolBlocks,     \* the blocks of the manager's pool
    Modes,          \* the allocation modes used: "CanAlloc", "CannotAlloc"
    BulkCounts,     \* the Count arguments of EnqueueBulk
    ClaimCounts,    \* how many items one Dequeue(Bulk) may claim
    MaxTail,        \* bound: no item is published at or after this position
    Faults          \* what may throw or fail: "ctor", "blockAlloc", "indexAlloc";
                    \* "retry": the producer goes on after a bad_alloc

ASSUME SizesAssumption ==
    /\ BlockSize \in Nat \ {0, 1} /\ InitialIndexSize \in Nat \ {0, 1}
    /\ BulkCounts \subseteq Nat \ {0} /\ ClaimCounts \subseteq Nat \ {0}
    /\ NoBlock \notin Blocks /\ PoolBlocks \subseteq Blocks

ASSUME RawAssumption == Raw \notin Nat

VARIABLES
    HeadIndex, TailIndex,
    TailBlock,      \* the block the producer fills
    emptied,        \* emptied[b]: how many slots of b were marked empty
    slots,          \* slots[b][i]: the item in slot i of b, or Raw
    entries,        \* the index entries made so far; arrays share them
    arrays,         \* the index arrays, CurrentIndexEntryArray last
    manager,        \* the blocks RequisitionBlock has at hand
    heap,           \* the blocks the allocator may still create
    po,             \* the producer's call: where it is, and its locals
    con             \* con[c]: consumer c's call

index  == <<entries, arrays>>
supply == <<manager, heap>>
blocks == <<emptied, slots>>
vars   == <<HeadIndex, TailIndex, TailBlock, blocks, index, supply, po, con>>

-----------------------------------------------------------------------------
Slots == 0 .. (BlockSize - 1)
InvalidBase == 1                \* INVALID_BLOCK_BASE: no block starts there
BaseOf(p) == p - (p % BlockSize)

NoCall == [step |-> "idle"]
Current == arrays[Len(arrays)]
Wrap(a, i) == i % a.size

\* RequisitionBlock: the pool and the free list first, then the allocator.
Requisition(mode) ==
    IF manager # {} THEN manager
    ELSE IF mode = "CannotAlloc" THEN {NoBlock} ELSE heap

FreshEntry == [key |-> InvalidBase, value |-> NoBlock]

\* Slip: the old entries are copied from the front of the array.
GrownInPlace ==
    [size |-> 2 * Current.size, tail |-> Current.size - 1,
     at   |-> [k \in 0 .. (2 * Current.size - 1) |->
                  IF k < Current.size THEN Current.at[k]
                  ELSE Len(entries) + 1 + (k - Current.size)]]

\* CreateNewBlockIndexArray: twice the size, the old entries from the one after
\* the tail on first, then as many new ones.
Grown ==
    [size |-> 2 * Current.size, tail |-> Current.size - 1,
     at   |-> [k \in 0 .. (2 * Current.size - 1) |->
                  IF k < Current.size
                  THEN Current.at[Wrap(Current, Current.tail + 1 + k)]
                  ELSE Len(entries) + 1 + (k - Current.size)]]

\* The place of position p in array a, counted from its tail, whose key is base.
PlaceFrom(a, tail, base, p) ==
    Wrap(a, tail + ((BaseOf(p) - base) \div BlockSize))

\* GetBlockIndexEntryForIndex, when nobody else moves the tail.
EntryForIndex(p) ==
    LET a == Current
    IN  a.at[PlaceFrom(a, a.tail, entries[a.at[a.tail]].key, p)]

SetTail(i) == arrays' = [arrays EXCEPT ![Len(arrays)].tail = i]

RewindBlockIndexTail == SetTail(Wrap(Current, Current.tail + Current.size - 1))

SetValue(e, b) == entries' = [entries EXCEPT ![e].value = b]

\* The next entry, and whether it may be used.
NewTail == Wrap(Current, Current.tail + 1)
NewEntry == Current.at[NewTail]

Usable == entries[NewEntry].key = InvalidBase \/ entries[NewEntry].value = NoBlock

Init ==
    /\ HeadIndex = 0 /\ TailIndex = 0 /\ TailBlock = NoBlock
    /\ emptied = [b \in Blocks |-> 0]
    /\ slots = [b \in Blocks |-> [i \in Slots |-> Raw]]
    /\ entries = [e \in 1 .. InitialIndexSize |-> FreshEntry]
    /\ arrays = << [size |-> InitialIndexSize, tail |-> InitialIndexSize - 1,
                    at |-> [k \in 0 .. (InitialIndexSize - 1) |-> k + 1]] >>
    /\ manager = PoolBlocks /\ heap = Blocks \ PoolBlocks
    /\ po = NoCall
    /\ con = [c \in Consumers |-> NoCall]

-----------------------------------------------------------------------------
(* Enqueue and EnqueueBulk *)

EnqueueInner ==
    /\ po.step = "idle" /\ TailIndex % BlockSize # 0 /\ TailIndex < MaxTail
    /\ slots' = [slots EXCEPT ![TailBlock][TailIndex % BlockSize] = TailIndex]
    /\ TailIndex' = TailIndex + 1
    /\ UNCHANGED <<HeadIndex, TailBlock, emptied, index, supply, po, con>>

\* A call that needs its first block, or none: need blocks, the first for the
\* positions from base on.
Begin(bulk, mode, n, need, base) ==
    /\ po' = [step |-> IF need > 0 THEN "insert" ELSE "fill", bulk |-> bulk,
              mode |-> mode, n |-> n, need |-> need, base |-> base,
              old |-> TailBlock, block |-> NoBlock, taken |-> <<>>]
    /\ UNCHANGED <<HeadIndex, TailIndex, TailBlock, blocks, index, supply, con>>

EnqueueBoundary(mode) ==
    /\ po.step = "idle" /\ TailIndex % BlockSize = 0 /\ TailIndex < MaxTail
    /\ Begin(FALSE, mode, 1, 1, TailIndex)

BulkStart(mode, n) ==
    /\ po.step = "idle" /\ TailIndex + n <= MaxTail
    /\ Begin(TRUE, mode, n,
             ((TailIndex + n - 1) \div BlockSize) - ((TailIndex - 1) \div BlockSize),
             ((TailIndex - 1) \div BlockSize) * BlockSize + BlockSize)

\* InsertBlockIndexEntry: the key first, then the tail that shows it.
InsertKey ==
    /\ po.step = "insert" /\ Usable
    /\ entries' = [entries EXCEPT ![NewEntry].key = po.base]
    /\ po' = [po EXCEPT !.step = "show"]
    /\ UNCHANGED <<HeadIndex, TailIndex, TailBlock, blocks, arrays, supply, con>>

InsertGrows ==
    /\ po.step = "insert" /\ ~Usable /\ po.mode = "CanAlloc"
    /\ arrays' = Append(arrays, Grown)
    /\ entries' = entries \o [e \in 1 .. Current.size |-> FreshEntry]
    /\ UNCHANGED <<HeadIndex, TailIndex, TailBlock, blocks, supply, po, con>>

InsertTail ==
    /\ po.step = "show"
    /\ SetTail(NewTail)
    /\ po' = [po EXCEPT !.step = "block"]
    /\ UNCHANGED <<HeadIndex, TailIndex, TailBlock, blocks, entries, supply, con>>

\* A call that gives up: Enqueue has returned, EnqueueBulk rolls back first.
GivenUp == IF po.bulk THEN [po EXCEPT !.step = "rollBack", !.need = 1] ELSE NoCall

InsertFails ==
    /\ po.step = "insert" /\ ~Usable
    /\ po.mode = "CannotAlloc" \/ "indexAlloc" \in Faults
    /\ po' = GivenUp
    /\ UNCHANGED <<HeadIndex, TailIndex, TailBlock, blocks, index, supply, con>>

\* The block is reset; Enqueue constructs in it before anything refers to it.
RequireBlock ==
    /\ po.step = "block"
    /\ \E b \in Requisition(po.mode) \ {NoBlock} :
          /\ manager' = manager \ {b} /\ heap' = heap \ {b}
          /\ emptied' = [emptied EXCEPT ![b] = 0]
          /\ po' = [po EXCEPT !.step = "link", !.block = b]
    /\ UNCHANGED <<HeadIndex, TailIndex, TailBlock, slots, index, con>>

\* No block: the tail is rewound and the entry cleared, one store to consumers
\* as in RollBackEntry.
RequireFails ==
    /\ po.step = "block" /\ NoBlock \in Requisition(po.mode)
    /\ RewindBlockIndexTail
    /\ SetValue(Current.at[Current.tail], NoBlock)
    /\ po' = GivenUp
    /\ UNCHANGED <<HeadIndex, TailIndex, TailBlock, blocks, supply, con>>

\* RequisitionBlock throws bad_alloc, which neither call catches: the entry stays
\* inserted, for the same key again if the producer calls once more.
RequireThrows ==
    /\ po.step = "block" /\ manager = {} /\ po.mode = "CanAlloc"
    /\ "blockAlloc" \in Faults
    /\ po' = IF "retry" \in Faults THEN NoCall ELSE [step |-> "stopped"]
    /\ UNCHANGED <<HeadIndex, TailIndex, TailBlock, blocks, index, supply, con>>

\* The new block is entered in the index and becomes TailBlock.
LinkBlock ==
    /\ po.step = "link"
    /\ slots' = IF po.bulk THEN slots
                ELSE [slots EXCEPT ![po.block][0] = TailIndex]
    /\ SetValue(Current.at[Current.tail], po.block)
    /\ TailBlock' = po.block
    /\ po' = [po EXCEPT !.taken = Append(@, po.block), !.need = @ - 1,
                        !.base = @ + BlockSize,
                        !.step = IF ~po.bulk THEN "publish"
                                 ELSE IF po.need = 1 THEN "fill" ELSE "insert"]
    /\ UNCHANGED <<HeadIndex, TailIndex, emptied, arrays, supply, con>>

ConstructThrows ==
    /\ po.step = "link" /\ ~po.bulk /\ "ctor" \in Faults
    /\ RewindBlockIndexTail
    /\ SetValue(Current.at[Current.tail], NoBlock)
    /\ manager' = manager \union {po.block}
    /\ po' = NoCall
    /\ UNCHANGED <<HeadIndex, TailIndex, TailBlock, blocks, heap, con>>

\* The slots of the first k items of a bulk call: in the old tail block, if that
\* has room, and then in the blocks taken.
BulkSlots(k) ==
    LET span == IF TailIndex % BlockSize = 0 THEN po.taken ELSE <<po.old>> \o po.taken
    IN  { <<span[(p - BaseOf(TailIndex)) \div BlockSize + 1], p % BlockSize>> :
            p \in TailIndex .. (TailIndex + k - 1) }

\* The position of slot i of block b in the bulk call.
BulkItem(b, i) ==
    CHOOSE p \in TailIndex .. (TailIndex + po.n - 1) :
        <<b, i>> \in BulkSlots(p - TailIndex + 1) \ BulkSlots(p - TailIndex)

Destroyed(where) ==
    [b \in Blocks |-> [i \in Slots |->
        IF <<b, i>> \in where THEN Raw ELSE slots[b][i]]]

BulkFill ==
    /\ po.step = "fill"
    /\ slots' = [b \in Blocks |-> [i \in Slots |->
                    IF <<b, i>> \in BulkSlots(po.n) THEN BulkItem(b, i)
                    ELSE slots[b][i]]]
    /\ po' = [po EXCEPT !.step = "publish"]
    /\ UNCHANGED <<HeadIndex, TailIndex, TailBlock, emptied, index, supply, con>>

\* One of the constructors throws: those before it are undone.
BulkThrows ==
    /\ po.step = "fill" /\ "ctor" \in Faults
    /\ \E k \in 0 .. (po.n - 1) : slots' = Destroyed(BulkSlots(k))
    /\ po' = GivenUp
    /\ UNCHANGED <<HeadIndex, TailIndex, TailBlock, emptied, index, supply, con>>

\* RollBack: the entry of each block taken is looked up and cleared, the tail
\* rewound.  Consumers read the tail and the values of entries with items, and
\* these have none, so that they see one store only.
RollBackEntry ==
    /\ po.step = "rollBack" /\ po.need <= Len(po.taken)
    /\ SetValue(EntryForIndex(BaseOf(TailIndex - 1) + po.need * BlockSize), NoBlock)
    /\ RewindBlockIndexTail
    /\ po' = [po EXCEPT !.need = @ + 1]
    /\ UNCHANGED <<HeadIndex, TailIndex, TailBlock, blocks, supply, con>>

\* Slip: the blocks go back, TailBlock stays.
RollBackForgetsTail ==
    /\ po.step = "rollBack" /\ po.need > Len(po.taken)
    /\ manager' = manager \union {po.taken[k] : k \in DOMAIN po.taken}
    /\ po' = NoCall
    /\ UNCHANGED <<HeadIndex, TailIndex, TailBlock, blocks, index, heap, con>>

RollBackBlocks ==
    /\ po.step = "rollBack" /\ po.need > Len(po.taken)
    /\ manager' = manager \union {po.taken[k] : k \in DOMAIN po.taken}
    /\ TailBlock' = po.old
    /\ po' = NoCall
    /\ UNCHANGED <<HeadIndex, TailIndex, blocks, index, heap, con>>

Publish ==
    /\ po.step = "publish"
    /\ TailIndex' = TailIndex + po.n
    /\ po' = NoCall
    /\ UNCHANGED <<HeadIndex, TailBlock, blocks, index, supply, con>>

-----------------------------------------------------------------------------
(* Dequeue and DequeueBulk.  An assignment that throws leaves the queue what  *)
(* it would be without: the guard, or the loop that discards, goes on.        *)

\* SharedQueue's Take: n published positions are this consumer's.
Claim(c, n) ==
    /\ con[c].step = "idle" /\ po.step # "gone" /\ HeadIndex + n <= TailIndex
    /\ HeadIndex' = HeadIndex + n
    /\ con' = [con EXCEPT ![c] = [step |-> "array", item |-> HeadIndex, need |-> n]]
    /\ UNCHANGED <<TailIndex, TailBlock, blocks, index, supply, po>>

\* GetBlockIndexIndexForIndex: the array, its tail, the key there.
LoadArray(c) ==
    /\ con[c].step = "array"
    /\ con' = [con EXCEPT ![c] = [step |-> "tail", item |-> @.item, need |-> @.need,
                                  array |-> Len(arrays)]]
    /\ UNCHANGED <<HeadIndex, TailIndex, TailBlock, blocks, index, supply, po>>

LoadTail(c) ==
    /\ con[c].step = "tail"
    /\ con' = [con EXCEPT ![c] = [step |-> "key", item |-> @.item, need |-> @.need,
                                  array |-> @.array, place |-> arrays[@.array].tail]]
    /\ UNCHANGED <<HeadIndex, TailIndex, TailBlock, blocks, index, supply, po>>

LoadKey(c) ==
    /\ con[c].step = "key"
    /\ LET a == arrays[con[c].array]
       IN  con' = [con EXCEPT ![c].step = "take",
                      ![c].place = PlaceFrom(a, @, entries[a.at[@]].key, con[c].item)]
    /\ UNCHANGED <<HeadIndex, TailIndex, TailBlock, blocks, index, supply, po>>

\* The code loads the block once, here it is looked up at each step: the entry
\* keeps it until the last consumer in the block clears it.
Entry(c) == arrays[con[c].array].at[con[c].place]
Block(c) == entries[Entry(c)].value

\* The slots of the current block that the call is to empty.
Run(c) ==
    LET from == con[c].item % BlockSize
        to   == from + con[c].need
    IN  from .. ((IF to < BlockSize THEN to ELSE BlockSize) - 1)

\* Move the items of one block out and destroy them.
TakeRun(c) ==
    /\ con[c].step = "take"
    /\ slots' = Destroyed({Block(c)} \X Run(c))
    /\ con' = [con EXCEPT ![c].step = "setEmpty"]
    /\ UNCHANGED <<HeadIndex, TailIndex, TailBlock, emptied, index, supply, po>>

\* The run is done: the call goes on with the next entry, or returns.
RunDone(c) ==
    LET size == Cardinality(Run(c))
    IN  con' = [con EXCEPT ![c] =
                   IF @.need = size THEN NoCall
                   ELSE [step |-> "take", item |-> @.item + size,
                         need |-> @.need - size, array |-> @.array,
                         place |-> Wrap(arrays[@.array], @.place + 1)]]

\* Slip: the run counts as one slot.
EmptiesOne(c) == emptied[Block(c)] + 1

\* The slots of the block that are empty once the run is.
Empties(c) == emptied[Block(c)] + Cardinality(Run(c))

\* SetEmpty, SetSomeEmpty: not the last slots of the block.
SetEmpty(c) ==
    /\ con[c].step = "setEmpty" /\ Empties(c) < BlockSize
    /\ emptied' = [emptied EXCEPT ![Block(c)] = Empties(c)]
    /\ RunDone(c)
    /\ UNCHANGED <<HeadIndex, TailIndex, TailBlock, slots, index, supply, po>>

\* The last ones: this consumer clears the entry and returns the block.
SetLastEmpty(c) ==
    /\ con[c].step = "setEmpty" /\ Empties(c) = BlockSize
    /\ emptied' = [emptied EXCEPT ![Block(c)] = BlockSize]
    /\ con' = [con EXCEPT ![c] = [@ EXCEPT !.step = "clear"]]
    /\ UNCHANGED <<HeadIndex, TailIndex, TailBlock, slots, index, supply, po>>

ClearEntry(c) ==
    /\ con[c].step = "clear"
    /\ con' = [con EXCEPT ![c] = [step |-> "return", item |-> @.item,
                  need |-> @.need, array |-> @.array, place |-> @.place,
                  block |-> Block(c)]]
    /\ SetValue(Entry(c), NoBlock)
    /\ UNCHANGED <<HeadIndex, TailIndex, TailBlock, blocks, arrays, supply, po>>

ReturnBlock(c) ==
    /\ con[c].step = "return"
    /\ manager' = manager \union {con[c].block}
    /\ RunDone(c)
    /\ UNCHANGED <<HeadIndex, TailIndex, TailBlock, blocks, index, heap, po>>

-----------------------------------------------------------------------------
(* Clear, by the destructor: nobody is inside the queue *)

Quiescent == po.step = "idle" /\ \A c \in Consumers : con[c].step = "idle"

BlockAt(p) == entries[EntryForIndex(p)].value

\* Slip: a block goes back only at its last slot.
TurnsWhenFull == {p \in HeadIndex .. (TailIndex - 1) : p % BlockSize = BlockSize - 1}

\* Clear returns a block at its last slot, and at the last item of the queue.
Turns ==
    {p \in HeadIndex .. (TailIndex - 1) :
        p % BlockSize = BlockSize - 1 \/ p = TailIndex - 1}
Returned == {BlockAt(p) : p \in Turns}

Clear ==
    /\ Quiescent
    /\ slots' = Destroyed({<<BlockAt(p), p % BlockSize>> :
                              p \in HeadIndex .. (TailIndex - 1)})
    /\ manager' = manager \union Returned
    /\ po' = [step |-> "gone"]
    /\ UNCHANGED <<HeadIndex, TailIndex, TailBlock, emptied, index, heap, con>>

-----------------------------------------------------------------------------
ProducerStep ==
    \/ EnqueueInner
    \/ \E mode \in Modes : EnqueueBoundary(mode) \/ \E n \in BulkCounts : BulkStart(mode, n)
    \/ InsertKey \/ InsertGrows \/ InsertTail \/ InsertFails
    \/ RequireBlock \/ RequireFails \/ RequireThrows
    \/ LinkBlock \/ ConstructThrows
    \/ BulkFill \/ BulkThrows \/ RollBackEntry \/ RollBackBlocks
    \/ Publish

ConsumerStep(c) ==
    \/ \E n \in ClaimCounts : Claim(c, n)
    \/ LoadArray(c) \/ LoadTail(c) \/ LoadKey(c)
    \/ TakeRun(c) \/ SetEmpty(c) \/ SetLastEmpty(c) \/ ClearEntry(c) \/ ReturnBlock(c)

Next == ProducerStep \/ (\E c \in Consumers : ConsumerStep(c)) \/ Clear

Spec == Init /\ [][Next]_vars
=============================================================================
