----------------------------- MODULE FastQueue -----------------------------
(***************************************************************************)
(* FastQueue (ConcurrentQueue.h): one producer, any number of consumers.   *)
(* Items live in blocks that form a ring behind TailBlock; an array of     *)
(* index entries, doubled when the ring outgrows it, tells a consumer      *)
(* which block holds the positions it claimed.  Nothing is locked, so the  *)
(* producer reuses a block, grows the index or rolls a failed call back    *)
(* while consumers are anywhere inside Dequeue or DequeueBulk.             *)
(*                                                                         *)
(* Consumers claim positions in one step, as SharedQueue lets them; module *)
(* QueueBase has the protocol behind that step and the proof that it       *)
(* implements it.  Item number k is the value the k-th position holds.     *)
(* The block manager is a set of blocks at hand and a heap.                *)
(***************************************************************************)
EXTENDS Integers, Sequences, FiniteSets

CONSTANTS
    Consumers,      \* the threads that dequeue
    Blocks,         \* all the blocks there may ever be
    NoBlock,        \* nullptr
    Raw,            \* the content of a slot that holds no object
    BlockSize,      \* BLOCK_SIZE, a power of two
    InitialIndexSize,   \* size of the first index array (at least 4)
    Programs,       \* the uses of a queue; each has
                    \*   PoolBlocks: the blocks of the manager's pool
                    \*   Modes: the allocation modes, "CanAlloc" and "CannotAlloc"
                    \*   BulkCounts: the Count arguments of EnqueueBulk
                    \*   ClaimCounts: how many items one Dequeue(Bulk) may claim
                    \*   Faults: what may throw or fail, of "ctor", "assign",
                    \*      "blockAlloc" and "indexAlloc"
                    \*   MaxTail: a bound, no item is published at or after it
    JunkEntries     \* what uninitialised index entries may read as

ASSUME SizesAssumption ==
    /\ BlockSize \in Nat \ {0, 1}
    /\ InitialIndexSize \in Nat \ {0}
    /\ \A p \in Programs :
          p.MaxTail \in Nat /\ p.BulkCounts \union p.ClaimCounts \subseteq Nat \ {0}

ASSUME BlocksAssumption ==
    /\ NoBlock \notin Blocks
    /\ IsFiniteSet(Blocks)
    /\ \A p \in Programs : p.PoolBlocks \subseteq Blocks
    /\ JunkEntries # {}

ASSUME RawAssumption == Raw \notin Nat

VARIABLES
    HeadIndex, TailIndex,
    TailBlock,      \* the block the producer fills
    next,           \* next[b]: Block->Next
    flags,          \* flags[b]: the slots of b marked empty
    slots,          \* slots[b][i]: the item in slot i of b, or Raw
    arrays,         \* the index arrays, CurrentIndexEntryArray last
    PO_NextIndexEntry, PO_IndexEntriesUsed,
    manager,        \* the blocks RequisitionBlock has at hand
    heap,           \* the blocks the allocator may still create
    po,             \* the producer's call: where it is, and its locals
    con,            \* con[c]: consumer c's call
    program         \* auxiliary: the one of Programs this is

ring   == <<TailBlock, next>>
index  == <<arrays, PO_NextIndexEntry, PO_IndexEntriesUsed>>
supply == <<manager, heap>>
vars   == <<HeadIndex, TailIndex, ring, flags, slots, index, supply, po, con, program>>

-----------------------------------------------------------------------------
Slots == 0 .. (BlockSize - 1)

\* Slips, here and further down, are what a programmer could have written
\* instead; each breaks a property the runs check.

IsEmpty(b) == flags[b] = Slots

Smaller(a, b) == IF a <= b THEN a ELSE b

Current == arrays[Len(arrays)]
IndexSize == Current.size

\* Position i of an index array of the current size, wrapped.
Wrapped(i) == i % IndexSize

\* The producer may reuse the oldest block of the ring.
Reusable == TailBlock # NoBlock /\ IsEmpty(next[TailBlock])

\* Slip: the index is found full one entry too late.
IndexOverfull == PO_IndexEntriesUsed > IndexSize

\* The constructor's own allocation of the first array is taken to succeed: where
\* it does not, there is no array at all until the first call makes it.
IndexFull == PO_IndexEntriesUsed = IndexSize

\* RequisitionBlock: the pool and the free list first, then the allocator.
Requisition(mode) ==
    IF manager # {} THEN manager
    ELSE IF mode = "CannotAlloc" THEN {NoBlock} ELSE heap

\* Slip: the entries are copied from position 0, not from the oldest block's.
GrownUnrotated(filled, junk) ==
    [size    |-> 2 * IndexSize,
     tail    |-> filled - 1,
     entries |-> [k \in 0 .. (2 * IndexSize - 1) |->
                     IF k < PO_IndexEntriesUsed THEN Current.entries[k] ELSE junk]]

\* CreateNewBlockIndexArray( filled ): twice the size, the entries of the ring's
\* blocks moved to the front, the rest of the memory as it came.
GrownIndex(filled, junk) ==
    LET start == Wrapped(PO_NextIndexEntry - PO_IndexEntriesUsed)
    IN  [size    |-> 2 * IndexSize,
         tail    |-> filled - 1,
         entries |-> [k \in 0 .. (2 * IndexSize - 1) |->
                         IF k < PO_IndexEntriesUsed
                         THEN Current.entries[Wrapped(start + k)]
                         ELSE junk]]

Grow(filled) ==
    /\ \E junk \in JunkEntries :
          arrays' = Append(arrays, GrownIndex(filled, junk))
    /\ PO_NextIndexEntry' = PO_IndexEntriesUsed

\* The entry for a block that holds the positions from base on.
WriteEntry(base, b) ==
    arrays' = [arrays EXCEPT ![Len(arrays)].entries[PO_NextIndexEntry] =
                  [base |-> base, block |-> b]]

PublishIndexTail(i) == arrays' = [arrays EXCEPT ![Len(arrays)].tail = i]

\* TailBlock moves on to the oldest block, which is reset.
ReuseOldest ==
    /\ TailBlock' = next[TailBlock]
    /\ flags' = [flags EXCEPT ![next[TailBlock]] = {}]
    /\ UNCHANGED <<next, supply>>

\* A block from the manager is reset and linked in behind TailBlock.
LinkNew(b) ==
    /\ TailBlock' = b
    /\ flags' = [flags EXCEPT ![b] = {}]
    /\ next' = IF TailBlock = NoBlock
               THEN [next EXCEPT ![b] = b]
               ELSE [next EXCEPT ![b] = next[TailBlock], ![TailBlock] = b]
    /\ manager' = manager \ {b}
    /\ heap' = heap \ {b}

NoCall == [step |-> "idle"]

Init ==
    /\ HeadIndex = 0 /\ TailIndex = 0
    /\ TailBlock = NoBlock
    /\ next  = [b \in Blocks |-> NoBlock]
    /\ flags = [b \in Blocks |-> {}]
    /\ slots = [b \in Blocks |-> [i \in Slots |-> Raw]]
    /\ \E junk \in JunkEntries :
          arrays = << [size |-> InitialIndexSize, tail |-> -1,
                       entries |-> [k \in 0 .. (InitialIndexSize - 1) |-> junk]] >>
    /\ PO_NextIndexEntry = 0
    /\ PO_IndexEntriesUsed = 0
    /\ program \in Programs
    /\ manager = program.PoolBlocks
    /\ heap = Blocks \ program.PoolBlocks
    /\ po = NoCall
    /\ con = [c \in Consumers |-> NoCall]

-----------------------------------------------------------------------------
(* Enqueue *)

\* Inside a block: construct, publish.  A constructor that throws changes
\* nothing here.
EnqueueInner ==
    /\ po.step = "idle"
    /\ TailIndex % BlockSize # 0
    /\ TailIndex < program.MaxTail
    /\ slots' = [slots EXCEPT ![TailBlock][TailIndex % BlockSize] = TailIndex]
    /\ TailIndex' = TailIndex + 1
    /\ UNCHANGED <<HeadIndex, ring, flags, index, supply, po, con>>

\* At a block boundary the oldest block is empty: take it over.
EnqueueReuse ==
    /\ po.step = "idle"
    /\ TailIndex % BlockSize = 0
    /\ TailIndex < program.MaxTail
    /\ Reusable
    /\ ReuseOldest
    /\ WriteEntry(TailIndex, next[TailBlock])
    /\ po' = [step |-> "enqIndex", old |-> TailBlock]
    /\ UNCHANGED <<HeadIndex, TailIndex, slots, PO_NextIndexEntry,
                   PO_IndexEntriesUsed, con>>

\* It is not: a new block is needed.
EnqueueNeedsBlock(mode) ==
    /\ po.step = "idle"
    /\ TailIndex % BlockSize = 0
    /\ TailIndex < program.MaxTail
    /\ ~Reusable
    /\ po' = [step |-> "enqFresh", old |-> TailBlock, mode |-> mode]
    /\ UNCHANGED <<HeadIndex, TailIndex, ring, flags, slots, index, supply, con>>

EnqueueGrow ==
    /\ po.step = "enqFresh"
    /\ IndexFull
    /\ po.mode = "CanAlloc"
    /\ Grow(PO_IndexEntriesUsed)
    /\ UNCHANGED <<HeadIndex, TailIndex, ring, flags, slots,
                   PO_IndexEntriesUsed, supply, po, con>>

\* Slip: the entry of the block is counted before there is a block.
FailsCounted ==
    /\ po.step = "enqFresh"
    /\ \/ /\ IndexFull /\ (po.mode = "CannotAlloc" \/ "indexAlloc" \in program.Faults)
          /\ UNCHANGED PO_IndexEntriesUsed
       \/ /\ ~IndexFull
          /\ \/ NoBlock \in Requisition(po.mode)
             \/ manager = {} /\ po.mode = "CanAlloc" /\ "blockAlloc" \in program.Faults
          /\ PO_IndexEntriesUsed' = PO_IndexEntriesUsed + 1
    /\ po' = NoCall
    /\ UNCHANGED <<HeadIndex, TailIndex, ring, flags, slots, arrays,
                   PO_NextIndexEntry, supply, con>>

\* Enqueue gives up: no new index array, or no block; bad_alloc ends it alike.
EnqueueFails ==
    /\ po.step = "enqFresh"
    /\ \/ IndexFull /\ (po.mode = "CannotAlloc" \/ "indexAlloc" \in program.Faults)
       \/ ~IndexFull /\ NoBlock \in Requisition(po.mode)
       \/ /\ ~IndexFull /\ manager = {} /\ po.mode = "CanAlloc"
          /\ "blockAlloc" \in program.Faults
    /\ po' = NoCall
    /\ UNCHANGED <<HeadIndex, TailIndex, ring, flags, slots, index, supply, con>>

EnqueueFresh ==
    /\ po.step = "enqFresh"
    /\ ~IndexFull
    /\ \E b \in Requisition(po.mode) \ {NoBlock} :
          LinkNew(b) /\ WriteEntry(TailIndex, b)
    /\ PO_IndexEntriesUsed' = PO_IndexEntriesUsed + 1
    /\ po' = [step |-> "enqIndex", old |-> po.old]
    /\ UNCHANGED <<HeadIndex, TailIndex, slots, PO_NextIndexEntry, con>>

\* Consumers may look the new block up before it holds anything.
EnqueueIndex ==
    /\ po.step = "enqIndex"
    /\ PublishIndexTail(PO_NextIndexEntry)
    /\ PO_NextIndexEntry' = Wrapped(PO_NextIndexEntry + 1)
    /\ po' = [po EXCEPT !.step = "enqConstruct"]
    /\ UNCHANGED <<HeadIndex, TailIndex, ring, flags, slots,
                   PO_IndexEntriesUsed, supply, con>>

EnqueueConstruct ==
    /\ po.step = "enqConstruct"
    /\ slots' = [slots EXCEPT ![TailBlock][0] = TailIndex]
    /\ TailIndex' = TailIndex + 1
    /\ po' = NoCall
    /\ UNCHANGED <<HeadIndex, ring, flags, index, supply, con>>

\* Slips: TailBlock goes back where there is nothing to go back to, or the block
\* goes back without being marked empty.
ThrowsGoingBack ==
    /\ po.step = "enqConstruct"
    /\ "ctor" \in program.Faults
    /\ flags' = [flags EXCEPT ![TailBlock] = Slots]
    /\ TailBlock' = po.old
    /\ PO_NextIndexEntry' = Wrapped(PO_NextIndexEntry - 1)
    /\ po' = NoCall
    /\ UNCHANGED <<HeadIndex, TailIndex, next, slots, arrays,
                   PO_IndexEntriesUsed, supply, con>>

ThrowsUnmarked ==
    /\ po.step = "enqConstruct"
    /\ "ctor" \in program.Faults
    /\ TailBlock' = IF po.old = NoBlock THEN TailBlock ELSE po.old
    /\ PO_NextIndexEntry' = Wrapped(PO_NextIndexEntry - 1)
    /\ po' = NoCall
    /\ UNCHANGED <<HeadIndex, TailIndex, next, flags, slots, arrays,
                   PO_IndexEntriesUsed, supply, con>>

\* The constructor throws: the block goes back to the ring as an empty one.
EnqueueThrows ==
    /\ po.step = "enqConstruct"
    /\ "ctor" \in program.Faults
    /\ flags' = [flags EXCEPT ![TailBlock] = Slots]
    /\ TailBlock' = IF po.old = NoBlock THEN TailBlock ELSE po.old
    /\ PO_NextIndexEntry' = Wrapped(PO_NextIndexEntry - 1)
    /\ po' = NoCall
    /\ UNCHANGED <<HeadIndex, TailIndex, next, slots, arrays,
                   PO_IndexEntriesUsed, supply, con>>

-----------------------------------------------------------------------------
(* EnqueueBulk *)

\* The number of blocks n more items need, and the base before the first.
BlocksNeeded(n) ==
    ((n + TailIndex - 1) \div BlockSize) - ((TailIndex - 1) \div BlockSize)
BaseBefore == ((TailIndex - 1) \div BlockSize) * BlockSize

\* The originals are saved, for a roll-back.
BulkStart(mode, n) ==
    /\ po.step = "idle"
    /\ TailIndex + n <= program.MaxTail
    /\ po' = [step |-> IF BlocksNeeded(n) > 0 THEN "bulkReuse" ELSE "fill",
              mode |-> mode, n |-> n, need |-> BlocksNeeded(n),
              base |-> BaseBefore,
              startBlock |-> TailBlock, firstNew |-> NoBlock,
              origNext |-> PO_NextIndexEntry, origUsed |-> PO_IndexEntriesUsed,
              block |-> TailBlock, done |-> 0]
    /\ UNCHANGED <<HeadIndex, TailIndex, ring, flags, slots, index, supply, con>>

\* One more block, b, now is part of the call.  The block to fill first is the
\* start block, or the first new one when the start block is full.
TookBlock(b, step) ==
    LET first == IF po.firstNew = NoBlock THEN b ELSE po.firstNew
    IN  po' = [po EXCEPT
                 !.need = @ - 1, !.base = @ + BlockSize, !.firstNew = first,
                 !.block = IF TailIndex % BlockSize = 0 THEN first ELSE @,
                 !.step = IF po.need = 1 THEN "fill" ELSE step]

BulkReuse ==
    /\ po.step = "bulkReuse"
    /\ Reusable
    /\ ReuseOldest
    /\ WriteEntry(po.base + BlockSize, next[TailBlock])
    /\ PO_NextIndexEntry' = Wrapped(PO_NextIndexEntry + 1)
    /\ TookBlock(next[TailBlock], "bulkReuse")
    /\ UNCHANGED <<HeadIndex, TailIndex, slots, PO_IndexEntriesUsed, con>>

\* Once a block could not be reused, the rest are new ones.
NeedsFresh == po.step = "bulkFresh" \/ (po.step = "bulkReuse" /\ ~Reusable)

\* Note what the roll-back will restore from here on: the number of entries
\* that were in use when the call began.
BulkGrow ==
    /\ NeedsFresh
    /\ IndexFull
    /\ po.mode = "CanAlloc"
    /\ Grow(po.origUsed)
    /\ po' = [po EXCEPT !.step = "bulkFresh", !.origNext = po.origUsed]
    /\ UNCHANGED <<HeadIndex, TailIndex, ring, flags, slots,
                   PO_IndexEntriesUsed, supply, con>>

BulkFresh ==
    /\ NeedsFresh
    /\ ~IndexFull
    /\ \E b \in Requisition(po.mode) \ {NoBlock} :
          /\ LinkNew(b)
          /\ WriteEntry(po.base + BlockSize, b)
          /\ TookBlock(b, "bulkFresh")
    /\ PO_IndexEntriesUsed' = PO_IndexEntriesUsed + 1
    /\ PO_NextIndexEntry' = Wrapped(PO_NextIndexEntry + 1)
    /\ UNCHANGED <<HeadIndex, TailIndex, slots, con>>

RollBack ==
    /\ PO_NextIndexEntry' = po.origNext
    /\ TailBlock' = po.startBlock

\* The call returns false after RollBack; the blocks taken stay as they are.
BulkFails ==
    /\ NeedsFresh
    /\ \/ IndexFull /\ (po.mode = "CannotAlloc" \/ "indexAlloc" \in program.Faults)
       \/ ~IndexFull /\ NoBlock \in Requisition(po.mode)
    /\ RollBack
    /\ po' = NoCall
    /\ UNCHANGED <<HeadIndex, TailIndex, next, flags, slots, arrays,
                   PO_IndexEntriesUsed, supply, con>>

\* RequisitionBlock throws bad_alloc, which EnqueueBulk does not catch.
BulkBadAlloc ==
    /\ NeedsFresh
    /\ ~IndexFull /\ manager = {} /\ po.mode = "CanAlloc"
    /\ "blockAlloc" \in program.Faults
    /\ po' = NoCall
    /\ UNCHANGED <<HeadIndex, TailIndex, ring, flags, slots, index, supply, con>>

\* The slots the call still fills in po.block, the first po.done items being in
\* place.
FillFrom == (TailIndex + po.done) % BlockSize
FillLast ==
    IF po.block = TailBlock THEN (TailIndex + po.n - 1) % BlockSize
                            ELSE BlockSize - 1

\* One block is filled.
BulkFill ==
    /\ po.step = "fill"
    /\ slots' = [slots EXCEPT ![po.block] =
                    [i \in Slots |-> IF i \in FillFrom .. FillLast
                                     THEN TailIndex + po.done + (i - FillFrom)
                                     ELSE @[i]]]
    /\ po' = IF po.block = TailBlock
             THEN [po EXCEPT !.step = IF po.firstNew = NoBlock THEN "bulkTail"
                                                               ELSE "bulkIndex"]
             ELSE [po EXCEPT !.block = next[po.block],
                             !.done = @ + (FillLast - FillFrom + 1)]
    /\ UNCHANGED <<HeadIndex, TailIndex, ring, flags, index, supply, con>>

\* The blocks from b on to last, in ring order.
BlocksTo(b, last) ==
    LET Reach == 0 .. Cardinality(Blocks)
        at[k \in Reach] == IF k = 0 THEN b ELSE next[at[k - 1]]
        stop == CHOOSE k \in Reach :
                    at[k] = last /\ \A j \in 0 .. (k - 1) : at[j] # last
    IN  {at[k] : k \in 0 .. stop}

\* Slip: nothing in the start block is destroyed after a throw.
ConstructedInTaken ==
    IF po.firstNew = NoBlock THEN {}
    ELSE { s \in BlocksTo(po.firstNew, po.block) \X Slots :
             s[1] = po.block => s[2] < FillFrom }

\* The slots the call has constructed an item in before the one that throws.
FirstFilled ==
    IF TailIndex % BlockSize = 0 /\ po.firstNew # NoBlock
    THEN po.firstNew ELSE po.startBlock
Constructed ==
    { s \in BlocksTo(FirstFilled, po.block) \X Slots :
        /\ s[1] = FirstFilled => s[2] >= TailIndex % BlockSize
        /\ s[1] = po.block => s[2] < FillFrom }

Destroyed(where) ==
    [b \in Blocks |-> [i \in Slots |->
        IF <<b, i>> \in where THEN Raw ELSE slots[b][i]]]

\* A constructor throws in po.block: the blocks the call took are marked
\* empty, RollBack, and what the call constructed is destroyed.  What it had
\* constructed in po.block itself is destroyed in the same step: no consumer can
\* see a slot that was not published.
BulkThrows ==
    /\ po.step = "fill"
    /\ "ctor" \in program.Faults
    /\ LET taken == IF po.firstNew = NoBlock THEN {}
                    ELSE BlocksTo(po.firstNew, TailBlock)
       IN  flags' = [b \in Blocks |-> IF b \in taken THEN Slots ELSE flags[b]]
    /\ slots' = Destroyed(Constructed)
    /\ RollBack
    /\ po' = NoCall
    /\ UNCHANGED <<HeadIndex, TailIndex, next, arrays, PO_IndexEntriesUsed,
                   supply, con>>

BulkIndex ==
    /\ po.step = "bulkIndex"
    /\ PublishIndexTail(Wrapped(PO_NextIndexEntry - 1))
    /\ po' = [po EXCEPT !.step = "bulkTail"]
    /\ UNCHANGED <<HeadIndex, TailIndex, ring, flags, slots,
                   PO_NextIndexEntry, PO_IndexEntriesUsed, supply, con>>

BulkTail ==
    /\ po.step = "bulkTail"
    /\ TailIndex' = TailIndex + po.n
    /\ po' = NoCall
    /\ UNCHANGED <<HeadIndex, ring, flags, slots, index, supply, con>>

-----------------------------------------------------------------------------
(* Dequeue and DequeueBulk *)

\* SharedQueue's Take: n published positions are this consumer's.
Claim(c, n) ==
    /\ con[c].step = "idle"
    /\ po.step # "gone"
    /\ HeadIndex + n <= TailIndex
    /\ HeadIndex' = HeadIndex + n
    /\ con' = [con EXCEPT ![c] =
                  [step |-> "array", item |-> HeadIndex, need |-> n]]
    /\ UNCHANGED <<TailIndex, ring, flags, slots, index, supply, po>>

\* The index array is loaded after HeadIndex was advanced.
LoadArray(c) ==
    /\ con[c].step = "array"
    /\ con' = [con EXCEPT ![c] =
                  [step |-> "tail", item |-> @.item, need |-> @.need,
                   array |-> Len(arrays)]]
    /\ UNCHANGED <<HeadIndex, TailIndex, ring, flags, slots, index, supply, po>>

LoadIndexTail(c) ==
    /\ con[c].step = "tail"
    /\ con' = [con EXCEPT ![c] =
                  [step |-> "lookup", item |-> @.item, need |-> @.need,
                   array |-> @.array, tail |-> arrays[@.array].tail]]
    /\ UNCHANGED <<HeadIndex, TailIndex, ring, flags, slots, index, supply, po>>

\* The index entry that consumer c takes its block from, counted from the
\* newest entry it saw.
EntryFor(c) ==
    LET a      == arrays[con[c].array]
        base   == con[c].item - (con[c].item % BlockSize)
        offset == (base - a.entries[con[c].tail].base) \div BlockSize
    IN  (con[c].tail + offset) % a.size

Lookup(c) ==
    /\ con[c].step = "lookup"
    /\ con' = [con EXCEPT ![c] =
                  [step |-> "take", item |-> @.item, need |-> @.need,
                   block |-> arrays[@.array].entries[EntryFor(c)].block]]
    /\ UNCHANGED <<HeadIndex, TailIndex, ring, flags, slots, index, supply, po>>

\* The slots of the current block that the call is to empty.
Run(c) ==
    LET from == con[c].item % BlockSize
    IN  from .. (Smaller(BlockSize, from + con[c].need) - 1)

\* Move and destroy the items of one block, then read Block->Next.
TakeRun(c) ==
    /\ con[c].step = "take"
    /\ slots' = Destroyed({con[c].block} \X Run(c))
    /\ con' = [con EXCEPT ![c] =
                  [step |-> "setEmpty", item |-> @.item, need |-> @.need,
                   block |-> @.block, after |-> next[@.block]]]
    /\ UNCHANGED <<HeadIndex, TailIndex, ring, flags, index, supply, po>>

\* What remains of the call when a run is done, to go on at step in block b.
Rest(c, step, b) ==
    LET size == Cardinality(Run(c))
    IN  IF con[c].need = size THEN NoCall
        ELSE [step |-> step, item |-> con[c].item + size,
              need |-> con[c].need - size, block |-> b]

\* SetEmpty, or SetSomeEmpty for the run: from here on the producer may reuse
\* the block.
SetEmpty(c) ==
    /\ con[c].step = "setEmpty"
    /\ flags' = [flags EXCEPT ![con[c].block] = @ \union Run(c)]
    /\ con' = [con EXCEPT ![c] = Rest(c, "take", @.after)]
    /\ UNCHANGED <<HeadIndex, TailIndex, ring, slots, index, supply, po>>

\* The assignment of an item throws: it and the rest of the run are destroyed
\* and marked empty.
AssignThrows(c) ==
    /\ con[c].step = "discard" \/ (con[c].step = "take" /\ "assign" \in program.Faults)
    /\ slots' = Destroyed({con[c].block} \X Run(c))
    /\ flags' = [flags EXCEPT ![con[c].block] = @ \union Run(c)]
    /\ con' = [con EXCEPT ![c] = Rest(c, "discardNext", @.block)]
    /\ UNCHANGED <<HeadIndex, TailIndex, ring, index, supply, po>>

\* Block->Next is read only now, to destroy the rest of the claimed items.
DiscardNext(c) ==
    /\ con[c].step = "discardNext"
    /\ con' = [con EXCEPT ![c] =
                  [@ EXCEPT !.step = "discard", !.block = next[con[c].block]]]
    /\ UNCHANGED <<HeadIndex, TailIndex, ring, flags, slots, index, supply, po>>

ConsumerStep(c) ==
    \/ LoadArray(c)
    \/ LoadIndexTail(c)
    \/ Lookup(c)
    \/ TakeRun(c)
    \/ SetEmpty(c)
    \/ AssignThrows(c)
    \/ DiscardNext(c)

-----------------------------------------------------------------------------
(* Clear, by the destructor: nobody is inside the queue *)

Quiescent ==
    /\ po.step = "idle"
    /\ \A c \in Consumers : con[c].step = "idle"

Ring == IF TailBlock = NoBlock THEN {} ELSE BlocksTo(next[TailBlock], TailBlock)

\* The search through the index for the block that is half dequeued.
HalfDequeued ==
    LET start == PO_NextIndexEntry - PO_IndexEntriesUsed
        Passes(k) == Current.entries[Wrapped(start + k)].base + BlockSize
                        >= HeadIndex
        k == CHOOSE k \in 0 .. (IndexSize - 1) :
                Passes(k) /\ \A j \in 0 .. (k - 1) : ~Passes(j)
    IN  IF HeadIndex % BlockSize = 0 THEN NoBlock
        ELSE Current.entries[Wrapped(start + k)].block

\* The slots whose objects Clear destroys.
ClearDestroys ==
    { s \in Ring \X Slots :
        LET b == s[1]
            i == s[2]
        IN  /\ ~IsEmpty(b)
            /\ b = HalfDequeued => i >= HeadIndex % BlockSize
            /\ b = TailBlock /\ TailIndex % BlockSize # 0 =>
                  i < TailIndex % BlockSize }

Clear ==
    /\ Quiescent
    /\ slots' = Destroyed(ClearDestroys)
    /\ manager' = manager \union Ring
    /\ po' = [step |-> "gone"]
    /\ UNCHANGED <<HeadIndex, TailIndex, ring, flags, index, heap, con>>

-----------------------------------------------------------------------------
ProducerStep ==
    \/ EnqueueInner
    \/ EnqueueReuse
    \/ \E mode \in program.Modes : EnqueueNeedsBlock(mode)
    \/ EnqueueGrow
    \/ EnqueueFails
    \/ EnqueueFresh
    \/ EnqueueIndex
    \/ EnqueueConstruct
    \/ EnqueueThrows
    \/ \E mode \in program.Modes, n \in program.BulkCounts : BulkStart(mode, n)
    \/ BulkReuse
    \/ BulkGrow
    \/ BulkFresh
    \/ BulkFails
    \/ BulkBadAlloc
    \/ BulkFill
    \/ BulkThrows
    \/ BulkIndex
    \/ BulkTail

Next ==
    /\ \/ ProducerStep
       \/ \E c \in Consumers : ConsumerStep(c) \/ \E n \in program.ClaimCounts : Claim(c, n)
       \/ Clear
    /\ UNCHANGED program

Spec == Init /\ [][Next]_vars
=============================================================================
