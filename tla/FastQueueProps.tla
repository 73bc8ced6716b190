--------------------------- MODULE FastQueueProps ---------------------------
(***************************************************************************)
(* What FastQueue guarantees, in the circumstances each run sets up.       *)
(***************************************************************************)
EXTENDS FastQueue

\* A consumer that looked its block up finds exactly the items it claimed, not
\* another block's, an old round's or a destroyed one, however the producer
\* reused blocks and grew the index meanwhile.
TakesOwnItems ==
    \A c \in Consumers :
        con[c].step \in {"take", "discard"} =>
            /\ con[c].block \in Blocks
            /\ \A i \in Run(c) :
                  slots[con[c].block][i] =
                     con[c].item + (i - (con[c].item % BlockSize))

\* The same for a queue that has all its blocks in its ring: the blocks that a
\* first EnqueueBulk loses when it is rolled back play no part.
WholeRingTakesOwnItems ==
    Ring \union manager \union heap = Blocks => TakesOwnItems

\* The index entries a consumer is about to read.
Reads(c) == {con[c].tail, EntryFor(c)}

\* The producer never writes an index entry while a consumer is about to read
\* it: the entries are plain memory.
NoEntryRace ==
    [][\A c \in Consumers :
          con[c].step = "lookup" =>
              LET a == con[c].array
              IN  \A i \in Reads(c) :
                     arrays'[a].entries[i] = arrays[a].entries[i]]_vars

\* The items consumer c has claimed and not yet taken out.
Untaken(c) ==
    IF con[c].step = "idle" THEN {}
    ELSE LET taken == IF con[c].step = "setEmpty" THEN Cardinality(Run(c)) ELSE 0
         IN  (con[c].item + taken) .. (con[c].item + con[c].need - 1)

LiveItems == {slots[s[1]][s[2]] : s \in Blocks \X Slots} \ {Raw}

\* Between calls of the producer the live objects are the published items that
\* were not taken: a failed call leaves none of its own behind and destroys
\* none of the others, and Clear leaves none at all.
LiveAreUntaken ==
    /\ po.step = "idle" =>
          LiveItems = (HeadIndex .. (TailIndex - 1))
                         \union UNION {Untaken(c) : c \in Consumers}
    /\ po.step = "gone" => LiveItems = {}

\* No EnqueueBulk throws or returns false: there is none, or nothing can fail.
NoBulkFails ==
    \/ program.BulkCounts = {}
    \/ program.Faults = {} /\ "CannotAlloc" \notin program.Modes

\* "First, we find the first block that's half dequeued": what Clear is about to
\* destroy, in that block and in the others, are objects, each once.
ClearDestroysConstructed == Quiescent => \A s \in ClearDestroys : slots[s[1]][s[2]] # Raw

\* That is so where no EnqueueBulk fails and no constructor throws: an Enqueue that
\* threw puts the count off by which Clear finds the block.
ClearDestroysObjects ==
    NoBulkFails /\ "ctor" \notin program.Faults => ClearDestroysConstructed

\* "We should not go back to prevent block leak": each block is in the ring, with
\* the manager, or not allocated yet; none is ever lost or in two places, and
\* Clear returns them all.
NoBlockLeak ==
    po.step \in {"idle", "gone"} =>
        /\ manager \intersect heap = {}
        /\ po.step = "idle" =>
              /\ Ring \intersect (manager \union heap) = {}
              /\ Ring \union manager \union heap = Blocks
        /\ po.step = "gone" => manager \union heap = Blocks

\* That is so after an Enqueue that failed or threw too; an EnqueueBulk that is
\* rolled back may lose its blocks.
BlocksAccounted == NoBulkFails => NoBlockLeak

\* "We need to set all allocated blocks to empty": between calls a ring block all
\* of whose items were taken, or that a call gave up, can be reused.
DrainedIsEmpty ==
    Quiescent =>
        \A b \in Ring \ {TailBlock} :
            (\A i \in Slots : slots[b][i] = Raw) => IsEmpty(b)

\* That is so after an Enqueue that failed or threw too; an EnqueueBulk that comes
\* back for want of blocks leaves some neither empty nor with items.
DrainedIsReusable == NoBulkFails => DrainedIsEmpty
=============================================================================
