--------------------------- MODULE SlowQueueProps ---------------------------
(***************************************************************************)
(* What SlowQueue guarantees, whatever constructors and allocations of     *)
(* index arrays fail.                                                      *)
(***************************************************************************)
EXTENDS SlowQueue

\* A consumer that looked its entry up, in whatever array and from whatever tail
\* it saw, finds the block with exactly the items it claimed: entries are reused,
\* copied to larger arrays and rewound meanwhile, this one is not.
TakesOwnItems ==
    \A c \in Consumers :
        con[c].step = "take" =>
            /\ Block(c) \in Blocks
            /\ \A i \in Run(c) :
                  slots[Block(c)][i] = BaseOf(con[c].item) + i

\* The items consumer c has claimed and not yet taken out.
Untaken(c) ==
    IF con[c].step = "idle" THEN {}
    ELSE LET taken == IF con[c].step \in {"setEmpty", "clear", "return"}
                      THEN Cardinality(Run(c)) ELSE 0
         IN  (con[c].item + taken) .. (con[c].item + con[c].need - 1)

LiveItems == {slots[b][i] : b \in Blocks, i \in Slots} \ {Raw}

\* Between calls of the producer the live objects are the published items that
\* were not taken: a failed or throwing call leaves none of its own and destroys
\* no other; Clear leaves none.
LiveAreUntaken ==
    /\ po.step = "idle" =>
          LiveItems = (HeadIndex .. (TailIndex - 1))
                         \union UNION {Untaken(c) : c \in Consumers}
    /\ po.step = "gone" => LiveItems = {}

\* The blocks a consumer or the producer holds apart from the index.
InHand == {con[c].block : c \in {d \in Consumers : con[d].step = "return"}}

\* The blocks the queue needs: those of live items, of claimed items whose slots
\* are not all marked empty, and the tail block while it has room.
Needed ==
    {BlockAt(p) : p \in HeadIndex .. (TailIndex - 1)}
    \union {BlockAt(con[c].item) :
               c \in {d \in Consumers : con[d].step \notin {"idle", "return"}}}
    \union (IF TailIndex % BlockSize = 0 THEN {} ELSE {TailBlock})

\* Between calls of the producer the manager and the heap have every block the
\* queue does not need, and none that it does: the last consumer out of a block
\* returns it, exactly one does, and a call that is rolled back returns its own.
BlocksAccounted ==
    po.step = "idle" =>
        /\ manager \intersect heap = {}
        /\ (Needed \union InHand) \intersect (manager \union heap) = {}
        /\ Quiescent => Needed \union manager \union heap = Blocks

\* Clear returns a block that is in use, and each one once.
ReturnsEachOnce ==
    Quiescent =>
        \A p \in Turns :
            /\ BlockAt(p) \in Blocks \ (manager \union heap)
            /\ \A q \in Turns \ {p} : BlockAt(q) # BlockAt(p)

\* After Clear of a queue that had items, or whose last block was full, every
\* block is back.
ReturnsAll ==
    po.step = "gone" /\ (HeadIndex # TailIndex \/ TailIndex % BlockSize = 0) =>
        manager \union heap = Blocks

\* Clear gives the blocks of the items back, from whatever positions head and
\* tail are at: each block once, no other, and where there are items all of them.
ClearReturnsBlocks == ReturnsEachOnce /\ ReturnsAll

\* "Release all block": after Clear every block is back, of a queue with no items
\* too.  The tail block of a queue that was emptied in the middle of it is not.
ClearReleasesAll == po.step = "gone" => manager \union heap = Blocks
=============================================================================
