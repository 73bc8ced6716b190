---------------------------- MODULE MCFastQueue ----------------------------
EXTENDS FastQueueProps, TLC

CONSTANTS b1, b2, b3

\* Fresh memory reads as zeros.
Zeroed == {[base |-> 0, block |-> NoBlock]}

\* The index grows while blocks are reused and consumers are in their calls.
Growing ==
    [PoolBlocks |-> {}, Modes |-> {"CanAlloc"}, BulkCounts |-> {3},
     ClaimCounts |-> {1, 3}, Faults |-> {}, MaxTail |-> 11]

\* Calls fail for want of blocks, and items throw, while consumers are in theirs.
Throwing ==
    [PoolBlocks |-> {b1, b2}, Modes |-> {"CannotAlloc"}, BulkCounts |-> {2, 3},
     ClaimCounts |-> {1, 3}, Faults |-> {"ctor", "assign"}, MaxTail |-> 7]

\* Whatever can fail for the producer does.
OutOfMemory ==
    [PoolBlocks |-> {b1, b2, b3}, Modes |-> {"CanAlloc", "CannotAlloc"},
     BulkCounts |-> {1, 3, 4}, ClaimCounts |-> {},
     Faults |-> {"ctor", "blockAlloc", "indexAlloc"}, MaxTail |-> 11]

\* One size of bulk calls that are rolled back in a growing index.
ThrowingGrown ==
    [PoolBlocks |-> {}, Modes |-> {"CanAlloc"}, BulkCounts |-> {4},
     ClaimCounts |-> {1}, Faults |-> {"ctor"}, MaxTail |-> 12]

\* Single calls alone, which fail in every way while a consumer is in its own.
SingleFailing ==
    [PoolBlocks |-> {b1, b2}, Modes |-> {"CanAlloc", "CannotAlloc"}, BulkCounts |-> {},
     ClaimCounts |-> {1}, Faults |-> {"ctor", "blockAlloc", "indexAlloc"}, MaxTail |-> 9]

\* The same, where no item throws.
SingleRefused == [SingleFailing EXCEPT !.Faults = @ \ {"ctor"}]

WithAndWithoutFaults == {Growing, Throwing, OutOfMemory, SingleFailing, SingleRefused}
RollBacks == {ThrowingGrown}

Symmetry == Permutations(Consumers) \union Permutations(Blocks)
=============================================================================
