----------------------- MODULE ReaderWriterQueueProps -----------------------
(***************************************************************************)
(* What ReaderWriterQueue guarantees when the loads are not stale.         *)
(***************************************************************************)
EXTENDS ReaderWriterQueue

\* The item TryDequeue and Pop take out, or Peek points to, is the oldest one:
\* nothing is skipped, doubled or read before it is there.
TakesOldest ==
    /\ con.step = "take" => Data[FrontBlock][Front[FrontBlock]] = got
    /\ con.step = "peeked" =>
          Data[Next[FrontBlock]][Front[Next[FrontBlock]]] = got

\* assert( BlockFront != BlockTail ): the next block has an item by then.
NextBlockHasItem ==
    con.step \in {"move", "peeked"} =>
        Front[Next[FrontBlock]] # LocalTail[Next[FrontBlock]]

\* assert( BlockFront == NextBlockTail ) in InnerEnqueue, and no item is
\* constructed over one that was not taken.
NeverOverwrites ==
    pro.step = "construct" =>
        /\ pro.block # TailBlock => Front[pro.block] = Tail[pro.block]
        /\ Data[pro.block][Tail[pro.block]] = Raw

\* TryDequeue, Pop and Peek come back empty only if the queue was empty when the
\* call began.
NoSpuriousEmpty ==
    [][con.step = "test" /\ con'.step = "idle" => ~con.some]_vars

\* The slots of block b between Front and Tail.
Filled(b) ==
    {i \in 0 .. (Size[b] - 1) :
        (i - Front[b]) % Size[b] < (Tail[b] - Front[b]) % Size[b]}

\* Between calls SizeApprox, which walks the ring, is exact.
SizeApprox ==
    LET ahead[k \in 0 .. blocks] == IF k = 0 THEN FrontBlock ELSE Next[ahead[k - 1]]
        held(b) == (Tail[b] - Front[b]) % Size[b]
        upTo[k \in 0 .. blocks] ==
            IF k = 0 THEN 0 ELSE upTo[k - 1] + held(ahead[k - 1])
    IN  upTo[CHOOSE k \in 1 .. blocks :
                ahead[k] = FrontBlock /\ \A j \in 1 .. (k - 1) : ahead[j] # FrontBlock]
SizeIsExact == pro.step = "idle" /\ con.step = "idle" => SizeApprox = put - got

\* Between calls the objects are those between Front and Tail, which are the ones
\* the destructor destroys.
DestructorDestroysAll ==
    pro.step = "idle" /\ con.step = "idle" =>
        \A b \in 1 .. blocks :
            {i \in Indexes : Data[b][i] # Raw} = Filled(b)

\* Each item that is enqueued is dequeued, as long as the consumer keeps calling.
EachIsDequeued == \A n \in 0 .. (MaxItems - 1) : put > n ~> got > n
=============================================================================
