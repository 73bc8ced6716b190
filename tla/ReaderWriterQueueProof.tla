----------------------- MODULE ReaderWriterQueueProof -----------------------
(***************************************************************************)
(* For any numbers and sizes of blocks and any number of items: what       *)
(* ReaderWriterQueue guarantees when the loads are not stale.              *)
(***************************************************************************)
EXTENDS ReaderWriterQueueProps, BlockingQueueProps, WellFoundedInduction, TLAPS

Made == 1 .. blocks
Slots(b) == 0 .. (Size[b] - 1)

ProSteps == {"construct", "localFront", "tail", "tailBlock"}
ConSteps == {"test", "take", "next", "peeked", "move", "front"}
ConCalls == [step : ConSteps, op : {"dequeue", "pop", "peek"},
             last : BOOLEAN, some : BOOLEAN]

\* Every variable holds a value of its kind.
TypeOK ==
    /\ blocks \in 1 .. MaxBlocks /\ BlockSize \in 2 .. EXPECTED_BLOCK_SIZE
    /\ FrontBlock \in Made /\ TailBlock \in Made
    /\ Size \in [AllBlocks -> 0 .. EXPECTED_BLOCK_SIZE]
    /\ \A b \in Made : Size[b] >= 2
    /\ Next \in [AllBlocks -> Made]
    /\ Front \in [AllBlocks -> Indexes] /\ Tail \in [AllBlocks -> Indexes]
    /\ LocalFront \in [AllBlocks -> Indexes] /\ LocalTail \in [AllBlocks -> Indexes]
    /\ \A b \in Made : /\ Front[b] \in Slots(b) /\ Tail[b] \in Slots(b)
                       /\ LocalFront[b] \in Slots(b) /\ LocalTail[b] \in Slots(b)
    /\ Data \in [AllBlocks -> [Indexes -> Nat \union {Raw}]]
    /\ put \in Nat /\ got \in Nat
    /\ pro \in {NoCall, [step |-> "full"]} \union [step : ProSteps, block : Made]
    /\ con \in {NoCall} \union ConCalls

\* A block that is not made yet is as the constructor of Block leaves it.
Unmade ==
    \A b \in AllBlocks \ Made :
        /\ Front[b] = 0 /\ Tail[b] = 0 /\ LocalFront[b] = 0 /\ LocalTail[b] = 0
        /\ \A i \in Indexes : Data[b][i] = Raw

-----------------------------------------------------------------------------
\* How far slot j is from slot i in block b, and how many items are in b.
Ahead(b, i, j) == IF j >= i THEN j - i ELSE j - i + Size[b]
CountOf(b) == Ahead(b, Front[b], Tail[b])

\* The blocks that have published items, and FrontBlock: the way from there to
\* TailBlock.
Used == {b \in Made : \/ b = FrontBlock
                      \/ CountOf(b) > 0 /\ ~(pro.step = "tailBlock" /\ b = pro.block)}

\* The number of the first item of block b.
First(b) == IF b = FrontBlock THEN got ELSE Data[b][Front[b]]

Ring ==
    /\ \A b, c \in Made : Next[b] = Next[c] => b = c
    /\ TailBlock \in Used
    /\ First(TailBlock) + CountOf(TailBlock) = put
    /\ \A b \in Used \ {TailBlock} :
          /\ Next[b] \in Used \ {FrontBlock}
          /\ First(Next[b]) = First(b) + CountOf(b)
    /\ \A b \in (Made \ Used) \union {TailBlock} : Next[b] \in Used => Next[b] = FrontBlock

\* The item in slot i of block b, or Raw.
Item(b, i) ==
    IF i < Size[b] /\ Ahead(b, Front[b], i) < CountOf(b)
    THEN IF b = FrontBlock /\ i = Front[b] /\ con.step = "front" THEN Raw
         ELSE First(b) + Ahead(b, Front[b], i)
    ELSE IF pro.step = "tail" /\ b = pro.block /\ i = Tail[b] THEN put ELSE Raw

Content == \A b \in Made : /\ CountOf(b) > 0 => First(b) \in Nat
                           /\ \A i \in Indexes : Data[b][i] = Item(b, i)

\* The copies are not ahead of what they are copies of.
Copies ==
    \A b \in Made :
        /\ Ahead(b, Front[b], LocalTail[b]) <= CountOf(b)
        /\ CountOf(b) <= Ahead(b, LocalFront[b], Tail[b])

\* The producer's block: TailBlock, or one that is empty and comes after it.
ProducerOK ==
    /\ pro.step \in {"construct", "localFront", "tail"} =>
          \/ pro.block = TailBlock /\ pro.step # "localFront"
          \/ pro.block = Next[TailBlock] /\ pro.block \notin Used
    /\ pro.step \in {"construct", "tail"} => Room(pro.block, LocalFront[pro.block])
    /\ pro.step = "tailBlock" =>
          /\ pro.block = Next[TailBlock] /\ pro.block # FrontBlock
          /\ CountOf(pro.block) = 1
          /\ First(pro.block) = put

\* The consumer's block.
ConsumerOK ==
    /\ con.step \in {"test", "next", "move", "peeked"} /\ ~con.last =>
          FrontBlock # TailBlock
    /\ con.step = "test" /\ con.last /\ con.some => CountOf(FrontBlock) > 0
    /\ con.step \in {"next", "move", "peeked"} => ~con.last /\ CountOf(FrontBlock) = 0
    /\ con.step \in {"move", "peeked"} =>
          Front[Next[FrontBlock]] # LocalTail[Next[FrontBlock]]
    /\ con.step \in {"take", "front"} => Front[FrontBlock] # LocalTail[FrontBlock]
    /\ con.step = "front" => con.op # "peek"

IndInv == TypeOK /\ Unmade /\ Ring /\ Content /\ Copies /\ ProducerOK /\ ConsumerOK

-----------------------------------------------------------------------------
(* Arithmetic on a ring of slots *)

\* The slot after the last is the first.
LEMMA NextSlot ==
    ASSUME NEW n \in Nat, n >= 2, NEW i \in 0 .. (n - 1)
    PROVE  (i + 1) % n = IF i + 1 = n THEN 0 ELSE i + 1
  <1>1. CASE i + 1 = n
    BY <1>1
  <1>2. CASE i + 1 < n
    BY <1>2
  <1> QED BY <1>1, <1>2

\* The distance from slot i to slot j, as the code's mask computes it.
LEMMA Distance ==
    ASSUME NEW n \in Nat, n >= 2, NEW i \in 0 .. (n - 1), NEW j \in 0 .. (n - 1)
    PROVE  (j - i) % n = IF j >= i THEN j - i ELSE j - i + n
  <1>1. CASE j >= i
    BY <1>1
  <1>2. CASE j < i
    BY <1>2
  <1> QED BY <1>1, <1>2

\* What the type invariant says of a block that is made.
LEMMA BlockTypes ==
    ASSUME TypeOK, NEW b \in Made
    PROVE  /\ b \in AllBlocks /\ b \in Nat /\ Next[b] \in Made
           /\ Size[b] \in Nat /\ Size[b] >= 2 /\ Slots(b) \subseteq Indexes
           /\ Front[b] \in Slots(b) /\ Tail[b] \in Slots(b)
           /\ LocalFront[b] \in Slots(b) /\ LocalTail[b] \in Slots(b)
           /\ CountOf(b) \in Slots(b)
           /\ CountOf(b) = 0 <=> Front[b] = Tail[b]
           /\ Data[b] \in [Indexes -> Nat \union {Raw}]
  <1>1. /\ b \in AllBlocks /\ b \in Nat /\ Next[b] \in Made
        /\ Size[b] \in 0 .. EXPECTED_BLOCK_SIZE /\ Size[b] >= 2
        /\ Data[b] \in [Indexes -> Nat \union {Raw}]
    BY SizesAssumption DEF TypeOK, Made, AllBlocks
  <1>2. /\ Front[b] \in Slots(b) /\ Tail[b] \in Slots(b)
        /\ LocalFront[b] \in Slots(b) /\ LocalTail[b] \in Slots(b)
    BY DEF TypeOK
  <1>3. Slots(b) \subseteq Indexes
    BY <1>1, SizesAssumption DEF Slots, Indexes
  <1>4. CountOf(b) \in Slots(b) /\ (CountOf(b) = 0 <=> Front[b] = Tail[b])
    BY <1>1, <1>2, SizesAssumption DEF CountOf, Ahead, Slots
  <1> QED BY <1>1, <1>2, <1>3, <1>4, SizesAssumption

\* The masked index is the next slot.
LEMMA AfterSlot ==
    ASSUME TypeOK, NEW b \in Made, NEW i \in Slots(b)
    PROVE  /\ After(b, i) = IF i + 1 = Size[b] THEN 0 ELSE i + 1
           /\ After(b, i) \in Slots(b) /\ After(b, i) # i
  <1>1. Size[b] \in Nat /\ Size[b] >= 2
    BY BlockTypes
  <1>2. i \in 0 .. (Size[b] - 1)
    BY DEF Slots
  <1>3. (i + 1) % Size[b] = IF i + 1 = Size[b] THEN 0 ELSE i + 1
    BY <1>1, <1>2, NextSlot
  <1> QED BY <1>1, <1>2, <1>3 DEF After, Slots

LEMMA InitInd == Init => IndInv
  <1> SUFFICES ASSUME Init PROVE IndInv
    OBVIOUS
  <1>1. TypeOK
    <2>1. /\ blocks \in 1 .. MaxBlocks /\ BlockSize \in 2 .. EXPECTED_BLOCK_SIZE
          /\ FrontBlock \in Made /\ TailBlock \in Made
      BY SizesAssumption DEF Init, Made
    <2>2. Size \in [AllBlocks -> 0 .. EXPECTED_BLOCK_SIZE]
      BY SizesAssumption DEF Init
    <2>3. \A b \in Made : b \in AllBlocks /\ Size[b] = InitialSize
      BY SizesAssumption DEF Init, Made, AllBlocks
    <2>4. Next \in [AllBlocks -> Made]
      BY SizesAssumption DEF Init, Made, AllBlocks
    <2>5. 0 \in Indexes /\ \A b \in Made : 0 \in Slots(b)
      BY <2>3, SizesAssumption DEF Indexes, Slots
    <2>6. /\ Front \in [AllBlocks -> Indexes] /\ Tail \in [AllBlocks -> Indexes]
          /\ LocalFront \in [AllBlocks -> Indexes]
          /\ LocalTail \in [AllBlocks -> Indexes]
      BY <2>5 DEF Init
    <2>7. \A b \in Made : /\ Front[b] \in Slots(b) /\ Tail[b] \in Slots(b)
                          /\ LocalFront[b] \in Slots(b) /\ LocalTail[b] \in Slots(b)
      BY <2>3, <2>5 DEF Init
    <2>8. Data \in [AllBlocks -> [Indexes -> Nat \union {Raw}]]
      BY DEF Init
    <2>9. put \in Nat /\ got \in Nat /\ pro = NoCall /\ con = NoCall
      BY DEF Init
    <2>10. \A b \in Made : Size[b] >= 2
      BY <2>3, SizesAssumption
    <2> QED
      BY <2>1, <2>2, <2>4, <2>6, <2>7, <2>8, <2>9, <2>10 DEF TypeOK
  <1>2. Unmade
    BY DEF Init, Unmade, Made, AllBlocks
  <1>3. \A b \in Made : CountOf(b) = 0
    BY SizesAssumption DEF Init, CountOf, Ahead, Made, AllBlocks
  <1>4. 1 \in Made /\ FrontBlock = 1 /\ TailBlock = 1 /\ Used = {1}
    BY <1>3, SizesAssumption DEF Init, Used, Made
  <1>5. Ring
    <2>1. \A b \in Made : Next[b] = IF b < InitialBlocks THEN b + 1 ELSE 1
      BY SizesAssumption DEF Init, Made, AllBlocks
    <2>2. \A b, c \in Made : Next[b] = Next[c] => b = c
      <3>1. Made = 1 .. InitialBlocks /\ InitialBlocks \in Nat
        BY SizesAssumption DEF Init, Made
      <3> QED BY <2>1, <3>1
    <2>3. First(TailBlock) = 0 /\ CountOf(TailBlock) = 0 /\ put = 0
      <3>1. First(TailBlock) = got /\ CountOf(TailBlock) = 0
        BY <1>3, <1>4 DEF First
      <3>2. got = 0 /\ put = 0
        BY DEF Init
      <3> QED BY <3>1, <3>2
    <2> QED BY <1>4, <2>2, <2>3 DEF Ring
  <1>6. Content
    <2>1. \A b \in Made : \A i \in Indexes : Data[b][i] = Raw
      BY SizesAssumption DEF Init, Made, AllBlocks
    <2>2. \A b \in Made : \A i \in Indexes : Item(b, i) = Raw
      <3> TAKE b \in Made
      <3> TAKE i \in Indexes
      <3>1. Front[b] = 0 /\ CountOf(b) = 0 /\ i \in Nat /\ pro.step = "idle"
        BY <1>3, SizesAssumption DEF Init, Indexes, Made, AllBlocks, NoCall
      <3>2. ~(Ahead(b, Front[b], i) < CountOf(b))
        BY <3>1 DEF Ahead
      <3> QED BY <3>1, <3>2 DEF Item
    <2> QED BY <1>3, <2>1, <2>2 DEF Content
  <1>7. Copies
    BY <1>3, SizesAssumption DEF Init, Copies, Ahead, Made, AllBlocks
  <1>8. ProducerOK /\ ConsumerOK
    BY DEF Init, ProducerOK, ConsumerOK, NoCall
  <1> QED BY <1>1, <1>2, <1>5, <1>6, <1>7, <1>8 DEF IndInv

-----------------------------------------------------------------------------
(* Steps that leave the blocks and what is in them alone *)

Same == UNCHANGED <<blocks, FrontBlock, TailBlock, Size, Next, Front, Tail, Data,
                    put, got>>

\* Only the copies change, and steps that do not matter to the items.
LEMMA SameItems ==
    ASSUME IndInv, Same,
           pro.step \notin {"tail", "tailBlock"} \/ pro' = pro,
           pro'.step \notin {"tail", "tailBlock"} \/ pro' = pro,
           con.step = "front" <=> con'.step = "front"
    PROVE  /\ Made' = Made /\ Used' = Used
           /\ \A b \in Made : /\ CountOf(b)' = CountOf(b) /\ First(b)' = First(b)
                              /\ Slots(b)' = Slots(b)
           /\ Ring' /\ Content'
  <1>1. Made' = Made
    BY DEF Made, Same
  <1>2. \A b \in Made : /\ CountOf(b)' = CountOf(b) /\ First(b)' = First(b)
                        /\ Slots(b)' = Slots(b)
    BY DEF Same, CountOf, Ahead, First, Slots
  <1>3. Used' = Used
    BY <1>1, <1>2 DEF Used, Same
  <1>4. Ring'
    <2>1. \A b \in Used : b \in Made /\ Next[b] \in Made
      BY BlockTypes DEF Used, IndInv
    <2>2. Ring /\ TailBlock \in Made
      BY DEF IndInv, TypeOK
    <2>3. (\A b, c \in Made : Next[b] = Next[c] => b = c)'
      BY <1>1, <2>2 DEF Ring, Same
    <2>4. (TailBlock \in Used /\ First(TailBlock) + CountOf(TailBlock) = put)'
      BY <1>2, <1>3, <2>2 DEF Ring, Same
    <2>5. (\A b \in Used \ {TailBlock} :
              /\ Next[b] \in Used \ {FrontBlock}
              /\ First(Next[b]) = First(b) + CountOf(b))'
      BY <1>2, <1>3, <2>1, <2>2 DEF Ring, Same
    <2>6. (\A b \in (Made \ Used) \union {TailBlock} :
              Next[b] \in Used => Next[b] = FrontBlock)'
      BY <1>1, <1>3, <2>2 DEF Ring, Same
    <2> QED BY <2>3, <2>4, <2>5, <2>6 DEF Ring
  <1>5. \A b \in Made : \A i \in Indexes : Item(b, i)' = Item(b, i)
    BY <1>2 DEF Item, Same, Ahead
  <1>6. Content'
    BY <1>1, <1>2, <1>5 DEF Content, Same, IndInv
  <1> QED BY <1>1, <1>2, <1>3, <1>4, <1>6

\* The calls of the two threads, as records.
LEMMA InCall ==
    ASSUME TypeOK
    PROVE  /\ pro.step \in ProSteps => pro \in [step : ProSteps, block : Made]
           /\ con.step \in ConSteps => con \in ConCalls
           /\ pro.step \in ProSteps \union {"idle", "full"}
  BY DEF TypeOK, ProSteps, ConSteps, NoCall, ConCalls

LEMMA ProStep ==
    ASSUME NEW S, NEW T, NEW r \in [step : S, block : T], NEW s \in S
    PROVE  /\ [r EXCEPT !.step = s] \in [step : S, block : T]
           /\ [r EXCEPT !.step = s].step = s
           /\ [r EXCEPT !.step = s].block = r.block
  OBVIOUS

LEMMA ConStep ==
    ASSUME NEW r \in ConCalls, NEW s \in ConSteps
    PROVE  /\ [r EXCEPT !.step = s] \in ConCalls
           /\ [r EXCEPT !.step = s].step = s
           /\ [r EXCEPT !.step = s].op = r.op
           /\ [r EXCEPT !.step = s].last = r.last
           /\ [r EXCEPT !.step = s].some = r.some
  BY DEF ConCalls

\* The producer finds out where there is room.
ProducerLooks ==
    \/ EnqueueHere \/ BlockIsFull \/ EnqueueNext \/ LoadNextFront \/ EnqueueFails

LEMMA ProducerLooksInd == IndInv /\ ProducerLooks => IndInv'
  <1> SUFFICES ASSUME IndInv, ProducerLooks PROVE IndInv'
    OBVIOUS
  <1> USE BlockTypes
  <1>1. /\ TypeOK /\ Unmade /\ Ring /\ Content /\ Copies /\ ProducerOK /\ ConsumerOK
        /\ TailBlock \in Made /\ Next[TailBlock] \in Made
        /\ Used \subseteq Made
    BY DEF IndInv, TypeOK, Used
  <1>2. Same /\ UNCHANGED <<con, LocalTail, BlockSize>>
    BY DEF ProducerLooks, EnqueueHere, BlockIsFull, EnqueueNext, LoadNextFront,
           EnqueueFails, Same, consumerVars
  <1>3. pro.step \notin {"tail", "tailBlock"} /\ pro'.step \notin {"tail", "tailBlock"}
    <2>1. CASE LoadNextFront
      <3>1. pro \in [step : ProSteps, block : Made] /\ "construct" \in ProSteps
        BY <1>1, <2>1, InCall DEF LoadNextFront, ProSteps
      <3> QED BY <2>1, <3>1, ProStep DEF LoadNextFront
    <2>2. CASE ~LoadNextFront
      BY <2>2 DEF ProducerLooks, EnqueueHere, BlockIsFull, EnqueueNext, EnqueueFails,
                  NoCall
    <2> QED BY <2>1, <2>2
  <1>4. \/ LocalFront' = LocalFront
        \/ \E b \in Made : LocalFront' = [LocalFront EXCEPT ![b] = Front[b]]
    <2>1. CASE LoadNextFront
      <3>1. pro \in [step : ProSteps, block : Made]
        BY <1>1, <2>1, InCall DEF LoadNextFront, ProSteps
      <3> QED BY <2>1, <3>1 DEF LoadNextFront
    <2>2. CASE ~LoadNextFront
      BY <1>1, <2>2 DEF ProducerLooks, EnqueueHere, BlockIsFull, EnqueueNext,
                        EnqueueFails
    <2> QED BY <2>1, <2>2
  <1>5. /\ LocalFront' \in [AllBlocks -> Indexes]
        /\ \A b \in Made : LocalFront'[b] \in {LocalFront[b], Front[b]}
        /\ \A b \in AllBlocks \ Made : LocalFront'[b] = LocalFront[b]
    <2>1. LocalFront \in [AllBlocks -> Indexes]
      BY <1>1 DEF TypeOK
    <2>2. \A b \in Made : b \in AllBlocks /\ Front[b] \in Indexes
      BY <1>1
    <2> QED BY <1>4, <2>1, <2>2
  <1>6. /\ Made' = Made /\ Used' = Used
        /\ \A b \in Made : /\ CountOf(b)' = CountOf(b) /\ First(b)' = First(b)
                           /\ Slots(b)' = Slots(b)
        /\ Ring' /\ Content'
    BY <1>2, <1>3, SameItems DEF NoCall
  <1>7. \A b \in AllBlocks, i \in Indexes : Room(b, i)' <=> Room(b, i)
    BY <1>2 DEF Room, After, Same
  <1>8. /\ pro' \in {NoCall, [step |-> "full"]} \union [step : ProSteps, block : Made]
        /\ ProducerOK'
    <2>1. CASE EnqueueHere
      <3>1. /\ pro' = [step |-> "construct", block |-> TailBlock]
            /\ pro' \in [step : ProSteps, block : Made]
        BY <1>1, <2>1 DEF EnqueueHere, ProSteps
      <3>2. pro'.step = "construct" /\ pro'.block = TailBlock
        BY <3>1
      <3>3. Room(TailBlock, LocalFront'[TailBlock])
        BY <1>1, <2>1 DEF EnqueueHere, TypeOK
      <3>4. Room(TailBlock, LocalFront[TailBlock])'
        BY <1>1, <1>2, <3>3 DEF Room, After, Same
      <3> QED BY <1>2, <3>1, <3>2, <3>4 DEF ProducerOK, Same
    <2>2. CASE LoadNextFront
      <3>1. pro \in [step : ProSteps, block : Made] /\ "construct" \in ProSteps
        BY <1>1, <2>2, InCall DEF LoadNextFront, ProSteps
      <3>2. pro' = [pro EXCEPT !.step = "construct"]
        BY <2>2 DEF LoadNextFront
      <3>3. /\ pro' \in [step : ProSteps, block : Made]
            /\ pro'.step = "construct" /\ pro'.block = pro.block
        BY <3>1, <3>2, ProStep
      <3>4. PICK b : b = pro.block
        OBVIOUS
      <3>5. b \in Made /\ b = Next[TailBlock] /\ b \notin Used
        BY <1>1, <2>2, <3>1, <3>4 DEF LoadNextFront, ProducerOK
      <3>6. CountOf(b) = 0 /\ Front[b] = Tail[b]
        <4>1. pro.step = "localFront"
          BY <2>2 DEF LoadNextFront
        <4>2. ~(CountOf(b) > 0)
          BY <3>5, <4>1 DEF Used
        <4> QED BY <1>1, <3>5, <4>2 DEF Slots
      <3>7. LocalFront'[b] = Front[b]
        BY <1>1, <2>2, <3>4, <3>5 DEF LoadNextFront, TypeOK
      <3>8. Room(b, LocalFront[b])'
        BY <1>1, <1>2, <3>5, <3>6, <3>7, AfterSlot DEF Room, After, Same
      <3> QED BY <1>2, <1>6, <3>3, <3>4, <3>5, <3>8 DEF ProducerOK, Same
    <2>3. CASE EnqueueNext
      <3>1. /\ pro' = [step |-> "localFront", block |-> Next[TailBlock]]
            /\ pro' \in [step : ProSteps, block : Made]
        BY <1>1, <2>3 DEF EnqueueNext, ProSteps
      <3>2. pro'.step = "localFront" /\ pro'.block = Next[TailBlock]
        BY <3>1
      <3>3. Next[TailBlock] \notin Used
        BY <1>1, <2>3 DEF EnqueueNext, NextIsFree, Ring
      <3> QED BY <1>2, <1>6, <3>1, <3>2, <3>3 DEF ProducerOK, Same
    <2>4. CASE BlockIsFull \/ EnqueueFails
      BY <2>4 DEF BlockIsFull, EnqueueFails, ProducerOK, NoCall
    <2> QED BY <2>1, <2>2, <2>3, <2>4 DEF ProducerLooks
  <1>9. TypeOK'
    <2>1. \A b \in Made : LocalFront'[b] \in Slots(b)
      BY <1>1, <1>5
    <2>2. (\A b \in Made : /\ Front[b] \in Slots(b) /\ Tail[b] \in Slots(b)
                           /\ LocalFront[b] \in Slots(b) /\ LocalTail[b] \in Slots(b))'
      BY <1>1, <1>2, <1>6, <2>1 DEF Same
    <2>3. con' \in {NoCall} \union ConCalls
      BY <1>1, <1>2 DEF TypeOK
    <2>4. Next' \in [AllBlocks -> Made'] /\ \A b \in Made' : Size'[b] >= 2
      BY <1>1, <1>2, <1>6 DEF TypeOK, Same
    <2> QED BY <1>1, <1>2, <1>5, <1>6, <1>8, <2>2, <2>3, <2>4 DEF TypeOK, Same
  <1>10. Unmade'
    BY <1>1, <1>2, <1>5, <1>6 DEF Unmade, Same
  <1>11. Copies'
    <2>1. \A b \in Made : Ahead(b, LocalFront[b], Tail[b])' >= CountOf(b)
      <3> TAKE b \in Made
      <3>1. CASE LocalFront'[b] = LocalFront[b]
        BY <1>1, <1>2, <3>1 DEF Copies, Ahead, Same
      <3>2. CASE LocalFront'[b] = Front[b]
        <4>1. Ahead(b, LocalFront[b], Tail[b])' = CountOf(b)
          BY <1>2, <3>2 DEF Ahead, Same, CountOf
        <4> QED BY <1>1, <4>1 DEF Slots
      <3> QED BY <1>5, <3>1, <3>2
    <2>2. \A b \in Made :
             Ahead(b, Front[b], LocalTail[b])' = Ahead(b, Front[b], LocalTail[b])
      BY <1>2 DEF Ahead, Same
    <2> QED BY <1>1, <1>6, <2>1, <2>2 DEF Copies
  <1>12. ConsumerOK'
    BY <1>1, <1>2, <1>6 DEF ConsumerOK, Same, TypeOK
  <1> QED BY <1>6, <1>8, <1>9, <1>10, <1>11, <1>12 DEF IndInv

\* The consumer finds out where there is an item.
ConsumerLooks ==
    \/ \E op \in {"dequeue", "pop", "peek"} : TestTailBlock(op)
    \/ TrustCopy \/ LoadTail \/ LoadNextTail \/ PeekReturns

LEMMA ConsumerLooksInd ==
    ASSUME StaleTail = FALSE PROVE IndInv /\ ConsumerLooks => IndInv'
  <1> SUFFICES ASSUME IndInv, ConsumerLooks PROVE IndInv'
    OBVIOUS
  <1> USE BlockTypes
  <1>1. /\ TypeOK /\ Unmade /\ Ring /\ Content /\ Copies /\ ProducerOK /\ ConsumerOK
        /\ TailBlock \in Made /\ FrontBlock \in Made /\ Next[FrontBlock] \in Made
        /\ Used \subseteq Made
    BY DEF IndInv, TypeOK, Used
  <1>2. Same /\ UNCHANGED <<pro, LocalFront, BlockSize>>
    BY DEF ConsumerLooks, TestTailBlock, TrustCopy, LoadTail, LoadNextTail,
           PeekReturns, Same, producerVars
  <1>3. con.step \in {"test", "next"} => con \in ConCalls
    BY <1>1, InCall DEF ConSteps
  <1>4. con.step \in {"test", "next"} => \A s \in {"take", "next", "peeked", "move"} :
           /\ [con EXCEPT !.step = s] \in ConCalls
           /\ [con EXCEPT !.step = s].step = s
           /\ [con EXCEPT !.step = s].last = con.last
    <2> SUFFICES ASSUME con \in ConCalls, NEW s \in {"take", "next", "peeked", "move"}
                 PROVE  /\ [con EXCEPT !.step = s] \in ConCalls
                        /\ [con EXCEPT !.step = s].step = s
                        /\ [con EXCEPT !.step = s].last = con.last
      BY <1>3
    <2>1. s \in ConSteps
      BY DEF ConSteps
    <2> QED BY <2>1, ConStep
  <1>5. con'.step # "front" /\ con.step # "front"
    <2>1. CASE \E op \in {"dequeue", "pop", "peek"} : TestTailBlock(op)
      BY <2>1 DEF TestTailBlock
    <2>2. CASE TrustCopy
      <3>1. con' = [con EXCEPT !.step = "take"] /\ con.step = "test"
        BY <2>2 DEF TrustCopy
      <3> QED BY <1>3, <1>4, <3>1
    <2>3. CASE LoadTail
      <3>1. /\ con.step = "test"
            /\ \/ con' = NoCall
               \/ con' = [con EXCEPT !.step = "take"]
               \/ con' = [con EXCEPT !.step = "next"]
        BY <2>3 DEF LoadTail
      <3>2. [con EXCEPT !.step = "take"].step = "take"
        BY <1>4, <3>1
      <3>3. [con EXCEPT !.step = "next"].step = "next"
        BY <1>4, <3>1
      <3>4. con' = NoCall => con'.step # "front"
        BY DEF NoCall
      <3>5. con' = [con EXCEPT !.step = "take"] => con'.step # "front"
        BY <3>2, Zenon
      <3>6. con' = [con EXCEPT !.step = "next"] => con'.step # "front"
        BY <3>3, Zenon
      <3>7. con.step # "front"
        BY <3>1
      <3> QED BY <3>1, <3>4, <3>5, <3>6, <3>7, Zenon
    <2>4. CASE LoadNextTail
      <3>1. /\ con.step = "next"
            /\ con' \in {[con EXCEPT !.step = "peeked"], [con EXCEPT !.step = "move"]}
        BY <2>4 DEF LoadNextTail
      <3> QED BY <1>3, <1>4, <3>1
    <2>5. CASE PeekReturns
      BY <2>5 DEF PeekReturns, NoCall
    <2> QED BY <2>1, <2>2, <2>3, <2>4, <2>5 DEF ConsumerLooks
  <1>6. \/ LocalTail' = LocalTail
        \/ \E b \in Made : LocalTail' = [LocalTail EXCEPT ![b] = Tail[b]]
    BY <1>1 DEF ConsumerLooks, TestTailBlock, TrustCopy, LoadTail, LoadNextTail,
                PeekReturns, TailLoads
  <1>7. /\ LocalTail' \in [AllBlocks -> Indexes]
        /\ \A b \in Made : LocalTail'[b] \in {LocalTail[b], Tail[b]}
        /\ \A b \in AllBlocks \ Made : LocalTail'[b] = LocalTail[b]
    <2>1. LocalTail \in [AllBlocks -> Indexes]
      BY <1>1 DEF TypeOK
    <2>2. \A b \in Made : b \in AllBlocks /\ Tail[b] \in Indexes
      BY <1>1
    <2> QED BY <1>6, <2>1, <2>2
  <1>8. /\ Made' = Made /\ Used' = Used
        /\ \A b \in Made : /\ CountOf(b)' = CountOf(b) /\ First(b)' = First(b)
                           /\ Slots(b)' = Slots(b)
        /\ Ring' /\ Content'
    BY <1>2, <1>5, SameItems
  <1>9. con' \in {NoCall} \union ConCalls /\ ConsumerOK'
    <2>1. CASE \E op \in {"dequeue", "pop", "peek"} : TestTailBlock(op)
      <3>1. PICK op \in {"dequeue", "pop", "peek"} : TestTailBlock(op)
        BY <2>1
      <3>2. con' = [step |-> "test", op |-> op, last |-> FrontBlock = TailBlock,
                    some |-> put > got]
        BY <3>1 DEF TestTailBlock
      <3>3. /\ con' \in ConCalls /\ con'.step = "test"
            /\ con'.last <=> FrontBlock = TailBlock
            /\ con'.some <=> put > got
        <4>1. (FrontBlock = TailBlock) \in BOOLEAN /\ (put > got) \in BOOLEAN
          OBVIOUS
        <4>2. con' \in ConCalls
          BY <3>2, <4>1 DEF ConCalls, ConSteps
        <4> QED BY <3>2, <4>2
      <3>4. FrontBlock = TailBlock /\ put > got => CountOf(FrontBlock) > 0
        <4>1. CountOf(FrontBlock) \in Nat /\ put \in Nat /\ got \in Nat
          BY <1>1 DEF TypeOK, Slots
        <4>2. FrontBlock = TailBlock => got + CountOf(FrontBlock) = put
          BY <1>1 DEF Ring, First
        <4> QED BY <4>1, <4>2
      <3> QED BY <1>1, <1>2, <1>8, <3>3, <3>4 DEF ConsumerOK, Same
    <2>2. CASE TrustCopy
      <3>1. /\ con' = [con EXCEPT !.step = "take"] /\ con.step = "test"
            /\ Front[FrontBlock] # LocalTail[FrontBlock]
            /\ LocalTail' = LocalTail
        BY <2>2 DEF TrustCopy
      <3>2. con' \in ConCalls /\ con'.step = "take"
        BY <1>3, <1>4, <3>1
      <3> QED BY <1>2, <3>1, <3>2 DEF ConsumerOK, Same
    <2>3. CASE LoadTail
      <3>1. /\ con.step = "test" /\ con \in ConCalls
            /\ LocalTail' = [LocalTail EXCEPT ![FrontBlock] = Tail[FrontBlock]]
            /\ con' = IF Front[FrontBlock] # Tail[FrontBlock]
                      THEN [con EXCEPT !.step = "take"]
                      ELSE IF con.last THEN NoCall ELSE [con EXCEPT !.step = "next"]
        BY <1>3, <2>3 DEF LoadTail, TailLoads
      <3>2. LocalTail'[FrontBlock] = Tail[FrontBlock]
        BY <1>1, <3>1 DEF TypeOK
      <3>3. CASE Front[FrontBlock] # Tail[FrontBlock]
        <4>1. con' \in ConCalls /\ con'.step = "take"
          BY <1>4, <3>1, <3>3
        <4> QED BY <1>2, <3>2, <3>3, <4>1 DEF ConsumerOK, Same
      <3>4. CASE Front[FrontBlock] = Tail[FrontBlock] /\ con.last
        BY <3>1, <3>4 DEF ConsumerOK, NoCall
      <3>5. CASE Front[FrontBlock] = Tail[FrontBlock] /\ ~con.last
        <4>1. con' \in ConCalls /\ con'.step = "next" /\ con'.last = con.last
          BY <1>4, <3>1, <3>5
        <4>2. CountOf(FrontBlock) = 0 /\ FrontBlock # TailBlock
          BY <1>1, <3>1, <3>5 DEF ConsumerOK
        <4> QED BY <1>1, <1>2, <1>8, <3>5, <4>1, <4>2 DEF ConsumerOK, Same
      <3> QED BY <3>3, <3>4, <3>5
    <2>4. CASE LoadNextTail
      <3>1. /\ con.step = "next" /\ con \in ConCalls
            /\ LocalTail' =
                  [LocalTail EXCEPT ![Next[FrontBlock]] = Tail[Next[FrontBlock]]]
            /\ \/ con' = [con EXCEPT !.step = "peeked"]
               \/ con' = [con EXCEPT !.step = "move"]
        BY <1>3, <2>4 DEF LoadNextTail
      <3>2. con' \in ConCalls /\ con'.step \in {"peeked", "move"} /\ con'.last = con.last
        BY <1>4, <3>1
      <3>3. ~con.last /\ CountOf(FrontBlock) = 0 /\ FrontBlock # TailBlock
        BY <1>1, <3>1 DEF ConsumerOK
      <3>4. PICK n \in Made : n = Next[FrontBlock]
        BY <1>1
      <3>5. FrontBlock \in Used
        BY <1>1 DEF Used
      <3>6. n \in Used \ {FrontBlock}
        BY <1>1, <3>3, <3>4, <3>5 DEF Ring
      <3>7. Front[n] # Tail[n]
        <4>1. CountOf(n) > 0
          BY <3>6 DEF Used
        <4> QED BY <1>1, <3>4, <4>1
      <3>8. LocalTail'[n] = Tail[n]
        BY <1>1, <3>1, <3>4 DEF TypeOK
      <3>9. Front'[Next'[FrontBlock']] # LocalTail'[Next'[FrontBlock']]
        BY <1>2, <3>4, <3>7, <3>8 DEF Same
      <3> QED BY <1>1, <1>2, <1>8, <3>2, <3>3, <3>9 DEF ConsumerOK, Same
    <2>5. CASE PeekReturns
      BY <2>5 DEF PeekReturns, ConsumerOK, NoCall
    <2> QED BY <2>1, <2>2, <2>3, <2>4, <2>5 DEF ConsumerLooks
  <1>10. TypeOK'
    <2>1. \A b \in Made : LocalTail'[b] \in Slots(b)
      BY <1>1, <1>7
    <2>2. (\A b \in Made : /\ Front[b] \in Slots(b) /\ Tail[b] \in Slots(b)
                           /\ LocalFront[b] \in Slots(b) /\ LocalTail[b] \in Slots(b))'
      BY <1>1, <1>2, <1>8, <2>1 DEF Same
    <2>3. (pro \in {NoCall, [step |-> "full"]} \union [step : ProSteps, block : Made])'
      BY <1>1, <1>2, <1>8 DEF TypeOK
    <2>4. Next' \in [AllBlocks -> Made'] /\ \A b \in Made' : Size'[b] >= 2
      BY <1>1, <1>2, <1>8 DEF TypeOK, Same
    <2> QED BY <1>1, <1>2, <1>7, <1>8, <1>9, <2>2, <2>3, <2>4 DEF TypeOK, Same
  <1>11. Unmade'
    BY <1>1, <1>2, <1>7, <1>8 DEF Unmade, Same
  <1>12. Copies'
    <2>1. \A b \in Made : Ahead(b, Front[b], LocalTail[b])' <= CountOf(b)
      <3> TAKE b \in Made
      <3>1. CASE LocalTail'[b] = LocalTail[b]
        BY <1>1, <1>2, <3>1 DEF Copies, Ahead, Same
      <3>2. CASE LocalTail'[b] = Tail[b]
        <4>1. Ahead(b, Front[b], LocalTail[b])' = CountOf(b)
          BY <1>2, <3>2 DEF Ahead, Same, CountOf
        <4> QED BY <1>1, <4>1 DEF Slots
      <3> QED BY <1>7, <3>1, <3>2
    <2>2. \A b \in Made :
             Ahead(b, LocalFront[b], Tail[b])' = Ahead(b, LocalFront[b], Tail[b])
      BY <1>2 DEF Ahead, Same
    <2> QED BY <1>1, <1>8, <2>1, <2>2 DEF Copies
  <1>13. ProducerOK'
    <2>1. \A b \in AllBlocks, i \in Indexes : Room(b, i)' <=> Room(b, i)
      BY <1>2 DEF Room, After, Same
    <2>2. pro.step \in ProSteps => pro.block \in Made
      BY <1>1, InCall
    <2> QED BY <1>1, <1>2, <1>8, <2>1, <2>2 DEF ProducerOK, Same, ProSteps
  <1> QED BY <1>8, <1>9, <1>10, <1>11, <1>12, <1>13 DEF IndInv

-----------------------------------------------------------------------------
(* The consumer takes the item out *)

\* Slot i is where the item that is ahead of Front by that much is.
LEMMA AheadIsUnique ==
    ASSUME TypeOK, NEW b \in Made, NEW i \in Slots(b), NEW j \in Slots(b), NEW k \in Slots(b)
    PROVE  /\ Ahead(b, i, j) \in Slots(b)
           /\ Ahead(b, i, j) = Ahead(b, i, k) => j = k
           /\ Ahead(b, i, j) = 0 <=> i = j
           /\ i # j => Ahead(b, After(b, i), j) = Ahead(b, i, j) - 1
           /\ Ahead(b, After(b, i), i) = Size[b] - 1
           /\ After(b, j) # i => Ahead(b, i, After(b, j)) = Ahead(b, i, j) + 1
           /\ After(b, j) = i => Ahead(b, i, j) = Size[b] - 1
           /\ Ahead(b, i, j) + Ahead(b, j, k) \in {Ahead(b, i, k), Ahead(b, i, k) + Size[b]}
  <1>1. Size[b] \in Nat /\ Size[b] >= 2
    BY BlockTypes
  <1>2. \A m \in Slots(b) : After(b, m) = IF m + 1 = Size[b] THEN 0 ELSE m + 1
    BY AfterSlot
  <1>3. /\ i \in 0 .. (Size[b] - 1) /\ j \in 0 .. (Size[b] - 1)
        /\ k \in 0 .. (Size[b] - 1)
    BY DEF Slots
  <1>4. /\ After(b, i) = IF i + 1 = Size[b] THEN 0 ELSE i + 1
        /\ After(b, j) = IF j + 1 = Size[b] THEN 0 ELSE j + 1
    BY <1>2
  <1> QED BY <1>1, <1>3, <1>4 DEF Ahead, Slots

LEMMA TakeInd == IndInv /\ Take => IndInv'
  <1> SUFFICES ASSUME IndInv, Take PROVE IndInv'
    OBVIOUS
  <1> USE BlockTypes
  <1>1. /\ TypeOK /\ Unmade /\ Ring /\ Content /\ Copies /\ ProducerOK /\ ConsumerOK
        /\ TailBlock \in Made /\ FrontBlock \in Made
        /\ Used \subseteq Made
    BY DEF IndInv, TypeOK, Used
  <1>2. /\ con.step = "take" /\ con.op # "peek"
        /\ Data' = [Data EXCEPT ![FrontBlock][Front[FrontBlock]] = Raw]
        /\ con' = [con EXCEPT !.step = "front"]
        /\ UNCHANGED <<blocks, BlockSize, FrontBlock, TailBlock, Size, Next, Front, Tail,
                       LocalFront, LocalTail, put, got, pro>>
    BY DEF Take, producerVars
  <1>3. con' \in ConCalls /\ con'.step = "front" /\ con'.op = con.op
    <2>1. con \in ConCalls /\ "front" \in ConSteps
      BY <1>1, <1>2, InCall DEF ConSteps
    <2> QED BY <1>2, <2>1, ConStep
  <1>4. /\ Data' \in [AllBlocks -> [Indexes -> Nat \union {Raw}]]
        /\ \A b \in AllBlocks, i \in Indexes :
              Data'[b][i] = IF b = FrontBlock /\ i = Front[b] THEN Raw ELSE Data[b][i]
    <2>1. Data \in [AllBlocks -> [Indexes -> Nat \union {Raw}]]
      BY <1>1 DEF TypeOK
    <2>2. FrontBlock \in AllBlocks /\ Front[FrontBlock] \in Indexes
      BY <1>1
    <2> QED BY <1>2, <2>1, <2>2
  <1>5. /\ Made' = Made
        /\ \A b \in Made : /\ CountOf(b)' = CountOf(b) /\ First(b)' = First(b)
                           /\ Slots(b)' = Slots(b)
    <2>1. \A b \in Made : First(b)' = First(b)
      <3> TAKE b \in Made
      <3>1. b \in AllBlocks /\ Front[b] \in Indexes
        BY <1>1
      <3>2. b # FrontBlock => Data'[b][Front[b]] = Data[b][Front[b]]
        BY <1>4, <3>1
      <3> QED BY <1>2, <3>2 DEF First
    <2> QED BY <1>2, <2>1 DEF Made, CountOf, Ahead, Slots
  <1>6. Used' = Used
    BY <1>2, <1>5 DEF Used
  <1>7. TypeOK'
    <2>1. (\A b \in Made : /\ Front[b] \in Slots(b) /\ Tail[b] \in Slots(b)
                           /\ LocalFront[b] \in Slots(b) /\ LocalTail[b] \in Slots(b))'
      BY <1>1, <1>2, <1>5
    <2>2. (pro \in {NoCall, [step |-> "full"]} \union [step : ProSteps, block : Made])'
      BY <1>1, <1>2, <1>5 DEF TypeOK
    <2>3. Next' \in [AllBlocks -> Made'] /\ \A b \in Made' : Size'[b] >= 2
      BY <1>1, <1>2, <1>5 DEF TypeOK
    <2> QED BY <1>1, <1>2, <1>3, <1>4, <1>5, <2>1, <2>2, <2>3 DEF TypeOK
  <1>8. Unmade'
    BY <1>1, <1>2, <1>4, <1>5 DEF Unmade
  <1>9. Ring'
    <2>1. \A b \in Used : Next[b] \in Made
      BY <1>1
    <2>2. (\A b, c \in Made : Next[b] = Next[c] => b = c)'
      BY <1>1, <1>2, <1>5 DEF Ring
    <2>3. (TailBlock \in Used /\ First(TailBlock) + CountOf(TailBlock) = put)'
      BY <1>1, <1>2, <1>5, <1>6 DEF Ring
    <2>4. (\A b \in Used \ {TailBlock} :
              /\ Next[b] \in Used \ {FrontBlock}
              /\ First(Next[b]) = First(b) + CountOf(b))'
      BY <1>1, <1>2, <1>5, <1>6, <2>1 DEF Ring
    <2>5. (\A b \in (Made \ Used) \union {TailBlock} :
              Next[b] \in Used => Next[b] = FrontBlock)'
      BY <1>1, <1>2, <1>5, <1>6 DEF Ring
    <2> QED BY <2>2, <2>3, <2>4, <2>5 DEF Ring
  <1>10. Content'
    <2>1. ASSUME NEW b \in Made, NEW i \in Indexes PROVE Data'[b][i] = Item(b, i)'
      <3>1. CASE b = FrontBlock /\ i = Front[b]
        <4>1. Ahead(b, Front[b], i) = 0 /\ i < Size[b]
          BY <1>1, <3>1, AheadIsUnique DEF Slots
        <4>2. CountOf(b) > 0
          <5>1. Front[b] # LocalTail[b]
            BY <1>1, <1>2, <3>1 DEF ConsumerOK
          <5>2. Ahead(b, Front[b], LocalTail[b]) \in Nat \ {0}
            BY <1>1, <5>1, AheadIsUnique DEF Slots
          <5>3. Ahead(b, Front[b], LocalTail[b]) <= CountOf(b)
            BY <1>1 DEF Copies
          <5> QED BY <1>1, <5>2, <5>3 DEF Slots
        <4>3. Item(b, i)' = Raw
          BY <1>2, <1>3, <1>5, <3>1, <4>1, <4>2 DEF Item, Ahead
        <4> QED BY <1>1, <1>4, <3>1, <4>3
      <3>2. CASE ~(b = FrontBlock /\ i = Front[b])
        <4>1. Item(b, i)' = Item(b, i)
          BY <1>2, <1>3, <1>5, <3>2 DEF Item, Ahead
        <4>2. Data[b][i] = Item(b, i)
          BY <1>1 DEF Content
        <4>3. Data'[b][i] = Data[b][i]
          BY <1>1, <1>4, <3>2
        <4> QED BY <4>1, <4>2, <4>3
      <3> QED BY <3>1, <3>2
    <2> QED BY <1>1, <1>5, <2>1 DEF Content
  <1>11. Copies'
    BY <1>1, <1>2, <1>5 DEF Copies, Ahead
  <1>12. ProducerOK'
    <2>1. \A b \in AllBlocks, i \in Indexes : Room(b, i)' <=> Room(b, i)
      BY <1>2 DEF Room, After
    <2>2. pro.step \in ProSteps => pro.block \in Made
      BY <1>1, InCall
    <2> QED BY <1>1, <1>2, <1>5, <1>6, <2>1, <2>2 DEF ProducerOK, ProSteps
  <1>13. ConsumerOK'
    BY <1>1, <1>2, <1>3 DEF ConsumerOK
  <1> QED BY <1>7, <1>8, <1>9, <1>10, <1>11, <1>12, <1>13 DEF IndInv

LEMMA StoreFrontInd == IndInv /\ StoreFront => IndInv'
  <1> SUFFICES ASSUME IndInv, StoreFront PROVE IndInv'
    OBVIOUS
  <1> USE BlockTypes
  <1>1. /\ TypeOK /\ Unmade /\ Ring /\ Content /\ Copies /\ ProducerOK /\ ConsumerOK
        /\ TailBlock \in Made /\ FrontBlock \in Made
        /\ Used \subseteq Made
    BY DEF IndInv, TypeOK, Used
  <1>2. /\ con.step = "front"
        /\ Front' = [Front EXCEPT ![FrontBlock] = After(FrontBlock, Front[FrontBlock])]
        /\ got' = got + 1 /\ con' = NoCall
        /\ UNCHANGED <<blocks, BlockSize, FrontBlock, TailBlock, Size, Next, Tail,
                       LocalFront, LocalTail, Data, put, pro>>
    BY DEF StoreFront, producerVars
  <1>3. PICK f \in Made : f = FrontBlock
    BY <1>1
  <1>4. /\ Front' \in [AllBlocks -> Indexes]
        /\ Front'[f] = After(f, Front[f]) /\ Front'[f] \in Slots(f)
        /\ \A b \in AllBlocks : b # f => Front'[b] = Front[b]
    <2>1. Front \in [AllBlocks -> Indexes]
      BY <1>1 DEF TypeOK
    <2>2. f \in AllBlocks /\ After(f, Front[f]) \in Slots(f) /\ Slots(f) \subseteq Indexes
      BY <1>1, AfterSlot
    <2> QED BY <1>2, <1>3, <2>1, <2>2
  <1>5. Made' = Made /\ \A b \in Made : Slots(b)' = Slots(b)
    BY <1>2 DEF Made, Slots
  <1>6. Ahead(f, Front[f], LocalTail[f]) \in Nat \ {0} /\ CountOf(f) \in Nat \ {0}
    <2>1. Front[f] # LocalTail[f]
      BY <1>1, <1>2, <1>3 DEF ConsumerOK
    <2>2. Ahead(f, Front[f], LocalTail[f]) \in Nat \ {0}
      BY <1>1, <2>1, AheadIsUnique DEF Slots
    <2>3. Ahead(f, Front[f], LocalTail[f]) <= CountOf(f)
      BY <1>1 DEF Copies
    <2> QED BY <1>1, <2>2, <2>3 DEF Slots
  <1>7. /\ CountOf(f)' = CountOf(f) - 1
        /\ \A b \in Made : b # f => CountOf(b)' = CountOf(b)
    <2>1. Front[f] # Tail[f]
      BY <1>1, <1>6
    <2>2. Ahead(f, After(f, Front[f]), Tail[f]) = CountOf(f) - 1
      BY <1>1, <2>1, AheadIsUnique DEF CountOf
    <2>3. CountOf(f)' = Ahead(f, After(f, Front[f]), Tail[f])
      BY <1>2, <1>4 DEF CountOf, Ahead
    <2>4. \A b \in Made : b # f => CountOf(b)' = CountOf(b)
      BY <1>1, <1>2, <1>4 DEF CountOf, Ahead
    <2> QED BY <2>2, <2>3, <2>4
  <1>8. /\ First(f)' = First(f) + 1 /\ First(f) = got
        /\ \A b \in Made : b # f => First(b)' = First(b)
    BY <1>1, <1>2, <1>3, <1>4 DEF First
  <1>9. Used' = Used /\ f \in Used
    BY <1>2, <1>3, <1>5, <1>7 DEF Used
  <1>10. TypeOK'
    <2>1. (\A b \in Made : /\ Front[b] \in Slots(b) /\ Tail[b] \in Slots(b)
                           /\ LocalFront[b] \in Slots(b) /\ LocalTail[b] \in Slots(b))'
      BY <1>1, <1>2, <1>4, <1>5
    <2>2. (pro \in {NoCall, [step |-> "full"]} \union [step : ProSteps, block : Made])'
      BY <1>1, <1>2, <1>5 DEF TypeOK
    <2>3. Next' \in [AllBlocks -> Made'] /\ \A b \in Made' : Size'[b] >= 2
      BY <1>1, <1>2, <1>5 DEF TypeOK
    <2>4. got' \in Nat /\ con' \in {NoCall} \union ConCalls
      BY <1>1, <1>2 DEF TypeOK
    <2> QED BY <1>1, <1>2, <1>4, <1>5, <2>1, <2>2, <2>3, <2>4 DEF TypeOK
  <1>11. Unmade'
    BY <1>1, <1>2, <1>4, <1>5 DEF Unmade
  <1>12. Ring'
    <2>1. \A b \in Made : Next[b] \in Made
      BY <1>1
    <2>2. \A b \in Made : First(b)' + CountOf(b)' = First(b) + CountOf(b)
      <3> TAKE b \in Made
      <3>1. CASE b = f
        <4>1. First(f) \in Nat
          BY <1>1, <1>8 DEF TypeOK
        <4> QED BY <1>6, <1>7, <1>8, <3>1, <4>1
      <3>2. CASE b # f
        BY <1>7, <1>8, <3>2
      <3> QED BY <3>1, <3>2
    <2>3. (\A b, c \in Made : Next[b] = Next[c] => b = c)'
      BY <1>1, <1>2, <1>5 DEF Ring
    <2>4. (TailBlock \in Used /\ First(TailBlock) + CountOf(TailBlock) = put)'
      <3>1. (First(TailBlock) + CountOf(TailBlock))' = First(TailBlock)' + CountOf(TailBlock)'
        OBVIOUS
      <3>2. First(TailBlock)' + CountOf(TailBlock)' = First(TailBlock) + CountOf(TailBlock)
        <4>1. PICK t \in Made : t = TailBlock
          BY <1>1
        <4>2. TailBlock' = TailBlock
          BY <1>2
        <4>3. First(TailBlock)' = First(t)' /\ CountOf(TailBlock)' = CountOf(t)'
          BY <4>1, <4>2 DEF First, CountOf, Ahead
        <4> QED BY <2>2, <4>1, <4>3
      <3> QED BY <1>1, <1>2, <1>9, <3>1, <3>2 DEF Ring
    <2>5. (\A b \in Used \ {TailBlock} :
              /\ Next[b] \in Used \ {FrontBlock}
              /\ First(Next[b]) = First(b) + CountOf(b))'
      <3> SUFFICES ASSUME NEW b \in Used, b # TailBlock
                   PROVE  /\ Next'[b] \in Used /\ Next'[b] # FrontBlock'
                          /\ First(Next[b])' = First(b)' + CountOf(b)'
        BY <1>2, <1>9
      <3>1. PICK n \in Made : n = Next[b]
        BY <1>1, <2>1
      <3>2. n \in Used \ {FrontBlock} /\ First(n) = First(b) + CountOf(b)
        BY <1>1, <3>1 DEF Ring
      <3>3. First(n)' = First(n) /\ Next'[b] = n
        BY <1>2, <1>3, <1>8, <3>1, <3>2
      <3>4. First(Next[b])' = First(n)'
        BY <3>3 DEF First
      <3> QED BY <1>1, <1>2, <2>2, <3>2, <3>3, <3>4
    <2>6. (\A b \in (Made \ Used) \union {TailBlock} :
              Next[b] \in Used => Next[b] = FrontBlock)'
      BY <1>1, <1>2, <1>5, <1>9 DEF Ring
    <2> QED BY <2>3, <2>4, <2>5, <2>6 DEF Ring
  <1>13. Content'
    <2>1. ASSUME NEW b \in Made, NEW i \in Indexes PROVE Data'[b][i] = Item(b, i)'
      <3>0. Data[b][i] = Item(b, i) /\ Data' = Data /\ con'.step = "idle"
        BY <1>1, <1>2 DEF Content, NoCall
      <3>1. CASE b # f
        <4>1. Item(b, i)' = Item(b, i)
          <5>1. /\ Front'[b] = Front[b] /\ Size' = Size /\ FrontBlock' = f /\ pro' = pro
                /\ Tail' = Tail /\ put' = put /\ CountOf(b)' = CountOf(b)
                /\ First(b)' = First(b)
            BY <1>1, <1>2, <1>3, <1>4, <1>7, <1>8, <3>1
          <5> QED BY <1>3, <3>1, <5>1 DEF Item, Ahead
        <4> QED BY <3>0, <4>1
      <3>2. CASE b = f /\ i \notin Slots(f)
        <4>1. ~(i < Size[f])
          BY <1>1, <3>2, SizesAssumption DEF Slots, Indexes
        <4>2. Item(b, i)' = Item(b, i)
          BY <1>2, <3>2, <4>1 DEF Item
        <4> QED BY <3>0, <4>2
      <3>3. CASE b = f /\ i \in Slots(f) /\ i = Front[f]
        <4>1. /\ Ahead(f, Front[f], i) = 0
              /\ Ahead(f, After(f, Front[f]), i) = Size[f] - 1
              /\ Tail[f] # i
          BY <1>1, <1>6, <3>3, AheadIsUnique
        <4>2. Item(f, i) = Raw
          BY <1>1, <1>2, <1>3, <1>6, <3>3, <4>1 DEF Item, Slots
        <4>3. Ahead(f, Front[f], i)' = Size[f] - 1
          BY <1>2, <1>4, <4>1 DEF Ahead
        <4>4. ~(Ahead(f, Front[f], i)' < CountOf(f)')
          BY <1>1, <1>6, <1>7, <4>3 DEF Slots
        <4>5. Item(f, i)' = Raw
          BY <1>2, <4>1, <4>4 DEF Item
        <4> QED BY <3>0, <3>3, <4>2, <4>5
      <3>4. CASE b = f /\ i \in Slots(f) /\ i # Front[f]
        <4>1. /\ Ahead(f, After(f, Front[f]), i) = Ahead(f, Front[f], i) - 1
              /\ Ahead(f, Front[f], i) \in Nat
          BY <1>1, <3>4, AheadIsUnique DEF Slots
        <4>2. Ahead(f, Front[f], i)' = Ahead(f, Front[f], i) - 1
          BY <1>2, <1>4, <4>1 DEF Ahead
        <4>3. Ahead(f, Front[f], i)' < CountOf(f)' <=> Ahead(f, Front[f], i) < CountOf(f)
          BY <1>6, <1>7, <4>1, <4>2
        <4>4. First(f)' + Ahead(f, Front[f], i)' = First(f) + Ahead(f, Front[f], i)
          <5>1. First(f) \in Nat
            BY <1>1, <1>8 DEF TypeOK
          <5> QED BY <1>8, <4>1, <4>2, <5>1
        <4>5. Item(f, i)' = Item(f, i)
          BY <1>2, <3>0, <3>4, <4>3, <4>4 DEF Item
        <4> QED BY <3>0, <3>4, <4>5
      <3> QED BY <3>1, <3>2, <3>3, <3>4
    <2>2. ASSUME NEW b \in Made, CountOf(b)' > 0 PROVE First(b)' \in Nat
      <3>1. CASE b = f
        BY <1>1, <1>8, <3>1 DEF TypeOK
      <3>2. CASE b # f
        BY <1>1, <1>7, <1>8, <2>2, <3>2 DEF Content
      <3> QED BY <3>1, <3>2
    <2> QED BY <1>5, <2>1, <2>2 DEF Content
  <1>14. Copies'
    <2>1. ASSUME NEW b \in Made
          PROVE  /\ Ahead(b, Front[b], LocalTail[b])' <= CountOf(b)'
                 /\ CountOf(b)' <= Ahead(b, LocalFront[b], Tail[b])'
      <3>1. /\ Ahead(b, Front[b], LocalTail[b]) <= CountOf(b)
            /\ CountOf(b) <= Ahead(b, LocalFront[b], Tail[b])
            /\ Ahead(b, LocalFront[b], Tail[b])' = Ahead(b, LocalFront[b], Tail[b])
        BY <1>1, <1>2 DEF Copies, Ahead
      <3>2. CASE b # f
        <4>1. Ahead(b, Front[b], LocalTail[b])' = Ahead(b, Front[b], LocalTail[b])
          BY <1>1, <1>2, <1>4, <3>2 DEF Ahead
        <4> QED BY <1>7, <3>1, <3>2, <4>1
      <3>3. CASE b = f
        <4>1. Front[f] # LocalTail[f]
          BY <1>1, <1>2, <1>3 DEF ConsumerOK
        <4>2. Ahead(f, After(f, Front[f]), LocalTail[f])
                 = Ahead(f, Front[f], LocalTail[f]) - 1
          BY <1>1, <4>1, AheadIsUnique
        <4>3. Ahead(f, Front[f], LocalTail[f])'
                 = Ahead(f, After(f, Front[f]), LocalTail[f])
          BY <1>2, <1>4 DEF Ahead
        <4>4. Ahead(f, LocalFront[f], Tail[f]) \in Nat
          BY <1>1, AheadIsUnique DEF Slots
        <4> QED BY <1>6, <1>7, <3>1, <3>3, <4>2, <4>3, <4>4
      <3> QED BY <3>2, <3>3
    <2> QED BY <1>5, <2>1 DEF Copies
  <1>15. ProducerOK'
    <2>1. \A b \in AllBlocks, i \in Indexes : Room(b, i)' <=> Room(b, i)
      BY <1>2 DEF Room, After
    <2>2. pro.step \in ProSteps => pro.block \in Made
      BY <1>1, InCall
    <2>3. pro.step = "tailBlock" => pro.block # f
      BY <1>1, <1>3 DEF ProducerOK
    <2>4. pro.step = "tailBlock" =>
             CountOf(pro.block)' = CountOf(pro.block) /\ First(pro.block)' = First(pro.block)
      <3> SUFFICES ASSUME pro.step = "tailBlock"
                   PROVE  /\ CountOf(pro.block)' = CountOf(pro.block)
                          /\ First(pro.block)' = First(pro.block)
        OBVIOUS
      <3>1. PICK b \in Made : b = pro.block
        BY <2>2 DEF ProSteps
      <3>2. CountOf(b)' = CountOf(b) /\ First(b)' = First(b)
        BY <1>7, <1>8, <2>3, <3>1
      <3>3. CountOf(pro.block)' = CountOf(b)' /\ First(pro.block)' = First(b)'
        BY <1>2, <3>1 DEF CountOf, First, Ahead
      <3> QED BY <3>1, <3>2, <3>3
    <2> QED BY <1>1, <1>2, <1>9, <2>1, <2>2, <2>4 DEF ProducerOK, ProSteps
  <1>16. ConsumerOK'
    BY <1>2 DEF ConsumerOK, NoCall
  <1> QED BY <1>10, <1>11, <1>12, <1>13, <1>14, <1>15, <1>16 DEF IndInv

LEMMA StoreFrontBlockInd == IndInv /\ StoreFrontBlock => IndInv'
  <1> SUFFICES ASSUME IndInv, StoreFrontBlock PROVE IndInv'
    OBVIOUS
  <1> USE BlockTypes
  <1>1. /\ TypeOK /\ Unmade /\ Ring /\ Content /\ Copies /\ ProducerOK /\ ConsumerOK
        /\ TailBlock \in Made /\ FrontBlock \in Made
        /\ Used \subseteq Made
    BY DEF IndInv, TypeOK, Used
  <1>2. /\ con.step = "move"
        /\ FrontBlock' = Next[FrontBlock]
        /\ con' = [con EXCEPT !.step = "take"]
        /\ UNCHANGED <<blocks, BlockSize, TailBlock, Size, Next, Front, Tail, LocalFront,
                       LocalTail, Data, put, got, pro>>
    BY DEF StoreFrontBlock, producerVars
  <1>3. con' \in ConCalls /\ con'.step = "take"
    <2>1. con \in ConCalls /\ "take" \in ConSteps
      BY <1>1, <1>2, InCall DEF ConSteps
    <2> QED BY <1>2, <2>1, ConStep
  <1>4. PICK f \in Made, n \in Made : f = FrontBlock /\ n = Next[f]
    BY <1>1
  <1>5. /\ f # TailBlock /\ CountOf(f) = 0 /\ Front[n] # LocalTail[n]
        /\ FrontBlock' = n
    BY <1>1, <1>2, <1>4 DEF ConsumerOK
  <1>6. f \in Used /\ n \in Used \ {f} /\ First(n) = First(f) + CountOf(f) /\ First(f) = got
    BY <1>1, <1>4, <1>5 DEF Ring, Used, First
  <1>7. First(n) = got
    BY <1>1, <1>5, <1>6 DEF TypeOK
  <1>8. /\ Made' = Made
        /\ \A b \in Made : /\ Slots(b)' = Slots(b) /\ CountOf(b)' = CountOf(b)
                           /\ b # f => First(b)' = First(b)
    <2>1. \A b \in Made : b # f => First(b)' = First(b)
      BY <1>2, <1>4, <1>5, <1>7 DEF First
    <2> QED BY <1>2, <2>1 DEF Made, Slots, CountOf, Ahead
  <1>9. Used' = Used \ {f}
    <2>1. \A b \in Made : b \in Used' <=> b \in Used /\ b # f
      <3> TAKE b \in Made
      <3>1. CASE b = f
        BY <1>4, <1>5, <1>6, <1>8, <3>1 DEF Used
      <3>2. CASE b = n
        BY <1>4, <1>5, <1>6, <1>8, <3>2 DEF Used
      <3>3. CASE b # f /\ b # n
        BY <1>2, <1>4, <1>5, <1>8, <3>3 DEF Used
      <3> QED BY <3>1, <3>2, <3>3
    <2>2. Used' \subseteq Made
      BY <1>8 DEF Used
    <2> QED BY <1>1, <2>1, <2>2
  <1>10. TypeOK'
    <2>1. (\A b \in Made : /\ Front[b] \in Slots(b) /\ Tail[b] \in Slots(b)
                           /\ LocalFront[b] \in Slots(b) /\ LocalTail[b] \in Slots(b))'
      BY <1>1, <1>2, <1>8
    <2>2. (pro \in {NoCall, [step |-> "full"]} \union [step : ProSteps, block : Made])'
      BY <1>1, <1>2, <1>8 DEF TypeOK
    <2>3. Next' \in [AllBlocks -> Made'] /\ \A b \in Made' : Size'[b] >= 2
      BY <1>1, <1>2, <1>8 DEF TypeOK
    <2>4. FrontBlock' \in Made' /\ TailBlock' \in Made'
      BY <1>1, <1>2, <1>5, <1>8
    <2> QED BY <1>1, <1>2, <1>3, <1>8, <2>1, <2>2, <2>3, <2>4 DEF TypeOK
  <1>11. Unmade'
    BY <1>1, <1>2, <1>8 DEF Unmade
  <1>12. Ring'
    <2>1. (\A b, c \in Made : Next[b] = Next[c] => b = c)'
      BY <1>1, <1>2, <1>8 DEF Ring
    <2>2. (TailBlock \in Used /\ First(TailBlock) + CountOf(TailBlock) = put)'
      <3>1. PICK t \in Made : t = TailBlock
        BY <1>1
      <3>2. t \in Used /\ t # f /\ First(t) + CountOf(t) = put
        BY <1>1, <1>5, <3>1 DEF Ring
      <3>3. First(TailBlock)' = First(t)' /\ CountOf(TailBlock)' = CountOf(t)'
        BY <1>2, <3>1 DEF First, CountOf, Ahead
      <3> QED BY <1>2, <1>8, <1>9, <3>1, <3>2, <3>3
    <2>3. (\A b \in Used \ {TailBlock} :
              /\ Next[b] \in Used \ {FrontBlock}
              /\ First(Next[b]) = First(b) + CountOf(b))'
      <3> SUFFICES ASSUME NEW b \in Used, b # f, b # TailBlock
                   PROVE  /\ Next'[b] \in Used' /\ Next'[b] # FrontBlock'
                          /\ First(Next[b])' = First(b)' + CountOf(b)'
        BY <1>2, <1>9
      <3>1. PICK m \in Made : m = Next[b]
        BY <1>1
      <3>2. m \in Used \ {f} /\ First(m) = First(b) + CountOf(b)
        BY <1>1, <1>4, <3>1 DEF Ring
      <3>3. m # n
        BY <1>1, <1>4, <3>1 DEF Ring
      <3>4. First(Next[b])' = First(m)'
        BY <1>2, <3>1 DEF First
      <3> QED BY <1>1, <1>2, <1>5, <1>8, <1>9, <3>1, <3>2, <3>3, <3>4
    <2>4. (\A b \in (Made \ Used) \union {TailBlock} :
              Next[b] \in Used => Next[b] = FrontBlock)'
      <3> SUFFICES ASSUME NEW b \in Made, b \notin Used' \/ b = TailBlock, Next[b] \in Used'
                   PROVE  Next[b] = n
        BY <1>1, <1>2, <1>5, <1>8
      <3>1. CASE b = f
        BY <1>4, <3>1
      <3>2. CASE b # f
        <4>1. b \in (Made \ Used) \union {TailBlock}
          BY <1>9, <3>2
        <4>2. Next[b] = f
          BY <1>1, <1>4, <1>9, <4>1 DEF Ring
        <4> QED BY <1>9, <4>2
      <3> QED BY <3>1, <3>2
    <2> QED BY <2>1, <2>2, <2>3, <2>4 DEF Ring
  <1>13. Content'
    <2>1. ASSUME NEW b \in Made, NEW i \in Indexes PROVE Data'[b][i] = Item(b, i)'
      <3>1. Data[b][i] = Item(b, i) /\ con'.step # "front" /\ con.step # "front"
        BY <1>1, <1>2, <1>3 DEF Content
      <3>2. CASE b = f
        <4>1. /\ CountOf(b) = 0 /\ CountOf(b)' = 0
              /\ Front[b] \in Slots(b) /\ Size[b] \in Nat /\ i \in Nat
          BY <1>1, <1>5, <1>8, <3>2, SizesAssumption DEF Indexes
        <4>2. i < Size[b] => ~(Ahead(b, Front[b], i) < CountOf(b))
          BY <4>1 DEF Ahead, Slots
        <4>3. Ahead(b, Front[b], i)' = Ahead(b, Front[b], i) /\ Size' = Size
          BY <1>2 DEF Ahead
        <4>4. Item(b, i)' = Item(b, i)
          BY <1>2, <4>1, <4>2, <4>3 DEF Item
        <4> QED BY <1>2, <3>1, <4>4
      <3>3. CASE b # f
        <4>1. Item(b, i)' = Item(b, i)
          BY <1>2, <1>8, <3>1, <3>3 DEF Item, Ahead
        <4> QED BY <1>2, <3>1, <4>1
      <3> QED BY <3>2, <3>3
    <2>2. ASSUME NEW b \in Made, CountOf(b)' > 0 PROVE First(b)' \in Nat
      BY <1>1, <1>5, <1>8, <2>2 DEF Content
    <2> QED BY <1>8, <2>1, <2>2 DEF Content
  <1>14. Copies'
    BY <1>1, <1>2, <1>8 DEF Copies, Ahead
  <1>15. ProducerOK'
    <2>1. \A b \in AllBlocks, i \in Indexes : Room(b, i)' <=> Room(b, i)
      BY <1>2 DEF Room, After
    <2>2. pro.step \in ProSteps => pro.block \in Made
      BY <1>1, InCall
    <2>3. pro.step = "tailBlock" => /\ pro.block # n /\ CountOf(pro.block)' = 1
                                    /\ First(pro.block)' = put
      <3> SUFFICES ASSUME pro.step = "tailBlock"
                   PROVE  /\ pro.block # n /\ CountOf(pro.block)' = 1
                          /\ First(pro.block)' = put
        OBVIOUS
      <3>1. PICK b \in Made : b = pro.block
        BY <2>2 DEF ProSteps
      <3>2. b # f /\ b # n /\ CountOf(b) = 1 /\ First(b) = put
        BY <1>1, <1>4, <1>6, <3>1 DEF ProducerOK, Used
      <3>3. CountOf(pro.block)' = CountOf(b)' /\ First(pro.block)' = First(b)'
        BY <1>2, <3>1 DEF CountOf, First, Ahead
      <3> QED BY <1>8, <3>1, <3>2, <3>3
    <2> QED BY <1>1, <1>2, <1>5, <1>9, <2>1, <2>2, <2>3 DEF ProducerOK, ProSteps
  <1>16. ConsumerOK'
    BY <1>2, <1>3, <1>5 DEF ConsumerOK
  <1> QED BY <1>10, <1>11, <1>12, <1>13, <1>14, <1>15, <1>16 DEF IndInv

-----------------------------------------------------------------------------
(* The producer puts an item in *)

LEMMA ConstructInd == IndInv /\ Construct => IndInv'
  <1> SUFFICES ASSUME IndInv, Construct PROVE IndInv'
    OBVIOUS
  <1> USE BlockTypes
  <1>1. /\ TypeOK /\ Unmade /\ Ring /\ Content /\ Copies /\ ProducerOK /\ ConsumerOK
        /\ TailBlock \in Made /\ FrontBlock \in Made
        /\ Used \subseteq Made
    BY DEF IndInv, TypeOK, Used
  <1>2. /\ pro.step = "construct"
        /\ Data' = [Data EXCEPT ![pro.block][Tail[pro.block]] = put]
        /\ pro' = [pro EXCEPT !.step = "tail"]
        /\ UNCHANGED <<blocks, BlockSize, FrontBlock, TailBlock, Size, Next, Front, Tail,
                       LocalFront, LocalTail, put, got, con>>
    BY DEF Construct, consumerVars
  <1>3. /\ pro \in [step : ProSteps, block : Made]
        /\ pro' \in [step : ProSteps, block : Made]
        /\ pro'.step = "tail" /\ pro'.block = pro.block
    <2>1. pro \in [step : ProSteps, block : Made] /\ "tail" \in ProSteps
      BY <1>1, <1>2, InCall DEF ProSteps
    <2> QED BY <1>2, <2>1, ProStep
  <1>4. PICK p \in Made : p = pro.block
    BY <1>3
  <1>5. /\ p = TailBlock \/ (p = Next[TailBlock] /\ p \notin Used)
        /\ Room(p, LocalFront[p])
    BY <1>1, <1>2, <1>4 DEF ProducerOK
  <1>6. /\ Data' \in [AllBlocks -> [Indexes -> Nat \union {Raw}]]
        /\ \A b \in AllBlocks, i \in Indexes :
              Data'[b][i] = IF b = p /\ i = Tail[b] THEN put ELSE Data[b][i]
    <2>1. Data \in [AllBlocks -> [Indexes -> Nat \union {Raw}]] /\ put \in Nat
      BY <1>1 DEF TypeOK
    <2>2. p \in AllBlocks /\ Tail[p] \in Indexes
      BY <1>1
    <2> QED BY <1>2, <1>4, <2>1, <2>2
  <1>7. /\ Made' = Made
        /\ \A b \in Made : CountOf(b)' = CountOf(b) /\ Slots(b)' = Slots(b)
    BY <1>2 DEF Made, CountOf, Ahead, Slots
  <1>8. Used' = Used
    BY <1>2, <1>3, <1>7 DEF Used
  <1>9. \A b \in Made : b \in Used \/ CountOf(b) > 0 \/ b # p => First(b)' = First(b)
    <2> SUFFICES ASSUME NEW b \in Made, b \in Used \/ CountOf(b) > 0 \/ b # p
                 PROVE  First(b)' = First(b)
      OBVIOUS
    <2>1. CASE b = FrontBlock
      BY <1>2, <2>1 DEF First
    <2>2. CASE b # FrontBlock
      <3>1. b # p \/ CountOf(b) > 0
        BY <2>2 DEF Used
      <3>2. b \in AllBlocks /\ Front[b] \in Indexes /\ (b # p \/ Front[b] # Tail[b])
        BY <1>1, <3>1
      <3>3. Data'[b][Front[b]] = Data[b][Front[b]]
        BY <1>6, <3>2
      <3> QED BY <1>2, <3>3 DEF First
    <2> QED BY <2>1, <2>2
  <1>10. TypeOK'
    <2>1. (\A b \in Made : /\ Front[b] \in Slots(b) /\ Tail[b] \in Slots(b)
                           /\ LocalFront[b] \in Slots(b) /\ LocalTail[b] \in Slots(b))'
      BY <1>1, <1>2, <1>7
    <2>2. pro' \in [step : ProSteps, block : Made']
      BY <1>3, <1>7
    <2>3. Next' \in [AllBlocks -> Made'] /\ \A b \in Made' : Size'[b] >= 2
      BY <1>1, <1>2, <1>7 DEF TypeOK
    <2>4. con' \in {NoCall} \union ConCalls
      BY <1>1, <1>2 DEF TypeOK
    <2> QED BY <1>1, <1>2, <1>6, <1>7, <2>1, <2>2, <2>3, <2>4 DEF TypeOK
  <1>11. Unmade'
    BY <1>1, <1>2, <1>6, <1>7 DEF Unmade
  <1>12. Ring'
    <2>1. \A b \in Used : First(b)' = First(b) /\ CountOf(b)' = CountOf(b)
      BY <1>1, <1>7, <1>9
    <2>2. (\A b, c \in Made : Next[b] = Next[c] => b = c)'
      BY <1>1, <1>2, <1>7 DEF Ring
    <2>3. (TailBlock \in Used /\ First(TailBlock) + CountOf(TailBlock) = put)'
      <3>1. PICK t \in Used : t = TailBlock
        BY <1>1 DEF Ring
      <3>2. First(TailBlock)' = First(t)' /\ CountOf(TailBlock)' = CountOf(t)'
        BY <1>2, <3>1 DEF First, CountOf, Ahead
      <3>3. First(t) + CountOf(t) = put
        BY <1>1, <3>1 DEF Ring
      <3> QED BY <1>2, <1>8, <2>1, <3>1, <3>2, <3>3
    <2>4. (\A b \in Used \ {TailBlock} :
              /\ Next[b] \in Used \ {FrontBlock}
              /\ First(Next[b]) = First(b) + CountOf(b))'
      <3> SUFFICES ASSUME NEW b \in Used, b # TailBlock
                   PROVE  /\ Next'[b] \in Used /\ Next'[b] # FrontBlock'
                          /\ First(Next[b])' = First(b)' + CountOf(b)'
        BY <1>2, <1>8
      <3>1. PICK m \in Used : m = Next[b] /\ m # FrontBlock /\ First(m) = First(b) + CountOf(b)
        BY <1>1 DEF Ring
      <3>2. First(Next[b])' = First(m)'
        BY <1>2, <3>1 DEF First
      <3> QED BY <1>2, <2>1, <3>1, <3>2
    <2>5. (\A b \in (Made \ Used) \union {TailBlock} :
              Next[b] \in Used => Next[b] = FrontBlock)'
      BY <1>1, <1>2, <1>7, <1>8 DEF Ring
    <2> QED BY <2>2, <2>3, <2>4, <2>5 DEF Ring
  <1>13. Content'
    <2>1. ASSUME NEW b \in Made, NEW i \in Indexes PROVE Data'[b][i] = Item(b, i)'
      <3>1. Data[b][i] = Item(b, i) /\ pro'.step = "tail" /\ pro'.block = p
        BY <1>1, <1>2, <1>3, <1>4 DEF Content
      <3>2. Ahead(b, Front[b], i)' = Ahead(b, Front[b], i) /\ Size' = Size /\ b \in AllBlocks
        BY <1>1, <1>2 DEF Ahead
      <3>3. CASE b = p /\ i = Tail[b]
        <4>1. ~(Ahead(b, Front[b], i) < CountOf(b))
          BY <1>1, <3>3 DEF CountOf, Slots
        <4>2. Item(b, i)' = put
          BY <1>2, <1>7, <3>1, <3>2, <3>3, <4>1 DEF Item
        <4> QED BY <1>6, <3>2, <3>3, <4>2
      <3>4. CASE ~(b = p /\ i = Tail[b]) /\ i < Size[b] /\ Ahead(b, Front[b], i) < CountOf(b)
        <4>1. CountOf(b) > 0
          <5>1. i \in Slots(b)
            BY <1>1, <3>4, SizesAssumption DEF Indexes, Slots
          <5>2. Ahead(b, Front[b], i) \in Nat
            BY <1>1, <5>1, AheadIsUnique DEF Slots
          <5> QED BY <1>1, <3>4, <5>2 DEF Slots
        <4>2. First(b)' = First(b)
          BY <1>9, <4>1
        <4>3. Item(b, i)' = Item(b, i)
          BY <1>2, <1>7, <3>2, <3>4, <4>2 DEF Item
        <4> QED BY <1>6, <3>1, <3>2, <3>4, <4>3
      <3>5. CASE /\ ~(b = p /\ i = Tail[b])
                 /\ ~(i < Size[b] /\ Ahead(b, Front[b], i) < CountOf(b))
        <4>1. Item(b, i)' = Raw /\ Item(b, i) = Raw
          BY <1>2, <1>7, <3>1, <3>2, <3>5 DEF Item
        <4> QED BY <1>6, <3>1, <3>2, <3>5, <4>1
      <3> QED BY <3>3, <3>4, <3>5
    <2>2. ASSUME NEW b \in Made, CountOf(b)' > 0 PROVE First(b)' \in Nat
      BY <1>1, <1>7, <1>9, <2>2 DEF Content
    <2> QED BY <1>7, <2>1, <2>2 DEF Content
  <1>14. Copies'
    BY <1>1, <1>2, <1>7 DEF Copies, Ahead
  <1>15. ProducerOK'
    <2>1. Room(p, LocalFront[p])'
      BY <1>2, <1>5 DEF Room, After
    <2>2. pro'.step = "tail" /\ pro'.block = p
      BY <1>3, <1>4
    <2>3. Room(pro.block, LocalFront[pro.block])'
      BY <2>1, <2>2 DEF Room, After
    <2> QED BY <1>2, <1>5, <1>8, <2>2, <2>3 DEF ProducerOK
  <1>16. ConsumerOK'
    BY <1>1, <1>2, <1>7 DEF ConsumerOK
  <1> QED BY <1>10, <1>11, <1>12, <1>13, <1>14, <1>15, <1>16 DEF IndInv

LEMMA StoreTailInd == IndInv /\ StoreTail => IndInv'
  <1> SUFFICES ASSUME IndInv, StoreTail PROVE IndInv'
    OBVIOUS
  <1> USE BlockTypes
  <1>1. /\ TypeOK /\ Unmade /\ Ring /\ Content /\ Copies /\ ProducerOK /\ ConsumerOK
        /\ TailBlock \in Made /\ FrontBlock \in Made
        /\ Used \subseteq Made /\ put \in Nat
    BY DEF IndInv, TypeOK, Used
  <1>2. PICK p \in Made : p = pro.block
    BY <1>1, InCall DEF StoreTail, ProSteps
  <1>3. /\ pro.step = "tail"
        /\ Tail' = [Tail EXCEPT ![p] = After(p, Tail[p])]
        /\ IF p = TailBlock
           THEN put' = put + 1 /\ pro' = NoCall
           ELSE pro' = [pro EXCEPT !.step = "tailBlock"] /\ put' = put
        /\ UNCHANGED <<blocks, BlockSize, FrontBlock, TailBlock, Size, Next, Front,
                       LocalFront, LocalTail, Data, got, con>>
    BY <1>2 DEF StoreTail, consumerVars
  <1>4. /\ p = TailBlock \/ (p = Next[TailBlock] /\ p \notin Used)
        /\ Room(p, LocalFront[p])
    BY <1>1, <1>2, <1>3 DEF ProducerOK
  <1>5. p # TailBlock => /\ pro' \in [step : ProSteps, block : Made]
                         /\ pro'.step = "tailBlock" /\ pro'.block = p
    <2>1. pro \in [step : ProSteps, block : Made] /\ "tailBlock" \in ProSteps
      BY <1>1, <1>3, InCall DEF ProSteps
    <2> QED BY <1>2, <1>3, <2>1, ProStep
  <1>6. p = TailBlock => pro' = NoCall /\ pro'.step = "idle"
    BY <1>3 DEF NoCall
  <1>7. /\ Tail' \in [AllBlocks -> Indexes]
        /\ Tail'[p] = After(p, Tail[p]) /\ Tail'[p] \in Slots(p)
        /\ \A b \in AllBlocks : b # p => Tail'[b] = Tail[b]
    <2>1. Tail \in [AllBlocks -> Indexes]
      BY <1>1 DEF TypeOK
    <2>2. p \in AllBlocks /\ After(p, Tail[p]) \in Slots(p) /\ Slots(p) \subseteq Indexes
      BY <1>1, AfterSlot
    <2> QED BY <1>3, <2>1, <2>2
  <1>8. Made' = Made /\ \A b \in Made : Slots(b)' = Slots(b) /\ First(b)' = First(b)
    BY <1>3 DEF Made, Slots, First
  \* There is room, by the copy and so by Front.
  <1>9. /\ After(p, Tail[p]) # LocalFront[p] /\ After(p, Tail[p]) # Front[p]
        /\ Ahead(p, LocalFront[p], After(p, Tail[p]))
              = Ahead(p, LocalFront[p], Tail[p]) + 1
    <2>1. After(p, Tail[p]) # LocalFront[p]
      BY <1>4 DEF Room
    <2>2. /\ Ahead(p, LocalFront[p], After(p, Tail[p]))
                = Ahead(p, LocalFront[p], Tail[p]) + 1
          /\ Ahead(p, LocalFront[p], After(p, Tail[p])) \in Slots(p)
      BY <1>1, <1>7, <2>1, AheadIsUnique
    <2>3. CountOf(p) <= Ahead(p, LocalFront[p], Tail[p])
      BY <1>1 DEF Copies
    <2>4. After(p, Tail[p]) = Front[p] => CountOf(p) = Size[p] - 1
      BY <1>1, AheadIsUnique DEF CountOf
    <2>5. Ahead(p, LocalFront[p], Tail[p]) \in Nat
      BY <1>1, AheadIsUnique DEF Slots
    <2> QED BY <1>1, <2>1, <2>2, <2>3, <2>4, <2>5 DEF Slots
  <1>10. /\ CountOf(p)' = CountOf(p) + 1
         /\ \A b \in Made : b # p => CountOf(b)' = CountOf(b)
    <2>1. CountOf(p)' = Ahead(p, Front[p], After(p, Tail[p]))
      BY <1>3, <1>7 DEF CountOf, Ahead
    <2>2. Ahead(p, Front[p], After(p, Tail[p])) = CountOf(p) + 1
      BY <1>1, <1>9, AheadIsUnique DEF CountOf
    <2>3. \A b \in Made : b # p => CountOf(b)' = CountOf(b)
      BY <1>1, <1>3, <1>7 DEF CountOf, Ahead
    <2> QED BY <2>1, <2>2, <2>3
  <1>11. Used' = Used
    <2>1. CASE p = TailBlock
      <3>1. p \in Used
        BY <1>1, <2>1 DEF Ring
      <3>2. \A b \in Made : b \in Used' <=> b \in Used
        <4> TAKE b \in Made
        <4>1. CASE b = p
          <5>1. CountOf(b)' > 0
            BY <1>1, <1>10, <4>1 DEF Slots
          <5> QED BY <1>6, <1>8, <2>1, <3>1, <4>1, <5>1 DEF Used
        <4>2. CASE b # p
          BY <1>3, <1>6, <1>8, <1>10, <2>1, <4>2 DEF Used
        <4> QED BY <4>1, <4>2
      <3>3. Used' \subseteq Made
        BY <1>8 DEF Used
      <3> QED BY <1>1, <3>2, <3>3
    <2>2. CASE p # TailBlock
      <3>1. p \notin Used /\ p # FrontBlock
        BY <1>4, <2>2 DEF Used
      <3>2. \A b \in Made : b \in Used' <=> b \in Used
        BY <1>3, <1>5, <1>8, <1>10, <2>2, <3>1 DEF Used
      <3>3. Used' \subseteq Made
        BY <1>8 DEF Used
      <3> QED BY <1>1, <3>2, <3>3
    <2> QED BY <2>1, <2>2
  \* The item's number is the next of its block.
  <1>12. /\ p = TailBlock => First(p) + CountOf(p) = put
         /\ p # TailBlock => First(p) = put /\ CountOf(p) = 0 /\ p # FrontBlock
    <2>1. p = TailBlock => First(p) + CountOf(p) = put
      BY <1>1 DEF Ring
    <2>2. ASSUME p # TailBlock PROVE First(p) = put /\ CountOf(p) = 0 /\ p # FrontBlock
      <3>1. p \notin Used
        BY <1>4, <2>2
      <3>2. p # FrontBlock /\ ~(CountOf(p) > 0)
        BY <1>3, <3>1 DEF Used
      <3>3. CountOf(p) = 0 /\ Front[p] = Tail[p] /\ Front[p] \in Indexes
        BY <1>1, <3>2 DEF Slots
      <3>4. Data[p][Front[p]] = Item(p, Front[p])
        BY <1>1, <3>3 DEF Content
      <3>5. ~(Ahead(p, Front[p], Front[p]) < CountOf(p))
        BY <1>1, <3>3, AheadIsUnique
      <3>6. Item(p, Front[p]) = put
        BY <1>2, <1>3, <3>3, <3>5 DEF Item
      <3> QED BY <3>2, <3>3, <3>4, <3>6 DEF First
    <2> QED BY <2>1, <2>2
  <1>13. TypeOK'
    <2>1. (\A b \in Made : /\ Front[b] \in Slots(b) /\ Tail[b] \in Slots(b)
                           /\ LocalFront[b] \in Slots(b) /\ LocalTail[b] \in Slots(b))'
      BY <1>1, <1>3, <1>7, <1>8
    <2>2. pro' \in {NoCall} \union [step : ProSteps, block : Made']
      BY <1>5, <1>6, <1>8
    <2>3. Next' \in [AllBlocks -> Made'] /\ \A b \in Made' : Size'[b] >= 2
      BY <1>1, <1>3, <1>8 DEF TypeOK
    <2>4. con' \in {NoCall} \union ConCalls /\ put' \in Nat
      BY <1>1, <1>3 DEF TypeOK
    <2> QED BY <1>1, <1>3, <1>7, <1>8, <2>1, <2>2, <2>3, <2>4 DEF TypeOK
  <1>14. Unmade'
    BY <1>1, <1>3, <1>7, <1>8 DEF Unmade
  <1>15. Ring'
    <2>1. \A b \in Used : b # TailBlock => b # p
      BY <1>4
    <2>2. (\A b, c \in Made : Next[b] = Next[c] => b = c)'
      BY <1>1, <1>3, <1>8 DEF Ring
    <2>3. (TailBlock \in Used /\ First(TailBlock) + CountOf(TailBlock) = put)'
      <3>1. PICK t \in Used : t = TailBlock /\ First(t) + CountOf(t) = put
        BY <1>1 DEF Ring
      <3>2. First(TailBlock)' = First(t)' /\ CountOf(TailBlock)' = CountOf(t)'
        BY <1>3, <3>1 DEF First, CountOf, Ahead
      <3>3. t \in Made /\ First(t)' = First(t)
        BY <1>1, <1>8
      <3>4. CASE p = t
        <4>1. First(p) \in Nat
          <5>1. p = FrontBlock \/ CountOf(p) > 0
            BY <3>1, <3>4 DEF Used
          <5> QED BY <1>1, <5>1 DEF First, Content, TypeOK
        <4>2. First(t)' + CountOf(t)' = put + 1 /\ put' = put + 1
          BY <1>1, <1>3, <1>10, <3>1, <3>3, <3>4, <4>1 DEF Slots
        <4> QED BY <1>3, <1>11, <3>1, <3>2, <4>2
      <3>5. CASE p # t
        <4>1. CountOf(t)' = CountOf(t) /\ put' = put
          BY <1>3, <1>10, <3>1, <3>3, <3>5
        <4> QED BY <1>3, <1>11, <3>1, <3>2, <3>3, <4>1
      <3> QED BY <3>4, <3>5
    <2>4. (\A b \in Used \ {TailBlock} :
              /\ Next[b] \in Used \ {FrontBlock}
              /\ First(Next[b]) = First(b) + CountOf(b))'
      <3> SUFFICES ASSUME NEW b \in Used, b # TailBlock
                   PROVE  /\ Next'[b] \in Used /\ Next'[b] # FrontBlock'
                          /\ First(Next[b])' = First(b)' + CountOf(b)'
        BY <1>3, <1>11
      <3>1. PICK m \in Used : m = Next[b] /\ m # FrontBlock /\ First(m) = First(b) + CountOf(b)
        BY <1>1 DEF Ring
      <3>2. First(Next[b])' = First(m)'
        BY <1>3, <3>1 DEF First
      <3>3. First(m)' = First(m) /\ First(b)' = First(b) /\ CountOf(b)' = CountOf(b)
        BY <1>1, <1>8, <1>10, <2>1
      <3> QED BY <1>3, <3>1, <3>2, <3>3
    <2>5. (\A b \in (Made \ Used) \union {TailBlock} :
              Next[b] \in Used => Next[b] = FrontBlock)'
      BY <1>1, <1>3, <1>8, <1>11 DEF Ring
    <2> QED BY <2>2, <2>3, <2>4, <2>5 DEF Ring
  <1>16. Content'
    <2>1. ASSUME NEW b \in Made, NEW i \in Indexes PROVE Data'[b][i] = Item(b, i)'
      <3>1. Data'[b][i] = Item(b, i) /\ pro'.step # "tail"
        BY <1>1, <1>3, <1>5, <1>6 DEF Content
      <3>2. Ahead(b, Front[b], i)' = Ahead(b, Front[b], i) /\ Size' = Size /\ b \in AllBlocks
        BY <1>1, <1>3 DEF Ahead
      <3>3. CASE b # p
        <4>1. Item(b, i)' = Item(b, i)
          BY <1>2, <1>3, <1>8, <1>10, <3>1, <3>2, <3>3 DEF Item
        <4> QED BY <3>1, <4>1
      <3>4. CASE b = p /\ i = Tail[p]
        <4>1. Ahead(b, Front[b], i) = CountOf(b) /\ i < Size[b] /\ CountOf(p) \in Nat
          BY <1>1, <3>4 DEF CountOf, Slots
        <4>2. ~(b = FrontBlock /\ i = Front[b] /\ con.step = "front")
          <5> SUFFICES ASSUME b = FrontBlock, i = Front[b], con.step = "front" PROVE FALSE
            OBVIOUS
          <5>1. Front[b] # LocalTail[b] /\ CountOf(b) = 0
            BY <1>1, <3>4 DEF ConsumerOK
          <5>2. Ahead(b, Front[b], LocalTail[b]) \in Nat \ {0}
            BY <1>1, <5>1, AheadIsUnique DEF Slots
          <5>3. Ahead(b, Front[b], LocalTail[b]) <= CountOf(b)
            BY <1>1 DEF Copies
          <5> QED BY <5>1, <5>2, <5>3
        <4>3. First(p) + CountOf(p) = put
          BY <1>1, <1>12
        <4>4. Item(b, i)' = put
          BY <1>3, <1>8, <1>10, <3>2, <3>4, <4>1, <4>2, <4>3 DEF Item
        <4>5. Item(b, i) = put
          BY <1>2, <1>3, <3>4, <4>1 DEF Item
        <4> QED BY <3>1, <4>4, <4>5
      <3>5. CASE b = p /\ i # Tail[p]
        <4>1. i < Size[b] => (Ahead(b, Front[b], i) < CountOf(b) + 1
                                 <=> Ahead(b, Front[b], i) < CountOf(b))
          <5> SUFFICES ASSUME i < Size[b] PROVE Ahead(b, Front[b], i) < CountOf(b) + 1
                                                   <=> Ahead(b, Front[b], i) < CountOf(b)
            OBVIOUS
          <5>1. i \in Slots(b)
            BY <1>1, SizesAssumption DEF Indexes, Slots
          <5>2. Ahead(b, Front[b], i) \in Nat /\ Ahead(b, Front[b], i) # CountOf(b)
            <6>1. Front[b] \in Slots(b) /\ Tail[b] \in Slots(b)
              BY <1>1
            <6>2. /\ Ahead(b, Front[b], i) \in Slots(b)
                  /\ Ahead(b, Front[b], i) = Ahead(b, Front[b], Tail[b]) => i = Tail[b]
              <7>1. TypeOK /\ \A j, k \in Slots(b) :
                        /\ Ahead(b, Front[b], j) \in Slots(b)
                        /\ Ahead(b, Front[b], j) = Ahead(b, Front[b], k) => j = k
                BY <1>1, <6>1, AheadIsUnique
              <7> QED BY <5>1, <6>1, <7>1
            <6> QED BY <1>1, <3>5, <6>2 DEF Slots, CountOf
          <5> QED BY <1>1, <5>2 DEF Slots
        <4>2. Item(b, i)' = Item(b, i)
          BY <1>3, <1>8, <1>10, <3>1, <3>2, <3>5, <4>1 DEF Item
        <4> QED BY <3>1, <4>2
      <3> QED BY <3>3, <3>4, <3>5
    <2>2. ASSUME NEW b \in Made, CountOf(b)' > 0 PROVE First(b)' \in Nat
      <3>1. CASE b # p \/ p = FrontBlock
        BY <1>1, <1>8, <1>10, <2>2, <3>1 DEF Content, First, TypeOK
      <3>2. CASE b = p /\ p # TailBlock
        BY <1>1, <1>8, <1>12, <3>2
      <3>3. CASE b = p /\ p = TailBlock /\ p # FrontBlock
        <4>1. CountOf(p) > 0
          BY <1>1, <3>3 DEF Ring, Used
        <4> QED BY <1>1, <1>8, <3>3, <4>1 DEF Content
      <3> QED BY <3>1, <3>2, <3>3
    <2> QED BY <1>8, <2>1, <2>2 DEF Content
  <1>17. Copies'
    <2>1. ASSUME NEW b \in Made
          PROVE  /\ Ahead(b, Front[b], LocalTail[b])' <= CountOf(b)'
                 /\ CountOf(b)' <= Ahead(b, LocalFront[b], Tail[b])'
      <3>1. /\ Ahead(b, Front[b], LocalTail[b]) <= CountOf(b)
            /\ CountOf(b) <= Ahead(b, LocalFront[b], Tail[b])
            /\ Ahead(b, Front[b], LocalTail[b])' = Ahead(b, Front[b], LocalTail[b])
            /\ Ahead(b, Front[b], LocalTail[b]) \in Nat
            /\ Ahead(b, LocalFront[b], Tail[b]) \in Nat
        <4>1. /\ Ahead(b, Front[b], LocalTail[b]) \in Slots(b)
              /\ Ahead(b, LocalFront[b], Tail[b]) \in Slots(b)
          BY <1>1, AheadIsUnique
        <4>2. Ahead(b, Front[b], LocalTail[b])' = Ahead(b, Front[b], LocalTail[b])
          BY <1>3 DEF Ahead
        <4> QED BY <1>1, <4>1, <4>2 DEF Copies, Slots
      <3>2. CASE b # p
        <4>1. Ahead(b, LocalFront[b], Tail[b])' = Ahead(b, LocalFront[b], Tail[b])
          BY <1>1, <1>3, <1>7, <3>2 DEF Ahead
        <4> QED BY <1>10, <3>1, <3>2, <4>1
      <3>3. CASE b = p
        <4>1. Ahead(p, LocalFront[p], Tail[p])'
                 = Ahead(p, LocalFront[p], After(p, Tail[p]))
          BY <1>3, <1>7 DEF Ahead
        <4>2. CountOf(p) \in Nat
          BY <1>1 DEF Slots
        <4> QED BY <1>9, <1>10, <3>1, <3>3, <4>1, <4>2
      <3> QED BY <3>2, <3>3
    <2> QED BY <1>8, <2>1 DEF Copies
  <1>18. ProducerOK'
    <2>1. CASE p = TailBlock
      BY <1>6, <2>1 DEF ProducerOK
    <2>2. CASE p # TailBlock
      <3>1. p = Next[TailBlock] /\ p # FrontBlock /\ CountOf(p)' = 1 /\ First(p)' = put
        BY <1>4, <1>8, <1>10, <1>12, <2>2
      <3>2. pro'.step = "tailBlock" /\ pro'.block = p
        BY <1>5, <2>2
      <3>3. CountOf(pro.block)' = CountOf(p)' /\ First(pro.block)' = First(p)'
        BY <3>2 DEF CountOf, First, Ahead
      <3>4. put' = put
        BY <1>3, <2>2
      <3> QED BY <1>3, <3>1, <3>2, <3>3, <3>4 DEF ProducerOK
    <2> QED BY <2>1, <2>2
  <1>19. ConsumerOK'
    <2>1. PICK f \in Made : f = FrontBlock
      BY <1>1
    <2>2. CountOf(FrontBlock)' = CountOf(f)'
      BY <1>3, <2>1 DEF CountOf, Ahead
    <2>3. CountOf(f) > 0 => CountOf(f)' > 0
      BY <1>1, <1>10 DEF Slots
    <2>4. f # TailBlock => f # p
      BY <1>4, <2>1 DEF Used
    <2>5. f # TailBlock => CountOf(f)' = CountOf(f)
      BY <1>10, <2>4
    <2> QED BY <1>1, <1>3, <2>1, <2>2, <2>3, <2>5 DEF ConsumerOK
  <1> QED BY <1>13, <1>14, <1>15, <1>16, <1>17, <1>18, <1>19 DEF IndInv

LEMMA StoreTailBlockInd == IndInv /\ StoreTailBlock => IndInv'
  <1> SUFFICES ASSUME IndInv, StoreTailBlock PROVE IndInv'
    OBVIOUS
  <1> USE BlockTypes
  <1>1. /\ TypeOK /\ Unmade /\ Ring /\ Content /\ Copies /\ ProducerOK /\ ConsumerOK
        /\ TailBlock \in Made /\ FrontBlock \in Made
        /\ Used \subseteq Made /\ put \in Nat
    BY DEF IndInv, TypeOK, Used
  <1>2. PICK p \in Made : p = pro.block
    BY <1>1, InCall DEF StoreTailBlock, ProSteps
  <1>3. /\ pro.step = "tailBlock"
        /\ TailBlock' = p /\ put' = put + 1 /\ pro' = NoCall
        /\ UNCHANGED <<blocks, BlockSize, FrontBlock, Size, Next, Front, Tail,
                       LocalFront, LocalTail, Data, got, con>>
    BY <1>2 DEF StoreTailBlock, consumerVars
  <1>4. /\ p = Next[TailBlock] /\ p # FrontBlock
        /\ CountOf(p) = 1 /\ First(p) = put
    BY <1>1, <1>2, <1>3 DEF ProducerOK
  <1>5. p \notin Used /\ TailBlock \in Used /\ TailBlock # p
    BY <1>1, <1>2, <1>3, <1>4 DEF Used, Ring
  <1>6. /\ Made' = Made
        /\ \A b \in Made : /\ Slots(b)' = Slots(b) /\ First(b)' = First(b)
                           /\ CountOf(b)' = CountOf(b)
    BY <1>3 DEF Made, Slots, First, CountOf, Ahead
  <1>7. Used' = Used \union {p}
    <2>1. \A b \in Made : b \in Used' <=> b \in Used \/ b = p
      BY <1>2, <1>3, <1>4, <1>6 DEF Used, NoCall
    <2>2. Used' \subseteq Made
      BY <1>6 DEF Used
    <2> QED BY <1>1, <2>1, <2>2
  <1>8. TypeOK'
    <2>1. (\A b \in Made : /\ Front[b] \in Slots(b) /\ Tail[b] \in Slots(b)
                           /\ LocalFront[b] \in Slots(b) /\ LocalTail[b] \in Slots(b))'
      BY <1>1, <1>3, <1>6
    <2>2. Next' \in [AllBlocks -> Made'] /\ \A b \in Made' : Size'[b] >= 2
      BY <1>1, <1>3, <1>6 DEF TypeOK
    <2>3. con' \in {NoCall} \union ConCalls /\ put' \in Nat
      BY <1>1, <1>3 DEF TypeOK
    <2> QED BY <1>1, <1>3, <1>6, <2>1, <2>2, <2>3 DEF TypeOK
  <1>9. Unmade'
    BY <1>1, <1>3, <1>6 DEF Unmade
  <1>10. Ring'
    <2>1. (\A b, c \in Made : Next[b] = Next[c] => b = c)'
      BY <1>1, <1>3, <1>6 DEF Ring
    <2>2. (TailBlock \in Used /\ First(TailBlock) + CountOf(TailBlock) = put)'
      <3>1. First(TailBlock)' = First(p)' /\ CountOf(TailBlock)' = CountOf(p)'
        BY <1>3 DEF First, CountOf, Ahead
      <3> QED BY <1>1, <1>3, <1>4, <1>6, <1>7, <3>1
    <2>3. (\A b \in Used \ {TailBlock} :
              /\ Next[b] \in Used \ {FrontBlock}
              /\ First(Next[b]) = First(b) + CountOf(b))'
      <3> SUFFICES ASSUME NEW b \in Used
                   PROVE  /\ Next'[b] \in Used' /\ Next'[b] # FrontBlock'
                          /\ First(Next[b])' = First(b)' + CountOf(b)'
        BY <1>3, <1>7
      <3>1. PICK m \in Made : m = Next[b]
        BY <1>1
      <3>2. First(Next[b])' = First(m)' /\ Next'[b] = m /\ FrontBlock' = FrontBlock
        BY <1>3, <3>1 DEF First
      <3>3. First(m)' = First(m) /\ First(b)' = First(b) /\ CountOf(b)' = CountOf(b)
        BY <1>1, <1>6
      <3>4. CASE b = TailBlock
        <4>1. First(b) + CountOf(b) = put /\ m = p
          BY <1>1, <1>4, <3>1, <3>4 DEF Ring
        <4> QED BY <1>4, <1>7, <3>2, <3>3, <4>1
      <3>5. CASE b # TailBlock
        <4>1. m \in Used \ {FrontBlock} /\ First(m) = First(b) + CountOf(b)
          BY <1>1, <3>1, <3>5 DEF Ring
        <4> QED BY <1>7, <3>2, <3>3, <4>1
      <3> QED BY <3>4, <3>5
    <2>4. (\A b \in (Made \ Used) \union {TailBlock} :
              Next[b] \in Used => Next[b] = FrontBlock)'
      <3> SUFFICES ASSUME NEW b \in Made, b \notin Used, Next[b] \in Used \/ Next[b] = p
                   PROVE  Next[b] = FrontBlock
        BY <1>3, <1>5, <1>6, <1>7
      <3>1. CASE Next[b] = p
        BY <1>1, <1>4, <1>5, <3>1 DEF Ring
      <3>2. CASE Next[b] \in Used
        BY <1>1, <3>2 DEF Ring
      <3> QED BY <3>1, <3>2
    <2> QED BY <2>1, <2>2, <2>3, <2>4 DEF Ring
  <1>11. Content'
    <2>1. \A b \in Made : \A i \in Indexes : Item(b, i)' = Item(b, i)
      BY <1>3, <1>6 DEF Item, Ahead, NoCall
    <2> QED BY <1>1, <1>3, <1>6, <2>1 DEF Content
  <1>12. Copies'
    BY <1>1, <1>3, <1>6 DEF Copies, Ahead
  <1>13. ProducerOK'
    BY <1>3 DEF ProducerOK, NoCall
  <1>14. ConsumerOK'
    BY <1>1, <1>3, <1>4, <1>6 DEF ConsumerOK
  <1> QED BY <1>8, <1>9, <1>10, <1>11, <1>12, <1>13, <1>14 DEF IndInv

LEMMA EnqueueNewBlockInd == IndInv /\ EnqueueNewBlock => IndInv'
  <1> SUFFICES ASSUME IndInv, EnqueueNewBlock PROVE IndInv'
    OBVIOUS
  <1> USE BlockTypes
  <1>1. /\ TypeOK /\ Unmade /\ Ring /\ Content /\ Copies /\ ProducerOK /\ ConsumerOK
        /\ TailBlock \in Made /\ FrontBlock \in Made
        /\ Used \subseteq Made /\ put \in Nat /\ BlockSize \in 2 .. EXPECTED_BLOCK_SIZE
    BY DEF IndInv, TypeOK, Used
  <1>2. PICK size, new :
          /\ new = blocks + 1
          /\ size = IF 2 * BlockSize > EXPECTED_BLOCK_SIZE
                    THEN EXPECTED_BLOCK_SIZE ELSE 2 * BlockSize
    OBVIOUS
  <1>3. /\ pro.step = "full" /\ Next[TailBlock] = FrontBlock /\ blocks < MaxBlocks
        /\ blocks' = new /\ BlockSize' = size
        /\ Size' = [Size EXCEPT ![new] = size]
        /\ Data' = [Data EXCEPT ![new][0] = put]
        /\ Tail' = [Tail EXCEPT ![new] = 1]
        /\ LocalTail' = [LocalTail EXCEPT ![new] = 1]
        /\ Next' = [Next EXCEPT ![new] = Next[TailBlock], ![TailBlock] = new]
        /\ pro' = [step |-> "tailBlock", block |-> new]
        /\ UNCHANGED <<TailBlock, LocalFront, put, FrontBlock, Front, got, con>>
    BY <1>2 DEF EnqueueNewBlock, NextIsFree, consumerVars
  <1>4. /\ new \in AllBlocks /\ new \notin Made /\ new \in Nat
        /\ Made' = Made \union {new}
        /\ size \in 2 .. EXPECTED_BLOCK_SIZE
        /\ \A b \in Made : b # new /\ b \in AllBlocks
    <2>1. blocks \in Nat /\ MaxBlocks \in Nat /\ blocks >= 1 /\ Made = 1 .. blocks
      BY <1>1, SizesAssumption DEF TypeOK, Made
    <2>2. new = blocks + 1 /\ Made' = 1 .. new /\ AllBlocks = 1 .. MaxBlocks
      BY <1>2, <1>3 DEF Made, AllBlocks
    <2>3. size \in 2 .. EXPECTED_BLOCK_SIZE
      BY <1>1, <1>2, SizesAssumption
    <2> QED BY <1>3, <2>1, <2>2, <2>3
  <1>5. /\ 0 \in Indexes /\ 1 \in Indexes
        /\ Front[new] = 0 /\ LocalFront[new] = 0
        /\ \A i \in Indexes : Data[new][i] = Raw
    BY <1>1, <1>4, SizesAssumption DEF Unmade, Indexes
  <1>6. pro'.step = "tailBlock" /\ pro'.block = new /\ pro' \in [step : ProSteps, block : Made']
    BY <1>3, <1>4 DEF ProSteps
  \* What is stored: only the new block's part, and the link to it.
  <1>7. /\ Size' \in [AllBlocks -> 0 .. EXPECTED_BLOCK_SIZE]
        /\ Size'[new] = size /\ \A b \in AllBlocks \ {new} : Size'[b] = Size[b]
    <2>1. Size \in [AllBlocks -> 0 .. EXPECTED_BLOCK_SIZE]
      BY <1>1 DEF TypeOK
    <2>2. size \in 0 .. EXPECTED_BLOCK_SIZE
      BY <1>4, SizesAssumption
    <2> QED BY <1>3, <1>4, <2>1, <2>2
  <1>8. /\ Tail' \in [AllBlocks -> Indexes] /\ LocalTail' \in [AllBlocks -> Indexes]
        /\ Tail'[new] = 1 /\ \A b \in AllBlocks \ {new} : Tail'[b] = Tail[b]
        /\ LocalTail'[new] = 1 /\ \A b \in AllBlocks \ {new} : LocalTail'[b] = LocalTail[b]
    <2>1. Tail \in [AllBlocks -> Indexes] /\ LocalTail \in [AllBlocks -> Indexes]
      BY <1>1 DEF TypeOK
    <2> QED BY <1>3, <1>4, <1>5, <2>1
  <1>9. /\ Data' \in [AllBlocks -> [Indexes -> Nat \union {Raw}]]
        /\ \A b \in AllBlocks, i \in Indexes :
              Data'[b][i] = IF b = new /\ i = 0 THEN put ELSE Data[b][i]
    <2>1. Data \in [AllBlocks -> [Indexes -> Nat \union {Raw}]]
      BY <1>1 DEF TypeOK
    <2> QED BY <1>1, <1>3, <1>4, <1>5, <2>1
  <1>10. /\ Next' \in [AllBlocks -> Made']
         /\ Next'[new] = FrontBlock /\ Next'[TailBlock] = new
         /\ \A b \in AllBlocks \ {new, TailBlock} : Next'[b] = Next[b]
    <2>1. Next \in [AllBlocks -> Made]
      BY <1>1 DEF TypeOK
    <2> QED BY <1>1, <1>3, <1>4, <2>1
  <1>11. /\ \A b \in Made : /\ Slots(b)' = Slots(b) /\ First(b)' = First(b)
                            /\ CountOf(b)' = CountOf(b)
         /\ CountOf(new)' = 1 /\ First(new)' = put /\ Slots(new)' = 0 .. (size - 1)
    <2>1. ASSUME NEW b \in Made
          PROVE  Slots(b)' = Slots(b) /\ First(b)' = First(b) /\ CountOf(b)' = CountOf(b)
      <3>1. b \in AllBlocks /\ b # new /\ Front[b] \in Indexes
        BY <1>1, <1>4
      <3>2. Size'[b] = Size[b] /\ Tail'[b] = Tail[b] /\ Data'[b][Front[b]] = Data[b][Front[b]]
        BY <1>7, <1>8, <1>9, <3>1
      <3> QED BY <1>3, <3>2 DEF Slots, First, CountOf, Ahead
    <2>2. CountOf(new)' = 1
      BY <1>3, <1>5, <1>7, <1>8 DEF CountOf, Ahead
    <2>3. First(new)' = put
      BY <1>1, <1>3, <1>4, <1>5, <1>9 DEF First
    <2> QED BY <1>7, <2>1, <2>2, <2>3 DEF Slots
  <1>12. Used' = Used
    <2>1. \A b \in Made : b \in Used' <=> b \in Used
      BY <1>3, <1>4, <1>6, <1>11 DEF Used
    <2>2. new \notin Used' /\ Used' \subseteq Made'
      BY <1>1, <1>3, <1>4, <1>6 DEF Used
    <2> QED BY <1>1, <1>4, <2>1, <2>2
  <1>13. TypeOK'
    <2>1. (\A b \in Made : /\ Front[b] \in Slots(b) /\ Tail[b] \in Slots(b)
                           /\ LocalFront[b] \in Slots(b) /\ LocalTail[b] \in Slots(b))'
      <3> SUFFICES ASSUME NEW b \in Made'
                   PROVE  /\ Front[b] \in Slots(b)' /\ Tail'[b] \in Slots(b)'
                          /\ LocalFront[b] \in Slots(b)' /\ LocalTail'[b] \in Slots(b)'
        BY <1>3
      <3>1. CASE b = new
        <4>1. 0 \in 0 .. (size - 1) /\ 1 \in 0 .. (size - 1)
          BY <1>4
        <4> QED BY <1>5, <1>8, <1>11, <3>1, <4>1
      <3>2. CASE b \in Made
        BY <1>1, <1>4, <1>8, <1>11, <3>2
      <3> QED BY <1>4, <3>1, <3>2
    <2>2. \A b \in Made' : Size'[b] >= 2
      BY <1>1, <1>4, <1>7
    <2>3. /\ con' \in {NoCall} \union ConCalls /\ put' \in Nat /\ got' \in Nat
          /\ Front' \in [AllBlocks -> Indexes] /\ LocalFront' \in [AllBlocks -> Indexes]
      BY <1>1, <1>3 DEF TypeOK
    <2>4. /\ blocks' \in 1 .. MaxBlocks /\ BlockSize' \in 2 .. EXPECTED_BLOCK_SIZE
          /\ FrontBlock' \in Made' /\ TailBlock' \in Made'
      BY <1>1, <1>3, <1>4 DEF AllBlocks
    <2> QED BY <1>6, <1>7, <1>8, <1>9, <1>10, <2>1, <2>2, <2>3, <2>4 DEF TypeOK
  <1>14. Unmade'
    BY <1>1, <1>3, <1>4, <1>8, <1>9 DEF Unmade
  <1>15. Ring'
    <2>1. (\A b, c \in Made : Next[b] = Next[c] => b = c)'
      <3>1. \A b, c \in Made : Next[b] = Next[c] => b = c
        BY <1>1 DEF Ring
      <3>2. \A b \in Made : /\ Next[b] # new
                            /\ Next[b] = FrontBlock => b = TailBlock
        BY <1>1, <1>3, <1>4, <3>1
      <3> QED BY <1>1, <1>4, <1>10, <3>1, <3>2
    <2>2. (TailBlock \in Used /\ First(TailBlock) + CountOf(TailBlock) = put)'
      <3>1. PICK t \in Used : t = TailBlock /\ First(t) + CountOf(t) = put
        BY <1>1 DEF Ring
      <3>2. First(TailBlock)' = First(t)' /\ CountOf(TailBlock)' = CountOf(t)'
        BY <1>3, <3>1 DEF First, CountOf, Ahead
      <3> QED BY <1>1, <1>3, <1>11, <1>12, <3>1, <3>2
    <2>3. (\A b \in Used \ {TailBlock} :
              /\ Next[b] \in Used \ {FrontBlock}
              /\ First(Next[b]) = First(b) + CountOf(b))'
      <3> SUFFICES ASSUME NEW b \in Used, b # TailBlock
                   PROVE  /\ Next'[b] \in Used /\ Next'[b] # FrontBlock
                          /\ First(Next[b])' = First(b)' + CountOf(b)'
        BY <1>3, <1>12
      <3>1. PICK m \in Used : m = Next[b] /\ m # FrontBlock /\ First(m) = First(b) + CountOf(b)
        BY <1>1 DEF Ring
      <3>2. Next'[b] = m
        BY <1>1, <1>4, <1>10, <3>1
      <3>3. First(Next[b])' = First(m)'
        BY <3>2 DEF First
      <3>4. First(m)' = First(m) /\ First(b)' = First(b) /\ CountOf(b)' = CountOf(b)
        BY <1>1, <1>11
      <3> QED BY <3>1, <3>2, <3>3, <3>4
    <2>4. (\A b \in (Made \ Used) \union {TailBlock} :
              Next[b] \in Used => Next[b] = FrontBlock)'
      <3> SUFFICES ASSUME NEW b \in Made', b \notin Used \/ b = TailBlock, Next'[b] \in Used
                   PROVE  Next'[b] = FrontBlock
        BY <1>1, <1>3, <1>4, <1>12
      <3>1. b # TailBlock
        BY <1>1, <1>4, <1>10
      <3>2. b # new => Next'[b] = Next[b] /\ b \in Made
        BY <1>4, <1>10, <3>1
      <3> QED BY <1>1, <1>10, <3>1, <3>2 DEF Ring
    <2> QED BY <2>1, <2>2, <2>3, <2>4 DEF Ring
  <1>16. Content'
    <2>1. ASSUME NEW b \in Made, NEW i \in Indexes PROVE Data'[b][i] = Item(b, i)'
      <3>1. b \in AllBlocks /\ b # new /\ Front[b] \in Indexes
        BY <1>1, <1>4
      <3>2. Data'[b][i] = Item(b, i) /\ Size'[b] = Size[b]
        BY <1>1, <1>7, <1>9, <3>1 DEF Content
      <3>3. Ahead(b, Front[b], i)' = Ahead(b, Front[b], i)
        BY <1>3, <3>2 DEF Ahead
      <3>4. Item(b, i)' = Item(b, i)
        BY <1>3, <1>6, <1>11, <3>2, <3>3 DEF Item
      <3> QED BY <3>2, <3>4
    <2>2. ASSUME NEW i \in Indexes PROVE Data'[new][i] = Item(new, i)'
      <3>1. i \in Nat /\ Front'[new] = 0
        BY <1>3, <1>5, SizesAssumption DEF Indexes
      <3>2. Ahead(new, Front[new], i)' = i
        BY <3>1 DEF Ahead
      <3>3. Item(new, i)' = IF i = 0 THEN put ELSE Raw
        <4>1. new # FrontBlock' /\ put \in Nat /\ Size'[new] = size /\ size >= 2
          BY <1>1, <1>3, <1>4, <1>7
        <4>2. Item(new, i)' =
                 IF i < Size'[new] /\ Ahead(new, Front[new], i)' < CountOf(new)'
                 THEN First(new)' + Ahead(new, Front[new], i)' ELSE Raw
          BY <1>6, <4>1 DEF Item
        <4>3. CountOf(new)' = 1 /\ First(new)' = put
          BY <1>11
        <4>4. CASE i = 0
          BY <1>4, <3>1, <3>2, <4>1, <4>2, <4>3, <4>4, SizesAssumption
        <4>5. CASE i # 0
          BY <3>1, <3>2, <4>2, <4>3, <4>5
        <4> QED BY <4>4, <4>5
      <3> QED BY <1>4, <1>5, <1>9, <3>3
    <2>3. ASSUME NEW b \in Made', CountOf(b)' > 0 PROVE First(b)' \in Nat
      BY <1>1, <1>4, <1>11, <2>3 DEF Content
    <2> QED BY <1>4, <2>1, <2>2, <2>3 DEF Content
  <1>17. Copies'
    <2>1. ASSUME NEW b \in Made
          PROVE  /\ Ahead(b, Front[b], LocalTail[b])' <= CountOf(b)'
                 /\ CountOf(b)' <= Ahead(b, LocalFront[b], Tail[b])'
      <3>1. Size'[b] = Size[b] /\ Tail'[b] = Tail[b] /\ LocalTail'[b] = LocalTail[b]
        BY <1>4, <1>7, <1>8
      <3>2. /\ Ahead(b, Front[b], LocalTail[b])' = Ahead(b, Front[b], LocalTail[b])
            /\ Ahead(b, LocalFront[b], Tail[b])' = Ahead(b, LocalFront[b], Tail[b])
        BY <1>3, <3>1 DEF Ahead
      <3> QED BY <1>1, <1>11, <3>2 DEF Copies
    <2>2. Ahead(new, Front[new], LocalTail[new])' = 1 /\ Ahead(new, LocalFront[new], Tail[new])' = 1
      BY <1>3, <1>5, <1>8 DEF Ahead
    <2> QED BY <1>4, <1>11, <2>1, <2>2 DEF Copies
  <1>18. ProducerOK'
    <2>1. CountOf(pro.block)' = 1 /\ First(pro.block)' = put
      <3>1. CountOf(pro.block)' = CountOf(new)' /\ First(pro.block)' = First(new)'
        BY <1>6 DEF CountOf, First, Ahead
      <3> QED BY <1>11, <3>1
    <2> QED BY <1>1, <1>3, <1>4, <1>6, <1>10, <2>1 DEF ProducerOK
  <1>19. ConsumerOK'
    <2>1. PICK f \in Made : f = FrontBlock
      BY <1>1
    <2>2. CountOf(FrontBlock)' = CountOf(f) /\ LocalTail'[f] = LocalTail[f] /\ Front'[f] = Front[f]
      <3>1. CountOf(FrontBlock)' = CountOf(f)'
        BY <1>3, <2>1 DEF CountOf, Ahead
      <3> QED BY <1>3, <1>4, <1>8, <1>11, <3>1
    <2>3. f # TailBlock =>
             /\ Next'[f] = Next[f]
             /\ LocalTail'[Next[f]] = LocalTail[Next[f]] /\ Front'[Next[f]] = Front[Next[f]]
      BY <1>1, <1>3, <1>4, <1>8, <1>10
    <2> QED BY <1>1, <1>3, <2>1, <2>2, <2>3 DEF ConsumerOK
  <1> QED BY <1>13, <1>14, <1>15, <1>16, <1>17, <1>18, <1>19 DEF IndInv

-----------------------------------------------------------------------------
LEMMA StutterInd == IndInv /\ UNCHANGED vars => IndInv'
  <1> SUFFICES ASSUME IndInv, UNCHANGED vars PROVE IndInv'
    OBVIOUS
  <1>1. /\ Same
        /\ UNCHANGED <<BlockSize, LocalFront, LocalTail, pro, con>>
    BY DEF vars, producerVars, consumerVars, Same
  <1>2. TypeOK'
    BY <1>1 DEF IndInv, TypeOK, Same, Made, Slots
  <1>3. Ring' /\ Content'
    BY <1>1, SameItems
  <1>4. Unmade' /\ Copies'
    BY <1>1 DEF IndInv, Unmade, Copies, Same, Made, Ahead, CountOf
  <1>5. ProducerOK' /\ ConsumerOK'
    BY <1>1 DEF IndInv, ProducerOK, ConsumerOK, Same, Used, Made, CountOf, Ahead, First,
                Room, After
  <1> QED BY <1>2, <1>3, <1>4, <1>5 DEF IndInv

LEMMA NextInd ==
    ASSUME StaleTail = FALSE PROVE IndInv /\ [Steps]_vars => IndInv'
  <1> SUFFICES ASSUME IndInv, [Steps]_vars PROVE IndInv'
    OBVIOUS
  <1>1. CASE ProducerLooks
    BY <1>1, ProducerLooksInd
  <1>2. CASE EnqueueNewBlock
    BY <1>2, EnqueueNewBlockInd
  <1>3. CASE Construct
    BY <1>3, ConstructInd
  <1>4. CASE StoreTail
    BY <1>4, StoreTailInd
  <1>5. CASE StoreTailBlock
    BY <1>5, StoreTailBlockInd
  <1>6. CASE ConsumerLooks
    BY <1>6, ConsumerLooksInd
  <1>7. CASE StoreFrontBlock
    BY <1>7, StoreFrontBlockInd
  <1>8. CASE Take
    BY <1>8, TakeInd
  <1>9. CASE StoreFront
    BY <1>9, StoreFrontInd
  <1>10. CASE UNCHANGED vars
    BY <1>10, StutterInd
  <1> QED BY <1>1, <1>2, <1>3, <1>4, <1>5, <1>6, <1>7, <1>8, <1>9, <1>10
          DEF Steps, Producer, InConsumer, ProducerLooks, ConsumerLooks

\* What the steps keep, whatever the numbers and sizes of the blocks.
LEMMA Inductive ==
    ASSUME StaleTail = FALSE PROVE Spec => []IndInv
  <1>1. IndInv /\ [Steps]_vars => IndInv'
    BY NextInd
  <1> QED BY InitInd, <1>1, PTL DEF Spec

-----------------------------------------------------------------------------
LEMMA IndInvTakesOldest == IndInv => TakesOldest
  <1> SUFFICES ASSUME IndInv PROVE TakesOldest
    OBVIOUS
  <1> USE BlockTypes
  <1>1. /\ TypeOK /\ Ring /\ Content /\ Copies /\ ConsumerOK
        /\ FrontBlock \in Made
    BY DEF IndInv, TypeOK
  <1>2. \A b \in Made : Front[b] # LocalTail[b] => CountOf(b) > 0
    <2> SUFFICES ASSUME NEW b \in Made, Front[b] # LocalTail[b] PROVE CountOf(b) > 0
      OBVIOUS
    <2>1. Ahead(b, Front[b], LocalTail[b]) \in Slots(b) \ {0}
      BY <1>1, AheadIsUnique
    <2>2. Ahead(b, Front[b], LocalTail[b]) <= CountOf(b)
      BY <1>1 DEF Copies
    <2> QED BY <1>1, <2>1, <2>2 DEF Slots
  <1>3. ASSUME con.step = "take" PROVE Data[FrontBlock][Front[FrontBlock]] = got
    <2>1. PICK f \in Made : f = FrontBlock
      BY <1>1
    <2>2. CountOf(f) > 0 /\ Front[f] \in Slots(f) /\ Front[f] \in Indexes /\ Size[f] \in Nat
      BY <1>1, <1>2, <1>3, <2>1 DEF ConsumerOK
    <2>3. Ahead(f, Front[f], Front[f]) = 0 /\ Front[f] < Size[f]
      BY <1>1, <2>2, AheadIsUnique DEF Slots
    <2>4. Data[f][Front[f]] = Item(f, Front[f]) /\ got \in Nat
      BY <1>1, <2>2 DEF Content, TypeOK
    <2>5. Item(f, Front[f]) = got + 0
      BY <1>3, <2>1, <2>2, <2>3 DEF Item, First
    <2> QED BY <2>1, <2>4, <2>5
  <1>4. ASSUME con.step = "peeked"
        PROVE  Data[Next[FrontBlock]][Front[Next[FrontBlock]]] = got
    <2>1. PICK f \in Made, n \in Made : f = FrontBlock /\ n = Next[f]
      BY <1>1
    <2>2. /\ f # TailBlock /\ f \in Used /\ CountOf(f) = 0
      BY <1>1, <1>4, <2>1 DEF ConsumerOK, Used
    <2>3. n # f /\ First(n) = First(f) + CountOf(f) /\ First(f) = got /\ got \in Nat
      BY <1>1, <2>1, <2>2 DEF Ring, First, TypeOK
    <2> QED BY <2>1, <2>2, <2>3 DEF First
  <1> QED BY <1>3, <1>4 DEF TakesOldest

\* For any blocks and items: TryDequeue and Pop take out the oldest item, and Peek
\* points to it, if the consumer's loads are not stale.
THEOREM OldestFirst ==
    ASSUME StaleTail = FALSE PROVE Spec => []TakesOldest
  BY Inductive, IndInvTakesOldest, PTL

\* For any blocks and items: the assertion of InnerDequeue that the next block has
\* an item holds, if the consumer's loads are not stale.
THEOREM NextBlockAssertion ==
    ASSUME StaleTail = FALSE PROVE Spec => []NextBlockHasItem
  <1>1. IndInv => NextBlockHasItem
    BY DEF IndInv, ConsumerOK, NextBlockHasItem
  <1> QED BY Inductive, <1>1, PTL

LEMMA IndInvNeverOverwrites == IndInv => NeverOverwrites
  <1> SUFFICES ASSUME IndInv, pro.step = "construct"
               PROVE  /\ pro.block # TailBlock => Front[pro.block] = Tail[pro.block]
                      /\ Data[pro.block][Tail[pro.block]] = Raw
    BY DEF NeverOverwrites
  <1> USE BlockTypes
  <1>1. TypeOK /\ Content /\ ProducerOK
    BY DEF IndInv
  <1>2. PICK p \in Made : p = pro.block
    BY <1>1, InCall DEF ProSteps
  <1>3. p # TailBlock => Front[p] = Tail[p]
    <2> SUFFICES ASSUME p # TailBlock PROVE Front[p] = Tail[p]
      OBVIOUS
    <2>1. p \notin Used
      BY <1>1, <1>2 DEF ProducerOK
    <2>2. ~(CountOf(p) > 0)
      BY <2>1 DEF Used
    <2> QED BY <1>1, <2>2 DEF Slots
  <1>4. Data[p][Tail[p]] = Raw
    <2>1. Tail[p] \in Indexes /\ CountOf(p) \in Nat
      BY <1>1 DEF Slots
    <2>2. ~(Ahead(p, Front[p], Tail[p]) < CountOf(p))
      BY <2>1 DEF CountOf
    <2>3. Item(p, Tail[p]) = Raw
      BY <2>2 DEF Item
    <2> QED BY <1>1, <2>1, <2>3 DEF Content
  <1> QED BY <1>2, <1>3, <1>4

\* For any blocks and items: the assertion of InnerEnqueue that the next block is
\* empty holds, and no item is constructed over another.
THEOREM NothingOverwritten ==
    ASSUME StaleTail = FALSE PROVE Spec => []NeverOverwrites
  BY Inductive, IndInvNeverOverwrites, PTL

LEMMA IndInvDestroysAll == IndInv => DestructorDestroysAll
  <1> SUFFICES ASSUME IndInv, pro.step = "idle", con.step = "idle", NEW b \in Made
               PROVE  {i \in Indexes : Data[b][i] # Raw} = Filled(b)
    BY DEF DestructorDestroysAll, Made
  <1> USE BlockTypes
  <1>1. /\ TypeOK /\ Content /\ Slots(b) \subseteq Indexes /\ Size[b] \in Nat /\ Size[b] >= 2
        /\ Front[b] \in Slots(b) /\ Tail[b] \in Slots(b) /\ CountOf(b) \in Nat
    BY DEF IndInv, Slots
  <1>2. \A i \in Slots(b) : (i - Front[b]) % Size[b] = Ahead(b, Front[b], i)
    <2> TAKE i \in Slots(b)
    <2>1. i \in 0 .. (Size[b] - 1) /\ Front[b] \in 0 .. (Size[b] - 1)
      BY <1>1 DEF Slots
    <2> QED BY <1>1, <2>1, Distance DEF Ahead
  <1>3. Filled(b) = {i \in Slots(b) : Ahead(b, Front[b], i) < CountOf(b)}
    BY <1>1, <1>2 DEF Filled, Slots, CountOf
  <1>4. ASSUME NEW i \in Slots(b), Ahead(b, Front[b], i) < CountOf(b) PROVE Data[b][i] # Raw
    <2>1. i < Size[b] /\ i \in Indexes /\ Ahead(b, Front[b], i) \in Nat
      <3>1. Ahead(b, Front[b], i) \in Slots(b)
        BY <1>1, AheadIsUnique
      <3> QED BY <1>1, <3>1 DEF Slots
    <2>2. First(b) \in Nat
      BY <1>1, <1>4, <2>1 DEF Content
    <2>3. Data[b][i] = First(b) + Ahead(b, Front[b], i)
      BY <1>1, <1>4, <2>1 DEF Content, Item
    <2> QED BY <2>1, <2>2, <2>3, SizesAssumption
  <1>5. ASSUME NEW i \in Indexes, Data[b][i] # Raw
        PROVE  i \in Slots(b) /\ Ahead(b, Front[b], i) < CountOf(b)
    <2>1. i < Size[b] /\ Ahead(b, Front[b], i) < CountOf(b)
      BY <1>1, <1>5 DEF Content, Item
    <2>2. i \in Nat
      BY SizesAssumption DEF Indexes
    <2> QED BY <1>1, <2>1, <2>2 DEF Slots
  <1> QED BY <1>1, <1>3, <1>4, <1>5

\* For any blocks and items: between calls the objects are those the destructor
\* destroys, if the consumer's loads are not stale.
THEOREM DestructorIsComplete ==
    ASSUME StaleTail = FALSE PROVE Spec => []DestructorDestroysAll
  BY Inductive, IndInvDestroysAll, PTL

\* For any blocks and items: TryDequeue, Pop and Peek come back empty only if the
\* queue was empty when the call began.
THEOREM EmptyMeansEmpty ==
    ASSUME StaleTail = FALSE PROVE Spec => NoSpuriousEmpty
  <1>1. ASSUME IndInv, [Steps]_vars, con.step = "test", con'.step = "idle"
        PROVE  ~con.some
    <2> USE BlockTypes
    <2>1. /\ TypeOK /\ ConsumerOK /\ FrontBlock \in Made
          /\ con \in ConCalls
      BY <1>1, InCall DEF IndInv, ConSteps, TypeOK
    <2>2. LoadTail \/ TrustCopy \/ con' = con
      BY <1>1 DEF Steps, Producer, EnqueueHere, BlockIsFull, EnqueueNext, LoadNextFront,
                  EnqueueFails, EnqueueNewBlock, Construct, StoreTail, StoreTailBlock,
                  InConsumer, LoadNextTail, StoreFrontBlock, Take, PeekReturns,
                  StoreFront, TestTailBlock, consumerVars, vars
    <2>3. /\ [con EXCEPT !.step = "take"].step # "idle"
          /\ [con EXCEPT !.step = "next"].step # "idle"
      <3>1. "take" \in ConSteps /\ "next" \in ConSteps
        BY DEF ConSteps
      <3> QED BY <2>1, <3>1, ConStep
    <2>4. LoadTail /\ con' # [con EXCEPT !.step = "take"] /\ con' # [con EXCEPT !.step = "next"]
      BY <1>1, <2>2, <2>3 DEF TrustCopy
    <2>5. Front[FrontBlock] = Tail[FrontBlock] /\ con.last
      BY <2>4 DEF LoadTail, TailLoads
    <2>6. ~(CountOf(FrontBlock) > 0)
      BY <2>1, <2>5
    <2> QED BY <1>1, <2>1, <2>5, <2>6 DEF ConsumerOK
  <1>2. IndInv /\ [Steps]_vars => [con.step = "test" /\ con'.step = "idle" => ~con.some]_vars
    BY <1>1
  <1> QED BY Inductive, <1>2, PTL DEF Spec, NoSpuriousEmpty

-----------------------------------------------------------------------------
(* Numbers *)

\* A non-empty set of numbers has a least one.
LEMMA Least ==
    ASSUME NEW T, T \subseteq Nat, T # {}
    PROVE  \E x \in T : \A y \in T : x <= y
  <1>1. \A i, j \in Nat : i < j => <<i, j>> \in OpToRel(<, Nat)
    BY DEF OpToRel
  <1>2. PICK R : IsWellFoundedOn(R, Nat) /\ \A i, j \in Nat : i < j => <<i, j>> \in R
    BY <1>1, NatLessThanWellFounded
  <1>3. PICK x \in T : \A y \in T : ~(<<y, x>> \in R)
    <2>1. IsWellFoundedOn(R, Nat)
      BY <1>2
    <2> QED BY <2>1, WFMin
  <1>4. ASSUME NEW y \in T PROVE x <= y
    <2>1. x \in Nat /\ y \in Nat
      OBVIOUS
    <2>2. ~(y < x)
      BY <1>2, <1>3, <2>1
    <2> QED BY <2>1, <2>2
  <1> QED BY <1>4

\* What 0 has and each number below n hands on, all up to n have.
LEMMA Upward ==
    ASSUME NEW n \in Nat, NEW S, 0 \in S,
           \A k \in 0 .. (n - 1) : k \in S => k + 1 \in S
    PROVE  0 .. n \subseteq S
  <1> DEFINE T == {k \in 0 .. n : k \notin S}
  <1>1. SUFFICES ASSUME T # {} PROVE FALSE
    OBVIOUS
  <1>2. T \subseteq Nat
    OBVIOUS
  <1>3. PICK k \in T : \A j \in T : k <= j
    <2> HIDE DEF T
    <2> QED BY <1>1, <1>2, Least
  <1>4. k \in 1 .. n /\ k - 1 \in 0 .. (n - 1) /\ k - 1 \notin T /\ (k - 1) + 1 = k
    BY <1>3
  <1> QED BY <1>3, <1>4

\* Among n + 1 steps through n blocks two lead to the same one.
LEMMA PigeonHole ==
    ASSUME NEW n \in Nat, NEW f \in [0 .. n -> 1 .. n]
    PROVE  \E i, j \in 0 .. n : i # j /\ f[i] = f[j]
  <1> DEFINE Meet(m, g) == \E i, j \in 0 .. m : i # j /\ g[i] = g[j]
             S == {m \in 0 .. n : \A g \in [0 .. m -> 1 .. m] : Meet(m, g)}
  <1>1. 0 \in S
    OBVIOUS
  <1>2. ASSUME NEW m \in 0 .. (n - 1), m \in S PROVE m + 1 \in S
    <2>1. SUFFICES ASSUME NEW g \in [0 .. (m + 1) -> 1 .. (m + 1)] PROVE Meet(m + 1, g)
      <3>1. m + 1 \in 0 .. n
        OBVIOUS
      <3> HIDE DEF Meet
      <3> QED BY <3>1
    <2> DEFINE h == [i \in 0 .. m |-> IF g[i] = m + 1 THEN g[m + 1] ELSE g[i]]
    <2>2. CASE \E i \in 0 .. m : g[i] = g[m + 1]
      BY <2>2
    <2>3. CASE \A i \in 0 .. m : g[i] # g[m + 1]
      <3>1. h \in [0 .. m -> 1 .. m]
        <4>1. ASSUME NEW i \in 0 .. m PROVE h[i] \in 1 .. m
          <5>1. i \in 0 .. (m + 1) /\ m + 1 \in 0 .. (m + 1) /\ m \in Nat
            OBVIOUS
          <5>2. g[i] \in 1 .. (m + 1) /\ g[m + 1] \in 1 .. (m + 1) /\ g[i] # g[m + 1]
            BY <2>3, <5>1
          <5>3. ASSUME NEW v \in 1 .. (m + 1), v # m + 1 PROVE v \in 1 .. m
            BY <5>1, <5>3
          <5>4. h[i] \in 1 .. (m + 1) /\ h[i] # m + 1
            BY <5>2
          <5> HIDE DEF h
          <5> QED BY <5>3, <5>4
        <4> QED BY <4>1
      <3>2. PICK i \in 0 .. m, j \in 0 .. m : i # j /\ h[i] = h[j]
        BY <1>2, <3>1
      <3>3. g[i] = g[j]
        BY <2>3, <3>2
      <3> QED BY <3>2, <3>3
    <2> QED BY <2>2, <2>3
  <1>3. n \in S
    <2> HIDE DEF S
    <2>1. 0 .. n \subseteq S
      BY <1>1, <1>2, Upward
    <2> QED BY <2>1
  <1> QED BY <1>3

-----------------------------------------------------------------------------
(* The walk round the ring *)

\* The block k steps from FrontBlock on, the items of the blocks before it, and
\* when the walk is round.
Walk(a) == a = [k \in 0 .. blocks |-> IF k = 0 THEN FrontBlock ELSE Next[a[k - 1]]]
Held(b) == (Tail[b] - Front[b]) % Size[b]
Sums(a, u) == u = [k \in 0 .. blocks |-> IF k = 0 THEN 0 ELSE u[k - 1] + Held(a[k - 1])]
Round(a, k) == a[k] = FrontBlock /\ \A j \in 1 .. (k - 1) : a[j] # FrontBlock

\* The walk and its sums are there: a recursive definition has its function.
LEMMA WalkExists == blocks \in Nat => \E a : Walk(a)
  <1> SUFFICES ASSUME blocks \in Nat PROVE \E a : Walk(a)
    OBVIOUS
  <1> DEFINE To(a, m) == a = [k \in 0 .. m |-> IF k = 0 THEN FrontBlock ELSE Next[a[k - 1]]]
             S == {m \in 0 .. blocks : \E a : To(a, m)}
  <1>1. 0 \in S
    <2>1. To([k \in 0 .. 0 |-> FrontBlock], 0)
      OBVIOUS
    <2>2. 0 \in 0 .. blocks
      OBVIOUS
    <2> HIDE DEF To
    <2> QED BY <2>1, <2>2
  <1>2. ASSUME NEW m \in 0 .. (blocks - 1), m \in S PROVE m + 1 \in S
    <2>1. PICK a : To(a, m)
      BY <1>2
    <2> DEFINE b == [k \in 0 .. (m + 1) |-> IF k = m + 1 THEN Next[a[m]] ELSE a[k]]
    <2>2. ASSUME NEW k \in 0 .. (m + 1)
          PROVE  b[k] = IF k = 0 THEN FrontBlock ELSE Next[b[k - 1]]
      <3>1. CASE k = m + 1
        <4>1. b[k] = Next[a[m]] /\ b[k - 1] = a[m] /\ k # 0
          BY <3>1
        <4> QED BY <4>1
      <3>2. CASE k # m + 1
        <4>1. k \in 0 .. m /\ b[k] = a[k] /\ (k # 0 => b[k - 1] = a[k - 1])
          BY <3>2
        <4>2. a[k] = IF k = 0 THEN FrontBlock ELSE Next[a[k - 1]]
          BY <2>1, <4>1
        <4> QED BY <4>1, <4>2
      <3> QED BY <3>1, <3>2
    <2>3. To(b, m + 1)
      BY <2>2
    <2>4. m + 1 \in 0 .. blocks
      OBVIOUS
    <2> HIDE DEF b, To
    <2> QED BY <2>3, <2>4
  <1>3. 0 .. blocks \subseteq S
    <2> HIDE DEF S
    <2> QED BY <1>1, <1>2, Upward
  <1>4. blocks \in S
    <2> HIDE DEF S
    <2> QED BY <1>3
  <1> QED BY <1>4 DEF Walk

LEMMA SumsExist == ASSUME blocks \in Nat, NEW a PROVE \E u : Sums(a, u)
  <1> DEFINE To(u, m) == u = [k \in 0 .. m |-> IF k = 0 THEN 0 ELSE u[k - 1] + Held(a[k - 1])]
             S == {m \in 0 .. blocks : \E u : To(u, m)}
  <1>1. 0 \in S
    <2>1. To([k \in 0 .. 0 |-> 0], 0)
      OBVIOUS
    <2>2. 0 \in 0 .. blocks
      OBVIOUS
    <2> HIDE DEF To
    <2> QED BY <2>1, <2>2
  <1>2. ASSUME NEW m \in 0 .. (blocks - 1), m \in S PROVE m + 1 \in S
    <2>1. PICK u : To(u, m)
      BY <1>2
    <2> DEFINE w == [k \in 0 .. (m + 1) |-> IF k = m + 1 THEN u[m] + Held(a[m]) ELSE u[k]]
    <2>2. ASSUME NEW k \in 0 .. (m + 1)
          PROVE  w[k] = IF k = 0 THEN 0 ELSE w[k - 1] + Held(a[k - 1])
      <3>1. CASE k = m + 1
        <4>1. w[k] = u[m] + Held(a[m]) /\ w[k - 1] = u[m] /\ k # 0 /\ k - 1 = m
          BY <3>1
        <4> QED BY <4>1
      <3>2. CASE k # m + 1
        <4>1. k \in 0 .. m /\ w[k] = u[k] /\ (k # 0 => w[k - 1] = u[k - 1])
          BY <3>2
        <4>2. u[k] = IF k = 0 THEN 0 ELSE u[k - 1] + Held(a[k - 1])
          BY <2>1, <4>1
        <4> QED BY <4>1, <4>2
      <3> QED BY <3>1, <3>2
    <2>3. To(w, m + 1)
      BY <2>2
    <2>4. m + 1 \in 0 .. blocks
      OBVIOUS
    <2> HIDE DEF w, To
    <2> QED BY <2>3, <2>4
  <1>3. 0 .. blocks \subseteq S
    <2> HIDE DEF S
    <2> QED BY <1>1, <1>2, Upward
  <1>4. blocks \in S
    <2> HIDE DEF S
    <2> QED BY <1>3
  <1> QED BY <1>4 DEF Sums

LEMMA SizeDef ==
    ASSUME \E a : Walk(a), \A a : Walk(a) => \E u : Sums(a, u)
    PROVE  \E a, u : Walk(a) /\ Sums(a, u) /\ SizeApprox = u[CHOOSE k \in 1 .. blocks : Round(a, k)]
<1> DEFINE ahead == CHOOSE a : Walk(a)
           upTo == CHOOSE u : Sums(ahead, u)
<1>1. Walk(ahead)
  OBVIOUS
<1>2. Sums(ahead, upTo)
  BY <1>1
<1>3. SizeApprox = upTo[CHOOSE k \in 1 .. blocks : Round(ahead, k)]
  BY DEF SizeApprox, Walk, Sums, Held, Round
<1> QED BY <1>1, <1>2, <1>3

\* The walk comes round: there are blocks steps, and no two blocks have the same Next.
LEMMA WalkIsRound ==
    ASSUME TypeOK, Ring, NEW a, Walk(a)
    PROVE  /\ a \in [0 .. blocks -> Made] /\ \E k \in 1 .. blocks : Round(a, k)
  <1>1. blocks \in Nat \ {0} /\ FrontBlock \in Made /\ \A b \in Made : Next[b] \in Made
    BY BlockTypes, SizesAssumption DEF TypeOK
  <1>2. \A k \in 0 .. blocks : a[k] = IF k = 0 THEN FrontBlock ELSE Next[a[k - 1]]
    BY DEF Walk
  <1>3. a \in [0 .. blocks -> Made]
    <2> DEFINE S == {k \in 0 .. blocks : a[k] \in Made}
    <2>1. 0 \in S
      BY <1>1, <1>2
    <2>2. ASSUME NEW k \in 0 .. (blocks - 1), k \in S PROVE k + 1 \in S
      <3>1. k + 1 \in 0 .. blocks /\ k + 1 # 0 /\ (k + 1) - 1 = k
        BY <1>1
      <3> QED BY <1>1, <1>2, <2>2, <3>1
    <2>3. 0 .. blocks \subseteq S
      <3> HIDE DEF S
      <3> QED BY <1>1, <2>1, <2>2, Upward
    <2>4. DOMAIN a = 0 .. blocks /\ a = [k \in 0 .. blocks |-> a[k]]
      BY DEF Walk
    <2> QED BY <2>3, <2>4
  \* The first step that leads back to a block of the walk leads to the first.
  <1> DEFINE T == {k \in 1 .. blocks : \E j \in 0 .. (k - 1) : a[j] = a[k]}
  <1>4. T \subseteq Nat /\ T # {}
    <2>1. PICK i \in 0 .. blocks, j \in 0 .. blocks : i # j /\ a[i] = a[j]
      BY <1>1, <1>3, PigeonHole DEF Made
    <2>2. CASE i < j
      <3>1. j \in 1 .. blocks /\ i \in 0 .. (j - 1)
        BY <2>2
      <3> QED BY <2>1, <3>1
    <2>3. CASE j < i
      <3>1. i \in 1 .. blocks /\ j \in 0 .. (i - 1)
        BY <2>3
      <3> QED BY <2>1, <3>1
    <2> QED BY <2>1, <2>2, <2>3
  <1>5. PICK k \in T : \A i \in T : k <= i
    <2> HIDE DEF T
    <2> QED BY <1>4, Least
  <1>6. PICK j \in 0 .. (k - 1) : a[j] = a[k]
    BY <1>5
  <1>7. j = 0
    <2>1. SUFFICES ASSUME j # 0 PROVE FALSE
      OBVIOUS
    <2>2. /\ k \in 0 .. blocks /\ k # 0 /\ j \in 0 .. blocks /\ k - 1 \in 0 .. blocks
          /\ j - 1 \in 0 .. blocks /\ k - 1 \in 1 .. blocks /\ j - 1 \in 0 .. ((k - 1) - 1)
          /\ k - 1 < k
      BY <1>1, <2>1
    <2>3. Next[a[j - 1]] = Next[a[k - 1]] /\ a[j - 1] \in Made /\ a[k - 1] \in Made
      BY <1>2, <1>3, <1>6, <2>1, <2>2
    <2>4. a[j - 1] = a[k - 1]
      BY <2>3 DEF Ring
    <2>5. k - 1 \in T
      BY <2>2, <2>4
    <2>6. ~(k <= k - 1)
      BY <2>2
    <2> QED BY <1>5, <2>5, <2>6
  <1>8. a[k] = FrontBlock /\ k \in 1 .. blocks
    BY <1>1, <1>2, <1>6, <1>7
  <1>9. ASSUME NEW i \in 1 .. (k - 1) PROVE a[i] # FrontBlock
    <2>1. i \in 1 .. blocks /\ 0 \in 0 .. (i - 1) /\ ~(k <= i)
      BY <1>1, <1>8
    <2>2. a[0] = FrontBlock
      BY <1>1, <1>2
    <2> QED BY <1>5, <2>1, <2>2
  <1> QED BY <1>3, <1>8, <1>9 DEF Round

\* Between calls: until the walk has passed TailBlock it has counted what is before
\* its block, and from then on all there is.
LEMMA IndInvSizeExact == IndInv => SizeIsExact
  <1> SUFFICES ASSUME IndInv, pro.step = "idle", con.step = "idle"
               PROVE  SizeApprox = put - got
    BY DEF SizeIsExact
  <1>1. /\ TypeOK /\ Ring /\ blocks \in Nat \ {0} /\ put \in Nat /\ got \in Nat
        /\ FrontBlock \in Made /\ TailBlock \in Made
    BY SizesAssumption DEF IndInv, TypeOK
  <1>2. PICK a, u : Walk(a) /\ Sums(a, u) /\ SizeApprox = u[CHOOSE k \in 1 .. blocks : Round(a, k)]
    BY <1>1, WalkExists, SumsExist, SizeDef
  <1>3. a \in [0 .. blocks -> Made] /\ \E k \in 1 .. blocks : Round(a, k)
    BY <1>1, <1>2, WalkIsRound
  <1>4. PICK n \in 1 .. blocks : Round(a, n) /\ SizeApprox = u[n]
    BY <1>2, <1>3
  <1>5. /\ a[0] = FrontBlock /\ u[0] = 0
        /\ \A k \in 0 .. (blocks - 1) : /\ a[k + 1] = Next[a[k]]
                                        /\ u[k + 1] = u[k] + Held(a[k])
    <2>1. a[0] = FrontBlock /\ u[0] = 0
      BY <1>1, <1>2 DEF Walk, Sums
    <2>2. ASSUME NEW k \in 0 .. (blocks - 1)
          PROVE  a[k + 1] = Next[a[k]] /\ u[k + 1] = u[k] + Held(a[k])
      <3>1. k + 1 \in 0 .. blocks /\ k + 1 # 0 /\ (k + 1) - 1 = k
        BY <1>1
      <3>2. /\ a[k + 1] = IF k + 1 = 0 THEN FrontBlock ELSE Next[a[(k + 1) - 1]]
            /\ u[k + 1] = IF k + 1 = 0 THEN 0 ELSE u[(k + 1) - 1] + Held(a[(k + 1) - 1])
        BY <1>2, <3>1 DEF Walk, Sums
      <3> QED BY <3>1, <3>2
    <2> QED BY <2>1, <2>2
  <1>6. \A b \in Made : Held(b) = CountOf(b) /\ CountOf(b) \in Nat
    <2> TAKE b \in Made
    <2>1. /\ Size[b] \in Nat /\ Size[b] >= 2 /\ Front[b] \in 0 .. (Size[b] - 1)
          /\ Tail[b] \in 0 .. (Size[b] - 1) /\ CountOf(b) \in 0 .. (Size[b] - 1)
      BY <1>1, BlockTypes DEF Slots
    <2>2. (Tail[b] - Front[b]) % Size[b]
            = IF Tail[b] >= Front[b] THEN Tail[b] - Front[b] ELSE Tail[b] - Front[b] + Size[b]
      BY <2>1, Distance
    <2>3. Held(b) = CountOf(b)
      BY <2>2 DEF Held, CountOf, Ahead
    <2>4. CountOf(b) \in Nat
      BY <2>1
    <2> QED BY <2>3, <2>4
  <1>7. /\ FrontBlock \in Used /\ Used \subseteq Made
        /\ \A b \in Made \ Used : CountOf(b) = 0
    BY <1>1, <1>6 DEF Used
  <1>8. \A b \in Used : First(b) \in Nat
    <2> TAKE b \in Used
    <2>1. CASE b = FrontBlock
      BY <1>1, <2>1 DEF First
    <2>2. CASE b # FrontBlock
      BY <2>2 DEF Used, IndInv, Content
    <2> QED BY <2>1, <2>2
  <1> DEFINE Before(k) == /\ a[k] \in Used /\ u[k] \in Int /\ u[k] = First(a[k]) - got
                          /\ k # 0 => a[k] # FrontBlock
             Passed(k) == /\ k # 0 /\ u[k] = put - got
                          /\ a[k] \in Used => a[k] = FrontBlock
             S == {k \in 0 .. n : Before(k) \/ Passed(k)}
  <1>9. 0 \in S
    <2>1. Before(0) /\ 0 \in 0 .. n
      BY <1>1, <1>4, <1>5, <1>7 DEF First
    <2> QED BY <2>1
  <1>10. ASSUME NEW k \in 0 .. (n - 1), k \in S PROVE k + 1 \in S
    <2>1. /\ k \in 0 .. (blocks - 1) /\ k + 1 \in 0 .. n /\ k + 1 # 0
          /\ k # 0 => k \in 1 .. (n - 1)
      BY <1>1, <1>4
    <2>2. /\ a[k] \in Made /\ a[k + 1] = Next[a[k]] /\ u[k + 1] = u[k] + CountOf(a[k])
          /\ CountOf(a[k]) \in Nat
      BY <1>1, <1>3, <1>5, <1>6, <2>1
    <2>3. k # 0 => a[k] # FrontBlock
      BY <1>4, <2>1 DEF Round
    <2>4. CASE Before(k) /\ a[k] # TailBlock
      <3>1. /\ a[k + 1] \in Used \ {FrontBlock}
            /\ First(a[k + 1]) = First(a[k]) + CountOf(a[k])
        BY <1>1, <2>2, <2>4 DEF Ring
      <3>2. First(a[k]) \in Nat /\ u[k] \in Int /\ u[k] = First(a[k]) - got
        BY <1>8, <2>4
      <3>3. u[k + 1] \in Int /\ u[k + 1] = First(a[k + 1]) - got
        BY <1>1, <2>2, <3>1, <3>2
      <3>4. Before(k + 1)
        BY <3>1, <3>3
      <3> QED BY <2>1, <3>4
    <2>5. CASE Before(k) /\ a[k] = TailBlock
      <3>1. First(a[k]) + CountOf(a[k]) = put /\ First(a[k]) \in Nat
        BY <1>1, <1>8, <2>5 DEF Ring
      <3>2. u[k + 1] = put - got
        BY <1>1, <2>2, <2>5, <3>1
      <3>3. a[k + 1] \in Used => a[k + 1] = FrontBlock
        BY <1>1, <2>2, <2>5 DEF Ring
      <3>4. Passed(k + 1)
        BY <2>1, <3>2, <3>3
      <3> QED BY <2>1, <3>4
    <2>6. CASE Passed(k)
      <3>1. a[k] \in Made \ Used
        BY <2>2, <2>3, <2>6
      <3>2. u[k + 1] = put - got
        BY <1>1, <1>7, <2>2, <2>6, <3>1
      <3>3. a[k + 1] \in Used => a[k + 1] = FrontBlock
        BY <1>1, <2>2, <3>1 DEF Ring
      <3>4. Passed(k + 1)
        BY <2>1, <3>2, <3>3
      <3> QED BY <2>1, <3>4
    <2> HIDE DEF Before, Passed
    <2> QED BY <1>10, <2>4, <2>5, <2>6
  <1>11. n \in S
    <2> HIDE DEF S
    <2>1. 0 .. n \subseteq S
      BY <1>1, <1>4, <1>9, <1>10, Upward
    <2> QED BY <1>1, <2>1
  <1>12. n # 0 /\ a[n] = FrontBlock
    BY <1>1, <1>4 DEF Round
  <1> QED BY <1>4, <1>11, <1>12

\* For any blocks and items: between calls SizeApprox is the number of items, from
\* one walk round the ring, if the consumer's loads are not stale.
THEOREM SizeExact ==
    ASSUME StaleTail = FALSE PROVE Spec => []SizeIsExact
  BY Inductive, IndInvSizeExact, PTL
-----------------------------------------------------------------------------
(* BlockingReaderWriterQueue never takes an item that is not there, for     *)
(* every capacity: with the older version of the semaphore whatever the     *)
(* timeouts, with the C++20 version as long as nobody uses one.  It sees of *)
(* the queue inside only how many items there are.                          *)

LEMMA BlockingInit == BQInit => Inv
  BY CapacityAssumption
  DEF BQInit, Inv, BQTypeOK, BQIndInv, ItemsAreCounted, KernelUnit, CountFloor,
      OnlyLegacyRestores, Waiting, Bit

\* Each step of the producer preserves the invariant.
LEMMA BlockingProducer == Inv /\ BQProducer => Inv'
  <1> SUFFICES ASSUME Inv, BQProducer PROVE Inv'
    OBVIOUS
  <1> USE CapacityAssumption
          DEF Inv, BQTypeOK, BQIndInv, ItemsAreCounted, KernelUnit, CountFloor,
              OnlyLegacyRestores, Waiting, Bit
  <1>1. CASE PutItem
    BY <1>1 DEF PutItem
  <1>2. CASE SignalCount
    BY <1>2 DEF SignalCount, SleeperSeen
  <1>3. CASE Release
    BY <1>3 DEF Release
  <1> QED
    BY <1>1, <1>2, <1>3 DEF BQProducer

\* Each step of the consumer does.
LEMMA BlockingConsumer == Sound /\ Inv /\ BQConsumer => Inv'
  <1> SUFFICES ASSUME Sound, Inv, BQConsumer PROVE Inv'
    OBVIOUS
  <1> USE CapacityAssumption
          DEF Inv, BQTypeOK, BQIndInv, ItemsAreCounted, KernelUnit, CountFloor,
              OnlyLegacyRestores, Waiting, Bit, Goto
  <1>1. CASE \E t \in Timeouts : WaitBegins(t)
    BY <1>1 DEF WaitBegins
  <1>2. CASE SeesUnit
    BY <1>2 DEF SeesUnit
  <1>3. CASE TakeUnit
    BY <1>3 DEF TakeUnit
  <1>4. CASE SpinEnds
    BY <1>4 DEF SpinEnds, Sound
  <1>5. CASE Wakes
    BY <1>5 DEF Wakes
  <1>6. CASE TimesOut
    BY <1>6 DEF TimesOut, Sound
  <1>7. CASE Restore
    BY <1>7 DEF Restore
  <1>8. CASE Undo
    BY <1>8 DEF Undo
  <1>9. CASE TryAcquire
    BY <1>9 DEF TryAcquire
  <1>10. CASE TakeItem
    BY <1>10 DEF TakeItem
  <1> QED
    BY <1>1, <1>2, <1>3, <1>4, <1>5, <1>6, <1>7, <1>8, <1>9, <1>10
    DEF BQConsumer

\* In every reachable state each item is counted once, granted or on its way.
THEOREM BlockingInvariance == Sound => (BQSpec => []Inv)
  <1> SUFFICES ASSUME Sound PROVE BQSpec => []Inv
    OBVIOUS
  <1>1. BQInit => Inv
    BY BlockingInit
  <1>2. Inv /\ [BQNext]_BQvars => Inv'
    <2>1. Inv /\ UNCHANGED BQvars => Inv'
      BY DEF BQvars, Inv, BQTypeOK, BQIndInv, ItemsAreCounted, KernelUnit, CountFloor,
             OnlyLegacyRestores, Waiting, Bit
    <2> QED
      BY <2>1, BlockingProducer, BlockingConsumer DEF BQNext
  <1> QED
    BY <1>1, <1>2, PTL DEF BQSpec

\* assert( Success ) never fires: a consumer that was granted a unit finds its
\* item.
THEOREM BlockingAssertionHolds == Sound => (BQSpec => []GrantedFindsItem)
  <1> SUFFICES ASSUME Sound PROVE BQSpec => []GrantedFindsItem
    OBVIOUS
  <1>1. Inv => GrantedFindsItem
    BY DEF Inv, BQTypeOK, BQIndInv, ItemsAreCounted, CountFloor, Waiting, Bit,
           GrantedFindsItem
  <1> QED
    BY <1>1, BlockingInvariance, PTL

\* The binary semaphore is never released twice, and when nobody is inside a
\* call the count is exact.
THEOREM BlockingSemaphoreExact ==
    Sound => (BQSpec => [](ReleaseIsBinary /\ QuietCountIsExact))
  <1> SUFFICES ASSUME Sound
               PROVE BQSpec => [](ReleaseIsBinary /\ QuietCountIsExact)
    OBVIOUS
  <1>1. Inv => ReleaseIsBinary /\ QuietCountIsExact
    BY DEF Inv, BQTypeOK, BQIndInv, ItemsAreCounted, KernelUnit, Waiting, Bit,
           ReleaseIsBinary, QuietCountIsExact
  <1> QED
    BY <1>1, BlockingInvariance, PTL
=============================================================================
