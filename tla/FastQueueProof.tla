--------------------------- MODULE FastQueueProof ---------------------------
(***************************************************************************)
(* What FastQueueProps states holds for any numbers of consumers and       *)
(* blocks and any sizes of blocks and index arrays, in the executions      *)
(* where no item operation throws and EnqueueBulk is never out of memory.  *)
(***************************************************************************)
EXTENDS FastQueueProps, FiniteSetTheorems, SequenceTheorems, WellFoundedInduction, TLAPS

-----------------------------------------------------------------------------
(* Positions and blocks: block number q holds the positions from Base(q) on. *)

Num(p) == p \div BlockSize
Base(q) == q * BlockSize
Off(p) == p % BlockSize

LEMMA DivMod ==
    ASSUME NEW p \in Int
    PROVE  /\ Num(p) \in Int /\ Off(p) \in Slots
           /\ p = Base(Num(p)) + Off(p)
BY SizesAssumption DEF Num, Base, Off, Slots

LEMMA NumOf ==
    ASSUME NEW q \in Int, NEW r \in Slots
    PROVE  /\ Base(q) \in Int
           /\ Num(Base(q) + r) = q
           /\ Off(Base(q) + r) = r
BY SizesAssumption DEF Num, Base, Off, Slots

LEMMA NumBetween ==
    ASSUME NEW p \in Int, NEW q \in Int
    PROVE  /\ Base(q) <= p <=> q <= Num(p)
           /\ p < Base(q + 1) <=> Num(p) <= q
BY SizesAssumption DEF Num, Base

LEMMA BaseStep ==
    ASSUME NEW q \in Int
    PROVE  /\ Base(q) \in Int /\ Base(q + 1) = Base(q) + BlockSize
           /\ Num(Base(q)) = q /\ Off(Base(q)) = 0
<1>1. 0 \in Slots
  BY SizesAssumption DEF Slots
<1>2. Base(q) \in Int /\ Base(q) + 0 = Base(q)
  BY SizesAssumption DEF Base
<1>3. Num(Base(q)) = q /\ Off(Base(q)) = 0
  BY <1>1, <1>2, NumOf
<1>4. Base(q + 1) = Base(q) + BlockSize
  BY SizesAssumption DEF Base
<1> QED BY <1>2, <1>3, <1>4

LEMMA BaseOrder ==
    ASSUME NEW q \in Int, NEW r \in Int
    PROVE  /\ q < r <=> Base(q) < Base(r)
           /\ q = r <=> Base(q) = Base(r)
           /\ (Base(q) - Base(r)) \div BlockSize = q - r
<1>1. Base(q) \in Int /\ Base(r) \in Int /\ Num(Base(q)) = q /\ Num(Base(r)) = r
  BY BaseStep
<1>2. Base(q) - Base(r) = Base(q - r)
  BY SizesAssumption DEF Base
<1>3. Num(Base(q - r)) = q - r
  BY BaseStep
<1>4. Base(q) <= Base(r) <=> q <= r
  BY <1>1, NumBetween
<1> QED BY <1>1, <1>2, <1>3, <1>4 DEF Num

\* The next position.
LEMMA NumNext ==
    ASSUME NEW p \in Int
    PROVE  /\ Off(p) = 0 => Num(p - 1) = Num(p) - 1
           /\ Off(p) # 0 => Num(p - 1) = Num(p) /\ Off(p - 1) = Off(p) - 1
<1> DEFINE q == Num(p)
           r == Off(p)
<1>1. q \in Int /\ r \in Slots /\ p = Base(q) + r /\ BlockSize \in Nat \ {0, 1}
  BY DivMod, SizesAssumption
<1>2. Base(q) \in Int /\ Base(q - 1) \in Int /\ Base(q) = Base(q - 1) + BlockSize
  <2>1. q - 1 \in Int /\ (q - 1) + 1 = q
    BY <1>1
  <2> HIDE DEF q
  <2> QED BY <2>1, <1>1, BaseStep
<1>3. CASE r = 0
  <2>1. p - 1 = Base(q - 1) + (BlockSize - 1) /\ BlockSize - 1 \in Slots
    BY <1>1, <1>2, <1>3 DEF Slots
  <2> QED BY <1>1, <1>3, <2>1, NumOf, q - 1 \in Int
<1>4. CASE r # 0
  <2>1. p - 1 = Base(q) + (r - 1) /\ r - 1 \in Slots
    BY <1>1, <1>2, <1>4 DEF Slots
  <2> QED BY <1>1, <1>4, <2>1, NumOf
<1> QED BY <1>3, <1>4

LEMMA NumOrder ==
    ASSUME NEW p \in Int, NEW r \in Int, p <= r
    PROVE  Num(p) <= Num(r)
<1>1. Num(p) \in Int /\ Num(r) \in Int
  BY DivMod
<1>2. Base(Num(p)) <= p /\ Base(Num(p)) \in Int
  BY <1>1, NumBetween, BaseStep
<1> QED BY <1>1, <1>2, NumBetween

\* Two positions of one block.
LEMMA SamePlace ==
    ASSUME NEW p \in Int, NEW r \in Int, Num(p) = Num(r), Off(p) = Off(r)
    PROVE  p = r
BY DivMod

-----------------------------------------------------------------------------
(* Remainders. *)

LEMMA DivModS ==
    ASSUME NEW s \in Nat \ {0}, NEW x \in Int
    PROVE  /\ x \div s \in Int /\ x % s \in 0 .. (s - 1)
           /\ x = (x \div s) * s + (x % s)
OBVIOUS

LEMMA ModUnique ==
    ASSUME NEW s \in Nat \ {0}, NEW m \in Int, NEW r \in 0 .. (s - 1)
    PROVE  (m * s + r) % s = r
OBVIOUS

LEMMA ModShift ==
    ASSUME NEW s \in Nat \ {0}, NEW x \in Int, NEW m \in Int
    PROVE  (x + m * s) % s = x % s
<1>1. PICK a \in Int, r \in 0 .. (s - 1) : x = a * s + r /\ r = x % s
  BY DivModS
<1>2. x + m * s = (a + m) * s + r /\ a + m \in Int
  BY <1>1
<1>3. ((a + m) * s + r) % s = r
  BY <1>2, ModUnique
<1> QED BY <1>1, <1>2, <1>3

LEMMA ModPlus ==
    ASSUME NEW s \in Nat \ {0}, NEW x \in Int, NEW y \in Int
    PROVE  (x % s) + y \in Int /\ ((x % s) + y) % s = (x + y) % s
<1>1. PICK a \in Int, r \in 0 .. (s - 1) : x = a * s + r /\ r = x % s
  BY DivModS
<1>2. x + y = (r + y) + a * s /\ r + y \in Int
  BY <1>1
<1>3. ((r + y) + a * s) % s = (r + y) % s
  BY <1>2, ModShift
<1> QED BY <1>1, <1>2, <1>3

LEMMA ModSame ==
    ASSUME NEW s \in Nat \ {0}, NEW x \in Int, NEW y \in Int, x % s = y % s
    PROVE  \E m \in Int : y = x + m * s
<1>1. PICK a \in Int, r \in 0 .. (s - 1) : x = a * s + r /\ r = x % s
  BY DivModS
<1>2. PICK b \in Int, t \in 0 .. (s - 1) : y = b * s + t /\ t = y % s
  BY DivModS
<1>3. y = x + (b - a) * s
  BY <1>1, <1>2
<1> QED BY <1>3

LEMMA ModSmall ==
    ASSUME NEW s \in Nat \ {0}, NEW x \in 0 .. (s - 1)
    PROVE  x % s = x
OBVIOUS

-----------------------------------------------------------------------------
(* Numbers. *)

\* A set of natural numbers has a least one.
LEMMA Least ==
    ASSUME NEW T, T \subseteq Nat, T # {}
    PROVE  \E x \in T : \A y \in T : x <= y
  <1>1. \A i, j \in Nat : i < j => <<i, j>> \in OpToRel(<, Nat)
    BY DEF OpToRel
  <1>2. PICK R : IsWellFoundedOn(R, Nat) /\ \A i, j \in Nat : i < j => <<i, j>> \in R
    BY <1>1, NatLessThanWellFounded
  <1>3. PICK x \in T : \A y \in T : ~(<<y, x>> \in R)
    <2>1. IsWellFoundedOn(R, Nat)
      BY <1>2
    <2> QED BY <2>1, WFMin
  <1>4. ASSUME NEW y \in T PROVE x <= y
    <2>1. x \in Nat /\ y \in Nat
      OBVIOUS
    <2>2. ~(y < x)
      BY <1>2, <1>3, <2>1
    <2> QED BY <2>1, <2>2
  <1> QED BY <1>4

\* What 0 has and each number below n hands on, all up to n have.
LEMMA Upward ==
    ASSUME NEW n \in Nat, NEW S, 0 \in S,
           \A k \in 0 .. (n - 1) : k \in S => k + 1 \in S
    PROVE  0 .. n \subseteq S
  <1> DEFINE T == {k \in 0 .. n : k \notin S}
  <1>1. SUFFICES ASSUME T # {} PROVE FALSE
    OBVIOUS
  <1>2. T \subseteq Nat
    OBVIOUS
  <1>3. PICK k \in T : \A j \in T : k <= j
    <2> HIDE DEF T
    <2> QED BY <1>1, <1>2, Least
  <1>4. k \in 1 .. n /\ k - 1 \in 0 .. (n - 1) /\ k - 1 \notin T /\ (k - 1) + 1 = k
    BY <1>3
  <1> QED BY <1>3, <1>4

-----------------------------------------------------------------------------
(* Types. *)

\* No constructor and no assignment throws, and EnqueueBulk never fails.
NothingFails(p) ==
    /\ "ctor" \notin p.Faults /\ "assign" \notin p.Faults
    /\ p.BulkCounts # {} => p.Faults = {} /\ "CannotAlloc" \notin p.Modes

Modes     == UNION {p.Modes : p \in Programs}
TakeSteps == {"bulkReuse", "bulkFresh"}
BulkSteps == {"bulkReuse", "bulkFresh", "fill", "bulkIndex", "bulkTail"}
Entries   == [base : Int, block : Blocks] \union JunkEntries
Arrays    == UNION {[size : {n}, tail : Int, entries : [0 .. (n - 1) -> Entries]] : n \in Nat \ {0}}
MaybeBlock == Blocks \union {NoBlock}

EnqCalls  == [step : {"enqFresh"}, old : MaybeBlock, mode : Modes]
                \union [step : {"enqIndex", "enqConstruct"}, old : MaybeBlock]
BulkCalls == [step : BulkSteps, mode : Modes, n : Nat \ {0}, need : Int, base : Int,
              startBlock : MaybeBlock, firstNew : MaybeBlock,
              origNext : Int, origUsed : Int, block : MaybeBlock, done : Nat]
Lookups   == [step : {"array"}, item : Nat, need : Nat \ {0}]
                \union [step : {"tail"}, item : Nat, need : Nat \ {0}, array : Nat]
                \union [step : {"lookup"}, item : Nat, need : Nat \ {0}, array : Nat, tail : Int]
                \union [step : {"take"}, item : Nat, need : Nat \ {0}, block : Blocks]
                \union [step : {"setEmpty"}, item : Nat, need : Nat \ {0}, block : Blocks,
                        after : MaybeBlock]

Cur == Len(arrays)

TypeOK ==
    /\ HeadIndex \in Nat /\ TailIndex \in Nat /\ HeadIndex <= TailIndex
    /\ TailBlock \in MaybeBlock
    /\ next \in [Blocks -> MaybeBlock]
    /\ flags \in [Blocks -> SUBSET Slots]
    /\ slots \in [Blocks -> [Slots -> Nat \union {Raw}]]
    /\ arrays \in Seq(Arrays) /\ Cur >= 1
    /\ PO_NextIndexEntry \in 0 .. (IndexSize - 1)
    /\ PO_IndexEntriesUsed \in 0 .. IndexSize
    /\ manager \subseteq Blocks /\ heap \subseteq Blocks /\ manager \intersect heap = {}
    /\ po \in [step : {"idle", "gone"}] \union EnqCalls \union BulkCalls
    /\ con \in [Consumers -> {NoCall} \union Lookups]
    /\ program \in Programs /\ NothingFails(program)

-----------------------------------------------------------------------------
(* Views of the state. *)

\* The blocks whose positions were published from their first on, and those the
\* producer has put in the ring.
Begun   == Num(TailIndex - 1) + 1
Entered ==
    IF po.step \in {"enqIndex", "enqConstruct"} THEN Begun + 1
    ELSE IF po.step \in BulkSteps THEN Num(po.base) + 1 ELSE Begun

\* The numbers of the blocks in the ring.
Oldest == Entered - PO_IndexEntriesUsed
Window == Oldest .. (Entered - 1)

\* The entry of each of them in the current index, and its block.
Front      == IF po.step = "enqIndex" THEN PO_NextIndexEntry + 1 ELSE PO_NextIndexEntry
Place(q)   == (q + (Front - Entered)) % IndexSize
EntryAt(q) == Current.entries[Place(q)]
BlockOf(q) == EntryAt(q).block

Calling(c) == con[c].step # "idle"

\* The positions a consumer claimed and did not mark yet, and their blocks.
Unmarked(c) == IF Calling(c) THEN con[c].item .. (con[c].item + con[c].need - 1) ELSE {}
Busy(c) == IF Calling(c) THEN Num(con[c].item) .. Num(con[c].item + con[c].need - 1) ELSE {}

\* How many positions of c's claim are in its block.
RunSize(c) ==
    IF Off(con[c].item) + con[c].need < BlockSize
    THEN con[c].need ELSE BlockSize - Off(con[c].item)

\* The blocks that hold positions not marked.
Live == {q \in 0 .. (Entered - 1) : HeadIndex < Base(q + 1) \/ \E c \in Consumers : q \in Busy(c)}

IsMarked(p) == p < HeadIndex /\ \A c \in Consumers : p \notin Unmarked(c)

\* The positions that hold objects.
Filled  == TailIndex + (IF po.step = "fill" THEN po.done
                        ELSE IF po.step \in {"bulkIndex", "bulkTail"} THEN po.n ELSE 0)
Objects == (HeadIndex .. (Filled - 1)) \union UNION {Untaken(c) : c \in Consumers}

-----------------------------------------------------------------------------
(* The inductive invariant. *)

\* The ring has the blocks of the window, each with its entry.
Index ==
    /\ Oldest >= 0 /\ (Entered > 0 => Oldest < Entered)
    /\ \A q \in Window : EntryAt(q).base = Base(q) /\ BlockOf(q) \in Blocks
    /\ \A q, r \in Window : BlockOf(q) = BlockOf(r) => q = r

InRing ==
    /\ Entered = 0 => TailBlock = NoBlock
    /\ Entered > 0 => TailBlock = BlockOf(Entered - 1) /\ next[TailBlock] = BlockOf(Oldest)
    /\ \A q \in Window : q # Entered - 1 => next[BlockOf(q)] = BlockOf(q + 1)

Supply ==
    \A b \in Blocks : b \notin manager \union heap <=> \E q \in Window : b = BlockOf(q)

\* The tail of the index is the entry of a block begun, or of a newer one.
Shown  == po.step \in {"enqConstruct", "bulkTail"}
TailOK ==
    Oldest < Begun \/ Shown =>
        \E t \in Window : /\ Current.tail = Place(t) /\ t >= Begun - 1
                          /\ Shown => t = Entered - 1

LiveInWindow == Live \subseteq Window

FlagsOK == \A q \in Window : \A i \in Slots : i \in flags[BlockOf(q)] <=> IsMarked(Base(q) + i)

Placed == \A p \in Objects : slots[BlockOf(Num(p))][Off(p)] = p

NothingElse ==
    \A b \in Blocks : \A i \in Slots :
        slots[b][i] # Raw =>
            \E p \in Objects : b = BlockOf(Num(p)) /\ i = Off(p)

\* What was claimed is below HeadIndex, and no two claims meet.
ClaimsOK ==
    /\ \A c \in Consumers : Calling(c) => con[c].item + con[c].need <= HeadIndex
    /\ \A c, d \in Consumers : c # d => Unmarked(c) \intersect Unmarked(d) = {}

\* From the entry p of array i a consumer finds block number q.
Leads(i, p, q) ==
    \E t \in Nat :
        /\ arrays[i].entries[p].base = Base(t)
        /\ arrays[i].entries[(p + (q - t)) % arrays[i].size].block = BlockOf(q)

Knows(c) ==
    LET q == Num(con[c].item)
    IN  /\ con[c].step \in {"tail", "lookup"} => con[c].array \in 1 .. Cur
        /\ con[c].step = "tail" /\ con[c].array # Cur =>
              Leads(con[c].array, arrays[con[c].array].tail, q)
        /\ con[c].step = "lookup" =>
              IF con[c].array = Cur
              THEN \E t \in Window : t >= q /\ con[c].tail = Place(t)
              ELSE Leads(con[c].array, con[c].tail, q)
        /\ con[c].step \in {"take", "setEmpty"} => con[c].block = BlockOf(q)
        /\ con[c].step = "setEmpty" /\ q # Num(con[c].item + con[c].need - 1) =>
              con[c].after = BlockOf(q + 1)

CallOK ==
    /\ po.step \in {"enqFresh", "enqIndex", "enqConstruct"} => Off(TailIndex) = 0
    /\ po.step \in BulkSteps =>
          /\ program.Faults = {} /\ po.mode # "CannotAlloc"
          /\ po.base = Base(Entered - 1) /\ Entered >= Begun
          /\ Entered + po.need = Num(TailIndex + po.n - 1) + 1
          /\ po.step \in TakeSteps <=> po.need > 0
          /\ po.firstNew = IF Entered = Begun THEN NoBlock ELSE BlockOf(Begun)
          /\ po.origUsed <= PO_IndexEntriesUsed
          /\ PO_IndexEntriesUsed - po.origUsed <= Entered - Begun
          /\ po.step \in TakeSteps => po.done = 0
          /\ po.step \in TakeSteps \union {"fill"} /\ Num(TailIndex + po.done) < Entered =>
                po.block = BlockOf(Num(TailIndex + po.done))
          /\ po.need >= 0
          /\ po.step = "fill" => po.done < po.n
          /\ po.step = "fill" /\ po.done # 0 => Off(TailIndex + po.done) = 0
          /\ po.step = "bulkIndex" => Entered # Begun

Body == /\ Index /\ InRing /\ Supply /\ TailOK /\ LiveInWindow /\ FlagsOK /\ Placed
        /\ NothingElse /\ ClaimsOK /\ (\A c \in Consumers : Knows(c)) /\ CallOK

\* After Clear.
Gone == /\ \A c \in Consumers : con[c].step = "idle"
        /\ \A b \in Blocks : \A i \in Slots : slots[b][i] = Raw
        /\ manager \union heap = Blocks

IInv == TypeOK /\ (IF po.step = "gone" THEN Gone ELSE Body)
-----------------------------------------------------------------------------
(* What the types say. *)

LEMMA CurTypes ==
    ASSUME TypeOK
    PROVE  /\ Cur \in Nat \ {0} /\ DOMAIN arrays = 1 .. Cur /\ Cur \in 1 .. Cur
           /\ Current = arrays[Cur] /\ IndexSize \in Nat \ {0}
           /\ \A i \in 1 .. Cur :
                 /\ arrays[i] \in Arrays
                 /\ arrays[i].size \in Nat \ {0} /\ arrays[i].tail \in Int
                 /\ arrays[i].entries \in [0 .. (arrays[i].size - 1) -> Entries]
<1>1. arrays \in Seq(Arrays) /\ Cur >= 1
  BY DEF TypeOK
<1>2. /\ Cur \in Nat \ {0} /\ DOMAIN arrays = 1 .. Cur /\ Cur \in 1 .. Cur
      /\ Current = arrays[Cur] /\ \A i \in 1 .. Cur : arrays[i] \in Arrays
  BY <1>1 DEF Cur, Current
<1>3. ASSUME NEW i \in 1 .. Cur
      PROVE  /\ arrays[i].size \in Nat \ {0} /\ arrays[i].tail \in Int
             /\ arrays[i].entries \in [0 .. (arrays[i].size - 1) -> Entries]
  BY <1>2 DEF Arrays
<1> QED BY <1>2, <1>3 DEF IndexSize

LEMMA CallTypes ==
    ASSUME TypeOK, po.step \in BulkSteps
    PROVE  po \in BulkCalls
BY DEF TypeOK, EnqCalls, BulkCalls, BulkSteps

LEMMA StepTypes ==
    ASSUME TypeOK
    PROVE  po.step \in {"idle", "gone", "enqFresh", "enqIndex", "enqConstruct"} \union BulkSteps
BY DEF TypeOK, EnqCalls, BulkCalls, BulkSteps

LEMMA ConTypes ==
    ASSUME TypeOK, NEW c \in Consumers
    PROVE  /\ con[c] \in {NoCall} \union Lookups
           /\ con[c].step \in {"idle", "array", "tail", "lookup", "take", "setEmpty"}
           /\ Calling(c) => con[c].item \in Nat /\ con[c].need \in Nat \ {0}
           /\ con[c].step \in {"tail", "lookup"} => con[c].array \in Nat
           /\ con[c].step = "lookup" => con[c].tail \in Int
           /\ con[c].step \in {"take", "setEmpty"} => con[c].block \in Blocks
           /\ con[c].step = "setEmpty" => con[c].after \in MaybeBlock
<1>1. con[c] \in {NoCall} \union Lookups
  BY DEF TypeOK
<1> QED BY <1>1 DEF NoCall, Lookups, Calling

LEMMA BegunAt ==
    ASSUME NEW p \in Nat
    PROVE  LET q == Num(p - 1) + 1
           IN  /\ q \in Nat /\ Base(q) \in Nat /\ Base(q) - BlockSize < p /\ p <= Base(q)
               /\ Off(p) = 0 => p = Base(q) /\ Num(p) = q
               /\ Off(p) # 0 => p < Base(q) /\ Num(p) = q - 1
<1>1. PICK q \in Int : q = Num(p - 1) + 1
  BY DivMod
<1>2. /\ Num(p - 1) = q - 1 /\ Base(q) \in Int /\ Base(q - 1) \in Int
      /\ Base((q - 1) + 1) = Base(q - 1) + BlockSize /\ BlockSize \in Nat \ {0, 1}
  <2>1. q - 1 \in Int /\ Num(p - 1) = q - 1
    <3>1. Num(p - 1) \in Int
      BY p - 1 \in Int, DivMod
    <3> QED BY <1>1, <3>1
  <2>2. Base(q - 1) \in Int /\ Base((q - 1) + 1) = Base(q - 1) + BlockSize
    BY <2>1, BaseStep
  <2> QED BY <1>1, <2>1, <2>2, BaseStep, SizesAssumption
<1>3. Base(q) = Base(q - 1) + BlockSize
  BY <1>1, <1>2
<1>4. Base(q - 1) <= p - 1 /\ p - 1 < Base(q)
  <2>1. q - 1 \in Int /\ p - 1 \in Int
    BY <1>1
  <2>2. p - 1 < Base((q - 1) + 1) <=> Num(p - 1) <= q - 1
    BY <2>1, NumBetween
  <2>3. Base(q - 1) <= p - 1 <=> q - 1 <= Num(p - 1)
    BY <2>1, NumBetween
  <2>4. (q - 1) + 1 = q /\ q - 1 <= q - 1
    BY <1>1
  <2> QED BY <1>2, <2>2, <2>3, <2>4
<1>5. q >= 0 /\ Base(q) >= 0
  <2>1. 0 <= p /\ p <= Base(q)
    BY <1>2, <1>4
  <2>2. Base(0) = 0
    BY SizesAssumption DEF Base
  <2>3. q < 0 <=> Base(q) < Base(0)
    BY <1>1, 0 \in Int, BaseOrder
  <2> QED BY <1>1, <1>2, <2>1, <2>2, <2>3
<1>6. /\ Off(p) = 0 => Num(p) = q
      /\ Off(p) # 0 => Num(p) = q - 1
  <2>1. Num(p) \in Int /\ p \in Int
    BY DivMod
  <2> QED BY <1>1, <1>2, <2>1, NumNext
<1>7. p = Base(Num(p)) + Off(p) /\ Off(p) \in Slots
  BY DivMod
<1>8. Off(p) = 0 => p = Base(q)
  BY <1>2, <1>6, <1>7
<1>9. Off(p) # 0 => p < Base(q)
  BY <1>2, <1>3, <1>6, <1>7 DEF Slots
<1> QED BY <1>1, <1>2, <1>3, <1>4, <1>5, <1>6, <1>8, <1>9

\* Base(Begun) is the first position at or after TailIndex where a block begins.
LEMMA BegunIs ==
    ASSUME TailIndex \in Nat
    PROVE  /\ Begun \in Nat /\ Base(Begun) \in Nat
           /\ Base(Begun) - BlockSize < TailIndex /\ TailIndex <= Base(Begun)
           /\ Off(TailIndex) = 0 => TailIndex = Base(Begun) /\ Num(TailIndex) = Begun
           /\ Off(TailIndex) # 0 => TailIndex < Base(Begun) /\ Num(TailIndex) = Begun - 1
BY BegunAt DEF Begun

LEMMA ViewTypes ==
    ASSUME TypeOK
    PROVE  /\ Begun \in Nat /\ Entered \in Int /\ Oldest \in Int
           /\ Front \in Nat /\ PO_NextIndexEntry \in Nat
           /\ PO_IndexEntriesUsed \in Nat /\ PO_IndexEntriesUsed <= IndexSize
           /\ HeadIndex \in Nat /\ TailIndex \in Nat /\ HeadIndex <= TailIndex
           /\ BlockSize \in Nat \ {0, 1} /\ Slots = 0 .. (BlockSize - 1)
<1>1. /\ TailIndex \in Nat /\ HeadIndex \in Nat /\ HeadIndex <= TailIndex
      /\ PO_NextIndexEntry \in 0 .. (IndexSize - 1)
      /\ PO_IndexEntriesUsed \in 0 .. IndexSize
      /\ IndexSize \in Nat \ {0} /\ BlockSize \in Nat \ {0, 1}
  BY CurTypes, SizesAssumption DEF TypeOK
<1>2. Begun \in Nat
  BY <1>1, BegunIs
<1>3. PO_NextIndexEntry \in Nat /\ PO_IndexEntriesUsed \in Nat /\ Front \in Nat
  BY <1>1 DEF Front
<1>4. po.step \in BulkSteps => po.base \in Int
  BY CallTypes DEF BulkCalls
<1>5. Entered \in Int
  BY <1>2, <1>4, DivMod DEF Entered
<1> QED BY <1>1, <1>2, <1>3, <1>5 DEF Oldest, Slots

LEMMA PlaceType ==
    ASSUME TypeOK, NEW q \in Int
    PROVE  /\ Place(q) \in 0 .. (IndexSize - 1) /\ Place(q) \in Int
           /\ EntryAt(q) \in Entries
<1>1. q + (Front - Entered) \in Int /\ IndexSize \in Nat \ {0}
  BY ViewTypes, CurTypes
<1>2. Place(q) \in 0 .. (IndexSize - 1)
  BY <1>1, DivModS DEF Place
<1>3. EntryAt(q) \in Entries
  BY <1>2, CurTypes DEF EntryAt, IndexSize
<1> QED BY <1>1, <1>2, <1>3

\* Less than the size apart, two numbers have two places.
LEMMA PlaceInj ==
    ASSUME TypeOK, NEW q \in Int, NEW r \in Int, Place(q) = Place(r),
           q - r < IndexSize, r - q < IndexSize
    PROVE  q = r
<1>1. PICK x \in Int : x = Front - Entered
  BY ViewTypes
<1>2. PICK s \in Nat \ {0} : s = IndexSize
  BY CurTypes
<1>3. q + x \in Int /\ r + x \in Int /\ (q + x) % s = (r + x) % s
  BY <1>1, <1>2 DEF Place
<1>4. PICK m \in Int : r + x = (q + x) + m * s
  BY <1>2, <1>3, ModSame
<1>5. m * s < s /\ (-m) * s < s
  BY <1>1, <1>2, <1>4
<1>6. ~(m >= 1) /\ ~(m <= -1)
  BY <1>2, <1>5
<1> QED BY <1>1, <1>2, <1>4, <1>6

\* From one place to another.
LEMMA PlaceFrom ==
    ASSUME TypeOK, NEW t \in Int, NEW q \in Int
    PROVE  (Place(t) + (q - t)) % IndexSize = Place(q)
<1>1. PICK x \in Int : x = Front - Entered
  BY ViewTypes
<1>2. PICK s \in Nat \ {0} : s = IndexSize
  BY CurTypes
<1>3. (((t + x) % s) + (q - t)) % s = ((t + x) + (q - t)) % s
  <2>1. t + x \in Int /\ q - t \in Int
    BY <1>1
  <2> HIDE <1>1, <1>2
  <2> QED BY <2>1, <1>2, ModPlus
<1>4. (t + x) + (q - t) = q + x
  BY <1>1
<1> QED BY <1>1, <1>2, <1>3, <1>4 DEF Place

LEMMA ClaimSpan ==
    ASSUME NEW p \in Int, NEW n \in Nat \ {0}
    PROVE  Num(p) \in Int /\ Num(p + n - 1) \in Int /\ Num(p) <= Num(p + n - 1)
<1>1. p + n - 1 \in Int /\ p <= p + n - 1
  OBVIOUS
<1> QED BY <1>1, DivMod, NumOrder
-----------------------------------------------------------------------------
(* Lemmas about the views. *)

LEMMA BlockEnds ==
    ASSUME NEW p \in Int
    PROVE  /\ Num(p) \in Int /\ Base(Num(p)) \in Int /\ Base(Num(p) + 1) \in Int
           /\ Base(Num(p)) <= p /\ p < Base(Num(p) + 1)
           /\ Base(Num(p) + 1) = Base(Num(p)) + BlockSize
<1>1. Num(p) \in Int
  BY DivMod
<1>2. Num(p) + 1 \in Int
  BY <1>1
<1>3. Base(Num(p)) \in Int /\ Base(Num(p) + 1) = Base(Num(p)) + BlockSize
  BY <1>1, BaseStep
<1>4. Base(Num(p) + 1) \in Int
  BY <1>2, BaseStep
<1>5. (Base(Num(p)) <= p <=> Num(p) <= Num(p)) /\ (p < Base(Num(p) + 1) <=> Num(p) <= Num(p))
  BY <1>1, NumBetween
<1> QED BY <1>1, <1>3, <1>4, <1>5

LEMMA BaseMono ==
    ASSUME NEW q \in Int, NEW r \in Int, q <= r
    PROVE  Base(q) <= Base(r) /\ Base(q) \in Int /\ Base(r) \in Int
<1>1. Base(q) \in Int /\ Base(r) \in Int
  BY BaseStep
<1>2. (q < r <=> Base(q) < Base(r)) /\ (q = r <=> Base(q) = Base(r))
  BY BaseOrder
<1> QED BY <1>1, <1>2

LEMMA RunIs ==
    ASSUME TypeOK, NEW c \in Consumers, Calling(c)
    PROVE  LET i == con[c].item
               n == RunSize(c)
           IN  /\ n \in 1 .. con[c].need /\ i \in Nat /\ con[c].need \in Nat
               /\ Run(c) = Off(i) .. (Off(i) + n - 1) /\ Run(c) \subseteq Slots
               /\ Cardinality(Run(c)) = n
               /\ \A p \in i .. (i + n - 1) :
                     Num(p) = Num(i) /\ Off(p) = Off(i) + (p - i) /\ Off(p) \in Run(c)
               /\ \A r \in Run(c) : /\ Base(Num(i)) + r \in i .. (i + n - 1)
                                    /\ Num(Base(Num(i)) + r) = Num(i)
                                    /\ Off(Base(Num(i)) + r) = r
               /\ n < con[c].need => Off(i + n) = 0 /\ Num(i + n) = Num(i) + 1
               /\ Num(i) \in Nat
<1> DEFINE i == con[c].item
           m == con[c].need
           n == RunSize(c)
           q == Num(i)
<1>1. i \in Nat /\ m \in Nat /\ m >= 1 /\ BlockSize \in Nat \ {0, 1}
  BY ConTypes, SizesAssumption
<1>2. q \in Int /\ Off(i) \in Slots /\ i = Base(q) + Off(i) /\ Base(q) \in Int
      /\ Base(q + 1) = Base(q) + BlockSize
  BY <1>1, DivMod, BaseStep
<1>3. q \in Nat
  <2>1. Num(0) = 0
    BY SizesAssumption DEF Num
  <2> QED BY <2>1, <1>1, <1>2, NumOrder, 0 \in Int
<1>4. Off(i) \in 0 .. (BlockSize - 1)
  BY <1>2 DEF Slots
<1>5. n = IF Off(i) + m < BlockSize THEN m ELSE BlockSize - Off(i)
  BY DEF RunSize
<1>6. n \in 1 .. m /\ Off(i) + n <= BlockSize /\ n \in Nat
  BY <1>1, <1>4, <1>5
<1>7. Run(c) = Off(i) .. (Off(i) + n - 1)
  <2>1. Run(c) = Off(i) .. ((IF Off(i) + m < BlockSize THEN Off(i) + m ELSE BlockSize) - 1)
    <3>1. (IF Off(i) + m < BlockSize THEN Off(i) + m ELSE BlockSize)
             = Smaller(BlockSize, Off(i) + m)
      BY <1>1, <1>4 DEF Smaller
    <3> QED BY <3>1 DEF Run, Off
  <2>2. (IF Off(i) + m < BlockSize THEN Off(i) + m ELSE BlockSize) - 1 = Off(i) + n - 1
    BY <1>1, <1>4, <1>5
  <2> QED BY <2>1, <2>2
<1>8. Run(c) \subseteq Slots
  BY <1>7, <1>6, <1>4, <1>1 DEF Slots
<1>9. Cardinality(Run(c)) = n
  <2>1. Off(i) \in Int /\ Off(i) + n - 1 \in Int /\ ~(Off(i) > Off(i) + n - 1)
        /\ (Off(i) + n - 1) - Off(i) + 1 = n
    BY <1>4, <1>6
  <2> QED BY <2>1, <1>7, FS_Interval
<1>10. ASSUME NEW p \in i .. (i + n - 1)
       PROVE  Num(p) = Num(i) /\ Off(p) = Off(i) + (p - i) /\ Off(p) \in Run(c)
  <2> HIDE DEF i, n, q
  <2>2. p \in Int /\ i <= p /\ p <= i + n - 1
    BY <1>1, <1>6
  <2>3. Off(i) + (p - i) \in Off(i) .. (Off(i) + n - 1)
    BY <1>1, <1>4, <1>6, <2>2
  <2>1. Off(i) + (p - i) \in Slots /\ p = Base(q) + (Off(i) + (p - i)) /\ p \in Int
        /\ Off(i) + (p - i) \in Run(c)
    BY <2>2, <2>3, <1>1, <1>2, <1>4, <1>7, <1>8, SMTT(30)
  <2> QED BY <2>1, <1>2, NumOf
<1>11. ASSUME NEW r \in Run(c)
       PROVE  /\ Base(Num(i)) + r \in i .. (i + n - 1)
              /\ Num(Base(Num(i)) + r) = Num(i)
              /\ Off(Base(Num(i)) + r) = r
  <2>1. r \in Slots /\ r \in Int /\ Base(q) + r \in i .. (i + n - 1)
    BY <1>1, <1>2, <1>4, <1>6, <1>7, <1>8, SMTT(30)
  <2> QED BY <2>1, <1>2, NumOf
<1>12. n < m => Off(i + n) = 0 /\ Num(i + n) = Num(i) + 1
  <2>1. SUFFICES ASSUME n < m PROVE Off(i + n) = 0 /\ Num(i + n) = Num(i) + 1
    OBVIOUS
  <2>2. n = BlockSize - Off(i)
    BY <2>1, <1>5, <1>1
  <2>3. i + n = Base(q + 1)
    BY <2>2, <1>1, <1>2, <1>4
  <2>4. q + 1 \in Int
    BY <1>2
  <2>5. Num(Base(q + 1)) = q + 1 /\ Off(Base(q + 1)) = 0
    BY <2>4, BaseStep
  <2> QED BY <2>3, <2>5
<1> QED BY <1>1, <1>3, <1>6, <1>7, <1>8, <1>9, <1>10, <1>11, <1>12

LEMMA UntakenIs ==
    ASSUME TypeOK, NEW c \in Consumers
    PROVE  /\ Calling(c) => Untaken(c) =
              (con[c].item + (IF con[c].step = "setEmpty" THEN RunSize(c) ELSE 0))
                 .. (con[c].item + con[c].need - 1)
           /\ ~Calling(c) => Untaken(c) = {}
           /\ Untaken(c) \subseteq Unmarked(c)
<1>1. CASE ~Calling(c)
  BY <1>1 DEF Untaken, Calling
<1>2. CASE Calling(c)
  <2>1. /\ RunSize(c) \in Nat /\ Cardinality(Run(c)) = RunSize(c)
        /\ con[c].item \in Nat /\ con[c].need \in Nat
    BY <1>2, RunIs
  <2>2. Untaken(c) =
              (con[c].item + (IF con[c].step = "setEmpty" THEN RunSize(c) ELSE 0))
                 .. (con[c].item + con[c].need - 1)
    BY <1>2, <2>1 DEF Untaken, Calling
  <2> QED BY <1>2, <2>1, <2>2 DEF Unmarked
<1> QED BY <1>1, <1>2

LEMMA ClaimTypes ==
    ASSUME TypeOK, ClaimsOK, NEW c \in Consumers, Calling(c)
    PROVE  LET last == con[c].item + con[c].need - 1
           IN  /\ con[c].item \in Nat /\ con[c].need \in Nat \ {0} /\ last \in Nat
               /\ con[c].item <= last /\ last < HeadIndex
               /\ Num(con[c].item) \in Nat /\ Num(last) \in Nat
               /\ Num(con[c].item) <= Num(last) /\ Num(last) < Begun
               /\ Unmarked(c) = con[c].item .. last
               /\ Busy(c) = Num(con[c].item) .. Num(last)
<1> DEFINE last == con[c].item + con[c].need - 1
<1>1. /\ con[c].item \in Nat /\ con[c].need \in Nat \ {0}
      /\ con[c].item + con[c].need <= HeadIndex /\ HeadIndex \in Nat /\ TailIndex \in Nat
      /\ HeadIndex <= TailIndex
  BY ConTypes DEF ClaimsOK, TypeOK
<1>2. last \in Nat /\ con[c].item <= last /\ last < HeadIndex /\ last <= TailIndex - 1
      /\ TailIndex - 1 \in Int
  BY <1>1
<1>3. Num(con[c].item) \in Nat
  BY RunIs
<1>4. Num(con[c].item) <= Num(last) /\ Num(last) <= Num(TailIndex - 1) /\ Num(last) \in Int
      /\ Num(TailIndex - 1) \in Int
  BY <1>1, <1>2, NumOrder, DivMod
<1>5. Num(last) < Begun /\ Num(last) \in Nat
  BY <1>3, <1>4 DEF Begun
<1> QED BY <1>1, <1>2, <1>3, <1>4, <1>5 DEF Unmarked, Busy

\* What a call of the producer's is about.
LEMMA EnteredIs ==
    ASSUME TypeOK, Index, CallOK
    PROVE  /\ Entered \in Nat /\ Oldest \in Nat /\ Begun <= Entered /\ Oldest <= Entered
           /\ Entered - Oldest = PO_IndexEntriesUsed /\ Entered - Oldest <= IndexSize
           /\ TailIndex <= Base(Begun) /\ Base(Begun) <= Base(Entered) /\ Base(Entered) \in Nat
           /\ Filled \in Nat /\ TailIndex <= Filled /\ Filled <= Base(Entered)
<1>1. /\ Begun \in Nat /\ Entered \in Int /\ Oldest \in Int /\ PO_IndexEntriesUsed \in Nat
      /\ TailIndex \in Nat /\ PO_IndexEntriesUsed <= IndexSize /\ IndexSize \in Nat
  BY ViewTypes, CurTypes
<1>2. Begun <= Entered
  <2>1. CASE po.step \in BulkSteps
    BY <2>1 DEF CallOK
  <2>2. CASE po.step \notin BulkSteps
    BY <1>1, <2>2 DEF Entered
  <2> QED BY <2>1, <2>2
<1>3. Entered \in Nat /\ Oldest \in Nat /\ Oldest <= Entered
      /\ Entered - Oldest = PO_IndexEntriesUsed
  BY <1>1, <1>2 DEF Index, Oldest
<1>4. TailIndex <= Base(Begun) /\ Base(Begun) <= Base(Entered) /\ Base(Entered) \in Nat
  <2>1. Begun \in Int /\ Entered \in Int
    BY <1>1
  <2> QED BY <1>1, <1>2, <2>1, BegunIs, BaseMono
<1>5. po.step \in {"fill", "bulkIndex", "bulkTail"} =>
         /\ po.n \in Nat \ {0} /\ po.done \in Nat /\ TailIndex + po.n <= Base(Entered)
         /\ po.step = "fill" => po.done < po.n
  <2>1. SUFFICES ASSUME po.step \in {"fill", "bulkIndex", "bulkTail"}
                 PROVE  /\ po.n \in Nat \ {0} /\ po.done \in Nat
                        /\ TailIndex + po.n <= Base(Entered)
                        /\ po.step = "fill" => po.done < po.n
    OBVIOUS
  <2>2. po.step \in BulkSteps /\ po.step \notin TakeSteps
    BY <2>1 DEF BulkSteps, TakeSteps
  <2>3. po.n \in Nat \ {0} /\ po.done \in Nat /\ po.need \in Int
    BY <2>2, CallTypes DEF BulkCalls
  <2>4. /\ po.need = 0 /\ Entered + po.need = Num(TailIndex + po.n - 1) + 1
        /\ po.step = "fill" => po.done < po.n
    BY <2>2, <2>3 DEF CallOK
  <2>5. TailIndex + po.n - 1 \in Int /\ Num(TailIndex + po.n - 1) \in Int
    BY <1>1, <2>3, DivMod
  <2>6. Num(TailIndex + po.n - 1) + 1 = Entered
    BY <1>1, <2>4, <2>5
  <2>7. TailIndex + po.n - 1 < Base(Entered)
    BY <2>5, <2>6, BlockEnds
  <2> QED BY <1>1, <1>4, <2>3, <2>4, <2>7
<1>6. Filled \in Nat /\ TailIndex <= Filled /\ Filled <= Base(Entered)
  <2>1. CASE po.step = "fill"
    <3>1. Filled = TailIndex + po.done
      BY <2>1 DEF Filled
    <3> QED BY <1>1, <1>4, <1>5, <2>1, <3>1
  <2>2. CASE po.step \in {"bulkIndex", "bulkTail"}
    <3>1. Filled = TailIndex + po.n
      BY <2>2 DEF Filled
    <3> QED BY <1>1, <1>4, <1>5, <2>2, <3>1
  <2>3. CASE po.step \notin {"fill", "bulkIndex", "bulkTail"}
    <3>1. Filled = TailIndex
      BY <1>1, <2>3 DEF Filled
    <3> QED BY <1>1, <1>4, <3>1, BegunIs
  <2> QED BY <2>1, <2>2, <2>3
<1> QED BY <1>1, <1>2, <1>3, <1>4, <1>6

LEMMA BusyLive ==
    ASSUME TypeOK, Index, CallOK, ClaimsOK, NEW c \in Consumers, NEW q \in Busy(c)
    PROVE  q \in Live /\ q < Begun /\ q \in Nat /\ Calling(c)
<1>1. Calling(c)
  BY DEF Busy
<1>2. q \in Nat /\ q < Begun
  <2>1. PICK a \in Nat, b \in Nat : Busy(c) = a .. b /\ b < Begun
    BY <1>1, ClaimTypes
  <2> QED BY <2>1, ViewTypes
<1> QED BY <1>1, <1>2, EnteredIs, ViewTypes DEF Live

\* What is at or after HeadIndex is in a live block.
LEMMA AheadLive ==
    ASSUME TypeOK, Index, CallOK, NEW p \in Int, HeadIndex <= p, p < Base(Entered)
    PROVE  p \in Nat /\ Num(p) \in Live /\ Num(p) \in Nat /\ Num(p) < Entered
<1>1. HeadIndex \in Nat /\ Entered \in Nat /\ Base(Entered) \in Nat
  BY ViewTypes, EnteredIs
<1>2. p \in Nat
  BY <1>1
<1>3. /\ Num(p) \in Int /\ p < Base(Num(p) + 1) /\ Base(Num(p) + 1) \in Int
  BY <1>2, BlockEnds
<1>4. Num(p) >= 0
  <2>1. Num(0) = 0
    BY SizesAssumption DEF Num
  <2> QED BY <2>1, <1>2, <1>3, NumOrder, 0 \in Int
<1>5. Num(p) < Entered
  <2>1. Entered - 1 \in Int /\ (Entered - 1) + 1 = Entered
    BY <1>1
  <2>2. p < Base((Entered - 1) + 1) <=> Num(p) <= Entered - 1
    BY <2>1, NumBetween
  <2> QED BY <1>1, <1>3, <2>1, <2>2
<1> QED BY <1>1, <1>2, <1>3, <1>4, <1>5 DEF Live

LEMMA LiveType ==
    ASSUME TypeOK, LiveInWindow, NEW q \in Live
    PROVE  q \in Nat /\ q \in Window /\ q < Entered
BY ViewTypes DEF Live, LiveInWindow

LEMMA ObjectsLive ==
    ASSUME TypeOK, Index, CallOK, ClaimsOK, NEW p \in Objects
    PROVE  p \in Nat /\ Num(p) \in Live /\ Num(p) \in Nat /\ Num(p) < Entered
<1>1. CASE p \in HeadIndex .. (Filled - 1)
  <2>1. p \in Int /\ HeadIndex <= p /\ p < Base(Entered)
    BY <1>1, EnteredIs, ViewTypes
  <2> QED BY <2>1, AheadLive
<1>2. CASE \E c \in Consumers : p \in Untaken(c)
  <2>1. PICK c \in Consumers : p \in Untaken(c)
    BY <1>2
  <2>2. Calling(c) /\ p \in Unmarked(c)
    BY <2>1, UntakenIs
  <2> DEFINE last == con[c].item + con[c].need - 1
  <2>3. /\ con[c].item \in Nat /\ last \in Nat /\ Num(con[c].item) \in Nat /\ Num(last) \in Nat
        /\ Unmarked(c) = con[c].item .. last
        /\ Busy(c) = Num(con[c].item) .. Num(last)
    BY <2>2, ClaimTypes
  <2>4. p \in Nat /\ con[c].item <= p /\ p <= last
    BY <2>2, <2>3
  <2>5. Num(con[c].item) <= Num(p) /\ Num(p) <= Num(last) /\ Num(p) \in Int
    <3>1. con[c].item \in Int /\ last \in Int /\ p \in Int
      BY <2>3, <2>4
    <3> HIDE DEF last
    <3> QED BY <2>4, <3>1, NumOrder, DivMod
  <2>6. Num(p) \in Busy(c)
    BY <2>3, <2>5
  <2> QED BY <2>4, <2>6, BusyLive, EnteredIs, ViewTypes
<1> QED BY <1>1, <1>2 DEF Objects

LEMMA FirstBusy ==
    ASSUME TypeOK, ClaimsOK, NEW c \in Consumers, Calling(c)
    PROVE  /\ Num(con[c].item) \in Busy(c) /\ Num(con[c].item) \in Nat
           /\ Num(con[c].item + con[c].need - 1) \in Busy(c)
BY ClaimTypes
-----------------------------------------------------------------------------
(* Steps that leave the window alone. *)

SameIndex ==
    /\ Cur' = Cur
    /\ \A i \in 1 .. Cur :
          /\ arrays'[i].size = arrays[i].size /\ arrays'[i].entries = arrays[i].entries
          /\ i # Cur => arrays'[i].tail = arrays[i].tail
    /\ PO_IndexEntriesUsed' = PO_IndexEntriesUsed
    /\ Entered' = Entered
    /\ \A q \in Int : Place(q)' = Place(q)

LEMMA SameViews ==
    ASSUME TypeOK, SameIndex
    PROVE  /\ Window' = Window /\ Oldest' = Oldest /\ Entered' = Entered
           /\ IndexSize' = IndexSize /\ Window \subseteq Int
           /\ \A q \in Int : /\ Place(q)' = Place(q) /\ EntryAt(q)' = EntryAt(q)
                             /\ BlockOf(q)' = BlockOf(q)
<1>1. Entered' = Entered /\ PO_IndexEntriesUsed' = PO_IndexEntriesUsed
  BY DEF SameIndex
<1>2. Oldest' = Oldest
  BY <1>1 DEF Oldest
<1>3. Window' = Window
  BY <1>1, <1>2 DEF Window
<1>4. Current'.size = Current.size /\ Current'.entries = Current.entries
  BY CurTypes DEF SameIndex, Current, Cur
<1>5. \A q \in Int : Place(q)' = Place(q)
  BY DEF SameIndex
<1>6. ASSUME NEW q \in Int PROVE EntryAt(q)' = EntryAt(q) /\ BlockOf(q)' = BlockOf(q)
  BY <1>4, <1>5 DEF EntryAt, BlockOf
<1> QED BY <1>1, <1>2, <1>3, <1>4, <1>5, <1>6, ViewTypes DEF IndexSize, Window

LEMMA SameArrays ==
    ASSUME TypeOK, arrays' = arrays, PO_IndexEntriesUsed' = PO_IndexEntriesUsed,
           Entered' = Entered, Front' = Front
    PROVE  SameIndex
BY DEF SameIndex, Cur, Place, IndexSize, Current

LEMMA IndexKept ==
    ASSUME TypeOK, Index, SameIndex
    PROVE  Index'
<1>1. /\ Window' = Window /\ Oldest' = Oldest /\ Entered' = Entered /\ Window \subseteq Int
      /\ \A q \in Int : EntryAt(q)' = EntryAt(q) /\ BlockOf(q)' = BlockOf(q)
  BY SameViews
<1>2. \A q \in Window : EntryAt(q).base' = Base(q) /\ BlockOf(q)' \in Blocks
  BY <1>1 DEF Index
<1>3. \A q, r \in Window : BlockOf(q)' = BlockOf(r)' => q = r
  BY <1>1 DEF Index
<1> QED BY <1>1, <1>2, <1>3 DEF Index

LEMMA RingKept ==
    ASSUME TypeOK, Index, CallOK, InRing, SameIndex, TailBlock' = TailBlock, next' = next
    PROVE  InRing'
<1>1. /\ Window' = Window /\ Oldest' = Oldest /\ Entered' = Entered /\ Window \subseteq Int
      /\ \A q \in Int : BlockOf(q)' = BlockOf(q)
      /\ Entered \in Nat /\ Oldest \in Nat
  BY SameViews, EnteredIs
<1>2. Entered - 1 \in Int /\ \A q \in Int : q + 1 \in Int
  BY <1>1
<1>3. /\ Entered = 0 => TailBlock' = NoBlock
      /\ Entered > 0 => TailBlock' = BlockOf(Entered - 1)' /\ next'[TailBlock'] = BlockOf(Oldest)'
  BY <1>1, <1>2 DEF InRing
<1>4. \A q \in Window : q # Entered - 1 => next'[BlockOf(q)'] = BlockOf(q + 1)'
  BY <1>1, <1>2 DEF InRing
<1> QED BY <1>1, <1>3, <1>4 DEF InRing

LEMMA SupplyKept ==
    ASSUME TypeOK, Supply, SameIndex, manager' = manager, heap' = heap
    PROVE  Supply'
<1>1. Window' = Window /\ Window \subseteq Int /\ \A q \in Int : BlockOf(q)' = BlockOf(q)
  BY SameViews
<1>2. \A b \in Blocks : b \notin manager' \union heap' <=> \E q \in Window : b = BlockOf(q)'
  BY <1>1 DEF Supply
<1> QED BY <1>1, <1>2 DEF Supply

LEMMA SameLive ==
    ASSUME con' = con, HeadIndex' = HeadIndex, Entered' = Entered
    PROVE  /\ Live' = Live /\ \A c \in Consumers : Unmarked(c)' = Unmarked(c)
           /\ \A p : IsMarked(p)' = IsMarked(p)
<1>1. \A c \in Consumers : Unmarked(c)' = Unmarked(c) /\ Busy(c)' = Busy(c)
  BY DEF Unmarked, Busy, Calling
<1>2. Live' = Live
  BY <1>1 DEF Live
<1>3. \A p : IsMarked(p)' = IsMarked(p)
  BY <1>1 DEF IsMarked
<1> QED BY <1>1, <1>2, <1>3

LEMMA FlagsKept ==
    ASSUME TypeOK, FlagsOK, SameIndex, flags' = flags, con' = con, HeadIndex' = HeadIndex
    PROVE  FlagsOK'
<1>1. Window' = Window /\ Window \subseteq Int /\ \A q \in Int : BlockOf(q)' = BlockOf(q)
  BY SameViews
<1>2. \A p : IsMarked(p)' = IsMarked(p)
  BY SameLive DEF SameIndex
<1>3. \A q \in Window : \A i \in Slots :
         i \in flags'[BlockOf(q)'] <=> IsMarked(Base(q) + i)'
  BY <1>1, <1>2 DEF FlagsOK
<1> QED BY <1>1, <1>3 DEF FlagsOK

LEMMA SlotsKept ==
    ASSUME TypeOK, Index, CallOK, ClaimsOK, Placed, NothingElse, SameIndex,
           slots' = slots, Objects' = Objects
    PROVE  Placed' /\ NothingElse'
<1>1. \A q \in Int : BlockOf(q)' = BlockOf(q)
  BY SameViews
<1>2. \A p \in Objects : Num(p) \in Int
  BY ObjectsLive
<1>3. \A p \in Objects : slots'[BlockOf(Num(p))'][Off(p)] = p
  BY <1>1, <1>2 DEF Placed
<1>4. \A b \in Blocks : \A i \in Slots :
        slots'[b][i] # Raw =>
            \E p \in Objects : b = BlockOf(Num(p))' /\ i = Off(p)
  BY <1>1, <1>2 DEF NothingElse
<1> QED BY <1>3, <1>4 DEF Placed, NothingElse

LEMMA ClaimsKept ==
    ASSUME ClaimsOK, con' = con, HeadIndex' = HeadIndex
    PROVE  ClaimsOK'
BY DEF ClaimsOK, Calling, Unmarked

LEMMA LeadsKept ==
    ASSUME TypeOK, SameIndex, NEW i \in 1 .. Cur, NEW p \in Int, NEW q \in Int, Leads(i, p, q)
    PROVE  Leads(i, p, q)'
<1>1. BlockOf(q)' = BlockOf(q)
  BY SameViews
<1>2. arrays'[i].size = arrays[i].size /\ arrays'[i].entries = arrays[i].entries
  BY DEF SameIndex
<1> QED BY <1>1, <1>2 DEF Leads

LEMMA KnowsKept ==
    ASSUME TypeOK, SameIndex, NEW c \in Consumers, Knows(c), con'[c] = con[c]
    PROVE  Knows(c)'
<1> DEFINE q == Num(con[c].item)
<1>1. /\ Window' = Window /\ Cur' = Cur
      /\ \A r \in Int : Place(r)' = Place(r) /\ BlockOf(r)' = BlockOf(r)
      /\ Window \subseteq Int
  BY SameViews DEF SameIndex
<1>2. Calling(c) => q \in Int /\ q + 1 \in Int
  BY ConTypes, DivMod
<1>3. con[c].step \in {"tail", "lookup"} => con[c].array \in 1 .. Cur
  BY DEF Knows
<1>4. ASSUME con[c].step = "tail", con[c].array # Cur
      PROVE  Leads(con[c].array, arrays[con[c].array].tail, q)'
  <2>1. con[c].array \in 1 .. Cur /\ q \in Int
    BY <1>2, <1>3, <1>4 DEF Calling
  <2>2. Leads(con[c].array, arrays[con[c].array].tail, q)
    BY <1>4 DEF Knows
  <2>3. PICK i \in 1 .. Cur, p \in Int :
            i = con[c].array /\ p = arrays[i].tail /\ p = arrays'[i].tail
    BY <1>4, <2>1, CurTypes DEF SameIndex
  <2>4. Leads(i, p, q)
    BY <2>2, <2>3
  <2> HIDE DEF q
  <2>5. Leads(i, p, q)'
    <3>1. PICK r \in Int : r = q
      BY <2>1
    <3>2. Leads(i, p, r)'
      BY <2>4, <3>1, LeadsKept
    <3> QED BY <3>1, <3>2 DEF q
  <2> QED BY <2>3, <2>5 DEF Leads, q
<1>5. ASSUME con[c].step = "lookup"
      PROVE  IF con[c].array = Cur THEN \E t \in Window : t >= q /\ con[c].tail = Place(t)'
             ELSE Leads(con[c].array, con[c].tail, q)'
  <2>1. con[c].array \in 1 .. Cur /\ q \in Int /\ con[c].tail \in Int
    BY <1>2, <1>3, <1>5, ConTypes DEF Calling
  <2>2. CASE con[c].array = Cur
    BY <1>1, <1>5, <2>2 DEF Knows
  <2>3. CASE con[c].array # Cur
    BY <1>5, <2>1, <2>3, LeadsKept DEF Knows
  <2> QED BY <2>2, <2>3
<1>6. /\ con[c].step \in {"take", "setEmpty"} => con[c].block = BlockOf(q)'
      /\ con[c].step = "setEmpty" /\ q # Num(con[c].item + con[c].need - 1) =>
            con[c].after = BlockOf(q + 1)'
  BY <1>1, <1>2 DEF Knows, Calling
<1> QED BY <1>1, <1>3, <1>4, <1>5, <1>6 DEF Knows

\* Of a producer's step that leaves the ring and the consumers alone.
ProducerFrame ==
    /\ SameIndex
    /\ HeadIndex' = HeadIndex /\ con' = con
    /\ TailBlock' = TailBlock /\ next' = next /\ flags' = flags
    /\ manager' = manager /\ heap' = heap

LEMMA ProducerKeeps ==
    ASSUME TypeOK, Body, ProducerFrame
    PROVE  /\ Index' /\ InRing' /\ Supply' /\ LiveInWindow' /\ FlagsOK' /\ ClaimsOK'
           /\ \A c \in Consumers : Knows(c)'
<1>1. /\ SameIndex /\ Index /\ InRing /\ Supply /\ LiveInWindow /\ FlagsOK /\ ClaimsOK /\ CallOK
      /\ \A c \in Consumers : Knows(c)
      /\ HeadIndex' = HeadIndex /\ con' = con
      /\ TailBlock' = TailBlock /\ next' = next /\ flags' = flags
      /\ manager' = manager /\ heap' = heap
  BY DEF Body, ProducerFrame
<1>2. Index' /\ InRing' /\ Supply' /\ FlagsOK' /\ ClaimsOK'
  BY <1>1, IndexKept, RingKept, SupplyKept, FlagsKept, ClaimsKept
<1>3. LiveInWindow'
  BY <1>1, SameLive, SameViews DEF LiveInWindow, SameIndex
<1>4. \A c \in Consumers : Knows(c)'
  BY <1>1, KnowsKept
<1> QED BY <1>2, <1>3, <1>4

\* The tail of the index, if it is not about to be another's.
LEMMA TailKept ==
    ASSUME TypeOK, TailOK, SameIndex, Current'.tail = Current.tail,
           Begun' <= Begun, Begun' \in Int, Shown' => Shown
    PROVE  TailOK'
<1>1. /\ Window' = Window /\ Oldest' = Oldest /\ Entered' = Entered /\ Window \subseteq Int
      /\ \A q \in Int : Place(q)' = Place(q)
  BY SameViews
<1>2. Begun \in Int /\ Oldest \in Int
  BY ViewTypes
<1>3. SUFFICES ASSUME Oldest < Begun' \/ Shown'
               PROVE  \E t \in Window : /\ Current'.tail = Place(t)' /\ t >= Begun' - 1
                                        /\ Shown' => t = Entered - 1
  BY <1>1 DEF TailOK
<1>4. PICK t \in Window : /\ Current.tail = Place(t) /\ t >= Begun - 1
                          /\ Shown => t = Entered - 1
  BY <1>2, <1>3 DEF TailOK
<1>5. Current'.tail = Place(t)' /\ t >= Begun' - 1 /\ (Shown' => t = Entered - 1)
  <2>1. t \in Int
    BY <1>1
  <2>2. Current'.tail = Place(t)'
    BY <1>1, <1>4, <2>1
  <2>3. t >= Begun' - 1
    <3>1. \A a, b, x \in Int : x >= a - 1 /\ b <= a => x >= b - 1
      OBVIOUS
    <3>2. t >= Begun - 1 /\ t \in Int /\ Begun \in Int
      BY <1>2, <1>4, <2>1
    <3> QED BY <3>1, <3>2, ZenonT(30)
  <2>4. Shown' => t = Entered - 1
    BY <1>4
  <2> QED BY <2>2, <2>3, <2>4
<1> QED BY <1>5
-----------------------------------------------------------------------------
(* Steps of the producer inside the window. *)

\* Only po changes, and no view does.
LEMMA CallMoves ==
    ASSUME TypeOK, Body, po'.step # "gone",
           po' \in [step : {"idle", "gone"}] \union EnqCalls \union BulkCalls,
           UNCHANGED <<HeadIndex, TailIndex, ring, flags, slots, index, supply, con, program>>,
           Entered' = Entered, Front' = Front, Filled' = Filled, Shown' => Shown, CallOK'
    PROVE  TypeOK' /\ Body'
<1>1. /\ HeadIndex' = HeadIndex /\ TailIndex' = TailIndex /\ TailBlock' = TailBlock
      /\ next' = next /\ flags' = flags /\ slots' = slots /\ arrays' = arrays
      /\ PO_NextIndexEntry' = PO_NextIndexEntry
      /\ PO_IndexEntriesUsed' = PO_IndexEntriesUsed
      /\ manager' = manager /\ heap' = heap /\ con' = con /\ program' = program
  BY DEF ring, index, supply
<1>2. TypeOK'
  BY <1>1 DEF TypeOK, Cur, IndexSize, Current
<1>3. SameIndex
  BY <1>1, SameArrays
<1>4. ProducerFrame
  BY <1>1, <1>3 DEF ProducerFrame
<1>5. Index /\ CallOK /\ ClaimsOK /\ Placed /\ NothingElse /\ TailOK
  BY DEF Body
<1>6. Objects' = Objects
  BY <1>1 DEF Objects, Untaken, Run
<1>7. Placed' /\ NothingElse'
  BY <1>1, <1>3, <1>5, <1>6, SlotsKept
<1>8. TailOK'
  <2>1. Begun' = Begun /\ Begun \in Int /\ Current'.tail = Current.tail
    BY <1>1, ViewTypes DEF Begun, Current
  <2> QED BY <1>3, <1>5, <2>1, TailKept
<1> QED BY <1>2, <1>4, <1>7, <1>8, ProducerKeeps DEF Body

LEMMA StepNeedsBlock ==
    ASSUME TypeOK, Body, NEW mode \in program.Modes, EnqueueNeedsBlock(mode), program' = program
    PROVE  TypeOK' /\ Body' /\ po'.step # "gone"
<1>1. /\ po.step = "idle" /\ Off(TailIndex) = 0
      /\ po' = [step |-> "enqFresh", old |-> TailBlock, mode |-> mode]
      /\ UNCHANGED <<HeadIndex, TailIndex, ring, flags, slots, index, supply, con>>
  BY DEF EnqueueNeedsBlock, Off
<1>2. TailBlock \in MaybeBlock /\ mode \in Modes
  BY DEF TypeOK, Modes
<1>3. po' \in EnqCalls /\ po'.step = "enqFresh"
  BY <1>1, <1>2 DEF EnqCalls
<1>4. TailIndex' = TailIndex /\ PO_NextIndexEntry' = PO_NextIndexEntry
  BY <1>1 DEF index
<1>5. Entered' = Entered /\ Front' = Front /\ Filled' = Filled /\ ~Shown'
  BY <1>1, <1>3, <1>4 DEF Entered, Front, Filled, Shown, Begun, BulkSteps
<1>6. CallOK'
  BY <1>1, <1>3, <1>4 DEF CallOK, BulkSteps, TakeSteps
<1> QED BY <1>1, <1>3, <1>5, <1>6, CallMoves

LEMMA StepEnqueueFails ==
    ASSUME TypeOK, Body, EnqueueFails, program' = program
    PROVE  TypeOK' /\ Body' /\ po'.step # "gone"
<1>1. /\ po.step = "enqFresh" /\ po' = [step |-> "idle"]
      /\ UNCHANGED <<HeadIndex, TailIndex, ring, flags, slots, index, supply, con>>
  BY DEF EnqueueFails, NoCall
<1>2. TailIndex' = TailIndex /\ PO_NextIndexEntry' = PO_NextIndexEntry
  BY <1>1 DEF index
<1>3. Entered' = Entered /\ Front' = Front /\ Filled' = Filled /\ ~Shown' /\ CallOK'
  BY <1>1, <1>2 DEF Entered, Front, Filled, Shown, Begun, BulkSteps, CallOK, TakeSteps
<1> QED BY <1>1, <1>3, CallMoves

LEMMA StepBulkStart ==
    ASSUME TypeOK, Body, NEW mode \in program.Modes, NEW n \in program.BulkCounts,
           BulkStart(mode, n), program' = program
    PROVE  TypeOK' /\ Body' /\ po'.step # "gone"
<1>1. /\ po.step = "idle"
      /\ po' = [step |-> IF BlocksNeeded(n) > 0 THEN "bulkReuse" ELSE "fill",
                mode |-> mode, n |-> n, need |-> BlocksNeeded(n),
                base |-> BaseBefore,
                startBlock |-> TailBlock, firstNew |-> NoBlock,
                origNext |-> PO_NextIndexEntry, origUsed |-> PO_IndexEntriesUsed,
                block |-> TailBlock, done |-> 0]
      /\ UNCHANGED <<HeadIndex, TailIndex, ring, flags, slots, index, supply, con>>
  BY DEF BulkStart
<1>2. /\ program \in Programs /\ program.BulkCounts \subseteq Nat \ {0} /\ n \in Nat \ {0}
      /\ program.Faults = {} /\ mode # "CannotAlloc" /\ mode \in Modes
      /\ TailBlock \in MaybeBlock
  <2>1. program \in Programs /\ NothingFails(program) /\ TailBlock \in MaybeBlock
    BY DEF TypeOK
  <2>2. program.BulkCounts \subseteq Nat \ {0}
    BY <2>1, SizesAssumption
  <2>3. program.BulkCounts # {}
    OBVIOUS
  <2> QED BY <2>1, <2>2, <2>3 DEF NothingFails, Modes
<1>3. /\ Begun \in Nat /\ TailIndex \in Nat /\ PO_NextIndexEntry \in Nat
      /\ PO_IndexEntriesUsed \in Nat /\ Entered = Begun
  BY <1>1, ViewTypes DEF Entered, BulkSteps
<1>4. /\ Num(TailIndex - 1) = Begun - 1 /\ BaseBefore = Base(Begun - 1)
      /\ Num(Base(Begun - 1)) = Begun - 1 /\ Base(Begun - 1) \in Int
  <2>1. Num(TailIndex - 1) \in Int
    BY <1>3, TailIndex - 1 \in Int, DivMod
  <2>2. Num(TailIndex - 1) = Begun - 1
    BY <2>1 DEF Begun
  <2>3. BaseBefore = Base(Num(TailIndex - 1))
    BY DEF BaseBefore, Base, Num
  <2>4. Begun - 1 \in Int
    BY <1>3
  <2> QED BY <2>2, <2>3, <2>4, BaseStep
<1>5. PICK last \in Int : last = Num(TailIndex + n - 1)
  <2>1. TailIndex + n - 1 \in Int
    BY <1>2, <1>3
  <2> QED BY <2>1, DivMod
<1>6. BlocksNeeded(n) = last - (Begun - 1) /\ BlocksNeeded(n) \in Int
  <2>1. n + TailIndex - 1 = TailIndex + n - 1
    BY <1>2, <1>3
  <2>2. BlocksNeeded(n) = Num(TailIndex + n - 1) - Num(TailIndex - 1)
    BY <2>1 DEF BlocksNeeded, Num
  <2> QED BY <1>3, <1>4, <1>5, <2>2
<1>7. BlocksNeeded(n) >= 0
  <2>1. TailIndex - 1 \in Int /\ TailIndex + n - 1 \in Int /\ TailIndex - 1 <= TailIndex + n - 1
    BY <1>2, <1>3
  <2>2. Num(TailIndex - 1) <= Num(TailIndex + n - 1)
    BY <2>1, NumOrder
  <2> QED BY <1>3, <1>4, <1>5, <1>6, <2>2
<1>8. /\ TailIndex' = TailIndex /\ PO_NextIndexEntry' = PO_NextIndexEntry
      /\ PO_IndexEntriesUsed' = PO_IndexEntriesUsed /\ arrays' = arrays
  BY <1>1 DEF index
<1>9. po' \in BulkCalls
  BY <1>1, <1>2, <1>3, <1>4, <1>6 DEF BulkCalls, BulkSteps, MaybeBlock
<1>10. /\ po'.step \in BulkSteps /\ po'.step \in {"bulkReuse", "fill"} /\ po'.need = BlocksNeeded(n)
       /\ (po'.step = "bulkReuse" <=> BlocksNeeded(n) > 0)
       /\ po'.base = Base(Begun - 1) /\ po'.n = n /\ po'.mode = mode /\ po'.firstNew = NoBlock
       /\ po'.origUsed = PO_IndexEntriesUsed /\ po'.block = TailBlock /\ po'.done = 0
  BY <1>1, <1>4 DEF BulkSteps
<1>11. Begun' = Begun /\ Entered' = Begun
  <2>1. Begun' = Begun
    BY <1>8 DEF Begun
  <2>2. Entered' = Num(po'.base) + 1
    BY <1>10 DEF Entered, BulkSteps
  <2> QED BY <1>3, <1>4, <1>10, <2>1, <2>2
<1>12. Front' = Front /\ Filled' = Filled /\ ~Shown'
  BY <1>1, <1>3, <1>8, <1>10 DEF Front, Filled, Shown
<1>13. SameIndex
  BY <1>3, <1>8, <1>11, <1>12, SameArrays
<1>14. Num(TailIndex) < Begun => Entered > 0 /\ TailBlock = BlockOf(Num(TailIndex))'
  <2>1. SUFFICES ASSUME Num(TailIndex) < Begun
                 PROVE  Entered > 0 /\ TailBlock = BlockOf(Num(TailIndex))'
    OBVIOUS
  <2>2. Num(TailIndex) = Begun - 1 /\ Num(TailIndex) \in Int
    BY <1>3, <2>1, BegunIs, DivMod
  <2>3. Begun > 0
    <3>1. Num(0) = 0 /\ 0 <= TailIndex
      BY <1>3, SizesAssumption DEF Num
    <3>2. 0 <= Num(TailIndex)
      BY <1>3, <3>1, NumOrder, 0 \in Int
    <3> QED BY <1>3, <2>1, <2>2, <3>2
  <2>4. TailBlock = BlockOf(Entered - 1)
    BY <1>3, <2>3 DEF Body, InRing
  <2>5. Entered - 1 = Num(TailIndex)
    BY <1>3, <2>2
  <2>6. PICK q \in Int : q = Num(TailIndex)
    BY <2>2
  <2>7. BlockOf(q)' = BlockOf(q)
    BY <1>13, SameViews
  <2>8. BlockOf(Num(TailIndex))' = BlockOf(q)'
    BY <1>8, <2>6
  <2>9. TailBlock = BlockOf(Num(TailIndex))'
    BY <2>4, <2>5, <2>6, <2>7, <2>8
  <2>10. Entered > 0
    BY <1>3, <2>3
  <2> QED BY <2>9, <2>10
<1>15. CallOK'
  <2>1. /\ program'.Faults = {} /\ po'.mode # "CannotAlloc"
        /\ po'.base = Base(Entered' - 1) /\ Entered' >= Begun'
        /\ Entered' + po'.need = Num(TailIndex' + po'.n - 1) + 1
        /\ (po'.step \in TakeSteps <=> po'.need > 0)
        /\ Entered' = Begun' /\ po'.firstNew = NoBlock
        /\ po'.origUsed <= PO_IndexEntriesUsed'
        /\ PO_IndexEntriesUsed' - po'.origUsed <= Entered' - Begun'
        /\ po'.done = 0 /\ po'.need >= 0 /\ po'.done < po'.n /\ po'.step # "bulkIndex"
    BY <1>2, <1>3, <1>5, <1>6, <1>7, <1>8, <1>10, <1>11 DEF TakeSteps
  <2>2. Num(TailIndex' + po'.done) < Entered' => po'.block = BlockOf(Num(TailIndex + po.done))'
    BY <1>3, <1>8, <1>10, <1>11, <1>14
  <2>3. po'.step \notin {"enqFresh", "enqIndex", "enqConstruct"}
    BY <1>10
  <2> QED BY <2>1, <2>2, <2>3 DEF CallOK
<1> QED BY <1>1, <1>3, <1>9, <1>10, <1>11, <1>12, <1>15, CallMoves
-----------------------------------------------------------------------------
(* The producer publishes what it entered. *)

LEMMA WrapFront ==
    ASSUME NEW s \in Nat \ {0}, NEW q \in Int, NEW f \in Int, NEW e \in Int
    PROVE  (q + ((f % s) - e)) % s = (q + (f - e)) % s
<1>1. q - e \in Int /\ f % s \in Int
  BY DivModS
<1>2. ((f % s) + (q - e)) % s = (f + (q - e)) % s
  BY <1>1, ModPlus
<1>3. PICK g \in Int : g = f % s
  BY <1>1
<1>4. g + (q - e) = q + (g - e) /\ f + (q - e) = q + (f - e)
  BY <1>3
<1> QED BY <1>2, <1>3, <1>4

LEMMA PublishEffect ==
    ASSUME TypeOK, NEW i \in Int, PublishIndexTail(i)
    PROVE  /\ arrays' \in Seq(Arrays) /\ Cur' = Cur /\ IndexSize' = IndexSize
           /\ \A k \in 1 .. Cur :
                 /\ arrays'[k].size = arrays[k].size /\ arrays'[k].entries = arrays[k].entries
                 /\ k # Cur => arrays'[k].tail = arrays[k].tail
           /\ Current'.tail = i
<1>1. /\ arrays' = [arrays EXCEPT ![Cur].tail = i] /\ arrays \in Seq(Arrays)
      /\ Cur \in 1 .. Cur /\ DOMAIN arrays = 1 .. Cur /\ Cur \in Nat
      /\ Current = arrays[Cur]
  BY CurTypes DEF PublishIndexTail, TypeOK, Cur
<1>2. PICK n \in Nat \ {0} :
          arrays[Cur] \in [size : {n}, tail : Int, entries : [0 .. (n - 1) -> Entries]]
  BY CurTypes DEF Arrays
<1> DEFINE new == [arrays[Cur] EXCEPT !.tail = i]
<1>3. /\ new \in [size : {n}, tail : Int, entries : [0 .. (n - 1) -> Entries]]
      /\ new.tail = i /\ new.size = arrays[Cur].size /\ new.entries = arrays[Cur].entries
  BY <1>2
<1>4. new \in Arrays
  BY <1>3 DEF Arrays
<1>5. arrays' = [arrays EXCEPT ![Cur] = new]
  BY <1>1
<1> HIDE DEF new
<1>6. arrays' \in Seq(Arrays) /\ Len(arrays') = Len(arrays)
      /\ arrays'[Cur] = new /\ \A k \in 1 .. Cur : k # Cur => arrays'[k] = arrays[k]
  BY <1>1, <1>4, <1>5 DEF Cur
<1>7. Cur' = Cur /\ Current' = new
  BY <1>6 DEF Cur, Current
<1>8. IndexSize' = IndexSize
  BY <1>1, <1>3, <1>7 DEF IndexSize
<1> QED BY <1>3, <1>6, <1>7, <1>8

LEMMA StepEnqueueIndex ==
    ASSUME TypeOK, Body, EnqueueIndex, program' = program
    PROVE  TypeOK' /\ Body' /\ po'.step # "gone"
<1>1. /\ po.step = "enqIndex"
      /\ PublishIndexTail(PO_NextIndexEntry)
      /\ PO_NextIndexEntry' = Wrapped(PO_NextIndexEntry + 1)
      /\ po' = [po EXCEPT !.step = "enqConstruct"]
      /\ UNCHANGED <<HeadIndex, TailIndex, ring, flags, slots,
                     PO_IndexEntriesUsed, supply, con>>
  BY DEF EnqueueIndex
<1>2. /\ PO_NextIndexEntry \in Int /\ TailIndex' = TailIndex /\ con' = con
      /\ PO_IndexEntriesUsed' = PO_IndexEntriesUsed /\ HeadIndex' = HeadIndex
      /\ TailBlock' = TailBlock /\ next' = next /\ flags' = flags /\ slots' = slots
      /\ manager' = manager /\ heap' = heap /\ PO_NextIndexEntry \in 0 .. (IndexSize - 1)
  BY <1>1, ViewTypes DEF ring, supply, TypeOK
<1>3. /\ arrays' \in Seq(Arrays) /\ Cur' = Cur /\ IndexSize' = IndexSize
      /\ \A k \in 1 .. Cur :
            /\ arrays'[k].size = arrays[k].size /\ arrays'[k].entries = arrays[k].entries
            /\ k # Cur => arrays'[k].tail = arrays[k].tail
      /\ Current'.tail = PO_NextIndexEntry
  BY <1>1, <1>2, PublishEffect
<1>4. po \in [step : {"enqIndex", "enqConstruct"}, old : MaybeBlock]
  BY <1>1 DEF TypeOK, EnqCalls, BulkCalls, BulkSteps
<1>5. po'.step = "enqConstruct" /\ po' \in EnqCalls
  BY <1>1, <1>4 DEF EnqCalls
<1>6. /\ Begun' = Begun /\ Begun \in Nat /\ Entered = Begun + 1 /\ Entered' = Entered
      /\ Front = PO_NextIndexEntry + 1 /\ Front' = Wrapped(PO_NextIndexEntry + 1)
      /\ Entered - 1 \in Int /\ Entered \in Int
  BY <1>1, <1>2, <1>5, ViewTypes DEF Begun, Entered, Front
<1>7. PICK s \in Nat \ {0} : s = IndexSize
  BY CurTypes
<1>8. ASSUME NEW q \in Int PROVE Place(q)' = Place(q)
  <2>1. Place(q)' = (q + ((Front % s) - Entered)) % s
    BY <1>3, <1>6, <1>7 DEF Place, Wrapped
  <2>2. Place(q) = (q + (Front - Entered)) % s
    BY <1>7 DEF Place
  <2>3. Front \in Int /\ Entered \in Int
    BY <1>2, <1>6
  <2> QED BY <2>1, <2>2, <2>3, WrapFront
<1>9. SameIndex
  BY <1>2, <1>3, <1>6, <1>8 DEF SameIndex
<1>10. Place(Entered - 1) = PO_NextIndexEntry
  <2>1. (Entered - 1) + (Front - Entered) = PO_NextIndexEntry
    BY <1>2, <1>6
  <2>2. PO_NextIndexEntry % s = PO_NextIndexEntry
    BY <1>2, <1>7, ModSmall
  <2> QED BY <1>7, <2>1, <2>2 DEF Place
<1>11. /\ Index /\ InRing /\ CallOK /\ ClaimsOK /\ Placed /\ NothingElse
       /\ Entered - 1 \in Window /\ Window' = Window
  <2>1. Index /\ InRing /\ CallOK /\ ClaimsOK /\ Placed /\ NothingElse
    BY DEF Body
  <2>2. Oldest < Entered /\ Oldest \in Int
    BY <1>6, <2>1, ViewTypes DEF Index
  <2> QED BY <1>6, <1>9, <2>1, <2>2, SameViews DEF Window
<1>12. TailOK'
  <2>1. Current'.tail = Place(Entered - 1)' /\ Entered - 1 >= Begun - 1
    BY <1>3, <1>6, <1>8, <1>10
  <2> QED BY <1>6, <1>11, <2>1 DEF TailOK
<1>13. ProducerFrame
  BY <1>2, <1>9 DEF ProducerFrame
<1>14. Objects' = Objects
  BY <1>1, <1>2, <1>5 DEF Objects, Filled, Untaken, Run
<1>15. Placed' /\ NothingElse'
  BY <1>2, <1>9, <1>11, <1>14, SlotsKept
<1>16. CallOK'
  BY <1>1, <1>2, <1>5, <1>11 DEF CallOK, BulkSteps, TakeSteps
<1>17. TypeOK'
  <2>1. PO_NextIndexEntry' \in 0 .. (IndexSize' - 1)
    <3>1. PO_NextIndexEntry + 1 \in Int
      BY <1>2
    <3> QED BY <1>1, <1>3, <1>7, <3>1, DivModS DEF Wrapped
  <2> QED BY <1>2, <1>3, <1>5, <2>1 DEF TypeOK
<1> QED BY <1>5, <1>12, <1>13, <1>15, <1>16, <1>17, ProducerKeeps DEF Body

LEMMA StepBulkIndex ==
    ASSUME TypeOK, Body, BulkIndex, program' = program
    PROVE  TypeOK' /\ Body' /\ po'.step # "gone"
<1>1. /\ po.step = "bulkIndex"
      /\ PublishIndexTail(Wrapped(PO_NextIndexEntry - 1))
      /\ po' = [po EXCEPT !.step = "bulkTail"]
      /\ UNCHANGED <<HeadIndex, TailIndex, ring, flags, slots,
                     PO_NextIndexEntry, PO_IndexEntriesUsed, supply, con>>
  BY DEF BulkIndex
<1>2. /\ PO_NextIndexEntry \in Int /\ TailIndex' = TailIndex /\ con' = con
      /\ PO_IndexEntriesUsed' = PO_IndexEntriesUsed /\ HeadIndex' = HeadIndex
      /\ TailBlock' = TailBlock /\ next' = next /\ flags' = flags /\ slots' = slots
      /\ manager' = manager /\ heap' = heap /\ PO_NextIndexEntry \in 0 .. (IndexSize - 1)
      /\ PO_NextIndexEntry' = PO_NextIndexEntry
  BY <1>1, ViewTypes DEF ring, supply, TypeOK
<1>3. PICK s \in Nat \ {0} : s = IndexSize
  BY CurTypes
<1>4. PICK i \in Int : i = (PO_NextIndexEntry - 1) % s
  BY <1>2, PO_NextIndexEntry - 1 \in Int, DivModS
<1>5. /\ arrays' \in Seq(Arrays) /\ Cur' = Cur /\ IndexSize' = IndexSize
      /\ \A k \in 1 .. Cur :
            /\ arrays'[k].size = arrays[k].size /\ arrays'[k].entries = arrays[k].entries
            /\ k # Cur => arrays'[k].tail = arrays[k].tail
      /\ Current'.tail = i
  BY <1>1, <1>3, <1>4, PublishEffect DEF Wrapped
<1>6. po \in BulkCalls
  BY <1>1, CallTypes DEF BulkSteps
<1>7. /\ po' \in BulkCalls /\ po'.step = "bulkTail"
      /\ po'.mode = po.mode /\ po'.base = po.base /\ po'.need = po.need /\ po'.n = po.n
      /\ po'.firstNew = po.firstNew /\ po'.origUsed = po.origUsed /\ po'.done = po.done
  BY <1>1, <1>6 DEF BulkCalls, BulkSteps
<1>8. /\ Begun' = Begun /\ Begun \in Nat /\ Entered' = Entered
      /\ Front = PO_NextIndexEntry /\ Front' = Front /\ Entered \in Int /\ Entered - 1 \in Int
  BY <1>1, <1>2, <1>7, ViewTypes DEF Begun, Entered, Front, BulkSteps
<1>9. \A q \in Int : Place(q)' = Place(q)
  BY <1>5, <1>8 DEF Place
<1>10. SameIndex
  BY <1>2, <1>5, <1>8, <1>9 DEF SameIndex
<1>11. Place(Entered - 1) = i
  <2>1. (Entered - 1) + (Front - Entered) = PO_NextIndexEntry - 1
    BY <1>2, <1>8
  <2> QED BY <1>3, <1>4, <2>1 DEF Place
<1>12. /\ Index /\ CallOK /\ ClaimsOK /\ Placed /\ NothingElse
       /\ Entered >= Begun /\ po.base = Base(Entered - 1)
  BY <1>1 DEF Body, CallOK, BulkSteps
<1>13. Entered > Begun
  BY <1>1, <1>8, <1>12 DEF CallOK, BulkSteps
<1>14. /\ Entered - 1 \in Window /\ Window' = Window
       /\ \A q \in Int : BlockOf(q)' = BlockOf(q)
  <2>1. Oldest < Entered /\ Oldest \in Int
    BY <1>8, <1>12, <1>13, ViewTypes DEF Index
  <2> QED BY <1>8, <1>10, <2>1, SameViews DEF Window
<1>15. TailOK'
  <2>1. Current'.tail = Place(Entered - 1)' /\ Entered - 1 >= Begun - 1
    BY <1>5, <1>8, <1>9, <1>11, <1>13
  <2> QED BY <1>8, <1>14, <2>1 DEF TailOK
<1>16. ProducerFrame
  BY <1>2, <1>10 DEF ProducerFrame
<1>17. Objects' = Objects
  BY <1>1, <1>2, <1>7 DEF Objects, Filled, Untaken, Run
<1>18. Placed' /\ NothingElse'
  BY <1>2, <1>10, <1>12, <1>17, SlotsKept
<1>19. CallOK'
  <2>1. /\ program.Faults = {} /\ po.mode # "CannotAlloc"
        /\ Entered + po.need = Num(TailIndex + po.n - 1) + 1
        /\ ~(po.need > 0) /\ po.need >= 0
        /\ po.firstNew = IF Entered = Begun THEN NoBlock ELSE BlockOf(Begun)
        /\ po.origUsed <= PO_IndexEntriesUsed
        /\ PO_IndexEntriesUsed - po.origUsed <= Entered - Begun
    BY <1>1, <1>12 DEF CallOK, BulkSteps, TakeSteps
  <2>2. BlockOf(Begun)' = BlockOf(Begun)
    BY <1>8, <1>14
  <2> QED BY <1>2, <1>7, <1>8, <1>12, <2>1, <2>2 DEF CallOK, BulkSteps, TakeSteps
<1>20. TypeOK'
  BY <1>2, <1>5, <1>7 DEF TypeOK
<1> QED BY <1>7, <1>15, <1>16, <1>18, <1>19, <1>20, ProducerKeeps DEF Body
-----------------------------------------------------------------------------
(* The producer constructs items. *)

\* The positions new, all of block q of the window, get their items.
LEMMA SlotsFilled ==
    ASSUME TypeOK, Index, CallOK, ClaimsOK, LiveInWindow, Placed, NothingElse, SameIndex,
           NEW new \in SUBSET Int, NEW q \in Window,
           Objects' = Objects \union new,
           \A p \in new : p \notin Objects /\ Num(p) = q /\ slots'[BlockOf(q)][Off(p)] = p,
           \A b \in Blocks : \A i \in Slots :
               \/ slots'[b][i] = slots[b][i]
               \/ b = BlockOf(q) /\ \E p \in new : i = Off(p)
    PROVE  Placed' /\ NothingElse'
<1>1. /\ \A r \in Int : BlockOf(r)' = BlockOf(r)
      /\ Window \subseteq Int
  BY SameViews
<1>2. \A p \in Objects : p \in Nat /\ Num(p) \in Int /\ Num(p) \in Window /\ Off(p) \in Slots
  BY ObjectsLive, LiveType, DivMod
<1>3. \A r \in Window : BlockOf(r) \in Blocks /\ (BlockOf(r) = BlockOf(q) => r = q)
  BY DEF Index
<1>4. ASSUME NEW p \in Objects
      PROVE  slots'[BlockOf(Num(p))'][Off(p)] = p
  <2>1. BlockOf(Num(p))' = BlockOf(Num(p)) /\ slots[BlockOf(Num(p))][Off(p)] = p
    BY <1>1, <1>2 DEF Placed
  <2>2. BlockOf(Num(p)) \in Blocks /\ Off(p) \in Slots
    BY <1>2, <1>3
  <2>3. CASE BlockOf(Num(p)) = BlockOf(q) /\ \E r \in new : Off(p) = Off(r)
    <3>1. PICK r \in new : Off(p) = Off(r)
      BY <2>3
    <3>2. Num(p) = Num(r) /\ r \in Int /\ p \in Int
      BY <1>2, <1>3, <2>3
    <3>3. p = r
      BY <3>1, <3>2, SamePlace
    <3> QED BY <3>3
  <2>4. CASE ~(BlockOf(Num(p)) = BlockOf(q) /\ \E r \in new : Off(p) = Off(r))
    BY <2>1, <2>2, <2>4
  <2> QED BY <2>3, <2>4
<1>5. ASSUME NEW p \in new
      PROVE  slots'[BlockOf(Num(p))'][Off(p)] = p
  BY <1>1
<1>6. Placed'
  <2>1. ASSUME NEW p \in Objects'
        PROVE  slots'[BlockOf(Num(p))'][Off(p)] = p
    BY <1>4, <1>5, <2>1
  <2> QED BY <2>1 DEF Placed
<1>7. ASSUME NEW b \in Blocks, NEW i \in Slots, slots'[b][i] # Raw
      PROVE  \E p \in Objects' : b = BlockOf(Num(p))' /\ i = Off(p)
  <2>1. CASE b = BlockOf(q) /\ \E p \in new : i = Off(p)
    BY <1>1, <2>1
  <2>2. CASE slots'[b][i] = slots[b][i]
    <3>1. PICK p \in Objects : b = BlockOf(Num(p)) /\ i = Off(p)
      BY <1>7, <2>2 DEF NothingElse
    <3> QED BY <1>1, <1>2, <3>1
  <2> QED BY <2>1, <2>2
<1> QED BY <1>6, <1>7 DEF NothingElse

LEMMA ObjectsBelow ==
    ASSUME TypeOK, Index, CallOK, ClaimsOK, NEW p \in Objects
    PROVE  p < Filled
<1>1. CASE p \in HeadIndex .. (Filled - 1)
  BY <1>1, EnteredIs, ViewTypes
<1>2. CASE \E c \in Consumers : p \in Untaken(c)
  <2>1. PICK c \in Consumers : p \in Untaken(c)
    BY <1>2
  <2>2. p \in Unmarked(c) /\ Calling(c)
    BY <2>1, UntakenIs
  <2>3. PICK a \in Nat, z \in Nat : Unmarked(c) = a .. z /\ z < HeadIndex
    BY <2>2, ClaimTypes
  <2> QED BY <2>2, <2>3, EnteredIs, ViewTypes
<1> QED BY <1>1, <1>2 DEF Objects

\* One item, at TailIndex, in TailBlock.
LEMMA OneFilled ==
    ASSUME TypeOK, Body, SameIndex, Filled = TailIndex, con' = con, HeadIndex' = HeadIndex,
           Filled' = TailIndex + 1, Entered > 0, Num(TailIndex) = Entered - 1,
           slots' = [slots EXCEPT ![TailBlock][Off(TailIndex)] = TailIndex]
    PROVE  /\ Placed' /\ NothingElse'
           /\ slots' \in [Blocks -> [Slots -> Nat \union {Raw}]]
<1>1. /\ Index /\ CallOK /\ ClaimsOK /\ LiveInWindow /\ Placed /\ NothingElse /\ InRing
  BY DEF Body
<1>2. /\ TailIndex \in Nat /\ HeadIndex \in Nat /\ HeadIndex <= TailIndex /\ Entered \in Nat
      /\ Oldest \in Nat /\ Oldest < Entered
  BY <1>1, ViewTypes, EnteredIs DEF Index
<1>3. /\ Entered - 1 \in Window /\ TailBlock = BlockOf(Entered - 1) /\ Off(TailIndex) \in Slots
      /\ TailBlock \in Blocks
  BY <1>1, <1>2, DivMod DEF Window, InRing, Index
<1>4. Objects' = Objects \union {TailIndex}
  <2>1. \A c \in Consumers : Untaken(c)' = Untaken(c)
    BY DEF Untaken, Run
  <2>2. HeadIndex .. ((TailIndex + 1) - 1) = HeadIndex .. (TailIndex - 1) \union {TailIndex}
    BY <1>2
  <2>3. Objects' = (HeadIndex .. ((TailIndex + 1) - 1)) \union UNION {Untaken(c) : c \in Consumers}
    BY <2>1 DEF Objects
  <2>4. Objects = (HeadIndex .. (TailIndex - 1)) \union UNION {Untaken(c) : c \in Consumers}
    BY DEF Objects
  <2> QED BY <2>2, <2>3, <2>4
<1>5. slots \in [Blocks -> [Slots -> Nat \union {Raw}]]
  BY DEF TypeOK
<1>6. /\ slots' \in [Blocks -> [Slots -> Nat \union {Raw}]]
      /\ slots'[TailBlock][Off(TailIndex)] = TailIndex
      /\ \A b \in Blocks : \A i \in Slots :
            slots'[b][i] = slots[b][i] \/ (b = TailBlock /\ i = Off(TailIndex))
  BY <1>2, <1>3, <1>5
<1>7. TailIndex \notin Objects
  <2>1. ~(TailIndex < Filled)
    BY <1>2
  <2> QED BY <1>1, <2>1, ObjectsBelow
<1> DEFINE q == Entered - 1
           new == {TailIndex}
<1>8. /\ new \in SUBSET Int /\ q \in Window /\ Objects' = Objects \union new
      /\ \A p \in new : p \notin Objects /\ Num(p) = q /\ slots'[BlockOf(q)][Off(p)] = p
      /\ \A b \in Blocks : \A i \in Slots :
               \/ slots'[b][i] = slots[b][i]
               \/ b = BlockOf(q) /\ \E p \in new : i = Off(p)
  BY <1>2, <1>3, <1>4, <1>6, <1>7
<1> HIDE DEF q, new
<1>9. Placed' /\ NothingElse'
  BY <1>1, <1>8, SlotsFilled
<1> QED BY <1>6, <1>9

LEMMA BegunNext ==
    ASSUME TypeOK, TailIndex' = TailIndex + 1
    PROVE  Begun' = Num(TailIndex) + 1
<1>1. TailIndex' - 1 = TailIndex
  BY ViewTypes
<1> QED BY <1>1 DEF Begun

LEMMA StepEnqueueInner ==
    ASSUME TypeOK, Body, EnqueueInner, program' = program
    PROVE  TypeOK' /\ Body' /\ po'.step # "gone"
<1>1. /\ po.step = "idle" /\ Off(TailIndex) # 0
      /\ slots' = [slots EXCEPT ![TailBlock][Off(TailIndex)] = TailIndex]
      /\ TailIndex' = TailIndex + 1 /\ HeadIndex' = HeadIndex /\ con' = con /\ po' = po
      /\ TailBlock' = TailBlock /\ next' = next /\ flags' = flags /\ arrays' = arrays
      /\ PO_NextIndexEntry' = PO_NextIndexEntry
      /\ PO_IndexEntriesUsed' = PO_IndexEntriesUsed
      /\ manager' = manager /\ heap' = heap
  BY DEF EnqueueInner, ring, index, supply, Off
<1>2. /\ TailIndex \in Nat /\ HeadIndex \in Nat /\ HeadIndex <= TailIndex /\ Begun \in Nat
      /\ TailIndex' \in Nat /\ HeadIndex <= TailIndex'
  BY <1>1, ViewTypes
<1>3. Num(TailIndex) = Begun - 1 /\ Begun' = Begun
  <2>1. Num(TailIndex) = Begun - 1
    BY <1>1, <1>2, BegunIs
  <2> QED BY <1>1, <1>2, <2>1, BegunNext
<1>4. /\ Entered = Begun /\ Entered' = Entered /\ Front' = Front /\ Filled = TailIndex
      /\ Filled' = TailIndex + 1 /\ ~Shown'
  BY <1>1, <1>2, <1>3 DEF Entered, Front, Filled, Shown, BulkSteps
<1>5. Entered > 0
  <2>1. Num(0) = 0 /\ 0 <= TailIndex
    BY <1>2, SizesAssumption DEF Num
  <2>2. 0 <= Num(TailIndex)
    BY <1>2, <2>1, NumOrder, 0 \in Int
  <2> QED BY <1>2, <1>3, <1>4, <2>2
<1>6. SameIndex
  BY <1>1, <1>4, SameArrays
<1>7. /\ Placed' /\ NothingElse'
      /\ slots' \in [Blocks -> [Slots -> Nat \union {Raw}]]
  BY <1>1, <1>3, <1>4, <1>5, <1>6, OneFilled
<1>8. ProducerFrame
  BY <1>1, <1>6 DEF ProducerFrame
<1>9. TailOK'
  <2>1. TailOK /\ Begun' <= Begun /\ Begun' \in Int /\ Current'.tail = Current.tail
    BY <1>1, <1>2, <1>3 DEF Body, Current
  <2> QED BY <1>4, <1>6, <2>1, TailKept
<1>10. CallOK'
  BY <1>1 DEF CallOK, BulkSteps, TakeSteps
<1>11. TypeOK'
  BY <1>1, <1>2, <1>7 DEF TypeOK, Cur, IndexSize, Current
<1> QED BY <1>1, <1>7, <1>8, <1>9, <1>10, <1>11, ProducerKeeps DEF Body

LEMMA StepEnqueueConstruct ==
    ASSUME TypeOK, Body, EnqueueConstruct, program' = program
    PROVE  TypeOK' /\ Body' /\ po'.step # "gone"
<1>1. /\ po.step = "enqConstruct" /\ po' = [step |-> "idle"]
      /\ slots' = [slots EXCEPT ![TailBlock][0] = TailIndex]
      /\ TailIndex' = TailIndex + 1 /\ HeadIndex' = HeadIndex /\ con' = con
      /\ TailBlock' = TailBlock /\ next' = next /\ flags' = flags /\ arrays' = arrays
      /\ PO_NextIndexEntry' = PO_NextIndexEntry
      /\ PO_IndexEntriesUsed' = PO_IndexEntriesUsed
      /\ manager' = manager /\ heap' = heap
  BY DEF EnqueueConstruct, ring, index, supply, NoCall
<1>2. /\ TailIndex \in Nat /\ HeadIndex \in Nat /\ HeadIndex <= TailIndex /\ Begun \in Nat
      /\ TailIndex' \in Nat /\ HeadIndex <= TailIndex'
  BY <1>1, ViewTypes
<1>3. /\ Off(TailIndex) = 0 /\ Num(TailIndex) = Begun /\ Begun' = Begun + 1
  <2>1. Off(TailIndex) = 0
    BY <1>1 DEF Body, CallOK
  <2>2. Num(TailIndex) = Begun
    BY <1>2, <2>1, BegunIs
  <2> QED BY <1>1, <2>1, <2>2, BegunNext
<1>4. /\ Entered = Begun + 1 /\ Entered' = Entered /\ Front' = Front /\ Filled = TailIndex
      /\ Filled' = TailIndex + 1 /\ ~Shown' /\ Shown /\ Entered > 0
      /\ Num(TailIndex) = Entered - 1 /\ Begun' = Entered
  BY <1>1, <1>2, <1>3 DEF Entered, Front, Filled, Shown, BulkSteps
<1>5. SameIndex
  BY <1>1, <1>4, SameArrays
<1>6. /\ Placed' /\ NothingElse'
      /\ slots' \in [Blocks -> [Slots -> Nat \union {Raw}]]
  BY <1>1, <1>3, <1>4, <1>5, OneFilled
<1>7. ProducerFrame
  BY <1>1, <1>5 DEF ProducerFrame
<1>8. TailOK'
  <2>1. PICK t \in Window : Current.tail = Place(t) /\ t = Entered - 1
    BY <1>4 DEF Body, TailOK
  <2>2. Window' = Window /\ Place(t)' = Place(t) /\ t \in Int
    BY <1>5, <2>1, SameViews
  <2>3. Current'.tail = Place(t)' /\ t >= Begun' - 1
    BY <1>1, <1>2, <1>4, <2>1, <2>2 DEF Current
  <2> QED BY <1>4, <2>2, <2>3 DEF TailOK
<1>9. CallOK'
  BY <1>1 DEF CallOK, BulkSteps, TakeSteps
<1>10. TypeOK'
  BY <1>1, <1>2, <1>6 DEF TypeOK, Cur, IndexSize, Current
<1> QED BY <1>1, <1>6, <1>7, <1>8, <1>9, <1>10, ProducerKeeps DEF Body

LEMMA StepBulkTail ==
    ASSUME TypeOK, Body, BulkTail, program' = program
    PROVE  TypeOK' /\ Body' /\ po'.step # "gone"
<1>1. /\ po.step = "bulkTail" /\ po' = [step |-> "idle"]
      /\ TailIndex' = TailIndex + po.n /\ HeadIndex' = HeadIndex /\ con' = con
      /\ TailBlock' = TailBlock /\ next' = next /\ flags' = flags /\ arrays' = arrays
      /\ PO_NextIndexEntry' = PO_NextIndexEntry
      /\ PO_IndexEntriesUsed' = PO_IndexEntriesUsed
      /\ manager' = manager /\ heap' = heap /\ slots' = slots
  BY DEF BulkTail, ring, index, supply, NoCall
<1>2. po.n \in Nat \ {0} /\ po.need \in Int
  BY <1>1, CallTypes DEF BulkSteps, BulkCalls
<1>3. /\ TailIndex \in Nat /\ HeadIndex \in Nat /\ HeadIndex <= TailIndex /\ Begun \in Nat
      /\ TailIndex' \in Nat /\ HeadIndex <= TailIndex'
  BY <1>1, <1>2, ViewTypes
<1>4. /\ Index /\ CallOK /\ ClaimsOK /\ Placed /\ NothingElse /\ TailOK
      /\ Entered \in Nat
  BY EnteredIs DEF Body
<1>5. Begun' = Entered
  <2>1. Entered + po.need = Num(TailIndex + po.n - 1) + 1 /\ po.need >= 0 /\ ~(po.need > 0)
    BY <1>1, <1>4 DEF CallOK, BulkSteps, TakeSteps
  <2>2. Begun' = Num(TailIndex + po.n - 1) + 1
    <3>1. TailIndex' - 1 = TailIndex + po.n - 1
      BY <1>1, <1>2, <1>3
    <3> QED BY <3>1 DEF Begun
  <2> QED BY <1>2, <1>4, <2>1, <2>2
<1>6. Entered' = Entered /\ Front' = Front /\ ~Shown' /\ Shown
  BY <1>1, <1>5 DEF Entered, Front, Shown, BulkSteps
<1>7. Filled' = Filled
  <2>1. Filled = TailIndex + po.n
    BY <1>1 DEF Filled
  <2>2. Filled' = TailIndex' + 0
    BY <1>1 DEF Filled
  <2> QED BY <1>1, <1>3, <2>1, <2>2
<1>8. SameIndex
  BY <1>1, <1>6, SameArrays
<1>9. Objects' = Objects
  BY <1>1, <1>7 DEF Objects, Untaken, Run
<1>10. Placed' /\ NothingElse'
  BY <1>1, <1>4, <1>8, <1>9, SlotsKept
<1>11. ProducerFrame
  BY <1>1, <1>8 DEF ProducerFrame
<1>12. TailOK'
  <2>1. PICK t \in Window : Current.tail = Place(t) /\ t = Entered - 1
    BY <1>4, <1>6 DEF TailOK
  <2>2. Window' = Window /\ Place(t)' = Place(t) /\ t \in Int
    BY <1>8, <2>1, SameViews
  <2>3. Current'.tail = Place(t)' /\ t >= Begun' - 1
    BY <1>1, <1>4, <1>5, <2>1, <2>2 DEF Current
  <2> QED BY <1>6, <2>2, <2>3 DEF TailOK
<1>13. CallOK'
  BY <1>1 DEF CallOK, BulkSteps, TakeSteps
<1>14. TypeOK'
  BY <1>1, <1>3 DEF TypeOK, Cur, IndexSize, Current
<1> QED BY <1>1, <1>10, <1>11, <1>12, <1>13, <1>14, ProducerKeeps DEF Body
-----------------------------------------------------------------------------
(* EnqueueBulk fills a block. *)

\* A block the call took is live, for its positions are not published yet.
LEMMA TakenLive ==
    ASSUME TypeOK, Index, CallOK, NEW q \in Int, Begun <= q, q < Entered
    PROVE  q \in Live /\ TailIndex <= Base(q) /\ HeadIndex < Base(q + 1)
<1>1. /\ Begun \in Nat /\ TailIndex <= Base(Begun) /\ HeadIndex \in Nat /\ TailIndex \in Nat
      /\ HeadIndex <= TailIndex /\ BlockSize \in Nat \ {0, 1}
  BY ViewTypes, BegunIs
<1>2. /\ Base(Begun) <= Base(q) /\ Base(q) \in Int /\ Base(q + 1) = Base(q) + BlockSize
      /\ Base(Begun) \in Int
  BY <1>1, BaseMono, BaseStep, Begun \in Int
<1>3. TailIndex <= Base(q) /\ HeadIndex < Base(q + 1) /\ q \in Nat
  BY <1>1, <1>2
<1> QED BY <1>3, EnteredIs DEF Live

LEMMA FirstNewIs ==
    ASSUME TypeOK, Body, po.step \in BulkSteps
    PROVE  po.firstNew = NoBlock <=> Entered = Begun
<1>1. /\ Index /\ CallOK /\ LiveInWindow /\ Entered >= Begun
      /\ po.firstNew = IF Entered = Begun THEN NoBlock ELSE BlockOf(Begun)
  BY DEF Body, CallOK
<1>2. CASE Entered = Begun
  BY <1>1, <1>2
<1>3. CASE Entered # Begun
  <2>1. Begun \in Int /\ Begun < Entered
    BY <1>1, <1>3, ViewTypes, EnteredIs
  <2>2. Begun \in Window
    BY <1>1, <2>1, TakenLive, LiveType
  <2>3. BlockOf(Begun) \in Blocks
    BY <1>1, <2>2 DEF Index
  <2> QED BY <1>1, <1>3, <2>3, BlocksAssumption
<1> QED BY <1>2, <1>3

\* Where the call is.
LEMMA FillIs ==
    ASSUME TypeOK, Body, po.step = "fill"
    PROVE  LET from == TailIndex + po.done
               q    == Num(from)
               last == TailIndex + po.n - 1
           IN  /\ from \in Nat /\ last \in Nat /\ from <= last /\ po.done \in Nat /\ po.n \in Nat \ {0}
               /\ q \in Window /\ q \in Nat /\ Num(last) = Entered - 1 /\ q <= Entered - 1
               /\ po.block = BlockOf(q) /\ po.block \in Blocks
               /\ po.block = TailBlock <=> q = Entered - 1
               /\ Filled = from /\ FillFrom = Off(from) /\ Entered \in Nat /\ Entered > 0
<1> DEFINE from == TailIndex + po.done
           q    == Num(from)
           last == TailIndex + po.n - 1
<1>1. po \in BulkCalls /\ po.step \in BulkSteps /\ po.step \notin TakeSteps
  BY CallTypes DEF BulkSteps, TakeSteps
<1>2. po.done \in Nat /\ po.n \in Nat \ {0} /\ po.need \in Int
  BY <1>1 DEF BulkCalls
<1>3. /\ Index /\ CallOK /\ LiveInWindow /\ InRing
      /\ po.done < po.n /\ po.need = 0 /\ Entered + po.need = Num(last) + 1
      /\ (q < Entered => po.block = BlockOf(q))
  BY <1>1, <1>2 DEF Body, CallOK
<1>4. /\ TailIndex \in Nat /\ HeadIndex \in Nat /\ HeadIndex <= TailIndex /\ Entered \in Nat
      /\ Base(Entered) \in Nat
  BY <1>3, ViewTypes, EnteredIs
<1>5. /\ from \in Nat /\ last \in Nat /\ from <= last /\ HeadIndex <= from
      /\ from \in Int /\ last \in Int
  BY <1>2, <1>3, <1>4
<1>6. Num(last) \in Int /\ Num(from) \in Int /\ Num(from) <= Num(last)
  <2> HIDE DEF from, last
  <2> QED BY <1>5, NumOrder, DivMod
<1>7. Num(last) = Entered - 1 /\ q <= Entered - 1
  BY <1>3, <1>4, <1>6
<1>8. from < Base(Entered)
  <2>1. from < Base(Num(from) + 1) /\ Base(Num(from) + 1) \in Int
    <3> HIDE DEF from
    <3> QED BY <1>5, BlockEnds
  <2>2. Num(from) + 1 \in Int /\ Entered \in Int /\ Num(from) + 1 <= Entered
    BY <1>4, <1>6, <1>7
  <2>3. Base(Num(from) + 1) <= Base(Entered)
    <3> HIDE DEF from
    <3> QED BY <2>2, BaseMono
  <2> HIDE DEF from
  <2> QED BY <1>4, <1>5, <2>1, <2>3
<1>9. q \in Live /\ q \in Nat
  <2> HIDE DEF from
  <2> QED BY <1>3, <1>5, <1>8, AheadLive
<1>10. q \in Window
  BY <1>3, <1>9, LiveType
<1>11. po.block = BlockOf(q) /\ po.block \in Blocks
  BY <1>3, <1>4, <1>7, <1>9, <1>10 DEF Index
<1>12. Entered > 0
  BY <1>4, <1>7, <1>9
<1>13. TailBlock = BlockOf(Entered - 1) /\ Entered - 1 \in Window
  BY <1>3, <1>4, <1>12, ViewTypes DEF InRing, Index, Window
<1>14. po.block = TailBlock <=> q = Entered - 1
  <2> HIDE DEF q
  <2> QED BY <1>3, <1>10, <1>11, <1>13 DEF Index
<1>15. Filled = from /\ FillFrom = Off(from)
  BY DEF Filled, FillFrom, Off
<1> QED BY <1>2, <1>4, <1>5, <1>7, <1>9, <1>10, <1>11, <1>12, <1>14, <1>15

\* The positions one fill constructs: to the end of the block, or of the call.
LEMMA FillRun ==
    ASSUME TypeOK, Body, po.step = "fill"
    PROVE  \E from, to, q \in Nat :
               /\ from = TailIndex + po.done /\ q = Num(from) /\ from <= to
               /\ FillLast - FillFrom = to - from /\ FillLast \in Slots /\ FillFrom \in Slots
               /\ \A p \in from .. to : /\ Num(p) = q /\ Off(p) = FillFrom + (p - from)
                                        /\ Off(p) \in FillFrom .. FillLast
               /\ \A i \in FillFrom .. FillLast :
                     \E p \in from .. to : i = Off(p)
               /\ po.block = TailBlock => to = TailIndex + po.n - 1
               /\ po.block # TailBlock => /\ to + 1 = Base(q + 1)
                                          /\ to + 1 <= TailIndex + po.n - 1
<1>1. PICK from \in Nat, last \in Nat, q \in Nat :
          /\ from = TailIndex + po.done /\ q = Num(from) /\ last = TailIndex + po.n - 1
          /\ from <= last /\ Num(last) = Entered - 1 /\ q <= Entered - 1
          /\ po.block = TailBlock <=> q = Entered - 1
          /\ FillFrom = Off(from) /\ Entered \in Nat
  BY FillIs
<1>2. /\ Off(from) \in Slots /\ Off(last) \in Slots /\ from = Base(q) + Off(from)
      /\ last = Base(Entered - 1) + Off(last)
  <2>1. from \in Int /\ last \in Int
    BY <1>1
  <2> QED BY <1>1, <2>1, DivMod
<1>3. PICK B \in Int : B = Base(q)
  BY <1>1, BaseStep, q \in Int
<1>4. Base(q + 1) = B + BlockSize /\ q \in Int /\ last \in Int
  BY <1>1, <1>3, BaseStep, q \in Int
<1>5. PICK S \in Nat \ {0, 1} : S = BlockSize /\ Slots = 0 .. (S - 1)
  BY ViewTypes
<1>6. PICK f \in 0 .. (S - 1), g \in 0 .. (S - 1) :
          f = FillFrom /\ f = Off(from) /\ g = Off(last)
  BY <1>1, <1>2, <1>5
<1>7. PICK l \in 0 .. (S - 1) :
          /\ l = FillLast
          /\ po.block = TailBlock => l = g
          /\ po.block # TailBlock => l = S - 1
  <2>1. po.block = TailBlock => FillLast = Off(last)
    BY <1>1 DEF FillLast, Off
  <2>2. po.block # TailBlock => FillLast = BlockSize - 1
    BY DEF FillLast
  <2> QED BY <1>5, <1>6, <2>1, <2>2
<1>8. from = B + f /\ (po.block = TailBlock => last = B + g)
  BY <1>1, <1>2, <1>3, <1>6
<1>9. PICK to \in Int : to = B + l
  OBVIOUS
<1>10. po.block = TailBlock => to = last
  BY <1>7, <1>8, <1>9
<1>11. po.block # TailBlock => to + 1 = Base(q + 1) /\ to + 1 <= last
  <2>1. SUFFICES ASSUME po.block # TailBlock PROVE to + 1 = Base(q + 1) /\ to + 1 <= last
    OBVIOUS
  <2>2. to + 1 = Base(q + 1)
    BY <1>4, <1>5, <1>7, <1>9, <2>1
  <2>3. q + 1 \in Int /\ q + 1 <= Num(last) /\ Num(last) \in Int
    BY <1>1, <2>1
  <2>4. Base(q + 1) <= last
    BY <1>4, <2>3, NumBetween
  <2> QED BY <2>2, <2>4
<1>12. from <= to /\ to \in Nat /\ f <= l /\ l - f = to - from
  <2>1. from <= to
    BY <1>1, <1>6, <1>7, <1>8, <1>9, <1>10
  <2> QED BY <1>1, <1>8, <1>9, <2>1
<1>13. ASSUME NEW p \in from .. to
       PROVE  Num(p) = q /\ Off(p) = f + (p - from) /\ Off(p) \in f .. l
  <2>1. PICK r \in Int : r = f + (p - from)
    BY <1>1, <1>12
  <2>2. r \in f .. l /\ r \in Slots /\ p = B + r
    BY <1>1, <1>5, <1>8, <1>9, <1>12, <2>1
  <2>3. Num(p) = q /\ Off(p) = r
    BY <1>3, <1>4, <2>2, NumOf
  <2> QED BY <2>1, <2>2, <2>3
<1>14. ASSUME NEW i \in f .. l
       PROVE  \E p \in from .. to : i = Off(p)
  <2>1. PICK p \in Int : p = B + i
    OBVIOUS
  <2>2. i \in Slots /\ p \in from .. to
    BY <1>1, <1>5, <1>8, <1>9, <1>12, <2>1
  <2>3. Off(p) = i
    BY <1>3, <1>4, <2>1, <2>2, NumOf
  <2> QED BY <2>2, <2>3
<1>15. FillLast \in Slots /\ FillFrom \in Slots
  BY <1>5, <1>6, <1>7
<1>16. /\ FillLast - FillFrom = to - from
       /\ \A p \in from .. to : /\ Num(p) = q /\ Off(p) = FillFrom + (p - from)
                                /\ Off(p) \in FillFrom .. FillLast
       /\ \A i \in FillFrom .. FillLast : \E p \in from .. to : i = Off(p)
       /\ po.block = TailBlock => to = TailIndex + po.n - 1
       /\ po.block # TailBlock => /\ to + 1 = Base(q + 1)
                                  /\ to + 1 <= TailIndex + po.n - 1
  BY <1>1, <1>6, <1>7, <1>10, <1>11, <1>12, <1>13, <1>14
<1>17. to \in Nat /\ from <= to
  BY <1>12
<1> QED BY <1>1, <1>15, <1>16, <1>17, ZenonT(60)

LEMMA StepBulkFill ==
    ASSUME TypeOK, Body, BulkFill, program' = program
    PROVE  TypeOK' /\ Body' /\ po'.step # "gone"
<1>1. /\ po.step = "fill"
      /\ slots' = [slots EXCEPT ![po.block] =
                      [i \in Slots |-> IF i \in FillFrom .. FillLast
                                       THEN TailIndex + po.done + (i - FillFrom)
                                       ELSE @[i]]]
      /\ po' = IF po.block = TailBlock
               THEN [po EXCEPT !.step = IF po.firstNew = NoBlock THEN "bulkTail"
                                                                 ELSE "bulkIndex"]
               ELSE [po EXCEPT !.block = next[po.block],
                               !.done = @ + (FillLast - FillFrom + 1)]
      /\ TailIndex' = TailIndex /\ HeadIndex' = HeadIndex /\ con' = con
      /\ TailBlock' = TailBlock /\ next' = next /\ flags' = flags /\ arrays' = arrays
      /\ PO_NextIndexEntry' = PO_NextIndexEntry
      /\ PO_IndexEntriesUsed' = PO_IndexEntriesUsed
      /\ manager' = manager /\ heap' = heap
  BY DEF BulkFill, ring, index, supply
<1>2. /\ Index /\ CallOK /\ ClaimsOK /\ LiveInWindow /\ Placed /\ NothingElse /\ InRing /\ TailOK
      /\ po.step \in BulkSteps /\ po \in BulkCalls
  BY <1>1, CallTypes DEF Body, BulkSteps
<1>3. PICK from \in Nat, to \in Nat, q \in Nat :
               /\ from = TailIndex + po.done /\ q = Num(from) /\ from <= to
               /\ FillLast - FillFrom = to - from /\ FillLast \in Slots /\ FillFrom \in Slots
               /\ \A p \in from .. to : /\ Num(p) = q /\ Off(p) = FillFrom + (p - from)
                                        /\ Off(p) \in FillFrom .. FillLast
               /\ \A i \in FillFrom .. FillLast :
                     \E p \in from .. to : i = Off(p)
               /\ po.block = TailBlock => to = TailIndex + po.n - 1
               /\ po.block # TailBlock => /\ to + 1 = Base(q + 1)
                                          /\ to + 1 <= TailIndex + po.n - 1
  BY <1>1, FillRun
<1>4. /\ po.done \in Nat /\ po.n \in Nat \ {0} /\ q \in Window
      /\ Num(TailIndex + po.n - 1) = Entered - 1 /\ q <= Entered - 1
      /\ po.block = BlockOf(q) /\ po.block \in Blocks
      /\ (po.block = TailBlock <=> q = Entered - 1)
      /\ Filled = from /\ Entered \in Nat /\ Entered > 0
  BY <1>1, <1>3, FillIs
<1>5. /\ TailIndex \in Nat /\ HeadIndex \in Nat /\ HeadIndex <= TailIndex /\ Begun \in Nat
      /\ BlockSize \in Nat \ {0, 1} /\ Slots = 0 .. (BlockSize - 1)
  BY ViewTypes
<1>20. PICK T \in Nat, H \in Nat, d \in Nat, n \in Nat \ {0} :
           /\ T = TailIndex /\ H = HeadIndex /\ d = po.done /\ n = po.n /\ H <= T
           /\ from = T + d /\ (po.block = TailBlock => to = T + n - 1)
           /\ po.block # TailBlock => to + 1 <= T + n - 1
  BY <1>3, <1>4, <1>5
\* What the call is now.
<1> DEFINE Goes == SameIndex /\ CallOK' /\ TailOK' /\ Filled' = to + 1
                   /\ po' \in BulkCalls /\ po'.step \in BulkSteps
<1>6. ASSUME po.block = TailBlock PROVE Goes
  <2>1. /\ po'.step = IF Entered = Begun THEN "bulkTail" ELSE "bulkIndex"
        /\ po' \in BulkCalls
        /\ po'.mode = po.mode /\ po'.base = po.base /\ po'.need = po.need /\ po'.n = po.n
        /\ po'.firstNew = po.firstNew /\ po'.origUsed = po.origUsed
    <3>1. po.firstNew = NoBlock <=> Entered = Begun
      BY <1>2, FirstNewIs
    <3> QED BY <1>1, <1>2, <1>6, <3>1 DEF BulkCalls, BulkSteps
  <2>2. /\ Begun' = Begun /\ Entered' = Entered /\ Front' = Front
    BY <1>1, <2>1, <1>2 DEF Begun, Entered, Front, BulkSteps
  <2>3. Filled' = to + 1
    <3>1. Filled' = TailIndex + po.n
      BY <1>1, <2>1 DEF Filled
    <3> QED BY <1>6, <1>20, <3>1
  <2>4. SameIndex
    BY <1>1, <2>2, SameArrays
  <2>5. CallOK'
    <3>1. /\ program.Faults = {} /\ po.mode # "CannotAlloc"
          /\ po.base = Base(Entered - 1) /\ Entered >= Begun
          /\ Entered + po.need = Num(TailIndex + po.n - 1) + 1
          /\ ~(po.need > 0) /\ po.need >= 0
          /\ po.firstNew = IF Entered = Begun THEN NoBlock ELSE BlockOf(Begun)
          /\ po.origUsed <= PO_IndexEntriesUsed
          /\ PO_IndexEntriesUsed - po.origUsed <= Entered - Begun
      BY <1>1, <1>2 DEF CallOK, BulkSteps, TakeSteps
    <3>2. BlockOf(Begun)' = BlockOf(Begun)
      BY <1>5, <2>2, <2>4, SameViews, Begun \in Int
    <3> QED BY <1>1, <2>1, <2>2, <3>1, <3>2 DEF CallOK, BulkSteps, TakeSteps
  <2>6. TailOK'
    <3>1. CASE Entered = Begun
      <4>1. Oldest < Begun
        BY <1>2, <1>4, <3>1 DEF Index
      <4>2. PICK t \in Window : Current.tail = Place(t) /\ t >= Begun - 1
        BY <1>2, <4>1 DEF TailOK
      <4>3. t = Entered - 1 /\ t \in Int
        BY <1>4, <3>1, <4>2, ViewTypes DEF Window
      <4>4. Window' = Window /\ Place(t)' = Place(t)
        BY <2>4, <4>3, SameViews
      <4>5. Current'.tail = Place(t)' /\ t >= Begun' - 1 /\ t = Entered' - 1
        BY <1>1, <2>2, <4>2, <4>3, <4>4 DEF Current
      <4> QED BY <4>4, <4>5 DEF TailOK
    <3>2. CASE Entered # Begun
      <4>1. ~Shown'
        BY <2>1, <3>2 DEF Shown
      <4>2. Begun' <= Begun /\ Begun' \in Int /\ Current'.tail = Current.tail
        BY <1>1, <1>5, <2>2 DEF Current
      <4> QED BY <1>2, <2>4, <4>1, <4>2, TailKept
    <3> QED BY <3>1, <3>2
  <2>7. po'.step \in BulkSteps
    BY <2>1 DEF BulkSteps
  <2> QED BY <2>1, <2>3, <2>4, <2>5, <2>6, <2>7
<1>7. ASSUME po.block # TailBlock PROVE Goes
  <2>1. q # Entered - 1 /\ q + 1 \in Int /\ next[po.block] = BlockOf(q + 1)
    BY <1>2, <1>4, <1>7 DEF InRing
  <2>2. q + 1 \in Window
    BY <1>4, <2>1, ViewTypes DEF Window
  <2>3. BlockOf(q + 1) \in Blocks
    BY <1>2, <2>2 DEF Index
  <2>4. FillLast - FillFrom + 1 \in Nat /\ po.done + (FillLast - FillFrom + 1) = to + 1 - TailIndex
    <3>1. PICK a \in Int, z \in Int : a = FillFrom /\ z = FillLast /\ z - a = to - from
      BY <1>3, <1>5
    <3>2. z - a + 1 \in Nat /\ d + (z - a + 1) = to + 1 - T
      <4>1. from <= to /\ from = T + d /\ z - a = to - from
        BY <1>3, <1>20, <3>1
      <4> QED BY <4>1
    <3> QED BY <1>20, <3>1, <3>2
  <2>5. /\ po'.step = "fill" /\ po' \in BulkCalls
        /\ po'.mode = po.mode /\ po'.base = po.base /\ po'.need = po.need /\ po'.n = po.n
        /\ po'.firstNew = po.firstNew /\ po'.origUsed = po.origUsed
        /\ po'.block = BlockOf(q + 1) /\ po'.done = to + 1 - TailIndex /\ po'.done \in Nat
    <3>1. po.done + (FillLast - FillFrom + 1) \in Nat
      BY <1>4, <2>4
    <3>2. po' = [po EXCEPT !.block = next[po.block],
                           !.done = po.done + (FillLast - FillFrom + 1)]
      BY <1>1, <1>7
    <3> QED BY <1>1, <1>2, <2>1, <2>3, <2>4, <3>1, <3>2 DEF BulkCalls, BulkSteps, MaybeBlock
  <2>6. /\ Begun' = Begun /\ Entered' = Entered /\ Front' = Front /\ ~Shown'
    BY <1>1, <2>5, <1>2 DEF Begun, Entered, Front, BulkSteps, Shown
  <2>7. Filled' = to + 1 /\ TailIndex + po'.done = to + 1
    <3>1. Filled' = TailIndex + po'.done
      BY <1>1, <2>5 DEF Filled
    <3> QED BY <1>3, <1>5, <2>5, <3>1
  <2>8. SameIndex
    BY <1>1, <2>6, SameArrays
  <2>9. Num(to + 1) = q + 1 /\ Off(to + 1) = 0
    BY <1>3, <1>7, <2>1, BaseStep
  <2>10. CallOK'
    <3>1. /\ program.Faults = {} /\ po.mode # "CannotAlloc"
          /\ po.base = Base(Entered - 1) /\ Entered >= Begun
          /\ Entered + po.need = Num(TailIndex + po.n - 1) + 1
          /\ ~(po.need > 0) /\ po.need >= 0
          /\ po.firstNew = IF Entered = Begun THEN NoBlock ELSE BlockOf(Begun)
          /\ po.origUsed <= PO_IndexEntriesUsed
          /\ PO_IndexEntriesUsed - po.origUsed <= Entered - Begun
      BY <1>1, <1>2 DEF CallOK, BulkSteps, TakeSteps
    <3>2. BlockOf(Begun)' = BlockOf(Begun) /\ BlockOf(q + 1)' = BlockOf(q + 1)
      BY <1>5, <2>1, <2>6, <2>8, SameViews, Begun \in Int
    <3>3. po'.block = BlockOf(Num(TailIndex + po.done))' /\ Off(TailIndex + po.done)' = 0
      <4>1. Num(TailIndex + po.done)' = q + 1 /\ Off(TailIndex + po.done)' = 0
        BY <1>1, <2>7, <2>9
      <4> QED BY <2>5, <3>2, <4>1
    <3>4. po'.done < po'.n
      BY <1>3, <1>4, <1>5, <1>7, <2>5
    <3> QED BY <1>1, <2>5, <2>6, <3>1, <3>2, <3>3, <3>4 DEF CallOK, BulkSteps, TakeSteps
  <2>11. TailOK'
    <3>1. Begun' <= Begun /\ Begun' \in Int /\ Current'.tail = Current.tail
      BY <1>1, <1>5, <2>6 DEF Current
    <3> QED BY <1>2, <2>6, <2>8, <3>1, TailKept
  <2>12. po'.step \in BulkSteps
    BY <2>5 DEF BulkSteps
  <2> QED BY <2>5, <2>7, <2>8, <2>10, <2>11, <2>12
<1>8. SameIndex /\ CallOK' /\ TailOK' /\ Filled' = to + 1 /\ po' \in BulkCalls /\ po'.step # "gone"
  <2>1. Goes
    BY <1>6, <1>7
  <2> QED BY <2>1 DEF BulkSteps
<1>9. ProducerFrame
  BY <1>1, <1>8 DEF ProducerFrame
<1> DEFINE new == from .. to
<1>10. Objects' = Objects \union new
  <2>1. \A c \in Consumers : Untaken(c)' = Untaken(c)
    BY <1>1 DEF Untaken, Run
  <2>2. HeadIndex .. ((to + 1) - 1) = HeadIndex .. (from - 1) \union new
    <3>1. H <= from /\ from <= to
      BY <1>3, <1>20
    <3>2. H .. ((to + 1) - 1) = H .. (from - 1) \union from .. to
      BY <3>1
    <3> QED BY <1>20, <3>2
  <2>3. Objects' = (HeadIndex .. ((to + 1) - 1)) \union UNION {Untaken(c) : c \in Consumers}
    BY <1>1, <1>8, <2>1 DEF Objects
  <2>4. Objects = (HeadIndex .. (from - 1)) \union UNION {Untaken(c) : c \in Consumers}
    BY <1>4 DEF Objects
  <2> QED BY <2>2, <2>3, <2>4
<1>11. /\ slots \in [Blocks -> [Slots -> Nat \union {Raw}]]
       /\ \A i \in Slots : slots[po.block][i] \in Nat \union {Raw}
  BY <1>4 DEF TypeOK
<1> DEFINE row == [i \in Slots |-> IF i \in FillFrom .. FillLast
                                   THEN TailIndex + po.done + (i - FillFrom)
                                   ELSE slots[po.block][i]]
<1>12. slots' = [slots EXCEPT ![po.block] = row]
  BY <1>1, <1>4, <1>11
<1>13. ASSUME NEW i \in Slots, i \in FillFrom .. FillLast PROVE row[i] \in Nat
  <2>1. PICK a \in Int : a = FillFrom /\ a <= i /\ i \in Int
    BY <1>3, <1>5, <1>13
  <2>2. TailIndex + po.done + (i - a) \in Nat
    BY <1>4, <1>5, <2>1
  <2> QED BY <1>13, <2>1, <2>2
<1>14. slots' \in [Blocks -> [Slots -> Nat \union {Raw}]]
  <2>1. row \in [Slots -> Nat \union {Raw}]
    BY <1>11, <1>13
  <2> HIDE DEF row
  <2> QED BY <1>4, <1>11, <1>12, <2>1
<1>15. /\ slots'[BlockOf(q)] = row
       /\ \A b \in Blocks : b # BlockOf(q) => slots'[b] = slots[b]
  <2> HIDE DEF row
  <2> QED BY <1>4, <1>11, <1>12
<1>16. ASSUME NEW p \in new
       PROVE  p \notin Objects /\ Num(p) = q /\ slots'[BlockOf(q)][Off(p)] = p
  <2>1. p \in Nat /\ from <= p /\ ~(p < Filled)
    BY <1>3, <1>4
  <2>2. p \notin Objects
    BY <1>2, <2>1, ObjectsBelow
  <2>3. Num(p) = q /\ Off(p) = FillFrom + (p - from) /\ Off(p) \in FillFrom .. FillLast
    BY <1>3
  <2>4. PICK a \in Int : a = FillFrom
    BY <1>3, <1>5
  <2>5. Off(p) \in Slots
    BY <2>1, DivMod, p \in Int
  <2>6. row[Off(p)] = TailIndex + po.done + (Off(p) - a)
    BY <2>3, <2>4, <2>5
  <2>7. TailIndex + po.done + (Off(p) - a) = p
    <3>1. PICK o \in Int : o = Off(p) /\ o = a + (p - from)
      BY <2>1, <2>3, <2>4, <1>3
    <3>2. T + d + (o - a) = p
      BY <1>20, <2>1, <3>1
    <3> QED BY <1>20, <3>1, <3>2
  <2> HIDE DEF row
  <2> QED BY <1>15, <2>2, <2>3, <2>6, <2>7
<1>17. ASSUME NEW b \in Blocks, NEW i \in Slots
       PROVE  \/ slots'[b][i] = slots[b][i]
              \/ b = BlockOf(q) /\ \E p \in new : i = Off(p)
  <2>1. CASE b # BlockOf(q)
    BY <1>15, <2>1
  <2>2. CASE b = BlockOf(q) /\ i \in FillFrom .. FillLast
    BY <1>3, <2>2
  <2>3. CASE b = BlockOf(q) /\ i \notin FillFrom .. FillLast
    <3>1. row[i] = slots[po.block][i]
      BY <2>3
    <3> HIDE DEF row
    <3> QED BY <1>4, <1>15, <2>3, <3>1
  <2> QED BY <2>1, <2>2, <2>3
<1>18. Placed' /\ NothingElse'
  <2>1. new \in SUBSET Int
    BY <1>3
  <2> HIDE DEF new, row
  <2> QED BY <1>2, <1>4, <1>8, <1>10, <1>16, <1>17, <2>1, SlotsFilled
<1>19. TypeOK'
  BY <1>1, <1>8, <1>14 DEF TypeOK, Cur, IndexSize, Current
<1> QED BY <1>8, <1>9, <1>18, <1>19, ProducerKeeps DEF Body

-----------------------------------------------------------------------------
(* A block enters the ring. *)

LEMMA WriteEffect ==
    ASSUME TypeOK, NEW x \in Int, NEW b \in Blocks, WriteEntry(x, b)
    PROVE  /\ arrays' \in Seq(Arrays) /\ Cur' = Cur /\ IndexSize' = IndexSize
           /\ \A k \in 1 .. Cur :
                 /\ arrays'[k].size = arrays[k].size /\ arrays'[k].tail = arrays[k].tail
                 /\ k # Cur => arrays'[k] = arrays[k]
           /\ Current'.tail = Current.tail
           /\ \A j \in 0 .. (IndexSize - 1) :
                 Current'.entries[j] = IF j = PO_NextIndexEntry THEN [base |-> x, block |-> b]
                                       ELSE Current.entries[j]
<1>1. /\ arrays' = [arrays EXCEPT ![Cur].entries[PO_NextIndexEntry] = [base |-> x, block |-> b]]
      /\ arrays \in Seq(Arrays) /\ PO_NextIndexEntry \in 0 .. (IndexSize - 1)
      /\ Cur \in 1 .. Cur /\ DOMAIN arrays = 1 .. Cur /\ Cur \in Nat
      /\ Current = arrays[Cur]
  BY CurTypes DEF WriteEntry, TypeOK, Cur
<1>2. PICK n \in Nat \ {0} :
          arrays[Cur] \in [size : {n}, tail : Int, entries : [0 .. (n - 1) -> Entries]]
  BY CurTypes DEF Arrays
<1> DEFINE es  == [arrays[Cur].entries EXCEPT ![PO_NextIndexEntry] = [base |-> x, block |-> b]]
           new == [arrays[Cur] EXCEPT !.entries = es]
<1>3. IndexSize = n /\ arrays[Cur].entries \in [0 .. (n - 1) -> Entries]
  BY <1>1, <1>2 DEF IndexSize
<1>4. /\ es \in [0 .. (n - 1) -> Entries]
      /\ \A j \in 0 .. (n - 1) : es[j] = IF j = PO_NextIndexEntry THEN [base |-> x, block |-> b]
                                         ELSE arrays[Cur].entries[j]
  <2>1. [base |-> x, block |-> b] \in Entries
    BY DEF Entries
  <2> QED BY <1>1, <1>3, <2>1
<1>5. arrays' = [arrays EXCEPT ![Cur] = new]
  BY <1>1
<1>6. /\ new \in [size : {n}, tail : Int, entries : [0 .. (n - 1) -> Entries]]
      /\ new.tail = arrays[Cur].tail /\ new.size = arrays[Cur].size /\ new.entries = es
  <2> HIDE DEF es
  <2> QED BY <1>2, <1>4
<1>7. new \in Arrays
  BY <1>6 DEF Arrays
<1> HIDE DEF new, es
<1>8. arrays' \in Seq(Arrays) /\ Len(arrays') = Len(arrays)
      /\ arrays'[Cur] = new /\ \A k \in 1 .. Cur : k # Cur => arrays'[k] = arrays[k]
  BY <1>1, <1>5, <1>7 DEF Cur
<1>9. Cur' = Cur /\ Current' = new
  BY <1>8 DEF Cur, Current
<1>10. IndexSize' = IndexSize
  BY <1>1, <1>6, <1>9 DEF IndexSize
<1> QED BY <1>1, <1>3, <1>4, <1>6, <1>8, <1>9, <1>10

\* A block all of whose slots are marked is not live.
LEMMA EmptyNotLive ==
    ASSUME TypeOK, Body, NEW q \in Window, IsEmpty(BlockOf(q))
    PROVE  q \notin Live
<1>1. /\ Index /\ CallOK /\ ClaimsOK /\ FlagsOK /\ q \in Int /\ HeadIndex \in Nat
      /\ BlockSize \in Nat \ {0, 1} /\ Slots = 0 .. (BlockSize - 1)
  BY ViewTypes DEF Body, Window
<1>2. \A i \in Slots : IsMarked(Base(q) + i)
  BY <1>1 DEF FlagsOK, IsEmpty
<1>3. Base(q) \in Int /\ Base(q + 1) = Base(q) + BlockSize
  BY <1>1, BaseStep
<1>4. ~(HeadIndex < Base(q + 1))
  <2>1. PICK B \in Int, S \in Nat \ {0, 1} : B = Base(q) /\ S = BlockSize /\ S - 1 \in Slots
    BY <1>1, <1>3
  <2>2. B + (S - 1) < HeadIndex
    BY <1>2, <2>1 DEF IsMarked
  <2> QED BY <1>1, <1>3, <2>1, <2>2
<1>5. ASSUME NEW c \in Consumers, q \in Busy(c) PROVE FALSE
  <2>1. Calling(c)
    BY <1>5 DEF Busy
  <2>2. PICK a \in Nat, z \in Nat :
            /\ a <= z /\ Unmarked(c) = a .. z /\ Busy(c) = Num(a) .. Num(z)
            /\ Num(a) \in Nat /\ Num(z) \in Nat
    BY <1>1, <2>1, ClaimTypes
  <2>3. Num(a) <= q /\ q <= Num(z) /\ a \in Int /\ z \in Int
    BY <1>1, <1>5, <2>2
  <2>4. Base(q) <= z /\ a < Base(q + 1)
    BY <1>1, <2>3, NumBetween
  <2>5. PICK B \in Int, S \in Nat \ {0, 1} :
            B = Base(q) /\ S = BlockSize /\ Base(q + 1) = B + S /\ Slots = 0 .. (S - 1)
    BY <1>1, <1>3
  <2>6. \E i \in 0 .. (S - 1) : B + i \in a .. z
    <3>1. CASE a <= B
      <4>1. B + 0 \in a .. z /\ 0 \in 0 .. (S - 1)
        BY <2>2, <2>4, <2>5, <3>1
      <4> QED BY <4>1
    <3>2. CASE B < a
      <4>1. B + (a - B) \in a .. z /\ a - B \in 0 .. (S - 1)
        BY <2>2, <2>4, <2>5, <3>2
      <4> QED BY <4>1
    <3> QED BY <2>2, <2>5, <3>1, <3>2
  <2>7. PICK i \in Slots : B + i \in Unmarked(c)
    BY <2>2, <2>5, <2>6
  <2>8. B + i \notin Unmarked(c)
    BY <1>2, <2>5, <2>7 DEF IsMarked
  <2> QED BY <2>7, <2>8
<1> QED BY <1>4, <1>5 DEF Live

Reuses(b) ==
    /\ TailBlock # NoBlock /\ b = next[TailBlock] /\ IsEmpty(b)
    /\ next' = next /\ manager' = manager /\ heap' = heap
    /\ PO_IndexEntriesUsed' = PO_IndexEntriesUsed

Links(b) ==
    /\ b \in manager \union heap
    /\ next' = IF TailBlock = NoBlock
               THEN [next EXCEPT ![b] = b]
               ELSE [next EXCEPT ![b] = next[TailBlock], ![TailBlock] = b]
    /\ manager' = manager \ {b} /\ heap' = heap \ {b}
    /\ PO_IndexEntriesUsed < IndexSize /\ PO_IndexEntriesUsed' = PO_IndexEntriesUsed + 1

Enters(b) ==
    /\ b \in Blocks
    /\ WriteEntry(Base(Entered), b)
    /\ Entered' = Entered + 1
    /\ Place(Entered) = PO_NextIndexEntry /\ \A q \in Int : Place(q)' = Place(q)
    /\ TailBlock' = b /\ flags' = [flags EXCEPT ![b] = {}]
    /\ HeadIndex' = HeadIndex /\ TailIndex' = TailIndex /\ slots' = slots /\ con' = con
    /\ Filled' = Filled /\ ~Shown'
    /\ Reuses(b) \/ Links(b)

\* e is the number of the block that enters, o the oldest one from then on.
LEMMA EnterViews ==
    ASSUME TypeOK, Body, NEW b, Enters(b), NEW e, Entered = e, NEW o, Oldest' = o
    PROVE  /\ b \in Blocks /\ e \in Nat /\ Entered' = e + 1
           /\ Oldest \in Nat /\ o \in Nat /\ Oldest <= o /\ o <= e
           /\ Window' = o .. e
           /\ \A q \in o .. (e - 1) :
                 /\ q \in Window /\ EntryAt(q)' = EntryAt(q) /\ BlockOf(q)' = BlockOf(q)
                 /\ BlockOf(q) # b
           /\ EntryAt(e)' = [base |-> Base(e), block |-> b] /\ BlockOf(e)' = b
           /\ Reuses(b) => Oldest < e /\ b = BlockOf(Oldest) /\ o = Oldest + 1
           /\ Links(b) => o = Oldest
           /\ Live \subseteq o .. (e - 1)
           /\ Live' \subseteq Live \union {e}
<1>1. /\ Index /\ CallOK /\ ClaimsOK /\ LiveInWindow /\ InRing /\ Supply /\ FlagsOK
      /\ b \in Blocks /\ WriteEntry(Base(e), b) /\ Entered' = e + 1
      /\ Place(e) = PO_NextIndexEntry /\ (\A q \in Int : Place(q)' = Place(q))
      /\ HeadIndex' = HeadIndex /\ con' = con /\ (Reuses(b) \/ Links(b))
  BY DEF Body, Enters
<1>2. PICK u \in Nat, f \in Nat, s \in Nat \ {0} :
          /\ u = PO_IndexEntriesUsed /\ f = Oldest /\ s = IndexSize
          /\ e \in Nat /\ f <= e /\ e - f = u /\ u <= s
  BY <1>1, EnteredIs, CurTypes, ViewTypes
<1>3. /\ IndexSize' = IndexSize
      /\ \A j \in 0 .. (s - 1) :
            Current'.entries[j] = IF j = PO_NextIndexEntry
                                  THEN [base |-> Base(e), block |-> b]
                                  ELSE Current.entries[j]
  BY <1>1, <1>2, WriteEffect, BaseStep, e \in Int
<1>4. ASSUME Reuses(b)
      PROVE  f < e /\ b = BlockOf(f) /\ o = f + 1 /\ f \notin Live /\ f \in Window
  <2>1. e > 0
    BY <1>1, <1>2, <1>4 DEF InRing, Reuses
  <2>2. f < e /\ b = BlockOf(f)
    BY <1>1, <1>2, <1>4, <2>1 DEF Index, InRing, Reuses
  <2>3. f \in Window
    BY <1>2, <2>2 DEF Window
  <2>4. f \notin Live
    BY <1>4, <2>2, <2>3, EmptyNotLive DEF Reuses
  <2>5. o = f + 1
    <3>1. o = (e + 1) - u
      BY <1>1, <1>2, <1>4 DEF Oldest, Reuses
    <3> QED BY <1>2, <3>1
  <2> QED BY <2>2, <2>3, <2>4, <2>5
<1>5. ASSUME Links(b)
      PROVE  o = f /\ u < s
  <2>1. o = (e + 1) - (u + 1) /\ u < s
    BY <1>1, <1>2, <1>5 DEF Oldest, Links
  <2> QED BY <1>2, <2>1
<1>6. o \in Nat /\ f <= o /\ o <= e /\ e - o < s
  <2>1. CASE Reuses(b)
    BY <1>2, <1>4, <2>1
  <2>2. CASE Links(b)
    BY <1>2, <1>5, <2>2
  <2> QED BY <1>1, <2>1, <2>2
<1>7. Window' = o .. e
  <2>1. Window' = o .. ((e + 1) - 1)
    BY <1>1 DEF Window
  <2> QED BY <1>2, <2>1
<1>8. ASSUME NEW q \in Int
      PROVE  /\ EntryAt(q)' = Current'.entries[Place(q)]
             /\ EntryAt(q) = Current.entries[Place(q)]
             /\ Place(q) \in 0 .. (s - 1)
  BY <1>1, <1>2, PlaceType DEF EntryAt
<1>9. EntryAt(e)' = [base |-> Base(e), block |-> b]
  <2>1. e \in Int
    BY <1>2
  <2>2. EntryAt(e)' = Current'.entries[PO_NextIndexEntry] /\ PO_NextIndexEntry \in 0 .. (s - 1)
    BY <1>1, <1>8, <2>1
  <2> QED BY <1>3, <2>2
<1>10. BlockOf(e)' = b
  BY <1>9 DEF BlockOf
<1>11. ASSUME NEW q \in o .. (e - 1)
       PROVE  /\ q \in Window /\ EntryAt(q)' = EntryAt(q) /\ BlockOf(q)' = BlockOf(q)
              /\ BlockOf(q) # b
  <2>1. q \in Int /\ q \in f .. (e - 1) /\ q # e /\ e - q < s /\ q - e < s /\ (q = f => o = f)
    BY <1>2, <1>6
  <2>2. q \in Window
    BY <1>2, <2>1 DEF Window
  <2>3. Place(q) # Place(e)
    BY <1>2, <2>1, PlaceInj, e \in Int
  <2>4. EntryAt(q)' = EntryAt(q)
    BY <1>1, <1>3, <1>8, <2>1, <2>3
  <2>5. BlockOf(q)' = BlockOf(q)
    BY <2>4 DEF BlockOf
  <2>6. BlockOf(q) # b
    <3>1. CASE Reuses(b)
      <4>1. q # f
        BY <1>2, <1>4, <2>1, <3>1
      <4> QED BY <1>1, <1>4, <2>2, <3>1, <4>1 DEF Index
    <3>2. CASE Links(b)
      BY <1>1, <2>2, <3>2 DEF Supply, Links
    <3> QED BY <1>1, <3>1, <3>2
  <2> QED BY <2>2, <2>4, <2>5, <2>6
<1>12. Live \subseteq o .. (e - 1)
  <2>1. SUFFICES ASSUME NEW q \in Live PROVE q \in o .. (e - 1)
    OBVIOUS
  <2>2. q \in Nat /\ q >= f /\ q < e
    <3>1. q \in Window /\ q \in Nat /\ q < e
      BY <1>1, LiveType
    <3> QED BY <1>2, <3>1 DEF Window
  <2>3. o <= q
    <3>1. CASE Reuses(b)
      BY <1>2, <1>4, <2>2, <3>1
    <3>2. CASE Links(b)
      BY <1>5, <2>2, <3>2
    <3> QED BY <1>1, <3>1, <3>2
  <2> QED BY <1>2, <1>6, <2>2, <2>3
<1>13. Live' \subseteq Live \union {e}
  <2>1. \A c \in Consumers : Busy(c)' = Busy(c)
    BY <1>1 DEF Busy, Calling
  <2>2. Live' = {q \in 0 .. ((e + 1) - 1) :
                    HeadIndex < Base(q + 1) \/ \E c \in Consumers : q \in Busy(c)}
    BY <1>1, <2>1 DEF Live
  <2>3. \A q \in 0 .. ((e + 1) - 1) : q = e \/ q \in 0 .. (e - 1)
    BY <1>2
  <2> QED BY <2>2, <2>3 DEF Live
<1> QED BY <1>1, <1>2, <1>4, <1>5, <1>6, <1>7, <1>9, <1>10, <1>11, <1>12, <1>13

LEMMA EnterIndex ==
    ASSUME TypeOK, Body, NEW b, Enters(b)
    PROVE  Index' /\ LiveInWindow'
<1>1. PICK e, o : Entered = e /\ Oldest' = o
  OBVIOUS
<1>2. /\ b \in Blocks /\ e \in Nat /\ Entered' = e + 1 /\ o \in Nat /\ o <= e
      /\ Window' = o .. e
      /\ \A q \in o .. (e - 1) :
            /\ q \in Window /\ EntryAt(q)' = EntryAt(q) /\ BlockOf(q)' = BlockOf(q)
            /\ BlockOf(q) # b
      /\ EntryAt(e)' = [base |-> Base(e), block |-> b] /\ BlockOf(e)' = b
      /\ Live \subseteq o .. (e - 1) /\ Live' \subseteq Live \union {e}
  BY <1>1, EnterViews
<1>3. Index
  BY DEF Body
<1>4. \A q \in o .. e : q = e \/ q \in o .. (e - 1)
  BY <1>2
<1>5. ASSUME NEW q \in o .. e
      PROVE  EntryAt(q).base' = Base(q) /\ BlockOf(q)' \in Blocks
  <2>1. CASE q = e
    BY <1>2, <2>1
  <2>2. CASE q \in o .. (e - 1)
    BY <1>2, <1>3, <2>2 DEF Index
  <2> QED BY <1>4, <2>1, <2>2
<1>6. ASSUME NEW q \in o .. e, NEW r \in o .. e, BlockOf(q)' = BlockOf(r)'
      PROVE  q = r
  <2>1. CASE q = e \/ r = e
    BY <1>2, <1>4, <1>6, <2>1
  <2>2. CASE q \in o .. (e - 1) /\ r \in o .. (e - 1)
    BY <1>2, <1>3, <1>6, <2>2 DEF Index
  <2> QED BY <1>4, <2>1, <2>2
<1>7. o >= 0 /\ o < e + 1
  BY <1>2
<1>8. Live' \subseteq o .. e
  BY <1>2
<1> QED BY <1>1, <1>2, <1>5, <1>6, <1>7, <1>8 DEF Index, LiveInWindow

LEMMA EnterRing ==
    ASSUME TypeOK, Body, NEW b, Enters(b)
    PROVE  InRing'
<1>1. PICK e, o, f : Entered = e /\ Oldest' = o /\ Oldest = f
  OBVIOUS
<1>2. /\ b \in Blocks /\ e \in Nat /\ Entered' = e + 1 /\ o \in Nat /\ f \in Nat /\ f <= o /\ o <= e
      /\ Window' = o .. e
      /\ \A q \in o .. (e - 1) :
            /\ q \in Window /\ BlockOf(q)' = BlockOf(q) /\ BlockOf(q) # b
      /\ BlockOf(e)' = b
      /\ Reuses(b) => f < e /\ b = BlockOf(f) /\ o = f + 1
      /\ Links(b) => o = f
  BY <1>1, EnterViews
<1>3. /\ Index /\ InRing /\ TailBlock' = b /\ next \in [Blocks -> MaybeBlock]
      /\ (Reuses(b) \/ Links(b)) /\ TailBlock \in MaybeBlock
  BY DEF Body, Enters, TypeOK
<1>4. \A q \in o .. e : q = e \/ q \in o .. (e - 1)
  BY <1>2
<1>5. e > 0 => /\ TailBlock = BlockOf(e - 1) /\ next[TailBlock] = BlockOf(f)
               /\ f <= e - 1 /\ e - 1 \in Window /\ TailBlock \in Blocks
  BY <1>1, <1>2, <1>3 DEF InRing, Index, Window
<1>6. TailBlock = NoBlock <=> e = 0
  BY <1>1, <1>2, <1>3, <1>5, BlocksAssumption DEF InRing
\* The new block's Next is the oldest one.
<1>7. next'[b] = BlockOf(o)'
  <2>1. CASE Reuses(b)
    <3>1. next' = next /\ e > 0
      BY <1>2, <2>1 DEF Reuses
    <3>2. CASE f = e - 1
      <4>1. o = e /\ b = TailBlock /\ next[b] = b
        BY <1>2, <1>5, <2>1, <3>1, <3>2
      <4> QED BY <1>2, <3>1, <4>1
    <3>3. CASE f # e - 1
      <4>1. f \in Window /\ o \in o .. (e - 1)
        BY <1>1, <1>2, <1>5, <2>1, <3>1, <3>3 DEF Window
      <4>2. next[BlockOf(f)] = BlockOf(f + 1)
        BY <1>1, <1>3, <3>3, <4>1 DEF InRing
      <4> QED BY <1>2, <2>1, <3>1, <4>1, <4>2
    <3> QED BY <3>2, <3>3
  <2>2. CASE Links(b) /\ e = 0
    <3>1. next' = [next EXCEPT ![b] = b] /\ o = e
      BY <1>2, <1>6, <2>2 DEF Links
    <3> QED BY <1>2, <1>3, <3>1
  <2>3. CASE Links(b) /\ e # 0
    <3>1. e - 1 \in o .. (e - 1) /\ o \in o .. (e - 1)
      BY <1>2, <1>5, <2>3
    <3>2. TailBlock # b
      BY <1>2, <1>5, <2>3, <3>1
    <3>3. next' = [next EXCEPT ![b] = next[TailBlock], ![TailBlock] = b]
      BY <1>6, <2>3 DEF Links
    <3>4. next'[b] = BlockOf(f)
      BY <1>2, <1>3, <1>5, <2>3, <3>2, <3>3
    <3> QED BY <1>2, <2>3, <3>1, <3>4
  <2> QED BY <1>3, <2>1, <2>2, <2>3
\* And it is the Next of the one before.
<1>8. o < e => next'[BlockOf(e - 1)] = b
  <2>1. SUFFICES ASSUME o < e PROVE next'[BlockOf(e - 1)] = b
    OBVIOUS
  <2>2. e > 0 /\ e # 0 /\ TailBlock = BlockOf(e - 1) /\ TailBlock \in Blocks
    BY <1>2, <1>5, <2>1
  <2>3. CASE Reuses(b)
    BY <2>2, <2>3 DEF Reuses
  <2>4. CASE Links(b)
    <3>1. next' = [next EXCEPT ![b] = next[TailBlock], ![TailBlock] = b]
      BY <1>6, <2>2, <2>4 DEF Links
    <3> QED BY <1>3, <2>2, <3>1
  <2> QED BY <1>3, <2>3, <2>4
<1>9. ASSUME NEW q \in o .. (e - 1), q # e - 1
      PROVE  next'[BlockOf(q)] = BlockOf(q + 1)
  <2>1. q \in Window /\ BlockOf(q) # b /\ BlockOf(q) \in Blocks /\ q # e - 1 /\ e > 0 /\ e # 0
    BY <1>2, <1>3, <1>9 DEF Index
  <2>2. BlockOf(q) # TailBlock
    BY <1>3, <1>5, <2>1 DEF Index
  <2>3. next[BlockOf(q)] = BlockOf(q + 1)
    BY <1>1, <1>3, <2>1 DEF InRing
  <2>4. CASE Reuses(b)
    BY <2>3, <2>4 DEF Reuses
  <2>5. CASE Links(b)
    <3>1. next' = [next EXCEPT ![b] = next[TailBlock], ![TailBlock] = b]
      BY <1>6, <2>1, <2>5 DEF Links
    <3> QED BY <1>3, <2>1, <2>2, <2>3, <3>1
  <2> QED BY <1>3, <2>4, <2>5
<1>10. ASSUME NEW q \in o .. e, q # e
       PROVE  next'[BlockOf(q)'] = BlockOf(q + 1)'
  <2>1. q \in o .. (e - 1) /\ BlockOf(q)' = BlockOf(q) /\ o < e
    BY <1>2, <1>4, <1>10
  <2>2. CASE q = e - 1
    <3>1. q + 1 = e
      BY <1>2, <2>2
    <3> QED BY <1>2, <1>8, <2>1, <2>2, <3>1
  <2>3. CASE q # e - 1
    <3>1. q + 1 \in o .. (e - 1)
      BY <1>2, <2>1, <2>3
    <3>2. BlockOf(q + 1)' = BlockOf(q + 1)
      BY <1>2, <3>1
    <3> QED BY <1>9, <2>1, <2>3, <3>2
  <2> QED BY <2>2, <2>3
<1>11. (e + 1) - 1 = e /\ e + 1 # 0
  BY <1>2
<1>12. TailBlock' = BlockOf(Entered - 1)' /\ next'[TailBlock'] = BlockOf(Oldest)'
  BY <1>1, <1>2, <1>3, <1>7, <1>11
<1>13. \A q \in Window' : q # Entered' - 1 => next'[BlockOf(q)'] = BlockOf(q + 1)'
  BY <1>2, <1>10, <1>11
<1> QED BY <1>2, <1>11, <1>12, <1>13 DEF InRing

LEMMA EnterSupply ==
    ASSUME TypeOK, Body, NEW b, Enters(b)
    PROVE  Supply'
<1>1. PICK e, o, f : Entered = e /\ Oldest' = o /\ Oldest = f
  OBVIOUS
<1>2. /\ b \in Blocks /\ e \in Nat /\ o \in Nat /\ f \in Nat /\ f <= o /\ o <= e
      /\ Window' = o .. e /\ Window = f .. (e - 1)
      /\ \A q \in o .. (e - 1) :
            /\ q \in Window /\ BlockOf(q)' = BlockOf(q) /\ BlockOf(q) # b
      /\ BlockOf(e)' = b
      /\ Reuses(b) => f < e /\ b = BlockOf(f) /\ o = f + 1
      /\ Links(b) => o = f
  BY <1>1, EnterViews DEF Window
<1>3. Supply /\ (Reuses(b) \/ Links(b))
  BY DEF Body, Enters
<1>4. \A q \in o .. e : q = e \/ q \in o .. (e - 1)
  BY <1>2
<1>5. ASSUME NEW x \in Blocks
      PROVE  (\E q \in o .. e : x = BlockOf(q)') <=> (x = b \/ \E q \in f .. (e - 1) : x = BlockOf(q))
  <2>1. ASSUME NEW q \in o .. e, x = BlockOf(q)'
        PROVE  x = b \/ \E r \in f .. (e - 1) : x = BlockOf(r)
    BY <1>2, <1>4, <2>1
  <2>2. CASE x = b
    BY <1>2, <2>2, e \in o .. e
  <2>3. ASSUME NEW q \in f .. (e - 1), x = BlockOf(q)
        PROVE  \E r \in o .. e : x = BlockOf(r)'
    <3>1. CASE x = b
      BY <2>2, <3>1
    <3>2. CASE x # b
      <4>1. q \in o .. (e - 1)
        BY <1>2, <1>3, <2>3, <3>2
      <4>2. q \in o .. e
        BY <1>2, <4>1
      <4> QED BY <1>2, <2>3, <4>1, <4>2
    <3> QED BY <3>1, <3>2
  <2> QED BY <2>1, <2>2, <2>3
<1>6. ASSUME NEW x \in Blocks
      PROVE  x \notin manager' \union heap' <=> (x = b \/ \E q \in f .. (e - 1) : x = BlockOf(q))
  <2>1. x \notin manager \union heap <=> \E q \in f .. (e - 1) : x = BlockOf(q)
    BY <1>2, <1>3 DEF Supply
  <2>2. CASE Reuses(b)
    <3>1. f \in f .. (e - 1) /\ manager' = manager /\ heap' = heap /\ b = BlockOf(f)
      BY <1>2, <2>2 DEF Reuses
    <3> QED BY <2>1, <3>1
  <2>3. CASE Links(b)
    BY <2>1, <2>3 DEF Links
  <2> QED BY <1>3, <2>2, <2>3
<1> QED BY <1>2, <1>5, <1>6 DEF Supply

LEMMA EnterFlags ==
    ASSUME TypeOK, Body, NEW b, Enters(b)
    PROVE  FlagsOK'
<1>1. PICK e, o : Entered = e /\ Oldest' = o
  OBVIOUS
<1>2. /\ b \in Blocks /\ e \in Nat /\ o \in Nat /\ o <= e
      /\ Window' = o .. e
      /\ \A q \in o .. (e - 1) :
            /\ q \in Window /\ BlockOf(q)' = BlockOf(q) /\ BlockOf(q) # b
      /\ BlockOf(e)' = b
  BY <1>1, EnterViews
<1>3. /\ Index /\ CallOK /\ FlagsOK /\ flags' = [flags EXCEPT ![b] = {}]
      /\ flags \in [Blocks -> SUBSET Slots] /\ HeadIndex' = HeadIndex /\ con' = con
  BY DEF Body, Enters, TypeOK
<1>4. \A p : IsMarked(p)' = IsMarked(p)
  BY <1>3 DEF IsMarked, Unmarked, Calling
<1>5. ASSUME NEW i \in Slots PROVE ~IsMarked(Base(e) + i)
  <2>1. PICK B \in Nat, j \in Nat : B = Base(e) /\ j = i /\ HeadIndex \in Nat /\ HeadIndex <= B
    <3>1. /\ HeadIndex \in Nat /\ TailIndex \in Nat /\ HeadIndex <= TailIndex
          /\ TailIndex <= Base(Begun) /\ Base(Begun) <= Base(e) /\ Base(e) \in Nat
          /\ Base(Begun) \in Nat /\ i \in Nat
      BY <1>1, <1>3, ViewTypes, EnteredIs, BegunIs
    <3> QED BY <3>1
  <2>2. ~(B + j < HeadIndex)
    BY <2>1
  <2> QED BY <2>1, <2>2 DEF IsMarked
<1>6. ASSUME NEW q \in o .. e, NEW i \in Slots
      PROVE  i \in flags'[BlockOf(q)'] <=> IsMarked(Base(q) + i)'
  <2>1. CASE q = e
    <3>1. flags'[BlockOf(q)'] = {}
      BY <1>2, <1>3, <2>1
    <3> QED BY <1>4, <1>5, <2>1, <3>1
  <2>2. CASE q # e
    <3>1. q \in o .. (e - 1)
      BY <1>2, <2>2
    <3>2. q \in Window /\ BlockOf(q)' = BlockOf(q) /\ BlockOf(q) # b
      BY <1>2, <3>1
    <3>3. flags'[BlockOf(q)'] = flags[BlockOf(q)]
      BY <1>2, <1>3, <3>2 DEF Index
    <3> QED BY <1>3, <1>4, <3>2, <3>3 DEF FlagsOK
  <2> QED BY <2>1, <2>2
<1> QED BY <1>2, <1>6 DEF FlagsOK

LEMMA EnterSlots ==
    ASSUME TypeOK, Body, NEW b, Enters(b)
    PROVE  Placed' /\ NothingElse' /\ ClaimsOK'
<1>1. PICK e, o : Entered = e /\ Oldest' = o
  OBVIOUS
<1>2. /\ \A q \in o .. (e - 1) : BlockOf(q)' = BlockOf(q)
      /\ Live \subseteq o .. (e - 1)
  BY <1>1, EnterViews
<1>3. /\ Index /\ CallOK /\ ClaimsOK /\ Placed /\ NothingElse
      /\ HeadIndex' = HeadIndex /\ con' = con /\ slots' = slots /\ Filled' = Filled
  BY DEF Body, Enters
<1>4. Objects' = Objects
  BY <1>3 DEF Objects, Untaken, Run
<1>5. \A p \in Objects : BlockOf(Num(p))' = BlockOf(Num(p))
  <2>1. SUFFICES ASSUME NEW p \in Objects PROVE BlockOf(Num(p))' = BlockOf(Num(p))
    OBVIOUS
  <2>2. PICK q \in o .. (e - 1) : q = Num(p)
    BY <1>2, <1>3, ObjectsLive
  <2> QED BY <1>2, <2>2
<1>6. ClaimsOK'
  BY <1>3, ClaimsKept
<1>7. \A p \in Objects : slots'[BlockOf(Num(p))'][Off(p)] = p
  BY <1>3, <1>5 DEF Placed
<1>8. \A x \in Blocks : \A i \in Slots :
         slots'[x][i] # Raw => \E p \in Objects : x = BlockOf(Num(p))' /\ i = Off(p)
  BY <1>3, <1>5 DEF NothingElse
<1> QED BY <1>4, <1>6, <1>7, <1>8 DEF Placed, NothingElse

LEMMA EnterTail ==
    ASSUME TypeOK, Body, NEW b, Enters(b)
    PROVE  TailOK'
<1>1. PICK e, o, f, g : Entered = e /\ Oldest' = o /\ Oldest = f /\ Begun = g
  OBVIOUS
<1>2. /\ e \in Nat /\ o \in Nat /\ f \in Nat /\ f <= o /\ o <= e
      /\ Window' = o .. e /\ Window = f .. (e - 1) /\ g \in Nat
  BY <1>1, EnterViews, ViewTypes DEF Window
<1>3. /\ TailOK /\ ~Shown' /\ Begun' = g /\ \A q \in Int : Place(q)' = Place(q)
  BY <1>1 DEF Body, Enters, Begun
<1>4. Current'.tail = Current.tail
  BY <1>1, <1>2, WriteEffect, BaseStep, e \in Int DEF Enters
<1>5. SUFFICES ASSUME o < g
               PROVE  \E t \in o .. e : Current'.tail = Place(t)' /\ t >= g - 1
  BY <1>1, <1>2, <1>3 DEF TailOK
<1>6. PICK t \in f .. (e - 1) : Current.tail = Place(t) /\ t >= g - 1
  BY <1>1, <1>2, <1>3, <1>5 DEF TailOK
<1>7. t \in o .. e /\ t \in Int
  BY <1>2, <1>5, <1>6
<1> QED BY <1>3, <1>4, <1>6, <1>7

LEMMA EnterKnows ==
    ASSUME TypeOK, Body, NEW b, Enters(b), NEW c \in Consumers
    PROVE  Knows(c)'
<1>1. PICK e, o : Entered = e /\ Oldest' = o
  OBVIOUS
<1>2. /\ e \in Nat /\ o \in Nat /\ o <= e
      /\ \A q \in o .. (e - 1) : q \in Window /\ BlockOf(q)' = BlockOf(q)
      /\ Live \subseteq o .. (e - 1)
      /\ Window' = o .. e
  BY <1>1, EnterViews
<1>3. /\ Index /\ CallOK /\ ClaimsOK /\ Knows(c) /\ con'[c] = con[c]
      /\ \A q \in Int : Place(q)' = Place(q)
      /\ WriteEntry(Base(e), b) /\ b \in Blocks
  BY <1>1 DEF Body, Enters
<1>4. /\ Cur' = Cur
      /\ \A k \in 1 .. Cur :
            /\ arrays'[k].tail = arrays[k].tail
            /\ k # Cur => arrays'[k] = arrays[k]
  BY <1>2, <1>3, WriteEffect, BaseStep, e \in Int
<1>5. CASE ~Calling(c)
  <2>1. con[c].step = "idle"
    BY <1>5 DEF Calling
  <2> QED BY <1>3, <2>1 DEF Knows
<1>6. CASE Calling(c)
  <2>1. PICK q \in Nat, z \in Nat :
            /\ q = Num(con[c].item) /\ z = Num(con[c].item + con[c].need - 1) /\ q <= z
            /\ q \in Busy(c) /\ z \in Busy(c) /\ Busy(c) = q .. z
    BY <1>3, <1>6, ClaimTypes
  <2>2. /\ q \in o .. (e - 1) /\ z \in o .. (e - 1)
        /\ BlockOf(q)' = BlockOf(q)
    BY <1>2, <1>3, <2>1, BusyLive
  <2>3. ASSUME NEW i \in 1 .. Cur, i # Cur, NEW p, Leads(i, p, q)
        PROVE  Leads(i, p, q)'
    BY <1>4, <2>2, <2>3 DEF Leads
  <2>4. con[c].step \in {"tail", "lookup"} => con[c].array \in 1 .. Cur
    BY <1>3 DEF Knows
  <2>5. ASSUME con[c].step = "tail", con[c].array # Cur
        PROVE  Leads(con[c].array, arrays[con[c].array].tail, q)'
    <3>1. PICK i, p : i \in 1 .. Cur /\ i = con[c].array /\ p = arrays[i].tail
                         /\ p = arrays'[i].tail
      BY <1>4, <2>4, <2>5
    <3>2. Leads(i, p, q)
      BY <1>3, <2>1, <2>5, <3>1 DEF Knows
    <3>3. Leads(i, p, q)'
      BY <2>3, <2>5, <3>1, <3>2
    <3> QED BY <1>3, <3>1, <3>3 DEF Leads
  <2>6. ASSUME con[c].step = "lookup"
        PROVE  IF con[c].array = Cur
               THEN \E t \in Window' : t >= q /\ con[c].tail = Place(t)'
               ELSE Leads(con[c].array, con[c].tail, q)'
    <3>1. CASE con[c].array = Cur
      <4>1. PICK t \in Window : t >= q /\ con[c].tail = Place(t)
        BY <1>3, <2>1, <2>6, <3>1 DEF Knows
      <4>2. t \in Int /\ t \in o .. e
        <5>1. t \in Int /\ t <= e - 1
          BY <1>1, <1>2, <4>1, ViewTypes DEF Window
        <5> QED BY <1>2, <2>2, <4>1, <5>1
      <4> QED BY <1>2, <1>3, <3>1, <4>1, <4>2
    <3>2. CASE con[c].array # Cur
      <4>1. PICK i, p : i \in 1 .. Cur /\ i = con[c].array /\ p = con[c].tail
        BY <2>4, <2>6
      <4>2. Leads(i, p, q)
        BY <1>3, <2>1, <2>6, <3>2, <4>1 DEF Knows
      <4>3. Leads(i, p, q)'
        BY <2>3, <3>2, <4>1, <4>2
      <4> QED BY <1>3, <3>2, <4>1, <4>3 DEF Leads
    <3> QED BY <3>1, <3>2
  <2>7. con[c].step \in {"take", "setEmpty"} => con[c].block = BlockOf(q)'
    BY <1>3, <2>1, <2>2 DEF Knows
  <2>8. con[c].step = "setEmpty" /\ q # z => con[c].after = BlockOf(q + 1)'
    <3>1. SUFFICES ASSUME con[c].step = "setEmpty", q # z
                   PROVE  con[c].after = BlockOf(q + 1)'
      OBVIOUS
    <3>2. q + 1 \in o .. (e - 1)
      BY <1>2, <2>1, <2>2, <3>1
    <3>3. BlockOf(q + 1)' = BlockOf(q + 1)
      BY <1>2, <3>2
    <3> QED BY <1>3, <2>1, <3>1, <3>3 DEF Knows
  <2> QED BY <1>3, <1>4, <2>1, <2>4, <2>5, <2>6, <2>7, <2>8 DEF Knows
<1> QED BY <1>5, <1>6

LEMMA EnterKeeps ==
    ASSUME TypeOK, Body, NEW b, Enters(b), CallOK'
    PROVE  Body'
BY EnterIndex, EnterRing, EnterSupply, EnterFlags, EnterSlots, EnterTail, EnterKnows DEF Body

\* The types, when a block entered.
LEMMA EnterTypes ==
    ASSUME TypeOK, Body, NEW b, Enters(b),
           PO_NextIndexEntry' \in 0 .. (IndexSize' - 1),
           po' \in [step : {"idle", "gone"}] \union EnqCalls \union BulkCalls,
           program' = program
    PROVE  TypeOK'
<1>1. /\ b \in Blocks /\ WriteEntry(Base(Entered), b) /\ TailBlock' = b
      /\ flags' = [flags EXCEPT ![b] = {}]
      /\ HeadIndex' = HeadIndex /\ TailIndex' = TailIndex /\ slots' = slots /\ con' = con
      /\ (Reuses(b) \/ Links(b))
  BY DEF Enters
<1>2. Base(Entered) \in Int
  BY ViewTypes, BaseStep
<1>3. arrays' \in Seq(Arrays) /\ Cur' = Cur /\ IndexSize' = IndexSize
  BY <1>1, <1>2, WriteEffect
<1>4. PICK u \in Nat, s \in Nat : u = PO_IndexEntriesUsed /\ s = IndexSize /\ u <= s
  BY ViewTypes, CurTypes
<1>5. PO_IndexEntriesUsed' \in 0 .. s
  <2>1. CASE Reuses(b)
    BY <1>4, <2>1 DEF Reuses
  <2>2. CASE Links(b)
    BY <1>4, <2>2 DEF Links
  <2> QED BY <1>1, <2>1, <2>2
<1>6. flags' \in [Blocks -> SUBSET Slots] /\ TailBlock' \in MaybeBlock
  BY <1>1 DEF TypeOK, MaybeBlock
<1>7. /\ next' \in [Blocks -> MaybeBlock]
      /\ manager' \subseteq Blocks /\ heap' \subseteq Blocks /\ manager' \intersect heap' = {}
  <2>1. /\ next \in [Blocks -> MaybeBlock] /\ TailBlock \in MaybeBlock
        /\ manager \subseteq Blocks /\ heap \subseteq Blocks /\ manager \intersect heap = {}
    BY DEF TypeOK
  <2>2. CASE Reuses(b)
    BY <2>1, <2>2 DEF Reuses
  <2>3. CASE Links(b)
    <3>1. manager' \subseteq Blocks /\ heap' \subseteq Blocks /\ manager' \intersect heap' = {}
      BY <2>1, <2>3 DEF Links
    <3>2. CASE TailBlock = NoBlock
      <4>1. next' = [next EXCEPT ![b] = b]
        BY <2>3, <3>2 DEF Links
      <4> QED BY <1>1, <2>1, <3>1, <4>1 DEF MaybeBlock
    <3>3. CASE TailBlock # NoBlock
      <4>1. next' = [next EXCEPT ![b] = next[TailBlock], ![TailBlock] = b]
        BY <2>3, <3>3 DEF Links
      <4>2. TailBlock \in Blocks /\ next[TailBlock] \in MaybeBlock /\ b \in MaybeBlock
        BY <1>1, <2>1, <3>3 DEF MaybeBlock
      <4> QED BY <1>1, <2>1, <3>1, <4>1, <4>2
    <3> QED BY <3>2, <3>3
  <2> QED BY <1>1, <2>2, <2>3
<1>8. /\ HeadIndex \in Nat /\ TailIndex \in Nat /\ HeadIndex <= TailIndex
      /\ slots \in [Blocks -> [Slots -> Nat \union {Raw}]]
      /\ con \in [Consumers -> {NoCall} \union Lookups]
      /\ program \in Programs /\ NothingFails(program) /\ Cur >= 1
  BY DEF TypeOK
<1> QED BY <1>1, <1>3, <1>4, <1>5, <1>6, <1>7, <1>8 DEF TypeOK

LEMMA ReusableIs ==
    ASSUME TypeOK, Body, Reusable
    PROVE  TailBlock # NoBlock /\ next[TailBlock] \in Blocks /\ IsEmpty(next[TailBlock])
<1>1. Index /\ InRing /\ TailBlock # NoBlock /\ IsEmpty(next[TailBlock])
  BY DEF Body, Reusable
<1>2. Entered \in Nat /\ Oldest \in Nat /\ Entered # 0
  BY <1>1, EnteredIs DEF Body, InRing
<1>3. next[TailBlock] = BlockOf(Oldest) /\ Oldest \in Window
  BY <1>1, <1>2 DEF Index, InRing, Window
<1> QED BY <1>1, <1>3 DEF Index

LEMMA RequisitionIs ==
    ASSUME TypeOK, NEW mode, NEW b \in Requisition(mode) \ {NoBlock}, LinkNew(b), ~IndexFull,
           PO_IndexEntriesUsed' = PO_IndexEntriesUsed + 1
    PROVE  /\ b \in Blocks /\ Links(b)
           /\ TailBlock' = b /\ flags' = [flags EXCEPT ![b] = {}]
<1>1. b \in manager \union heap
  BY DEF Requisition
<1>2. PO_IndexEntriesUsed < IndexSize
  BY ViewTypes, CurTypes DEF IndexFull
<1> QED BY <1>1, <1>2 DEF LinkNew, Links, TypeOK

\* The place of the block that enters is the one the producer writes.
LEMMA PlaceNext ==
    ASSUME TypeOK, Front = PO_NextIndexEntry
    PROVE  Place(Entered) = PO_NextIndexEntry
<1>1. PICK e \in Int, f \in Int, s \in Nat \ {0} :
          e = Entered /\ f = PO_NextIndexEntry /\ s = IndexSize /\ f \in 0 .. (s - 1)
  BY CurTypes, ViewTypes DEF TypeOK
<1>2. e + (f - e) = f /\ f % s = f
  BY <1>1, ModSmall
<1> QED BY <1>1, <1>2 DEF Place

LEMMA EnqueueEnters ==
    ASSUME TypeOK, Body, NEW b \in Blocks, po.step \in {"idle", "enqFresh"}, Off(TailIndex) = 0,
           po' \in EnqCalls, po'.step = "enqIndex",
           WriteEntry(TailIndex, b), TailBlock' = b, flags' = [flags EXCEPT ![b] = {}],
           Reuses(b) \/ Links(b),
           UNCHANGED <<HeadIndex, TailIndex, slots, PO_NextIndexEntry, con, program>>
    PROVE  TypeOK' /\ Body' /\ po'.step # "gone" /\ Enters(b)
<1>1. Entered = Begun /\ Front = PO_NextIndexEntry
  BY DEF Entered, Front, BulkSteps
<1>2. PICK e \in Nat, f \in Nat, s \in Nat \ {0} :
          /\ e = Entered /\ f = PO_NextIndexEntry /\ s = IndexSize /\ f \in 0 .. (s - 1)
          /\ TailIndex = Base(e)
  BY <1>1, ViewTypes, CurTypes, BegunIs DEF TypeOK
<1>3. Entered' = e + 1 /\ Front' = f + 1 /\ Filled' = Filled /\ ~Shown'
  BY <1>1, <1>2 DEF Entered, Front, Filled, Shown, Begun
<1>4. WriteEntry(Base(e), b) /\ IndexSize' = s
  <2>1. Base(e) \in Int
    BY <1>2, BaseStep, e \in Int
  <2>2. WriteEntry(Base(e), b)
    BY <1>2
  <2> QED BY <1>2, <2>1, <2>2, WriteEffect
<1>5. ASSUME NEW q \in Int PROVE Place(q)' = Place(q)
  <2>1. (f + 1) - (e + 1) = f - e
    BY <1>2
  <2>2. Place(q)' = (q + ((f + 1) - (e + 1))) % s
    BY <1>3, <1>4 DEF Place
  <2> QED BY <1>1, <1>2, <2>1, <2>2 DEF Place
<1>6. Enters(b)
  BY <1>1, <1>2, <1>3, <1>4, <1>5, PlaceNext DEF Enters
<1>7. CallOK'
  BY DEF CallOK, BulkSteps, TakeSteps
<1>8. PO_NextIndexEntry' \in 0 .. (IndexSize' - 1)
  BY <1>2, <1>4
<1> QED BY <1>6, <1>7, <1>8, EnterTypes, EnterKeeps

LEMMA StepEnqueueReuse ==
    ASSUME TypeOK, Body, EnqueueReuse, program' = program
    PROVE  TypeOK' /\ Body' /\ po'.step # "gone" /\ \E b \in Blocks : Enters(b)
<1>1. /\ po.step = "idle" /\ Off(TailIndex) = 0 /\ Reusable /\ ReuseOldest
      /\ WriteEntry(TailIndex, next[TailBlock])
      /\ po' = [step |-> "enqIndex", old |-> TailBlock]
      /\ UNCHANGED <<HeadIndex, TailIndex, slots, PO_NextIndexEntry, PO_IndexEntriesUsed, con>>
  BY DEF EnqueueReuse, Off
<1>2. TailBlock # NoBlock /\ next[TailBlock] \in Blocks /\ IsEmpty(next[TailBlock])
  BY <1>1, ReusableIs
<1>3. PICK b \in Blocks : b = next[TailBlock]
  BY <1>2
<1>4. Reuses(b) /\ TailBlock' = b /\ flags' = [flags EXCEPT ![b] = {}]
  BY <1>1, <1>2, <1>3 DEF ReuseOldest, Reuses, supply
<1>5. po' \in EnqCalls /\ po'.step = "enqIndex"
  BY <1>1 DEF EnqCalls, TypeOK
<1> QED BY <1>1, <1>3, <1>4, <1>5, EnqueueEnters

LEMMA StepEnqueueFresh ==
    ASSUME TypeOK, Body, EnqueueFresh, program' = program
    PROVE  TypeOK' /\ Body' /\ po'.step # "gone" /\ \E b \in Blocks : Enters(b)
<1>1. /\ po.step = "enqFresh" /\ ~IndexFull
      /\ PO_IndexEntriesUsed' = PO_IndexEntriesUsed + 1
      /\ po' = [step |-> "enqIndex", old |-> po.old]
      /\ UNCHANGED <<HeadIndex, TailIndex, slots, PO_NextIndexEntry, con>>
  BY DEF EnqueueFresh
<1>2. PICK b \in Requisition(po.mode) \ {NoBlock} : LinkNew(b) /\ WriteEntry(TailIndex, b)
  BY DEF EnqueueFresh
<1>3. b \in Blocks /\ Links(b) /\ TailBlock' = b /\ flags' = [flags EXCEPT ![b] = {}]
  BY <1>1, <1>2, RequisitionIs
<1>4. po.old \in MaybeBlock
  BY <1>1 DEF TypeOK, EnqCalls, BulkCalls, BulkSteps
<1>5. po' \in EnqCalls /\ po'.step = "enqIndex"
  BY <1>1, <1>4 DEF EnqCalls
<1>6. Off(TailIndex) = 0
  BY <1>1 DEF Body, CallOK
<1> QED BY <1>1, <1>2, <1>3, <1>5, <1>6, EnqueueEnters

\* The same in EnqueueBulk.
LEMMA BulkEnters ==
    ASSUME TypeOK, Body, NEW b \in Blocks, NEW step \in TakeSteps, po.step \in TakeSteps,
           TookBlock(b, step),
           WriteEntry(po.base + BlockSize, b), TailBlock' = b, flags' = [flags EXCEPT ![b] = {}],
           PO_NextIndexEntry' = Wrapped(PO_NextIndexEntry + 1),
           Reuses(b) \/ Links(b),
           UNCHANGED <<HeadIndex, TailIndex, slots, con, program>>
    PROVE  TypeOK' /\ Body' /\ po'.step # "gone" /\ Enters(b)
<1>1. /\ po \in BulkCalls /\ po.step \in BulkSteps /\ Index /\ CallOK
      /\ po.step \notin {"idle", "enqFresh", "enqIndex", "enqConstruct", "fill", "bulkIndex", "bulkTail"}
  BY CallTypes DEF Body, BulkSteps, TakeSteps
<1>2. PICK e \in Nat, g \in Nat, f \in Nat, s \in Nat \ {0}, need \in Int :
          /\ e = Entered /\ g = Begun /\ f = PO_NextIndexEntry /\ s = IndexSize
          /\ need = po.need /\ f \in 0 .. (s - 1)
  BY <1>1, ViewTypes, CurTypes, EnteredIs DEF TypeOK, BulkCalls
<1>3. /\ program.Faults = {} /\ po.mode # "CannotAlloc"
      /\ po.base = Base(e - 1) /\ e >= g /\ need > 0 /\ po.done = 0
      /\ e + need = Num(TailIndex + po.n - 1) + 1
      /\ po.firstNew = IF e = g THEN NoBlock ELSE BlockOf(g)
      /\ po.origUsed <= PO_IndexEntriesUsed
      /\ PO_IndexEntriesUsed - po.origUsed <= e - g
      /\ (Num(TailIndex + po.done) < e => po.block = BlockOf(Num(TailIndex + po.done)))
  BY <1>1, <1>2 DEF CallOK
<1>4. po.base + BlockSize = Base(e) /\ Base(e) \in Int /\ Num(Base(e)) = e
  <2>1. e - 1 \in Int /\ (e - 1) + 1 = e /\ e \in Int
    BY <1>2
  <2>2. Base((e - 1) + 1) = Base(e - 1) + BlockSize
    BY <2>1, BaseStep
  <2> QED BY <1>3, <2>1, <2>2, BaseStep
<1> DEFINE first == IF po.firstNew = NoBlock THEN b ELSE po.firstNew
           block == IF Off(TailIndex) = 0 THEN first ELSE po.block
<1>5. /\ po' = [po EXCEPT !.need = need - 1, !.base = Base(e), !.firstNew = first,
                          !.block = block, !.step = IF need = 1 THEN "fill" ELSE step]
  BY <1>2, <1>4 DEF TookBlock, Off
<1>6. first \in MaybeBlock /\ block \in MaybeBlock /\ b # NoBlock
  BY <1>1, BlocksAssumption DEF BulkCalls, MaybeBlock
<1> HIDE DEF first, block
<1>7. /\ po' \in BulkCalls /\ po'.step \in TakeSteps \union {"fill"} /\ po'.step \in BulkSteps
      /\ po'.need = need - 1 /\ po'.base = Base(e) /\ po'.firstNew = first /\ po'.block = block
      /\ po'.mode = po.mode /\ po'.n = po.n /\ po'.origUsed = po.origUsed /\ po'.done = po.done
      /\ (po'.step = "fill" <=> need = 1)
  <2>1. need - 1 \in Int /\ step \in BulkSteps /\ step # "fill"
    BY <1>2 DEF BulkSteps, TakeSteps
  <2> QED BY <1>1, <1>4, <1>5, <1>6, <2>1 DEF BulkCalls, BulkSteps, TakeSteps
<1>8. /\ Entered' = e + 1 /\ Begun' = g /\ Front = f /\ Front' = (f + 1) % s
      /\ Filled' = Filled /\ ~Shown'
  <2>1. Entered' = Num(po'.base) + 1
    BY <1>7 DEF Entered, BulkSteps
  <2>2. Entered' = e + 1
    BY <1>4, <1>7, <2>1
  <2>3. Begun' = g
    BY <1>2 DEF Begun
  <2>4. PO_NextIndexEntry' = (f + 1) % s
    BY <1>2 DEF Wrapped
  <2>5. po'.step \notin {"enqIndex", "enqConstruct", "bulkIndex", "bulkTail"}
    BY <1>7 DEF TakeSteps
  <2>6. Front = f /\ Front' = (f + 1) % s /\ ~Shown'
    BY <1>1, <1>2, <2>4, <2>5 DEF Front, Shown
  <2>7. Filled = TailIndex /\ Filled' = TailIndex
    <3>1. TailIndex + 0 = TailIndex
      BY ViewTypes
    <3> QED BY <1>1, <1>3, <1>7, <2>5, <3>1 DEF Filled
  <2> QED BY <2>2, <2>3, <2>6, <2>7
<1>9. WriteEntry(Base(e), b) /\ IndexSize' = s
  BY <1>2, <1>4, WriteEffect
<1>10. ASSUME NEW q \in Int PROVE Place(q)' = Place(q)
  <2>1. Place(q)' = (q + (((f + 1) % s) - (e + 1))) % s
    BY <1>8, <1>9 DEF Place
  <2>2. f + 1 \in Int /\ e + 1 \in Int /\ (f + 1) - (e + 1) = f - e
    BY <1>2
  <2>3. (q + (((f + 1) % s) - (e + 1))) % s = (q + ((f + 1) - (e + 1))) % s
    BY <2>2, WrapFront
  <2>4. Place(q) = (q + (f - e)) % s
    BY <1>2, <1>8 DEF Place
  <2> QED BY <2>1, <2>2, <2>3, <2>4
<1>11. Enters(b)
  BY <1>2, <1>8, <1>9, <1>10, PlaceNext DEF Enters
<1>12. PICK o : Oldest' = o
  OBVIOUS
<1>13. /\ \A q \in o .. (e - 1) : BlockOf(q)' = BlockOf(q) /\ q \in Window
       /\ BlockOf(e)' = b /\ Live \subseteq o .. (e - 1)
  BY <1>2, <1>11, <1>12, EnterViews
\* A block that was entered before, and not all taken, is where it was.
<1>14. ASSUME NEW q \in Nat, q < e, HeadIndex < Base(q + 1)
       PROVE  BlockOf(q)' = BlockOf(q) /\ BlockOf(q) \in Blocks
  <2>1. q \in Live
    BY <1>2, <1>14 DEF Live
  <2>2. q \in o .. (e - 1)
    BY <1>13, <2>1
  <2> QED BY <1>1, <1>13, <2>2 DEF Index
<1>15. /\ HeadIndex \in Nat /\ TailIndex \in Nat /\ HeadIndex <= TailIndex
       /\ TailIndex <= Base(g) /\ Base(g) \in Nat /\ BlockSize \in Nat \ {0, 1}
       /\ Base(g + 1) = Base(g) + BlockSize
       /\ (Off(TailIndex) = 0 => Num(TailIndex) = g)
       /\ (Off(TailIndex) # 0 => TailIndex < Base(g) /\ Num(TailIndex) = g - 1)
  BY <1>2, ViewTypes, BegunIs, BaseStep, g \in Int
<1>16. first = BlockOf(g)'
  <2>1. CASE e = g
    BY <1>3, <1>13, <2>1 DEF first
  <2>2. CASE e # g
    <3>1. g < e /\ HeadIndex < Base(g + 1)
      BY <1>2, <1>3, <1>15, <2>2
    <3>2. BlockOf(g)' = BlockOf(g) /\ BlockOf(g) \in Blocks
      BY <1>14, <3>1
    <3> QED BY <1>3, <2>2, <3>2, BlocksAssumption DEF first
  <2> QED BY <2>1, <2>2
<1>17. block = BlockOf(Num(TailIndex))'
  <2>1. CASE Off(TailIndex) = 0
    <3>1. BlockOf(Num(TailIndex))' = BlockOf(g)'
      BY <1>15, <2>1
    <3> QED BY <1>16, <2>1, <3>1 DEF block
  <2>2. CASE Off(TailIndex) # 0
    <3>1. PICK q \in Nat : q = Num(TailIndex)
      <4>1. Num(0) = 0 /\ 0 \in Int /\ TailIndex \in Int /\ 0 <= TailIndex
        BY <1>15, SizesAssumption DEF Num
      <4>2. 0 <= Num(TailIndex) /\ Num(TailIndex) \in Int
        BY <4>1, NumOrder, DivMod
      <4> QED BY <4>2
    <3>2. q < e /\ q + 1 = g
      BY <1>2, <1>3, <1>15, <2>2, <3>1
    <3>3. HeadIndex < Base(q + 1)
      BY <1>15, <2>2, <3>2
    <3>4. BlockOf(q)' = BlockOf(q)
      BY <1>14, <3>2, <3>3
    <3>5. po.block = BlockOf(q)
      <4>1. TailIndex + po.done = TailIndex
        BY <1>3, <1>15
      <4> QED BY <1>3, <3>1, <3>2, <4>1
    <3>6. BlockOf(Num(TailIndex))' = BlockOf(q)'
      BY <3>1
    <3> QED BY <2>2, <3>4, <3>5, <3>6 DEF block
  <2> QED BY <2>1, <2>2
<1>18. PO_IndexEntriesUsed' - po.origUsed <= (e + 1) - g /\ po.origUsed <= PO_IndexEntriesUsed'
  <2>1. PICK u \in Nat, w \in Int : u = PO_IndexEntriesUsed /\ w = po.origUsed
    BY <1>1, ViewTypes DEF BulkCalls
  <2>2. PO_IndexEntriesUsed' \in {u, u + 1}
    BY <2>1 DEF Reuses, Links
  <2> QED BY <1>2, <1>3, <2>1, <2>2
<1>19. CallOK'
  <2>1. /\ program'.Faults = {} /\ po'.mode # "CannotAlloc"
        /\ po'.base = Base(Entered' - 1) /\ Entered' >= Begun'
    <3>1. (e + 1) - 1 = e /\ e + 1 >= g
      BY <1>2, <1>3
    <3> QED BY <1>3, <1>7, <1>8, <3>1
  <2>2. Entered' + po'.need = Num(TailIndex' + po'.n - 1) + 1
    <3>1. (e + 1) + (need - 1) = e + need
      BY <1>2
    <3> QED BY <1>3, <1>7, <1>8, <3>1
  <2>3. (po'.step \in TakeSteps <=> po'.need > 0) /\ po'.need >= 0
    BY <1>2, <1>3, <1>7 DEF TakeSteps
  <2>4. po'.firstNew = IF Entered' = Begun' THEN NoBlock ELSE BlockOf(Begun)'
    <3>1. e + 1 # g
      BY <1>2, <1>3
    <3>2. BlockOf(Begun)' = BlockOf(g)'
      BY <1>8
    <3> QED BY <1>7, <1>8, <1>16, <3>1, <3>2
  <2>5. po'.done = 0 /\ po'.done < po'.n /\ po'.step # "bulkIndex"
    BY <1>1, <1>3, <1>7 DEF BulkCalls, TakeSteps
  <2>6. po'.block = BlockOf(Num(TailIndex + po.done))'
    <3>1. TailIndex' + po'.done = TailIndex'
      BY <1>15, <2>5
    <3>2. BlockOf(Num(TailIndex + po.done))' = BlockOf(Num(TailIndex))'
      BY <3>1
    <3> QED BY <1>7, <1>17, <3>2
  <2>7. po'.step \notin {"enqFresh", "enqIndex", "enqConstruct"}
    BY <1>7 DEF TakeSteps
  <2>8. /\ po'.origUsed <= PO_IndexEntriesUsed'
        /\ PO_IndexEntriesUsed' - po'.origUsed <= Entered' - Begun'
    BY <1>7, <1>8, <1>18
  <2> QED BY <2>1, <2>2, <2>3, <2>4, <2>5, <2>6, <2>7, <2>8 DEF CallOK
<1>20. PO_NextIndexEntry' \in 0 .. (IndexSize' - 1)
  BY <1>2, <1>9, DivModS, f + 1 \in Int DEF Wrapped
<1>21. po'.step # "gone"
  BY <1>7 DEF TakeSteps
<1> QED BY <1>7, <1>11, <1>19, <1>20, <1>21, EnterTypes, EnterKeeps

LEMMA StepBulkReuse ==
    ASSUME TypeOK, Body, BulkReuse, program' = program
    PROVE  TypeOK' /\ Body' /\ po'.step # "gone" /\ \E b \in Blocks : Enters(b)
<1>1. /\ po.step = "bulkReuse" /\ Reusable /\ ReuseOldest
      /\ WriteEntry(po.base + BlockSize, next[TailBlock])
      /\ PO_NextIndexEntry' = Wrapped(PO_NextIndexEntry + 1)
      /\ TookBlock(next[TailBlock], "bulkReuse")
      /\ UNCHANGED <<HeadIndex, TailIndex, slots, PO_IndexEntriesUsed, con>>
  BY DEF BulkReuse
<1>2. TailBlock # NoBlock /\ next[TailBlock] \in Blocks /\ IsEmpty(next[TailBlock])
  BY <1>1, ReusableIs
<1>3. PICK b \in Blocks : b = next[TailBlock]
  BY <1>2
<1>4. Reuses(b) /\ TailBlock' = b /\ flags' = [flags EXCEPT ![b] = {}]
  BY <1>1, <1>2, <1>3 DEF ReuseOldest, Reuses, supply
<1>5. po.step \in TakeSteps /\ "bulkReuse" \in TakeSteps
  BY <1>1 DEF TakeSteps
<1> QED BY <1>1, <1>3, <1>4, <1>5, BulkEnters

LEMMA StepBulkFresh ==
    ASSUME TypeOK, Body, BulkFresh, program' = program
    PROVE  TypeOK' /\ Body' /\ po'.step # "gone" /\ \E b \in Blocks : Enters(b)
<1>1. /\ NeedsFresh /\ ~IndexFull
      /\ PO_IndexEntriesUsed' = PO_IndexEntriesUsed + 1
      /\ PO_NextIndexEntry' = Wrapped(PO_NextIndexEntry + 1)
      /\ UNCHANGED <<HeadIndex, TailIndex, slots, con>>
  BY DEF BulkFresh
<1>2. PICK b \in Requisition(po.mode) \ {NoBlock} :
          /\ LinkNew(b)
          /\ WriteEntry(po.base + BlockSize, b)
          /\ TookBlock(b, "bulkFresh")
  BY DEF BulkFresh
<1>3. b \in Blocks /\ Links(b) /\ TailBlock' = b /\ flags' = [flags EXCEPT ![b] = {}]
  BY <1>1, <1>2, RequisitionIs
<1>4. po.step \in TakeSteps /\ "bulkFresh" \in TakeSteps
  BY <1>1 DEF TakeSteps, NeedsFresh
<1> QED BY <1>1, <1>2, <1>3, <1>4, BulkEnters

-----------------------------------------------------------------------------
(* The index grows. *)

LEMMA GrowEffect ==
    ASSUME TypeOK, NEW filled \in Int, IndexFull, Grow(filled)
    PROVE  /\ arrays' \in Seq(Arrays) /\ Cur' = Cur + 1
           /\ IndexSize' = 2 * IndexSize /\ Current'.tail = filled - 1
           /\ \A k \in 1 .. Cur : arrays'[k] = arrays[k]
           /\ \A k \in 0 .. (IndexSize - 1) :
                 Current'.entries[k] =
                    Current.entries[((PO_NextIndexEntry - IndexSize) + k) % IndexSize]
           /\ PO_NextIndexEntry' = IndexSize
<1>1. PICK s \in Nat \ {0}, f \in Nat :
          /\ s = IndexSize /\ f = PO_NextIndexEntry /\ PO_IndexEntriesUsed = s
          /\ Current.entries \in [0 .. (s - 1) -> Entries]
  BY CurTypes, ViewTypes DEF IndexFull, IndexSize
<1>2. PICK junk \in JunkEntries : arrays' = Append(arrays, GrownIndex(filled, junk))
  BY DEF Grow
<1>3. PO_NextIndexEntry' = s
  BY <1>1 DEF Grow
<1> DEFINE start == (f - s) % s
           es == [k \in 0 .. (2 * s - 1) |->
                     IF k < s THEN Current.entries[(start + k) % s] ELSE junk]
           new == [size |-> 2 * s, tail |-> filled - 1, entries |-> es]
<1>4. GrownIndex(filled, junk) = new
  BY <1>1 DEF GrownIndex, Wrapped
<1>5. ASSUME NEW k \in Int
      PROVE  (start + k) % s = ((f - s) + k) % s /\ (start + k) % s \in 0 .. (s - 1)
  <2>1. f - s \in Int
    BY <1>1
  <2>2. start + k \in Int /\ (start + k) % s = ((f - s) + k) % s
    BY <2>1, ModPlus
  <2> QED BY <2>2, DivModS
<1> HIDE DEF start
<1>6. es \in [0 .. (2 * s - 1) -> Entries]
  <2>1. junk \in Entries
    BY DEF Entries
  <2>2. \A k \in 0 .. (2 * s - 1) : k \in Int
    BY <1>1
  <2>3. \A k \in 0 .. (2 * s - 1) : (start + k) % s \in 0 .. (s - 1)
    BY <1>5, <2>2
  <2>4. \A k \in 0 .. (2 * s - 1) : Current.entries[(start + k) % s] \in Entries
    BY <1>1, <2>3
  <2> QED BY <2>1, <2>4
<1>7. \A k \in 0 .. (s - 1) : es[k] = Current.entries[((f - s) + k) % s]
  <2>1. SUFFICES ASSUME NEW k \in 0 .. (s - 1)
                 PROVE  es[k] = Current.entries[((f - s) + k) % s]
    OBVIOUS
  <2>2. k \in 0 .. (2 * s - 1) /\ k < s /\ k \in Int
    BY <1>1
  <2>3. es[k] = Current.entries[(start + k) % s]
    BY <2>2
  <2> QED BY <1>5, <2>2, <2>3
<1> HIDE DEF es
<1>8. new \in Arrays
  <2>1. 2 * s \in Nat \ {0}
    BY <1>1
  <2>2. new \in [size : {2 * s}, tail : Int, entries : [0 .. (2 * s - 1) -> Entries]]
    BY <1>6
  <2> QED BY <2>1, <2>2 DEF Arrays
<1>9. new.size = 2 * s /\ new.tail = filled - 1 /\ new.entries = es
  OBVIOUS
<1> HIDE DEF new
<1>10. /\ arrays' \in Seq(Arrays) /\ Cur' = Cur + 1 /\ Current' = new
       /\ \A k \in 1 .. Cur : arrays'[k] = arrays[k]
  <2>1. arrays \in Seq(Arrays) /\ arrays' = Append(arrays, new)
    BY <1>2, <1>4 DEF TypeOK
  <2>2. /\ arrays' \in Seq(Arrays) /\ Len(arrays') = Len(arrays) + 1
        /\ arrays'[Len(arrays) + 1] = new
        /\ \A k \in 1 .. Len(arrays) : arrays'[k] = arrays[k]
    BY <1>8, <2>1
  <2> QED BY <2>2 DEF Cur, Current
<1>11. IndexSize' = 2 * s
  BY <1>9, <1>10 DEF IndexSize
<1> QED BY <1>1, <1>3, <1>7, <1>9, <1>10, <1>11

\* The filled first blocks of the ring are those the new tail is for.
Grows(filled) ==
    /\ Grow(filled) /\ IndexFull
    /\ filled \in Nat /\ filled <= PO_IndexEntriesUsed
    /\ PO_IndexEntriesUsed - filled <= Entered - Begun
    /\ Front = PO_NextIndexEntry /\ Front' = PO_NextIndexEntry'
    /\ Entered' = Entered /\ Filled' = Filled /\ ~Shown'
    /\ UNCHANGED <<HeadIndex, TailIndex, ring, flags, slots, PO_IndexEntriesUsed, supply, con>>

LEMMA GrowViews ==
    ASSUME TypeOK, Body, NEW filled, Grows(filled)
    PROVE  /\ Window' = Window /\ Entered' = Entered /\ Oldest' = Oldest /\ Begun' = Begun
           /\ Entered \in Nat /\ Oldest \in Nat /\ Begun \in Nat
           /\ \A q \in Window : /\ q \in Int /\ Place(q)' = q - Oldest /\ EntryAt(q)' = EntryAt(q)
                                /\ BlockOf(q)' = BlockOf(q)
           /\ Live' = Live /\ Live \subseteq Window
<1>1. /\ Index /\ CallOK /\ Grow(filled) /\ IndexFull /\ filled \in Int /\ LiveInWindow
      /\ Front = PO_NextIndexEntry /\ Front' = PO_NextIndexEntry' /\ Entered' = Entered
      /\ HeadIndex' = HeadIndex /\ TailIndex' = TailIndex /\ con' = con
      /\ PO_IndexEntriesUsed' = PO_IndexEntriesUsed
  BY DEF Body, Grows
<1>2. PICK e \in Nat, o \in Nat, s \in Nat \ {0}, f \in Nat :
          /\ e = Entered /\ o = Oldest /\ s = IndexSize /\ f = PO_NextIndexEntry
          /\ PO_IndexEntriesUsed = s /\ e - o = s
  BY <1>1, EnteredIs, CurTypes, ViewTypes DEF IndexFull
<1>3. /\ IndexSize' = 2 * s /\ PO_NextIndexEntry' = s
      /\ \A k \in 0 .. (s - 1) :
            Current'.entries[k] = Current.entries[((f - s) + k) % s]
  BY <1>1, <1>2, GrowEffect
<1>4. /\ Oldest' = Oldest /\ Window' = Window /\ Begun' = Begun /\ Begun \in Nat
      /\ Live' = Live
  BY <1>1, SameLive, ViewTypes DEF Oldest, Window, Begun
<1>5. ASSUME NEW q \in Window
      PROVE  q \in Int /\ Place(q)' = q - o /\ EntryAt(q)' = EntryAt(q) /\ BlockOf(q)' = BlockOf(q)
  <2>1. q \in o .. (e - 1) /\ q \in Int
    BY <1>2 DEF Window
  <2>2. q - o \in 0 .. (s - 1) /\ q - o \in 0 .. (2 * s - 1) /\ 2 * s \in Nat \ {0}
    BY <1>2, <2>1
  <2>3. Place(q)' = (q + (s - e)) % (2 * s)
    BY <1>1, <1>2, <1>3 DEF Place
  <2>4. q + (s - e) = q - o
    BY <1>2, <2>1
  <2>5. Place(q)' = q - o
    BY <2>2, <2>3, <2>4, ModSmall
  <2>6. EntryAt(q)' = Current.entries[((f - s) + (q - o)) % s]
    BY <1>3, <2>2, <2>5 DEF EntryAt
  <2>7. (f - s) + (q - o) = q + (f - e)
    BY <1>2, <2>1
  <2>8. Place(q) = (q + (f - e)) % s
    BY <1>1, <1>2 DEF Place
  <2>9. EntryAt(q)' = EntryAt(q)
    BY <2>6, <2>7, <2>8 DEF EntryAt
  <2> QED BY <2>1, <2>5, <2>9 DEF BlockOf
<1> QED BY <1>1, <1>2, <1>4, <1>5 DEF LiveInWindow

LEMMA GrowKnows ==
    ASSUME TypeOK, Body, NEW filled, Grows(filled), NEW c \in Consumers
    PROVE  Knows(c)'
<1>1. /\ Index /\ CallOK /\ ClaimsOK /\ TailOK /\ Knows(c) /\ con'[c] = con[c]
      /\ filled \in Int /\ Grow(filled) /\ IndexFull
  BY DEF Body, Grows
<1>2. Cur' = Cur + 1 /\ (\A k \in 1 .. Cur : arrays'[k] = arrays[k]) /\ Cur \in Nat \ {0}
  BY <1>1, GrowEffect, CurTypes
<1>3. CASE ~Calling(c)
  <2>1. con[c].step = "idle"
    BY <1>3 DEF Calling
  <2> QED BY <1>1, <2>1 DEF Knows
<1>4. CASE Calling(c)
  <2>1. PICK q \in Nat, z \in Nat :
            /\ q = Num(con[c].item) /\ z = Num(con[c].item + con[c].need - 1) /\ q <= z
            /\ q \in Busy(c) /\ z \in Busy(c) /\ Busy(c) = q .. z
    BY <1>1, <1>4, ClaimTypes
  <2>2. q < Begun /\ \A r \in q .. z : r \in Window /\ BlockOf(r)' = BlockOf(r)
    BY <1>1, <2>1, BusyLive, GrowViews
  <2>3. q \in Window /\ BlockOf(q)' = BlockOf(q)
    BY <2>1, <2>2
  <2>4. con[c].step \in {"tail", "lookup"} =>
           con[c].array \in 1 .. Cur /\ con[c].array \in 1 .. Cur' /\ con[c].array # Cur'
    BY <1>1, <1>2 DEF Knows
  <2>5. ASSUME NEW i \in 1 .. Cur, NEW p, Leads(i, p, q)
        PROVE  Leads(i, p, q)'
    BY <1>2, <2>3, <2>5 DEF Leads
  \* Where the array was the current one, the entry it tells of leads on.
  <2>6. ASSUME NEW t \in Window PROVE Leads(Cur, Place(t), q)
    <3>1. t \in Int /\ t \in Nat
      BY <1>1, ViewTypes DEF Index, Window
    <3>2. (Place(t) + (q - t)) % IndexSize = Place(q)
      BY <3>1, PlaceFrom, q \in Int
    <3>3. Current.entries[Place(t)].base = Base(t) /\ Current.entries[Place(q)].block = BlockOf(q)
      BY <1>1, <2>3 DEF Index, EntryAt, BlockOf
    <3>4. Current = arrays[Cur] /\ IndexSize = arrays[Cur].size
      BY CurTypes DEF IndexSize
    <3> QED BY <3>1, <3>2, <3>3, <3>4 DEF Leads
  <2>7. ASSUME con[c].step = "tail"
        PROVE  Leads(con[c].array, arrays[con[c].array].tail, q)'
    <3>1. PICK i, p : i \in 1 .. Cur /\ i = con[c].array /\ p = arrays[i].tail
                         /\ p = arrays'[i].tail
      BY <1>2, <2>4, <2>7
    <3>2. Leads(i, p, q)
      <4>1. CASE i = Cur
        <5>1. Oldest < Begun
          BY <2>2, <2>3, ViewTypes DEF Window
        <5>2. PICK t \in Window : Current.tail = Place(t)
          BY <1>1, <5>1 DEF TailOK
        <5>3. Current = arrays[Cur]
          BY CurTypes
        <5> QED BY <2>6, <3>1, <4>1, <5>2, <5>3
      <4>2. CASE i # Cur
        BY <1>1, <2>1, <2>7, <3>1, <4>2 DEF Knows
      <4> QED BY <4>1, <4>2
    <3>3. Leads(i, p, q)'
      BY <2>5, <3>1, <3>2
    <3> QED BY <1>1, <3>1, <3>3 DEF Leads
  <2>8. ASSUME con[c].step = "lookup"
        PROVE  Leads(con[c].array, con[c].tail, q)'
    <3>1. PICK i, p : i \in 1 .. Cur /\ i = con[c].array /\ p = con[c].tail
      BY <2>4, <2>8
    <3>2. Leads(i, p, q)
      <4>1. CASE i = Cur
        <5>1. PICK t \in Window : p = Place(t)
          BY <1>1, <2>8, <3>1, <4>1 DEF Knows
        <5> QED BY <2>6, <4>1, <5>1
      <4>2. CASE i # Cur
        BY <1>1, <2>1, <2>8, <3>1, <4>2 DEF Knows
      <4> QED BY <4>1, <4>2
    <3>3. Leads(i, p, q)'
      BY <2>5, <3>1, <3>2
    <3> QED BY <1>1, <3>1, <3>3 DEF Leads
  <2>9. con[c].step \in {"take", "setEmpty"} => con[c].block = BlockOf(q)'
    BY <1>1, <2>1, <2>3 DEF Knows
  <2>10. con[c].step = "setEmpty" /\ q # z => con[c].after = BlockOf(q + 1)'
    <3>1. SUFFICES ASSUME con[c].step = "setEmpty", q # z
                   PROVE  con[c].after = BlockOf(q + 1)'
      OBVIOUS
    <3>2. q + 1 \in q .. z
      BY <2>1, <3>1
    <3>3. BlockOf(q + 1)' = BlockOf(q + 1)
      BY <2>2, <3>2
    <3> QED BY <1>1, <2>1, <3>1, <3>3 DEF Knows
  <2>11. /\ con'[c].step \in {"tail", "lookup"} => con'[c].array \in 1 .. Cur'
         /\ con'[c].step = "tail" /\ con'[c].array # Cur' =>
               Leads(con[c].array, arrays[con[c].array].tail, q)'
         /\ con'[c].step = "lookup" => con'[c].array # Cur' /\ Leads(con[c].array, con[c].tail, q)'
    BY <1>1, <2>4, <2>7, <2>8
  <2> QED BY <1>1, <2>1, <2>9, <2>10, <2>11 DEF Knows
<1> QED BY <1>3, <1>4

LEMMA GrowKeeps ==
    ASSUME TypeOK, Body, NEW filled, Grows(filled), CallOK',
           po' \in [step : {"idle", "gone"}] \union EnqCalls \union BulkCalls,
           program' = program
    PROVE  TypeOK' /\ Body'
<1>1. PICK e \in Nat, o \in Nat, g \in Nat, s \in Nat \ {0}, n \in Nat :
          /\ e = Entered /\ o = Oldest /\ g = Begun /\ s = IndexSize /\ n = filled
          /\ PO_IndexEntriesUsed = s /\ e - o = s /\ g <= e /\ n <= s /\ s - n <= e - g
  BY EnteredIs, ViewTypes, CurTypes DEF Body, Grows, IndexFull
<1>2. /\ Index /\ CallOK /\ InRing /\ Supply /\ LiveInWindow /\ FlagsOK /\ Placed
      /\ NothingElse /\ ClaimsOK /\ Grow(n) /\ IndexFull /\ n \in Int
      /\ Filled' = Filled /\ ~Shown' /\ HeadIndex' = HeadIndex /\ TailIndex' = TailIndex
      /\ TailBlock' = TailBlock /\ next' = next /\ flags' = flags /\ slots' = slots
      /\ PO_IndexEntriesUsed' = s /\ manager' = manager /\ heap' = heap /\ con' = con
  BY <1>1 DEF Body, Grows, ring, supply
<1>3. /\ arrays' \in Seq(Arrays) /\ Cur' = Cur + 1 /\ IndexSize' = 2 * s
      /\ Current'.tail = n - 1 /\ PO_NextIndexEntry' = s
  BY <1>1, <1>2, GrowEffect
<1>4. /\ Window' = Window /\ Entered' = e /\ Oldest' = o /\ Begun' = g
      /\ \A q \in Window : /\ q \in Int /\ Place(q)' = q - o /\ EntryAt(q)' = EntryAt(q)
                           /\ BlockOf(q)' = BlockOf(q)
      /\ Live' = Live
  BY <1>1, GrowViews
<1>5. Window = o .. (e - 1)
  BY <1>1 DEF Window
<1>6. Index'
  <2>1. \A q \in Window : EntryAt(q).base' = Base(q) /\ BlockOf(q)' \in Blocks
    BY <1>2, <1>4 DEF Index
  <2>2. \A q, r \in Window : BlockOf(q)' = BlockOf(r)' => q = r
    BY <1>2, <1>4 DEF Index
  <2>3. o >= 0 /\ (e > 0 => o < e)
    BY <1>1
  <2> QED BY <1>4, <2>1, <2>2, <2>3 DEF Index
<1>7. InRing'
  <2>1. e = 0 => TailBlock = NoBlock
    BY <1>1, <1>2 DEF InRing
  <2>2. e > 0 /\ e - 1 \in Window /\ o \in Window
    BY <1>1, <1>5
  <2>3. TailBlock = BlockOf(e - 1) /\ next[TailBlock] = BlockOf(o)
    BY <1>1, <1>2, <2>2 DEF InRing
  <2>4. TailBlock' = BlockOf(e - 1)' /\ next'[TailBlock'] = BlockOf(o)'
    BY <1>2, <1>4, <2>2, <2>3
  <2>5. TailBlock' = BlockOf(Entered - 1)' /\ next'[TailBlock'] = BlockOf(Oldest)'
    BY <1>4, <2>4
  <2>6. ASSUME NEW q \in Window, q # e - 1
        PROVE  next'[BlockOf(q)'] = BlockOf(q + 1)'
    <3>1. q + 1 \in Window
      BY <1>1, <1>5, <2>6
    <3>2. BlockOf(q + 1)' = BlockOf(q + 1)
      BY <1>4, <3>1
    <3>3. next[BlockOf(q)] = BlockOf(q + 1)
      BY <1>1, <1>2, <2>6 DEF InRing
    <3> QED BY <1>2, <1>4, <3>2, <3>3
  <2> QED BY <1>2, <1>4, <2>1, <2>5, <2>6 DEF InRing
<1>8. Supply'
  <2>1. \A b \in Blocks : b \notin manager' \union heap' <=> \E q \in Window : b = BlockOf(q)'
    BY <1>2, <1>4 DEF Supply
  <2> QED BY <1>4, <2>1 DEF Supply
<1>9. FlagsOK'
  <2>1. \A p : IsMarked(p)' = IsMarked(p)
    BY <1>2 DEF IsMarked, Unmarked, Calling
  <2>2. \A q \in Window : \A i \in Slots :
           i \in flags'[BlockOf(q)'] <=> IsMarked(Base(q) + i)'
    BY <1>2, <1>4, <2>1 DEF FlagsOK
  <2> QED BY <1>4, <2>2 DEF FlagsOK
<1>10. LiveInWindow' /\ ClaimsOK'
  BY <1>2, <1>4, ClaimsKept DEF LiveInWindow
<1>11. Placed' /\ NothingElse'
  <2>1. Objects' = Objects
    BY <1>2 DEF Objects, Untaken, Run
  <2>2. \A p \in Objects : BlockOf(Num(p))' = BlockOf(Num(p))
    BY <1>2, <1>4, ObjectsLive DEF LiveInWindow
  <2>3. \A p \in Objects : slots'[BlockOf(Num(p))'][Off(p)] = p
    BY <1>2, <2>2 DEF Placed
  <2>4. \A x \in Blocks : \A i \in Slots :
           slots'[x][i] # Raw => \E p \in Objects : x = BlockOf(Num(p))' /\ i = Off(p)
    BY <1>2, <2>2 DEF NothingElse
  <2> QED BY <2>1, <2>3, <2>4 DEF Placed, NothingElse
<1>12. TailOK'
  <2>1. SUFFICES ASSUME o < g
                 PROVE  \E t \in Window : Current'.tail = Place(t)' /\ t >= g - 1
    BY <1>2, <1>4 DEF TailOK
  <2>2. PICK t \in Int : t = (o + n) - 1
    BY <1>1
  <2>3. t \in o .. (e - 1) /\ t >= g - 1 /\ n - 1 = t - o
    BY <1>1, <2>1, <2>2
  <2>4. t \in Window /\ Place(t)' = t - o
    BY <1>4, <1>5, <2>3
  <2> QED BY <1>3, <2>3, <2>4
<1>13. \A c \in Consumers : Knows(c)'
  BY GrowKnows
<1>14. TypeOK'
  <2>1. s \in 0 .. (2 * s - 1) /\ s \in 0 .. (2 * s)
    BY <1>1
  <2>2. Cur' >= 1
    BY <1>3, CurTypes
  <2> QED BY <1>2, <1>3, <2>1, <2>2 DEF TypeOK
<1> QED BY <1>6, <1>7, <1>8, <1>9, <1>10, <1>11, <1>12, <1>13, <1>14 DEF Body

LEMMA StepEnqueueGrow ==
    ASSUME TypeOK, Body, EnqueueGrow, program' = program
    PROVE  TypeOK' /\ Body' /\ po'.step # "gone"
<1>1. /\ po.step = "enqFresh" /\ po' = po /\ IndexFull /\ Grow(PO_IndexEntriesUsed)
      /\ UNCHANGED <<HeadIndex, TailIndex, ring, flags, slots, PO_IndexEntriesUsed, supply, con>>
  BY DEF EnqueueGrow
<1>2. /\ Front = PO_NextIndexEntry /\ Front' = PO_NextIndexEntry'
      /\ Entered = Begun /\ Entered' = Entered /\ Filled' = Filled /\ ~Shown'
  BY <1>1 DEF Front, Entered, Begun, Filled, Shown, BulkSteps
<1>3. PICK u \in Nat, e \in Int : u = PO_IndexEntriesUsed /\ e = Entered /\ e = Begun
  BY <1>2, ViewTypes
<1>4. u <= u /\ u - u <= e - e
  BY <1>3
<1>5. Grows(u)
  BY <1>1, <1>2, <1>3, <1>4 DEF Grows
<1>6. CallOK'
  <2>1. Off(TailIndex) = 0
    BY <1>1 DEF Body, CallOK
  <2> QED BY <1>1, <2>1 DEF CallOK, BulkSteps, TakeSteps
<1>7. po' \in [step : {"idle", "gone"}] \union EnqCalls \union BulkCalls
  BY <1>1 DEF TypeOK
<1> QED BY <1>1, <1>5, <1>6, <1>7, GrowKeeps

LEMMA StepBulkGrow ==
    ASSUME TypeOK, Body, BulkGrow, program' = program
    PROVE  TypeOK' /\ Body' /\ po'.step # "gone"
<1>1. /\ po.step \in TakeSteps /\ po.step \in BulkSteps /\ IndexFull /\ Grow(po.origUsed)
      /\ po' = [po EXCEPT !.step = "bulkFresh", !.origNext = po.origUsed]
      /\ UNCHANGED <<HeadIndex, TailIndex, ring, flags, slots, PO_IndexEntriesUsed, supply, con>>
  BY DEF BulkGrow, NeedsFresh, TakeSteps, BulkSteps
<1>2. po \in BulkCalls /\ CallOK /\ Index
  BY <1>1, CallTypes DEF Body
<1>3. /\ po' \in BulkCalls /\ po'.step = "bulkFresh"
      /\ po'.mode = po.mode /\ po'.base = po.base /\ po'.need = po.need /\ po'.n = po.n
      /\ po'.firstNew = po.firstNew /\ po'.origUsed = po.origUsed /\ po'.done = po.done
      /\ po'.block = po.block
  BY <1>1, <1>2 DEF BulkCalls, BulkSteps
<1>4. /\ Front = PO_NextIndexEntry /\ Front' = PO_NextIndexEntry'
      /\ Entered' = Entered /\ Begun' = Begun /\ ~Shown'
  BY <1>1, <1>3 DEF Front, Entered, Begun, Shown, BulkSteps, TakeSteps
<1>5. PICK e \in Nat, g \in Nat, u \in Nat, w \in Int :
          e = Entered /\ g = Begun /\ u = PO_IndexEntriesUsed /\ w = po.origUsed
  BY <1>2, EnteredIs, ViewTypes DEF BulkCalls
<1>6. /\ program.Faults = {} /\ po.mode # "CannotAlloc" /\ po.base = Base(e - 1) /\ e >= g
      /\ e + po.need = Num(TailIndex + po.n - 1) + 1
      /\ po.need > 0 /\ po.need >= 0 /\ po.done = 0
      /\ po.firstNew = IF e = g THEN NoBlock ELSE BlockOf(g)
      /\ w <= u /\ u - w <= e - g
      /\ (Num(TailIndex + po.done) < e => po.block = BlockOf(Num(TailIndex + po.done)))
  BY <1>1, <1>2, <1>5 DEF CallOK
<1>7. Filled = TailIndex /\ Filled' = TailIndex
  <2>1. TailIndex + 0 = TailIndex
    BY ViewTypes
  <2> QED BY <1>1, <1>3, <2>1 DEF Filled, TakeSteps
\* The index is full, so that some of its entries were in use before the call.
<1>8. w \in Nat
  <2>1. Oldest \in Nat /\ e - Oldest = u /\ Oldest <= g
    <3>1. Oldest \in Nat /\ e - Oldest = u
      BY <1>2, <1>5, EnteredIs
    <3>2. CASE g = e
      BY <1>5, <3>1, <3>2
    <3>3. CASE g # e
      <4>1. HeadIndex < Base(g + 1) /\ g < e
        <5>1. PICK h \in Nat, t \in Nat, B \in Nat, S \in Nat \ {0, 1} :
                  /\ h = HeadIndex /\ t = TailIndex /\ h <= t /\ B = Base(g) /\ t <= B
                  /\ S = BlockSize
          BY <1>5, ViewTypes, BegunIs
        <5>2. Base(g + 1) = B + S
          BY <1>5, <5>1, BaseStep, g \in Int
        <5> QED BY <1>5, <1>6, <3>3, <5>1, <5>2
      <4>2. g \in Live
        BY <1>5, <4>1 DEF Live
      <4>3. g \in Window
        BY <4>2 DEF Body, LiveInWindow
      <4> QED BY <1>5, <3>1, <4>3 DEF Window
    <3> QED BY <3>2, <3>3
  <2>2. PICK o \in Nat : o = Oldest
    BY <2>1
  <2> QED BY <1>5, <1>6, <2>1, <2>2
<1>9. Grows(w)
  BY <1>1, <1>4, <1>5, <1>6, <1>7, <1>8 DEF Grows
<1>10. (\A q \in Window : BlockOf(q)' = BlockOf(q)) /\ Live \subseteq Window
  BY <1>9, GrowViews
<1>11. ASSUME NEW q \in Nat, q < e, HeadIndex < Base(q + 1)
       PROVE  BlockOf(q)' = BlockOf(q)
  <2>1. q \in Live
    BY <1>5, <1>11 DEF Live
  <2> QED BY <1>10, <2>1
<1>12. PICK h \in Nat, t \in Nat, B \in Nat, S \in Nat \ {0, 1} :
          /\ h = HeadIndex /\ t = TailIndex /\ h <= t /\ B = Base(g) /\ t <= B
          /\ S = BlockSize /\ Base(g + 1) = B + S
  <2>1. PICK h \in Nat, t \in Nat, B \in Nat, S \in Nat \ {0, 1} :
          /\ h = HeadIndex /\ t = TailIndex /\ h <= t /\ B = Base(g) /\ t <= B
          /\ S = BlockSize
    BY <1>5, ViewTypes, BegunIs
  <2>2. Base(g + 1) = B + S
    BY <1>5, <2>1, BaseStep, g \in Int
  <2> QED BY <2>1, <2>2
<1>13. e # g => BlockOf(g)' = BlockOf(g)
  <2>1. SUFFICES ASSUME e # g PROVE BlockOf(g)' = BlockOf(g)
    OBVIOUS
  <2>2. g < e /\ HeadIndex < Base(g + 1)
    BY <1>5, <1>6, <1>12, <2>1
  <2> QED BY <1>11, <2>2
<1>14. Num(TailIndex) < e => BlockOf(Num(TailIndex))' = BlockOf(Num(TailIndex))
  <2>1. SUFFICES ASSUME Num(TailIndex) < e
                 PROVE  BlockOf(Num(TailIndex))' = BlockOf(Num(TailIndex))
    OBVIOUS
  <2>2. PICK q \in Nat : q = Num(TailIndex)
    <3>1. Num(0) = 0 /\ 0 \in Int /\ TailIndex \in Int /\ 0 <= TailIndex
      BY <1>12, SizesAssumption DEF Num
    <3>2. 0 <= Num(TailIndex) /\ Num(TailIndex) \in Int
      BY <3>1, NumOrder, DivMod
    <3> QED BY <3>2
  <2>3. HeadIndex < Base(q + 1)
    <3>1. TailIndex < Base(q + 1) /\ Base(q + 1) \in Int
      BY <1>12, <2>2, BlockEnds, TailIndex \in Int
    <3> QED BY <1>12, <3>1
  <2>4. BlockOf(q)' = BlockOf(q)
    BY <1>11, <2>1, <2>2, <2>3
  <2>5. BlockOf(Num(TailIndex))' = BlockOf(q)'
    BY <1>1, <2>2
  <2> QED BY <2>2, <2>4, <2>5
<1>15. CallOK'
  <2>1. po'.firstNew = IF Entered' = Begun' THEN NoBlock ELSE BlockOf(Begun)'
    <3>1. BlockOf(Begun)' = BlockOf(g)'
      BY <1>4, <1>5
    <3> QED BY <1>3, <1>4, <1>5, <1>6, <1>13, <3>1
  <2>2. Num(TailIndex' + po'.done) < Entered' => po'.block = BlockOf(Num(TailIndex + po.done))'
    <3>1. TailIndex + po.done = TailIndex /\ TailIndex' = TailIndex
      BY <1>1, <1>6, <1>12
    <3>2. BlockOf(Num(TailIndex + po.done))' = BlockOf(Num(TailIndex))'
      BY <1>3, <3>1
    <3> QED BY <1>3, <1>4, <1>5, <1>6, <1>14, <3>1, <3>2
  <2>3. /\ program'.Faults = {} /\ po'.mode # "CannotAlloc"
        /\ po'.base = Base(Entered' - 1) /\ Entered' >= Begun'
        /\ Entered' + po'.need = Num(TailIndex' + po'.n - 1) + 1
        /\ po'.need > 0 /\ po'.need >= 0 /\ po'.done = 0
        /\ po'.origUsed <= PO_IndexEntriesUsed'
        /\ PO_IndexEntriesUsed' - po'.origUsed <= Entered' - Begun'
    BY <1>1, <1>3, <1>4, <1>5, <1>6
  <2> QED BY <1>3, <2>1, <2>2, <2>3 DEF CallOK, TakeSteps, BulkSteps
<1> QED BY <1>3, <1>9, <1>15, GrowKeeps

-----------------------------------------------------------------------------
(* What cannot happen. *)

LEMMA NoFaults ==
    ASSUME TypeOK, Body
    PROVE  /\ ~EnqueueThrows /\ ~BulkThrows /\ ~BulkFails /\ ~BulkBadAlloc
           /\ \A c \in Consumers : ~AssignThrows(c) /\ ~DiscardNext(c)
<1>1. NothingFails(program) /\ CallOK /\ manager \subseteq Blocks /\ heap \subseteq Blocks
  BY DEF Body, TypeOK
<1>2. ~EnqueueThrows /\ ~BulkThrows
  BY <1>1 DEF NothingFails, EnqueueThrows, BulkThrows
<1>3. ASSUME po.step \in TakeSteps PROVE program.Faults = {} /\ po.mode # "CannotAlloc"
  BY <1>1, <1>3 DEF CallOK, TakeSteps, BulkSteps
<1>4. ~BulkBadAlloc
  BY <1>3 DEF BulkBadAlloc, NeedsFresh, TakeSteps
<1>5. ~BulkFails
  <2>1. po.step \in TakeSteps => NoBlock \notin Requisition(po.mode)
    BY <1>1, <1>3, BlocksAssumption DEF Requisition
  <2> QED BY <1>3, <2>1 DEF BulkFails, NeedsFresh, TakeSteps
<1>6. ASSUME NEW c \in Consumers PROVE ~AssignThrows(c) /\ ~DiscardNext(c)
  <2>1. con[c].step \notin {"discard", "discardNext"}
    BY ConTypes
  <2> QED BY <1>1, <2>1 DEF AssignThrows, DiscardNext, NothingFails
<1> QED BY <1>2, <1>4, <1>5, <1>6

-----------------------------------------------------------------------------
(* The consumers. *)

ConsumerFrame ==
    UNCHANGED <<TailIndex, ring, index, supply, po, program>>

LEMMA ConsumerKeeps ==
    ASSUME TypeOK, Body, ConsumerFrame
    PROVE  /\ SameIndex /\ Index' /\ InRing' /\ Supply' /\ TailOK' /\ CallOK'
           /\ Window' = Window /\ Entered' = Entered /\ Begun' = Begun /\ Filled' = Filled
           /\ Cur' = Cur /\ arrays' = arrays
           /\ \A q \in Int : BlockOf(q)' = BlockOf(q) /\ Place(q)' = Place(q)
<1>1. /\ TailIndex' = TailIndex /\ TailBlock' = TailBlock /\ next' = next /\ arrays' = arrays
      /\ PO_NextIndexEntry' = PO_NextIndexEntry /\ PO_IndexEntriesUsed' = PO_IndexEntriesUsed
      /\ manager' = manager /\ heap' = heap /\ po' = po /\ program' = program
  BY DEF ConsumerFrame, ring, index, supply
<1>2. Index /\ InRing /\ Supply /\ TailOK /\ CallOK
  BY DEF Body
<1>3. Entered' = Entered /\ Front' = Front /\ Begun' = Begun /\ Filled' = Filled /\ Cur' = Cur
  BY <1>1 DEF Entered, Front, Begun, Filled, Cur
<1>4. SameIndex
  BY <1>1, <1>3, SameArrays
<1>5. Window' = Window /\ \A q \in Int : BlockOf(q)' = BlockOf(q) /\ Place(q)' = Place(q)
  BY <1>4, SameViews
<1>6. Index' /\ InRing' /\ Supply'
  BY <1>1, <1>2, <1>4, IndexKept, RingKept, SupplyKept
<1>7. TailOK'
  <2>1. Current'.tail = Current.tail /\ Begun \in Int /\ (Shown' => Shown)
    BY <1>1, ViewTypes DEF Current, Shown
  <2> QED BY <1>2, <1>3, <1>4, <2>1, TailKept
<1>8. CallOK'
  BY <1>1, <1>2
     DEF CallOK, Entered, Begun, BlockOf, EntryAt, Place, Front, Current, IndexSize
<1> QED BY <1>1, <1>3, <1>4, <1>5, <1>6, <1>7, <1>8

LEMMA ConsumerTypes ==
    ASSUME TypeOK, ConsumerFrame, HeadIndex' \in Nat, HeadIndex' <= TailIndex,
           flags' \in [Blocks -> SUBSET Slots],
           slots' \in [Blocks -> [Slots -> Nat \union {Raw}]],
           NEW c \in Consumers, NEW call \in {NoCall} \union Lookups,
           con' = [con EXCEPT ![c] = call]
    PROVE  TypeOK' /\ con'[c] = call /\ \A d \in Consumers : d # c => con'[d] = con[d]
<1>1. con' \in [Consumers -> {NoCall} \union Lookups]
  BY DEF TypeOK
<1>2. con'[c] = call /\ \A d \in Consumers : d # c => con'[d] = con[d]
  BY DEF TypeOK
<1>3. /\ TailIndex' = TailIndex /\ TailBlock' = TailBlock /\ next' = next /\ arrays' = arrays
      /\ PO_NextIndexEntry' = PO_NextIndexEntry /\ PO_IndexEntriesUsed' = PO_IndexEntriesUsed
      /\ manager' = manager /\ heap' = heap /\ po' = po /\ program' = program
  BY DEF ConsumerFrame, ring, index, supply
<1>4. TypeOK'
  BY <1>1, <1>3 DEF TypeOK, IndexSize, Current, Cur
<1> QED BY <1>2, <1>4

\* A consumer that looks its block up moves on with the same claim.
LEMMA LookupMoves ==
    ASSUME TypeOK, Body, ConsumerFrame, UNCHANGED <<HeadIndex, flags, slots>>,
           NEW c \in Consumers, con[c].step \in {"array", "tail", "lookup"},
           NEW call \in Lookups, con' = [con EXCEPT ![c] = call],
           call.step \in {"tail", "lookup", "take"},
           call.item = con[c].item, call.need = con[c].need, Knows(c)'
    PROVE  TypeOK' /\ Body'
<1>1. /\ TypeOK' /\ con'[c] = call /\ \A d \in Consumers : d # c => con'[d] = con[d]
  <2>1. /\ HeadIndex' \in Nat /\ HeadIndex' <= TailIndex
        /\ flags' \in [Blocks -> SUBSET Slots]
        /\ slots' \in [Blocks -> [Slots -> Nat \union {Raw}]]
    BY DEF TypeOK
  <2> QED BY <2>1, ConsumerTypes
<1>2. /\ SameIndex /\ Index' /\ InRing' /\ Supply' /\ TailOK' /\ CallOK'
      /\ Window' = Window /\ Entered' = Entered /\ Begun' = Begun /\ Filled' = Filled
      /\ \A q \in Int : BlockOf(q)' = BlockOf(q)
  BY ConsumerKeeps
<1>3. /\ Index /\ CallOK /\ ClaimsOK /\ LiveInWindow /\ FlagsOK /\ Placed /\ NothingElse
      /\ \A d \in Consumers : Knows(d)
  BY DEF Body
<1>4. ASSUME NEW d \in Consumers
      PROVE  /\ Unmarked(d)' = Unmarked(d) /\ Busy(d)' = Busy(d) /\ Untaken(d)' = Untaken(d)
             /\ Calling(d)' = Calling(d)
             /\ Calling(d) => con'[d].item = con[d].item /\ con'[d].need = con[d].need
  <2>1. CASE d = c
    BY <1>1, <2>1 DEF Unmarked, Busy, Untaken, Calling
  <2>2. CASE d # c
    BY <1>1, <2>2 DEF Unmarked, Busy, Untaken, Calling, Run
  <2> QED BY <2>1, <2>2
<1>5. Live' = Live
  BY <1>2, <1>4 DEF Live
<1>6. \A p : IsMarked(p)' = IsMarked(p)
  BY <1>4 DEF IsMarked
<1>7. LiveInWindow'
  BY <1>2, <1>3, <1>5 DEF LiveInWindow
<1>8. FlagsOK'
  <2>1. \A q \in Window : q \in Int
    BY ViewTypes DEF Window
  <2>2. \A q \in Window : \A i \in Slots :
           i \in flags'[BlockOf(q)'] <=> IsMarked(Base(q) + i)'
    BY <1>2, <1>3, <1>6, <2>1 DEF FlagsOK
  <2> QED BY <1>2, <2>2 DEF FlagsOK
<1>9. Objects' = Objects
  BY <1>2, <1>4 DEF Objects
<1>10. Placed' /\ NothingElse'
  BY <1>2, <1>3, <1>9, SlotsKept
<1>11. ClaimsOK'
  <2>1. \A d \in Consumers : Calling(d)' => con'[d].item + con'[d].need <= HeadIndex'
    BY <1>3, <1>4 DEF ClaimsOK
  <2>2. \A d, a \in Consumers : d # a => Unmarked(d)' \intersect Unmarked(a)' = {}
    BY <1>3, <1>4 DEF ClaimsOK
  <2> QED BY <2>1, <2>2 DEF ClaimsOK
<1>12. \A d \in Consumers : Knows(d)'
  <2>1. SUFFICES ASSUME NEW d \in Consumers, d # c PROVE Knows(d)'
    OBVIOUS
  <2> QED BY <1>1, <1>2, <1>3, <2>1, KnowsKept
<1> QED BY <1>1, <1>2, <1>7, <1>8, <1>10, <1>11, <1>12 DEF Body

LEMMA StepLoadArray ==
    ASSUME TypeOK, Body, NEW c \in Consumers, LoadArray(c), program' = program
    PROVE  TypeOK' /\ Body' /\ po' = po
<1>1. /\ con[c].step = "array"
      /\ con' = [con EXCEPT ![c] = [step |-> "tail", item |-> con[c].item, need |-> con[c].need,
                                    array |-> Cur]]
      /\ UNCHANGED <<HeadIndex, TailIndex, ring, flags, slots, index, supply, po>>
  BY DEF LoadArray, Cur
<1>2. ConsumerFrame /\ UNCHANGED <<HeadIndex, flags, slots>>
  BY <1>1 DEF ConsumerFrame
<1> DEFINE call == [step |-> "tail", item |-> con[c].item, need |-> con[c].need, array |-> Cur]
<1>3. con[c].item \in Nat /\ con[c].need \in Nat \ {0} /\ Cur \in 1 .. Cur /\ Cur \in Nat
  BY <1>1, ConTypes, CurTypes DEF Calling
<1>4. call \in Lookups /\ con'[c] = call
  BY <1>1, <1>3 DEF Lookups, TypeOK
<1>5. Cur' = Cur
  BY <1>2, ConsumerKeeps
<1>6. Knows(c)'
  BY <1>3, <1>4, <1>5 DEF Knows
<1> QED BY <1>1, <1>2, <1>4, <1>6, LookupMoves

LEMMA StepLoadIndexTail ==
    ASSUME TypeOK, Body, NEW c \in Consumers, LoadIndexTail(c), program' = program
    PROVE  TypeOK' /\ Body' /\ po' = po
<1> DEFINE call == [step |-> "lookup", item |-> con[c].item, need |-> con[c].need,
                    array |-> con[c].array, tail |-> arrays[con[c].array].tail]
<1>1. /\ con[c].step = "tail" /\ con' = [con EXCEPT ![c] = call]
      /\ UNCHANGED <<HeadIndex, TailIndex, ring, flags, slots, index, supply, po>>
  BY DEF LoadIndexTail
<1>2. ConsumerFrame /\ UNCHANGED <<HeadIndex, flags, slots>>
  BY <1>1 DEF ConsumerFrame
<1>3. Knows(c) /\ Calling(c) /\ Index /\ CallOK /\ ClaimsOK /\ TailOK /\ LiveInWindow
  BY <1>1 DEF Body, Calling
<1>4. PICK a \in 1 .. Cur : a = con[c].array /\ a \in Nat
  BY <1>1, <1>3, CurTypes DEF Knows
<1>5. con[c].item \in Nat /\ con[c].need \in Nat \ {0} /\ arrays[a].tail \in Int
  BY <1>3, <1>4, ConTypes, CurTypes
<1>6. call \in Lookups /\ con'[c] = call
  BY <1>1, <1>4, <1>5 DEF Lookups, TypeOK
<1>7. /\ SameIndex /\ Cur' = Cur /\ arrays' = arrays /\ Window' = Window
      /\ \A r \in Int : Place(r)' = Place(r)
  BY <1>2, ConsumerKeeps
<1>8. PICK q \in Nat : q = Num(con[c].item) /\ q \in Window /\ q < Begun
  <2>1. Num(con[c].item) \in Busy(c) /\ Num(con[c].item) \in Nat
    BY <1>3, FirstBusy
  <2> QED BY <1>3, <2>1, BusyLive DEF LiveInWindow
<1>9. IF a = Cur THEN \E t \in Window : t >= q /\ arrays[a].tail = Place(t)'
      ELSE Leads(a, arrays[a].tail, q)'
  <2>1. CASE a = Cur
    <3>1. Oldest < Begun
      BY <1>8, ViewTypes DEF Window
    <3>2. PICK t \in Window : Current.tail = Place(t) /\ t >= Begun - 1
      BY <1>3, <3>1 DEF TailOK
    <3>3. t \in Int /\ t >= q
      BY <1>8, <3>2, ViewTypes DEF Window
    <3>4. Current = arrays[Cur]
      BY CurTypes
    <3> QED BY <1>7, <2>1, <3>2, <3>3, <3>4
  <2>2. CASE a # Cur
    <3>1. Leads(a, arrays[a].tail, q)
      BY <1>1, <1>3, <1>4, <1>8, <2>2 DEF Knows
    <3>2. PICK p \in Int : p = arrays[a].tail /\ p = arrays'[a].tail
      BY <1>5, <1>7
    <3>3. Leads(a, p, q)'
      BY <1>7, <3>1, <3>2, LeadsKept, q \in Int
    <3>4. Leads(a, arrays[a].tail, q)'
      BY <3>2, <3>3 DEF Leads
    <3> QED BY <2>2, <3>4
  <2> QED BY <2>1, <2>2
<1>10. /\ con'[c].step = "lookup" /\ con'[c].array = a /\ con'[c].tail = arrays[a].tail
       /\ Num(con'[c].item) = q
  BY <1>4, <1>6, <1>8
<1>11. IF con'[c].array = Cur'
       THEN \E t \in Window' : t >= q /\ con'[c].tail = Place(t)'
       ELSE Leads(con[c].array, con[c].tail, q)'
  <2>1. CASE a = Cur
    BY <1>7, <1>9, <1>10, <2>1
  <2>2. CASE a # Cur
    <3>1. Leads(a, arrays[a].tail, q)'
      BY <1>9, <2>2
    <3> QED BY <1>7, <1>10, <2>2, <3>1 DEF Leads
  <2> QED BY <2>1, <2>2
<1>12. Knows(c)'
  BY <1>4, <1>7, <1>10, <1>11 DEF Knows
<1> QED BY <1>1, <1>2, <1>6, <1>12, LookupMoves

LEMMA StepLookup ==
    ASSUME TypeOK, Body, NEW c \in Consumers, Lookup(c), program' = program
    PROVE  TypeOK' /\ Body' /\ po' = po
<1> DEFINE x == arrays[con[c].array].entries[EntryFor(c)].block
           call == [step |-> "take", item |-> con[c].item, need |-> con[c].need, block |-> x]
<1>1. /\ con[c].step = "lookup" /\ con' = [con EXCEPT ![c] = call]
      /\ UNCHANGED <<HeadIndex, TailIndex, ring, flags, slots, index, supply, po>>
  BY DEF Lookup
<1>2. ConsumerFrame /\ UNCHANGED <<HeadIndex, flags, slots>>
  BY <1>1 DEF ConsumerFrame
<1>3. Knows(c) /\ Calling(c) /\ Index /\ CallOK /\ ClaimsOK /\ LiveInWindow
  BY <1>1 DEF Body, Calling
<1>4. PICK a \in 1 .. Cur : a = con[c].array
  BY <1>1, <1>3 DEF Knows
<1>5. PICK p \in Int, i \in Nat : p = con[c].tail /\ i = con[c].item /\ con[c].need \in Nat \ {0}
  BY <1>1, <1>3, ConTypes
<1>6. PICK q \in Nat : q = Num(i) /\ q \in Window
  <2>1. Num(con[c].item) \in Busy(c) /\ Num(con[c].item) \in Nat
    BY <1>3, FirstBusy
  <2> QED BY <1>3, <1>5, <2>1, BusyLive DEF LiveInWindow
<1>7. i - (i % BlockSize) = Base(q)
  <2>1. i = Base(q) + Off(i) /\ Base(q) \in Int /\ Off(i) \in Int
    <3>1. i \in Int /\ q \in Int
      BY <1>5, <1>6
    <3> QED BY <1>6, <3>1, DivMod, BaseStep, ViewTypes
  <2> QED BY <2>1 DEF Off
<1>8. Leads(a, p, q)
  <2>1. CASE a = Cur
    <3>1. PICK t \in Window : p = Place(t)
      BY <1>1, <1>3, <1>4, <1>5, <2>1 DEF Knows
    <3>2. t \in Int /\ t \in Nat
      BY <1>3, ViewTypes DEF Index, Window
    <3>3. (p + (q - t)) % IndexSize = Place(q)
      BY <3>1, <3>2, PlaceFrom, q \in Int
    <3>4. Current.entries[p].base = Base(t) /\ Current.entries[Place(q)].block = BlockOf(q)
      BY <1>3, <1>6, <3>1 DEF Index, EntryAt, BlockOf
    <3>5. Current = arrays[Cur] /\ IndexSize = arrays[Cur].size
      BY CurTypes DEF IndexSize
    <3> QED BY <2>1, <3>2, <3>3, <3>4, <3>5 DEF Leads
  <2>2. CASE a # Cur
    BY <1>1, <1>3, <1>4, <1>5, <1>6, <2>2 DEF Knows
  <2> QED BY <2>1, <2>2
<1>9. PICK t \in Nat :
          /\ arrays[a].entries[p].base = Base(t)
          /\ arrays[a].entries[(p + (q - t)) % arrays[a].size].block = BlockOf(q)
  BY <1>8 DEF Leads
<1>10. EntryFor(c) = (p + (q - t)) % arrays[a].size
  <2>1. (Base(q) - Base(t)) \div BlockSize = q - t
    BY BaseOrder, q \in Int, t \in Int
  <2> QED BY <1>4, <1>5, <1>7, <1>9, <2>1 DEF EntryFor
<1>11. x = BlockOf(q) /\ BlockOf(q) \in Blocks
  BY <1>3, <1>4, <1>6, <1>9, <1>10 DEF Index
<1> HIDE DEF x
<1>12. call \in Lookups /\ con'[c] = call
  BY <1>1, <1>5, <1>11 DEF Lookups, TypeOK
<1>13. Knows(c)'
  <2>1. BlockOf(q)' = BlockOf(q)
    BY <1>2, ConsumerKeeps, q \in Int
  <2>2. con'[c].step = "take" /\ con'[c].block = BlockOf(q)' /\ Num(con'[c].item) = q
    BY <1>5, <1>6, <1>11, <1>12, <2>1
  <2>3. BlockOf(Num(con[c].item))' = BlockOf(q)'
    BY <2>2
  <2> QED BY <2>2, <2>3 DEF Knows
<1> QED BY <1>1, <1>2, <1>12, <1>13, LookupMoves

LEMMA StepClaim ==
    ASSUME TypeOK, Body, po.step # "gone", NEW c \in Consumers, NEW n \in Nat \ {0},
           Claim(c, n), program' = program
    PROVE  TypeOK' /\ Body' /\ po' = po
<1> DEFINE call == [step |-> "array", item |-> HeadIndex, need |-> n]
<1>1. /\ con[c].step = "idle" /\ HeadIndex + n <= TailIndex /\ HeadIndex' = HeadIndex + n
      /\ con' = [con EXCEPT ![c] = call]
      /\ UNCHANGED <<TailIndex, ring, flags, slots, index, supply, po>>
  BY DEF Claim
<1>2. ConsumerFrame
  BY <1>1 DEF ConsumerFrame
<1>3. PICK h \in Nat, z \in Nat : h = HeadIndex /\ z = (h + n) - 1 /\ h + n <= TailIndex /\ TailIndex \in Nat
  BY <1>1, ViewTypes
<1>4. /\ TypeOK' /\ con'[c] = call /\ \A d \in Consumers : d # c => con'[d] = con[d]
  <2>1. HeadIndex' \in Nat /\ HeadIndex' <= TailIndex /\ call \in Lookups
    BY <1>1, <1>3 DEF Lookups
  <2>2. /\ flags' \in [Blocks -> SUBSET Slots]
        /\ slots' \in [Blocks -> [Slots -> Nat \union {Raw}]]
    BY <1>1 DEF TypeOK
  <2> QED BY <1>1, <1>2, <2>1, <2>2, ConsumerTypes
<1>5. /\ SameIndex /\ Index' /\ InRing' /\ Supply' /\ TailOK' /\ CallOK'
      /\ Window' = Window /\ Entered' = Entered /\ Begun' = Begun /\ Filled' = Filled
      /\ \A q \in Int : BlockOf(q)' = BlockOf(q)
  BY <1>2, ConsumerKeeps
<1>6. /\ Index /\ CallOK /\ ClaimsOK /\ LiveInWindow /\ FlagsOK /\ Placed /\ NothingElse
      /\ \A d \in Consumers : Knows(d)
  BY DEF Body
<1>7. ASSUME NEW d \in Consumers, d # c
      PROVE  /\ Unmarked(d)' = Unmarked(d) /\ Busy(d)' = Busy(d) /\ Untaken(d)' = Untaken(d)
             /\ Calling(d)' = Calling(d)
  BY <1>4, <1>7 DEF Unmarked, Busy, Untaken, Calling, Run
<1>8. /\ ~Calling(c) /\ Unmarked(c) = {} /\ Busy(c) = {} /\ Untaken(c) = {}
      /\ Calling(c)' /\ con'[c].item = h /\ con'[c].need = n
  BY <1>1, <1>3, <1>4 DEF Calling, Unmarked, Busy, Untaken
<1>9. Unmarked(c)' = h .. z /\ Busy(c)' = Num(h) .. Num(z) /\ Untaken(c)' = h .. z
  <2>1. h + n - 1 = z /\ (h + 0) + n - 1 = z /\ h + 0 = h
    BY <1>3
  <2>2. Unmarked(c)' = h .. z /\ Busy(c)' = Num(h) .. Num(z)
    BY <1>8, <2>1 DEF Unmarked, Busy
  <2>3. Untaken(c)' = h .. z
    BY <1>4, <1>8, <2>1 DEF Untaken
  <2> QED BY <2>2, <2>3
<1>10. Live' \subseteq Live
  <2>1. SUFFICES ASSUME NEW q \in Live' PROVE q \in Live
    OBVIOUS
  <2>2. PICK e \in Nat : e = Entered
    BY <1>6, EnteredIs
  <2>3. q \in 0 .. (e - 1) /\ q \in Int /\ Base(q + 1) \in Int
    BY <1>5, <2>1, <2>2, BlockEnds, BaseStep, q + 1 \in Int DEF Live
  <2>4. CASE HeadIndex' < Base(q + 1)
    <3>1. h < Base(q + 1)
      BY <1>1, <1>3, <2>3, <2>4
    <3> QED BY <1>3, <2>2, <2>3, <3>1 DEF Live
  <2>5. CASE q \in Busy(c)'
    <3>1. Num(h) <= q /\ h \in Int
      BY <1>3, <1>9, <2>3, <2>5, DivMod
    <3>2. h < Base(q + 1)
      BY <2>3, <3>1, NumBetween
    <3> QED BY <1>3, <2>2, <2>3, <3>2 DEF Live
  <2>6. ASSUME NEW d \in Consumers, d # c, q \in Busy(d)' PROVE q \in Live
    BY <1>7, <2>2, <2>3, <2>6 DEF Live
  <2> QED BY <2>1, <2>4, <2>5, <2>6 DEF Live
<1>11. LiveInWindow'
  BY <1>5, <1>6, <1>10 DEF LiveInWindow
<1>12. ASSUME NEW d \in Consumers, NEW p \in Unmarked(d)
       PROVE  p \in Nat /\ p < h /\ d # c
  <2>1. Calling(d) /\ d # c
    BY <1>8, <1>12 DEF Unmarked
  <2>2. PICK a \in Nat, y \in Nat : Unmarked(d) = a .. y /\ y < h
    BY <1>3, <1>6, <2>1, ClaimTypes
  <2> QED BY <1>12, <2>1, <2>2
<1>13. ASSUME NEW p \in Int PROVE IsMarked(p)' <=> IsMarked(p)
  <2>1. ASSUME p < h
        PROVE  IsMarked(p)' <=> IsMarked(p)
    <3>1. p < HeadIndex' /\ p < HeadIndex /\ p \notin Unmarked(c)' /\ p \notin Unmarked(c)
      BY <1>1, <1>3, <1>8, <1>9, <2>1
    <3>2. \A d \in Consumers : p \in Unmarked(d)' <=> p \in Unmarked(d)
      BY <1>7, <3>1
    <3> QED BY <3>1, <3>2 DEF IsMarked
  <2>2. ASSUME ~(p < h)
        PROVE  ~IsMarked(p)' /\ ~IsMarked(p)
    <3>1. p < HeadIndex' => p \in Unmarked(c)'
      BY <1>1, <1>3, <1>9, <2>2
    <3> QED BY <1>3, <2>2, <3>1 DEF IsMarked
  <2> QED BY <2>1, <2>2
<1>14. FlagsOK'
  <2>1. \A q \in Window : q \in Int /\ Base(q) \in Int
    BY ViewTypes, BaseStep DEF Window
  <2>2. \A q \in Window : \A i \in Slots : Base(q) + i \in Int
    BY <2>1, ViewTypes
  <2>3. \A q \in Window : \A i \in Slots :
           i \in flags'[BlockOf(q)'] <=> IsMarked(Base(q) + i)'
    BY <1>1, <1>5, <1>6, <1>13, <2>1, <2>2 DEF FlagsOK
  <2> QED BY <1>5, <2>3 DEF FlagsOK
<1>15. Objects' = Objects
  <2>1. PICK f \in Nat : f = Filled /\ TailIndex <= f
    BY <1>6, EnteredIs
  <2>2. h .. (f - 1) = (h .. z) \union ((h + n) .. (f - 1))
    BY <1>3, <2>1
  <2>3. UNION {Untaken(d)' : d \in Consumers} = (h .. z) \union UNION {Untaken(d) : d \in Consumers}
    <3>1. \A d \in Consumers : Untaken(d)' = IF d = c THEN h .. z ELSE Untaken(d)
      BY <1>7, <1>9
    <3>2. Untaken(c) = {}
      BY <1>8
    <3> QED BY <3>1, <3>2
  <2>4. Objects' = ((h + n) .. (f - 1)) \union UNION {Untaken(d)' : d \in Consumers}
    BY <1>1, <1>3, <1>5, <2>1 DEF Objects
  <2>5. Objects = (h .. (f - 1)) \union UNION {Untaken(d) : d \in Consumers}
    BY <1>3, <2>1 DEF Objects
  <2> QED BY <2>2, <2>3, <2>4, <2>5
<1>16. Placed' /\ NothingElse'
  BY <1>1, <1>5, <1>6, <1>15, SlotsKept
<1>17. ClaimsOK'
  <2>1. ASSUME NEW d \in Consumers, Calling(d)'
        PROVE  con'[d].item + con'[d].need <= HeadIndex'
    <3>1. CASE d = c
      BY <1>1, <1>3, <1>8, <3>1
    <3>2. CASE d # c
      <4>1. Calling(d) /\ con'[d] = con[d]
        BY <1>4, <1>7, <2>1, <3>2
      <4>2. PICK a \in Nat, m \in Nat : a = con[d].item /\ m = con[d].need /\ a + m <= h
        BY <1>3, <1>6, <4>1, ConTypes DEF ClaimsOK
      <4> QED BY <1>1, <1>3, <4>1, <4>2
    <3> QED BY <3>1, <3>2
  <2>2. ASSUME NEW d \in Consumers, NEW a \in Consumers, d # a
        PROVE  Unmarked(d)' \intersect Unmarked(a)' = {}
    <3>1. \A x \in Consumers : x # c => Unmarked(x)' \intersect (h .. z) = {}
      BY <1>3, <1>7, <1>12
    <3>2. CASE d = c
      BY <1>9, <2>2, <3>1, <3>2
    <3>3. CASE a = c
      BY <1>9, <2>2, <3>1, <3>3
    <3>4. CASE d # c /\ a # c
      BY <1>6, <1>7, <2>2, <3>4 DEF ClaimsOK
    <3> QED BY <3>2, <3>3, <3>4
  <2> QED BY <2>1, <2>2 DEF ClaimsOK
<1>18. \A d \in Consumers : Knows(d)'
  <2>1. Knows(c)'
    BY <1>4 DEF Knows
  <2>2. ASSUME NEW d \in Consumers, d # c PROVE Knows(d)'
    BY <1>4, <1>5, <1>6, <2>2, KnowsKept
  <2> QED BY <2>1, <2>2
<1> QED BY <1>1, <1>4, <1>5, <1>11, <1>14, <1>16, <1>17, <1>18 DEF Body

\* The run of a consumer is the part of its claim in the block it found, q.
RunIn(c, q, i, n, m, z) ==
    /\ i = con[c].item /\ m = con[c].need /\ n = RunSize(c) /\ n <= m
    /\ z = (i + m) - 1 /\ z < HeadIndex /\ Unmarked(c) = i .. z
    /\ q = Num(i) /\ Busy(c) = q .. Num(z) /\ q <= Num(z) /\ Num(z) \in Nat
    /\ Cardinality(Run(c)) = n /\ Run(c) \subseteq Slots
    /\ q \in Window /\ con[c].block = BlockOf(q) /\ BlockOf(q) \in Blocks
    /\ q < Begun
    /\ \A p \in i .. ((i + n) - 1) : Num(p) = q /\ Off(p) \in Run(c)
    /\ \A r \in Run(c) : Base(q) + r \in i .. ((i + n) - 1)
    /\ n < m => Num(i + n) = q + 1 /\ q # Num(z)

LEMMA RunOf ==
    ASSUME TypeOK, Body, NEW c \in Consumers, con[c].step \in {"take", "setEmpty"}
    PROVE  \E q \in Nat, i \in Nat, n \in Nat \ {0}, m \in Nat \ {0}, z \in Nat :
              RunIn(c, q, i, n, m, z)
<1>1. /\ Calling(c) /\ Index /\ CallOK /\ ClaimsOK /\ LiveInWindow /\ Knows(c)
  BY DEF Body, Calling
<1>2. PICK i \in Nat, m \in Nat \ {0}, n \in Nat \ {0} :
          /\ i = con[c].item /\ m = con[c].need /\ n = RunSize(c) /\ n \in 1 .. m
  <2>1. RunSize(c) \in 1 .. con[c].need /\ con[c].item \in Nat /\ con[c].need \in Nat \ {0}
    BY <1>1, RunIs, ConTypes
  <2> QED BY <2>1
<1>3. PICK z \in Nat : z = (i + m) - 1
  BY <1>2
<1>4. PICK q \in Nat : q = Num(i)
  BY <1>1, <1>2, FirstBusy
<1>5. /\ Run(c) \subseteq Slots /\ Cardinality(Run(c)) = n
      /\ \A p \in i .. (i + n - 1) : Num(p) = Num(i) /\ Off(p) \in Run(c)
      /\ \A r \in Run(c) : Base(Num(i)) + r \in i .. (i + n - 1)
      /\ (n < m => Num(i + n) = Num(i) + 1)
  BY <1>1, <1>2, RunIs
<1>6. i + n - 1 = (i + n) - 1 /\ i + m - 1 = z
  BY <1>2, <1>3
<1>7. z < HeadIndex /\ Unmarked(c) = i .. z /\ Busy(c) = q .. Num(z) /\ q <= Num(z) /\ Num(z) \in Nat
  BY <1>1, <1>2, <1>4, <1>6, ClaimTypes
<1>8. q \in Window /\ q < Begun
  <2>1. q \in Busy(c)
    BY <1>1, <1>2, <1>4, FirstBusy
  <2> QED BY <1>1, <2>1, BusyLive DEF LiveInWindow
<1>9. con[c].block = BlockOf(q) /\ BlockOf(q) \in Blocks
  BY <1>1, <1>2, <1>4, <1>8 DEF Knows, Index
<1>10. n < m => Num(i + n) = q + 1 /\ q # Num(z)
  <2>1. SUFFICES ASSUME n < m PROVE Num(i + n) = q + 1 /\ q # Num(z)
    OBVIOUS
  <2>2. i + n \in Int /\ z \in Int /\ i + n <= z
    BY <1>2, <1>3, <2>1
  <2>3. Num(i + n) = q + 1
    BY <1>4, <1>5, <2>1
  <2>4. q + 1 <= Num(z)
    BY <2>2, <2>3, NumOrder
  <2> QED BY <1>7, <2>3, <2>4
<1>11. /\ \A p \in i .. ((i + n) - 1) : Num(p) = q /\ Off(p) \in Run(c)
       /\ \A r \in Run(c) : Base(q) + r \in i .. ((i + n) - 1)
  BY <1>4, <1>5, <1>6
<1>12. n <= m
  BY <1>2
<1>13. RunIn(c, q, i, n, m, z)
  BY <1>2, <1>3, <1>4, <1>5, <1>7, <1>8, <1>9, <1>10, <1>11, <1>12 DEF RunIn
<1> QED BY <1>13

LEMMA StepTakeRun ==
    ASSUME TypeOK, Body, NEW c \in Consumers, TakeRun(c), program' = program
    PROVE  TypeOK' /\ Body' /\ po' = po
<1> DEFINE call == [step |-> "setEmpty", item |-> con[c].item, need |-> con[c].need,
                    block |-> con[c].block, after |-> next[con[c].block]]
<1>1. /\ con[c].step = "take" /\ con' = [con EXCEPT ![c] = call]
      /\ slots' = Destroyed({con[c].block} \X Run(c))
      /\ UNCHANGED <<HeadIndex, TailIndex, ring, flags, index, supply, po>>
  BY DEF TakeRun
<1>2. ConsumerFrame
  BY <1>1 DEF ConsumerFrame
<1>3. PICK q \in Nat, i \in Nat, n \in Nat \ {0}, m \in Nat \ {0}, z \in Nat :
          RunIn(c, q, i, n, m, z)
  BY <1>1, RunOf
<1>3a. /\ i = con[c].item /\ m = con[c].need /\ n = RunSize(c) /\ n <= m
       /\ z = (i + m) - 1 /\ z < HeadIndex /\ Unmarked(c) = i .. z
       /\ q = Num(i) /\ Busy(c) = q .. Num(z) /\ q <= Num(z) /\ Num(z) \in Nat
       /\ Cardinality(Run(c)) = n /\ Run(c) \subseteq Slots
       /\ q \in Window /\ con[c].block = BlockOf(q) /\ BlockOf(q) \in Blocks
       /\ q < Begun
       /\ \A p \in i .. ((i + n) - 1) : Num(p) = q /\ Off(p) \in Run(c)
       /\ \A r \in Run(c) : Base(q) + r \in i .. ((i + n) - 1)
  BY <1>3 DEF RunIn
<1>3b. n <= m /\ z = (i + m) - 1
  BY <1>3a
<1>3c. (i + n) - 1 <= z /\ i .. ((i + n) - 1) \subseteq i .. z
  BY <1>3b
<1>4. \A b \in Blocks : \A k \in Slots :
         slots'[b][k] = IF b = BlockOf(q) /\ k \in Run(c) THEN Raw ELSE slots[b][k]
  BY <1>1, <1>3a DEF Destroyed
<1>5. call \in Lookups /\ next \in [Blocks -> MaybeBlock]
  <2>1. next[con[c].block] \in MaybeBlock /\ next \in [Blocks -> MaybeBlock]
    BY <1>3a DEF TypeOK
  <2>2. m \in Nat \ {0}
    BY <1>3a
  <2> QED BY <1>3a, <2>1, <2>2 DEF Lookups
<1>6. /\ TypeOK' /\ con'[c] = call /\ \A d \in Consumers : d # c => con'[d] = con[d]
  <2>1. slots' \in [Blocks -> [Slots -> Nat \union {Raw}]]
    BY <1>1 DEF Destroyed, TypeOK
  <2>2. /\ HeadIndex' \in Nat /\ HeadIndex' <= TailIndex
        /\ flags' \in [Blocks -> SUBSET Slots]
    BY <1>1 DEF TypeOK
  <2> QED BY <1>1, <1>2, <1>5, <2>1, <2>2, ConsumerTypes
<1>7. /\ SameIndex /\ Index' /\ InRing' /\ Supply' /\ TailOK' /\ CallOK'
      /\ Window' = Window /\ Entered' = Entered /\ Begun' = Begun /\ Filled' = Filled
      /\ \A r \in Int : BlockOf(r)' = BlockOf(r)
  BY <1>2, ConsumerKeeps
<1>8. /\ Index /\ CallOK /\ ClaimsOK /\ LiveInWindow /\ FlagsOK /\ Placed /\ NothingElse
      /\ InRing /\ \A d \in Consumers : Knows(d)
  BY DEF Body
<1>9. ASSUME NEW d \in Consumers
      PROVE  /\ Unmarked(d)' = Unmarked(d) /\ Busy(d)' = Busy(d)
             /\ Calling(d)' = Calling(d)
             /\ Calling(d) => con'[d].item = con[d].item /\ con'[d].need = con[d].need
             /\ d # c => Untaken(d)' = Untaken(d)
  <2>1. CASE d = c
    BY <1>1, <1>6, <2>1 DEF Unmarked, Busy, Calling
  <2>2. CASE d # c
    BY <1>6, <2>2 DEF Unmarked, Busy, Untaken, Calling, Run
  <2> QED BY <2>1, <2>2
<1>10. Live' = Live /\ \A p : IsMarked(p)' = IsMarked(p)
  BY <1>1, <1>7, <1>9 DEF Live, IsMarked
<1>11. LiveInWindow'
  BY <1>7, <1>8, <1>10 DEF LiveInWindow
<1>12. FlagsOK'
  <2>1. \A r \in Window : r \in Int
    BY ViewTypes DEF Window
  <2>2. \A r \in Window : \A k \in Slots :
           k \in flags'[BlockOf(r)'] <=> IsMarked(Base(r) + k)'
    BY <1>1, <1>7, <1>8, <1>10, <2>1 DEF FlagsOK
  <2> QED BY <1>7, <2>2 DEF FlagsOK
<1>13. ClaimsOK'
  <2>1. \A d \in Consumers : Calling(d)' => con'[d].item + con'[d].need <= HeadIndex'
    BY <1>1, <1>8, <1>9 DEF ClaimsOK
  <2>2. \A d, a \in Consumers : d # a => Unmarked(d)' \intersect Unmarked(a)' = {}
    BY <1>8, <1>9 DEF ClaimsOK
  <2> QED BY <2>1, <2>2 DEF ClaimsOK
\* The items of the run are no objects any more.
<1>14. Untaken(c) = i .. z /\ Untaken(c)' = (i + n) .. z
  <2>1. i + 0 = i /\ i + m - 1 = z
    BY <1>3b
  <2>2. Untaken(c) = i .. z
    BY <1>1, <1>3a, <2>1 DEF Untaken
  <2>3. RunSize(c)' = n
    BY <1>3a, <1>6 DEF RunSize
  <2>4. Calling(c)' /\ con'[c].step = "setEmpty" /\ con'[c].item = i /\ con'[c].need = m
    BY <1>3a, <1>6 DEF Calling
  <2>5. Untaken(c)' = (con'[c].item + (IF con'[c].step = "setEmpty" THEN RunSize(c)' ELSE 0))
                         .. (con'[c].item + con'[c].need - 1)
    <3>1. TypeOK'
      BY <1>6
    <3>2. Run(c)' = Run(c)
      BY <1>6 DEF Run
    <3>3. Cardinality(Run(c)) = n
      BY <1>3a
    <3> QED BY <2>3, <2>4, <3>2, <3>3 DEF Untaken
  <2> QED BY <2>1, <2>2, <2>3, <2>4, <2>5
<1>15. \A p \in Objects' : p \in Objects /\ p \notin i .. ((i + n) - 1)
  <2>1. SUFFICES ASSUME NEW p \in Objects'
                 PROVE  p \in Objects /\ p \notin i .. ((i + n) - 1)
    OBVIOUS
  <2>2. Objects' = (HeadIndex .. (Filled - 1)) \union UNION {Untaken(d)' : d \in Consumers}
    BY <1>1, <1>7 DEF Objects
  <2>3. CASE p \in HeadIndex .. (Filled - 1)
    <3>0. HeadIndex \in Nat /\ z < HeadIndex
      BY <1>3a, ViewTypes
    <3>1. PICK h \in Nat : h = HeadIndex /\ z < h /\ p >= h /\ p \in Int
      BY <3>0, <2>3
    <3>2. p \notin i .. ((i + n) - 1)
      <4>1. (i + n) - 1 <= z
        BY <1>3c
      <4> QED BY <3>1, <4>1
    <3> QED BY <2>3, <3>2 DEF Objects
  <2>4. CASE p \in (i + n) .. z
    <3>1. p \in i .. z /\ p \notin i .. ((i + n) - 1)
      BY <1>3a, <2>4
    <3> QED BY <1>14, <3>1 DEF Objects
  <2>5. ASSUME NEW d \in Consumers, d # c, p \in Untaken(d)
        PROVE  p \in Objects /\ p \notin i .. ((i + n) - 1)
    <3>1. p \in Unmarked(d)
      BY <2>5, UntakenIs
    <3>2. p \notin i .. z
      BY <1>3a, <1>8, <2>5, <3>1 DEF ClaimsOK
    <3>3. p \notin i .. ((i + n) - 1)
      <4>1. i .. ((i + n) - 1) \subseteq i .. z
        BY <1>3c
      <4> QED BY <3>2, <4>1
    <3> QED BY <2>5, <3>3 DEF Objects
  <2> QED BY <1>9, <1>14, <2>1, <2>2, <2>3, <2>4, <2>5
<1>16. \A p \in Objects : p \in i .. ((i + n) - 1) \/ p \in Objects'
  <2>1. SUFFICES ASSUME NEW p \in Objects, p \notin i .. ((i + n) - 1) PROVE p \in Objects'
    OBVIOUS
  <2>2. Objects' = (HeadIndex .. (Filled - 1)) \union UNION {Untaken(d)' : d \in Consumers}
    BY <1>1, <1>7 DEF Objects
  <2>3. CASE p \in HeadIndex .. (Filled - 1)
    BY <2>2, <2>3
  <2>4. CASE p \in Untaken(c)
    <3>1. p \in (i + n) .. z
      BY <1>3a, <1>14, <2>1, <2>4
    <3> QED BY <1>14, <2>2, <3>1
  <2>5. ASSUME NEW d \in Consumers, d # c, p \in Untaken(d) PROVE p \in Objects'
    BY <1>9, <2>2, <2>5
  <2> QED BY <2>1, <2>3, <2>4, <2>5 DEF Objects
<1>17. ASSUME NEW p \in Objects
       PROVE  /\ p \in Nat /\ Num(p) \in Window /\ Num(p) \in Int /\ BlockOf(Num(p)) \in Blocks
              /\ Off(p) \in Slots
  <2>1. p \in Nat /\ Num(p) \in Live /\ Num(p) \in Nat
    BY <1>8, ObjectsLive
  <2>2. p \in Int /\ Num(p) \in Window
    BY <1>8, <2>1 DEF LiveInWindow
  <2> QED BY <1>8, <2>1, <2>2, DivMod DEF Index
<1>18. Placed'
  <2>1. ASSUME NEW p \in Objects'
        PROVE  slots'[BlockOf(Num(p))'][Off(p)] = p
    <3>1. p \in Objects /\ p \notin i .. ((i + n) - 1)
      BY <1>15
    <3>2. BlockOf(Num(p))' = BlockOf(Num(p)) /\ p \in Int
      BY <1>7, <1>17, <3>1
    <3>3. ~(BlockOf(Num(p)) = BlockOf(q) /\ Off(p) \in Run(c))
      <4>1. SUFFICES ASSUME BlockOf(Num(p)) = BlockOf(q), Off(p) \in Run(c) PROVE FALSE
        OBVIOUS
      <4>2. Num(p) = q
        BY <1>3a, <1>8, <1>17, <3>1, <4>1 DEF Index
      <4>3. p = Base(q) + Off(p)
        BY <3>2, <4>2, DivMod
      <4> QED BY <1>3a, <3>1, <4>1, <4>3
    <3> QED BY <1>4, <1>8, <1>17, <3>1, <3>2, <3>3 DEF Placed
  <2> QED BY <2>1 DEF Placed
<1>19. NothingElse'
  <2>1. ASSUME NEW b \in Blocks, NEW k \in Slots, slots'[b][k] # Raw
        PROVE  \E p \in Objects' : b = BlockOf(Num(p))' /\ k = Off(p)
    <3>1. ~(b = BlockOf(q) /\ k \in Run(c)) /\ slots[b][k] # Raw
      BY <1>4, <2>1
    <3>2. PICK p \in Objects : b = BlockOf(Num(p)) /\ k = Off(p)
      BY <1>8, <3>1 DEF NothingElse
    <3>3. p \notin i .. ((i + n) - 1)
      BY <1>3a, <3>1, <3>2
    <3>4. p \in Objects'
      BY <1>16, <3>3
    <3>5. BlockOf(Num(p))' = BlockOf(Num(p))
      BY <1>7, <1>17
    <3> QED BY <3>2, <3>4, <3>5
  <2> QED BY <2>1 DEF NothingElse
<1>20. Knows(c)'
  <2>1. BlockOf(q)' = BlockOf(q) /\ BlockOf(q + 1)' = BlockOf(q + 1)
    BY <1>7, q \in Int, q + 1 \in Int
  <2>2. q # Num(z) => next[BlockOf(q)] = BlockOf(q + 1)
    <3>1. SUFFICES ASSUME q # Num(z) PROVE next[BlockOf(q)] = BlockOf(q + 1)
      OBVIOUS
    <3>2. Num(z) \in Busy(c) /\ Num(z) \in Window
      <4>1. Num(z) \in Busy(c)
        BY <1>3a
      <4> QED BY <1>8, <4>1, BusyLive DEF LiveInWindow
    <3>3. q # Entered - 1
      <4>1. PICK y \in Nat, e \in Int : y = Num(z) /\ e = Entered /\ y <= e - 1 /\ q <= y
        BY <1>3a, <3>2, ViewTypes DEF Window
      <4> QED BY <3>1, <4>1
    <3> QED BY <1>3a, <1>8, <3>3 DEF InRing
  <2>3. con'[c].item = i /\ con'[c].item + con'[c].need - 1 = z /\ con'[c].step = "setEmpty"
    <3>1. i + m - 1 = z
      BY <1>3a
    <3> QED BY <1>3a, <1>6, <3>1
  <2>4. con'[c].block = BlockOf(q)' /\ (q # Num(z) => con'[c].after = BlockOf(q + 1)')
    BY <1>3a, <1>6, <2>1, <2>2
  <2>5. /\ BlockOf(Num(con[c].item))' = BlockOf(q)'
        /\ BlockOf(Num(con[c].item) + 1)' = BlockOf(q + 1)'
    BY <1>3a, <2>3
  <2> QED BY <1>3a, <2>3, <2>4, <2>5 DEF Knows
<1>21. \A d \in Consumers : Knows(d)'
  <2>1. ASSUME NEW d \in Consumers, d # c PROVE Knows(d)'
    BY <1>6, <1>7, <1>8, <2>1, KnowsKept
  <2> QED BY <1>20, <2>1
<1> QED BY <1>1, <1>6, <1>7, <1>11, <1>12, <1>13, <1>18, <1>19, <1>21 DEF Body

LEMMA StepSetEmpty ==
    ASSUME TypeOK, Body, NEW c \in Consumers, SetEmpty(c), program' = program
    PROVE  TypeOK' /\ Body' /\ po' = po
<1> DEFINE call == Rest(c, "take", con[c].after)
<1>1. /\ con[c].step = "setEmpty" /\ con' = [con EXCEPT ![c] = call]
      /\ flags' = [flags EXCEPT ![con[c].block] = flags[con[c].block] \union Run(c)]
      /\ UNCHANGED <<HeadIndex, TailIndex, ring, slots, index, supply, po>>
  <2>1. con \in [Consumers -> {NoCall} \union Lookups] /\ flags \in [Blocks -> SUBSET Slots]
    BY DEF TypeOK
  <2> QED BY <2>1 DEF SetEmpty
<1>2. ConsumerFrame
  BY <1>1 DEF ConsumerFrame
<1>3. PICK q \in Nat, i \in Nat, n \in Nat \ {0}, m \in Nat \ {0}, z \in Nat :
          RunIn(c, q, i, n, m, z)
  BY <1>1, RunOf
<1>4. /\ i = con[c].item /\ m = con[c].need /\ n <= m /\ n = RunSize(c)
      /\ z = (i + m) - 1 /\ z < HeadIndex /\ Unmarked(c) = i .. z
      /\ q = Num(i) /\ Busy(c) = q .. Num(z) /\ q <= Num(z) /\ Num(z) \in Nat
      /\ Cardinality(Run(c)) = n /\ Run(c) \subseteq Slots
      /\ q \in Window /\ con[c].block = BlockOf(q) /\ BlockOf(q) \in Blocks
      /\ \A p \in i .. ((i + n) - 1) : Num(p) = q /\ Off(p) \in Run(c)
      /\ \A r \in Run(c) : Base(q) + r \in i .. ((i + n) - 1)
      /\ (n < m => Num(i + n) = q + 1 /\ q # Num(z))
  BY <1>3 DEF RunIn
<1>4a. n <= m /\ z = (i + m) - 1 /\ z < HeadIndex /\ HeadIndex \in Nat
  BY <1>4, ViewTypes
<1>5. /\ Index /\ CallOK /\ ClaimsOK /\ LiveInWindow /\ FlagsOK /\ Placed /\ NothingElse
      /\ InRing /\ \A d \in Consumers : Knows(d)
  BY DEF Body
\* Where the claim goes on, it does so in the block after.
<1>6. n # m => /\ con[c].after = BlockOf(q + 1) /\ q + 1 \in Window /\ BlockOf(q + 1) \in Blocks
               /\ Num(i + n) = q + 1 /\ q + 1 <= Num(z)
  <2>1. SUFFICES ASSUME n # m
                 PROVE  /\ con[c].after = BlockOf(q + 1) /\ q + 1 \in Window
                        /\ BlockOf(q + 1) \in Blocks
                        /\ Num(i + n) = q + 1 /\ q + 1 <= Num(z)
    OBVIOUS
  <2>2. n < m
    BY <1>4, <2>1
  <2>3. Num(i + n) = q + 1 /\ q # Num(z) /\ q + 1 <= Num(z)
    BY <1>4, <2>2
  <2>4. q + 1 \in Busy(c)
    BY <1>4, <2>3
  <2>5. q + 1 \in Window
    BY <1>5, <2>4, BusyLive DEF LiveInWindow
  <2>6. con[c].after = BlockOf(q + 1)
    <3>1. con[c].item + con[c].need - 1 = z
      BY <1>4
    <3> QED BY <1>1, <1>4, <1>5, <2>3, <3>1 DEF Knows
  <2> QED BY <1>5, <2>3, <2>5, <2>6 DEF Index
<1>7. /\ n = m => call = NoCall
      /\ n # m => call = [step |-> "take", item |-> i + n, need |-> m - n,
                          block |-> BlockOf(q + 1)]
  BY <1>4, <1>6 DEF Rest
<1>8. call \in {NoCall} \union Lookups
  <2>1. CASE n = m
    BY <1>7, <2>1
  <2>2. CASE n # m
    <3>1. i + n \in Nat /\ m - n \in Nat \ {0}
      BY <1>4a, <2>2
    <3> QED BY <1>6, <1>7, <2>2, <3>1 DEF Lookups
  <2> QED BY <2>1, <2>2
<1> HIDE DEF call
<1>9. /\ TypeOK' /\ con'[c] = call /\ \A d \in Consumers : d # c => con'[d] = con[d]
  <2>1. flags' \in [Blocks -> SUBSET Slots]
    BY <1>1, <1>4 DEF TypeOK
  <2>2. /\ HeadIndex' \in Nat /\ HeadIndex' <= TailIndex
        /\ slots' \in [Blocks -> [Slots -> Nat \union {Raw}]]
    BY <1>1 DEF TypeOK
  <2> QED BY <1>1, <1>2, <1>8, <2>1, <2>2, ConsumerTypes
<1>10. \A b \in Blocks : flags'[b] = IF b = BlockOf(q) THEN flags[b] \union Run(c) ELSE flags[b]
  BY <1>1, <1>4 DEF TypeOK
<1>11. /\ SameIndex /\ Index' /\ InRing' /\ Supply' /\ TailOK' /\ CallOK'
      /\ Window' = Window /\ Entered' = Entered /\ Begun' = Begun /\ Filled' = Filled
      /\ \A r \in Int : BlockOf(r)' = BlockOf(r)
  BY <1>2, ConsumerKeeps
<1>12. ASSUME NEW d \in Consumers, d # c
       PROVE  /\ Unmarked(d)' = Unmarked(d) /\ Busy(d)' = Busy(d) /\ Untaken(d)' = Untaken(d)
              /\ Calling(d)' = Calling(d)
  BY <1>9, <1>12 DEF Unmarked, Busy, Untaken, Calling, Run
<1>13. /\ Unmarked(c)' = (i + n) .. z /\ Busy(c)' \subseteq Busy(c)
       /\ Untaken(c)' = Untaken(c)
       /\ Calling(c)' => con'[c].item + con'[c].need <= HeadIndex'
  <2>1. Untaken(c) = (i + n) .. z
    <3>1. i + m - 1 = z
      BY <1>4
    <3> QED BY <1>1, <1>4, <3>1 DEF Untaken
  <2>2. CASE n = m
    <3>1. con'[c].step = "idle"
      BY <1>7, <1>9, <2>2 DEF NoCall
    <3>2. (i + n) .. z = {}
      BY <1>4, <2>2
    <3> QED BY <2>1, <3>1, <3>2 DEF Unmarked, Busy, Untaken, Calling
  <2>3. CASE n # m
    <3>1. /\ con'[c].step = "take" /\ con'[c].item = i + n /\ con'[c].need = m - n
      BY <1>7, <1>9, <2>3
    <3>2. (i + n) + (m - n) - 1 = z /\ (i + n) + 0 = i + n /\ (i + n) + (m - n) = z + 1
      BY <1>4a
    <3>3. Unmarked(c)' = (i + n) .. z /\ Untaken(c)' = (i + n) .. z
      BY <3>1, <3>2 DEF Unmarked, Untaken, Calling
    <3>4. Busy(c)' = Num(i + n) .. Num(z)
      BY <3>1, <3>2 DEF Busy, Calling
    <3>5. Busy(c)' \subseteq Busy(c)
      BY <1>4, <1>6, <2>3, <3>4
    <3>6. z + 1 <= HeadIndex' /\ HeadIndex' = HeadIndex
      BY <1>1, <1>4, ViewTypes
    <3> QED BY <2>1, <3>1, <3>2, <3>3, <3>5, <3>6
  <2> QED BY <2>2, <2>3
<1>14. Live' \subseteq Live
  BY <1>1, <1>11, <1>12, <1>13 DEF Live
<1>15. LiveInWindow'
  BY <1>5, <1>11, <1>14 DEF LiveInWindow
<1>16. ASSUME NEW p \in Int
       PROVE  IsMarked(p)' <=> IsMarked(p) \/ p \in i .. ((i + n) - 1)
  <2>1. CASE p \in i .. ((i + n) - 1)
    <3>1. p \in i .. z /\ p \notin (i + n) .. z /\ p < HeadIndex
      <4>1. p \in i .. z /\ p \notin (i + n) .. z /\ p <= z
        BY <1>4a, <2>1
      <4> QED BY <1>4a, <4>1
    <3>2. \A d \in Consumers : d # c => p \notin Unmarked(d)'
      BY <1>4, <1>5, <1>12, <3>1 DEF ClaimsOK
    <3> QED BY <1>1, <1>13, <2>1, <3>1, <3>2 DEF IsMarked
  <2>2. CASE p \notin i .. ((i + n) - 1)
    <3>1. p \in i .. z <=> p \in (i + n) .. z
      BY <1>4, <2>2
    <3>2. \A d \in Consumers : p \in Unmarked(d)' <=> p \in Unmarked(d)
      BY <1>4, <1>12, <1>13, <3>1
    <3> QED BY <1>1, <2>2, <3>2 DEF IsMarked
  <2> QED BY <2>1, <2>2
<1>17. FlagsOK'
  <2>1. ASSUME NEW r \in Window, NEW k \in Slots
        PROVE  k \in flags'[BlockOf(r)'] <=> IsMarked(Base(r) + k)'
    <3>1. r \in Int /\ BlockOf(r) \in Blocks /\ BlockOf(r)' = BlockOf(r)
      BY <1>5, <1>11, ViewTypes DEF Window, Index
    <3>2. Base(r) + k \in Int /\ Num(Base(r) + k) = r /\ Off(Base(r) + k) = k
      <4>1. Base(r) \in Int /\ k \in Int
        BY <3>1, BaseStep, ViewTypes
      <4> QED BY <3>1, <4>1, NumOf
    <3>3. k \in flags[BlockOf(r)] <=> IsMarked(Base(r) + k)
      BY <1>5 DEF FlagsOK
    <3>4. BlockOf(r) = BlockOf(q) <=> r = q
      BY <1>4, <1>5 DEF Index
    <3>5. r = q /\ k \in Run(c) <=> Base(r) + k \in i .. ((i + n) - 1)
      BY <1>4, <3>2
    <3> QED BY <1>10, <1>16, <3>1, <3>2, <3>3, <3>4, <3>5
  <2> QED BY <1>11, <2>1 DEF FlagsOK
<1>18. Objects' = Objects
  <2>1. \A d \in Consumers : Untaken(d)' = Untaken(d)
    BY <1>12, <1>13
  <2> QED BY <1>1, <1>11, <2>1 DEF Objects
<1>19. Placed' /\ NothingElse'
  BY <1>1, <1>5, <1>11, <1>18, SlotsKept
<1>20. ClaimsOK'
  <2>1. \A d \in Consumers : Calling(d)' => con'[d].item + con'[d].need <= HeadIndex'
    BY <1>1, <1>5, <1>9, <1>12, <1>13 DEF ClaimsOK
  <2>2. \A d \in Consumers : Unmarked(d)' \subseteq Unmarked(d)
    <3>1. (i + n) .. z \subseteq i .. z
      BY <1>4
    <3> QED BY <1>4, <1>12, <1>13, <3>1
  <2>3. \A d, a \in Consumers : d # a => Unmarked(d)' \intersect Unmarked(a)' = {}
    BY <1>5, <2>2 DEF ClaimsOK
  <2> QED BY <2>1, <2>3 DEF ClaimsOK
<1>21. Knows(c)'
  <2>1. CASE n = m
    <3>1. con'[c].step = "idle"
      BY <1>7, <1>9, <2>1 DEF NoCall
    <3> QED BY <3>1 DEF Knows
  <2>2. CASE n # m
    <3>1. con'[c].step = "take" /\ con'[c].item = i + n /\ con'[c].block = BlockOf(q + 1)
      BY <1>7, <1>9, <2>2
    <3>2. BlockOf(q + 1)' = BlockOf(q + 1) /\ Num(i + n) = q + 1
      BY <1>6, <1>11, <2>2, q + 1 \in Int
    <3>3. BlockOf(Num(con[c].item))' = BlockOf(q + 1)'
      BY <3>1, <3>2
    <3> QED BY <3>1, <3>2, <3>3 DEF Knows
  <2> QED BY <2>1, <2>2
<1>22. \A d \in Consumers : Knows(d)'
  <2>1. ASSUME NEW d \in Consumers, d # c PROVE Knows(d)'
    BY <1>5, <1>9, <1>11, <2>1, KnowsKept
  <2> QED BY <1>21, <2>1
<1> QED BY <1>1, <1>9, <1>11, <1>15, <1>17, <1>19, <1>20, <1>22 DEF Body

-----------------------------------------------------------------------------
(* The ring and its clearing. *)

\* The walk from block b on, in n steps.
Walk(a, n, b) == a = [k \in 0 .. n |-> IF k = 0 THEN b ELSE next[a[k - 1]]]

LEMMA WalkExists ==
    ASSUME NEW n \in Nat, NEW b
    PROVE  \E a : Walk(a, n, b)
<1> DEFINE S == {m \in 0 .. n : \E a : Walk(a, m, b)}
<1>1. 0 \in S
  <2>1. Walk([k \in 0 .. 0 |-> b], 0, b)
    BY DEF Walk
  <2>2. 0 \in 0 .. n
    OBVIOUS
  <2> QED BY <2>1, <2>2
<1>2. ASSUME NEW m \in 0 .. (n - 1), m \in S PROVE m + 1 \in S
  <2>1. PICK a : Walk(a, m, b)
    BY <1>2
  <2> DEFINE w == [k \in 0 .. (m + 1) |-> IF k = m + 1 THEN next[a[m]] ELSE a[k]]
  <2>2. ASSUME NEW k \in 0 .. (m + 1)
        PROVE  w[k] = IF k = 0 THEN b ELSE next[w[k - 1]]
    <3>1. CASE k = m + 1
      <4>1. w[k] = next[a[m]] /\ w[k - 1] = a[m] /\ k # 0
        BY <3>1
      <4> QED BY <4>1
    <3>2. CASE k # m + 1
      <4>1. k \in 0 .. m /\ w[k] = a[k] /\ (k # 0 => w[k - 1] = a[k - 1])
        BY <3>2
      <4>2. a[k] = IF k = 0 THEN b ELSE next[a[k - 1]]
        BY <2>1, <4>1 DEF Walk
      <4> QED BY <4>1, <4>2
    <3> QED BY <3>1, <3>2
  <2>3. w = [k \in 0 .. (m + 1) |-> IF k = 0 THEN b ELSE next[w[k - 1]]]
    BY <2>2
  <2>4. m + 1 \in 0 .. n
    OBVIOUS
  <2> HIDE DEF w
  <2>5. Walk(w, m + 1, b)
    BY <2>3 DEF Walk
  <2> QED BY <2>4, <2>5
<1>3. 0 .. n \subseteq S
  <2> HIDE DEF S
  <2> QED BY <1>1, <1>2, Upward
<1>4. n \in S
  <2> HIDE DEF S
  <2> QED BY <1>3
<1> QED BY <1>4

\* BlocksTo in terms of the walk.
Stops(a, k, last) == a[k] = last /\ \A j \in 0 .. (k - 1) : a[j] # last

Follows(a, n, b, last) ==
    /\ Walk(a, n, b)
    /\ BlocksTo(b, last) = {a[k] : k \in 0 .. (CHOOSE k \in 0 .. n : Stops(a, k, last))}

LEMMA BlocksToIs ==
    ASSUME NEW b, NEW last, Cardinality(Blocks) \in Nat
    PROVE  \E a : Follows(a, Cardinality(Blocks), b, last)
<1> DEFINE at == CHOOSE a : Walk(a, Cardinality(Blocks), b)
<1>1. Walk(at, Cardinality(Blocks), b)
  BY WalkExists
<1>2. BlocksTo(b, last) =
         {at[k] : k \in 0 .. (CHOOSE k \in 0 .. Cardinality(Blocks) : Stops(at, k, last))}
  BY DEF BlocksTo, Walk, Stops
<1> HIDE DEF at
<1> QED BY <1>1, <1>2 DEF Follows

\* There are as many blocks as the ring has, at least.
LEMMA WindowFits ==
    ASSUME TypeOK, Body
    PROVE  Cardinality(Blocks) \in Nat /\ Entered - Oldest <= Cardinality(Blocks)
<1>1. PICK e \in Nat, o \in Nat, n \in Nat :
          /\ e = Entered /\ o = Oldest /\ o <= e /\ n = Cardinality(Blocks)
          /\ Window = o .. (e - 1) /\ IsFiniteSet(Blocks)
  <2>1. Entered \in Nat /\ Oldest \in Nat /\ Oldest <= Entered
    BY EnteredIs DEF Body
  <2>2. Cardinality(Blocks) \in Nat
    BY FS_CardinalityType, BlocksAssumption
  <2> QED BY <2>1, <2>2, BlocksAssumption DEF Window
<1>2. SUFFICES ASSUME n < e - o PROVE FALSE
  BY <1>1
<1>3. IsFiniteSet(o .. (e - 1)) /\ Cardinality(o .. (e - 1)) = e - o
  <2>1. o \in Int /\ e - 1 \in Int /\ ~(o > e - 1) /\ (e - 1) - o + 1 = e - o
    BY <1>1, <1>2
  <2> QED BY <2>1, FS_Interval
<1> DEFINE f == [q \in o .. (e - 1) |-> BlockOf(q)]
<1>4. f \in [o .. (e - 1) -> Blocks]
  BY <1>1 DEF Body, Index
<1>5. \E x, y \in o .. (e - 1) : x # y /\ f[x] = f[y]
  <2> HIDE DEF f
  <2>1. Cardinality(Blocks) < Cardinality(o .. (e - 1))
    BY <1>1, <1>2, <1>3
  <2> QED BY <1>1, <1>3, <1>4, <2>1, FS_PigeonHole
<1>6. PICK x \in Window, y \in Window : x # y /\ BlockOf(x) = BlockOf(y)
  BY <1>1, <1>5
<1> QED BY <1>6 DEF Body, Index

LEMMA RingIs ==
    ASSUME TypeOK, Body
    PROVE  Ring = {BlockOf(q) : q \in Window}
<1>1. Index /\ InRing /\ TailBlock \in MaybeBlock
  BY DEF Body, TypeOK
<1>2. PICK e \in Nat, o \in Nat, n \in Nat :
          /\ e = Entered /\ o = Oldest /\ o <= e /\ n = Cardinality(Blocks) /\ e - o <= n
          /\ Window = o .. (e - 1)
  BY WindowFits, EnteredIs DEF Body, Window
<1>3. CASE e = 0
  <2>1. TailBlock = NoBlock /\ Window = {}
    BY <1>1, <1>2, <1>3 DEF InRing
  <2> QED BY <2>1 DEF Ring
<1>4. CASE e # 0
  <2>1. o \in o .. (e - 1) /\ e - 1 \in o .. (e - 1) /\ e > 0
    BY <1>1, <1>2, <1>4 DEF Index
  <2>2. /\ TailBlock = BlockOf(e - 1) /\ next[TailBlock] = BlockOf(o)
        /\ BlockOf(e - 1) \in Blocks /\ TailBlock # NoBlock
        /\ \A q \in o .. (e - 1) : q # e - 1 => next[BlockOf(q)] = BlockOf(q + 1)
        /\ \A q \in o .. (e - 1) : BlockOf(q) = BlockOf(e - 1) => q = e - 1
    BY <1>1, <1>2, <2>1, BlocksAssumption DEF Index, InRing
  <2>2a. PICK a : Follows(a, n, BlockOf(o), BlockOf(e - 1))
    BY <1>2, BlocksToIs
  <2>3. /\ Walk(a, n, BlockOf(o))
        /\ BlocksTo(BlockOf(o), BlockOf(e - 1)) =
              {a[k] : k \in 0 .. (CHOOSE k \in 0 .. n : Stops(a, k, BlockOf(e - 1)))}
    BY <2>2a DEF Follows
  <2>4. PICK u \in Nat : u = (e - o) - 1 /\ u \in 0 .. n
    BY <1>2, <2>1
  <2> DEFINE S == {k \in 0 .. u : a[k] = BlockOf(o + k)}
  <2>5. 0 \in S
    <3>1. a[0] = BlockOf(o) /\ o + 0 = o /\ 0 \in 0 .. u
      BY <1>2, <2>3, <2>4 DEF Walk
    <3> QED BY <3>1
  <2>6. ASSUME NEW k \in 0 .. (u - 1), k \in S PROVE k + 1 \in S
    <3>1. k + 1 \in 0 .. n /\ k + 1 # 0 /\ (k + 1) - 1 = k /\ k + 1 \in 0 .. u
      BY <2>4
    <3>2. a[k + 1] = next[a[k]]
      BY <2>3, <3>1 DEF Walk
    <3>3. o + k \in o .. (e - 1) /\ o + k # e - 1 /\ (o + k) + 1 = o + (k + 1)
      BY <1>2, <2>4
    <3>4. next[BlockOf(o + k)] = BlockOf((o + k) + 1)
      BY <2>2, <3>3
    <3> QED BY <2>6, <3>1, <3>2, <3>3, <3>4
  <2>7. \A k \in 0 .. u : a[k] = BlockOf(o + k)
    <3>1. 0 .. u \subseteq S
      <4> HIDE DEF S
      <4> QED BY <2>5, <2>6, Upward
    <3> QED BY <3>1
  <2>8. Stops(a, u, BlockOf(e - 1))
    <3>1. u \in 0 .. u /\ o + u = e - 1
      BY <1>2, <2>4
    <3>2. a[u] = BlockOf(e - 1)
      BY <2>7, <3>1
    <3>3. ASSUME NEW j \in 0 .. (u - 1) PROVE a[j] # BlockOf(e - 1)
      <4>1. j \in 0 .. u /\ o + j \in o .. (e - 1) /\ o + j # e - 1
        BY <1>2, <2>4
      <4> QED BY <2>2, <2>7, <4>1
    <3> QED BY <3>2, <3>3 DEF Stops
  <2>9. (CHOOSE k \in 0 .. n : Stops(a, k, BlockOf(e - 1))) = u
    <3>1. ASSUME NEW k \in 0 .. n, Stops(a, k, BlockOf(e - 1)) PROVE k = u
      <4>1. ~(k < u)
        <5>1. k < u => k \in 0 .. (u - 1)
          BY <2>4
        <5> QED BY <2>8, <3>1, <5>1 DEF Stops
      <4>2. ~(u < k)
        <5>1. u < k => u \in 0 .. (k - 1)
          BY <2>4
        <5> QED BY <2>8, <3>1, <5>1 DEF Stops
      <4> QED BY <2>4, <4>1, <4>2
    <3> QED BY <2>4, <2>8, <3>1
  <2>10. Ring = {a[k] : k \in 0 .. u}
    BY <2>2, <2>3, <2>9 DEF Ring
  <2>11. {a[k] : k \in 0 .. u} = {BlockOf(q) : q \in o .. (e - 1)}
    <3>1. ASSUME NEW k \in 0 .. u PROVE \E q \in o .. (e - 1) : a[k] = BlockOf(q)
      <4>1. o + k \in o .. (e - 1)
        BY <1>2, <2>4
      <4> QED BY <2>7, <4>1
    <3>2. ASSUME NEW q \in o .. (e - 1) PROVE \E k \in 0 .. u : a[k] = BlockOf(q)
      <4>1. q - o \in 0 .. u /\ o + (q - o) = q
        BY <1>2, <2>4
      <4> QED BY <2>7, <4>1
    <3> QED BY <3>1, <3>2
  <2> QED BY <1>2, <2>10, <2>11
<1> QED BY <1>3, <1>4

\* Between calls: what there is about.
LEMMA Idle ==
    ASSUME TypeOK, Body, po.step = "idle"
    PROVE  /\ Entered = Begun /\ Front = PO_NextIndexEntry /\ Filled = TailIndex
           /\ Entered \in Nat /\ Oldest \in Nat /\ Oldest <= Entered
           /\ Window = Oldest .. (Entered - 1)
           /\ Objects = (HeadIndex .. (TailIndex - 1)) \union UNION {Untaken(c) : c \in Consumers}
<1>1. Entered \in Nat /\ Oldest \in Nat /\ Oldest <= Entered
  BY EnteredIs DEF Body
<1>2. Entered = Begun /\ Front = PO_NextIndexEntry
  BY DEF Entered, Front, BulkSteps
<1>3. Filled = TailIndex
  <2>1. TailIndex + 0 = TailIndex
    BY ViewTypes
  <2> QED BY <2>1 DEF Filled
<1> QED BY <1>1, <1>2, <1>3 DEF Window, Objects

\* The search finds the block that HeadIndex is in.
LEMMA HalfIs ==
    ASSUME TypeOK, Body, po.step = "idle", Off(HeadIndex) # 0
    PROVE  HalfDequeued = BlockOf(Num(HeadIndex)) /\ Num(HeadIndex) \in Window
<1>1. PICK e \in Nat, o \in Nat, s \in Nat \ {0}, f \in Nat, u \in Nat :
          /\ e = Entered /\ o = Oldest /\ o <= e /\ Window = o .. (e - 1) /\ e = Begun
          /\ s = IndexSize /\ f = PO_NextIndexEntry /\ f = Front
          /\ u = PO_IndexEntriesUsed /\ e - o = u /\ u <= s
  BY Idle, CurTypes, ViewTypes, EnteredIs DEF Body
<1>2. PICK h \in Nat, t \in Nat : h = HeadIndex /\ t = TailIndex /\ h <= t /\ t <= Base(e)
  BY <1>1, ViewTypes, BegunIs
<1>3. PICK q \in Int : /\ q = Num(h) /\ Base(q) \in Int /\ Base(q + 1) \in Int
                       /\ Base(q) < h /\ h < Base(q + 1)
                       /\ Base(q + 1) = Base(q) + BlockSize
  <2>1. /\ Num(h) \in Int /\ Base(Num(h)) \in Int /\ Base(Num(h) + 1) \in Int
        /\ Base(Num(h)) <= h /\ h < Base(Num(h) + 1)
        /\ Base(Num(h) + 1) = Base(Num(h)) + BlockSize
    BY <1>2, BlockEnds, h \in Int
  <2>2. h = Base(Num(h)) + Off(h) /\ Off(h) # 0 /\ Off(h) \in Int
    BY <1>2, DivMod, h \in Int, ViewTypes
  <2> QED BY <2>1, <2>2
<1>4. q \in Window
  <2>1. Base(e) \in Int /\ (h < Base(e) \/ h = Base(e))
    BY <1>2, BaseStep, e \in Int
  <2>2. h # Base(e)
    <3>1. Off(Base(e)) = 0
      BY BaseStep, e \in Int
    <3> QED BY <1>2, <3>1
  <2>3. h < Base(e) /\ h \in Int
    BY <1>2, <2>1, <2>2
  <2>4. q \in Live
    BY <1>1, <1>2, <1>3, <2>3, AheadLive DEF Body
  <2> QED BY <2>4 DEF Body, LiveInWindow
<1>5. q \in o .. (e - 1) /\ q - o \in 0 .. (u - 1) /\ q - o \in 0 .. (s - 1)
  BY <1>1, <1>4
<1> DEFINE start == PO_NextIndexEntry - PO_IndexEntriesUsed
           Passes(k) == Current.entries[Wrapped(start + k)].base + BlockSize >= HeadIndex
           First(k) == Passes(k) /\ \A j \in 0 .. (k - 1) : ~Passes(j)
<1>6. ASSUME NEW k \in 0 .. (u - 1)
      PROVE  /\ Current.entries[Wrapped(start + k)] = EntryAt(o + k)
             /\ Passes(k) <=> q <= o + k
  <2>1. (f - u) + k = (o + k) + (f - e)
    BY <1>1
  <2>2. Wrapped(start + k) = Place(o + k)
    BY <1>1, <2>1 DEF Wrapped, Place
  <2>3. o + k \in Window /\ o + k \in Int
    BY <1>1
  <2>4. Current.entries[Wrapped(start + k)] = EntryAt(o + k)
    BY <2>2 DEF EntryAt
  <2>5. Current.entries[Wrapped(start + k)].base = Base(o + k)
    BY <2>3, <2>4 DEF Body, Index
  <2>6. Base(o + k) + BlockSize = Base((o + k) + 1)
    BY <2>3, BaseStep
  <2>7. Passes(k) <=> Base((o + k) + 1) >= h
    BY <1>2, <2>5, <2>6
  <2>8. Base((o + k) + 1) >= h <=> q <= o + k
    <3>1. CASE q <= o + k
      <4>1. Base(q + 1) <= Base((o + k) + 1) /\ Base((o + k) + 1) \in Int
        BY <1>3, <2>3, <3>1, BaseMono, q + 1 \in Int, (o + k) + 1 \in Int, q + 1 <= (o + k) + 1
      <4> QED BY <1>2, <1>3, <3>1, <4>1
    <3>2. CASE ~(q <= o + k)
      <4>1. (o + k) + 1 <= q /\ (o + k) + 1 \in Int
        BY <1>3, <2>3, <3>2
      <4>2. Base((o + k) + 1) <= Base(q) /\ Base((o + k) + 1) \in Int
        BY <4>1, BaseMono
      <4> QED BY <1>2, <1>3, <3>2, <4>2
    <3> QED BY <3>1, <3>2
  <2> QED BY <2>4, <2>7, <2>8
<1> HIDE DEF Passes, start
<1>7. First(q - o)
  <2>1. q <= o + (q - o)
    BY <1>1, <1>5
  <2>2. Passes(q - o)
    BY <1>5, <1>6, <2>1
  <2>3. ASSUME NEW j \in 0 .. ((q - o) - 1) PROVE ~Passes(j)
    <3>1. j \in 0 .. (u - 1) /\ ~(q <= o + j)
      BY <1>1, <1>5
    <3> QED BY <1>6, <3>1
  <2> QED BY <2>2, <2>3
<1>8. ASSUME NEW k \in 0 .. (s - 1), First(k) PROVE k = q - o
  <2>1. PICK d \in Nat : d = q - o
    BY <1>5
  <2>2. ~(k < d)
    <3>1. k < d => k \in 0 .. (d - 1)
      BY <2>1
    <3> QED BY <1>7, <1>8, <2>1, <3>1
  <2>3. ~(d < k)
    <3>1. d < k => d \in 0 .. (k - 1)
      BY <2>1
    <3> QED BY <1>7, <1>8, <2>1, <3>1
  <2> QED BY <2>1, <2>2, <2>3
<1>9. (CHOOSE k \in 0 .. (IndexSize - 1) : First(k)) = q - o
  <2> HIDE DEF First
  <2> QED BY <1>1, <1>5, <1>7, <1>8
<1>10. HalfDequeued = Current.entries[Wrapped(start + (q - o))].block
  BY <1>9 DEF HalfDequeued, Passes, start, Off
<1>11. HalfDequeued = BlockOf(q)
  <2>1. o + (q - o) = q
    BY <1>1, <1>5
  <2> QED BY <1>5, <1>6, <1>10, <2>1 DEF BlockOf
<1> QED BY <1>2, <1>3, <1>4, <1>11

\* A block is empty when HeadIndex is past it.
LEMMA PassedIsEmpty ==
    ASSUME TypeOK, Body, Quiescent, NEW q \in Window, Base(q + 1) <= HeadIndex
    PROVE  IsEmpty(BlockOf(q))
<1>1. q \in Int /\ FlagsOK /\ BlockOf(q) \in Blocks
  BY ViewTypes DEF Body, Index, Window
<1>2. flags[BlockOf(q)] \subseteq Slots
  BY <1>1 DEF TypeOK
<1>3. ASSUME NEW i \in Slots PROVE i \in flags[BlockOf(q)]
  <2>1. PICK B \in Int, h \in Nat, S \in Nat :
            /\ B = Base(q) /\ h = HeadIndex /\ S = BlockSize /\ B + S <= h /\ i \in 0 .. (S - 1)
    BY <1>1, ViewTypes, BaseStep DEF Slots
  <2>2. Base(q) + i < HeadIndex
    BY <2>1
  <2>3. IsMarked(Base(q) + i)
    BY <2>2 DEF IsMarked, Unmarked, Calling, Quiescent
  <2> QED BY <1>1, <2>3 DEF FlagsOK
<1> QED BY <1>2, <1>3 DEF IsEmpty

\* The positions in the ring up to TailIndex.
LEMMA BelowTail ==
    ASSUME TypeOK, Body, po.step = "idle", NEW q \in Window, NEW i \in Slots
    PROVE  /\ Base(q) + i \in Int /\ Num(Base(q) + i) = q /\ Off(Base(q) + i) = i
           /\ q # Entered - 1 => Base(q) + i < TailIndex
           /\ q = Entered - 1 =>
                (Base(q) + i < TailIndex <=> (Off(TailIndex) # 0 => i < Off(TailIndex)))
<1>1. PICK e \in Nat, t \in Nat, S \in Nat \ {0, 1} :
          /\ e = Entered /\ e = Begun /\ t = TailIndex /\ S = BlockSize
          /\ Window \subseteq Int /\ (\A r \in Window : r <= e - 1) /\ Slots = 0 .. (S - 1)
  BY Idle, ViewTypes DEF Window
<1>2. q \in Int /\ q <= e - 1 /\ Base(q) \in Int /\ i \in 0 .. (S - 1)
  BY <1>1, BaseStep
<1>3. Base(q) + i \in Int /\ Num(Base(q) + i) = q /\ Off(Base(q) + i) = i
  <2>1. q \in Int /\ i \in Int
    BY <1>1, <1>2
  <2>2. Num(Base(q) + i) = q /\ Off(Base(q) + i) = i /\ Base(q) \in Int
    BY <2>1, NumOf
  <2> QED BY <2>1, <2>2
<1>4. /\ Base(e) \in Nat /\ Base(e) - S < t /\ t <= Base(e)
      /\ (Off(t) = 0 => t = Base(e)) /\ (Off(t) # 0 => Num(t) = e - 1)
  BY <1>1, BegunIs
<1>5. Base(e - 1) \in Int /\ Base(e) = Base(e - 1) + S
  <2>1. e - 1 \in Int /\ (e - 1) + 1 = e
    BY <1>1
  <2> QED BY <1>1, <2>1, BaseStep
<1>6. ASSUME q # e - 1 PROVE Base(q) + i < t
  <2>1. q + 1 <= e - 1 /\ q + 1 \in Int /\ e - 1 \in Int
    BY <1>1, <1>2, <1>6
  <2>2. Base(q + 1) <= Base(e - 1) /\ Base(q + 1) = Base(q) + S
    BY <1>1, <1>2, <2>1, BaseMono, BaseStep
  <2>3. PICK A \in Int, B \in Int, C \in Int :
            /\ A = Base(q) /\ B = Base(e - 1) /\ C = Base(e)
            /\ A + S <= B /\ C = B + S /\ C - S < t
    BY <1>2, <1>4, <1>5, <2>2
  <2>4. A + i < t
    BY <1>1, <1>2, <2>3
  <2> QED BY <2>3, <2>4
<1>7. ASSUME q = e - 1 PROVE Base(q) + i < t <=> (Off(t) # 0 => i < Off(t))
  <2>1. CASE Off(t) = 0
    <3>1. PICK A \in Int : A = Base(q) /\ t = A + S
      BY <1>4, <1>5, <1>7, <2>1
    <3>2. A + i < t
      BY <1>1, <1>2, <3>1
    <3> QED BY <2>1, <3>1, <3>2
  <2>2. CASE Off(t) # 0
    <3>1. PICK A \in Int, k \in Int : A = Base(q) /\ k = Off(t) /\ t = A + k
      <4>1. t \in Int /\ Num(t) = q
        BY <1>1, <1>4, <1>7, <2>2
      <4>2. t = Base(Num(t)) + Off(t) /\ Off(t) \in Slots
        BY <4>1, DivMod
      <4>3. t = Base(q) + Off(t) /\ Off(t) \in Int /\ Base(q) \in Int
        <5>1. Off(t) \in Int
          BY <1>1, <4>2
        <5> QED BY <1>2, <4>1, <4>2, <5>1
      <4> QED BY <4>3
    <3>2. A + i < t <=> i < k
      BY <1>1, <1>2, <3>1
    <3> QED BY <2>2, <3>1, <3>2
  <2> QED BY <2>1, <2>2
<1> QED BY <1>1, <1>3, <1>6, <1>7

\* With nobody in the queue the objects are what HeadIndex and TailIndex say.
LEMMA QuietObjects ==
    ASSUME TypeOK, Body, Quiescent
    PROVE  /\ po.step = "idle" /\ Objects = HeadIndex .. (TailIndex - 1)
           /\ \A p \in Int : IsMarked(p) <=> p < HeadIndex
<1>1. po.step = "idle" /\ \A c \in Consumers : con[c].step = "idle"
  BY DEF Quiescent
<1>2. \A c \in Consumers : Untaken(c) = {} /\ Unmarked(c) = {}
  BY <1>1 DEF Untaken, Unmarked, Calling
<1>3. Objects = (HeadIndex .. (TailIndex - 1)) \union UNION {Untaken(c) : c \in Consumers}
  BY <1>1, Idle
<1>4. UNION {Untaken(c) : c \in Consumers} = {}
  BY <1>2
<1> QED BY <1>1, <1>2, <1>3, <1>4 DEF IsMarked

\* A block is empty just when HeadIndex is past it.
LEMMA EmptyIs ==
    ASSUME TypeOK, Body, Quiescent, NEW q \in Window
    PROVE  /\ q \in Int /\ Base(q) \in Int /\ Base(q + 1) \in Int
           /\ Base(q + 1) = Base(q) + BlockSize
           /\ IsEmpty(BlockOf(q)) <=> Base(q + 1) <= HeadIndex
<1>1. /\ q \in Int /\ Base(q) \in Int /\ Base(q + 1) \in Int
      /\ Base(q + 1) = Base(q) + BlockSize
  <2>1. q \in Int
    BY ViewTypes DEF Window
  <2> QED BY <2>1, BaseStep, q + 1 \in Int
<1>2. PICK A \in Int, S \in Nat \ {0, 1}, h \in Nat :
          /\ A = Base(q) /\ S = BlockSize /\ h = HeadIndex /\ Base(q + 1) = A + S
          /\ Slots = 0 .. (S - 1)
  BY <1>1, ViewTypes
<1>3. ASSUME h < A + S PROVE ~IsEmpty(BlockOf(q))
  <2>1. S - 1 \in Slots /\ A + (S - 1) >= h /\ A + (S - 1) \in Int
    BY <1>2, <1>3
  <2>2. ~IsMarked(Base(q) + (S - 1))
    BY <1>2, <2>1, QuietObjects
  <2>3. S - 1 \notin flags[BlockOf(q)]
    BY <2>1, <2>2 DEF Body, FlagsOK
  <2> QED BY <2>1, <2>3 DEF IsEmpty
<1>4. h < A + S \/ A + S <= h
  BY <1>2
<1> QED BY <1>1, <1>2, <1>3, <1>4, PassedIsEmpty

\* What Clear finds to be before HeadIndex is.
LEMMA AboveHead ==
    ASSUME TypeOK, Body, Quiescent, NEW q \in Window, NEW i \in Slots
    PROVE  (/\ ~IsEmpty(BlockOf(q))
            /\ BlockOf(q) = HalfDequeued => i >= Off(HeadIndex))
              <=> HeadIndex <= Base(q) + i
<1>1. PICK A \in Int, S \in Nat \ {0, 1}, h \in Nat :
          /\ A = Base(q) /\ S = BlockSize /\ h = HeadIndex /\ Base(q + 1) = A + S
          /\ Slots = 0 .. (S - 1) /\ q \in Int
          /\ IsEmpty(BlockOf(q)) <=> A + S <= h
  BY EmptyIs, ViewTypes
<1>2. i \in Int /\ 0 <= i /\ i <= S - 1
  BY <1>1
<1>3. CASE A + S <= h
  <2>1. ~(h <= A + i)
    BY <1>1, <1>2, <1>3
  <2> QED BY <1>1, <1>3, <2>1
<1>4. CASE ~(A + S <= h)
  <2>1. PICK k \in Int, H \in Int, r \in Nat :
            k = Num(h) /\ H = Base(k) /\ r = Off(h) /\ h = H + r /\ h < H + S
            /\ Base(k + 1) = H + S
    <3>1. Num(h) \in Int /\ Off(h) \in Slots /\ h = Base(Num(h)) + Off(h)
      BY <1>1, h \in Int, DivMod
    <3>2. Base(Num(h)) \in Int /\ h < Base(Num(h) + 1)
          /\ Base(Num(h) + 1) = Base(Num(h)) + BlockSize
      BY <1>1, h \in Int, BlockEnds
    <3>3. Off(h) \in Nat
      BY <1>1, <3>1
    <3> QED BY <1>1, <3>1, <3>2, <3>3
  <2>2. k <= q
    <3>1. h < Base(q + 1)
      BY <1>1, <1>4
    <3> QED BY <1>1, <2>1, <3>1, h \in Int, NumBetween
  <2>3. BlockOf(q) \in Blocks
    BY DEF Body, Index
  <2>4. CASE r = 0
    <3>1. HalfDequeued = NoBlock
      BY <1>1, <2>1, <2>4 DEF HalfDequeued, Off
    <3>2. BlockOf(q) # HalfDequeued
      BY <2>3, <3>1, BlocksAssumption
    <3>3. H <= A
      BY <1>1, <2>1, <2>2, BaseMono
    <3>4. h <= A + i
      BY <1>1, <1>2, <2>1, <2>4, <3>3
    <3> QED BY <1>1, <1>4, <3>2, <3>4
  <2>5. CASE r # 0 /\ k = q
    <3>1. BlockOf(q) = HalfDequeued
      BY <1>1, <2>1, <2>5, QuietObjects, HalfIs
    <3>2. i >= r <=> h <= A + i
      <4>1. H = A
        BY <1>1, <2>1, <2>5
      <4>2. h = A + r
        BY <2>1, <4>1
      <4> QED BY <1>2, <4>2
    <3> QED BY <1>1, <1>4, <2>1, <3>1, <3>2
  <2>6. CASE r # 0 /\ k # q
    <3>1. HalfDequeued = BlockOf(k) /\ k \in Window
      BY <1>1, <2>1, <2>6, QuietObjects, HalfIs
    <3>2. BlockOf(q) # HalfDequeued
      BY <2>6, <3>1 DEF Body, Index
    <3>3. H + S <= A
      <4>1. k + 1 <= q /\ k + 1 \in Int
        <5>1. q \in Int
          BY <1>1
        <5> QED BY <2>2, <2>6, <5>1
      <4>2. Base(k + 1) <= Base(q)
        BY <1>1, <4>1, BaseMono
      <4> QED BY <1>1, <2>1, <4>2
    <3>4. h <= A + i
      <4>1. h < H + S
        BY <2>1
      <4> QED BY <1>2, <3>3, <4>1
    <3> QED BY <1>1, <1>4, <3>2, <3>4
  <2> QED BY <2>4, <2>5, <2>6
<1> QED BY <1>3, <1>4

\* Clear destroys, in the ring, what is from HeadIndex up to TailIndex.
LEMMA ClearAt ==
    ASSUME TypeOK, Body, Quiescent, NEW q \in Window, NEW i \in Slots
    PROVE  /\ Base(q) + i \in Int /\ Num(Base(q) + i) = q /\ Off(Base(q) + i) = i
           /\ <<BlockOf(q), i>> \in ClearDestroys <=> Base(q) + i \in Objects
<1>1. /\ Base(q) + i \in Int /\ Num(Base(q) + i) = q /\ Off(Base(q) + i) = i
      /\ q # Entered - 1 => Base(q) + i < TailIndex
      /\ q = Entered - 1 =>
           (Base(q) + i < TailIndex <=> (Off(TailIndex) # 0 => i < Off(TailIndex)))
  BY QuietObjects, BelowTail
<1>2. BlockOf(q) = TailBlock <=> q = Entered - 1
  <2>1. PICK e \in Nat, o \in Nat : e = Entered /\ o = Oldest /\ Window = o .. (e - 1)
    BY QuietObjects, Idle
  <2>2. e > 0 /\ e - 1 \in Window
    BY <2>1
  <2>3. TailBlock = BlockOf(e - 1)
    BY <2>1, <2>2 DEF Body, InRing
  <2> QED BY <2>1, <2>2, <2>3 DEF Body, Index
<1>3. (BlockOf(q) = TailBlock /\ Off(TailIndex) # 0 => i < Off(TailIndex))
         <=> Base(q) + i < TailIndex
  BY <1>1, <1>2
<1>4. BlockOf(q) \in Ring
  BY RingIs
<1>5. <<BlockOf(q), i>> \in ClearDestroys
         <=> /\ ~IsEmpty(BlockOf(q))
             /\ BlockOf(q) = HalfDequeued => i >= Off(HeadIndex)
             /\ BlockOf(q) = TailBlock /\ Off(TailIndex) # 0 => i < Off(TailIndex)
  BY <1>4 DEF ClearDestroys, Off
<1>6. Base(q) + i \in Objects <=> HeadIndex <= Base(q) + i /\ Base(q) + i < TailIndex
  <2>1. PICK p \in Int, h \in Nat, t \in Nat : p = Base(q) + i /\ h = HeadIndex /\ t = TailIndex
    BY <1>1, ViewTypes
  <2>2. p \in h .. (t - 1) <=> h <= p /\ p < t
    BY <2>1
  <2> QED BY <2>1, <2>2, QuietObjects
<1>7. (/\ ~IsEmpty(BlockOf(q))
       /\ BlockOf(q) = HalfDequeued => i >= Off(HeadIndex))
         <=> HeadIndex <= Base(q) + i
  BY AboveHead
<1> QED BY <1>1, <1>3, <1>5, <1>6, <1>7

\* It destroys the objects there are, and nothing else.
LEMMA ClearIs ==
    ASSUME TypeOK, Body, Quiescent
    PROVE  /\ \A s \in ClearDestroys : slots[s[1]][s[2]] # Raw
           /\ \A b \in Blocks : \A i \in Slots : slots[b][i] # Raw => <<b, i>> \in ClearDestroys
<1>1. ASSUME NEW s \in ClearDestroys PROVE slots[s[1]][s[2]] # Raw
  <2>1. s \in Ring \X Slots
    BY DEF ClearDestroys
  <2>2. PICK q \in Window, i \in Slots : s = <<BlockOf(q), i>>
    <3>1. PICK q \in Window : s[1] = BlockOf(q)
      BY <2>1, RingIs
    <3>2. s = <<s[1], s[2]>> /\ s[2] \in Slots
      BY <2>1
    <3> QED BY <3>1, <3>2
  <2>3. Base(q) + i \in Objects /\ Num(Base(q) + i) = q /\ Off(Base(q) + i) = i
    BY <2>2, ClearAt
  <2>4. slots[BlockOf(q)][i] = Base(q) + i
    BY <2>3 DEF Body, Placed
  <2>5. Base(q) + i \in Nat
    BY <2>3, ObjectsLive DEF Body
  <2>6. slots[BlockOf(q)][i] # Raw
    BY <2>4, <2>5, RawAssumption
  <2> QED BY <2>2, <2>6
<1>2. ASSUME NEW b \in Blocks, NEW i \in Slots, slots[b][i] # Raw
      PROVE  <<b, i>> \in ClearDestroys
  <2>1. PICK p \in Objects : b = BlockOf(Num(p)) /\ i = Off(p)
    BY <1>2 DEF Body, NothingElse
  <2>2. p \in Int /\ Num(p) \in Window
    BY ObjectsLive, LiveType DEF Body
  <2>3. Base(Num(p)) + i = p
    BY <2>1, <2>2, DivMod
  <2> QED BY <2>1, <2>2, <2>3, ClearAt
<1> QED BY <1>1, <1>2

\* The blocks of the ring are those that are not with the manager.
LEMMA RingSupply ==
    ASSUME TypeOK, Body
    PROVE  /\ Ring \intersect (manager \union heap) = {}
           /\ Ring \union manager \union heap = Blocks /\ Ring \subseteq Blocks
<1>1. \A b \in Blocks : b \notin manager \union heap <=> b \in Ring
  BY RingIs DEF Body, Supply
<1>2. Ring \subseteq Blocks
  BY RingIs DEF Body, Index
<1>3. manager \subseteq Blocks /\ heap \subseteq Blocks
  BY DEF TypeOK
<1> QED BY <1>1, <1>2, <1>3

LEMMA StepClear ==
    ASSUME TypeOK, Body, Clear, program' = program
    PROVE  TypeOK' /\ Gone' /\ po'.step = "gone"
<1>1. /\ Quiescent /\ slots' = Destroyed(ClearDestroys) /\ manager' = manager \union Ring
      /\ po' = [step |-> "gone"]
      /\ HeadIndex' = HeadIndex /\ TailIndex' = TailIndex /\ TailBlock' = TailBlock
      /\ next' = next /\ flags' = flags /\ arrays' = arrays
      /\ PO_NextIndexEntry' = PO_NextIndexEntry
      /\ PO_IndexEntriesUsed' = PO_IndexEntriesUsed
      /\ heap' = heap /\ con' = con
  BY DEF Clear, ring, index
<1>2. \A b \in Blocks : \A i \in Slots : slots'[b][i] = Raw
  BY <1>1, ClearIs DEF Destroyed
<1>3. slots' \in [Blocks -> [Slots -> Nat \union {Raw}]]
  BY <1>1 DEF Destroyed, TypeOK
<1>4. manager' \subseteq Blocks /\ manager' \intersect heap' = {} /\ manager' \union heap' = Blocks
  BY <1>1, RingSupply DEF TypeOK
<1>5. po' \in [step : {"idle", "gone"}] /\ po'.step = "gone"
  BY <1>1
<1>6. Cur' = Cur /\ IndexSize' = IndexSize
  BY <1>1 DEF Cur, IndexSize, Current
<1>7. TypeOK'
  BY <1>1, <1>3, <1>4, <1>5, <1>6 DEF TypeOK
<1>8. \A c \in Consumers : con'[c].step = "idle"
  BY <1>1 DEF Quiescent
<1> QED BY <1>2, <1>4, <1>5, <1>7, <1>8 DEF Gone

-----------------------------------------------------------------------------
(* Every step keeps the invariant. *)

LEMMA InitIInv ==
    ASSUME Init, NothingFails(program)
    PROVE  IInv
<1>1. /\ HeadIndex = 0 /\ TailIndex = 0 /\ TailBlock = NoBlock
      /\ next = [b \in Blocks |-> NoBlock] /\ flags = [b \in Blocks |-> {}]
      /\ slots = [b \in Blocks |-> [i \in Slots |-> Raw]]
      /\ PO_NextIndexEntry = 0 /\ PO_IndexEntriesUsed = 0
      /\ program \in Programs /\ manager = program.PoolBlocks
      /\ heap = Blocks \ program.PoolBlocks
      /\ po.step = "idle" /\ po = [step |-> "idle"] /\ con = [c \in Consumers |-> NoCall]
      /\ \A c \in Consumers : con[c].step = "idle"
  BY DEF Init, NoCall
<1>2. PICK junk \in JunkEntries :
          arrays = << [size |-> InitialIndexSize, tail |-> -1,
                       entries |-> [k \in 0 .. (InitialIndexSize - 1) |-> junk]] >>
  BY DEF Init
<1> DEFINE first == [size |-> InitialIndexSize, tail |-> -1,
                     entries |-> [k \in 0 .. (InitialIndexSize - 1) |-> junk]]
<1>3. first \in Arrays
  <2>1. InitialIndexSize \in Nat \ {0} /\ junk \in Entries
    BY SizesAssumption DEF Entries
  <2>2. first \in [size : {InitialIndexSize}, tail : Int,
                   entries : [0 .. (InitialIndexSize - 1) -> Entries]]
    BY <2>1
  <2> HIDE DEF first
  <2> QED BY <2>1, <2>2 DEF Arrays
<1>4. arrays \in Seq(Arrays) /\ Cur = 1 /\ IndexSize = InitialIndexSize
  <2>1. arrays = <<first>> /\ first.size = InitialIndexSize
    BY <1>2
  <2> HIDE DEF first
  <2>2. arrays \in Seq(Arrays) /\ Len(arrays) = 1 /\ arrays[1] = first
    BY <1>3, <2>1
  <2> QED BY <2>1, <2>2 DEF Cur, IndexSize, Current
<1>5. program.PoolBlocks \subseteq Blocks
  BY <1>1, BlocksAssumption
<1>6. TypeOK
  <2>1. PO_NextIndexEntry \in 0 .. (IndexSize - 1) /\ PO_IndexEntriesUsed \in 0 .. IndexSize
    BY <1>1, <1>4, SizesAssumption
  <2>2. po \in [step : {"idle", "gone"}]
    BY <1>1
  <2>3. con \in [Consumers -> {NoCall} \union Lookups]
    BY <1>1
  <2>4. flags \in [Blocks -> SUBSET Slots] /\ slots \in [Blocks -> [Slots -> Nat \union {Raw}]]
    BY <1>1
  <2>5. next \in [Blocks -> MaybeBlock] /\ TailBlock \in MaybeBlock
    BY <1>1 DEF MaybeBlock
  <2>6. manager \subseteq Blocks /\ heap \subseteq Blocks /\ manager \intersect heap = {}
    BY <1>1, <1>5
  <2>7. HeadIndex \in Nat /\ TailIndex \in Nat /\ HeadIndex <= TailIndex /\ Cur >= 1
    BY <1>1, <1>4
  <2> QED BY <1>1, <1>4, <2>1, <2>2, <2>3, <2>4, <2>5, <2>6, <2>7 DEF TypeOK
<1>7. Begun = 0
  <2>1. (0 - 1) \div BlockSize = -1
    BY SizesAssumption
  <2> QED BY <1>1, <2>1 DEF Begun, Num
<1>8. Entered = 0 /\ Oldest = 0 /\ Window = {} /\ ~Shown
  <2>1. Entered = 0
    BY <1>1, <1>7 DEF Entered, BulkSteps
  <2> QED BY <1>1, <2>1 DEF Oldest, Window, Shown
<1>9. Index /\ InRing
  BY <1>1, <1>8 DEF Index, InRing
<1>10. Supply
  BY <1>1, <1>5, <1>8 DEF Supply
<1>11. TailOK
  BY <1>7, <1>8 DEF TailOK
<1>12. LiveInWindow /\ FlagsOK
  BY <1>8 DEF LiveInWindow, FlagsOK, Live
<1>13. Objects = {}
  <2>1. Filled = 0
    BY <1>1 DEF Filled
  <2>2. \A c \in Consumers : Untaken(c) = {}
    BY <1>1 DEF Untaken
  <2> QED BY <1>1, <2>1, <2>2 DEF Objects
<1>14. Placed /\ NothingElse
  BY <1>1, <1>13 DEF Placed, NothingElse
<1>15. ClaimsOK
  BY <1>1 DEF ClaimsOK, Calling, Unmarked
<1>16. \A c \in Consumers : Knows(c)
  BY <1>1 DEF Knows
<1>17. CallOK
  BY <1>1 DEF CallOK, BulkSteps
<1> QED BY <1>1, <1>6, <1>9, <1>10, <1>11, <1>12, <1>14, <1>15, <1>16, <1>17 DEF IInv, Body

\* Clear is the last step.
LEMMA GoneStops ==
    ASSUME Gone, po.step = "gone", Next
    PROVE  FALSE
<1>1. \A c \in Consumers : con[c].step = "idle"
  BY DEF Gone
<1>2. ASSUME ProducerStep PROVE FALSE
  BY <1>2 DEF ProducerStep, EnqueueInner, EnqueueReuse, EnqueueNeedsBlock, EnqueueGrow,
     EnqueueFails, EnqueueFresh, EnqueueIndex, EnqueueConstruct, EnqueueThrows, BulkStart,
     BulkReuse, BulkGrow, BulkFresh, BulkFails, BulkBadAlloc, BulkFill, BulkThrows,
     BulkIndex, BulkTail, NeedsFresh
<1>3. ASSUME NEW c \in Consumers, ConsumerStep(c) PROVE FALSE
  BY <1>1, <1>3 DEF ConsumerStep, LoadArray, LoadIndexTail, Lookup, TakeRun, SetEmpty,
     AssignThrows, DiscardNext
<1>4. ASSUME NEW c \in Consumers, NEW n, Claim(c, n) PROVE FALSE
  BY <1>4 DEF Claim
<1>5. ASSUME Clear PROVE FALSE
  BY <1>5 DEF Clear, Quiescent
<1> QED BY <1>2, <1>3, <1>4, <1>5 DEF Next

LEMMA ProducerIInv ==
    ASSUME TypeOK, Body, ProducerStep, program' = program
    PROVE  TypeOK' /\ Body' /\ po'.step # "gone"
<1>1. CASE EnqueueInner
  BY <1>1, StepEnqueueInner
<1>2. CASE EnqueueReuse
  BY <1>2, StepEnqueueReuse
<1>3. CASE \E mode \in program.Modes : EnqueueNeedsBlock(mode)
  BY <1>3, StepNeedsBlock
<1>4. CASE EnqueueGrow
  BY <1>4, StepEnqueueGrow
<1>5. CASE EnqueueFails
  BY <1>5, StepEnqueueFails
<1>6. CASE EnqueueFresh
  BY <1>6, StepEnqueueFresh
<1>7. CASE EnqueueIndex
  BY <1>7, StepEnqueueIndex
<1>8. CASE EnqueueConstruct
  BY <1>8, StepEnqueueConstruct
<1>9. CASE \E mode \in program.Modes, n \in program.BulkCounts : BulkStart(mode, n)
  BY <1>9, StepBulkStart
<1>10. CASE BulkReuse
  BY <1>10, StepBulkReuse
<1>11. CASE BulkGrow
  BY <1>11, StepBulkGrow
<1>12. CASE BulkFresh
  BY <1>12, StepBulkFresh
<1>13. CASE BulkFill
  BY <1>13, StepBulkFill
<1>14. CASE BulkIndex
  BY <1>14, StepBulkIndex
<1>15. CASE BulkTail
  BY <1>15, StepBulkTail
<1>16. ~EnqueueThrows /\ ~BulkThrows /\ ~BulkFails /\ ~BulkBadAlloc
  BY NoFaults
<1> QED BY <1>1, <1>2, <1>3, <1>4, <1>5, <1>6, <1>7, <1>8, <1>9, <1>10, <1>11, <1>12,
           <1>13, <1>14, <1>15, <1>16 DEF ProducerStep

LEMMA ConsumerIInv ==
    ASSUME TypeOK, Body, po.step # "gone", NEW c \in Consumers, program' = program,
           ConsumerStep(c) \/ \E n \in program.ClaimCounts : Claim(c, n)
    PROVE  TypeOK' /\ Body' /\ po' = po
<1>1. CASE LoadArray(c)
  BY <1>1, StepLoadArray
<1>2. CASE LoadIndexTail(c)
  BY <1>2, StepLoadIndexTail
<1>3. CASE Lookup(c)
  BY <1>3, StepLookup
<1>4. CASE TakeRun(c)
  BY <1>4, StepTakeRun
<1>5. CASE SetEmpty(c)
  BY <1>5, StepSetEmpty
<1>6. ~AssignThrows(c) /\ ~DiscardNext(c)
  BY NoFaults
<1>7. ASSUME NEW n \in program.ClaimCounts, Claim(c, n)
      PROVE  TypeOK' /\ Body' /\ po' = po
  <2>1. n \in Nat \ {0}
    BY SizesAssumption DEF TypeOK
  <2> QED BY <1>7, <2>1, StepClaim
<1> QED BY <1>1, <1>2, <1>3, <1>4, <1>5, <1>6, <1>7 DEF ConsumerStep

LEMMA NextIInv ==
    ASSUME IInv, Next
    PROVE  IInv'
<1>1. program' = program /\ TypeOK
  BY DEF Next, IInv
<1>2. CASE po.step = "gone"
  BY <1>2, GoneStops DEF IInv
<1>3. CASE po.step # "gone"
  <2>1. Body
    BY <1>3 DEF IInv
  <2>2. CASE ProducerStep
    BY <1>1, <2>1, <2>2, ProducerIInv DEF IInv
  <2>3. ASSUME NEW c \in Consumers,
               ConsumerStep(c) \/ \E n \in program.ClaimCounts : Claim(c, n)
        PROVE  IInv'
    <3>1. TypeOK' /\ Body' /\ po' = po
      BY <1>1, <1>3, <2>1, <2>3, ConsumerIInv
    <3> QED BY <1>3, <3>1 DEF IInv
  <2>4. CASE Clear
    BY <1>1, <2>1, <2>4, StepClear DEF IInv
  <2> QED BY <2>2, <2>3, <2>4 DEF Next
<1> QED BY <1>2, <1>3

LEMMA StutterIInv ==
    ASSUME IInv, UNCHANGED vars
    PROVE  IInv'
<1>1. /\ HeadIndex' = HeadIndex /\ TailIndex' = TailIndex /\ TailBlock' = TailBlock
      /\ next' = next /\ flags' = flags /\ slots' = slots /\ arrays' = arrays
      /\ PO_NextIndexEntry' = PO_NextIndexEntry
      /\ PO_IndexEntriesUsed' = PO_IndexEntriesUsed
      /\ manager' = manager /\ heap' = heap /\ po' = po /\ con' = con /\ program' = program
  BY DEF vars, ring, index, supply
<1>2. TypeOK /\ TypeOK'
  <2>1. Cur' = Cur /\ IndexSize' = IndexSize
    BY <1>1 DEF Cur, IndexSize, Current
  <2> QED BY <1>1, <2>1 DEF TypeOK, IInv
<1>3. CASE po.step = "gone"
  <2>1. Gone
    BY <1>3 DEF IInv
  <2>2. Gone'
    BY <1>1, <2>1 DEF Gone
  <2> QED BY <1>1, <1>2, <1>3, <2>2 DEF IInv
<1>4. CASE po.step # "gone"
  <2>1. Body
    BY <1>4 DEF IInv
  <2>2. ConsumerFrame
    BY <1>1 DEF ConsumerFrame, ring, index, supply
  <2>3. /\ SameIndex /\ Index' /\ InRing' /\ Supply' /\ TailOK' /\ CallOK'
        /\ Window' = Window /\ Entered' = Entered /\ Filled' = Filled
    BY <1>2, <2>1, <2>2, ConsumerKeeps
  <2>4. /\ Index /\ CallOK /\ LiveInWindow /\ FlagsOK /\ Placed /\ NothingElse /\ ClaimsOK
        /\ \A c \in Consumers : Knows(c)
    BY <2>1 DEF Body
  <2>5. LiveInWindow'
    BY <1>1, <2>3, <2>4, SameLive DEF LiveInWindow
  <2>6. FlagsOK'
    BY <1>1, <1>2, <2>3, <2>4, FlagsKept
  <2>7. Objects' = Objects
    <3>1. \A c \in Consumers : Untaken(c)' = Untaken(c)
      BY <1>1 DEF Untaken, Run
    <3> QED BY <1>1, <2>3, <3>1 DEF Objects
  <2>8. Placed' /\ NothingElse'
    BY <1>1, <1>2, <2>3, <2>4, <2>7, SlotsKept
  <2>9. ClaimsOK'
    BY <1>1, <2>4, ClaimsKept
  <2>10. \A c \in Consumers : Knows(c)'
    BY <1>1, <1>2, <2>3, <2>4, KnowsKept
  <2>11. Body'
    BY <2>3, <2>5, <2>6, <2>8, <2>9, <2>10 DEF Body
  <2> QED BY <1>1, <1>2, <1>4, <2>11 DEF IInv
<1> QED BY <1>3, <1>4

\* In every execution in which nothing fails the invariant holds throughout.
THEOREM FastQueueInvariance == Spec /\ NothingFails(program) => []IInv
<1>1. Init /\ NothingFails(program) => IInv
  BY InitIInv
<1>2. IInv /\ [Next]_vars => IInv'
  BY NextIInv, StutterIInv
<1> QED BY <1>1, <1>2, PTL DEF Spec

-----------------------------------------------------------------------------
(* What the invariant says. *)

LEMMA InvTakes ==
    ASSUME IInv
    PROVE  TakesOwnItems
<1>1. SUFFICES ASSUME NEW c \in Consumers, con[c].step \in {"take", "discard"}
               PROVE  /\ con[c].block \in Blocks
                      /\ \A i \in Run(c) :
                            slots[con[c].block][i] =
                               con[c].item + (i - (con[c].item % BlockSize))
  BY DEF TakesOwnItems
<1>2. TypeOK /\ Body /\ con[c].step = "take"
  <2>1. TypeOK
    BY DEF IInv
  <2>2. con[c].step = "take"
    BY <1>1, <2>1, ConTypes
  <2>3. po.step # "gone"
    BY <2>2 DEF IInv, Gone
  <2> QED BY <2>1, <2>2, <2>3 DEF IInv
<1>3. PICK q \in Nat, i \in Nat, n \in Nat \ {0}, m \in Nat \ {0}, z \in Nat :
          RunIn(c, q, i, n, m, z)
  BY <1>2, RunOf
<1>4. /\ i = con[c].item /\ m = con[c].need /\ n <= m /\ z = (i + m) - 1
      /\ con[c].block = BlockOf(q) /\ BlockOf(q) \in Blocks /\ q = Num(i)
      /\ Run(c) \subseteq Slots
      /\ \A r \in Run(c) : Base(q) + r \in i .. ((i + n) - 1)
  BY <1>3 DEF RunIn
<1>5. ASSUME NEW r \in Run(c)
      PROVE  slots[con[c].block][r] = con[c].item + (r - Off(con[c].item))
  <2>1. PICK p \in Nat : p = Base(q) + r /\ p \in i .. ((i + m) - 1)
    <3>1. PICK p \in Int : p = Base(q) + r /\ p \in i .. ((i + n) - 1)
      BY <1>4, <1>5
    <3>2. p \in Nat /\ p \in i .. ((i + m) - 1)
      BY <1>4, <3>1
    <3> QED BY <3>1, <3>2
  <2>2. Num(p) = q /\ Off(p) = r
    BY <1>4, <1>5, <2>1, NumOf
  <2>3. p \in Untaken(c)
    <3>1. i + 0 = i
      OBVIOUS
    <3>2. Untaken(c) = i .. ((i + m) - 1)
      BY <1>2, <1>4, <3>1 DEF Untaken
    <3> QED BY <2>1, <3>2
  <2>4. slots[BlockOf(q)][r] = p
    BY <1>2, <2>2, <2>3 DEF Body, Placed, Objects
  <2>5. p = i + (r - Off(i))
    <3>1. i = Base(Num(i)) + Off(i) /\ Off(i) \in Slots
      BY <1>4, DivMod
    <3>2. PICK A \in Int, k \in Int, x \in Int : A = Base(q) /\ k = Off(i) /\ x = r /\ i = A + k
      BY <1>2, <1>4, <1>5, <3>1, ViewTypes, NumOf
    <3> QED BY <2>1, <3>2
  <2> QED BY <1>4, <2>4, <2>5
<1> QED BY <1>4, <1>5 DEF Off

LEMMA InvLive ==
    ASSUME IInv
    PROVE  LiveAreUntaken
<1>1. TypeOK
  BY DEF IInv
<1>2. ASSUME po.step = "idle"
      PROVE  LiveItems = (HeadIndex .. (TailIndex - 1))
                            \union UNION {Untaken(c) : c \in Consumers}
  <2>1. Body /\ Placed /\ NothingElse
    BY <1>2 DEF IInv, Body
  <2>2. Objects = (HeadIndex .. (TailIndex - 1)) \union UNION {Untaken(c) : c \in Consumers}
    BY <1>1, <1>2, <2>1, Idle
  <2>3. ASSUME NEW p \in Objects PROVE p \in LiveItems
    <3>1. p \in Nat /\ Num(p) \in Window
      BY <1>1, <2>1, ObjectsLive, LiveType DEF Body
    <3>2. BlockOf(Num(p)) \in Blocks /\ Off(p) \in Slots
      BY <2>1, <3>1, DivMod DEF Body, Index
    <3>3. slots[BlockOf(Num(p))][Off(p)] = p
      BY <2>1 DEF Placed
    <3>4. <<BlockOf(Num(p)), Off(p)>> \in Blocks \X Slots
      BY <3>2
    <3> QED BY <3>1, <3>3, <3>4, RawAssumption DEF LiveItems
  <2>4. ASSUME NEW x \in LiveItems PROVE x \in Objects
    <3>1. PICK s \in Blocks \X Slots : x = slots[s[1]][s[2]] /\ x # Raw
      BY DEF LiveItems
    <3>2. PICK p \in Objects : s[1] = BlockOf(Num(p)) /\ s[2] = Off(p)
      BY <2>1, <3>1 DEF NothingElse
    <3> QED BY <2>1, <3>1, <3>2 DEF Placed
  <2> QED BY <2>2, <2>3, <2>4
<1>3. ASSUME po.step = "gone" PROVE LiveItems = {}
  BY <1>3 DEF IInv, Gone, LiveItems
<1> QED BY <1>2, <1>3 DEF LiveAreUntaken

LEMMA InvAccounted ==
    ASSUME IInv
    PROVE  NoBlockLeak
<1>1. TypeOK /\ manager \intersect heap = {}
  BY DEF IInv, TypeOK
<1>2. po.step = "gone" => manager \union heap = Blocks
  BY DEF IInv, Gone
<1>3. ASSUME po.step = "idle"
      PROVE  /\ Ring \intersect (manager \union heap) = {}
             /\ Ring \union manager \union heap = Blocks
  <2>1. Body
    BY <1>3 DEF IInv
  <2> QED BY <1>1, <2>1, RingSupply
<1> QED BY <1>1, <1>2, <1>3 DEF NoBlockLeak

LEMMA InvClear ==
    ASSUME IInv
    PROVE  ClearDestroysConstructed
<1>1. ASSUME Quiescent PROVE \A s \in ClearDestroys : slots[s[1]][s[2]] # Raw
  <2>1. TypeOK /\ Body
    BY <1>1 DEF IInv, Quiescent
  <2> QED BY <1>1, <2>1, ClearIs
<1> QED BY <1>1 DEF ClearDestroysConstructed

LEMMA InvDrained ==
    ASSUME IInv
    PROVE  DrainedIsEmpty
<1>1. SUFFICES ASSUME Quiescent, NEW b \in Ring \ {TailBlock},
                      \A i \in Slots : slots[b][i] = Raw
               PROVE  IsEmpty(b)
  BY DEF DrainedIsEmpty
<1>2. TypeOK /\ Body
  BY <1>1 DEF IInv, Quiescent
<1>3. PICK q \in Window : b = BlockOf(q)
  BY <1>1, <1>2, RingIs
<1>4. q # Entered - 1
  <2>1. q = Entered - 1 => Entered > 0
    BY <1>1, <1>2, QuietObjects, Idle
  <2> QED BY <1>1, <1>2, <1>3, <2>1 DEF Body, InRing
<1>5. PICK A \in Int, S \in Nat \ {0, 1}, h \in Nat, t \in Nat :
          /\ A = Base(q) /\ S = BlockSize /\ h = HeadIndex /\ t = TailIndex /\ Base(q + 1) = A + S
          /\ Slots = 0 .. (S - 1) /\ (IsEmpty(b) <=> A + S <= h)
  BY <1>1, <1>2, <1>3, EmptyIs, ViewTypes
<1>6. SUFFICES ASSUME h < A + S PROVE FALSE
  BY <1>5
<1>7. S - 1 \in Slots /\ A + (S - 1) >= h /\ A + (S - 1) \in Int
  BY <1>5, <1>6
<1>8. /\ A + (S - 1) < t /\ Num(A + (S - 1)) = q /\ Off(A + (S - 1)) = S - 1
  BY <1>1, <1>2, <1>4, <1>5, <1>7, QuietObjects, BelowTail
<1>9. A + (S - 1) \in h .. (t - 1) /\ A + (S - 1) \in Nat
  BY <1>7, <1>8
<1>10. A + (S - 1) \in Objects
  BY <1>1, <1>2, <1>5, <1>9, QuietObjects
<1>11. slots[b][S - 1] = A + (S - 1)
  BY <1>2, <1>3, <1>8, <1>10 DEF Body, Placed
<1> QED BY <1>1, <1>7, <1>9, <1>11, RawAssumption

\* What the producer does to the index arrays in one step.
LEMMA ProducerWrites ==
    ASSUME TypeOK, Body, ProducerStep, program' = program
    PROVE  \/ arrays' = arrays
           \/ \E i \in Int : PublishIndexTail(i)
           \/ \E n \in Int : IndexFull /\ Grow(n)
           \/ \E b \in Blocks : Enters(b)
<1>1. CASE \/ EnqueueInner \/ EnqueueFails \/ EnqueueConstruct \/ BulkFill \/ BulkTail
           \/ \E mode \in program.Modes : EnqueueNeedsBlock(mode)
           \/ \E mode \in program.Modes, n \in program.BulkCounts : BulkStart(mode, n)
  BY <1>1 DEF EnqueueInner, EnqueueFails, EnqueueConstruct, BulkFill, BulkTail,
     EnqueueNeedsBlock, BulkStart, index
<1>2. CASE EnqueueReuse
  BY <1>2, StepEnqueueReuse
<1>3. CASE EnqueueFresh
  BY <1>3, StepEnqueueFresh
<1>4. CASE BulkReuse
  BY <1>4, StepBulkReuse
<1>5. CASE BulkFresh
  BY <1>5, StepBulkFresh
<1>6. CASE EnqueueGrow
  <2>1. IndexFull /\ Grow(PO_IndexEntriesUsed)
    BY <1>6 DEF EnqueueGrow
  <2>2. PO_IndexEntriesUsed \in Int
    BY ViewTypes
  <2> QED BY <2>1, <2>2
<1>7. CASE BulkGrow
  <2>1. IndexFull /\ Grow(po.origUsed) /\ po.step \in BulkSteps
    BY <1>7 DEF BulkGrow, NeedsFresh, BulkSteps
  <2>2. po.origUsed \in Int
    BY <2>1, CallTypes DEF BulkCalls
  <2> QED BY <2>1, <2>2
<1>8. CASE EnqueueIndex
  <2>1. PublishIndexTail(PO_NextIndexEntry) /\ PO_NextIndexEntry \in Int
    BY <1>8, ViewTypes DEF EnqueueIndex
  <2> QED BY <2>1
<1>9. CASE BulkIndex
  <2>1. PublishIndexTail(Wrapped(PO_NextIndexEntry - 1))
    BY <1>9 DEF BulkIndex
  <2>2. Wrapped(PO_NextIndexEntry - 1) \in Int
    <3>1. PICK x \in Int, s \in Nat \ {0} : x = PO_NextIndexEntry - 1 /\ s = IndexSize
      BY ViewTypes, CurTypes
    <3>2. x % s \in Int
      BY DivModS
    <3> QED BY <3>1, <3>2 DEF Wrapped
  <2> QED BY <2>1, <2>2
<1>10. ~EnqueueThrows /\ ~BulkThrows /\ ~BulkFails /\ ~BulkBadAlloc
  BY NoFaults
<1> QED BY <1>1, <1>2, <1>3, <1>4, <1>5, <1>6, <1>7, <1>8, <1>9, <1>10 DEF ProducerStep

\* The entries a consumer is about to read in the current index: that of its
\* block, and that of a later block of the ring.
LEMMA ReadsAre ==
    ASSUME TypeOK, Body, NEW c \in Consumers, con[c].step = "lookup", con[c].array = Cur
    PROVE  \E q \in Live, t \in Window : q <= t /\ Reads(c) = {Place(t), Place(q)}
<1>1. Knows(c) /\ Calling(c) /\ Index /\ CallOK /\ ClaimsOK /\ LiveInWindow
  BY DEF Body, Calling
<1>2. PICK i \in Nat : i = con[c].item
  BY <1>1, ConTypes
<1>3. PICK q \in Nat : q = Num(i) /\ q \in Window /\ q \in Live
  <2>1. Num(con[c].item) \in Busy(c) /\ Num(con[c].item) \in Nat
    BY <1>1, FirstBusy
  <2> QED BY <1>1, <1>2, <2>1, BusyLive DEF LiveInWindow
<1>4. i - (i % BlockSize) = Base(q)
  <2>1. i = Base(q) + Off(i) /\ Base(q) \in Int /\ Off(i) \in Int
    <3>1. i \in Int /\ q \in Int
      BY <1>2, <1>3
    <3> QED BY <1>3, <3>1, DivMod, BaseStep, ViewTypes
  <2> QED BY <2>1 DEF Off
<1>5. PICK t \in Window : t >= q /\ con[c].tail = Place(t)
  BY <1>1, <1>2, <1>3 DEF Knows
<1>6. t \in Int
  BY ViewTypes DEF Window
<1>7. Current.entries[Place(t)].base = Base(t) /\ Current = arrays[Cur]
  BY <1>1, CurTypes DEF Index, EntryAt
<1>8. EntryFor(c) = (Place(t) + ((Base(q) - Base(t)) \div BlockSize)) % IndexSize
  BY <1>2, <1>4, <1>5, <1>7 DEF EntryFor, IndexSize
<1>9. EntryFor(c) = (Place(t) + (q - t)) % IndexSize
  BY <1>6, <1>8, BaseOrder, q \in Int
<1>10. EntryFor(c) = Place(q)
  BY <1>6, <1>9, PlaceFrom, q \in Int
<1> QED BY <1>3, <1>5, <1>6, <1>10 DEF Reads

\* A block that enters has an entry that no consumer is about to read.
LEMMA EnterApart ==
    ASSUME TypeOK, Body, NEW b \in Blocks, Enters(b), NEW q \in Live, NEW t \in Window, q <= t
    PROVE  Place(q) # PO_NextIndexEntry /\ Place(t) # PO_NextIndexEntry
<1>1. PICK e, o : e = Entered /\ o = Oldest'
  OBVIOUS
<1>2. /\ e \in Nat /\ o \in Nat /\ Oldest \in Nat /\ o <= e /\ Live \subseteq o .. (e - 1)
      /\ Entered' = e + 1 /\ Place(e) = PO_NextIndexEntry
      /\ Reuses(b) => o = Oldest + 1 /\ Oldest < e
      /\ Links(b) => o = Oldest
  BY <1>1, EnterViews DEF Enters
<1>3. PICK s \in Nat \ {0}, u \in Nat : s = IndexSize /\ u = PO_IndexEntriesUsed /\ u <= s
  BY CurTypes, ViewTypes
<1>4. PICK k \in Nat : k = Oldest /\ e - k = u /\ Window = k .. (e - 1)
  BY <1>1, <1>2, <1>3, EnteredIs DEF Body, Window
<1>5. e - o < s
  <2>1. CASE Reuses(b)
    BY <1>2, <1>3, <1>4, <2>1
  <2>2. CASE Links(b)
    <3>1. u < s
      BY <1>3, <2>2 DEF Links
    <3> QED BY <1>2, <1>3, <1>4, <2>2, <3>1
  <2> QED BY <2>1, <2>2 DEF Enters
<1>6. q \in o .. (e - 1) /\ t \in k .. (e - 1)
  BY <1>2, <1>4
<1>7. /\ q \in Int /\ t \in Int /\ e \in Int
      /\ e - q < s /\ q - e < s /\ q # e /\ e - t < s /\ t - e < s /\ t # e
  BY <1>2, <1>3, <1>5, <1>6
<1> QED BY <1>2, <1>3, <1>7, PlaceInj

\* No step changes an entry that a consumer is about to read.
LEMMA NoRaceStep ==
    ASSUME IInv, Next, NEW c \in Consumers, con[c].step = "lookup", NEW i \in Reads(c)
    PROVE  arrays'[con[c].array].entries[i] = arrays[con[c].array].entries[i]
<1>1. program' = program /\ TypeOK /\ Body
  BY DEF Next, IInv, Gone
<1>2. PICK a \in 1 .. Cur : a = con[c].array
  BY <1>1 DEF Body, Knows
<1>3. ASSUME ~ProducerStep PROVE arrays' = arrays
  BY <1>3 DEF Next, ConsumerStep, LoadArray, LoadIndexTail, Lookup, TakeRun, SetEmpty,
     AssignThrows, DiscardNext, Claim, Clear, index
<1>4. CASE arrays' = arrays
  BY <1>4
<1>5. ASSUME NEW k \in Int, PublishIndexTail(k)
      PROVE  arrays'[a].entries[i] = arrays[a].entries[i]
  BY <1>1, <1>5, PublishEffect
<1>6. ASSUME NEW n \in Int, IndexFull, Grow(n)
      PROVE  arrays'[a].entries[i] = arrays[a].entries[i]
  BY <1>1, <1>6, GrowEffect
<1>7. ASSUME NEW b \in Blocks, Enters(b)
      PROVE  arrays'[a].entries[i] = arrays[a].entries[i]
  <2>1. Base(Entered) \in Int /\ WriteEntry(Base(Entered), b)
    <3>1. Entered \in Int
      BY <1>1, ViewTypes
    <3> QED BY <1>7, <3>1, BaseStep DEF Enters
  <2>2. CASE a # Cur
    <3>1. arrays'[a] = arrays[a]
      BY <1>1, <2>1, <2>2, WriteEffect
    <3> QED BY <3>1
  <2>3. CASE a = Cur
    <3>1. PICK q \in Live, t \in Window : q <= t /\ Reads(c) = {Place(t), Place(q)}
      BY <1>1, <1>2, <2>3, ReadsAre
    <3>2. i # PO_NextIndexEntry
      BY <1>1, <1>7, <3>1, EnterApart
    <3>3. i \in 0 .. (IndexSize - 1)
      <4>1. q \in Int /\ t \in Int
        BY <1>1, LiveType, ViewTypes DEF Body, Window
      <4> QED BY <1>1, <3>1, <4>1, PlaceType
    <3>4. Current'.entries[i] = Current.entries[i]
      BY <1>1, <2>1, <3>2, <3>3, WriteEffect
    <3>5. Current' = arrays'[Cur] /\ Current = arrays[Cur]
      <4>1. Cur' = Cur
        BY <1>1, <2>1, WriteEffect
      <4> QED BY <4>1 DEF Current, Cur
    <3> QED BY <2>3, <3>4, <3>5
  <2> QED BY <2>2, <2>3
<1> QED BY <1>1, <1>2, <1>3, <1>4, <1>5, <1>6, <1>7, ProducerWrites

-----------------------------------------------------------------------------
(* The theorems, of the executions in which no item operation throws and    *)
(* EnqueueBulk has the memory it asks for.                                   *)

\* The types of the state: positions and places in range, blocks, entries and
\* calls of the shapes the code gives them, and no block with the manager twice.
THEOREM FastQueueTypes == Spec /\ NothingFails(program) => []TypeOK
<1>1. IInv => TypeOK
  BY DEF IInv
<1> QED BY <1>1, FastQueueInvariance, PTL

\* A consumer of Dequeue(Bulk) that looked its block up finds in it the very
\* items it claimed, however the producer reused blocks and grew the index.
THEOREM FastQueueTakesOwnItems == Spec /\ NothingFails(program) => []TakesOwnItems
<1>1. IInv => TakesOwnItems
  BY InvTakes
<1> QED BY <1>1, FastQueueInvariance, PTL

\* Between the producer's calls the live objects are the items published and
\* not taken; after Clear there are none.
THEOREM FastQueueLiveAreUntaken == Spec /\ NothingFails(program) => []LiveAreUntaken
<1>1. IInv => LiveAreUntaken
  BY InvLive
<1> QED BY <1>1, FastQueueInvariance, PTL

\* The destructor's Clear destroys objects only, each once.
THEOREM FastQueueClearDestroysObjects == Spec /\ NothingFails(program) => []ClearDestroysObjects
<1>1. IInv => ClearDestroysObjects
  BY InvClear DEF ClearDestroysObjects
<1> QED BY <1>1, FastQueueInvariance, PTL

\* Each block is in the ring, with the manager or not allocated yet, and Clear
\* returns those of the ring.
THEOREM FastQueueBlocksAccounted == Spec /\ NothingFails(program) => []BlocksAccounted
<1>1. IInv => BlocksAccounted
  BY InvAccounted DEF BlocksAccounted
<1> QED BY <1>1, FastQueueInvariance, PTL

\* A ring block, all of whose items were taken, is marked empty, so that the
\* producer will reuse it.
THEOREM FastQueueDrainedIsReusable == Spec /\ NothingFails(program) => []DrainedIsReusable
<1>1. IInv => DrainedIsReusable
  BY InvDrained DEF DrainedIsReusable
<1> QED BY <1>1, FastQueueInvariance, PTL

\* The producer never writes an index entry that a consumer is about to read.
THEOREM FastQueueNoEntryRace == Spec /\ NothingFails(program) => NoEntryRace
<1> DEFINE Apart ==
        \A c \in Consumers :
          con[c].step = "lookup" =>
              LET a == con[c].array
              IN  \A i \in Reads(c) :
                     arrays'[a].entries[i] = arrays[a].entries[i]
<1>1. IInv /\ [Next]_vars => [Apart]_vars
  BY NoRaceStep
<1>2. NoEntryRace <=> [][Apart]_vars
  BY DEF NoEntryRace
<1> HIDE DEF Apart
<1> QED BY <1>1, <1>2, FastQueueInvariance, PTL DEF Spec
=============================================================================
