--------------------------- MODULE SlowQueueProof ---------------------------
(***************************************************************************)
(* What SlowQueueProps states holds for any numbers of consumers and       *)
(* blocks, any sizes of blocks and index arrays, and whatever allocations  *)
(* and constructors fail, where a bad_alloc that leaves a call ends the    *)
(* producer.                                                               *)
(***************************************************************************)
EXTENDS SlowQueueProps, FiniteSetTheorems, SequenceTheorems, TLAPS

-----------------------------------------------------------------------------
(* Positions and blocks: block number q holds the positions from Base(q) on. *)

Num(p) == p \div BlockSize
Base(q) == q * BlockSize
Off(p) == p % BlockSize

LEMMA DivMod ==
    ASSUME NEW p \in Int
    PROVE  /\ Num(p) \in Int /\ Off(p) \in Slots
           /\ p = Base(Num(p)) + Off(p)
BY SizesAssumption DEF Num, Base, Off, Slots

LEMMA NumOf ==
    ASSUME NEW q \in Int, NEW r \in Slots
    PROVE  /\ Base(q) \in Int
           /\ Num(Base(q) + r) = q
           /\ Off(Base(q) + r) = r
BY SizesAssumption DEF Num, Base, Off, Slots

LEMMA NumBetween ==
    ASSUME NEW p \in Int, NEW q \in Int
    PROVE  /\ Base(q) <= p <=> q <= Num(p)
           /\ p < Base(q + 1) <=> Num(p) <= q
BY SizesAssumption DEF Num, Base

LEMMA BaseStep ==
    ASSUME NEW q \in Int
    PROVE  /\ Base(q) \in Int /\ Base(q + 1) = Base(q) + BlockSize
           /\ Num(Base(q)) = q /\ Off(Base(q)) = 0
           /\ Base(q) # InvalidBase
<1>1. 0 \in Slots
  BY SizesAssumption DEF Slots
<1>2. Base(q) \in Int /\ Base(q) + 0 = Base(q)
  BY SizesAssumption DEF Base
<1>3. Num(Base(q)) = q /\ Off(Base(q)) = 0
  BY <1>1, <1>2, NumOf
<1>4. Base(q + 1) = Base(q) + BlockSize
  BY SizesAssumption DEF Base
<1>5. Off(1) = 1
  BY SizesAssumption DEF Off
<1> QED BY <1>2, <1>3, <1>4, <1>5 DEF InvalidBase

LEMMA BaseOrder ==
    ASSUME NEW q \in Int, NEW r \in Int
    PROVE  /\ q < r <=> Base(q) < Base(r)
           /\ q = r <=> Base(q) = Base(r)
           /\ (Base(q) - Base(r)) \div BlockSize = q - r
<1>1. Base(q) \in Int /\ Base(r) \in Int /\ Num(Base(q)) = q /\ Num(Base(r)) = r
  BY BaseStep
<1>2. Base(q) - Base(r) = Base(q - r)
  BY SizesAssumption DEF Base
<1>3. Num(Base(q - r)) = q - r
  BY BaseStep
<1>4. Base(q) <= Base(r) <=> q <= r
  BY <1>1, NumBetween
<1> QED BY <1>1, <1>2, <1>3, <1>4 DEF Num

\* The next position.
LEMMA NumNext ==
    ASSUME NEW p \in Int
    PROVE  /\ Off(p) = 0 => Num(p - 1) = Num(p) - 1
           /\ Off(p) # 0 => Num(p - 1) = Num(p) /\ Off(p - 1) = Off(p) - 1
<1> DEFINE q == Num(p)
           r == Off(p)
<1>1. q \in Int /\ r \in Slots /\ p = Base(q) + r /\ BlockSize \in Nat \ {0, 1}
  BY DivMod, SizesAssumption
<1>2. Base(q) \in Int /\ Base(q - 1) \in Int /\ Base(q) = Base(q - 1) + BlockSize
  <2>1. q - 1 \in Int /\ (q - 1) + 1 = q
    BY <1>1
  <2> HIDE DEF q
  <2> QED BY <2>1, <1>1, BaseStep
<1>3. CASE r = 0
  <2>1. p - 1 = Base(q - 1) + (BlockSize - 1) /\ BlockSize - 1 \in Slots
    BY <1>1, <1>2, <1>3 DEF Slots
  <2> QED BY <1>1, <1>3, <2>1, NumOf, q - 1 \in Int
<1>4. CASE r # 0
  <2>1. p - 1 = Base(q) + (r - 1) /\ r - 1 \in Slots
    BY <1>1, <1>2, <1>4 DEF Slots
  <2> QED BY <1>1, <1>4, <2>1, NumOf
<1> QED BY <1>3, <1>4

LEMMA NumOrder ==
    ASSUME NEW p \in Int, NEW r \in Int, p <= r
    PROVE  Num(p) <= Num(r)
<1>1. Num(p) \in Int /\ Num(r) \in Int
  BY DivMod
<1>2. Base(Num(p)) <= p /\ Base(Num(p)) \in Int
  BY <1>1, NumBetween, BaseStep
<1> QED BY <1>1, <1>2, NumBetween

\* Two positions of one block.
LEMMA SamePlace ==
    ASSUME NEW p \in Int, NEW r \in Int, Num(p) = Num(r), Off(p) = Off(r)
    PROVE  p = r
BY DivMod

LEMMA BaseOfIs ==
    ASSUME NEW p \in Int
    PROVE  BaseOf(p) = Base(Num(p))
<1>1. Num(p) \in Int /\ p = Base(Num(p)) + Off(p) /\ Off(p) \in Int
  BY DivMod DEF Slots
<1>2. Base(Num(p)) \in Int
  BY <1>1, BaseStep
<1> QED BY <1>1, <1>2 DEF BaseOf, Off

-----------------------------------------------------------------------------
(* Remainders. *)

LEMMA DivModS ==
    ASSUME NEW s \in Nat \ {0}, NEW x \in Int
    PROVE  /\ x \div s \in Int /\ x % s \in 0 .. (s - 1)
           /\ x = (x \div s) * s + (x % s)
OBVIOUS

LEMMA ModUnique ==
    ASSUME NEW s \in Nat \ {0}, NEW m \in Int, NEW r \in 0 .. (s - 1)
    PROVE  (m * s + r) % s = r
OBVIOUS

LEMMA ModShift ==
    ASSUME NEW s \in Nat \ {0}, NEW x \in Int, NEW m \in Int
    PROVE  (x + m * s) % s = x % s
<1>1. PICK a \in Int, r \in 0 .. (s - 1) : x = a * s + r /\ r = x % s
  BY DivModS
<1>2. x + m * s = (a + m) * s + r /\ a + m \in Int
  BY <1>1
<1>3. ((a + m) * s + r) % s = r
  BY <1>2, ModUnique
<1> QED BY <1>1, <1>2, <1>3

LEMMA ModPlus ==
    ASSUME NEW s \in Nat \ {0}, NEW x \in Int, NEW y \in Int
    PROVE  (x % s) + y \in Int /\ ((x % s) + y) % s = (x + y) % s
<1>1. PICK a \in Int, r \in 0 .. (s - 1) : x = a * s + r /\ r = x % s
  BY DivModS
<1>2. x + y = (r + y) + a * s /\ r + y \in Int
  BY <1>1
<1>3. ((r + y) + a * s) % s = (r + y) % s
  BY <1>2, ModShift
<1> QED BY <1>1, <1>2, <1>3

LEMMA ModSame ==
    ASSUME NEW s \in Nat \ {0}, NEW x \in Int, NEW y \in Int, x % s = y % s
    PROVE  \E m \in Int : y = x + m * s
<1>1. PICK a \in Int, r \in 0 .. (s - 1) : x = a * s + r /\ r = x % s
  BY DivModS
<1>2. PICK b \in Int, t \in 0 .. (s - 1) : y = b * s + t /\ t = y % s
  BY DivModS
<1>3. y = x + (b - a) * s
  BY <1>1, <1>2
<1> QED BY <1>3

LEMMA ModSmall ==
    ASSUME NEW s \in Nat \ {0}, NEW x \in 0 .. (s - 1)
    PROVE  x % s = x
OBVIOUS

\* A remainder of the double.
LEMMA ModDouble ==
    ASSUME NEW s \in Nat \ {0}, NEW x \in Int
    PROVE  (x % (2 * s)) % s = x % s
<1>1. PICK a \in Int, r \in 0 .. (2 * s - 1) : x = a * (2 * s) + r /\ r = x % (2 * s)
  BY DivModS, 2 * s \in Nat \ {0}
<1>2. x = r + (2 * a) * s /\ r \in Int /\ 2 * a \in Int
  BY <1>1
<1>3. (r + (2 * a) * s) % s = r % s
  BY <1>2, ModShift
<1> QED BY <1>1, <1>2, <1>3

-----------------------------------------------------------------------------
(* Types. *)

CallSteps == {"insert", "show", "block", "link", "fill", "publish", "rollBack"}
ConSteps  == {"key", "take", "setEmpty", "clear"}
EntryRecs == [key : Int, value : Blocks \union {NoBlock}]
Indices   == UNION {[0 .. (n - 1) -> Nat] : n \in Nat}
ArrayRecs == [size : Nat \ {0}, tail : Nat, at : Indices]
Calls == [step : CallSteps, bulk : BOOLEAN, mode : Modes, n : Nat, need : Nat, base : Int,
          old : Blocks \union {NoBlock}, block : Blocks \union {NoBlock}, taken : Seq(Blocks)]
Lookups == [step : {"array"}, item : Nat, need : Nat]
              \union [step : {"tail"}, item : Nat, need : Nat, array : Nat]
              \union [step : ConSteps, item : Nat, need : Nat, array : Nat, place : Int]
              \union [step : {"return"}, item : Nat, need : Nat, array : Nat, place : Int,
                      block : Blocks]

Cur == Len(arrays)

IndexOK ==
    /\ entries \in Seq(EntryRecs)
    /\ arrays \in Seq(ArrayRecs)
    /\ Cur >= 1
    /\ \A i \in 1 .. Cur :
          /\ arrays[i].tail \in 0 .. (arrays[i].size - 1)
          /\ arrays[i].at \in [0 .. (arrays[i].size - 1) -> 1 .. Len(entries)]

TypeOK ==
    /\ HeadIndex \in Nat /\ TailIndex \in Nat /\ HeadIndex <= TailIndex
    /\ TailBlock \in Blocks \union {NoBlock}
    /\ emptied \in [Blocks -> Nat]
    /\ slots \in [Blocks -> [Slots -> Nat \union {Raw}]]
    /\ IndexOK
    /\ manager \subseteq Blocks /\ heap \subseteq Blocks
    /\ po \in [step : {"idle", "stopped", "gone"}] \union Calls
    /\ con \in [Consumers -> {NoCall} \union Lookups]

-----------------------------------------------------------------------------
(* Views of the state. *)

\* What the producer's call in progress has done.
InCall == po.step \in {"insert", "show", "block", "link", "fill", "publish"}
Taking == po.step \in {"insert", "show", "block", "link"}

\* The blocks that positions were published in, and those entered in the index.
Begun  == Num(TailIndex - 1) + 1
Linked == Begun + (IF InCall THEN Len(po.taken) ELSE 0)

Key(e)   == entries[e].key
Value(e) == entries[e].value

\* An array is round, so each has a place for every block number: off[i] is the
\* number whose place is the front of array i.
Place(off, i, q)   == (q - off[i]) % arrays[i].size
EntryOf(off, i, q) == arrays[i].at[Place(off, i, q)]
BlockOf(off, q)    == Value(EntryOf(off, Cur, q))
KeyOf(off, q)      == Key(EntryOf(off, Cur, q))

Calling(c) == con[c].step # "idle"

\* How many of the positions of c's run it will have marked empty.
RunSize(c) ==
    IF Off(con[c].item) + con[c].need < BlockSize
    THEN con[c].need ELSE BlockSize - Off(con[c].item)

\* The positions a consumer claimed and did not mark yet, and the blocks it has
\* not done with.
Unmarked(c) ==
    IF Calling(c)
    THEN (con[c].item + (IF con[c].step \in {"clear", "return"} THEN RunSize(c) ELSE 0))
            .. (con[c].item + con[c].need - 1)
    ELSE {}
Busy(c) ==
    IF Calling(c)
    THEN (Num(con[c].item) + (IF con[c].step = "return" THEN 1 ELSE 0))
            .. Num(con[c].item + con[c].need - 1)
    ELSE {}

\* The blocks whose entries are in use.
Live == {q \in 0 .. (Linked - 1) :
            HeadIndex < Base(q + 1) \/ \E c \in Consumers : q \in Busy(c)}

\* The positions of block q that were marked empty.
Marked(q) == {p \in Base(q) .. (Base(q + 1) - 1) :
                 p < HeadIndex /\ \A c \in Consumers : p \notin Unmarked(c)}

\* The positions that hold objects.
Filled  == TailIndex + (IF po.step = "publish" THEN po.n ELSE 0)
Objects == (HeadIndex .. (Filled - 1)) \union UNION {Untaken(c) : c \in Consumers}

\* The blocks the producer holds apart from the index.
Held == IF po.step = "link" THEN {po.block}
        ELSE IF po.step = "rollBack" THEN {po.taken[k] : k \in DOMAIN po.taken} ELSE {}

-----------------------------------------------------------------------------
(* The inductive invariant.  off is as above, nq the number of the next block *)
(* to enter in the index.                                                     *)

OffsetsOK(off, nq) ==
    /\ off \in [1 .. Cur -> Int]
    /\ nq \in Int /\ nq >= Begun
    /\ Current.tail = Place(off, Cur, nq - 1)
    /\ po.step = "idle" => nq = Begun
    /\ po.step \in {"insert", "show"} => nq = Linked /\ po.base = Base(nq)
    /\ po.step \in {"block", "link"} => nq = Linked + 1 /\ po.base = Base(nq - 1)
    /\ po.step \in {"fill", "publish"} => nq = Linked
    /\ po.step = "rollBack" => nq = Begun + Len(po.taken) - po.need + 1

\* The key at a place is that of a block whose place it is, in every array.
Aligned(off) ==
    \A i \in 1 .. Cur : \A k \in 0 .. (arrays[i].size - 1) :
        Key(arrays[i].at[k]) # InvalidBase =>
            \E q \in Nat : Key(arrays[i].at[k]) = Base(q) /\ Place(off, i, q) = k

\* Arrays that share an entry have it at the places of the same blocks.
Agree(off) ==
    \A i \in 1 .. Cur : \A k \in 0 .. (arrays[i].size - 1) : \A q \in Int :
        arrays[i].at[k] = EntryOf(off, Cur, q) => k = Place(off, i, q)

\* A live block has its entry in the current array, no more than the size of it
\* before the next one, and the entries between were used.
Listed(off, nq) ==
    \A q \in Live :
        /\ KeyOf(off, q) = Base(q)
        /\ BlockOf(off, q) \in Blocks
        /\ nq - Current.size <= q
        /\ \A r \in q .. (nq - 1) : KeyOf(off, r) # InvalidBase

\* The keys before the next are those of the last round, or, where a call was
\* rolled back, of the next; those are the oldest.
Window(off, nq) ==
    \A r \in (nq - Current.size) .. (nq - 1) :
        \/ KeyOf(off, r) \in {InvalidBase, Base(r)}
        \/ \A x \in (nq - Current.size) .. r : KeyOf(off, x) = Base(x + Current.size)

\* An entry that has a block is that of a live one, or of one that a call which
\* gives up is going to clear.
Leaving == IF po.step = "rollBack"
           THEN {Begun + k - 1 : k \in po.need .. Len(po.taken)} ELSE {}
Occupied(off) ==
    po.step # "stopped" =>
        \A q \in Int : BlockOf(off, q) # NoBlock =>
            \E r \in Live \union Leaving : EntryOf(off, Cur, q) = EntryOf(off, Cur, r)

\* The entries the producer's call is working on.
Underway(off, nq) ==
    /\ po.step = "show" => KeyOf(off, nq) = Base(nq)
    /\ po.step \in {"block", "link"} => KeyOf(off, nq - 1) = Base(nq - 1)
    /\ po.step = "rollBack" =>
          \A k \in DOMAIN po.taken : KeyOf(off, Begun + k - 1) = Base(Begun + k - 1)

\* What the producer's call knows.
CallOK(off) ==
    /\ InCall \/ po.step = "rollBack" =>
          /\ po.n >= 1
          /\ Off(TailIndex) # 0 => po.old = BlockOf(off, Begun - 1)
    /\ InCall =>
          /\ Linked + po.need = Num(TailIndex + po.n - 1) + 1
          /\ IF Taking THEN po.need >= 1 ELSE po.need = 0
          /\ TailBlock = IF po.taken = <<>> THEN po.old ELSE po.taken[Len(po.taken)]
          /\ ~po.bulk => po.n = 1 /\ Off(TailIndex) = 0 /\ po.step # "fill"
          /\ \A k \in DOMAIN po.taken : po.taken[k] = BlockOf(off, Begun + k - 1)
    /\ po.step = "rollBack" => po.need \in 1 .. (Len(po.taken) + 1)
    /\ po.step = "link" => po.block \in Blocks
    /\ po.step = "idle" /\ Off(TailIndex) # 0 => TailBlock = BlockOf(off, Begun - 1)

\* No block has two uses.
Apart(off) ==
    /\ \A q, r \in Live : BlockOf(off, q) = BlockOf(off, r) => q = r
    /\ \A q \in Live : BlockOf(off, q) \notin manager \union heap \union InHand \union Held
    /\ manager \intersect heap = {}
    /\ (InHand \union Held) \intersect (manager \union heap) = {}
    /\ InHand \intersect Held = {}
    /\ \A c, d \in Consumers :
          con[c].step = "return" /\ con[d].step = "return" /\ con[c].block = con[d].block => c = d

\* Every block has one.
AllThere(off) ==
    po.step # "stopped" =>
        \A b \in Blocks : b \in manager \union heap \union InHand \union Held
                             \/ \E q \in Live : b = BlockOf(off, q)

\* The claims of consumers are apart, and of claimed positions only.
ClaimsOK ==
    \A c \in Consumers : Calling(c) =>
        /\ con[c].need >= 1 /\ con[c].item + con[c].need <= HeadIndex
        /\ \A d \in Consumers \ {c} : Calling(d) =>
              \/ con[d].item + con[d].need <= con[c].item
              \/ con[c].item + con[c].need <= con[d].item

\* A consumer's array has the entries of its blocks, and what it read leads there.
Knows(off, c) ==
    /\ con[c].step \notin {"idle", "array"} =>
          /\ con[c].array \in 1 .. Cur
          /\ \A q \in Busy(c) : EntryOf(off, con[c].array, q) = EntryOf(off, Cur, q)
    /\ con[c].step = "tail" =>
          Key(arrays[con[c].array].at[arrays[con[c].array].tail]) # InvalidBase
    /\ con[c].step = "key" =>
          /\ con[c].place \in 0 .. (arrays[con[c].array].size - 1)
          /\ Key(arrays[con[c].array].at[con[c].place]) # InvalidBase
    /\ con[c].step \in {"take", "setEmpty", "clear", "return"} =>
          con[c].place = Place(off, con[c].array, Num(con[c].item))

\* The consumer that marked the last slots of a block has it for itself.
LastOut ==
    \A c \in Consumers : con[c].step = "clear" =>
        /\ Base(Num(con[c].item) + 1) <= HeadIndex
        /\ \A d \in Consumers \ {c} : Num(con[c].item) \notin Busy(d)

\* The count of a block is of the positions marked.
Counts(off) ==
    /\ \A q \in Live : emptied[BlockOf(off, q)] = Cardinality(Marked(q))
    /\ po.step = "link" => emptied[po.block] = 0

\* Each object is in its slot, and nothing is in any other.
Placed(off) ==
    \A p \in Objects : slots[BlockOf(off, Num(p))][Off(p)] = p
NothingElse(off) ==
    \A b \in Blocks, i \in Slots :
        slots[b][i] # Raw =>
            /\ slots[b][i] \in Objects
            /\ b = BlockOf(off, Num(slots[b][i])) /\ i = Off(slots[b][i])

Index(off, nq) ==
    OffsetsOK(off, nq) /\ Aligned(off) /\ Agree(off) /\ Listed(off, nq) /\ Underway(off, nq)
    /\ Window(off, nq)
Consumption(off) ==
    ClaimsOK /\ LastOut /\ \A c \in Consumers : Knows(off, c)
Body(off, nq) ==
    /\ Index(off, nq) /\ CallOK(off) /\ Consumption(off)
    /\ Apart(off) /\ AllThere(off) /\ Occupied(off)
    /\ Counts(off) /\ Placed(off) /\ NothingElse(off)

\* After Clear.
Gone ==
    /\ \A c \in Consumers : con[c].step = "idle"
    /\ LiveItems = {} /\ ReturnsAll

IInv == /\ TypeOK
        /\ po.step = "gone" => Gone
        /\ po.step # "gone" => \E off, nq : Body(off, nq)

LEMMA BlockEnds ==
    ASSUME NEW p \in Int
    PROVE  /\ Num(p) \in Int /\ Base(Num(p)) \in Int /\ Base(Num(p) + 1) \in Int
           /\ Base(Num(p)) <= p /\ p < Base(Num(p) + 1)
           /\ Base(Num(p) + 1) = Base(Num(p)) + BlockSize
<1>1. Num(p) \in Int
  BY DivMod
<1>2. Num(p) + 1 \in Int
  BY <1>1
<1>3. Base(Num(p)) \in Int /\ Base(Num(p) + 1) = Base(Num(p)) + BlockSize
  BY <1>1, BaseStep
<1>4. Base(Num(p) + 1) \in Int
  BY <1>2, BaseStep
<1>5. (Base(Num(p)) <= p <=> Num(p) <= Num(p)) /\ (p < Base(Num(p) + 1) <=> Num(p) <= Num(p))
  BY <1>1, NumBetween
<1> QED BY <1>1, <1>3, <1>4, <1>5

LEMMA BaseMono ==
    ASSUME NEW q \in Int, NEW r \in Int, q <= r
    PROVE  Base(q) <= Base(r) /\ Base(q) \in Int /\ Base(r) \in Int
<1>1. Base(q) \in Int /\ Base(r) \in Int
  BY BaseStep
<1>2. (q < r <=> Base(q) < Base(r)) /\ (q = r <=> Base(q) = Base(r))
  BY BaseOrder
<1> QED BY <1>1, <1>2

-----------------------------------------------------------------------------
(* Lemmas about the views. *)

LEMMA ConTypes ==
    ASSUME TypeOK, NEW c \in Consumers
    PROVE  /\ Calling(c) => /\ con[c].item \in Nat /\ con[c].need \in Nat
                            /\ con[c].step \in {"array", "tail", "return"} \union ConSteps
           /\ con[c].step \in {"tail", "return"} \union ConSteps => con[c].array \in Nat
           /\ con[c].step \in {"return"} \union ConSteps => con[c].place \in Int
           /\ con[c].step = "return" => con[c].block \in Blocks
           /\ ~Calling(c) => con[c] = NoCall
BY DEF TypeOK, Calling, Lookups, NoCall, ConSteps

\* A call of the producer is a record of all its locals.
LEMMA CallTypes ==
    ASSUME TypeOK, po.step \in CallSteps
    PROVE  po \in Calls
BY DEF TypeOK, CallSteps

LEMMA InCallTypes ==
    ASSUME TypeOK, InCall \/ po.step = "rollBack"
    PROVE  /\ po \in Calls
           /\ po.n \in Nat /\ po.need \in Nat /\ po.base \in Int /\ po.bulk \in BOOLEAN
           /\ po.old \in Blocks \union {NoBlock} /\ po.block \in Blocks \union {NoBlock}
           /\ po.taken \in Seq(Blocks) /\ po.mode \in Modes
<1>1. po \in Calls
  BY CallTypes DEF InCall, CallSteps
<1> QED BY <1>1 DEF Calls

LEMMA BegunIs ==
    ASSUME TypeOK
    PROVE  /\ Begun \in Nat /\ TailIndex <= Base(Begun) /\ Base(Begun) \in Int
           /\ Begun # 0 => Base(Begun - 1) < TailIndex
           /\ Off(TailIndex) = 0 => Num(TailIndex) = Begun /\ TailIndex = Base(Begun)
           /\ Off(TailIndex) # 0 => /\ Num(TailIndex) = Begun - 1 /\ Begun # 0
                                    /\ TailIndex < Base(Begun)
           /\ Num(TailIndex) \in Nat
<1>1. TailIndex \in Int /\ TailIndex - 1 \in Int /\ TailIndex >= 0 /\ -1 \in Int /\ 0 \in Int
  BY DEF TypeOK
<1>2. Num(TailIndex) \in Int /\ Num(TailIndex - 1) \in Int
  BY <1>1, DivMod
<1>3. Num(-1) = -1 /\ Num(0) = 0
  <2>1. Num(0) = 0 /\ Off(0) = 0
    BY SizesAssumption DEF Num, Off
  <2>2. Num(0 - 1) = Num(0) - 1
    BY <2>1, NumNext, 0 \in Int
  <2> QED BY <2>1, <2>2
<1>4. Begun \in Nat /\ Num(TailIndex) \in Nat
  <2>1. Num(-1) <= Num(TailIndex - 1) /\ Num(0) <= Num(TailIndex)
    BY <1>1, NumOrder
  <2> QED BY <2>1, <1>2, <1>3 DEF Begun
<1>5. TailIndex - 1 < Base(Begun) /\ Base(Begun) \in Int
  <2>1. TailIndex - 1 < Base(Num(TailIndex - 1) + 1) <=> Num(TailIndex - 1) <= Num(TailIndex - 1)
    BY <1>1, <1>2, NumBetween
  <2>2. Begun \in Int
    BY <1>4
  <2>3. Base(Begun) \in Int
    BY <2>2, BaseStep
  <2> QED BY <2>1, <2>3, <1>2 DEF Begun
<1>6. Begun # 0 => Base(Begun - 1) <= TailIndex - 1 /\ Base(Begun - 1) \in Int
  <2>1. Begun - 1 = Num(TailIndex - 1)
    BY <1>2 DEF Begun
  <2>2. Base(Num(TailIndex - 1)) <= TailIndex - 1 /\ Base(Num(TailIndex - 1)) \in Int
    BY <1>1, <1>2, NumBetween, BaseStep
  <2> QED BY <2>1, <2>2
<1>7. Off(TailIndex) = 0 => Num(TailIndex) = Begun
  BY <1>1, <1>2, NumNext DEF Begun
<1>8. Off(TailIndex) # 0 => Num(TailIndex) = Begun - 1
  BY <1>1, <1>2, NumNext DEF Begun
<1>9. Off(TailIndex) = 0 => TailIndex = Base(Begun)
  <2>1. TailIndex = Base(Num(TailIndex)) + Off(TailIndex)
    BY <1>1, DivMod
  <2> QED BY <2>1, <1>1, <1>7, <1>5
<1>10. Off(TailIndex) # 0 => TailIndex < Base(Begun)
  <2>1. Base((Begun - 1) + 1) = Base(Begun)
    BY <1>4
  <2>2. TailIndex < Base((Begun - 1) + 1) <=> Num(TailIndex) <= Begun - 1
    BY <1>1, <1>4, NumBetween
  <2> QED BY <2>1, <2>2, <1>8, <1>4
<1>11. Off(TailIndex) # 0 => Begun # 0
  BY <1>8, <1>4
<1> QED BY <1>1, <1>4, <1>5, <1>6, <1>7, <1>8, <1>9, <1>10, <1>11

LEMMA LinkedType ==
    ASSUME TypeOK
    PROVE  Linked \in Nat /\ Begun <= Linked /\ (~InCall => Linked = Begun)
           /\ (InCall => Linked = Begun + Len(po.taken) /\ Len(po.taken) \in Nat)
<1>1. Begun \in Nat
  BY BegunIs
<1>2. InCall => Len(po.taken) \in Nat
  BY InCallTypes
<1> QED BY <1>1, <1>2 DEF Linked

\* The run of a consumer ends with its claim or with the block.
LEMMA RunIs ==
    ASSUME TypeOK, NEW c \in Consumers, Calling(c), con[c].need >= 1
    PROVE  LET i == con[c].item
               n == RunSize(c)
           IN  /\ n \in 1 .. con[c].need /\ i \in Nat /\ con[c].need \in Nat
               /\ Run(c) = Off(i) .. (Off(i) + n - 1) /\ Run(c) \subseteq Slots
               /\ Cardinality(Run(c)) = n
               /\ \A p \in i .. (i + n - 1) :
                     Num(p) = Num(i) /\ Off(p) = Off(i) + (p - i) /\ Off(p) \in Run(c)
               /\ \A r \in Run(c) : /\ Base(Num(i)) + r \in i .. (i + n - 1)
                                    /\ Num(Base(Num(i)) + r) = Num(i)
                                    /\ Off(Base(Num(i)) + r) = r
               /\ n < con[c].need => Off(i + n) = 0 /\ Num(i + n) = Num(i) + 1
               /\ Num(i) \in Nat
<1> DEFINE i == con[c].item
           m == con[c].need
           n == RunSize(c)
           q == Num(i)
<1>1. i \in Nat /\ m \in Nat /\ m >= 1 /\ BlockSize \in Nat \ {0, 1}
  BY ConTypes, SizesAssumption
<1>2. q \in Int /\ Off(i) \in Slots /\ i = Base(q) + Off(i) /\ Base(q) \in Int
      /\ Base(q + 1) = Base(q) + BlockSize
  BY <1>1, DivMod, BaseStep
<1>3. q \in Nat
  <2>1. Num(0) = 0
    BY SizesAssumption DEF Num
  <2> QED BY <2>1, <1>1, <1>2, NumOrder, 0 \in Int
<1>4. Off(i) \in 0 .. (BlockSize - 1)
  BY <1>2 DEF Slots
<1>5. n = IF Off(i) + m < BlockSize THEN m ELSE BlockSize - Off(i)
  BY DEF RunSize
<1>6. n \in 1 .. m /\ Off(i) + n <= BlockSize /\ n \in Nat
  BY <1>1, <1>4, <1>5
<1>7. Run(c) = Off(i) .. (Off(i) + n - 1)
  <2>1. Run(c) = Off(i) .. ((IF Off(i) + m < BlockSize THEN Off(i) + m ELSE BlockSize) - 1)
    BY DEF Run, Off
  <2>2. (IF Off(i) + m < BlockSize THEN Off(i) + m ELSE BlockSize) - 1 = Off(i) + n - 1
    BY <1>1, <1>4, <1>5
  <2> QED BY <2>1, <2>2
<1>8. Run(c) \subseteq Slots
  BY <1>7, <1>6, <1>4, <1>1 DEF Slots
<1>9. Cardinality(Run(c)) = n
  <2>1. Off(i) \in Int /\ Off(i) + n - 1 \in Int /\ ~(Off(i) > Off(i) + n - 1)
        /\ (Off(i) + n - 1) - Off(i) + 1 = n
    BY <1>4, <1>6
  <2> QED BY <2>1, <1>7, FS_Interval
<1>10. ASSUME NEW p \in i .. (i + n - 1)
       PROVE  Num(p) = Num(i) /\ Off(p) = Off(i) + (p - i) /\ Off(p) \in Run(c)
  <2> HIDE DEF i, n, q
  <2>2. p \in Int /\ i <= p /\ p <= i + n - 1
    BY <1>1, <1>6
  <2>3. Off(i) + (p - i) \in Off(i) .. (Off(i) + n - 1)
    BY <1>1, <1>4, <1>6, <2>2
  <2>1. Off(i) + (p - i) \in Slots /\ p = Base(q) + (Off(i) + (p - i)) /\ p \in Int
        /\ Off(i) + (p - i) \in Run(c)
    BY <2>2, <2>3, <1>1, <1>2, <1>4, <1>7, <1>8, SMTT(30)
  <2> QED BY <2>1, <1>2, NumOf
<1>11. ASSUME NEW r \in Run(c)
       PROVE  /\ Base(Num(i)) + r \in i .. (i + n - 1)
              /\ Num(Base(Num(i)) + r) = Num(i)
              /\ Off(Base(Num(i)) + r) = r
  <2>1. r \in Slots /\ r \in Int /\ Base(q) + r \in i .. (i + n - 1)
    BY <1>1, <1>2, <1>4, <1>6, <1>7, <1>8, SMTT(30)
  <2> QED BY <2>1, <1>2, NumOf
<1>12. n < m => Off(i + n) = 0 /\ Num(i + n) = Num(i) + 1
  <2>1. SUFFICES ASSUME n < m PROVE Off(i + n) = 0 /\ Num(i + n) = Num(i) + 1
    OBVIOUS
  <2>2. n = BlockSize - Off(i)
    BY <2>1, <1>5, <1>1
  <2>3. i + n = Base(q + 1)
    BY <2>2, <1>1, <1>2, <1>4
  <2>4. q + 1 \in Int
    BY <1>2
  <2>5. Num(Base(q + 1)) = q + 1 /\ Off(Base(q + 1)) = 0
    BY <2>4, BaseStep
  <2> QED BY <2>3, <2>5
<1> QED BY <1>1, <1>3, <1>6, <1>7, <1>8, <1>9, <1>10, <1>11, <1>12

\* What a consumer has not taken out.
LEMMA UntakenIs ==
    ASSUME TypeOK, NEW c \in Consumers, Calling(c), con[c].need >= 1
    PROVE  Untaken(c) =
              (con[c].item + (IF con[c].step \in {"setEmpty", "clear", "return"}
                              THEN RunSize(c) ELSE 0)) .. (con[c].item + con[c].need - 1)
BY RunIs DEF Untaken, Calling

\* Blocks with a consumer inside, an object or room for one are live.
LEMMA BusyLive ==
    ASSUME TypeOK, ClaimsOK, NEW c \in Consumers, NEW q \in Busy(c)
    PROVE  q \in Live /\ q < Begun /\ q \in Nat /\ Calling(c)
<1>1. Calling(c)
  BY DEF Busy
<1> DEFINE last == con[c].item + con[c].need - 1
<1>2. con[c].item \in Nat /\ con[c].need \in Nat /\ con[c].need >= 1
      /\ last < TailIndex /\ last \in Int /\ con[c].item \in Int
  BY <1>1, ConTypes DEF ClaimsOK, TypeOK
<1>3. Num(con[c].item) \in Nat
  BY <1>1, <1>2, RunIs
<1>4. q \in Int /\ q >= Num(con[c].item) /\ q <= Num(last) /\ Num(last) \in Int
  BY <1>1, <1>2, <1>3, DivMod DEF Busy
<1>5. Num(last) <= Num(TailIndex - 1) /\ Num(TailIndex - 1) \in Int
  <2>1. last <= TailIndex - 1 /\ TailIndex - 1 \in Int
    BY <1>2 DEF TypeOK
  <2> QED BY <1>2, <2>1, NumOrder, DivMod
<1>6. q < Begun /\ q \in Nat
  BY <1>3, <1>4, <1>5 DEF Begun
<1> QED BY <1>1, <1>6, LinkedType, BegunIs DEF Live

LEMMA LiveType ==
    ASSUME TypeOK, NEW q \in Live
    PROVE  q \in Nat /\ q < Linked
BY LinkedType DEF Live

LEMMA AheadLive ==
    ASSUME TypeOK, NEW q \in Nat, q < Linked, HeadIndex < Base(q + 1)
    PROVE  q \in Live
BY LinkedType DEF Live

LEMMA TakenLive ==
    ASSUME TypeOK, NEW q \in Int, Begun <= q, q < Linked
    PROVE  q \in Live /\ TailIndex <= Base(q) /\ HeadIndex < Base(q + 1)
<1>1. Begun \in Nat /\ TailIndex <= Base(Begun) /\ Base(Begun) \in Int
  BY BegunIs
<1>2. Base(Begun) <= Base(q) /\ Base(q) \in Int /\ Base(q + 1) = Base(q) + BlockSize
  <2>1. Begun \in Int
    BY <1>1
  <2> QED BY <2>1, BaseStep, BaseMono
<1>3. HeadIndex < Base(q + 1) /\ TailIndex <= Base(q)
  BY <1>1, <1>2, SizesAssumption DEF TypeOK
<1> QED BY <1>1, <1>3, AheadLive

LEMMA TailLive ==
    ASSUME TypeOK, Off(TailIndex) # 0
    PROVE  Begun - 1 \in Live /\ Begun - 1 = Num(TailIndex) /\ HeadIndex < Base(Begun)
<1>1. Begun \in Nat /\ Num(TailIndex) = Begun - 1 /\ Begun # 0 /\ TailIndex < Base(Begun)
      /\ Base(Begun) \in Int
  BY BegunIs
<1>2. HeadIndex < Base(Begun)
  BY <1>1 DEF TypeOK
<1>3. Begun - 1 \in Nat /\ Begun - 1 < Linked /\ (Begun - 1) + 1 = Begun
  BY <1>1, LinkedType
<1> QED BY <1>1, <1>2, <1>3, AheadLive

LEMMA ObjectsLive ==
    ASSUME TypeOK, ClaimsOK, NEW off, CallOK(off), NEW p \in Objects
    PROVE  p \in Nat /\ Num(p) \in Live
<1>1. CASE p \in HeadIndex .. (Filled - 1)
  <2>1. HeadIndex \in Nat /\ TailIndex \in Nat
    BY DEF TypeOK
  <2>2. Filled \in Nat /\ Num(Filled - 1) < Linked
    <3>1. CASE po.step = "publish"
      <4>1. InCall /\ ~Taking
        BY <3>1 DEF InCall, Taking
      <4>2. po.n \in Nat /\ po.need = 0 /\ Linked + po.need = Num(TailIndex + po.n - 1) + 1
        BY <4>1, InCallTypes DEF CallOK
      <4>3. Filled = TailIndex + po.n
        BY <3>1 DEF Filled
      <4>4. Linked \in Nat
        BY LinkedType
      <4>5. Filled \in Nat /\ Filled - 1 \in Int /\ Filled - 1 = TailIndex + po.n - 1
        BY <4>2, <4>3, <2>1
      <4>6. Num(Filled - 1) \in Int
        BY <4>5, DivMod
      <4> QED BY <4>2, <4>4, <4>5, <4>6
    <3>2. CASE po.step # "publish"
      <4>1. Filled = TailIndex
        BY <3>2, <2>1 DEF Filled
      <4>2. Num(TailIndex - 1) \in Int
        BY <2>1, DivMod
      <4> QED BY <4>1, <4>2, <2>1, LinkedType DEF Begun
    <3> QED BY <3>1, <3>2
  <2>3. p \in Nat /\ HeadIndex <= p /\ p <= Filled - 1
    BY <1>1, <2>1, <2>2
  <2>4. Num(p) <= Num(Filled - 1) /\ Num(p) \in Int /\ Num(Filled - 1) \in Int
    BY <2>2, <2>3, NumOrder, DivMod
  <2>5. p < Base(Num(p) + 1) /\ Base(Num(p) + 1) \in Int
    BY <2>3, BlockEnds
  <2>6. Num(p) \in Nat
    <3>1. Num(0) = 0
      BY SizesAssumption DEF Num
    <3> QED BY <3>1, <2>3, <2>4, NumOrder, 0 \in Int
  <2> QED BY <2>1, <2>2, <2>3, <2>4, <2>5, <2>6, AheadLive, LinkedType
<1>2. CASE \E c \in Consumers : p \in Untaken(c)
  <2>1. PICK c \in Consumers : p \in Untaken(c)
    BY <1>2
  <2>2. Calling(c)
    BY <2>1 DEF Untaken, Calling
  <2>3. con[c].need >= 1
    BY <2>2 DEF ClaimsOK
  <2> DEFINE i == con[c].item
             m == con[c].need
             n == RunSize(c)
  <2>4. i \in Nat /\ m \in Nat /\ n \in 1 .. m /\ Num(i) \in Nat
        /\ (n < m => Num(i + n) = Num(i) + 1)
    BY <2>2, <2>3, RunIs
  <2>5. /\ p \in i .. (i + m - 1)
        /\ con[c].step = "return" => p \in (i + n) .. (i + m - 1)
    <3>1. Untaken(c) = (i + (IF con[c].step \in {"setEmpty", "clear", "return"}
                              THEN n ELSE 0)) .. (i + m - 1)
      BY <2>2, <2>3, UntakenIs
    <3> HIDE DEF i, m, n
    <3> QED BY <3>1, <2>1, <2>4
  <2>6. Num(p) \in Busy(c)
    <3>0. p \in Nat /\ p <= i + m - 1
      BY <2>4, <2>5
    <3>1. Num(i) <= Num(p) /\ Num(p) <= Num(i + m - 1) /\ Num(p) \in Int /\ Num(i + m - 1) \in Int
      BY <2>4, <2>5, <3>0, NumOrder, DivMod
    <3>2. con[c].step = "return" => Num(i) + 1 <= Num(p)
      <4>1. SUFFICES ASSUME con[c].step = "return" PROVE Num(i) + 1 <= Num(p)
        OBVIOUS
      <4>2. n < m /\ i + n <= p
        BY <4>1, <2>4, <2>5
      <4> QED BY <4>2, <2>4, <3>0, NumOrder
    <3> QED BY <3>1, <3>2, <2>2, <2>4 DEF Busy
  <2> QED BY <2>4, <2>5, <2>6, BusyLive
<1> QED BY <1>1, <1>2 DEF Objects

\* The first block of a consumer that is not done with it.
LEMMA FirstBusy ==
    ASSUME TypeOK, ClaimsOK, NEW c \in Consumers, Calling(c), con[c].step # "return"
    PROVE  Num(con[c].item) \in Busy(c)
<1>1. con[c].need >= 1
  BY DEF ClaimsOK
<1>2. con[c].item \in Nat /\ con[c].need \in Nat
  BY ConTypes
<1>3. Num(con[c].item) <= Num(con[c].item + con[c].need - 1) /\ Num(con[c].item) \in Int
      /\ Num(con[c].item + con[c].need - 1) \in Int
  BY <1>1, <1>2, NumOrder, DivMod
<1> QED BY <1>3 DEF Busy

-----------------------------------------------------------------------------
(* Lemmas about places. *)

LEMMA PlaceType ==
    ASSUME IndexOK, NEW off \in [1 .. Cur -> Int], NEW i \in 1 .. Cur, NEW q \in Int
    PROVE  /\ arrays[i].size \in Nat \ {0}
           /\ Place(off, i, q) \in 0 .. (arrays[i].size - 1)
           /\ EntryOf(off, i, q) \in 1 .. Len(entries)
           /\ off[i] \in Int
<1>1. arrays[i].size \in Nat \ {0} /\ off[i] \in Int
  <2>1. arrays \in Seq(ArrayRecs) /\ i \in 1 .. Len(arrays)
    BY DEF IndexOK, Cur
  <2>2. arrays[i] \in ArrayRecs
    BY <2>1
  <2> QED BY <2>2 DEF ArrayRecs
<1>2. Place(off, i, q) \in 0 .. (arrays[i].size - 1)
  BY <1>1, DivModS, q - off[i] \in Int DEF Place
<1> QED BY <1>1, <1>2 DEF IndexOK, EntryOf

LEMMA CurType ==
    ASSUME IndexOK
    PROVE  /\ Cur \in Nat \ {0} /\ Cur \in 1 .. Cur /\ Current = arrays[Cur]
           /\ Current.size \in Nat \ {0} /\ Current.tail \in 0 .. (Current.size - 1)
           /\ Len(entries) \in Nat
<1>1. Cur \in Nat /\ Cur >= 1 /\ Len(entries) \in Nat
  BY DEF IndexOK, Cur
<1>2. Current = arrays[Cur]
  BY DEF Current, Cur
<1>3. arrays[Cur] \in ArrayRecs
  BY <1>1 DEF IndexOK, Cur
<1> QED BY <1>1, <1>2, <1>3 DEF IndexOK, ArrayRecs

LEMMA PlacePlus ==
    ASSUME IndexOK, NEW off \in [1 .. Cur -> Int], NEW i \in 1 .. Cur, NEW q \in Int,
           NEW d \in Int
    PROVE  Wrap(arrays[i], Place(off, i, q) + d) = Place(off, i, q + d)
<1>1. arrays[i].size \in Nat \ {0} /\ off[i] \in Int
  BY PlaceType
<1>2. (((q - off[i]) % arrays[i].size) + d) % arrays[i].size
         = ((q - off[i]) + d) % arrays[i].size
  BY <1>1, ModPlus, q - off[i] \in Int
<1>3. (q - off[i]) + d = (q + d) - off[i]
  BY <1>1
<1> QED BY <1>2, <1>3 DEF Wrap, Place

LEMMA PlaceRound ==
    ASSUME IndexOK, NEW off \in [1 .. Cur -> Int], NEW i \in 1 .. Cur, NEW q \in Int,
           NEW m \in Int
    PROVE  Place(off, i, q + m * arrays[i].size) = Place(off, i, q)
<1>1. arrays[i].size \in Nat \ {0} /\ off[i] \in Int
  BY PlaceType
<1>2. m * arrays[i].size \in Int
  BY <1>1
<1>3. (q + m * arrays[i].size) - off[i] = (q - off[i]) + m * arrays[i].size
  BY <1>1, <1>2, SMTT(30)
<1>4. ((q - off[i]) + m * arrays[i].size) % arrays[i].size = (q - off[i]) % arrays[i].size
  BY <1>1, ModShift, q - off[i] \in Int
<1> QED BY <1>3, <1>4 DEF Place

LEMMA PlaceSame ==
    ASSUME IndexOK, NEW off \in [1 .. Cur -> Int], NEW i \in 1 .. Cur, NEW q \in Int,
           NEW r \in Int, Place(off, i, q) = Place(off, i, r)
    PROVE  \E m \in Int : r = q + m * arrays[i].size
<1>0. arrays[i].size \in Nat \ {0} /\ off[i] \in Int
  BY PlaceType
<1>1. arrays[i].size \in Nat \ {0} /\ off[i] \in Int /\ q - off[i] \in Int /\ r - off[i] \in Int
  BY <1>0
<1>2. PICK m \in Int : r - off[i] = (q - off[i]) + m * arrays[i].size
  BY <1>1, ModSame DEF Place
<1>3. m * arrays[i].size \in Int
  BY <1>1
<1>4. r = q + m * arrays[i].size
  <2> DEFINE x == m * arrays[i].size
             o == off[i]
  <2>1. x \in Int /\ o \in Int /\ r - o = (q - o) + x
    BY <1>1, <1>2, <1>3
  <2> HIDE DEF x, o
  <2>2. r = q + x
    BY <2>1
  <2> QED BY <2>2 DEF x
<1> QED BY <1>4

\* From any place whose entry was used, the way to a position's place.
LEMMA LookupPlace ==
    ASSUME IndexOK, NEW off \in [1 .. Cur -> Int], Aligned(off),
           NEW i \in 1 .. Cur, NEW k \in 0 .. (arrays[i].size - 1),
           Key(arrays[i].at[k]) # InvalidBase, NEW p \in Int
    PROVE  PlaceFrom(arrays[i], k, Key(arrays[i].at[k]), p) = Place(off, i, Num(p))
<1>1. PICK q \in Nat : Key(arrays[i].at[k]) = Base(q) /\ Place(off, i, q) = k
  BY DEF Aligned
<1>2. Num(p) \in Int /\ BaseOf(p) = Base(Num(p))
  BY DivMod, BaseOfIs
<1>3. (BaseOf(p) - Base(q)) \div BlockSize = Num(p) - q
  BY <1>2, BaseOrder
<1>4. Wrap(arrays[i], Place(off, i, q) + (Num(p) - q)) = Place(off, i, q + (Num(p) - q))
  BY <1>2, PlacePlus, Num(p) - q \in Int
<1>5. q + (Num(p) - q) = Num(p)
  BY <1>2
<1> QED BY <1>1, <1>3, <1>4, <1>5 DEF PlaceFrom

LEMMA LookupEntry ==
    ASSUME IndexOK, NEW off \in [1 .. Cur -> Int], Aligned(off), NEW nq \in Int,
           Current.tail = Place(off, Cur, nq - 1), KeyOf(off, nq - 1) # InvalidBase,
           NEW p \in Int
    PROVE  EntryForIndex(p) = EntryOf(off, Cur, Num(p))
<1>1. Cur \in 1 .. Cur /\ Current = arrays[Cur] /\ Current.tail \in 0 .. (Current.size - 1)
  BY CurType
<1>2. Key(arrays[Cur].at[Current.tail]) # InvalidBase
  BY <1>1 DEF KeyOf, EntryOf
<1>3. PlaceFrom(arrays[Cur], Current.tail, Key(arrays[Cur].at[Current.tail]), p)
         = Place(off, Cur, Num(p))
  BY <1>1, <1>2, LookupPlace
<1> QED BY <1>1, <1>3 DEF EntryForIndex, EntryOf, Key

-----------------------------------------------------------------------------
(* What the producer's steps do to the index. *)

LEMMA EntryTypes ==
    ASSUME IndexOK, NEW e \in 1 .. Len(entries)
    PROVE  /\ entries[e] = [key |-> Key(e), value |-> Value(e)]
           /\ Key(e) \in Int /\ Value(e) \in Blocks \union {NoBlock}
<1>1. entries \in Seq(EntryRecs)
  BY DEF IndexOK
<1>2. entries[e] \in EntryRecs
  BY <1>1
<1> QED BY <1>2 DEF EntryRecs, Key, Value

LEMMA SetTailEffect ==
    ASSUME IndexOK, NEW t \in 0 .. (Current.size - 1), SetTail(t),
           entries' \in Seq(EntryRecs), Len(entries') = Len(entries)
    PROVE  /\ IndexOK' /\ Cur' = Cur /\ Current.tail' = t /\ Current.size' = Current.size
           /\ \A i \in 1 .. Cur : /\ arrays'[i].size = arrays[i].size
                                  /\ arrays'[i].at = arrays[i].at
                                  /\ arrays'[i].tail = IF i = Cur THEN t ELSE arrays[i].tail
<1>1. arrays \in Seq(ArrayRecs) /\ Cur \in Nat \ {0} /\ Cur \in 1 .. Cur /\ t \in Nat
      /\ Current = arrays[Cur] /\ Cur = Len(arrays)
  BY CurType DEF IndexOK, Cur
<1>2. arrays[Cur] \in ArrayRecs
  BY <1>1
<1>3. [arrays[Cur] EXCEPT !.tail = t] \in ArrayRecs
      /\ [arrays[Cur] EXCEPT !.tail = t].size = arrays[Cur].size
      /\ [arrays[Cur] EXCEPT !.tail = t].at = arrays[Cur].at
      /\ [arrays[Cur] EXCEPT !.tail = t].tail = t
  <2> DEFINE a == arrays[Cur]
  <2>1. a = [size |-> a.size, tail |-> a.tail, at |-> a.at] /\ a.size \in Nat \ {0} /\ a.at \in Indices
    BY <1>2 DEF ArrayRecs
  <2>2. [a EXCEPT !.tail = t] = [size |-> a.size, tail |-> t, at |-> a.at]
    BY <1>2 DEF ArrayRecs
  <2> QED BY <2>1, <2>2, <1>1 DEF ArrayRecs
<1>4. arrays' = [arrays EXCEPT ![Cur] = [arrays[Cur] EXCEPT !.tail = t]]
  BY DEF SetTail, Cur
<1>5. arrays' \in Seq(ArrayRecs) /\ Len(arrays') = Len(arrays)
      /\ \A i \in 1 .. Cur : arrays'[i] = IF i = Cur THEN [arrays[Cur] EXCEPT !.tail = t] ELSE arrays[i]
  <2> DEFINE v == [arrays[Cur] EXCEPT !.tail = t]
  <2>1. v \in ArrayRecs /\ arrays' = [arrays EXCEPT ![Cur] = v]
    BY <1>3, <1>4
  <2> HIDE DEF v
  <2>2. arrays' \in Seq(ArrayRecs) /\ Len(arrays') = Len(arrays)
        /\ \A i \in 1 .. Cur : arrays'[i] = IF i = Cur THEN v ELSE arrays[i]
    BY <2>1, <1>1
  <2> QED BY <2>2 DEF v
<1>6. Cur' = Cur
  BY <1>5 DEF Cur
<1>7. \A i \in 1 .. Cur : /\ arrays'[i].size = arrays[i].size
                          /\ arrays'[i].at = arrays[i].at
                          /\ arrays'[i].tail = IF i = Cur THEN t ELSE arrays[i].tail
  BY <1>3, <1>5
<1>8. IndexOK'
  <2>1. \A i \in 1 .. Cur :
          /\ arrays[i].tail \in 0 .. (arrays[i].size - 1)
          /\ arrays[i].at \in [0 .. (arrays[i].size - 1) -> 1 .. Len(entries)]
    BY DEF IndexOK
  <2>2. \A i \in 1 .. Cur :
          /\ arrays'[i].tail \in 0 .. (arrays'[i].size - 1)
          /\ arrays'[i].at \in [0 .. (arrays'[i].size - 1) -> 1 .. Len(entries')]
    BY <2>1, <1>7, <1>1, SMTT(30)
  <2> QED BY <2>2, <1>5, <1>6, <1>1 DEF IndexOK
<1>9. Current' = arrays'[Cur]
  BY <1>5 DEF Current, Cur
<1> QED BY <1>1, <1>6, <1>7, <1>8, <1>9

LEMMA SetValueEffect ==
    ASSUME IndexOK, NEW e \in 1 .. Len(entries), NEW b \in Blocks \union {NoBlock}, SetValue(e, b)
    PROVE  /\ entries' \in Seq(EntryRecs) /\ Len(entries') = Len(entries)
           /\ \A x \in 1 .. Len(entries) : /\ Key(x)' = Key(x)
                                           /\ Value(x)' = IF x = e THEN b ELSE Value(x)
<1> DEFINE v == [key |-> Key(e), value |-> b]
<1>1. entries \in Seq(EntryRecs)
  BY DEF IndexOK
<1>2. entries[e] = [key |-> Key(e), value |-> Value(e)] /\ Key(e) \in Int
  BY EntryTypes
<1>3. [entries[e] EXCEPT !.value = b] = v /\ v \in EntryRecs
  BY <1>2 DEF EntryRecs
<1>4. entries' = [entries EXCEPT ![e] = v]
  BY <1>3 DEF SetValue
<1>5. v.key = Key(e) /\ v.value = b
  OBVIOUS
<1>6. v \in EntryRecs
  BY <1>3
<1> HIDE DEF v
<1>7. entries' \in Seq(EntryRecs) /\ Len(entries') = Len(entries)
      /\ \A x \in 1 .. Len(entries) : entries'[x] = IF x = e THEN v ELSE entries[x]
  BY <1>1, <1>4, <1>6
<1> QED BY <1>5, <1>7 DEF Key, Value

LEMMA SetKeyEffect ==
    ASSUME IndexOK, NEW e \in 1 .. Len(entries), NEW k \in Int,
           entries' = [entries EXCEPT ![e].key = k]
    PROVE  /\ entries' \in Seq(EntryRecs) /\ Len(entries') = Len(entries)
           /\ \A x \in 1 .. Len(entries) : /\ Value(x)' = Value(x)
                                           /\ Key(x)' = IF x = e THEN k ELSE Key(x)
<1> DEFINE v == [key |-> k, value |-> Value(e)]
<1>1. entries \in Seq(EntryRecs)
  BY DEF IndexOK
<1>2. entries[e] = [key |-> Key(e), value |-> Value(e)] /\ Value(e) \in Blocks \union {NoBlock}
  BY EntryTypes
<1>3. [entries[e] EXCEPT !.key = k] = v /\ v \in EntryRecs
  BY <1>2 DEF EntryRecs
<1>4. entries' = [entries EXCEPT ![e] = v]
  BY <1>3
<1>5. v.key = k /\ v.value = Value(e)
  OBVIOUS
<1>6. v \in EntryRecs
  BY <1>3
<1> HIDE DEF v
<1>7. entries' \in Seq(EntryRecs) /\ Len(entries') = Len(entries)
      /\ \A x \in 1 .. Len(entries) : entries'[x] = IF x = e THEN v ELSE entries[x]
  BY <1>1, <1>4, <1>6, SMTT(30)
<1> QED BY <1>5, <1>7 DEF Key, Value

\* Arrays that have their entries still.
LEMMA IndexKept ==
    ASSUME IndexOK, arrays' = arrays, entries' \in Seq(EntryRecs), Len(entries') = Len(entries)
    PROVE  IndexOK' /\ Cur' = Cur /\ Current' = Current
BY DEF IndexOK, Cur, Current

\* The places and entries of a round array do not move.
LEMMA PlacesKept ==
    ASSUME IndexOK, Cur' = Cur, NEW off \in [1 .. Cur -> Int],
           \A i \in 1 .. Cur : arrays'[i].size = arrays[i].size /\ arrays'[i].at = arrays[i].at
    PROVE  \A i \in 1 .. Cur, q \in Int : /\ Place(off, i, q)' = Place(off, i, q)
                                          /\ EntryOf(off, i, q)' = EntryOf(off, i, q)
BY DEF Place, EntryOf

LEMMA GrownPlace ==
    ASSUME NEW s \in Nat \ {0}, NEW l \in Nat
    PROVE  /\ 2 * s \in Nat \ {0} /\ s - 1 \in Nat /\ 2 * s - 1 \in Nat
           /\ 1 .. (l + s) \subseteq Nat /\ 1 .. l \subseteq 1 .. (l + s)
           /\ \A k \in 0 .. (2 * s - 1) : ~(k < s) => l + 1 + (k - s) \in 1 .. (l + s)
OBVIOUS

\* The fresh entries are behind the ones there were.
LEMMA FreshPlaces ==
    ASSUME NEW s \in Nat \ {0}, NEW l \in Nat, NEW k \in 0 .. (2 * s - 1), k >= s,
           NEW a, a = l + 1 + (k - s)
    PROVE  a \in (l + 1) .. (l + s) /\ a \notin 1 .. l
OBVIOUS

LEMMA GrownEffect ==
    ASSUME IndexOK, arrays' = Append(arrays, Grown),
           entries' = entries \o [e \in 1 .. Current.size |-> FreshEntry]
    PROVE  LET s == Current.size
               n == Cur + 1
           IN  /\ IndexOK' /\ Cur' = n
               /\ \A i \in 1 .. Cur : arrays'[i] = arrays[i]
               /\ arrays'[n].size = 2 * s /\ arrays'[n].tail = s - 1 /\ arrays'[n] = Current'
               /\ \A k \in 0 .. (s - 1) :
                     arrays'[n].at[k] = Current.at[Wrap(Current, Current.tail + 1 + k)]
               /\ \A k \in s .. (2 * s - 1) : arrays'[n].at[k] = Len(entries) + 1 + (k - s)
               /\ Len(entries') = Len(entries) + s
               /\ \A x \in 1 .. Len(entries) : Key(x)' = Key(x) /\ Value(x)' = Value(x)
               /\ \A x \in (Len(entries) + 1) .. (Len(entries) + s) :
                     Key(x)' = InvalidBase /\ Value(x)' = NoBlock
<1> DEFINE s == Current.size
           n == Cur + 1
           L == Len(entries)
           fresh == [e \in 1 .. s |-> FreshEntry]
<1>1. s \in Nat \ {0} /\ Current.tail \in 0 .. (s - 1) /\ Cur \in Nat \ {0} /\ L \in Nat
      /\ Current = arrays[Cur] /\ Cur \in 1 .. Cur
  BY CurType
<1>2. entries \in Seq(EntryRecs) /\ arrays \in Seq(ArrayRecs)
      /\ Current.at \in [0 .. (s - 1) -> 1 .. L]
  BY <1>1 DEF IndexOK
<1>3. FreshEntry \in EntryRecs /\ FreshEntry.key = InvalidBase /\ FreshEntry.value = NoBlock
  BY DEF FreshEntry, EntryRecs, InvalidBase
<1>4. fresh \in Seq(EntryRecs) /\ Len(fresh) = s /\ \A x \in 1 .. s : fresh[x] = FreshEntry
  <2>1. s \in Nat
    BY <1>1
  <2> HIDE DEF s
  <2>2. fresh \in [1 .. s -> EntryRecs]
    BY <1>3
  <2>3. fresh \in Seq(EntryRecs)
    BY <2>1, <2>2, SeqDef
  <2>4. DOMAIN fresh = 1 .. s
    OBVIOUS
  <2>5. Len(fresh) = s
    BY <2>1, <2>3, <2>4
  <2> QED BY <2>3, <2>5
<1>5. entries' \in Seq(EntryRecs) /\ Len(entries') = L + s
      /\ \A x \in 1 .. (L + s) : entries'[x] = IF x <= L THEN entries[x] ELSE fresh[x - L]
  <2> HIDE DEF fresh, s
  <2>1. entries' = entries \o fresh
    BY DEF fresh, s
  <2>2. fresh \in Seq(EntryRecs) /\ Len(fresh) = s /\ entries \in Seq(EntryRecs)
        /\ L \in Nat /\ s \in Nat
    BY <1>1, <1>2, <1>4
  <2>3. /\ entries \o fresh \in Seq(EntryRecs)
        /\ Len(entries \o fresh) = Len(entries) + Len(fresh)
        /\ \A x \in 1 .. (Len(entries) + Len(fresh)) : (entries \o fresh)[x] =
              IF x <= Len(entries) THEN entries[x] ELSE fresh[x - Len(entries)]
    BY <2>2, ConcatProperties
  <2> QED BY <2>1, <2>2, <2>3
<1>6. \A x \in 1 .. L : Key(x)' = Key(x) /\ Value(x)' = Value(x)
  BY <1>1, <1>5 DEF Key, Value
<1>7. \A x \in (L + 1) .. (L + s) : Key(x)' = InvalidBase /\ Value(x)' = NoBlock
  <2> SUFFICES ASSUME NEW x \in (L + 1) .. (L + s)
               PROVE  entries'[x].key = InvalidBase /\ entries'[x].value = NoBlock
    BY DEF Key, Value
  <2>1. entries'[x] = FreshEntry
    BY <1>1, <1>4, <1>5
  <2> QED BY <2>1, <1>3
<1> DEFINE at == [k \in 0 .. (2 * s - 1) |->
                  IF k < s THEN Current.at[Wrap(Current, Current.tail + 1 + k)]
                  ELSE L + 1 + (k - s)]
<1>8. Grown = [size |-> 2 * s, tail |-> s - 1, at |-> at]
  BY DEF Grown
<1>9. at \in [0 .. (2 * s - 1) -> 1 .. (L + s)]
  <2> SUFFICES ASSUME NEW k \in 0 .. (2 * s - 1) PROVE at[k] \in 1 .. (L + s)
    OBVIOUS
  <2>1. CASE k < s
    <3>1. Wrap(Current, Current.tail + 1 + k) \in 0 .. (s - 1)
      <4>1. Current.tail + 1 + k \in Int
        BY <1>1, SMTT(30)
      <4> QED BY <4>1, <1>1, DivModS DEF Wrap
    <3>2. Current.at[Wrap(Current, Current.tail + 1 + k)] \in 1 .. L
      BY <3>1, <1>2
    <3>3. at[k] \in 1 .. L
      BY <3>2, <2>1
    <3> HIDE DEF at
    <3> QED BY <3>3, <1>1, GrownPlace
  <2>2. CASE ~(k < s)
    <3>1. at[k] = L + 1 + (k - s)
      BY <2>2
    <3> HIDE DEF at, s, L
    <3> QED BY <3>1, <2>2, <1>1, GrownPlace
  <2> QED BY <2>1, <2>2
<1>10. at \in Indices /\ 2 * s - 1 \in Nat /\ 2 * s \in Nat \ {0} /\ s - 1 \in Nat
  <2>1. 2 * s \in Nat \ {0} /\ s - 1 \in Nat /\ 2 * s - 1 \in Nat /\ 1 .. (L + s) \subseteq Nat
    <3> HIDE DEF at, s, L
    <3> QED BY <1>1, GrownPlace
  <2>2. at \in [0 .. (2 * s - 1) -> Nat]
    BY <2>1, <1>9
  <2> HIDE DEF at
  <2> QED BY <2>1, <2>2 DEF Indices
<1>11. Grown \in ArrayRecs /\ Grown.size = 2 * s /\ Grown.tail = s - 1 /\ Grown.at = at
  <2> HIDE DEF at, s
  <2> QED BY <1>8, <1>10 DEF ArrayRecs
<1>12. arrays' \in Seq(ArrayRecs) /\ Len(arrays') = n /\ arrays'[n] = Grown
       /\ \A i \in 1 .. Cur : arrays'[i] = arrays[i]
  BY <1>1, <1>2, <1>11 DEF Cur
<1>13. Cur' = n /\ Current' = arrays'[n]
  BY <1>12 DEF Cur, Current
<1>14. IndexOK'
  <2>1. ASSUME NEW i \in 1 .. n
        PROVE  /\ arrays'[i].tail \in 0 .. (arrays'[i].size - 1)
               /\ arrays'[i].at \in [0 .. (arrays'[i].size - 1) -> 1 .. Len(entries')]
    <3>1. CASE i = n
      <4> HIDE DEF at, s
      <4>1. s - 1 \in 0 .. (2 * s - 1)
        BY <1>1
      <4> QED BY <3>1, <4>1, <1>5, <1>9, <1>11, <1>12
    <3>2. CASE i # n
      <4>1. i \in 1 .. Cur
        BY <3>2, <1>1
      <4>2. /\ arrays[i].tail \in 0 .. (arrays[i].size - 1)
            /\ arrays[i].at \in [0 .. (arrays[i].size - 1) -> 1 .. L]
        BY <4>1 DEF IndexOK
      <4>3. 1 .. L \subseteq 1 .. (L + s)
        BY <1>1
      <4> HIDE DEF s, L
      <4> QED BY <4>1, <4>2, <4>3, <1>5, <1>12
    <3> QED BY <3>1, <3>2
  <2>2. n >= 1
    BY <1>1
  <2> QED BY <2>1, <2>2, <1>5, <1>12, <1>13 DEF IndexOK
<1>15. \A k \in 0 .. (s - 1) : at[k] = Current.at[Wrap(Current, Current.tail + 1 + k)]
  BY <1>1
<1>16. \A k \in s .. (2 * s - 1) : at[k] = L + 1 + (k - s)
  BY <1>1, SMTT(30)
<1> HIDE DEF at
<1> QED BY <1>5, <1>6, <1>7, <1>11, <1>12, <1>13, <1>14, <1>15, <1>16

-----------------------------------------------------------------------------
(* What a step leaves as it is. *)

\* The arrays keep their entries, whatever becomes of tails and values; and the
\* entries keep their keys.
SameArrays ==
    /\ IndexOK' /\ Cur' = Cur /\ Len(entries') = Len(entries)
    /\ \A i \in 1 .. Cur : arrays'[i].size = arrays[i].size /\ arrays'[i].at = arrays[i].at
SameKeys == \A x \in 1 .. Len(entries) : Key(x)' = Key(x)
SameBlocks(off) == \A q \in Live' : BlockOf(off, q)' = BlockOf(off, q)

LEMMA PlacesFixed ==
    ASSUME IndexOK, SameArrays, NEW off \in [1 .. Cur -> Int]
    PROVE  /\ off \in [1 .. Cur' -> Int]
           /\ \A i \in 1 .. Cur, q \in Int : /\ Place(off, i, q)' = Place(off, i, q)
                                             /\ EntryOf(off, i, q)' = EntryOf(off, i, q)
           /\ \A q \in Int : EntryOf(off, Cur, q)' = EntryOf(off, Cur, q)
           /\ Current.size' = Current.size
<1>1. Cur' = Cur /\ Cur \in 1 .. Cur
  BY CurType DEF SameArrays
<1>2. \A i \in 1 .. Cur, q \in Int : /\ Place(off, i, q)' = Place(off, i, q)
                                     /\ EntryOf(off, i, q)' = EntryOf(off, i, q)
  BY PlacesKept DEF SameArrays
<1>3. \A q \in Int : EntryOf(off, Cur, q)' = EntryOf(off, Cur, q)
  BY <1>1, <1>2 DEF EntryOf, Place
<1>4. Current.size' = Current.size
  BY <1>1, CurType DEF SameArrays, Current, Cur
<1> QED BY <1>1, <1>2, <1>3, <1>4

LEMMA KeysFixed ==
    ASSUME IndexOK, SameArrays, SameKeys, NEW off \in [1 .. Cur -> Int]
    PROVE  \A q \in Int : KeyOf(off, q)' = KeyOf(off, q)
<1> SUFFICES ASSUME NEW q \in Int PROVE KeyOf(off, q)' = KeyOf(off, q)
  OBVIOUS
<1>1. Cur \in 1 .. Cur
  BY CurType
<1>2. EntryOf(off, Cur, q) \in 1 .. Len(entries)
  BY <1>1, PlaceType
<1>3. EntryOf(off, Cur, q)' = EntryOf(off, Cur, q)
  BY PlacesFixed
<1> QED BY <1>2, <1>3 DEF SameKeys, KeyOf, Key

LEMMA AlignedKept ==
    ASSUME IndexOK, SameArrays, SameKeys, NEW off \in [1 .. Cur -> Int], Aligned(off)
    PROVE  Aligned(off)'
<1> SUFFICES ASSUME NEW i \in 1 .. Cur, NEW k \in 0 .. (arrays[i].size - 1),
                    Key(arrays[i].at[k])' # InvalidBase
             PROVE  \E q \in Nat : Key(arrays[i].at[k])' = Base(q) /\ Place(off, i, q)' = k
  BY DEF Aligned, SameArrays
<1>1. arrays[i].at[k] \in 1 .. Len(entries) /\ arrays'[i].at = arrays[i].at
  BY DEF IndexOK, SameArrays
<1>2. Key(arrays[i].at[k])' = Key(arrays[i].at[k])
  BY <1>1 DEF SameKeys, Key
<1>3. PICK q \in Nat : Key(arrays[i].at[k]) = Base(q) /\ Place(off, i, q) = k
  BY <1>2 DEF Aligned
<1>4. Place(off, i, q)' = Place(off, i, q)
  BY PlacesFixed
<1> QED BY <1>2, <1>3, <1>4

LEMMA AgreeKept ==
    ASSUME IndexOK, SameArrays, NEW off \in [1 .. Cur -> Int], Agree(off)
    PROVE  Agree(off)'
BY PlacesFixed DEF Agree, SameArrays, EntryOf

LEMMA ListedKept ==
    ASSUME TypeOK, SameArrays, SameKeys, NEW off \in [1 .. Cur -> Int], NEW nq \in Int,
           Listed(off, nq), Live' \subseteq Live, SameBlocks(off), NEW n \in Int, n <= nq
    PROVE  Listed(off, n)'
<1>0. IndexOK
  BY DEF TypeOK
<1> SUFFICES ASSUME NEW q \in Live'
             PROVE  /\ KeyOf(off, q)' = Base(q)
                    /\ BlockOf(off, q)' \in Blocks
                    /\ n - Current.size' <= q
                    /\ \A r \in q .. (n - 1) : KeyOf(off, r)' # InvalidBase
  BY DEF Listed
<1>1. q \in Live /\ q \in Nat
  BY LiveType
<1>2. /\ KeyOf(off, q) = Base(q) /\ BlockOf(off, q) \in Blocks /\ nq - Current.size <= q
      /\ \A r \in q .. (nq - 1) : KeyOf(off, r) # InvalidBase
  BY <1>1 DEF Listed
<1>3. Current.size \in Nat /\ Current.size' = Current.size
  BY <1>0, CurType, PlacesFixed
<1>4. n - Current.size' <= q
  BY <1>1, <1>2, <1>3
<1>5. \A r \in q .. (n - 1) : r \in q .. (nq - 1) /\ r \in Int
  BY <1>1
<1>6. \A r \in Int : KeyOf(off, r)' = KeyOf(off, r)
  BY <1>0, KeysFixed
<1> QED BY <1>1, <1>2, <1>4, <1>5, <1>6 DEF SameBlocks

LEMMA WindowKept ==
    ASSUME IndexOK, SameArrays, SameKeys, NEW off \in [1 .. Cur -> Int], NEW nq \in Int,
           Window(off, nq)
    PROVE  Window(off, nq)'
<1>1. \A q \in Int : KeyOf(off, q)' = KeyOf(off, q)
  BY KeysFixed
<1>2. Current.size' = Current.size /\ Current.size \in Nat
  BY PlacesFixed, CurType
<1>3. \A r \in (nq - Current.size) .. (nq - 1) : r \in Int /\ \A x \in (nq - Current.size) .. r : x \in Int
  OBVIOUS
<1> QED BY <1>1, <1>2, <1>3 DEF Window

\* Entries may be cleared, and none is left behind.
LEMMA OccupiedKept ==
    ASSUME TypeOK, SameArrays, NEW off \in [1 .. Cur -> Int], Occupied(off), po.step # "stopped",
           \A q \in Int : BlockOf(off, q)' \in {NoBlock, BlockOf(off, q)},
           Live \union Leaving \subseteq (Live \union Leaving)'
    PROVE  Occupied(off)'
<1>0. IndexOK
  BY DEF TypeOK
<1>1. ASSUME NEW r \in Live \union Leaving PROVE r \in Int
  <2>1. CASE r \in Live
    BY <2>1, LiveType
  <2>2. CASE r \in Leaving
    <3>1. po.step = "rollBack" /\ Begun \in Nat
      BY <2>2, BegunIs DEF Leaving
    <3>2. po.need \in Nat /\ Len(po.taken) \in Nat
      BY <3>1, InCallTypes
    <3> QED BY <2>2, <3>1, <3>2 DEF Leaving
  <2> QED BY <2>1, <2>2
<1>2. \A q \in Int : EntryOf(off, Cur, q)' = EntryOf(off, Cur, q)
  BY <1>0, PlacesFixed
<1> SUFFICES ASSUME NEW q \in Int, BlockOf(off, q)' # NoBlock
             PROVE  \E r \in (Live \union Leaving)' : EntryOf(off, Cur, q)' = EntryOf(off, Cur, r)'
  BY DEF Occupied
<1>3. BlockOf(off, q) # NoBlock
  OBVIOUS
<1>4. PICK r \in Live \union Leaving : EntryOf(off, Cur, q) = EntryOf(off, Cur, r)
  BY <1>3 DEF Occupied
<1>5. r \in (Live \union Leaving)' /\ r \in Int
  BY <1>1
<1>6. EntryOf(off, Cur, q)' = EntryOf(off, Cur, r)'
  BY <1>2, <1>4, <1>5, SMTT(30)
<1> QED BY <1>5, <1>6

\* A consumer that the step does not concern.
LEMMA KnowsKept ==
    ASSUME TypeOK, SameArrays, NEW off \in [1 .. Cur -> Int],
           \A x \in 1 .. Len(entries) : Key(x) # InvalidBase => Key(x)' # InvalidBase,
           NEW c \in Consumers, con'[c] = con[c], Knows(off, c),
           con[c].step = "tail" =>
              Key(arrays[con[c].array].at[arrays[con[c].array].tail])' # InvalidBase
    PROVE  Knows(off, c)'
<1>0. IndexOK /\ Cur' = Cur /\ Cur \in 1 .. Cur
  BY CurType DEF TypeOK, SameArrays
<1>1. Busy(c)' = Busy(c) /\ Busy(c) \subseteq Int
  BY ConTypes, DivMod DEF Busy, Calling
<1>2. con[c].step \notin {"idle", "array"} =>
          \A q \in Busy(c) : EntryOf(off, con[c].array, q)' = EntryOf(off, Cur, q)'
  BY <1>0, <1>1, PlacesFixed, SMTT(30) DEF Knows
<1>3. con[c].step = "key" =>
          /\ con[c].place \in 0 .. (arrays'[con[c].array].size - 1)
          /\ Key(arrays[con[c].array].at[con[c].place])' # InvalidBase
  <2> SUFFICES ASSUME con[c].step = "key"
               PROVE  /\ con[c].place \in 0 .. (arrays'[con[c].array].size - 1)
                      /\ Key(arrays[con[c].array].at[con[c].place])' # InvalidBase
    OBVIOUS
  <2> DEFINE i == con[c].array
             k == con[c].place
  <2>1. i \in 1 .. Cur /\ k \in 0 .. (arrays[i].size - 1) /\ Key(arrays[i].at[k]) # InvalidBase
    BY DEF Knows
  <2>2. arrays[i].at[k] \in 1 .. Len(entries) /\ arrays'[i].at = arrays[i].at
        /\ arrays'[i].size = arrays[i].size
    BY <1>0, <2>1 DEF IndexOK, SameArrays
  <2>3. Key(arrays[i].at[k])' = entries'[arrays[i].at[k]].key
    BY <2>2 DEF Key
  <2> QED BY <2>1, <2>2, <2>3 DEF Key
<1>4. con[c].step \in {"take", "setEmpty", "clear", "return"} =>
          con[c].place = Place(off, con[c].array, Num(con[c].item))'
  <2> SUFFICES ASSUME con[c].step \in {"take", "setEmpty", "clear", "return"}
               PROVE  con[c].place = Place(off, con[c].array, Num(con[c].item))'
    OBVIOUS
  <2>1. con[c].array \in 1 .. Cur /\ con[c].place = Place(off, con[c].array, Num(con[c].item))
    BY DEF Knows
  <2>2. con[c].item \in Int
    BY ConTypes DEF Calling
  <2>3. Num(con[c].item) \in Int
    BY <2>2, DivMod
  <2>4. PICK i, q : i = con[c].array /\ q = Num(con[c].item)
    OBVIOUS
  <2>5. Place(off, i, q)' = Place(off, i, q)
    BY <1>0, <2>1, <2>3, <2>4, PlacesFixed
  <2>6. Place(off, con[c].array, Num(con[c].item))' = Place(off, i, q)'
    BY <2>4 DEF Place
  <2> QED BY <2>1, <2>4, <2>5, <2>6
<1> QED BY <1>0, <1>1, <1>2, <1>3, <1>4 DEF Knows, EntryOf, Place

\* The producer changes nothing that the consumers' calls are seen by.
LEMMA ProducerViews ==
    ASSUME con' = con
    PROVE  /\ \A c \in Consumers : /\ Calling(c)' = Calling(c) /\ RunSize(c)' = RunSize(c)
                                   /\ Unmarked(c)' = Unmarked(c) /\ Busy(c)' = Busy(c)
                                   /\ Untaken(c)' = Untaken(c) /\ Run(c)' = Run(c)
           /\ InHand' = InHand
           /\ UNION {Untaken(c) : c \in Consumers}' = UNION {Untaken(c) : c \in Consumers}
BY DEF Calling, RunSize, Unmarked, Busy, Untaken, Run, InHand

LEMMA ProducerFrame ==
    ASSUME con' = con, HeadIndex' = HeadIndex
    PROVE  /\ ClaimsOK => ClaimsOK'
           /\ LastOut => LastOut'
           /\ \A q : Marked(q)' = Marked(q)
<1>1. \A c \in Consumers : Calling(c)' = Calling(c) /\ Unmarked(c)' = Unmarked(c) /\ Busy(c)' = Busy(c)
  BY ProducerViews
<1>2. ClaimsOK => ClaimsOK'
  BY <1>1 DEF ClaimsOK
<1>3. LastOut => LastOut'
  BY <1>1 DEF LastOut
<1>4. \A q : Marked(q)' = Marked(q)
  BY <1>1 DEF Marked
<1> QED BY <1>2, <1>3, <1>4

LEMMA LinkedNext ==
    TypeOK' => (/\ Linked \in Nat /\ Begun \in Nat /\ Begun <= Linked
                /\ (~InCall => Linked = Begun))'
<1>1. TypeOK => /\ Linked \in Nat /\ Begun \in Nat /\ Begun <= Linked
                /\ (~InCall => Linked = Begun)
  BY LinkedType, BegunIs
<1> QED BY <1>1, PTL

LEMMA ProducerLive ==
    ASSUME con' = con, HeadIndex' = HeadIndex, TypeOK, TypeOK'
    PROVE  /\ Linked' = Linked => Live' = Live
           /\ Linked' <= Linked => Live' = {q \in Live : q < Linked'}
           /\ Linked' = Linked + 1 => Live' = Live \union {Linked}
           /\ Begun' = Begun => \A q \in Live : q < Begun => q \in Live'
<1>1. \A c \in Consumers : Busy(c)' = Busy(c)
  BY ProducerViews
<1>2. Linked \in Nat /\ Linked' \in Nat /\ Begun \in Nat /\ Begun' \in Nat /\ Begun' <= Linked'
      /\ Begun <= Linked
  BY LinkedType, LinkedNext, BegunIs
<1>3. Live' = {q \in 0 .. (Linked' - 1) :
                  HeadIndex < Base(q + 1) \/ \E c \in Consumers : q \in Busy(c)}
  BY <1>1 DEF Live
<1>4. Live = {q \in 0 .. (Linked - 1) :
                  HeadIndex < Base(q + 1) \/ \E c \in Consumers : q \in Busy(c)}
  BY DEF Live
<1>5. HeadIndex < Base(Linked + 1)
  <2>1. TailIndex <= Base(Begun) /\ Base(Begun) \in Int /\ HeadIndex \in Nat /\ HeadIndex <= TailIndex
        /\ TailIndex \in Nat
    BY BegunIs DEF TypeOK
  <2>2. Base(Begun) <= Base(Linked)
    BY <1>2, BaseMono
  <2>3. Base(Linked + 1) = Base(Linked) + BlockSize /\ Base(Linked) \in Int
    BY <1>2, BaseStep
  <2> QED BY <2>1, <2>2, <2>3, SizesAssumption
<1>6. Linked' = Linked => Live' = Live
  BY <1>3, <1>4
<1>7. Linked' <= Linked => Live' = {q \in Live : q < Linked'}
  BY <1>2, <1>3, <1>4
<1>8. Linked' = Linked + 1 => Live' = Live \union {Linked}
  <2> SUFFICES ASSUME Linked' = Linked + 1 PROVE Live' = Live \union {Linked}
    OBVIOUS
  <2>1. 0 .. (Linked' - 1) = (0 .. (Linked - 1)) \union {Linked}
    BY <1>2
  <2> QED BY <2>1, <1>3, <1>4, <1>5
<1>9. Begun' = Begun => \A q \in Live : q < Begun => q \in Live'
  <2> SUFFICES ASSUME Begun' = Begun, NEW q \in Live, q < Begun PROVE q \in Live'
    OBVIOUS
  <2>1. q \in 0 .. (Linked' - 1)
    <3>1. q \in Nat
      BY LiveType
    <3>2. q < Begun' /\ Begun' <= Linked' /\ Begun' \in Nat /\ Linked' \in Nat
      BY <1>2
    <3>3. q < Linked'
      BY <3>1, <3>2
    <3>4. ASSUME NEW x \in Nat, NEW y \in Nat, x < y PROVE x \in 0 .. (y - 1)
      BY <3>4, SMTT(30)
    <3> QED BY <3>1, <3>2, <3>3, <3>4
  <2> QED BY <2>1, <1>3, <1>4
<1> QED BY <1>6, <1>7, <1>8, <1>9

\* Values of live entries only matter.
LEMMA BlocksFixed ==
    ASSUME TypeOK, SameArrays, NEW off \in [1 .. Cur -> Int],
           \A q \in Live' : Value(EntryOf(off, Cur, q))' = Value(EntryOf(off, Cur, q))
    PROVE  SameBlocks(off)
BY DEF SameBlocks, BlockOf, SameArrays, Value, EntryOf, Place

LEMMA SameValues ==
    ASSUME TypeOK, SameArrays, NEW off \in [1 .. Cur -> Int], entries' = entries
    PROVE  SameKeys /\ \A q \in Int : BlockOf(off, q)' = BlockOf(off, q)
<1>1. IndexOK
  BY DEF TypeOK
<1>2. \A q \in Int : EntryOf(off, Cur, q)' = EntryOf(off, Cur, q)
  BY <1>1, PlacesFixed
<1> QED BY <1>2 DEF SameKeys, Key, Value, BlockOf

\* The uses of blocks.
LEMMA UsesKept ==
    ASSUME NEW off, Apart(off), AllThere(off), Live' = Live, SameBlocks(off),
           UNCHANGED <<manager, heap, con>>, Held' = Held, po.step # "stopped"
    PROVE  Apart(off)' /\ AllThere(off)'
<1>1. InHand' = InHand
  BY ProducerViews
<1>2. \A q \in Live : BlockOf(off, q)' = BlockOf(off, q)
  BY DEF SameBlocks
<1>3. Apart(off)'
  BY <1>1, <1>2 DEF Apart
<1>4. AllThere(off)'
  BY <1>1, <1>2 DEF AllThere
<1> QED BY <1>3, <1>4

LEMMA CountsKept ==
    ASSUME NEW off, Counts(off), UNCHANGED <<emptied, con, HeadIndex>>, Live' \subseteq Live,
           SameBlocks(off), po'.step # "link" \/ po' = po
    PROVE  Counts(off)'
BY ProducerFrame DEF Counts, SameBlocks

LEMMA ObjectsKept ==
    ASSUME TypeOK, ClaimsOK, NEW off, CallOK(off), Placed(off), NothingElse(off),
           slots' = slots, Objects' = Objects,
           \A p \in Objects : BlockOf(off, Num(p))' = BlockOf(off, Num(p))
    PROVE  Placed(off)' /\ NothingElse(off)'
<1>1. Placed(off)'
  BY DEF Placed
<1>2. NothingElse(off)'
  BY DEF NothingElse
<1> QED BY <1>1, <1>2

-----------------------------------------------------------------------------
(* Steps of the producer that leave the index. *)

LEMMA CallUpdate ==
    ASSUME NEW p \in Calls, NEW s \in CallSteps
    PROVE  LET r == [p EXCEPT !.step = s]
           IN  /\ r \in Calls /\ r.step = s
               /\ r.bulk = p.bulk /\ r.mode = p.mode /\ r.n = p.n /\ r.need = p.need
               /\ r.base = p.base /\ r.old = p.old /\ r.block = p.block /\ r.taken = p.taken
BY DEF Calls

\* The locals of a call of which only the place changes.
SameCall(s) ==
    /\ po \in Calls /\ po' \in Calls /\ po'.step = s
    /\ po'.bulk = po.bulk /\ po'.mode = po.mode /\ po'.n = po.n /\ po'.need = po.need
    /\ po'.base = po.base /\ po'.old = po.old /\ po'.block = po.block /\ po'.taken = po.taken

LEMMA StepTo ==
    ASSUME TypeOK, po.step \in CallSteps, NEW s \in CallSteps, po' = [po EXCEPT !.step = s]
    PROVE  SameCall(s)
<1>1. po \in Calls
  BY CallTypes
<1> QED BY <1>1, CallUpdate DEF SameCall

LEMMA StillIndex ==
    ASSUME IndexOK, arrays' = arrays, entries' = entries, NEW off \in [1 .. Cur -> Int]
    PROVE  /\ SameArrays /\ SameKeys /\ Current' = Current /\ Cur' = Cur
           /\ Aligned(off) => Aligned(off)'
           /\ Agree(off) => Agree(off)'
           /\ \A q : /\ Place(off, Cur, q)' = Place(off, Cur, q)
                     /\ EntryOf(off, Cur, q)' = EntryOf(off, Cur, q)
                     /\ KeyOf(off, q)' = KeyOf(off, q)
                     /\ BlockOf(off, q)' = BlockOf(off, q)
<1>1. SameArrays /\ SameKeys /\ Current' = Current /\ Cur' = Cur /\ IndexOK'
  BY IndexKept DEF SameArrays, SameKeys, IndexOK, Cur, Current, Key
<1>2. \A q : /\ Place(off, Cur, q)' = Place(off, Cur, q)
             /\ EntryOf(off, Cur, q)' = EntryOf(off, Cur, q)
             /\ KeyOf(off, q)' = KeyOf(off, q)
             /\ BlockOf(off, q)' = BlockOf(off, q)
  BY DEF Place, EntryOf, KeyOf, BlockOf, Key, Value, Cur
<1>3. Aligned(off) => Aligned(off)'
  BY <1>1, AlignedKept
<1>4. Agree(off) => Agree(off)'
  BY <1>1, AgreeKept
<1> QED BY <1>1, <1>2, <1>3, <1>4

\* The part of the invariant about the index and the consumers is as before when
\* the producer changes neither, nor the blocks it has entered.
LEMMA StillConsumption ==
    ASSUME TypeOK, NEW off, NEW nq, Body(off, nq),
           UNCHANGED <<arrays, entries, con, HeadIndex>>
    PROVE  /\ Consumption(off)' /\ Aligned(off)' /\ Agree(off)' /\ Window(off, nq)'
           /\ IndexOK' /\ off \in [1 .. Cur -> Int] /\ off \in [1 .. Cur' -> Int]
<1>0. IndexOK /\ off \in [1 .. Cur -> Int] /\ Aligned(off) /\ Agree(off)
  BY DEF TypeOK, Body, Index, OffsetsOK
<1>1. SameArrays /\ SameKeys /\ Cur' = Cur
  BY <1>0, StillIndex
<1>2. ASSUME NEW c \in Consumers PROVE Knows(off, c)'
  <2>1. Knows(off, c)
    BY SMTT(30) DEF Body, Consumption
  <2>2. con[c].step = "tail" =>
            Key(arrays[con[c].array].at[arrays[con[c].array].tail])' # InvalidBase
    BY <2>1 DEF Knows, Key
  <2>3. \A x \in 1 .. Len(entries) : Key(x) # InvalidBase => Key(x)' # InvalidBase
    BY DEF Key
  <2> QED BY <1>0, <1>1, <2>1, <2>2, <2>3, KnowsKept
<1>3. ClaimsOK' /\ LastOut'
  BY ProducerFrame DEF Body, Consumption
<1>4. Aligned(off)' /\ Agree(off)'
  BY <1>0, StillIndex
<1>5. Window(off, nq)'
  BY <1>0, <1>1, WindowKept DEF Body, Index, OffsetsOK
<1> QED BY <1>0, <1>1, <1>2, <1>3, <1>4, <1>5 DEF Consumption, SameArrays

LEMMA StillOccupied ==
    ASSUME TypeOK, NEW off \in [1 .. Cur -> Int], Occupied(off), po.step # "stopped",
           arrays' = arrays, entries' = entries, Live' = Live, Leaving \subseteq Leaving'
    PROVE  Occupied(off)'
<1>1. IndexOK
  BY DEF TypeOK
<1>2. SameArrays /\ \A q \in Int : BlockOf(off, q)' \in {NoBlock, BlockOf(off, q)}
  BY <1>1, StillIndex
<1>3. Live \union Leaving \subseteq (Live \union Leaving)'
  OBVIOUS
<1> QED BY <1>2, <1>3, OccupiedKept

LEMMA StillListed ==
    ASSUME TypeOK, NEW off, NEW nq, Body(off, nq), arrays' = arrays, entries' = entries,
           Live' \subseteq Live, NEW n \in Int, n <= nq
    PROVE  Listed(off, n)'
<1>0. IndexOK /\ off \in [1 .. Cur -> Int] /\ nq \in Int /\ Listed(off, nq)
  BY DEF TypeOK, Body, Index, OffsetsOK
<1>1. SameArrays /\ SameKeys /\ SameBlocks(off)
  BY <1>0, StillIndex DEF SameBlocks
<1> QED BY <1>0, <1>1, ListedKept

\* Two positions of live blocks have slots of their own.
LEMMA SlotsApart ==
    ASSUME NEW off, Apart(off), NEW p \in Int, NEW r \in Int, Num(p) \in Live, Num(r) \in Live,
           BlockOf(off, Num(p)) = BlockOf(off, Num(r)), Off(p) = Off(r)
    PROVE  p = r
<1>1. Num(p) = Num(r)
  BY DEF Apart
<1> QED BY <1>1, SamePlace

LEMMA ObjectsBelow ==
    ASSUME TypeOK, ClaimsOK, NEW p \in Objects
    PROVE  p < Filled /\ (po.step # "publish" => Filled = TailIndex)
<1>1. TailIndex \in Nat /\ HeadIndex \in Nat /\ HeadIndex <= TailIndex
  BY DEF TypeOK
<1>2. Filled \in Nat /\ TailIndex <= Filled /\ (po.step # "publish" => Filled = TailIndex)
  <2>1. po.step = "publish" => po.n \in Nat
    BY InCallTypes DEF InCall
  <2> QED BY <1>1, <2>1 DEF Filled
<1>3. CASE p \in HeadIndex .. (Filled - 1)
  BY <1>1, <1>2, <1>3
<1>4. CASE \E c \in Consumers : p \in Untaken(c)
  <2>1. PICK c \in Consumers : p \in Untaken(c)
    BY <1>4
  <2>2. Calling(c) /\ con[c].need >= 1 /\ con[c].item + con[c].need <= HeadIndex
    BY <2>1 DEF Untaken, Calling, ClaimsOK
  <2>3. con[c].item \in Nat /\ con[c].need \in Nat /\ RunSize(c) \in 1 .. con[c].need
    BY <2>2, ConTypes, RunIs
  <2>4. p <= con[c].item + con[c].need - 1 /\ p \in Int
    BY <2>1, <2>2, <2>3, UntakenIs, SMTT(30)
  <2> QED BY <1>1, <1>2, <2>2, <2>3, <2>4
<1> QED BY <1>2, <1>3, <1>4 DEF Objects

\* One slot gets an object that is not there yet.
LEMMA PutOne ==
    ASSUME TypeOK, NEW b \in Blocks, NEW i \in Slots, NEW p \in Nat,
           slots' = [slots EXCEPT ![b][i] = p]
    PROVE  /\ slots' \in [Blocks -> [Slots -> Nat \union {Raw}]]
           /\ \A d \in Blocks, k \in Slots :
                 slots'[d][k] = IF d = b /\ k = i THEN p ELSE slots[d][k]
BY DEF TypeOK

LEMMA DoEnqueueInner ==
    ASSUME TypeOK, NEW off, NEW nq, Body(off, nq), EnqueueInner
    PROVE  TypeOK' /\ Body(off, nq)'
<1> DEFINE T == TailIndex
<1>1. /\ po.step = "idle" /\ Off(T) # 0 /\ T \in Nat /\ T \in Int
      /\ TailIndex' = T + 1 /\ slots' = [slots EXCEPT ![TailBlock][Off(T)] = T]
      /\ UNCHANGED <<HeadIndex, TailBlock, emptied, entries, arrays, manager, heap, po, con>>
  BY DEF EnqueueInner, TypeOK, index, supply, Off
<1>2. /\ OffsetsOK(off, nq) /\ CallOK(off) /\ Apart(off) /\ AllThere(off) /\ ClaimsOK
      /\ Counts(off) /\ Placed(off) /\ NothingElse(off) /\ Listed(off, nq) /\ IndexOK
      /\ off \in [1 .. Cur -> Int] /\ nq \in Int
  BY DEF Body, Index, Consumption, TypeOK, OffsetsOK
<1>3. Begun \in Nat /\ Num(T) = Begun - 1 /\ Begun - 1 \in Live /\ Off(T) \in Slots
  BY <1>1, BegunIs, TailLive, DivMod
<1>4. TailBlock = BlockOf(off, Begun - 1) /\ TailBlock \in Blocks
  BY <1>1, <1>2, <1>3 DEF CallOK, Listed
<1>5. TypeOK'
  <2>1. slots' \in [Blocks -> [Slots -> Nat \union {Raw}]]
    BY <1>1, <1>3, <1>4, PutOne
  <2>2. TailIndex' \in Nat /\ HeadIndex' <= TailIndex'
    BY <1>1 DEF TypeOK
  <2>3. IndexOK'
    BY <1>1, StillConsumption
  <2> QED BY <1>1, <2>1, <2>2, <2>3 DEF TypeOK
<1>6. Begun' = Begun /\ Linked' = Linked /\ Live' = Live /\ InCall' = InCall
  <2>1. Begun' = Begun
    <3>1. T + 1 - 1 = T
      BY <1>1
    <3>2. Begun' = Num(T) + 1
      BY <1>1, <3>1 DEF Begun
    <3> QED BY <3>2, <1>3
  <2>2. InCall' = InCall /\ Linked' = Linked
    BY <2>1, <1>1 DEF Linked, InCall
  <2> QED BY <1>1, <1>5, <2>1, <2>2, ProducerLive
<1>7. \A q : /\ Place(off, Cur, q)' = Place(off, Cur, q)
             /\ KeyOf(off, q)' = KeyOf(off, q)
             /\ BlockOf(off, q)' = BlockOf(off, q)
  BY <1>1, <1>2, StillIndex
<1>8. Current' = Current /\ Cur' = Cur
  BY <1>1, <1>2, StillIndex
<1>9. Index(off, nq)'
  <2>1. OffsetsOK(off, nq)'
    BY <1>1, <1>2, <1>6, <1>7, <1>8 DEF OffsetsOK
  <2>2. Listed(off, nq)'
    BY <1>1, <1>2, <1>6, StillListed, nq <= nq
  <2>3. Underway(off, nq)'
    BY <1>1 DEF Underway
  <2> QED BY <1>1, <2>1, <2>2, <2>3, StillConsumption DEF Index
<1>10. CallOK(off)'
  BY <1>1, <1>2, <1>4, <1>6, <1>7 DEF CallOK, InCall
<1>11. Apart(off)' /\ AllThere(off)'
  BY <1>1, <1>2, <1>6, <1>7, UsesKept DEF SameBlocks, Held
<1>12. Counts(off)'
  BY <1>1, <1>2, <1>6, <1>7, CountsKept DEF SameBlocks
<1>13. T \notin Objects /\ Objects' = Objects \union {T}
  <2>1. T \notin Objects
    BY <1>1, <1>2, ObjectsBelow
  <2>2. UNION {Untaken(c) : c \in Consumers}' = UNION {Untaken(c) : c \in Consumers}
    BY <1>1, ProducerViews
  <2>3. Filled = T /\ Filled' = T + 1
    BY <1>1 DEF Filled
  <2>4. HeadIndex .. (T + 1 - 1) = (HeadIndex .. (T - 1)) \union {T}
    <3>1. ASSUME NEW a \in Int, NEW b \in Int, a <= b
          PROVE  a .. (b + 1 - 1) = (a .. (b - 1)) \union {b}
      BY <3>1
    <3>2. HeadIndex \in Int /\ T \in Int /\ HeadIndex <= T
      BY <1>1 DEF TypeOK
    <3> HIDE DEF T
    <3> QED BY <3>1, <3>2
  <2> QED BY <1>1, <2>1, <2>2, <2>3, <2>4 DEF Objects
<1>14. \A d \in Blocks, k \in Slots :
          slots'[d][k] = IF d = TailBlock /\ k = Off(T) THEN T ELSE slots[d][k]
  BY <1>1, <1>3, <1>4, PutOne, ZenonT(60)
<1>15. ASSUME NEW p \in Objects
       PROVE  /\ p \in Int /\ Num(p) \in Live /\ BlockOf(off, Num(p)) \in Blocks /\ Off(p) \in Slots
              /\ ~(BlockOf(off, Num(p)) = TailBlock /\ Off(p) = Off(T))
  <2>1. p \in Int /\ Num(p) \in Live
    BY <1>2, ObjectsLive
  <2>2. BlockOf(off, Num(p)) \in Blocks /\ Off(p) \in Slots
    BY <1>2, <2>1, DivMod DEF Listed
  <2>3. p # T
    BY <1>13
  <2> QED BY <1>1, <1>2, <1>3, <1>4, <2>1, <2>2, <2>3, SlotsApart
<1>16. Placed(off)'
  <2> SUFFICES ASSUME NEW p \in Objects' PROVE slots'[BlockOf(off, Num(p))][Off(p)] = p
    BY <1>7 DEF Placed
  <2>1. CASE p = T
    BY <2>1, <1>3, <1>4, <1>14
  <2>2. CASE p # T
    BY <2>2, <1>2, <1>13, <1>14, <1>15 DEF Placed
  <2> QED BY <2>1, <2>2
<1>17. NothingElse(off)'
  <2> SUFFICES ASSUME NEW b \in Blocks, NEW i \in Slots, slots'[b][i] # Raw
               PROVE  /\ slots'[b][i] \in Objects'
                      /\ b = BlockOf(off, Num(slots'[b][i])) /\ i = Off(slots'[b][i])
    BY <1>7 DEF NothingElse
  <2>1. CASE b = TailBlock /\ i = Off(T)
    BY <2>1, <1>3, <1>4, <1>13, <1>14
  <2>2. CASE ~(b = TailBlock /\ i = Off(T))
    BY <2>2, <1>2, <1>13, <1>14 DEF NothingElse
  <2> QED BY <2>1, <2>2
<1>18. Occupied(off)'
  BY <1>1, <1>2, <1>6, StillOccupied DEF Leaving, Body
<1> QED BY <1>1, <1>5, <1>9, <1>10, <1>11, <1>12, <1>16, <1>17, <1>18, StillConsumption DEF Body

\* A step of the call that does nothing but go on.
LEMMA StillRest ==
    ASSUME TypeOK, NEW off, NEW nq, Body(off, nq),
           UNCHANGED <<HeadIndex, emptied, slots, arrays, entries, manager, heap, con>>,
           Live' = Live, Held' = Held, Filled' = Filled,
           po.step \notin {"stopped", "rollBack"}, po'.step # "link"
    PROVE  /\ IndexOK' /\ Consumption(off)' /\ Aligned(off)' /\ Agree(off)' /\ Listed(off, nq)'
       /\ Window(off, nq)' /\ Occupied(off)'
           /\ Apart(off)' /\ AllThere(off)' /\ Counts(off)' /\ Placed(off)' /\ NothingElse(off)'
           /\ off \in [1 .. Cur -> Int] /\ off \in [1 .. Cur' -> Int] /\ nq \in Int
           /\ Current' = Current /\ Cur' = Cur
           /\ \A q : /\ Place(off, Cur, q)' = Place(off, Cur, q)
                     /\ KeyOf(off, q)' = KeyOf(off, q)
                     /\ BlockOf(off, q)' = BlockOf(off, q)
<1>2. /\ OffsetsOK(off, nq) /\ CallOK(off) /\ Apart(off) /\ AllThere(off) /\ ClaimsOK
      /\ Counts(off) /\ Placed(off) /\ NothingElse(off) /\ Listed(off, nq) /\ IndexOK
      /\ off \in [1 .. Cur -> Int] /\ nq \in Int
  BY DEF Body, Index, Consumption, TypeOK, OffsetsOK
<1>3. /\ Current' = Current /\ Cur' = Cur
      /\ \A q : /\ Place(off, Cur, q)' = Place(off, Cur, q)
                /\ KeyOf(off, q)' = KeyOf(off, q)
                /\ BlockOf(off, q)' = BlockOf(off, q)
  BY <1>2, StillIndex
<1>4. Listed(off, nq)'
  BY <1>2, StillListed, nq <= nq
<1>5. Apart(off)' /\ AllThere(off)'
  BY <1>2, <1>3, UsesKept DEF SameBlocks
<1>6. Counts(off)'
  BY <1>2, <1>3, CountsKept DEF SameBlocks
<1>7. Objects' = Objects
  <2>1. UNION {Untaken(c) : c \in Consumers}' = UNION {Untaken(c) : c \in Consumers}
    BY ProducerViews
  <2> QED BY <2>1 DEF Objects
<1>8. Placed(off)' /\ NothingElse(off)'
  BY <1>2, <1>3, <1>7, ObjectsKept
<1>9. IndexOK' /\ Consumption(off)' /\ Aligned(off)' /\ Agree(off)' /\ Window(off, nq)'
      /\ off \in [1 .. Cur' -> Int]
  BY StillConsumption
<1>10. Occupied(off)'
  BY <1>2, StillOccupied DEF Leaving, Body
<1> QED BY <1>2, <1>3, <1>4, <1>5, <1>6, <1>8, <1>9, <1>10

LEMMA DoBegin ==
    ASSUME TypeOK, NEW off, NEW nq, Body(off, nq), po.step = "idle",
           NEW bulk \in BOOLEAN, NEW mode \in Modes, NEW n \in Nat \ {0}, NEW need \in Nat,
           NEW base, base = Base(Begun), need = Num(TailIndex + n - 1) + 1 - Begun,
           ~bulk => n = 1 /\ Off(TailIndex) = 0 /\ need = 1,
           Begin(bulk, mode, n, need, base)
    PROVE  TypeOK' /\ Body(off, nq)'
<1>1. /\ UNCHANGED <<HeadIndex, TailIndex, TailBlock, emptied, slots, entries, arrays, manager, heap, con>>
      /\ po' = [step |-> IF need > 0 THEN "insert" ELSE "fill", bulk |-> bulk,
                mode |-> mode, n |-> n, need |-> need, base |-> base,
                old |-> TailBlock, block |-> NoBlock, taken |-> <<>>]
  BY DEF Begin, index, supply, blocks
<1>2. OffsetsOK(off, nq) /\ CallOK(off) /\ nq = Begun
  BY DEF Body, Index, OffsetsOK
<1>3. Begun \in Nat /\ Linked = Begun /\ Base(Begun) \in Int
  BY BegunIs, LinkedType DEF InCall
<1>4. po' \in Calls
  BY <1>1, <1>3 DEF Calls, CallSteps, TypeOK
<1>5. TypeOK'
  BY <1>1, <1>4 DEF TypeOK, IndexOK, Cur
<1>6. Begun' = Begun
  BY <1>1 DEF Begun
<1>7. /\ InCall' /\ po'.step = (IF need > 0 THEN "insert" ELSE "fill") /\ po'.taken = <<>>
      /\ po'.n = n /\ po'.need = need /\ po'.base = base /\ po'.old = TailBlock /\ po'.bulk = bulk
  BY <1>1 DEF InCall
<1>8. Linked' = Linked /\ Live' = Live
  <2>1. Linked' = Begun' + Len(po'.taken)
    BY <1>7 DEF Linked
  <2>2. Linked' = Linked
    BY <2>1, <1>3, <1>6, <1>7
  <2> QED BY <1>1, <1>5, <2>2, ProducerLive
<1>9. Held' = Held /\ Filled' = Filled
  BY <1>1, <1>7 DEF Held, Filled
<1>10. /\ IndexOK' /\ Consumption(off)' /\ Aligned(off)' /\ Agree(off)' /\ Listed(off, nq)'
       /\ Window(off, nq)' /\ Occupied(off)'
       /\ Apart(off)' /\ AllThere(off)' /\ Counts(off)' /\ Placed(off)' /\ NothingElse(off)'
       /\ off \in [1 .. Cur' -> Int] /\ nq \in Int
       /\ Current' = Current /\ Cur' = Cur
       /\ \A q : /\ Place(off, Cur, q)' = Place(off, Cur, q)
                 /\ KeyOf(off, q)' = KeyOf(off, q)
                 /\ BlockOf(off, q)' = BlockOf(off, q)
  BY <1>1, <1>7, <1>8, <1>9, StillRest
<1>11. OffsetsOK(off, nq)'
  BY <1>2, <1>3, <1>6, <1>7, <1>8, <1>10 DEF OffsetsOK
<1>12. Underway(off, nq)'
  BY <1>7 DEF Underway
<1>13. CallOK(off)'
  <2>1. Linked' + need = Num(TailIndex' + n - 1) + 1
    <3>1. Num(TailIndex + n - 1) \in Int
      <4>1. TailIndex + n - 1 \in Int
        BY DEF TypeOK
      <4> QED BY <4>1, DivMod
    <3> QED BY <3>1, <1>1, <1>3, <1>8
  <2>2. Off(TailIndex') # 0 => po'.old = BlockOf(off, Begun - 1)'
    BY <1>1, <1>2, <1>6, <1>7, <1>10 DEF CallOK
  <2>3. IF Taking' THEN need >= 1 ELSE need = 0
    BY <1>7 DEF Taking
  <2>4. ~bulk => po'.step # "fill" /\ Off(TailIndex') = 0
    BY <1>1, <1>7
  <2> QED BY <1>1, <1>7, <2>1, <2>2, <2>3, <2>4 DEF CallOK
<1> QED BY <1>5, <1>10, <1>11, <1>12, <1>13 DEF Body, Index

LEMMA DoEnqueueBoundary ==
    ASSUME TypeOK, NEW off, NEW nq, Body(off, nq), NEW mode \in Modes, EnqueueBoundary(mode)
    PROVE  TypeOK' /\ Body(off, nq)'
<1>1. TailIndex \in Nat /\ po.step = "idle" /\ Off(TailIndex) = 0 /\ Begin(FALSE, mode, 1, 1, TailIndex)
  BY DEF EnqueueBoundary, TypeOK, Off
<1>2. TailIndex = Base(Begun) /\ Num(TailIndex) = Begun /\ Begun \in Nat
  BY <1>1, BegunIs
<1>3. TailIndex + 1 - 1 = TailIndex
  BY <1>1
<1>4. 1 = Num(TailIndex + 1 - 1) + 1 - Begun
  BY <1>2, <1>3
<1> QED BY <1>1, <1>2, <1>4, DoBegin, 1 \in Nat \ {0}, FALSE \in BOOLEAN

LEMMA DoBulkStart ==
    ASSUME TypeOK, NEW off, NEW nq, Body(off, nq), NEW mode \in Modes, NEW n \in BulkCounts,
           BulkStart(mode, n)
    PROVE  TypeOK' /\ Body(off, nq)'
<1> DEFINE need == Num(TailIndex + n - 1) - Num(TailIndex - 1)
           base == Num(TailIndex - 1) * BlockSize + BlockSize
<1>1. TailIndex \in Nat /\ po.step = "idle" /\ n \in Nat \ {0} /\ Begin(TRUE, mode, n, need, base)
  BY SizesAssumption DEF BulkStart, TypeOK, Num
<1>2. /\ Num(TailIndex - 1) \in Int /\ Num(TailIndex + n - 1) \in Int
      /\ Num(TailIndex - 1) <= Num(TailIndex + n - 1)
  <2>1. TailIndex - 1 \in Int /\ TailIndex + n - 1 \in Int /\ TailIndex - 1 <= TailIndex + n - 1
    BY <1>1
  <2> QED BY <2>1, DivMod, NumOrder
<1>3. base = Base(Begun)
  <2>1. Base(Num(TailIndex - 1) + 1) = Base(Num(TailIndex - 1)) + BlockSize
    BY <1>2, BaseStep
  <2> QED BY <2>1 DEF Begun, Base
<1>4. need \in Nat /\ need = Num(TailIndex + n - 1) + 1 - Begun
  BY <1>2 DEF Begun
<1> HIDE DEF need, base
<1> QED BY <1>1, <1>3, <1>4, DoBegin, TRUE \in BOOLEAN

LEMMA RollBackCall ==
    ASSUME NEW p \in Calls
    PROVE  LET r == [p EXCEPT !.step = "rollBack", !.need = 1]
           IN  /\ r \in Calls /\ r.step = "rollBack" /\ r.need = 1
               /\ r.n = p.n /\ r.old = p.old /\ r.taken = p.taken
BY DEF Calls, CallSteps

LEMMA GivenUpIs ==
    ASSUME TypeOK, InCall, po' = GivenUp
    PROVE  /\ po' \in [step : {"idle", "stopped", "gone"}] \union Calls
           /\ ~po.bulk => po'.step = "idle"
           /\ po.bulk => /\ po' \in Calls /\ po'.step = "rollBack" /\ po'.need = 1
                         /\ po'.n = po.n /\ po'.old = po.old /\ po'.taken = po.taken
<1>1. po \in Calls
  BY InCallTypes
<1>2. CASE po.bulk
  BY <1>1, <1>2, RollBackCall DEF GivenUp
<1>3. CASE ~po.bulk
  BY <1>3 DEF GivenUp, NoCall
<1> QED BY <1>2, <1>3

\* A call of Enqueue that got no further has taken no block.
LEMMA EnqueueTakesOne ==
    ASSUME TypeOK, NEW off, CallOK(off), InCall, Taking, ~po.bulk
    PROVE  Linked = Begun /\ po.taken = <<>> /\ po.need = 1 /\ po.n = 1 /\ Off(TailIndex) = 0
<1>1. po.n = 1 /\ Off(TailIndex) = 0 /\ po.need >= 1 /\ po.need \in Nat
      /\ Linked + po.need = Num(TailIndex + po.n - 1) + 1 /\ po.taken \in Seq(Blocks)
  BY InCallTypes DEF CallOK
<1>2. Num(TailIndex) = Begun /\ Begun \in Nat /\ TailIndex + 1 - 1 = TailIndex
  BY <1>1, BegunIs DEF TypeOK
<1>3. Linked = Begun + Len(po.taken) /\ Len(po.taken) \in Nat
  BY LinkedType
<1>4. Len(po.taken) = 0 /\ po.need = 1
  BY <1>1, <1>2, <1>3
<1>5. po.taken = <<>>
  BY <1>1, <1>4
<1>6. Linked = Begun
  BY <1>2, <1>3, <1>4
<1> QED BY <1>1, <1>4, <1>5, <1>6

\* The blocks a call has taken are those of the numbers after the published ones.
LEMMA TakenAre ==
    ASSUME TypeOK, NEW off, CallOK(off), InCall
    PROVE  /\ \A k \in DOMAIN po.taken : /\ Begun + k - 1 \in Live /\ Begun + k - 1 >= Begun
                                         /\ po.taken[k] = BlockOf(off, Begun + k - 1)
           /\ \A q \in Live : q >= Begun => /\ q - Begun + 1 \in DOMAIN po.taken
                                            /\ BlockOf(off, q) = po.taken[q - Begun + 1]
<1>1. Begun \in Nat /\ Linked = Begun + Len(po.taken) /\ Len(po.taken) \in Nat
      /\ DOMAIN po.taken = 1 .. Len(po.taken)
  BY BegunIs, LinkedType, InCallTypes
<1>2. ASSUME NEW k \in DOMAIN po.taken
      PROVE  Begun + k - 1 \in Live /\ Begun + k - 1 >= Begun
             /\ po.taken[k] = BlockOf(off, Begun + k - 1)
  <2>1. Begun + k - 1 \in Int /\ Begun <= Begun + k - 1 /\ Begun + k - 1 < Linked
    BY <1>1
  <2>2. Begun + k - 1 \in Live
    BY <2>1, TakenLive
  <2> QED BY <2>1, <2>2 DEF CallOK
<1>3. ASSUME NEW q \in Live, q >= Begun
      PROVE  /\ q - Begun + 1 \in DOMAIN po.taken
             /\ BlockOf(off, q) = po.taken[q - Begun + 1]
  <2>1. q \in Nat /\ q < Linked
    BY LiveType
  <2>2. q - Begun + 1 \in DOMAIN po.taken /\ Begun + (q - Begun + 1) - 1 = q
    BY <1>1, <1>3, <2>1
  <2> QED BY <2>2 DEF CallOK
<1> QED BY <1>2, <1>3

\* A call that gives up: the blocks it took are in its hand.
LEMMA GiveUp ==
    ASSUME TypeOK, TypeOK', NEW off, NEW nq, Body(off, nq), InCall,
           po.step \in {"insert", "block", "fill"}, po' = GivenUp,
           UNCHANGED <<HeadIndex, TailIndex, TailBlock, emptied, manager, heap, con>>,
           SameArrays, \A q \in Live : BlockOf(off, q)' = BlockOf(off, q),
           \A q \in Int : BlockOf(off, q)' \in {NoBlock, BlockOf(off, q)}
    PROVE  /\ Live' = {q \in Live : q < Begun} /\ Begun' = Begun /\ Linked' = Begun
           /\ po'.step \in {"idle", "rollBack"} /\ Objects' = Objects
           /\ po'.step = "idle" => Linked = Begun
           /\ po'.step = "rollBack" => po'.need = 1 /\ po'.taken = po.taken /\ po'.n = po.n
           /\ Apart(off)' /\ AllThere(off)' /\ Counts(off)' /\ CallOK(off)'
           /\ Occupied(off)'
<1>1. /\ CallOK(off) /\ Apart(off) /\ AllThere(off) /\ Counts(off) /\ Listed(off, nq)
  BY DEF Body, Index
<1>2. Begun' = Begun /\ Begun \in Nat /\ Linked \in Nat /\ Begun <= Linked
  BY BegunIs, LinkedType DEF Begun
<1>3. /\ ~po.bulk => po'.step = "idle"
      /\ po.bulk => /\ po' \in Calls /\ po'.step = "rollBack" /\ po'.need = 1
                    /\ po'.n = po.n /\ po'.old = po.old /\ po'.taken = po.taken
      /\ po.bulk \in BOOLEAN
  BY GivenUpIs, InCallTypes
<1>4. ~po.bulk => /\ Linked = Begun /\ po.taken = <<>> /\ Off(TailIndex) = 0
  <2>1. ~po.bulk => Taking
    BY <1>1 DEF CallOK, Taking
  <2> QED BY <1>1, <2>1, EnqueueTakesOne
<1>5. Linked' = Begun /\ ~InCall' /\ po'.step \in {"idle", "rollBack"}
  <2>1. ~InCall' /\ po'.step \in {"idle", "rollBack"}
    BY <1>3 DEF InCall
  <2> QED BY <2>1, <1>2, LinkedNext
<1>6. Live' = {q \in Live : q < Begun}
  BY <1>2, <1>5, ProducerLive
<1>7. Objects' = Objects
  <2>1. UNION {Untaken(c) : c \in Consumers}' = UNION {Untaken(c) : c \in Consumers}
    BY ProducerViews
  <2>2. Filled' = Filled
    BY <1>5 DEF Filled
  <2> QED BY <2>1, <2>2 DEF Objects
<1> DEFINE Hand == {po.taken[k] : k \in DOMAIN po.taken}
<1>8. Held = {} /\ Held' = Hand
  <2>1. Held = {}
    BY DEF Held
  <2>2. CASE po.bulk
    BY <2>2, <1>3 DEF Held
  <2>3. CASE ~po.bulk
    BY <2>3, <1>3, <1>4 DEF Held
  <2> QED BY <2>1, <2>2, <2>3, <1>3
<1>9. /\ \A k \in DOMAIN po.taken : /\ Begun + k - 1 \in Live /\ Begun + k - 1 >= Begun
                                    /\ po.taken[k] = BlockOf(off, Begun + k - 1)
      /\ \A q \in Live : q >= Begun => /\ q - Begun + 1 \in DOMAIN po.taken
                                       /\ BlockOf(off, q) = po.taken[q - Begun + 1]
  BY <1>1, TakenAre
<1>10. /\ \A x \in Hand : \E q \in Live : q >= Begun /\ x = BlockOf(off, q)
       /\ \A q \in Live : q >= Begun => BlockOf(off, q) \in Hand
  BY <1>9
<1>11. InHand' = InHand
  BY ProducerViews
<1>12. Apart(off)'
  <2>1. \A q, r \in Live' : BlockOf(off, q)' = BlockOf(off, r)' => q = r
    BY <1>1, <1>6 DEF Apart
  <2>2. \A q \in Live' : BlockOf(off, q) \notin Hand
    <3> SUFFICES ASSUME NEW q \in Live', BlockOf(off, q) \in Hand PROVE FALSE
      OBVIOUS
    <3>1. PICK r \in Live : r >= Begun /\ BlockOf(off, q) = BlockOf(off, r)
      BY <1>10
    <3>2. q \in Live /\ q < Begun
      BY <1>6
    <3>3. q = r
      BY <1>1, <3>1, <3>2 DEF Apart
    <3>4. q \in Nat
      BY <3>2, LiveType
    <3> QED BY <3>1, <3>2, <3>3, <3>4, <1>2
  <2>3. \A q \in Live' : BlockOf(off, q)' \notin manager \union heap \union InHand \union Hand
    BY <1>1, <1>6, <2>2 DEF Apart
  <2>4. Hand \intersect (manager \union heap) = {} /\ InHand \intersect Hand = {}
    BY <1>1, <1>10 DEF Apart
  <2> HIDE DEF Hand
  <2> QED BY <1>1, <1>8, <1>11, <2>1, <2>3, <2>4 DEF Apart
<1>13. AllThere(off)'
  <2> SUFFICES ASSUME NEW b \in Blocks
               PROVE  b \in manager \union heap \union InHand \union Hand
                        \/ \E q \in Live' : b = BlockOf(off, q)'
    BY <1>8, <1>11 DEF AllThere
  <2>1. CASE b \in manager \union heap \union InHand
    BY <2>1
  <2>2. CASE \E q \in Live : b = BlockOf(off, q)
    <3>1. PICK q \in Live : b = BlockOf(off, q)
      BY <2>2
    <3>2. CASE q >= Begun
      BY <3>1, <3>2, <1>10
    <3>3. CASE ~(q >= Begun)
      <4>1. q \in Nat
        BY LiveType
      <4> QED BY <3>1, <3>3, <4>1, <1>2, <1>6
    <3> QED BY <3>2, <3>3
  <2> QED BY <2>1, <2>2, <1>1, <1>8 DEF AllThere
<1>14. Counts(off)'
  BY <1>1, <1>5, <1>6, CountsKept DEF SameBlocks
<1>15. CallOK(off)'
  <2>1. Off(TailIndex) # 0 => BlockOf(off, Begun - 1)' = BlockOf(off, Begun - 1)
    <3> SUFFICES ASSUME Off(TailIndex) # 0
                 PROVE  BlockOf(off, Begun - 1)' = BlockOf(off, Begun - 1)
      OBVIOUS
    <3>1. PICK b : b = Begun - 1
      OBVIOUS
    <3>2. b \in Live
      BY <3>1, TailLive
    <3>3. BlockOf(off, Begun - 1)' = BlockOf(off, b)'
      BY <1>2, <3>1 DEF BlockOf, EntryOf, Place
    <3> QED BY <3>1, <3>2, <3>3
  <2>2. CASE ~po.bulk
    BY <2>2, <1>3, <1>4, <1>5 DEF CallOK
  <2>3. CASE po.bulk
    <3>1. 1 \in 1 .. (Len(po.taken) + 1)
      BY InCallTypes
    <3>2. po'.step = "rollBack" /\ po'.need = 1 /\ po'.n = po.n /\ po'.old = po.old
          /\ po'.taken = po.taken
      BY <2>3, <1>3
    <3>3. Off(TailIndex') # 0 => po'.old = BlockOf(off, Begun - 1)'
      <4>1. Off(TailIndex) # 0 => po.old = BlockOf(off, Begun - 1)
        BY <1>1 DEF CallOK
      <4> QED BY <2>1, <3>2, <4>1
    <3>4. po'.n >= 1
      BY <3>2, <1>1 DEF CallOK
    <3> QED BY <3>1, <3>2, <3>3, <3>4, <1>5 DEF CallOK
  <2> QED BY <2>2, <2>3, <1>3
<1>16. Occupied(off)'
  <2>1. Live \union Leaving \subseteq (Live \union Leaving)'
    <3> SUFFICES ASSUME NEW r \in Live, r >= Begun PROVE r \in Leaving'
      <4>1. Leaving = {}
        BY DEF Leaving
      <4>2. \A r \in Live : r \in Nat
        BY LiveType
      <4> QED BY <1>2, <1>6, <4>1, <4>2
    <3>1. po.bulk
      BY <1>2, <1>4, LiveType
    <3>2. r - Begun + 1 \in DOMAIN po.taken /\ r \in Nat
      BY <1>9, LiveType
    <3>3. r - Begun + 1 \in 1 .. Len(po.taken) /\ r = Begun + (r - Begun + 1) - 1
      BY <1>2, <3>2, InCallTypes
    <3>4. Leaving' = {Begun + k - 1 : k \in 1 .. Len(po.taken)}
      BY <1>2, <1>3, <3>1 DEF Leaving
    <3> QED BY <3>3, <3>4
  <2>2. off \in [1 .. Cur -> Int] /\ Occupied(off)
    BY DEF Body, Index, OffsetsOK
  <2> QED BY <2>1, <2>2, OccupiedKept
<1> QED BY <1>2, <1>3, <1>4, <1>5, <1>6, <1>7, <1>12, <1>13, <1>14, <1>15, <1>16

LEMMA IdleCall == NoCall \in [step : {"idle", "stopped", "gone"}] \union Calls /\ NoCall.step = "idle"
BY DEF NoCall

\* What a call that gives up without touching the index leaves there.
LEMMA GiveUpIndex ==
    ASSUME TypeOK, NEW off, NEW nq, Body(off, nq), po.step \in {"insert", "fill"}, po' = GivenUp,
           UNCHANGED <<HeadIndex, TailIndex, TailBlock, emptied, manager, heap, con, arrays, entries>>,
           slots' \in [Blocks -> [Slots -> Nat \union {Raw}]]
    PROVE  /\ TypeOK' /\ Index(off, nq)' /\ Consumption(off)' /\ CallOK(off)'
           /\ Apart(off)' /\ AllThere(off)' /\ Counts(off)' /\ Objects' = Objects
           /\ Occupied(off)'
           /\ \A q : BlockOf(off, q)' = BlockOf(off, q)
<1>1. InCall
  BY DEF InCall
<1>2. /\ OffsetsOK(off, nq) /\ CallOK(off) /\ Listed(off, nq) /\ IndexOK
      /\ off \in [1 .. Cur -> Int] /\ nq \in Int /\ nq = Linked
  BY DEF Body, Index, TypeOK, OffsetsOK
<1>3. /\ Current' = Current /\ Cur' = Cur
      /\ \A q : /\ Place(off, Cur, q)' = Place(off, Cur, q)
                /\ KeyOf(off, q)' = KeyOf(off, q)
                /\ BlockOf(off, q)' = BlockOf(off, q)
  BY <1>2, StillIndex
<1>4. /\ IndexOK' /\ Consumption(off)' /\ Aligned(off)' /\ Agree(off)' /\ Window(off, nq)'
      /\ off \in [1 .. Cur' -> Int]
  BY StillConsumption
<1>5. TypeOK'
  <2>1. po' \in [step : {"idle", "stopped", "gone"}] \union Calls
    BY <1>1, GivenUpIs
  <2> QED BY <1>4, <2>1 DEF TypeOK
<1>6. /\ Live' = {q \in Live : q < Begun} /\ Begun' = Begun /\ Linked' = Begun
      /\ po'.step \in {"idle", "rollBack"} /\ Objects' = Objects
      /\ po'.step = "idle" => Linked = Begun
      /\ po'.step = "rollBack" => po'.need = 1 /\ po'.taken = po.taken /\ po'.n = po.n
      /\ Apart(off)' /\ AllThere(off)' /\ Counts(off)' /\ CallOK(off)' /\ Occupied(off)'
  <2>1. SameArrays
    BY <1>2, StillIndex
  <2> QED BY <1>1, <1>3, <1>5, <2>1, GiveUp
<1>7. Begun \in Nat /\ Linked = Begun + Len(po.taken) /\ Len(po.taken) \in Nat
  BY <1>1, BegunIs, LinkedType
<1>8. OffsetsOK(off, nq)'
  <2>1. Current.tail' = Place(off, Cur, nq - 1)'
    BY <1>2, <1>3 DEF OffsetsOK
  <2>2. nq >= Begun'
    BY <1>2, <1>6, <1>7
  <2>3. po'.step = "rollBack" => nq = Begun' + Len(po'.taken) - po'.need + 1
    BY <1>2, <1>6, <1>7
  <2>4. po'.step = "idle" => nq = Begun'
    BY <1>2, <1>6
  <2> QED BY <1>2, <1>4, <1>6, <2>1, <2>2, <2>3, <2>4 DEF OffsetsOK
<1>9. Listed(off, nq)'
  BY <1>2, <1>6, StillListed, nq <= nq
<1>10. Underway(off, nq)'
  <2>1. ASSUME NEW k \in DOMAIN po.taken PROVE KeyOf(off, Begun + k - 1) = Base(Begun + k - 1)
    <3>1. Begun + k - 1 \in Live
      BY <1>1, <1>2, TakenAre
    <3> QED BY <3>1, <1>2 DEF Listed
  <2>2. po'.step = "rollBack" =>
           \A k \in DOMAIN po'.taken : KeyOf(off, Begun + k - 1)' = Base(Begun' + k - 1)
    <3> SUFFICES ASSUME po'.step = "rollBack", NEW k \in DOMAIN po.taken
                 PROVE  KeyOf(off, Begun + k - 1)' = Base(Begun + k - 1)
      BY <1>6
    <3>1. PICK r : r = Begun + k - 1
      OBVIOUS
    <3>2. KeyOf(off, Begun + k - 1)' = KeyOf(off, r)'
      BY <1>6, <3>1 DEF KeyOf, EntryOf, Place
    <3> QED BY <1>3, <2>1, <3>1, <3>2
  <2> QED BY <1>6, <2>2 DEF Underway
<1> QED BY <1>3, <1>4, <1>5, <1>6, <1>8, <1>9, <1>10 DEF Index

LEMMA DoInsertFails ==
    ASSUME TypeOK, NEW off, NEW nq, Body(off, nq), InsertFails
    PROVE  TypeOK' /\ Body(off, nq)'
<1>1. /\ po.step = "insert" /\ po' = GivenUp
      /\ UNCHANGED <<HeadIndex, TailIndex, TailBlock, emptied, manager, heap, con, arrays, entries, slots>>
  BY DEF InsertFails, blocks, index, supply
<1>2. slots' \in [Blocks -> [Slots -> Nat \union {Raw}]]
  BY <1>1 DEF TypeOK
<1>3. /\ TypeOK' /\ Index(off, nq)' /\ Consumption(off)' /\ CallOK(off)'
      /\ Apart(off)' /\ AllThere(off)' /\ Counts(off)' /\ Objects' = Objects
      /\ Occupied(off)'
      /\ \A q : BlockOf(off, q)' = BlockOf(off, q)
  BY <1>1, <1>2, GiveUpIndex
<1>4. Placed(off)' /\ NothingElse(off)'
  BY <1>1, <1>3, ObjectsKept DEF Body, Consumption
<1> QED BY <1>3, <1>4 DEF Body

LEMMA DoRequireThrows ==
    ASSUME TypeOK, NEW off, NEW nq, Body(off, nq), RequireThrows, "retry" \notin Faults
    PROVE  TypeOK' /\ Body(off, nq)'
<1>1. /\ po.step = "block" /\ po' = [step |-> "stopped"] /\ po'.step = "stopped"
      /\ UNCHANGED <<HeadIndex, TailIndex, TailBlock, emptied, manager, heap, con, arrays, entries, slots>>
  BY DEF RequireThrows, blocks, index, supply
<1>2. /\ OffsetsOK(off, nq) /\ CallOK(off) /\ Listed(off, nq) /\ IndexOK /\ Apart(off) /\ Counts(off)
      /\ off \in [1 .. Cur -> Int] /\ nq \in Int /\ nq >= Begun /\ Placed(off) /\ NothingElse(off)
      /\ ClaimsOK
  BY DEF Body, Index, TypeOK, OffsetsOK, Consumption
<1>3. /\ Current' = Current /\ Cur' = Cur
      /\ \A q : /\ Place(off, Cur, q)' = Place(off, Cur, q)
                /\ BlockOf(off, q)' = BlockOf(off, q)
  BY <1>1, <1>2, StillIndex
<1>4. /\ IndexOK' /\ Consumption(off)' /\ Aligned(off)' /\ Agree(off)' /\ Window(off, nq)'
      /\ off \in [1 .. Cur' -> Int]
  BY <1>1, StillConsumption
<1>5. TypeOK'
  BY <1>1, <1>4 DEF TypeOK
<1>6. Live' \subseteq Live /\ Begun' = Begun
  <2>1. Begun' = Begun /\ ~InCall'
    BY <1>1 DEF Begun, InCall
  <2>2. Linked' <= Linked
    BY <1>5, <2>1, LinkedNext, LinkedType
  <2> QED BY <1>1, <1>5, <2>1, <2>2, ProducerLive
<1>7. Index(off, nq)'
  <2>1. OffsetsOK(off, nq)'
    BY <1>1, <1>2, <1>3, <1>4, <1>6 DEF OffsetsOK
  <2>2. Listed(off, nq)'
    BY <1>1, <1>2, <1>6, StillListed, nq <= nq
  <2>3. Underway(off, nq)'
    BY <1>1 DEF Underway
  <2> QED BY <1>4, <2>1, <2>2, <2>3 DEF Index
<1>8. CallOK(off)'
  BY <1>1 DEF CallOK, InCall
<1>9. Apart(off)' /\ AllThere(off)'
  <2>1. InHand' = InHand
    BY <1>1, ProducerViews
  <2>2. Held = {} /\ Held' = {}
    BY <1>1 DEF Held
  <2> QED BY <1>1, <1>2, <1>3, <1>6, <2>1, <2>2 DEF Apart, AllThere
<1>10. Counts(off)'
  BY <1>1, <1>2, <1>3, <1>6, CountsKept DEF SameBlocks
<1>11. Placed(off)' /\ NothingElse(off)'
  <2>1. UNION {Untaken(c) : c \in Consumers}' = UNION {Untaken(c) : c \in Consumers}
    BY <1>1, ProducerViews
  <2>2. Objects' = Objects
    BY <1>1, <2>1 DEF Objects, Filled
  <2> QED BY <1>1, <1>2, <1>3, <2>2, ObjectsKept
<1>12. Occupied(off)'
  BY <1>1 DEF Occupied
<1> QED BY <1>4, <1>5, <1>7, <1>8, <1>9, <1>10, <1>11, <1>12 DEF Body

LEMMA DoPublish ==
    ASSUME TypeOK, NEW off, NEW nq, Body(off, nq), Publish
    PROVE  TypeOK' /\ Body(off, nq)'
<1> DEFINE T == TailIndex
           n == po.n
<1>1. /\ po.step = "publish" /\ po' = NoCall /\ po'.step = "idle" /\ TailIndex' = T + n
      /\ UNCHANGED <<HeadIndex, TailBlock, emptied, manager, heap, con, arrays, entries, slots>>
  BY IdleCall DEF Publish, blocks, index, supply
<1>2. InCall /\ ~Taking
  BY <1>1 DEF InCall, Taking
<1>3. /\ n \in Nat /\ n >= 1 /\ T \in Nat /\ Linked = Num(T + n - 1) + 1 /\ nq = Linked
      /\ po.taken \in Seq(Blocks)
      /\ TailBlock = IF po.taken = <<>> THEN po.old ELSE po.taken[Len(po.taken)]
      /\ Off(T) # 0 => po.old = BlockOf(off, Begun - 1)
      /\ \A k \in DOMAIN po.taken : po.taken[k] = BlockOf(off, Begun + k - 1)
  <2>1. Linked + po.need = Num(T + n - 1) + 1 /\ po.need = 0 /\ CallOK(off) /\ Linked \in Nat
    BY <1>2, LinkedType DEF Body, CallOK
  <2>2. nq = Linked
    BY <1>1 DEF Body, Index, OffsetsOK
  <2> QED BY <1>2, <2>1, <2>2, InCallTypes DEF CallOK, TypeOK
<1>4. TypeOK'
  <2>1. IndexOK'
    BY <1>1, StillConsumption
  <2>2. TailIndex' \in Nat /\ HeadIndex' <= TailIndex'
    BY <1>1, <1>3 DEF TypeOK
  <2>3. po' \in [step : {"idle", "stopped", "gone"}] \union Calls
    BY <1>1, IdleCall
  <2> QED BY <1>1, <2>1, <2>2, <2>3 DEF TypeOK
<1>5. Begun' = Linked /\ Linked' = Linked /\ Live' = Live /\ ~InCall'
  <2>1. Begun' = Num(T + n - 1) + 1
    <3>1. TailIndex' - 1 = T + n - 1
      BY <1>1, <1>3
    <3>2. Begun' = Num(TailIndex' - 1) + 1
      BY DEF Begun
    <3> QED BY <3>1, <3>2
  <2>2. ~InCall'
    BY <1>1 DEF InCall
  <2>3. Linked' = Begun'
    BY <1>4, <2>2, LinkedNext
  <2> QED BY <1>1, <1>3, <1>4, <2>1, <2>2, <2>3, ProducerLive
<1>6. Held' = Held /\ Filled' = Filled
  <2>1. Held' = Held
    BY <1>1 DEF Held
  <2>2. Filled = T + n /\ Filled' = (T + n) + 0
    BY <1>1 DEF Filled
  <2> QED BY <1>3, <2>1, <2>2
<1>7. /\ IndexOK' /\ Consumption(off)' /\ Aligned(off)' /\ Agree(off)' /\ Listed(off, nq)'
      /\ Window(off, nq)' /\ Occupied(off)'
      /\ Apart(off)' /\ AllThere(off)' /\ Counts(off)' /\ Placed(off)' /\ NothingElse(off)'
      /\ off \in [1 .. Cur' -> Int] /\ nq \in Int
      /\ Current' = Current /\ Cur' = Cur
      /\ \A q : /\ Place(off, Cur, q)' = Place(off, Cur, q)
                /\ BlockOf(off, q)' = BlockOf(off, q)
  BY <1>1, <1>5, <1>6, StillRest
<1>8. OffsetsOK(off, nq)'
  <2>1. Current.tail' = Place(off, Cur, nq - 1)'
    BY <1>7 DEF Body, Index, OffsetsOK
  <2>2. nq >= Begun'
    BY <1>3, <1>5, <1>7
  <2> QED BY <1>1, <1>3, <1>5, <1>7, <2>1, <2>2 DEF OffsetsOK
<1>9. Underway(off, nq)'
  BY <1>1 DEF Underway
<1>10. TailBlock = BlockOf(off, Linked - 1)
  <2>1. CASE po.taken = <<>>
    <3>1. Linked = Begun /\ Begun \in Nat
      BY <2>1, <1>2, BegunIs, LinkedType
    <3>2. Off(T) # 0
      <4> SUFFICES ASSUME Off(T) = 0 PROVE FALSE
        OBVIOUS
      <4>1. Num(T) = Begun
        BY BegunIs
      <4>2. T \in Int /\ T + n - 1 \in Int /\ T <= T + n - 1
        BY <1>3
      <4>3. Num(T) <= Num(T + n - 1) /\ Num(T + n - 1) \in Int
        BY <4>2, NumOrder, DivMod
      <4> QED BY <3>1, <4>1, <4>3, <1>3
    <3> QED BY <2>1, <3>1, <3>2, <1>3
  <2>2. CASE po.taken # <<>>
    <3>1. Linked = Begun + Len(po.taken) /\ Len(po.taken) \in Nat /\ Begun \in Nat
      BY <1>2, BegunIs, LinkedType
    <3>2. Len(po.taken) \in DOMAIN po.taken
      BY <2>2, <1>3
    <3> QED BY <2>2, <3>1, <3>2, <1>3
  <2> QED BY <2>1, <2>2
<1>11. CallOK(off)'
  <2>1. PICK r : r = Linked - 1
    OBVIOUS
  <2>2. BlockOf(off, Begun - 1)' = BlockOf(off, r)'
    BY <1>5, <2>1 DEF BlockOf, EntryOf, Place
  <2>3. TailBlock' = BlockOf(off, Begun - 1)'
    BY <1>1, <1>7, <1>10, <2>1, <2>2
  <2> QED BY <1>1, <1>5, <2>3 DEF CallOK
<1> QED BY <1>4, <1>7, <1>8, <1>9, <1>11 DEF Body, Index

\* The slots of the items of a bulk call are those of their positions.
LEMMA SpanIs ==
    ASSUME TypeOK, NEW off, CallOK(off), po.step = "fill",
           NEW p \in TailIndex .. (TailIndex + po.n - 1)
    PROVE  LET span == IF TailIndex % BlockSize = 0 THEN po.taken ELSE <<po.old>> \o po.taken
           IN  /\ span[(p - BaseOf(TailIndex)) \div BlockSize + 1] = BlockOf(off, Num(p))
               /\ Num(p) \in Live /\ p \in Nat
<1> DEFINE T == TailIndex
           n == po.n
           q == Num(p)
           span == IF TailIndex % BlockSize = 0 THEN po.taken ELSE <<po.old>> \o po.taken
<1>1. InCall /\ ~Taking
  BY DEF InCall, Taking
<1>2. /\ n \in Nat /\ n >= 1 /\ T \in Nat /\ T \in Int /\ p \in Nat /\ p \in Int /\ T <= p /\ p <= T + n - 1
      /\ T + n - 1 \in Int
      /\ po.taken \in Seq(Blocks) /\ po.old \in Blocks \union {NoBlock}
  BY <1>1, InCallTypes DEF TypeOK, CallOK
<1>3. /\ Linked = Num(T + n - 1) + 1 /\ Begun \in Nat /\ Linked = Begun + Len(po.taken)
      /\ Len(po.taken) \in Nat
  <2>1. Linked + po.need = Num(T + n - 1) + 1 /\ po.need = 0 /\ Linked \in Nat
    BY <1>1, LinkedType DEF CallOK
  <2> QED BY <1>1, <2>1, BegunIs, LinkedType
<1>4. q \in Int /\ Num(T) \in Int /\ Num(T) <= q /\ q < Linked
  <2>1. Num(T) <= Num(p) /\ Num(p) <= Num(T + n - 1) /\ Num(T + n - 1) \in Int /\ Num(p) \in Int
        /\ Num(T) \in Int
    BY <1>2, NumOrder, DivMod
  <2> QED BY <2>1, <1>3
<1>5. (p - BaseOf(T)) \div BlockSize = q - Num(T)
  <2>1. BaseOf(T) = Base(Num(T)) /\ Base(Num(T)) \in Int
    BY <1>2, <1>4, BaseOfIs, BaseStep
  <2>2. p = Base(q) + Off(p) /\ Base(q) \in Int /\ Off(p) \in Slots
    BY <1>2, <1>4, DivMod, BaseStep
  <2>3. Base(q) - Base(Num(T)) = Base(q - Num(T))
    BY <1>4, SizesAssumption DEF Base
  <2>4. q - Num(T) \in Int
    BY <1>4
  <2>5. Base(q - Num(T)) \in Int
    BY <2>4, BaseStep
  <2>6. p - BaseOf(T) = Base(q - Num(T)) + Off(p)
    <3>1. Off(p) \in Int
      BY <2>2 DEF Slots
    <3> QED BY <2>1, <2>2, <2>3, <2>5, <3>1
  <2>7. Num(Base(q - Num(T)) + Off(p)) = q - Num(T)
    BY <2>2, <2>4, NumOf
  <2> QED BY <2>6, <2>7 DEF Num
<1>6. \A r \in Live : r >= Begun => /\ r - Begun + 1 \in DOMAIN po.taken
                                    /\ BlockOf(off, r) = po.taken[r - Begun + 1]
  BY <1>1, TakenAre
<1>7. q >= Begun => q \in Live
  BY <1>4, TakenLive
<1>8. CASE Off(T) = 0
  <2>1. Num(T) = Begun /\ span = po.taken
    BY <1>8, BegunIs DEF Off
  <2>2. q \in Live /\ q >= Begun
    BY <1>4, <1>7, <2>1
  <2> QED BY <1>2, <1>5, <1>6, <2>1, <2>2
<1>9. CASE Off(T) # 0
  <2>1. Num(T) = Begun - 1 /\ span = <<po.old>> \o po.taken /\ Begun - 1 \in Live
    BY <1>9, BegunIs, TailLive DEF Off
  <2>2. po.old = BlockOf(off, Begun - 1)
    BY <1>1, <1>9 DEF CallOK
  <2>3. CASE q = Begun - 1
    <3>1. (p - BaseOf(T)) \div BlockSize + 1 = 1
      BY <1>3, <1>5, <2>1, <2>3
    <3>2. (<<po.old>> \o po.taken)[1] = po.old
      BY <1>2
    <3> QED BY <1>2, <2>1, <2>2, <2>3, <3>1, <3>2
  <2>4. CASE q # Begun - 1
    <3>1. q \in Live /\ q >= Begun
      BY <1>3, <1>4, <1>7, <2>1, <2>4
    <3>2. (p - BaseOf(T)) \div BlockSize + 1 = q - Begun + 2 /\ q - Begun + 2 \in 2 .. (Len(po.taken) + 1)
      BY <1>3, <1>4, <1>5, <2>1, <3>1
    <3>3. ASSUME NEW j \in 2 .. (Len(po.taken) + 1)
          PROVE  (<<po.old>> \o po.taken)[j] = po.taken[j - 1]
      BY <1>2
    <3>4. (q - Begun + 2) - 1 = q - Begun + 1
      BY <1>3, <1>4
    <3>5. (<<po.old>> \o po.taken)[q - Begun + 2] = po.taken[q - Begun + 1]
      BY <3>2, <3>3, <3>4
    <3>6. BlockOf(off, q) = po.taken[q - Begun + 1]
      BY <3>1, <1>6
    <3> QED BY <1>2, <2>1, <3>1, <3>2, <3>5, <3>6
  <2> QED BY <2>3, <2>4
<1> QED BY <1>8, <1>9

LEMMA BulkSlotsAre ==
    ASSUME TypeOK, NEW off, CallOK(off), po.step = "fill", NEW k \in 0 .. po.n
    PROVE  BulkSlots(k) = {<<BlockOf(off, Num(p)), Off(p)>> : p \in TailIndex .. (TailIndex + k - 1)}
<1>1. \A p \in TailIndex .. (TailIndex + k - 1) : p \in TailIndex .. (TailIndex + po.n - 1)
  BY InCallTypes DEF TypeOK, InCall
<1>2. ASSUME NEW p \in TailIndex .. (TailIndex + k - 1)
      PROVE  LET span == IF TailIndex % BlockSize = 0 THEN po.taken ELSE <<po.old>> \o po.taken
             IN  span[(p - BaseOf(TailIndex)) \div BlockSize + 1] = BlockOf(off, Num(p))
  BY <1>1, SpanIs
<1> QED BY <1>2 DEF BulkSlots, Off

\* Each slot of a bulk call gets the item of its position.
LEMMA BulkItemIs ==
    ASSUME TypeOK, NEW off, CallOK(off), Apart(off), po.step = "fill",
           NEW p \in TailIndex .. (TailIndex + po.n - 1)
    PROVE  BulkItem(BlockOf(off, Num(p)), Off(p)) = p
<1> DEFINE T == TailIndex
           n == po.n
           slot(r) == <<BlockOf(off, Num(r)), Off(r)>>
<1>1. n \in Nat /\ T \in Nat /\ p \in Nat
  BY InCallTypes DEF TypeOK, InCall
<1>2. ASSUME NEW r \in T .. (T + n - 1), NEW x \in T .. (T + n - 1), slot(r) = slot(x)
      PROVE  r = x
  <2>1. r \in Nat /\ x \in Nat /\ Num(r) \in Live /\ Num(x) \in Live
    BY SpanIs
  <2>2. BlockOf(off, Num(r)) = BlockOf(off, Num(x)) /\ Off(r) = Off(x)
    BY <1>2
  <2> QED BY <2>1, <2>2, SlotsApart
<1>3. ASSUME NEW r \in T .. (T + n - 1)
      PROVE  slot(p) \in BulkSlots(r - T + 1) \ BulkSlots(r - T) <=> r = p
  <2>1. r - T + 1 \in 0 .. n /\ r - T \in 0 .. n /\ T + (r - T + 1) - 1 = r /\ T + (r - T) - 1 = r - 1
    BY <1>1
  <2>2. BulkSlots(r - T + 1) = {slot(x) : x \in T .. r}
    <3>1. BulkSlots(r - T + 1) = {slot(x) : x \in T .. (T + (r - T + 1) - 1)}
      BY <2>1, BulkSlotsAre
    <3> QED BY <2>1, <3>1
  <2>3. BulkSlots(r - T) = {slot(x) : x \in T .. (r - 1)}
    <3>1. BulkSlots(r - T) = {slot(x) : x \in T .. (T + (r - T) - 1)}
      BY <2>1, BulkSlotsAre
    <3> QED BY <2>1, <3>1
  <2>4. \A x \in T .. r : x \in T .. (T + n - 1)
    BY <1>1
  <2>5. \A x \in T .. (r - 1) : x \in T .. (T + n - 1)
    BY <1>1
  <2> HIDE DEF slot, T, n
  <2>6. slot(p) \in {slot(x) : x \in T .. r} <=> p \in T .. r
    BY <1>2, <2>4 DEF T, n
  <2>7. slot(p) \in {slot(x) : x \in T .. (r - 1)} <=> p \in T .. (r - 1)
    BY <1>2, <2>5 DEF T, n
  <2>8. p \in T .. r /\ p \notin T .. (r - 1) <=> r = p
    BY <1>1 DEF T, n
  <2> QED BY <2>2, <2>3, <2>6, <2>7, <2>8
<1>4. \E r \in T .. (T + n - 1) : slot(p) \in BulkSlots(r - T + 1) \ BulkSlots(r - T)
  BY <1>3
<1>5. BulkItem(BlockOf(off, Num(p)), Off(p))
        = CHOOSE r \in T .. (T + n - 1) : slot(p) \in BulkSlots(r - T + 1) \ BulkSlots(r - T)
  BY DEF BulkItem
<1> HIDE DEF slot
<1> QED BY <1>3, <1>4, <1>5

\* The slots a bulk call fills hold no object before.
LEMMA BulkSlotsFree ==
    ASSUME TypeOK, NEW off, NEW nq, Body(off, nq), po.step = "fill",
           NEW p \in TailIndex .. (TailIndex + po.n - 1)
    PROVE  /\ BlockOf(off, Num(p)) \in Blocks /\ Off(p) \in Slots /\ p \in Nat
           /\ slots[BlockOf(off, Num(p))][Off(p)] = Raw
           /\ \A r \in Objects : ~(BlockOf(off, Num(r)) = BlockOf(off, Num(p)) /\ Off(r) = Off(p))
<1>1. CallOK(off) /\ ClaimsOK /\ Apart(off) /\ Listed(off, nq) /\ NothingElse(off)
  BY DEF Body, Index, Consumption
<1>2. Num(p) \in Live /\ p \in Nat
  BY <1>1, SpanIs
<1>3. BlockOf(off, Num(p)) \in Blocks /\ Off(p) \in Slots
  BY <1>1, <1>2, DivMod DEF Listed
<1>4. \A r \in Objects : ~(BlockOf(off, Num(r)) = BlockOf(off, Num(p)) /\ Off(r) = Off(p))
  <2> SUFFICES ASSUME NEW r \in Objects, BlockOf(off, Num(r)) = BlockOf(off, Num(p)), Off(r) = Off(p)
               PROVE  FALSE
    OBVIOUS
  <2>1. r \in Nat /\ Num(r) \in Live
    BY <1>1, ObjectsLive
  <2>2. r = p
    BY <1>1, <1>2, <2>1, SlotsApart
  <2>3. r < TailIndex
    BY <1>1, ObjectsBelow
  <2> QED BY <1>2, <2>2, <2>3 DEF TypeOK
<1>5. slots[BlockOf(off, Num(p))][Off(p)] = Raw
  BY <1>1, <1>3, <1>4 DEF NothingElse
<1> QED BY <1>2, <1>3, <1>4, <1>5

LEMMA DoBulkFill ==
    ASSUME TypeOK, NEW off, NEW nq, Body(off, nq), BulkFill
    PROVE  TypeOK' /\ Body(off, nq)'
<1> DEFINE T == TailIndex
           n == po.n
           New == T .. (T + n - 1)
           slot(p) == <<BlockOf(off, Num(p)), Off(p)>>
<1>1. /\ po.step = "fill" /\ po' = [po EXCEPT !.step = "publish"]
      /\ UNCHANGED <<HeadIndex, TailIndex, TailBlock, emptied, manager, heap, con, arrays, entries>>
      /\ slots' = [b \in Blocks |-> [i \in Slots |->
                    IF <<b, i>> \in BulkSlots(n) THEN BulkItem(b, i) ELSE slots[b][i]]]
  BY DEF BulkFill, index, supply
<1>2. SameCall("publish")
  BY <1>1, StepTo DEF CallSteps
<1>3. /\ OffsetsOK(off, nq) /\ CallOK(off) /\ Apart(off) /\ AllThere(off) /\ ClaimsOK
      /\ Counts(off) /\ Placed(off) /\ NothingElse(off) /\ Listed(off, nq) /\ IndexOK
      /\ off \in [1 .. Cur -> Int] /\ nq \in Int
  BY DEF Body, Index, Consumption, TypeOK, OffsetsOK
<1>4. InCall /\ InCall' /\ n \in Nat /\ T \in Nat /\ ~Taking /\ ~Taking'
  <2>1. InCall /\ InCall' /\ ~Taking /\ ~Taking'
    BY <1>1, <1>2 DEF InCall, Taking, SameCall
  <2> QED BY <2>1, InCallTypes DEF TypeOK
<1>5. BulkSlots(n) = {slot(p) : p \in New}
  BY <1>1, <1>3, <1>4, BulkSlotsAre, n \in 0 .. n
<1>6. \A p \in New : /\ BlockOf(off, Num(p)) \in Blocks /\ Off(p) \in Slots /\ p \in Nat
                     /\ \A r \in Objects : ~(BlockOf(off, Num(r)) = BlockOf(off, Num(p)) /\ Off(r) = Off(p))
                     /\ BulkItem(BlockOf(off, Num(p)), Off(p)) = p
  BY <1>1, <1>3, BulkSlotsFree, BulkItemIs
<1>7. /\ \A p \in New : slots'[BlockOf(off, Num(p))][Off(p)] = p
      /\ \A b \in Blocks, i \in Slots : \/ \E p \in New : b = BlockOf(off, Num(p)) /\ i = Off(p)
                                        \/ slots'[b][i] = slots[b][i]
  <2>1. \A b \in Blocks, i \in Slots :
           slots'[b][i] = IF <<b, i>> \in BulkSlots(n) THEN BulkItem(b, i) ELSE slots[b][i]
    BY <1>1
  <2>2. \A b, i : <<b, i>> \in BulkSlots(n) <=> \E p \in New : b = BlockOf(off, Num(p)) /\ i = Off(p)
    BY <1>5
  <2> HIDE DEF New, slot
  <2> QED BY <1>6, <2>1, <2>2
<1>8. TypeOK'
  <2>1. slots' \in [Blocks -> [Slots -> Nat \union {Raw}]]
    <3>1. ASSUME NEW b \in Blocks, NEW i \in Slots
          PROVE  (IF <<b, i>> \in BulkSlots(n) THEN BulkItem(b, i) ELSE slots[b][i]) \in Nat \union {Raw}
      <4>1. slots[b][i] \in Nat \union {Raw}
        BY DEF TypeOK
      <4>2. ASSUME <<b, i>> \in BulkSlots(n) PROVE BulkItem(b, i) \in Nat
        <5>1. PICK p \in New : b = BlockOf(off, Num(p)) /\ i = Off(p)
          BY <1>5, <4>2
        <5> QED BY <1>6, <5>1
      <4> QED BY <4>1, <4>2
    <3> QED BY <1>1, <3>1
  <2>2. IndexOK'
    BY <1>1, StillConsumption
  <2> QED BY <1>1, <1>2, <2>1, <2>2 DEF TypeOK, SameCall
<1>9. Begun' = Begun /\ Linked' = Linked /\ Live' = Live
  <2>1. Begun' = Begun
    BY <1>1 DEF Begun
  <2>2. Linked' = Linked
    BY <1>2, <1>4, <2>1 DEF Linked, SameCall
  <2> QED BY <1>1, <1>8, <2>1, <2>2, ProducerLive
<1>10. /\ Current' = Current /\ Cur' = Cur
       /\ \A q : /\ Place(off, Cur, q)' = Place(off, Cur, q)
                 /\ BlockOf(off, q)' = BlockOf(off, q)
  BY <1>1, <1>3, StillIndex
<1>11. Index(off, nq)'
  <2>1. OffsetsOK(off, nq)'
    BY <1>1, <1>2, <1>3, <1>9, <1>10 DEF OffsetsOK, SameCall
  <2>2. Listed(off, nq)'
    BY <1>1, <1>3, <1>9, StillListed, nq <= nq
  <2>3. Underway(off, nq)'
    BY <1>2 DEF Underway, SameCall
  <2> QED BY <1>1, <2>1, <2>2, <2>3, StillConsumption DEF Index
<1>12. CallOK(off)'
  <2>1. \A q : BlockOf(off, q)' = BlockOf(off, q)
    BY <1>10
  <2>2. BlockOf(off, Begun - 1)' = BlockOf(off, Begun - 1)
    BY <1>1, <1>9 DEF BlockOf, EntryOf, Place, Value, Cur
  <2>3. \A k \in DOMAIN po.taken : po.taken[k] = BlockOf(off, Begun + k - 1)'
    <3> SUFFICES ASSUME NEW k \in DOMAIN po.taken PROVE po.taken[k] = BlockOf(off, Begun + k - 1)'
      OBVIOUS
    <3>1. BlockOf(off, Begun + k - 1)' = BlockOf(off, Begun + k - 1)
      BY <1>1, <1>9 DEF BlockOf, EntryOf, Place, Value, Cur
    <3> QED BY <1>3, <1>4, <3>1 DEF CallOK
  <2> QED BY <1>1, <1>2, <1>3, <1>4, <1>9, <2>2, <2>3 DEF CallOK, SameCall
<1>13. Apart(off)' /\ AllThere(off)'
  <2>1. Held' = Held
    BY <1>1, <1>2 DEF Held, SameCall
  <2> QED BY <1>1, <1>3, <1>9, <1>10, <2>1, UsesKept DEF SameBlocks
<1>14. Counts(off)'
  BY <1>1, <1>2, <1>3, <1>9, <1>10, CountsKept DEF SameBlocks, SameCall
<1>15. Objects' = Objects \union New
  <2>1. UNION {Untaken(c) : c \in Consumers}' = UNION {Untaken(c) : c \in Consumers}
    BY <1>1, ProducerViews
  <2>2. Filled = T /\ Filled' = T + n
    BY <1>1, <1>2, <1>4 DEF Filled, SameCall
  <2>3. HeadIndex .. (T + n - 1) = (HeadIndex .. (T - 1)) \union New
    <3>1. HeadIndex \in Nat /\ T \in Nat /\ HeadIndex <= T /\ n \in Nat
      BY <1>4 DEF TypeOK
    <3> QED BY <3>1
  <2>4. Objects = (HeadIndex .. (T - 1)) \union UNION {Untaken(c) : c \in Consumers}
    BY <2>2 DEF Objects
  <2>5. Objects' = (HeadIndex .. (T + n - 1)) \union UNION {Untaken(c) : c \in Consumers}
    <3>1. Filled' - 1 = T + n - 1 /\ HeadIndex' = HeadIndex
      BY <1>1, <1>4, <2>2
    <3> QED BY <2>1, <3>1 DEF Objects
  <2> HIDE DEF T, n, New
  <2> QED BY <2>3, <2>4, <2>5
<1>16. Placed(off)'
  <2> SUFFICES ASSUME NEW p \in Objects' PROVE slots'[BlockOf(off, Num(p))][Off(p)] = p
    BY <1>10 DEF Placed
  <2>1. CASE p \in New
    BY <2>1, <1>7
  <2>2. CASE p \notin New
    <3>1. p \in Objects
      BY <2>2, <1>15
    <3>2. BlockOf(off, Num(p)) \in Blocks /\ Off(p) \in Slots
      <4>1. p \in Nat /\ Num(p) \in Live
        BY <1>3, <3>1, ObjectsLive
      <4> QED BY <1>3, <4>1, DivMod DEF Listed
    <3>3. slots'[BlockOf(off, Num(p))][Off(p)] = slots[BlockOf(off, Num(p))][Off(p)]
      BY <1>6, <1>7, <3>1, <3>2
    <3> QED BY <1>3, <3>1, <3>3 DEF Placed
  <2> QED BY <2>1, <2>2
<1>17. NothingElse(off)'
  <2> SUFFICES ASSUME NEW b \in Blocks, NEW i \in Slots, slots'[b][i] # Raw
               PROVE  /\ slots'[b][i] \in Objects'
                      /\ b = BlockOf(off, Num(slots'[b][i])) /\ i = Off(slots'[b][i])
    BY <1>10 DEF NothingElse
  <2>1. CASE \E p \in New : b = BlockOf(off, Num(p)) /\ i = Off(p)
    BY <2>1, <1>7, <1>15
  <2>2. CASE slots'[b][i] = slots[b][i]
    BY <2>2, <1>3, <1>15 DEF NothingElse
  <2> QED BY <2>1, <2>2, <1>7
<1>18. Occupied(off)'
  BY <1>1, <1>3, <1>9, StillOccupied DEF Leaving, Body
<1> QED BY <1>1, <1>8, <1>11, <1>12, <1>13, <1>14, <1>16, <1>17, <1>18, StillConsumption DEF Body

LEMMA DoBulkThrows ==
    ASSUME TypeOK, NEW off, NEW nq, Body(off, nq), BulkThrows
    PROVE  TypeOK' /\ Body(off, nq)'
<1>1. /\ po.step = "fill" /\ po' = GivenUp
      /\ UNCHANGED <<HeadIndex, TailIndex, TailBlock, emptied, manager, heap, con, arrays, entries>>
  BY DEF BulkThrows, index, supply
<1>2. PICK k \in 0 .. (po.n - 1) : slots' = Destroyed(BulkSlots(k))
  BY DEF BulkThrows
<1>3. CallOK(off) /\ ClaimsOK /\ Placed(off) /\ NothingElse(off)
  BY DEF Body, Consumption
<1>4. po.n \in Nat /\ TailIndex \in Nat
  BY <1>1, InCallTypes DEF TypeOK, InCall
<1>5. \A b \in Blocks, i \in Slots : <<b, i>> \in BulkSlots(k) => slots[b][i] = Raw
  <2>1. BulkSlots(k) = {<<BlockOf(off, Num(p)), Off(p)>> : p \in TailIndex .. (TailIndex + k - 1)}
    BY <1>1, <1>3, <1>4, BulkSlotsAre, k \in 0 .. po.n
  <2>2. \A p \in TailIndex .. (TailIndex + k - 1) : p \in TailIndex .. (TailIndex + po.n - 1)
    BY <1>4
  <2>3. \A p \in TailIndex .. (TailIndex + po.n - 1) : slots[BlockOf(off, Num(p))][Off(p)] = Raw
    BY <1>1, BulkSlotsFree
  <2> QED BY <2>1, <2>2, <2>3
<1>6. slots' = slots
  <2>1. slots' = [b \in Blocks |-> [i \in Slots |-> slots[b][i]]]
    BY <1>2, <1>5 DEF Destroyed
  <2>2. slots \in [Blocks -> [Slots -> Nat \union {Raw}]]
    BY DEF TypeOK
  <2>3. \A b \in Blocks : [i \in Slots |-> slots[b][i]] = slots[b]
    BY <2>2
  <2> QED BY <2>1, <2>2, <2>3
<1>7. slots' \in [Blocks -> [Slots -> Nat \union {Raw}]]
  BY <1>6 DEF TypeOK
<1>8. /\ TypeOK' /\ Index(off, nq)' /\ Consumption(off)' /\ CallOK(off)'
      /\ Apart(off)' /\ AllThere(off)' /\ Counts(off)' /\ Objects' = Objects
      /\ Occupied(off)'
      /\ \A q : BlockOf(off, q)' = BlockOf(off, q)
  BY <1>1, <1>7, GiveUpIndex
<1>9. Placed(off)' /\ NothingElse(off)'
  BY <1>3, <1>6, <1>8, ObjectsKept
<1> QED BY <1>8, <1>9 DEF Body

LEMMA LinkCall ==
    ASSUME NEW p \in Calls, NEW b \in Blocks
    PROVE  LET r == [p EXCEPT !.step = "link", !.block = b]
           IN  /\ r \in Calls /\ r.step = "link" /\ r.block = b
               /\ r.bulk = p.bulk /\ r.mode = p.mode /\ r.n = p.n /\ r.need = p.need
               /\ r.base = p.base /\ r.old = p.old /\ r.taken = p.taken
BY DEF Calls, CallSteps

LEMMA DoRequireBlock ==
    ASSUME TypeOK, NEW off, NEW nq, Body(off, nq), RequireBlock
    PROVE  TypeOK' /\ Body(off, nq)'
<1>1. /\ po.step = "block"
      /\ UNCHANGED <<HeadIndex, TailIndex, TailBlock, slots, con, arrays, entries>>
  BY DEF RequireBlock, index
<1>2. /\ OffsetsOK(off, nq) /\ CallOK(off) /\ Apart(off) /\ AllThere(off) /\ ClaimsOK
      /\ Counts(off) /\ Placed(off) /\ NothingElse(off) /\ Listed(off, nq) /\ IndexOK
      /\ off \in [1 .. Cur -> Int] /\ nq \in Int /\ Underway(off, nq)
  BY DEF Body, Index, Consumption, TypeOK, OffsetsOK
<1>3. PICK b \in Requisition(po.mode) \ {NoBlock} :
          /\ manager' = manager \ {b} /\ heap' = heap \ {b}
          /\ emptied' = [emptied EXCEPT ![b] = 0]
          /\ po' = [po EXCEPT !.step = "link", !.block = b]
  BY DEF RequireBlock
<1>4. b \in manager \union heap /\ b \in Blocks
  BY <1>3 DEF Requisition, TypeOK
<1>5. /\ po' \in Calls /\ po'.step = "link" /\ po'.block = b
      /\ po'.bulk = po.bulk /\ po'.n = po.n /\ po'.need = po.need
      /\ po'.base = po.base /\ po'.old = po.old /\ po'.taken = po.taken
  <2>1. po \in Calls
    BY <1>1, CallTypes DEF CallSteps
  <2> QED BY <1>3, <1>4, <2>1, LinkCall
<1>6. InCall /\ InCall' /\ Taking /\ Taking'
  BY <1>1, <1>5 DEF InCall, Taking
<1>7. emptied' \in [Blocks -> Nat] /\ emptied'[b] = 0
      /\ \A d \in Blocks : d # b => emptied'[d] = emptied[d]
  BY <1>3, <1>4 DEF TypeOK
<1>8. TypeOK'
  <2>1. IndexOK'
    BY <1>1, StillConsumption
  <2> QED BY <1>1, <1>3, <1>5, <1>7, <2>1 DEF TypeOK
<1>9. Begun' = Begun /\ Linked' = Linked /\ Live' = Live
  <2>1. Begun' = Begun
    BY <1>1 DEF Begun
  <2>2. Linked' = Linked
    BY <1>5, <1>6, <2>1 DEF Linked
  <2> QED BY <1>1, <1>8, <2>1, <2>2, ProducerLive
<1>10. /\ Current' = Current /\ Cur' = Cur
       /\ \A q : /\ Place(off, Cur, q)' = Place(off, Cur, q)
                 /\ KeyOf(off, q)' = KeyOf(off, q)
                 /\ BlockOf(off, q)' = BlockOf(off, q)
  BY <1>1, <1>2, StillIndex
<1>11. Index(off, nq)'
  <2>1. OffsetsOK(off, nq)'
    BY <1>1, <1>2, <1>5, <1>9, <1>10 DEF OffsetsOK
  <2>2. Listed(off, nq)'
    BY <1>1, <1>2, <1>9, StillListed, nq <= nq
  <2>3. Underway(off, nq)'
    BY <1>1, <1>2, <1>5, <1>10 DEF Underway
  <2> QED BY <1>1, <2>1, <2>2, <2>3, StillConsumption DEF Index
<1>12. CallOK(off)'
  <2>1. BlockOf(off, Begun - 1)' = BlockOf(off, Begun - 1)
    BY <1>1, <1>9 DEF BlockOf, EntryOf, Place, Value, Cur
  <2>2. \A k \in DOMAIN po.taken : po.taken[k] = BlockOf(off, Begun + k - 1)'
    <3> SUFFICES ASSUME NEW k \in DOMAIN po.taken PROVE po.taken[k] = BlockOf(off, Begun + k - 1)'
      OBVIOUS
    <3>1. BlockOf(off, Begun + k - 1)' = BlockOf(off, Begun + k - 1)
      BY <1>1, <1>9 DEF BlockOf, EntryOf, Place, Value, Cur
    <3> QED BY <1>2, <1>6, <3>1 DEF CallOK
  <2> QED BY <1>1, <1>2, <1>4, <1>5, <1>6, <1>9, <2>1, <2>2 DEF CallOK
<1>13. InHand' = InHand /\ Held = {} /\ Held' = {b}
  BY <1>1, <1>5, ProducerViews DEF Held
<1>14. b \notin InHand /\ \A q \in Live : BlockOf(off, q) # b
  BY <1>2, <1>4 DEF Apart
<1>15. Apart(off)'
  BY <1>1, <1>2, <1>3, <1>9, <1>10, <1>13, <1>14 DEF Apart
<1>16. AllThere(off)'
  BY <1>1, <1>2, <1>3, <1>9, <1>10, <1>13 DEF AllThere
<1>17. Counts(off)'
  <2>1. \A q : Marked(q)' = Marked(q)
    BY <1>1, ProducerFrame
  <2>2. \A q \in Live : BlockOf(off, q) \in Blocks
    BY <1>2 DEF Listed
  <2> QED BY <1>2, <1>5, <1>7, <1>9, <1>10, <1>14, <2>1, <2>2 DEF Counts
<1>18. Placed(off)' /\ NothingElse(off)'
  <2>1. UNION {Untaken(c) : c \in Consumers}' = UNION {Untaken(c) : c \in Consumers}
    BY <1>1, ProducerViews
  <2>2. Objects' = Objects
    BY <1>1, <1>5, <2>1 DEF Objects, Filled
  <2> QED BY <1>1, <1>2, <1>10, <2>2, ObjectsKept
<1>19. Occupied(off)'
  BY <1>1, <1>2, <1>9, StillOccupied DEF Leaving, Body
<1> QED BY <1>1, <1>8, <1>11, <1>12, <1>15, <1>16, <1>17, <1>18, <1>19, StillConsumption DEF Body

LEMMA DoRollBackBlocks ==
    ASSUME TypeOK, NEW off, NEW nq, Body(off, nq), RollBackBlocks
    PROVE  TypeOK' /\ Body(off, nq)'
<1>1. /\ po.step = "rollBack" /\ po.need > Len(po.taken) /\ po' = NoCall /\ po'.step = "idle"
      /\ UNCHANGED <<HeadIndex, TailIndex, slots, emptied, heap, con, arrays, entries>>
      /\ manager' = manager \union {po.taken[k] : k \in DOMAIN po.taken} /\ TailBlock' = po.old
  BY IdleCall DEF RollBackBlocks, index, blocks
<1>2. /\ OffsetsOK(off, nq) /\ CallOK(off) /\ Apart(off) /\ AllThere(off) /\ ClaimsOK
      /\ Counts(off) /\ Placed(off) /\ NothingElse(off) /\ Listed(off, nq) /\ IndexOK
      /\ off \in [1 .. Cur -> Int] /\ nq \in Int /\ Underway(off, nq)
  BY DEF Body, Index, Consumption, TypeOK, OffsetsOK
<1>3. po.taken \in Seq(Blocks) /\ po.old \in Blocks \union {NoBlock} /\ po.need \in Nat
  BY <1>1, InCallTypes
<1>4. Held = {po.taken[k] : k \in DOMAIN po.taken} /\ Held \subseteq Blocks /\ manager' = manager \union Held
      /\ Held' = {}
  BY <1>1, <1>3 DEF Held
<1>5. nq = Begun /\ Begun \in Nat
  <2>1. nq = Begun + Len(po.taken) - po.need + 1 /\ po.need \in 1 .. (Len(po.taken) + 1)
    BY <1>1, <1>2 DEF OffsetsOK, CallOK
  <2>2. Len(po.taken) \in Nat /\ Begun \in Nat
    BY <1>3, BegunIs
  <2> QED BY <1>1, <2>1, <2>2
<1>6. TypeOK'
  <2>1. IndexOK'
    BY <1>1, StillConsumption
  <2>2. po' \in [step : {"idle", "stopped", "gone"}] \union Calls
    BY <1>1, IdleCall
  <2> QED BY <1>1, <1>3, <1>4, <2>1, <2>2 DEF TypeOK
<1>7. Begun' = Begun /\ Linked' = Linked /\ Live' = Live /\ ~InCall'
  <2>1. Begun' = Begun
    BY <1>1 DEF Begun
  <2>2. ~InCall /\ ~InCall'
    BY <1>1 DEF InCall
  <2>3. Linked' = Linked
    BY <1>6, <2>1, <2>2, LinkedNext, LinkedType
  <2> QED BY <1>1, <1>6, <2>1, <2>2, <2>3, ProducerLive
<1>8. /\ Current' = Current /\ Cur' = Cur
      /\ \A q : /\ Place(off, Cur, q)' = Place(off, Cur, q)
                /\ KeyOf(off, q)' = KeyOf(off, q)
                /\ BlockOf(off, q)' = BlockOf(off, q)
  BY <1>1, <1>2, StillIndex
<1>9. Index(off, nq)'
  <2>1. OffsetsOK(off, nq)'
    BY <1>1, <1>2, <1>5, <1>7, <1>8 DEF OffsetsOK
  <2>2. Listed(off, nq)'
    BY <1>1, <1>2, <1>7, StillListed, nq <= nq
  <2>3. Underway(off, nq)'
    BY <1>1 DEF Underway
  <2> QED BY <1>1, <2>1, <2>2, <2>3, StillConsumption DEF Index
<1>10. CallOK(off)'
  <2>1. BlockOf(off, Begun - 1)' = BlockOf(off, Begun - 1)
    BY <1>1, <1>7 DEF BlockOf, EntryOf, Place, Value, Cur
  <2> QED BY <1>1, <1>2, <1>7, <2>1 DEF CallOK
<1>11. InHand' = InHand
  BY <1>1, ProducerViews
<1>12. Apart(off)'
  BY <1>1, <1>2, <1>4, <1>7, <1>8, <1>11 DEF Apart
<1>13. AllThere(off)'
  BY <1>1, <1>2, <1>4, <1>7, <1>8, <1>11 DEF AllThere
<1>14. Counts(off)'
  BY <1>1, <1>2, <1>7, <1>8, CountsKept DEF SameBlocks
<1>15. Placed(off)' /\ NothingElse(off)'
  <2>1. UNION {Untaken(c) : c \in Consumers}' = UNION {Untaken(c) : c \in Consumers}
    BY <1>1, ProducerViews
  <2>2. Objects' = Objects
    BY <1>1, <2>1 DEF Objects, Filled
  <2> QED BY <1>1, <1>2, <1>8, <2>2, ObjectsKept
<1>16. Occupied(off)'
  <2>1. Leaving = {}
    <3>1. po.need \in Int /\ Len(po.taken) \in Int
      BY <1>3
    <3>2. po.need .. Len(po.taken) = {}
      BY <1>1, <3>1
    <3> QED BY <3>2 DEF Leaving
  <2> QED BY <1>1, <1>2, <1>7, <2>1, StillOccupied DEF Body
<1> QED BY <1>1, <1>6, <1>9, <1>10, <1>12, <1>13, <1>14, <1>15, <1>16, StillConsumption DEF Body

-----------------------------------------------------------------------------
(* Steps of the producer that enter a block in the index, or give it up. *)

\* All but the index when the index changes, but not in the blocks of live entries.
LEMMA GoOn ==
    ASSUME TypeOK, TypeOK', NEW off, NEW nq, Body(off, nq), NEW off2,
           \A q \in Live : BlockOf(off2, q)' = BlockOf(off, q),
           NEW s \in {"insert", "show", "block"}, po.step \in {"insert", "show"}, SameCall(s),
           UNCHANGED <<HeadIndex, TailIndex, TailBlock, emptied, slots, manager, heap, con>>
    PROVE  /\ Live' = Live /\ Linked' = Linked /\ Begun' = Begun
           /\ CallOK(off2)' /\ ClaimsOK' /\ LastOut' /\ Apart(off2)' /\ AllThere(off2)'
           /\ Counts(off2)' /\ Placed(off2)' /\ NothingElse(off2)'
<1>1. /\ CallOK(off) /\ Apart(off) /\ AllThere(off) /\ ClaimsOK /\ LastOut
      /\ Counts(off) /\ Placed(off) /\ NothingElse(off)
  BY DEF Body, Consumption
<1>2. InCall /\ InCall' /\ Taking /\ Taking'
  BY DEF InCall, Taking, SameCall
<1>3. Begun' = Begun /\ Linked' = Linked /\ Live' = Live
  <2>1. Begun' = Begun
    BY DEF Begun
  <2>2. Linked' = Linked
    BY <1>2, <2>1 DEF Linked, SameCall
  <2> QED BY <2>1, <2>2, ProducerLive
<1>4. CallOK(off2)'
  <2>1. Off(TailIndex) # 0 => BlockOf(off2, Begun - 1)' = BlockOf(off, Begun - 1)
    <3> SUFFICES ASSUME Off(TailIndex) # 0
                 PROVE  BlockOf(off2, Begun - 1)' = BlockOf(off, Begun - 1)
      OBVIOUS
    <3>1. PICK r : r = Begun - 1
      OBVIOUS
    <3>2. r \in Live
      BY <3>1, TailLive
    <3>3. BlockOf(off2, Begun - 1)' = BlockOf(off2, r)'
      BY <1>3, <3>1 DEF BlockOf, EntryOf, Place
    <3> QED BY <3>1, <3>2, <3>3
  <2>2. \A k \in DOMAIN po.taken : po.taken[k] = BlockOf(off2, Begun + k - 1)'
    <3> SUFFICES ASSUME NEW k \in DOMAIN po.taken PROVE po.taken[k] = BlockOf(off2, Begun + k - 1)'
      OBVIOUS
    <3>1. PICK r : r = Begun + k - 1
      OBVIOUS
    <3>2. r \in Live /\ po.taken[k] = BlockOf(off, r)
      BY <1>1, <1>2, <3>1, TakenAre
    <3>3. BlockOf(off2, Begun + k - 1)' = BlockOf(off2, r)'
      BY <1>3, <3>1 DEF BlockOf, EntryOf, Place
    <3> QED BY <3>2, <3>3
  <2> QED BY <1>1, <1>2, <1>3, <2>1, <2>2 DEF CallOK, SameCall
<1>5. InHand' = InHand /\ Held' = Held
  BY ProducerViews DEF Held, SameCall
<1>6. Apart(off2)'
  BY <1>1, <1>3, <1>5 DEF Apart
<1>7. AllThere(off2)'
  BY <1>1, <1>3, <1>5 DEF AllThere
<1>8. ClaimsOK' /\ LastOut' /\ \A q : Marked(q)' = Marked(q)
  BY <1>1, ProducerFrame
<1>9. Counts(off2)'
  BY <1>1, <1>3, <1>8 DEF Counts, SameCall
<1>10. Objects' = Objects
  <2>1. UNION {Untaken(c) : c \in Consumers}' = UNION {Untaken(c) : c \in Consumers}
    BY ProducerViews
  <2> QED BY <2>1 DEF Objects, Filled, SameCall
<1>11. \A p \in Objects : BlockOf(off2, Num(p))' = BlockOf(off, Num(p))
  BY <1>1, ObjectsLive
<1>12. Placed(off2)' /\ NothingElse(off2)'
  BY <1>1, <1>10, <1>11 DEF Placed, NothingElse
<1> QED BY <1>3, <1>4, <1>6, <1>7, <1>8, <1>9, <1>12

LEMMA DoInsertTail ==
    ASSUME TypeOK, NEW off, NEW nq, Body(off, nq), InsertTail, NEW m, m = nq + 1
    PROVE  TypeOK' /\ Body(off, m)'
<1> DEFINE s == Current.size
<1>1. /\ po.step = "show" /\ po' = [po EXCEPT !.step = "block"] /\ SetTail(NewTail)
      /\ UNCHANGED <<HeadIndex, TailIndex, TailBlock, emptied, slots, con, entries, manager, heap>>
  BY DEF InsertTail, blocks, supply
<1>2. SameCall("block")
  BY <1>1, StepTo DEF CallSteps
<1>3. /\ OffsetsOK(off, nq) /\ Listed(off, nq) /\ IndexOK /\ Aligned(off) /\ Agree(off)
      /\ off \in [1 .. Cur -> Int] /\ nq \in Int /\ Underway(off, nq) /\ nq >= Begun
      /\ Current.tail = Place(off, Cur, nq - 1) /\ nq = Linked /\ KeyOf(off, nq) = Base(nq)
      /\ Window(off, nq) /\ po.base = Base(nq) /\ Occupied(off)
      /\ \A c \in Consumers : Knows(off, c)
  BY <1>1 DEF Body, Index, Consumption, TypeOK, OffsetsOK, Underway
<1>4. /\ Cur \in 1 .. Cur /\ Current = arrays[Cur] /\ s \in Nat \ {0}
      /\ nq - 1 \in Int /\ (nq - 1) + 1 = nq /\ m \in Int /\ m - 1 = nq
  BY <1>3, CurType
<1>5. NewTail = Place(off, Cur, nq) /\ NewTail \in 0 .. (s - 1)
  <2>0. IndexOK /\ off \in [1 .. Cur -> Int] /\ Cur \in 1 .. Cur /\ nq - 1 \in Int /\ 1 \in Int
    BY <1>3, <1>4
  <2>1. Wrap(arrays[Cur], Place(off, Cur, nq - 1) + 1) = Place(off, Cur, (nq - 1) + 1)
    BY <2>0, PlacePlus
  <2>2. Place(off, Cur, nq) \in 0 .. (arrays[Cur].size - 1)
    BY <1>3, <1>4, PlaceType
  <2> QED BY <1>3, <1>4, <2>1, <2>2 DEF NewTail
<1>6. PICK t \in 0 .. (s - 1) : t = NewTail
  BY <1>5
<1>7. /\ IndexOK' /\ Cur' = Cur /\ Current.tail' = t /\ Current.size' = s
      /\ \A i \in 1 .. Cur : /\ arrays'[i].size = arrays[i].size
                             /\ arrays'[i].at = arrays[i].at
                             /\ arrays'[i].tail = IF i = Cur THEN t ELSE arrays[i].tail
  <2>1. SetTail(t) /\ entries' \in Seq(EntryRecs) /\ Len(entries') = Len(entries)
    BY <1>1, <1>3, <1>6 DEF IndexOK
  <2> QED BY <1>3, <2>1, SetTailEffect
<1>8. SameArrays /\ SameKeys
  BY <1>1, <1>7 DEF SameArrays, SameKeys, Key
<1>9. TypeOK'
  BY <1>1, <1>2, <1>7 DEF TypeOK, SameCall
<1>10. \A q \in Int : /\ BlockOf(off, q)' = BlockOf(off, q)
                      /\ KeyOf(off, q)' = KeyOf(off, q)
                      /\ EntryOf(off, Cur, q)' = EntryOf(off, Cur, q)
  BY <1>1, <1>3, <1>8, SameValues, KeysFixed, PlacesFixed
<1>11. \A q \in Live : q \in Int
  BY LiveType
<1>12. /\ Live' = Live /\ Linked' = Linked /\ Begun' = Begun
       /\ CallOK(off)' /\ ClaimsOK' /\ LastOut' /\ Apart(off)' /\ AllThere(off)'
       /\ Counts(off)' /\ Placed(off)' /\ NothingElse(off)'
  BY <1>1, <1>2, <1>9, <1>10, <1>11, GoOn
<1>13. OffsetsOK(off, m)'
  <2>1. off \in [1 .. Cur' -> Int]
    BY <1>3, <1>7
  <2>2. Current.tail' = Place(off, Cur, m - 1)'
    <3>1. Place(off, Cur, nq)' = Place(off, Cur, nq)
      BY <1>3, <1>4, <1>7, <1>8, PlacesFixed
    <3> QED BY <1>4, <1>5, <1>6, <1>7, <3>1
  <2>3. m >= Begun'
    BY <1>3, <1>12, BegunIs
  <2> QED BY <1>2, <1>3, <1>4, <1>12, <2>1, <2>2, <2>3 DEF OffsetsOK, SameCall
<1>14. Aligned(off)' /\ Agree(off)'
  BY <1>3, <1>8, AlignedKept, AgreeKept
<1>15. Listed(off, m)'
  <2>1. ASSUME NEW q \in Live
        PROVE  /\ KeyOf(off, q)' = Base(q)
               /\ BlockOf(off, q)' \in Blocks
               /\ m - s <= q
               /\ \A r \in q .. (m - 1) : KeyOf(off, r)' # InvalidBase
    <3>1. q \in Nat /\ KeyOf(off, q) = Base(q) /\ BlockOf(off, q) \in Blocks /\ nq - s <= q
      BY <1>3, LiveType DEF Listed
    <3>2. \A r \in q .. (nq - 1) : KeyOf(off, r) # InvalidBase
      BY <1>3 DEF Listed
    <3>3. nq \in Int /\ s \in Nat \ {0} /\ m - 1 = nq /\ m = nq + 1
      BY <1>3, <1>4
    <3>4. q # nq - s
      <4> SUFFICES ASSUME q = nq - s PROVE FALSE
        OBVIOUS
      <4>1. q + 1 * arrays[Cur].size = nq
        BY <1>4, <3>1, <3>3
      <4>2. IndexOK /\ off \in [1 .. Cur -> Int] /\ Cur \in 1 .. Cur /\ q \in Int /\ 1 \in Int
        BY <1>3, <1>4, <3>1
      <4>3. Place(off, Cur, q + 1 * arrays[Cur].size) = Place(off, Cur, q)
        BY <4>2, PlaceRound
      <4>4. KeyOf(off, q) = KeyOf(off, nq)
        BY <4>1, <4>3 DEF KeyOf, EntryOf
      <4>5. Base(q) = Base(nq)
        BY <1>3, <3>1, <4>4
      <4>6. q = nq
        BY <3>3, <4>2, <4>5, BaseOrder
      <4> QED BY <3>1, <3>3, <4>6
    <3>5. m - s <= q
      <4> HIDE DEF s
      <4> QED BY <3>1, <3>3, <3>4
    <3>6. ASSUME NEW r \in q .. (m - 1) PROVE KeyOf(off, r)' # InvalidBase
      <4>1. r \in Int /\ (r \in q .. (nq - 1) \/ r = nq)
        BY <3>1, <3>3
      <4>2. KeyOf(off, nq) # InvalidBase
        BY <1>3, BaseStep
      <4>3. KeyOf(off, r) # InvalidBase
        BY <3>2, <4>1, <4>2
      <4> QED BY <1>10, <4>1, <4>3
    <3> QED BY <1>10, <3>1, <3>5, <3>6
  <2>2. Current.size' = s /\ Live' = Live
    BY <1>7, <1>12
  <2>3. \A q \in Live' : /\ KeyOf(off, q)' = Base(q)
                         /\ BlockOf(off, q)' \in Blocks
                         /\ m - Current.size' <= q
                         /\ \A r \in q .. (m - 1) : KeyOf(off, r)' # InvalidBase
    <3> HIDE DEF s
    <3> QED BY <2>1, <2>2
  <2> QED BY <2>3 DEF Listed
<1>16. Underway(off, m)'
  <2>1. KeyOf(off, nq)' = Base(nq)
    BY <1>3, <1>10
  <2> QED BY <1>2, <1>4, <2>1 DEF Underway, SameCall
<1>17. ASSUME NEW c \in Consumers PROVE Knows(off, c)'
  <2>1. Knows(off, c)
    BY <1>3
  <2>2. \A x \in 1 .. Len(entries) : Key(x) # InvalidBase => Key(x)' # InvalidBase
    BY <1>8 DEF SameKeys
  <2>3. con[c].step = "tail" =>
            Key(arrays[con[c].array].at[arrays[con[c].array].tail])' # InvalidBase
    <3> SUFFICES ASSUME con[c].step = "tail"
                 PROVE  Key(arrays[con[c].array].at[arrays[con[c].array].tail])' # InvalidBase
      OBVIOUS
    <3> DEFINE i == con[c].array
    <3>1. i \in 1 .. Cur /\ Key(arrays[i].at[arrays[i].tail]) # InvalidBase
      BY <2>1 DEF Knows
    <3>2. Key(arrays[i].at[arrays[i].tail])' = entries[arrays'[i].at[arrays'[i].tail]].key
      BY <1>1 DEF Key
    <3>3. CASE i = Cur
      <4>1. arrays'[i].at[arrays'[i].tail] = EntryOf(off, Cur, nq)
        BY <1>5, <1>6, <1>7, <3>1, <3>3 DEF EntryOf
      <4>2. Key(EntryOf(off, Cur, nq)) # InvalidBase
        BY <1>3, BaseStep, SMTT(30) DEF KeyOf
      <4> QED BY <3>2, <4>1, <4>2 DEF Key
    <3>4. CASE i # Cur
      BY <1>7, <3>1, <3>2, <3>4, ZenonT(60) DEF Key
    <3> QED BY <3>3, <3>4
  <2> QED BY <1>1, <1>3, <1>8, <2>1, <2>2, <2>3, KnowsKept
<1>18. Window(off, m)'
  <2> HIDE DEF s
  <2>1. Current.size' = s /\ Current.size = s /\ nq \in Int /\ s \in Nat \ {0} /\ m = nq + 1
    BY <1>3, <1>4, <1>7 DEF s
  <2>2. \A r \in (nq - s) .. (nq - 1) :
           \/ KeyOf(off, r) \in {InvalidBase, Base(r)}
           \/ \A x \in (nq - s) .. r : KeyOf(off, x) = Base(x + s)
    BY <1>3, <2>1 DEF Window
  <2>3. ASSUME NEW r \in (m - s) .. (m - 1)
        PROVE  \/ KeyOf(off, r)' \in {InvalidBase, Base(r)}
               \/ \A x \in (m - s) .. r : KeyOf(off, x)' = Base(x + s)
    <3>1. CASE r = nq
      BY <1>3, <1>10, <3>1
    <3>2. CASE r # nq
      <4>1. r \in (nq - s) .. (nq - 1) /\ r \in Int
        BY <2>1, <3>2
      <4>2. \A x \in (m - s) .. r : x \in (nq - s) .. r /\ x \in Int
        BY <2>1
      <4> QED BY <1>10, <2>2, <4>1, <4>2
    <3> QED BY <3>1, <3>2
  <2> QED BY <2>1, <2>3 DEF Window
<1>19. Occupied(off)'
  <2>1. Live \union Leaving \subseteq (Live \union Leaving)'
    BY <1>1, <1>12 DEF Leaving
  <2> QED BY <1>1, <1>3, <1>8, <1>10, <2>1, OccupiedKept
<1> QED BY <1>9, <1>12, <1>13, <1>14, <1>15, <1>16, <1>17, <1>18, <1>19 DEF Body, Index, Consumption

\* The entry after the tail is that of the next block.
LEMMA NewEntryIs ==
    ASSUME IndexOK, NEW off, NEW nq, OffsetsOK(off, nq)
    PROVE  /\ NewTail = Place(off, Cur, nq) /\ NewEntry = EntryOf(off, Cur, nq)
           /\ NewEntry \in 1 .. Len(entries) /\ nq \in Int
           /\ Current.at[Current.tail] = EntryOf(off, Cur, nq - 1)
           /\ EntryOf(off, Cur, nq - 1) \in 1 .. Len(entries)
<1>1. /\ off \in [1 .. Cur -> Int] /\ nq \in Int /\ Current.tail = Place(off, Cur, nq - 1)
      /\ Cur \in 1 .. Cur /\ Current = arrays[Cur]
  BY CurType DEF OffsetsOK
<1>2. nq - 1 \in Int /\ 1 \in Int /\ (nq - 1) + 1 = nq
  BY <1>1
<1>3. Wrap(arrays[Cur], Place(off, Cur, nq - 1) + 1) = Place(off, Cur, (nq - 1) + 1)
  <2>1. off \in [1 .. Cur -> Int] /\ Cur \in 1 .. Cur
    BY <1>1
  <2> QED BY <1>2, <2>1, PlacePlus
<1>4. NewTail = Place(off, Cur, nq)
  BY <1>1, <1>2, <1>3 DEF NewTail
<1>5. EntryOf(off, Cur, nq) \in 1 .. Len(entries) /\ EntryOf(off, Cur, nq - 1) \in 1 .. Len(entries)
  BY <1>1, <1>2, PlaceType
<1> QED BY <1>1, <1>4, <1>5 DEF NewEntry, EntryOf

LEMMA DoInsertKey ==
    ASSUME TypeOK, NEW off, NEW nq, Body(off, nq), InsertKey
    PROVE  TypeOK' /\ Body(off, nq)'
<1> DEFINE s == Current.size
<1>1. /\ po.step = "insert" /\ po' = [po EXCEPT !.step = "show"] /\ Usable
      /\ entries' = [entries EXCEPT ![NewEntry].key = po.base]
      /\ UNCHANGED <<HeadIndex, TailIndex, TailBlock, emptied, slots, con, arrays, manager, heap>>
  BY DEF InsertKey, blocks, supply
<1>2. SameCall("show")
  BY <1>1, StepTo DEF CallSteps
<1>3. /\ OffsetsOK(off, nq) /\ IndexOK /\ Aligned(off) /\ Agree(off)
      /\ off \in [1 .. Cur -> Int] /\ nq \in Int
      /\ nq = Linked /\ po.base = Base(nq) /\ Occupied(off)
  BY <1>1 DEF Body, Index, Consumption, TypeOK, OffsetsOK
<1>4. Cur \in 1 .. Cur /\ Current = arrays[Cur] /\ s \in Nat \ {0} /\ nq \in Nat
  BY <1>3, CurType, LinkedType
<1>5. PICK e \in 1 .. Len(entries) : e = NewEntry /\ e = EntryOf(off, Cur, nq)
  BY <1>3, NewEntryIs
<1>6. /\ entries' \in Seq(EntryRecs) /\ Len(entries') = Len(entries)
      /\ \A x \in 1 .. Len(entries) : /\ Value(x)' = Value(x)
                                      /\ Key(x)' = IF x = e THEN Base(nq) ELSE Key(x)
  <2>1. entries' = [entries EXCEPT ![e].key = Base(nq)] /\ Base(nq) \in Int
    BY <1>1, <1>3, <1>5, BaseStep
  <2> QED BY <1>3, <2>1, SetKeyEffect
<1>7. IndexOK' /\ Cur' = Cur /\ Current' = Current /\ SameArrays
  BY <1>1, <1>3, <1>6, IndexKept DEF SameArrays
<1>8. TypeOK'
  BY <1>1, <1>2, <1>7 DEF TypeOK, SameCall
<1>9. \A q \in Int : /\ EntryOf(off, Cur, q)' = EntryOf(off, Cur, q)
                     /\ EntryOf(off, Cur, q) \in 1 .. Len(entries)
                     /\ BlockOf(off, q)' = BlockOf(off, q)
                     /\ KeyOf(off, q)' = IF EntryOf(off, Cur, q) = e THEN Base(nq) ELSE KeyOf(off, q)
  <2> SUFFICES ASSUME NEW q \in Int
               PROVE  /\ EntryOf(off, Cur, q)' = EntryOf(off, Cur, q)
                      /\ EntryOf(off, Cur, q) \in 1 .. Len(entries)
                      /\ BlockOf(off, q)' = BlockOf(off, q)
                      /\ KeyOf(off, q)' = IF EntryOf(off, Cur, q) = e THEN Base(nq) ELSE KeyOf(off, q)
    OBVIOUS
  <2>1. EntryOf(off, Cur, q)' = EntryOf(off, Cur, q)
    BY <1>3, <1>7, PlacesFixed
  <2>2. EntryOf(off, Cur, q) \in 1 .. Len(entries)
    BY <1>3, <1>4, PlaceType
  <2>3. PICK x \in 1 .. Len(entries) : x = EntryOf(off, Cur, q)
    BY <2>2
  <2>4. BlockOf(off, q)' = Value(x)' /\ KeyOf(off, q)' = Key(x)'
    BY <2>1, <2>3 DEF BlockOf, KeyOf, Value, Key
  <2> QED BY <1>6, <2>1, <2>2, <2>3, <2>4 DEF BlockOf, KeyOf
<1>10. \A q \in Live : q \in Nat /\ q < nq /\ EntryOf(off, Cur, q) # e
  <2> SUFFICES ASSUME NEW q \in Live PROVE q \in Nat /\ q < nq /\ EntryOf(off, Cur, q) # e
    OBVIOUS
  <2>1. q \in Nat /\ q < nq
    BY <1>3, LiveType
  <2>2. KeyOf(off, q) = Base(q) /\ BlockOf(off, q) \in Blocks
    BY DEF Body, Index, Listed
  <2>3. KeyOf(off, q) # InvalidBase
    BY <2>1, <2>2, BaseStep
  <2>4. BlockOf(off, q) # NoBlock
    BY <2>2, SizesAssumption
  <2>5. Key(e) = InvalidBase \/ Value(e) = NoBlock
    BY <1>1, <1>5 DEF Usable, Key, Value
  <2> QED BY <2>1, <2>3, <2>4, <2>5 DEF KeyOf, BlockOf
<1>11. /\ Live' = Live /\ Linked' = Linked /\ Begun' = Begun
       /\ CallOK(off)' /\ ClaimsOK' /\ LastOut' /\ Apart(off)' /\ AllThere(off)'
       /\ Counts(off)' /\ Placed(off)' /\ NothingElse(off)'
  <2>1. \A q \in Live : BlockOf(off, q)' = BlockOf(off, q)
    BY <1>9, LiveType
  <2> QED BY <1>1, <1>2, <1>8, <2>1, GoOn
<1>12. OffsetsOK(off, nq)'
  <2>1. Current.tail' = Place(off, Cur, nq - 1)'
    BY <1>1, <1>3, <1>7 DEF OffsetsOK, Place
  <2>2. nq >= Begun'
    BY <1>3, <1>11 DEF OffsetsOK
  <2> QED BY <1>2, <1>3, <1>7, <1>11, <2>1, <2>2 DEF OffsetsOK, SameCall
<1>13. Aligned(off)'
  <2> SUFFICES ASSUME NEW i \in 1 .. Cur, NEW k \in 0 .. (arrays[i].size - 1),
                      Key(arrays[i].at[k])' # InvalidBase
               PROVE  \E q \in Nat : Key(arrays[i].at[k])' = Base(q) /\ Place(off, i, q)' = k
    BY <1>1, <1>7 DEF Aligned
  <2>1. PICK x \in 1 .. Len(entries) : x = arrays[i].at[k]
    BY <1>3 DEF IndexOK
  <2>2. Key(arrays[i].at[k])' = Key(x)'
    BY <1>1, <2>1 DEF Key
  <2>3. \A q \in Int : Place(off, i, q)' = Place(off, i, q)
    BY <1>3, <1>7, PlacesFixed
  <2>4. CASE x = e
    <3>1. k = Place(off, i, nq)
      BY <1>3, <1>5, <2>1, <2>4 DEF Agree
    <3> QED BY <1>3, <1>4, <1>6, <2>2, <2>3, <2>4, <3>1
  <2>5. CASE x # e
    <3>1. Key(x)' = Key(x)
      BY <1>6, <2>5
    <3>2. PICK q \in Nat : Key(x) = Base(q) /\ Place(off, i, q) = k
      BY <1>3, <2>1, <2>2, <3>1 DEF Aligned
    <3> QED BY <2>2, <2>3, <3>1, <3>2
  <2> QED BY <2>4, <2>5
<1>14. Agree(off)'
  BY <1>3, <1>7, AgreeKept
<1>15. Listed(off, nq)'
  <2>1. ASSUME NEW q \in Live
        PROVE  /\ KeyOf(off, q)' = Base(q)
               /\ BlockOf(off, q)' \in Blocks
               /\ nq - Current.size' <= q
               /\ \A r \in q .. (nq - 1) : KeyOf(off, r)' # InvalidBase
    <3>1. KeyOf(off, q) = Base(q) /\ BlockOf(off, q) \in Blocks /\ nq - Current.size <= q
      BY DEF Body, Index, Listed
    <3>2. \A r \in q .. (nq - 1) : KeyOf(off, r) # InvalidBase /\ r \in Int
      BY <1>10 DEF Body, Index, Listed
    <3>3. Base(nq) # InvalidBase
      BY <1>3, BaseStep
    <3>4. \A r \in q .. (nq - 1) : KeyOf(off, r)' # InvalidBase
      BY <1>9, <3>2, <3>3
    <3> QED BY <1>7, <1>9, <1>10, <3>1, <3>4
  <2> QED BY <1>11, <2>1 DEF Listed
<1>16. KeyOf(off, nq)' = Base(nq)
  BY <1>3, <1>5, <1>9
<1>17. Underway(off, nq)'
  BY <1>2, <1>16 DEF Underway, SameCall
<1>18. Window(off, nq)'
  <2> HIDE DEF s
  <2>1. Current.size' = s /\ Current.size = s /\ nq \in Int /\ s \in Nat \ {0}
    BY <1>3, <1>4, <1>7 DEF s
  <2>2. \A r \in (nq - s) .. (nq - 1) :
           \/ KeyOf(off, r) \in {InvalidBase, Base(r)}
           \/ \A x \in (nq - s) .. r : KeyOf(off, x) = Base(x + s)
    BY <2>1 DEF Window, Body, Index
  <2>3. ASSUME NEW r \in (nq - s) .. (nq - 1), EntryOf(off, Cur, r) = e
        PROVE  r = nq - s
    <3>0. r \in Int /\ IndexOK /\ off \in [1 .. Cur -> Int] /\ Cur \in 1 .. Cur /\ nq \in Int
      BY <1>3, <1>4, <2>1
    <3>1. arrays[Cur].at[Place(off, Cur, r)] = EntryOf(off, Cur, nq)
          /\ Place(off, Cur, r) \in 0 .. (arrays[Cur].size - 1)
      BY <1>5, <2>3, <3>0, PlaceType DEF EntryOf
    <3>2. Place(off, Cur, r) = Place(off, Cur, nq)
      BY <1>3, <3>0, <3>1 DEF Agree
    <3>3. PICK m \in Int : nq = r + m * arrays[Cur].size
      BY <3>0, <3>2, PlaceSame
    <3>4. nq = r + m * s
      BY <1>4, <2>1, <3>3
    <3>5. m = 1
      <4>1. 0 < m * s /\ m * s <= s
        BY <2>1, <3>0, <3>4
      <4>2. m > 0
        BY <2>1, <4>1
      <4>3. m < 2
        BY <2>1, <4>1, <4>2
      <4> QED BY <4>2, <4>3
    <3>6. m * s = s
      BY <2>1, <3>5
    <3>7. nq = r + s
      BY <3>4, <3>6
    <3> QED BY <2>1, <3>0, <3>7
  <2>4. KeyOf(off, nq - s)' = Base(nq)
    <3>1. PICK r \in Int : r = nq - s
      BY <2>1
    <3>2. r + 1 * arrays[Cur].size = nq
      BY <1>4, <2>1, <3>1
    <3>3. Place(off, Cur, r + 1 * arrays[Cur].size) = Place(off, Cur, r)
      BY <1>3, <1>4, PlaceRound, 1 \in Int
    <3>4. EntryOf(off, Cur, r) = e
      BY <1>5, <3>2, <3>3 DEF EntryOf
    <3>5. KeyOf(off, r)' = Base(nq)
      BY <1>9, <3>4
    <3>6. nq - s' = r
      BY <1>7, <3>1 DEF s
    <3>7. KeyOf(off, nq - s)' = KeyOf(off, r)'
      BY <3>6 DEF KeyOf, EntryOf, Place
    <3> QED BY <3>5, <3>7
  <2>5. ASSUME NEW r \in (nq - s) .. (nq - 1)
        PROVE  \/ KeyOf(off, r)' \in {InvalidBase, Base(r)}
               \/ \A x \in (nq - s) .. r : KeyOf(off, x)' = Base(x + s)
    <3>1. ASSUME NEW x \in (nq - s) .. r, x # nq - s PROVE KeyOf(off, x)' = KeyOf(off, x)
      <4>1. x \in (nq - s) .. (nq - 1) /\ x \in Int
        BY <2>1
      <4>2. EntryOf(off, Cur, x) # e
        BY <2>3, <3>1, <4>1
      <4> QED BY <1>9, <4>1, <4>2
    <3>2. ASSUME NEW x \in (nq - s) .. r, x = nq - s PROVE KeyOf(off, x)' = Base(x + s)
      <4>1. EntryOf(off, Cur, x) = e
        <5>1. x + 1 * arrays[Cur].size = nq /\ x \in Int
          BY <1>4, <2>1, <3>2
        <5>2. Place(off, Cur, x + 1 * arrays[Cur].size) = Place(off, Cur, x)
          BY <1>3, <1>4, <5>1, PlaceRound, 1 \in Int
        <5> QED BY <1>5, <5>1, <5>2 DEF EntryOf
      <4>2. x + s = nq /\ x \in Int
        BY <2>1, <3>2
      <4> QED BY <1>9, <4>1, <4>2
    <3>3. CASE r = nq - s
      <4>1. \A x \in (nq - s) .. r : x = nq - s
        BY <2>1, <3>3
      <4> QED BY <3>2, <4>1
    <3>4. CASE r # nq - s
      <4>1. r \in (nq - s) .. r
        BY <2>1
      <4>2. KeyOf(off, r)' = KeyOf(off, r)
        BY <3>1, <3>4, <4>1
      <4>3. CASE KeyOf(off, r) \in {InvalidBase, Base(r)}
        BY <4>2, <4>3
      <4>4. CASE \A x \in (nq - s) .. r : KeyOf(off, x) = Base(x + s)
        <5>1. \A x \in (nq - s) .. r : KeyOf(off, x)' = Base(x + s)
          BY <3>1, <3>2, <4>4
        <5> QED BY <5>1
      <4> QED BY <2>2, <4>3, <4>4
    <3> QED BY <3>3, <3>4
  <2> QED BY <2>1, <2>5 DEF Window
<1>19. Occupied(off)'
  <2>1. Live \union Leaving \subseteq (Live \union Leaving)'
    BY <1>1, <1>11 DEF Leaving
  <2>2. \A q \in Int : BlockOf(off, q)' \in {NoBlock, BlockOf(off, q)}
    BY <1>9
  <2> QED BY <1>1, <1>3, <1>7, <2>1, <2>2, OccupiedKept
<1>20. ASSUME NEW c \in Consumers PROVE Knows(off, c)'
  <2>1. Knows(off, c)
    BY DEF Body, Consumption
  <2>2. \A x \in 1 .. Len(entries) : Key(x) # InvalidBase => Key(x)' # InvalidBase
    BY <1>3, <1>6, BaseStep
  <2>3. con[c].step = "tail" =>
            Key(arrays[con[c].array].at[arrays[con[c].array].tail])' # InvalidBase
    <3> SUFFICES ASSUME con[c].step = "tail"
                 PROVE  Key(arrays[con[c].array].at[arrays[con[c].array].tail])' # InvalidBase
      OBVIOUS
    <3>1. /\ con[c].array \in 1 .. Cur
          /\ Key(arrays[con[c].array].at[arrays[con[c].array].tail]) # InvalidBase
      BY <2>1 DEF Knows
    <3>2. PICK x \in 1 .. Len(entries) : x = arrays[con[c].array].at[arrays[con[c].array].tail]
      BY <1>3, <3>1 DEF IndexOK
    <3>3. Key(arrays[con[c].array].at[arrays[con[c].array].tail])' = Key(x)'
      BY <1>1, <3>2 DEF Key
    <3> QED BY <2>2, <3>1, <3>2, <3>3
  <2> QED BY <1>1, <1>3, <1>7, <2>1, <2>2, <2>3, KnowsKept
<1> QED BY <1>8, <1>11, <1>12, <1>13, <1>14, <1>15, <1>17, <1>18, <1>19, <1>20 DEF Body, Index, Consumption

\* When the array must grow, the keys before the next are exact.
LEMMA ExactKeys ==
    ASSUME TypeOK, NEW off, NEW nq, Body(off, nq), po.step = "insert", ~Usable
    PROVE  \A r \in (nq - Current.size) .. (nq - 1) : KeyOf(off, r) \in {InvalidBase, Base(r)}
<1> DEFINE s == Current.size
<1>1. /\ OffsetsOK(off, nq) /\ IndexOK /\ off \in [1 .. Cur -> Int] /\ nq \in Int
      /\ nq = Linked /\ Occupied(off) /\ Listed(off, nq) /\ Window(off, nq)
  BY DEF Body, Index, TypeOK, OffsetsOK
<1>2. Cur \in 1 .. Cur /\ Current = arrays[Cur] /\ s \in Nat \ {0}
  BY <1>1, CurType
<1> SUFFICES ASSUME KeyOf(off, nq - s) = Base(nq) PROVE FALSE
  <2> HIDE DEF s
  <2>1. Current.size = s
    BY DEF s
  <2> SUFFICES ASSUME NEW r \in (nq - s) .. (nq - 1), ~(KeyOf(off, r) \in {InvalidBase, Base(r)})
               PROVE  KeyOf(off, nq - s) = Base(nq)
    BY <2>1
  <2>2. \A x \in (nq - s) .. r : KeyOf(off, x) = Base(x + s)
    BY <1>1, <2>1 DEF Window
  <2>3. nq - s \in (nq - s) .. r /\ (nq - s) + s = nq
    BY <1>1, <1>2
  <2> QED BY <2>2, <2>3
<1>3. EntryOf(off, Cur, nq) = EntryOf(off, Cur, nq - s)
  <2>1. nq - s \in Int /\ (nq - s) + 1 * arrays[Cur].size = nq
    BY <1>1, <1>2
  <2>2. Place(off, Cur, (nq - s) + 1 * arrays[Cur].size) = Place(off, Cur, nq - s)
    BY <1>1, <1>2, <2>1, PlaceRound, 1 \in Int, ZenonT(60)
  <2> QED BY <2>1, <2>2 DEF EntryOf
<1>4. BlockOf(off, nq) # NoBlock /\ KeyOf(off, nq) = Base(nq)
  BY <1>1, <1>3, NewEntryIs DEF Usable, BlockOf, KeyOf, Value
<1>5. PICK r \in Live \union Leaving : EntryOf(off, Cur, nq) = EntryOf(off, Cur, r)
  BY <1>1, <1>4 DEF Occupied
<1>6. r \in Live
  BY DEF Leaving
<1>7. KeyOf(off, r) = Base(r)
  BY <1>1, <1>6 DEF Listed
<1>8. Base(r) = Base(nq) /\ r \in Nat /\ r < nq
  BY <1>1, <1>4, <1>5, <1>6, <1>7, LiveType DEF KeyOf
<1>9. r = nq
  BY <1>1, <1>8, BaseOrder
<1> QED BY <1>1, <1>8, <1>9

LEMMA InWindow ==
    ASSUME NEW nq \in Int, NEW s \in Nat \ {0}, NEW q \in (nq - s) .. (nq - 1)
    PROVE  /\ q \in Int /\ q - (nq - s) \in 0 .. (s - 1) /\ (nq - s) + (q - (nq - s)) = q
           /\ q - (nq - s) \in 0 .. (2 * s - 1)
           /\ 2 * s \in Nat \ {0} /\ nq - s \in Int
OBVIOUS

LEMMA InRound ==
    ASSUME NEW nq \in Int, NEW s \in Nat \ {0}, NEW k \in 0 .. (s - 1), NEW t \in Int
    PROVE  /\ nq - 1 \in Int /\ 1 + k \in Int /\ (nq - 1) + (1 + k) = nq + k /\ nq + k \in Int
           /\ (nq - s) + k \in Int /\ (nq - s) + k \in (nq - s) .. (nq - 1)
           /\ ((nq - s) + k) + 1 * s = nq + k /\ k \in 0 .. (2 * s - 1)
           /\ t + 1 + k = t + (1 + k)
OBVIOUS

Rem(q, w, s) == (q - w) % (2 * s)

LEMMA RoundTrip ==
    ASSUME NEW s \in Nat \ {0}, NEW w \in Int, NEW q \in Int
    PROVE  \E a \in Int : q = (w + Rem(q, w, s)) + a * s
<1>1. PICK d \in Nat \ {0}, x \in Int : d = 2 * s /\ x = q - w
  OBVIOUS
<1>2. PICK a \in Int, j \in 0 .. (d - 1) : x = a * d + j /\ j = x % d
  BY DivModS
<1>3. PICK y \in Int : y = (2 * a) * s /\ y = a * d
  BY <1>1
<1>4. j = Rem(q, w, s)
  BY <1>1, <1>2 DEF Rem
<1>5. q = (w + j) + y /\ 2 * a \in Int
  <2>1. x = y + j
    BY <1>2, <1>3
  <2>2. x = q - w
    BY <1>1
  <2> QED BY <2>1, <2>2
<1> QED BY <1>3, <1>4, <1>5

LEMMA SameRound ==
    ASSUME NEW s \in Nat \ {0}, NEW w \in Int, NEW k \in 0 .. (s - 1), NEW j \in 0 .. (s - 1),
           NEW m \in Int, w + j = (w + k) + m * s
    PROVE  j = k
<1>1. j = k + m * s /\ m * s < s /\ 0 - s < m * s
  OBVIOUS
<1>2. m < 1 /\ 0 - 1 < m
  BY <1>1
<1> QED BY <1>1, <1>2

\* The places in the larger array, whose front is that of the block a whole round
\* before the next.
Doubled(off, nq, n, off2, s) ==
    /\ off2 \in [1 .. n -> Int] /\ off2[n] = nq - s
    /\ \A i \in 1 .. Cur, q \in Int : /\ Place(off2, i, q)' = Place(off, i, q)
                                      /\ EntryOf(off2, i, q)' = EntryOf(off, i, q)
    /\ \A k \in 0 .. (s - 1) : arrays'[n].at[k] = EntryOf(off, Cur, (nq - s) + k)
    /\ \A q \in Int : Place(off2, n, q)' = (q - (nq - s)) % (2 * s)
    /\ \A q \in (nq - s) .. (nq - 1) :
           /\ Place(off2, n, q)' = q - (nq - s)
           /\ EntryOf(off2, n, q)' = EntryOf(off, Cur, q)

LEMMA GrownPlaces ==
    ASSUME TypeOK, NEW off, NEW nq, OffsetsOK(off, nq), NEW n, n = Cur + 1,
           NEW off2, off2 = [i \in 1 .. n |-> IF i = n THEN nq - Current.size ELSE off[i]],
           NEW s, s = Current.size,
           arrays' = Append(arrays, Grown),
           entries' = entries \o [e \in 1 .. s |-> FreshEntry]
    PROVE  Doubled(off, nq, n, off2, s)
<1>1. /\ off \in [1 .. Cur -> Int] /\ nq \in Int /\ Current.tail = Place(off, Cur, nq - 1)
      /\ IndexOK /\ Cur \in 1 .. Cur /\ Cur \in Nat \ {0} /\ Current = arrays[Cur] /\ s \in Nat \ {0}
  BY CurType DEF OffsetsOK, TypeOK
<1>2. /\ \A i \in 1 .. Cur : arrays'[i] = arrays[i]
      /\ arrays'[n].size = 2 * s
      /\ \A k \in 0 .. (s - 1) :
            arrays'[n].at[k] = Current.at[Wrap(Current, Current.tail + 1 + k)]
  BY <1>1, GrownEffect
<1>3. off2 \in [1 .. n -> Int] /\ off2[n] = nq - s /\ \A i \in 1 .. Cur : off2[i] = off[i]
  BY <1>1, SMTT(30)
<1>4. \A i \in 1 .. Cur, q \in Int : /\ Place(off2, i, q)' = Place(off, i, q)
                                     /\ EntryOf(off2, i, q)' = EntryOf(off, i, q)
  BY <1>2, <1>3 DEF Place, EntryOf
<1>5. ASSUME NEW k \in 0 .. (s - 1) PROVE arrays'[n].at[k] = EntryOf(off, Cur, (nq - s) + k)
  <2>1. /\ nq - 1 \in Int /\ 1 + k \in Int /\ (nq - 1) + (1 + k) = nq + k /\ nq + k \in Int
        /\ Current.tail + 1 + k = Place(off, Cur, nq - 1) + (1 + k)
        /\ (nq - s) + k \in Int
    <3>1. Current.tail \in Int
      BY <1>1, CurType
    <3>2. nq \in Int /\ s \in Nat \ {0}
      BY <1>1
    <3>3. /\ nq - 1 \in Int /\ 1 + k \in Int /\ (nq - 1) + (1 + k) = nq + k /\ nq + k \in Int
          /\ Current.tail + 1 + k = Current.tail + (1 + k)
          /\ (nq - s) + k \in Int
      <4>1. PICK t \in Int : t = Current.tail
        BY <3>1
      <4>2. /\ nq - 1 \in Int /\ 1 + k \in Int /\ (nq - 1) + (1 + k) = nq + k /\ nq + k \in Int
            /\ t + 1 + k = t + (1 + k) /\ (nq - s) + k \in Int
        <5>1. k \in Int
          BY <3>2
        <5> QED BY <3>2, <5>1
      <4> QED BY <4>1, <4>2
    <3>4. Current.tail = Place(off, Cur, nq - 1)
      BY <1>1
    <3> QED BY <3>3, <3>4
  <2>2. Wrap(arrays[Cur], Place(off, Cur, nq - 1) + (1 + k)) = Place(off, Cur, (nq - 1) + (1 + k))
    <3>1. IndexOK /\ off \in [1 .. Cur -> Int] /\ Cur \in 1 .. Cur
      BY <1>1
    <3> QED BY <2>1, <3>1, PlacePlus
  <2>3. arrays'[n].at[k] = arrays[Cur].at[Place(off, Cur, nq + k)]
    <3>1. arrays'[n].at[k] = arrays[Cur].at[Wrap(arrays[Cur], Current.tail + 1 + k)]
      BY <1>1, <1>2
    <3> QED BY <2>1, <2>2, <3>1
  <2>4. ((nq - s) + k) + 1 * arrays[Cur].size = nq + k
    BY <1>1, InRound, 1 \in Int, SMTT(30)
  <2>5. Place(off, Cur, ((nq - s) + k) + 1 * arrays[Cur].size) = Place(off, Cur, (nq - s) + k)
    <3>1. IndexOK /\ off \in [1 .. Cur -> Int] /\ Cur \in 1 .. Cur /\ 1 \in Int
      BY <1>1
    <3> QED BY <2>1, <3>1, PlaceRound, ZenonT(60)
  <2> QED BY <2>3, <2>4, <2>5 DEF EntryOf
<1>6. \A q \in Int : Place(off2, n, q)' = (q - (nq - s)) % (2 * s)
  BY <1>2, <1>3 DEF Place
<1>7. ASSUME NEW q \in (nq - s) .. (nq - 1)
      PROVE  /\ Place(off2, n, q)' = q - (nq - s)
             /\ EntryOf(off2, n, q)' = EntryOf(off, Cur, q)
  <2>1. /\ q \in Int /\ q - (nq - s) \in 0 .. (s - 1) /\ (nq - s) + (q - (nq - s)) = q
        /\ q - (nq - s) \in 0 .. (2 * s - 1) /\ 2 * s \in Nat \ {0}
    <3>1. nq \in Int /\ s \in Nat \ {0}
      BY <1>1
    <3>2. PICK x \in (nq - s) .. (nq - 1) : x = q
      OBVIOUS
    <3>3. /\ x \in Int /\ x - (nq - s) \in 0 .. (s - 1) /\ (nq - s) + (x - (nq - s)) = x
          /\ x - (nq - s) \in 0 .. (2 * s - 1)
      BY <3>1, InWindow, SMTT(30)
    <3>4. 2 * s \in Nat \ {0}
      BY <3>1, SMTT(30)
    <3> QED BY <3>2, <3>3, <3>4
  <2>2. (q - (nq - s)) % (2 * s) = q - (nq - s)
    BY <2>1, ModSmall
  <2>3. Place(off2, n, q)' = q - (nq - s)
    BY <1>6, <2>1, <2>2
  <2>4. EntryOf(off2, n, q)' = arrays'[n].at[q - (nq - s)]
    BY <2>3 DEF EntryOf
  <2> QED BY <1>5, <2>1, <2>3, <2>4
<1> QED BY <1>3, <1>4, <1>5, <1>6, <1>7 DEF Doubled

LEMMA DoInsertGrows ==
    ASSUME TypeOK, NEW off, NEW nq, Body(off, nq), InsertGrows,
           NEW n, n = Cur + 1,
           NEW off2, off2 = [i \in 1 .. n |-> IF i = n THEN nq - Current.size ELSE off[i]]
    PROVE  TypeOK' /\ Body(off2, nq)'
<1>0. PICK s : s = Current.size
  OBVIOUS
<1>1. /\ po.step = "insert" /\ ~Usable
      /\ arrays' = Append(arrays, Grown) /\ entries' = entries \o [e \in 1 .. s |-> FreshEntry]
      /\ UNCHANGED <<HeadIndex, TailIndex, TailBlock, emptied, slots, con, manager, heap, po>>
  BY <1>0 DEF InsertGrows, blocks, supply
<1>2. SameCall("insert")
  BY <1>1, CallTypes DEF SameCall, CallSteps
<1>3. /\ OffsetsOK(off, nq) /\ Listed(off, nq) /\ IndexOK /\ Aligned(off) /\ Agree(off)
      /\ nq >= Begun /\ nq = Linked /\ Occupied(off)
      /\ \A c \in Consumers : Knows(off, c)
  BY <1>1 DEF Body, Index, Consumption, TypeOK, OffsetsOK
<1>4. /\ Cur \in 1 .. Cur /\ Cur \in Nat \ {0} /\ Current = arrays[Cur] /\ Len(entries) \in Nat
      /\ nq \in Int /\ off \in [1 .. Cur -> Int] /\ s \in Nat \ {0}
  BY <1>0, <1>3, CurType DEF OffsetsOK
<1>5. /\ off2 \in [1 .. n -> Int] /\ off2[n] = nq - s
      /\ \A i \in 1 .. Cur, q \in Int : /\ Place(off2, i, q)' = Place(off, i, q)
                                        /\ EntryOf(off2, i, q)' = EntryOf(off, i, q)
      /\ \A k \in 0 .. (s - 1) : arrays'[n].at[k] = EntryOf(off, Cur, (nq - s) + k)
      /\ \A q \in Int : Place(off2, n, q)' = (q - (nq - s)) % (2 * s)
      /\ \A q \in (nq - s) .. (nq - 1) :
             /\ Place(off2, n, q)' = q - (nq - s)
             /\ EntryOf(off2, n, q)' = EntryOf(off, Cur, q)
  <2>1. /\ OffsetsOK(off, nq) /\ s = Current.size
        /\ arrays' = Append(arrays, Grown) /\ entries' = entries \o [e \in 1 .. s |-> FreshEntry]
    BY <1>0, <1>1, <1>3
  <2>2. Doubled(off, nq, n, off2, s)
    BY <2>1, GrownPlaces
  <2> QED BY <2>2 DEF Doubled
<1>6. /\ IndexOK' /\ Cur' = n
      /\ \A i \in 1 .. Cur : arrays'[i] = arrays[i]
      /\ arrays'[n].size = 2 * s /\ arrays'[n].tail = s - 1 /\ arrays'[n] = Current'
      /\ \A k \in s .. (2 * s - 1) : arrays'[n].at[k] = Len(entries) + 1 + (k - s)
      /\ Len(entries') = Len(entries) + s
      /\ \A x \in 1 .. Len(entries) : Key(x)' = Key(x) /\ Value(x)' = Value(x)
      /\ \A x \in (Len(entries) + 1) .. (Len(entries) + s) :
            Key(x)' = InvalidBase /\ Value(x)' = NoBlock
  BY <1>0, <1>1, <1>3, GrownEffect
<1>7. TypeOK'
  BY <1>1, <1>6 DEF TypeOK
<1>8. /\ \A i \in 1 .. Cur, q \in Int : EntryOf(off, i, q) \in 1 .. Len(entries)
      /\ \A k \in 0 .. (s - 1) : (nq - s) + k \in Int /\ (nq - s) + k \in (nq - s) .. (nq - 1)
  <2>1. \A i \in 1 .. Cur, q \in Int : EntryOf(off, i, q) \in 1 .. Len(entries)
    BY <1>3, <1>4, PlaceType
  <2>2. ASSUME NEW k \in 0 .. (s - 1)
        PROVE  (nq - s) + k \in Int /\ (nq - s) + k \in (nq - s) .. (nq - 1)
    BY <1>4
  <2> QED BY <2>1, <2>2
\* What is at a place of the new array.
<1>9. /\ \A k \in 0 .. (2 * s - 1) :
            \/ /\ k < s /\ k \in 0 .. (s - 1) /\ arrays'[n].at[k] = EntryOf(off, Cur, (nq - s) + k)
               /\ arrays'[n].at[k] \in 1 .. Len(entries)
            \/ /\ k >= s /\ arrays'[n].at[k] \in (Len(entries) + 1) .. (Len(entries) + s)
               /\ arrays'[n].at[k] \notin 1 .. Len(entries)
      /\ \A k, j \in 0 .. (2 * s - 1) :
            k >= s /\ j >= s /\ arrays'[n].at[k] = arrays'[n].at[j] => k = j
  <2>1. ASSUME NEW k \in 0 .. (2 * s - 1), k < s
        PROVE  /\ k \in 0 .. (s - 1) /\ arrays'[n].at[k] = EntryOf(off, Cur, (nq - s) + k)
               /\ arrays'[n].at[k] \in 1 .. Len(entries)
    <3>1. k \in 0 .. (s - 1)
      BY <1>4, <2>1
    <3>2. arrays'[n].at[k] = EntryOf(off, Cur, (nq - s) + k)
      BY <1>5, <3>1
    <3>3. PICK x \in Int : x = (nq - s) + k
      BY <1>8, <3>1
    <3>4. EntryOf(off, Cur, x) \in 1 .. Len(entries)
      BY <1>4, <1>8
    <3> QED BY <3>1, <3>2, <3>3, <3>4
  <2>2. ASSUME NEW k \in 0 .. (2 * s - 1), k >= s
        PROVE  arrays'[n].at[k] = Len(entries) + 1 + (k - s) /\ k - s \in 0 .. (s - 1)
    <3>1. s \in Nat \ {0}
      BY <1>4
    <3>2. k \in s .. (2 * s - 1) /\ k - s \in 0 .. (s - 1)
      BY <2>2, <3>1
    <3> QED BY <1>6, <3>2
  <2>3. ASSUME NEW k \in 0 .. (2 * s - 1), k >= s
        PROVE  /\ arrays'[n].at[k] \in (Len(entries) + 1) .. (Len(entries) + s)
               /\ arrays'[n].at[k] \notin 1 .. Len(entries)
    <3>1. s \in Nat \ {0} /\ Len(entries) \in Nat
      BY <1>4
    <3>2. PICK l \in {Len(entries)}, a \in {arrays'[n].at[k]} : l = Len(entries) /\ a = arrays'[n].at[k]
      BY <3>1
    <3>3. a = l + 1 + (k - s) /\ l \in Nat
      BY <2>2, <2>3, <3>1, <3>2
    <3>4. a \in (l + 1) .. (l + s) /\ a \notin 1 .. l
      BY <2>3, <3>1, <3>3, FreshPlaces
    <3> QED BY <3>2, <3>4
  <2>4. ASSUME NEW k \in 0 .. (2 * s - 1), NEW j \in 0 .. (2 * s - 1), k >= s, j >= s,
               arrays'[n].at[k] = arrays'[n].at[j]
        PROVE  k = j
    <3>1. s \in Nat \ {0} /\ Len(entries) \in Nat
      BY <1>4
    <3>2. PICK l \in {Len(entries)}, x \in {arrays'[n].at[k]}, y \in {arrays'[n].at[j]} : l = Len(entries) /\ x = arrays'[n].at[k] /\ y = arrays'[n].at[j]
      BY <3>1
    <3>3. x = l + 1 + (k - s) /\ y = l + 1 + (j - s) /\ x = y /\ l \in Nat
      BY <2>2, <2>4, <3>1, <3>2
    <3> QED BY <2>4, <3>1, <3>3
  <2>5. \A k \in 0 .. (2 * s - 1) : k < s \/ k >= s
    BY <1>4
  <2> QED BY <2>1, <2>3, <2>4, <2>5
<1>10. \A k \in 0 .. (2 * s - 1) : ~(k < s /\ k >= s)
  BY <1>4
<1>10b. \A q \in Int : /\ Place(off2, n, q)' \in 0 .. (2 * s - 1)
                       /\ EntryOf(off2, Cur, q)' = arrays'[n].at[Place(off2, n, q)']
                       /\ EntryOf(off2, n, q)' = EntryOf(off2, Cur, q)'
  <2>1. ASSUME NEW q \in Int PROVE Place(off2, n, q)' \in 0 .. (2 * s - 1)
    <3>1. Place(off2, n, q)' = (q - (nq - s)) % (2 * s)
      BY <1>5
    <3>2. 2 * s \in Nat \ {0} /\ q - (nq - s) \in Int
      BY <1>4
    <3> QED BY <3>1, <3>2, DivModS
  <2> QED BY <1>6, <2>1 DEF EntryOf, Place
\* The blocks before the next keep their entries.
<1>11. \A q \in (nq - s) .. (nq - 1) :
          /\ q \in Int /\ EntryOf(off2, Cur, q)' = EntryOf(off, Cur, q)
          /\ KeyOf(off2, q)' = KeyOf(off, q) /\ BlockOf(off2, q)' = BlockOf(off, q)
  <2> SUFFICES ASSUME NEW q \in (nq - s) .. (nq - 1)
               PROVE  /\ q \in Int /\ EntryOf(off2, Cur, q)' = EntryOf(off, Cur, q)
                      /\ KeyOf(off2, q)' = KeyOf(off, q) /\ BlockOf(off2, q)' = BlockOf(off, q)
    OBVIOUS
  <2>1. q \in Int
    BY <1>4
  <2>2. EntryOf(off2, Cur, q)' = EntryOf(off, Cur, q)
    BY <1>5, <1>10b, <2>1
  <2>3. PICK x \in 1 .. Len(entries) : x = EntryOf(off, Cur, q)
    BY <1>4, <1>8, <2>1
  <2>4. KeyOf(off2, q)' = Key(x)' /\ BlockOf(off2, q)' = Value(x)'
    BY <2>2, <2>3 DEF KeyOf, BlockOf, Key, Value
  <2> QED BY <1>6, <2>1, <2>2, <2>3, <2>4 DEF KeyOf, BlockOf
<1>12. \A q \in Live : q \in (nq - s) .. (nq - 1)
  <2> SUFFICES ASSUME NEW q \in Live PROVE q \in (nq - s) .. (nq - 1)
    OBVIOUS
  <2>1. q \in Nat /\ q < nq
    BY <1>3, LiveType
  <2>2. nq - s <= q
    BY <1>0, <1>3 DEF Listed
  <2> QED BY <2>1, <2>2, <1>4
<1>13. /\ Live' = Live /\ Linked' = Linked /\ Begun' = Begun
       /\ CallOK(off2)' /\ ClaimsOK' /\ LastOut' /\ Apart(off2)' /\ AllThere(off2)'
       /\ Counts(off2)' /\ Placed(off2)' /\ NothingElse(off2)'
  <2>1. \A q \in Live : BlockOf(off2, q)' = BlockOf(off, q)
    BY <1>11, <1>12
  <2> QED BY <1>1, <1>2, <1>7, <2>1, GoOn
<1>14. \A r \in (nq - s) .. (nq - 1) : KeyOf(off, r) \in {InvalidBase, Base(r)}
  BY <1>0, <1>1, ExactKeys
<1>15. OffsetsOK(off2, nq)'
  <2>1. nq - 1 \in (nq - s) .. (nq - 1) /\ (nq - 1) - (nq - s) = s - 1
    BY <1>4
  <2>2. Place(off2, n, nq - 1)' = s - 1
    <3>1. PICK r \in (nq - s) .. (nq - 1) : r = nq - 1
      BY <2>1
    <3>2. Place(off2, n, r)' = r - (nq - s)
      BY <1>5
    <3>3. Place(off2, n, nq - 1)' = Place(off2, n, r)'
      BY <3>1 DEF Place
    <3> QED BY <2>1, <3>1, <3>2, <3>3
  <2>3. Current.tail' = s - 1
    BY <1>6
  <2>4. Current.tail' = Place(off2, Cur, nq - 1)'
    BY <1>6, <2>2, <2>3 DEF Place
  <2>5. off2 \in [1 .. Cur' -> Int]
    BY <1>5, <1>6
  <2>6. po.base = Base(nq)
    BY <1>1, <1>3 DEF OffsetsOK
  <2> QED BY <1>1, <1>3, <1>4, <1>13, <2>4, <2>5, <2>6 DEF OffsetsOK
<1>16. Aligned(off2)'
  <2>1. ASSUME NEW i \in 1 .. Cur, NEW k \in 0 .. (arrays'[i].size - 1),
               Key(arrays[i].at[k])' # InvalidBase
        PROVE  \E q \in Nat : Key(arrays[i].at[k])' = Base(q) /\ Place(off2, i, q)' = k
    <3>1. arrays'[i] = arrays[i]
      BY <1>6
    <3>2. PICK x \in 1 .. Len(entries) : x = arrays[i].at[k]
      BY <1>3, <3>1 DEF IndexOK
    <3>3. Key(arrays[i].at[k])' = Key(x)'
      BY <3>1, <3>2 DEF Key
    <3>4. Key(x)' = Key(x)
      BY <1>6
    <3>5. PICK q \in Nat : Key(x) = Base(q) /\ Place(off, i, q) = k
      BY <1>3, <2>1, <3>1, <3>2, <3>3, <3>4 DEF Aligned
    <3>6. Place(off2, i, q)' = Place(off, i, q)
      BY <1>5
    <3> QED BY <3>3, <3>4, <3>5, <3>6
  <2>2. ASSUME NEW k \in 0 .. (2 * s - 1), Key(arrays[n].at[k])' # InvalidBase
        PROVE  \E q \in Nat : Key(arrays[n].at[k])' = Base(q) /\ Place(off2, n, q)' = k
    <3>1. CASE k \in 0 .. (s - 1) /\ arrays'[n].at[k] = EntryOf(off, Cur, (nq - s) + k)
      <4>1. PICK q \in (nq - s) .. (nq - 1) : q = (nq - s) + k
        BY <1>8, <3>1
      <4>2. q \in Int /\ q - (nq - s) = k
        BY <1>4, <4>1
      <4>3. Key(arrays[n].at[k])' = KeyOf(off2, q)'
        BY <1>11, <3>1, <4>1 DEF KeyOf, Key
      <4>4. KeyOf(off, q) = Base(q) /\ KeyOf(off2, q)' = KeyOf(off, q)
        BY <1>11, <1>14, <2>2, <4>3
      <4>5. q \in Nat
        <5>1. /\ Place(off, Cur, q) \in 0 .. (arrays[Cur].size - 1)
              /\ Key(arrays[Cur].at[Place(off, Cur, q)]) = Base(q) /\ Base(q) # InvalidBase
          BY <1>3, <1>4, <4>2, <4>4, PlaceType, BaseStep DEF KeyOf, EntryOf
        <5>2. PICK r \in Nat : Base(q) = Base(r)
          BY <1>3, <1>4, <5>1 DEF Aligned
        <5>3. q = r
          BY <4>2, <5>2, BaseOrder
        <5> QED BY <5>3
      <4>6. Place(off2, n, q)' = k
        BY <1>5, <4>1, <4>2
      <4> QED BY <4>3, <4>4, <4>5, <4>6
    <3>2. CASE arrays'[n].at[k] \in (Len(entries) + 1) .. (Len(entries) + s)
      <4>1. PICK x \in (Len(entries) + 1) .. (Len(entries) + s) : x = arrays'[n].at[k]
        BY <3>2
      <4>2. Key(arrays[n].at[k])' = Key(x)'
        BY <3>2, <4>1 DEF Key
      <4> QED BY <1>6, <2>2, <4>2
    <3> QED BY <1>9, <3>1, <3>2
  <2>3. \A i \in 1 .. n : i \in 1 .. Cur \/ i = n
    BY <1>4
  <2>4. ASSUME NEW i \in 1 .. n, NEW k \in 0 .. (arrays'[i].size - 1),
               Key(arrays[i].at[k])' # InvalidBase
        PROVE  \E q \in Nat : Key(arrays[i].at[k])' = Base(q) /\ Place(off2, i, q)' = k
    <3>1. CASE i \in 1 .. Cur
      BY <2>1, <2>4, <3>1
    <3>2. CASE i = n
      <4>1. k \in 0 .. (2 * s - 1) /\ Key(arrays[n].at[k])' # InvalidBase
        BY <1>6, <2>4, <3>2
      <4> QED BY <2>2, <3>2, <4>1
    <3> QED BY <2>3, <3>1, <3>2
  <2> QED BY <1>6, <2>4 DEF Aligned
<1>17. Agree(off2)'
  <2>1. ASSUME NEW i \in 1 .. n, NEW k \in 0 .. (arrays'[i].size - 1), NEW q \in Int,
               arrays'[i].at[k] = EntryOf(off2, Cur, q)'
        PROVE  k = Place(off2, i, q)'
    <3>1. PICK j \in 0 .. (2 * s - 1) : j = Place(off2, n, q)' /\ arrays'[i].at[k] = arrays'[n].at[j]
      BY <1>10b, <2>1
    <3>2. CASE i \in 1 .. Cur
      <4>1. arrays'[i] = arrays[i] /\ arrays[i].at[k] \in 1 .. Len(entries)
        BY <1>3, <1>6, <3>2, <2>1 DEF IndexOK
      <4>2. j \in 0 .. (s - 1) /\ arrays'[n].at[j] = EntryOf(off, Cur, (nq - s) + j)
        BY <1>9, <3>1, <4>1
      <4>4. PICK x \in (nq - s) .. (nq - 1) : x = (nq - s) + j
        BY <1>8, <4>2
      <4>5. x \in Int
        BY <1>11
      <4>6. EntryOf(off, Cur, q) = EntryOf(off, Cur, x)
        <5>1. s \in Nat \ {0} /\ nq - s \in Int
          BY <1>4
        <5>2. j = (q - (nq - s)) % (2 * s)
          BY <1>5, <3>1
        <5>3. PICK a \in Int : q = x + a * s
          <6>1. PICK w \in Int : w = nq - s
            BY <5>1
          <6>2. j = (q - w) % (2 * s) /\ x = w + j /\ s \in Nat \ {0}
            BY <4>4, <5>1, <5>2, <6>1
          <6>3. \E a \in Int : q = (w + Rem(q, w, s)) + a * s
            BY <6>2, RoundTrip
          <6>4. Rem(q, w, s) = j
            BY <6>2 DEF Rem
          <6> QED BY <6>2, <6>3, <6>4
        <5>4. Place(off, Cur, x + a * arrays[Cur].size) = Place(off, Cur, x)
          <6>1. IndexOK /\ off \in [1 .. Cur -> Int] /\ Cur \in 1 .. Cur
            BY <1>3, <1>4
          <6> QED BY <6>1, <4>5, PlaceRound
        <5>5. arrays[Cur].size = s
          BY <1>0, <1>4
        <5> QED BY <5>3, <5>4, <5>5 DEF EntryOf
      <4>7. arrays[i].at[k] = EntryOf(off, Cur, q)
        BY <3>1, <4>1, <4>2, <4>4, <4>6
      <4>8. k = Place(off, i, q)
        BY <1>3, <2>1, <3>2, <4>1, <4>7 DEF Agree
      <4> QED BY <1>5, <3>2, <4>8
    <3>3. CASE i = n
      <4>1. k \in 0 .. (2 * s - 1) /\ arrays'[n].at[k] = arrays'[n].at[j]
        BY <1>6, <3>1, <3>3
      <4>3. CASE k < s /\ j < s
        <5>1. /\ k \in 0 .. (s - 1) /\ arrays'[n].at[k] = EntryOf(off, Cur, (nq - s) + k)
              /\ j \in 0 .. (s - 1) /\ arrays'[n].at[j] = EntryOf(off, Cur, (nq - s) + j)
          BY <1>9, <1>10, <3>1, <4>1, <4>3
        <5>2. PICK x \in (nq - s) .. (nq - 1), y \in (nq - s) .. (nq - 1) :
                 x = (nq - s) + k /\ y = (nq - s) + j
          BY <1>8, <5>1
        <5>3. EntryOf(off, Cur, x) = EntryOf(off, Cur, y) /\ x \in Int /\ y \in Int
          BY <1>11, <4>1, <5>1, <5>2
        <5>4. Place(off, Cur, x) = Place(off, Cur, y)
          <6>1. Place(off, Cur, x) \in 0 .. (arrays[Cur].size - 1)
            BY <1>3, <1>4, <5>3, PlaceType
          <6>2. arrays[Cur].at[Place(off, Cur, x)] = EntryOf(off, Cur, y)
            BY <5>3 DEF EntryOf
          <6> QED BY <1>3, <1>4, <5>3, <6>1, <6>2 DEF Agree
        <5>5. PICK m \in Int : y = x + m * arrays[Cur].size
          <6>1. IndexOK /\ off \in [1 .. Cur -> Int] /\ Cur \in 1 .. Cur
            BY <1>3, <1>4
          <6> QED BY <6>1, <5>3, <5>4, PlaceSame
        <5>6. j = k
          <6>1. arrays[Cur].size = s /\ nq - s \in Int /\ s \in Nat \ {0}
            BY <1>0, <1>4, SMTT(30)
          <6>2. k \in 0 .. (s - 1) /\ j \in 0 .. (s - 1) /\ (nq - s) + j = ((nq - s) + k) + m * s
            BY <5>1, <5>2, <5>5, <6>1
          <6>3. PICK w \in Int : w = nq - s
            BY <6>1
          <6>4. w + j = (w + k) + m * s /\ s \in Nat \ {0}
            BY <6>1, <6>2, <6>3
          <6> QED BY <6>2, <6>4, SameRound, ZenonT(60)
        <5> QED BY <3>1, <3>3, <5>6
      <4>4. CASE k >= s /\ j >= s
        <5>1. k = j
          BY <1>9, <4>1, <4>4
        <5> QED BY <3>1, <3>3, <5>1
      <4>5. (k < s <=> arrays'[n].at[k] \in 1 .. Len(entries)) /\ (j < s <=> arrays'[n].at[j] \in 1 .. Len(entries))
            /\ (k < s \/ k >= s) /\ (j < s \/ j >= s)
        <5>1. \A x \in 0 .. (2 * s - 1) : (x < s <=> arrays'[n].at[x] \in 1 .. Len(entries))
                                         /\ (x < s \/ x >= s)
          BY <1>9, <1>10
        <5> QED BY <4>1, <5>1
      <4> QED BY <4>1, <4>3, <4>4, <4>5
    <3>4. i \in 1 .. Cur \/ i = n
      BY <1>4
    <3> QED BY <3>2, <3>3, <3>4
  <2>2. \A i \in 1 .. n : \A k \in 0 .. (arrays'[i].size - 1) : \A q \in Int :
           arrays'[i].at[k] = EntryOf(off2, Cur, q)' => k = Place(off2, i, q)'
    BY <2>1
  <2> QED BY <1>6, <2>2 DEF Agree
<1>18. Listed(off2, nq)'
  <2>1. ASSUME NEW q \in Live
        PROVE  /\ KeyOf(off2, q)' = Base(q)
               /\ BlockOf(off2, q)' \in Blocks
               /\ nq - Current.size' <= q
               /\ \A r \in q .. (nq - 1) : KeyOf(off2, r)' # InvalidBase
    <3>1. KeyOf(off, q) = Base(q) /\ BlockOf(off, q) \in Blocks
          /\ \A r \in q .. (nq - 1) : KeyOf(off, r) # InvalidBase
      BY <1>3 DEF Listed
    <3>2. q \in (nq - s) .. (nq - 1)
      BY <1>12
    <3>3. KeyOf(off2, q)' = Base(q) /\ BlockOf(off2, q)' \in Blocks
      BY <1>11, <3>1, <3>2
    <3>4. nq - Current.size' <= q
      <4>1. Current.size' = 2 * s
        BY <1>6
      <4> QED BY <1>4, <3>2, <4>1
    <3>5. \A r \in q .. (nq - 1) : r \in (nq - s) .. (nq - 1)
      BY <1>4, <3>2
    <3>6. \A r \in q .. (nq - 1) : KeyOf(off2, r)' # InvalidBase
      BY <1>11, <3>1, <3>5
    <3> QED BY <3>3, <3>4, <3>6
  <2> QED BY <1>13, <2>1 DEF Listed
<1>19. Underway(off2, nq)'
  BY <1>1 DEF Underway
\* The places outside the window are those of fresh entries.
<1>20. ASSUME NEW q \in Int, BlockOf(off2, q)' # NoBlock \/ KeyOf(off2, q)' # InvalidBase
       PROVE  \E x \in (nq - s) .. (nq - 1) :
                 EntryOf(off2, Cur, q)' = EntryOf(off, Cur, x) /\ Place(off2, n, q)' = x - (nq - s)
  <2>1. PICK j \in 0 .. (2 * s - 1) : j = Place(off2, n, q)' /\ EntryOf(off2, Cur, q)' = arrays'[n].at[j]
    BY <1>10b
  <2>2. CASE arrays'[n].at[j] \in (Len(entries) + 1) .. (Len(entries) + s)
    <3>1. PICK x \in (Len(entries) + 1) .. (Len(entries) + s) : x = EntryOf(off2, Cur, q)'
      BY <2>1, <2>2
    <3>2. KeyOf(off2, q)' = Key(x)' /\ BlockOf(off2, q)' = Value(x)'
      BY <3>1 DEF KeyOf, BlockOf, Key, Value
    <3> QED BY <1>6, <1>20, <3>2
  <2>3. CASE j \in 0 .. (s - 1) /\ arrays'[n].at[j] = EntryOf(off, Cur, (nq - s) + j)
    <3>1. PICK x \in (nq - s) .. (nq - 1) : x = (nq - s) + j
      BY <1>8, <2>3
    <3>2. j = x - (nq - s)
      BY <1>4, <3>1
    <3> QED BY <2>1, <2>3, <3>1, <3>2
  <2> QED BY <1>9, <2>2, <2>3
<1>21. Window(off2, nq)'
  <2>1. Current.size' = 2 * s
    BY <1>6
  <2>2. ASSUME NEW r \in (nq - 2 * s) .. (nq - 1) PROVE KeyOf(off2, r)' \in {InvalidBase, Base(r)}
    <3>1. r \in Int
      BY <1>4
    <3>2. CASE r \in (nq - s) .. (nq - 1)
      BY <1>11, <1>14, <3>2
    <3>3. CASE r \notin (nq - s) .. (nq - 1)
      <4> SUFFICES ASSUME KeyOf(off2, r)' # InvalidBase PROVE FALSE
        OBVIOUS
      <4>1. PICK x \in (nq - s) .. (nq - 1) : Place(off2, n, r)' = x - (nq - s)
        BY <1>20, <3>1
      <4>2. PICK w \in Int : w = nq - s
        BY <1>4
      <4>3. x - w \in 0 .. (s - 1) /\ r \in (w - s) .. (w - 1)
        BY <1>4, <3>1, <3>3, <4>2
      <4>4. PICK a \in Int : r = (w + Rem(r, w, s)) + a * s
        BY <1>4, <3>1, <4>2, RoundTrip
      <4>5. Rem(r, w, s) = x - w
        BY <1>5, <3>1, <4>1, <4>2 DEF Rem
      <4>6. r - w = (r - w) + 1 * (2 * s) - (2 * s) /\ (r - w) + 2 * s \in 0 .. (2 * s - 1)
            /\ 2 * s \in Nat \ {0} /\ r - w \in Int /\ (r - w) + 2 * s >= s
        BY <1>4, <3>1, <4>2, <4>3
      <4>7. ((r - w) + 1 * (2 * s)) % (2 * s) = (r - w) % (2 * s)
        BY <4>6, ModShift, 1 \in Int
      <4>8. ((r - w) + 1 * (2 * s)) % (2 * s) = (r - w) + 2 * s
        BY <4>6, ModSmall
      <4> QED BY <1>4, <4>3, <4>5, <4>6, <4>7, <4>8 DEF Rem
    <3> QED BY <3>2, <3>3
  <2> QED BY <2>1, <2>2 DEF Window
<1>22. Occupied(off2)'
  <2> SUFFICES ASSUME NEW q \in Int, BlockOf(off2, q)' # NoBlock
               PROVE  \E r \in Live : EntryOf(off2, Cur, q)' = EntryOf(off2, Cur, r)'
    BY <1>13 DEF Occupied
  <2>1. PICK x \in (nq - s) .. (nq - 1) : EntryOf(off2, Cur, q)' = EntryOf(off, Cur, x)
    BY <1>20
  <2>2. EntryOf(off2, Cur, x)' = EntryOf(off, Cur, x) /\ x \in Int
    BY <1>11
  <2>3. BlockOf(off2, q)' = BlockOf(off2, x)'
    BY <2>1, <2>2 DEF BlockOf
  <2>4. BlockOf(off, x) # NoBlock
    BY <1>11, <2>3
  <2>5. PICK r \in Live \union Leaving : EntryOf(off, Cur, x) = EntryOf(off, Cur, r)
    BY <1>1, <1>3, <2>2, <2>4 DEF Occupied
  <2>6. r \in Live
    BY <1>1, SMTT(30) DEF Leaving
  <2> QED BY <1>11, <1>12, <2>1, <2>5, <2>6
<1>23. ASSUME NEW c \in Consumers PROVE Knows(off2, c)'
  <2>1. Knows(off, c)
    BY <1>3
  <2>2. Busy(c)' = Busy(c) /\ \A q \in Busy(c) : q \in Live /\ q \in Int
    <3>1. ClaimsOK
      BY DEF Body, Consumption
    <3> QED BY <1>1, <3>1, BusyLive, ProducerViews
  <2>3. con[c].step \notin {"idle", "array"} =>
          /\ con[c].array \in 1 .. Cur /\ con[c].array \in 1 .. n
          /\ arrays'[con[c].array] = arrays[con[c].array]
          /\ \A q \in Busy(c) : EntryOf(off2, con[c].array, q)' = EntryOf(off2, Cur, q)'
    <3> SUFFICES ASSUME con[c].step \notin {"idle", "array"}
                 PROVE  /\ con[c].array \in 1 .. Cur /\ con[c].array \in 1 .. n
                        /\ arrays'[con[c].array] = arrays[con[c].array]
                        /\ \A q \in Busy(c) : EntryOf(off2, con[c].array, q)' = EntryOf(off2, Cur, q)'
      OBVIOUS
    <3>1. con[c].array \in 1 .. Cur /\ \A q \in Busy(c) : EntryOf(off, con[c].array, q) = EntryOf(off, Cur, q)
      BY <2>1 DEF Knows
    <3>2. con[c].array \in 1 .. n
      BY <1>4, <3>1
    <3>3. PICK i \in 1 .. Cur : i = con[c].array
      BY <3>1
    <3>4. ASSUME NEW q \in Busy(c) PROVE EntryOf(off2, con[c].array, q)' = EntryOf(off2, Cur, q)'
      <4>1. EntryOf(off2, i, q)' = EntryOf(off, i, q)
        BY <1>5, <2>2
      <4>2. EntryOf(off2, Cur, q)' = EntryOf(off, Cur, q)
        BY <1>11, <1>12, <2>2
      <4>3. EntryOf(off2, con[c].array, q)' = EntryOf(off2, i, q)'
        BY <1>1, <3>3 DEF EntryOf, Place
      <4> QED BY <3>1, <3>3, <4>1, <4>2, <4>3
    <3> QED BY <1>6, <3>1, <3>2, <3>4
  <2>4. ASSUME NEW i \in 1 .. Cur, NEW k \in 0 .. (arrays[i].size - 1), Key(arrays[i].at[k]) # InvalidBase
        PROVE  Key(arrays[i].at[k])' # InvalidBase
    <3>1. arrays'[i] = arrays[i]
      BY <1>6
    <3>2. PICK x \in 1 .. Len(entries) : x = arrays[i].at[k]
      BY <1>3 DEF IndexOK
    <3>3. Key(arrays[i].at[k])' = Key(x)'
      BY <3>1, <3>2 DEF Key
    <3> QED BY <1>6, <2>4, <3>2, <3>3
  <2>5. con[c].step = "tail" =>
            Key(arrays[con[c].array].at[arrays[con[c].array].tail])' # InvalidBase
    <3> SUFFICES ASSUME con[c].step = "tail"
                 PROVE  Key(arrays[con[c].array].at[arrays[con[c].array].tail])' # InvalidBase
      OBVIOUS
    <3>1. PICK i \in 1 .. Cur : i = con[c].array /\ arrays'[i] = arrays[i]
      BY <2>3
    <3>2. PICK k \in 0 .. (arrays[i].size - 1) : k = arrays[i].tail
      BY <1>3 DEF IndexOK
    <3>3. Key(arrays[i].at[k]) # InvalidBase
      BY <2>1, <3>1, <3>2 DEF Knows
    <3>4. Key(arrays[con[c].array].at[arrays[con[c].array].tail])' = Key(arrays[i].at[k])'
      BY <1>1, <3>1, <3>2 DEF Key
    <3> QED BY <2>4, <3>3, <3>4
  <2>6. con[c].step = "key" =>
          /\ con[c].place \in 0 .. (arrays'[con[c].array].size - 1)
          /\ Key(arrays[con[c].array].at[con[c].place])' # InvalidBase
    <3> SUFFICES ASSUME con[c].step = "key"
                 PROVE  /\ con[c].place \in 0 .. (arrays'[con[c].array].size - 1)
                        /\ Key(arrays[con[c].array].at[con[c].place])' # InvalidBase
      OBVIOUS
    <3>1. PICK i \in 1 .. Cur : i = con[c].array /\ arrays'[i] = arrays[i]
      BY <2>3
    <3>2. PICK k \in 0 .. (arrays[i].size - 1) : k = con[c].place /\ Key(arrays[i].at[k]) # InvalidBase
      BY <2>1, <3>1 DEF Knows
    <3>3. Key(arrays[con[c].array].at[con[c].place])' = Key(arrays[i].at[k])'
      BY <1>1, <3>1, <3>2 DEF Key
    <3> QED BY <2>4, <3>1, <3>2, <3>3
  <2>7. con[c].step \in {"take", "setEmpty", "clear", "return"} =>
          con[c].place = Place(off2, con[c].array, Num(con[c].item))'
    <3> SUFFICES ASSUME con[c].step \in {"take", "setEmpty", "clear", "return"}
                 PROVE  con[c].place = Place(off2, con[c].array, Num(con[c].item))'
      OBVIOUS
    <3>1. PICK i \in 1 .. Cur : i = con[c].array
      BY <2>3
    <3>2. con[c].item \in Int
      BY ConTypes DEF Calling
    <3>3. PICK q \in Int : q = Num(con[c].item)
      BY <3>2, DivMod
    <3>4. Place(off2, con[c].array, Num(con[c].item))' = Place(off2, i, q)'
      BY <1>1, <3>1, <3>3 DEF Place
    <3>5. con[c].place = Place(off, i, q)
      BY <2>1, <3>1, <3>3 DEF Knows
    <3> QED BY <1>5, <3>4, <3>5
  <2> QED BY <1>1, <1>6, <2>2, <2>3, <2>5, <2>6, <2>7 DEF Knows
<1> QED BY <1>7, <1>13, <1>15, <1>16, <1>17, <1>18, <1>19, <1>21, <1>22, <1>23 DEF Body, Index, Consumption

\* One entry gets a value.
Valued(off, e, b) ==
    \A q \in Int : /\ EntryOf(off, Cur, q)' = EntryOf(off, Cur, q)
                   /\ KeyOf(off, q)' = KeyOf(off, q)
                   /\ EntryOf(off, Cur, q) = e => BlockOf(off, q)' = b
                   /\ EntryOf(off, Cur, q) # e => BlockOf(off, q)' = BlockOf(off, q)

LEMMA ValueSet ==
    ASSUME IndexOK, SameArrays, NEW off \in [1 .. Cur -> Int], NEW e \in 1 .. Len(entries), NEW b,
           \A x \in 1 .. Len(entries) : /\ Key(x)' = Key(x)
                                        /\ Value(x)' = IF x = e THEN b ELSE Value(x)
    PROVE  SameKeys /\ Valued(off, e, b)
<1>1. SameKeys
  BY DEF SameKeys
<1> SUFFICES ASSUME NEW q \in Int
             PROVE  /\ EntryOf(off, Cur, q)' = EntryOf(off, Cur, q)
                    /\ KeyOf(off, q)' = KeyOf(off, q)
                    /\ EntryOf(off, Cur, q) = e => BlockOf(off, q)' = b
                    /\ EntryOf(off, Cur, q) # e => BlockOf(off, q)' = BlockOf(off, q)
  BY <1>1 DEF Valued
<1>2. EntryOf(off, Cur, q)' = EntryOf(off, Cur, q)
  BY PlacesFixed
<1>3. PICK x \in 1 .. Len(entries) : x = EntryOf(off, Cur, q)
  BY CurType, PlaceType
<1>4. BlockOf(off, q)' = Value(x)'
  BY <1>2, <1>3 DEF BlockOf, Value
<1> QED BY <1>1, <1>2, <1>3, <1>4, KeysFixed DEF BlockOf

\* An entry that has the key of a block is that of no live one other than it.
LEMMA EntryApart ==
    ASSUME TypeOK, NEW off, NEW nq, Listed(off, nq), NEW q \in Live, NEW r \in Int,
           KeyOf(off, r) = Base(r), EntryOf(off, Cur, q) = EntryOf(off, Cur, r)
    PROVE  q = r
<1>1. KeyOf(off, q) = Base(q) /\ q \in Nat
  BY LiveType DEF Listed
<1>2. Base(q) = Base(r)
  BY <1>1 DEF KeyOf
<1> QED BY <1>1, <1>2, BaseOrder

\* What the consumers know when an entry gets another value, or the tail a place
\* that was used.
LEMMA KeysConsumption ==
    ASSUME TypeOK, NEW off, NEW nq, Body(off, nq), SameArrays, SameKeys, UNCHANGED <<con, HeadIndex>>,
           \A c \in Consumers : con[c].step = "tail" =>
              Key(arrays[con[c].array].at[arrays[con[c].array].tail])' # InvalidBase
    PROVE  /\ Consumption(off)' /\ Aligned(off)' /\ Agree(off)' /\ Window(off, nq)'
           /\ off \in [1 .. Cur' -> Int]
<1>0. IndexOK /\ off \in [1 .. Cur -> Int] /\ Aligned(off) /\ Agree(off) /\ nq \in Int
  BY DEF TypeOK, Body, Index, OffsetsOK
<1>1. ASSUME NEW c \in Consumers PROVE Knows(off, c)'
  <2>1. Knows(off, c)
    BY DEF Body, Consumption
  <2>2. \A x \in 1 .. Len(entries) : Key(x) # InvalidBase => Key(x)' # InvalidBase
    BY DEF SameKeys
  <2> QED BY <1>0, <2>1, <2>2, KnowsKept
<1>2. ClaimsOK' /\ LastOut'
  BY ProducerFrame DEF Body, Consumption
<1>3. Aligned(off)' /\ Agree(off)' /\ Window(off, nq)'
  BY <1>0, AlignedKept, AgreeKept, WindowKept DEF Body, Index
<1> QED BY <1>0, <1>1, <1>2, <1>3 DEF Consumption, SameArrays

LEMMA TailKeyKept ==
    ASSUME TypeOK, NEW off, NEW nq, Body(off, nq), SameKeys, arrays' = arrays, con' = con
    PROVE  \A c \in Consumers : con[c].step = "tail" =>
              Key(arrays[con[c].array].at[arrays[con[c].array].tail])' # InvalidBase
<1> SUFFICES ASSUME NEW c \in Consumers, con[c].step = "tail"
             PROVE  Key(arrays[con[c].array].at[arrays[con[c].array].tail])' # InvalidBase
  OBVIOUS
<1>1. /\ con[c].array \in 1 .. Cur
      /\ Key(arrays[con[c].array].at[arrays[con[c].array].tail]) # InvalidBase
  BY DEF Body, Consumption, Knows
<1>2. PICK x \in 1 .. Len(entries) : x = arrays[con[c].array].at[arrays[con[c].array].tail]
  BY <1>1 DEF TypeOK, IndexOK
<1>3. Key(arrays[con[c].array].at[arrays[con[c].array].tail])' = Key(x)'
  BY <1>2 DEF Key
<1> QED BY <1>1, <1>2, <1>3 DEF SameKeys

LEMMA TakenCall ==
    ASSUME po \in Calls, po.need >= 1, po.block \in Blocks, NEW s \in CallSteps,
           po' = [po EXCEPT !.taken = Append(@, po.block), !.need = @ - 1,
                            !.base = @ + BlockSize, !.step = s]
    PROVE  /\ po' \in Calls /\ po'.step = s /\ po'.bulk = po.bulk /\ po'.n = po.n
           /\ po'.need = po.need - 1 /\ po'.base = po.base + BlockSize /\ po'.old = po.old
           /\ po'.taken = Append(po.taken, po.block)
<1> DEFINE t == Append(po.taken, po.block)
           m == po.need - 1
           a == po.base + BlockSize
<1>1. po.taken \in Seq(Blocks) /\ po.need \in Nat /\ po.base \in Int
  BY DEF Calls
<1>2. t \in Seq(Blocks) /\ m \in Nat /\ a \in Int
  BY <1>1, SizesAssumption
<1>3. po' = [po EXCEPT !.taken = t, !.need = m, !.base = a, !.step = s]
  OBVIOUS
<1> HIDE DEF t, m, a
<1>4. po' \in Calls /\ po'.step = s /\ po'.bulk = po.bulk /\ po'.n = po.n /\ po'.need = m
      /\ po'.base = a /\ po'.old = po.old /\ po'.taken = t
  BY <1>2, <1>3 DEF Calls
<1> QED BY <1>4 DEF t, m, a

LEMMA DoLinkBlock ==
    ASSUME TypeOK, NEW off, NEW nq, Body(off, nq), LinkBlock
    PROVE  TypeOK' /\ Body(off, nq)'
<1>0. PICK s : s = (IF ~po.bulk THEN "publish" ELSE IF po.need = 1 THEN "fill" ELSE "insert")
  OBVIOUS
<1>1. /\ po.step = "link" /\ TailBlock' = po.block /\ arrays' = arrays
      /\ slots' = (IF po.bulk THEN slots ELSE [slots EXCEPT ![po.block][0] = TailIndex])
      /\ SetValue(Current.at[Current.tail], po.block)
      /\ po' = [po EXCEPT !.taken = Append(@, po.block), !.need = @ - 1,
                          !.base = @ + BlockSize, !.step = s]
      /\ UNCHANGED <<HeadIndex, TailIndex, emptied, manager, heap, con>>
  BY <1>0 DEF LinkBlock, supply
<1>2. /\ OffsetsOK(off, nq) /\ CallOK(off) /\ Apart(off) /\ AllThere(off) /\ ClaimsOK
      /\ Counts(off) /\ Placed(off) /\ NothingElse(off) /\ Listed(off, nq) /\ IndexOK
      /\ off \in [1 .. Cur -> Int] /\ nq \in Int /\ Underway(off, nq) /\ Occupied(off)
  BY DEF Body, Index, Consumption, TypeOK, OffsetsOK
<1>3. InCall /\ Taking /\ po.block \in Blocks /\ s \in CallSteps
  BY <1>0, <1>1, <1>2 DEF InCall, Taking, CallOK, CallSteps
<1>4. /\ po \in Calls /\ po.n \in Nat /\ po.need \in Nat /\ po.need >= 1 /\ po.base \in Int
      /\ po.bulk \in BOOLEAN /\ po.taken \in Seq(Blocks) /\ Len(po.taken) \in Nat
  BY <1>2, <1>3, InCallTypes DEF CallOK
<1>5. /\ po' \in Calls /\ po'.step = s /\ po'.bulk = po.bulk /\ po'.n = po.n /\ po'.need = po.need - 1
      /\ po'.base = po.base + BlockSize /\ po'.old = po.old /\ po'.taken = Append(po.taken, po.block)
  <2>1. po' = [po EXCEPT !.taken = Append(@, po.block), !.need = @ - 1,
                         !.base = @ + BlockSize, !.step = s]
    BY <1>1
  <2> QED BY <1>3, <1>4, <2>1, TakenCall
<1>6. /\ Linked = Begun + Len(po.taken) /\ Begun \in Nat /\ Linked \in Nat /\ Begun <= Linked
      /\ nq = Linked + 1 /\ po.base = Base(nq - 1) /\ KeyOf(off, nq - 1) = Base(nq - 1)
  BY <1>1, <1>2, <1>3, BegunIs, LinkedType DEF OffsetsOK, Underway
<1>7. ~po.bulk => Linked = Begun /\ po.need = 1 /\ Off(TailIndex) = 0 /\ po.n = 1
  BY <1>2, <1>3, EnqueueTakesOne
\* The entry.
<1>8. PICK l \in Nat : l = Linked /\ l = nq - 1
  BY <1>6
<1>9. PICK e \in 1 .. Len(entries) : e = EntryOf(off, Cur, l) /\ SetValue(e, po.block)
  <2>1. EntryOf(off, Cur, nq - 1) \in 1 .. Len(entries)
        /\ Current.at[Current.tail] = EntryOf(off, Cur, nq - 1)
    BY <1>2, NewEntryIs
  <2> QED BY <1>1, <1>8, <2>1
<1>10. /\ entries' \in Seq(EntryRecs) /\ Len(entries') = Len(entries)
       /\ \A x \in 1 .. Len(entries) : /\ Key(x)' = Key(x)
                                       /\ Value(x)' = IF x = e THEN po.block ELSE Value(x)
  BY <1>2, <1>3, <1>9, SetValueEffect
<1>11. IndexOK' /\ Cur' = Cur /\ Current' = Current /\ SameArrays
  BY <1>1, <1>2, <1>10, IndexKept DEF SameArrays
<1>12. /\ SameKeys
       /\ \A q \in Int : /\ EntryOf(off, Cur, q)' = EntryOf(off, Cur, q)
                         /\ KeyOf(off, q)' = KeyOf(off, q)
                         /\ EntryOf(off, Cur, q) = e => BlockOf(off, q)' = po.block
                         /\ EntryOf(off, Cur, q) # e => BlockOf(off, q)' = BlockOf(off, q)
  <2>1. SameKeys /\ Valued(off, e, po.block)
    BY <1>2, <1>10, <1>11, ValueSet
  <2> QED BY <2>1 DEF Valued
<1>13. KeyOf(off, l) = Base(l)
  BY <1>6, <1>8
<1>14. \A q \in Live : q \in Nat /\ q < l /\ EntryOf(off, Cur, q) # e /\ BlockOf(off, q)' = BlockOf(off, q)
  <2> SUFFICES ASSUME NEW q \in Live
               PROVE  q \in Nat /\ q < l /\ EntryOf(off, Cur, q) # e /\ BlockOf(off, q)' = BlockOf(off, q)
    OBVIOUS
  <2>1. q \in Nat /\ q < l
    BY <1>8, LiveType
  <2>2. EntryOf(off, Cur, q) # e
    BY <1>2, <1>9, <1>13, <2>1, EntryApart
  <2> QED BY <1>12, <2>1, <2>2
<1>15. BlockOf(off, l)' = po.block
  BY <1>9, <1>12
<1>16. TypeOK'
  <2>1. slots' \in [Blocks -> [Slots -> Nat \union {Raw}]]
    <3>1. 0 \in Slots /\ TailIndex \in Nat
      BY SizesAssumption DEF Slots, TypeOK
    <3>2. CASE po.bulk
      BY <1>1, <3>2 DEF TypeOK
    <3>3. CASE ~po.bulk
      <4>1. slots' = [slots EXCEPT ![po.block][0] = TailIndex]
        BY <1>1, <3>3
      <4> QED BY <1>3, <3>1, <4>1, PutOne
    <3> QED BY <3>2, <3>3
  <2> QED BY <1>1, <1>3, <1>5, <1>11, <2>1 DEF TypeOK
<1>17. /\ Begun' = Begun /\ InCall' /\ Linked' = l + 1 /\ Linked' = nq
       /\ Live' = Live \union {l} /\ Len(po'.taken) = Len(po.taken) + 1
  <2>1. Begun' = Begun
    BY <1>1 DEF Begun
  <2>2. InCall'
    BY <1>0, <1>5 DEF InCall
  <2>3. Len(po'.taken) = Len(po.taken) + 1
    BY <1>3, <1>4, <1>5
  <2>4. Linked' = Begun + (Len(po.taken) + 1)
    BY <1>5, <2>1, <2>2, <2>3 DEF Linked
  <2>5. Linked' = l + 1 /\ Linked' = nq /\ Linked' = Linked + 1
    BY <1>4, <1>6, <1>8, <2>4
  <2>6. Live' = Live \union {Linked}
    BY <1>1, <1>16, <2>5, ProducerLive
  <2> QED BY <1>8, <2>1, <2>2, <2>3, <2>5, <2>6
<1>18. OffsetsOK(off, nq)'
  <2>1. Current.tail' = Place(off, Cur, nq - 1)'
    BY <1>1, <1>2, <1>11 DEF OffsetsOK, Place
  <2>2. nq >= Begun'
    BY <1>2, <1>17 DEF OffsetsOK
  <2>3. po'.base = Base(nq)
    <3>1. nq - 1 \in Int /\ (nq - 1) + 1 = nq
      BY <1>2
    <3> QED BY <1>5, <1>6, <3>1, BaseStep
  <2>4. po'.step \in {"publish", "fill", "insert"}
    BY <1>0, <1>5
  <2> QED BY <1>2, <1>11, <1>17, <2>1, <2>2, <2>3, <2>4 DEF OffsetsOK
<1>19. Consumption(off)' /\ Aligned(off)' /\ Agree(off)' /\ Window(off, nq)'
  <2>1. \A c \in Consumers : con[c].step = "tail" =>
              Key(arrays[con[c].array].at[arrays[con[c].array].tail])' # InvalidBase
    BY <1>1, <1>12, TailKeyKept
  <2> QED BY <1>1, <1>11, <1>12, <2>1, KeysConsumption
<1>20. Listed(off, nq)'
  <2>1. Current.size' = Current.size /\ Current.size \in Nat \ {0}
    BY <1>2, <1>11, CurType
  <2>2. ASSUME NEW q \in Live
        PROVE  /\ KeyOf(off, q)' = Base(q) /\ BlockOf(off, q)' \in Blocks
               /\ nq - Current.size' <= q
               /\ \A r \in q .. (nq - 1) : KeyOf(off, r)' # InvalidBase
    <3>1. /\ KeyOf(off, q) = Base(q) /\ BlockOf(off, q) \in Blocks
          /\ nq - Current.size <= q
      BY <1>2 DEF Listed
    <3>2. \A r \in q .. (nq - 1) : KeyOf(off, r) # InvalidBase /\ r \in Int
      BY <1>2, <1>14 DEF Listed
    <3>3. \A r \in q .. (nq - 1) : KeyOf(off, r)' # InvalidBase
      BY <1>12, <3>2
    <3> QED BY <1>12, <1>14, <2>1, <3>1, <3>3
  <2>3. /\ KeyOf(off, l)' = Base(l) /\ BlockOf(off, l)' \in Blocks
        /\ nq - Current.size' <= l
        /\ \A r \in l .. (nq - 1) : KeyOf(off, r)' # InvalidBase
    <3>1. KeyOf(off, l)' = Base(l) /\ Base(l) # InvalidBase
      BY <1>12, <1>13, BaseStep
    <3>2. \A r \in l .. (nq - 1) : r = l
      BY <1>2, <1>8
    <3>3. nq - Current.size' <= l
      BY <1>2, <1>8, <2>1
    <3> QED BY <1>3, <1>15, <3>1, <3>2, <3>3
  <2> QED BY <1>17, <2>2, <2>3 DEF Listed
<1>21. Underway(off, nq)'
  BY <1>0, <1>5 DEF Underway
<1>22. CallOK(off)'
  <2>1. Linked' + po'.need = Num(TailIndex' + po'.n - 1) + 1
    <3>1. Linked + po.need = Num(TailIndex + po.n - 1) + 1
      BY <1>2, <1>3 DEF CallOK
    <3>2. Linked' + po'.need = Linked + po.need
      BY <1>4, <1>5, <1>6, <1>8, <1>17
    <3> QED BY <1>1, <1>5, <3>1, <3>2
  <2>2. Off(TailIndex) # 0 => po.old = BlockOf(off, Begun - 1)'
    <3> SUFFICES ASSUME Off(TailIndex) # 0 PROVE po.old = BlockOf(off, Begun - 1)'
      OBVIOUS
    <3>1. PICK r : r = Begun - 1
      OBVIOUS
    <3>2. r \in Live
      BY <3>1, TailLive
    <3>3. BlockOf(off, Begun - 1)' = BlockOf(off, r)'
      BY <1>17, <3>1 DEF BlockOf, EntryOf, Place
    <3> QED BY <1>2, <1>3, <1>14, <3>1, <3>2, <3>3 DEF CallOK
  <2>3. IF Taking' THEN po'.need >= 1 ELSE po'.need = 0
    <3>1. Taking' <=> s = "insert"
      BY <1>0, <1>5 DEF Taking
    <3> QED BY <1>0, <1>4, <1>5, <1>7, <3>1
  <2>4. po'.taken # <<>> /\ po'.taken[Len(po'.taken)] = po.block
    BY <1>3, <1>4, <1>5, <1>17
  <2>5. ~po'.bulk => po'.n = 1 /\ Off(TailIndex') = 0 /\ po'.step # "fill"
    BY <1>0, <1>1, <1>5, <1>7
  <2>6. \A k \in DOMAIN po'.taken : po'.taken[k] = BlockOf(off, Begun + k - 1)'
    <3> SUFFICES ASSUME NEW k \in DOMAIN po'.taken PROVE po'.taken[k] = BlockOf(off, Begun + k - 1)'
      OBVIOUS
    <3>1. PICK r : r = Begun + k - 1
      OBVIOUS
    <3>2. BlockOf(off, Begun + k - 1)' = BlockOf(off, r)'
      BY <1>17, <3>1 DEF BlockOf, EntryOf, Place
    <3>3. CASE k = Len(po.taken) + 1
      <4>1. r = l
        BY <1>4, <1>6, <1>8, <3>1, <3>3
      <4> QED BY <1>15, <1>17, <2>4, <3>2, <3>3, <4>1
    <3>4. CASE k # Len(po.taken) + 1
      <4>1. k \in DOMAIN po.taken /\ po'.taken[k] = po.taken[k]
        BY <1>3, <1>4, <1>5, <3>4
      <4>2. r \in Live /\ po.taken[k] = BlockOf(off, r)
        BY <1>2, <1>3, <3>1, <4>1, TakenAre
      <4> QED BY <1>14, <3>2, <4>1, <4>2
    <3> QED BY <3>3, <3>4
  <2>7. po'.n >= 1 /\ po'.step # "rollBack" /\ po'.step # "link" /\ po'.step # "idle"
    BY <1>0, <1>2, <1>3, <1>5 DEF CallOK
  <2> QED BY <1>1, <1>5, <1>17, <2>1, <2>2, <2>3, <2>4, <2>5, <2>6, <2>7 DEF CallOK
<1>23. Held = {po.block} /\ Held' = {} /\ InHand' = InHand
  BY <1>0, <1>1, <1>5, ProducerViews DEF Held
<1>24. Apart(off)'
  <2>1. /\ \A q, r \in Live : BlockOf(off, q) = BlockOf(off, r) => q = r
        /\ \A q \in Live : BlockOf(off, q) \notin manager \union heap \union InHand /\ BlockOf(off, q) # po.block
        /\ manager \intersect heap = {}
        /\ po.block \notin manager \union heap \union InHand
    BY <1>2, <1>23 DEF Apart
  <2>2. \A q, r \in Live' : BlockOf(off, q)' = BlockOf(off, r)' => q = r
    BY <1>14, <1>15, <1>17, <2>1
  <2>3. \A q \in Live' : BlockOf(off, q)' \notin manager \union heap \union InHand
    BY <1>14, <1>15, <1>17, <2>1
  <2> QED BY <1>1, <1>2, <1>23, <2>1, <2>2, <2>3 DEF Apart
<1>25. AllThere(off)'
  <2> SUFFICES ASSUME NEW b \in Blocks
               PROVE  b \in manager \union heap \union InHand \/ \E q \in Live' : b = BlockOf(off, q)'
    BY <1>1, <1>23 DEF AllThere
  <2>1. b \in manager \union heap \union InHand \/ b = po.block \/ \E q \in Live : b = BlockOf(off, q)
    BY <1>1, <1>2, <1>23 DEF AllThere
  <2> QED BY <1>14, <1>15, <1>17, <2>1
<1>26. Occupied(off)'
  <2> SUFFICES ASSUME NEW q \in Int, BlockOf(off, q)' # NoBlock
               PROVE  \E r \in Live' : EntryOf(off, Cur, q)' = EntryOf(off, Cur, r)'
    BY DEF Occupied
  <2>1. CASE EntryOf(off, Cur, q) = e
    BY <1>9, <1>12, <1>17, <2>1
  <2>2. CASE EntryOf(off, Cur, q) # e
    <3>1. BlockOf(off, q) # NoBlock
      BY <1>12, <2>2
    <3>2. PICK r \in Live \union Leaving : EntryOf(off, Cur, q) = EntryOf(off, Cur, r)
      BY <1>1, <1>2, <3>1 DEF Occupied
    <3>3. r \in Live
      BY <1>1, <3>2 DEF Leaving
    <3> QED BY <1>12, <1>14, <1>17, <3>2, <3>3
  <2> QED BY <2>1, <2>2
<1>27. Counts(off)'
  <2>1. \A q : Marked(q)' = Marked(q)
    BY <1>1, ProducerFrame
  <2>2. Marked(l) = {}
    <3>1. TailIndex <= Base(l) /\ Base(l) \in Int /\ Base(l + 1) \in Int /\ HeadIndex \in Nat
          /\ HeadIndex <= TailIndex /\ TailIndex \in Nat
      <4>1. TailIndex <= Base(Begun) /\ Base(Begun) \in Int
        BY BegunIs
      <4>2. Begun \in Int /\ l \in Int /\ l + 1 \in Int /\ Begun <= l
        BY <1>6, <1>8, BegunIs, LinkedType
      <4>3. Base(l + 1) \in Int
        BY <4>2, BaseStep
      <4>4. Base(Begun) <= Base(l) /\ Base(l) \in Int
        BY <4>2, BaseMono
      <4> QED BY <4>1, <4>3, <4>4 DEF TypeOK
    <3> QED BY <3>1 DEF Marked
  <2>3. emptied[po.block] = 0 /\ Cardinality(Marked(l)) = 0
    BY <1>1, <1>2, <2>2, FS_EmptySet DEF Counts
  <2>4. \A q \in Live' : emptied'[BlockOf(off, q)'] = Cardinality(Marked(q)')
    BY <1>1, <1>2, <1>14, <1>15, <1>17, <2>1, <2>3 DEF Counts
  <2> QED BY <1>0, <1>5, <2>4 DEF Counts
<1>28. ASSUME NEW p \in Objects
       PROVE  /\ p \in Int /\ Num(p) \in Live /\ Off(p) \in Slots /\ p < TailIndex
              /\ BlockOf(off, Num(p))' = BlockOf(off, Num(p)) /\ BlockOf(off, Num(p)) \in Blocks
              /\ BlockOf(off, Num(p)) # po.block
  <2>1. p \in Nat /\ Num(p) \in Live
    BY <1>2, ObjectsLive
  <2>2. p < TailIndex
    BY <1>1, <1>2, ObjectsBelow
  <2>3. BlockOf(off, Num(p)) \in Blocks /\ BlockOf(off, Num(p)) # po.block
    BY <1>2, <1>23, <2>1 DEF Listed, Apart
  <2> QED BY <1>14, <2>1, <2>2, <2>3, DivMod
<1>29. UNION {Untaken(c) : c \in Consumers}' = UNION {Untaken(c) : c \in Consumers}
  BY <1>1, ProducerViews
<1>30. CASE po.bulk
  <2>1. slots' = slots /\ Objects' = Objects
    BY <1>0, <1>1, <1>5, <1>29, <1>30 DEF Objects, Filled
  <2>2. Placed(off)' /\ NothingElse(off)'
    BY <1>2, <1>28, <2>1, ObjectsKept
  <2> QED BY <1>16, <1>18, <1>19, <1>20, <1>21, <1>22, <1>24, <1>25, <1>26, <1>27, <2>2 DEF Body, Index
<1>31. CASE ~po.bulk
  <2>1. /\ slots' = [slots EXCEPT ![po.block][0] = TailIndex] /\ 0 \in Slots /\ TailIndex \in Nat
        /\ Off(TailIndex) = 0 /\ po.n = 1 /\ s = "publish"
    BY <1>0, <1>1, <1>7, <1>31, SizesAssumption DEF Slots, TypeOK
  <2>2. \A d \in Blocks, k \in Slots :
           slots'[d][k] = IF d = po.block /\ k = 0 THEN TailIndex ELSE slots[d][k]
    BY <1>3, <2>1, PutOne
  <2>3. Num(TailIndex) = l
    BY <1>7, <1>8, <1>31, <2>1, BegunIs
  <2>4. Objects' = Objects \union {TailIndex}
    <3>1. Filled = TailIndex /\ Filled' = TailIndex + 1
      BY <1>1, <1>5, <2>1 DEF Filled
    <3>2. HeadIndex \in Nat /\ TailIndex \in Nat /\ HeadIndex <= TailIndex
      BY DEF TypeOK
    <3>3. HeadIndex .. (TailIndex + 1 - 1) = (HeadIndex .. (TailIndex - 1)) \union {TailIndex}
      BY <3>2
    <3>4. HeadIndex' .. (Filled' - 1) = HeadIndex .. (TailIndex + 1 - 1)
      <4>1. HeadIndex' = HeadIndex
        BY <1>1
      <4>2. Filled' = TailIndex + 1
        BY <3>1
      <4>3. TailIndex + 1 - 1 = Filled' - 1
        BY <3>2, <4>2
      <4> QED BY <4>1, <4>3
    <3>5. HeadIndex .. (Filled - 1) = HeadIndex .. (TailIndex - 1)
      BY <3>1
    <3>6. Objects' = (HeadIndex' .. (Filled' - 1)) \union UNION {Untaken(c) : c \in Consumers}'
      BY DEF Objects
    <3> QED BY <1>29, <3>3, <3>4, <3>5, <3>6 DEF Objects
  <2>5. BlockOf(off, Num(TailIndex))' = po.block
    <3>1. BlockOf(off, Num(TailIndex))' = BlockOf(off, l)'
      BY <1>1, <2>3 DEF BlockOf, EntryOf, Place
    <3> QED BY <1>15, <3>1
  <2>6. Placed(off)'
    <3> SUFFICES ASSUME NEW p \in Objects' PROVE slots'[BlockOf(off, Num(p))'][Off(p)] = p
      BY DEF Placed
    <3>1. CASE p = TailIndex
      <4>1. BlockOf(off, Num(p))' = BlockOf(off, Num(TailIndex))'
        BY <1>1, <3>1 DEF BlockOf, EntryOf, Place
      <4> QED BY <1>3, <2>1, <2>2, <2>5, <3>1, <4>1
    <3>2. CASE p \in Objects
      BY <1>2, <1>28, <2>2, <3>2 DEF Placed
    <3> QED BY <2>4, <3>1, <3>2
  <2>7. NothingElse(off)'
    <3> SUFFICES ASSUME NEW b \in Blocks, NEW i \in Slots, slots'[b][i] # Raw
                 PROVE  /\ slots'[b][i] \in Objects'
                        /\ b = BlockOf(off, Num(slots[b][i]))' /\ i = Off(slots'[b][i])
      BY DEF NothingElse
    <3>1. CASE b = po.block /\ i = 0
      <4>1. slots'[b][i] = TailIndex
        BY <2>2, <3>1
      <4>2. BlockOf(off, Num(slots[b][i]))' = BlockOf(off, Num(TailIndex))'
        BY <1>1, <4>1 DEF BlockOf, EntryOf, Place
      <4> QED BY <2>1, <2>4, <2>5, <3>1, <4>1, <4>2
    <3>2. CASE ~(b = po.block /\ i = 0)
      <4>1. PICK p : p = slots[b][i] /\ p = slots'[b][i]
        BY <2>2, <3>2
      <4>2. p \in Objects /\ b = BlockOf(off, Num(p)) /\ i = Off(p)
        BY <1>2, <4>1 DEF NothingElse
      <4>3. BlockOf(off, Num(slots[b][i]))' = BlockOf(off, Num(p))'
        BY <4>1 DEF BlockOf, EntryOf, Place
      <4> QED BY <1>28, <2>4, <4>1, <4>2, <4>3
    <3> QED BY <3>1, <3>2
  <2> QED BY <1>16, <1>18, <1>19, <1>20, <1>21, <1>22, <1>24, <1>25, <1>26, <1>27, <2>6, <2>7 DEF Body, Index
<1> QED BY <1>4, <1>30, <1>31

\* The tail goes back by one.
LEMMA RewoundTail ==
    ASSUME IndexOK, NEW off \in [1 .. Cur -> Int], NEW nq \in Int,
           Current.tail = Place(off, Cur, nq - 1), RewindBlockIndexTail,
           entries' \in Seq(EntryRecs), Len(entries') = Len(entries)
    PROVE  /\ SameArrays /\ Cur' = Cur /\ Current.size' = Current.size
           /\ Current.tail' = Place(off, Cur, nq - 2)
           /\ \A i \in 1 .. Cur : /\ arrays'[i].at = arrays[i].at
                                  /\ arrays'[i].tail = IF i = Cur THEN Place(off, Cur, nq - 2)
                                                       ELSE arrays[i].tail
<1>1. /\ Cur \in 1 .. Cur /\ Current = arrays[Cur] /\ Current.size \in Nat \ {0}
      /\ Current.tail \in Int
  BY CurType
<1>2. PICK d \in Int : d = Current.size - 1
  BY <1>1
<1>3. PICK q \in Int, r \in Int : q = nq - 1 /\ r = nq - 2
  OBVIOUS
<1>4. Wrap(Current, Current.tail + d) = Place(off, Cur, q + d)
  <2>1. Wrap(arrays[Cur], Place(off, Cur, q) + d) = Place(off, Cur, q + d)
    BY <1>1, PlacePlus, ZenonT(60)
  <2> QED BY <1>1, <1>3, <2>1
<1>5. Place(off, Cur, q + d) = Place(off, Cur, r)
  <2>1. Place(off, Cur, r + 1 * Current.size) = Place(off, Cur, r)
    <3>1. Place(off, Cur, r + 1 * arrays[Cur].size) = Place(off, Cur, r)
      BY <1>1, PlaceRound, 1 \in Int, ZenonT(60)
    <3> QED BY <1>1, <3>1
  <2>2. PICK s \in Nat : s = Current.size
    BY <1>1
  <2>3. q + d = r + 1 * s
    BY <1>2, <1>3, <2>2, SMTT(30)
  <2> QED BY <2>1, <2>2, <2>3
<1>6. Place(off, Cur, r) \in 0 .. (Current.size - 1)
  BY <1>1, PlaceType
<1>7. Current.tail + Current.size - 1 = Current.tail + d
  BY <1>1, <1>2
<1>8. PICK t \in 0 .. (Current.size - 1) : t = Place(off, Cur, nq - 2) /\ SetTail(t)
  BY <1>3, <1>4, <1>5, <1>6, <1>7 DEF RewindBlockIndexTail
<1> QED BY <1>8, SetTailEffect DEF SameArrays

\* The producer gives an entry up that no live block has, with the tail.
GaveUp(off, nq, m, e) ==
    /\ IndexOK' /\ Consumption(off)' /\ Aligned(off)' /\ Agree(off)' /\ Window(off, m)'
    /\ off \in [1 .. Cur' -> Int] /\ m \in Int /\ m <= nq
    /\ SameArrays /\ SameKeys /\ Valued(off, e, NoBlock)
    /\ Current.tail' = Place(off, Cur, m - 1)'

LEMMA Rewound ==
    ASSUME TypeOK, NEW off, NEW nq, Body(off, nq), NEW e \in 1 .. Len(entries),
           SetValue(e, NoBlock), RewindBlockIndexTail, UNCHANGED <<con, HeadIndex>>,
           KeyOf(off, nq - 1) = Base(nq - 1), Begun < nq, NEW m, m = nq - 1
    PROVE  GaveUp(off, nq, m, e)
<1>1. /\ OffsetsOK(off, nq) /\ ClaimsOK /\ Listed(off, nq) /\ Window(off, nq)
      /\ IndexOK /\ off \in [1 .. Cur -> Int] /\ nq \in Int /\ m \in Int
      /\ Current.tail = Place(off, Cur, nq - 1) /\ \A c \in Consumers : Knows(off, c)
  BY DEF Body, Index, Consumption, TypeOK, OffsetsOK
<1>2. /\ entries' \in Seq(EntryRecs) /\ Len(entries') = Len(entries)
      /\ \A x \in 1 .. Len(entries) : /\ Key(x)' = Key(x)
                                      /\ Value(x)' = IF x = e THEN NoBlock ELSE Value(x)
  BY <1>1, SetValueEffect
<1>3. /\ SameArrays /\ Cur' = Cur /\ Current.size' = Current.size
      /\ Current.tail' = Place(off, Cur, nq - 2)
      /\ \A i \in 1 .. Cur : /\ arrays'[i].at = arrays[i].at
                             /\ arrays'[i].tail = IF i = Cur THEN Place(off, Cur, nq - 2)
                                                  ELSE arrays[i].tail
  BY <1>1, <1>2, RewoundTail
<1>4. SameKeys /\ Valued(off, e, NoBlock)
  BY <1>1, <1>2, <1>3, ValueSet
<1>5. Current.tail' = Place(off, Cur, m - 1)' /\ IndexOK' /\ off \in [1 .. Cur' -> Int]
  <2>1. m - 1 = nq - 2 /\ m - 1 \in Int /\ Cur \in 1 .. Cur
    BY <1>1, CurType
  <2>3. Place(off, Cur, m - 1)' = Place(off, Cur, m - 1)
    BY <1>1, <1>3, <2>1, PlacesFixed DEF Place
  <2> QED BY <1>1, <1>3, <2>1, <2>3 DEF SameArrays
<1>6. \A c \in Consumers : con[c].step = "tail" =>
              Key(arrays[con[c].array].at[arrays[con[c].array].tail])' # InvalidBase
  <2> SUFFICES ASSUME NEW c \in Consumers, con[c].step = "tail"
               PROVE  Key(arrays[con[c].array].at[arrays[con[c].array].tail])' # InvalidBase
    OBVIOUS
  <2>1. PICK i \in 1 .. Cur : i = con[c].array /\ Key(arrays[i].at[arrays[i].tail]) # InvalidBase
    BY <1>1 DEF Knows
  <2>2. arrays[i].tail \in 0 .. (arrays[i].size - 1)
        /\ arrays[i].at \in [0 .. (arrays[i].size - 1) -> 1 .. Len(entries)]
    BY <1>1 DEF IndexOK
  <2>3. CASE i # Cur
    <3>1. arrays'[i].at = arrays[i].at /\ arrays'[i].tail = arrays[i].tail
      BY <1>3, <2>3
    <3>2. PICK x \in 1 .. Len(entries) : x = arrays[i].at[arrays[i].tail]
      BY <2>2
    <3>3. Key(arrays[con[c].array].at[arrays[con[c].array].tail])' = Key(x)'
      BY <2>1, <3>1, <3>2 DEF Key
    <3> QED BY <1>2, <2>1, <3>2, <3>3
  <2>4. CASE i = Cur
    <3>1. Calling(c) /\ con[c].step # "return"
      BY DEF Calling
    <3>2. PICK q : q = Num(con[c].item) /\ q \in Busy(c)
      BY <1>1, <3>1, FirstBusy
    <3>3. q \in Live /\ q < Begun /\ q \in Nat /\ Begun \in Nat
      BY <1>1, <3>2, BusyLive, BegunIs
    <3>4. q <= nq - 2 /\ nq - 2 <= nq - 1 /\ nq - 2 \in Int
      BY <1>1, <3>3
    <3>5. nq - 2 \in q .. (nq - 1)
      BY <3>3, <3>4, <1>1
    <3>6. KeyOf(off, nq - 2) # InvalidBase
      BY <1>1, <3>3, <3>5 DEF Listed
    <3>7. PICK x \in 1 .. Len(entries) : x = EntryOf(off, Cur, nq - 2)
      BY <1>1, <3>4, PlaceType, CurType
    <3>8. arrays'[i].at[arrays'[i].tail] = x
      BY <1>3, <2>4, <3>7 DEF EntryOf
    <3>9. Key(arrays[con[c].array].at[arrays[con[c].array].tail])' = Key(x)'
      BY <2>1, <3>8 DEF Key
    <3> QED BY <1>2, <3>6, <3>7, <3>9 DEF KeyOf
  <2> QED BY <2>3, <2>4
<1>7. Consumption(off)' /\ Aligned(off)' /\ Agree(off)' /\ Window(off, nq)'
  BY <1>3, <1>4, <1>6, KeysConsumption
<1>8. Window(off, m)'
  <2>1. PICK s \in Nat \ {0} : s = Current.size
    BY <1>1, CurType
  <2>2. \A q \in Int : KeyOf(off, q)' = KeyOf(off, q)
    BY <1>1, <1>3, <1>4, KeysFixed
  <2>3. nq - 1 - s \in Int /\ (nq - 1 - s) + 1 * s = nq - 1 /\ m - s = nq - 1 - s
    BY <1>1, <2>1
  <2>4. KeyOf(off, m - s) = Base(nq - 1)
    <3>1. PICK w \in Int : w = nq - 1 - s
      BY <2>3
    <3>2. Cur \in 1 .. Cur /\ arrays[Cur].size = s
      BY <1>1, <2>1, CurType
    <3>3. Place(off, Cur, w + 1 * arrays[Cur].size) = Place(off, Cur, w)
      BY <1>1, <3>2, PlaceRound, 1 \in Int, ZenonT(60)
    <3> QED BY <2>3, <3>1, <3>2, <3>3 DEF KeyOf, EntryOf
  <2>5. ASSUME NEW r \in (m - s) .. (m - 1)
        PROVE  \/ KeyOf(off, r) \in {InvalidBase, Base(r)}
               \/ \A x \in (m - s) .. r : KeyOf(off, x) = Base(x + s)
    <3>1. CASE r = m - s
      <4>1. \A x \in (m - s) .. r : x = m - s
        BY <1>1, <2>1, <3>1
      <4>2. (m - s) + s = nq - 1
        BY <1>1, <2>1
      <4> QED BY <2>4, <4>1, <4>2
    <3>2. CASE r # m - s
      <4>1. r \in (nq - s) .. (nq - 1)
        BY <1>1, <2>1, <2>5, <3>2
      <4>2. \/ KeyOf(off, r) \in {InvalidBase, Base(r)}
            \/ \A x \in (nq - s) .. r : KeyOf(off, x) = Base(x + s)
        BY <1>1, <2>1, <4>1 DEF Window
      <4>3. \A x \in (m - s) .. r : x = m - s \/ x \in (nq - s) .. r
        BY <1>1, <2>1, <4>1, SMTT(30)
      <4>4. (m - s) + s = nq - 1
        BY <1>1, <2>1
      <4> QED BY <2>4, <4>2, <4>3, <4>4
    <3> QED BY <3>1, <3>2
  <2>6. \A r \in (m - s) .. (m - 1) : r \in Int /\ \A x \in (m - s) .. r : x \in Int
    BY <1>1, <2>1
  <2>7. Current.size' = s
    BY <1>3, <2>1
  <2> QED BY <2>2, <2>5, <2>6, <2>7 DEF Window
<1> QED BY <1>1, <1>3, <1>4, <1>5, <1>7, <1>8 DEF GaveUp

\* What giving the entry of block number r up leaves of the others.
LEMMA OthersKept ==
    ASSUME TypeOK, NEW off, NEW nq, Body(off, nq), NEW r \in Int, KeyOf(off, r) = Base(r),
           NEW e, e = EntryOf(off, Cur, r), Valued(off, e, NoBlock)
    PROVE  /\ \A q \in Live : q # r => BlockOf(off, q)' = BlockOf(off, q)
           /\ \A q \in Int : BlockOf(off, q)' \in {NoBlock, BlockOf(off, q)}
           /\ \A q \in Int : KeyOf(off, q)' = KeyOf(off, q)
<1>1. Listed(off, nq)
  BY DEF Body, Index
<1>2. ASSUME NEW q \in Live, q # r PROVE EntryOf(off, Cur, q) # e /\ q \in Int
  BY <1>1, <1>2, EntryApart, LiveType
<1> QED BY <1>2 DEF Valued

LEMMA DoRequireFails ==
    ASSUME TypeOK, NEW off, NEW nq, Body(off, nq), RequireFails, NEW m, m = nq - 1
    PROVE  TypeOK' /\ Body(off, m)'
<1>1. /\ po.step = "block" /\ po' = GivenUp /\ RewindBlockIndexTail
      /\ SetValue(Current.at[Current.tail], NoBlock)
      /\ UNCHANGED <<HeadIndex, TailIndex, TailBlock, emptied, slots, manager, heap, con>>
  BY DEF RequireFails, blocks, supply
<1>2. /\ OffsetsOK(off, nq) /\ CallOK(off) /\ Listed(off, nq) /\ IndexOK /\ ClaimsOK
      /\ Placed(off) /\ NothingElse(off) /\ KeyOf(off, nq - 1) = Base(nq - 1)
      /\ off \in [1 .. Cur -> Int] /\ nq \in Int /\ nq = Linked + 1
  BY <1>1 DEF Body, Index, TypeOK, OffsetsOK, Consumption, Underway
<1>3. InCall
  BY <1>1 DEF InCall
<1>4. Begun \in Nat /\ Linked = Begun + Len(po.taken) /\ Len(po.taken) \in Nat /\ m \in Int
  BY <1>2, <1>3, BegunIs, LinkedType
<1>5. PICK e \in 1 .. Len(entries) : e = EntryOf(off, Cur, m) /\ SetValue(e, NoBlock)
  <2>1. EntryOf(off, Cur, nq - 1) \in 1 .. Len(entries)
        /\ Current.at[Current.tail] = EntryOf(off, Cur, nq - 1)
    BY <1>2, NewEntryIs
  <2> QED BY <1>1, <2>1
<1>6. GaveUp(off, nq, m, e)
  <2>1. Begun < nq
    BY <1>2, <1>4
  <2> QED BY <1>1, <1>2, <1>5, <2>1, Rewound
<1>7. /\ IndexOK' /\ Consumption(off)' /\ Aligned(off)' /\ Agree(off)' /\ Window(off, m)'
      /\ off \in [1 .. Cur' -> Int] /\ m \in Int /\ m <= nq
      /\ SameArrays /\ SameKeys /\ Valued(off, e, NoBlock)
      /\ Current.tail' = Place(off, Cur, m - 1)'
  BY <1>6 DEF GaveUp
<1>8. /\ \A q \in Live : BlockOf(off, q)' = BlockOf(off, q)
      /\ \A q \in Int : BlockOf(off, q)' \in {NoBlock, BlockOf(off, q)}
      /\ \A q \in Int : KeyOf(off, q)' = KeyOf(off, q)
  <2>1. \A q \in Live : q # m
    BY <1>2, <1>4, LiveType
  <2>2. KeyOf(off, m) = Base(m)
    BY <1>2
  <2> QED BY <1>2, <1>4, <1>5, <1>7, <2>1, <2>2, OthersKept
<1>9. TypeOK'
  <2>1. po' \in [step : {"idle", "stopped", "gone"}] \union Calls
    BY <1>1, <1>3, GivenUpIs
  <2> QED BY <1>1, <1>7, <2>1 DEF TypeOK
<1>10. /\ Live' = {q \in Live : q < Begun} /\ Begun' = Begun /\ Linked' = Begun
       /\ po'.step \in {"idle", "rollBack"} /\ Objects' = Objects
       /\ po'.step = "idle" => Linked = Begun
       /\ po'.step = "rollBack" => po'.need = 1 /\ po'.taken = po.taken /\ po'.n = po.n
       /\ Apart(off)' /\ AllThere(off)' /\ Counts(off)' /\ CallOK(off)' /\ Occupied(off)'
  BY <1>1, <1>3, <1>7, <1>8, <1>9, GiveUp
<1>11. OffsetsOK(off, m)'
  <2>1. m >= Begun'
    BY <1>2, <1>4, <1>10
  <2>2. po'.step = "rollBack" => m = Begun' + Len(po'.taken) - po'.need + 1
    BY <1>2, <1>4, <1>10
  <2>3. po'.step = "idle" => m = Begun'
    BY <1>2, <1>4, <1>10
  <2> QED BY <1>7, <1>10, <2>1, <2>2, <2>3 DEF OffsetsOK
<1>12. Listed(off, m)'
  <2>1. SameBlocks(off) /\ Live' \subseteq Live
    BY <1>8, <1>10 DEF SameBlocks
  <2> QED BY <1>2, <1>7, <2>1, ListedKept
<1>13. Underway(off, m)'
  <2>1. ASSUME NEW k \in DOMAIN po.taken
        PROVE  KeyOf(off, Begun + k - 1) = Base(Begun + k - 1) /\ Begun + k - 1 \in Int
    <3>1. Begun + k - 1 \in Live
      BY <1>2, <1>3, TakenAre
    <3> QED BY <3>1, <1>2, LiveType DEF Listed
  <2>2. po'.step = "rollBack" =>
           \A k \in DOMAIN po'.taken : KeyOf(off, Begun + k - 1)' = Base(Begun' + k - 1)
    <3> SUFFICES ASSUME po'.step = "rollBack", NEW k \in DOMAIN po.taken
                 PROVE  KeyOf(off, Begun + k - 1)' = Base(Begun + k - 1)
      BY <1>10
    <3>1. PICK r \in Int : r = Begun + k - 1
      BY <2>1
    <3>2. KeyOf(off, Begun + k - 1)' = KeyOf(off, r)'
      BY <1>10, <3>1 DEF KeyOf, EntryOf, Place
    <3> QED BY <1>8, <2>1, <3>1, <3>2
  <2> QED BY <1>10, <2>2 DEF Underway
<1>14. Placed(off)' /\ NothingElse(off)'
  <2>1. \A p \in Objects : BlockOf(off, Num(p))' = BlockOf(off, Num(p))
    BY <1>2, <1>8, ObjectsLive
  <2> QED BY <1>1, <1>2, <1>10, <2>1, ObjectsKept
<1> QED BY <1>7, <1>9, <1>10, <1>11, <1>12, <1>13, <1>14 DEF Body, Index

LEMMA DoConstructThrows ==
    ASSUME TypeOK, NEW off, NEW nq, Body(off, nq), ConstructThrows, NEW m, m = nq - 1
    PROVE  TypeOK' /\ Body(off, m)'
<1>1. /\ po.step = "link" /\ po' = NoCall /\ po'.step = "idle" /\ RewindBlockIndexTail /\ ~po.bulk
      /\ SetValue(Current.at[Current.tail], NoBlock)
      /\ manager' = manager \union {po.block}
      /\ UNCHANGED <<HeadIndex, TailIndex, TailBlock, emptied, slots, heap, con>>
  BY DEF ConstructThrows, blocks, NoCall
<1>2. /\ OffsetsOK(off, nq) /\ CallOK(off) /\ Listed(off, nq) /\ IndexOK /\ ClaimsOK
      /\ Placed(off) /\ NothingElse(off) /\ KeyOf(off, nq - 1) = Base(nq - 1)
      /\ off \in [1 .. Cur -> Int] /\ nq \in Int /\ nq = Linked + 1
      /\ Apart(off) /\ AllThere(off) /\ Counts(off) /\ Occupied(off) /\ po.block \in Blocks
  BY <1>1 DEF Body, Index, TypeOK, OffsetsOK, Consumption, Underway, CallOK
<1>3. InCall /\ Taking
  BY <1>1 DEF InCall, Taking
<1>4. Begun \in Nat /\ Linked = Begun /\ m \in Int /\ Off(TailIndex) = 0
  BY <1>1, <1>2, <1>3, BegunIs, EnqueueTakesOne
<1>5. PICK e \in 1 .. Len(entries) : e = EntryOf(off, Cur, m) /\ SetValue(e, NoBlock)
  <2>1. EntryOf(off, Cur, nq - 1) \in 1 .. Len(entries)
        /\ Current.at[Current.tail] = EntryOf(off, Cur, nq - 1)
    BY <1>2, NewEntryIs
  <2> QED BY <1>1, <2>1
<1>6. GaveUp(off, nq, m, e)
  <2>1. Begun < nq
    BY <1>2, <1>4
  <2> QED BY <1>1, <1>2, <1>5, <2>1, Rewound
<1>7. /\ IndexOK' /\ Consumption(off)' /\ Aligned(off)' /\ Agree(off)' /\ Window(off, m)'
      /\ off \in [1 .. Cur' -> Int] /\ m \in Int /\ m <= nq
      /\ SameArrays /\ SameKeys /\ Valued(off, e, NoBlock)
      /\ Current.tail' = Place(off, Cur, m - 1)'
  BY <1>6 DEF GaveUp
<1>8. /\ \A q \in Live : BlockOf(off, q)' = BlockOf(off, q)
      /\ \A q \in Int : BlockOf(off, q)' \in {NoBlock, BlockOf(off, q)}
  <2>1. \A q \in Live : q # m
    BY <1>2, <1>4, LiveType
  <2>2. KeyOf(off, m) = Base(m)
    BY <1>2
  <2> QED BY <1>2, <1>4, <1>5, <1>7, <2>1, <2>2, OthersKept
<1>9. TypeOK'
  <2>1. po' \in [step : {"idle", "stopped", "gone"}] \union Calls
    BY <1>1, IdleCall
  <2>2. manager' \subseteq Blocks
    BY <1>1, <1>2 DEF TypeOK
  <2> QED BY <1>1, <1>7, <2>1, <2>2 DEF TypeOK
<1>10. Begun' = Begun /\ Linked' = Linked /\ Live' = Live /\ Objects' = Objects
  <2>1. Begun' = Begun /\ ~InCall'
    BY <1>1 DEF Begun, InCall
  <2>2. Linked' = Linked
    BY <1>4, <1>9, <2>1, LinkedNext
  <2>3. Filled' = Filled
    BY <1>1 DEF Filled
  <2>4. UNION {Untaken(c) : c \in Consumers}' = UNION {Untaken(c) : c \in Consumers}
    BY <1>1, ProducerViews
  <2>5. Objects' = Objects
    BY <1>1, <2>3, <2>4 DEF Objects
  <2> QED BY <1>1, <1>9, <2>1, <2>2, <2>5, ProducerLive
<1>11. OffsetsOK(off, m)'
  <2>1. m = Begun'
    BY <1>2, <1>4, <1>10
  <2> QED BY <1>1, <1>4, <1>7, <2>1 DEF OffsetsOK
<1>12. SameBlocks(off) /\ Live' \subseteq Live
  BY <1>8, <1>10 DEF SameBlocks
<1>13. Listed(off, m)'
  BY <1>2, <1>7, <1>12, ListedKept
<1>14. Underway(off, m)' /\ CallOK(off)'
  <2>1. ~InCall' /\ Off(TailIndex') = 0
    BY <1>1, <1>4 DEF InCall
  <2> QED BY <1>1, <2>1 DEF Underway, CallOK
<1>15. InHand' = InHand /\ Held = {po.block} /\ Held' = {}
  BY <1>1, ProducerViews DEF Held
<1>16. Apart(off)' /\ AllThere(off)'
  <2>1. \A q, r \in Live' : BlockOf(off, q)' = BlockOf(off, r)' => q = r
    BY <1>2, <1>8, <1>10 DEF Apart
  <2>2. \A q \in Live : BlockOf(off, q)' \notin manager' \union heap \union InHand
    BY <1>1, <1>2, <1>8, <1>15 DEF Apart
  <2>3. manager' \intersect heap = {} /\ InHand \intersect (manager' \union heap) = {}
    BY <1>1, <1>2, <1>15 DEF Apart
  <2>4. \A c, d \in Consumers :
          con[c].step = "return" /\ con[d].step = "return" /\ con[c].block = con[d].block => c = d
    BY <1>2 DEF Apart
  <2>5. Apart(off)'
    BY <1>1, <1>10, <1>15, <2>1, <2>2, <2>3, <2>4 DEF Apart
  <2>6. ASSUME NEW b \in Blocks
        PROVE  b \in manager' \union heap \union InHand \/ \E q \in Live : b = BlockOf(off, q)'
    BY <1>1, <1>2, <1>8, <1>15 DEF AllThere
  <2>7. AllThere(off)'
    BY <1>1, <1>10, <1>15, <2>6 DEF AllThere
  <2> QED BY <2>5, <2>7
<1>17. Counts(off)'
  BY <1>1, <1>2, <1>12, CountsKept
<1>18. Occupied(off)'
  <2>1. Leaving = {} /\ po.step # "stopped"
    BY <1>1 DEF Leaving
  <2> QED BY <1>2, <1>7, <1>8, <1>10, <2>1, OccupiedKept
<1>19. Placed(off)' /\ NothingElse(off)'
  <2>1. \A p \in Objects : BlockOf(off, Num(p))' = BlockOf(off, Num(p))
    BY <1>2, <1>8, ObjectsLive
  <2> QED BY <1>1, <1>2, <1>10, <2>1, ObjectsKept
<1> QED BY <1>7, <1>9, <1>11, <1>13, <1>14, <1>16, <1>17, <1>18, <1>19 DEF Body, Index

LEMMA NeedCall ==
    ASSUME po \in Calls, po' = [po EXCEPT !.need = @ + 1]
    PROVE  /\ po' \in Calls /\ po'.step = po.step /\ po'.need = po.need + 1
           /\ po'.n = po.n /\ po'.old = po.old /\ po'.taken = po.taken
<1>1. PICK k \in Nat : k = po.need + 1
  BY DEF Calls
<1> QED BY <1>1 DEF Calls

LEMMA DoRollBackEntry ==
    ASSUME TypeOK, NEW off, NEW nq, Body(off, nq), RollBackEntry, NEW m, m = nq - 1
    PROVE  TypeOK' /\ Body(off, m)'
<1>1. /\ po.step = "rollBack" /\ po.need <= Len(po.taken) /\ RewindBlockIndexTail
      /\ SetValue(EntryForIndex(BaseOf(TailIndex - 1) + po.need * BlockSize), NoBlock)
      /\ po' = [po EXCEPT !.need = @ + 1]
      /\ UNCHANGED <<HeadIndex, TailIndex, TailBlock, emptied, slots, manager, heap, con>>
  BY DEF RollBackEntry, blocks, supply
<1>2. /\ OffsetsOK(off, nq) /\ CallOK(off) /\ Listed(off, nq) /\ IndexOK /\ ClaimsOK
      /\ Placed(off) /\ NothingElse(off) /\ Underway(off, nq) /\ Aligned(off)
      /\ off \in [1 .. Cur -> Int] /\ nq \in Int /\ Current.tail = Place(off, Cur, nq - 1)
      /\ Apart(off) /\ AllThere(off) /\ Counts(off) /\ Occupied(off)
  BY DEF Body, Index, TypeOK, OffsetsOK, Consumption
<1>3. /\ po \in Calls /\ po.need \in Nat /\ po.taken \in Seq(Blocks) /\ Len(po.taken) \in Nat
      /\ po' \in Calls /\ po'.step = "rollBack" /\ po'.need = po.need + 1
      /\ po'.n = po.n /\ po'.old = po.old /\ po'.taken = po.taken
  <2>1. po \in Calls /\ po.need \in Nat /\ po.taken \in Seq(Blocks)
    BY <1>1, InCallTypes
  <2>2. po' = [po EXCEPT !.need = @ + 1]
    BY <1>1
  <2> QED BY <1>1, <2>1, <2>2, NeedCall
<1>4. /\ Begun \in Nat /\ nq = Begun + Len(po.taken) - po.need + 1 /\ m \in Int
      /\ po.need >= 1 /\ Linked = Begun /\ Begun < nq
  <2>1. nq = Begun + Len(po.taken) - po.need + 1 /\ po.need \in 1 .. (Len(po.taken) + 1)
    BY <1>1, <1>2 DEF OffsetsOK, CallOK
  <2>2. ~InCall
    BY <1>1 DEF InCall
  <2> QED BY <1>1, <1>2, <1>3, <2>1, <2>2, BegunIs, LinkedType, SMTT(30)
<1>5. PICK r \in Int : r = Begun + po.need - 1
  BY <1>3, <1>4
<1>6. \A k \in DOMAIN po.taken : KeyOf(off, Begun + k - 1) = Base(Begun + k - 1)
  BY <1>1, <1>2 DEF Underway
<1>7. KeyOf(off, nq - 1) = Base(nq - 1)
  <2>1. PICK k : k = Len(po.taken) - po.need + 1
    OBVIOUS
  <2>2. k \in 1 .. Len(po.taken) /\ Begun + k - 1 = nq - 1
    BY <1>1, <1>3, <1>4, <2>1
  <2>3. k \in DOMAIN po.taken
    BY <1>3, <2>2
  <2> QED BY <1>6, <2>2, <2>3
<1>8. KeyOf(off, r) = Base(r)
  <2>1. po.need \in DOMAIN po.taken
    BY <1>1, <1>3, <1>4
  <2> QED BY <1>5, <1>6, <2>1
<1>9. EntryForIndex(BaseOf(TailIndex - 1) + po.need * BlockSize) = EntryOf(off, Cur, r)
  <2>1. BaseOf(TailIndex - 1) = Base(Begun - 1)
    <3>1. TailIndex - 1 \in Int /\ Num(TailIndex - 1) = Begun - 1
      <4>1. TailIndex - 1 \in Int
        BY DEF TypeOK
      <4>2. Num(TailIndex - 1) \in Int
        BY <4>1, DivMod
      <4> QED BY <4>1, <4>2 DEF Begun
    <3> QED BY <3>1, BaseOfIs
  <2>2. BaseOf(TailIndex - 1) + po.need * BlockSize = Base(r)
    <3>1. Base(Begun - 1) + po.need * BlockSize = Base((Begun - 1) + po.need)
      <4>1. ASSUME NEW a \in Int, NEW b \in Int PROVE Base(a) + b * BlockSize = Base(a + b)
        BY SizesAssumption DEF Base
      <4>2. Begun - 1 \in Int /\ po.need \in Int
        BY <1>3, <1>4
      <4> QED BY <4>1, <4>2
    <3>2. (Begun - 1) + po.need = r
      BY <1>3, <1>4, <1>5
    <3> QED BY <2>1, <3>1, <3>2
  <2>3. Base(r) \in Int /\ Num(Base(r)) = r
    BY BaseStep
  <2>4. KeyOf(off, nq - 1) # InvalidBase
    <3>1. PICK x \in Int : x = nq - 1
      BY <1>2
    <3> QED BY <1>7, <3>1, BaseStep
  <2>5. EntryForIndex(Base(r)) = EntryOf(off, Cur, Num(Base(r)))
    BY <1>2, <2>3, <2>4, LookupEntry
  <2> QED BY <2>2, <2>3, <2>5
<1>10. PICK e \in 1 .. Len(entries) : e = EntryOf(off, Cur, r) /\ SetValue(e, NoBlock)
  BY <1>1, <1>2, <1>9, PlaceType, CurType
<1>11. GaveUp(off, nq, m, e)
  BY <1>1, <1>4, <1>7, <1>10, Rewound
<1>12. /\ IndexOK' /\ Consumption(off)' /\ Aligned(off)' /\ Agree(off)' /\ Window(off, m)'
      /\ off \in [1 .. Cur' -> Int] /\ m \in Int /\ m <= nq
      /\ SameArrays /\ SameKeys /\ Valued(off, e, NoBlock)
      /\ Current.tail' = Place(off, Cur, m - 1)'
  BY <1>11 DEF GaveUp
<1>13. /\ \A q \in Live : BlockOf(off, q)' = BlockOf(off, q)
       /\ \A q \in Int : BlockOf(off, q)' \in {NoBlock, BlockOf(off, q)}
       /\ \A q \in Int : KeyOf(off, q)' = KeyOf(off, q)
  <2>1. \A q \in Live : q # r
    BY <1>3, <1>4, <1>5, LiveType
  <2> QED BY <1>2, <1>8, <1>10, <1>12, <2>1, OthersKept
<1>14. TypeOK'
  BY <1>1, <1>3, <1>12 DEF TypeOK
<1>15. Begun' = Begun /\ Linked' = Linked /\ Live' = Live /\ Objects' = Objects
  <2>1. Begun' = Begun /\ ~InCall'
    BY <1>1, <1>3 DEF Begun, InCall
  <2>2. Linked' = Linked
    BY <1>4, <1>14, <2>1, LinkedNext
  <2>3. Filled' = Filled
    BY <1>1, <1>3 DEF Filled
  <2>4. UNION {Untaken(c) : c \in Consumers}' = UNION {Untaken(c) : c \in Consumers}
    BY <1>1, ProducerViews
  <2>5. Objects' = Objects
    BY <1>1, <2>3, <2>4 DEF Objects
  <2> QED BY <1>1, <1>14, <2>1, <2>2, <2>5, ProducerLive
<1>16. OffsetsOK(off, m)'
  <2>1. m >= Begun'
    BY <1>1, <1>3, <1>4, <1>15
  <2>2. m = Begun' + Len(po'.taken) - po'.need + 1
    <3>1. PICK l \in Nat, d \in Nat, b \in Nat : l = Len(po.taken) /\ d = po.need /\ b = Begun
      BY <1>3, <1>4
    <3>2. m = b + l - (d + 1) + 1
      <4>1. nq = b + l - d + 1 /\ m = nq - 1
        BY <1>4, <3>1
      <4>2. (b + l - d + 1) - 1 = b + l - (d + 1) + 1
        <5>1. b \in Int /\ l \in Int /\ d \in Int
          BY <3>1
        <5> QED BY <5>1
      <4> QED BY <4>1, <4>2
    <3>3. po'.need = d + 1 /\ Len(po'.taken) = l /\ Begun' = b
      BY <1>3, <1>15, <3>1
    <3> QED BY <3>2, <3>3
  <2> QED BY <1>3, <1>12, <2>1, <2>2 DEF OffsetsOK
<1>17. SameBlocks(off) /\ Live' \subseteq Live
  BY <1>13, <1>15 DEF SameBlocks
<1>18. Listed(off, m)'
  BY <1>2, <1>12, <1>17, ListedKept
<1>19. Underway(off, m)'
  <2>1. ASSUME NEW k \in DOMAIN po.taken PROVE KeyOf(off, Begun + k - 1)' = Base(Begun + k - 1)
    <3>1. PICK x \in Int : x = Begun + k - 1
      <4>1. k \in Nat
        BY <1>3
      <4>2. Begun \in Nat
        BY <1>4
      <4> QED BY <4>1, <4>2
    <3>2. KeyOf(off, Begun + k - 1)' = KeyOf(off, x)'
      BY <1>15, <3>1 DEF KeyOf, EntryOf, Place
    <3> QED BY <1>6, <1>13, <3>1, <3>2
  <2> QED BY <1>3, <1>15, <2>1 DEF Underway
<1>20. CallOK(off)'
  <2>1. Off(TailIndex) # 0 => BlockOf(off, Begun - 1)' = BlockOf(off, Begun - 1)
    <3> SUFFICES ASSUME Off(TailIndex) # 0
                 PROVE  BlockOf(off, Begun - 1)' = BlockOf(off, Begun - 1)
      OBVIOUS
    <3>1. PICK b : b = Begun - 1
      OBVIOUS
    <3>2. b \in Live
      BY <3>1, TailLive
    <3>3. BlockOf(off, Begun - 1)' = BlockOf(off, b)'
      BY <1>15, <3>1 DEF BlockOf, EntryOf, Place
    <3> QED BY <1>13, <3>1, <3>2, <3>3
  <2>2. po'.n >= 1 /\ (Off(TailIndex) # 0 => po'.old = BlockOf(off, Begun - 1))
    BY <1>1, <1>2, <1>3 DEF CallOK
  <2>3. po'.need \in 1 .. (Len(po'.taken) + 1)
    BY <1>1, <1>3, <1>4, SMTT(30)
  <2>4. ~InCall'
    BY <1>3 DEF InCall
  <2> QED BY <1>1, <1>3, <2>1, <2>2, <2>3, <2>4 DEF CallOK
<1>21. Apart(off)' /\ AllThere(off)'
  <2>1. Held' = Held
    BY <1>1, <1>3 DEF Held
  <2> QED BY <1>1, <1>2, <1>15, <1>17, <2>1, UsesKept
<1>22. Counts(off)'
  BY <1>1, <1>2, <1>3, <1>17, CountsKept
<1>23. Placed(off)' /\ NothingElse(off)'
  <2>1. \A p \in Objects : BlockOf(off, Num(p))' = BlockOf(off, Num(p))
    BY <1>2, <1>13, ObjectsLive
  <2> QED BY <1>1, <1>2, <1>15, <2>1, ObjectsKept
<1>24. Occupied(off)'
  <2> SUFFICES ASSUME NEW q \in Int, BlockOf(off, q)' # NoBlock
               PROVE  \E x \in (Live \union Leaving)' : EntryOf(off, Cur, q)' = EntryOf(off, Cur, x)'
    BY DEF Occupied
  <2>1. EntryOf(off, Cur, q) # e /\ BlockOf(off, q) # NoBlock
    BY <1>12 DEF Valued
  <2>2. PICK x \in Live \union Leaving : EntryOf(off, Cur, q) = EntryOf(off, Cur, x)
    BY <1>1, <1>2, <2>1 DEF Occupied
  <2>3. CASE x \in Live
    BY <1>12, <1>15, <2>2, <2>3, LiveType DEF Valued
  <2>4. CASE x \in Leaving
    <3>1. PICK k \in po.need .. Len(po.taken) : x = Begun + k - 1
      BY <1>1, <2>4 DEF Leaving
    <3>2. k # po.need
      BY <1>5, <1>10, <2>1, <2>2, <3>1
    <3>3. k \in (po.need + 1) .. Len(po.taken) /\ x \in Int
      BY <1>3, <1>4, <3>1, <3>2
    <3>4. x \in Leaving'
      BY <1>3, <1>15, <3>1, <3>3 DEF Leaving
    <3> QED BY <1>12, <2>2, <3>3, <3>4 DEF Valued
  <2> QED BY <2>2, <2>3, <2>4
<1> QED BY <1>12, <1>14, <1>16, <1>18, <1>19, <1>20, <1>21, <1>22, <1>23, <1>24 DEF Body, Index

-----------------------------------------------------------------------------
(* Steps of consumers. *)

\* What a step of consumer c leaves of the others.
Aside(c) ==
    \A d \in Consumers \ {c} :
        /\ con'[d] = con[d] /\ Calling(d)' = Calling(d)
        /\ Unmarked(d)' = Unmarked(d) /\ Busy(d)' = Busy(d) /\ Untaken(d)' = Untaken(d)

LEMMA ConsumerAside ==
    ASSUME TypeOK, NEW c \in Consumers, NEW r, con' = [con EXCEPT ![c] = r]
    PROVE  con'[c] = r /\ Aside(c)
<1>1. con'[c] = r /\ \A d \in Consumers \ {c} : con'[d] = con[d]
  BY DEF TypeOK
<1>2. ASSUME NEW d \in Consumers \ {c}
      PROVE  /\ Calling(d)' = Calling(d)
             /\ Unmarked(d)' = Unmarked(d) /\ Busy(d)' = Busy(d) /\ Untaken(d)' = Untaken(d)
  <2>1. con'[d] = con[d]
    BY <1>1
  <2> QED BY <2>1 DEF Calling, Unmarked, Busy, Untaken, RunSize, Run
<1> QED BY <1>1, <1>2 DEF Aside

\* A claim that stays the same.
LEMMA SameClaim ==
    ASSUME NEW c \in Consumers, Calling(c), Calling(c)',
           con'[c].item = con[c].item, con'[c].need = con[c].need
    PROVE  /\ RunSize(c)' = RunSize(c) /\ Run(c)' = Run(c)
           /\ (con'[c].step = "return") = (con[c].step = "return") => Busy(c)' = Busy(c)
           /\ (con'[c].step \in {"clear", "return"}) = (con[c].step \in {"clear", "return"}) =>
                 Unmarked(c)' = Unmarked(c)
           /\ (con'[c].step \in {"setEmpty", "clear", "return"})
                 = (con[c].step \in {"setEmpty", "clear", "return"}) =>
                 Untaken(c)' = Untaken(c)
<1>1. RunSize(c)' = RunSize(c) /\ Run(c)' = Run(c)
  BY DEF RunSize, Run
<1>2. (con'[c].step = "return") = (con[c].step = "return") => Busy(c)' = Busy(c)
  BY DEF Busy
<1>3. (con'[c].step \in {"clear", "return"}) = (con[c].step \in {"clear", "return"}) =>
                 Unmarked(c)' = Unmarked(c)
  BY <1>1 DEF Unmarked
<1>4. (con'[c].step \in {"setEmpty", "clear", "return"})
                 = (con[c].step \in {"setEmpty", "clear", "return"}) =>
                 Untaken(c)' = Untaken(c)
  BY <1>1 DEF Untaken, Calling
<1> QED BY <1>1, <1>2, <1>3, <1>4

\* What the steps of consumers that leave the index alone keep.
LEMMA ConsumerKeeps ==
    ASSUME TypeOK, NEW off, NEW nq, Body(off, nq),
           UNCHANGED <<TailIndex, TailBlock, arrays, entries, po>>, Live' = Live
    PROVE  /\ IndexOK' /\ Index(off, nq)' /\ CallOK(off)' /\ Occupied(off)'
           /\ off \in [1 .. Cur -> Int]
           /\ \A q : BlockOf(off, q)' = BlockOf(off, q)
           /\ Begun' = Begun /\ Filled' = Filled /\ Held' = Held
<1>1. /\ OffsetsOK(off, nq) /\ CallOK(off) /\ Apart(off) /\ AllThere(off) /\ Aligned(off) /\ Agree(off)
      /\ Listed(off, nq) /\ Underway(off, nq) /\ Window(off, nq) /\ Occupied(off)
      /\ IndexOK /\ off \in [1 .. Cur -> Int] /\ nq \in Int
  BY DEF Body, Index, TypeOK, OffsetsOK
<1>2. IndexOK'
  BY <1>1, IndexKept DEF IndexOK
<1>3. /\ Current' = Current /\ Cur' = Cur /\ SameKeys /\ SameArrays
      /\ Aligned(off)' /\ Agree(off)'
      /\ \A q : /\ Place(off, Cur, q)' = Place(off, Cur, q)
                /\ EntryOf(off, Cur, q)' = EntryOf(off, Cur, q)
                /\ KeyOf(off, q)' = KeyOf(off, q)
                /\ BlockOf(off, q)' = BlockOf(off, q)
  BY <1>1, StillIndex
<1>4. Begun' = Begun /\ Linked' = Linked /\ Filled' = Filled /\ Held' = Held /\ Leaving' = Leaving
      /\ InCall' = InCall /\ Taking' = Taking
  BY DEF Begun, Linked, Filled, Held, Leaving, InCall, Taking
<1>5. OffsetsOK(off, nq)'
  BY <1>1, <1>3, <1>4 DEF OffsetsOK
<1>6. Listed(off, nq)'
  BY <1>1, StillListed, nq <= nq
<1>7. Window(off, nq)'
  BY <1>1, <1>3, WindowKept
<1>8. Underway(off, nq)'
  <2>1. \A k : KeyOf(off, Begun + k - 1)' = KeyOf(off, Begun + k - 1)
    BY <1>4 DEF KeyOf, EntryOf, Place, Key, Cur
  <2>2. KeyOf(off, nq - 1)' = KeyOf(off, nq - 1) /\ KeyOf(off, nq)' = KeyOf(off, nq)
    BY <1>3
  <2> QED BY <1>1, <1>4, <2>1, <2>2 DEF Underway
<1>9. CallOK(off)'
  <2>1. \A k : BlockOf(off, Begun + k - 1)' = BlockOf(off, Begun + k - 1)
    BY <1>4 DEF BlockOf, EntryOf, Place, Value, Cur
  <2>2. BlockOf(off, Begun - 1)' = BlockOf(off, Begun - 1)
    BY <1>4 DEF BlockOf, EntryOf, Place, Value, Cur
  <2> QED BY <1>1, <1>4, <2>1, <2>2 DEF CallOK
<1>10. Occupied(off)'
  BY <1>1, <1>3, <1>4 DEF Occupied
<1> QED BY <1>1, <1>2, <1>3, <1>4, <1>5, <1>6, <1>7, <1>8, <1>9, <1>10 DEF Index

\* And the blocks.
LEMMA ConsumerRest ==
    ASSUME TypeOK, NEW off, NEW nq, Body(off, nq),
           UNCHANGED <<TailIndex, TailBlock, arrays, entries, manager, heap, po>>,
           Live' = Live, NEW c \in Consumers, Aside(c),
           con[c].step # "return", con'[c].step # "return"
    PROVE  /\ IndexOK' /\ Index(off, nq)' /\ CallOK(off)' /\ Apart(off)' /\ AllThere(off)'
           /\ Occupied(off)' /\ off \in [1 .. Cur -> Int]
           /\ \A q : BlockOf(off, q)' = BlockOf(off, q)
           /\ Begun' = Begun /\ Filled' = Filled
<1>1. Apart(off) /\ AllThere(off)
  BY DEF Body
<1>2. /\ IndexOK' /\ Index(off, nq)' /\ CallOK(off)' /\ Occupied(off)'
      /\ off \in [1 .. Cur -> Int]
      /\ \A q : BlockOf(off, q)' = BlockOf(off, q)
      /\ Begun' = Begun /\ Filled' = Filled /\ Held' = Held
  BY ConsumerKeeps
<1>3. InHand' = InHand
  <2>1. \A d \in Consumers : con'[d].step = "return" <=> con[d].step = "return"
    BY DEF Aside
  <2>2. \A d \in Consumers : con[d].step = "return" => con'[d].block = con[d].block
    BY DEF Aside
  <2> QED BY <2>1, <2>2 DEF InHand
<1>4. Apart(off)' /\ AllThere(off)'
  <2>1. \A d, e \in Consumers :
          con'[d].step = "return" /\ con'[e].step = "return" /\ con'[d].block = con'[e].block => d = e
    <3>1. \A d \in Consumers : con'[d].step = "return" => con[d].step = "return" /\ con'[d].block = con[d].block
      BY DEF Aside
    <3> QED BY <1>1, <3>1 DEF Apart
  <2>2. Apart(off)'
    BY <1>1, <1>2, <1>3, <2>1 DEF Apart
  <2>3. AllThere(off)'
    BY <1>1, <1>2, <1>3 DEF AllThere
  <2> QED BY <2>2, <2>3
<1> QED BY <1>2, <1>4

\* The same views, the same live blocks.
LEMMA SameLive ==
    ASSUME NEW c \in Consumers, Aside(c), Busy(c)' = Busy(c),
           UNCHANGED <<HeadIndex, TailIndex, po>>
    PROVE  Live' = Live
<1>1. \A d \in Consumers : Busy(d)' = Busy(d)
  BY DEF Aside
<1>2. Linked' = Linked
  BY DEF Linked, Begun, InCall
<1> QED BY <1>1, <1>2 DEF Live

LEMMA SameUnmarked ==
    ASSUME NEW c \in Consumers, Aside(c), Unmarked(c)' = Unmarked(c), HeadIndex' = HeadIndex
    PROVE  \A q : Marked(q)' = Marked(q)
<1>1. \A d \in Consumers : Unmarked(d)' = Unmarked(d)
  BY DEF Aside
<1> QED BY <1>1 DEF Marked

LEMMA SameUntaken ==
    ASSUME NEW c \in Consumers, Aside(c), Untaken(c)' = Untaken(c),
           HeadIndex' = HeadIndex, Filled' = Filled
    PROVE  Objects' = Objects
<1>1. \A d \in Consumers : Untaken(d)' = Untaken(d)
  BY DEF Aside
<1>2. UNION {Untaken(d) : d \in Consumers}' = UNION {Untaken(d) : d \in Consumers}
  BY <1>1
<1> QED BY <1>2 DEF Objects

\* What the others know.
LEMMA OthersKnow ==
    ASSUME TypeOK, NEW off, NEW nq, Body(off, nq), arrays' = arrays, entries' = entries,
           NEW c \in Consumers, Aside(c), NEW d \in Consumers \ {c}
    PROVE  Knows(off, d)'
<1>1. IndexOK /\ off \in [1 .. Cur -> Int] /\ Knows(off, d)
  BY DEF Body, Index, TypeOK, OffsetsOK, Consumption
<1>2. SameArrays /\ SameKeys
  BY <1>1, StillIndex
<1>3. con'[d] = con[d]
  BY DEF Aside
<1>4. \A x \in 1 .. Len(entries) : Key(x) # InvalidBase => Key(x)' # InvalidBase
  BY <1>2, SMTT(30) DEF SameKeys
<1>5. con[d].step = "tail" =>
              Key(arrays[con[d].array].at[arrays[con[d].array].tail])' # InvalidBase
  BY <1>1, <1>3 DEF Knows, Key
<1> QED BY <1>1, <1>2, <1>3, <1>4, <1>5, KnowsKept

Looking == {"array", "tail", "key", "take"}

\* A consumer on the way to its block changes nothing else.
LEMMA LookupStep ==
    ASSUME TypeOK, NEW off, NEW nq, Body(off, nq), NEW c \in Consumers, NEW r \in Lookups,
           con' = [con EXCEPT ![c] = r], con[c].step \in Looking, r.step \in Looking,
           r.item = con[c].item, r.need = con[c].need,
           UNCHANGED <<HeadIndex, TailIndex, TailBlock, emptied, slots, arrays, entries,
                       manager, heap, po>>,
           IndexOK' => Knows(off, c)'
    PROVE  TypeOK' /\ Body(off, nq)'
<1>1. con'[c] = r /\ Aside(c)
  BY ConsumerAside
<1>2. /\ Calling(c) /\ Calling(c)' /\ con'[c].item = con[c].item /\ con'[c].need = con[c].need
      /\ con[c].step # "return" /\ con'[c].step # "return"
      /\ con[c].step \notin {"setEmpty", "clear"} /\ con'[c].step \notin {"setEmpty", "clear"}
  BY <1>1 DEF Calling, Looking
<1>3. Busy(c)' = Busy(c) /\ Unmarked(c)' = Unmarked(c) /\ Untaken(c)' = Untaken(c)
  BY <1>2, SameClaim
<1>4. Live' = Live /\ \A q : Marked(q)' = Marked(q)
  BY <1>1, <1>3, SameLive, SameUnmarked
<1>5. /\ IndexOK' /\ Index(off, nq)' /\ CallOK(off)' /\ Apart(off)' /\ AllThere(off)'
      /\ Occupied(off)' /\ off \in [1 .. Cur -> Int]
      /\ \A q : BlockOf(off, q)' = BlockOf(off, q)
      /\ Begun' = Begun /\ Filled' = Filled
  BY <1>1, <1>2, <1>4, ConsumerRest
<1>6. /\ ClaimsOK /\ LastOut /\ Counts(off) /\ Placed(off) /\ NothingElse(off) /\ CallOK(off)
      /\ \A d \in Consumers : Knows(off, d)
  BY DEF Body, Consumption
<1>7. TypeOK'
  <2>1. con' \in [Consumers -> {NoCall} \union Lookups]
    BY DEF TypeOK
  <2> QED BY <1>5, <2>1 DEF TypeOK
<1>8. \A d \in Consumers : /\ Calling(d)' = Calling(d) /\ con'[d].item = con[d].item
                           /\ con'[d].need = con[d].need /\ Busy(d)' = Busy(d)
                           /\ con'[d].step = "clear" <=> con[d].step = "clear"
  <2> SUFFICES ASSUME NEW d \in Consumers
               PROVE  /\ Calling(d)' = Calling(d) /\ con'[d].item = con[d].item
                      /\ con'[d].need = con[d].need /\ Busy(d)' = Busy(d)
                      /\ con'[d].step = "clear" <=> con[d].step = "clear"
    OBVIOUS
  <2>1. CASE d = c
    BY <1>2, <1>3, <2>1 DEF Calling
  <2>2. CASE d # c
    BY <1>1, <2>2 DEF Aside
  <2> QED BY <2>1, <2>2
<1>9. ClaimsOK'
  BY <1>6, <1>8 DEF ClaimsOK
<1>10. LastOut'
  BY <1>6, <1>8 DEF LastOut
<1>11. \A d \in Consumers : Knows(off, d)'
  BY <1>1, <1>5, OthersKnow
<1>12. Counts(off)'
  BY <1>4, <1>5, <1>6 DEF Counts
<1>13. Placed(off)' /\ NothingElse(off)'
  <2>1. Objects' = Objects
    BY <1>1, <1>3, <1>5, SameUntaken
  <2> QED BY <1>5, <1>6, <2>1, ObjectsKept
<1> QED BY <1>5, <1>7, <1>9, <1>10, <1>11, <1>12, <1>13 DEF Body, Consumption

\* The first block of a claim, and the keys from there to the tail.
LEMMA FirstKeys ==
    ASSUME TypeOK, NEW off, NEW nq, Body(off, nq), NEW c \in Consumers, Calling(c),
           con[c].step # "return"
    PROVE  LET q == Num(con[c].item)
           IN  /\ q \in Busy(c) /\ q \in Live /\ q < Begun /\ q \in Nat
               /\ KeyOf(off, q) = Base(q) /\ BlockOf(off, q) \in Blocks
               /\ KeyOf(off, nq - 1) # InvalidBase
<1> DEFINE q == Num(con[c].item)
<1>1. /\ ClaimsOK /\ Listed(off, nq) /\ nq \in Int /\ nq >= Begun
  BY DEF Body, Index, Consumption, OffsetsOK
<1>2. q \in Busy(c)
  BY <1>1, FirstBusy
<1>3. q \in Live /\ q < Begun /\ q \in Nat
  BY <1>1, <1>2, BusyLive
<1>4. nq - 1 \in q .. (nq - 1)
  BY <1>1, <1>3, BegunIs
<1> QED BY <1>1, <1>2, <1>3, <1>4 DEF Listed

LEMMA DoLoadArray ==
    ASSUME TypeOK, NEW off, NEW nq, Body(off, nq), NEW c \in Consumers, LoadArray(c)
    PROVE  TypeOK' /\ Body(off, nq)'
<1>1. PICK r : r = [step |-> "tail", item |-> con[c].item, need |-> con[c].need, array |-> Len(arrays)]
  OBVIOUS
<1>2. /\ con[c].step = "array" /\ con' = [con EXCEPT ![c] = r]
      /\ UNCHANGED <<HeadIndex, TailIndex, TailBlock, emptied, slots, arrays, entries,
                     manager, heap, po>>
  BY <1>1 DEF LoadArray, blocks, index, supply
<1>3. Calling(c) /\ con[c].item \in Nat /\ con[c].need \in Nat
  BY <1>2, ConTypes DEF Calling
<1>4. /\ IndexOK /\ off \in [1 .. Cur -> Int] /\ Current.tail = Place(off, Cur, nq - 1) /\ nq \in Int
      /\ Cur \in 1 .. Cur /\ Current = arrays[Cur]
  BY CurType DEF Body, Index, TypeOK, OffsetsOK
<1>5. r \in Lookups /\ r.step = "tail" /\ r.item = con[c].item /\ r.need = con[c].need /\ r.array = Cur
  BY <1>1, <1>3, <1>4 DEF Lookups, Cur
<1>6. Knows(off, c)'
  <2>1. con'[c] = r
    BY <1>2, ConsumerAside
  <2>2. Cur' = Cur
    BY <1>2 DEF Cur
  <2>3. KeyOf(off, nq - 1) # InvalidBase
    BY <1>2, <1>3, FirstKeys
  <2>4. Key(arrays[Cur].at[arrays[Cur].tail]) # InvalidBase
    BY <1>4, <2>3 DEF KeyOf, EntryOf
  <2>5. Key(arrays[con[c].array].at[arrays[con[c].array].tail])' # InvalidBase
    BY <1>2, <1>5, <2>1, <2>4 DEF Key
  <2>6. \A q : EntryOf(off, con[c].array, q)' = EntryOf(off, Cur, q)'
    BY <1>2, <1>5, <2>1, <2>2 DEF EntryOf, Place
  <2> QED BY <1>4, <1>5, <2>1, <2>2, <2>5, <2>6 DEF Knows
<1> QED BY <1>2, <1>5, <1>6, LookupStep DEF Looking

LEMMA DoLoadTail ==
    ASSUME TypeOK, NEW off, NEW nq, Body(off, nq), NEW c \in Consumers, LoadTail(c)
    PROVE  TypeOK' /\ Body(off, nq)'
<1>1. PICK r : r = [step |-> "key", item |-> con[c].item, need |-> con[c].need,
                    array |-> con[c].array, place |-> arrays[con[c].array].tail]
  OBVIOUS
<1>2. /\ con[c].step = "tail" /\ con' = [con EXCEPT ![c] = r]
      /\ UNCHANGED <<HeadIndex, TailIndex, TailBlock, emptied, slots, arrays, entries,
                     manager, heap, po>>
  BY <1>1 DEF LoadTail, blocks, index, supply
<1>3. Calling(c) /\ con[c].item \in Nat /\ con[c].need \in Nat /\ con[c].array \in Nat
  BY <1>2, ConTypes DEF Calling
<1>4. /\ IndexOK /\ Knows(off, c)
  BY DEF Body, TypeOK, Consumption
<1>5. PICK i \in 1 .. Cur : i = con[c].array /\ Key(arrays[i].at[arrays[i].tail]) # InvalidBase
  BY <1>2, <1>4 DEF Knows
<1>6. arrays[i].tail \in 0 .. (arrays[i].size - 1) /\ arrays[i].tail \in Int
  BY <1>4 DEF IndexOK
<1>7. r \in Lookups /\ r.step = "key" /\ r.item = con[c].item /\ r.need = con[c].need
      /\ r.array = i /\ r.place = arrays[i].tail
  BY <1>1, <1>3, <1>5, <1>6 DEF Lookups, ConSteps
<1>8. Knows(off, c)'
  <2>1. con'[c] = r
    BY <1>2, ConsumerAside
  <2>2. Cur' = Cur
    BY <1>2 DEF Cur
  <2>3. Busy(c)' = Busy(c)
    BY <1>2, <1>3, <1>7, <2>1, SameClaim DEF Calling
  <2>4. \A q \in Busy(c) : EntryOf(off, i, q)' = EntryOf(off, Cur, q)'
    <3>1. \A q \in Busy(c) : EntryOf(off, i, q) = EntryOf(off, Cur, q)
      BY <1>2, <1>4, <1>5 DEF Knows
    <3> QED BY <1>2, <2>2, <3>1 DEF EntryOf, Place
  <2>5. \A q : EntryOf(off, con[c].array, q)' = EntryOf(off, i, q)'
    BY <1>7, <2>1, SMTT(30) DEF EntryOf, Place
  <2>6. /\ con'[c].place \in 0 .. (arrays'[con'[c].array].size - 1)
        /\ Key(arrays[con[c].array].at[con[c].place])' # InvalidBase
    BY <1>2, <1>5, <1>6, <1>7, <2>1 DEF Key
  <2> QED BY <1>7, <2>1, <2>2, <2>3, <2>4, <2>5, <2>6 DEF Knows
<1> QED BY <1>2, <1>7, <1>8, LookupStep DEF Looking

LEMMA DoLoadKey ==
    ASSUME TypeOK, NEW off, NEW nq, Body(off, nq), NEW c \in Consumers, LoadKey(c)
    PROVE  TypeOK' /\ Body(off, nq)'
<1>1. con[c].step = "key"
  BY DEF LoadKey
<1>2. /\ Calling(c) /\ con[c].item \in Nat /\ con[c].need \in Nat /\ con[c].array \in Nat
      /\ con[c].place \in Int /\ con[c] \in Lookups
  BY <1>1, ConTypes DEF Calling, ConSteps, TypeOK, NoCall
<1>3. /\ IndexOK /\ Knows(off, c) /\ off \in [1 .. Cur -> Int] /\ Aligned(off)
  BY DEF Body, TypeOK, Consumption, Index, OffsetsOK
<1>4. PICK i \in 1 .. Cur : \E k \in 0 .. (arrays[i].size - 1) :
         i = con[c].array /\ k = con[c].place /\ Key(arrays[i].at[k]) # InvalidBase
  BY <1>1, <1>3 DEF Knows
<1>4a. PICK k \in 0 .. (arrays[i].size - 1) :
         i = con[c].array /\ k = con[c].place /\ Key(arrays[i].at[k]) # InvalidBase
  BY <1>4
<1>5. PICK p \in Int : p = PlaceFrom(arrays[i], k, entries[arrays[i].at[k]].key, con[c].item)
                       /\ p = Place(off, i, Num(con[c].item))
  <2>1. PlaceFrom(arrays[i], k, Key(arrays[i].at[k]), con[c].item) = Place(off, i, Num(con[c].item))
    BY <1>2, <1>3, <1>4a, LookupPlace
  <2>2. Place(off, i, Num(con[c].item)) \in Int
    <3>1. Num(con[c].item) \in Int
      BY <1>2, DivMod
    <3>2. arrays[i].size \in Nat \ {0} /\ Place(off, i, Num(con[c].item)) \in 0 .. (arrays[i].size - 1)
      BY <1>3, <3>1, PlaceType
    <3> QED BY <3>2
  <2> QED BY <2>1, <2>2 DEF Key
<1>6. PICK r : r = [con[c] EXCEPT !.step = "take", !.place = p]
  OBVIOUS
<1>7. /\ con' = [con EXCEPT ![c] = r]
      /\ UNCHANGED <<HeadIndex, TailIndex, TailBlock, emptied, slots, arrays, entries,
                     manager, heap, po>>
  <2>1. con' = [con EXCEPT ![c].step = "take", ![c].place = p]
    BY <1>4a, <1>5 DEF LoadKey
  <2>2. con' = [con EXCEPT ![c] = r]
    BY <1>6, <2>1 DEF TypeOK
  <2> QED BY <2>2 DEF LoadKey, blocks, index, supply
<1>8. r \in Lookups /\ r.step = "take" /\ r.item = con[c].item /\ r.need = con[c].need
      /\ r.array = i /\ r.place = p
  <2>1. con[c] \in [step : ConSteps, item : Nat, need : Nat, array : Nat, place : Int]
    BY <1>1, <1>2 DEF Lookups, ConSteps
  <2> QED BY <1>4a, <1>5, <1>6, <2>1 DEF Lookups, ConSteps
<1>9. Knows(off, c)'
  <2>1. con'[c] = r
    BY <1>7, ConsumerAside
  <2>2. Cur' = Cur
    BY <1>7 DEF Cur
  <2>3. Busy(c)' = Busy(c)
    BY <1>1, <1>2, <1>8, <2>1, SameClaim DEF Calling
  <2>4. \A q \in Busy(c) : EntryOf(off, i, q)' = EntryOf(off, Cur, q)'
    <3>1. \A q \in Busy(c) : EntryOf(off, i, q) = EntryOf(off, Cur, q)
      BY <1>1, <1>3, <1>4a DEF Knows
    <3> QED BY <1>7, <2>2, <3>1 DEF EntryOf, Place
  <2>5. \A q : EntryOf(off, con[c].array, q)' = EntryOf(off, i, q)'
    BY <1>8, <2>1 DEF EntryOf, Place
  <2>6. con'[c].place = Place(off, con[c].array, Num(con[c].item))'
    BY <1>5, <1>7, <1>8, <2>1 DEF Place, Num
  <2> QED BY <1>8, <2>1, <2>2, <2>3, <2>4, <2>5, <2>6 DEF Knows
<1> QED BY <1>1, <1>7, <1>8, <1>9, LookupStep DEF Looking

LEMMA DoClaim ==
    ASSUME TypeOK, NEW off, NEW nq, Body(off, nq), NEW c \in Consumers, NEW n \in ClaimCounts,
           Claim(c, n)
    PROVE  TypeOK' /\ Body(off, nq)'
<1>1. PICK r : r = [step |-> "array", item |-> HeadIndex, need |-> n]
  OBVIOUS
<1>2. PICK H \in Nat : H = HeadIndex
  BY DEF TypeOK
<1>3. /\ con[c].step = "idle" /\ con' = [con EXCEPT ![c] = r] /\ po.step # "gone"
      /\ HeadIndex' = H + n /\ H + n <= TailIndex
      /\ UNCHANGED <<TailIndex, TailBlock, emptied, slots, arrays, entries, manager, heap, po>>
  BY <1>1, <1>2 DEF Claim, blocks, index, supply
<1>4. n \in Nat \ {0} /\ TailIndex \in Nat /\ H + n \in Nat /\ H + n - 1 \in Nat /\ H <= H + n - 1
  BY SizesAssumption DEF TypeOK
<1>5. r \in Lookups /\ r.step = "array" /\ r.item = H /\ r.need = n
  BY <1>1, <1>2, <1>4 DEF Lookups
<1>6. con'[c] = r /\ Aside(c)
  BY <1>3, ConsumerAside
<1>7. /\ ~Calling(c) /\ Busy(c) = {} /\ Unmarked(c) = {} /\ Untaken(c) = {}
  BY <1>3 DEF Calling, Busy, Unmarked, Untaken
<1>8. /\ Calling(c)' /\ Busy(c)' = Num(H) .. Num(H + n - 1)
      /\ Unmarked(c)' = H .. (H + n - 1) /\ Untaken(c)' = H .. (H + n - 1)
  <2>1. Calling(c)'
    BY <1>5, <1>6 DEF Calling
  <2>2. Busy(c)' = (Num(H) + 0) .. Num(H + n - 1)
    BY <1>5, <1>6, <2>1 DEF Busy
  <2>3. Unmarked(c)' = (H + 0) .. (H + n - 1) /\ Untaken(c)' = (H + 0) .. (H + n - 1)
    BY <1>5, <1>6, <2>1 DEF Unmarked, Untaken
  <2>4. Num(H) + 0 = Num(H)
    BY <1>2, DivMod
  <2> QED BY <1>2, <2>1, <2>2, <2>3, <2>4
<1>9. /\ ClaimsOK /\ LastOut /\ Counts(off) /\ Placed(off) /\ NothingElse(off) /\ CallOK(off)
      /\ \A d \in Consumers : Knows(off, d)
  BY DEF Body, Consumption
<1>10. \A d \in Consumers \ {c} : Calling(d) => con[d].item + con[d].need <= H
                                 /\ con[d].item \in Nat /\ con[d].need \in Nat /\ con[d].need >= 1
  BY <1>2, <1>9, ConTypes DEF ClaimsOK
<1>11. Live' = Live
  <2>1. Linked' = Linked /\ Linked \in Nat
    BY <1>3, LinkedType DEF Linked, Begun, InCall
  <2>2. ASSUME NEW q \in Nat
        PROVE  (HeadIndex < Base(q + 1) \/ \E d \in Consumers : q \in Busy(d))
                <=> (HeadIndex' < Base(q + 1) \/ \E d \in Consumers : q \in Busy(d)')
    <3>1. Base(q + 1) \in Int /\ Base(q) \in Int /\ Base(q) < Base(q + 1)
      BY BaseStep, SizesAssumption
    <3>2. H < Base(q + 1) <=> Num(H) <= q
      BY <1>2, NumBetween
    <3>3. q <= Num(H + n - 1) <=> Base(q) <= H + n - 1
      BY <1>4, NumBetween
    <3>4. Num(H) \in Int /\ Num(H + n - 1) \in Int
      BY <1>2, <1>4, DivMod
    <3>5. q \in Busy(c)' <=> (H < Base(q + 1) /\ Base(q) <= H + n - 1)
      BY <1>8, <3>2, <3>3, <3>4
    <3>6. H < Base(q + 1) <=> (H + n < Base(q + 1) \/ q \in Busy(c)')
      BY <1>4, <3>1, <3>5
    <3>7. (\E d \in Consumers \ {c} : q \in Busy(d)) <=> (\E d \in Consumers \ {c} : q \in Busy(d)')
      BY <1>6 DEF Aside
    <3> QED BY <1>2, <1>3, <1>7, <3>6, <3>7
  <2> QED BY <2>1, <2>2 DEF Live
<1>12. /\ IndexOK' /\ Index(off, nq)' /\ CallOK(off)' /\ Apart(off)' /\ AllThere(off)'
       /\ Occupied(off)' /\ off \in [1 .. Cur -> Int]
       /\ \A q : BlockOf(off, q)' = BlockOf(off, q)
       /\ Begun' = Begun /\ Filled' = Filled
  BY <1>3, <1>5, <1>6, <1>11, ConsumerRest
<1>13. TypeOK'
  <2>1. con' \in [Consumers -> {NoCall} \union Lookups]
    BY <1>3, <1>5 DEF TypeOK
  <2> QED BY <1>3, <1>4, <1>12, <2>1 DEF TypeOK
<1>14. ClaimsOK'
  <2> SUFFICES ASSUME NEW d \in Consumers, Calling(d)'
               PROVE  /\ con'[d].need >= 1 /\ con'[d].item + con'[d].need <= HeadIndex'
                      /\ \A x \in Consumers \ {d} : Calling(x)' =>
                            \/ con'[x].item + con'[x].need <= con'[d].item
                            \/ con'[d].item + con'[d].need <= con'[x].item
    BY DEF ClaimsOK
  <2>1. CASE d = c
    <3>1. con'[d].need >= 1 /\ con'[d].item + con'[d].need <= HeadIndex'
      BY <1>3, <1>4, <1>5, <1>6, <2>1
    <3>2. \A x \in Consumers \ {c} : Calling(x)' => con'[x].item + con'[x].need <= con'[c].item
      BY <1>5, <1>6, <1>10 DEF Aside
    <3> QED BY <2>1, <3>1, <3>2
  <2>2. CASE d # c
    <3>1. con'[d] = con[d] /\ Calling(d)
      BY <1>6, <2>2 DEF Aside
    <3>2. con[d].item + con[d].need <= H /\ con[d].item \in Nat /\ con[d].need \in Nat
          /\ con[d].need >= 1
      BY <1>10, <2>2, <3>1
    <3>3. H <= HeadIndex'
      BY <1>3, <1>4
    <3>4. \A x \in Consumers \ {d} : x # c => (Calling(x)' =>
             \/ con'[x].item + con'[x].need <= con'[d].item
             \/ con'[d].item + con'[d].need <= con'[x].item)
      BY <1>6, <1>9, <3>1 DEF Aside, ClaimsOK
    <3>5. con'[d].item + con'[d].need <= con'[c].item
      BY <1>5, <1>6, <3>1, <3>2
    <3>6. con[d].item + con[d].need <= HeadIndex'
      BY <1>2, <1>3, <1>4, <3>2, <3>3
    <3> QED BY <3>1, <3>2, <3>4, <3>5, <3>6
  <2> QED BY <2>1, <2>2
<1>15. LastOut'
  <2> SUFFICES ASSUME NEW d \in Consumers, con'[d].step = "clear"
               PROVE  /\ Base(Num(con'[d].item) + 1) <= HeadIndex'
                      /\ \A x \in Consumers \ {d} : Num(con'[d].item) \notin Busy(x)'
    BY DEF LastOut
  <2>1. d # c /\ con'[d] = con[d]
    BY <1>5, <1>6 DEF Aside
  <2>2. PICK q \in Int : q = Num(con[d].item)
    BY <2>1, ConTypes, DivMod DEF Calling
  <2>3. Base(q + 1) <= H /\ Base(q + 1) \in Int /\ \A x \in Consumers \ {d} : q \notin Busy(x)
    BY <1>2, <1>9, <2>1, <2>2, BaseStep DEF LastOut
  <2>4. q \notin Busy(c)'
    <3>1. H < Base(q + 1) <=> Num(H) <= q
      BY <1>2, <2>2, NumBetween
    <3>2. Num(H) \in Int /\ Num(H + n - 1) \in Int
      BY <1>2, <1>4, DivMod
    <3> QED BY <1>2, <1>8, <2>2, <2>3, <3>1, <3>2
  <2>5. \A x \in Consumers \ {d} : q \notin Busy(x)'
    BY <1>6, <2>3, <2>4 DEF Aside
  <2>6. Base(q + 1) <= HeadIndex'
    BY <1>2, <1>3, <1>4, <2>3
  <2> QED BY <2>1, <2>2, <2>5, <2>6
<1>16. \A d \in Consumers : Knows(off, d)'
  <2>1. Knows(off, c)'
    BY <1>5, <1>6 DEF Knows
  <2> QED BY <1>3, <1>6, <2>1, OthersKnow
<1>17. Counts(off)'
  <2>1. ASSUME NEW q \in Int PROVE Marked(q)' = Marked(q)
    <3> SUFFICES ASSUME NEW p \in Base(q) .. (Base(q + 1) - 1)
                 PROVE  (p < HeadIndex' /\ \A d \in Consumers : p \notin Unmarked(d)')
                         <=> (p < HeadIndex /\ \A d \in Consumers : p \notin Unmarked(d))
      BY DEF Marked
    <3>1. p \in Int
      BY BaseStep
    <3>2. (\A d \in Consumers \ {c} : p \notin Unmarked(d)')
           <=> (\A d \in Consumers \ {c} : p \notin Unmarked(d))
      BY <1>6 DEF Aside
    <3>3. (p < H + n /\ p \notin Unmarked(c)') <=> p < H
      BY <1>4, <1>8, <3>1
    <3> QED BY <1>2, <1>3, <1>7, <3>2, <3>3
  <2>2. \A q \in Live : q \in Int
    BY LiveType
  <2> QED BY <1>3, <1>9, <1>11, <1>12, <2>1, <2>2 DEF Counts
<1>18. Placed(off)' /\ NothingElse(off)'
  <2>1. Objects' = Objects
    <3>1. Filled \in Int /\ H + n <= Filled
      <4>1. Filled \in Int /\ TailIndex <= Filled
        <5>1. po.step = "publish" => po.n \in Nat
          BY InCallTypes DEF InCall
        <5> QED BY <1>4, <5>1 DEF Filled
      <4> QED BY <1>3, <1>4, <4>1
    <3>2. ((H + n) .. (Filled - 1)) \union (H .. (H + n - 1)) = H .. (Filled - 1)
      BY <1>2, <1>4, <3>1
    <3>3. UNION {Untaken(d) : d \in Consumers} = UNION {Untaken(d) : d \in Consumers \ {c}}
      BY <1>7
    <3>4. UNION {Untaken(d) : d \in Consumers}'
           = (UNION {Untaken(d) : d \in Consumers \ {c}}) \union (H .. (H + n - 1))
      <4>1. \A d \in Consumers \ {c} : Untaken(d)' = Untaken(d)
        BY <1>6 DEF Aside
      <4> QED BY <1>8, <4>1
    <3>5. Objects' = ((H + n) .. (Filled - 1)) \union UNION {Untaken(d) : d \in Consumers}'
      BY <1>3, <1>12 DEF Objects
    <3>6. Objects = (H .. (Filled - 1)) \union UNION {Untaken(d) : d \in Consumers}
      BY <1>2 DEF Objects
    <3> QED BY <3>2, <3>3, <3>4, <3>5, <3>6
  <2> QED BY <1>3, <1>9, <1>12, <2>1, ObjectsKept
<1> QED BY <1>12, <1>13, <1>14, <1>15, <1>16, <1>17, <1>18 DEF Body, Consumption

\* A consumer that looked its block up has it.
LEMMA BlockFound ==
    ASSUME TypeOK, NEW off, NEW nq, Body(off, nq), NEW c \in Consumers,
           con[c].step \in {"take", "setEmpty", "clear"}
    PROVE  LET q == Num(con[c].item)
           IN  /\ q \in Busy(c) /\ q \in Live /\ q < Begun /\ q \in Nat
               /\ KeyOf(off, q) = Base(q) /\ BlockOf(off, q) \in Blocks
               /\ Entry(c) = EntryOf(off, Cur, q) /\ Block(c) = BlockOf(off, q)
               /\ Calling(c) /\ con[c].need >= 1
<1> DEFINE q == Num(con[c].item)
<1>1. Calling(c) /\ con[c].step # "return"
  BY DEF Calling
<1>2. q \in Busy(c) /\ q \in Live /\ q < Begun /\ q \in Nat /\ KeyOf(off, q) = Base(q)
      /\ BlockOf(off, q) \in Blocks
  BY <1>1, FirstKeys
<1>3. /\ con[c].place = Place(off, con[c].array, q)
      /\ EntryOf(off, con[c].array, q) = EntryOf(off, Cur, q)
  BY <1>2 DEF Body, Consumption, Knows
<1>4. Entry(c) = EntryOf(off, Cur, q)
  BY <1>3 DEF Entry, EntryOf
<1>5. Block(c) = BlockOf(off, q)
  BY <1>4 DEF Block, BlockOf, Value
<1>6. con[c].need >= 1
  BY <1>1 DEF Body, Consumption, ClaimsOK
<1> QED BY <1>1, <1>2, <1>4, <1>5, <1>6

\* The untaken positions of the others, and those not claimed, are no position of
\* this claim.
LEMMA ClaimApart ==
    ASSUME TypeOK, ClaimsOK, NEW c \in Consumers, Calling(c),
           NEW p \in con[c].item .. (con[c].item + con[c].need - 1)
    PROVE  /\ p < HeadIndex /\ p \in Nat
           /\ \A d \in Consumers \ {c} : p \notin Untaken(d) /\ p \notin Unmarked(d)
<1>1. /\ con[c].item \in Nat /\ con[c].need \in Nat /\ con[c].need >= 1
      /\ con[c].item + con[c].need <= HeadIndex /\ HeadIndex \in Nat
  BY ConTypes DEF ClaimsOK, TypeOK
<1>2. ASSUME NEW d \in Consumers \ {c} PROVE p \notin Untaken(d) /\ p \notin Unmarked(d)
  <2>1. CASE ~Calling(d)
    BY <2>1 DEF Untaken, Unmarked, Calling
  <2>2. CASE Calling(d)
    <3>1. /\ con[d].item \in Nat /\ con[d].need \in Nat /\ con[d].need >= 1
          /\ \/ con[d].item + con[d].need <= con[c].item
             \/ con[c].item + con[c].need <= con[d].item
      BY <2>2, ConTypes DEF ClaimsOK
    <3>2. RunSize(d) \in Nat
      BY <2>2, <3>1, RunIs
    <3>3. \A x \in Nat : p \notin (con[d].item + x) .. (con[d].item + con[d].need - 1)
      BY <1>1, <3>1
    <3>4. Untaken(d) = (con[d].item + (IF con[d].step \in {"setEmpty", "clear", "return"}
                              THEN RunSize(d) ELSE 0)) .. (con[d].item + con[d].need - 1)
      BY <2>2, <3>1, UntakenIs
    <3>5. p \notin Untaken(d)
      BY <3>2, <3>3, <3>4
    <3>6. p \notin Unmarked(d)
      BY <2>2, <3>2, <3>3 DEF Unmarked
    <3> QED BY <3>5, <3>6
  <2> QED BY <2>1, <2>2
<1> QED BY <1>1, <1>2

LEMMA DoTakeRun ==
    ASSUME TypeOK, NEW off, NEW nq, Body(off, nq), NEW c \in Consumers, TakeRun(c)
    PROVE  TypeOK' /\ Body(off, nq)'
<1>1. PICK r : r = [con[c] EXCEPT !.step = "setEmpty"]
  OBVIOUS
<1>2. /\ con[c].step = "take" /\ con' = [con EXCEPT ![c] = r]
      /\ slots' = Destroyed({Block(c)} \X Run(c))
      /\ UNCHANGED <<HeadIndex, TailIndex, TailBlock, emptied, arrays, entries, manager, heap, po>>
  <2>1. con' = [con EXCEPT ![c].step = "setEmpty"]
    BY DEF TakeRun
  <2>2. con' = [con EXCEPT ![c] = r]
    BY <1>1, <2>1 DEF TypeOK
  <2> QED BY <2>2 DEF TakeRun, index, supply
<1>3. /\ Calling(c) /\ con[c].item \in Nat /\ con[c].need \in Nat /\ con[c] \in Lookups
  BY <1>2, ConTypes DEF Calling, ConSteps, TypeOK, NoCall
<1>4. r \in Lookups /\ r.step = "setEmpty" /\ r.item = con[c].item /\ r.need = con[c].need
      /\ r.array = con[c].array /\ r.place = con[c].place
  <2>1. con[c] \in [step : ConSteps, item : Nat, need : Nat, array : Nat, place : Int]
    BY <1>2, <1>3 DEF Lookups, ConSteps
  <2> QED BY <1>1, <2>1 DEF Lookups, ConSteps
<1>5. con'[c] = r /\ Aside(c)
  BY <1>2, ConsumerAside
<1>6. Calling(c)' /\ con'[c].item = con[c].item /\ con'[c].need = con[c].need
  BY <1>4, <1>5 DEF Calling
<1>7. Busy(c)' = Busy(c) /\ Unmarked(c)' = Unmarked(c) /\ RunSize(c)' = RunSize(c)
  BY <1>2, <1>3, <1>4, <1>5, <1>6, SameClaim
<1>8. Live' = Live /\ \A q : Marked(q)' = Marked(q)
  BY <1>2, <1>5, <1>7, SameLive, SameUnmarked
<1>9. /\ IndexOK' /\ Index(off, nq)' /\ CallOK(off)' /\ Apart(off)' /\ AllThere(off)'
      /\ Occupied(off)' /\ off \in [1 .. Cur -> Int]
      /\ \A q : BlockOf(off, q)' = BlockOf(off, q)
      /\ Begun' = Begun /\ Filled' = Filled
  BY <1>2, <1>4, <1>5, <1>8, ConsumerRest
<1>10. /\ ClaimsOK /\ LastOut /\ Counts(off) /\ Placed(off) /\ NothingElse(off) /\ CallOK(off)
       /\ Apart(off) /\ \A d \in Consumers : Knows(off, d)
  BY DEF Body, Consumption
<1>11. PICK q \in Nat : /\ q = Num(con[c].item) /\ q \in Live
                        /\ Block(c) = BlockOf(off, q) /\ BlockOf(off, q) \in Blocks /\ con[c].need >= 1
  BY <1>2, BlockFound
<1>12. \A b \in Blocks, i \in Slots :
          slots'[b][i] = IF b = BlockOf(off, q) /\ i \in Run(c) THEN Raw ELSE slots[b][i]
  BY <1>2, <1>11 DEF Destroyed
<1>13. TypeOK'
  <2>1. con' \in [Consumers -> {NoCall} \union Lookups]
    BY <1>2, <1>4 DEF TypeOK
  <2>2. slots' \in [Blocks -> [Slots -> Nat \union {Raw}]]
    BY <1>2 DEF TypeOK, Destroyed
  <2> QED BY <1>2, <1>9, <2>1, <2>2 DEF TypeOK
<1>14. \A d \in Consumers : /\ Calling(d)' = Calling(d) /\ con'[d].item = con[d].item
                            /\ con'[d].need = con[d].need /\ Busy(d)' = Busy(d)
                            /\ con'[d].step = "clear" <=> con[d].step = "clear"
  <2> SUFFICES ASSUME NEW d \in Consumers
               PROVE  /\ Calling(d)' = Calling(d) /\ con'[d].item = con[d].item
                      /\ con'[d].need = con[d].need /\ Busy(d)' = Busy(d)
                      /\ con'[d].step = "clear" <=> con[d].step = "clear"
    OBVIOUS
  <2>1. CASE d = c
    BY <1>2, <1>3, <1>4, <1>5, <1>6, <1>7, <2>1
  <2>2. CASE d # c
    BY <1>5, <2>2 DEF Aside
  <2> QED BY <2>1, <2>2
<1>15. ClaimsOK' /\ LastOut'
  <2>1. HeadIndex' = HeadIndex
    BY <1>2
  <2>2. ClaimsOK'
    BY <1>10, <1>14, <2>1 DEF ClaimsOK
  <2>3. LastOut'
    BY <1>10, <1>14, <2>1 DEF LastOut
  <2> QED BY <2>2, <2>3
<1>16. \A d \in Consumers : Knows(off, d)'
  <2>1. Knows(off, c)'
    <3>1. Cur' = Cur
      BY <1>2 DEF Cur
    <3>2. Knows(off, c)
      BY <1>10
    <3>3. \A i, x : EntryOf(off, i, x)' = EntryOf(off, i, x) /\ Place(off, i, x)' = Place(off, i, x)
      BY <1>2 DEF EntryOf, Place
    <3>4. \A x : EntryOf(off, con[c].array, x)' = EntryOf(off, con[c].array, x)
      BY <1>2, <1>4, <1>5 DEF EntryOf, Place
    <3>5. \A x : EntryOf(off, Cur, x)' = EntryOf(off, Cur, x)
      BY <1>2 DEF EntryOf, Place, Cur
    <3>6. Place(off, con[c].array, Num(con[c].item))' = Place(off, con[c].array, Num(con[c].item))
      BY <1>2, <1>4, <1>5 DEF Place
    <3> QED BY <1>2, <1>4, <1>5, <1>7, <3>1, <3>2, <3>4, <3>5, <3>6 DEF Knows
  <2> QED BY <1>2, <1>5, <2>1, OthersKnow
<1>17. Counts(off)'
  BY <1>2, <1>8, <1>9, <1>10 DEF Counts
\* The run.
<1>18. PICK n \in 1 .. con[c].need :
          /\ n = RunSize(c) /\ Run(c) \subseteq Slots
          /\ \A p \in con[c].item .. (con[c].item + n - 1) : Num(p) = q /\ Off(p) \in Run(c)
          /\ \A i \in Run(c) : /\ Base(q) + i \in con[c].item .. (con[c].item + n - 1)
                               /\ Num(Base(q) + i) = q /\ Off(Base(q) + i) = i
  BY <1>3, <1>11, RunIs
<1>19. Untaken(c) = con[c].item .. (con[c].item + con[c].need - 1)
       /\ Untaken(c)' = (con[c].item + n) .. (con[c].item + con[c].need - 1)
  <2>1. Untaken(c) = (con[c].item + 0) .. (con[c].item + con[c].need - 1)
    BY <1>2, <1>3, <1>11, UntakenIs
  <2>2. Run(c)' = Run(c) /\ Cardinality(Run(c)) = n
    BY <1>3, <1>6, <1>11, <1>18, SameClaim, RunIs
  <2>3. Untaken(c)' = (con[c].item + n) .. (con[c].item + con[c].need - 1)
    BY <1>4, <1>5, <2>2 DEF Untaken
  <2> QED BY <1>3, <2>1, <2>3
<1>20. Objects' = Objects \ (con[c].item .. (con[c].item + n - 1))
  <2>1. \A p \in con[c].item .. (con[c].item + n - 1) :
           p < HeadIndex /\ p \in Nat /\ \A d \in Consumers \ {c} : p \notin Untaken(d)
    <3>1. \A p \in con[c].item .. (con[c].item + n - 1) : p \in con[c].item .. (con[c].item + con[c].need - 1)
      BY <1>3, <1>18
    <3> QED BY <1>3, <1>10, <3>1, ClaimApart
  <2>2. \A d \in Consumers \ {c} : Untaken(d)' = Untaken(d)
    BY <1>5 DEF Aside
  <2>3. Untaken(c)' = Untaken(c) \ (con[c].item .. (con[c].item + n - 1))
    BY <1>3, <1>18, <1>19
  <2>4. UNION {Untaken(d) : d \in Consumers}
          = (UNION {Untaken(d) : d \in Consumers \ {c}}) \union Untaken(c)
    OBVIOUS
  <2>5. UNION {Untaken(d) : d \in Consumers}'
          = (UNION {Untaken(d) : d \in Consumers \ {c}}) \union Untaken(c)'
    BY <2>2
  <2>6. \A p \in con[c].item .. (con[c].item + n - 1) : p \notin HeadIndex .. (Filled - 1)
    BY <2>1 DEF TypeOK
  <2>7. Objects' = (HeadIndex .. (Filled - 1)) \union UNION {Untaken(d) : d \in Consumers}'
    BY <1>2, <1>9 DEF Objects
  <2>8. \A p \in con[c].item .. (con[c].item + n - 1) :
           p \notin UNION {Untaken(d) : d \in Consumers \ {c}}
    BY <2>1
  <2> QED BY <2>3, <2>4, <2>5, <2>6, <2>7, <2>8 DEF Objects
<1>21. Placed(off)'
  <2> SUFFICES ASSUME NEW p \in Objects'
               PROVE  slots'[BlockOf(off, Num(p))'][Off(p)] = p
    BY DEF Placed
  <2>1. p \in Objects /\ p \notin con[c].item .. (con[c].item + n - 1)
    BY <1>20
  <2>2. p \in Nat /\ Num(p) \in Live
    BY <1>10, <2>1, ObjectsLive
  <2>3. slots[BlockOf(off, Num(p))][Off(p)] = p
    BY <1>10, <2>1 DEF Placed
  <2>4. ~(BlockOf(off, Num(p)) = BlockOf(off, q) /\ Off(p) \in Run(c))
    <3> SUFFICES ASSUME BlockOf(off, Num(p)) = BlockOf(off, q), Off(p) \in Run(c) PROVE FALSE
      OBVIOUS
    <3>1. Num(p) = q
      BY <1>10, <1>11, <2>2 DEF Apart
    <3>2. p = Base(q) + Off(p)
      BY <2>2, <3>1, DivMod
    <3> QED BY <1>18, <2>1, <3>2
  <2>5. BlockOf(off, Num(p)) \in Blocks /\ Off(p) \in Slots
    BY <2>2, DivMod DEF Body, Index, Listed
  <2> QED BY <1>9, <1>12, <2>3, <2>4, <2>5
<1>22. NothingElse(off)'
  <2> SUFFICES ASSUME NEW b \in Blocks, NEW i \in Slots, slots'[b][i] # Raw
               PROVE  /\ slots'[b][i] \in Objects'
                      /\ b = BlockOf(off, Num(slots'[b][i])) /\ i = Off(slots'[b][i])
    BY <1>9 DEF NothingElse
  <2>1. slots'[b][i] = slots[b][i] /\ ~(b = BlockOf(off, q) /\ i \in Run(c))
    BY <1>12
  <2>2. /\ slots[b][i] \in Objects
        /\ b = BlockOf(off, Num(slots[b][i])) /\ i = Off(slots[b][i])
    BY <1>10, <2>1 DEF NothingElse
  <2>3. slots[b][i] \notin con[c].item .. (con[c].item + n - 1)
    BY <1>18, <2>1, <2>2
  <2> QED BY <1>20, <2>1, <2>2, <2>3
<1> QED BY <1>9, <1>13, <1>15, <1>16, <1>17, <1>21, <1>22 DEF Body, Consumption

\* Unmarked positions are claimed ones of blocks the consumer has not done with.
LEMMA UnmarkedBusy ==
    ASSUME TypeOK, ClaimsOK, NEW d \in Consumers, NEW p \in Unmarked(d)
    PROVE  /\ p \in Nat /\ p < HeadIndex /\ Num(p) \in Busy(d) /\ Calling(d)
           /\ p \in con[d].item .. (con[d].item + con[d].need - 1)
<1>1. Calling(d)
  BY DEF Unmarked
<1>2. PICK i \in Nat, k \in Nat : /\ i = con[d].item /\ k = con[d].need /\ k >= 1
                                  /\ i + k <= HeadIndex /\ HeadIndex \in Nat
  BY <1>1, ConTypes DEF ClaimsOK, TypeOK
<1>3. PICK n \in 1 .. k : n = RunSize(d) /\ (n < k => Off(i + n) = 0 /\ Num(i + n) = Num(i) + 1)
                          /\ Num(i) \in Nat
  BY <1>1, <1>2, RunIs
<1>4. Unmarked(d) = (i + (IF con[d].step \in {"clear", "return"} THEN n ELSE 0)) .. (i + k - 1)
  BY <1>1, <1>2, <1>3 DEF Unmarked
<1>5. p \in i .. (i + k - 1) /\ p \in Nat /\ p < HeadIndex
      /\ (con[d].step = "return" => i + n <= p)
  <2>1. n \in Nat /\ n >= 1 /\ n <= k /\ i \in Nat /\ k \in Nat /\ i + k <= HeadIndex /\ HeadIndex \in Nat
    BY <1>2, <1>3
  <2>2. PICK a \in {i, i + n} : p \in a .. (i + k - 1) /\ (con[d].step = "return" => a = i + n)
    BY <1>4
  <2>3. a \in Nat /\ i <= a
    BY <2>1
  <2>4. p \in Int /\ a <= p /\ p <= i + k - 1
    BY <2>1, <2>2, <2>3
  <2> QED BY <2>1, <2>2, <2>3, <2>4
<1>6. Num(i) <= Num(p) /\ Num(p) <= Num(i + k - 1) /\ Num(p) \in Int /\ Num(i + k - 1) \in Int
  BY <1>2, <1>5, NumOrder, DivMod
<1>7. con[d].step = "return" => Num(i) + 1 <= Num(p)
  <2> SUFFICES ASSUME con[d].step = "return" PROVE Num(i) + 1 <= Num(p)
    OBVIOUS
  <2>1. i + n <= p /\ n < k
    BY <1>2, <1>3, <1>5
  <2>2. i + n \in Int /\ Num(i + n) = Num(i) + 1
    BY <1>2, <1>3, <2>1
  <2>3. Num(i + n) <= Num(p)
    BY <1>5, <2>1, <2>2, NumOrder
  <2> QED BY <2>2, <2>3
<1>8. Num(p) \in Busy(d)
  BY <1>1, <1>2, <1>3, <1>6, <1>7 DEF Busy
<1> QED BY <1>1, <1>2, <1>5, <1>8

\* A block that the consumer has not done with has a position it has not marked,
\* but where it is clearing the block's entry.
LEMMA BusyUnmarked ==
    ASSUME TypeOK, ClaimsOK, NEW d \in Consumers, NEW q \in Busy(d),
           con[d].step = "clear" => q # Num(con[d].item)
    PROVE  \E p \in Unmarked(d) : p \in Base(q) .. (Base(q + 1) - 1)
<1>1. Calling(d) /\ q \in Nat
  BY BusyLive
<1>2. PICK i \in Nat, k \in Nat : i = con[d].item /\ k = con[d].need /\ k >= 1
  BY <1>1, ConTypes DEF ClaimsOK
<1>3. PICK n \in 1 .. k : n = RunSize(d) /\ (n < k => Off(i + n) = 0 /\ Num(i + n) = Num(i) + 1)
                          /\ Num(i) \in Nat
                          /\ \A p \in i .. (i + n - 1) : Num(p) = Num(i)
  BY <1>1, <1>2, RunIs
<1>4. Unmarked(d) = (i + (IF con[d].step \in {"clear", "return"} THEN n ELSE 0)) .. (i + k - 1)
  BY <1>1, <1>2, <1>3 DEF Unmarked
<1>5. i + k - 1 \in Int /\ Num(i + k - 1) \in Int
  BY <1>2, DivMod
<1>6. Num(i) <= q /\ q <= Num(i + k - 1) /\ (con[d].step = "return" => Num(i) + 1 <= q)
  BY <1>1, <1>2, <1>3, <1>5 DEF Busy
<1>7. /\ Base(q) \in Int /\ Base(q + 1) \in Int /\ Base(q) < Base(q + 1)
      /\ Base(q) <= i + k - 1
  <2>1. q + 1 \in Int /\ Base(q) \in Int /\ Base(q + 1) \in Int /\ Base(q + 1) = Base(q) + BlockSize
    BY <1>1, BaseStep
  <2>2. Base(q) <= i + k - 1
    BY <1>1, <1>5, <1>6, NumBetween
  <2> QED BY <2>1, <2>2, SizesAssumption
<1>8. CASE q = Num(i)
  <2>1. i \in Base(q) .. (Base(q + 1) - 1)
    BY <1>2, <1>7, <1>8, BlockEnds
  <2>2. i \in Unmarked(d)
    BY <1>2, <1>3, <1>4, <1>6, <1>8, SMTT(30)
  <2> QED BY <2>1, <2>2
<1>9. CASE q # Num(i)
  <2>1. Num(i) + 1 <= q
    BY <1>1, <1>3, <1>6, <1>9
  <2>2. i + n <= Base(q)
    <3>1. n < k
      <4>1. CASE n = k
        <5>1. i + k - 1 \in i .. (i + n - 1)
          BY <1>2, <4>1
        <5>2. Num(i + k - 1) = Num(i)
          BY <1>3, <5>1
        <5> QED BY <1>1, <1>3, <1>6, <2>1, <5>2
      <4> QED BY <1>2, <1>3, <4>1
    <3>2. Off(i + n) = 0 /\ Num(i + n) = Num(i) + 1 /\ i + n \in Int
      BY <1>2, <1>3, <3>1
    <3>3. i + n = Base(Num(i) + 1)
      <4>1. i + n = Base(Num(i + n)) + Off(i + n) /\ Base(Num(i + n)) \in Int
        BY <3>2, DivMod, BaseStep
      <4> QED BY <3>2, <4>1
    <3>4. Base(Num(i) + 1) <= Base(q)
      BY <1>1, <1>3, <2>1, BaseMono
    <3> QED BY <3>3, <3>4
  <2>3. Base(q) \in Unmarked(d)
    BY <1>2, <1>3, <1>4, <1>7, <2>2
  <2>4. Base(q) \in Base(q) .. (Base(q + 1) - 1)
    BY <1>7
  <2> QED BY <2>3, <2>4
<1> QED BY <1>8, <1>9

\* The claim once its run is done.
Shorter(c, n) ==
    Unmarked(c)' = (con[c].item + n) .. (con[c].item + con[c].need - 1)

\* Marking a run.
LEMMA MarkRun ==
    ASSUME TypeOK, ClaimsOK, NEW c \in Consumers, con[c].step = "setEmpty", Aside(c),
           NEW n, n = RunSize(c), Shorter(c, n), HeadIndex' = HeadIndex,
           NEW q, q = Num(con[c].item)
    PROVE  /\ \A x \in Int : x # q => Marked(x)' = Marked(x)
           /\ Marked(q)' = Marked(q) \union (con[c].item .. (con[c].item + n - 1))
           /\ Cardinality(Marked(q)) \in Nat /\ IsFiniteSet(Marked(q)')
           /\ Cardinality(Marked(q)') = Cardinality(Marked(q)) + n
           /\ Marked(q)' \subseteq Base(q) .. (Base(q + 1) - 1)
<1>1. Calling(c)
  BY DEF Calling
<1>2. PICK i \in Nat, k \in Nat : /\ i = con[c].item /\ k = con[c].need /\ k >= 1
                                  /\ i + k <= HeadIndex /\ HeadIndex \in Nat
  BY <1>1, ConTypes DEF ClaimsOK, TypeOK
<1>3. n \in 1 .. k /\ q \in Nat /\ \A p \in i .. (i + n - 1) : Num(p) = q
  BY <1>1, <1>2, RunIs
<1>4. Unmarked(c)' = (i + n) .. (i + k - 1) /\ Unmarked(c) = i .. (i + k - 1)
  <2>1. Unmarked(c) = (i + 0) .. (i + k - 1)
    BY <1>1, <1>2 DEF Unmarked
  <2> QED BY <1>2, <2>1 DEF Shorter
<1> DEFINE R == i .. (i + n - 1)
<1>5. \A p \in R : p < HeadIndex /\ p \in Nat /\ \A d \in Consumers \ {c} : p \notin Unmarked(d)
  <2>1. \A p \in R : p \in i .. (i + k - 1)
    BY <1>2, <1>3
  <2> QED BY <1>1, <1>2, <2>1, ClaimApart
<1>6. ASSUME NEW x \in Int, NEW p \in Base(x) .. (Base(x + 1) - 1)
      PROVE  p \in Marked(x)' <=> (p \in Marked(x) \/ p \in R)
  <2>1. p \in Int
    BY BaseStep
  <2>2. \A d \in Consumers \ {c} : Unmarked(d)' = Unmarked(d)
    BY DEF Aside
  <2>3. p \notin Unmarked(c)' <=> (p \notin Unmarked(c) \/ p \in R)
    BY <1>2, <1>3, <1>4, <2>1
  <2>4. p \in R => p < HeadIndex /\ \A d \in Consumers \ {c} : p \notin Unmarked(d)
    BY <1>5
  <2>5. p \in Marked(x) <=> p < HeadIndex /\ \A d \in Consumers : p \notin Unmarked(d)
    BY DEF Marked
  <2>6. p \in Marked(x)' <=> p < HeadIndex /\ \A d \in Consumers : p \notin Unmarked(d)'
    BY DEF Marked
  <2> HIDE DEF R
  <2> QED BY <2>2, <2>3, <2>4, <2>5, <2>6
<1>7. \A x : /\ Marked(x) \subseteq Base(x) .. (Base(x + 1) - 1)
             /\ Marked(x)' \subseteq Base(x) .. (Base(x + 1) - 1)
  BY DEF Marked
<1>8. \A p \in R : Num(p) = q /\ p \in Base(q) .. (Base(q + 1) - 1)
  <2> SUFFICES ASSUME NEW p \in R PROVE p \in Base(q) .. (Base(q + 1) - 1)
    BY <1>3
  <2>1. p \in Int /\ Num(p) = q
    BY <1>3, <1>5
  <2> QED BY <2>1, BlockEnds
<1>9. ASSUME NEW x \in Int, x # q PROVE Marked(x)' = Marked(x)
  <2>1. ASSUME NEW p \in Base(x) .. (Base(x + 1) - 1) PROVE p \notin R
    <3>1. p \in Int /\ Num(p) = x
      <4>1. Base(x) \in Int /\ Base(x + 1) \in Int
        BY BaseStep
      <4>2. p \in Int /\ Base(x) <= p /\ p < Base(x + 1)
        BY <4>1
      <4>3. Num(p) \in Int
        BY <4>2, DivMod
      <4> QED BY <4>2, <4>3, NumBetween
    <3> QED BY <1>8, <1>9, <3>1
  <2> HIDE DEF R
  <2> QED BY <1>6, <1>7, <2>1
<1>10. Marked(q)' = Marked(q) \union R
  <2> HIDE DEF R
  <2> QED BY <1>3, <1>6, <1>7, <1>8
<1>11. Marked(q) \intersect R = {}
  <2>1. \A p \in R : p \in Unmarked(c)
    <3>1. n \in Nat /\ n <= k /\ i \in Nat /\ k \in Nat
      BY <1>2, <1>3
    <3>2. R \subseteq i .. (i + k - 1)
      BY <3>1
    <3> QED BY <1>4, <3>2
  <2> HIDE DEF R
  <2> QED BY <2>1 DEF Marked
<1>12. IsFiniteSet(Marked(q)) /\ Cardinality(Marked(q)) \in Nat
  <2>1. Base(q) \in Int /\ Base(q + 1) - 1 \in Int
    BY <1>3, BaseStep
  <2>2. IsFiniteSet(Base(q) .. (Base(q + 1) - 1))
    BY <2>1, FS_Interval
  <2>3. IsFiniteSet(Marked(q))
    BY <1>7, <2>2, FS_Subset
  <2> QED BY <2>3, FS_CardinalityType
<1>13. IsFiniteSet(R) /\ Cardinality(R) = n
  <2>1. i + n - 1 \in Int /\ ~(i > i + n - 1) /\ (i + n - 1) - i + 1 = n
    BY <1>2, <1>3
  <2>2. PICK b \in Int : b = i + n - 1
    BY <2>1
  <2>3. IsFiniteSet(i .. b) /\ Cardinality(i .. b) = b - i + 1
    <3>1. i \in Int /\ b \in Int /\ ~(i > b)
      BY <2>1, <2>2
    <3> HIDE DEF R
    <3> QED BY ONLY <3>1, FS_Interval
  <2> QED BY <2>1, <2>2, <2>3
<1>14. IsFiniteSet(Marked(q)') /\ Cardinality(Marked(q)') = Cardinality(Marked(q)) + n
  <2> HIDE DEF R
  <2>1. Cardinality({}) = 0
    BY FS_EmptySet
  <2>2. /\ IsFiniteSet(Marked(q) \union R)
        /\ Cardinality(Marked(q) \union R)
             = Cardinality(Marked(q)) + Cardinality(R) - Cardinality(Marked(q) \intersect R)
    BY <1>12, <1>13, FS_Union
  <2> QED BY <1>3, <1>10, <1>11, <1>12, <1>13, <2>1, <2>2
<1> QED BY <1>2, <1>7, <1>9, <1>10, <1>12, <1>14

\* A run is done: what is left of the claim.
Rest(c, n) ==
    /\ Aside(c) /\ con'[c].step \in {"idle", "take"}
    /\ con' \in [Consumers -> {NoCall} \union Lookups]
    /\ Calling(c)' => /\ con'[c].item = con[c].item + n /\ con'[c].need = con[c].need - n
                      /\ n < con[c].need
    /\ Shorter(c, n)
    /\ Untaken(c)' = (con[c].item + n) .. (con[c].item + con[c].need - 1)
    /\ Busy(c)' = (Num(con[c].item) + 1) .. Num(con[c].item + con[c].need - 1)

LEMMA RunDoneIs ==
    ASSUME TypeOK, NEW off, NEW nq, Body(off, nq), NEW c \in Consumers,
           con[c].step \in {"setEmpty", "return"}, RunDone(c), NEW n, n = RunSize(c),
           arrays' = arrays, entries' = entries
    PROVE  Rest(c, n) /\ Knows(off, c)'
<1>1. Calling(c)
  BY DEF Calling
<1>2. PICK i \in Nat, k \in Nat : i = con[c].item /\ k = con[c].need /\ k >= 1
  BY <1>1, ConTypes DEF Body, Consumption, ClaimsOK
<1>3. /\ Cardinality(Run(c)) = n /\ n \in 1 .. k /\ Num(i) \in Nat
      /\ n < k => Num(i + n) = Num(i) + 1
      /\ \A p \in i .. (i + n - 1) : Num(p) = Num(i)
  BY <1>1, <1>2, RunIs
<1>4. /\ IndexOK /\ off \in [1 .. Cur -> Int] /\ Knows(off, c)
  BY DEF Body, Consumption, Index, TypeOK, OffsetsOK
<1>5. PICK a \in 1 .. Cur : /\ a = con[c].array /\ con[c].place = Place(off, a, Num(i))
                            /\ \A q \in Busy(c) : EntryOf(off, a, q) = EntryOf(off, Cur, q)
  BY <1>2, <1>4 DEF Knows
<1>6. PICK w \in Int : w = Wrap(arrays[a], con[c].place + 1) /\ w = Place(off, a, Num(i) + 1)
  <2>1. Num(i) \in Int /\ Num(i) + 1 \in Int
    BY <1>3
  <2>2. Wrap(arrays[a], Place(off, a, Num(i)) + 1) = Place(off, a, Num(i) + 1)
    BY <1>4, <2>1, PlacePlus, 1 \in Int
  <2>3. Place(off, a, Num(i) + 1) \in 0 .. (arrays[a].size - 1) /\ arrays[a].size \in Nat
    BY <1>4, <2>1, PlaceType
  <2> QED BY <1>5, <2>2, <2>3
<1>7. n \in Nat /\ n >= 1 /\ n <= k
  BY <1>2, <1>3
<1>8. CASE n = k
  <2>1. con' = [con EXCEPT ![c] = NoCall]
    BY <1>2, <1>3, <1>8 DEF RunDone, TypeOK
  <2>2. con'[c] = NoCall /\ Aside(c) /\ con'[c].step = "idle" /\ ~Calling(c)'
    <3>1. con'[c] = NoCall /\ Aside(c)
      BY <2>1, ConsumerAside
    <3> QED BY <3>1 DEF Calling, NoCall
  <2>3. con' \in [Consumers -> {NoCall} \union Lookups]
    BY <2>1 DEF TypeOK
  <2>4. Unmarked(c)' = {} /\ Untaken(c)' = {} /\ Busy(c)' = {}
    BY <2>2 DEF Unmarked, Untaken, Busy
  <2>5. (i + n) .. (i + k - 1) = {}
    BY <1>2, <1>8
  <2>6. (Num(i) + 1) .. Num(i + k - 1) = {}
    <3>1. i + k - 1 \in i .. (i + n - 1)
      BY <1>2, <1>8
    <3>2. Num(i + k - 1) = Num(i)
      BY <1>3, <3>1
    <3> QED BY <1>3, <3>2
  <2>7. Knows(off, c)'
    BY <2>2 DEF Knows
  <2> QED BY <1>2, <2>2, <2>3, <2>4, <2>5, <2>6, <2>7 DEF Rest, Shorter
<1>9. CASE n # k
  <2>1. PICK r : r = [step |-> "take", item |-> i + n, need |-> k - n, array |-> a, place |-> w]
    OBVIOUS
  <2>2. con' = [con EXCEPT ![c] = r]
    BY <1>2, <1>3, <1>5, <1>6, <1>9, <2>1 DEF RunDone, TypeOK
  <2>3. i + n \in Nat /\ k - n \in Nat /\ a \in Nat /\ n < k /\ (i + n) + (k - n) = i + k
    BY <1>2, <1>7, <1>9
  <2>4. /\ r \in Lookups /\ r.step = "take" /\ r.item = i + n /\ r.need = k - n /\ r.array = a
        /\ r.place = w
    BY <2>1, <2>3 DEF Lookups, ConSteps
  <2>5. con'[c] = r /\ Aside(c) /\ Calling(c)'
    BY <2>2, <2>4, ConsumerAside DEF Calling
  <2>6. con' \in [Consumers -> {NoCall} \union Lookups]
    BY <2>2, <2>4 DEF TypeOK
  <2>7. Unmarked(c)' = ((i + n) + 0) .. ((i + n) + (k - n) - 1)
        /\ Untaken(c)' = ((i + n) + 0) .. ((i + n) + (k - n) - 1)
        /\ Busy(c)' = (Num(i + n) + 0) .. Num((i + n) + (k - n) - 1)
    BY <2>4, <2>5 DEF Unmarked, Untaken, Busy
  <2>8. (i + n) + 0 = i + n /\ (i + n) + (k - n) - 1 = i + k - 1 /\ Num(i + n) + 0 = Num(i) + 1
    BY <1>2, <1>3, <1>7, <2>3
  <2>9. /\ Unmarked(c)' = (i + n) .. (i + k - 1) /\ Untaken(c)' = (i + n) .. (i + k - 1)
        /\ Busy(c)' = (Num(i) + 1) .. Num(i + k - 1)
    BY <2>7, <2>8
  <2>10. Knows(off, c)'
    <3>1. Cur' = Cur
      BY DEF Cur
    <3>2. \A q : EntryOf(off, con[c].array, q)' = EntryOf(off, a, q)
      BY <2>4, <2>5 DEF EntryOf, Place
    <3>3. \A q : EntryOf(off, Cur, q)' = EntryOf(off, Cur, q)
      BY DEF EntryOf, Place, Cur
    <3>4. \A q \in Busy(c)' : q \in Busy(c)
      <4>1. Busy(c) = (Num(i) + (IF con[c].step = "return" THEN 1 ELSE 0)) .. Num(i + k - 1)
        BY <1>1, <1>2 DEF Busy
      <4>2. i + k - 1 \in Int /\ Num(i + k - 1) \in Int
        BY <1>2, DivMod
      <4> QED BY <1>3, <2>9, <4>1, <4>2
    <3>5. Place(off, con[c].array, Num(con[c].item))' = w
      <4>1. Num(i + n) = Num(i) + 1
        BY <1>3, <2>3
      <4>2. Place(off, con[c].array, Num(con[c].item))' = Place(off, a, Num(i + n))
        BY <2>4, <2>5 DEF Place, Num
      <4> QED BY <1>6, <4>1, <4>2
    <3> QED BY <1>5, <2>4, <2>5, <3>1, <3>2, <3>3, <3>4, <3>5 DEF Knows
  <2> QED BY <1>2, <2>3, <2>4, <2>5, <2>6, <2>9, <2>10 DEF Rest, Shorter
<1> QED BY <1>8, <1>9

\* The claims and the last one out, when a claim gets shorter.
LEMMA RestClaims ==
    ASSUME TypeOK, ClaimsOK, LastOut, NEW c \in Consumers, Calling(c), NEW n, n = RunSize(c),
           Rest(c, n), HeadIndex' = HeadIndex
    PROVE  ClaimsOK' /\ LastOut' /\ Busy(c)' \subseteq Busy(c)
<1>1. PICK i \in Nat, k \in Nat : i = con[c].item /\ k = con[c].need /\ k >= 1 /\ i + k <= HeadIndex
  BY ConTypes DEF ClaimsOK
<1>2. n \in Nat /\ n >= 1 /\ n <= k /\ Num(i) \in Int
  <2>1. n \in 1 .. k /\ Num(i) \in Nat
    BY <1>1, RunIs
  <2> QED BY <1>1, <2>1
<1>3. Busy(c)' \subseteq Busy(c)
  <2>1. Busy(c) = (Num(i) + (IF con[c].step = "return" THEN 1 ELSE 0)) .. Num(i + k - 1)
    BY <1>1 DEF Busy
  <2>2. i + k - 1 \in Int /\ Num(i + k - 1) \in Int
    BY <1>1, DivMod
  <2>3. Busy(c)' = (Num(i) + 1) .. Num(i + k - 1)
    BY <1>1 DEF Rest
  <2> QED BY <1>2, <2>1, <2>2, <2>3
<1>4. Calling(c)' => con'[c].item = i + n /\ con'[c].need = k - n /\ n < k
  BY <1>1 DEF Rest
<1>5. ASSUME NEW d \in Consumers \ {c}, Calling(d)
      PROVE  /\ con[d].item \in Nat /\ con[d].need \in Nat /\ con[d].need >= 1
             /\ con[d].item + con[d].need <= HeadIndex
             /\ con[d].item + con[d].need <= i \/ i + k <= con[d].item
  BY <1>1, <1>5, ConTypes DEF ClaimsOK
<1>6. \A d \in Consumers \ {c} : con'[d] = con[d] /\ Calling(d)' = Calling(d) /\ Busy(d)' = Busy(d)
  BY DEF Rest, Aside
<1>7. ClaimsOK'
  <2>1. ASSUME Calling(c)'
        PROVE  /\ con'[c].need >= 1 /\ con'[c].item + con'[c].need <= HeadIndex
               /\ \A d \in Consumers \ {c} : Calling(d) =>
                     \/ con[d].item + con[d].need <= con'[c].item
                     \/ con'[c].item + con'[c].need <= con[d].item
    <3>1. con'[c].item = i + n /\ con'[c].need = k - n /\ n < k
      BY <1>4, <2>1
    <3>2. k - n >= 1 /\ (i + n) + (k - n) = i + k
      BY <1>1, <1>2, <3>1
    <3>3. \A x \in Nat : x <= i => x <= i + n
      BY <1>1, <1>2
    <3>4. \A d \in Consumers \ {c} : Calling(d) =>
             con[d].item + con[d].need <= i + n \/ i + k <= con[d].item
      BY <1>5, <3>3
    <3> QED BY <1>1, <3>1, <3>2, <3>4
  <2>2. ASSUME NEW d \in Consumers, NEW x \in Consumers \ {d}, Calling(d)', Calling(x)'
        PROVE  \/ con'[x].item + con'[x].need <= con'[d].item
               \/ con'[d].item + con'[d].need <= con'[x].item
    <3>1. CASE d = c
      BY <1>6, <2>1, <2>2, <3>1
    <3>2. CASE x = c
      BY <1>6, <2>1, <2>2, <3>2
    <3>3. CASE d # c /\ x # c
      BY <1>6, <2>2, <3>3 DEF ClaimsOK
    <3> QED BY <3>1, <3>2, <3>3
  <2>3. ASSUME NEW d \in Consumers, Calling(d)'
        PROVE  con'[d].need >= 1 /\ con'[d].item + con'[d].need <= HeadIndex
    <3>1. CASE d = c
      BY <2>1, <2>3, <3>1
    <3>2. CASE d # c
      BY <1>5, <1>6, <2>3, <3>2
    <3> QED BY <3>1, <3>2
  <2> QED BY <2>2, <2>3 DEF ClaimsOK
<1>8. LastOut'
  <2> SUFFICES ASSUME NEW d \in Consumers, con'[d].step = "clear"
               PROVE  /\ Base(Num(con'[d].item) + 1) <= HeadIndex
                      /\ \A x \in Consumers \ {d} : Num(con'[d].item) \notin Busy(x)'
    BY DEF LastOut
  <2>1. d # c /\ con'[d] = con[d]
    BY <1>6 DEF Rest
  <2> QED BY <1>3, <1>6, <2>1 DEF LastOut
<1> QED BY <1>3, <1>7, <1>8

\* The count follows the marks.
LEMMA MarkCounts ==
    ASSUME TypeOK, NEW off, NEW nq, Body(off, nq), NEW c \in Consumers, con[c].step = "setEmpty",
           Aside(c), NEW n, n = RunSize(c), Shorter(c, n), HeadIndex' = HeadIndex,
           emptied' = [emptied EXCEPT ![Block(c)] = Empties(c)],
           Live' \subseteq Live, \A q : BlockOf(off, q)' = BlockOf(off, q), po'.step # "link" \/ po' = po,
           NEW q, q = Num(con[c].item)
    PROVE  /\ Counts(off)' /\ emptied' \in [Blocks -> Nat]
           /\ Empties(c) = Cardinality(Marked(q)') /\ IsFiniteSet(Marked(q)')
           /\ Marked(q)' \subseteq Base(q) .. (Base(q + 1) - 1)
<1>1. /\ ClaimsOK /\ Counts(off) /\ Apart(off) /\ Listed(off, nq)
  BY DEF Body, Consumption, Index
<1>2. /\ q \in Live /\ q \in Nat /\ BlockOf(off, q) \in Blocks /\ Block(c) = BlockOf(off, q)
      /\ Calling(c) /\ con[c].need >= 1
  BY BlockFound
<1>3. Cardinality(Run(c)) = n /\ n \in Nat
  BY <1>2, RunIs
<1>4. /\ \A x \in Int : x # q => Marked(x)' = Marked(x)
      /\ Cardinality(Marked(q)) \in Nat /\ IsFiniteSet(Marked(q)')
      /\ Cardinality(Marked(q)') = Cardinality(Marked(q)) + n
      /\ Marked(q)' \subseteq Base(q) .. (Base(q + 1) - 1)
  BY <1>1, MarkRun
<1>5. Empties(c) = Cardinality(Marked(q)')
  BY <1>1, <1>2, <1>3, <1>4 DEF Empties, Counts
<1>6. emptied' \in [Blocks -> Nat]
  <2>1. Empties(c) \in Nat
    BY <1>3, <1>4, <1>5
  <2> QED BY <2>1 DEF TypeOK
<1>7. \A x \in Live : emptied'[BlockOf(off, x)] = Cardinality(Marked(x)')
  <2> SUFFICES ASSUME NEW x \in Live PROVE emptied'[BlockOf(off, x)] = Cardinality(Marked(x)')
    OBVIOUS
  <2>1. CASE x = q
    BY <1>2, <1>5, <2>1 DEF TypeOK
  <2>2. CASE x # q
    <3>1. BlockOf(off, x) # BlockOf(off, q) /\ BlockOf(off, x) \in Blocks
      BY <1>1, <1>2, <2>2 DEF Apart, Listed
    <3>2. Marked(x)' = Marked(x)
      BY <1>4, <2>2, LiveType
    <3>3. emptied'[BlockOf(off, x)] = emptied[BlockOf(off, x)]
      BY <1>2, <3>1 DEF TypeOK
    <3> QED BY <1>1, <3>2, <3>3 DEF Counts
  <2> QED BY <2>1, <2>2
<1>8. po'.step = "link" => emptied'[po'.block] = 0
  <2> SUFFICES ASSUME po'.step = "link" PROVE emptied'[po'.block] = 0
    OBVIOUS
  <2>1. po' = po /\ emptied[po.block] = 0
    BY <1>1 DEF Counts
  <2>2. po.block # BlockOf(off, q)
    BY <1>1, <1>2, <2>1 DEF Apart, Held
  <2> QED BY <1>2, <2>1, <2>2 DEF TypeOK
<1>9. Counts(off)'
  BY <1>7, <1>8 DEF Counts
<1> QED BY <1>4, <1>5, <1>6, <1>9

LEMMA FullBlock ==
    ASSUME NEW q \in Nat, NEW S \in SUBSET (Base(q) .. (Base(q + 1) - 1)), IsFiniteSet(S)
    PROVE  Cardinality(S) = BlockSize => S = Base(q) .. (Base(q + 1) - 1)
<1>1. PICK a \in Int, b \in Int : a = Base(q) /\ b = Base(q + 1) - 1 /\ ~(a > b) /\ b - a + 1 = BlockSize
  <2>1. Base(q) \in Int /\ Base(q + 1) \in Int /\ Base(q + 1) = Base(q) + BlockSize
    BY BaseStep
  <2> QED BY <2>1, SizesAssumption
<1>2. IsFiniteSet(a .. b) /\ Cardinality(a .. b) = b - a + 1
  <2>1. ~(a > b)
    BY <1>1
  <2> QED BY ONLY <2>1, FS_Interval
<1> QED BY <1>1, <1>2, FS_Subset

LEMMA DoSetEmpty ==
    ASSUME TypeOK, NEW off, NEW nq, Body(off, nq), NEW c \in Consumers, SetEmpty(c)
    PROVE  TypeOK' /\ Body(off, nq)'
<1>1. /\ con[c].step = "setEmpty" /\ Empties(c) < BlockSize /\ RunDone(c)
      /\ emptied' = [emptied EXCEPT ![Block(c)] = Empties(c)]
      /\ UNCHANGED <<HeadIndex, TailIndex, TailBlock, slots, arrays, entries, manager, heap, po>>
  BY DEF SetEmpty, index, supply
<1>2. PICK q \in Nat : /\ q = Num(con[c].item) /\ q \in Live /\ q \in Busy(c)
                       /\ Calling(c) /\ con[c].need >= 1
  BY <1>1, BlockFound
<1>3. PICK i \in Nat, k \in Nat, n \in {RunSize(c)} : i = con[c].item /\ k = con[c].need /\ n = RunSize(c)
  BY <1>2, ConTypes
<1>4. Rest(c, n) /\ Knows(off, c)'
  BY <1>1, <1>3, RunDoneIs
<1>5. /\ Aside(c) /\ con'[c].step \in {"idle", "take"}
      /\ con' \in [Consumers -> {NoCall} \union Lookups] /\ Shorter(c, n)
      /\ Unmarked(c)' = (i + n) .. (i + k - 1)
      /\ Untaken(c)' = (i + n) .. (i + k - 1)
      /\ Busy(c)' = (q + 1) .. Num(i + k - 1)
  BY <1>2, <1>3, <1>4 DEF Rest, Shorter
<1>6. /\ ClaimsOK /\ LastOut /\ Placed(off) /\ NothingElse(off) /\ CallOK(off)
  BY DEF Body, Consumption
<1>7. ClaimsOK' /\ LastOut' /\ Busy(c)' \subseteq Busy(c)
  BY <1>1, <1>2, <1>3, <1>4, <1>6, RestClaims
<1>8. n \in Nat /\ n >= 1 /\ n <= k /\ (n < k => Num(i + n) = q + 1) /\ Cardinality(Run(c)) = n
  <2>1. n \in 1 .. k
    BY <1>2, <1>3, RunIs
  <2>2. (n < k => Num(i + n) = q + 1) /\ Cardinality(Run(c)) = n
    BY <1>2, <1>3, RunIs
  <2> QED BY <1>3, <2>1, <2>2
<1>9. /\ Linked' = Linked /\ \A x : BlockOf(off, x)' = BlockOf(off, x)
  BY <1>1 DEF Linked, Begun, InCall, BlockOf, EntryOf, Place, Value, Cur
<1>10. Live' \subseteq Live
  <2>1. \A d \in Consumers : Busy(d)' \subseteq Busy(d)
    BY <1>5, <1>7 DEF Aside
  <2> QED BY <1>1, <1>9, <2>1 DEF Live
<1>11. /\ Counts(off)' /\ emptied' \in [Blocks -> Nat]
       /\ Empties(c) = Cardinality(Marked(q)') /\ IsFiniteSet(Marked(q)')
       /\ Marked(q)' \subseteq Base(q) .. (Base(q + 1) - 1)
  BY <1>1, <1>2, <1>3, <1>5, <1>9, <1>10, MarkCounts
\* A position of the block is not marked yet, so the block stays live.
<1>12. HeadIndex < Base(q + 1) \/ \E d \in Consumers \ {c} : q \in Busy(d)
  <2>1. Marked(q)' # Base(q) .. (Base(q + 1) - 1)
    <3>1. PICK a \in Int, b \in Int : a = Base(q) /\ b = Base(q + 1) - 1 /\ ~(a > b) /\ b - a + 1 = BlockSize
      <4>1. Base(q) \in Int /\ Base(q + 1) \in Int /\ Base(q + 1) = Base(q) + BlockSize
        BY BaseStep
      <4> QED BY <4>1, SizesAssumption
    <3>2. Cardinality(a .. b) = b - a + 1
      <4>1. ~(a > b)
        BY <3>1
      <4> QED BY ONLY <4>1, FS_Interval
    <3>3. Cardinality(Marked(q)') < BlockSize
      BY <1>1, <1>11
    <3> QED BY <3>1, <3>2, <3>3
  <2>2. PICK p \in Base(q) .. (Base(q + 1) - 1) : p \notin Marked(q)'
    BY <1>11, <2>1
  <2>3. /\ Base(q) \in Int /\ Base(q + 1) \in Int /\ p \in Int /\ HeadIndex \in Int
        /\ Base(q) <= p /\ p < Base(q + 1)
    <3>1. Base(q) \in Int /\ Base(q + 1) \in Int
      BY BaseStep
    <3> QED BY <3>1 DEF TypeOK
  <2>4. CASE ~(p < HeadIndex)
    BY <2>3, <2>4
  <2>5. CASE p < HeadIndex
    <3>1. PICK d \in Consumers : p \in Unmarked(d)'
      BY <1>1, <2>2, <2>5 DEF Marked
    <3>2. Num(p) = q
      <4>1. Num(p) \in Int
        BY <2>3, DivMod
      <4> QED BY <2>3, <4>1, NumBetween
    <3>3. d # c
      <4> SUFFICES ASSUME d = c PROVE FALSE
        OBVIOUS
      <4>1. i + n <= p /\ p <= i + k - 1
        BY <1>3, <1>5, <1>8, <3>1
      <4>2. n < k /\ i + n \in Int
        BY <1>3, <1>8, <2>3, <4>1
      <4>3. Num(i + n) <= Num(p)
        BY <2>3, <4>1, <4>2, NumOrder
      <4> QED BY <1>8, <3>2, <4>2, <4>3
    <3>4. p \in Unmarked(d)
      BY <1>5, <3>1, <3>3 DEF Aside
    <3>5. q \in Busy(d)
      BY <1>6, <3>2, <3>4, UnmarkedBusy
    <3> QED BY <3>3, <3>5
  <2> QED BY <2>4, <2>5
<1>13. Live' = Live
  <2> SUFFICES ASSUME NEW x \in Live PROVE x \in Live'
    BY <1>10
  <2>1. x \in 0 .. (Linked - 1)
    BY DEF Live
  <2>2. HeadIndex < Base(x + 1) \/ \E d \in Consumers : x \in Busy(d)
    BY DEF Live
  <2>3. HeadIndex < Base(x + 1) \/ (\E d \in Consumers \ {c} : x \in Busy(d)) \/ x \in Busy(c)'
    <3>1. x \in Busy(c) /\ x # q => x \in Busy(c)'
      <4>1. Busy(c) = (q + 0) .. Num(i + k - 1)
        BY <1>1, <1>2, <1>3 DEF Busy
      <4>2. Num(i + k - 1) \in Int
        <5>1. i + k - 1 \in Int
          BY <1>3
        <5> QED BY <5>1, DivMod
      <4> QED BY <1>2, <1>5, <4>1, <4>2
    <3> QED BY <1>12, <2>2, <3>1
  <2>4. HeadIndex < Base(x + 1) \/ \E d \in Consumers : x \in Busy(d)'
    BY <1>5, <2>3 DEF Aside
  <2> QED BY <1>1, <1>9, <2>1, <2>4 DEF Live
<1>14. /\ IndexOK' /\ Index(off, nq)' /\ CallOK(off)' /\ Apart(off)' /\ AllThere(off)'
       /\ Occupied(off)' /\ Begun' = Begun /\ Filled' = Filled
  BY <1>1, <1>5, <1>13, ConsumerRest
<1>15. TypeOK'
  BY <1>1, <1>5, <1>11, <1>14 DEF TypeOK
<1>16. \A d \in Consumers : Knows(off, d)'
  BY <1>1, <1>4, <1>5, OthersKnow
<1>17. Placed(off)' /\ NothingElse(off)'
  <2>1. Untaken(c)' = Untaken(c)
    BY <1>1, <1>2, <1>3, <1>5, UntakenIs
  <2>2. Objects' = Objects
    BY <1>1, <1>5, <1>14, <2>1, SameUntaken
  <2> QED BY <1>1, <1>6, <1>9, <2>2, ObjectsKept
<1> QED BY <1>7, <1>11, <1>14, <1>15, <1>16, <1>17 DEF Body, Consumption

LEMMA DoSetLastEmpty ==
    ASSUME TypeOK, NEW off, NEW nq, Body(off, nq), NEW c \in Consumers, SetLastEmpty(c)
    PROVE  TypeOK' /\ Body(off, nq)'
<1>1. PICK r : r = [con[c] EXCEPT !.step = "clear"]
  OBVIOUS
<1>2. /\ con[c].step = "setEmpty" /\ Empties(c) = BlockSize
      /\ emptied' = [emptied EXCEPT ![Block(c)] = Empties(c)]
      /\ con' = [con EXCEPT ![c] = r]
      /\ UNCHANGED <<HeadIndex, TailIndex, TailBlock, slots, arrays, entries, manager, heap, po>>
  <2>1. con' = [con EXCEPT ![c] = r]
    BY <1>1 DEF SetLastEmpty, TypeOK
  <2> QED BY <2>1 DEF SetLastEmpty, index, supply
<1>3. PICK q \in Nat : /\ q = Num(con[c].item) /\ q \in Live /\ q \in Busy(c)
                       /\ Calling(c) /\ con[c].need >= 1
  BY <1>2, BlockFound
<1>4. PICK i \in Nat, k \in Nat, n \in {RunSize(c)} : i = con[c].item /\ k = con[c].need /\ n = RunSize(c)
  BY <1>3, ConTypes
<1>5. r \in Lookups /\ r.step = "clear" /\ r.item = con[c].item /\ r.need = con[c].need
      /\ r.array = con[c].array /\ r.place = con[c].place
  <2>1. con[c] \in Lookups
    BY <1>2 DEF TypeOK, NoCall
  <2>2. con[c] \in [step : ConSteps, item : Nat, need : Nat, array : Nat, place : Int]
    BY <1>2, <2>1 DEF Lookups, ConSteps
  <2> QED BY <1>1, <2>2 DEF Lookups, ConSteps
<1>6. con'[c] = r /\ Aside(c)
  BY <1>2, ConsumerAside
<1>7. Calling(c)' /\ con'[c].item = con[c].item /\ con'[c].need = con[c].need
  BY <1>5, <1>6 DEF Calling
<1>8. Busy(c)' = Busy(c) /\ Untaken(c)' = Untaken(c) /\ RunSize(c)' = RunSize(c)
  BY <1>2, <1>3, <1>5, <1>6, <1>7, SameClaim
<1>9. Shorter(c, n)
  BY <1>4, <1>5, <1>6, <1>7, <1>8 DEF Shorter, Unmarked
<1>10. Live' = Live
  BY <1>2, <1>6, <1>8, SameLive
<1>11. /\ IndexOK' /\ Index(off, nq)' /\ CallOK(off)' /\ Apart(off)' /\ AllThere(off)'
       /\ Occupied(off)' /\ off \in [1 .. Cur -> Int]
       /\ \A x : BlockOf(off, x)' = BlockOf(off, x)
       /\ Begun' = Begun /\ Filled' = Filled
  BY <1>2, <1>5, <1>6, <1>10, ConsumerRest
<1>12. /\ ClaimsOK /\ LastOut /\ Placed(off) /\ NothingElse(off) /\ CallOK(off) /\ Knows(off, c)
  BY DEF Body, Consumption
<1>13. /\ Counts(off)' /\ emptied' \in [Blocks -> Nat]
       /\ Empties(c) = Cardinality(Marked(q)') /\ IsFiniteSet(Marked(q)')
       /\ Marked(q)' \subseteq Base(q) .. (Base(q + 1) - 1)
  <2>1. HeadIndex' = HeadIndex /\ po' = po /\ Live' \subseteq Live
    BY <1>2, <1>10
  <2> QED BY <1>2, <1>3, <1>4, <1>6, <1>9, <1>11, <2>1, MarkCounts
<1>14. Marked(q)' = Base(q) .. (Base(q + 1) - 1)
  BY <1>2, <1>13, FullBlock
<1>15. TypeOK'
  <2>1. con' \in [Consumers -> {NoCall} \union Lookups]
    BY <1>2, <1>5 DEF TypeOK
  <2> QED BY <1>2, <1>11, <1>13, <2>1 DEF TypeOK
<1>16. \A d \in Consumers : /\ Calling(d)' = Calling(d) /\ con'[d].item = con[d].item
                            /\ con'[d].need = con[d].need /\ Busy(d)' = Busy(d)
  <2> SUFFICES ASSUME NEW d \in Consumers
               PROVE  /\ Calling(d)' = Calling(d) /\ con'[d].item = con[d].item
                      /\ con'[d].need = con[d].need /\ Busy(d)' = Busy(d)
    OBVIOUS
  <2>1. CASE d = c
    BY <1>3, <1>7, <1>8, <2>1
  <2>2. CASE d # c
    BY <1>6, <2>2 DEF Aside
  <2> QED BY <2>1, <2>2
<1>17. ClaimsOK'
  <2>1. HeadIndex' = HeadIndex
    BY <1>2
  <2> QED BY <1>12, <1>16, <2>1 DEF ClaimsOK
\* No other consumer has this block, and none will come.
<1>18. Base(q + 1) <= HeadIndex
  <2>1. Base(q) \in Int /\ Base(q + 1) \in Int /\ Base(q + 1) = Base(q) + BlockSize
    BY BaseStep
  <2>2. PICK p \in Base(q) .. (Base(q + 1) - 1) : p = Base(q + 1) - 1
    BY <2>1, SizesAssumption
  <2>3. p < HeadIndex
    BY <1>2, <1>14, <2>2 DEF Marked
  <2> QED BY <2>1, <2>2, <2>3 DEF TypeOK
<1>19. \A d \in Consumers \ {c} : q \notin Busy(d)
  <2> SUFFICES ASSUME NEW d \in Consumers \ {c}, q \in Busy(d) PROVE FALSE
    OBVIOUS
  <2>1. con[d].step = "clear" => q # Num(con[d].item)
    BY <1>3, <1>12 DEF LastOut
  <2>2. PICK p \in Unmarked(d) : p \in Base(q) .. (Base(q + 1) - 1)
    BY <1>12, <2>1, BusyUnmarked
  <2>3. p \in Unmarked(d)'
    BY <1>6, <2>2 DEF Aside
  <2> QED BY <1>14, <2>2, <2>3 DEF Marked
<1>20. LastOut'
  <2> SUFFICES ASSUME NEW d \in Consumers, con'[d].step = "clear"
               PROVE  /\ Base(Num(con'[d].item) + 1) <= HeadIndex
                      /\ \A x \in Consumers \ {d} : Num(con'[d].item) \notin Busy(x)
    BY <1>2, <1>16 DEF LastOut
  <2>1. CASE d = c
    BY <1>3, <1>7, <1>18, <1>19, <2>1
  <2>2. CASE d # c
    BY <1>6, <1>12, <2>2 DEF Aside, LastOut
  <2> QED BY <2>1, <2>2
<1>21. \A d \in Consumers : Knows(off, d)'
  <2>1. Knows(off, c)'
    <3>1. Cur' = Cur
      BY <1>2 DEF Cur
    <3>2. \A x : EntryOf(off, con[c].array, x)' = EntryOf(off, con[c].array, x)
      BY <1>2, <1>5, <1>6 DEF EntryOf, Place
    <3>3. \A x : EntryOf(off, Cur, x)' = EntryOf(off, Cur, x)
      BY <1>2 DEF EntryOf, Place, Cur
    <3>4. Place(off, con[c].array, Num(con[c].item))' = Place(off, con[c].array, Num(con[c].item))
      BY <1>2, <1>5, <1>6 DEF Place
    <3> QED BY <1>2, <1>5, <1>6, <1>8, <1>12, <3>1, <3>2, <3>3, <3>4 DEF Knows
  <2> QED BY <1>2, <1>6, <2>1, OthersKnow
<1>22. Placed(off)' /\ NothingElse(off)'
  <2>1. Objects' = Objects
    BY <1>2, <1>6, <1>8, <1>11, SameUntaken
  <2> QED BY <1>2, <1>11, <1>12, <2>1, ObjectsKept
<1> QED BY <1>11, <1>13, <1>15, <1>17, <1>20, <1>21, <1>22 DEF Body, Consumption

LEMMA ObjectsLiveNext ==
    ASSUME NEW off
    PROVE  TypeOK' /\ ClaimsOK' /\ CallOK(off)' => \A p \in Objects' : p \in Nat /\ Num(p) \in Live'
<1>1. TypeOK /\ ClaimsOK /\ CallOK(off) => \A p \in Objects : p \in Nat /\ Num(p) \in Live
  BY ObjectsLive
<1>2. (TypeOK /\ ClaimsOK /\ CallOK(off) => \A p \in Objects : p \in Nat /\ Num(p) \in Live)'
  BY <1>1, PTL
<1> QED BY <1>2 DEF Num

LEMMA DoClearEntry ==
    ASSUME TypeOK, NEW off, NEW nq, Body(off, nq), NEW c \in Consumers, ClearEntry(c)
    PROVE  TypeOK' /\ Body(off, nq)'
<1>1. PICK r : r = [step |-> "return", item |-> con[c].item, need |-> con[c].need,
                    array |-> con[c].array, place |-> con[c].place, block |-> Block(c)]
  OBVIOUS
<1>2. /\ con[c].step = "clear" /\ con' = [con EXCEPT ![c] = r] /\ SetValue(Entry(c), NoBlock)
      /\ UNCHANGED <<HeadIndex, TailIndex, TailBlock, emptied, slots, arrays, manager, heap, po>>
  BY <1>1 DEF ClearEntry, blocks, supply
<1>3. PICK q \in Nat : /\ q = Num(con[c].item) /\ q \in Live /\ q \in Busy(c) /\ q < Begun
                       /\ Calling(c) /\ con[c].need >= 1 /\ KeyOf(off, q) = Base(q)
                       /\ Entry(c) = EntryOf(off, Cur, q) /\ Block(c) = BlockOf(off, q)
                       /\ BlockOf(off, q) \in Blocks
  BY <1>2, BlockFound
<1>4. /\ OffsetsOK(off, nq) /\ CallOK(off) /\ Listed(off, nq) /\ IndexOK /\ ClaimsOK /\ LastOut
      /\ Placed(off) /\ NothingElse(off) /\ Underway(off, nq) /\ Aligned(off) /\ Agree(off)
      /\ off \in [1 .. Cur -> Int] /\ nq \in Int /\ Window(off, nq)
      /\ Apart(off) /\ AllThere(off) /\ Counts(off) /\ Occupied(off)
      /\ \A d \in Consumers : Knows(off, d)
  BY DEF Body, Index, TypeOK, OffsetsOK, Consumption
<1>5. PICK i \in Nat, k \in Nat : i = con[c].item /\ k = con[c].need /\ con[c].array \in Nat /\ con[c].place \in Int
  BY <1>2, <1>3, ConTypes DEF ConSteps
<1>6. /\ r \in Lookups /\ r.step = "return" /\ r.item = con[c].item /\ r.need = con[c].need
      /\ r.array = con[c].array /\ r.place = con[c].place /\ r.block = BlockOf(off, q)
  BY <1>1, <1>3, <1>5 DEF Lookups
<1>7. con'[c] = r /\ Aside(c)
  BY <1>2, ConsumerAside
<1>8. Calling(c)' /\ con'[c].item = con[c].item /\ con'[c].need = con[c].need
  BY <1>6, <1>7 DEF Calling
<1>9. Unmarked(c)' = Unmarked(c) /\ Untaken(c)' = Untaken(c)
  BY <1>2, <1>3, <1>6, <1>7, <1>8, SameClaim
<1>10. Busy(c)' = Busy(c) \ {q}
  <2>1. Busy(c) = (q + 0) .. Num(i + k - 1) /\ Busy(c)' = (q + 1) .. Num(i + k - 1)
    BY <1>2, <1>3, <1>5, <1>6, <1>7, <1>8 DEF Busy
  <2>2. Num(i + k - 1) \in Int
    <3>1. i + k - 1 \in Int
      BY <1>5
    <3> QED BY <3>1, DivMod
  <2> QED BY <1>3, <2>1, <2>2
<1>11. Base(q + 1) <= HeadIndex /\ \A d \in Consumers \ {c} : q \notin Busy(d)
  BY <1>2, <1>3, <1>4 DEF LastOut
<1>12. Begun' = Begun /\ Linked' = Linked /\ Filled' = Filled /\ Held' = Held
       /\ InCall' = InCall /\ Taking' = Taking /\ Leaving' = Leaving /\ Cur' = Cur
  BY <1>2 DEF Begun, Linked, Filled, Held, InCall, Taking, Leaving, Cur
<1>13. Live' = Live \ {q}
  <2>1. \A x : (\E d \in Consumers : x \in Busy(d)') <=> (x # q /\ \E d \in Consumers : x \in Busy(d))
    <3>1. \A d \in Consumers \ {c} : Busy(d)' = Busy(d)
      BY <1>7 DEF Aside
    <3> QED BY <1>10, <1>11, <3>1
  <2>2. ~(HeadIndex < Base(q + 1))
    <3>1. Base(q + 1) \in Int
      BY BaseStep
    <3> QED BY <1>11, <3>1 DEF TypeOK
  <2> QED BY <1>2, <1>12, <2>1, <2>2 DEF Live
\* The entry.
<1>14. PICK e \in 1 .. Len(entries) : e = EntryOf(off, Cur, q) /\ SetValue(e, NoBlock)
  <2>1. q \in Int /\ Cur \in 1 .. Cur
    BY <1>3, <1>4, CurType
  <2>2. EntryOf(off, Cur, q) \in 1 .. Len(entries)
    BY <1>4, <2>1, PlaceType
  <2> QED BY <1>2, <1>3, <2>2
<1>15. /\ entries' \in Seq(EntryRecs) /\ Len(entries') = Len(entries)
       /\ \A x \in 1 .. Len(entries) : /\ Key(x)' = Key(x)
                                       /\ Value(x)' = IF x = e THEN NoBlock ELSE Value(x)
  BY <1>4, <1>14, SetValueEffect
<1>16. IndexOK' /\ Current' = Current /\ SameArrays
  BY <1>2, <1>4, <1>15, IndexKept DEF SameArrays
<1>17. SameKeys /\ Valued(off, e, NoBlock)
  BY <1>4, <1>15, <1>16, ValueSet
<1>18. /\ \A x \in Live : x # q => BlockOf(off, x)' = BlockOf(off, x)
       /\ \A x \in Int : BlockOf(off, x)' \in {NoBlock, BlockOf(off, x)}
       /\ \A x \in Int : KeyOf(off, x)' = KeyOf(off, x)
  BY <1>3, <1>14, <1>17, OthersKept
<1>19. SameBlocks(off) /\ Live' \subseteq Live
  BY <1>13, <1>18 DEF SameBlocks
<1>20. TypeOK'
  <2>1. con' \in [Consumers -> {NoCall} \union Lookups]
    BY <1>2, <1>6 DEF TypeOK
  <2> QED BY <1>2, <1>16, <2>1 DEF TypeOK
<1>21. OffsetsOK(off, nq)' /\ off \in [1 .. Cur' -> Int]
  <2>1. Place(off, Cur, nq - 1)' = Place(off, Cur, nq - 1)
    BY <1>2 DEF Place, Cur
  <2> QED BY <1>2, <1>4, <1>12, <1>16, <2>1 DEF OffsetsOK
<1>22. Aligned(off)' /\ Agree(off)' /\ Window(off, nq)'
  BY <1>4, <1>16, <1>17, AlignedKept, AgreeKept, WindowKept
<1>23. Listed(off, nq)'
  BY <1>4, <1>16, <1>17, <1>19, ListedKept, nq <= nq
<1>24. Begun \in Nat /\ Linked \in Nat /\ (InCall => po.taken \in Seq(Blocks))
       /\ (po.step = "rollBack" => po.taken \in Seq(Blocks))
  BY BegunIs, LinkedType, InCallTypes
<1>25. Underway(off, nq)'
  <2>1. \A x \in Int : KeyOf(off, x)' = Key(EntryOf(off, Cur, x))
    BY <1>18 DEF KeyOf
  <2>2. ASSUME po.step = "rollBack", NEW j \in DOMAIN po.taken
        PROVE  KeyOf(off, Begun + j - 1)' = Base(Begun + j - 1)
    <3>1. PICK x \in Int : x = Begun + j - 1
      BY <1>24, <2>2
    <3>2. KeyOf(off, Begun + j - 1)' = KeyOf(off, x)'
      BY <1>12, <3>1 DEF KeyOf, EntryOf, Place
    <3>3. KeyOf(off, x) = Base(x)
      BY <1>4, <2>2, <3>1 DEF Underway
    <3> QED BY <1>18, <3>1, <3>2, <3>3
  <2>3. KeyOf(off, nq)' = KeyOf(off, nq)
    BY <1>4, <1>18
  <2>4. KeyOf(off, nq - 1)' = KeyOf(off, nq - 1)
    <3>1. PICK x \in Int : x = nq - 1
      BY <1>4
    <3>2. KeyOf(off, nq - 1)' = KeyOf(off, x)'
      BY <3>1 DEF KeyOf, EntryOf, Place
    <3> QED BY <1>18, <3>1, <3>2
  <2> QED BY <1>2, <1>4, <1>12, <2>2, <2>3, <2>4 DEF Underway
<1>26. CallOK(off)'
  <2>1. ASSUME InCall, NEW j \in DOMAIN po.taken
        PROVE  po.taken[j] = BlockOf(off, Begun + j - 1)'
    <3>1. /\ Begun + j - 1 \in Live /\ Begun + j - 1 >= Begun
          /\ po.taken[j] = BlockOf(off, Begun + j - 1)
      BY <1>4, <2>1, TakenAre
    <3>2. PICK x \in Live : x = Begun + j - 1
      BY <3>1
    <3>3. x # q
      BY <1>3, <1>24, <3>1, <3>2
    <3>4. BlockOf(off, Begun + j - 1)' = BlockOf(off, x)'
      BY <1>12, <3>2 DEF BlockOf, EntryOf, Place
    <3> QED BY <1>18, <3>1, <3>2, <3>3, <3>4
  <2>2. Off(TailIndex) # 0 => BlockOf(off, Begun - 1)' = BlockOf(off, Begun - 1)
    <3> SUFFICES ASSUME Off(TailIndex) # 0 PROVE BlockOf(off, Begun - 1)' = BlockOf(off, Begun - 1)
      OBVIOUS
    <3>1. PICK x \in Live : x = Begun - 1 /\ HeadIndex < Base(Begun)
      BY TailLive
    <3>2. x # q
      <4> SUFFICES ASSUME x = q PROVE FALSE
        OBVIOUS
      <4>1. q + 1 = Begun
        BY <1>3, <1>24, <3>1
      <4>2. Base(Begun) <= HeadIndex /\ Base(Begun) \in Int
        BY <1>11, <1>24, <4>1, BaseStep
      <4> QED BY <3>1, <4>2 DEF TypeOK
    <3>3. BlockOf(off, Begun - 1)' = BlockOf(off, x)'
      BY <1>12, <3>1 DEF BlockOf, EntryOf, Place
    <3> QED BY <1>18, <3>1, <3>2, <3>3
  <2>3. ASSUME InCall \/ po.step = "rollBack"
        PROVE  po.n >= 1 /\ (Off(TailIndex) # 0 => po.old = BlockOf(off, Begun - 1)')
    BY <1>4, <2>2, <2>3 DEF CallOK
  <2>4. po.step = "idle" /\ Off(TailIndex) # 0 => TailBlock = BlockOf(off, Begun - 1)'
    BY <1>4, <2>2 DEF CallOK
  <2> QED BY <1>2, <1>4, <1>12, <2>1, <2>3, <2>4 DEF CallOK
\* The claims.
<1>27. \A d \in Consumers : /\ Calling(d)' = Calling(d) /\ con'[d].item = con[d].item
                            /\ con'[d].need = con[d].need /\ Busy(d)' \subseteq Busy(d)
                            /\ con'[d].step = "clear" => con[d].step = "clear"
  <2> SUFFICES ASSUME NEW d \in Consumers
               PROVE  /\ Calling(d)' = Calling(d) /\ con'[d].item = con[d].item
                      /\ con'[d].need = con[d].need /\ Busy(d)' \subseteq Busy(d)
                      /\ con'[d].step = "clear" => con[d].step = "clear"
    OBVIOUS
  <2>1. CASE d = c
    BY <1>2, <1>3, <1>8, <1>10, <2>1
  <2>2. CASE d # c
    BY <1>7, <2>2 DEF Aside
  <2> QED BY <2>1, <2>2
<1>28. ClaimsOK' /\ LastOut'
  <2>1. HeadIndex' = HeadIndex
    BY <1>2
  <2>2. ClaimsOK'
    BY <1>4, <1>27, <2>1 DEF ClaimsOK
  <2>3. LastOut'
    BY <1>4, <1>27, <2>1 DEF LastOut
  <2> QED BY <2>2, <2>3
<1>29. \A d \in Consumers : Knows(off, d)'
  <2>1. \A x \in 1 .. Len(entries) : Key(x) # InvalidBase => Key(x)' # InvalidBase
    BY <1>17 DEF SameKeys
  <2>2. ASSUME NEW d \in Consumers \ {c} PROVE Knows(off, d)'
    <3>1. con'[d] = con[d] /\ Knows(off, d)
      BY <1>4, <1>7 DEF Aside
    <3>2. con[d].step = "tail" =>
              Key(arrays[con[d].array].at[arrays[con[d].array].tail])' # InvalidBase
      <4> SUFFICES ASSUME con[d].step = "tail"
                   PROVE  Key(arrays[con[d].array].at[arrays[con[d].array].tail])' # InvalidBase
        OBVIOUS
      <4>1. PICK a \in 1 .. Cur : a = con[d].array /\ Key(arrays[a].at[arrays[a].tail]) # InvalidBase
        BY <3>1 DEF Knows
      <4>2. PICK x \in 1 .. Len(entries) : x = arrays[a].at[arrays[a].tail]
        BY <1>4 DEF IndexOK
      <4>3. Key(arrays[con[d].array].at[arrays[con[d].array].tail])' = Key(x)'
        BY <1>2, <3>1, <4>1, <4>2 DEF Key
      <4> QED BY <2>1, <4>1, <4>2, <4>3
    <3> QED BY <1>4, <1>16, <2>1, <3>1, <3>2, KnowsKept
  <2>3. Knows(off, c)'
    <3>1. Knows(off, c)
      BY <1>4
    <3>2. \A x : EntryOf(off, con[c].array, x)' = EntryOf(off, con[c].array, x)
      BY <1>2, <1>6, <1>7 DEF EntryOf, Place
    <3>3. \A x : EntryOf(off, Cur, x)' = EntryOf(off, Cur, x)
      BY <1>2 DEF EntryOf, Place, Cur
    <3>4. Place(off, con[c].array, Num(con[c].item))' = Place(off, con[c].array, Num(con[c].item))
      BY <1>2, <1>6, <1>7 DEF Place
    <3> QED BY <1>2, <1>6, <1>7, <1>10, <1>12, <3>1, <3>2, <3>3, <3>4 DEF Knows
  <2> QED BY <2>2, <2>3
\* The block.
<1>30. InHand' = InHand \union {BlockOf(off, q)}
  <2>1. \A d \in Consumers \ {c} : con'[d] = con[d]
    BY <1>7 DEF Aside
  <2> QED BY <1>2, <1>6, <1>7, <2>1 DEF InHand
<1>31. Apart(off)'
  <2>1. \A x, y \in Live' : BlockOf(off, x)' = BlockOf(off, y)' => x = y
    BY <1>4, <1>13, <1>18 DEF Apart
  <2>2. \A x \in Live' : BlockOf(off, x) \notin manager \union heap \union InHand' \union Held
    BY <1>4, <1>3, <1>13, <1>30 DEF Apart
  <2>3. \A x \in Live' : BlockOf(off, x)' \notin manager \union heap \union InHand' \union Held
    BY <1>19, <2>2 DEF SameBlocks
  <2>4. /\ manager \intersect heap = {}
        /\ (InHand' \union Held) \intersect (manager \union heap) = {}
        /\ InHand' \intersect Held = {}
    BY <1>3, <1>4, <1>30 DEF Apart
  <2>5. \A d \in Consumers \ {c} : con'[d] = con[d]
    BY <1>7 DEF Aside
  <2>6. \A d \in Consumers \ {c} : con[d].step = "return" => con[d].block # BlockOf(off, q)
    <3>1. BlockOf(off, q) \notin InHand
      BY <1>3, <1>4 DEF Apart
    <3> QED BY <3>1 DEF InHand
  <2>7. \A d, x \in Consumers :
          con'[d].step = "return" /\ con'[x].step = "return" /\ con'[d].block = con'[x].block => d = x
    <3>1. \A d, x \in Consumers :
          con[d].step = "return" /\ con[x].step = "return" /\ con[d].block = con[x].block => d = x
      BY <1>4 DEF Apart
    <3> QED BY <1>6, <1>7, <2>5, <2>6, <3>1
  <2> QED BY <1>2, <1>12, <2>1, <2>3, <2>4, <2>7 DEF Apart
<1>32. AllThere(off)'
  <2>1. ASSUME NEW b \in Blocks, po.step # "stopped"
        PROVE  b \in manager \union heap \union InHand' \union Held \/ \E x \in Live' : b = BlockOf(off, x)'
    <3>1. b \in manager \union heap \union InHand \union Held \/ \E x \in Live : b = BlockOf(off, x)
      BY <1>4, <2>1 DEF AllThere
    <3> QED BY <1>13, <1>18, <1>30, <3>1
  <2> QED BY <1>2, <1>12, <2>1 DEF AllThere
<1>33. Occupied(off)'
  <2> SUFFICES ASSUME po.step # "stopped", NEW x \in Int, BlockOf(off, x)' # NoBlock
               PROVE  \E y \in Live' \union Leaving : EntryOf(off, Cur, x)' = EntryOf(off, Cur, y)'
    BY <1>2, <1>12 DEF Occupied
  <2>1. EntryOf(off, Cur, x) # e /\ BlockOf(off, x) # NoBlock
    BY <1>17, <1>18 DEF Valued
  <2>2. PICK y \in Live \union Leaving : EntryOf(off, Cur, x) = EntryOf(off, Cur, y)
    BY <1>4, <2>1 DEF Occupied
  <2>3. y # q
    BY <1>14, <2>1, <2>2
  <2>4. EntryOf(off, Cur, x)' = EntryOf(off, Cur, x) /\ EntryOf(off, Cur, y)' = EntryOf(off, Cur, y)
    BY <1>2 DEF EntryOf, Place, Cur
  <2> QED BY <1>13, <2>2, <2>3, <2>4
<1>34. Counts(off)'
  <2>1. \A x : Marked(x)' = Marked(x)
    BY <1>2, <1>7, <1>9, SameUnmarked
  <2> QED BY <1>2, <1>4, <1>13, <1>18, <2>1 DEF Counts
<1>35. Placed(off)' /\ NothingElse(off)'
  <2>1. Objects' = Objects
    BY <1>2, <1>7, <1>9, <1>12, SameUntaken
  <2>2. \A p \in Objects : BlockOf(off, Num(p))' = BlockOf(off, Num(p))
    <3>1. \A p \in Objects : Num(p) \in Live'
      BY <1>20, <1>26, <1>28, <2>1, ObjectsLiveNext
    <3> QED BY <1>13, <1>18, <3>1
  <2> QED BY <1>2, <1>4, <2>1, <2>2, ObjectsKept
<1> QED BY <1>16, <1>20, <1>21, <1>22, <1>23, <1>25, <1>26, <1>28, <1>29, <1>31, <1>32, <1>33,
           <1>34, <1>35 DEF Body, Index, Consumption

LEMMA DoReturnBlock ==
    ASSUME TypeOK, NEW off, NEW nq, Body(off, nq), NEW c \in Consumers, ReturnBlock(c)
    PROVE  TypeOK' /\ Body(off, nq)'
<1>1. /\ con[c].step = "return" /\ RunDone(c) /\ manager' = manager \union {con[c].block}
      /\ UNCHANGED <<HeadIndex, TailIndex, TailBlock, emptied, slots, arrays, entries, heap, po>>
  BY DEF ReturnBlock, index, blocks
<1>2. /\ ClaimsOK /\ LastOut /\ Placed(off) /\ NothingElse(off) /\ CallOK(off)
      /\ Apart(off) /\ AllThere(off) /\ Counts(off)
  BY DEF Body, Consumption
<1>3. PICK i \in Nat, k \in Nat, n \in {RunSize(c)} : /\ i = con[c].item /\ k = con[c].need /\ n = RunSize(c)
                                     /\ k >= 1 /\ Calling(c)
  <2>1. Calling(c)
    BY <1>1 DEF Calling
  <2> QED BY <1>2, <2>1, ConTypes DEF ClaimsOK
<1>4. Rest(c, n) /\ Knows(off, c)'
  BY <1>1, <1>3, RunDoneIs
<1>5. /\ Aside(c) /\ con'[c].step \in {"idle", "take"}
      /\ con' \in [Consumers -> {NoCall} \union Lookups]
      /\ Unmarked(c)' = (i + n) .. (i + k - 1)
      /\ Untaken(c)' = (i + n) .. (i + k - 1)
      /\ Busy(c)' = (Num(i) + 1) .. Num(i + k - 1)
  BY <1>3, <1>4 DEF Rest, Shorter
<1>6. Busy(c)' = Busy(c) /\ Unmarked(c)' = Unmarked(c) /\ Untaken(c)' = Untaken(c)
  <2>1. Untaken(c) = (i + n) .. (i + k - 1)
    BY <1>1, <1>3, UntakenIs
  <2> QED BY <1>1, <1>3, <1>5, <2>1 DEF Busy, Unmarked
<1>7. ClaimsOK' /\ LastOut'
  BY <1>1, <1>2, <1>3, <1>4, RestClaims
<1>8. Live' = Live
  BY <1>1, <1>5, <1>6, SameLive
<1>9. /\ IndexOK' /\ Index(off, nq)' /\ CallOK(off)' /\ Occupied(off)'
      /\ \A x : BlockOf(off, x)' = BlockOf(off, x)
      /\ Begun' = Begun /\ Filled' = Filled /\ Held' = Held
  BY <1>1, <1>8, ConsumerKeeps
<1>10. con[c].block \in Blocks
  BY <1>1, ConTypes
<1>11. TypeOK'
  BY <1>1, <1>5, <1>9, <1>10 DEF TypeOK
<1>12. \A d \in Consumers : Knows(off, d)'
  BY <1>1, <1>4, <1>5, OthersKnow
\* The block changes hands.
<1>13. \A d \in Consumers : con'[d].step = "return" =>
          /\ d # c /\ con[d].step = "return" /\ con'[d].block = con[d].block
          /\ con[d].block # con[c].block
  <2> SUFFICES ASSUME NEW d \in Consumers, con'[d].step = "return"
               PROVE  /\ d # c /\ con[d].step = "return" /\ con'[d].block = con[d].block
                      /\ con[d].block # con[c].block
    OBVIOUS
  <2>1. d # c
    BY <1>5
  <2>2. con'[d] = con[d]
    BY <1>5, <2>1 DEF Aside
  <2> QED BY <1>1, <1>2, <2>1, <2>2 DEF Apart
<1>14. con[c].block \in InHand /\ InHand' = InHand \ {con[c].block}
  <2>1. con[c].block \in InHand
    BY <1>1 DEF InHand
  <2>2. \A b \in InHand' : b \in InHand /\ b # con[c].block
    BY <1>13 DEF InHand
  <2>3. ASSUME NEW b \in InHand, b # con[c].block PROVE b \in InHand'
    <3>1. PICK d \in Consumers : con[d].step = "return" /\ con[d].block = b
      BY DEF InHand
    <3>2. con'[d] = con[d]
      BY <1>5, <2>3, <3>1 DEF Aside
    <3> QED BY <3>1, <3>2 DEF InHand
  <2> QED BY <2>1, <2>2, <2>3
<1>15. Apart(off)'
  <2>1. manager' \union heap' \union InHand' \union Held' = manager \union heap \union InHand \union Held
    BY <1>1, <1>9, <1>14
  <2>2. manager' \intersect heap' = {}
    BY <1>1, <1>2, <1>14 DEF Apart
  <2>3. (InHand' \union Held') \intersect (manager' \union heap') = {}
    BY <1>1, <1>2, <1>9, <1>14 DEF Apart
  <2>4. InHand' \intersect Held' = {}
    BY <1>2, <1>9, <1>14 DEF Apart
  <2>5. \A d, x \in Consumers :
          con'[d].step = "return" /\ con'[x].step = "return" /\ con'[d].block = con'[x].block => d = x
    BY <1>2, <1>13 DEF Apart
  <2>6. \A x, y \in Live : BlockOf(off, x) = BlockOf(off, y) => x = y
    BY <1>2 DEF Apart
  <2>7. \A x \in Live : BlockOf(off, x) \notin manager \union heap \union InHand \union Held
    BY <1>2 DEF Apart
  <2> QED BY <1>8, <1>9, <2>1, <2>2, <2>3, <2>4, <2>5, <2>6, <2>7 DEF Apart
<1>16. AllThere(off)'
  BY <1>1, <1>2, <1>8, <1>9, <1>14 DEF AllThere
<1>17. Counts(off)'
  <2>1. \A x : Marked(x)' = Marked(x)
    BY <1>1, <1>5, <1>6, SameUnmarked
  <2> QED BY <1>1, <1>2, <1>8, <1>9, <2>1 DEF Counts
<1>18. Placed(off)' /\ NothingElse(off)'
  <2>1. Objects' = Objects
    BY <1>1, <1>5, <1>6, <1>9, SameUntaken
  <2> QED BY <1>1, <1>2, <1>9, <2>1, ObjectsKept
<1> QED BY <1>7, <1>9, <1>11, <1>12, <1>15, <1>16, <1>17, <1>18 DEF Body, Consumption

-----------------------------------------------------------------------------
(* The queue between calls. *)

\* Between calls a position the queue holds is looked up where its block is.
LEMMA IdleLookup ==
    ASSUME TypeOK, NEW off, NEW nq, Body(off, nq), po.step = "idle",
           NEW p \in Int, Num(p) \in Live
    PROVE  BlockAt(p) = BlockOf(off, Num(p)) /\ BlockOf(off, Num(p)) \in Blocks
<1>1. /\ IndexOK /\ OffsetsOK(off, nq) /\ Listed(off, nq) /\ Aligned(off)
      /\ off \in [1 .. Cur -> Int] /\ nq \in Int /\ nq = Begun
      /\ Current.tail = Place(off, Cur, nq - 1)
  BY DEF Body, Index, OffsetsOK, TypeOK
<1>2. Num(p) \in Nat /\ Num(p) < nq
  <2>1. ~InCall
    BY DEF InCall
  <2>2. Num(p) \in Nat /\ Num(p) < Linked /\ Linked = Begun
    BY <2>1, LiveType, LinkedType
  <2> QED BY <1>1, <2>2
<1>3. nq - 1 \in Num(p) .. (nq - 1)
  BY <1>1, <1>2
<1>4. KeyOf(off, nq - 1) # InvalidBase
  BY <1>1, <1>3 DEF Listed
<1>5. EntryForIndex(p) = EntryOf(off, Cur, Num(p))
  BY <1>1, <1>4, LookupEntry
<1> QED BY <1>1, <1>5 DEF BlockAt, BlockOf, Value, Listed

\* The blocks of the published positions are live.
LEMMA PublishedLive ==
    ASSUME TypeOK, NEW off, NEW nq, Body(off, nq), NEW p \in HeadIndex .. (TailIndex - 1)
    PROVE  p \in Objects /\ p \in Nat /\ Num(p) \in Live
<1>1. Filled \in Int /\ TailIndex <= Filled
  <2>1. CASE po.step = "publish"
    <3>1. po.n \in Nat
      BY <2>1, InCallTypes DEF InCall
    <3> QED BY <2>1, <3>1 DEF Filled, TypeOK
  <2>2. CASE po.step # "publish"
    BY <2>2 DEF Filled, TypeOK
  <2> QED BY <2>1, <2>2
<1>2. p \in HeadIndex .. (Filled - 1)
  BY <1>1 DEF TypeOK
<1>3. p \in Objects
  BY <1>2 DEF Objects
<1> QED BY <1>3, ObjectsLive DEF Body, Consumption

\* When nobody is inside, a live block has a published item, or is the tail block
\* of an empty queue.
LEMMA QuietLive ==
    ASSUME TypeOK, NEW off, NEW nq, Body(off, nq), Quiescent, NEW q \in Live
    PROVE  \/ \E p \in HeadIndex .. (TailIndex - 1) : Num(p) = q
           \/ /\ HeadIndex = TailIndex /\ Off(TailIndex) # 0
              /\ q = Begun - 1 /\ BlockOf(off, q) = TailBlock
<1>1. q \in Nat /\ q < Begun /\ HeadIndex < Base(q + 1)
  <2>1. \A c \in Consumers : Busy(c) = {}
    BY DEF Quiescent, Busy, Calling
  <2>2. ~InCall
    BY DEF Quiescent, InCall
  <2> QED BY <2>1, <2>2, LiveType, LinkedType DEF Live
<1>2. /\ HeadIndex \in Nat /\ TailIndex \in Nat /\ HeadIndex <= TailIndex
      /\ Begun \in Nat /\ Begun # 0 /\ Base(Begun - 1) < TailIndex
      /\ Off(TailIndex) # 0 => Num(TailIndex) = Begun - 1
      /\ Off(TailIndex) = 0 => TailIndex = Base(Begun)
  BY <1>1, BegunIs DEF TypeOK
<1>3. Base(q) \in Int /\ Base(q + 1) \in Int /\ Num(Base(q)) = q
  BY <1>1, BaseStep
<1>4. Base(q) < TailIndex
  <2>1. Base(q) <= Base(Begun - 1) /\ Base(Begun - 1) \in Int
    <3>1. q <= Begun - 1 /\ Begun - 1 \in Int
      BY <1>1, <1>2
    <3> QED BY <1>1, <3>1, BaseMono
  <2> QED BY <1>2, <1>3, <2>1
<1>5. CASE HeadIndex <= Base(q)
  <2>1. Base(q) \in HeadIndex .. (TailIndex - 1)
    BY <1>2, <1>3, <1>4, <1>5
  <2> QED BY <1>3, <2>1
<1>6. CASE Base(q) < HeadIndex
  <2>1. Num(HeadIndex) = q
    <3>1. Num(HeadIndex) \in Int /\ HeadIndex \in Int
      BY <1>2, DivMod
    <3>2. Base(q) <= HeadIndex
      BY <1>2, <1>3, <1>6
    <3>3. q <= Num(HeadIndex) /\ Num(HeadIndex) <= q
      BY <1>1, <3>1, <3>2, NumBetween
    <3> QED BY <1>1, <3>1, <3>3
  <2>2. CASE HeadIndex < TailIndex
    <3>1. HeadIndex \in HeadIndex .. (TailIndex - 1)
      BY <1>2, <2>2
    <3> QED BY <2>1, <3>1
  <2>3. CASE HeadIndex = TailIndex
    <3>1. Off(TailIndex) # 0
      <4> SUFFICES ASSUME Off(TailIndex) = 0 PROVE FALSE
        OBVIOUS
      <4>1. HeadIndex = Base(Begun) /\ Num(Base(Begun)) = Begun
        BY <1>2, <2>3, BaseStep
      <4> QED BY <1>1, <1>2, <2>1, <4>1
    <3>2. q = Begun - 1
      BY <1>2, <2>1, <2>3, <3>1
    <3>3. TailBlock = BlockOf(off, Begun - 1)
      BY <3>1 DEF Body, CallOK, Quiescent
    <3> QED BY <2>3, <3>1, <3>2, <3>3
  <2> QED BY <1>2, <2>2, <2>3
<1> QED BY <1>2, <1>3, <1>5, <1>6

-----------------------------------------------------------------------------
(* What the invariant says of the properties. *)

LEMMA TakesOwn ==
    ASSUME IInv
    PROVE  TakesOwnItems
<1> SUFFICES ASSUME NEW c \in Consumers, con[c].step = "take"
             PROVE  /\ Block(c) \in Blocks
                    /\ \A r \in Run(c) : slots[Block(c)][r] = BaseOf(con[c].item) + r
  BY DEF TakesOwnItems
<1>1. po.step # "gone" /\ TypeOK
  BY DEF IInv, Gone
<1>2. PICK off, nq : Body(off, nq)
  BY <1>1 DEF IInv
<1>3. PICK q \in Nat : /\ q = Num(con[c].item) /\ BlockOf(off, q) \in Blocks
                       /\ Block(c) = BlockOf(off, q) /\ Calling(c) /\ con[c].need >= 1
  BY <1>1, <1>2, BlockFound
<1>4. PICK i \in Nat, k \in Nat, n \in {RunSize(c)} : i = con[c].item /\ k = con[c].need /\ n = RunSize(c)
  BY <1>1, <1>3, ConTypes
<1>5. /\ n \in 1 .. k
      /\ \A r \in Run(c) : /\ Base(q) + r \in i .. (i + n - 1)
                           /\ Num(Base(q) + r) = q /\ Off(Base(q) + r) = r
  BY <1>1, <1>3, <1>4, RunIs
<1>6. Untaken(c) = i .. (i + k - 1)
  <2>1. Untaken(c) = (i + 0) .. (i + k - 1)
    BY <1>1, <1>3, <1>4, UntakenIs
  <2>2. i + 0 = i
    BY <1>4
  <2> QED BY <2>1, <2>2
<1>7. ASSUME NEW r \in Run(c) PROVE slots[Block(c)][r] = Base(q) + r
  <2>1. PICK p \in i .. (i + n - 1) : p = Base(q) + r /\ Num(p) = q /\ Off(p) = r
    BY <1>5
  <2>2. p \in Untaken(c)
    <3>1. p \in i .. (i + k - 1)
      BY <1>4, <1>5
    <3> QED BY <1>6, <3>1
  <2>3. p \in Objects
    BY <2>2 DEF Objects
  <2> QED BY <1>2, <1>3, <2>1, <2>3 DEF Body, Placed
<1>8. BaseOf(con[c].item) = Base(q)
  BY <1>3, <1>4, BaseOfIs
<1> QED BY <1>3, <1>7, <1>8

LEMMA ItemsAreObjects ==
    ASSUME TypeOK, NEW off, NEW nq, Body(off, nq)
    PROVE  LiveItems = Objects
<1>1. Placed(off) /\ NothingElse(off) /\ ClaimsOK /\ CallOK(off) /\ Listed(off, nq)
  BY DEF Body, Index, Consumption
<1>2. ASSUME NEW p \in Objects PROVE p \in LiveItems
  <2>1. p \in Nat /\ Num(p) \in Live
    BY <1>1, ObjectsLive
  <2>2. BlockOf(off, Num(p)) \in Blocks /\ Off(p) \in Slots
    BY <1>1, <2>1, DivMod DEF Listed
  <2>3. slots[BlockOf(off, Num(p))][Off(p)] = p
    BY <1>1 DEF Placed
  <2> QED BY <2>1, <2>2, <2>3, RawAssumption DEF LiveItems
<1>3. ASSUME NEW x \in LiveItems PROVE x \in Objects
  BY <1>1 DEF LiveItems, NothingElse
<1> QED BY <1>2, <1>3

LEMMA LiveExact ==
    ASSUME IInv
    PROVE  LiveAreUntaken
<1>1. ASSUME po.step = "idle"
      PROVE  LiveItems = (HeadIndex .. (TailIndex - 1)) \union UNION {Untaken(c) : c \in Consumers}
  <2>1. PICK off, nq : Body(off, nq)
    BY <1>1 DEF IInv
  <2>2. Filled = TailIndex
    BY <1>1 DEF Filled, IInv, TypeOK
  <2>3. LiveItems = Objects
    BY <2>1, ItemsAreObjects DEF IInv
  <2> QED BY <2>2, <2>3 DEF Objects
<1>2. po.step = "gone" => LiveItems = {}
  BY DEF IInv, Gone
<1> QED BY <1>1, <1>2 DEF LiveAreUntaken

\* Between calls what the queue needs are the blocks of live entries.
LEMMA NeededLive ==
    ASSUME TypeOK, NEW off, NEW nq, Body(off, nq), po.step = "idle"
    PROVE  Needed \subseteq {BlockOf(off, q) : q \in Live}
<1> DEFINE L == {BlockOf(off, q) : q \in Live}
<1>1. ClaimsOK /\ CallOK(off)
  BY DEF Body, Consumption
<1>2. ASSUME NEW p \in HeadIndex .. (TailIndex - 1) PROVE BlockAt(p) \in L
  <2>1. p \in Int /\ Num(p) \in Live
    BY PublishedLive
  <2>2. BlockAt(p) = BlockOf(off, Num(p))
    BY <2>1, IdleLookup
  <2> QED BY <2>1, <2>2
<1>3. ASSUME NEW c \in Consumers, con[c].step \notin {"idle", "return"}
      PROVE  BlockAt(con[c].item) \in L
  <2>1. Calling(c)
    BY <1>3 DEF Calling
  <2>2. con[c].item \in Int
    BY <2>1, ConTypes
  <2>3. Num(con[c].item) \in Live
    BY <1>1, <1>3, <2>1, FirstBusy, BusyLive
  <2>4. BlockAt(con[c].item) = BlockOf(off, Num(con[c].item))
    BY <2>2, <2>3, IdleLookup
  <2> QED BY <2>3, <2>4
<1>4. ASSUME TailIndex % BlockSize # 0 PROVE TailBlock \in L
  <2>1. Off(TailIndex) # 0
    BY <1>4 DEF Off
  <2>2. Begun - 1 \in Live
    BY <2>1, TailLive
  <2>3. TailBlock = BlockOf(off, Begun - 1)
    BY <1>1, <2>1 DEF CallOK
  <2> QED BY <2>2, <2>3
<1> HIDE DEF L
<1>5. {BlockAt(p) : p \in HeadIndex .. (TailIndex - 1)} \subseteq L
  BY <1>2
<1>6. {BlockAt(con[c].item) : c \in {d \in Consumers : con[d].step \notin {"idle", "return"}}} \subseteq L
  BY <1>3
<1>7. (IF TailIndex % BlockSize = 0 THEN {} ELSE {TailBlock}) \subseteq L
  BY <1>4
<1>8. Needed \subseteq L
  BY <1>5, <1>6, <1>7 DEF Needed
<1> QED BY <1>8 DEF L

LEMMA QuietUses ==
    ASSUME TypeOK, NEW off, NEW nq, Body(off, nq), Quiescent
    PROVE  /\ InHand = {} /\ Held = {} /\ Objects = HeadIndex .. (TailIndex - 1)
           /\ Blocks = manager \union heap \union {BlockOf(off, q) : q \in Live}
           /\ \A q \in Live : BlockOf(off, q) \in Blocks \ (manager \union heap)
<1>1. InHand = {} /\ Held = {}
  BY DEF Quiescent, InHand, Held
<1>2. Objects = HeadIndex .. (TailIndex - 1)
  <2>1. \A c \in Consumers : Untaken(c) = {}
    BY DEF Quiescent, Untaken
  <2>2. UNION {Untaken(c) : c \in Consumers} = {}
    BY <2>1
  <2>3. Filled = TailIndex
    BY DEF Quiescent, Filled, TypeOK
  <2> QED BY <2>2, <2>3 DEF Objects
<1>3. \A q \in Live : BlockOf(off, q) \in Blocks \ (manager \union heap)
  BY DEF Body, Index, Listed, Apart
<1>4. \A b \in Blocks : b \in manager \union heap \/ \E q \in Live : b = BlockOf(off, q)
  BY <1>1 DEF Body, AllThere, Quiescent
<1>5. Blocks = manager \union heap \union {BlockOf(off, q) : q \in Live}
  BY <1>3, <1>4 DEF TypeOK
<1> QED BY <1>1, <1>2, <1>3, <1>5

LEMMA BlocksKept ==
    ASSUME IInv
    PROVE  BlocksAccounted
<1> SUFFICES ASSUME po.step = "idle"
             PROVE  /\ manager \intersect heap = {}
                    /\ (Needed \union InHand) \intersect (manager \union heap) = {}
                    /\ Quiescent => Needed \union manager \union heap = Blocks
  BY DEF BlocksAccounted
<1>1. TypeOK
  BY DEF IInv
<1>2. PICK off, nq : Body(off, nq)
  BY DEF IInv
<1>3. /\ manager \intersect heap = {} /\ InHand \intersect (manager \union heap) = {}
      /\ \A q \in Live : BlockOf(off, q) \notin manager \union heap
  BY <1>2 DEF Body, Apart
<1>4. Needed \subseteq {BlockOf(off, q) : q \in Live}
  BY <1>1, <1>2, NeededLive
<1>5. ASSUME Quiescent PROVE Needed \union manager \union heap = Blocks
  <2>1. Blocks = manager \union heap \union {BlockOf(off, q) : q \in Live}
    BY <1>1, <1>2, <1>5, QuietUses
  <2>2. ASSUME NEW q \in Live PROVE BlockOf(off, q) \in Needed
    <3>1. CASE \E p \in HeadIndex .. (TailIndex - 1) : Num(p) = q
      <4>1. PICK p \in HeadIndex .. (TailIndex - 1) : Num(p) = q
        BY <3>1
      <4>2. p \in Int
        BY <1>1 DEF TypeOK
      <4>3. BlockAt(p) = BlockOf(off, q)
        BY <1>1, <1>2, <4>1, <4>2, IdleLookup
      <4> QED BY <4>3 DEF Needed
    <3>2. CASE Off(TailIndex) # 0 /\ BlockOf(off, q) = TailBlock
      BY <3>2 DEF Needed, Off
    <3> QED BY <1>1, <1>2, <1>5, <3>1, <3>2, QuietLive
  <2> QED BY <1>4, <2>1, <2>2
<1> QED BY <1>3, <1>4, <1>5

\* Two positions at which Clear returns a block are in different blocks.
LEMMA TurnsApart ==
    ASSUME TypeOK, NEW p \in Turns, NEW r \in Turns, p < r
    PROVE  Num(p) # Num(r)
<1>1. /\ p \in Int /\ r \in Int /\ r <= TailIndex - 1 /\ TailIndex \in Nat
      /\ Off(p) = BlockSize - 1 \/ p = TailIndex - 1
  BY DEF Turns, TypeOK, Off
<1>2. Off(p) = BlockSize - 1
  BY <1>1
<1>3. Num(p) \in Int /\ Num(r) \in Int /\ p = Base(Num(p)) + (BlockSize - 1)
  BY <1>1, <1>2, DivMod
<1>4. Base(Num(p)) \in Int /\ Base(Num(p) + 1) = Base(Num(p)) + BlockSize
  BY <1>3, BaseStep
<1>5. Base(Num(p) + 1) <= r
  BY <1>1, <1>3, <1>4, SizesAssumption
<1>6. ~(Num(r) <= Num(p))
  BY <1>1, <1>3, <1>4, <1>5, NumBetween, SizesAssumption
<1> QED BY <1>3, <1>6

\* Each block with an item has such a position.
LEMMA TurnOf ==
    ASSUME TypeOK, NEW p \in HeadIndex .. (TailIndex - 1)
    PROVE  \E t \in Turns : Num(t) = Num(p)
<1> DEFINE q == Num(p)
           last == Base(q) + (BlockSize - 1)
<1>1. HeadIndex \in Nat /\ TailIndex \in Nat /\ p \in Int
  BY DEF TypeOK
<1>2. q \in Int /\ Base(q) \in Int /\ Base(q + 1) = Base(q) + BlockSize
  BY <1>1, DivMod, BaseStep
<1>3. Base(q) <= p /\ p < Base(q + 1)
  <2>1. Base(q) <= p <=> q <= Num(p)
    BY <1>1, <1>2, NumBetween
  <2>2. p < Base(q + 1) <=> Num(p) <= q
    BY <1>1, <1>2, NumBetween
  <2> QED BY <1>2, <2>1, <2>2
<1>4. BlockSize - 1 \in Slots
  BY SizesAssumption DEF Slots
<1>5. Num(last) = q /\ Off(last) = BlockSize - 1 /\ last \in Int
  BY <1>2, <1>4, NumOf DEF Slots
<1> HIDE DEF q
<1>6. CASE last < TailIndex
  <2>1. last \in Turns
    BY <1>1, <1>2, <1>3, <1>5, <1>6, SizesAssumption DEF Turns, Off
  <2> QED BY <1>5, <2>1 DEF q
<1>7. CASE ~(last < TailIndex)
  <2>1. TailIndex - 1 \in Turns /\ TailIndex - 1 \in Int /\ p <= TailIndex - 1
    BY <1>1 DEF Turns
  <2>2. Base(q) <= TailIndex - 1 /\ TailIndex - 1 < Base(q + 1)
    BY <1>1, <1>2, <1>3, <1>7, SizesAssumption
  <2>3. Num(TailIndex - 1) \in Int
    BY <2>1, DivMod
  <2>4. q <= Num(TailIndex - 1) /\ Num(TailIndex - 1) <= q
    BY <1>2, <2>1, <2>2, NumBetween
  <2>5. Num(TailIndex - 1) = q
    BY <1>2, <2>3, <2>4
  <2> QED BY <2>1, <2>5 DEF q
<1> QED BY <1>6, <1>7

LEMMA ClearGivesBack ==
    ASSUME IInv
    PROVE  ClearReturnsBlocks
<1>1. ReturnsAll
  BY DEF IInv, Gone, ReturnsAll
<1>2. ASSUME Quiescent, NEW p \in Turns
      PROVE  /\ BlockAt(p) \in Blocks \ (manager \union heap)
             /\ \A r \in Turns \ {p} : BlockAt(r) # BlockAt(p)
  <2>1. TypeOK /\ po.step = "idle"
    BY <1>2 DEF IInv, Quiescent
  <2>2. PICK off, nq : Body(off, nq)
    BY <2>1 DEF IInv
  <2>3. ASSUME NEW r \in Turns
        PROVE  r \in Int /\ Num(r) \in Live /\ BlockAt(r) = BlockOf(off, Num(r))
    <3>1. r \in HeadIndex .. (TailIndex - 1)
      BY DEF Turns
    <3>2. r \in Int /\ Num(r) \in Live
      BY <2>1, <2>2, <3>1, PublishedLive
    <3> QED BY <2>1, <2>2, <3>2, IdleLookup
  <2>4. BlockAt(p) \in Blocks \ (manager \union heap)
    BY <1>2, <2>1, <2>2, <2>3, QuietUses
  <2>5. ASSUME NEW r \in Turns \ {p} PROVE BlockAt(r) # BlockAt(p)
    <3>1. r \in Int /\ p \in Int
      BY <1>2, <2>3
    <3>2. p < r \/ r < p
      BY <3>1
    <3>3. Num(r) # Num(p)
      BY <1>2, <2>1, <3>2, TurnsApart
    <3>4. Apart(off)
      BY <2>2 DEF Body
    <3> QED BY <1>2, <2>3, <3>3, <3>4 DEF Apart
  <2> QED BY <2>4, <2>5
<1>3. ReturnsEachOnce
  BY <1>2 DEF ReturnsEachOnce
<1> QED BY <1>1, <1>3 DEF ClearReturnsBlocks

-----------------------------------------------------------------------------
(* Clear. *)

LEMMA DoClear ==
    ASSUME TypeOK, NEW off, NEW nq, Body(off, nq), Clear
    PROVE  TypeOK' /\ Gone' /\ po'.step = "gone"
<1> DEFINE W == {<<BlockAt(p), p % BlockSize>> : p \in HeadIndex .. (TailIndex - 1)}
           L == {BlockOf(off, q) : q \in Live}
<1>1. /\ Quiescent /\ po.step = "idle" /\ slots' = Destroyed(W) /\ manager' = manager \union Returned
      /\ po' = [step |-> "gone"]
      /\ UNCHANGED <<HeadIndex, TailIndex, TailBlock, emptied, arrays, entries, heap, con>>
  BY DEF Clear, index, Quiescent
<1>2. /\ Blocks = manager \union heap \union L /\ Objects = HeadIndex .. (TailIndex - 1)
      /\ \A q \in Live : BlockOf(off, q) \in Blocks \ (manager \union heap)
  BY <1>1, QuietUses
<1>3. \A p \in HeadIndex .. (TailIndex - 1) :
         p \in Nat /\ Num(p) \in Live /\ BlockAt(p) = BlockOf(off, Num(p))
  <2> SUFFICES ASSUME NEW p \in HeadIndex .. (TailIndex - 1)
               PROVE  p \in Nat /\ Num(p) \in Live /\ BlockAt(p) = BlockOf(off, Num(p))
    OBVIOUS
  <2>1. p \in Nat /\ Num(p) \in Live
    BY PublishedLive
  <2> QED BY <1>1, <2>1, IdleLookup
<1>4. Returned \subseteq L
  BY <1>3 DEF Returned, Turns
<1>5. slots' \in [Blocks -> [Slots -> Nat \union {Raw}]]
  BY <1>1 DEF Destroyed, TypeOK
<1>6. TypeOK'
  <2>1. manager' \subseteq Blocks
    BY <1>1, <1>2, <1>4
  <2>2. po'.step = "gone" /\ po' \in [step : {"idle", "stopped", "gone"}] \union Calls
    BY <1>1
  <2>3. IndexOK'
    BY <1>1 DEF TypeOK, IndexOK, Cur
  <2> QED BY <1>1, <1>5, <2>1, <2>2, <2>3 DEF TypeOK
<1>7. ASSUME NEW b \in Blocks, NEW i \in Slots PROVE slots'[b][i] = Raw
  <2>1. slots'[b][i] = IF <<b, i>> \in W THEN Raw ELSE slots[b][i]
    BY <1>1 DEF Destroyed
  <2>2. ASSUME slots[b][i] # Raw PROVE <<b, i>> \in W
    <3> HIDE DEF W, L
    <3>1. NothingElse(off)
      BY DEF Body
    <3>2. PICK p \in Objects : p = slots[b][i] /\ b = BlockOf(off, Num(p)) /\ i = Off(p)
      BY <2>2, <3>1 DEF NothingElse
    <3>3. p \in HeadIndex .. (TailIndex - 1)
      BY <1>2
    <3>4. b = BlockAt(p)
      BY <1>3, <3>2, <3>3
    <3>5. i = p % BlockSize
      BY <3>2 DEF Off
    <3> QED BY <3>3, <3>4, <3>5 DEF W
  <2> HIDE DEF W
  <2> QED BY <2>1, <2>2
<1>8. LiveItems' = {}
  BY <1>7 DEF LiveItems
<1>9. ReturnsAll'
  <2> SUFFICES ASSUME HeadIndex # TailIndex \/ TailIndex % BlockSize = 0
               PROVE  manager' \union heap' = Blocks
    BY <1>1 DEF ReturnsAll
  <2>1. manager' \union heap' = manager \union heap \union Returned
    BY <1>1
  <2>2. ASSUME NEW q \in Live PROVE BlockOf(off, q) \in Returned
    <3>1. PICK p \in HeadIndex .. (TailIndex - 1) : Num(p) = q
      BY <1>1, QuietLive DEF Off
    <3>2. PICK t \in Turns : Num(t) = q
      BY <3>1, TurnOf
    <3> QED BY <1>3, <3>2 DEF Returned, Turns
  <2>3. Returned = L
    BY <1>4, <2>2
  <2> QED BY <1>2, <2>1, <2>3
<1>10. \A c \in Consumers : con'[c].step = "idle"
  BY <1>1 DEF Quiescent
<1> QED BY <1>1, <1>6, <1>8, <1>9, <1>10 DEF Gone

-----------------------------------------------------------------------------
(* The initial states. *)

LEMMA InitBody ==
    ASSUME Init
    PROVE  TypeOK /\ po.step = "idle" /\ \E off, nq : Body(off, nq)
<1> DEFINE s == InitialIndexSize
<1>1. PICK off : off = [i \in 1 .. 1 |-> 0]
  OBVIOUS
<1>2. /\ s \in Nat \ {0, 1} /\ Cur = 1 /\ Current = arrays[1]
      /\ arrays[1] = [size |-> s, tail |-> s - 1, at |-> [k \in 0 .. (s - 1) |-> k + 1]]
      /\ arrays[1].size = s /\ arrays[1].tail = s - 1
      /\ arrays[1].at = [k \in 0 .. (s - 1) |-> k + 1]
      /\ entries = [e \in 1 .. s |-> FreshEntry]
  BY SizesAssumption DEF Init, Cur, Current
<1>3. /\ entries \in Seq(EntryRecs) /\ Len(entries) = s /\ FreshEntry \in EntryRecs
      /\ \A e \in 1 .. s : Key(e) = InvalidBase /\ Value(e) = NoBlock
  <2>1. FreshEntry \in EntryRecs /\ FreshEntry.key = InvalidBase /\ FreshEntry.value = NoBlock
    BY DEF FreshEntry, EntryRecs, InvalidBase
  <2> QED BY <1>2, <2>1 DEF Key, Value
<1>4. IndexOK
  <2>1. arrays[1].at \in [0 .. (s - 1) -> 1 .. s]
    BY <1>2
  <2>2. [0 .. (s - 1) -> Nat] \in {[0 .. (n - 1) -> Nat] : n \in Nat}
    BY <1>2
  <2>3. arrays[1].at \in Indices
    <3>1. arrays[1].at \in [0 .. (s - 1) -> Nat]
      BY <1>2
    <3> QED BY <2>2, <3>1 DEF Indices
  <2>4. arrays[1] \in ArrayRecs
    <3>1. arrays[1] = [size |-> s, tail |-> s - 1, at |-> arrays[1].at]
      BY <1>2
    <3>2. s \in Nat \ {0} /\ s - 1 \in Nat
      BY <1>2
    <3> HIDE DEF s
    <3> QED BY <2>3, <3>1, <3>2 DEF ArrayRecs
  <2>5. arrays \in Seq(ArrayRecs)
    <3>1. PICK a \in ArrayRecs : a = arrays[1]
      BY <2>4
    <3>2. arrays = <<a>>
      BY <3>1 DEF Init
    <3> QED BY <3>2
  <2>6. arrays[1].tail \in 0 .. (arrays[1].size - 1)
    BY <1>2
  <2>7. ASSUME NEW i \in 1 .. Cur
        PROVE  /\ arrays[i].tail \in 0 .. (arrays[i].size - 1)
               /\ arrays[i].at \in [0 .. (arrays[i].size - 1) -> 1 .. Len(entries)]
    <3>1. i = 1
      BY <1>2
    <3> QED BY <1>2, <1>3, <2>1, <2>6, <3>1
  <2>8. Cur >= 1
    BY <1>2
  <2>9. entries \in Seq(EntryRecs)
    BY <1>3
  <2> QED BY <2>5, <2>7, <2>8, <2>9 DEF IndexOK
<1>5. /\ HeadIndex = 0 /\ TailIndex = 0 /\ TailBlock = NoBlock /\ po = NoCall /\ po.step = "idle"
      /\ \A c \in Consumers : con[c] = NoCall /\ con[c].step = "idle"
      /\ manager = PoolBlocks /\ heap = Blocks \ PoolBlocks
      /\ \A b \in Blocks, i \in Slots : slots[b][i] = Raw
      /\ con = [c \in Consumers |-> NoCall]
  BY DEF Init, NoCall
<1>6. TypeOK
  <2>1. con \in [Consumers -> {NoCall} \union Lookups]
    BY <1>5
  <2>2. emptied \in [Blocks -> Nat] /\ slots \in [Blocks -> [Slots -> Nat \union {Raw}]]
    BY DEF Init
  <2>3. po \in [step : {"idle", "stopped", "gone"}] \union Calls
    BY <1>5 DEF NoCall
  <2> QED BY <1>4, <1>5, <2>1, <2>2, <2>3, SizesAssumption DEF TypeOK
<1>7. Begun = 0 /\ Linked = 0 /\ Off(TailIndex) = 0 /\ Filled = 0
  <2>1. Num(0 - 1) = -1 /\ Off(0) = 0
    BY SizesAssumption DEF Num, Off
  <2>2. Begun = 0
    BY <1>5, <2>1 DEF Begun
  <2> QED BY <1>5, <2>1, <2>2 DEF Linked, InCall, Filled
<1>8. Live = {}
  BY <1>7 DEF Live
<1>9. \A c \in Consumers : ~Calling(c) /\ Untaken(c) = {}
  BY <1>5 DEF Calling, Untaken
<1>10. Objects = {}
  BY <1>5, <1>7, <1>9 DEF Objects
<1>11. InHand = {} /\ Held = {} /\ Leaving = {} /\ ~InCall
  BY <1>5 DEF InHand, Held, Leaving, InCall
<1>12. off \in [1 .. Cur -> Int] /\ off[1] = 0 /\ 1 \in 1 .. Cur
  BY <1>1, <1>2
<1>13. \A q \in Int : EntryOf(off, 1, q) \in 1 .. s
  BY <1>2, <1>3, <1>4, <1>12, PlaceType
<1>14. OffsetsOK(off, 0)
  <2>1. Place(off, Cur, 0 - 1) = s - 1
    <3>1. s - 1 \in 0 .. (s - 1) /\ s \in Nat \ {0}
      BY <1>2
    <3>2. ((-1) * s + (s - 1)) % s = s - 1
      BY <3>1, ModUnique, -1 \in Int
    <3>3. (-1) * s + (s - 1) = -1 /\ (0 - 1) - 0 = -1
      BY <1>2
    <3>4. Place(off, Cur, 0 - 1) = ((0 - 1) - 0) % s
      BY <1>2, <1>12 DEF Place
    <3> QED BY <3>2, <3>3, <3>4
  <2> QED BY <1>2, <1>5, <1>7, <1>12, <2>1 DEF OffsetsOK
<1>15. Aligned(off)
  BY <1>2, <1>3 DEF Aligned
<1>16. Agree(off)
  <2> SUFFICES ASSUME NEW k \in 0 .. (s - 1), NEW q \in Int, arrays[1].at[k] = EntryOf(off, 1, q)
               PROVE  k = Place(off, 1, q)
    BY <1>2 DEF Agree
  <2>1. Place(off, 1, q) \in 0 .. (s - 1)
    BY <1>2, <1>4, <1>12, PlaceType
  <2> QED BY <1>2, <2>1 DEF EntryOf
<1>17. Window(off, 0)
  BY <1>2, <1>3, <1>13 DEF Window, KeyOf
<1>18. Index(off, 0)
  BY <1>5, <1>8, <1>14, <1>15, <1>16, <1>17 DEF Index, Listed, Underway
<1>19. CallOK(off)
  BY <1>5, <1>7, <1>11 DEF CallOK
<1>20. Consumption(off)
  BY <1>5, <1>9 DEF Consumption, ClaimsOK, LastOut, Knows
<1>21. Apart(off) /\ AllThere(off)
  BY <1>5, <1>8, <1>11 DEF Apart, AllThere
<1>22. Occupied(off)
  BY <1>2, <1>3, <1>13 DEF Occupied, BlockOf
<1>23. Counts(off) /\ Placed(off) /\ NothingElse(off)
  BY <1>5, <1>8, <1>10 DEF Counts, Placed, NothingElse
<1>24. Body(off, 0)
  BY <1>18, <1>19, <1>20, <1>21, <1>22, <1>23 DEF Body
<1> QED BY <1>5, <1>6, <1>24

-----------------------------------------------------------------------------
(* The steps. *)

LEMMA ProducerKeeps ==
    ASSUME "retry" \notin Faults, TypeOK, NEW off, NEW nq, Body(off, nq), ProducerStep
    PROVE  TypeOK' /\ \E o, m : Body(o, m)'
<1>1. CASE EnqueueInner
  BY <1>1, DoEnqueueInner
<1>2. ASSUME NEW mode \in Modes, EnqueueBoundary(mode)
      PROVE  TypeOK' /\ \E o, m : Body(o, m)'
  BY <1>2, DoEnqueueBoundary
<1>3. ASSUME NEW mode \in Modes, NEW n \in BulkCounts, BulkStart(mode, n)
      PROVE  TypeOK' /\ \E o, m : Body(o, m)'
  BY <1>3, DoBulkStart
<1>4. CASE InsertKey
  BY <1>4, DoInsertKey
<1>5. CASE InsertGrows
  <2>1. PICK n : n = Cur + 1
    OBVIOUS
  <2>2. PICK off2 : off2 = [i \in 1 .. n |-> IF i = n THEN nq - Current.size ELSE off[i]]
    OBVIOUS
  <2>3. TypeOK' /\ Body(off2, nq)'
    BY <1>5, <2>1, <2>2, DoInsertGrows
  <2> QED BY <2>3
<1>6. CASE InsertTail
  <2>1. PICK m : m = nq + 1
    OBVIOUS
  <2>2. TypeOK' /\ Body(off, m)'
    BY <1>6, <2>1, DoInsertTail
  <2> QED BY <2>2
<1>7. CASE InsertFails
  BY <1>7, DoInsertFails
<1>8. CASE RequireBlock
  BY <1>8, DoRequireBlock
<1>9. PICK m : m = nq - 1
  OBVIOUS
<1>10. CASE RequireFails
  <2>1. TypeOK' /\ Body(off, m)'
    BY <1>9, <1>10, DoRequireFails
  <2> QED BY <2>1
<1>11. CASE RequireThrows
  BY <1>11, DoRequireThrows
<1>12. CASE LinkBlock
  BY <1>12, DoLinkBlock
<1>13. CASE ConstructThrows
  <2>1. TypeOK' /\ Body(off, m)'
    BY <1>9, <1>13, DoConstructThrows
  <2> QED BY <2>1
<1>14. CASE BulkFill
  BY <1>14, DoBulkFill
<1>15. CASE BulkThrows
  BY <1>15, DoBulkThrows
<1>16. CASE RollBackEntry
  <2>1. TypeOK' /\ Body(off, m)'
    BY <1>9, <1>16, DoRollBackEntry
  <2> QED BY <2>1
<1>17. CASE RollBackBlocks
  BY <1>17, DoRollBackBlocks
<1>18. CASE Publish
  BY <1>18, DoPublish
<1> QED BY <1>1, <1>2, <1>3, <1>4, <1>5, <1>6, <1>7, <1>8, <1>10, <1>11, <1>12, <1>13, <1>14,
           <1>15, <1>16, <1>17, <1>18 DEF ProducerStep

LEMMA ConsumerKeepsBody ==
    ASSUME TypeOK, NEW off, NEW nq, Body(off, nq), NEW c \in Consumers, ConsumerStep(c)
    PROVE  TypeOK' /\ Body(off, nq)'
<1>1. ASSUME NEW n \in ClaimCounts, Claim(c, n)
      PROVE  TypeOK' /\ Body(off, nq)'
  BY <1>1, DoClaim
<1>2. CASE LoadArray(c)
  BY <1>2, DoLoadArray
<1>3. CASE LoadTail(c)
  BY <1>3, DoLoadTail
<1>4. CASE LoadKey(c)
  BY <1>4, DoLoadKey
<1>5. CASE TakeRun(c)
  BY <1>5, DoTakeRun
<1>6. CASE SetEmpty(c)
  BY <1>6, DoSetEmpty
<1>7. CASE SetLastEmpty(c)
  BY <1>7, DoSetLastEmpty
<1>8. CASE ClearEntry(c)
  BY <1>8, DoClearEntry
<1>9. CASE ReturnBlock(c)
  BY <1>9, DoReturnBlock
<1> QED BY <1>1, <1>2, <1>3, <1>4, <1>5, <1>6, <1>7, <1>8, <1>9 DEF ConsumerStep

\* Only Clear ends the queue, and nothing happens after it.
LEMMA StillThere ==
    ASSUME TypeOK
    PROVE  /\ ProducerStep => po.step # "gone" /\ po'.step # "gone"
           /\ \A c \in Consumers : ConsumerStep(c) => po' = po
<1>1. po.step \in CallSteps => po \in Calls
  BY CallTypes
<1>2. NoCall.step = "idle" /\ (po.step \in CallSteps => GivenUp.step # "gone")
  BY <1>1 DEF NoCall, GivenUp, Calls
<1>3. ASSUME ProducerStep PROVE po.step # "gone" /\ po'.step # "gone"
  <2>1. CASE EnqueueInner
    BY <2>1 DEF EnqueueInner
  <2>2. ASSUME NEW mode \in Modes, EnqueueBoundary(mode) PROVE po.step # "gone" /\ po'.step # "gone"
    BY <2>2 DEF EnqueueBoundary, Begin
  <2>3. ASSUME NEW mode \in Modes, NEW n \in BulkCounts, BulkStart(mode, n)
        PROVE  po.step # "gone" /\ po'.step # "gone"
    <3>1. /\ po.step = "idle"
          /\ \E need, base : po' = [step |-> IF need > 0 THEN "insert" ELSE "fill", bulk |-> TRUE,
              mode |-> mode, n |-> n, need |-> need, base |-> base,
              old |-> TailBlock, block |-> NoBlock, taken |-> <<>>]
      BY <2>3 DEF BulkStart, Begin
    <3> QED BY <3>1
  <2>4. CASE InsertKey \/ InsertTail \/ RequireBlock \/ BulkFill \/ RollBackEntry
    BY <1>1, <2>4 DEF InsertKey, InsertTail, RequireBlock, BulkFill, RollBackEntry, CallSteps, Calls
  <2>5. CASE InsertGrows
    BY <2>5 DEF InsertGrows
  <2>6. CASE InsertFails \/ RequireFails \/ BulkThrows
    BY <1>2, <2>6 DEF InsertFails, RequireFails, BulkThrows, CallSteps
  <2>7. CASE RequireThrows \/ ConstructThrows \/ RollBackBlocks \/ Publish
    BY <1>2, <2>7 DEF RequireThrows, ConstructThrows, RollBackBlocks, Publish
  <2>8. CASE LinkBlock
    <3>1. PICK r : r = po'
      OBVIOUS
    <3>2. po.step = "link" /\ po \in Calls
      BY <1>1, <2>8 DEF LinkBlock, CallSteps
    <3> QED BY <2>8, <3>2 DEF LinkBlock, Calls
  <2> QED BY <1>3, <2>1, <2>2, <2>3, <2>4, <2>5, <2>6, <2>7, <2>8 DEF ProducerStep
<1>4. ASSUME NEW c \in Consumers, ConsumerStep(c) PROVE po' = po
  BY <1>4 DEF ConsumerStep, Claim, LoadArray, LoadTail, LoadKey, TakeRun, SetEmpty, SetLastEmpty,
              ClearEntry, ReturnBlock
<1> QED BY <1>3, <1>4

-----------------------------------------------------------------------------
(* The invariant and the properties. *)

LEMMA InitInv == Init => IInv
BY InitBody DEF IInv

LEMMA GoneStays ==
    ASSUME TypeOK, po.step = "gone", Gone, [Next]_vars
    PROVE  UNCHANGED vars
<1>1. ~ProducerStep
  BY StillThere
<1>2. ~Clear
  BY DEF Clear, Quiescent
<1>3. ASSUME NEW c \in Consumers PROVE ~ConsumerStep(c)
  BY DEF Gone, ConsumerStep, Claim, LoadArray, LoadTail, LoadKey, TakeRun, SetEmpty, SetLastEmpty,
         ClearEntry, ReturnBlock
<1> QED BY <1>1, <1>2, <1>3 DEF Next

LEMMA Stutter ==
    ASSUME UNCHANGED vars, IInv
    PROVE  IInv'
<1>1. UNCHANGED <<HeadIndex, TailIndex, TailBlock, emptied, slots, entries, arrays, manager, heap, po, con>>
  BY DEF vars, blocks, index, supply
<1>2. TypeOK' = TypeOK
  BY <1>1 DEF TypeOK, IndexOK, Cur
<1>3. Gone' = Gone
  BY <1>1 DEF Gone, LiveItems, ReturnsAll
<1>4. ASSUME NEW off, NEW nq, Body(off, nq) PROVE Body(off, nq)'
  <2>1. /\ Current' = Current /\ Cur' = Cur /\ Begun' = Begun /\ Linked' = Linked /\ InCall' = InCall
        /\ Taking' = Taking /\ Leaving' = Leaving /\ Filled' = Filled /\ Held' = Held /\ InHand' = InHand
    BY <1>1 DEF Current, Cur, Begun, Linked, InCall, Taking, Leaving, Filled, Held, InHand
  <2>2. \A c \in Consumers : /\ Calling(c)' = Calling(c) /\ Busy(c)' = Busy(c)
                             /\ Unmarked(c)' = Unmarked(c) /\ Untaken(c)' = Untaken(c)
    BY <1>1, ProducerViews
  <2>3. Live' = Live /\ Objects' = Objects /\ \A q : Marked(q)' = Marked(q)
    BY <1>1, <2>1, <2>2, ProducerViews DEF Live, Objects, Marked
  <2>4. /\ OffsetsOK(off, nq)' = OffsetsOK(off, nq) /\ Aligned(off)' = Aligned(off)
        /\ Agree(off)' = Agree(off)
    BY <1>1, <2>1 DEF OffsetsOK, Aligned, Agree, EntryOf, Place, Key
  <2>5. Listed(off, nq)' = Listed(off, nq) /\ Underway(off, nq)' = Underway(off, nq)
        /\ Window(off, nq)' = Window(off, nq)
    BY <1>1, <2>1, <2>3 DEF Listed, Underway, Window, KeyOf, BlockOf, EntryOf, Place, Key, Value
  <2>6. CallOK(off)' = CallOK(off) /\ Occupied(off)' = Occupied(off)
    BY <1>1, <2>1, <2>3 DEF CallOK, Occupied, BlockOf, EntryOf, Place, Value
  <2>7. Consumption(off)'
    BY <1>1, <1>4, StillConsumption DEF IInv
  <2>8. Apart(off)' = Apart(off) /\ AllThere(off)' = AllThere(off) /\ Counts(off)' = Counts(off)
    <3>1. \A q : BlockOf(off, q)' = BlockOf(off, q)
      BY <1>1 DEF BlockOf, EntryOf, Place, Value, Cur
    <3>2. Apart(off)' = Apart(off)
      BY <1>1, <2>1, <2>3, <3>1 DEF Apart
    <3>3. AllThere(off)' = AllThere(off)
      BY <1>1, <2>1, <2>3, <3>1 DEF AllThere
    <3>4. Counts(off)' = Counts(off)
      BY <1>1, <2>3, <3>1 DEF Counts
    <3> QED BY <3>2, <3>3, <3>4
  <2>9. Placed(off)' = Placed(off) /\ NothingElse(off)' = NothingElse(off)
    BY <1>1, <2>3 DEF Placed, NothingElse, BlockOf, EntryOf, Place, Value, Cur
  <2> QED BY <1>4, <2>4, <2>5, <2>6, <2>7, <2>8, <2>9 DEF Body, Index
<1> QED BY <1>1, <1>2, <1>3, <1>4 DEF IInv

LEMMA NextInv ==
    ASSUME "retry" \notin Faults, IInv, [Next]_vars
    PROVE  IInv'
<1>1. CASE UNCHANGED vars
  BY <1>1, Stutter
<1>2. CASE po.step = "gone"
  BY <1>2, GoneStays, Stutter DEF IInv
<1>3. CASE po.step # "gone" /\ Next
  <2>1. TypeOK
    BY DEF IInv
  <2>2. PICK off, nq : Body(off, nq)
    BY <1>3 DEF IInv
  <2>3. CASE ProducerStep
    BY <2>1, <2>2, <2>3, ProducerKeeps, StillThere DEF IInv
  <2>4. ASSUME NEW c \in Consumers, ConsumerStep(c) PROVE IInv'
    <3>1. TypeOK' /\ Body(off, nq)'
      BY <2>1, <2>2, <2>4, ConsumerKeepsBody
    <3>2. po' = po
      BY <2>1, <2>4, StillThere
    <3> QED BY <1>3, <3>1, <3>2 DEF IInv
  <2>5. CASE Clear
    BY <2>1, <2>2, <2>5, DoClear DEF IInv
  <2> QED BY <1>3, <2>3, <2>4, <2>5 DEF Next
<1> QED BY <1>1, <1>2, <1>3

\* For any consumers, blocks and sizes, whatever allocations and constructors fail:
\* the invariant holds, as long as the producer does not go on after a bad_alloc
\* that RequisitionBlock let out.
THEOREM Invariance ==
    ASSUME "retry" \notin Faults PROVE Spec => []IInv
BY InitInv, NextInv, PTL DEF Spec

\* For any consumers, blocks and sizes: a consumer that looked its entry up, in
\* whatever array and from whatever tail it saw, has the block with exactly the
\* items it claimed, while the producer reuses, copies and rewinds entries.
THEOREM FindsOwnItems ==
    ASSUME "retry" \notin Faults PROVE Spec => []TakesOwnItems
BY Invariance, TakesOwn, PTL

\* For any consumers, blocks and sizes: a call of the producer that fails or
\* throws leaves no object of its own and destroys no other, no consumer takes an
\* item twice or leaves one, and Clear destroys what is left.
THEOREM ObjectsExact ==
    ASSUME "retry" \notin Faults PROVE Spec => []LiveAreUntaken
BY Invariance, LiveExact, PTL

\* For any consumers, blocks and sizes: exactly one consumer returns a block that
\* is done with, none that is in use, and a call that is rolled back its own.
THEOREM NoBlockLost ==
    ASSUME "retry" \notin Faults PROVE Spec => []BlocksAccounted
BY Invariance, BlocksKept, PTL

\* For any consumers, blocks and sizes: Clear returns each block that has items
\* once and no other, and there are none besides where the queue had an item or
\* its last block was full.
THEOREM ClearComplete ==
    ASSUME "retry" \notin Faults PROVE Spec => []ClearReturnsBlocks
BY Invariance, ClearGivesBack, PTL
=============================================================================
