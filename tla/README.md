# A TLA+ verification of LockFreeQueue

LockFreeQueue is a header-only C++ library: a multi-producer multi-consumer
queue (`ConcurrentQueue/`), a single-producer single-consumer queue with a
blocking variant (`ReaderWriterQueue/`), and the lock-free parts they are built
from. This directory holds models of these parts, the TLC configurations that
check them on small instances, and theorems that TLAPS proves for every
instance. `PROJECT.json` lists the components, the runs, what each definition
models (file and lines), the hazards and the findings.

Contents: 1 inventory, 2 modules, 3 runs, 4 fairness, 5 proofs, 6 where the code
and its comments or tests disagree, 7 what is not modelled, 8 plan.

Short names: CQ = `src/ConcurrentQueue/ConcurrentQueue.h`, BM =
`src/ConcurrentQueue/BlockManager.h`, BL = `src/ConcurrentQueue/Block.h`, HT =
`src/ConcurrentQueue/HashTable.h`, RW =
`src/ReaderWriterQueue/readerwriterqueue.h`, UT = `src/common/utility.h`.

## 1 Inventory

| component | state | operations | what is hard | what makes it correct |
|---|---|---|---|---|
| `_QueueBase` (CQ 82-146) | `HeadIndex`, `TailIndex`, `DequeueAttemptsCount`, `DequeueFailedCount` | the claim protocol inside every `Dequeue` and `DequeueBulk` | three tests on relaxed loads, two fetch-adds and a third unconditional one; other consumers are in between | no position past the tail is claimed, each ticket is settled once, what was given back is counted |
| `FastQueue` (CQ 150-748) | ring of blocks behind `TailBlock`, the index array of (base, block), `PO_NextIndexEntry`, `PO_IndexEntriesUsed` | `Enqueue`, `EnqueueBulk`, `Dequeue`, `DequeueBulk`, `Clear`, growing the index | blocks are reused while consumers are in them; the index is replaced while they read it; constructors, assignments and allocations fail half-way | a consumer finds its own items; failed calls leave nothing behind and lose no block; `Clear` destroys each object once |
| `SlowQueue` (CQ 752-1320) | `TailBlock`, index entries (Key, Value) shared by the arrays that name them, the tail of the current array | the same, with `InsertBlockIndexEntry`, `RewindBlockIndexTail` and roll-back | blocks are found by position from a tail that moves, is rewound and copied; the consumer that empties a block returns it | a consumer finds its own items; a block goes back once, and only when nobody needs it |
| `ConcurrentQueue` (CQ 1350 on) | `ProducerListsHead`, `ProducerCount`, the nodes' `Next` and `Inactive`, the global offset, both kinds of tokens | `GetProducerListNode`, `AddProducer`, dequeues with and without tokens, `UpdateProducerForConsumer` | producers are taken over and pushed while consumers walk the list; the count, the head and the offset are read one after the other | one owner for each producer, none drops out of the list, an empty answer is a true one |
| `FreeList` (BM 80-200) | `Head`, and `FreeListNext`, `FreeListRefs` of each node | `Add`, `TryGet` | ABA; a node is added while others still hold references | no node has two owners, none is lost |
| `FreeList_DAS` (BM 203-286) | `Head` with a 16-bit tag | `Add`, `TryGet` | ABA, tags that wrap | the same |
| `BlockPool`, `HakleBlockManager` (BM 288 on) | blocks made in advance, an index that only grows, the free list, the heap | `GetBlock`, `RequisitionBlock`, `ReturnBlock(s)` | the pool is used up; allocation fails | a block is handed out once |
| Blocks and policies (BL) | slots, `Next`, flags or a counter of empty slots | `SetEmpty`, `SetSomeEmpty`, `SetAllEmpty`, `IsEmpty`, `Reset` | `IsEmpty` reads flags others set | a block is empty only when nobody needs it |
| `HashTable` (HT) | tables linked by `Prev`, `EntriesCount`, a resize flag | `Get`, `Set`, `GetOrAdd`, `GetOrAddByFunc` | tables are replaced while others probe and add; entries are copied upward | a thread finds what it stored; no table fills up; calls end |
| `ReaderWriterQueue` (RW 89-560) | ring of circular blocks; `Front`, `Tail` and local copies of them | `Enqueue`, `TryEnqueue`, `Emplace`, `TryDequeue`, `Pop`, `Peek`, `SizeApprox`, destructor | each side acts on an old copy of the other's index; blocks are added to the ring in use | order, no item lost or doubled, no false "empty" |
| `LightWeightSemaphore` (RW 577-885) | `Count`, kernel semaphore | `TryWait`, `Wait`, `Signal`, two versions | a time-out races a signal | units are neither lost nor made up, no lost wake-up |
| `BlockingReaderWriterQueue` (RW 890 on) | inner queue and semaphore | the blocking calls | the item must be there when the wait says so | `assert( Success )` |
| `CircularLessThan` (UT) | none | compares two counters of one machine word | the counters wrap around | the order is the one of the unbounded values, as long as these are near |
| the rest of `common/`, `Hash/`, `tests/`, benchmarks | | | | see section 7 |

Interaction: `ConcurrentQueue` gives each producer a sub-queue (`FastQueue` for
tokens, `SlowQueue` for threads without one, found through `HashTable`). A
sub-queue gets blocks from the `HakleBlockManager`, which asks its pool, its
`FreeList` and then the allocator. Producer and consumers of a sub-queue share
only its atomic counters, the index array, and the flags and slots of the blocks.
`BlockingReaderWriterQueue` puts a `LightWeightSemaphore` beside a
`ReaderWriterQueue`: enqueue then signal, wait then dequeue.

## 2 Modules

A component `X` has up to four modules: `X` (state, actions, `Spec`), `XProps`
(what it promises), `MCX` (values for TLC), `XProof` (theorems). One action is
one step other threads can tell apart: as a rule one access to an atomic or to
memory another thread writes, together with the private work around it; where two
accesses are one step, the comment says why nobody can tell. A definition with "slip" in its comment is no part of any specification: it is
what a programmer could have written instead of the definition that follows it,
and a run must find the property that breaks.

**`SharedQueue`**: the abstract queue. Items are numbered as published; a
consumer takes the next few in one step (`Take`) and later has done with them
(`Release`).

**`QueueBase`**: the claim protocol, one action per atomic operation of
`DequeueBulk` (CQ 580-665); `Dequeue` (526-578) is the case `MaxCount = 1`. The
locals of a call are functions of the consumer; `Won` and `Lost` are auxiliary
and record how each ticket was settled. With `StaleLoads` a plain load returns
any value the counter ever had. Counters are unbounded numbers; `MaxTail` and
`MaxAttempts` bound them for TLC.

**`Counters`**: words of any size and `CircularLessThan` on them; it has no state and
no run. The other modules count in natural numbers; `ComparesAcrossWrap` of
`QueueBaseProof` is why they may, as long as counters that are compared are less
than half a word apart.

**`FastQueue`**: all of the producer's calls against all of the consumers',
with the claim taken as `SharedQueue`'s one step (`QueueBaseProof` is why that
is sound). `po` and `con[c]` hold the locals of the calls in progress. Writing an
index entry and moving the index tail are separate steps, as are loading the
array, its tail and the entries; moving items out and marking slots empty are
separate. `flags[b]` is the set of slots marked empty, which abstracts the flags
policy and the counter policy of BL alike. `JunkEntries` is what memory of a new
array may read as: the code does not initialise it and never reads it before it
is written (TakesOwnItems would tell). The test against `MAX_SIZE` (CQ 300, 407)
is left out: it cannot fail for any size that fits in memory.

A *program* is one way to use a queue: the blocks in its pool, the allocation
modes and batch sizes of its calls, what may throw or fail, and the last
position. `Programs` is a set of such records and `Init` chooses one, so that one
run looks at several uses of a queue without the product of all their choices.

**`SlowQueue`**: the same steps for the other sub-queue. An entry is a number, as
several arrays may name it; `arrays` keeps every index array, since a consumer
may still be in an old one. `emptied[b]` is the count of its policy. Insertion
writes the key and moves the tail in two steps; a consumer loads the array, its
tail and the key there in three. `RequireThrows` ends the producer, unless
`Faults` has "retry".

**`ConcurrentQueue`**: the list of producers and everything that goes through it.
A sub-queue is the number of its items: what is inside one is the business of
the modules above, and `Gets` says what they promise to somebody who looks for
items, everything there is where no other consumer is at work and anything less
otherwise. `HashTable` is the function `node`. One step is one access to
the head, the count, an `Inactive` flag, the offset or a sub-queue. `CallSets` has
a set of kinds of calls for each program, and `Init` chooses one. `missed[c]` is
auxiliary: the producers that had items at every moment of c's call.
`OffsetSize` is 2^32 in the code, and `MaxOffset` bounds the offsets calls begin
at. `Listed` is the smallest set of nodes that has the head and does not end before
a null `Next`. Each `ConsumerToken` belongs to one consumer.

**`ReaderWriterQueue`**: producer and consumer with the copies `LocalFront` and
`LocalTail`. `StaleTail` allows the older value of `Tail` where no fence orders it
after the load of `TailBlock`.

**`BlockingQueue`**: producer, consumer and both versions of the semaphore
(`Version`); the inner queue is a number. Spinning is the freedom to stay in
"spin": the number of rounds is not modelled. `Timeouts` says which waits are
used. The module's `BQInit`, `BQNext`, `BQSpec`, … have a prefix so that one proof module can
extend it and `ReaderWriterQueue`.

**`FreeList`, `FreeList_DAS`, `NodePool`**: the two free lists, one atomic
operation at a time, and the pool of nodes both implement. `AddFlag` is 8 in the
runs in place of 2^31: any value above the number of threads plus one behaves
alike. `FreeList` and its properties are checked inside `BlockManager`, which adds
no step to the list's own. In `FreeList_DAS` a tag wraps after `TagSize` numbers, and `Overtaken`
keeps a call from sleeping through exactly `TagSize` changes (65536 in the code),
which src/README.md:165 also leaves aside.

**`BlockManager`**: `HakleBlockManager` over `FreeList` with all its steps. A block
is `fresh` until the pool or the allocator hands it out. `Index` of the pool stops
at its size here, where the code counts on: it is only compared with the size.

**`HashTable`**: the probe for a key is one step, since a slot is written once
and never freed: the slots passed over are the same when the last one is read.
The compare-exchange, the store of the value, each step of the resizing and of
the promotion are separate. `Faults` says whether the allocation inside a resizing
may throw; the thread's call ends there, with the flag still set, as in the code.
`Programs` are as in `FastQueue`: the keys, values and kinds of calls in use.

## 3 Runs

| run | bounds | what it shows |
|---|---|---|
| MCQueueBase | 3 consumers, 1 or 2 items at a time, 2 items, 5 tickets, stale loads | losers of a ticket, partial wins and late publications occur together, and no load needs to be fresh; the inductive invariant; refinement of `SharedQueue` |
| MCFastQueue | blocks of 2, 5 blocks, index of 4 entries, 2 consumers, five programs | see below |
| MCSlowQueue | blocks of 2, 4 blocks of which 2 in the pool, index of 2 entries, 7 positions, 2 consumers, bulk of 3, constructors and allocations fail | the index is full while blocks are missing, is doubled and rewound, and entries are used again, with consumers at every step |
| MCConcurrentQueue | 2 tokens and a thread without one, 2 consumers of which one has 2 tokens, 3 producers of at most 1 item, bulk of 2, quota 1, offsets below 4, four programs | see below |
| MCBlockingQueueLegacy | capacity 6, all waits | the older semaphore, safety and liveness |
| MCReaderWriterQueue | ring of 1 to 3 blocks of 2, then 4 slots; 10 items | growth, reuse of every block, exact size; liveness |
| MCBlockManager | 3 threads, 2 blocks, one in the pool | ABA needs two nodes and one other thread; the third finishes what others left; pool, list and allocator are all used; lock-freedom |
| MCFreeList_DAS | 3 threads, 3 nodes, 4 tags | ABA and tags that wrap |
| MCHashTable | 2 threads, first table of 2 entries, allocations may throw, two programs: get, set and getOrAdd with 3 keys; getOrAdd alone with 4 | see below |

The programs of MCFastQueue: `Growing` lets ring and index go round and doubles
the index afterwards (11 positions: the producer fills four blocks, reuses one
and needs a fifth); `Throwing` has two blocks and may not allocate, so that
single and bulk calls fail, throw and are rolled back, and consumers discard;
`OutOfMemory` is the producer alone with everything that can fail, and takes every
way out of its calls; `SingleFailing` has single calls that throw or are refused
memory in every way, the doubling of the index too, beside consumers, and
`SingleRefused` the same with items that do not throw.

Those of MCConcurrentQueue: owners come and go beside a consumer with a token;
consumers compete in the list, from a token that rotates and is swapped; the
look at the sizes of three producers; what destroyed tokens left is dequeued. A
quota of 1 lets the first item dequeued rotate (the code has 256), and three
producers are the fewest for which the look at sizes has a limit and a way
round the ring has an inner node.

The programs of MCHashTable: in `LookingUp` a thread looks up, replaces and adds while the
other adds, so that entries are promoted beside resizings; in `Filling` there are as many
keys as the second table has slots, which gets an entry that was copied and not counted, those
that were counted and the one whose count the resizing lost (three of its four slots are
taken then). Liveness is checked in both: nobody waits for ever but for room after a
resizing that threw.

Three more runs end in a violation (section 6). MCBlockingQueueTimeout is the other
version of the semaphore. MCFastQueueBulkThrowGrown has one consumer and one program with
bulk calls of 4 and 12 positions. MCSlowQueueClear has single calls of which none fails, and
3 positions.

Blocks have two slots because every decision in the code is about the first slot, the last
slot or neither of a block; the index of `FastQueue` starts with 4 entries, the fewest the code starts
with. Threads, blocks, nodes and consumers are symmetric (no action compares or
orders them), which the runs without liveness use. `CHECK_DEADLOCK FALSE` is set
throughout: a bounded run stops when its items, tickets or keys are used up and
nobody has anything left to call.

Some properties come twice. `ClearDestroysConstructed`, `NoBlockLeak` and `DrainedIsEmpty` of
`FastQueueProps`, and `ClearReleasesAll` of `SlowQueueProps`, are what the code's comments
promise, and each fails in a case of section 6. `ClearDestroysObjects`,
`BlocksAccounted`, `DrainedIsReusable` and `ClearReturnsBlocks` leave these cases out:
`BlocksAccounted` and `DrainedIsReusable` speak of single calls that throw or fail too,
`ClearDestroysObjects` of single calls that fail without throwing, and none of the three of
bulk calls that fail. `ClearReturnsBlocks` asks nothing of the tail block of a
queue that is empty in the middle of it, so that `Clear` may keep it, as it does, or return it.
`BlocksAccounted` of `SlowQueueProps` is checked without "retry". `AddedOnce` of `HashTableProps`
is in no run: it holds of a key of one thread, which `AddsOnce` proves, and fails of a
shared one (section 6).

## 4 Fairness

Only calls in progress are given fairness; nothing makes a thread call.

- `BlockingQueue`: weak fairness of the producer inside `Signal` and of the
  consumer inside a wait. `TimesOut` gets none (a timeout may be long) and
  spinning may go on only until `SpinEnds`, which the code's counted loop
  guarantees.
- `ReaderWriterQueue`: weak fairness of each side inside a call; for
  `EachIsDequeued` the consumer also calls `TryDequeue` again and again, which is
  strong fairness of that one step because calls of `Peek` may come in between.
- `BlockManager` (with the steps of `FreeList`), `HashTable`: weak fairness of each
  thread inside a call: the scheduler runs every thread. `LockFree` promises no single thread that it
  gets on, only that some call returns.

## 5 Proofs

`tlapm` checks eight modules. Their theorems rest on the `ASSUME`s on constants of
the modules they extend and on the hypotheses they state; each of these hypotheses
leaves out one fault of the code, listed in section 6, and TLC shows there what goes
wrong without it:

| hypothesis | theorems of | what it leaves out |
|---|---|---|
| `NothingFails(program)` | `FastQueueProof` | items whose constructor or assignment throws, and an `EnqueueBulk` that is refused memory; an `Enqueue` may be refused it |
| `Sound` | `BlockingAssertionHolds` and the other `Blocking` theorems of `ReaderWriterQueueProof` | the time-out of the C++20 semaphore |
| `StaleTail = FALSE` | the others of `ReaderWriterQueueProof` | the two loads no fence orders |
| `"retry" \notin Faults` | `SlowQueueProof` | a producer that goes on after a `bad_alloc` of `RequisitionBlock`, which neither call catches |
| `RepeatedAdds = FALSE` | `BlockManagerProof` | a client that adds a node twice |
| `KeysAreOwn` | `HashTableProof` | two threads that add one key (the queue's keys are thread ids) |
| `INITIAL_HASH_SIZE >= 4` | `NeverFull` of `HashTableProof` | a first table of 2 entries (the queue's has 32), in which a call that forgot its count takes the last slot |
| `MaxOffset < OffsetSize - 1` | `DequeuesListed` and `EmptyIsTrue` of `ConcurrentQueueProof` | a call with a swapped fresh token at the very last offset |

Each inductive invariant was first an invariant of a TLC run over the instance of
section 3.

**`QueueBaseProof`** for any set of consumers, any `MaxCounts`, `PublishCounts`
and bounds, with `StaleLoads` or without:

- `Invariance`, `TypeCorrect`: `Spec => []Inv`, `Inv == TypeOK /\ IndInv`.
- `NeverPastTail`: `HeadIndex <= TailIndex` always. The statement is not
  inductive: `HeadIndex.fetch_add` tests nothing. What makes it true is that
  a kept ticket t, less the tickets below t that were lost, is a published
  position. `WonPublished` says so of settled tickets, `KnowsLost` of those in
  hand: the `FailedCount` a consumer read counts only tickets below the one it
  drew later, since tickets are lost only after they were drawn. `PendingApart`
  (nobody shares a pending ticket) and `Settled` (the counters are the
  cardinalities of `Won` and `Lost`) carry it through the steps. The theorem then
  takes the greatest won ticket m: the won tickets are at most m + 1 less the
  lost ones below m, which is at most `TailIndex`.
- `TicketsSettledOnce`: every ticket drawn is won, lost or pending with exactly one
  consumer. `Covered` (won, lost and pending tickets are all there are) is
  inductive given `Inv`: what a step takes from one of the three it adds to
  another, and `CoverFrame` states that once for all steps.
- `Refinement`: the protocol implements `SharedQueue`: `ClaimHead` is `Take`,
  `Return` is `Release`, all other steps of consumers are stutters.
- `ComparesAcrossWrap` and `HalfAWordIsNotAhead`: `CircularLessThan` for every word
  size (`Counters`).

**`FastQueueProof`** for any consumers, blocks, sizes of blocks and of the first index, any
batches, and index memory that reads as anything (`JunkEntries`):

- All six properties of `FastQueueProps` that MCFastQueue checks, five invariants and the
  action property `NoEntryRace`, from one invariant `IInv`. The hypothesis,
  `NothingFails(program)`, holds of the programs `Growing` and `SingleRefused` of MCFastQueue,
  and it implies the guard `NoBulkFails` that three of the properties have. The first rows of the
  table in section 6 and MCFastQueueBulkThrowGrown show what goes wrong without the
  hypothesis.
- Views. Block number q holds the positions from `Base(q)` on. `Entered` counts the blocks
  the producer has put into the ring, the one under way included; `Window` has the
  numbers of those still in it, as many as `PO_IndexEntriesUsed`. `Place(q)` is where
  the entry of number q is, reckoned from `PO_NextIndexEntry`, and `BlockOf(q)` its block.
- The ring. `Index`: the entries of the window have their bases, and no two the same block;
  `InRing`: `Next` leads from each to the following one, and from `TailBlock` to the
  oldest; `Supply`: the other blocks are with the manager or the allocator. `RingIs` shows
  that the walk of `Clear` along `Next` passes just the window, by induction on its
  length (`Upward`) and `PigeonHole` for its end.
- The consumers. `Live` are the numbers of the blocks with a position that was not marked
  yet; `LiveInWindow` says that none of them left the ring. It is kept because a block is
  reused only when all its flags are set, and `FlagsOK` says that a flag is set just when
  the position it stands for in this round was marked (`EmptyNotLive`). `TailOK`
  and `Knows` say what a consumer may hold: in the current array, the place of a block of
  the window not older than its own; in an old array, any place from which the distance of
  the bases leads to its block (`Leads`), since old arrays are never written again.
- The steps. A block enters the ring in four actions; `Enters(b)` is what they have in
  common, and the lemmas `Enter...` are proved of it. Likewise `Grows(n)` for the two
  actions that double the index (its new tail may be that of the block where the call
  began, not of the newest), and `SameIndex` for all the others.
- The items. `Placed` and `NothingElse`, as in `SlowQueueProof`. `ClearAt` says of each slot
  of the ring that `Clear` destroys it just when it holds an item, and `HalfIs` that the
  search through the index finds the block `HeadIndex` is in.

**`SlowQueueProof`** for any consumers, blocks, sizes of blocks and of the first index,
any batches, and whatever constructors and index arrays fail:

- `FindsOwnItems`: `TakesOwnItems`; `ObjectsExact`: `LiveAreUntaken`; `NoBlockLost`:
  `BlocksAccounted`; `ClearComplete`: `ClearReturnsBlocks` (section 6 has the case it
  leaves out). All four follow from one invariant, `Invariance`, since none is inductive alone: which items a consumer takes
  rests on which blocks went back, and the other way round.
- The index. A consumer finds its block at a distance from a tail that may be old, in an
  array that may be old, from a key that may be of an earlier round. `IInv` therefore
  binds by `\E` two things the code does not have: `off[i]`, the block number whose
  place is the front of array i, and `nq`, the number of the next block to enter. Array
  i is then round: block number q has `Place(off, i, q)` in it. `Aligned` says that the key at
  a place, however old, is that of a block with this place, so that any distance from it
  leads right; `Agree` that arrays which share an entry have it at the places of the same
  blocks, so that an old array and the new one agree. `Window` says that the keys before
  `nq` are of the last round or, where a call was rolled back, already of the next.
- The blocks. `Live` are the block numbers with a position that was not taken or a
  consumer that has not done with them. `Listed`: each has its entry in the current array;
  `Occupied`: no other entry has a block, which is why `Usable` may test `Value`; `Apart` and
  `AllThere`: each block has exactly one use; `Counts`: the count of emptied slots is
  the number of positions marked, so that exactly one consumer sees it reach
  `BlockSize` (`LastOut`), and nobody else is in the block then.
- The items. `Placed` and `NothingElse`: each object is in the slot its position
  says, and every other slot is raw; `Underway` and `CallOK` are what the producer's call
  has entered so far and what its roll-back will undo.

**`ConcurrentQueueProof`** for any number of tokens, threads, consumers and
producers, and any programs:

- `SingleProducer`: `OneOwner`. It needs two more facts to be inductive: whoever
  searches has no producer (`SearchersHaveNone`), and a node that was not made is
  neither owned nor inactive (`UnmadeIsFree`), so that a new one is nobody's. The
  heart is `ClaimNode`: the compare-exchange succeeds only while the flag is up, when
  by `OneOwner` nobody has the node.
- `ListComplete`: `NoneLost`. A node is *linked* when it was made and no owner is
  still putting it into the list. `ListInv` says that head and `Next` lead to linked
  nodes only, and to all of them. So an owner may write the `Next` of a pending
  node without disturbing the list others follow, and the push changes the head
  only where it still is that `Next`.
- `CountCovered`: `CountCoversList`. `CountInv` has `MadeCounted` (there are never more
  nodes than `ProducerCount`: it is raised first) and, for a consumer between
  loading head and count, that what is behind its head is a closed set of linked
  nodes no larger than the count (`AtMostFrom`). That set stays closed because the
  `Next` of a linked node never changes.

- `DequeuesListed`: `DequeuesFromListed`, and `EmptyIsTrue`: `NoFalseEmpty`. They share
  `LookInv`: what each call has found is linked (`Knows`), a token without a producer
  knows the one offset no call begins at (`TokenKnows`), and the producers a call
  would miss are still before it (`Misses`): down the list from where it is, or on
  the way round the ring to its end. The end moves to where items were found, so
  that the way begins anew; `RingCoversList` says that it then comes by all other
  producers. For that every way down the list must end, which is `Acyclic`: a set of
  linked nodes has one whose `Next` is outside. `StepsInRing` (any number of steps
  round the ring stays in it) is an induction on numbers done by hand: the least
  number of steps at which it fails. `Listed` and the ways are least closed sets, so
  that no other proof needs induction along `Next`.

**`FreeList_DASProof`** for any number of threads, nodes and tags:

- `Invariance`: `Inv`, and `Refinement`: the list implements `NodePool`. `FreeChain` says
  what the list is like of the nodes nobody has: they are closed under `Next`, the
  least such set, and no two lead to the same node. `SwapsAreCurrent` is where the tag
  counts: a compare-exchange that would succeed has read the current `Next`.

**`BlockManagerProof`** for any number of threads and blocks, a pool of any size and
any `AddFlag` above the number of threads plus one:

- `CountsAreExact`: `RefsAreExact`; `NoBlockLost`: `NothingLost`; `ManagerRefinement`: the
  manager, list and all, implements `NodePool`. `Counted` gives each count as its base
  (the list's own reference, `AddFlag`, or none) and the threads inside the node, whose
  number never reaches `AddFlag`; so no `fetch_add` overflows. `Pending` says that a node
  with `AddFlag` set has somebody who will put it into the list, `Local` what a call
  knows, above all that the `Next` it is about to swap in is still that of its node,
  and `FreeChain` is as above.

**`ReaderWriterQueueProof`** for any numbers and sizes of blocks and any items:

- `OldestFirst`: `TakesOldest`; `NextBlockAssertion` and `NothingOverwritten`: the two
  assertions of the code; `DestructorIsComplete`; `EmptyMeansEmpty`: an empty answer was
  true when the call began (an action property); `SizeExact`: `SizeIsExact`. `Ring` and `Content` say where every
  item is: the blocks in use are those from `FrontBlock` on to `TailBlock`, each begins
  with the number after its predecessor's last (`First`, `CountOf`), and every other slot
  is raw. `Copies` says that `LocalFront` and `LocalTail` are behind what they are
  copies of, which makes the old copies safe; `ProducerOK` and `ConsumerOK` are what the
  steps of a call in progress rely on. `SizeExact` follows the walk of `SizeApprox`: it comes
  round, because no two blocks have the same `Next` (`PigeonHole`), it has counted
  what is before its block until it has passed `TailBlock`, and finds nothing after
  it. The inductions on the number of steps are done by hand (`Upward`).

**`BlockingReaderWriterQueue`**, at the end of `ReaderWriterQueueProof`, for every
`Capacity` and `MaxCount`, where `Sound` holds (the older version, or no wait with a
timeout):

- `BlockingInvariance`; `BlockingAssertionHolds`: the consumer that was granted a unit finds
  an item; `BlockingSemaphoreExact`: the kernel semaphore is binary and `Count` is exact at
  rest. The invariant is a balance: `ItemsAreCounted` (items are `Count` plus what
  is on its way up, granted, or offset by a waiting consumer), `KernelUnit` (a
  unit is in the kernel semaphore or on its way exactly when `Count` shows that
  the waiting consumer was signalled), `CountFloor`.

**`HashTableProof`** for any threads, keys, hashes and sizes of tables, with allocations
that throw or not:

- `FindsOwn`: `FindsLatest`, and `AddsOnce`: a key of one thread is added once, while one
  that threads share is not (section 6). `Reachable` says that a key in a
  table is found by its probe, whatever was added meanwhile; `KeysCurrent` that the
  newest table that holds a key holds its latest value, unless its thread has claimed
  a slot and not stored it yet; `CallsOK` what a call knows of its key in the tables
  it has been through. Where a probe ends is a least number (`Least`).
- `NeverFull`: `ProbesEnd`, although promoted entries are not counted and the loop at HT
  312-314 may leave nothing of the count. `FillInv` says that the keys which are in a
  table, or are being added, can be numbered: with the count the call was given, which
  is below the limit of the table it adds to, or, for the call that made table n + 1 and
  lost its count, with -n. All keys in table n then have different numbers above -n and
  below its limit (`NotFull`), fewer than it has slots, since its capacity is at least
  4n (`Grow`). The numbers are not in the code, so they are bound by `\E` in the
  invariant, and each step says what becomes of them (`Renumbered`).

Model-checked only:

- `FastQueue` where `NothingFails` does not hold: `TakesOwnItems`, `LiveAreUntaken` and
  `NoEntryRace` in the programs `Throwing`, `OutOfMemory` and `SingleFailing` of MCFastQueue, and
  `BlocksAccounted` and `DrainedIsReusable` in the last;
- all liveness, since TLAPS has no rules for `ENABLED` here: `LockFree`, `CallsReturn`,
  `EachIsDequeued` and the others of section 4.

## 6 Where code and comments or tests disagree

Three disagreements are runs that end in a violation; `PROJECT.json` quotes the
lines they contradict.

- MCBlockingQueueTimeout: in the C++20 semaphore a signal between the time-out and
  its correction leaves `Count` one too high, and `assert( Success )` can fail (RW
  631-639).
- MCFastQueueBulkThrowGrown: the roll-back of an `EnqueueBulk` that had reused a
  block and then grown the index sets the next index entry wrong (CQ 423); the test
  of a throwing bulk call expects the next one to succeed. Its property,
  `WholeRingTakesOwnItems`, is `TakesOwnItems` with the blocks that a first `EnqueueBulk`
  loses (below) kept out of the way.
- MCSlowQueueClear: `Clear` of `SlowQueue` ("Release all block", CQ 819) returns blocks only
  while it walks over items, so that the tail block of a queue that is empty in the middle
  of it stays out.

TLC finds the others when the configuration of a run is changed as follows. "BTG:"
stands for the run MCFastQueueBulkThrowGrown with these fields of its program
`ThrowingGrown` changed. The property named takes the place of the run's own.

| what the code does | configuration, changed | property violated |
|---|---|---|
| the discarding loop reads `Next` (CQ 650) after `SetSomeEmpty` (648) gave the block up: it goes on to items that are not its own | BTG: `Blocks` of 3, `BulkCounts` {}, `ClaimCounts` {1, 4}, `MaxTail` 8, `Faults` {"assign"} | TakesOwnItems |
| an allocator that throws (CQ 426) leaves `EnqueueBulk` without roll-back | BTG: `Blocks` of 3, `BulkCounts` {3}, `MaxTail` 8, `Faults` {"blockAlloc"} | TakesOwnItems |
| the first `EnqueueBulk` of a queue, when it throws, sets `TailBlock` back to nullptr and loses its blocks (CQ 374), which the comment at 340 avoids in `Enqueue` | BTG: `Blocks` of 3, `BulkCounts` {2}, `MaxTail` 5 | NoBlockLeak |
| a thrown `Enqueue` (CQ 342-344) leaves `PO_IndexEntriesUsed` counted up: `Clear` starts its search one entry off, does not find the half dequeued block (211-218) and destroys slots that hold no object | BTG: `Blocks` of 3, `BulkCounts` {}, `MaxTail` 5 | ClearDestroysConstructed |
| an `EnqueueBulk` that returns false (CQ 428) does not mark the blocks it took empty, as the roll-back after an exception does (471): they are never reused, and `Clear` takes them for full | BTG: `Blocks` of 3, all in `PoolBlocks`, `Modes` {"CannotAlloc"}, `ClaimCounts` {1, 2}, `MaxTail` 8, `Faults` {} | DrainedIsEmpty, and ClearDestroysConstructed |
| `RequisitionBlock` throws after `SlowQueue` inserted an entry (CQ 885, and in the bulk call): neither call catches it, and a producer that goes on enqueues with the entry inserted twice | MCSlowQueue: "retry" in `Faults` | BlocksAccounted |
| a node added twice keeps `AddFlag` (BM 132) and is lost by a later `Add`; src/tests/freelisttest.cpp:57 expects the second `Add` to be ignored | MCBlockManager: `RepeatedAdds = TRUE` | NothingLost |
| two threads that add the same key both get `ADD_SUCCESS` (HT 335); src/tests/hashtabletest.cpp:283 expects one. The queue's keys are thread ids | MCHashTable: `KeysOf <- SharedKeys` | AddedOnce |
| the loop at HT 312-314 shifts `NewCount` where `NewCapacity` is meant, so that an entry is added without room ("if there is enough space", 327): behind a first table of 2 entries the second fills up when three threads add at once. From a first table of 4 on none does (`NeverFull`; the queue uses 32) | MCHashTable: `Threads = {t1, t2, t3}`, `KeysOf <- TwoForFirst` | ProbesEnd |
| no fence orders the relaxed load of `TailBlock` before that of `Tail` (RW 221) | MCReaderWriterQueue: `StaleTail = TRUE` | NoSpuriousEmpty |
| `swap` of a `ConsumerToken` (CQ 1705-1709) exchanges `DesiredProducer` twice; when the global offset is 2^32 - 1, the value a fresh token knows, a token swapped with a fresh one dequeues from nullptr | MCConcurrentQueue: `MaxOffset = 3` | DequeuesFromListed |

The models also follow the code in these points, which no property rejects:

- The rotation takes `Delta & ProducerCount` (CQ 1932) where a remainder is needed,
  and a single dequeue compares `ItemsConsumed` with the quota by `==` (CQ 1554)
  where a bulk one uses `>=` (1601): consumers rotate less evenly, and no item
  becomes unreachable.
- An allocation that throws at HT 315 leaves the resize flag set, so that threads that
  need room wait for ever; `CallsReturn` says so.
- `swap` and move assignment of a `ProducerToken` (CQ 1674) exchange its own member
  with itself: both tokens keep their producers.
- `EnqueueBulk` of either sub-queue with `Count` 0 at a block boundary needs no
  block and then fills the old tail block from slot 0 to its last (CQ 452-459,
  979-995). Counts start at 1 in the models; no test calls it with 0.

## 7 Not modelled

- Memory orders, except for the stale loads named above: each action sees
  sequentially consistent memory. Two places rest on them alone: the store of
  `Front` without a fence (RW 239) and the relaxed counts of the free list (BM 159).
- Move, swap and `Reset` of queues, lists and tables, `ClearList` and the `Clear` of
  free lists and tables, which may not run beside other calls and only exchange or
  free fields; `Size` and `Empty` of the concurrent queues, which promise nothing
  beside other calls.
- The emptiness policies of BL flag by flag: `IsEmpty` is one step, while the code
  reads the flags one after the other. A flag once set stays until the producer's own
  `Reset`, so that the moment of the last read gives the same answer.
- `ConcurrentQueue` with the sub-queues in full: `Gets` is the interface instead.
  Allocation of a producer that fails. `CallSets` keeps some kinds of calls apart.
- A spurious failure of a weak compare-exchange: it repeats the loop like one that
  another thread caused, which the models have.
- The first index array of `FastQueue` that cannot be allocated: the constructor (CQ 185)
  goes on without one, and the first call makes it (the test for nullptr at 304 and 412).
- `ReaderWriterQueue`: move assignment, `MaxCapacity`, failing allocation of a block
  and throwing constructors.
- `CeilToPow2` and `BitWidth` (UT), which only round sizes when a queue is made, and the
  rest of `common/` (memory, allocator, compressed pair, macros): template plumbing.
- `Hash/` (two sample maps nothing else uses), tests, benchmarks and the
  vendored `tests/concurrentqueue.h`.

## 8 Plan

Done, in this order: `SharedQueue`, `QueueBase` and its proofs, `FastQueue`,
`BlockingQueue` and its proofs, `ReaderWriterQueue`, `NodePool` with `FreeList` and
`FreeList_DAS`, `HashTable`, `SlowQueue`, `BlockManager`, `ConcurrentQueue` and its
first proofs, `Counters`; then the proofs of `FreeList_DAS`, `BlockManager`,
`ReaderWriterQueue`, `HashTable`, the rest of `ConcurrentQueue`, `SlowQueue` and
`FastQueue`.

To come, the most important first:

1. `FastQueueProof` with a constructor that throws in `Enqueue`: the block it gives back
   is in the ring and not in the window, and the tail of the index is its entry.
2. Failing allocation and throwing constructors in `ReaderWriterQueue`.
3. Liveness of `QueueBase`: a consumer that is alone gets what is there.
4. `Block`: the two policies one flag or count at a time.
