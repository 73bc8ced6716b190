---------------------------- MODULE BlockingQueue ----------------------------
(***************************************************************************)
(* BlockingReaderWriterQueue and its LightWeightSemaphore                  *)
(* (readerwriterqueue.h): one producer, one consumer.  The producer puts   *)
(* an item into the inner queue and then signals; the consumer waits for a *)
(* unit of the semaphore and then takes an item, which must be there.      *)
(*                                                                         *)
(* The semaphore is a counter in user space in front of a kernel one.  A   *)
(* negative Count says that the consumer sleeps, or is about to, in the    *)
(* kernel semaphore; the hard case is a consumer that times out while the  *)
(* producer is between the two.  The header has two versions of the way    *)
(* out of a timeout, one for C++20 and one for older compilers.            *)
(*                                                                         *)
(* The inner queue is the number of items in it; ReaderWriterQueue itself  *)
(* is not in this module, and the names that both have are prefixed with   *)
(* BQ here, so that a module can extend the two.                           *)
(***************************************************************************)
EXTENDS Integers

CONSTANTS
    Capacity,   \* bound: the items in the inner queue
    MaxCount,   \* bound: Count, where a version lets it grow
    Timeouts,   \* the waits the consumer asks for: "none" (TryDequeue, Pop),
                \* "forever", "poll" (a zero timeout) and "timed"
    Version     \* "cpp20" or "legacy"

ASSUME CapacityAssumption == Capacity \in Nat \ {0} /\ MaxCount \in Nat

VARIABLES
    items,      \* items in the inner queue
    Count,      \* the user-space count
    Sem,        \* the kernel semaphore
    signaller,  \* the producer: "idle", "signal" (item in), "release"
    waiter,     \* where the consumer is
    timeout     \* its Timeout argument

BQvars == <<items, Count, Sem, signaller, waiter, timeout>>

BQInit ==
    /\ items = 0 /\ Count = 0 /\ Sem = 0
    /\ signaller = "idle" /\ waiter = "idle" /\ timeout = "none"

-----------------------------------------------------------------------------
(* The producer: Enqueue, TryEnqueue, Emplace *)

PutItem ==
    /\ signaller = "idle"
    /\ items < Capacity
    /\ items' = items + 1
    /\ signaller' = "signal"
    /\ UNCHANGED <<Count, Sem, waiter, timeout>>

\* Slip: the sleeper is seen one too late.
SleeperSeenLate(old) == old < -1

\* Signal finds from the old count that the consumer needs waking.
SleeperSeen(old) == old < 0

\* Signal: Count.FetchAddRelease( 1 ).
SignalCount ==
    /\ signaller = "signal"
    /\ Count < MaxCount
    /\ Count' = Count + 1
    /\ signaller' = IF SleeperSeen(Count) THEN "release" ELSE "idle"
    /\ UNCHANGED <<items, Sem, waiter, timeout>>

\* Signal: Sem.release().
Release ==
    /\ signaller = "release"
    /\ Sem' = Sem + 1
    /\ signaller' = "idle"
    /\ UNCHANGED <<items, Count, waiter, timeout>>

-----------------------------------------------------------------------------
(* The consumer *)

Goto(step) == waiter' = step

\* TryDequeue, Pop, Dequeue or DequeueWaitFor: TryWait finds nothing, and the
\* last two go on to spin.
WaitBegins(t) ==
    /\ waiter = "idle"
    /\ Count <= 0
    /\ t # "none"
    /\ timeout' = t
    /\ Goto("spin")
    /\ UNCHANGED <<items, Count, Sem, signaller>>

\* Count.Load() > 0, in TryWait or in the spin loop.
SeesUnit ==
    /\ \/ waiter = "idle" /\ timeout' \in Timeouts
       \/ waiter = "spin" /\ timeout' = timeout
    /\ Count > 0
    /\ Goto("takeUnit")
    /\ UNCHANGED <<items, Count, Sem, signaller>>

TakeUnit ==
    /\ waiter = "takeUnit"
    /\ Count' = Count - 1
    /\ Goto("dequeue")
    /\ UNCHANGED <<items, Sem, signaller, timeout>>

\* The spin ends: Count.FetchAddAcquire( -1 ), and there may be a unit yet.
SpinEnds ==
    /\ waiter = "spin"
    /\ Count' = Count - 1
    /\ Goto(IF Count > 0 THEN "dequeue"
            ELSE IF timeout = "poll" THEN "restore" ELSE "asleep")
    /\ UNCHANGED <<items, Sem, signaller, timeout>>

\* Sem.acquire() or try_acquire_for() returns with a unit.
Wakes ==
    /\ waiter = "asleep"
    /\ Sem > 0
    /\ Sem' = Sem - 1
    /\ Goto("dequeue")
    /\ UNCHANGED <<items, Count, signaller, timeout>>

\* Slip: the count is left as it is.
TimesOutAtOnce ==
    /\ waiter = "asleep"
    /\ timeout = "timed"
    /\ waiter' = "idle" /\ timeout' = "none"
    /\ UNCHANGED <<items, Count, Sem, signaller>>

TimesOut ==
    /\ waiter = "asleep"
    /\ timeout = "timed"
    /\ Goto("restore")
    /\ UNCHANGED <<items, Count, Sem, signaller, timeout>>

\* Slip: the older version leaves out its undoing.
RestoreWithoutUndo ==
    /\ waiter = "restore"
    /\ Count < MaxCount
    /\ Count' = Count + 1
    /\ IF Count < 0
       THEN waiter' = "idle" /\ timeout' = "none"
       ELSE Goto("tryAcquire") /\ UNCHANGED timeout
    /\ UNCHANGED <<items, Sem, signaller>>

\* The count is decremented for a wait that is over: put it back, unless the
\* old value says that a signal came in between.
Restore ==
    /\ waiter = "restore"
    /\ Count < MaxCount
    /\ Count' = Count + 1
    /\ IF Count < 0
       THEN waiter' = "idle" /\ timeout' = "none"
       ELSE /\ Goto(IF Version = "cpp20" THEN "tryAcquire" ELSE "undo")
            /\ UNCHANGED timeout
    /\ UNCHANGED <<items, Sem, signaller>>

\* Slips: the undoing takes the kernel's unit for taken, or never tries for it.
UndoUntested ==
    /\ waiter = "undo"
    /\ Count' = Count - 1
    /\ Goto(IF Count > 0 THEN "dequeue" ELSE "restore")
    /\ UNCHANGED <<items, Sem, signaller, timeout>>
UndoWithoutAcquire ==
    /\ waiter = "undo"
    /\ Count' = Count - 1
    /\ Goto("restore")
    /\ UNCHANGED <<items, Sem, signaller, timeout>>

\* The older version takes it off again before it tries for the kernel's unit.
Undo ==
    /\ waiter = "undo"
    /\ Count' = Count - 1
    /\ Goto(IF Count > 0 THEN "tryAcquire" ELSE "restore")
    /\ UNCHANGED <<items, Sem, signaller, timeout>>

\* Sem.try_acquire(); without a unit the restoring starts over.
TryAcquire ==
    /\ waiter = "tryAcquire"
    /\ IF Sem > 0 THEN Sem' = Sem - 1 /\ Goto("dequeue")
                  ELSE Goto("restore") /\ UNCHANGED Sem
    /\ UNCHANGED <<items, Count, signaller, timeout>>

\* Inner.TryDequeue or Inner.Pop, which the caller asserts to succeed.
TakeItem ==
    /\ waiter = "dequeue"
    /\ items' = IF items > 0 THEN items - 1 ELSE items
    /\ waiter' = "idle"
    /\ timeout' = "none"
    /\ UNCHANGED <<Count, Sem, signaller>>

-----------------------------------------------------------------------------
BQProducer == PutItem \/ SignalCount \/ Release

BQConsumer ==
    \/ \E t \in Timeouts : WaitBegins(t)
    \/ SeesUnit
    \/ TakeUnit
    \/ SpinEnds
    \/ Wakes
    \/ TimesOut
    \/ Restore
    \/ Undo
    \/ TryAcquire
    \/ TakeItem

BQNext == BQProducer \/ BQConsumer

\* Both threads run on inside a call; nothing makes the producer enqueue, and a
\* timeout need not come before a unit does.
BQFairness ==
    /\ WF_BQvars(SignalCount \/ Release)
    /\ WF_BQvars(SpinEnds \/ TakeUnit \/ Wakes \/ Restore \/ Undo
                   \/ TryAcquire \/ TakeItem)

BQSpec == BQInit /\ [][BQNext]_BQvars /\ BQFairness
=============================================================================
