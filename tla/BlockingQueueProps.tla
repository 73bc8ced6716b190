------------------------- MODULE BlockingQueueProps -------------------------
(***************************************************************************)
(* What BlockingReaderWriterQueue guarantees.                              *)
(***************************************************************************)
EXTENDS BlockingQueue

\* Every variable holds a value of its kind.
BQTypeOK ==
    /\ items \in 0 .. Capacity
    /\ Count \in -1 .. MaxCount
    /\ Sem \in Nat
    /\ signaller \in {"idle", "signal", "release"}
    /\ waiter \in {"idle", "spin", "takeUnit", "asleep", "restore", "undo",
                   "tryAcquire", "dequeue"}
    /\ timeout \in Timeouts \union {"none"}

\* assert( Success ) in TryDequeue, Dequeue, DequeueWaitFor and Pop: a consumer
\* that was granted a unit finds an item.
GrantedFindsItem == waiter = "dequeue" => items > 0

\* The kernel semaphore is a binary one: Signal never releases it while it
\* holds a unit already.
ReleaseIsBinary == signaller = "release" => Sem = 0

\* When nobody is inside a call the count is the number of items, which is what
\* SizeApprox answers, and the kernel semaphore is back at zero: no unit was
\* lost in a timeout and none was made up.
QuietCountIsExact ==
    signaller = "idle" /\ waiter = "idle" => Count = items /\ Sem = 0

\* No lost wake-up: with an item in the queue the consumer does not sleep on.
SleeperIsWoken == waiter = "asleep" /\ items > 0 ~> waiter # "asleep"

\* A consumer whose wait is over comes back, with an item or without.
TimedOutReturns == waiter = "restore" ~> waiter = "idle"

-----------------------------------------------------------------------------
\* The circumstances in which all this holds: the older version, or no timeouts.
Sound == Version = "legacy" \/ Timeouts \subseteq {"none", "forever"}

Bit(b) == IF b THEN 1 ELSE 0

\* The count is decremented for a consumer that waits on the kernel semaphore,
\* or has timed out and is not done with putting it back.
Waiting == waiter \in {"asleep", "restore", "tryAcquire"}

\* The inductive invariant.  An item not counted is on its way to be counted, is
\* granted, or is offset by the waiting consumer; a unit is in the kernel
\* semaphore, or on its way there, exactly when the count shows that the
\* waiting consumer was signalled.
ItemsAreCounted ==
    items = Count + Bit(Waiting) + Bit(signaller = "signal")
                  + Bit(waiter = "dequeue")
KernelUnit ==
    Sem + Bit(signaller = "release") =
        Bit(waiter = "undo" \/ (Waiting /\ Count >= 0))
CountFloor ==
    Count >= IF Waiting THEN -1 ELSE Bit(waiter \in {"takeUnit", "undo"})
OnlyLegacyRestores ==
    waiter \in {"restore", "undo", "tryAcquire"} => Version = "legacy"

BQIndInv == ItemsAreCounted /\ KernelUnit /\ CountFloor /\ OnlyLegacyRestores

\* With the types: no unit of the semaphore is lost or made up by any step.
Inv == BQTypeOK /\ BQIndInv
=============================================================================
