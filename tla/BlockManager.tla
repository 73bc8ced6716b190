---------------------------- MODULE BlockManager ----------------------------
(***************************************************************************)
(* HakleBlockManager (BlockManager.h): RequisitionBlock asks the BlockPool *)
(* for a block made in advance, then the FreeList for a returned one, and  *)
(* then, if it may, the allocator; ReturnBlock adds to the list.  The list *)
(* is FreeList with all its steps; a block is fresh until the pool or the  *)
(* allocator hands it out.                                                 *)
(***************************************************************************)
EXTENDS FreeListProps, Sequences

CONSTANT PoolBlocks     \* the blocks of the pool, in order

ASSUME PoolAssumption ==
    /\ PoolBlocks \in Seq(Nodes)
    /\ \A i, j \in DOMAIN PoolBlocks : PoolBlocks[i] = PoolBlocks[j] => i = j

VARIABLES Index,    \* of the pool: how many blocks were asked of it, not counted
                    \* beyond Size, since the code only compares it with Size
          want      \* want[t]: where t's RequisitionBlock is: "nowhere", "pool",
                    \* "list".  Its mode is an argument tested only at the end.

managerVars == <<vars, Index, want>>

Size == Len(PoolBlocks)
Idle(t) == At(t, "idle") /\ want[t] = "nowhere"
Turn(t, w) == want' = [want EXCEPT ![t] = w]

ManagerInit ==
    /\ Init
    /\ Index = 0
    /\ want = [t \in Threads |-> "nowhere"]

\* TryGet of the list begins.
AskList(t) == Goto(t, [step |-> "reload"]) /\ Turn(t, "list")

\* RequisitionBlock, with the first test of GetBlock.
Requisition(t) ==
    /\ Idle(t)
    /\ IF Index >= Size THEN AskList(t) ELSE Turn(t, "pool") /\ UNCHANGED call
    /\ UNCHANGED <<ListHead, FreeListNext, FreeListRefs, fresh, held, Index>>

\* fetch_add on Index: a block is left, or others were faster.
TakeFromPool(t) ==
    /\ want[t] = "pool" /\ Index < Size
    /\ Obtain(t, PoolBlocks[Index + 1])
    /\ Index' = Index + 1
    /\ Turn(t, "nowhere")

MissPool(t) ==
    /\ want[t] = "pool" /\ Index >= Size
    /\ AskList(t)
    /\ UNCHANGED <<ListHead, FreeListNext, FreeListRefs, fresh, held, Index>>

\* The list's own steps; a node it returns is what was wanted.
ListStep(t) ==
    /\ InCall(t)
    /\ Turn(t, IF held' # held THEN "nowhere" ELSE want[t])
    /\ UNCHANGED Index

\* TryGet returned nullptr.
ListWasEmpty(t) == At(t, "idle") /\ want[t] = "list"

Heap == fresh \ {PoolBlocks[i] : i \in DOMAIN PoolBlocks}

\* In mode CanAlloc the allocator makes a block.
Allocate(t) ==
    /\ ListWasEmpty(t)
    /\ \E n \in Heap : Obtain(t, n)
    /\ Turn(t, "nowhere")
    /\ UNCHANGED Index

\* It throws, or the mode is CannotAlloc: RequisitionBlock returns without one.
GiveUp(t) ==
    /\ ListWasEmpty(t)
    /\ Turn(t, "nowhere")
    /\ UNCHANGED <<vars, Index>>

\* ReturnBlock; ReturnBlocks is one after the other.
ReturnBlock(t, n) == Idle(t) /\ Add(t, n) /\ UNCHANGED <<Index, want>>

InManager(t) ==
    TakeFromPool(t) \/ MissPool(t) \/ ListStep(t) \/ Allocate(t) \/ GiveUp(t)

ManagerNext ==
    \E t \in Threads :
        InManager(t) \/ Requisition(t) \/ \E n \in Nodes : ReturnBlock(t, n)

ManagerSpec == ManagerInit /\ [][ManagerNext]_managerVars

\* The scheduler runs each thread on inside a call.
FairManagerSpec == ManagerSpec /\ \A t \in Threads : WF_managerVars(InManager(t))
=============================================================================
