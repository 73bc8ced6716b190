-------------------------- MODULE BlockManagerProps --------------------------
(***************************************************************************)
(* What HakleBlockManager guarantees, over FreeListProps' RefsAreExact,    *)
(* NothingLost and ImplementsNodePool, which hold in it too.               *)
(***************************************************************************)
EXTENDS BlockManager

\* Lock-freedom: as long as calls are in progress, calls keep returning.
Returns == \E t \in Threads : ~Idle(t) /\ At(t, "idle")' /\ want'[t] = "nowhere"
LockFree == []<>(\A t \in Threads : Idle(t)) \/ []<><<Returns>>_managerVars
=============================================================================
