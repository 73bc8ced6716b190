---------------------------- MODULE FreeListProps ----------------------------
(***************************************************************************)
(* What FreeList guarantees.                                               *)
(***************************************************************************)
EXTENDS FreeList

\* The nodes a thread has, or has taken off the list and is about to return.
Owned(t) == held[t] \union (IF At(t, "taken") THEN {call[t].node} ELSE {})

\* The threads that hold a reference to node n, and the list's own.
Referrers(n) ==
    {t \in Threads : call[t].step \in {"next", "take", "letGo", "taken"}
                        /\ call[t].node = n}
ListRefs(n) ==
    IF \/ n \in Listed
       \/ \E t \in Threads :
             call[t].step \in {"taken", "addCas", "addBusy"} /\ call[t].node = n
    THEN 1 ELSE 0

\* The low bits of FreeListRefs count the references exactly, so that the count
\* is zero only when nobody can be about to take the node.
RefsAreExact ==
    \A n \in Nodes :
        FreeListRefs[n] % AddFlag = Cardinality(Referrers(n)) + ListRefs(n)

\* When no call is in progress each node is some thread's, in the list or fresh:
\* every Add that left its node to another thread was carried out.
NothingLost ==
    (\A t \in Threads : At(t, "idle")) =>
        Nodes = fresh \union Listed \union UNION {held[t] : t \in Threads}

\* The list is a pool of nodes: the head is never set to a stale Next, so that no
\* two threads are given the same node.
Pool == INSTANCE NodePool WITH
    held <- [t \in Threads |-> Owned(t)],
    pool <- Nodes \ UNION {Owned(t) : t \in Threads}
ImplementsNodePool == Pool!Spec
=============================================================================
