----------------------------- MODULE HashTable -----------------------------
(***************************************************************************)
(* HashTable (ConcurrentQueue/HashTable.h), the map in which a             *)
(* ConcurrentQueue finds the sub-queue of the calling thread: open         *)
(* addressing, linear probing, entries never removed.  A table that is     *)
(* half full is put behind a new one of twice the capacity; nothing is     *)
(* moved then, but a look-up that finds its key in an older table copies   *)
(* the entry into the table it began in.  Each action makes one access to  *)
(* memory that other threads write.                                        *)
(***************************************************************************)
EXTENDS Integers, Sequences, FiniteSets

CONSTANTS
    Threads, Keys, Values,
    INVALID_KEY,
    NoValue,            \* what the value of a fresh entry reads as
    INITIAL_HASH_SIZE,
    Hash,               \* the hash of each key
    KeysOf,             \* KeysOf[t]: the keys thread t calls the table with
    ValuesOf,           \* ValuesOf[k]: the values they are given
    Programs,           \* the ways to use the table that are looked at, each a
                        \* record of
                        \*   Keys, Values: those of the above in use
                        \*   Ops: the calls made: "get", "set", "getOrAdd"
    Faults              \* "alloc": allocations may throw

ASSUME KeysAssumption ==
    /\ INVALID_KEY \notin Keys /\ NoValue \notin Values
    /\ Hash \in [Keys -> Nat]
    /\ KeysOf \in [Threads -> SUBSET Keys]
    /\ ValuesOf \in [Keys -> SUBSET Values]
ASSUME SizeAssumption == INITIAL_HASH_SIZE \in Nat \ {0}

VARIABLES
    nodes,          \* the tables; each one's Prev is the one before, and the
                    \* last is MainHash
    EntriesCount,
    HashResizeInProgressFlag,
    call,           \* call[t]: where t is in Get, Set or GetOrAdd
    latest, added,  \* auxiliary, of each key: the value last stored by a call
                    \* that is over, and how many calls answered ADD_SUCCESS
    program         \* auxiliary: the one of Programs this is

vars == <<nodes, EntriesCount, HashResizeInProgressFlag, call, latest, added, program>>

NoCall == [step |-> "idle"]

NewHashNode(capacity) ==
    [Capacity |-> capacity,
     key      |-> [i \in 0 .. (capacity - 1) |-> INVALID_KEY],
     value    |-> [i \in 0 .. (capacity - 1) |-> NoValue]]

Init ==
    /\ nodes = <<NewHashNode(INITIAL_HASH_SIZE)>>
    /\ EntriesCount = 0
    /\ HashResizeInProgressFlag = FALSE
    /\ call = [t \in Threads |-> NoCall]
    /\ latest = [k \in Keys |-> NoValue]
    /\ added = [k \in Keys |-> 0]
    /\ program \in Programs

-----------------------------------------------------------------------------
At(t, step) == call[t].step = step
Goto(t, to) == call' = [call EXCEPT ![t] = to]

\* The slot looked at for key k after i others.
Slot(node, k, i) == (Hash[k] + i) % nodes[node].Capacity

\* Probing node for key k ends at the first slot that holds one of stops.  A slot
\* is written once, so that the slots passed by are still what they were when
\* the last one is looked at: the probe is one step.
ProbeEnds(node, k, stops) ==
    \E i \in 0 .. (nodes[node].Capacity - 1) : nodes[node].key[Slot(node, k, i)] \in stops
Stop(node, k, stops) ==
    LET key(i) == nodes[node].key[Slot(node, k, i)]
    IN  Slot(node, k,
             CHOOSE i \in 0 .. (nodes[node].Capacity - 1) :
                /\ key(i) \in stops
                /\ \A j \in 0 .. (i - 1) : key(j) \notin stops)

StoreValue(t, v) == nodes' = [nodes EXCEPT ![call[t].node].value[call[t].index] = v]

\* The first free slot is claimed for the key with compare_exchange_strong; its
\* value is stored by the next step.
Claim(t, node, step) ==
    LET k    == call[t].key
        slot == Stop(node, k, {INVALID_KEY})
    IN  /\ ProbeEnds(node, k, {INVALID_KEY})
        /\ nodes' = [nodes EXCEPT ![node].key[slot] = k]
        /\ Goto(t, [call[t] EXCEPT !.step = step, !.node = node, !.index = slot])

-----------------------------------------------------------------------------
(* Get, Set and GetOrAdd begin with InnerGetEntry *)

\* MainHash is loaded once; the call looks in no newer table than that.
Begin(t, op, k, v) ==
    /\ At(t, "idle")
    /\ Goto(t, [step |-> "probe", op |-> op, key |-> k, value |-> v,
                main |-> Len(nodes), node |-> Len(nodes), index |-> 0,
                old |-> NoValue, NewCount |-> 0])
    /\ UNCHANGED <<nodes, EntriesCount, HashResizeInProgressFlag, latest, added>>

NotFound(t) ==
    IF call[t].op = "get" THEN NoCall ELSE [call[t] EXCEPT !.step = "count", !.node = 0]

\* The newest table is searched, then the one before, and so on.
Probe(t) ==
    LET c    == call[t]
        slot == Stop(c.node, c.key, {c.key, INVALID_KEY})
    IN  /\ At(t, "probe")
        /\ ProbeEnds(c.node, c.key, {c.key, INVALID_KEY})
        /\ Goto(t, IF nodes[c.node].key[slot] = c.key
                   THEN [c EXCEPT !.step = IF c.node = c.main THEN "found" ELSE "copy",
                                  !.index = slot]
                   ELSE IF c.node > 1 THEN [c EXCEPT !.node = @ - 1]
                   ELSE NotFound(t))
        /\ UNCHANGED <<nodes, EntriesCount, HashResizeInProgressFlag, latest, added>>

ValueHere(t) == nodes[call[t].node].value[call[t].index]

\* The value is loaded from the older table, to be stored in the newest.
Copy(t) ==
    /\ At(t, "copy")
    /\ Goto(t, [call[t] EXCEPT !.step = "promote", !.old = ValueHere(t)])
    /\ UNCHANGED <<nodes, EntriesCount, HashResizeInProgressFlag, latest, added>>

\* The entry is not counted.
Promote(t) ==
    /\ At(t, "promote")
    /\ Claim(t, call[t].main, "promoted")
    /\ UNCHANGED <<EntriesCount, HashResizeInProgressFlag, latest, added>>

\* Slip: the value stays behind.
StoreNothingPromoted(t) ==
    /\ At(t, "promoted")
    /\ Goto(t, [call[t] EXCEPT !.step = "found", !.old = NoValue])
    /\ UNCHANGED <<nodes, EntriesCount, HashResizeInProgressFlag, latest, added>>

StorePromoted(t) ==
    /\ At(t, "promoted")
    /\ StoreValue(t, call[t].old)
    /\ Goto(t, [call[t] EXCEPT !.step = "found", !.old = NoValue])
    /\ UNCHANGED <<EntriesCount, HashResizeInProgressFlag, latest, added>>

\* Get and GetOrAdd answer with the value in the entry, Set replaces it.
Found(t) ==
    /\ At(t, "found")
    /\ IF call[t].op = "set"
       THEN /\ StoreValue(t, call[t].value)
            /\ latest' = [latest EXCEPT ![call[t].key] = call[t].value]
       ELSE UNCHANGED <<nodes, latest>>
    /\ Goto(t, NoCall)
    /\ UNCHANGED <<EntriesCount, HashResizeInProgressFlag, added>>

-----------------------------------------------------------------------------
(* InnerAdd, of a key that was not found *)

Count(t) ==
    /\ At(t, "count")
    /\ EntriesCount' = EntriesCount + 1
    /\ Goto(t, [call[t] EXCEPT !.step = "room", !.NewCount = EntriesCount])
    /\ UNCHANGED <<nodes, HashResizeInProgressFlag, latest, added>>

\* Slip: the capacity is not halved.
HalfForgotten(node) == nodes[node].Capacity

Half(node) == nodes[node].Capacity \div 2

\* Slip: one more entry than that.
HasSpaceForOneMore(count, node) == count <= Half(node) + nodes[node].Capacity \div 4

HasSpace(count, node) == count < Half(node) + nodes[node].Capacity \div 4

\* "If there is enough space, add the new entry", else look for a newer table.
AddOrReload(c) ==
    IF HasSpace(c.NewCount, c.main) THEN [c EXCEPT !.step = "add", !.NewCount = 0]
    ELSE [c EXCEPT !.step = "reload"]

\* A table half full is to be resized, by one thread; the others add to it until
\* it is three quarters full, and then wait.
Room(t) ==
    LET c == call[t]
    IN  /\ At(t, "room")
        /\ \/ /\ c.NewCount >= Half(c.main) /\ ~HashResizeInProgressFlag
              /\ HashResizeInProgressFlag' = TRUE
              /\ Goto(t, [c EXCEPT !.step = "resize"])
           \/ /\ c.NewCount < Half(c.main) \/ HashResizeInProgressFlag
              /\ Goto(t, AddOrReload(c))
              /\ UNCHANGED HashResizeInProgressFlag
        /\ UNCHANGED <<nodes, EntriesCount, latest, added>>

Reload(t) ==
    /\ At(t, "reload")
    /\ Goto(t, [call[t] EXCEPT !.step = "room", !.main = Len(nodes)])
    /\ UNCHANGED <<nodes, EntriesCount, HashResizeInProgressFlag, latest, added>>

\* while ( NewCount >= NewCapacity >> 1 ) NewCount <<= 1: the loop that should
\* enlarge the capacity shifts the count instead, until nothing is left of it.
Shifted(count, capacity) == IF count >= capacity \div 2 THEN 0 ELSE count

\* The flag is held.  Another thread may have resized in the meantime.
Resize(t) ==
    LET main == Len(nodes)
        capacity == 2 * nodes[main].Capacity
    IN  /\ At(t, "resize")
        /\ \/ /\ call[t].NewCount < Half(main)
              /\ HashResizeInProgressFlag' = FALSE
              /\ Goto(t, AddOrReload([call[t] EXCEPT !.main = main]))
              /\ UNCHANGED nodes
           \/ /\ call[t].NewCount >= Half(main)
              /\ nodes' = Append(nodes, NewHashNode(capacity))
              /\ Goto(t, [call[t] EXCEPT
                             !.step = "clear", !.main = main + 1,
                             !.NewCount = Shifted(@, capacity)])
              /\ UNCHANGED HashResizeInProgressFlag
        /\ UNCHANGED <<EntriesCount, latest, added>>

\* The allocator throws, and the exception leaves GetOrAdd: the flag stays set
\* and the entry that is not added stays counted.
ResizeThrows(t) ==
    /\ "alloc" \in Faults
    /\ At(t, "resize") /\ call[t].op = "getOrAdd"
    /\ call[t].NewCount >= Half(Len(nodes))
    /\ Goto(t, NoCall)
    /\ UNCHANGED <<nodes, EntriesCount, HashResizeInProgressFlag, latest, added>>

Clear(t) ==
    /\ At(t, "clear")
    /\ HashResizeInProgressFlag' = FALSE
    /\ Goto(t, AddOrReload(call[t]))
    /\ UNCHANGED <<nodes, EntriesCount, latest, added>>

Add(t) ==
    /\ At(t, "add")
    /\ Claim(t, call[t].main, "added")
    /\ UNCHANGED <<EntriesCount, HashResizeInProgressFlag, latest, added>>

\* Its value is stored, and the call answers true or ADD_SUCCESS.
StoreAdded(t) ==
    /\ At(t, "added")
    /\ StoreValue(t, call[t].value)
    /\ latest' = [latest EXCEPT ![call[t].key] = call[t].value]
    /\ added' = [added EXCEPT ![call[t].key] = @ + 1]
    /\ Goto(t, NoCall)
    /\ UNCHANGED <<EntriesCount, HashResizeInProgressFlag>>

-----------------------------------------------------------------------------
InCall(t) ==
    /\ UNCHANGED program
    /\ \/ Probe(t)
       \/ Copy(t)
       \/ Promote(t)
       \/ StorePromoted(t)
       \/ Found(t)
       \/ Count(t)
       \/ Room(t)
       \/ Reload(t)
       \/ Resize(t)
       \/ ResizeThrows(t)
       \/ Clear(t)
       \/ Add(t)
       \/ StoreAdded(t)

Call(t) ==
    /\ UNCHANGED program
    /\ \E op \in program.Ops, k \in KeysOf[t] \intersect program.Keys :
          \E v \in ValuesOf[k] \intersect program.Values : Begin(t, op, k, v)

Step(t) == InCall(t) \/ Call(t)

Next == \E t \in Threads : Step(t)

\* Every thread runs on inside a call.
Spec == Init /\ [][Next]_vars /\ \A t \in Threads : WF_vars(InCall(t))
=============================================================================
