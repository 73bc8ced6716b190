--------------------------- MODULE HashTableProps ---------------------------
(***************************************************************************)
(* What HashTable guarantees to threads that each have keys of their own   *)
(* (a ConcurrentQueue's key is the id of the calling thread), and what its *)
(* comments and tests expect of it beyond that.                            *)
(***************************************************************************)
EXTENDS HashTable

\* "if there is enough space, add the new entry": no table ever fills up, so
\* that the search for a key that is not there comes to an end.  An entry copied
\* from an older table is not counted, and a thread whose count exceeds the
\* table it makes adds its key with the count 0: a table of four slots, made
\* behind one of two, fills up when three threads add at once.
ProbesEnd ==
    \A n \in DOMAIN nodes : \E i \in 0 .. (nodes[n].Capacity - 1) : nodes[n].key[i] = INVALID_KEY

\* A thread finds what it last stored under its key, whichever tables the entry
\* is in, is never told that a key it has added is not there, and after a
\* GetOrAdd that threw has stored nothing.
FindsLatest ==
    \A t \in Threads :
        /\ At(t, "found") => ValueHere(t) = latest[call[t].key]
        /\ At(t, "count") => latest[call[t].key] = NoValue

\* "Only one thread should insert successfully, the others should get the value
\* that is there": of the calls for one key at most one answers ADD_SUCCESS.
\* The look-up and the add are two steps; the property holds of a key of one
\* thread, and not of a key that threads share.
AddedOnce == \A k \in Keys : added[k] <= 1

\* The flag is set and nobody has it: a resizing ended with an exception.
Abandoned ==
    HashResizeInProgressFlag /\ \A t \in Threads : ~At(t, "resize") /\ ~At(t, "clear")

\* Every call returns, those that wait for a resizing too, unless that resizing
\* ended with an exception: then calls that need room wait for ever, and only
\* those.
CallsReturn ==
    \A t \in Threads :
        ~At(t, "idle") ~> (At(t, "idle") \/ (Abandoned /\ At(t, "reload")))
=============================================================================
