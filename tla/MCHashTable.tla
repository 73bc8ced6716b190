---------------------------- MODULE MCHashTable ----------------------------
EXTENDS HashTableProps

CONSTANTS t1, t2, t3, k1, k2, k3, k4, v1, v2

\* Each thread has keys of its own: two threads, or three.
TwoAndTwo == [t \in Threads |-> IF t = t1 THEN {k1, k2} ELSE {k3, k4}]
TwoForFirst == [t \in Threads |-> IF t = t1 THEN {k1, k2} ELSE IF t = t2 THEN {k3} ELSE {k4}]

\* All the threads use all the keys.
SharedKeys == [t \in Threads |-> Keys]

\* k1 is given every value, the others one.
TwoForOne == [k \in Keys |-> IF k = k1 THEN Values ELSE {v1}]

\* Some keys collide.
SomeCollide == [k \in Keys |-> IF k \in {k1, k3} THEN 3 ELSE 4]

\* Values are stored, replaced and looked up while entries are added.
LookingUp == [Keys |-> {k1, k2, k3}, Values |-> {v1, v2}, Ops |-> {"get", "set", "getOrAdd"}]

\* As many entries as the second table has slots.
Filling == [Keys |-> {k1, k2, k3, k4}, Values |-> {v1}, Ops |-> {"getOrAdd"}]

LookingUpAndFilling == {LookingUp, Filling}
=============================================================================
