--------------------------- MODULE HashTableProof ---------------------------
(***************************************************************************)
(* For any threads, keys, hashes and sizes of tables: what HashTable       *)
(* guarantees to threads that each have keys of their own.                 *)
(***************************************************************************)
EXTENDS HashTableProps, FunctionTheorems, FiniteSetTheorems, WellFoundedInduction, TLAPS

\* No key is used by two threads: a ConcurrentQueue's key is the id of the thread.
KeysAreOwn == \A t, u \in Threads : t # u => KeysOf[t] \intersect KeysOf[u] = {}

Tables ==
    UNION {[Capacity : {c}, key : [0 .. (c - 1) -> Keys \union {INVALID_KEY}],
            value : [0 .. (c - 1) -> Values \union {NoValue}]] : c \in Nat \ {0}}

TypeOK ==
    /\ nodes \in Seq(Tables) /\ Len(nodes) > 0
    /\ latest \in [Keys -> Values \union {NoValue}] /\ added \in [Keys -> Nat]
    /\ call = [t \in Threads |-> call[t]]

Slots(n) == 0 .. (nodes[n].Capacity - 1)

\* A probe of table n for k passes i slots before one that holds one of stops.
StopsAt(n, k, stops, i) ==
    /\ i \in Slots(n) /\ nodes[n].key[Slot(n, k, i)] \in stops
    /\ \A j \in 0 .. (i - 1) : nodes[n].key[Slot(n, k, j)] \notin stops

\* A probe of table n for k finds it in slot s.
In(n, k, s) ==
    /\ s \in Slots(n) /\ nodes[n].key[s] = k
    /\ \E i \in Slots(n) : StopsAt(n, k, {k, INVALID_KEY}, i) /\ s = Slot(n, k, i)

\* No slot of table n holds k.
Absent(n, k) == \A s \in Slots(n) : nodes[n].key[s] # k
AbsentAfter(n, k) == \A m \in DOMAIN nodes : m > n => Absent(m, k)

\* A key that is in a table is found there.
Reachable == \A n \in DOMAIN nodes, k \in Keys : Absent(n, k) \/ \E s \in Slots(n) : In(n, k, s)

\* The newest table that holds k holds it in slot s, with value v.
Newest(n, k, s) == n \in DOMAIN nodes /\ In(n, k, s) /\ AbsentAfter(n, k)
Holds(n, k, s, v) == Newest(n, k, s) /\ nodes[n].value[s] = v

\* Key k has its latest value, or has never been stored.
Current(k) ==
    IF latest[k] = NoValue THEN AbsentAfter(0, k)
    ELSE \E n \in DOMAIN nodes : \E s \in Slots(n) : Holds(n, k, s, latest[k])

\* A call has claimed a slot for k and not stored the value yet.
Claimed(k) ==
    \E t \in Threads : call[t].step \in {"promoted", "added"} /\ call[t].key = k
KeysCurrent == \A k \in Keys : Claimed(k) \/ Current(k)

IsCall(r) ==
    r \in [step : {r.step}, op : {r.op}, key : Keys, value : Values, main : Nat,
           node : Nat, index : Nat, old : Values \union {NoValue},
           NewCount : {r.NewCount}]

\* What a call of thread t knows of its key.
CallOK(t, r) ==
    r.step # "idle" =>
        /\ IsCall(r) /\ r.key \in KeysOf[t] /\ r.main \in DOMAIN nodes
        /\ r.step = "probe" =>
              r.node \in DOMAIN nodes /\ r.node <= r.main /\ AbsentAfter(r.node, r.key)
        /\ r.step \in {"copy", "promote"} => r.node < r.main
        /\ r.step \in {"promoted", "added"} => Newest(r.node, r.key, r.index)
        /\ r.step \in {"promote", "promoted"} =>
              r.old = latest[r.key] /\ r.old # NoValue
        /\ r.step \in {"copy", "promote", "found"} =>
              /\ Holds(r.node, r.key, r.index, latest[r.key])
              /\ latest[r.key] # NoValue
        /\ r.step \in {"count", "room", "reload", "resize", "clear", "add"} =>
              AbsentAfter(0, r.key)
        /\ r.step \in {"count", "room", "reload", "resize", "clear", "add", "added"} =>
              latest[r.key] = NoValue

CallsOK == \A t \in Threads : CallOK(t, call[t])

AddedExact == \A k \in Keys : added[k] = IF latest[k] = NoValue THEN 0 ELSE 1

IndInv == TypeOK /\ Reachable /\ KeysCurrent /\ CallsOK /\ AddedExact

-----------------------------------------------------------------------------
(* Probing *)

\* A non-empty set of numbers has a least one.
LEMMA Least ==
    ASSUME NEW T, T \subseteq Nat, T # {}
    PROVE  \E x \in T : \A y \in T : x <= y
  <1>1. \A a, b \in Nat : a < b => <<a, b>> \in OpToRel(<, Nat)
    BY DEF OpToRel
  <1>2. PICK R : IsWellFoundedOn(R, Nat) /\ \A a, b \in Nat : a < b => <<a, b>> \in R
    BY <1>1, NatLessThanWellFounded
  <1>3. PICK x \in T : \A y \in T : ~(<<y, x>> \in R)
    <2>1. IsWellFoundedOn(R, Nat)
      BY <1>2
    <2> QED BY <2>1, WFMin
  <1>4. ASSUME NEW y \in T PROVE x <= y
    <2>1. y \in Nat /\ x \in Nat /\ ~(<<y, x>> \in R)
      BY <1>3
    <2> QED BY <1>2, <2>1
  <1> QED BY <1>4

LEMMA TableTypes ==
    ASSUME TypeOK, NEW n \in DOMAIN nodes
    PROVE  /\ nodes[n] \in Tables
           /\ nodes[n].Capacity \in Nat \ {0}
           /\ nodes[n].key \in [Slots(n) -> Keys \union {INVALID_KEY}]
           /\ nodes[n].value \in [Slots(n) -> Values \union {NoValue}]
           /\ n \in Nat \ {0} /\ n <= Len(nodes)
           /\ DOMAIN nodes = 1 .. Len(nodes) /\ Len(nodes) \in Nat \ {0}
  <1>1. nodes \in Seq(Tables) /\ DOMAIN nodes = 1 .. Len(nodes) /\ Len(nodes) \in Nat
    BY DEF TypeOK
  <1>2. nodes[n] \in Tables /\ n \in Nat \ {0} /\ n <= Len(nodes)
    BY <1>1
  <1>3. PICK c \in Nat \ {0} :
           nodes[n] \in [Capacity : {c},
                         key : [0 .. (c - 1) -> Keys \union {INVALID_KEY}],
                         value : [0 .. (c - 1) -> Values \union {NoValue}]]
    BY <1>2 DEF Tables
  <1> QED BY <1>1, <1>2, <1>3 DEF Slots

LEMMA SlotType ==
    ASSUME TypeOK, NEW n \in DOMAIN nodes, NEW k \in Keys, NEW i \in Nat
    PROVE  Slot(n, k, i) \in Slots(n)
  <1>1. nodes[n].Capacity \in Nat \ {0} /\ Hash[k] \in Nat
    BY TableTypes, KeysAssumption
  <1> QED BY <1>1 DEF Slot, Slots

\* There is one place where a probe stops, and it is Stop.
LEMMA StopsOnce ==
    ASSUME TypeOK, NEW n \in DOMAIN nodes, NEW k, NEW stops, NEW i, NEW j,
           StopsAt(n, k, stops, i), StopsAt(n, k, stops, j)
    PROVE  i = j
  <1>1. i \in Nat /\ j \in Nat
    BY TableTypes DEF StopsAt, Slots
  <1>2. ~(i < j) /\ ~(j < i)
    BY <1>1 DEF StopsAt
  <1> QED BY <1>1, <1>2

LEMMA StopIs ==
    ASSUME TypeOK, NEW n \in DOMAIN nodes, NEW k, NEW stops, NEW i,
           StopsAt(n, k, stops, i)
    PROVE  Stop(n, k, stops) = Slot(n, k, i)
  <1> DEFINE P(x) == /\ nodes[n].key[Slot(n, k, x)] \in stops
                     /\ \A j \in 0 .. (x - 1) : nodes[n].key[Slot(n, k, j)] \notin stops
  <1>1. i \in Slots(n) /\ P(i)
    BY DEF StopsAt
  <1>2. \A j \in Slots(n) : P(j) => j = i
    BY StopsOnce DEF StopsAt
  <1>3. (CHOOSE x \in Slots(n) : P(x)) = i
    BY <1>1, <1>2
  <1>4. Stop(n, k, stops) = Slot(n, k, CHOOSE x \in Slots(n) : P(x))
    BY DEF Stop, Slots
  <1> QED BY <1>3, <1>4

LEMMA ProbeStops ==
    ASSUME TypeOK, NEW n \in DOMAIN nodes, NEW k, NEW stops, ProbeEnds(n, k, stops)
    PROVE  \E i \in Slots(n) : StopsAt(n, k, stops, i) /\ Stop(n, k, stops) = Slot(n, k, i)
  <1> DEFINE T == {i \in Slots(n) : nodes[n].key[Slot(n, k, i)] \in stops}
  <1>1. T # {} /\ T \subseteq Nat
    BY TableTypes DEF ProbeEnds, Slots
  <1>2. PICK i \in T : \A j \in T : i <= j
    BY <1>1, Least
  <1>3. StopsAt(n, k, stops, i)
    <2>1. i \in Nat /\ i <= nodes[n].Capacity - 1 /\ nodes[n].Capacity \in Nat
      BY <1>1, TableTypes DEF Slots
    <2>2. ASSUME NEW j \in 0 .. (i - 1) PROVE nodes[n].key[Slot(n, k, j)] \notin stops
      <3>1. j \in Slots(n) /\ ~(i <= j)
        BY <2>1 DEF Slots
      <3> QED BY <1>2, <3>1
    <2> QED BY <2>2 DEF StopsAt
  <1> QED BY <1>3, StopIs

\* A key is in one slot of a table.
LEMMA InOnce ==
    ASSUME TypeOK, NEW n \in DOMAIN nodes, NEW k, NEW s, NEW u, In(n, k, s), In(n, k, u)
    PROVE  s = u
  BY StopsOnce DEF In

\* A probe for a key finds it, or finds out that it is not there.
LEMMA ProbeDecides ==
    ASSUME TypeOK, Reachable, NEW n \in DOMAIN nodes, NEW k \in Keys,
           ProbeEnds(n, k, {k, INVALID_KEY})
    PROVE  LET s == Stop(n, k, {k, INVALID_KEY})
           IN  /\ s \in Slots(n)
               /\ nodes[n].key[s] = k => In(n, k, s)
               /\ nodes[n].key[s] # k => Absent(n, k)
  <1>1. PICK i \in Slots(n) : /\ StopsAt(n, k, {k, INVALID_KEY}, i)
                              /\ Stop(n, k, {k, INVALID_KEY}) = Slot(n, k, i)
    BY ProbeStops
  <1>2. PICK s : s = Slot(n, k, i)
    OBVIOUS
  <1>3. s \in Slots(n)
    <2>1. i \in Nat
      BY TableTypes DEF Slots
    <2> QED BY <1>2, <2>1, SlotType
  <1>4. nodes[n].key[s] = k => In(n, k, s)
    BY <1>1, <1>2, <1>3 DEF In
  <1>5. ASSUME nodes[n].key[s] # k, NEW u \in Slots(n), In(n, k, u) PROVE FALSE
    <2>1. PICK j \in Slots(n) : StopsAt(n, k, {k, INVALID_KEY}, j) /\ u = Slot(n, k, j)
      BY <1>5 DEF In
    <2>2. j = i
      BY <1>1, <2>1, StopsOnce
    <2> QED BY <1>2, <1>5, <2>1, <2>2 DEF In
  <1> QED BY <1>1, <1>2, <1>3, <1>4, <1>5 DEF Reachable

-----------------------------------------------------------------------------
(* What the steps do to the tables *)

\* What is known of key k in the tables stays true, and new tables do not hold it.
Keeps(k) ==
    /\ DOMAIN nodes \subseteq DOMAIN nodes'
    /\ \A m \in DOMAIN nodes :
          /\ Absent(m, k) => Absent(m, k)'
          /\ \A s : In(m, k, s) => In(m, k, s)' /\ nodes'[m].value[s] = nodes[m].value[s]
    /\ \A m \in DOMAIN nodes' \ DOMAIN nodes : Absent(m, k)'

\* The tables are still tables, and a key in one of them is still found.
TablesKept == nodes' \in Seq(Tables) /\ Len(nodes') > 0 /\ Reachable'

LEMMA WriteKey ==
    ASSUME NEW x \in Tables, NEW s \in 0 .. (x.Capacity - 1), NEW k \in Keys
    PROVE  LET y == [x EXCEPT !.key[s] = k]
           IN  /\ y \in Tables /\ y.Capacity = x.Capacity /\ y.value = x.value
               /\ y.key = [x.key EXCEPT ![s] = k]
  <1>1. PICK c \in Nat \ {0} :
           x \in [Capacity : {c}, key : [0 .. (c - 1) -> Keys \union {INVALID_KEY}],
                  value : [0 .. (c - 1) -> Values \union {NoValue}]]
    BY DEF Tables
  <1>2. [x.key EXCEPT ![s] = k] \in [0 .. (c - 1) -> Keys \union {INVALID_KEY}]
    BY <1>1
  <1>3. [x EXCEPT !.key[s] = k] = [x EXCEPT !.key = [x.key EXCEPT ![s] = k]]
    BY <1>1
  <1>4. \A f \in [0 .. (c - 1) -> Keys \union {INVALID_KEY}] :
           LET y == [x EXCEPT !.key = f]
           IN  /\ y \in [Capacity : {c}, key : [0 .. (c - 1) -> Keys \union {INVALID_KEY}],
                         value : [0 .. (c - 1) -> Values \union {NoValue}]]
               /\ y.Capacity = x.Capacity /\ y.value = x.value /\ y.key = f
    BY <1>1
  <1>5. PICK y, f : f = [x.key EXCEPT ![s] = k] /\ y = [x EXCEPT !.key = f]
    OBVIOUS
  <1>6. /\ y \in [Capacity : {c}, key : [0 .. (c - 1) -> Keys \union {INVALID_KEY}],
                  value : [0 .. (c - 1) -> Values \union {NoValue}]]
        /\ y.Capacity = x.Capacity /\ y.value = x.value /\ y.key = f
    BY <1>2, <1>4, <1>5
  <1>7. y \in Tables
    BY <1>6 DEF Tables
  <1> QED BY <1>3, <1>5, <1>6, <1>7

LEMMA WriteValue ==
    ASSUME NEW x \in Tables, NEW s \in 0 .. (x.Capacity - 1), NEW v \in Values
    PROVE  LET y == [x EXCEPT !.value[s] = v]
           IN  /\ y \in Tables /\ y.Capacity = x.Capacity /\ y.key = x.key
               /\ y.value = [x.value EXCEPT ![s] = v]
  <1>1. PICK c \in Nat \ {0} :
           x \in [Capacity : {c}, key : [0 .. (c - 1) -> Keys \union {INVALID_KEY}],
                  value : [0 .. (c - 1) -> Values \union {NoValue}]]
    BY DEF Tables
  <1>2. [x.value EXCEPT ![s] = v] \in [0 .. (c - 1) -> Values \union {NoValue}]
    BY <1>1
  <1>3. [x EXCEPT !.value[s] = v] = [x EXCEPT !.value = [x.value EXCEPT ![s] = v]]
    BY <1>1
  <1>4. \A f \in [0 .. (c - 1) -> Values \union {NoValue}] :
           LET y == [x EXCEPT !.value = f]
           IN  /\ y \in [Capacity : {c}, key : [0 .. (c - 1) -> Keys \union {INVALID_KEY}],
                         value : [0 .. (c - 1) -> Values \union {NoValue}]]
               /\ y.Capacity = x.Capacity /\ y.key = x.key /\ y.value = f
    BY <1>1
  <1>5. PICK y, f : f = [x.value EXCEPT ![s] = v] /\ y = [x EXCEPT !.value = f]
    OBVIOUS
  <1>6. /\ y \in [Capacity : {c}, key : [0 .. (c - 1) -> Keys \union {INVALID_KEY}],
                  value : [0 .. (c - 1) -> Values \union {NoValue}]]
        /\ y.Capacity = x.Capacity /\ y.key = x.key /\ y.value = f
    BY <1>2, <1>4, <1>5
  <1>7. y \in Tables
    BY <1>6 DEF Tables
  <1> QED BY <1>3, <1>5, <1>6, <1>7

LEMMA WriteTable ==
    ASSUME NEW S, NEW q \in Seq(S), NEW n \in DOMAIN q, NEW y \in S
    PROVE  LET r == [q EXCEPT ![n] = y]
           IN  /\ r \in Seq(S) /\ DOMAIN r = DOMAIN q /\ Len(r) = Len(q)
               /\ r[n] = y /\ \A m \in DOMAIN q : m # n => r[m] = q[m]
  OBVIOUS

LEMMA SameTables ==
    ASSUME TypeOK, Reachable, UNCHANGED nodes
    PROVE  TablesKept /\ \A k \in Keys : Keeps(k)
  <1>1. \A m, k : Absent(m, k)' <=> Absent(m, k)
    BY DEF Absent, Slots
  <1>2. \A m, k, s : In(m, k, s)' <=> In(m, k, s)
    BY DEF In, Slots, StopsAt, Slot
  <1>3. TablesKept
    BY <1>1, <1>2 DEF TablesKept, TypeOK, Reachable, Slots
  <1> QED BY <1>1, <1>2, <1>3 DEF Keeps

\* A value is stored in a slot of key k.
LEMMA ValueStored ==
    ASSUME TypeOK, Reachable, NEW n \in DOMAIN nodes, NEW k \in Keys, NEW s,
           In(n, k, s), NEW v \in Values,
           nodes' = [nodes EXCEPT ![n].value[s] = v]
    PROVE  /\ TablesKept /\ DOMAIN nodes' = DOMAIN nodes
           /\ \A m \in DOMAIN nodes : \A l : Absent(m, l)' <=> Absent(m, l)
           /\ \A m \in DOMAIN nodes : \A l, u : In(m, l, u)' <=> In(m, l, u)
           /\ nodes'[n].value[s] = v
           /\ \A l \in Keys \ {k} : Keeps(l)
  <1>1. /\ n \in DOMAIN nodes /\ nodes[n] \in Tables /\ s \in Slots(n)
        /\ s \in 0 .. (nodes[n].Capacity - 1)
        /\ nodes \in Seq(Tables)
    BY TableTypes DEF In, TypeOK, Slots
  <1>2. PICK y : y = [nodes[n] EXCEPT !.value[s] = v]
    OBVIOUS
  <1>3. /\ y \in Tables /\ y.Capacity = nodes[n].Capacity /\ y.key = nodes[n].key
        /\ y.value = [nodes[n].value EXCEPT ![s] = v]
    BY <1>1, <1>2, WriteValue
  <1>4. nodes' = [nodes EXCEPT ![n] = y]
    BY <1>2
  <1>5. /\ nodes' \in Seq(Tables) /\ DOMAIN nodes' = DOMAIN nodes
        /\ Len(nodes') = Len(nodes)
        /\ nodes'[n] = y /\ \A m \in DOMAIN nodes : m # n => nodes'[m] = nodes[m]
    BY <1>1, <1>3, <1>4, WriteTable
  <1>6. /\ \A m \in DOMAIN nodes : /\ nodes'[m].Capacity = nodes[m].Capacity
                                   /\ nodes'[m].key = nodes[m].key
    BY <1>3, <1>5
  <1>7. \A m \in DOMAIN nodes : \A l : Absent(m, l)' <=> Absent(m, l)
    BY <1>6 DEF Absent, Slots
  <1>8. \A m \in DOMAIN nodes : \A l, u : In(m, l, u)' <=> In(m, l, u)
    BY <1>6 DEF In, Slots, StopsAt, Slot
  <1>9. /\ nodes'[n].value[s] = v
        /\ \A u \in Slots(n) : u # s => nodes'[n].value[u] = nodes[n].value[u]
    <2>1. PICK f : f = nodes[n].value
      OBVIOUS
    <2>2. f \in [Slots(n) -> Values \union {NoValue}]
      BY <2>1, TableTypes
    <2>3. \A u \in Slots(n) : [f EXCEPT ![s] = v][u] = IF u = s THEN v ELSE f[u]
      BY <2>2
    <2>4. nodes'[n].value = [f EXCEPT ![s] = v]
      BY <1>3, <1>5, <2>1
    <2> QED BY <1>1, <2>1, <2>3, <2>4
  <1>10. TablesKept
    BY <1>5, <1>6, <1>7, <1>8 DEF TablesKept, TypeOK, Reachable, Slots
  <1>11. ASSUME NEW l \in Keys, l # k PROVE Keeps(l)
    <2>1. \A u : In(n, l, u) => u # s /\ u \in Slots(n)
      BY <1>11 DEF In
    <2> QED BY <1>5, <1>7, <1>8, <1>9, <2>1 DEF Keeps
  <1> QED BY <1>5, <1>7, <1>8, <1>9, <1>10, <1>11

\* The first free slot is claimed for a key that is not in the table.
LEMMA KeyClaimed ==
    ASSUME TypeOK, Reachable, NEW n \in DOMAIN nodes, NEW k \in Keys, Absent(n, k),
           ProbeEnds(n, k, {INVALID_KEY}), NEW s, s = Stop(n, k, {INVALID_KEY}),
           nodes' = [nodes EXCEPT ![n].key[s] = k]
    PROVE  /\ TablesKept /\ DOMAIN nodes' = DOMAIN nodes
           /\ In(n, k, s)'
           /\ \A m \in DOMAIN nodes : m # n /\ Absent(m, k) => Absent(m, k)'
           /\ \A l \in Keys \ {k} : Keeps(l)
  <1>1. PICK i \in Slots(n) : StopsAt(n, k, {INVALID_KEY}, i) /\ s = Slot(n, k, i)
    BY ProbeStops
  <1>2. /\ n \in DOMAIN nodes /\ nodes[n] \in Tables /\ nodes \in Seq(Tables)
        /\ s \in Slots(n) /\ s \in 0 .. (nodes[n].Capacity - 1)
        /\ nodes[n].key[s] = INVALID_KEY
    <2>1. i \in Nat
      BY TableTypes DEF Slots
    <2>2. s \in Slots(n)
      BY <1>1, <2>1, SlotType
    <2> QED BY <1>1, <2>2, TableTypes DEF TypeOK, StopsAt, Slots
  <1>3. PICK y : y = [nodes[n] EXCEPT !.key[s] = k]
    OBVIOUS
  <1>4. /\ y \in Tables /\ y.Capacity = nodes[n].Capacity /\ y.value = nodes[n].value
        /\ y.key = [nodes[n].key EXCEPT ![s] = k]
    <2>1. PICK x \in Tables : x = nodes[n] /\ s \in 0 .. (x.Capacity - 1)
      BY <1>2
    <2>2. y = [x EXCEPT !.key[s] = k]
      BY <1>3, <2>1
    <2> QED BY <2>1, <2>2, WriteKey
  <1>5. nodes' = [nodes EXCEPT ![n] = y]
    BY <1>3
  <1>6. /\ nodes' \in Seq(Tables) /\ DOMAIN nodes' = DOMAIN nodes
        /\ Len(nodes') = Len(nodes)
        /\ nodes'[n] = y /\ \A m \in DOMAIN nodes : m # n => nodes'[m] = nodes[m]
    <2>1. PICK q \in Seq(Tables) : q = nodes
      BY <1>2
    <2>2. n \in DOMAIN q /\ y \in Tables /\ nodes' = [q EXCEPT ![n] = y]
      BY <1>2, <1>4, <1>5, <2>1
    <2>3. LET r == [q EXCEPT ![n] = y]
          IN  /\ r \in Seq(Tables) /\ DOMAIN r = DOMAIN q /\ Len(r) = Len(q)
              /\ r[n] = y /\ \A m \in DOMAIN q : m # n => r[m] = q[m]
      BY <2>2, WriteTable
    <2> QED BY <2>1, <2>2, <2>3
  <1>7. \A m \in DOMAIN nodes : /\ Slots(m)' = Slots(m)
                                /\ nodes'[m].value = nodes[m].value
                                /\ \A l, j : Slot(m, l, j)' = Slot(m, l, j)
    BY <1>4, <1>6 DEF Slots, Slot
  <1>8. /\ nodes'[n].key[s] = k
        /\ \A u \in Slots(n) : u # s => nodes'[n].key[u] = nodes[n].key[u]
    <2>1. PICK f : f = nodes[n].key
      OBVIOUS
    <2>2. f \in [Slots(n) -> Keys \union {INVALID_KEY}]
      BY <2>1, TableTypes
    <2>3. \A u \in Slots(n) : [f EXCEPT ![s] = k][u] = IF u = s THEN k ELSE f[u]
      BY <2>2
    <2>4. nodes'[n].key = [f EXCEPT ![s] = k]
      BY <1>4, <1>6, <2>1
    <2> QED BY <1>2, <2>1, <2>3, <2>4
  <1>9. \A m \in DOMAIN nodes : \A l, u : m # n =>
           /\ Absent(m, l)' <=> Absent(m, l)
           /\ In(m, l, u)' <=> In(m, l, u)
    <2> SUFFICES ASSUME NEW m \in DOMAIN nodes, m # n, NEW l, NEW u
                 PROVE  (Absent(m, l)' <=> Absent(m, l)) /\ (In(m, l, u)' <=> In(m, l, u))
      OBVIOUS
    <2>1. nodes'[m] = nodes[m]
      BY <1>6
    <2> QED BY <2>1 DEF Absent, In, Slots, StopsAt, Slot
  <1>10. \A l \in Keys \ {k} : Absent(n, l) => Absent(n, l)'
    BY <1>2, <1>7, <1>8 DEF Absent
  <1>11. ASSUME NEW l \in Keys, l # k, NEW u, In(n, l, u) PROVE In(n, l, u)'
    <2>1. u \in Slots(n) /\ nodes[n].key[u] = l /\ u # s
      BY <1>2, <1>11, KeysAssumption DEF In
    <2>2. PICK j \in Slots(n) : StopsAt(n, l, {l, INVALID_KEY}, j) /\ u = Slot(n, l, j)
      BY <1>11 DEF In
    <2>3. StopsAt(n, l, {l, INVALID_KEY}, j)'
      <3>1. /\ j \in Slots(n)' /\ j \in Nat
            /\ nodes'[n].key[Slot(n, l, j)'] \in {l, INVALID_KEY}
        <4>1. Slot(n, l, j)' = u /\ nodes'[n].key[u] = l
          BY <1>7, <1>8, <2>1, <2>2
        <4>2. j \in Slots(n)' /\ j \in Nat
          <5>1. Slots(n)' = Slots(n)
            BY <1>2, <1>7
          <5>2. Slots(n) \subseteq Nat
            BY <1>2, TableTypes DEF Slots
          <5> QED BY <5>1, <5>2
        <4> QED BY <4>1, <4>2
      <3>2. ASSUME NEW x \in 0 .. (j - 1)
            PROVE  nodes'[n].key[Slot(n, l, x)'] \notin {l, INVALID_KEY}
        <4>1. nodes[n].key[Slot(n, l, x)] \notin {l, INVALID_KEY}
          BY <2>2 DEF StopsAt
        <4>2. Slot(n, l, x) \in Slots(n) /\ Slot(n, l, x)' = Slot(n, l, x)
          BY <1>7, <3>1, SlotType
        <4>3. Slot(n, l, x) # s
          BY <1>2, <4>1
        <4> QED BY <1>8, <4>1, <4>2, <4>3
      <3> QED BY <3>1, <3>2 DEF StopsAt
    <2>4. /\ u \in Slots(n)' /\ j \in Slots(n)' /\ nodes'[n].key[u] = l
          /\ u = Slot(n, l, j)'
      BY <1>7, <1>8, <2>1, <2>2
    <2> QED BY <2>3, <2>4 DEF In
  <1>12. In(n, k, s)'
    <2>1. StopsAt(n, k, {k, INVALID_KEY}, i)'
      <3>1. ASSUME NEW x \in 0 .. (i - 1)
            PROVE  nodes'[n].key[Slot(n, k, x)'] \notin {k, INVALID_KEY}
        <4>1. nodes[n].key[Slot(n, k, x)] # INVALID_KEY
          BY <1>1 DEF StopsAt
        <4>2. Slot(n, k, x) \in Slots(n) /\ Slot(n, k, x)' = Slot(n, k, x)
          <5>1. x \in Nat
            BY TableTypes DEF Slots
          <5> QED BY <1>7, <5>1, SlotType
        <4>3. Slot(n, k, x) # s /\ nodes[n].key[Slot(n, k, x)] # k
          BY <1>2, <4>1, <4>2 DEF Absent
        <4> QED BY <1>8, <4>1, <4>2, <4>3
      <3>2. i \in Slots(n)' /\ Slot(n, k, i)' = s /\ nodes'[n].key[s] = k
        BY <1>1, <1>7, <1>8
      <3> QED BY <3>1, <3>2 DEF StopsAt
    <2>2. i \in Slots(n)' /\ Slot(n, k, i)' = s /\ s \in Slots(n)'
      BY <1>1, <1>2, <1>7
    <2> QED BY <1>8, <2>1, <2>2 DEF In
  <1>13. Reachable'
    <2> SUFFICES ASSUME NEW m \in DOMAIN nodes, NEW l \in Keys
                 PROVE  Absent(m, l)' \/ \E u \in Slots(m) : In(m, l, u)'
      BY <1>6, <1>7 DEF Reachable
    <2>1. CASE m # n
      BY <1>9, <2>1 DEF Reachable
    <2>2. CASE m = n /\ l = k
      BY <1>2, <1>12, <2>2
    <2>3. CASE m = n /\ l # k
      BY <1>10, <1>11, <2>3 DEF Reachable
    <2> QED BY <2>1, <2>2, <2>3
  <1>14. TablesKept
    BY <1>6, <1>13 DEF TablesKept, TypeOK
  <1>15. ASSUME NEW l \in Keys \ {k} PROVE Keeps(l)
    BY <1>6, <1>7, <1>9, <1>10, <1>11 DEF Keeps
  <1> QED BY <1>6, <1>9, <1>12, <1>14, <1>15

LEMMA NewTable ==
    ASSUME NEW c \in Nat \ {0}
    PROVE  /\ NewHashNode(c) \in Tables
           /\ \A k \in Keys, s \in 0 .. (NewHashNode(c).Capacity - 1) :
                 NewHashNode(c).key[s] # k
  <1>1. [i \in 0 .. (c - 1) |-> INVALID_KEY] \in [0 .. (c - 1) -> Keys \union {INVALID_KEY}]
    OBVIOUS
  <1>2. [i \in 0 .. (c - 1) |-> NoValue] \in [0 .. (c - 1) -> Values \union {NoValue}]
    OBVIOUS
  <1>3. NewHashNode(c) \in
           [Capacity : {c}, key : [0 .. (c - 1) -> Keys \union {INVALID_KEY}],
            value : [0 .. (c - 1) -> Values \union {NoValue}]]
    BY <1>1, <1>2 DEF NewHashNode
  <1>4. /\ NewHashNode(c).Capacity = c
        /\ \A s \in 0 .. (c - 1) : NewHashNode(c).key[s] = INVALID_KEY
    BY DEF NewHashNode
  <1> QED BY <1>3, <1>4, KeysAssumption DEF Tables

\* A new table holds no key yet.
LEMMA TableAppended ==
    ASSUME TypeOK, Reachable, NEW c \in Nat \ {0}, nodes' = Append(nodes, NewHashNode(c))
    PROVE  /\ TablesKept /\ Len(nodes') = Len(nodes) + 1
           /\ \A k \in Keys : Keeps(k)
  <1>1. PICK y : y = NewHashNode(c)
    OBVIOUS
  <1>2. nodes \in Seq(Tables) /\ y \in Tables /\ nodes' = Append(nodes, y)
    BY <1>1, NewTable DEF TypeOK
  <1>3. /\ nodes' \in Seq(Tables) /\ Len(nodes') = Len(nodes) + 1 /\ Len(nodes) \in Nat
        /\ DOMAIN nodes = 1 .. Len(nodes) /\ DOMAIN nodes' = 1 .. (Len(nodes) + 1)
        /\ nodes'[Len(nodes) + 1] = y /\ \A m \in DOMAIN nodes : nodes'[m] = nodes[m]
    BY <1>2
  <1>4. /\ \A m \in DOMAIN nodes : \A k : Absent(m, k)' <=> Absent(m, k)
        /\ \A m \in DOMAIN nodes : \A k, s : In(m, k, s)' <=> In(m, k, s)
    <2> SUFFICES ASSUME NEW m \in DOMAIN nodes, NEW k, NEW s
                 PROVE  (Absent(m, k)' <=> Absent(m, k)) /\ (In(m, k, s)' <=> In(m, k, s))
      OBVIOUS
    <2>1. nodes'[m] = nodes[m]
      BY <1>3
    <2> QED BY <2>1 DEF Absent, In, Slots, StopsAt, Slot
  <1>5. \A m \in DOMAIN nodes' \ DOMAIN nodes, k \in Keys : Absent(m, k)'
    <2> SUFFICES ASSUME NEW m \in DOMAIN nodes' \ DOMAIN nodes, NEW k \in Keys
                 PROVE  Absent(m, k)'
      OBVIOUS
    <2>1. nodes'[m] = y
      BY <1>3
    <2> QED BY <1>1, <2>1, NewTable DEF Absent, Slots
  <1>6. Reachable'
    <2> SUFFICES ASSUME NEW m \in DOMAIN nodes', NEW k \in Keys
                 PROVE  Absent(m, k)' \/ \E s \in Slots(m)' : In(m, k, s)'
      BY DEF Reachable
    <2>1. CASE m \in DOMAIN nodes
      <3>1. Absent(m, k) \/ \E s \in Slots(m) : In(m, k, s)
        BY <2>1 DEF Reachable
      <3>2. Slots(m)' = Slots(m)
        BY <1>3, <2>1 DEF Slots
      <3>3. \A s : In(m, k, s) => In(m, k, s)'
        BY <1>4, <2>1
      <3>4. Absent(m, k) => Absent(m, k)'
        BY <1>4, <2>1
      <3> QED BY <3>1, <3>2, <3>3, <3>4
    <2>2. CASE m \notin DOMAIN nodes
      BY <1>5, <2>2
    <2> QED BY <2>1, <2>2
  <1>7. ASSUME NEW k \in Keys PROVE Keeps(k)
    <2>1. ASSUME NEW m \in DOMAIN nodes
          PROVE  /\ Absent(m, k) => Absent(m, k)'
                 /\ \A s : In(m, k, s) => /\ In(m, k, s)'
                                         /\ nodes'[m].value[s] = nodes[m].value[s]
      <3>1. \A s : In(m, k, s) => In(m, k, s)'
        BY <1>4
      <3> QED BY <1>3, <1>4, <3>1
    <2>2. DOMAIN nodes \subseteq DOMAIN nodes'
      BY <1>3
    <2> QED BY <1>5, <2>1, <2>2 DEF Keeps
  <1>8. TablesKept
    BY <1>3, <1>6 DEF TablesKept
  <1> QED BY <1>3, <1>7, <1>8

-----------------------------------------------------------------------------
(* What the steps of one thread leave of what the others know *)

LEMMA KeptFacts ==
    ASSUME TypeOK, NEW k, Keeps(k), NEW n, NEW s, NEW v
    PROVE  /\ AbsentAfter(n, k) => AbsentAfter(n, k)'
           /\ Newest(n, k, s) => Newest(n, k, s)'
           /\ Holds(n, k, s, v) => Holds(n, k, s, v)'
  <1>1. AbsentAfter(n, k) => AbsentAfter(n, k)'
    BY DEF AbsentAfter, Keeps
  <1>2. Newest(n, k, s) => Newest(n, k, s)'
    BY <1>1 DEF Newest, Keeps
  <1>3. Holds(n, k, s, v) => Holds(n, k, s, v)'
    BY <1>2 DEF Holds, Keeps, Newest
  <1> QED BY <1>1, <1>2, <1>3

LEMMA CurrentKept ==
    ASSUME TypeOK, NEW k \in Keys, Keeps(k), latest'[k] = latest[k], Current(k)
    PROVE  Current(k)'
  <1>1. CASE latest[k] = NoValue
    <2>1. AbsentAfter(0, k)
      BY <1>1 DEF Current
    <2>2. AbsentAfter(0, k)'
      BY <2>1, KeptFacts
    <2> QED BY <1>1, <2>2 DEF Current
  <1>2. CASE latest[k] # NoValue
    <2>1. PICK n \in DOMAIN nodes : \E s \in Slots(n) : Holds(n, k, s, latest[k])
      BY <1>2 DEF Current
    <2>6. PICK s \in Slots(n) : Holds(n, k, s, latest[k])
      BY <2>1
    <2>2. PICK v : v = latest[k]
      OBVIOUS
    <2>3. Holds(n, k, s, v)'
      BY <2>2, <2>6, KeptFacts
    <2>4. Holds(n, k, s, latest[k])' /\ n \in DOMAIN nodes' /\ s \in Slots(n)'
      BY <2>2, <2>3 DEF Holds, Newest, In
    <2> QED BY <1>2, <2>4 DEF Current
  <1> QED BY <1>1, <1>2

LEMMA CallKept ==
    ASSUME TypeOK, NEW t, NEW r, Keeps(r.key), latest'[r.key] = latest[r.key], CallOK(t, r)
    PROVE  CallOK(t, r)'
  <1>1. PICK v : v = latest[r.key]
    OBVIOUS
  <1>2. /\ AbsentAfter(0, r.key) => AbsentAfter(0, r.key)'
        /\ AbsentAfter(r.node, r.key) => AbsentAfter(r.node, r.key)'
        /\ Newest(r.node, r.key, r.index) => Newest(r.node, r.key, r.index)'
        /\ Holds(r.node, r.key, r.index, v) => Holds(r.node, r.key, r.index, v)'
    BY KeptFacts
  <1>3. Holds(r.node, r.key, r.index, latest[r.key])
           => Holds(r.node, r.key, r.index, latest[r.key])'
    BY <1>1, <1>2 DEF Holds
  <1>4. DOMAIN nodes \subseteq DOMAIN nodes'
    BY DEF Keeps
  <1> QED BY <1>2, <1>3, <1>4 DEF CallOK

\* A thread in a call: the key is its own, and no other call has claimed a slot for it.
LEMMA OwnKey ==
    ASSUME IndInv, KeysAreOwn, NEW t \in Threads, NEW k \in KeysOf[t],
           call[t].step \notin {"promoted", "added"}
    PROVE  k \in Keys /\ ~Claimed(k) /\ Current(k)
  <1>1. k \in Keys
    BY KeysAssumption
  <1>2. ASSUME NEW u \in Threads, call[u].step \in {"promoted", "added"}, call[u].key = k
        PROVE  FALSE
    <2>1. call[u].key \in KeysOf[u] /\ u # t
      BY <1>2 DEF IndInv, CallsOK, CallOK
    <2> QED BY <1>2, <2>1 DEF KeysAreOwn
  <1>3. ~Claimed(k)
    BY <1>2 DEF Claimed
  <1> QED BY <1>1, <1>3 DEF IndInv, KeysCurrent

\* The others' keys are not touched; what is left is to show of the thread's own.
LEMMA OwnStep ==
    ASSUME IndInv, KeysAreOwn, NEW t \in Threads, NEW k \in KeysOf[t], NEW r,
           call' = [call EXCEPT ![t] = r],
           call[t].step # "idle" => call[t].key = k,
           TablesKept,
           \A l \in Keys \ {k} : Keeps(l) /\ latest'[l] = latest[l] /\ added'[l] = added[l],
           latest' \in [Keys -> Values \union {NoValue}], added' \in [Keys -> Nat],
           added'[k] = IF latest'[k] = NoValue THEN 0 ELSE 1,
           CallOK(t, r)',
           Current(k)' \/ (r.step \in {"promoted", "added"} /\ r.key = k)
    PROVE  IndInv'
  <1>1. /\ call' = [u \in Threads |-> call'[u]] /\ call'[t] = r
        /\ \A u \in Threads \ {t} : call'[u] = call[u]
    <2>1. call = [u \in Threads |-> call[u]]
      BY DEF IndInv, TypeOK
    <2> QED BY <2>1
  <1>2. TypeOK'
    BY <1>1 DEF TypeOK, TablesKept
  <1>3. CallsOK'
    <2>1. ASSUME NEW u \in Threads, u # t PROVE CallOK(u, call[u])'
      <3>1. PICK c : c = call[u]
        OBVIOUS
      <3>2. CASE c.step = "idle"
        BY <1>1, <2>1, <3>1, <3>2 DEF CallOK
      <3>3. CASE c.step # "idle"
        <4>1. CallOK(u, c)
          BY <3>1 DEF IndInv, CallsOK
        <4>2. c.key \in KeysOf[u]
          BY <3>3, <4>1 DEF CallOK
        <4>3. c.key \in Keys \ {k}
          BY <2>1, <4>2, KeysAssumption DEF KeysAreOwn
        <4>4. CallOK(u, c)'
          BY <4>1, <4>3, CallKept DEF IndInv
        <4>5. call'[u] = c
          BY <1>1, <2>1, <3>1
        <4> QED BY <4>4, <4>5
      <3> QED BY <3>2, <3>3
    <2>2. CallOK(t, call[t])'
      BY <1>1
    <2> QED BY <2>1, <2>2 DEF CallsOK
  <1>4. KeysCurrent'
    <2>1. ASSUME NEW l \in Keys, l # k PROVE Claimed(l)' \/ Current(l)'
      <3>1. CASE Claimed(l)
        <4>1. PICK u \in Threads : call[u].step \in {"promoted", "added"} /\ call[u].key = l
          BY <3>1 DEF Claimed
        <4>2. u # t
          BY <2>1, <4>1
        <4>3. call'[u] = call[u]
          BY <1>1, <4>2
        <4> QED BY <4>1, <4>3 DEF Claimed
      <3>2. CASE Current(l)
        BY <2>1, <3>2, CurrentKept DEF IndInv
      <3> QED BY <3>1, <3>2 DEF IndInv, KeysCurrent
    <2>2. Claimed(k)' \/ Current(k)'
      BY <1>1 DEF Claimed
    <2> QED BY <2>1, <2>2 DEF KeysCurrent
  <1>5. AddedExact'
    BY DEF IndInv, AddedExact
  <1> QED BY <1>2, <1>3, <1>4, <1>5 DEF IndInv, TablesKept

\* A step of a call that stores nothing.
LEMMA Moves ==
    ASSUME IndInv, KeysAreOwn, NEW t \in Threads, NEW k \in KeysOf[t], NEW r,
           call' = [call EXCEPT ![t] = r], UNCHANGED <<latest, added>>,
           call[t].step # "idle" => call[t].key = k,
           TablesKept, \A l \in Keys : Keeps(l),
           call[t].step \notin {"promoted", "added"},
           CallOK(t, r)'
    PROVE  IndInv'
  <1>1. k \in Keys /\ Current(k)
    BY OwnKey
  <1>2. Current(k)'
    BY <1>1, CurrentKept DEF IndInv
  <1>3. /\ latest' \in [Keys -> Values \union {NoValue}] /\ added' \in [Keys -> Nat]
        /\ added'[k] = IF latest'[k] = NoValue THEN 0 ELSE 1
    BY <1>1 DEF IndInv, TypeOK, AddedExact
  <1> QED BY <1>2, <1>3, OwnStep

\* Nor does it change the tables.
LEMMA Looks ==
    ASSUME IndInv, KeysAreOwn, NEW t \in Threads, NEW k \in KeysOf[t], NEW r,
           call' = [call EXCEPT ![t] = r], UNCHANGED <<nodes, latest, added>>,
           call[t].step # "idle" => call[t].key = k,
           call[t].step \notin {"promoted", "added"},
           CallOK(t, r), r.step = "idle" \/ r.key = k
    PROVE  IndInv'
  <1>1. TablesKept /\ \A l \in Keys : Keeps(l)
    BY SameTables DEF IndInv
  <1>2. CallOK(t, r)'
    <2>1. CASE r.step = "idle"
      BY <2>1 DEF CallOK
    <2>2. CASE r.step # "idle"
      <3>1. r.key \in Keys
        BY <2>2, KeysAssumption
      <3> QED BY <1>1, <3>1, CallKept DEF IndInv
    <2> QED BY <2>1, <2>2
  <1> QED BY <1>1, <1>2, Moves

-----------------------------------------------------------------------------
(* The records of the calls *)

\* r is the record of a call for the same key as c, at these places.
Like(r, c, step, main, node, index, old) ==
    /\ IsCall(r) /\ r.step = step /\ r.key = c.key /\ r.main = main
    /\ r.node = node /\ r.index = index /\ r.old = old

\* The calls as c is but for its step, places and count.
CallsLike(c, s, m, n, i, o, d) ==
    [step : {s}, op : {c.op}, key : {c.key}, value : {c.value}, main : {m},
     node : {n}, index : {i}, old : {o}, NewCount : {d}]

LEMMA LikeIs ==
    ASSUME NEW c, IsCall(c), NEW s, NEW m \in Nat, NEW n \in Nat, NEW i \in Nat,
           NEW o \in Values \union {NoValue}, NEW d, NEW r \in CallsLike(c, s, m, n, i, o, d)
    PROVE  Like(r, c, s, m, n, i, o)
  <1>1. c.key \in Keys /\ c.value \in Values
    BY DEF IsCall
  <1>2. PICK op : op = c.op
    OBVIOUS
  <1>3. PICK k \in Keys, v \in Values :
           /\ c.key = k
           /\ r \in [step : {s}, op : {op}, key : {k}, value : {v}, main : {m},
                     node : {n}, index : {i}, old : {o}, NewCount : {d}]
    BY <1>1, <1>2 DEF CallsLike
  <1> QED BY <1>3 DEF Like, IsCall

\* What a step changes of the record.
LEMMA Fields ==
    ASSUME NEW S, NEW B, NEW K, NEW V, NEW M, NEW N, NEW I, NEW O, NEW D,
           NEW c \in [step : S, op : B, key : K, value : V, main : M, node : N,
                     index : I, old : O, NewCount : D],
           NEW s, NEW m, NEW n, NEW i, NEW o, NEW d
    PROVE  /\ [c EXCEPT !.step = s, !.index = i] \in
                 [step : {s}, op : B, key : K, value : V, main : M, node : N, index : {i},
                  old : O, NewCount : D]
           /\ [c EXCEPT !.node = n] \in
                 [step : S, op : B, key : K, value : V, main : M, node : {n}, index : I,
                  old : O, NewCount : D]
           /\ [c EXCEPT !.step = s, !.node = n] \in
                 [step : {s}, op : B, key : K, value : V, main : M, node : {n}, index : I,
                  old : O, NewCount : D]
           /\ [c EXCEPT !.step = s, !.old = o] \in
                 [step : {s}, op : B, key : K, value : V, main : M, node : N, index : I,
                  old : {o}, NewCount : D]
           /\ [c EXCEPT !.step = s, !.node = n, !.index = i] \in
                 [step : {s}, op : B, key : K, value : V, main : M, node : {n}, index : {i},
                  old : O, NewCount : D]
           /\ [c EXCEPT !.step = s, !.NewCount = d] \in
                 [step : {s}, op : B, key : K, value : V, main : M, node : N, index : I,
                  old : O, NewCount : {d}]
           /\ [c EXCEPT !.step = s] \in
                 [step : {s}, op : B, key : K, value : V, main : M, node : N, index : I,
                  old : O, NewCount : D]
           /\ [c EXCEPT !.step = s, !.main = m] \in
                 [step : {s}, op : B, key : K, value : V, main : {m}, node : N, index : I,
                  old : O, NewCount : D]
           /\ [c EXCEPT !.main = m] \in
                 [step : S, op : B, key : K, value : V, main : {m}, node : N, index : I,
                  old : O, NewCount : D]
           /\ [c EXCEPT !.step = s, !.main = m, !.NewCount = d] \in
                 [step : {s}, op : B, key : K, value : V, main : {m}, node : N, index : I,
                  old : O, NewCount : {d}]
  OBVIOUS

LEMMA Changed ==
    ASSUME NEW c, IsCall(c), NEW s, NEW m, NEW n, NEW i, NEW o, NEW d
    PROVE  /\ [c EXCEPT !.step = s, !.index = i] \in CallsLike(c, s, c.main, c.node, i, c.old, c.NewCount)
           /\ [c EXCEPT !.node = n] \in CallsLike(c, c.step, c.main, n, c.index, c.old, c.NewCount)
           /\ [c EXCEPT !.step = s, !.node = n] \in CallsLike(c, s, c.main, n, c.index, c.old, c.NewCount)
           /\ [c EXCEPT !.step = s, !.old = o] \in CallsLike(c, s, c.main, c.node, c.index, o, c.NewCount)
           /\ [c EXCEPT !.step = s, !.node = n, !.index = i] \in CallsLike(c, s, c.main, n, i, c.old, c.NewCount)
           /\ [c EXCEPT !.step = s, !.NewCount = d] \in CallsLike(c, s, c.main, c.node, c.index, c.old, d)
           /\ [c EXCEPT !.step = s] \in CallsLike(c, s, c.main, c.node, c.index, c.old, c.NewCount)
           /\ [c EXCEPT !.step = s, !.main = m] \in CallsLike(c, s, m, c.node, c.index, c.old, c.NewCount)
           /\ [c EXCEPT !.main = m] \in CallsLike(c, c.step, m, c.node, c.index, c.old, c.NewCount)
           /\ [c EXCEPT !.step = s, !.main = m, !.NewCount = d] \in CallsLike(c, s, m, c.node, c.index, c.old, d)
  <1>1. c \in [step : {c.step}, op : {c.op}, key : {c.key}, value : {c.value},
               main : {c.main}, node : {c.node}, index : {c.index}, old : {c.old},
               NewCount : {c.NewCount}]
    BY DEF IsCall
  <1>2. PICK S, B, K, V, M, N, I, O, D :
           /\ S = {c.step} /\ B = {c.op} /\ K = {c.key} /\ V = {c.value} /\ M = {c.main}
           /\ N = {c.node} /\ I = {c.index} /\ O = {c.old} /\ D = {c.NewCount}
    OBVIOUS
  <1>3. c \in [step : S, op : B, key : K, value : V, main : M, node : N,
               index : I, old : O, NewCount : D]
    BY <1>1, <1>2
  <1>4. /\ [c EXCEPT !.step = s, !.index = i] \in
              [step : {s}, op : B, key : K, value : V, main : M, node : N, index : {i},
               old : O, NewCount : D]
        /\ [c EXCEPT !.node = n] \in
              [step : S, op : B, key : K, value : V, main : M, node : {n}, index : I,
               old : O, NewCount : D]
        /\ [c EXCEPT !.step = s, !.node = n] \in
              [step : {s}, op : B, key : K, value : V, main : M, node : {n}, index : I,
               old : O, NewCount : D]
        /\ [c EXCEPT !.step = s, !.old = o] \in
              [step : {s}, op : B, key : K, value : V, main : M, node : N, index : I,
               old : {o}, NewCount : D]
        /\ [c EXCEPT !.step = s, !.node = n, !.index = i] \in
              [step : {s}, op : B, key : K, value : V, main : M, node : {n}, index : {i},
               old : O, NewCount : D]
        /\ [c EXCEPT !.step = s, !.NewCount = d] \in
              [step : {s}, op : B, key : K, value : V, main : M, node : N, index : I,
               old : O, NewCount : {d}]
        /\ [c EXCEPT !.step = s] \in
              [step : {s}, op : B, key : K, value : V, main : M, node : N, index : I,
               old : O, NewCount : D]
        /\ [c EXCEPT !.step = s, !.main = m] \in
              [step : {s}, op : B, key : K, value : V, main : {m}, node : N, index : I,
               old : O, NewCount : D]
        /\ [c EXCEPT !.main = m] \in
              [step : S, op : B, key : K, value : V, main : {m}, node : N, index : I,
               old : O, NewCount : D]
        /\ [c EXCEPT !.step = s, !.main = m, !.NewCount = d] \in
              [step : {s}, op : B, key : K, value : V, main : {m}, node : N, index : I,
               old : O, NewCount : {d}]
    BY <1>3, Fields, Zenon
  <1> QED BY <1>2, <1>4 DEF CallsLike

LEMMA ChangedLike ==
    ASSUME NEW c, IsCall(c), NEW s, NEW m \in Nat, NEW n \in Nat, NEW i \in Nat,
           NEW o \in Values \union {NoValue}, NEW d
    PROVE  /\ Like([c EXCEPT !.step = s, !.index = i], c, s, c.main, c.node, i, c.old)
           /\ Like([c EXCEPT !.node = n], c, c.step, c.main, n, c.index, c.old)
           /\ Like([c EXCEPT !.step = s, !.node = n], c, s, c.main, n, c.index, c.old)
           /\ Like([c EXCEPT !.step = s, !.old = o], c, s, c.main, c.node, c.index, o)
           /\ Like([c EXCEPT !.step = s, !.node = n, !.index = i], c, s, c.main, n, i, c.old)
           /\ Like([c EXCEPT !.step = s, !.NewCount = d], c, s, c.main, c.node, c.index, c.old)
           /\ Like([c EXCEPT !.step = s], c, s, c.main, c.node, c.index, c.old)
           /\ Like([c EXCEPT !.step = s, !.main = m], c, s, m, c.node, c.index, c.old)
           /\ Like([c EXCEPT !.main = m], c, c.step, m, c.node, c.index, c.old)
           /\ Like([c EXCEPT !.step = s, !.main = m, !.NewCount = d],
                   c, s, m, c.node, c.index, c.old)
  <1>1. /\ c.key \in Keys /\ c.value \in Values /\ c.main \in Nat /\ c.node \in Nat
        /\ c.index \in Nat /\ c.old \in Values \union {NoValue}
    BY DEF IsCall
  <1>2. Like([c EXCEPT !.step = s, !.index = i], c, s, c.main, c.node, i, c.old)
    <2>1. [c EXCEPT !.step = s, !.index = i]
             \in CallsLike(c, s, c.main, c.node, i, c.old, c.NewCount)
      BY Changed, Zenon
    <2> QED BY <1>1, <2>1, LikeIs
  <1>3. Like([c EXCEPT !.node = n], c, c.step, c.main, n, c.index, c.old)
    <2>1. [c EXCEPT !.node = n]
             \in CallsLike(c, c.step, c.main, n, c.index, c.old, c.NewCount)
      BY Changed, Zenon
    <2> QED BY <1>1, <2>1, LikeIs
  <1>4. Like([c EXCEPT !.step = s, !.node = n], c, s, c.main, n, c.index, c.old)
    <2>1. [c EXCEPT !.step = s, !.node = n]
             \in CallsLike(c, s, c.main, n, c.index, c.old, c.NewCount)
      BY Changed, Zenon
    <2> QED BY <1>1, <2>1, LikeIs
  <1>5. Like([c EXCEPT !.step = s, !.old = o], c, s, c.main, c.node, c.index, o)
    <2>1. [c EXCEPT !.step = s, !.old = o]
             \in CallsLike(c, s, c.main, c.node, c.index, o, c.NewCount)
      BY Changed, Zenon
    <2> QED BY <1>1, <2>1, LikeIs
  <1>6. Like([c EXCEPT !.step = s, !.node = n, !.index = i], c, s, c.main, n, i, c.old)
    <2>1. [c EXCEPT !.step = s, !.node = n, !.index = i]
             \in CallsLike(c, s, c.main, n, i, c.old, c.NewCount)
      BY Changed, Zenon
    <2> QED BY <1>1, <2>1, LikeIs
  <1>7. Like([c EXCEPT !.step = s, !.NewCount = d], c, s, c.main, c.node, c.index, c.old)
    <2>1. [c EXCEPT !.step = s, !.NewCount = d]
             \in CallsLike(c, s, c.main, c.node, c.index, c.old, d)
      BY Changed, Zenon
    <2> QED BY <1>1, <2>1, LikeIs
  <1>8. Like([c EXCEPT !.step = s], c, s, c.main, c.node, c.index, c.old)
    <2>1. [c EXCEPT !.step = s]
             \in CallsLike(c, s, c.main, c.node, c.index, c.old, c.NewCount)
      BY Changed, Zenon
    <2> QED BY <1>1, <2>1, LikeIs
  <1>9. Like([c EXCEPT !.step = s, !.main = m], c, s, m, c.node, c.index, c.old)
    <2>1. [c EXCEPT !.step = s, !.main = m]
             \in CallsLike(c, s, m, c.node, c.index, c.old, c.NewCount)
      BY Changed, Zenon
    <2> QED BY <1>1, <2>1, LikeIs
  <1>10. Like([c EXCEPT !.main = m], c, c.step, m, c.node, c.index, c.old)
    <2>1. [c EXCEPT !.main = m]
             \in CallsLike(c, c.step, m, c.node, c.index, c.old, c.NewCount)
      BY Changed, Zenon
    <2> QED BY <1>1, <2>1, LikeIs
  <1>11. Like([c EXCEPT !.step = s, !.main = m, !.NewCount = d],
              c, s, m, c.node, c.index, c.old)
    <2>1. [c EXCEPT !.step = s, !.main = m, !.NewCount = d]
             \in CallsLike(c, s, m, c.node, c.index, c.old, d)
      BY Changed, Zenon
    <2> QED BY <1>1, <2>1, LikeIs
  <1> QED BY <1>2, <1>3, <1>4, <1>5, <1>6, <1>7, <1>8, <1>9, <1>10, <1>11

LEMMA AddOrReloads ==
    ASSUME NEW c, IsCall(c)
    PROVE  \E s \in {"add", "reload"} :
              Like(AddOrReload(c), c, s, c.main, c.node, c.index, c.old)
  <1>1. /\ c.main \in Nat /\ c.node \in Nat /\ c.index \in Nat
        /\ c.old \in Values \union {NoValue}
    BY DEF IsCall
  <1>2. CASE AddOrReload(c) = [c EXCEPT !.step = "add", !.NewCount = 0]
    <2>1. PICK d : d = 0
      OBVIOUS
    <2>2. Like([c EXCEPT !.step = "add", !.NewCount = d],
               c, "add", c.main, c.node, c.index, c.old)
      BY <1>1, ChangedLike, Zenon
    <2> QED BY <1>2, <2>1, <2>2
  <1>3. CASE AddOrReload(c) = [c EXCEPT !.step = "reload"]
    BY <1>1, <1>3, ChangedLike, Zenon
  <1> QED BY <1>2, <1>3 DEF AddOrReload

-----------------------------------------------------------------------------
(* What the steps of a call preserve *)

LEMMA CallFacts ==
    ASSUME IndInv, NEW t \in Threads, NEW c, c = call[t], c.step # "idle"
    PROVE  /\ IsCall(c) /\ CallOK(t, c) /\ TypeOK /\ Reachable
           /\ c.key \in KeysOf[t] /\ c.key \in Keys
           /\ c.main \in DOMAIN nodes /\ c.main \in Nat \ {0}
           /\ c.node \in Nat /\ c.index \in Nat /\ c.old \in Values \union {NoValue}
           /\ c.value \in Values
           /\ latest[c.key] \in Values \union {NoValue} /\ added[c.key] \in Nat
           /\ Len(nodes) \in DOMAIN nodes /\ Len(nodes) \in Nat \ {0}
           /\ DOMAIN nodes = 1 .. Len(nodes)
  <1>1. CallOK(t, c) /\ TypeOK /\ Reachable
    BY DEF IndInv, CallsOK
  <1>2. IsCall(c) /\ c.key \in KeysOf[t] /\ c.main \in DOMAIN nodes
    BY <1>1 DEF CallOK
  <1>3. /\ c.key \in Keys /\ c.value \in Values /\ c.node \in Nat /\ c.index \in Nat
        /\ c.old \in Values \union {NoValue}
    BY <1>2 DEF IsCall
  <1>4. /\ c.main \in Nat \ {0} /\ Len(nodes) \in Nat \ {0}
        /\ DOMAIN nodes = 1 .. Len(nodes)
    BY <1>1, <1>2, TableTypes
  <1>5. latest[c.key] \in Values \union {NoValue} /\ added[c.key] \in Nat
    BY <1>1, <1>3 DEF TypeOK
  <1> QED BY <1>1, <1>2, <1>3, <1>4, <1>5

\* A key that no table holds has never been stored, and one that is found has the
\* value it was stored with.
LEMMA NotThere ==
    ASSUME TypeOK, NEW k, Current(k), AbsentAfter(0, k)
    PROVE  latest[k] = NoValue
  <1>1. ASSUME NEW n \in DOMAIN nodes, NEW s \in Slots(n), Holds(n, k, s, latest[k])
        PROVE  FALSE
    <2>1. Absent(n, k)
      BY TableTypes DEF AbsentAfter
    <2>2. In(n, k, s)
      BY <1>1 DEF Holds, Newest
    <2> QED BY <2>1, <2>2 DEF In, Absent
  <1> QED BY <1>1 DEF Current

LEMMA ThereIs ==
    ASSUME TypeOK, NEW k, Current(k), NEW n, NEW s, Newest(n, k, s)
    PROVE  latest[k] # NoValue /\ Holds(n, k, s, latest[k])
  <1>1. n \in DOMAIN nodes /\ In(n, k, s) /\ AbsentAfter(n, k) /\ ~Absent(n, k) /\ n \in Nat
    BY TableTypes DEF Newest, In, Absent
  <1>2. latest[k] # NoValue
    <2>1. ~AbsentAfter(0, k)
      BY <1>1, TableTypes DEF AbsentAfter
    <2> QED BY <2>1 DEF Current
  <1>3. PICK m \in DOMAIN nodes : \E u \in Slots(m) : Holds(m, k, u, latest[k])
    BY <1>2 DEF Current
  <1>4. PICK u \in Slots(m) : Holds(m, k, u, latest[k])
    BY <1>3
  <1>5. In(m, k, u) /\ AbsentAfter(m, k) /\ ~Absent(m, k) /\ m \in Nat
    BY <1>4, TableTypes DEF Holds, Newest, In, Absent
  <1>6. m = n
    <2>1. ~(m < n) /\ ~(n < m)
      BY <1>1, <1>5 DEF AbsentAfter
    <2> QED BY <1>1, <1>5, <2>1
  <1>7. u = s
    BY <1>1, <1>5, <1>6, InOnce
  <1> QED BY <1>2, <1>4, <1>6, <1>7

LEMMA BeginInd ==
    ASSUME IndInv, KeysAreOwn, NEW t \in Threads, NEW op, NEW k \in KeysOf[t],
           NEW v \in ValuesOf[k], Begin(t, op, k, v)
    PROVE  IndInv'
  <1>1. PICK r : r = [step |-> "probe", op |-> op, key |-> k, value |-> v,
                      main |-> Len(nodes), node |-> Len(nodes), index |-> 0,
                      old |-> NoValue, NewCount |-> 0]
    OBVIOUS
  <1>2. /\ call' = [call EXCEPT ![t] = r] /\ UNCHANGED <<nodes, latest, added>>
        /\ call[t].step = "idle"
    BY <1>1 DEF Begin, Goto, At
  <1>3. /\ k \in Keys /\ v \in Values /\ Len(nodes) \in Nat /\ Len(nodes) \in DOMAIN nodes
        /\ DOMAIN nodes = 1 .. Len(nodes)
    <2>1. k \in Keys /\ v \in Values
      BY KeysAssumption
    <2>2. nodes \in Seq(Tables) /\ Len(nodes) > 0
      BY DEF IndInv, TypeOK
    <2> QED BY <2>1, <2>2
  <1>4. IsCall(r)
    BY <1>1, <1>3 DEF IsCall
  <1>5. /\ r.step = "probe" /\ r.key = k /\ r.main = Len(nodes) /\ r.node = Len(nodes)
    BY <1>1
  <1>6. AbsentAfter(r.node, k)
    BY <1>3, <1>5 DEF AbsentAfter
  <1>7. CallOK(t, r)
    BY <1>3, <1>4, <1>5, <1>6 DEF CallOK
  <1> QED BY <1>2, <1>5, <1>7, Looks

LEMMA CopyInd ==
    ASSUME IndInv, KeysAreOwn, NEW t \in Threads, Copy(t)
    PROVE  IndInv'
  <1>1. PICK c, v, r : c = call[t] /\ v = ValueHere(t)
                       /\ r = [c EXCEPT !.step = "promote", !.old = v]
    OBVIOUS
  <1>2. /\ call' = [call EXCEPT ![t] = r] /\ UNCHANGED <<nodes, latest, added>>
        /\ c.step = "copy"
    BY <1>1 DEF Copy, Goto, At
  <1>3. /\ c.node < c.main /\ Holds(c.node, c.key, c.index, latest[c.key])
        /\ latest[c.key] # NoValue
    BY <1>1, <1>2, CallFacts DEF CallOK
  <1>4. v = latest[c.key] /\ v \in Values \union {NoValue}
    BY <1>1, <1>2, <1>3, CallFacts DEF Holds, ValueHere
  <1>5. Like(r, c, "promote", c.main, c.node, c.index, v)
    BY <1>1, <1>2, <1>4, CallFacts, ChangedLike, Zenon
  <1>6. CallOK(t, r)
    BY <1>1, <1>2, <1>3, <1>4, <1>5, CallFacts DEF CallOK, Like
  <1>7. r.key = c.key
    BY <1>5 DEF Like
  <1> QED BY <1>1, <1>2, <1>6, <1>7, CallFacts, Looks

LEMMA ReloadInd ==
    ASSUME IndInv, KeysAreOwn, NEW t \in Threads, Reload(t)
    PROVE  IndInv'
  <1>1. PICK c, m, r : c = call[t] /\ m = Len(nodes)
                       /\ r = [c EXCEPT !.step = "room", !.main = m]
    OBVIOUS
  <1>2. /\ call' = [call EXCEPT ![t] = r] /\ UNCHANGED <<nodes, latest, added>>
        /\ c.step = "reload"
    BY <1>1 DEF Reload, Goto, At
  <1>3. AbsentAfter(0, c.key) /\ latest[c.key] = NoValue
    BY <1>1, <1>2, CallFacts DEF CallOK
  <1>4. Like(r, c, "room", m, c.node, c.index, c.old)
    BY <1>1, <1>2, CallFacts, ChangedLike, Zenon
  <1>5. CallOK(t, r)
    BY <1>1, <1>2, <1>3, <1>4, CallFacts DEF CallOK, Like
  <1>6. r.key = c.key
    BY <1>4 DEF Like
  <1> QED BY <1>1, <1>2, <1>5, <1>6, CallFacts, Looks

\* A step towards Add that leaves the tables.
LEMMA AddingOn ==
    ASSUME IndInv, KeysAreOwn, NEW t \in Threads, NEW c, c = call[t],
           c.step \in {"count", "room", "reload", "resize", "clear"},
           NEW s, s = "room" \/ s = "resize" \/ s = "add" \/ s = "reload",
           NEW m \in DOMAIN nodes, NEW r, Like(r, c, s, m, c.node, c.index, c.old),
           call' = [call EXCEPT ![t] = r], UNCHANGED <<nodes, latest, added>>
    PROVE  IndInv'
  <1>1. AbsentAfter(0, c.key) /\ latest[c.key] = NoValue
    BY CallFacts DEF CallOK
  <1>2. CallOK(t, r)
    BY <1>1, CallFacts DEF CallOK, Like
  <1>3. r.key = c.key
    BY DEF Like
  <1> QED BY <1>2, <1>3, CallFacts, Looks

LEMMA CountInd ==
    ASSUME IndInv, KeysAreOwn, NEW t \in Threads, Count(t)
    PROVE  IndInv'
  <1>1. PICK c, d, r : c = call[t] /\ d = EntriesCount
                       /\ r = [c EXCEPT !.step = "room", !.NewCount = d]
    OBVIOUS
  <1>2. /\ call' = [call EXCEPT ![t] = r] /\ UNCHANGED <<nodes, latest, added>>
        /\ c.step = "count"
    BY <1>1 DEF Count, Goto, At
  <1>3. Like(r, c, "room", c.main, c.node, c.index, c.old) /\ c.main \in DOMAIN nodes
    BY <1>1, <1>2, CallFacts, ChangedLike, Zenon
  <1> QED BY <1>1, <1>2, <1>3, AddingOn

LEMMA RoomInd ==
    ASSUME IndInv, KeysAreOwn, NEW t \in Threads, Room(t)
    PROVE  IndInv'
  <1>1. PICK c : c = call[t]
    OBVIOUS
  <1>2. /\ c.step = "room" /\ UNCHANGED <<nodes, latest, added>>
        /\ \/ call' = [call EXCEPT ![t] = [c EXCEPT !.step = "resize"]]
           \/ call' = [call EXCEPT ![t] = AddOrReload(c)]
    BY <1>1 DEF Room, Goto, At
  <1>3. IsCall(c) /\ c.main \in DOMAIN nodes
    BY <1>1, <1>2, CallFacts
  <1>4. CASE call' = [call EXCEPT ![t] = [c EXCEPT !.step = "resize"]]
    <2>1. PICK r : r = [c EXCEPT !.step = "resize"]
      OBVIOUS
    <2>2. Like(r, c, "resize", c.main, c.node, c.index, c.old)
      BY <1>1, <1>2, <1>3, <2>1, CallFacts, ChangedLike, Zenon
    <2> QED BY <1>1, <1>2, <1>3, <1>4, <2>1, <2>2, AddingOn
  <1>5. CASE call' = [call EXCEPT ![t] = AddOrReload(c)]
    <2>1. PICK r : r = AddOrReload(c)
      OBVIOUS
    <2>2. PICK s \in {"add", "reload"} : Like(r, c, s, c.main, c.node, c.index, c.old)
      BY <1>3, <2>1, AddOrReloads
    <2> QED BY <1>1, <1>2, <1>3, <1>5, <2>1, <2>2, AddingOn
  <1> QED BY <1>2, <1>4, <1>5

LEMMA ClearInd ==
    ASSUME IndInv, KeysAreOwn, NEW t \in Threads, Clear(t)
    PROVE  IndInv'
  <1>1. PICK c : c = call[t]
    OBVIOUS
  <1>2. /\ c.step = "clear" /\ UNCHANGED <<nodes, latest, added>>
        /\ call' = [call EXCEPT ![t] = AddOrReload(c)]
    BY <1>1 DEF Clear, Goto, At
  <1>3. IsCall(c) /\ c.main \in DOMAIN nodes
    BY <1>1, <1>2, CallFacts
  <1>4. PICK r : r = AddOrReload(c)
    OBVIOUS
  <1>5. PICK s \in {"add", "reload"} : Like(r, c, s, c.main, c.node, c.index, c.old)
    BY <1>3, <1>4, AddOrReloads
  <1> QED BY <1>1, <1>2, <1>3, <1>4, <1>5, AddingOn

LEMMA ResizeThrowsInd ==
    ASSUME IndInv, KeysAreOwn, NEW t \in Threads, ResizeThrows(t)
    PROVE  IndInv'
  <1>1. PICK c : c = call[t]
    OBVIOUS
  <1>2. /\ call' = [call EXCEPT ![t] = NoCall] /\ UNCHANGED <<nodes, latest, added>>
        /\ c.step = "resize"
    BY <1>1 DEF ResizeThrows, Goto, At
  <1>3. CallOK(t, NoCall) /\ NoCall.step = "idle"
    BY DEF CallOK, NoCall
  <1> QED BY <1>1, <1>2, <1>3, CallFacts, Looks

LEMMA ResizeInd ==
    ASSUME IndInv, KeysAreOwn, NEW t \in Threads, Resize(t)
    PROVE  IndInv'
  <1>1. PICK c, m : c = call[t] /\ m = Len(nodes)
    OBVIOUS
  <1>2. c.step = "resize" /\ UNCHANGED <<latest, added>>
    BY <1>1 DEF Resize, At
  <1>3. /\ IsCall(c) /\ m \in DOMAIN nodes /\ m \in Nat \ {0} /\ c.node \in Nat
        /\ c.index \in Nat /\ c.old \in Values \union {NoValue} /\ c.key \in KeysOf[t]
        /\ c.key \in Keys /\ TypeOK /\ Reachable /\ DOMAIN nodes = 1 .. m
    BY <1>1, <1>2, CallFacts
  <1>4. CASE /\ UNCHANGED nodes
             /\ call' = [call EXCEPT ![t] = AddOrReload([c EXCEPT !.main = m])]
    <2>1. PICK d, r : d = [c EXCEPT !.main = m] /\ r = AddOrReload(d)
      OBVIOUS
    <2>2. Like(d, c, c.step, m, c.node, c.index, c.old)
      BY <1>3, <2>1, ChangedLike, Zenon
    <2>3. PICK s \in {"add", "reload"} : Like(r, d, s, d.main, d.node, d.index, d.old)
      BY <2>1, <2>2, AddOrReloads DEF Like
    <2>4. Like(r, c, s, m, c.node, c.index, c.old)
      BY <2>2, <2>3 DEF Like
    <2> QED BY <1>1, <1>2, <1>3, <1>4, <2>1, <2>4, AddingOn
  <1>5. CASE \E d : /\ nodes' = Append(nodes, NewHashNode(2 * nodes[m].Capacity))
                    /\ call' = [call EXCEPT ![t] = [c EXCEPT !.step = "clear",
                                                            !.main = m + 1, !.NewCount = d]]
    <2>1. PICK d : /\ nodes' = Append(nodes, NewHashNode(2 * nodes[m].Capacity))
                   /\ call' = [call EXCEPT ![t] = [c EXCEPT !.step = "clear",
                                                           !.main = m + 1, !.NewCount = d]]
      BY <1>5
    <2>2. PICK x, n, r : /\ x = 2 * nodes[m].Capacity /\ n = m + 1
                         /\ r = [c EXCEPT !.step = "clear", !.main = n, !.NewCount = d]
      OBVIOUS
    <2>3. x \in Nat \ {0} /\ nodes' = Append(nodes, NewHashNode(x)) /\ n \in Nat
      BY <1>3, <2>1, <2>2, TableTypes
    <2>4. TablesKept /\ Len(nodes') = n /\ \A k \in Keys : Keeps(k)
      BY <1>1, <1>3, <2>2, <2>3, TableAppended
    <2>5. Like(r, c, "clear", n, c.node, c.index, c.old)
      BY <1>3, <2>2, <2>3, ChangedLike, Zenon
    <2>6. AbsentAfter(0, c.key) /\ latest[c.key] = NoValue
      BY <1>1, <1>2, CallFacts DEF CallOK
    <2>7. AbsentAfter(0, c.key)'
      BY <1>3, <2>4, <2>6, KeptFacts
    <2>8. n \in DOMAIN nodes'
      BY <1>3, <2>2, <2>4 DEF TablesKept
    <2>9. CallOK(t, r)'
      BY <1>2, <1>3, <2>5, <2>6, <2>7, <2>8 DEF CallOK, Like, IsCall
    <2>10. call' = [call EXCEPT ![t] = r]
      BY <2>1, <2>2
    <2> QED BY <1>1, <1>2, <1>3, <2>4, <2>9, <2>10, Moves
  <1> QED BY <1>1, <1>2, <1>4, <1>5 DEF Resize, Goto

LEMMA ProbeInd ==
    ASSUME IndInv, KeysAreOwn, NEW t \in Threads, Probe(t)
    PROVE  IndInv'
  <1>1. PICK c, s : c = call[t] /\ s = Stop(c.node, c.key, {c.key, INVALID_KEY})
    OBVIOUS
  <1>2. /\ c.step = "probe" /\ UNCHANGED <<nodes, latest, added>>
        /\ ProbeEnds(c.node, c.key, {c.key, INVALID_KEY})
        /\ call' = [call EXCEPT ![t] =
                       IF nodes[c.node].key[s] = c.key
                       THEN [c EXCEPT !.step = IF c.node = c.main THEN "found" ELSE "copy",
                                      !.index = s]
                       ELSE IF c.node > 1 THEN [c EXCEPT !.node = @ - 1]
                       ELSE NotFound(t)]
    BY <1>1 DEF Probe, Goto, At
  <1>3. /\ IsCall(c) /\ TypeOK /\ Reachable /\ c.key \in KeysOf[t] /\ c.key \in Keys
        /\ c.main \in DOMAIN nodes /\ c.main \in Nat /\ c.node \in Nat /\ c.index \in Nat
        /\ c.old \in Values \union {NoValue} /\ DOMAIN nodes = 1 .. Len(nodes)
        /\ Len(nodes) \in Nat
        /\ c.node \in DOMAIN nodes /\ c.node <= c.main /\ AbsentAfter(c.node, c.key)
    BY <1>1, <1>2, CallFacts DEF CallOK
  <1>4. Current(c.key)
    BY <1>1, <1>2, <1>3, OwnKey
  <1>5. /\ s \in Slots(c.node)
        /\ nodes[c.node].key[s] = c.key => In(c.node, c.key, s)
        /\ nodes[c.node].key[s] # c.key => Absent(c.node, c.key)
    BY <1>1, <1>2, <1>3, ProbeDecides
  <1>6. ASSUME NEW r, call' = [call EXCEPT ![t] = r], CallOK(t, r), r.step = "idle" \/ r.key = c.key
        PROVE  IndInv'
    BY <1>1, <1>2, <1>3, <1>6, Looks
  <1>7. CASE nodes[c.node].key[s] = c.key
    <2>1. PICK to \in {"found", "copy"} : /\ to = IF c.node = c.main THEN "found" ELSE "copy"
                                          /\ to = "copy" => c.node < c.main
      BY <1>3
    <2>2. PICK r : r = [c EXCEPT !.step = to, !.index = s]
      OBVIOUS
    <2>3. s \in Nat
      BY <1>3, <1>5, TableTypes DEF Slots
    <2>4. Like(r, c, to, c.main, c.node, s, c.old)
      BY <1>3, <2>2, <2>3, ChangedLike, Zenon
    <2>5. Newest(c.node, c.key, s)
      BY <1>3, <1>5, <1>7 DEF Newest
    <2>6. latest[c.key] # NoValue /\ Holds(c.node, c.key, s, latest[c.key])
      BY <1>3, <1>4, <2>5, ThereIs
    <2>7. CallOK(t, r) /\ r.key = c.key
      BY <1>3, <2>1, <2>4, <2>6 DEF CallOK, Like
    <2>8. call' = [call EXCEPT ![t] = r]
      BY <1>2, <1>7, <2>1, <2>2
    <2> QED BY <1>6, <2>7, <2>8
  <1>8. CASE nodes[c.node].key[s] # c.key /\ c.node > 1
    <2>1. PICK n, r : n = c.node - 1 /\ r = [c EXCEPT !.node = n]
      OBVIOUS
    <2>2. n \in DOMAIN nodes /\ n \in Nat /\ n <= c.main
      BY <1>3, <1>8, <2>1
    <2>3. Like(r, c, c.step, c.main, n, c.index, c.old)
      BY <1>3, <2>1, <2>2, ChangedLike, Zenon
    <2>4. AbsentAfter(n, c.key)
      <3>1. ASSUME NEW m \in DOMAIN nodes, m > n PROVE Absent(m, c.key)
        <4>1. m = c.node \/ m > c.node
          BY <1>3, <2>1, <3>1
        <4> QED BY <1>3, <1>5, <1>8, <3>1, <4>1 DEF AbsentAfter
      <3> QED BY <3>1 DEF AbsentAfter
    <2>5. CallOK(t, r) /\ r.key = c.key
      BY <1>2, <1>3, <2>2, <2>3, <2>4 DEF CallOK, Like
    <2>6. call' = [call EXCEPT ![t] = r]
      BY <1>2, <1>8, <2>1
    <2> QED BY <1>6, <2>5, <2>6
  <1>9. CASE nodes[c.node].key[s] # c.key /\ ~(c.node > 1)
    <2>1. AbsentAfter(0, c.key)
      <3>1. ASSUME NEW m \in DOMAIN nodes PROVE Absent(m, c.key)
        <4>1. m = c.node \/ m > c.node
          BY <1>3, <1>9
        <4> QED BY <1>3, <1>5, <1>9, <4>1 DEF AbsentAfter
      <3> QED BY <3>1 DEF AbsentAfter
    <2>2. latest[c.key] = NoValue
      BY <1>3, <1>4, <2>1, NotThere
    <2>3. PICK n : n = 0
      OBVIOUS
    <2>4. PICK r : r = [c EXCEPT !.step = "count", !.node = n]
      OBVIOUS
    <2>5. Like(r, c, "count", c.main, n, c.index, c.old)
      BY <1>3, <2>3, <2>4, ChangedLike, Zenon
    <2>6. CallOK(t, r) /\ r.key = c.key
      BY <1>3, <2>1, <2>2, <2>5 DEF CallOK, Like
    <2>7. CASE call' = [call EXCEPT ![t] = NoCall]
      <3>1. CallOK(t, NoCall) /\ NoCall.step = "idle"
        BY DEF CallOK, NoCall
      <3> QED BY <1>6, <2>7, <3>1
    <2>8. CASE call' = [call EXCEPT ![t] = r]
      BY <1>6, <2>6, <2>8
    <2> QED BY <1>1, <1>2, <1>9, <2>3, <2>4, <2>7, <2>8 DEF NotFound
  <1> QED BY <1>7, <1>8, <1>9

\* The value is stored in the newest slot of the key.
LEMMA StoredHere ==
    ASSUME TypeOK, Reachable, NEW n, NEW k \in Keys, NEW s, Newest(n, k, s),
           NEW v \in Values, nodes' = [nodes EXCEPT ![n].value[s] = v]
    PROVE  /\ TablesKept /\ \A l \in Keys \ {k} : Keeps(l)
           /\ DOMAIN nodes' = DOMAIN nodes
           /\ n \in DOMAIN nodes' /\ s \in Slots(n)' /\ Holds(n, k, s, v)'
  <1>1. n \in DOMAIN nodes /\ In(n, k, s) /\ AbsentAfter(n, k)
    BY DEF Newest
  <1>2. /\ TablesKept /\ DOMAIN nodes' = DOMAIN nodes
        /\ \A m \in DOMAIN nodes : \A l : Absent(m, l)' <=> Absent(m, l)
        /\ \A m \in DOMAIN nodes : \A l, u : In(m, l, u)' <=> In(m, l, u)
        /\ nodes'[n].value[s] = v
        /\ \A l \in Keys \ {k} : Keeps(l)
    BY <1>1, ValueStored
  <1>3. AbsentAfter(n, k)'
    BY <1>1, <1>2 DEF AbsentAfter
  <1>4. Holds(n, k, s, v)'
    BY <1>1, <1>2, <1>3 DEF Holds, Newest
  <1> QED BY <1>1, <1>2, <1>4 DEF Holds, Newest, In

\* A slot of a newer table is claimed for the key: it is the newest one.
LEMMA ClaimedHere ==
    ASSUME TypeOK, Reachable, NEW k \in Keys, NEW n \in DOMAIN nodes,
           NEW o \in Nat, o < n, AbsentAfter(o, k),
           ProbeEnds(n, k, {INVALID_KEY}), NEW s, s = Stop(n, k, {INVALID_KEY}),
           nodes' = [nodes EXCEPT ![n].key[s] = k]
    PROVE  /\ TablesKept /\ \A l \in Keys \ {k} : Keeps(l)
           /\ DOMAIN nodes' = DOMAIN nodes
           /\ Newest(n, k, s)' /\ s \in Nat
  <1>1. Absent(n, k) /\ n \in Nat
    BY TableTypes DEF AbsentAfter
  <1>2. /\ TablesKept /\ DOMAIN nodes' = DOMAIN nodes /\ In(n, k, s)'
        /\ \A m \in DOMAIN nodes : m # n /\ Absent(m, k) => Absent(m, k)'
        /\ \A l \in Keys \ {k} : Keeps(l)
    BY <1>1, KeyClaimed
  <1>3. AbsentAfter(n, k)'
    <2>1. ASSUME NEW m \in DOMAIN nodes, m > n PROVE Absent(m, k)'
      <3>1. m \in Nat
        BY TableTypes
      <3>2. m > o /\ m # n
        BY <1>1, <2>1, <3>1
      <3>3. Absent(m, k)
        BY <3>2 DEF AbsentAfter
      <3> QED BY <1>2, <3>2, <3>3
    <2> QED BY <1>2, <2>1 DEF AbsentAfter
  <1>4. Newest(n, k, s)'
    BY <1>2, <1>3 DEF Newest
  <1>5. s \in Nat
    <2>1. PICK i \in Slots(n) : s = Slot(n, k, i)
      BY ProbeStops
    <2>2. i \in Nat
      BY TableTypes DEF Slots
    <2>3. s \in Slots(n)
      BY <2>1, <2>2, SlotType
    <2> QED BY <2>3, TableTypes DEF Slots
  <1> QED BY <1>2, <1>4, <1>5

LEMMA PromoteInd ==
    ASSUME IndInv, KeysAreOwn, NEW t \in Threads, Promote(t)
    PROVE  IndInv'
  <1>1. PICK c : c = call[t]
    OBVIOUS
  <1>2. /\ c.step = "promote" /\ UNCHANGED <<latest, added>>
        /\ Claim(t, c.main, "promoted")
    BY <1>1 DEF Promote, At
  <1>3. /\ c.node < c.main /\ c.old = latest[c.key] /\ c.old # NoValue
        /\ AbsentAfter(c.node, c.key)
    BY <1>1, <1>2, CallFacts DEF CallOK, Holds, Newest
  <1>4. /\ IsCall(c) /\ TypeOK /\ Reachable /\ c.key \in KeysOf[t] /\ c.key \in Keys
        /\ c.main \in DOMAIN nodes /\ c.main \in Nat /\ c.node \in Nat
        /\ c.old \in Values \union {NoValue}
    BY <1>1, <1>2, CallFacts
  <1>5. PICK m : m = c.main
    OBVIOUS
  <1>6. PICK k, s : k = c.key /\ s = Stop(m, k, {INVALID_KEY})
    OBVIOUS
  <1>7. PICK r : r = [c EXCEPT !.step = "promoted", !.node = m, !.index = s]
    OBVIOUS
  <1>8. /\ ProbeEnds(m, k, {INVALID_KEY}) /\ nodes' = [nodes EXCEPT ![m].key[s] = k]
        /\ call' = [call EXCEPT ![t] = r]
    BY <1>1, <1>2, <1>5, <1>6, <1>7 DEF Claim, Goto
  <1>9. /\ TablesKept /\ \A l \in Keys \ {k} : Keeps(l)
        /\ DOMAIN nodes' = DOMAIN nodes
        /\ Newest(m, k, s)' /\ s \in Nat
    <2>1. /\ k \in Keys /\ m \in DOMAIN nodes /\ c.node \in Nat /\ c.node < m
          /\ AbsentAfter(c.node, k) /\ TypeOK /\ Reachable
      BY <1>3, <1>4, <1>5, <1>6
    <2> QED BY <1>6, <1>8, <2>1, ClaimedHere
  <1>10. Like(r, c, "promoted", m, m, s, c.old)
    <2>1. IsCall(c) /\ m \in Nat /\ s \in Nat /\ c.old \in Values \union {NoValue}
      BY <1>4, <1>5, <1>9
    <2> QED BY <1>5, <1>7, <2>1, ChangedLike, Zenon
  <1>11. CallOK(t, r)'
    <2>1. /\ IsCall(r) /\ r.step = "promoted" /\ r.key = k /\ r.main = m /\ r.node = m
          /\ r.index = s /\ r.old = c.old
      BY <1>6, <1>10 DEF Like
    <2>2. IsCall(r)' /\ r.key \in KeysOf[t] /\ r.main \in DOMAIN nodes'
      BY <1>4, <1>5, <1>6, <1>9, <2>1 DEF IsCall
    <2>3. Newest(r.node, r.key, r.index)'
      BY <1>9, <2>1
    <2>4. r.old = latest'[r.key] /\ r.old # NoValue
      BY <1>2, <1>3, <1>6, <2>1
    <2> QED BY <2>1, <2>2, <2>3, <2>4 DEF CallOK
  <1>12. /\ latest' \in [Keys -> Values \union {NoValue}] /\ added' \in [Keys -> Nat]
         /\ added'[c.key] = IF latest'[c.key] = NoValue THEN 0 ELSE 1
    BY <1>2, <1>4 DEF IndInv, TypeOK, AddedExact
  <1>13. r.step \in {"promoted", "added"} /\ r.key = c.key
    BY <1>10 DEF Like
  <1> QED BY <1>1, <1>2, <1>4, <1>6, <1>11, <1>12, <1>13, <1>8, <1>9, OwnStep

LEMMA AddInd ==
    ASSUME IndInv, KeysAreOwn, NEW t \in Threads, Add(t)
    PROVE  IndInv'
  <1>1. PICK c : c = call[t]
    OBVIOUS
  <1>2. /\ c.step = "add" /\ UNCHANGED <<latest, added>>
        /\ Claim(t, c.main, "added")
    BY <1>1 DEF Add, At
  <1>3. AbsentAfter(0, c.key) /\ latest[c.key] = NoValue
    BY <1>1, <1>2, CallFacts DEF CallOK
  <1>4. /\ IsCall(c) /\ TypeOK /\ Reachable /\ c.key \in KeysOf[t] /\ c.key \in Keys
        /\ c.main \in DOMAIN nodes /\ c.main \in Nat \ {0}
        /\ c.old \in Values \union {NoValue}
    BY <1>1, <1>2, CallFacts
  <1>5. PICK m, o : m = c.main /\ o = 0
    OBVIOUS
  <1>6. PICK k, s : k = c.key /\ s = Stop(m, k, {INVALID_KEY})
    OBVIOUS
  <1>7. PICK r : r = [c EXCEPT !.step = "added", !.node = m, !.index = s]
    OBVIOUS
  <1>8. /\ ProbeEnds(m, k, {INVALID_KEY}) /\ nodes' = [nodes EXCEPT ![m].key[s] = k]
        /\ call' = [call EXCEPT ![t] = r]
    BY <1>1, <1>2, <1>5, <1>6, <1>7 DEF Claim, Goto
  <1>9. /\ TablesKept /\ \A l \in Keys \ {k} : Keeps(l)
        /\ DOMAIN nodes' = DOMAIN nodes
        /\ Newest(m, k, s)' /\ s \in Nat
    <2>1. /\ k \in Keys /\ m \in DOMAIN nodes /\ o \in Nat /\ o < m
          /\ AbsentAfter(o, k) /\ TypeOK /\ Reachable
      BY <1>3, <1>4, <1>5, <1>6
    <2> QED BY <1>6, <1>8, <2>1, ClaimedHere
  <1>10. Like(r, c, "added", m, m, s, c.old)
    <2>1. IsCall(c) /\ m \in Nat /\ s \in Nat /\ c.old \in Values \union {NoValue}
      BY <1>4, <1>5, <1>9
    <2> QED BY <1>5, <1>7, <2>1, ChangedLike, Zenon
  <1>11. CallOK(t, r)'
    <2>1. /\ IsCall(r) /\ r.step = "added" /\ r.key = k /\ r.main = m /\ r.node = m
          /\ r.index = s /\ r.old = c.old
      BY <1>6, <1>10 DEF Like
    <2>2. IsCall(r)' /\ r.key \in KeysOf[t] /\ r.main \in DOMAIN nodes'
      BY <1>4, <1>5, <1>6, <1>9, <2>1 DEF IsCall
    <2>3. Newest(r.node, r.key, r.index)'
      BY <1>9, <2>1
    <2>4. latest'[r.key] = NoValue
      BY <1>2, <1>3, <1>6, <2>1
    <2> QED BY <2>1, <2>2, <2>3, <2>4 DEF CallOK
  <1>12. /\ latest' \in [Keys -> Values \union {NoValue}] /\ added' \in [Keys -> Nat]
         /\ added'[c.key] = IF latest'[c.key] = NoValue THEN 0 ELSE 1
    BY <1>2, <1>4 DEF IndInv, TypeOK, AddedExact
  <1>13. r.step \in {"promoted", "added"} /\ r.key = c.key
    BY <1>10 DEF Like
  <1> QED BY <1>1, <1>2, <1>4, <1>6, <1>11, <1>12, <1>13, <1>8, <1>9, OwnStep

LEMMA StorePromotedInd ==
    ASSUME IndInv, KeysAreOwn, NEW t \in Threads, StorePromoted(t)
    PROVE  IndInv'
  <1>1. PICK c, n, k, s, v, z : /\ c = call[t] /\ n = c.node /\ k = c.key /\ s = c.index
                                /\ v = c.old /\ z = NoValue
    OBVIOUS
  <1>2. PICK r : r = [c EXCEPT !.step = "found", !.old = z]
    OBVIOUS
  <1>3. /\ c.step = "promoted" /\ UNCHANGED <<latest, added>>
        /\ nodes' = [nodes EXCEPT ![n].value[s] = v]
        /\ call' = [call EXCEPT ![t] = r]
    BY <1>1, <1>2 DEF StorePromoted, StoreValue, Goto, At
  <1>4. /\ Newest(n, k, s) /\ v = latest[k] /\ v # NoValue
    BY <1>1, <1>3, CallFacts DEF CallOK
  <1>5. /\ IsCall(c) /\ TypeOK /\ Reachable /\ k \in KeysOf[t] /\ k \in Keys
        /\ c.main \in DOMAIN nodes /\ c.main \in Nat /\ c.node \in Nat /\ s \in Nat
        /\ v \in Values
    BY <1>1, <1>3, <1>4, CallFacts
  <1>6. /\ TablesKept /\ \A l \in Keys \ {k} : Keeps(l)
        /\ DOMAIN nodes' = DOMAIN nodes
        /\ n \in DOMAIN nodes' /\ s \in Slots(n)' /\ Holds(n, k, s, v)'
    BY <1>3, <1>4, <1>5, StoredHere
  <1>7. latest'[k] = v /\ Holds(n, k, s, latest[k])'
    BY <1>3, <1>4, <1>6 DEF Holds
  <1>8. Current(k)'
    BY <1>4, <1>6, <1>7 DEF Current
  <1>9. Like(r, c, "found", c.main, n, s, z)
    BY <1>1, <1>2, <1>5, ChangedLike, Zenon
  <1>10. CallOK(t, r)'
    BY <1>1, <1>4, <1>5, <1>6, <1>7, <1>9 DEF CallOK, Like, IsCall
  <1>11. /\ latest' \in [Keys -> Values \union {NoValue}] /\ added' \in [Keys -> Nat]
         /\ added'[k] = IF latest'[k] = NoValue THEN 0 ELSE 1
    BY <1>3, <1>5 DEF IndInv, TypeOK, AddedExact
  <1> QED BY <1>1, <1>3, <1>5, <1>6, <1>8, <1>10, <1>11, OwnStep

\* The call ends, and its value is stored.
LEMMA StoreEnds ==
    ASSUME IndInv, KeysAreOwn, NEW t \in Threads, NEW c, c = call[t], c.step # "idle",
           Newest(c.node, c.key, c.index), StoreValue(t, c.value),
           latest' = [latest EXCEPT ![c.key] = c.value],
           added' = [added EXCEPT ![c.key] = 1], Goto(t, NoCall)
    PROVE  IndInv'
  <1>1. PICK n, k, s, v : n = c.node /\ k = c.key /\ s = c.index /\ v = c.value
    OBVIOUS
  <1>2. /\ nodes' = [nodes EXCEPT ![n].value[s] = v] /\ call' = [call EXCEPT ![t] = NoCall]
        /\ latest' = [latest EXCEPT ![k] = v] /\ added' = [added EXCEPT ![k] = 1]
        /\ Newest(n, k, s)
    BY <1>1 DEF StoreValue, Goto
  <1>3. TypeOK /\ Reachable /\ k \in KeysOf[t] /\ k \in Keys /\ v \in Values
    BY <1>1, CallFacts
  <1>4. /\ TablesKept /\ \A l \in Keys \ {k} : Keeps(l)
        /\ n \in DOMAIN nodes' /\ s \in Slots(n)' /\ Holds(n, k, s, v)'
    BY <1>2, <1>3, StoredHere
  <1>5. /\ latest' \in [Keys -> Values \union {NoValue}] /\ added' \in [Keys -> Nat]
        /\ latest'[k] = v /\ v # NoValue /\ added'[k] = 1
        /\ \A l \in Keys \ {k} : latest'[l] = latest[l] /\ added'[l] = added[l]
    <2>1. latest \in [Keys -> Values \union {NoValue}] /\ added \in [Keys -> Nat]
      BY <1>3 DEF TypeOK
    <2>2. v # NoValue
      BY <1>3, KeysAssumption
    <2>3. /\ latest' \in [Keys -> Values \union {NoValue}] /\ latest'[k] = v
          /\ \A l \in Keys \ {k} : latest'[l] = latest[l]
      <3>1. PICK f \in [Keys -> Values \union {NoValue}] : f = latest
        BY <2>1
      <3>2. [f EXCEPT ![k] = v] \in [Keys -> Values \union {NoValue}]
        BY <1>3
      <3>3. \A l \in Keys : [f EXCEPT ![k] = v][l] = IF l = k THEN v ELSE f[l]
        BY <1>3
      <3> QED BY <1>2, <1>3, <3>1, <3>2, <3>3
    <2>4. /\ added' \in [Keys -> Nat] /\ added'[k] = 1
          /\ \A l \in Keys \ {k} : added'[l] = added[l]
      <3>1. PICK f \in [Keys -> Nat] : f = added
        BY <2>1
      <3>2. [f EXCEPT ![k] = 1] \in [Keys -> Nat]
        BY <1>3
      <3>3. \A l \in Keys : [f EXCEPT ![k] = 1][l] = IF l = k THEN 1 ELSE f[l]
        BY <1>3
      <3> QED BY <1>2, <1>3, <3>1, <3>2, <3>3
    <2> QED BY <2>2, <2>3, <2>4
  <1>6. Holds(n, k, s, latest[k])'
    BY <1>4, <1>5 DEF Holds
  <1>7. Current(k)'
    BY <1>4, <1>5, <1>6 DEF Current
  <1>8. CallOK(t, NoCall)'
    BY DEF CallOK, NoCall
  <1> QED BY <1>1, <1>2, <1>3, <1>4, <1>5, <1>7, <1>8, OwnStep

LEMMA FoundInd ==
    ASSUME IndInv, KeysAreOwn, NEW t \in Threads, Found(t)
    PROVE  IndInv'
  <1>1. PICK c : c = call[t]
    OBVIOUS
  <1>2. c.step = "found" /\ Goto(t, NoCall) /\ UNCHANGED added
    BY <1>1 DEF Found, At
  <1>3. /\ Newest(c.node, c.key, c.index) /\ latest[c.key] # NoValue
    BY <1>1, <1>2, CallFacts DEF CallOK, Holds
  <1>4. CASE /\ StoreValue(t, c.value)
             /\ latest' = [latest EXCEPT ![c.key] = c.value]
    <2>1. added \in [Keys -> Nat] /\ c.key \in Keys /\ added[c.key] = 1
      BY <1>1, <1>2, <1>3, CallFacts DEF IndInv, TypeOK, AddedExact
    <2>2. added' = [added EXCEPT ![c.key] = 1]
      BY <1>2, <2>1
    <2> QED BY <1>1, <1>2, <1>3, <1>4, <2>2, StoreEnds
  <1>5. CASE UNCHANGED <<nodes, latest>>
    <2>1. CallOK(t, NoCall) /\ NoCall.step = "idle"
      BY DEF CallOK, NoCall
    <2> QED BY <1>1, <1>2, <1>5, <2>1, CallFacts, Looks DEF Goto
  <1> QED BY <1>1, <1>4, <1>5 DEF Found

LEMMA StoreAddedInd ==
    ASSUME IndInv, KeysAreOwn, NEW t \in Threads, StoreAdded(t)
    PROVE  IndInv'
  <1>1. PICK c : c = call[t]
    OBVIOUS
  <1>2. /\ c.step = "added" /\ Goto(t, NoCall) /\ StoreValue(t, c.value)
        /\ latest' = [latest EXCEPT ![c.key] = c.value]
        /\ added' = [added EXCEPT ![c.key] = added[c.key] + 1]
    BY <1>1 DEF StoreAdded, At
  <1>3. Newest(c.node, c.key, c.index) /\ latest[c.key] = NoValue
    BY <1>1, <1>2, CallFacts DEF CallOK
  <1>4. added[c.key] + 1 = 1
    BY <1>1, <1>2, <1>3, CallFacts DEF IndInv, AddedExact
  <1> QED BY <1>1, <1>2, <1>3, <1>4, StoreEnds

-----------------------------------------------------------------------------
LEMMA InitInd == Init => IndInv
  <1> SUFFICES ASSUME Init PROVE IndInv
    OBVIOUS
  <1>1. PICK y, c : y = NewHashNode(INITIAL_HASH_SIZE) /\ c = INITIAL_HASH_SIZE
    OBVIOUS
  <1>2. /\ y \in Tables /\ \A k \in Keys, s \in 0 .. (y.Capacity - 1) : y.key[s] # k
    BY <1>1, SizeAssumption, NewTable
  <1>3. nodes = <<y>>
    BY <1>1 DEF Init
  <1>4. /\ nodes \in Seq(Tables) /\ Len(nodes) = 1 /\ DOMAIN nodes = {1} /\ nodes[1] = y
    BY <1>2, <1>3
  <1>5. /\ call = [t \in Threads |-> NoCall]
        /\ \A t \in Threads : call[t].step = "idle"
    BY DEF Init, NoCall
  <1>6. /\ latest = [k \in Keys |-> NoValue] /\ added = [k \in Keys |-> 0]
        /\ \A k \in Keys : latest[k] = NoValue /\ added[k] = 0
    BY DEF Init
  <1>7. TypeOK
    <2>1. call = [t \in Threads |-> call[t]]
      BY <1>5
    <2> QED BY <1>4, <1>6, <2>1 DEF TypeOK
  <1>8. \A k \in Keys, n \in DOMAIN nodes : Absent(n, k)
    BY <1>2, <1>4 DEF Absent, Slots
  <1>9. Reachable
    BY <1>8 DEF Reachable
  <1>10. KeysCurrent
    BY <1>6, <1>8 DEF KeysCurrent, Current, AbsentAfter
  <1>11. CallsOK
    BY <1>5 DEF CallsOK, CallOK
  <1> QED BY <1>6, <1>7, <1>9, <1>10, <1>11 DEF IndInv, AddedExact

LEMMA StepInd ==
    ASSUME IndInv, KeysAreOwn, NEW t \in Threads, Step(t)
    PROVE  IndInv'
  <1>1. CASE Probe(t)
    BY <1>1, ProbeInd
  <1>2. CASE Copy(t)
    BY <1>2, CopyInd
  <1>3. CASE Promote(t)
    BY <1>3, PromoteInd
  <1>4. CASE StorePromoted(t)
    BY <1>4, StorePromotedInd
  <1>5. CASE Found(t)
    BY <1>5, FoundInd
  <1>6. CASE Count(t)
    BY <1>6, CountInd
  <1>7. CASE Room(t)
    BY <1>7, RoomInd
  <1>8. CASE Reload(t)
    BY <1>8, ReloadInd
  <1>9. CASE Resize(t)
    BY <1>9, ResizeInd
  <1>10. CASE ResizeThrows(t)
    BY <1>10, ResizeThrowsInd
  <1>11. CASE Clear(t)
    BY <1>11, ClearInd
  <1>12. CASE Add(t)
    BY <1>12, AddInd
  <1>13. CASE StoreAdded(t)
    BY <1>13, StoreAddedInd
  <1>14. CASE Call(t)
    <2>1. PICK op \in program.Ops, k \in KeysOf[t] : \E v \in ValuesOf[k] : Begin(t, op, k, v)
      BY <1>14 DEF Call
    <2>2. PICK v \in ValuesOf[k] : Begin(t, op, k, v)
      BY <2>1
    <2> QED BY <2>2, BeginInd
  <1> QED BY <1>1, <1>2, <1>3, <1>4, <1>5, <1>6, <1>7, <1>8, <1>9, <1>10, <1>11, <1>12,
             <1>13, <1>14 DEF Step, InCall

LEMMA StutterInd ==
    ASSUME IndInv, UNCHANGED vars
    PROVE  IndInv'
  <1>1. UNCHANGED <<nodes, call, latest, added>>
    BY DEF vars
  <1>2. TablesKept /\ \A k \in Keys : Keeps(k)
    BY <1>1, SameTables DEF IndInv
  <1>3. TypeOK'
    BY <1>1 DEF IndInv, TypeOK
  <1>4. KeysCurrent'
    <2>1. ASSUME NEW k \in Keys PROVE Claimed(k)' \/ Current(k)'
      <3>1. CASE Claimed(k)
        BY <1>1, <3>1 DEF Claimed
      <3>2. CASE Current(k)
        BY <1>1, <1>2, <3>2, CurrentKept DEF IndInv
      <3> QED BY <3>1, <3>2 DEF IndInv, KeysCurrent
    <2> QED BY <2>1 DEF KeysCurrent
  <1>5. CallsOK'
    <2>1. ASSUME NEW t \in Threads PROVE CallOK(t, call[t])'
      <3>1. PICK c : c = call[t]
        OBVIOUS
      <3>2. CallOK(t, c)
        BY <3>1 DEF IndInv, CallsOK
      <3>3. CASE c.step = "idle"
        BY <1>1, <3>1, <3>3 DEF CallOK
      <3>4. CASE c.step # "idle"
        <4>1. c.key \in Keys
          BY <3>1, <3>4, CallFacts
        <4>2. CallOK(t, c)'
          BY <1>1, <1>2, <3>2, <4>1, CallKept DEF IndInv
        <4> QED BY <1>1, <3>1, <4>2
      <3> QED BY <3>3, <3>4
    <2> QED BY <2>1 DEF CallsOK
  <1>6. AddedExact'
    BY <1>1 DEF IndInv, AddedExact
  <1> QED BY <1>2, <1>3, <1>4, <1>5, <1>6 DEF IndInv, TablesKept

LEMMA AlwaysInd ==
    ASSUME KeysAreOwn
    PROVE  Spec => []IndInv
  <1>1. IndInv /\ [Next]_vars => IndInv'
    <2> SUFFICES ASSUME IndInv, [Next]_vars PROVE IndInv'
      OBVIOUS
    <2>1. CASE Next
      <3>1. PICK t \in Threads : Step(t)
        BY <2>1 DEF Next
      <3> QED BY <3>1, StepInd
    <2>2. CASE UNCHANGED vars
      BY <2>2, StutterInd
    <2> QED BY <2>1, <2>2
  <1> QED BY <1>1, InitInd, PTL DEF Spec

\* With keys of its own, a thread finds under each the value it last stored there,
\* however many tables others have put behind the one the entry is in, and Set
\* and GetOrAdd go on to add a key only if it was never added: a look-up that
\* begins in the newest table loaded ends in the newest that holds the key.
THEOREM FindsOwn == ASSUME KeysAreOwn PROVE Spec => []FindsLatest
  <1>1. IndInv => FindsLatest
    <2> SUFFICES ASSUME IndInv, NEW t \in Threads
                 PROVE  /\ At(t, "found") => ValueHere(t) = latest[call[t].key]
                        /\ At(t, "count") => latest[call[t].key] = NoValue
      BY DEF FindsLatest
    <2>1. PICK c : c = call[t]
      OBVIOUS
    <2>2. CallOK(t, c)
      BY <2>1 DEF IndInv, CallsOK
    <2> QED BY <2>1, <2>2 DEF CallOK, At, ValueHere, Holds
  <1> QED BY <1>1, AlwaysInd, PTL

\* A thread's own key is added once, whichever tables it has to be copied to.
THEOREM AddsOnce == ASSUME KeysAreOwn PROVE Spec => []AddedOnce
  <1>1. IndInv => AddedOnce
    BY DEF IndInv, AddedExact, AddedOnce
  <1> QED BY <1>1, AlwaysInd, PTL

-----------------------------------------------------------------------------
(* How full a table gets.  Each key that is counted has a number: the count  *)
(* the call was given, which is below the limit of the table it adds the key *)
(* to, or, if the call forgot it when it enlarged the tables, 1 less the     *)
(* number of the table it made.                                              *)

AddSteps == {"room", "reload", "resize", "clear", "add"}

\* Calls with a lower count add to table n.
Limit(n) == Half(n) + nodes[n].Capacity \div 4

\* A key in table n has a number like x.
Within(x, n) == 0 - n < x /\ x < Limit(n)

\* A key that is in a table, or is being added, has a number.
Numbered(k) ==
    \/ \E n \in DOMAIN nodes : ~Absent(n, k)
    \/ \E t \in Threads : call[t].step \in AddSteps /\ call[t].key = k

\* A call like r may be adding a key with number x.
Numbers(r, x) ==
    /\ r.step = "add" => Within(x, r.main)
    /\ r.step \in {"room", "reload", "resize"} => r.NewCount = x /\ x \in Nat
    /\ r.step = "clear" => \/ r.NewCount = x /\ x \in Nat
                           \/ r.NewCount = 0 /\ Within(x, r.main)

Numbering(num) ==
    /\ \A k \in Keys : Numbered(k) => 0 - Len(nodes) < num[k] /\ num[k] < EntriesCount
    /\ \A k, l \in Keys : Numbered(k) /\ Numbered(l) /\ num[k] = num[l] => k = l
    /\ \A n \in DOMAIN nodes, k \in Keys : Absent(n, k) \/ Within(num[k], n)
    /\ \A t \in Threads : call[t].step \in AddSteps => Numbers(call[t], num[call[t].key])

\* A key is in one slot of a table.
Once ==
    \A n \in DOMAIN nodes : \A s, u \in Slots(n) :
        nodes[n].key[s] = nodes[n].key[u] /\ nodes[n].key[s] # INVALID_KEY => s = u

\* Each table is larger than the one before by enough slots for the calls that
\* forget their count.
Grow ==
    \A n \in DOMAIN nodes :
        /\ nodes[n].Capacity >= 4 * n
        /\ \A m \in DOMAIN nodes : m <= n => nodes[m].Capacity <= nodes[n].Capacity

FillInv == Once /\ Grow /\ EntriesCount \in Nat /\ \E num \in [Keys -> Int] : Numbering(num)

LEMMA Limits ==
    ASSUME IndInv, Grow, NEW n \in DOMAIN nodes
    PROVE  /\ Limit(n) \in Nat \ {0} /\ Limit(n) + n <= nodes[n].Capacity
           /\ n \in Nat \ {0} /\ nodes[n].Capacity \in Nat /\ nodes[n].Capacity >= 4 * n
           /\ \A m \in DOMAIN nodes : m <= n => Limit(m) <= Limit(n) /\ m \in Nat
  <1>1. n \in Nat \ {0} /\ nodes[n].Capacity \in Nat /\ nodes[n].Capacity >= 4 * n
    BY TableTypes DEF IndInv, Grow
  <1>2. \A c \in Nat : c >= 4 => /\ c \div 2 + c \div 4 \in Nat \ {0}
                                 /\ \A i \in Nat : c >= 4 * i => c \div 2 + c \div 4 + i <= c
    OBVIOUS
  <1>3. \A c, d \in Nat : c <= d => c \div 2 + c \div 4 <= d \div 2 + d \div 4
    OBVIOUS
  <1>4. ASSUME NEW m \in DOMAIN nodes, m <= n PROVE Limit(m) <= Limit(n) /\ m \in Nat
    <2>1. m \in Nat /\ nodes[m].Capacity \in Nat /\ nodes[m].Capacity <= nodes[n].Capacity
      BY <1>4, TableTypes DEF IndInv, Grow
    <2> QED BY <1>1, <1>3, <2>1 DEF Limit, Half
  <1>5. Limit(n) \in Nat \ {0} /\ Limit(n) + n <= nodes[n].Capacity
    <2>1. nodes[n].Capacity >= 4
      BY <1>1
    <2> QED BY <1>1, <1>2, <2>1 DEF Limit, Half
  <1> QED BY <1>1, <1>4, <1>5

\* The slots of a full table would hold as many keys, with numbers of their own.
LEMMA NotFull == ASSUME IndInv, FillInv PROVE ProbesEnd
  <1> SUFFICES ASSUME NEW n \in DOMAIN nodes,
                      \A i \in Slots(n) : nodes[n].key[i] # INVALID_KEY
               PROVE  FALSE
    BY DEF ProbesEnd, Slots
  <1>1. PICK num \in [Keys -> Int] : Numbering(num)
    BY DEF FillInv
  <1>2. /\ Limit(n) \in Nat \ {0} /\ Limit(n) + n <= nodes[n].Capacity
        /\ n \in Nat \ {0} /\ nodes[n].Capacity \in Nat \ {0}
        /\ nodes[n].key \in [Slots(n) -> Keys \union {INVALID_KEY}]
    BY Limits, TableTypes DEF FillInv, IndInv
  <1>3. ASSUME NEW s \in Slots(n)
        PROVE  /\ nodes[n].key[s] \in Keys /\ Numbered(nodes[n].key[s])
               /\ num[nodes[n].key[s]] \in Int /\ Within(num[nodes[n].key[s]], n)
    <2>1. nodes[n].key[s] \in Keys
      BY <1>2
    <2>2. ~Absent(n, nodes[n].key[s])
      BY DEF Absent
    <2> QED BY <1>1, <2>1, <2>2 DEF Numbering, Numbered
  <1> DEFINE f == [s \in Slots(n) |-> num[nodes[n].key[s]]]
             T == (1 - n) .. (Limit(n) - 1)
  <1>4. f \in [Slots(n) -> T]
    BY <1>2, <1>3 DEF Within
  <1>5. /\ IsFiniteSet(T) /\ Cardinality(T) < Cardinality(Slots(n))
        /\ IsFiniteSet(Slots(n))
    <2>1. PICK a \in Int, b \in Int, c \in Int :
             a = 1 - n /\ b = Limit(n) - 1 /\ c = nodes[n].Capacity - 1
      BY <1>2
    <2>2. IsFiniteSet(a .. b) /\ Cardinality(a .. b) = IF a > b THEN 0 ELSE b - a + 1
      BY FS_Interval
    <2>3. IsFiniteSet(0 .. c) /\ Cardinality(0 .. c) = IF 0 > c THEN 0 ELSE c - 0 + 1
      BY FS_Interval
    <2>4. ~(a > b) /\ ~(0 > c) /\ b - a + 1 < c - 0 + 1
      BY <1>2, <2>1
    <2> QED BY <2>1, <2>2, <2>3, <2>4 DEF Slots
  <1>6. PICK s, u \in Slots(n) : s # u /\ f[s] = f[u]
    <2>1. PICK S, R : S = Slots(n) /\ R = T
      OBVIOUS
    <2>2. PICK g \in [S -> R] : g = f
      BY <1>4, <2>1
    <2>3. IsFiniteSet(S) /\ IsFiniteSet(R) /\ Cardinality(R) < Cardinality(S)
      BY <1>5, <2>1
    <2>4. \E x, y \in S : x # y /\ g[x] = g[y]
      <3> HIDE DEF f, T
      <3> QED BY <2>3, FS_PigeonHole, Zenon
    <2> QED BY <2>1, <2>2, <2>4
  <1>7. nodes[n].key[s] = nodes[n].key[u]
    BY <1>1, <1>3, <1>6 DEF Numbering
  <1> QED BY <1>6, <1>7 DEF FillInv, Once

\* A step of a call for key k, after which k has number x.
LEMMA Renumbered ==
    ASSUME IndInv, KeysAreOwn, NEW t \in Threads, NEW k \in KeysOf[t], NEW r,
           call' = [call EXCEPT ![t] = r], r.step \in AddSteps => r.key = k,
           EntriesCount \in Nat, EntriesCount' \in Nat, EntriesCount <= EntriesCount',
           Len(nodes') \in Nat, Len(nodes) <= Len(nodes'),
           \A n \in DOMAIN nodes : Limit(n)' = Limit(n),
           \A l \in Keys \ {k} : Keeps(l),
           NEW num \in [Keys -> Int], Numbering(num), NEW x \in Int,
           Numbered(k)' => /\ 0 - Len(nodes') < x /\ x < EntriesCount'
                           /\ \A l \in Keys \ {k} : Numbered(l) => num[l] # x,
           \A n \in DOMAIN nodes' : Absent(n, k)' \/ Within(x, n)',
           r.step \in AddSteps => Numbers(r, x)'
    PROVE  \E f \in [Keys -> Int] : Numbering(f)'
  <1>1. k \in Keys /\ Len(nodes) \in Nat /\ call = [u \in Threads |-> call[u]]
    BY KeysAssumption DEF IndInv, TypeOK
  <1>2. /\ call'[t] = r /\ \A u \in Threads \ {t} : call'[u] = call[u]
    BY <1>1
  <1>3. PICK f \in [Keys -> Int] : f[k] = x /\ \A l \in Keys \ {k} : f[l] = num[l]
    <2>1. [num EXCEPT ![k] = x] \in [Keys -> Int]
      OBVIOUS
    <2> QED BY <1>1, <2>1
  <1>4. ASSUME NEW l \in Keys \ {k}, NEW n \in DOMAIN nodes', ~Absent(n, l)'
        PROVE  n \in DOMAIN nodes /\ ~Absent(n, l)
    BY <1>4 DEF Keeps
  <1>5. ASSUME NEW l \in Keys \ {k}, Numbered(l)' PROVE Numbered(l)
    <2>1. CASE \E n \in DOMAIN nodes' : ~Absent(n, l)'
      BY <1>4, <2>1 DEF Numbered
    <2>2. CASE \E u \in Threads : call'[u].step \in AddSteps /\ call'[u].key = l
      <3>1. PICK u \in Threads : call'[u].step \in AddSteps /\ call'[u].key = l
        BY <2>2
      <3>2. u # t
        BY <1>2, <3>1
      <3> QED BY <1>2, <3>1, <3>2 DEF Numbered
    <2> QED BY <1>5, <2>1, <2>2 DEF Numbered
  <1>6. \A l \in Keys : Numbered(l)' => 0 - Len(nodes') < f[l] /\ f[l] < EntriesCount'
    <2>1. ASSUME NEW l \in Keys \ {k}, Numbered(l)'
          PROVE  0 - Len(nodes') < f[l] /\ f[l] < EntriesCount'
      <3>1. 0 - Len(nodes) < num[l] /\ num[l] < EntriesCount
        BY <1>5, <2>1 DEF Numbering
      <3> QED BY <1>1, <1>3, <3>1
    <2> QED BY <1>3, <2>1
  <1>7. \A i, j \in Keys : Numbered(i)' /\ Numbered(j)' /\ f[i] = f[j] => i = j
    <2>1. ASSUME NEW i \in Keys \ {k}, NEW j \in Keys \ {k}, Numbered(i)', Numbered(j)',
                 f[i] = f[j]
          PROVE  i = j
      BY <1>3, <1>5, <2>1 DEF Numbering
    <2>2. ASSUME NEW i \in Keys \ {k}, Numbered(i)', Numbered(k)', f[i] = f[k] PROVE FALSE
      BY <1>3, <1>5, <2>2
    <2> QED BY <2>1, <2>2
  <1>8. ASSUME NEW n \in DOMAIN nodes', NEW l \in Keys PROVE Absent(n, l)' \/ Within(f[l], n)'
    <2>1. CASE l = k
      BY <1>3, <2>1
    <2>2. CASE l # k /\ ~Absent(n, l)'
      <3>1. n \in DOMAIN nodes /\ ~Absent(n, l)
        BY <1>4, <2>2
      <3>2. Within(num[l], n)
        BY <3>1 DEF Numbering
      <3> QED BY <1>3, <2>2, <3>1, <3>2 DEF Within
    <2> QED BY <2>1, <2>2
  <1>9. ASSUME NEW u \in Threads, call'[u].step \in AddSteps
        PROVE  Numbers(call[u], f[call[u].key])'
    <2>1. PICK c, l : c = call'[u] /\ l = c.key
      OBVIOUS
    <2>2. Numbers(c, f[l])'
      <3>1. CASE u = t
        BY <1>2, <1>3, <1>9, <2>1, <3>1
      <3>2. CASE u # t
        <4>1. c = call[u] /\ c.step \in AddSteps
          BY <1>2, <1>9, <2>1, <3>2
        <4>2. c.key \in KeysOf[u] /\ c.key \in Keys /\ c.main \in DOMAIN nodes
          BY <4>1, CallFacts DEF AddSteps
        <4>3. l \in Keys \ {k}
          BY <2>1, <3>2, <4>2 DEF KeysAreOwn
        <4>4. Numbers(c, num[l])
          BY <2>1, <4>1 DEF Numbering
        <4>5. f[l] = num[l]
          BY <1>3, <4>3
        <4> QED BY <4>2, <4>4, <4>5 DEF Numbers, Within
      <3> QED BY <3>1, <3>2
    <2> QED BY <2>1, <2>2
  <1> QED BY <1>3, <1>6, <1>7, <1>8, <1>9 DEF Numbering

\* The tables have the slots and the keys they had.
KeysSame ==
    /\ nodes' \in Seq(Tables) /\ Len(nodes') = Len(nodes)
    /\ DOMAIN nodes' = DOMAIN nodes
    /\ \A n \in DOMAIN nodes : /\ nodes'[n].Capacity = nodes[n].Capacity
                               /\ nodes'[n].key = nodes[n].key

LEMMA SameFill ==
    ASSUME FillInv, KeysSame
    PROVE  /\ Once' /\ Grow'
           /\ \A n \in DOMAIN nodes : Limit(n)' = Limit(n)
           /\ \A n \in DOMAIN nodes : \A l : Absent(n, l)' <=> Absent(n, l)
  <1>1. \A n \in DOMAIN nodes' : /\ n \in DOMAIN nodes
                                 /\ nodes'[n].Capacity = nodes[n].Capacity
                                 /\ nodes'[n].key = nodes[n].key
    BY DEF KeysSame
  <1>2. Once'
    BY <1>1 DEF FillInv, Once, Slots
  <1>3. Grow'
    BY <1>1 DEF FillInv, Grow
  <1> QED BY <1>2, <1>3 DEF KeysSame, Limit, Half, Absent, Slots

\* A step that changes no key and gives no number.
LEMMA SameKeys ==
    ASSUME IndInv, FillInv, KeysAreOwn, NEW t \in Threads, NEW r,
           call' = [call EXCEPT ![t] = r], KeysSame, UNCHANGED EntriesCount,
           r.step \in AddSteps =>
              /\ call[t].step \in AddSteps /\ r.key = call[t].key
              /\ r.main \in DOMAIN nodes
              /\ \A x \in Int : Numbers(call[t], x) => Numbers(r, x)
    PROVE  FillInv'
  <1>1. PICK num \in [Keys -> Int] : Numbering(num)
    BY DEF FillInv
  <1>2. Len(nodes) \in Nat /\ call = [u \in Threads |-> call[u]]
    BY DEF IndInv, TypeOK
  <1>3. /\ call'[t] = r /\ \A u \in Threads \ {t} : call'[u] = call[u]
    BY <1>2
  <1>4. /\ \A n \in DOMAIN nodes : Limit(n)' = Limit(n)
        /\ \A n \in DOMAIN nodes : \A l : Absent(n, l)' <=> Absent(n, l)
    BY SameFill
  <1>5. Once' /\ Grow'
    BY SameFill
  <1>6. ASSUME NEW l \in Keys, Numbered(l)' PROVE Numbered(l)
    <2>1. CASE \E n \in DOMAIN nodes' : ~Absent(n, l)'
      BY <1>4, <2>1 DEF Numbered, KeysSame
    <2>2. CASE \E u \in Threads : call'[u].step \in AddSteps /\ call'[u].key = l
      <3>1. PICK u \in Threads : call'[u].step \in AddSteps /\ call'[u].key = l
        BY <2>2
      <3>2. call[u].step \in AddSteps /\ call[u].key = l
        BY <1>3, <3>1
      <3> QED BY <3>2 DEF Numbered
    <2> QED BY <1>6, <2>1, <2>2 DEF Numbered
  <1>7. ASSUME NEW u \in Threads, call'[u].step \in AddSteps
        PROVE  Numbers(call[u], num[call[u].key])'
    <2>1. PICK c, x : c = call'[u] /\ x = num[c.key]
      OBVIOUS
    <2>2. /\ call[u].step \in AddSteps /\ call[u].key = c.key
          /\ (\A y \in Int : Numbers(call[u], y) => Numbers(c, y))
      BY <1>3, <1>7, <2>1
    <2>3. c.key \in Keys
      BY <2>2, CallFacts DEF AddSteps
    <2>4. Numbers(c, x)
      BY <1>1, <2>1, <2>2, <2>3 DEF Numbering
    <2>5. ASSUME NEW m, Within(x, m), m \in DOMAIN nodes PROVE Within(x, m)'
      BY <1>4, <2>5 DEF Within
    <2>6. c.main \in DOMAIN nodes
      BY <1>3, <1>7, <2>1, <2>2, CallFacts DEF AddSteps
    <2>7. Numbers(c, x)'
      BY <2>4, <2>5, <2>6 DEF Numbers
    <2> QED BY <2>1, <2>7
  <1>8. Numbering(num)'
    <2>1. \A l \in Keys : Numbered(l)' => 0 - Len(nodes') < num[l] /\ num[l] < EntriesCount'
      BY <1>1, <1>6 DEF Numbering, KeysSame
    <2>2. \A k, l \in Keys : Numbered(k)' /\ Numbered(l)' /\ num[k] = num[l] => k = l
      BY <1>1, <1>6 DEF Numbering
    <2>3. \A n \in DOMAIN nodes', k \in Keys : Absent(n, k)' \/ Within(num[k], n)'
      BY <1>1, <1>4 DEF Numbering, Within, KeysSame
    <2> QED BY <1>7, <2>1, <2>2, <2>3 DEF Numbering
  <1> QED BY <1>5, <1>8 DEF FillInv

LEMMA SameNodes == ASSUME IndInv, UNCHANGED nodes PROVE KeysSame
  BY DEF IndInv, TypeOK, KeysSame

LEMMA SameStored ==
    ASSUME IndInv, NEW n \in DOMAIN nodes, NEW s \in Slots(n), NEW v \in Values,
           nodes' = [nodes EXCEPT ![n].value[s] = v]
    PROVE  KeysSame
  <1>1. /\ nodes[n] \in Tables /\ s \in 0 .. (nodes[n].Capacity - 1)
        /\ nodes \in Seq(Tables)
    BY TableTypes DEF IndInv, TypeOK, Slots
  <1>2. PICK y : y = [nodes[n] EXCEPT !.value[s] = v]
    OBVIOUS
  <1>3. y \in Tables /\ y.Capacity = nodes[n].Capacity /\ y.key = nodes[n].key
    BY <1>1, <1>2, WriteValue
  <1>4. nodes' = [nodes EXCEPT ![n] = y]
    BY <1>2
  <1>5. /\ nodes' \in Seq(Tables) /\ DOMAIN nodes' = DOMAIN nodes
        /\ Len(nodes') = Len(nodes)
        /\ nodes'[n] = y /\ \A m \in DOMAIN nodes : m # n => nodes'[m] = nodes[m]
    BY <1>1, <1>3, <1>4, WriteTable
  <1> QED BY <1>3, <1>5 DEF KeysSame

LEMMA LikeFields ==
    ASSUME NEW c, NEW s, NEW m, NEW n, NEW i, NEW o, NEW d,
           NEW r \in CallsLike(c, s, m, n, i, o, d)
    PROVE  r.step = s /\ r.key = c.key /\ r.main = m /\ r.NewCount = d
  <1>1. PICK op, k, v : op = c.op /\ k = c.key /\ v = c.value
    OBVIOUS
  <1>2. r \in [step : {s}, op : {op}, key : {k}, value : {v}, main : {m}, node : {n},
               index : {i}, old : {o}, NewCount : {d}]
    BY <1>1 DEF CallsLike
  <1> QED BY <1>1, <1>2

\* A call that is done with the count it was given has room for its key, or goes on
\* with it.
LEMMA NumberKept ==
    ASSUME IndInv, Grow, NEW c, IsCall(c), c.main \in DOMAIN nodes, NEW x \in Int,
           \/ c.NewCount = x /\ x \in Nat
           \/ c.NewCount = 0 /\ Within(x, c.main)
    PROVE  /\ AddOrReload(c).step \in {"add", "reload"} /\ AddOrReload(c).key = c.key
           /\ AddOrReload(c).main = c.main /\ Numbers(AddOrReload(c), x)
  <1>1. PICK r, m, e : r = AddOrReload(c) /\ m = c.main /\ e = c.NewCount
    OBVIOUS
  <1>2. Limit(m) \in Nat \ {0} /\ m \in Nat \ {0}
    BY <1>1, Limits
  <1>3. CASE HasSpace(e, m)
    <2>1. PICK d : d = 0 /\ r = [c EXCEPT !.step = "add", !.NewCount = d]
      BY <1>1, <1>3 DEF AddOrReload
    <2>2. r \in CallsLike(c, "add", c.main, c.node, c.index, c.old, d)
      BY <2>1, Changed, Zenon
    <2>3. r.step = "add" /\ r.key = c.key /\ r.main = m
      BY <1>1, <2>2, LikeFields
    <2>4. Within(x, m)
      BY <1>1, <1>2, <1>3 DEF HasSpace, Limit, Within
    <2> QED BY <1>1, <2>3, <2>4 DEF Numbers
  <1>4. CASE ~HasSpace(e, m)
    <2>1. r = [c EXCEPT !.step = "reload"]
      BY <1>1, <1>4 DEF AddOrReload
    <2>2. r \in CallsLike(c, "reload", c.main, c.node, c.index, c.old, c.NewCount)
      BY <2>1, Changed, Zenon
    <2>3. r.step = "reload" /\ r.key = c.key /\ r.main = m /\ r.NewCount = e
      BY <1>1, <2>2, LikeFields
    <2>4. e = x /\ x \in Nat
      BY <1>1, <1>2, <1>4 DEF HasSpace, Limit
    <2> QED BY <1>1, <2>3, <2>4 DEF Numbers
  <1> QED BY <1>3, <1>4

LEMMA QuietFill ==
    ASSUME IndInv, FillInv, KeysAreOwn, NEW t \in Threads,
           \/ \E op, k, v : Begin(t, op, k, v)
           \/ Probe(t) \/ Copy(t) \/ ResizeThrows(t)
    PROVE  FillInv'
  <1>1. UNCHANGED EntriesCount /\ KeysSame
    BY SameNodes DEF Begin, Probe, Copy, ResizeThrows
  <1>2. ASSUME NEW r, call' = [call EXCEPT ![t] = r], r.step \notin AddSteps PROVE FillInv'
    BY <1>1, <1>2, SameKeys
  <1>3. ASSUME NEW op, NEW k, NEW v, Begin(t, op, k, v) PROVE FillInv'
    <2>1. PICK r : /\ r.step = "probe" /\ call' = [call EXCEPT ![t] = r]
      BY <1>3 DEF Begin, Goto
    <2> QED BY <1>2, <2>1 DEF AddSteps
  <1>4. CASE Copy(t)
    <2>1. PICK c, v, r : /\ c = call[t] /\ r = [c EXCEPT !.step = "promote", !.old = v]
                         /\ c.step = "copy" /\ call' = [call EXCEPT ![t] = r]
      BY <1>4 DEF Copy, Goto, At
    <2>2. r \in CallsLike(c, "promote", c.main, c.node, c.index, v, c.NewCount)
      BY <2>1, CallFacts, Changed, Zenon
    <2>3. r.step = "promote"
      BY <2>2, LikeFields
    <2> QED BY <1>2, <2>1, <2>3 DEF AddSteps
  <1>5. CASE ResizeThrows(t)
    <2>1. call' = [call EXCEPT ![t] = NoCall]
      BY <1>5 DEF ResizeThrows, Goto
    <2> QED BY <1>2, <2>1 DEF AddSteps, NoCall
  <1>6. CASE Probe(t)
    <2>1. PICK c, s : /\ c = call[t] /\ s = Stop(c.node, c.key, {c.key, INVALID_KEY})
      OBVIOUS
    <2>2. /\ c.step = "probe"
          /\ \/ \E p \in {"found", "copy"} :
                   call' = [call EXCEPT ![t] = [c EXCEPT !.step = p, !.index = s]]
             \/ call' = [call EXCEPT ![t] = [c EXCEPT !.node = c.node - 1]]
             \/ call' = [call EXCEPT ![t] = NoCall]
             \/ call' = [call EXCEPT ![t] = [c EXCEPT !.step = "count", !.node = 0]]
      BY <1>6, <2>1 DEF Probe, Goto, At, NotFound
    <2>3. IsCall(c)
      BY <2>1, <2>2, CallFacts
    <2>4. ASSUME NEW p \in {"found", "copy"},
                 call' = [call EXCEPT ![t] = [c EXCEPT !.step = p, !.index = s]]
          PROVE  FillInv'
      <3>1. PICK r : r = [c EXCEPT !.step = p, !.index = s]
        OBVIOUS
      <3>2. r \in CallsLike(c, p, c.main, c.node, s, c.old, c.NewCount)
        BY <2>3, <3>1, Changed, Zenon
      <3>3. r.step = p
        BY <3>2, LikeFields
      <3> QED BY <1>2, <2>4, <3>1, <3>3 DEF AddSteps
    <2>5. CASE call' = [call EXCEPT ![t] = [c EXCEPT !.node = c.node - 1]]
      <3>1. PICK n, r : n = c.node - 1 /\ r = [c EXCEPT !.node = n]
        OBVIOUS
      <3>2. r \in CallsLike(c, c.step, c.main, n, c.index, c.old, c.NewCount)
        BY <2>3, <3>1, Changed, Zenon
      <3>3. r.step = c.step
        BY <3>2, LikeFields
      <3> QED BY <1>2, <2>2, <2>5, <3>1, <3>3 DEF AddSteps
    <2>6. CASE call' = [call EXCEPT ![t] = NoCall]
      BY <1>2, <2>6 DEF AddSteps, NoCall
    <2>7. CASE call' = [call EXCEPT ![t] = [c EXCEPT !.step = "count", !.node = 0]]
      <3>1. PICK n, r : n = 0 /\ r = [c EXCEPT !.step = "count", !.node = n]
        OBVIOUS
      <3>2. r \in CallsLike(c, "count", c.main, n, c.index, c.old, c.NewCount)
        BY <2>3, <3>1, Changed, Zenon
      <3>3. r.step = "count"
        BY <3>2, LikeFields
      <3> QED BY <1>2, <2>7, <3>1, <3>3 DEF AddSteps
    <2> QED BY <2>2, <2>4, <2>5, <2>6, <2>7
  <1> QED BY <1>3, <1>4, <1>5, <1>6

LEMMA StoreFill ==
    ASSUME IndInv, FillInv, KeysAreOwn, NEW t \in Threads,
           StorePromoted(t) \/ Found(t) \/ StoreAdded(t)
    PROVE  FillInv'
  <1>1. PICK c : c = call[t]
    OBVIOUS
  <1>2. c.step \in {"promoted", "found", "added"} /\ UNCHANGED EntriesCount
    BY <1>1 DEF StorePromoted, Found, StoreAdded, At
  <1>3. /\ IsCall(c) /\ CallOK(t, c) /\ Newest(c.node, c.key, c.index)
        /\ c.value \in Values /\ c.old \in Values \union {NoValue}
    <2>1. Newest(c.node, c.key, c.index)
      BY <1>1, <1>2, CallFacts DEF CallOK, Holds
    <2> QED BY <1>1, <1>2, <2>1, CallFacts
  <1>4. c.node \in DOMAIN nodes /\ c.index \in Slots(c.node)
    BY <1>3 DEF Newest, In
  <1>5. ASSUME NEW v \in Values, StoreValue(t, v) PROVE KeysSame
    <2>1. PICK n, s : n = c.node /\ s = c.index
      OBVIOUS
    <2> QED BY <1>1, <1>4, <1>5, <2>1, SameStored DEF StoreValue
  <1>6. KeysSame
    <2>1. CASE StorePromoted(t)
      <3>1. c.step = "promoted" /\ StoreValue(t, c.old)
        BY <1>1, <2>1 DEF StorePromoted, At
      <3>2. c.old \in Values
        BY <1>3, <3>1 DEF CallOK
      <3> QED BY <1>5, <3>1, <3>2
    <2>2. CASE Found(t)
      BY <1>1, <1>3, <1>5, <2>2, SameNodes DEF Found
    <2>3. CASE StoreAdded(t)
      BY <1>1, <1>3, <1>5, <2>3 DEF StoreAdded
    <2> QED BY <2>1, <2>2, <2>3
  <1>7. PICK r : call' = [call EXCEPT ![t] = r] /\ r.step \notin AddSteps
    <2>1. CASE Found(t) \/ StoreAdded(t)
      <3>1. call' = [call EXCEPT ![t] = NoCall]
        BY <2>1 DEF Found, StoreAdded, Goto
      <3>2. NoCall.step \notin AddSteps
        BY DEF NoCall, AddSteps
      <3> QED BY <3>1, <3>2
    <2>2. CASE StorePromoted(t)
      <3>1. PICK o, r : o = NoValue /\ r = [c EXCEPT !.step = "found", !.old = o]
        OBVIOUS
      <3>2. call' = [call EXCEPT ![t] = r]
        BY <1>1, <2>2, <3>1 DEF StorePromoted, Goto
      <3>3. r \in CallsLike(c, "found", c.main, c.node, c.index, o, c.NewCount)
        BY <1>3, <3>1, Changed, Zenon
      <3>4. r.step = "found"
        BY <3>3, LikeFields
      <3> QED BY <3>2, <3>4 DEF AddSteps
    <2> QED BY <2>1, <2>2
  <1> QED BY <1>2, <1>6, <1>7, SameKeys

\* The call gets the count as its number.
LEMMA CountFill ==
    ASSUME IndInv, FillInv, KeysAreOwn, NEW t \in Threads, Count(t)
    PROVE  FillInv'
  <1>1. PICK c, d, r : c = call[t] /\ d = EntriesCount
                       /\ r = [c EXCEPT !.step = "room", !.NewCount = d]
    OBVIOUS
  <1>2. /\ call' = [call EXCEPT ![t] = r] /\ UNCHANGED nodes
        /\ c.step = "count" /\ EntriesCount' = EntriesCount + 1
    BY <1>1 DEF Count, Goto, At
  <1>3. PICK num \in [Keys -> Int] : Numbering(num)
    BY DEF FillInv
  <1>4. /\ IsCall(c) /\ AbsentAfter(0, c.key) /\ c.key \in KeysOf[t] /\ c.key \in Keys
        /\ Len(nodes) \in Nat \ {0}
    BY <1>1, <1>2, CallFacts DEF CallOK
  <1>5. r \in CallsLike(c, "room", c.main, c.node, c.index, c.old, d)
    BY <1>1, <1>4, Changed, Zenon
  <1>6. r.step = "room" /\ r.key = c.key /\ r.NewCount = d
    BY <1>5, LikeFields
  <1>7. /\ KeysSame /\ Once' /\ Grow' /\ \A l \in Keys : Keeps(l)
        /\ \A n \in DOMAIN nodes : Limit(n)' = Limit(n)
    BY <1>2, SameNodes, SameFill, SameTables DEF IndInv
  <1>8. d \in Nat /\ EntriesCount' \in Nat /\ EntriesCount <= EntriesCount'
    BY <1>1, <1>2 DEF FillInv
  <1>9. \A n \in DOMAIN nodes' : Absent(n, c.key)'
    <2>1. \A n \in DOMAIN nodes : n > 0
      BY TableTypes DEF IndInv
    <2>2. \A n \in DOMAIN nodes : Absent(n, c.key)
      BY <1>4, <2>1 DEF AbsentAfter
    <2> QED BY <1>2, <2>2 DEF Absent, Slots
  <1>10. /\ 0 - Len(nodes') < d /\ d < EntriesCount'
         /\ \A l \in Keys : Numbered(l) => num[l] # d
    <2>1. \A l \in Keys : Numbered(l) => num[l] < d
      BY <1>1, <1>3 DEF Numbering
    <2> QED BY <1>1, <1>2, <1>4, <1>8, <2>1
  <1>11. Numbers(r, d)'
    BY <1>6, <1>8 DEF Numbers
  <1>12. \E f \in [Keys -> Int] : Numbering(f)'
    <2>1. PICK k \in KeysOf[t] : k = c.key
      BY <1>4
    <2>2. Len(nodes') \in Nat /\ Len(nodes) <= Len(nodes') /\ EntriesCount \in Nat /\ d \in Int
      BY <1>1, <1>2, <1>4, <1>8
    <2> QED BY <1>2, <1>3, <1>6, <1>7, <1>8, <1>9, <1>10, <1>11, <2>1, <2>2, Renumbered
  <1> QED BY <1>7, <1>8, <1>12 DEF FillInv

\* The call keeps its number.
LEMMA AddingFill ==
    ASSUME IndInv, FillInv, KeysAreOwn, NEW t \in Threads, NEW c, c = call[t],
           c.step \in {"room", "reload", "resize", "clear"},
           UNCHANGED <<nodes, EntriesCount>>,
           NEW m \in DOMAIN nodes, c.step = "clear" => m = c.main,
           \/ /\ c.step = "room"
              /\ call' = [call EXCEPT ![t] = [c EXCEPT !.step = "resize"]]
           \/ /\ c.step = "reload"
              /\ call' = [call EXCEPT ![t] = [c EXCEPT !.step = "room", !.main = m]]
           \/ call' = [call EXCEPT ![t] = AddOrReload([c EXCEPT !.main = m])]
    PROVE  FillInv'
  <1>1. IsCall(c) /\ c.main \in DOMAIN nodes /\ KeysSame /\ m \in Nat
    BY CallFacts, SameNodes, TableTypes DEF IndInv
  <1>2. c.step \in AddSteps
    BY DEF AddSteps
  <1>3. CASE /\ c.step = "room"
             /\ call' = [call EXCEPT ![t] = [c EXCEPT !.step = "resize"]]
    <2>1. PICK r : r = [c EXCEPT !.step = "resize"]
      OBVIOUS
    <2>2. r \in CallsLike(c, "resize", c.main, c.node, c.index, c.old, c.NewCount)
      BY <1>1, <2>1, Changed, Zenon
    <2>3. r.step = "resize" /\ r.key = c.key /\ r.main = c.main /\ r.NewCount = c.NewCount
      BY <2>2, LikeFields
    <2>4. \A x \in Int : Numbers(c, x) => Numbers(r, x)
      BY <1>3, <2>3 DEF Numbers
    <2> QED BY <1>1, <1>2, <1>3, <2>1, <2>3, <2>4, SameKeys
  <1>4. CASE /\ c.step = "reload"
             /\ call' = [call EXCEPT ![t] = [c EXCEPT !.step = "room", !.main = m]]
    <2>1. PICK r : r = [c EXCEPT !.step = "room", !.main = m]
      OBVIOUS
    <2>2. r \in CallsLike(c, "room", m, c.node, c.index, c.old, c.NewCount)
      BY <1>1, <2>1, Changed, Zenon
    <2>3. r.step = "room" /\ r.key = c.key /\ r.main = m /\ r.NewCount = c.NewCount
      BY <2>2, LikeFields
    <2>4. \A x \in Int : Numbers(c, x) => Numbers(r, x)
      BY <1>4, <2>3 DEF Numbers
    <2> QED BY <1>1, <1>2, <1>4, <2>1, <2>3, <2>4, SameKeys
  <1>5. CASE call' = [call EXCEPT ![t] = AddOrReload([c EXCEPT !.main = m])]
    <2>1. PICK d, r : d = [c EXCEPT !.main = m] /\ r = AddOrReload(d)
      OBVIOUS
    <2>2. d \in CallsLike(c, c.step, m, c.node, c.index, c.old, c.NewCount)
      BY <1>1, <2>1, Changed, Zenon
    <2>3. /\ d.step = c.step /\ d.key = c.key /\ d.main = m /\ d.NewCount = c.NewCount
      BY <2>2, LikeFields
    <2>4. Like(d, c, c.step, m, c.node, c.index, c.old)
      BY <1>1, <2>1, CallFacts, ChangedLike, Zenon
    <2>5. IsCall(d)
      BY <2>4 DEF Like
    <2>6. ASSUME NEW x \in Int, Numbers(c, x)
          PROVE  /\ r.step \in {"add", "reload"} /\ r.key = c.key /\ r.main = m
                 /\ Numbers(r, x)
      <3>1. \/ d.NewCount = x /\ x \in Nat
            \/ d.NewCount = 0 /\ Within(x, d.main)
        BY <2>3, <2>6 DEF Numbers
      <3> QED BY <2>1, <2>3, <2>5, <3>1, NumberKept DEF FillInv
    <2>7. PICK num \in [Keys -> Int] : Numbering(num)
      BY DEF FillInv
    <2>8. Numbers(c, num[c.key]) /\ num[c.key] \in Int
      BY <1>2, <2>7, CallFacts DEF Numbering
    <2>9. r.key = c.key /\ r.main = m
      BY <2>6, <2>8
    <2> QED BY <1>1, <1>2, <1>5, <2>1, <2>6, <2>9, SameKeys
  <1> QED BY <1>3, <1>4, <1>5

LEMMA AddStepsFill ==
    ASSUME IndInv, FillInv, KeysAreOwn, NEW t \in Threads,
           \/ Room(t) \/ Reload(t) \/ Clear(t)
           \/ Resize(t) /\ UNCHANGED nodes
    PROVE  FillInv'
  <1>1. PICK c : c = call[t]
    OBVIOUS
  <1>2. c.step \in {"room", "reload", "resize", "clear"} /\ UNCHANGED <<nodes, EntriesCount>>
    BY <1>1 DEF Room, Reload, Clear, Resize, At
  <1>3. /\ IsCall(c) /\ c.main \in DOMAIN nodes /\ Len(nodes) \in DOMAIN nodes
    BY <1>1, <1>2, CallFacts
  <1>4. c = [c EXCEPT !.main = c.main]
    <2>1. PICK s, o, m, d : s = {c.step} /\ o = {c.op} /\ m = c.main /\ d = {c.NewCount}
      OBVIOUS
    <2>2. c \in [step : s, op : o, key : Keys, value : Values, main : Nat,
                 node : Nat, index : Nat, old : Values \union {NoValue}, NewCount : d]
      BY <1>3, <2>1 DEF IsCall
    <2>3. c = [c EXCEPT !.main = c.main]
      BY <2>2
    <2> QED BY <2>3
  <1>5. CASE Room(t)
    <2>1. /\ c.step = "room"
          /\ \/ call' = [call EXCEPT ![t] = [c EXCEPT !.step = "resize"]]
             \/ call' = [call EXCEPT ![t] = AddOrReload(c)]
      BY <1>1, <1>5 DEF Room, Goto, At
    <2>2. PICK m \in DOMAIN nodes : m = c.main
      BY <1>3
    <2>3. \/ call' = [call EXCEPT ![t] = [c EXCEPT !.step = "resize"]]
          \/ call' = [call EXCEPT ![t] = AddOrReload([c EXCEPT !.main = m])]
      BY <1>4, <2>1, <2>2
    <2> QED BY <1>1, <1>2, <2>1, <2>2, <2>3, AddingFill
  <1>6. CASE Clear(t)
    <2>1. c.step = "clear" /\ call' = [call EXCEPT ![t] = AddOrReload(c)]
      BY <1>1, <1>6 DEF Clear, Goto, At
    <2>2. PICK m \in DOMAIN nodes : m = c.main
      BY <1>3
    <2>3. call' = [call EXCEPT ![t] = AddOrReload([c EXCEPT !.main = m])]
      BY <1>4, <2>1, <2>2
    <2> QED BY <1>1, <1>2, <2>2, <2>3, AddingFill
  <1>7. CASE Reload(t)
    <2>1. /\ c.step = "reload"
          /\ call' = [call EXCEPT ![t] = [c EXCEPT !.step = "room", !.main = Len(nodes)]]
      BY <1>1, <1>7 DEF Reload, Goto, At
    <2>2. PICK m \in DOMAIN nodes : m = Len(nodes)
      BY <1>3
    <2> QED BY <1>1, <1>2, <2>1, <2>2, AddingFill
  <1>8. CASE Resize(t) /\ UNCHANGED nodes
    <2>1. nodes \in Seq(Tables) /\ c.step = "resize"
      BY <1>1, <1>8 DEF IndInv, TypeOK, Resize, At
    <2>2. PICK m \in DOMAIN nodes : m = Len(nodes)
      BY <1>3
    <2>3. nodes' # Append(nodes, NewHashNode(2 * nodes[m].Capacity))
      <3>1. PICK y : y = NewHashNode(2 * nodes[m].Capacity)
        OBVIOUS
      <3>2. Append(nodes, y) # nodes
        <4>1. Len(Append(nodes, y)) = Len(nodes) + 1 /\ Len(nodes) \in Nat
          BY <2>1
        <4> QED BY <4>1
      <3> QED BY <1>2, <3>1, <3>2
    <2>4. call' = [call EXCEPT ![t] = AddOrReload([c EXCEPT !.main = m])]
      BY <1>1, <1>8, <2>2, <2>3 DEF Resize, Goto
    <2> QED BY <1>1, <1>2, <2>1, <2>2, <2>4, AddingFill
  <1> QED BY <1>5, <1>6, <1>7, <1>8

\* A new table is put behind the others, and the call that made it may forget its
\* count: it has a number no other key has.
LEMMA ResizeFill ==
    ASSUME IndInv, FillInv, KeysAreOwn, NEW t \in Threads, Resize(t), nodes' # nodes
    PROVE  FillInv'
  <1>1. PICK c, m, n, x, e, d, y, r :
           /\ c = call[t] /\ m = Len(nodes) /\ n = m + 1 /\ x = 2 * nodes[m].Capacity
           /\ e = c.NewCount /\ d = Shifted(e, x) /\ y = NewHashNode(x)
           /\ r = [c EXCEPT !.step = "clear", !.main = n, !.NewCount = d]
    OBVIOUS
  <1>2. /\ c.step = "resize" /\ UNCHANGED EntriesCount
        /\ nodes' = Append(nodes, y) /\ call' = [call EXCEPT ![t] = r]
    BY <1>1 DEF Resize, Goto, At
  <1>3. /\ IsCall(c) /\ AbsentAfter(0, c.key) /\ c.key \in KeysOf[t] /\ c.key \in Keys
        /\ m \in Nat \ {0} /\ DOMAIN nodes = 1 .. m /\ m \in DOMAIN nodes
        /\ TypeOK /\ Reachable /\ nodes \in Seq(Tables)
    BY <1>1, <1>2, CallFacts DEF CallOK, TypeOK
  <1>4. PICK num \in [Keys -> Int] : Numbering(num)
    BY DEF FillInv
  <1>5. nodes[m].Capacity \in Nat \ {0} /\ nodes[m].Capacity >= 4 * m /\ x \in Nat \ {0}
    BY <1>1, <1>3, Limits, TableTypes DEF FillInv
  <1>6. /\ y.Capacity = x /\ \A s \in 0 .. (x - 1) : y.key[s] = INVALID_KEY
    BY <1>1 DEF NewHashNode
  <1>7. /\ Len(nodes') = n /\ DOMAIN nodes' = 1 .. n /\ nodes'[n] = y
        /\ \A i \in DOMAIN nodes : nodes'[i] = nodes[i]
    BY <1>1, <1>2, <1>3
  <1>8. Once'
    <2>1. ASSUME NEW i \in DOMAIN nodes', NEW s \in 0 .. (nodes'[i].Capacity - 1),
                 NEW u \in 0 .. (nodes'[i].Capacity - 1),
                 nodes'[i].key[s] = nodes'[i].key[u], nodes'[i].key[s] # INVALID_KEY
          PROVE  s = u
      <3>1. CASE i = n
        BY <1>6, <1>7, <2>1, <3>1
      <3>2. CASE i # n
        <4>1. i \in DOMAIN nodes
          BY <1>1, <1>3, <1>7, <3>2
        <4> QED BY <1>7, <2>1, <4>1 DEF FillInv, Once, Slots
      <3> QED BY <3>1, <3>2
    <2> QED BY <2>1 DEF Once, Slots
  <1>9. Grow'
    <2>1. ASSUME NEW i \in DOMAIN nodes'
          PROVE  /\ nodes'[i].Capacity >= 4 * i
                 /\ \A j \in DOMAIN nodes' : j <= i => nodes'[j].Capacity <= nodes'[i].Capacity
      <3>1. CASE i = n
        <4>1. nodes'[i].Capacity = x /\ x >= 4 * n /\ x >= nodes[m].Capacity
          BY <1>1, <1>3, <1>5, <1>6, <1>7, <3>1
        <4>2. ASSUME NEW j \in DOMAIN nodes', j # n PROVE nodes'[j].Capacity <= x
          <5>1. j \in DOMAIN nodes /\ j <= m
            BY <1>1, <1>3, <1>7, <4>2
          <5>2. nodes[j].Capacity <= nodes[m].Capacity /\ nodes[j].Capacity \in Nat
            BY <1>3, <5>1, TableTypes DEF FillInv, Grow
          <5> QED BY <1>5, <1>7, <4>1, <5>1, <5>2
        <4> QED BY <1>5, <3>1, <4>1, <4>2
      <3>2. CASE i # n
        <4>1. i \in DOMAIN nodes /\ \A j \in DOMAIN nodes' : j <= i => j \in DOMAIN nodes
          BY <1>1, <1>3, <1>7, <3>2
        <4> QED BY <1>7, <4>1 DEF FillInv, Grow
      <3> QED BY <3>1, <3>2
    <2> QED BY <2>1 DEF Grow
  <1>10. /\ \A i \in DOMAIN nodes : Limit(i)' = Limit(i)
         /\ \A l \in Keys : Keeps(l)
    BY <1>1, <1>2, <1>3, <1>5, <1>7, TableAppended DEF Limit, Half
  <1>11. Limit(n)' \in Nat \ {0}
    <2>1. nodes'[n].Capacity = x /\ x >= 4
      BY <1>3, <1>5, <1>6, <1>7, <1>1
    <2>2. x \div 2 + x \div 4 \in Nat \ {0}
      BY <1>5, <2>1
    <2> QED BY <2>1, <2>2 DEF Limit, Half
  <1>12. r \in CallsLike(c, "clear", n, c.node, c.index, c.old, d)
    BY <1>1, <1>3, Changed, Zenon
  <1>13. r.step = "clear" /\ r.key = c.key /\ r.main = n /\ r.NewCount = d
    BY <1>12, LikeFields
  <1>14. \A i \in DOMAIN nodes' : Absent(i, c.key)'
    <2>1. \A i \in DOMAIN nodes : i > 0
      BY <1>3
    <2>2. \A i \in DOMAIN nodes : Absent(i, c.key)
      BY <1>3, <2>1 DEF AbsentAfter
    <2> QED BY <1>3, <1>10, <2>2 DEF Keeps
  <1>15. /\ e = num[c.key] /\ e \in Nat /\ Numbered(c.key)
    BY <1>1, <1>2, <1>3, <1>4 DEF Numbering, Numbers, Numbered, AddSteps
  <1>16. PICK z \in Int :
            /\ Numbers(r, z)' /\ 0 - Len(nodes') < z /\ z < EntriesCount
            /\ \A l \in Keys \ {c.key} : Numbered(l) => num[l] # z
    <2>1. CASE e >= x \div 2
      <3>1. d = 0
        BY <1>1, <2>1 DEF Shifted
      <3>2. PICK z \in Int : z = 0 - m
        BY <1>3
      <3>3. Within(z, n)' /\ 0 - Len(nodes') < z /\ z < EntriesCount
        BY <1>1, <1>3, <1>7, <1>11, <3>2 DEF Within, FillInv
      <3>4. \A l \in Keys \ {c.key} : Numbered(l) => num[l] # z
        BY <1>1, <1>3, <1>4, <3>2 DEF Numbering
      <3>5. Numbers(r, z)'
        BY <1>13, <3>1, <3>3 DEF Numbers
      <3> QED BY <3>3, <3>4, <3>5
    <2>2. CASE ~(e >= x \div 2)
      <3>1. d = e
        BY <1>1, <2>2 DEF Shifted
      <3>2. Numbers(r, e)'
        BY <1>13, <1>15, <3>1 DEF Numbers
      <3>3. 0 - Len(nodes') < e /\ e < EntriesCount
        BY <1>1, <1>3, <1>4, <1>7, <1>15 DEF Numbering
      <3>4. \A l \in Keys \ {c.key} : Numbered(l) => num[l] # e
        BY <1>3, <1>4, <1>15 DEF Numbering
      <3> QED BY <1>15, <3>2, <3>3, <3>4
    <2> QED BY <2>1, <2>2
  <1>17. \E f \in [Keys -> Int] : Numbering(f)'
    <2>1. PICK k \in KeysOf[t] : k = c.key
      BY <1>3
    <2>2. /\ Len(nodes') \in Nat /\ Len(nodes) <= Len(nodes')
          /\ EntriesCount \in Nat /\ EntriesCount' \in Nat /\ EntriesCount <= EntriesCount'
      BY <1>1, <1>2, <1>3, <1>7 DEF FillInv
    <2> QED BY <1>2, <1>4, <1>10, <1>13, <1>14, <1>16, <2>1, <2>2, Renumbered
  <1> QED BY <1>2, <1>8, <1>9, <1>17 DEF FillInv

LEMMA SameNumber ==
    ASSUME IndInv, KeysAreOwn, NEW t \in Threads, NEW k \in KeysOf[t], NEW r,
           call' = [call EXCEPT ![t] = r], r.step \notin AddSteps,
           EntriesCount \in Nat, EntriesCount' \in Nat, EntriesCount <= EntriesCount',
           Len(nodes') \in Nat, Len(nodes) <= Len(nodes'),
           \A n \in DOMAIN nodes : Limit(n)' = Limit(n),
           \A l \in Keys \ {k} : Keeps(l),
           NEW num \in [Keys -> Int], Numbering(num), num[k] \in Int,
           0 - Len(nodes') < num[k], num[k] < EntriesCount',
           \A l \in Keys \ {k} : Numbered(l) => num[l] # num[k],
           \A n \in DOMAIN nodes' : Absent(n, k)' \/ Within(num[k], n)'
    PROVE  \E f \in [Keys -> Int] : Numbering(f)'
  <1>1. PICK x \in Int : x = num[k]
    OBVIOUS
  <1>2. /\ 0 - Len(nodes') < x /\ x < EntriesCount'
        /\ \A l \in Keys \ {k} : Numbered(l) => num[l] # x
    BY <1>1
  <1>3. \A n \in DOMAIN nodes' : Absent(n, k)' \/ Within(x, n)'
    BY <1>1
  <1> QED BY <1>2, <1>3, Renumbered

LEMMA KeyWritten ==
    ASSUME TypeOK, Once, Grow, NEW m \in DOMAIN nodes, NEW k \in Keys, Absent(m, k),
           NEW s \in Slots(m), nodes' = [nodes EXCEPT ![m].key[s] = k]
    PROVE  /\ DOMAIN nodes' = DOMAIN nodes /\ Len(nodes') = Len(nodes)
           /\ \A i \in DOMAIN nodes : nodes'[i].Capacity = nodes[i].Capacity
           /\ Once' /\ Grow'
  <1>1. nodes \in Seq(Tables)
    BY DEF TypeOK
  <1>2. nodes[m] \in Tables /\ s \in 0 .. (nodes[m].Capacity - 1)
    BY TableTypes DEF Slots
  <1>3. PICK y : y = [nodes[m] EXCEPT !.key[s] = k]
    OBVIOUS
  <1>4. /\ y \in Tables /\ y.Capacity = nodes[m].Capacity
        /\ y.key = [nodes[m].key EXCEPT ![s] = k]
    <2>1. PICK x \in Tables : x = nodes[m] /\ s \in 0 .. (x.Capacity - 1)
      BY <1>2
    <2>2. y = [x EXCEPT !.key[s] = k] /\ k \in Keys
      BY <1>1, <1>3, <2>1
    <2> QED BY <2>1, <2>2, WriteKey
  <1>5. nodes' = [nodes EXCEPT ![m] = y]
    BY <1>3
  <1>6. /\ nodes' \in Seq(Tables) /\ DOMAIN nodes' = DOMAIN nodes
        /\ Len(nodes') = Len(nodes)
        /\ nodes'[m] = y /\ \A i \in DOMAIN nodes : i # m => nodes'[i] = nodes[i]
    <2>1. PICK q \in Seq(Tables) : q = nodes
      BY <1>1
    <2>2. m \in DOMAIN q /\ y \in Tables /\ nodes' = [q EXCEPT ![m] = y]
      BY <1>4, <1>5, <2>1
    <2>3. LET z == [q EXCEPT ![m] = y]
          IN  /\ z \in Seq(Tables) /\ DOMAIN z = DOMAIN q /\ Len(z) = Len(q)
              /\ z[m] = y /\ \A i \in DOMAIN q : i # m => z[i] = q[i]
      BY <2>2, WriteTable
    <2> QED BY <2>1, <2>2, <2>3
  <1>7. \A i \in DOMAIN nodes : nodes'[i].Capacity = nodes[i].Capacity
    BY <1>4, <1>6
  <1>8. \A u \in Slots(m) : y.key[u] = IF u = s THEN k ELSE nodes[m].key[u]
    <2>1. PICK g : g = nodes[m].key
      OBVIOUS
    <2>2. g \in [Slots(m) -> Keys \union {INVALID_KEY}]
      BY <2>1, TableTypes
    <2>3. \A u \in Slots(m) : [g EXCEPT ![s] = k][u] = IF u = s THEN k ELSE g[u]
      BY <2>2
    <2> QED BY <1>4, <2>1, <2>3
  <1>9. Grow'
    BY <1>6, <1>7 DEF Grow
  <1>10. Once'
    <2>1. ASSUME NEW i \in DOMAIN nodes, NEW u \in Slots(i), NEW v \in Slots(i),
                 nodes'[i].key[u] = nodes'[i].key[v], nodes'[i].key[u] # INVALID_KEY
          PROVE  u = v
      <3>1. CASE i # m
        BY <1>6, <2>1, <3>1 DEF Once
      <3>2. CASE i = m
        <4>1. PICK q : q = nodes[m].key
          OBVIOUS
        <4>2. \A a, b \in Slots(m) : q[a] = q[b] /\ q[a] # INVALID_KEY => a = b
          BY <4>1 DEF Once
        <4>3. \A a \in Slots(m) : q[a] # k /\ y.key[a] = IF a = s THEN k ELSE q[a]
          BY <1>8, <4>1 DEF Absent
        <4>4. y.key[u] = y.key[v] /\ y.key[u] # INVALID_KEY
          BY <1>6, <2>1, <3>2
        <4> QED BY <2>1, <3>2, <4>2, <4>3, <4>4
      <3> QED BY <3>1, <3>2
    <2>2. ASSUME NEW i \in DOMAIN nodes', NEW u \in 0 .. (nodes'[i].Capacity - 1),
                 NEW v \in 0 .. (nodes'[i].Capacity - 1),
                 nodes'[i].key[u] = nodes'[i].key[v], nodes'[i].key[u] # INVALID_KEY
          PROVE  u = v
      <3>1. i \in DOMAIN nodes /\ u \in Slots(i) /\ v \in Slots(i)
        BY <1>6, <1>7, <2>2 DEF Slots
      <3> QED BY <2>1, <2>2, <3>1
    <2> QED BY <2>2 DEF Once, Slots
  <1> QED BY <1>6, <1>7, <1>9, <1>10

\* A slot of table m, below whose limit the number of the key is, is claimed for it.
LEMMA ClaimFill ==
    ASSUME IndInv, FillInv, KeysAreOwn, NEW t \in Threads, NEW k \in KeysOf[t],
           call[t].step # "idle", k = call[t].key, NEW p, p \notin AddSteps,
           NEW m \in DOMAIN nodes, Absent(m, k), Claim(t, m, p), UNCHANGED EntriesCount,
           NEW num \in [Keys -> Int], Numbering(num), Numbered(k), Within(num[k], m)
    PROVE  FillInv'
  <1>1. PICK c, s, r : /\ c = call[t] /\ s = Stop(m, k, {INVALID_KEY})
                       /\ r = [c EXCEPT !.step = p, !.node = m, !.index = s]
    OBVIOUS
  <1>2. /\ ProbeEnds(m, k, {INVALID_KEY}) /\ nodes' = [nodes EXCEPT ![m].key[s] = k]
        /\ call' = [call EXCEPT ![t] = r]
    BY <1>1 DEF Claim, Goto
  <1>3. k \in Keys /\ TypeOK /\ Reachable /\ Len(nodes) \in Nat /\ IsCall(c)
    BY <1>1, CallFacts
  <1>4. r.step \notin AddSteps
    <2>1. r \in CallsLike(c, p, c.main, m, s, c.old, c.NewCount)
      BY <1>1, <1>3, Changed, Zenon
    <2>2. r.step = p
      BY <2>1, LikeFields
    <2> QED BY <2>2
  <1>5. s \in Slots(m)
    <2>1. PICK i \in Slots(m) : s = Slot(m, k, i)
      BY <1>1, <1>2, <1>3, ProbeStops
    <2>2. i \in Nat
      BY <1>3, TableTypes DEF Slots
    <2> QED BY <1>3, <2>1, <2>2, SlotType
  <1>6. /\ DOMAIN nodes' = DOMAIN nodes /\ Len(nodes') = Len(nodes)
        /\ \A i \in DOMAIN nodes : nodes'[i].Capacity = nodes[i].Capacity
        /\ Once' /\ Grow'
    BY <1>2, <1>3, <1>5, KeyWritten DEF FillInv
  <1>7. /\ \A i \in DOMAIN nodes : i # m /\ Absent(i, k) => Absent(i, k)'
        /\ \A l \in Keys \ {k} : Keeps(l)
    BY <1>1, <1>2, <1>3, KeyClaimed
  <1>8. \A i \in DOMAIN nodes : Limit(i)' = Limit(i)
    BY <1>6 DEF Limit, Half
  <1>9. \A i \in DOMAIN nodes' : Absent(i, k)' \/ Within(num[k], i)'
    <2>1. ASSUME NEW i \in DOMAIN nodes, ~Absent(i, k)' PROVE Within(num[k], i)
      <3>1. i = m \/ ~Absent(i, k)
        BY <1>7, <2>1
      <3> QED BY <1>3, <3>1 DEF Numbering
    <2> QED BY <1>6, <1>8, <2>1 DEF Within
  <1>10. \E f \in [Keys -> Int] : Numbering(f)'
    <2>1. /\ 0 - Len(nodes') < num[k] /\ num[k] < EntriesCount'
          /\ \A l \in Keys \ {k} : Numbered(l) => num[l] # num[k]
      BY <1>3, <1>6 DEF Numbering
    <2>2. /\ Len(nodes') \in Nat /\ Len(nodes) <= Len(nodes') /\ num[k] \in Int
          /\ EntriesCount \in Nat /\ EntriesCount' \in Nat /\ EntriesCount <= EntriesCount'
      BY <1>3, <1>6 DEF FillInv
    <2>3. call' = [call EXCEPT ![t] = r]
      BY <1>2
    <2> QED BY <1>4, <1>7, <1>8, <1>9, <2>1, <2>2, <2>3, SameNumber
  <1> QED BY <1>6, <1>10 DEF FillInv

LEMMA AddFill ==
    ASSUME IndInv, FillInv, KeysAreOwn, NEW t \in Threads, Add(t) \/ Promote(t)
    PROVE  FillInv'
  <1>1. PICK c, m, p : c = call[t] /\ m = c.main /\ Claim(t, m, p) /\ p \notin AddSteps
    BY DEF Add, Promote, AddSteps
  <1>2. c.step \in {"add", "promote"} /\ UNCHANGED EntriesCount
    BY <1>1 DEF Add, Promote, At
  <1>3. /\ IsCall(c) /\ CallOK(t, c) /\ c.key \in KeysOf[t] /\ c.key \in Keys
        /\ m \in DOMAIN nodes /\ m \in Nat \ {0} /\ DOMAIN nodes = 1 .. Len(nodes)
    BY <1>1, <1>2, CallFacts
  <1>4. PICK num \in [Keys -> Int] : Numbering(num)
    BY DEF FillInv
  <1>5. Absent(m, c.key) /\ Numbered(c.key) /\ Within(num[c.key], m)
    <2>1. CASE c.step = "add"
      <3>1. AbsentAfter(0, c.key)
        BY <1>3, <2>1 DEF CallOK
      <3>2. Numbered(c.key) /\ Numbers(c, num[c.key])
        BY <1>1, <1>4, <2>1 DEF Numbered, Numbering, AddSteps
      <3> QED BY <1>1, <1>3, <2>1, <3>1, <3>2 DEF AbsentAfter, Numbers
    <2>2. CASE c.step = "promote"
      <3>1. c.node < m /\ Newest(c.node, c.key, c.index)
        BY <1>1, <1>3, <2>2 DEF CallOK, Holds
      <3>2. /\ c.node \in DOMAIN nodes /\ ~Absent(c.node, c.key) /\ c.node \in Nat
            /\ AbsentAfter(c.node, c.key)
        BY <1>3, <3>1 DEF Newest, In, Absent
      <3>3. Absent(m, c.key) /\ Numbered(c.key) /\ Within(num[c.key], c.node)
        BY <1>3, <1>4, <3>1, <3>2 DEF AbsentAfter, Numbered, Numbering
      <3>4. Limit(c.node) <= Limit(m) /\ Limit(m) \in Nat /\ Limit(c.node) \in Nat
        BY <1>3, <3>1, <3>2, Limits DEF FillInv
      <3>5. num[c.key] \in Int
        BY <1>3
      <3> QED BY <1>3, <3>1, <3>2, <3>3, <3>4, <3>5 DEF Within
    <2> QED BY <1>2, <2>1, <2>2
  <1>6. PICK k \in KeysOf[t] : k = c.key
    BY <1>3
  <1>7. call[t].step # "idle" /\ k = call[t].key
    BY <1>1, <1>2, <1>6
  <1> QED BY <1>1, <1>2, <1>3, <1>4, <1>5, <1>6, <1>7, ClaimFill

LEMMA InitFill == ASSUME INITIAL_HASH_SIZE >= 4, Init PROVE FillInv
  <1>1. PICK c, y : c = INITIAL_HASH_SIZE /\ y = NewHashNode(c)
    OBVIOUS
  <1>2. nodes = <<y>> /\ EntriesCount = 0 /\ \A t \in Threads : call[t].step = "idle"
    BY <1>1 DEF Init, NoCall
  <1>3. DOMAIN nodes = {1} /\ nodes[1] = y /\ Len(nodes) = 1
    BY <1>2
  <1>4. y.Capacity = c /\ c \in Nat /\ c >= 4 /\ \A s \in 0 .. (c - 1) : y.key[s] = INVALID_KEY
    BY <1>1, SizeAssumption DEF NewHashNode
  <1>5. Once /\ Grow
    BY <1>3, <1>4 DEF Once, Grow, Slots
  <1>6. \A n \in DOMAIN nodes, k \in Keys : Absent(n, k)
    BY <1>3, <1>4, KeysAssumption DEF Absent, Slots
  <1>7. /\ \A t \in Threads : call[t].step \notin AddSteps
        /\ \A k \in Keys : ~Numbered(k)
    BY <1>2, <1>6 DEF Numbered, AddSteps
  <1>8. Numbering([k \in Keys |-> 0])
    BY <1>6, <1>7 DEF Numbering
  <1>9. [k \in Keys |-> 0] \in [Keys -> Int]
    OBVIOUS
  <1> QED BY <1>2, <1>5, <1>8, <1>9 DEF FillInv

LEMMA NextFill ==
    ASSUME IndInv, FillInv, KeysAreOwn, [Next]_vars
    PROVE  FillInv'
  <1>1. ASSUME NEW t \in Threads, Step(t) PROVE FillInv'
    <2>1. CASE Probe(t) \/ Copy(t) \/ ResizeThrows(t)
      BY <2>1, QuietFill
    <2>2. CASE Call(t)
      BY <2>2, QuietFill DEF Call
    <2>3. CASE StorePromoted(t) \/ Found(t) \/ StoreAdded(t)
      BY <2>3, StoreFill
    <2>4. CASE Count(t)
      BY <2>4, CountFill
    <2>5. CASE Room(t) \/ Reload(t) \/ Clear(t)
      BY <2>5, AddStepsFill
    <2>6. CASE Resize(t)
      BY <2>6, AddStepsFill, ResizeFill
    <2>7. CASE Add(t) \/ Promote(t)
      BY <2>7, AddFill
    <2> QED BY <1>1, <2>1, <2>2, <2>3, <2>4, <2>5, <2>6, <2>7 DEF Step, InCall
  <1>2. CASE UNCHANGED vars
    <2>1. UNCHANGED <<nodes, call, EntriesCount>>
      BY <1>2 DEF vars
    <2>2. Once' /\ Grow' /\ EntriesCount' \in Nat
      BY <2>1 DEF FillInv, Once, Grow, Slots
    <2>3. ASSUME NEW num \in [Keys -> Int], Numbering(num) PROVE Numbering(num)'
      BY <2>1, <2>3 DEF Numbering, Numbered, Numbers, Absent, Slots, Within, Limit, Half
    <2> QED BY <2>2, <2>3 DEF FillInv
  <1> QED BY <1>1, <1>2 DEF Next

\* "If there is enough space, add the new entry": no table ever fills up, however
\* many threads add keys of their own at once, although copies of entries are not
\* counted and a call that enlarges the tables may forget its count.  A table has
\* only as many calls that forgot theirs as there are tables before it, and that
\* is less than the quarter of it that is kept free, if the first has 4 slots.
THEOREM NeverFull ==
    ASSUME KeysAreOwn, INITIAL_HASH_SIZE >= 4
    PROVE  Spec => []ProbesEnd
  <1>1. Init => FillInv
    BY InitFill
  <1>2. IndInv /\ FillInv /\ [Next]_vars => FillInv'
    BY NextFill
  <1>3. IndInv /\ FillInv => ProbesEnd
    BY NotFull
  <1> QED BY <1>1, <1>2, <1>3, AlwaysInd, PTL DEF Spec
=============================================================================
