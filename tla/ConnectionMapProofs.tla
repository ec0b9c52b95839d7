------------------------- MODULE ConnectionMapProofs -------------------------
(***************************************************************************)
(* Proofs about the connection map (ConnectionMap) and its hash tables     *)
(* (HashTable), for every set of addresses, every hash of the addresses,   *)
(* every capacity and any number of growths that fail.                     *)
(*                                                                         *)
(* Everything rests on TableOK: between the hash of a key and its slot no  *)
(* slot is free, no key has two slots, and the counters are exact.  It is  *)
(* shown of a new table, of an insertion, a removal and a growth; then of  *)
(* the two tables of the map together.                                     *)
(***************************************************************************)
EXTENDS ConnectionMap, FiniteSetTheorems, FunctionTheorems,
        WellFoundedInduction, NaturalsInduction, TLAPS

-----------------------------------------------------------------------------
(* Numbers.                                                                *)

\* A set of natural numbers that is not empty has a least element.
LEMMA Smallest ==
    ASSUME NEW T, T \subseteq Nat, T # {}
    PROVE  \E n \in T : \A k \in T : n <= k
<1> DEFINE R == {p \in Nat \X Nat : p[1] < p[2]}
<1>1. IsWellFoundedOn(R, Nat)
  BY NatLessThanWellFounded DEF OpToRel
<1>2. \A x, y \in Nat : y < x => <<y, x>> \in R
  OBVIOUS
<1> HIDE DEF R
<1>3. PICK n \in T : \A k \in T : ~(<<k, n>> \in R)
  BY <1>1, WFMin
<1>4. ASSUME NEW k \in T PROVE n <= k
  <2>1. n \in Nat /\ k \in Nat /\ ~(k < n)
    BY <1>2, <1>3
  <2>2. QED BY <2>1
<1>5. QED BY <1>4

\* Least(S) is the least element of S.
LEMMA LeastOK ==
    ASSUME NEW S, S \subseteq Nat, S # {}
    PROVE  Least(S) \in S /\ \A e \in S : Least(S) <= e
BY Smallest DEF Least

\* A probe stays inside the array.
LEMMA ProbeRange ==
    ASSUME NEW n \in Nat \ {0}, NEW h \in Nat, NEW d \in Nat
    PROVE  (h + d) % n \in 0 .. n - 1
BY SMT

\* So do the probes before it.
LEMMA PathInside ==
    ASSUME NEW n \in Nat \ {0}, NEW h \in Nat, NEW d \in Nat
    PROVE  \A e \in 0 .. d - 1 : (h + e) % n \in 0 .. n - 1
<1> TAKE e \in 0 .. d - 1
<1>1. e \in Nat
  OBVIOUS
<1>2. QED BY <1>1, ProbeRange

\* Probing from any hash comes to every slot within one lap.
LEMMA ProbeReaches ==
    ASSUME NEW n \in Nat \ {0}, NEW h \in Nat, NEW i \in 0 .. n - 1
    PROVE  \E d \in 0 .. n - 1 : (h + d) % n = i
<1> DEFINE r == h % n
           q == h \div n
<1>1. r \in 0 .. n - 1 /\ q \in Nat /\ h = n * q + r
  BY SMT
<1> HIDE DEF r, q
<1>2. CASE i >= r
  <2>1. i - r \in 0 .. n - 1 /\ h + (i - r) = n * q + i
    BY <1>1, <1>2, SMT
  <2>2. (n * q + i) % n = i
    BY <1>1, SMT
  <2>3. QED BY <2>1, <2>2
<1>3. CASE i < r
  <2>1. i + n - r \in 0 .. n - 1 /\ h + (i + n - r) = n * (q + 1) + i
    BY <1>1, <1>3, SMT
  <2>2. (n * (q + 1) + i) % n = i
    BY <1>1, SMT
  <2>3. QED BY <2>1, <2>2
<1>4. QED BY <1>1, <1>2, <1>3
-----------------------------------------------------------------------------
(* Slots and tables.                                                       *)

\* The three kinds of slots are told apart as the code does.
LEMMA SlotKinds ==
    /\ ~Empty.occupied /\ Tombstone.occupied /\ Empty # Tombstone
    /\ \A k, v : /\ Used(k, v).occupied /\ Used(k, v).key = k /\ Used(k, v).value = v
                 /\ Used(k, v) # Empty /\ Used(k, v) # Tombstone
<1>1. ~Empty.occupied /\ Tombstone.occupied
  BY DEF Empty, Tombstone
<1>2. ASSUME NEW k, NEW v
      PROVE  Used(k, v).occupied /\ ~Used(k, v).deleted /\ Used(k, v).key = k /\ Used(k, v).value = v
  BY DEF Used
<1>3. Tombstone.deleted
  BY DEF Tombstone
<1>4. QED BY <1>1, <1>2, <1>3

\* Assigning the value of a used slot.
LEMMA UsedUpdate ==
    ASSUME NEW k, NEW v, NEW w
    PROVE  [Used(k, v) EXCEPT !.value = w] = Used(k, w)
<1> DEFINE r == Used(k, v)
<1>1. r = [occupied |-> r.occupied, deleted |-> r.deleted, key |-> r.key, value |-> r.value]
  BY DEF Used
<1>2. r.occupied = TRUE /\ r.deleted = FALSE /\ r.key = k
  BY DEF Used
<1> HIDE DEF r
<1>3. [r EXCEPT !.value = w] =
         [occupied |-> r.occupied, deleted |-> r.deleted, key |-> r.key, value |-> w]
  BY <1>1
<1>4. QED BY <1>2, <1>3, Zenon DEF Used, r

\* The slots of a table with keys in K and values in V.
SlotSet(K, V) == {Empty, Tombstone} \cup {Used(k, v) : k \in K, v \in V}

\* Slot i of the n slots S holds key k and value v; some slot does.
Holds(S, i, k, v) == S[i] = Used(k, v)
Stored(S, n, k, v) == \E i \in 0 .. n - 1 : Holds(S, i, k, v)

\* What probing relies on: on the way from the hash of a key to its slot no
\* slot is empty, and no key has two slots.
Chained(S, n, hash, K, V) ==
    \A i \in 0 .. n - 1, k \in K, v \in V :
        Holds(S, i, k, v) =>
            \E d \in 0 .. n - 1 : /\ (hash[k] + d) % n = i
                                  /\ \A e \in 0 .. d - 1 : S[(hash[k] + e) % n] # Empty

Unique(S, n, K, V) ==
    \A i, j \in 0 .. n - 1, k \in K, v, w \in V :
        Holds(S, i, k, v) /\ Holds(S, j, k, w) => i = j

SlotsOK(S, n, hash, K, V) ==
    /\ S \in [0 .. n - 1 -> SlotSet(K, V)]
    /\ Chained(S, n, hash, K, V)
    /\ Unique(S, n, K, V)

\* The used slots and the tombstones among the n slots S.
UsedIn(S, n) == {i \in 0 .. n - 1 : S[i] \notin {Empty, Tombstone}}
BuriedIn(S, n) == {i \in 0 .. n - 1 : S[i] = Tombstone}

\* Changing one of n slots to x.
Changed(S, T, n, j, x) ==
    /\ T[j] = x
    /\ \A i \in 0 .. n - 1 : i # j => T[i] = S[i]

\* A slot is free, a tombstone, or holds a key and a value.
LEMMA SlotCases ==
    ASSUME NEW K, NEW V, NEW x \in SlotSet(K, V)
    PROVE  x = Empty \/ x = Tombstone \/ \E k \in K, v \in V : x = Used(k, v)
BY DEF SlotSet

\* A used slot holds one key and one value.
LEMMA UsedOnce ==
    ASSUME NEW k, NEW v, NEW l, NEW w, Used(k, v) = Used(l, w)
    PROVE  k = l /\ v = w
<1>1. Used(k, v).key = k /\ Used(k, v).value = v /\ Used(l, w).key = l /\ Used(l, w).value = w
  BY SlotKinds
<1>2. QED BY <1>1

\* A key that is not there is put where probing for it may end.
PlaceAt(S, T, n, hash, K, V, k, v, d, j) ==
    /\ n \in Nat \ {0} /\ hash \in [K -> Nat] /\ SlotsOK(S, n, hash, K, V)
    /\ k \in K /\ v \in V /\ d \in 0 .. n - 1 /\ j = (hash[k] + d) % n
    /\ S[j] \in {Empty, Tombstone}
    /\ \A e \in 0 .. d - 1 : S[(hash[k] + e) % n] # Empty
    /\ \A w \in V : ~Stored(S, n, k, w)
    /\ T \in [0 .. n - 1 -> SlotSet(K, V)] /\ Changed(S, T, n, j, Used(k, v))

LEMMA PlaceOK ==
    ASSUME NEW S, NEW T, NEW n, NEW hash, NEW K, NEW V, NEW k, NEW v, NEW d, NEW j,
           PlaceAt(S, T, n, hash, K, V, k, v, d, j)
    PROVE  /\ SlotsOK(T, n, hash, K, V)
           /\ j \in 0 .. n - 1
           /\ UsedIn(T, n) = UsedIn(S, n) \cup {j} /\ j \notin UsedIn(S, n)
           /\ BuriedIn(T, n) = BuriedIn(S, n) \ {j}
           /\ \A l \in K, w \in V :
                 Stored(T, n, l, w) <=> IF l = k THEN w = v ELSE Stored(S, n, l, w)
<1> /\ n \in Nat \ {0} /\ hash \in [K -> Nat] /\ SlotsOK(S, n, hash, K, V)
    /\ k \in K /\ v \in V /\ d \in 0 .. n - 1 /\ j = (hash[k] + d) % n
    /\ S[j] \in {Empty, Tombstone}
    /\ \A e \in 0 .. d - 1 : S[(hash[k] + e) % n] # Empty
    /\ \A w \in V : ~Stored(S, n, k, w)
    /\ T \in [0 .. n - 1 -> SlotSet(K, V)] /\ Changed(S, T, n, j, Used(k, v))
  BY DEF PlaceAt
<1>1. hash[k] \in Nat /\ d \in Nat
  OBVIOUS
<1>2. j \in 0 .. n - 1
  BY <1>1, ProbeRange
<1>3. /\ T[j] = Used(k, v) /\ \A i \in 0 .. n - 1 : i # j => T[i] = S[i]
      /\ Used(k, v) # Empty /\ Used(k, v) # Tombstone
  BY SlotKinds DEF Changed
<1>4. \A l, w : ~Holds(S, j, l, w)
  BY SlotKinds DEF Holds
<1>5. \A i \in 0 .. n - 1, w \in V : ~Holds(S, i, k, w)
  BY DEF Stored
<1>6. ASSUME NEW l, NEW w, Holds(T, j, l, w) PROVE l = k /\ w = v
  <2>1. Used(k, v) = Used(l, w)
    BY <1>3, <1>6 DEF Holds
  <2>2. QED BY <2>1, UsedOnce
<1>7. \A i \in 0 .. n - 1 : i # j => \A l, w : Holds(T, i, l, w) <=> Holds(S, i, l, w)
  BY <1>3 DEF Holds
<1>8. \A i \in 0 .. n - 1 : S[i] # Empty => T[i] # Empty
  BY <1>3
<1>9. Chained(T, n, hash, K, V)
  <2> SUFFICES ASSUME NEW i \in 0 .. n - 1, NEW l \in K, NEW w \in V, Holds(T, i, l, w)
               PROVE  \E c \in 0 .. n - 1 : /\ (hash[l] + c) % n = i
                                            /\ \A e \in 0 .. c - 1 : T[(hash[l] + e) % n] # Empty
    BY DEF Chained
  <2>1. CASE i = j
    <3>1. l = k
      BY <1>6, <2>1
    <3>2. \A e \in 0 .. d - 1 : (hash[k] + e) % n \in 0 .. n - 1
      BY <1>1, PathInside
    <3>3. QED BY <1>8, <2>1, <3>1, <3>2
  <2>2. CASE i # j
    <3>1. Holds(S, i, l, w)
      BY <1>7, <2>2
    <3>2. PICK c \in 0 .. n - 1 : /\ (hash[l] + c) % n = i
                                  /\ \A e \in 0 .. c - 1 : S[(hash[l] + e) % n] # Empty
      BY <3>1 DEF SlotsOK, Chained
    <3>3. \A e \in 0 .. c - 1 : (hash[l] + e) % n \in 0 .. n - 1
      BY PathInside
    <3>4. QED BY <1>8, <3>2, <3>3
  <2>3. QED BY <2>1, <2>2
<1>10. Unique(T, n, K, V)
  <2>1. \A a, b \in 0 .. n - 1, l \in K, u, w \in V :
          Holds(S, a, l, u) /\ Holds(S, b, l, w) => a = b
    BY DEF SlotsOK, Unique
  <2>2. ASSUME NEW a \in 0 .. n - 1, NEW b \in 0 .. n - 1, NEW l \in K, NEW u \in V, NEW w \in V,
               Holds(T, a, l, u), Holds(T, b, l, w)
        PROVE  a = b
    <3>1. CASE a # j /\ b # j
      BY <1>7, <2>1, <2>2, <3>1
    <3>2. CASE a = j /\ b # j
      BY <1>5, <1>6, <1>7, <2>2, <3>2
    <3>3. CASE a # j /\ b = j
      BY <1>5, <1>6, <1>7, <2>2, <3>3
    <3>4. QED BY <3>1, <3>2, <3>3
  <2>3. QED BY <2>2 DEF Unique
<1>11. UsedIn(T, n) = UsedIn(S, n) \cup {j} /\ j \notin UsedIn(S, n)
  BY <1>2, <1>3 DEF UsedIn
<1>12. BuriedIn(T, n) = BuriedIn(S, n) \ {j}
  BY <1>2, <1>3 DEF BuriedIn
<1>13. ASSUME NEW l \in K, NEW w \in V
       PROVE  Stored(T, n, l, w) <=> IF l = k THEN w = v ELSE Stored(S, n, l, w)
  <2>1. Holds(T, j, k, v)
    BY <1>3 DEF Holds
  <2>2. CASE l = k
    <3>1. ASSUME Stored(T, n, l, w) PROVE w = v
      <4>1. PICK i \in 0 .. n - 1 : Holds(T, i, k, w)
        BY <2>2, <3>1 DEF Stored
      <4>2. i = j
        BY <1>5, <1>7, <4>1
      <4>3. QED BY <1>6, <4>1, <4>2
    <3>2. w = v => Stored(T, n, l, w)
      BY <1>2, <2>1, <2>2 DEF Stored
    <3>3. QED BY <2>2, <3>1, <3>2
  <2>3. CASE l # k
    <3>1. \A i \in 0 .. n - 1 : Holds(T, i, l, w) <=> Holds(S, i, l, w)
      BY <1>4, <1>6, <1>7, <2>3
    <3>2. QED BY <2>3, <3>1 DEF Stored
  <2>4. QED BY <2>2, <2>3
<1>14. QED BY <1>2, <1>9, <1>10, <1>11, <1>12, <1>13 DEF SlotsOK

\* The value of a key that is there is replaced, or the key is buried.
ReplaceAt(S, T, n, hash, K, V, k, u, j, x) ==
    /\ n \in Nat \ {0} /\ hash \in [K -> Nat] /\ SlotsOK(S, n, hash, K, V)
    /\ k \in K /\ u \in V /\ j \in 0 .. n - 1 /\ Holds(S, j, k, u)
    /\ x \in {Used(k, v) : v \in V} \cup {Tombstone}
    /\ T \in [0 .. n - 1 -> SlotSet(K, V)] /\ Changed(S, T, n, j, x)

LEMMA ReplaceOK ==
    ASSUME NEW S, NEW T, NEW n, NEW hash, NEW K, NEW V, NEW k, NEW u, NEW j, NEW x,
           ReplaceAt(S, T, n, hash, K, V, k, u, j, x)
    PROVE  /\ SlotsOK(T, n, hash, K, V)
           /\ j \in UsedIn(S, n) /\ j \notin BuriedIn(S, n)
           /\ \A l \in K, w \in V :
                 Stored(T, n, l, w) <=> IF l = k THEN x = Used(k, w) ELSE Stored(S, n, l, w)
           /\ x # Tombstone => UsedIn(T, n) = UsedIn(S, n) /\ BuriedIn(T, n) = BuriedIn(S, n)
           /\ x = Tombstone => /\ UsedIn(T, n) = UsedIn(S, n) \ {j}
                               /\ BuriedIn(T, n) = BuriedIn(S, n) \cup {j}
<1> /\ n \in Nat \ {0} /\ hash \in [K -> Nat] /\ SlotsOK(S, n, hash, K, V)
    /\ k \in K /\ u \in V /\ j \in 0 .. n - 1 /\ Holds(S, j, k, u)
    /\ x \in {Used(k, v) : v \in V} \cup {Tombstone}
    /\ T \in [0 .. n - 1 -> SlotSet(K, V)] /\ Changed(S, T, n, j, x)
  BY DEF ReplaceAt
<1>1. /\ T[j] = x /\ \A i \in 0 .. n - 1 : i # j => T[i] = S[i]
      /\ S[j] = Used(k, u) /\ Empty # Tombstone
      /\ \A l, w : Used(l, w) # Empty /\ Used(l, w) # Tombstone
  BY SlotKinds DEF Changed, Holds
<1>2. x # Empty /\ \A l \in K, w \in V : x = Used(l, w) => l = k
  BY <1>1, UsedOnce
<1>3. \A i \in 0 .. n - 1 : i # j => \A l, w : Holds(T, i, l, w) <=> Holds(S, i, l, w)
  BY <1>1 DEF Holds
<1>4. \A l \in K, w \in V : Holds(T, j, l, w) <=> l = k /\ x = Used(k, w)
  BY <1>1, <1>2 DEF Holds
<1>5. \A a, b \in 0 .. n - 1, l \in K, v, w \in V :
         Holds(S, a, l, v) /\ Holds(S, b, l, w) => a = b
  BY DEF SlotsOK, Unique
<1>6. \A i \in 0 .. n - 1 : S[i] # Empty => T[i] # Empty
  BY <1>1, <1>2
<1>7. Chained(T, n, hash, K, V)
  <2> SUFFICES ASSUME NEW i \in 0 .. n - 1, NEW l \in K, NEW w \in V, Holds(T, i, l, w)
               PROVE  \E c \in 0 .. n - 1 : /\ (hash[l] + c) % n = i
                                            /\ \A e \in 0 .. c - 1 : T[(hash[l] + e) % n] # Empty
    BY DEF Chained
  <2>1. \E y \in V : Holds(S, i, l, y)
    BY <1>3, <1>4
  <2>2. PICK c \in 0 .. n - 1 : /\ (hash[l] + c) % n = i
                                /\ \A e \in 0 .. c - 1 : S[(hash[l] + e) % n] # Empty
    BY <2>1 DEF SlotsOK, Chained
  <2>3. \A e \in 0 .. c - 1 : (hash[l] + e) % n \in 0 .. n - 1
    BY PathInside
  <2>4. QED BY <1>6, <2>2, <2>3
<1>8. Unique(T, n, K, V)
  BY <1>3, <1>4, <1>5 DEF Unique
<1>9. j \in UsedIn(S, n) /\ j \notin BuriedIn(S, n)
  BY <1>1 DEF UsedIn, BuriedIn
<1>10. ASSUME NEW l \in K, NEW w \in V
       PROVE  Stored(T, n, l, w) <=> IF l = k THEN x = Used(k, w) ELSE Stored(S, n, l, w)
  <2>1. CASE l = k
    BY <1>3, <1>4, <1>5, <2>1 DEF Stored
  <2>2. CASE l # k
    <3>1. ~Holds(S, j, l, w)
      BY <1>1, <2>2, UsedOnce DEF Holds
    <3>2. QED BY <1>3, <1>4, <2>2, <3>1 DEF Stored
  <2>3. QED BY <2>1, <2>2
<1>11. x # Tombstone => UsedIn(T, n) = UsedIn(S, n) /\ BuriedIn(T, n) = BuriedIn(S, n)
  BY <1>1, <1>2 DEF UsedIn, BuriedIn
<1>12. x = Tombstone => /\ UsedIn(T, n) = UsedIn(S, n) \ {j}
                        /\ BuriedIn(T, n) = BuriedIn(S, n) \cup {j}
  BY <1>1 DEF UsedIn, BuriedIn
<1>13. QED BY <1>7, <1>8, <1>9, <1>10, <1>11, <1>12 DEF SlotsOK
-----------------------------------------------------------------------------
(* Lookups.                                                                *)

\* A table whose counters agree with its slots.
TableOK(t, hash, K, V) ==
    /\ t = [capacity |-> t.capacity, slots |-> t.slots, count |-> t.count, tombstones |-> t.tombstones]
    /\ t.capacity \in Nat \ {0}
    /\ SlotsOK(t.slots, t.capacity, hash, K, V)
    /\ t.count = Cardinality(LiveSlots(t))
    /\ t.tombstones = Cardinality(DeadSlots(t))

\* The table holds key k with value v; it holds k.
Maps(t, k, v) == Stored(t.slots, t.capacity, k, v)
HasKey(t, k, V) == \E v \in V : Maps(t, k, v)

\* The slots of a table are those of its array.
LEMMA TableSlots ==
    ASSUME NEW t, NEW hash, NEW K, NEW V, TableOK(t, hash, K, V)
    PROVE  /\ DOMAIN t.slots = 0 .. t.capacity - 1
           /\ \A i \in 0 .. t.capacity - 1 : t.slots[i] \in SlotSet(K, V)
           /\ LiveSlots(t) = UsedIn(t.slots, t.capacity)
           /\ DeadSlots(t) = BuriedIn(t.slots, t.capacity)
BY DEF TableOK, SlotsOK, LiveSlots, DeadSlots, UsedIn, BuriedIn

\* Where probing ends.
LEMMA ProbeOK ==
    ASSUME NEW t, t.capacity \in Nat, NEW h, NEW k
    PROVE  LET p == Probe(t, h, k)
           IN  /\ p \in 0 .. t.capacity /\ Stops(t, h, k, p)
               /\ \A e \in 0 .. p - 1 : ~Stops(t, h, k, e)
<1> DEFINE D == {d \in 0 .. t.capacity : Stops(t, h, k, d)}
<1>1. t.capacity \in D
  BY DEF Stops
<1>2. PICK d \in D : \A e \in D : d <= e
  <2>1. D \subseteq Nat /\ D # {}
    BY <1>1
  <2>2. QED BY <2>1, Smallest
<1>3. d \in 0 .. t.capacity /\ Stops(t, h, k, d)
  OBVIOUS
<1>4. ASSUME NEW e \in 0 .. d - 1 PROVE ~Stops(t, h, k, e)
  <2>1. e \in 0 .. t.capacity /\ ~(d <= e)
    BY <1>3
  <2>2. QED BY <1>2, <2>1
<1>5. \E c \in 0 .. t.capacity : Stops(t, h, k, c) /\ \A e \in 0 .. c - 1 : ~Stops(t, h, k, e)
  BY <1>3, <1>4
<1>6. QED BY <1>5 DEF Probe

\* What stops a probe, and what does not, at a distance within the array.
LEMMA StopCases ==
    ASSUME NEW t, NEW K, NEW V, NEW hash \in [K -> Nat],
           TableOK(t, hash, K, V), NEW k \in K, NEW d \in 0 .. t.capacity - 1
    PROVE  LET i == At(t, hash[k], d)
           IN  /\ i \in 0 .. t.capacity - 1
               /\ t.slots[i].occupied <=> t.slots[i] # Empty
               /\ Stops(t, hash[k], k, d) <=>
                     t.slots[i] = Empty \/ \E v \in V : Holds(t.slots, i, k, v)
<1> DEFINE i == At(t, hash[k], d)
<1>1. i \in 0 .. t.capacity - 1
  BY ProbeRange DEF At, TableOK
<1>2. d # t.capacity
  BY DEF TableOK
<1>3. Stops(t, hash[k], k, d) <=>
         ~t.slots[i].occupied \/ (t.slots[i] # Tombstone /\ t.slots[i].key = k)
  BY <1>2 DEF Stops
<1> HIDE DEF i
<1>4. t.slots[i] \in SlotSet(K, V)
  BY <1>1, TableSlots
<1>5. CASE t.slots[i] = Empty
  BY <1>1, <1>3, <1>5, SlotKinds DEF i
<1>6. CASE t.slots[i] = Tombstone
  BY <1>1, <1>3, <1>6, SlotKinds DEF Holds, i
<1>7. CASE \E l \in K, v \in V : t.slots[i] = Used(l, v)
  <2>1. PICK l \in K, v \in V : t.slots[i] = Used(l, v)
    BY <1>7
  <2>2. t.slots[i] # Empty /\ t.slots[i] # Tombstone /\ t.slots[i].occupied /\ t.slots[i].key = l
    BY <2>1, SlotKinds
  <2>3. (\E w \in V : Holds(t.slots, i, k, w)) <=> l = k
    BY <2>1, UsedOnce DEF Holds
  <2>4. QED BY <1>1, <1>3, <2>2, <2>3 DEF i
<1>8. QED BY <1>4, <1>5, <1>6, <1>7, SlotCases

\* A key that is in the table is found in its slot.
LEMMA Found ==
    ASSUME NEW t, NEW K, NEW V, NEW hash \in [K -> Nat],
           TableOK(t, hash, K, V), NEW k \in K, NEW v \in V,
           NEW i \in 0 .. t.capacity - 1, Holds(t.slots, i, k, v)
    PROVE  Has(t, hash[k], k) /\ Find(t, hash[k], k) = i /\ Get(t, hash[k], k) = v
<1> DEFINE p == Probe(t, hash[k], k)
<1>1. t.capacity \in Nat \ {0} /\ SlotsOK(t.slots, t.capacity, hash, K, V)
  BY DEF TableOK
<1>2. /\ p \in 0 .. t.capacity /\ Stops(t, hash[k], k, p)
      /\ \A e \in 0 .. p - 1 : ~Stops(t, hash[k], k, e)
  BY <1>1, ProbeOK
<1> HIDE DEF p
<1>3. PICK d \in 0 .. t.capacity - 1 :
         /\ (hash[k] + d) % t.capacity = i
         /\ \A e \in 0 .. d - 1 : t.slots[(hash[k] + e) % t.capacity] # Empty
  BY <1>1 DEF SlotsOK, Chained
<1>4. At(t, hash[k], d) = i /\ \A e \in 0 .. d - 1 : t.slots[At(t, hash[k], e)] # Empty
  BY <1>3 DEF At
<1>5. Stops(t, hash[k], k, d)
  BY <1>4, StopCases
<1>6. p <= d /\ p \in 0 .. t.capacity - 1
  BY <1>1, <1>2, <1>5
<1> DEFINE j == At(t, hash[k], p)
<1>7. j \in 0 .. t.capacity - 1 /\ t.slots[j] # Empty
  <2>1. CASE p = d
    BY <1>4, <2>1, SlotKinds DEF Holds
  <2>2. CASE p # d
    <3>1. p \in 0 .. d - 1
      BY <1>1, <1>6, <2>2
    <3>2. QED BY <1>4, <1>6, <3>1, StopCases
  <2>3. QED BY <2>1, <2>2
<1>8. PICK w \in V : Holds(t.slots, j, k, w)
  BY <1>2, <1>6, <1>7, StopCases
<1>9. t.slots[j].occupied
  BY <1>6, <1>7, StopCases
<1> HIDE DEF j
<1>10. j = i
  BY <1>1, <1>7, <1>8 DEF SlotsOK, Unique
<1>11. Find(t, hash[k], k) = i
  BY <1>10 DEF Find, j, p
<1>12. t.slots[i].value = v
  BY SlotKinds DEF Holds
<1>13. p < t.capacity
  BY <1>1, <1>6
<1>14. QED BY <1>9, <1>11, <1>12, <1>13 DEF Has, Get, j, p

\* A key that is not in the table is not found: the probe ends at an empty
\* slot or has gone all the way round, past slots in use and tombstones.
LEMMA NotFound ==
    ASSUME NEW t, NEW K, NEW V, NEW hash \in [K -> Nat],
           TableOK(t, hash, K, V), NEW k \in K, ~HasKey(t, k, V)
    PROVE  LET p == Probe(t, hash[k], k)
           IN  /\ ~Has(t, hash[k], k)
               /\ p \in 0 .. t.capacity
               /\ p < t.capacity => t.slots[At(t, hash[k], p)] = Empty
               /\ \A e \in 0 .. p - 1 : t.slots[At(t, hash[k], e)] # Empty
<1> DEFINE p == Probe(t, hash[k], k)
<1>1. t.capacity \in Nat \ {0}
  BY DEF TableOK
<1>2. /\ p \in 0 .. t.capacity /\ Stops(t, hash[k], k, p)
      /\ \A e \in 0 .. p - 1 : ~Stops(t, hash[k], k, e)
  BY <1>1, ProbeOK
<1> HIDE DEF p
<1>3. \A i \in 0 .. t.capacity - 1, v \in V : ~Holds(t.slots, i, k, v)
  BY DEF HasKey, Maps, Stored
<1>4. ASSUME p < t.capacity
      PROVE  t.slots[At(t, hash[k], p)] = Empty /\ ~t.slots[At(t, hash[k], p)].occupied
  <2>1. p \in 0 .. t.capacity - 1
    BY <1>1, <1>2, <1>4
  <2>2. QED BY <1>2, <1>3, <2>1, StopCases
<1>5. ASSUME NEW e \in 0 .. p - 1 PROVE t.slots[At(t, hash[k], e)] # Empty
  <2>1. e \in 0 .. t.capacity - 1
    BY <1>1, <1>2
  <2>2. QED BY <1>2, <2>1, StopCases
<1>6. ~Has(t, hash[k], k)
  BY <1>4 DEF Has, p
<1>7. QED BY <1>2, <1>4, <1>5, <1>6 DEF p
-----------------------------------------------------------------------------
(* Operations on a table.                                                  *)

\* The counters are natural numbers, and together they count the slots that
\* were used once.
LEMMA TableCounts ==
    ASSUME NEW t, NEW K, NEW V, NEW hash, TableOK(t, hash, K, V)
    PROVE  /\ IsFiniteSet(LiveSlots(t)) /\ IsFiniteSet(DeadSlots(t))
           /\ t.count \in Nat /\ t.tombstones \in Nat /\ t.capacity \in Nat \ {0}
           /\ LiveSlots(t) \cup DeadSlots(t) \subseteq 0 .. t.capacity - 1
           /\ t.count + t.tombstones = Cardinality(LiveSlots(t) \cup DeadSlots(t))
           /\ IsFiniteSet(0 .. t.capacity - 1) /\ Cardinality(0 .. t.capacity - 1) = t.capacity
<1>1. t.capacity \in Nat \ {0} /\ t.count = Cardinality(LiveSlots(t)) /\ t.tombstones = Cardinality(DeadSlots(t))
  BY DEF TableOK
<1>2. LiveSlots(t) \subseteq 0 .. t.capacity - 1 /\ DeadSlots(t) \subseteq 0 .. t.capacity - 1
  BY TableSlots DEF UsedIn, BuriedIn
<1>3. IsFiniteSet(0 .. t.capacity - 1) /\ Cardinality(0 .. t.capacity - 1) = t.capacity
  <2>1. 0 \in Int /\ t.capacity - 1 \in Int /\ ~(0 > t.capacity - 1) /\ (t.capacity - 1) - 0 + 1 = t.capacity
    BY <1>1
  <2>2. QED BY <2>1, FS_Interval, Zenon
<1>4. IsFiniteSet(LiveSlots(t)) /\ IsFiniteSet(DeadSlots(t))
  BY <1>2, <1>3, FS_Subset
<1>5. t.count \in Nat /\ t.tombstones \in Nat
  BY <1>1, <1>4, FS_CardinalityType
<1>6. LiveSlots(t) \cap DeadSlots(t) = {}
  BY DEF LiveSlots, DeadSlots
<1>7. Cardinality(LiveSlots(t) \cap DeadSlots(t)) = 0
  BY <1>6, FS_EmptySet
<1>8. Cardinality(LiveSlots(t) \cup DeadSlots(t)) = t.count + t.tombstones - 0
  BY <1>1, <1>4, <1>7, FS_Union
<1>9. t.count + t.tombstones - 0 = t.count + t.tombstones
  BY <1>5
<1>10. QED BY <1>1, <1>2, <1>3, <1>4, <1>5, <1>8, <1>9

\* krs_connection_map_create: a new table is empty.
LEMMA NewTableOK ==
    ASSUME NEW c \in Nat \ {0}, NEW K, NEW V, NEW hash
    PROVE  /\ TableOK(NewTable(c), hash, K, V)
           /\ NewTable(c).capacity = c /\ NewTable(c).count = 0 /\ NewTable(c).tombstones = 0
           /\ NewTable(c).slots = [i \in 0 .. c - 1 |-> Empty]
           /\ \A k, v : ~Maps(NewTable(c), k, v)
<1> DEFINE t == NewTable(c)
<1>1. /\ t = [capacity |-> t.capacity, slots |-> t.slots, count |-> t.count, tombstones |-> t.tombstones]
      /\ t.capacity = c /\ t.count = 0 /\ t.tombstones = 0
      /\ t.slots = [i \in 0 .. c - 1 |-> Empty]
  BY DEF NewTable
<1> HIDE DEF t
<1>2. DOMAIN t.slots = 0 .. c - 1 /\ \A i \in 0 .. c - 1 : t.slots[i] = Empty
  BY <1>1
<1>3. \A i \in 0 .. c - 1 : \A k, v : ~Holds(t.slots, i, k, v)
  BY <1>2, SlotKinds DEF Holds
<1>4. t.slots \in [0 .. c - 1 -> SlotSet(K, V)]
  BY <1>1 DEF SlotSet
<1>5. SlotsOK(t.slots, c, hash, K, V)
  BY <1>3, <1>4 DEF SlotsOK, Chained, Unique
<1>6. LiveSlots(t) = {} /\ DeadSlots(t) = {}
  BY <1>2, SlotKinds DEF LiveSlots, DeadSlots
<1>7. Cardinality(LiveSlots(t)) = 0 /\ Cardinality(DeadSlots(t)) = 0
  BY <1>6, FS_EmptySet
<1>8. TableOK(t, hash, K, V)
  BY <1>1, <1>5, <1>7 DEF TableOK
<1>9. \A k, v : ~Maps(t, k, v)
  BY <1>1, <1>3 DEF Maps, Stored
<1>10. QED BY <1>1, <1>8, <1>9 DEF t

\* A table whose slots and counters are assigned.
LEMMA TableParts ==
    ASSUME NEW c, NEW S, NEW m, NEW b, NEW u,
           u = [capacity |-> c, slots |-> S, count |-> m, tombstones |-> b]
    PROVE  /\ u.capacity = c /\ u.slots = S /\ u.count = m /\ u.tombstones = b
           /\ u = [capacity |-> u.capacity, slots |-> u.slots, count |-> u.count,
                   tombstones |-> u.tombstones]
OBVIOUS

\* The counters of a table follow its used and buried slots.
LEMMA TableFrom ==
    ASSUME NEW c \in Nat \ {0}, NEW S, NEW m, NEW b, NEW u,
           u = [capacity |-> c, slots |-> S, count |-> m, tombstones |-> b],
           NEW K, NEW V, NEW hash, SlotsOK(S, c, hash, K, V),
           m = Cardinality(UsedIn(S, c)), b = Cardinality(BuriedIn(S, c))
    PROVE  TableOK(u, hash, K, V) /\ \A k, v : Maps(u, k, v) <=> Stored(S, c, k, v)
<1>1. /\ u.capacity = c /\ u.slots = S /\ u.count = m /\ u.tombstones = b
      /\ u = [capacity |-> u.capacity, slots |-> u.slots, count |-> u.count, tombstones |-> u.tombstones]
  BY TableParts
<1>2. DOMAIN u.slots = 0 .. c - 1
  BY <1>1 DEF SlotsOK
<1>3. LiveSlots(u) = UsedIn(S, c) /\ DeadSlots(u) = BuriedIn(S, c)
  BY <1>1, <1>2 DEF LiveSlots, DeadSlots, UsedIn, BuriedIn
<1>4. QED BY <1>1, <1>3, Zenon DEF TableOK, Maps

\* What the assignments of the code do to the fields of a table: the value of
\* a slot is assigned; a slot that was never used is taken.
Fields(t) ==
    t = [capacity |-> t.capacity, slots |-> t.slots, count |-> t.count, tombstones |-> t.tombstones]

LEMMA ValueAssigned ==
    ASSUME NEW t, Fields(t), NEW i, NEW x, NEW u, u = [t EXCEPT !.slots[i].value = x]
    PROVE  u = [capacity |-> t.capacity, slots |-> [t.slots EXCEPT ![i] = [t.slots[i] EXCEPT !.value = x]],
                count |-> t.count, tombstones |-> t.tombstones]
BY DEF Fields

LEMMA SlotTaken ==
    ASSUME NEW t, Fields(t), NEW i, NEW x, NEW m, NEW u, u = [t EXCEPT !.slots[i] = x, !.count = m]
    PROVE  u = [capacity |-> t.capacity, slots |-> [t.slots EXCEPT ![i] = x],
                count |-> m, tombstones |-> t.tombstones]
BY DEF Fields

\* A new key is put in a slot that is free or holds a tombstone.
LEMMA PutAt ==
    ASSUME NEW t, NEW K, NEW V, NEW hash \in [K -> Nat], TableOK(t, hash, K, V),
           NEW k \in K, NEW v \in V, ~HasKey(t, k, V),
           NEW d \in 0 .. t.capacity - 1, NEW j, j = At(t, hash[k], d),
           t.slots[j] \in {Empty, Tombstone},
           \A e \in 0 .. d - 1 : t.slots[At(t, hash[k], e)] # Empty,
           NEW b, b = IF t.slots[j] = Tombstone THEN t.tombstones - 1 ELSE t.tombstones,
           NEW u, u = [capacity |-> t.capacity, slots |-> [t.slots EXCEPT ![j] = Used(k, v)],
                       count |-> t.count + 1, tombstones |-> b]
    PROVE  /\ TableOK(u, hash, K, V) /\ u.capacity = t.capacity
           /\ u.count + u.tombstones <= t.count + t.tombstones + 1
           /\ \A l \in K, w \in V : Maps(u, l, w) <=> IF l = k THEN w = v ELSE Maps(t, l, w)
<1> DEFINE n == t.capacity
           S == t.slots
           T == [S EXCEPT ![j] = Used(k, v)]
<1>1. /\ n \in Nat \ {0} /\ SlotsOK(S, n, hash, K, V) /\ t.count \in Nat /\ t.tombstones \in Nat
      /\ t.count = Cardinality(UsedIn(S, n)) /\ t.tombstones = Cardinality(BuriedIn(S, n))
      /\ IsFiniteSet(UsedIn(S, n)) /\ IsFiniteSet(BuriedIn(S, n))
  BY TableSlots, TableCounts DEF TableOK
<1>2. j = (hash[k] + d) % n /\ \A e \in 0 .. d - 1 : S[(hash[k] + e) % n] # Empty
  BY DEF At
<1>3. j \in 0 .. n - 1
  <2>1. hash[k] \in Nat /\ d \in Nat
    OBVIOUS
  <2>2. QED BY <1>1, <1>2, <2>1, ProbeRange
<1>4. Used(k, v) \in SlotSet(K, V) /\ S \in [0 .. n - 1 -> SlotSet(K, V)]
  BY <1>1 DEF SlotSet, SlotsOK
<1>5. T \in [0 .. n - 1 -> SlotSet(K, V)] /\ Changed(S, T, n, j, Used(k, v))
  BY <1>3, <1>4 DEF Changed
<1>6. \A w \in V : ~Stored(S, n, k, w)
  BY DEF HasKey, Maps
<1> HIDE DEF T
<1>7. S[j] \in {Empty, Tombstone} /\ d \in 0 .. n - 1
  OBVIOUS
<1>8. /\ SlotsOK(T, n, hash, K, V)
      /\ UsedIn(T, n) = UsedIn(S, n) \cup {j} /\ j \notin UsedIn(S, n)
      /\ BuriedIn(T, n) = BuriedIn(S, n) \ {j}
      /\ \A l \in K, w \in V :
            Stored(T, n, l, w) <=> IF l = k THEN w = v ELSE Stored(S, n, l, w)
  <2> HIDE DEF S, n
  <2>1. n \in Nat \ {0} /\ SlotsOK(S, n, hash, K, V)
    BY <1>1
  <2>2. PlaceAt(S, T, n, hash, K, V, k, v, d, j)
    BY <1>2, <1>5, <1>6, <1>7, <2>1 DEF PlaceAt
  <2>3. QED BY <2>2, PlaceOK
<1>9. t.count + 1 = Cardinality(UsedIn(T, n))
  BY <1>1, <1>8, FS_AddElement
<1>10. b = Cardinality(BuriedIn(T, n)) /\ b \in Nat /\ b <= t.tombstones
  <2>1. CASE S[j] = Tombstone
    <3>1. j \in BuriedIn(S, n)
      BY <1>3, <2>1 DEF BuriedIn
    <3>2. Cardinality(BuriedIn(T, n)) = t.tombstones - 1 /\ IsFiniteSet(BuriedIn(T, n))
      <4>1. /\ IsFiniteSet(BuriedIn(S, n) \ {j})
            /\ Cardinality(BuriedIn(S, n) \ {j}) = Cardinality(BuriedIn(S, n)) - 1
        BY <1>1, <3>1, FS_RemoveElement
      <4>2. QED BY <1>1, <1>8, <4>1
    <3>3. b = t.tombstones - 1
      BY <2>1
    <3>4. b \in Nat
      BY <3>2, <3>3, FS_CardinalityType
    <3>5. QED BY <1>1, <3>2, <3>3, <3>4
  <2>2. CASE S[j] # Tombstone
    <3>1. BuriedIn(T, n) = BuriedIn(S, n)
      BY <1>8, <2>2 DEF BuriedIn
    <3>2. QED BY <1>1, <2>2, <3>1
  <2>3. QED BY <2>1, <2>2
<1>11. u = [capacity |-> n, slots |-> T, count |-> t.count + 1, tombstones |-> b]
  BY DEF T
<1>12. TableOK(u, hash, K, V) /\ \A l, w : Maps(u, l, w) <=> Stored(T, n, l, w)
  <2> HIDE DEF S, n
  <2>1. QED BY <1>1, <1>8, <1>9, <1>10, <1>11, TableFrom
<1>13. u.capacity = t.capacity /\ u.count = t.count + 1 /\ u.tombstones = b
  BY <1>11
<1>14. u.count + u.tombstones <= t.count + t.tombstones + 1
  BY <1>1, <1>10, <1>13
<1>15. QED BY <1>8, <1>12, <1>13, <1>14 DEF Maps

\* krs_connection_map_put and s_addr_put: the key has the new value, every other
\* key the value it had.  Some slot must not be live: a table without one
\* would lose the key of the slot that is overwritten.
LEMMA InsertOK ==
    ASSUME NEW t, NEW K, NEW V, NEW hash \in [K -> Nat], TableOK(t, hash, K, V),
           NEW k \in K, NEW v \in V, NEW f \in (0 .. t.capacity - 1) \ LiveSlots(t)
    PROVE  LET u == Insert(t, hash[k], k, v)
           IN  /\ TableOK(u, hash, K, V) /\ u.capacity = t.capacity
               /\ u.count + u.tombstones <= t.count + t.tombstones + 1
               /\ \A l \in K, w \in V : Maps(u, l, w) <=> IF l = k THEN w = v ELSE Maps(t, l, w)
<1> DEFINE n == t.capacity
           S == t.slots
           h == hash[k]
           p == Probe(t, h, k)
           u == Insert(t, h, k, v)
<1>0. Fields(t)
  BY DEF TableOK, Fields
<1>1. /\ n \in Nat \ {0} /\ SlotsOK(S, n, hash, K, V) /\ t.count \in Nat /\ t.tombstones \in Nat
      /\ t.count = Cardinality(UsedIn(S, n)) /\ t.tombstones = Cardinality(BuriedIn(S, n))
      /\ S \in [0 .. n - 1 -> SlotSet(K, V)] /\ h \in Nat
  BY TableSlots, TableCounts DEF TableOK, SlotsOK
<1>2. CASE HasKey(t, k, V)
  <2>1. PICK y \in V, i \in 0 .. n - 1 : Holds(S, i, k, y)
    BY <1>2 DEF HasKey, Maps, Stored
  <2>2. Has(t, h, k) /\ Find(t, h, k) = i
    BY <2>1, Found
  <2>3. u = [t EXCEPT !.slots[i].value = v]
    BY <2>2 DEF Insert
  <2> DEFINE T == [S EXCEPT ![i] = Used(k, v)]
  <2>4. [S[i] EXCEPT !.value = v] = Used(k, v)
    BY <2>1, UsedUpdate DEF Holds
  <2>5. u = [capacity |-> n, slots |-> [S EXCEPT ![i] = [S[i] EXCEPT !.value = v]],
             count |-> t.count, tombstones |-> t.tombstones]
    <3> HIDE DEF u, h
    <3>1. QED BY <1>0, <2>3, ValueAssigned
  <2>6. u = [capacity |-> n, slots |-> T, count |-> t.count, tombstones |-> t.tombstones]
    BY <2>4, <2>5
  <2>7. Used(k, v) \in SlotSet(K, V) /\ Used(k, v) # Tombstone
    BY SlotKinds DEF SlotSet
  <2>8. T \in [0 .. n - 1 -> SlotSet(K, V)] /\ Changed(S, T, n, i, Used(k, v))
    BY <1>1, <2>7 DEF Changed
  <2> HIDE DEF T, S, n, u, h
  <2>9. /\ SlotsOK(T, n, hash, K, V) /\ UsedIn(T, n) = UsedIn(S, n) /\ BuriedIn(T, n) = BuriedIn(S, n)
        /\ \A l \in K, w \in V :
              Stored(T, n, l, w) <=> IF l = k THEN Used(k, v) = Used(k, w) ELSE Stored(S, n, l, w)
    <3>1. n \in Nat \ {0} /\ SlotsOK(S, n, hash, K, V)
      BY <1>1
    <3>2. Used(k, v) \in {Used(k, w) : w \in V} \cup {Tombstone}
      OBVIOUS
    <3>3. QED BY <2>1, <2>7, <2>8, <3>1, <3>2, ReplaceOK DEF ReplaceAt
  <2>10. TableOK(u, hash, K, V) /\ \A l, w : Maps(u, l, w) <=> Stored(T, n, l, w)
    BY <1>1, <2>6, <2>9, TableFrom
  <2>11. u.capacity = n /\ u.count = t.count /\ u.tombstones = t.tombstones
    BY <2>6
  <2>12. u.count + u.tombstones <= t.count + t.tombstones + 1
    BY <1>1, <2>11
  <2>13. \A l \in K, w \in V : Maps(u, l, w) <=> IF l = k THEN w = v ELSE Maps(t, l, w)
    BY <2>9, <2>10, UsedOnce DEF Maps, S, n
  <2>14. QED BY <2>10, <2>11, <2>12, <2>13 DEF u, n, h
<1>3. CASE ~HasKey(t, k, V)
  <2>1. /\ ~Has(t, h, k) /\ p \in 0 .. n
        /\ p < n => S[At(t, h, p)] = Empty
        /\ \A e \in 0 .. p - 1 : S[At(t, h, e)] # Empty
    BY <1>3, NotFound
  <2> HIDE DEF p
  <2>2. DeadSlots(t) = BuriedIn(S, n) /\ LiveSlots(t) = UsedIn(S, n)
    BY TableSlots
  <2>3. CASE Reusable(t, h, k) # {}
    <3> DEFINE d == Least(Reusable(t, h, k))
               j == At(t, h, d)
    <3>1. Reusable(t, h, k) = {e \in 0 .. p - 1 : At(t, h, e) \in DeadSlots(t)}
      BY DEF Reusable, p
    <3>2. Reusable(t, h, k) \subseteq Nat
      BY <2>1, <3>1
    <3>3. d \in Reusable(t, h, k)
      BY <2>3, <3>2, LeastOK
    <3>4. d \in 0 .. p - 1 /\ j \in DeadSlots(t)
      BY <3>1, <3>3
    <3>5. u = [t EXCEPT !.slots[j] = Used(k, v), !.count = @ + 1, !.tombstones = @ - 1]
      BY <2>1, <2>3 DEF Insert
    <3> HIDE DEF d
    <3>6. d \in 0 .. n - 1 /\ \A e \in 0 .. d - 1 : S[At(t, h, e)] # Empty
      <4>1. d \in 0 .. n - 1
        BY <1>1, <2>1, <3>4
      <4>2. ASSUME NEW e \in 0 .. d - 1 PROVE e \in 0 .. p - 1
        BY <2>1, <3>4, <1>1
      <4>3. QED BY <2>1, <4>1, <4>2
    <3> HIDE DEF j
    <3>7. S[j] = Tombstone
      BY <3>4 DEF DeadSlots
    <3>8. u = [capacity |-> n, slots |-> [S EXCEPT ![j] = Used(k, v)],
               count |-> t.count + 1, tombstones |-> t.tombstones - 1]
      <4> DEFINE m == t.count + 1
                 b == t.tombstones - 1
      <4>1. u = [t EXCEPT !.slots[j] = Used(k, v), !.count = m, !.tombstones = b]
        BY <3>5
      <4> HIDE DEF u, h, m, b
      <4>2. u = [capacity |-> n, slots |-> [S EXCEPT ![j] = Used(k, v)], count |-> m, tombstones |-> b]
        BY <1>0, <4>1 DEF Fields
      <4>3. QED BY <4>2 DEF m, b
    <3> HIDE DEF u
    <3>9. j = At(t, hash[k], d)
      BY DEF j
    <3>10. t.tombstones - 1 = IF t.slots[j] = Tombstone THEN t.tombstones - 1 ELSE t.tombstones
      BY <3>7
    <3>11. /\ TableOK(u, hash, K, V) /\ u.capacity = t.capacity
           /\ u.count + u.tombstones <= t.count + t.tombstones + 1
           /\ \A l \in K, w \in V : Maps(u, l, w) <=> IF l = k THEN w = v ELSE Maps(t, l, w)
      BY <1>3, <3>6, <3>7, <3>8, <3>9, <3>10, PutAt
    <3>12. QED BY <3>11 DEF u
  <2>4. CASE Reusable(t, h, k) = {}
    <3> DEFINE j == At(t, h, p)
    <3>1. u = [t EXCEPT !.slots[j] = Used(k, v), !.count = @ + 1]
      BY <2>1, <2>4 DEF Insert, Find, p
    <3>2. p \in 0 .. n - 1
      <4> SUFFICES ASSUME p = n PROVE FALSE
        BY <1>1, <2>1
      <4>1. PICK d \in 0 .. n - 1 : (h + d) % n = f
        BY <1>1, ProbeReaches
      <4>2. d \in 0 .. p - 1 /\ At(t, h, d) = f
        BY <4>1 DEF At
      <4>3. f \notin DeadSlots(t)
        BY <2>4, <4>2 DEF Reusable, p
      <4>4. S[f] # Empty
        BY <2>1, <4>2
      <4>5. S[f] # Tombstone
        BY <1>1, <4>3 DEF DeadSlots
      <4>6. f \in UsedIn(S, n)
        BY <4>4, <4>5 DEF UsedIn
      <4>7. QED BY <2>2, <4>6
    <3>3. S[j] = Empty
      BY <1>1, <2>1, <3>2
    <3> HIDE DEF j
    <3>4. u = [capacity |-> n, slots |-> [S EXCEPT ![j] = Used(k, v)],
               count |-> t.count + 1, tombstones |-> t.tombstones]
      BY <1>0, <3>1, SlotTaken
    <3> HIDE DEF u
    <3>5. j = At(t, hash[k], p)
      BY DEF j
    <3>6. t.tombstones = IF t.slots[j] = Tombstone THEN t.tombstones - 1 ELSE t.tombstones
      BY <3>3, SlotKinds
    <3>7. /\ TableOK(u, hash, K, V) /\ u.capacity = t.capacity
          /\ u.count + u.tombstones <= t.count + t.tombstones + 1
          /\ \A l \in K, w \in V : Maps(u, l, w) <=> IF l = k THEN w = v ELSE Maps(t, l, w)
      BY <1>3, <2>1, <3>2, <3>3, <3>4, <3>5, <3>6, PutAt
    <3>8. QED BY <3>7 DEF u
  <2>5. QED BY <2>3, <2>4
<1>4. QED BY <1>2, <1>3

\* krs_connection_map_remove and s_addr_remove: the key is gone, every other key keeps its value.
LEMMA DeleteOK ==
    ASSUME NEW t, NEW K, NEW V, NEW hash \in [K -> Nat], TableOK(t, hash, K, V), NEW k \in K
    PROVE  LET u == Delete(t, hash[k], k)
           IN  /\ TableOK(u, hash, K, V) /\ u.capacity = t.capacity
               /\ u.count + u.tombstones = t.count + t.tombstones
               /\ \A l \in K, w \in V : Maps(u, l, w) <=> l # k /\ Maps(t, l, w)
<1> DEFINE n == t.capacity
           S == t.slots
           h == hash[k]
           u == Delete(t, h, k)
<1>0. Fields(t)
  BY DEF TableOK, Fields
<1>1. /\ n \in Nat \ {0} /\ SlotsOK(S, n, hash, K, V) /\ t.count \in Nat /\ t.tombstones \in Nat
      /\ t.count = Cardinality(UsedIn(S, n)) /\ t.tombstones = Cardinality(BuriedIn(S, n))
      /\ IsFiniteSet(UsedIn(S, n)) /\ IsFiniteSet(BuriedIn(S, n))
      /\ S \in [0 .. n - 1 -> SlotSet(K, V)] /\ h \in Nat
  BY TableSlots, TableCounts DEF TableOK, SlotsOK
<1>2. CASE ~HasKey(t, k, V)
  <2>1. ~Has(t, h, k)
    BY <1>2, NotFound
  <2>2. u = t
    BY <2>1 DEF Delete
  <2>3. \A l \in K, w \in V : Maps(t, l, w) <=> l # k /\ Maps(t, l, w)
    BY <1>2 DEF HasKey
  <2>4. QED BY <2>2, <2>3
<1>3. CASE HasKey(t, k, V)
  <2>1. PICK y \in V, i \in 0 .. n - 1 : Holds(S, i, k, y)
    BY <1>3 DEF HasKey, Maps, Stored
  <2>2. Has(t, h, k) /\ Find(t, h, k) = i
    BY <2>1, Found
  <2> DEFINE m == t.count - 1
             b == t.tombstones + 1
             T == [S EXCEPT ![i] = Tombstone]
  <2>3. u = [t EXCEPT !.slots[i] = Tombstone, !.count = m, !.tombstones = b]
    BY <2>2 DEF Delete
  <2>4. u = [capacity |-> n, slots |-> T, count |-> m, tombstones |-> b]
    <3> HIDE DEF u, h, m, b
    <3>1. QED BY <1>0, <2>3 DEF Fields
  <2>5. Tombstone \in SlotSet(K, V)
    BY DEF SlotSet
  <2>6. T \in [0 .. n - 1 -> SlotSet(K, V)] /\ Changed(S, T, n, i, Tombstone)
    BY <1>1, <2>5 DEF Changed
  <2> HIDE DEF T, S, n, u, h
  <2>7. ReplaceAt(S, T, n, hash, K, V, k, y, i, Tombstone)
    <3>1. n \in Nat \ {0} /\ SlotsOK(S, n, hash, K, V)
      BY <1>1
    <3>2. QED BY <2>1, <2>6, <3>1 DEF ReplaceAt
  <2>8. /\ SlotsOK(T, n, hash, K, V) /\ i \in UsedIn(S, n) /\ i \notin BuriedIn(S, n)
        /\ UsedIn(T, n) = UsedIn(S, n) \ {i} /\ BuriedIn(T, n) = BuriedIn(S, n) \cup {i}
        /\ \A l \in K, w \in V :
              Stored(T, n, l, w) <=> IF l = k THEN Tombstone = Used(k, w) ELSE Stored(S, n, l, w)
    BY <2>7, ReplaceOK
  <2>9. m = Cardinality(UsedIn(T, n))
    <3>1. Cardinality(UsedIn(S, n) \ {i}) = Cardinality(UsedIn(S, n)) - 1
      BY <1>1, <2>8, FS_RemoveElement
    <3>2. QED BY <1>1, <2>8, <3>1
  <2>10. b = Cardinality(BuriedIn(T, n))
    <3>1. Cardinality(BuriedIn(S, n) \cup {i}) = Cardinality(BuriedIn(S, n)) + 1
      BY <1>1, <2>8, FS_AddElement
    <3>2. QED BY <1>1, <2>8, <3>1
  <2> HIDE DEF m, b
  <2>11. TableOK(u, hash, K, V) /\ \A l, w : Maps(u, l, w) <=> Stored(T, n, l, w)
    BY <1>1, <2>4, <2>8, <2>9, <2>10, TableFrom
  <2>12. u.capacity = n /\ u.count = m /\ u.tombstones = b
    BY <2>4
  <2>13. u.count + u.tombstones = t.count + t.tombstones
    BY <1>1, <2>12 DEF m, b
  <2>14. \A l \in K, w \in V : Maps(u, l, w) <=> l # k /\ Maps(t, l, w)
    BY <2>8, <2>11, SlotKinds DEF Maps, S, n
  <2>15. QED BY <2>11, <2>12, <2>13, <2>14 DEF u, n, h
<1>4. QED BY <1>2, <1>3
-----------------------------------------------------------------------------
(* Growth.                                                                 *)

\* A live slot that is copied into the new array, which has no tombstones,
\* ends in a free slot of it.
CanCopy(S, n, hash, K, V, k, v) ==
    /\ n \in Nat \ {0} /\ hash \in [K -> Nat]
    /\ SlotsOK(S, n, hash, K, V) /\ BuriedIn(S, n) = {}
    /\ k \in K /\ v \in V /\ \A w \in V : ~Stored(S, n, k, w)
    /\ \E i \in 0 .. n - 1 : S[i] = Empty

LEMMA RehashOK ==
    ASSUME NEW S, NEW n, NEW hash, NEW K, NEW V, NEW k, NEW v, CanCopy(S, n, hash, K, V, k, v)
    PROVE  LET T == Rehash(Used(k, v), hash, S, n)
           IN  /\ SlotsOK(T, n, hash, K, V) /\ BuriedIn(T, n) = {}
               /\ \E j \in 0 .. n - 1 : j \notin UsedIn(S, n) /\ UsedIn(T, n) = UsedIn(S, n) \cup {j}
               /\ \A l \in K, w \in V :
                     Stored(T, n, l, w) <=> IF l = k THEN w = v ELSE Stored(S, n, l, w)
<1> /\ n \in Nat \ {0} /\ hash \in [K -> Nat]
    /\ SlotsOK(S, n, hash, K, V) /\ BuriedIn(S, n) = {}
    /\ k \in K /\ v \in V /\ \A w \in V : ~Stored(S, n, k, w)
  BY DEF CanCopy
<1> PICK f \in 0 .. n - 1 : S[f] = Empty
  BY DEF CanCopy
<1> DEFINE D == {e \in 0 .. n - 1 : ~S[(hash[k] + e) % n].occupied}
           d == Least(D)
           j == (hash[k] + d) % n
           T == [S EXCEPT ![j] = Used(k, v)]
<1>1. hash[k] \in Nat /\ S \in [0 .. n - 1 -> SlotSet(K, V)]
  BY DEF SlotsOK
<1>2. Rehash(Used(k, v), hash, S, n) = T
  <2>1. Used(k, v).key = k
    BY SlotKinds
  <2>2. QED BY <2>1, Zenon DEF Rehash
<1>3. ASSUME NEW e \in 0 .. n - 1 PROVE S[(hash[k] + e) % n].occupied <=> S[(hash[k] + e) % n] # Empty
  <2>1. (hash[k] + e) % n \in 0 .. n - 1
    BY <1>1, PathInside
  <2>2. S[(hash[k] + e) % n] \in SlotSet(K, V)
    BY <1>1, <2>1
  <2>3. QED BY <2>2, SlotCases, SlotKinds
<1>4. D # {} /\ D \subseteq Nat
  <2>1. PICK e \in 0 .. n - 1 : (hash[k] + e) % n = f
    BY <1>1, ProbeReaches
  <2>2. e \in D
    BY <2>1, SlotKinds
  <2>3. QED BY <2>2
<1>5. d \in D /\ \A e \in D : d <= e
  <2> HIDE DEF D
  <2>1. QED BY <1>4, LeastOK
<1> HIDE DEF d
<1>6. d \in 0 .. n - 1 /\ d \in Nat /\ S[j] = Empty
  BY <1>3, <1>5
<1>7. ASSUME NEW e \in 0 .. d - 1 PROVE S[(hash[k] + e) % n] # Empty
  <2>1. e \in 0 .. n - 1 /\ ~(d <= e)
    BY <1>6
  <2>2. e \notin D
    BY <1>5, <2>1
  <2>3. QED BY <1>3, <2>1, <2>2
<1>8. j \in 0 .. n - 1
  BY <1>1, <1>6, ProbeRange
<1>9. j = (hash[k] + d) % n
  OBVIOUS
<1> HIDE DEF D, j
<1>10. Used(k, v) \in SlotSet(K, V)
  BY DEF SlotSet
<1>11. T \in [0 .. n - 1 -> SlotSet(K, V)] /\ Changed(S, T, n, j, Used(k, v))
  BY <1>1, <1>8, <1>10 DEF Changed
<1> HIDE DEF T
<1>12. PlaceAt(S, T, n, hash, K, V, k, v, d, j)
  BY <1>6, <1>7, <1>9, <1>11 DEF PlaceAt
<1>13. /\ SlotsOK(T, n, hash, K, V)
       /\ j \in 0 .. n - 1
       /\ UsedIn(T, n) = UsedIn(S, n) \cup {j} /\ j \notin UsedIn(S, n)
       /\ BuriedIn(T, n) = BuriedIn(S, n) \ {j}
       /\ \A l \in K, w \in V :
             Stored(T, n, l, w) <=> IF l = k THEN w = v ELSE Stored(S, n, l, w)
  BY <1>12, PlaceOK
<1>14. QED BY <1>2, <1>13

\* The recursion of s_grow for the first n slots of the old array.
FilledUpTo(t, hash, n, f) ==
    f = [i \in 0 .. n |->
            IF i = 0 THEN NewTable(2 * t.capacity).slots
            ELSE IF i - 1 \in LiveSlots(t)
                 THEN Rehash(t.slots[i - 1], hash, f[i - 1], NewTable(2 * t.capacity).capacity)
                 ELSE f[i - 1]]

\* One turn of its loop: slot i of the old array goes into the new array S.
Copied(t, hash, S, i) ==
    IF i \in LiveSlots(t)
    THEN Rehash(t.slots[i], hash, S, NewTable(2 * t.capacity).capacity) ELSE S

\* The recursion has a solution: a shortest array without one would have
\* one, that of its predecessor with one turn more.
LEMMA FilledExists ==
    ASSUME NEW t, NEW hash, NEW n \in Nat
    PROVE  \E f : FilledUpTo(t, hash, n, f)
<1> DEFINE B == {m \in Nat : ~\E f : FilledUpTo(t, hash, m, f)}
           new == NewTable(2 * t.capacity).slots
<1>1. SUFFICES ASSUME B # {} PROVE FALSE
  OBVIOUS
<1>2. PICK m \in B : \A k \in B : m <= k
  BY <1>1, Smallest
<1>0. \A c \in Nat : \A f : FilledUpTo(t, hash, c, f) <=>
         f = [i \in 0 .. c |-> IF i = 0 THEN new ELSE Copied(t, hash, f[i - 1], i - 1)]
  BY DEF FilledUpTo, Copied
<1> HIDE DEF new
<1>3. CASE m = 0
  <2> DEFINE f == [i \in 0 .. 0 |-> new]
  <2>1. f = [i \in 0 .. 0 |-> IF i = 0 THEN new ELSE Copied(t, hash, f[i - 1], i - 1)]
    OBVIOUS
  <2>2. FilledUpTo(t, hash, 0, f)
    BY <1>0, <2>1
  <2>3. QED BY <1>3, <2>2
<1>4. CASE m # 0
  <2>1. m \in Nat /\ m - 1 \in Nat /\ ~(m <= m - 1)
    BY <1>4
  <2>2. m - 1 \notin B
    BY <1>2, <2>1
  <2>3. PICK f : FilledUpTo(t, hash, m - 1, f)
    BY <2>1, <2>2
  <2> DEFINE last == Copied(t, hash, f[m - 1], m - 1)
             g == [i \in 0 .. m |-> IF i = m THEN last ELSE f[i]]
  <2>4. \A i \in 0 .. m - 1 : f[i] = IF i = 0 THEN new ELSE Copied(t, hash, f[i - 1], i - 1)
    BY <1>0, <2>1, <2>3
  <2>5. \A i \in 0 .. m : i # 0 => g[i - 1] = f[i - 1]
    BY <2>1
  <2>6. \A i \in 0 .. m : g[i] = IF i = 0 THEN new ELSE Copied(t, hash, g[i - 1], i - 1)
    <3> TAKE i \in 0 .. m
    <3>1. g[i] = IF i = m THEN last ELSE f[i]
      OBVIOUS
    <3>2. CASE i = m
      BY <1>4, <2>1, <2>5, <3>1, <3>2
    <3>3. CASE i # m
      <4>1. i \in 0 .. m - 1
        BY <2>1, <3>3
      <4>2. QED BY <2>4, <2>5, <3>1, <3>3, <4>1
    <3>4. QED BY <3>2, <3>3
  <2>7. g = [i \in 0 .. m |-> g[i]]
    OBVIOUS
  <2> HIDE DEF g
  <2>8. FilledUpTo(t, hash, m, g)
    <3>1. g = [i \in 0 .. m |-> IF i = 0 THEN new ELSE Copied(t, hash, g[i - 1], i - 1)]
      BY <2>6, <2>7
    <3>2. QED BY <1>0, <2>1, <3>1
  <2>9. QED BY <2>8
<1>5. QED BY <1>3, <1>4

\* What the growth computes.
LEMMA GrowFills ==
    ASSUME NEW t, NEW hash, t.capacity \in Nat
    PROVE  \E f : /\ f[0] = NewTable(2 * t.capacity).slots
                  /\ \A i \in 0 .. t.capacity - 1 : f[i + 1] = Copied(t, hash, f[i], i)
                  /\ Grow(t, hash) = [NewTable(2 * t.capacity) EXCEPT
                                         !.slots = f[t.capacity], !.count = Cardinality(LiveSlots(t))]
<1> DEFINE f == CHOOSE f : FilledUpTo(t, hash, t.capacity, f)
<1>1. Grow(t, hash) = [NewTable(2 * t.capacity) EXCEPT
                          !.slots = f[t.capacity], !.count = Cardinality(LiveSlots(t))]
  BY DEF Grow, FilledUpTo
<1>2. FilledUpTo(t, hash, t.capacity, f)
  BY FilledExists
<1> HIDE DEF f
<1>3. \A i \in 0 .. t.capacity :
         f[i] = IF i = 0 THEN NewTable(2 * t.capacity).slots ELSE Copied(t, hash, f[i - 1], i - 1)
  BY <1>2 DEF FilledUpTo, Copied
<1>4. f[0] = NewTable(2 * t.capacity).slots
  BY <1>3
<1>5. ASSUME NEW i \in 0 .. t.capacity - 1 PROVE f[i + 1] = Copied(t, hash, f[i], i)
  <2>1. i + 1 \in 0 .. t.capacity /\ i + 1 # 0 /\ (i + 1) - 1 = i
    OBVIOUS
  <2>2. QED BY <1>3, <2>1
<1>6. QED BY <1>1, <1>4, <1>5

\* The slots before slot i + 1 are those before slot i and slot i.
LEMMA StoredNext ==
    ASSUME NEW S, NEW i \in Nat, NEW l, NEW w
    PROVE  Stored(S, i + 1, l, w) <=> Stored(S, i, l, w) \/ Holds(S, i, l, w)
<1>1. \A j : j \in 0 .. (i + 1) - 1 <=> j \in 0 .. i - 1 \/ j = i
  OBVIOUS
<1>2. QED BY <1>1, Zenon DEF Stored

\* s_grow and s_addr_grow: the new table has twice the slots, no tombstones,
\* and the same keys and values, whatever collisions the new array has.  The
\* invariant of the loop by the first turn at which it fails: the new array
\* holds what the slots copied so far hold, in as many slots, so that it has
\* a free slot for the next.
LEMMA GrowOK ==
    ASSUME NEW t, NEW K, NEW V, NEW hash \in [K -> Nat], TableOK(t, hash, K, V)
    PROVE  LET u == Grow(t, hash)
           IN  /\ TableOK(u, hash, K, V)
               /\ u.capacity = 2 * t.capacity /\ u.count = t.count /\ u.tombstones = 0
               /\ \A l \in K, w \in V : Maps(u, l, w) <=> Maps(t, l, w)
<1> DEFINE c == t.capacity
           n == 2 * c
           S == t.slots
           Old(i) == {j \in LiveSlots(t) : j < i}
<1>1. /\ c \in Nat \ {0} /\ n \in Nat \ {0} /\ c < n /\ SlotsOK(S, c, hash, K, V)
      /\ t.count = Cardinality(LiveSlots(t))
  BY TableCounts DEF TableOK
<1>2. /\ LiveSlots(t) \subseteq 0 .. c - 1 /\ IsFiniteSet(LiveSlots(t)) /\ t.count \in Nat
      /\ IsFiniteSet(0 .. c - 1) /\ Cardinality(0 .. c - 1) = c
      /\ \A i \in 0 .. c - 1 : S[i] \in SlotSet(K, V) /\ (i \in LiveSlots(t) <=> S[i] \notin {Empty, Tombstone})
  <2>1. DOMAIN S = 0 .. c - 1 /\ \A i \in 0 .. c - 1 : S[i] \in SlotSet(K, V)
    BY TableSlots
  <2>2. \A i \in 0 .. c - 1 : i \in LiveSlots(t) <=> S[i] \notin {Empty, Tombstone}
    BY <2>1 DEF LiveSlots
  <2>3. QED BY <2>1, <2>2, TableCounts
<1>3. PICK f : /\ f[0] = NewTable(n).slots
               /\ \A i \in 0 .. c - 1 : f[i + 1] = Copied(t, hash, f[i], i)
               /\ Grow(t, hash) = [NewTable(n) EXCEPT !.slots = f[c], !.count = Cardinality(LiveSlots(t))]
  BY <1>1, GrowFills
<1>4. IsFiniteSet(0 .. n - 1) /\ Cardinality(0 .. n - 1) = n
  <2>1. 0 \in Int /\ n - 1 \in Int /\ ~(0 > n - 1) /\ (n - 1) - 0 + 1 = n
    BY <1>1
  <2>2. QED BY <2>1, FS_Interval, Zenon
<1>5. /\ NewTable(n).capacity = n /\ NewTable(n).slots = [i \in 0 .. n - 1 |-> Empty]
      /\ NewTable(n).tombstones = 0 /\ TableOK(NewTable(n), hash, K, V)
      /\ \A k, v : ~Maps(NewTable(n), k, v)
  BY <1>1, NewTableOK
<1> DEFINE Fine(i) == /\ SlotsOK(f[i], n, hash, K, V) /\ BuriedIn(f[i], n) = {}
                      /\ Cardinality(UsedIn(f[i], n)) = Cardinality(Old(i))
                      /\ \A l \in K, w \in V : Stored(f[i], n, l, w) <=> Stored(S, i, l, w)
           B == {i \in 0 .. c : ~Fine(i)}
<1>6. ASSUME NEW i \in 0 .. c
      PROVE  IsFiniteSet(Old(i)) /\ Cardinality(Old(i)) \in Nat /\ Cardinality(Old(i)) <= c
  <2>1. Old(i) \subseteq 0 .. c - 1
    BY <1>2
  <2> HIDE DEF Old
  <2>2. IsFiniteSet(Old(i)) /\ Cardinality(Old(i)) <= Cardinality(0 .. c - 1)
    BY <1>2, <2>1, FS_Subset
  <2>3. QED BY <1>2, <2>2, FS_CardinalityType
<1>7. Fine(0)
  <2>1. SlotsOK(f[0], n, hash, K, V)
    BY <1>3, <1>5 DEF TableOK
  <2>2. \A i \in 0 .. n - 1 : f[0][i] = Empty
    BY <1>3, <1>5
  <2>3. BuriedIn(f[0], n) = {} /\ UsedIn(f[0], n) = {}
    BY <2>2, SlotKinds DEF BuriedIn, UsedIn
  <2>4. Old(0) = {}
    BY <1>1, <1>2
  <2>5. \A l, w : ~Stored(f[0], n, l, w)
    BY <2>2, SlotKinds DEF Stored, Holds
  <2>6. \A l, w : ~Stored(S, 0, l, w)
    BY DEF Stored
  <2> HIDE DEF Old
  <2>7. Cardinality(UsedIn(f[0], n)) = Cardinality(Old(0))
    BY <2>3, <2>4
  <2>8. QED BY <2>1, <2>3, <2>5, <2>6, <2>7
<1>8. ASSUME NEW i \in 0 .. c - 1, Fine(i) PROVE Fine(i + 1)
  <2> DEFINE T == f[i]
  <2>0. i \in Nat /\ i \in 0 .. c /\ f[i + 1] = Copied(t, hash, T, i)
    BY <1>1, <1>3
  <2>1. /\ SlotsOK(T, n, hash, K, V) /\ BuriedIn(T, n) = {}
        /\ Cardinality(UsedIn(T, n)) = Cardinality(Old(i))
        /\ \A l \in K, w \in V : Stored(T, n, l, w) <=> Stored(S, i, l, w)
    BY <1>8
  <2>2. \A l, w : Stored(S, i + 1, l, w) <=> Stored(S, i, l, w) \/ Holds(S, i, l, w)
    BY <2>0, StoredNext
  <2>3. IsFiniteSet(Old(i)) /\ Cardinality(Old(i)) \in Nat /\ Cardinality(Old(i)) <= c
    BY <1>6, <2>0
  <2>4. CASE i \notin LiveSlots(t)
    <3>1. f[i + 1] = T
      BY <2>0, <2>4 DEF Copied
    <3>2. Old(i + 1) = Old(i)
      BY <1>1, <1>2, <2>0, <2>4
    <3>3. \A l, w : ~Holds(S, i, l, w)
      BY <1>2, <2>4, SlotKinds DEF Holds
    <3> HIDE DEF Old, S
    <3>4. QED BY <2>1, <2>2, <3>1, <3>2, <3>3
  <2>5. CASE i \in LiveSlots(t)
    <3>1. PICK k \in K, v \in V : Holds(S, i, k, v)
      BY <1>2, <2>5, SlotCases DEF Holds
    <3>2. f[i + 1] = Rehash(Used(k, v), hash, T, n)
      BY <1>5, <2>0, <2>5, <3>1 DEF Copied, Holds
    <3>3. \A w \in V : ~Stored(S, i, k, w)
      <4> SUFFICES ASSUME NEW w \in V, NEW j \in 0 .. i - 1, Holds(S, j, k, w) PROVE FALSE
        BY DEF Stored
      <4>1. j \in 0 .. c - 1 /\ j # i
        BY <1>1
      <4>2. QED BY <1>1, <3>1, <4>1 DEF SlotsOK, Unique
    <3>4. \A w \in V : ~Stored(T, n, k, w)
      BY <2>1, <3>3
    <3>5. PICK e \in 0 .. n - 1 : T[e] = Empty
      <4>1. UsedIn(T, n) # 0 .. n - 1
        <5> SUFFICES ASSUME UsedIn(T, n) = 0 .. n - 1 PROVE FALSE
          OBVIOUS
        <5> HIDE DEF T, Old, c, n
        <5>1. n <= c
          BY <1>4, <2>1, <2>3
        <5>2. QED BY <1>1, <5>1
      <4>2. PICK e \in 0 .. n - 1 : e \notin UsedIn(T, n)
        BY <4>1 DEF UsedIn
      <4>3. e \notin BuriedIn(T, n)
        BY <2>1
      <4>4. QED BY <4>2, <4>3 DEF UsedIn, BuriedIn
    <3> HIDE DEF T, n, c, S, Old
    <3> DEFINE U == Rehash(Used(k, v), hash, T, n)
    <3>6. n \in Nat \ {0} /\ SlotsOK(T, n, hash, K, V) /\ BuriedIn(T, n) = {}
      BY <1>1, <2>1
    <3>7. /\ SlotsOK(U, n, hash, K, V) /\ BuriedIn(U, n) = {}
          /\ \E j \in 0 .. n - 1 : j \notin UsedIn(T, n) /\ UsedIn(U, n) = UsedIn(T, n) \cup {j}
          /\ \A l \in K, w \in V :
                Stored(U, n, l, w) <=> IF l = k THEN w = v ELSE Stored(T, n, l, w)
      <4>1. CanCopy(T, n, hash, K, V, k, v)
        BY <3>4, <3>5, <3>6 DEF CanCopy
      <4>2. QED BY <4>1, RehashOK
    <3> HIDE DEF U
    <3>8. Cardinality(UsedIn(U, n)) = Cardinality(Old(i + 1))
      <4>1. PICK j \in 0 .. n - 1 : j \notin UsedIn(T, n) /\ UsedIn(U, n) = UsedIn(T, n) \cup {j}
        BY <3>7
      <4>2. IsFiniteSet(UsedIn(T, n))
        <5>1. UsedIn(T, n) \subseteq 0 .. n - 1
          BY DEF UsedIn
        <5>2. QED BY <1>4, <5>1, FS_Subset
      <4>3. Cardinality(UsedIn(T, n) \cup {j}) = Cardinality(UsedIn(T, n)) + 1
        BY <4>1, <4>2, FS_AddElement
      <4>4. Old(i + 1) = Old(i) \cup {i} /\ i \notin Old(i)
        <5>1. \A x \in LiveSlots(t) : x \in Int /\ (x < i + 1 <=> x < i \/ x = i)
          BY <1>2, <2>0
        <5>2. ~(i < i)
          BY <2>0
        <5>3. QED BY <2>5, <5>1, <5>2, Zenon DEF Old
      <4>5. Cardinality(Old(i) \cup {i}) = Cardinality(Old(i)) + 1
        BY <2>3, <4>4, FS_AddElement
      <4>6. QED BY <2>1, <4>1, <4>3, <4>4, <4>5
    <3>9. ASSUME NEW l \in K, NEW w \in V PROVE Stored(U, n, l, w) <=> Stored(S, i + 1, l, w)
      <4>1. Holds(S, i, l, w) <=> l = k /\ w = v
        BY <3>1, UsedOnce DEF Holds
      <4>2. CASE l = k
        BY <2>2, <3>3, <3>7, <4>1, <4>2
      <4>3. CASE l # k
        BY <2>1, <2>2, <3>7, <4>1, <4>3
      <4>4. QED BY <4>2, <4>3
    <3>10. f[i + 1] = U
      BY <3>2 DEF U
    <3>11. QED BY <3>7, <3>8, <3>9, <3>10
  <2>6. QED BY <2>4, <2>5
<1>9. Fine(c)
  <2> HIDE DEF Fine
  <2>1. SUFFICES ASSUME B # {} PROVE FALSE
    <3>1. c \in 0 .. c
      BY <1>1
    <3>2. QED BY <3>1
  <2>2. B \subseteq Nat
    OBVIOUS
  <2>3. PICK i \in B : \A k \in B : i <= k
    <3> HIDE DEF B
    <3>1. QED BY <2>1, <2>2, Smallest
  <2>4. i \in 0 .. c /\ ~Fine(i) /\ i # 0
    BY <1>7
  <2>5. i - 1 \in 0 .. c - 1 /\ i - 1 \in 0 .. c /\ ~(i <= i - 1) /\ (i - 1) + 1 = i
    BY <1>1, <2>4
  <2>6. Fine(i - 1)
    <3>1. i - 1 \notin B
      <4> HIDE DEF B
      <4>1. QED BY <2>3, <2>5
    <3>2. QED BY <2>5, <3>1
  <2>7. Fine((i - 1) + 1)
    BY <1>8, <2>5, <2>6
  <2>8. QED BY <2>4, <2>5, <2>7
<1>10. Old(c) = LiveSlots(t)
  BY <1>1, <1>2
<1> DEFINE u == Grow(t, hash)
<1>11. u = [capacity |-> n, slots |-> f[c], count |-> t.count, tombstones |-> 0]
  <2> DEFINE new == NewTable(n)
             a == f[c]
             m == t.count
  <2>1. new = [capacity |-> new.capacity, slots |-> new.slots, count |-> new.count,
               tombstones |-> new.tombstones]
    BY DEF NewTable
  <2>2. u = [new EXCEPT !.slots = a, !.count = m]
    BY <1>1, <1>3
  <2> HIDE DEF u, new, a, m
  <2>3. u = [capacity |-> new.capacity, slots |-> a, count |-> m, tombstones |-> new.tombstones]
    BY <2>1, <2>2
  <2>4. new.capacity = n /\ new.tombstones = 0
    BY <1>5 DEF new
  <2>5. QED BY <2>3, <2>4 DEF a, m
<1> HIDE DEF u, n, c, S, Old
<1>12. /\ SlotsOK(f[c], n, hash, K, V) /\ BuriedIn(f[c], n) = {}
       /\ Cardinality(UsedIn(f[c], n)) = t.count
       /\ \A l \in K, w \in V : Stored(f[c], n, l, w) <=> Stored(S, c, l, w)
  BY <1>1, <1>9, <1>10
<1>13. Cardinality(BuriedIn(f[c], n)) = 0
  BY <1>12, FS_EmptySet
<1>14. TableOK(u, hash, K, V) /\ \A k, v : Maps(u, k, v) <=> Stored(f[c], n, k, v)
  BY <1>1, <1>11, <1>12, <1>13, TableFrom
<1>15. u.capacity = n /\ u.count = t.count /\ u.tombstones = 0
  BY <1>11
<1>16. \A l \in K, w \in V : Maps(u, l, w) <=> Maps(t, l, w)
  BY <1>12, <1>14 DEF Maps, S, c
<1>17. QED BY <1>14, <1>15, <1>16 DEF u, n, c
-----------------------------------------------------------------------------
(* The map.                                                                *)

\* Both tables are sound; the connections in the map have ids that have been
\* given out; the index names only connections of the map, each under its
\* own address; and as long as no growth has failed each table has a slot
\* that was never used.
MapInvariant ==
    /\ TableOK(entries, IdHash, Ids, Addrs) /\ entries.capacity >= InitialCapacity
    /\ TableOK(index, AddrHash, Addrs, Ids) /\ index.capacity >= InitialCapacity
    /\ nextId \in 0 .. MaxId /\ failed \in Nat
    /\ \A id \in Ids, a \in Addrs : Maps(entries, id, a) => id <= nextId
    /\ \A id \in Ids, a \in Addrs : Maps(index, a, id) => Maps(entries, id, a)
    /\ failed = 0 => /\ entries.count + entries.tombstones < entries.capacity
                     /\ index.count + index.tombstones < index.capacity

\* After a growth has failed, a put finds in each table a slot that is not
\* live: what the code needs, and does not test, before it overwrites the
\* slot of the key's own hash.
PutFits ==
    nextId' # nextId /\ failed' # 0 =>
        entries.count < entries.capacity /\ index.count < index.capacity

\* A key has one value.
LEMMA OneValue ==
    ASSUME NEW t, NEW K, NEW V, NEW hash, TableOK(t, hash, K, V),
           NEW k \in K, NEW v \in V, NEW w \in V, Maps(t, k, v), Maps(t, k, w)
    PROVE  v = w
<1>1. PICK i \in 0 .. t.capacity - 1 : Holds(t.slots, i, k, v)
  BY DEF Maps, Stored
<1>2. PICK j \in 0 .. t.capacity - 1 : Holds(t.slots, j, k, w)
  BY DEF Maps, Stored
<1>3. i = j
  BY <1>1, <1>2 DEF TableOK, SlotsOK, Unique
<1>4. QED BY <1>1, <1>2, <1>3, UsedOnce DEF Holds

\* krs_connection_map_get and krs_connection_map_get_by_address find exactly
\* what the table holds.
LEMMA Lookup ==
    ASSUME NEW t, NEW K, NEW V, NEW hash \in [K -> Nat], TableOK(t, hash, K, V), NEW k \in K
    PROVE  /\ Has(t, hash[k], k) <=> HasKey(t, k, V)
           /\ \A v \in V : Maps(t, k, v) => Has(t, hash[k], k) /\ Get(t, hash[k], k) = v
           /\ Has(t, hash[k], k) => Get(t, hash[k], k) \in V /\ Maps(t, k, Get(t, hash[k], k))
<1>1. ASSUME NEW v \in V, Maps(t, k, v) PROVE Has(t, hash[k], k) /\ Get(t, hash[k], k) = v
  <2>1. PICK i \in 0 .. t.capacity - 1 : Holds(t.slots, i, k, v)
    BY <1>1 DEF Maps, Stored
  <2>2. QED BY <2>1, Found
<1>2. ~HasKey(t, k, V) => ~Has(t, hash[k], k)
  BY NotFound
<1>3. QED BY <1>1, <1>2 DEF HasKey

\* The table an insertion works on holds the same; unless a growth has
\* failed, it has room for two more slots to be used.
LEMMA RoomOK ==
    ASSUME NEW t, NEW K, NEW V, NEW hash \in [K -> Nat], TableOK(t, hash, K, V),
           t.capacity >= 4, NEW fails \in BOOLEAN
    PROVE  LET u == Room(t, hash, fails)
           IN  /\ TableOK(u, hash, K, V) /\ u.capacity >= t.capacity /\ u.count = t.count
               /\ ~fails => u.count + u.tombstones + 1 < u.capacity
               /\ \A l \in K, w \in V : Maps(u, l, w) <=> Maps(t, l, w)
<1>1. /\ t.capacity \in Nat \ {0} /\ t.count \in Nat /\ t.tombstones \in Nat
      /\ t.count + t.tombstones <= t.capacity
  <2>1. /\ LiveSlots(t) \cup DeadSlots(t) \subseteq 0 .. t.capacity - 1
        /\ t.count + t.tombstones = Cardinality(LiveSlots(t) \cup DeadSlots(t))
        /\ IsFiniteSet(0 .. t.capacity - 1) /\ Cardinality(0 .. t.capacity - 1) = t.capacity
        /\ t.capacity \in Nat \ {0} /\ t.count \in Nat /\ t.tombstones \in Nat
    BY TableCounts
  <2>2. Cardinality(LiveSlots(t) \cup DeadSlots(t)) <= Cardinality(0 .. t.capacity - 1)
    BY <2>1, FS_Subset
  <2>3. QED BY <2>1, <2>2
<1>2. CASE Full(t) /\ ~fails
  <2> DEFINE u == Grow(t, hash)
  <2>1. /\ TableOK(u, hash, K, V)
        /\ u.capacity = 2 * t.capacity /\ u.count = t.count /\ u.tombstones = 0
        /\ \A l \in K, w \in V : Maps(u, l, w) <=> Maps(t, l, w)
    BY GrowOK
  <2>2. Room(t, hash, fails) = u
    BY <1>2 DEF Room
  <2> HIDE DEF u
  <2>3. u.capacity >= t.capacity /\ u.count + u.tombstones + 1 < u.capacity
    BY <1>1, <2>1
  <2>4. QED BY <2>1, <2>2, <2>3
<1>3. CASE ~(Full(t) /\ ~fails)
  <2>1. Room(t, hash, fails) = t
    BY <1>3 DEF Room
  <2>2. t.capacity >= t.capacity
    BY <1>1
  <2>3. ASSUME ~fails PROVE t.count + t.tombstones + 1 < t.capacity
    <3>1. ~((t.count + t.tombstones) * 4 >= t.capacity * 3)
      BY <1>3, <2>3 DEF Full
    <3>2. QED BY <1>1, <3>1
  <2>4. QED BY <2>1, <2>2, <2>3
<1>4. QED BY <1>2, <1>3

\* A table with fewer keys than slots has a slot that is not live.
LEMMA SpareSlot ==
    ASSUME NEW t, NEW K, NEW V, NEW hash, TableOK(t, hash, K, V), t.count < t.capacity
    PROVE  \E f : f \in (0 .. t.capacity - 1) \ LiveSlots(t)
<1>1. /\ LiveSlots(t) \subseteq 0 .. t.capacity - 1 /\ t.count \in Nat /\ t.capacity \in Nat
      /\ Cardinality(0 .. t.capacity - 1) = t.capacity
  BY TableCounts
<1>2. t.count = Cardinality(LiveSlots(t))
  BY DEF TableOK
<1>3. LiveSlots(t) # 0 .. t.capacity - 1
  <2> SUFFICES ASSUME LiveSlots(t) = 0 .. t.capacity - 1 PROVE FALSE
    OBVIOUS
  <2>1. t.count = t.capacity
    BY <1>1, <1>2
  <2>2. QED BY <1>1, <2>1
<1>4. QED BY <1>1, <1>3

\* A put: growth, then insertion.
LEMMA PutOK ==
    ASSUME NEW t, NEW K, NEW V, NEW hash \in [K -> Nat], TableOK(t, hash, K, V),
           t.capacity >= 4, t.count < t.capacity, NEW k \in K, NEW v \in V, NEW fails \in BOOLEAN
    PROVE  LET u == Insert(Room(t, hash, fails), hash[k], k, v)
           IN  /\ TableOK(u, hash, K, V) /\ u.capacity >= t.capacity
               /\ ~fails => u.count + u.tombstones < u.capacity
               /\ \A l \in K, w \in V : Maps(u, l, w) <=> IF l = k THEN w = v ELSE Maps(t, l, w)
<1> DEFINE r == Room(t, hash, fails)
           u == Insert(r, hash[k], k, v)
<1>1. /\ TableOK(r, hash, K, V) /\ r.capacity >= t.capacity /\ r.count = t.count
      /\ ~fails => r.count + r.tombstones + 1 < r.capacity
      /\ \A l \in K, w \in V : Maps(r, l, w) <=> Maps(t, l, w)
  BY RoomOK
<1> HIDE DEF r
<1>2. /\ t.capacity \in Nat /\ t.count \in Nat /\ r.capacity \in Nat
      /\ r.count \in Nat /\ r.tombstones \in Nat
  BY <1>1, TableCounts
<1>3. r.count < r.capacity
  BY <1>1, <1>2
<1>4. PICK f : f \in (0 .. r.capacity - 1) \ LiveSlots(r)
  BY <1>1, <1>3, SpareSlot
<1>5. /\ TableOK(u, hash, K, V) /\ u.capacity = r.capacity
      /\ u.count + u.tombstones <= r.count + r.tombstones + 1
      /\ \A l \in K, w \in V : Maps(u, l, w) <=> IF l = k THEN w = v ELSE Maps(r, l, w)
  BY <1>1, <1>4, InsertOK
<1> HIDE DEF u
<1>6. u.count \in Nat /\ u.tombstones \in Nat
  BY <1>5, TableCounts
<1>7. ~fails => u.count + u.tombstones < u.capacity
  BY <1>1, <1>2, <1>5, <1>6
<1>8. QED BY <1>1, <1>5, <1>7 DEF u, r

\* The hash of an id is the id.
LEMMA Hashes == IdHash \in [Ids -> Nat] /\ AddrHash \in [Addrs -> Nat]
BY ConnectionMapAssumption DEF ConnectionMapAssumption, IdHash, Ids

\* The slots of the two tables in use are at most as many as the connections
\* in the map: each slot of the table of ids has a key of its own, and each
\* slot of the index the id of a connection whose address is its key.
LEMMA FewLive ==
    ASSUME MapInvariant
    PROVE  /\ IsFiniteSet(Live)
           /\ entries.count <= Cardinality(Live) /\ index.count <= Cardinality(Live)
<1>1. /\ TableOK(entries, IdHash, Ids, Addrs) /\ TableOK(index, AddrHash, Addrs, Ids)
      /\ \A id \in Ids, a \in Addrs : Maps(index, a, id) => Maps(entries, id, a)
      /\ entries.count = Cardinality(LiveSlots(entries)) /\ index.count = Cardinality(LiveSlots(index))
  BY DEF MapInvariant, TableOK
<1>2. /\ IsFiniteSet(LiveSlots(entries)) /\ IsFiniteSet(LiveSlots(index))
      /\ LiveSlots(entries) \subseteq 0 .. entries.capacity - 1
      /\ LiveSlots(index) \subseteq 0 .. index.capacity - 1
  BY <1>1, TableCounts
<1> DEFINE key == [i \in LiveSlots(entries) |-> entries.slots[i].key]
           val == [i \in LiveSlots(index) |-> index.slots[i].value]
<1>3. ASSUME NEW i \in LiveSlots(entries)
      PROVE  \E id \in Ids, a \in Addrs : Holds(entries.slots, i, id, a) /\ key[i] = id
  <2>1. entries.slots[i] \in SlotSet(Ids, Addrs) /\ entries.slots[i] \notin {Empty, Tombstone}
    BY <1>1, <1>2, TableSlots DEF LiveSlots
  <2>2. PICK id \in Ids, a \in Addrs : entries.slots[i] = Used(id, a)
    BY <2>1, SlotCases
  <2>3. QED BY <2>2, SlotKinds DEF Holds
<1>4. ASSUME NEW i \in LiveSlots(index)
      PROVE  \E id \in Ids, a \in Addrs : Holds(index.slots, i, a, id) /\ val[i] = id
  <2>1. index.slots[i] \in SlotSet(Addrs, Ids) /\ index.slots[i] \notin {Empty, Tombstone}
    BY <1>1, <1>2, TableSlots DEF LiveSlots
  <2>2. PICK a \in Addrs, id \in Ids : index.slots[i] = Used(a, id)
    BY <2>1, SlotCases
  <2>3. QED BY <2>2, SlotKinds DEF Holds
<1>5. key \in Surjection(LiveSlots(entries), Live)
  BY DEF Surjection, Live
<1>6. IsFiniteSet(Live)
  BY <1>2, <1>5, FS_Surjection
<1>7. key \in Injection(LiveSlots(entries), Live)
  <2>1. key \in [LiveSlots(entries) -> Live]
    BY DEF Live
  <2>2. ASSUME NEW i \in LiveSlots(entries), NEW j \in LiveSlots(entries), key[i] = key[j] PROVE i = j
    <3> HIDE DEF key
    <3>1. PICK id \in Ids, a \in Addrs : Holds(entries.slots, i, id, a) /\ key[i] = id
      BY <1>3
    <3>2. PICK jd \in Ids, b \in Addrs : Holds(entries.slots, j, jd, b) /\ key[j] = jd
      BY <1>3
    <3>3. Unique(entries.slots, entries.capacity, Ids, Addrs)
      BY <1>1 DEF TableOK, SlotsOK
    <3>4. id = jd /\ i \in 0 .. entries.capacity - 1 /\ j \in 0 .. entries.capacity - 1
      BY <1>2, <2>2, <3>1, <3>2
    <3>5. QED BY <3>1, <3>2, <3>3, <3>4 DEF Unique
  <2> HIDE DEF key
  <2>3. QED BY <2>1, <2>2 DEF Injection, IsInjective
<1>8. ASSUME NEW i \in LiveSlots(index), NEW id \in Ids, NEW a \in Addrs,
             Holds(index.slots, i, a, id)
      PROVE  Maps(entries, id, a) /\ id \in Live
  <2>1. Maps(index, a, id)
    BY <1>2, <1>8 DEF Maps, Stored
  <2>2. Maps(entries, id, a)
    BY <1>1, <2>1
  <2>3. PICK j \in 0 .. entries.capacity - 1 : Holds(entries.slots, j, id, a)
    BY <2>2 DEF Maps, Stored
  <2>4. entries.slots[j].key = id /\ entries.slots[j] \notin {Empty, Tombstone}
    BY <2>3, SlotKinds DEF Holds
  <2>5. j \in LiveSlots(entries)
    BY <1>1, <2>4, TableSlots DEF LiveSlots
  <2>6. QED BY <2>2, <2>4, <2>5 DEF Live
<1>9. val \in Injection(LiveSlots(index), Live)
  <2>1. \A i \in LiveSlots(index) : val[i] \in Live
    <3> HIDE DEF val
    <3>1. QED BY <1>4, <1>8
  <2>2. val \in [LiveSlots(index) -> Live]
    BY <2>1
  <2>3. ASSUME NEW i \in LiveSlots(index), NEW j \in LiveSlots(index), val[i] = val[j] PROVE i = j
    <3> HIDE DEF val
    <3>1. PICK id \in Ids, a \in Addrs : Holds(index.slots, i, a, id) /\ val[i] = id
      BY <1>4
    <3>2. PICK jd \in Ids, b \in Addrs : Holds(index.slots, j, b, jd) /\ val[j] = jd
      BY <1>4
    <3>3. id = jd /\ Maps(entries, id, a) /\ Maps(entries, jd, b)
      BY <1>8, <2>3, <3>1, <3>2
    <3>4. a = b
      BY <1>1, <3>3, OneValue
    <3>5. Unique(index.slots, index.capacity, Addrs, Ids)
      BY <1>1 DEF TableOK, SlotsOK
    <3>6. i \in 0 .. index.capacity - 1 /\ j \in 0 .. index.capacity - 1
      BY <1>2
    <3>7. QED BY <3>1, <3>2, <3>4, <3>5, <3>6 DEF Unique
  <2> HIDE DEF val
  <2>4. QED BY <2>2, <2>3 DEF Injection, IsInjective
<1> HIDE DEF key, val
<1>10. Cardinality(LiveSlots(entries)) <= Cardinality(Live)
  BY <1>6, <1>7, FS_Injection
<1>11. Cardinality(LiveSlots(index)) <= Cardinality(Live)
  BY <1>6, <1>9, FS_Injection
<1>12. QED BY <1>1, <1>6, <1>10, <1>11

\* krs_connection_map_put: both tables after a put.
LEMMA PutEffect ==
    ASSUME MapInvariant, NEW a \in Addrs, Put(a), PutFits
    PROVE  /\ nextId' \in Ids /\ nextId' = nextId + 1 /\ nextId' \in 0 .. MaxId
           /\ failed' \in Nat
           /\ TableOK(entries', IdHash, Ids, Addrs) /\ entries'.capacity >= InitialCapacity
           /\ TableOK(index', AddrHash, Addrs, Ids) /\ index'.capacity >= InitialCapacity
           /\ failed' = 0 => /\ entries'.count + entries'.tombstones < entries'.capacity
                             /\ index'.count + index'.tombstones < index'.capacity
           /\ \A id \in Ids, b \in Addrs :
                 Maps(entries', id, b) <=> IF id = nextId' THEN b = a ELSE Maps(entries, id, b)
           /\ \A id \in Ids, b \in Addrs :
                 Maps(index', b, id) <=> IF b = a THEN id = nextId' ELSE Maps(index, b, id)
<1>1. PICK f \in Failures(entries), g \in Failures(index) :
         /\ failed' = failed + f + g
         /\ entries' = Insert(Room(entries, IdHash, f = 1), IdHash[nextId'], nextId', a)
         /\ index' = Insert(Room(index, AddrHash, g = 1), AddrHash[a], a, nextId')
  BY DEF Put
<1>2. f \in {0, 1} /\ g \in {0, 1}
  BY DEF Failures
<1>3. /\ TableOK(entries, IdHash, Ids, Addrs) /\ TableOK(index, AddrHash, Addrs, Ids)
      /\ entries.capacity >= InitialCapacity /\ index.capacity >= InitialCapacity
      /\ nextId \in 0 .. MaxId /\ failed \in Nat
  BY DEF MapInvariant
<1>4. nextId < MaxId /\ nextId' = nextId + 1
  BY DEF Put
<1>5. MaxId \in Nat /\ InitialCapacity \in Nat /\ InitialCapacity >= 4
  BY ConnectionMapAssumption DEF ConnectionMapAssumption
<1>6. nextId' \in Ids /\ nextId' \in 0 .. MaxId
  BY <1>3, <1>4, <1>5 DEF Ids
<1>7. /\ entries.capacity \in Nat /\ entries.count \in Nat /\ entries.tombstones \in Nat
      /\ index.capacity \in Nat /\ index.count \in Nat /\ index.tombstones \in Nat
  BY <1>3, TableCounts
<1>8. entries.count < entries.capacity /\ index.count < index.capacity
  <2>1. CASE failed' = 0
    <3>1. failed = 0
      BY <1>1, <1>2, <1>3, <2>1
    <3>2. /\ entries.count + entries.tombstones < entries.capacity
          /\ index.count + index.tombstones < index.capacity
      BY <3>1 DEF MapInvariant
    <3>3. QED BY <1>7, <3>2
  <2>2. CASE failed' # 0
    <3>1. nextId' # nextId
      BY <1>3, <1>4
    <3>2. QED BY <2>2, <3>1 DEF PutFits
  <2>3. QED BY <2>1, <2>2
<1>10. /\ entries.count < entries.capacity /\ index.count < index.capacity
       /\ entries.capacity >= 4 /\ index.capacity >= 4
  BY <1>3, <1>5, <1>7, <1>8
<1>11. /\ TableOK(entries', IdHash, Ids, Addrs) /\ entries'.capacity >= entries.capacity
       /\ ~(f = 1) => entries'.count + entries'.tombstones < entries'.capacity
       /\ \A id \in Ids, b \in Addrs :
             Maps(entries', id, b) <=> IF id = nextId' THEN b = a ELSE Maps(entries, id, b)
  <2>1. PICK fails \in BOOLEAN : fails <=> f = 1
    OBVIOUS
  <2>2. Room(entries, IdHash, f = 1) = Room(entries, IdHash, fails)
    BY <2>1 DEF Room
  <2>3. entries' = Insert(Room(entries, IdHash, fails), IdHash[nextId'], nextId', a)
    BY <1>1, <2>2
  <2>4. PICK id \in Ids : id = nextId'
    BY <1>6
  <2>5. entries' = Insert(Room(entries, IdHash, fails), IdHash[id], id, a)
    BY <2>3, <2>4
  <2>6. /\ TableOK(entries, IdHash, Ids, Addrs) /\ entries.capacity >= 4
        /\ entries.count < entries.capacity /\ IdHash \in [Ids -> Nat]
    BY <1>3, <1>10, Hashes
  <2>7. QED BY <2>1, <2>4, <2>5, <2>6, PutOK
<1>12. /\ TableOK(index', AddrHash, Addrs, Ids) /\ index'.capacity >= index.capacity
       /\ ~(g = 1) => index'.count + index'.tombstones < index'.capacity
       /\ \A b \in Addrs, id \in Ids :
             Maps(index', b, id) <=> IF b = a THEN id = nextId' ELSE Maps(index, b, id)
  <2>1. PICK fails \in BOOLEAN : fails <=> g = 1
    OBVIOUS
  <2>2. Room(index, AddrHash, g = 1) = Room(index, AddrHash, fails)
    BY <2>1 DEF Room
  <2>3. index' = Insert(Room(index, AddrHash, fails), AddrHash[a], a, nextId')
    BY <1>1, <2>2
  <2>4. QED BY <1>3, <1>6, <1>10, <2>1, <2>3, PutOK, Hashes
<1>13. entries'.capacity \in Nat /\ index'.capacity \in Nat
  BY <1>11, <1>12, TableCounts
<1>14. entries'.capacity >= InitialCapacity /\ index'.capacity >= InitialCapacity
  BY <1>3, <1>5, <1>7, <1>11, <1>12, <1>13
<1>15. failed' \in Nat /\ (failed' = 0 => f # 1 /\ g # 1)
  BY <1>1, <1>2, <1>3
<1>16. QED BY <1>4, <1>6, <1>11, <1>12, <1>14, <1>15

\* krs_connection_map_remove: both tables after a removal.
LEMMA RemoveEffect ==
    ASSUME MapInvariant, NEW id \in Ids, Remove(id)
    PROVE  /\ TableOK(entries', IdHash, Ids, Addrs) /\ entries'.capacity >= InitialCapacity
           /\ TableOK(index', AddrHash, Addrs, Ids) /\ index'.capacity >= InitialCapacity
           /\ nextId' = nextId /\ failed' = failed
           /\ entries'.count + entries'.tombstones = entries.count + entries.tombstones
           /\ entries'.capacity = entries.capacity
           /\ index'.count + index'.tombstones = index.count + index.tombstones
           /\ index'.capacity = index.capacity
           /\ \E a \in Addrs :
                 /\ Maps(entries, id, a)
                 /\ \A jd \in Ids, b \in Addrs :
                       Maps(entries', jd, b) <=> jd # id /\ Maps(entries, jd, b)
                 /\ \A b \in Addrs, jd \in Ids :
                       Maps(index', b, jd) <=> b # a /\ Maps(index, b, jd)
<1> DEFINE a == Get(entries, IdHash[id], id)
<1>1. /\ TableOK(entries, IdHash, Ids, Addrs) /\ TableOK(index, AddrHash, Addrs, Ids)
      /\ entries.capacity >= InitialCapacity /\ index.capacity >= InitialCapacity
      /\ IdHash \in [Ids -> Nat] /\ AddrHash \in [Addrs -> Nat]
  BY Hashes DEF MapInvariant
<1>2. /\ Has(entries, IdHash[id], id)
      /\ index' = Delete(index, AddrHash[a], a)
      /\ entries' = Delete(entries, IdHash[id], id)
      /\ nextId' = nextId /\ failed' = failed
  BY DEF Remove
<1>3. a \in Addrs /\ Maps(entries, id, a)
  BY <1>1, <1>2, Lookup
<1> HIDE DEF a
<1>4. /\ TableOK(entries', IdHash, Ids, Addrs) /\ entries'.capacity = entries.capacity
      /\ entries'.count + entries'.tombstones = entries.count + entries.tombstones
      /\ \A jd \in Ids, b \in Addrs :
            Maps(entries', jd, b) <=> jd # id /\ Maps(entries, jd, b)
  BY <1>1, <1>2, DeleteOK
<1>5. /\ TableOK(index', AddrHash, Addrs, Ids) /\ index'.capacity = index.capacity
      /\ index'.count + index'.tombstones = index.count + index.tombstones
      /\ \A b \in Addrs, jd \in Ids :
            Maps(index', b, jd) <=> b # a /\ Maps(index, b, jd)
  BY <1>1, <1>2, <1>3, DeleteOK
<1>6. QED BY <1>1, <1>2, <1>3, <1>4, <1>5
-----------------------------------------------------------------------------
(* The theorems.  PutFits is their one condition; PutsFit, at the end, says *)
(* when it holds.                                                          *)

\* The invariant holds of the map that krs_connection_map_create returns.
LEMMA MapInit == Init => MapInvariant
<1> SUFFICES ASSUME Init PROVE MapInvariant
  OBVIOUS
<1>1. InitialCapacity \in Nat \ {0} /\ MaxId \in Nat /\ InitialCapacity >= InitialCapacity
  BY ConnectionMapAssumption DEF ConnectionMapAssumption
<1>2. /\ entries = NewTable(InitialCapacity) /\ index = NewTable(InitialCapacity)
      /\ nextId = 0 /\ failed = 0
  BY DEF Init
<1>3. TableOK(entries, IdHash, Ids, Addrs) /\ TableOK(index, AddrHash, Addrs, Ids)
  BY <1>1, <1>2, NewTableOK
<1>4. /\ entries.capacity = InitialCapacity /\ entries.count = 0 /\ entries.tombstones = 0
      /\ index.capacity = InitialCapacity /\ index.count = 0 /\ index.tombstones = 0
      /\ \A k, v : ~Maps(entries, k, v) /\ ~Maps(index, k, v)
  BY <1>1, <1>2, NewTableOK
<1>5. 0 \in 0 .. MaxId /\ 0 \in Nat /\ 0 + 0 < InitialCapacity
  BY <1>1
<1>6. QED BY <1>1, <1>2, <1>3, <1>4, <1>5 DEF MapInvariant

\* Every put and every removal preserves it.
LEMMA MapStep == MapInvariant /\ [Next]_vars /\ [PutFits]_vars => MapInvariant'
<1> SUFFICES ASSUME MapInvariant, [Next]_vars, [PutFits]_vars PROVE MapInvariant'
  OBVIOUS
<1>0. PutFits
  BY DEF PutFits, vars
<1>1. ASSUME NEW a \in Addrs, Put(a) PROVE MapInvariant'
  <2>1. /\ nextId' \in Ids /\ nextId' = nextId + 1 /\ nextId' \in 0 .. MaxId
        /\ failed' \in Nat
        /\ TableOK(entries', IdHash, Ids, Addrs) /\ entries'.capacity >= InitialCapacity
        /\ TableOK(index', AddrHash, Addrs, Ids) /\ index'.capacity >= InitialCapacity
        /\ failed' = 0 => /\ entries'.count + entries'.tombstones < entries'.capacity
                          /\ index'.count + index'.tombstones < index'.capacity
        /\ \A id \in Ids, b \in Addrs :
              Maps(entries', id, b) <=> IF id = nextId' THEN b = a ELSE Maps(entries, id, b)
        /\ \A id \in Ids, b \in Addrs :
              Maps(index', b, id) <=> IF b = a THEN id = nextId' ELSE Maps(index, b, id)
    BY <1>0, <1>1, PutEffect
  <2>2. /\ \A id \in Ids, b \in Addrs : Maps(entries, id, b) => id <= nextId
        /\ \A id \in Ids, b \in Addrs : Maps(index, b, id) => Maps(entries, id, b)
        /\ nextId \in Nat
    BY DEF MapInvariant
  <2>3. ASSUME NEW id \in Ids, NEW b \in Addrs, Maps(entries', id, b) PROVE id <= nextId'
    <3>1. id \in Nat /\ nextId' \in Nat
      BY <2>1, <2>2 DEF Ids
    <3>2. CASE id = nextId'
      BY <3>1, <3>2
    <3>3. CASE id # nextId'
      <4>1. id <= nextId
        BY <2>1, <2>2, <2>3, <3>3
      <4>2. QED BY <2>1, <2>2, <3>1, <4>1
    <3>4. QED BY <3>2, <3>3
  <2>4. ASSUME NEW id \in Ids, NEW b \in Addrs, Maps(index', b, id) PROVE Maps(entries', id, b)
    <3>1. CASE b = a
      BY <2>1, <2>4, <3>1
    <3>2. CASE b # a
      <4>1. Maps(entries, id, b)
        BY <2>1, <2>2, <2>4, <3>2
      <4>2. id <= nextId /\ id \in Nat
        BY <2>2, <4>1 DEF Ids
      <4>3. id # nextId'
        BY <2>1, <2>2, <4>2
      <4>4. QED BY <2>1, <4>1, <4>3
    <3>3. QED BY <3>1, <3>2
  <2>5. QED BY <2>1, <2>3, <2>4 DEF MapInvariant
<1>2. ASSUME NEW id \in Ids, Remove(id) PROVE MapInvariant'
  <2>1. /\ TableOK(entries', IdHash, Ids, Addrs) /\ entries'.capacity >= InitialCapacity
        /\ TableOK(index', AddrHash, Addrs, Ids) /\ index'.capacity >= InitialCapacity
        /\ nextId' = nextId /\ failed' = failed
        /\ entries'.count + entries'.tombstones = entries.count + entries.tombstones
        /\ entries'.capacity = entries.capacity
        /\ index'.count + index'.tombstones = index.count + index.tombstones
        /\ index'.capacity = index.capacity
    BY <1>2, RemoveEffect
  <2>2. PICK a \in Addrs :
           /\ Maps(entries, id, a)
           /\ \A jd \in Ids, b \in Addrs :
                 Maps(entries', jd, b) <=> jd # id /\ Maps(entries, jd, b)
           /\ \A b \in Addrs, jd \in Ids :
                 Maps(index', b, jd) <=> b # a /\ Maps(index, b, jd)
    BY <1>2, RemoveEffect
  <2>3. /\ \A jd \in Ids, b \in Addrs : Maps(entries, jd, b) => jd <= nextId
        /\ \A jd \in Ids, b \in Addrs : Maps(index, b, jd) => Maps(entries, jd, b)
        /\ nextId \in 0 .. MaxId /\ failed \in Nat /\ TableOK(entries, IdHash, Ids, Addrs)
        /\ failed = 0 => /\ entries.count + entries.tombstones < entries.capacity
                         /\ index.count + index.tombstones < index.capacity
    BY DEF MapInvariant
  <2>4. \A jd \in Ids, b \in Addrs : Maps(entries', jd, b) => jd <= nextId'
    BY <2>1, <2>2, <2>3
  <2>5. ASSUME NEW jd \in Ids, NEW b \in Addrs, Maps(index', b, jd) PROVE Maps(entries', jd, b)
    <3>1. b # a /\ Maps(entries, jd, b)
      BY <2>2, <2>3, <2>5
    <3>2. jd # id
      BY <2>2, <2>3, <3>1, OneValue
    <3>3. QED BY <2>2, <3>1, <3>2
  <2>6. nextId' \in 0 .. MaxId /\ failed' \in Nat
    BY <2>1, <2>3
  <2>7. failed' = 0 => /\ entries'.count + entries'.tombstones < entries'.capacity
                       /\ index'.count + index'.tombstones < index'.capacity
    BY <2>1, <2>3
  <2>8. QED BY <2>1, <2>4, <2>5, <2>6, <2>7 DEF MapInvariant
<1>3. CASE UNCHANGED vars
  BY <1>3 DEF vars, MapInvariant
<1>4. QED BY <1>1, <1>2, <1>3 DEF Next

\* Throughout the life of the map both tables of connection_map.c are sound:
\* every key is found by probing from its hash past collisions, tombstones
\* and reused slots, no key is in two slots, the counters agree with the
\* slots, the index names only connections of the map, and as long as no
\* growth has failed each table has a slot that was never used.
THEOREM MapSound == Spec /\ [][PutFits]_vars => []MapInvariant
<1>1. QED BY MapInit, MapStep, PTL DEF Spec

\* count and tombstones, which decide when s_grow and s_addr_grow run, agree
\* with the slots after any sequence of puts, removals and growths.
THEOREM CountersExact == Spec /\ [][PutFits]_vars => []CountsExact
<1>1. MapInvariant => CountsExact
  BY DEF MapInvariant, TableOK, CountsExact
<1>2. QED BY <1>1, MapSound, PTL

\* As long as no allocation of s_grow or s_addr_grow has failed, each table
\* has a slot that was never used, so that every search ends.
THEOREM FreeSlot == Spec /\ [][PutFits]_vars => []FreeSlotStays
<1>1. ASSUME NEW t, NEW K, NEW V, NEW hash, TableOK(t, hash, K, V), t.count + t.tombstones < t.capacity
      PROVE  LiveSlots(t) \cup DeadSlots(t) # DOMAIN t.slots
  <2>1. /\ t.count + t.tombstones = Cardinality(LiveSlots(t) \cup DeadSlots(t))
        /\ Cardinality(0 .. t.capacity - 1) = t.capacity /\ t.capacity \in Nat
    BY <1>1, TableCounts
  <2>2. DOMAIN t.slots = 0 .. t.capacity - 1
    BY <1>1, TableSlots
  <2>3. ~(t.capacity < t.capacity)
    BY <2>1
  <2>4. QED BY <1>1, <2>1, <2>2, <2>3
<1>2. MapInvariant => FreeSlotStays
  BY <1>1 DEF MapInvariant, FreeSlotStays
<1>3. QED BY <1>2, MapSound, PTL

\* What a lookup answers.
Answer(t, h, k) == IF Has(t, h, k) THEN Get(t, h, k) ELSE None

LEMMA AnswerOK ==
    ASSUME NEW t, NEW K, NEW V, NEW hash \in [K -> Nat], TableOK(t, hash, K, V),
           None \notin V, NEW k \in K
    PROVE  /\ \A v \in V : Answer(t, hash[k], k) = v <=> Maps(t, k, v)
           /\ Answer(t, hash[k], k) \in V \cup {None}
<1>1. /\ \A v \in V : Maps(t, k, v) => Has(t, hash[k], k) /\ Get(t, hash[k], k) = v
      /\ Has(t, hash[k], k) => Get(t, hash[k], k) \in V /\ Maps(t, k, Get(t, hash[k], k))
  BY Lookup
<1>2. QED BY <1>1 DEF Answer

\* What the lookups find, in terms of what the tables hold: in every state,
\* and in the state after a step.
LEMMA Lookups ==
    ASSUME MapInvariant
    PROVE  /\ \A id \in Ids, a \in Addrs : GetById(id) = a <=> Maps(entries, id, a)
           /\ \A a \in Addrs, id \in Ids : GetByAddress(a) = id <=> Maps(index, a, id)
           /\ \A id \in Ids : GetById(id) \in Addrs \cup {None}
           /\ \A a \in Addrs : GetByAddress(a) \in Ids \cup {None}
<1>1. None \notin Ids /\ None \notin Addrs
  BY ConnectionMapAssumption DEF ConnectionMapAssumption
<1>2. /\ TableOK(entries, IdHash, Ids, Addrs) /\ TableOK(index, AddrHash, Addrs, Ids)
      /\ IdHash \in [Ids -> Nat] /\ AddrHash \in [Addrs -> Nat]
  BY Hashes DEF MapInvariant
<1>3. /\ \A id \in Ids : GetById(id) = Answer(entries, IdHash[id], id)
      /\ \A a \in Addrs : GetByAddress(a) = Answer(index, AddrHash[a], a)
  BY DEF GetById, GetByAddress, Answer
<1>4. QED BY <1>1, <1>2, <1>3, AnswerOK

LEMMA LookupsNext ==
    ASSUME MapInvariant'
    PROVE  /\ \A id \in Ids, a \in Addrs : GetById(id)' = a <=> Maps(entries', id, a)
           /\ \A a \in Addrs, id \in Ids : GetByAddress(a)' = id <=> Maps(index', a, id)
           /\ \A id \in Ids : GetById(id)' \in Addrs \cup {None}
           /\ \A a \in Addrs : GetByAddress(a)' \in Ids \cup {None}
<1>1. None \notin Ids /\ None \notin Addrs
  BY ConnectionMapAssumption DEF ConnectionMapAssumption
<1>2. /\ TableOK(entries', IdHash, Ids, Addrs) /\ TableOK(index', AddrHash, Addrs, Ids)
      /\ IdHash \in [Ids -> Nat] /\ AddrHash \in [Addrs -> Nat]
  BY Hashes DEF MapInvariant
<1>3. /\ \A id \in Ids : GetById(id)' = Answer(entries', IdHash[id], id)
      /\ \A a \in Addrs : GetByAddress(a)' = Answer(index', AddrHash[a], a)
  BY DEF GetById, GetByAddress, Answer, IdHash
<1>4. QED BY <1>1, <1>2, <1>3, AnswerOK

\* krs_connection_map_get_by_address never returns a connection that has been
\* removed, nor one of another address: an ACK is applied to no connection
\* that has gone.
THEOREM IndexNeverStale == Spec /\ [][PutFits]_vars => []IndexSound
<1>1. ASSUME MapInvariant PROVE IndexSound
  <2> SUFFICES ASSUME NEW a \in Addrs, GetByAddress(a) # None
               PROVE  GetById(GetByAddress(a)) = a
    BY DEF IndexSound
  <2>1. GetByAddress(a) \in Ids
    BY <1>1, Lookups
  <2>2. Maps(index, a, GetByAddress(a))
    BY <1>1, <2>1, Lookups
  <2>3. Maps(entries, GetByAddress(a), a)
    BY <1>1, <2>1, <2>2 DEF MapInvariant
  <2>4. QED BY <1>1, <2>1, <2>3, Lookups
<1>2. QED BY <1>1, MapSound, PTL

\* Two answers that agree on every value are the same.
LEMMA SameAnswer ==
    ASSUME NEW A, None \notin A, NEW x \in A \cup {None}, NEW y \in A \cup {None},
           \A v \in A : x = v <=> y = v
    PROVE  x = y
OBVIOUS

\* The book that the tables stand for.
Book == [conns |-> [id \in Ids |-> GetById(id)], latest |-> [a \in Addrs |-> GetByAddress(a)]]

\* A put enters the new connection in the book.
LEMMA PutEnters ==
    ASSUME MapInvariant, MapInvariant', NEW a \in Addrs, Put(a), PutFits
    PROVE  Map!Next
<1>1. /\ nextId' \in Ids /\ nextId' = nextId + 1
      /\ \A id \in Ids, b \in Addrs :
            Maps(entries', id, b) <=> IF id = nextId' THEN b = a ELSE Maps(entries, id, b)
      /\ \A id \in Ids, b \in Addrs :
            Maps(index', b, id) <=> IF b = a THEN id = nextId' ELSE Maps(index, b, id)
  BY PutEffect
<1>2. None \notin Ids /\ None \notin Addrs
  BY ConnectionMapAssumption DEF ConnectionMapAssumption
<1>3. PICK new \in Ids : new = nextId'
  BY <1>1
<1>4. GetById(new) = None
  <2>1. ASSUME NEW b \in Addrs PROVE ~Maps(entries, new, b)
    <3>1. nextId \in Nat /\ ~(nextId + 1 <= nextId)
      BY DEF MapInvariant
    <3>2. QED BY <1>1, <1>3, <3>1 DEF MapInvariant
  <2>2. QED BY <2>1, Lookups
<1>5. ASSUME NEW id \in Ids PROVE GetById(id)' = IF id = new THEN a ELSE GetById(id)
  <2>1. CASE id = new
    BY <1>1, <1>3, <2>1, LookupsNext
  <2>2. CASE id # new
    <3>1. GetById(id)' \in Addrs \cup {None} /\ GetById(id) \in Addrs \cup {None}
      BY Lookups, LookupsNext
    <3>2. \A b \in Addrs : GetById(id)' = b <=> GetById(id) = b
      BY <1>1, <1>3, <2>2, Lookups, LookupsNext
    <3>3. GetById(id)' = GetById(id)
      BY <1>2, <3>1, <3>2, SameAnswer
    <3>4. QED BY <2>2, <3>3
  <2>3. QED BY <2>1, <2>2
<1>6. ASSUME NEW b \in Addrs PROVE GetByAddress(b)' = IF b = a THEN new ELSE GetByAddress(b)
  <2>1. CASE b = a
    BY <1>1, <1>3, <2>1, LookupsNext
  <2>2. CASE b # a
    <3>1. GetByAddress(b)' \in Ids \cup {None} /\ GetByAddress(b) \in Ids \cup {None}
      BY Lookups, LookupsNext
    <3>2. \A id \in Ids : GetByAddress(b)' = id <=> GetByAddress(b) = id
      BY <1>1, <1>3, <2>2, Lookups, LookupsNext
    <3>3. GetByAddress(b)' = GetByAddress(b)
      BY <1>2, <3>1, <3>2, SameAnswer
    <3>4. QED BY <2>2, <3>3
  <2>3. QED BY <2>1, <2>2
<1>7. [id \in Ids |-> GetById(id)'] = [[id \in Ids |-> GetById(id)] EXCEPT ![new] = a]
  BY <1>5
<1>8. [b \in Addrs |-> GetByAddress(b)'] = [[b \in Addrs |-> GetByAddress(b)] EXCEPT ![a] = new]
  BY <1>6
<1>9. Book' = [conns |-> [id \in Ids |-> GetById(id)'], latest |-> [b \in Addrs |-> GetByAddress(b)']]
  BY DEF Book
<1> DEFINE C == [id \in Ids |-> GetById(id)]
           L == [b \in Addrs |-> GetByAddress(b)]
<1>10. /\ Book = [conns |-> Book.conns, latest |-> Book.latest]
       /\ Book.conns = C /\ Book.latest = L
  BY DEF Book
<1>11. Book' = Map!Enter(Book, new, a)
  <2> DEFINE X == Map!Enter(Book, new, a)
  <2>1. X = [Book EXCEPT !.conns[new] = a, !.latest[a] = new]
    BY DEF Map!Enter
  <2> HIDE DEF X
  <2>2. X = [conns |-> [Book.conns EXCEPT ![new] = a], latest |-> [Book.latest EXCEPT ![a] = new]]
    BY <1>10, <2>1
  <2>3. QED BY <1>7, <1>8, <1>9, <1>10, <2>2 DEF X
<1>12. Book.conns[new] = None
  BY <1>4, <1>10
<1>13. Map!Enter(Book, new, a) \in Map!Changes(Book)
  BY <1>12 DEF Map!Changes
<1>14. QED BY <1>11, <1>13 DEF Map!Next, Book

\* A removal takes the connection and the entry of its address from the book.
LEMMA RemoveLeaves ==
    ASSUME MapInvariant, MapInvariant', NEW id \in Ids, Remove(id)
    PROVE  Map!Next
<1>1. PICK a \in Addrs :
         /\ Maps(entries, id, a)
         /\ \A jd \in Ids, b \in Addrs :
               Maps(entries', jd, b) <=> jd # id /\ Maps(entries, jd, b)
         /\ \A b \in Addrs, jd \in Ids :
               Maps(index', b, jd) <=> b # a /\ Maps(index, b, jd)
  BY RemoveEffect
<1>2. None \notin Ids /\ None \notin Addrs
  BY ConnectionMapAssumption DEF ConnectionMapAssumption
<1>3. GetById(id) = a
  BY <1>1, Lookups
<1>4. ASSUME NEW jd \in Ids PROVE GetById(jd)' = IF jd = id THEN None ELSE GetById(jd)
  <2>1. CASE jd = id
    BY <1>1, <2>1, LookupsNext
  <2>2. CASE jd # id
    <3>1. GetById(jd)' \in Addrs \cup {None} /\ GetById(jd) \in Addrs \cup {None}
      BY Lookups, LookupsNext
    <3>2. \A b \in Addrs : GetById(jd)' = b <=> GetById(jd) = b
      BY <1>1, <2>2, Lookups, LookupsNext
    <3>3. GetById(jd)' = GetById(jd)
      BY <1>2, <3>1, <3>2, SameAnswer
    <3>4. QED BY <2>2, <3>3
  <2>3. QED BY <2>1, <2>2
<1>5. ASSUME NEW b \in Addrs PROVE GetByAddress(b)' = IF b = a THEN None ELSE GetByAddress(b)
  <2>1. CASE b = a
    BY <1>1, <2>1, LookupsNext
  <2>2. CASE b # a
    <3>1. GetByAddress(b)' \in Ids \cup {None} /\ GetByAddress(b) \in Ids \cup {None}
      BY Lookups, LookupsNext
    <3>2. \A jd \in Ids : GetByAddress(b)' = jd <=> GetByAddress(b) = jd
      BY <1>1, <2>2, Lookups, LookupsNext
    <3>3. GetByAddress(b)' = GetByAddress(b)
      BY <1>2, <3>1, <3>2, SameAnswer
    <3>4. QED BY <2>2, <3>3
  <2>3. QED BY <2>1, <2>2
<1> DEFINE C == [jd \in Ids |-> GetById(jd)]
           L == [b \in Addrs |-> GetByAddress(b)]
<1>6. [jd \in Ids |-> GetById(jd)'] = [C EXCEPT ![id] = None]
  BY <1>4
<1>7. [b \in Addrs |-> GetByAddress(b)'] = [L EXCEPT ![a] = None]
  BY <1>5
<1>8. Book' = [conns |-> [jd \in Ids |-> GetById(jd)'], latest |-> [b \in Addrs |-> GetByAddress(b)']]
  BY DEF Book
<1>9. /\ Book = [conns |-> Book.conns, latest |-> Book.latest]
      /\ Book.conns = C /\ Book.latest = L
  BY DEF Book
<1>10. Book.conns[id] = a
  BY <1>3, <1>9
<1>11. Book' = Map!Leave(Book, id)
  <2> DEFINE X == Map!Leave(Book, id)
  <2>1. X = [Book EXCEPT !.conns[id] = None, !.latest[a] = None]
    BY <1>10 DEF Map!Leave
  <2> HIDE DEF X
  <2>2. X = [conns |-> [Book.conns EXCEPT ![id] = None], latest |-> [Book.latest EXCEPT ![a] = None]]
    BY <1>9, <2>1
  <2>3. QED BY <1>6, <1>7, <1>8, <1>9, <2>2 DEF X
<1>12. Book.conns[id] # None
  BY <1>2, <1>10
<1>13. Map!Leave(Book, id) \in Map!Changes(Book)
  BY <1>12 DEF Map!Changes
<1>14. QED BY <1>11, <1>13 DEF Map!Next, Book

\* connection_map.c keeps its promise to its callers: whatever collisions,
\* tombstones, reused slots, growths and failed growths a history has, the
\* lookups by id and by address answer as the plain map of AddressBook does,
\* and each put and each removal is one operation of it.
THEOREM MapImplementsBook == Spec /\ [][PutFits]_vars => ImplementsMap
<1>1. Init => Map!Init
  <2> SUFFICES ASSUME Init PROVE Map!Init
    OBVIOUS
  <2>1. MapInvariant
    BY MapInit
  <2>2. \A k, v : ~Maps(entries, k, v) /\ ~Maps(index, k, v)
    <3>1. InitialCapacity \in Nat \ {0}
      BY ConnectionMapAssumption DEF ConnectionMapAssumption
    <3>2. QED BY <3>1, NewTableOK DEF Init
  <2>3. \A id \in Ids : GetById(id) = None
    BY <2>1, <2>2, Lookups
  <2>4. \A a \in Addrs : GetByAddress(a) = None
    BY <2>1, <2>2, Lookups
  <2>5. QED BY <2>3, <2>4 DEF Map!Init
<1>2. ASSUME MapInvariant, MapInvariant', [Next]_vars, [PutFits]_vars
      PROVE  [Map!Next]_Book
  <2>0. PutFits
    BY <1>2 DEF PutFits, vars
  <2>1. ASSUME NEW a \in Addrs, Put(a) PROVE Map!Next
    BY <1>2, <2>0, <2>1, PutEnters
  <2>2. ASSUME NEW id \in Ids, Remove(id) PROVE Map!Next
    BY <1>2, <2>2, RemoveLeaves
  <2>3. CASE UNCHANGED vars
    <3>1. entries' = entries /\ index' = index
      BY <2>3 DEF vars
    <3>2. Book' = Book
      BY <3>1 DEF Book, GetById, GetByAddress, IdHash
    <3>3. QED BY <3>2
  <2>4. QED BY <1>2, <2>1, <2>2, <2>3 DEF Next
<1>3. MapInvariant /\ MapInvariant' /\ [Next]_vars /\ [PutFits]_vars =>
         [Map!Next]_([conns |-> [id \in Ids |-> GetById(id)],
                      latest |-> [a \in Addrs |-> GetByAddress(a)]])
  BY <1>2 DEF Book
<1>4. QED BY <1>1, <1>3, MapSound, PTL DEF Spec, ImplementsMap, Map!Spec

\* The condition of the theorems holds when no allocation fails, with any
\* number of connections; and it holds whatever fails, when there are never
\* more connections than the map has slots to begin with.
THEOREM PutsFit ==
    ASSUME MaxFailures = 0 \/ MaxLive <= InitialCapacity
    PROVE  Spec => [][PutFits]_vars
<1>1. ASSUME MapInvariant, [Next]_vars PROVE PutFits
  <2> SUFFICES ASSUME NEW a \in Addrs, Put(a), failed' # 0
               PROVE  entries.count < entries.capacity /\ index.count < index.capacity
    <3>1. ASSUME NEW id \in Ids, Remove(id) PROVE nextId' = nextId
      BY <3>1 DEF Remove
    <3>2. UNCHANGED vars => nextId' = nextId
      BY DEF vars
    <3>3. QED BY <1>1, <3>1, <3>2 DEF Next, PutFits
  <2>1. /\ entries.capacity >= InitialCapacity /\ index.capacity >= InitialCapacity
        /\ TableOK(entries, IdHash, Ids, Addrs) /\ TableOK(index, AddrHash, Addrs, Ids)
        /\ failed \in Nat
    BY <1>1 DEF MapInvariant
  <2>2. InitialCapacity \in Nat /\ MaxLive \in Nat /\ MaxFailures \in Nat
    BY ConnectionMapAssumption DEF ConnectionMapAssumption
  <2>3. MaxFailures # 0
    <3>1. PICK f \in Failures(entries), g \in Failures(index) :
             failed' = failed + f + g /\ failed' <= MaxFailures
      BY DEF Put
    <3>2. f \in {0, 1} /\ g \in {0, 1}
      BY DEF Failures
    <3>3. QED BY <2>1, <2>2, <3>1, <3>2
  <2>4. MaxLive <= InitialCapacity
    BY <2>3
  <2>5. /\ IsFiniteSet(Live)
        /\ entries.count <= Cardinality(Live) /\ index.count <= Cardinality(Live)
    BY <1>1, FewLive
  <2>6. Cardinality(Live) < MaxLive
    BY DEF Put
  <2>7. Cardinality(Live) \in Nat
    BY <2>5, FS_CardinalityType
  <2>8. /\ entries.capacity \in Nat /\ entries.count \in Nat
        /\ index.capacity \in Nat /\ index.count \in Nat
    BY <2>1, TableCounts
  <2>9. QED BY <2>1, <2>2, <2>4, <2>5, <2>6, <2>7, <2>8
<1>2. MapInvariant /\ [Next]_vars => MapInvariant' /\ [PutFits]_vars
  BY <1>1, MapStep
<1>3. QED BY <1>2, MapInit, PTL DEF Spec
=============================================================================
