------------------------------ MODULE HashTable ------------------------------
(***************************************************************************)
(* The open-addressing tables of connection_map.c: the table of            *)
(* connections by id (entries) and the index by address (addr_entries)     *)
(* use the same algorithm, written twice in the code.  A table is          *)
(*                                                                         *)
(*   [capacity, slots, count, tombstones]  with slots[0 .. capacity - 1]   *)
(*                                                                         *)
(* and a slot is Empty (not occupied), a Tombstone (occupied and deleted:  *)
(* nothing else of it is read again) or [key, value].  Probing is linear   *)
(* from the key's hash; it ends at a slot that was never used, at the live *)
(* slot of the key, or after capacity slots.  Capacities are powers of     *)
(* two, so the code's mask is the remainder.                               *)
(***************************************************************************)
EXTENDS Integers, FiniteSets

Empty == [occupied |-> FALSE]
Tombstone == [occupied |-> TRUE, deleted |-> TRUE]

NewTable(cap) ==
    [capacity |-> cap, slots |-> [i \in 0 .. cap - 1 |-> Empty],
     count |-> 0, tombstones |-> 0]

Used(k, v) == [occupied |-> TRUE, deleted |-> FALSE, key |-> k, value |-> v]

LiveSlots(t) == {i \in DOMAIN t.slots : t.slots[i] \notin {Empty, Tombstone}}
DeadSlots(t) == {i \in DOMAIN t.slots : t.slots[i] = Tombstone}

\* The slot of the d-th probe for hash h.
At(t, h, d) == (h + d) % t.capacity

Least(S) == CHOOSE d \in S : \A e \in S : d <= e

\* Probing for k stops at distance d.
Stops(t, h, k, d) ==
    \/ d = t.capacity
    \/ ~t.slots[At(t, h, d)].occupied
    \/ t.slots[At(t, h, d)] # Tombstone /\ t.slots[At(t, h, d)].key = k

\* The number of slots that probing for k passes over.
Probe(t, h, k) ==
    CHOOSE d \in 0 .. t.capacity :
        Stops(t, h, k, d) /\ \A e \in 0 .. d - 1 : ~Stops(t, h, k, e)

\* krs_connection_map_get and krs_connection_map_get_by_address: whether k
\* is found, and in which slot.
Has(t, h, k) ==
    LET d == Probe(t, h, k) IN d < t.capacity /\ t.slots[At(t, h, d)].occupied

Find(t, h, k) == At(t, h, Probe(t, h, k))

Get(t, h, k) == t.slots[Find(t, h, k)].value
-----------------------------------------------------------------------------
\* Mutant of Full: tombstones are left out of the load.
FullOfLive(t) == t.count * 4 >= t.capacity * 3

\* An insertion first grows a table that is three quarters full.
Full(t) == (t.count + t.tombstones) * 4 >= t.capacity * 3

\* Mutant of Rehash: two keys of one hash share a slot.
RehashOver(s, hash, slots, cap) == [slots EXCEPT ![hash[s.key] % cap] = s]

\* A live slot goes to the first free slot of the new array.
Rehash(s, hash, slots, cap) ==
    LET d == Least({e \in 0 .. cap - 1 : ~slots[(hash[s.key] + e) % cap].occupied})
    IN [slots EXCEPT ![(hash[s.key] + d) % cap] = s]

\* s_grow and s_addr_grow: the live slots, from the first to the last, into
\* an array of twice the size.
Grow(t, hash) ==
    LET new == NewTable(2 * t.capacity)
        fill[i \in 0 .. t.capacity] ==
            IF i = 0 THEN new.slots
            ELSE IF i - 1 \in LiveSlots(t)
                 THEN Rehash(t.slots[i - 1], hash, fill[i - 1], new.capacity)
                 ELSE fill[i - 1]
    IN [new EXCEPT !.slots = fill[t.capacity], !.count = Cardinality(LiveSlots(t))]

\* The table an insertion works on; calloc may refuse the larger array, and
\* then the old one stays.
Room(t, hash, fails) == IF Full(t) /\ ~fails THEN Grow(t, hash) ELSE t

\* The tombstones on the way to the end of the probe.
Reusable(t, h, k) == {d \in 0 .. Probe(t, h, k) - 1 : At(t, h, d) \in DeadSlots(t)}

\* Mutant of Insert: the first tombstone is taken before the rest of the
\* probe sequence has been searched for the key.
InsertEarly(t, h, k, v) ==
    IF Reusable(t, h, k) # {}
    THEN [t EXCEPT !.slots[At(t, h, Least(Reusable(t, h, k)))] = Used(k, v),
                   !.count = @ + 1, !.tombstones = @ - 1]
    ELSE IF Has(t, h, k)
    THEN [t EXCEPT !.slots[Find(t, h, k)].value = v]
    ELSE [t EXCEPT !.slots[Find(t, h, k)] = Used(k, v), !.count = @ + 1]

\* Mutant of Insert: a reused tombstone stays counted.
InsertKeepsTombstones(t, h, k, v) ==
    IF Has(t, h, k)
    THEN [t EXCEPT !.slots[Find(t, h, k)].value = v]
    ELSE IF Reusable(t, h, k) # {}
    THEN [t EXCEPT !.slots[At(t, h, Least(Reusable(t, h, k)))] = Used(k, v),
                   !.count = @ + 1]
    ELSE [t EXCEPT !.slots[Find(t, h, k)] = Used(k, v), !.count = @ + 1]

\* The key's live slot is updated; otherwise the first tombstone passed over
\* is reused, or the slot where the probe ended (the key's own hash when
\* every slot is in use) is taken.
Insert(t, h, k, v) ==
    IF Has(t, h, k)
    THEN [t EXCEPT !.slots[Find(t, h, k)].value = v]
    ELSE IF Reusable(t, h, k) # {}
    THEN [t EXCEPT !.slots[At(t, h, Least(Reusable(t, h, k)))] = Used(k, v),
                   !.count = @ + 1, !.tombstones = @ - 1]
    ELSE [t EXCEPT !.slots[Find(t, h, k)] = Used(k, v), !.count = @ + 1]

\* Mutant of Delete: the slot becomes free again instead of a tombstone.
DeleteToEmpty(t, h, k) ==
    IF Has(t, h, k)
    THEN [t EXCEPT !.slots[Find(t, h, k)] = Empty, !.count = @ - 1]
    ELSE t

\* The live slot of the key, if there is one, becomes a tombstone.
Delete(t, h, k) ==
    IF Has(t, h, k)
    THEN [t EXCEPT !.slots[Find(t, h, k)] = Tombstone,
                   !.count = @ - 1, !.tombstones = @ + 1]
    ELSE t
=============================================================================
