---------------------------- MODULE ConnectionMap ----------------------------
(***************************************************************************)
(* The server's connection map (connection_map.c): a table of connections  *)
(* by id and an index by remote address.  Every put and remove runs under  *)
(* the map's exclusive lock and every lookup under its shared lock, so     *)
(* each is one step.  Ids come from a counter and are never reused; two    *)
(* connections of one address can be in the map at once (a client that     *)
(* disconnects and connects again while its first connection is finalised, *)
(* or one that connects to two ports).                                     *)
(***************************************************************************)
EXTENDS HashTable

CONSTANTS Addrs,
          AddrHash,         \* s_hash_address: the hash of each address
          None,
          InitialCapacity,  \* a power of two, at least 16 in the code
          MaxId,            \* bound on the connections ever created
          MaxLive,          \* bound on those in the map at once
          MaxFailures       \* bound on the allocations that fail

Ids == 1 .. MaxId

ASSUME ConnectionMapAssumption ==
    /\ None \notin Ids \cup Addrs
    /\ AddrHash \in [Addrs -> Nat]
    /\ InitialCapacity \in Nat /\ InitialCapacity >= 4
    /\ MaxId \in Nat /\ MaxFailures \in Nat /\ MaxLive \in Nat

VARIABLES entries,  \* the table by id; the value of a slot is the connection's address
          index,    \* the table by address; the value of a slot is an id
          nextId,   \* s_next_connection_id
          failed    \* number of growths that found no memory

vars == <<entries, index, nextId, failed>>

IdHash == [id \in Ids |-> id]

Live == {entries.slots[i].key : i \in LiveSlots(entries)}

Init ==
    /\ entries = NewTable(InitialCapacity)
    /\ index = NewTable(InitialCapacity)
    /\ nextId = 0
    /\ failed = 0

\* A growth that is due may fail.
Failures(t) == IF Full(t) /\ failed < MaxFailures THEN {0, 1} ELSE {0}

\* krs_connection_map_put for a new connection, with s_addr_put.
Put(a) ==
    /\ nextId < MaxId
    /\ Cardinality(Live) < MaxLive
    /\ nextId' = nextId + 1
    /\ \E f \in Failures(entries), g \in Failures(index) :
          /\ failed' = failed + f + g
          /\ failed' <= MaxFailures
          /\ entries' = Insert(Room(entries, IdHash, f = 1), IdHash[nextId'], nextId', a)
          /\ index' = Insert(Room(index, AddrHash, g = 1), AddrHash[a], a, nextId')

\* Mutant of Remove: the entry of the address stays.
RemoveIdOnly(id) ==
    /\ Has(entries, IdHash[id], id)
    /\ entries' = Delete(entries, IdHash[id], id)
    /\ UNCHANGED <<index, nextId, failed>>

\* krs_connection_map_remove, with s_addr_remove.
Remove(id) ==
    /\ Has(entries, IdHash[id], id)
    /\ LET a == Get(entries, IdHash[id], id) IN index' = Delete(index, AddrHash[a], a)
    /\ entries' = Delete(entries, IdHash[id], id)
    /\ UNCHANGED <<nextId, failed>>

Next ==
    \/ \E a \in Addrs : Put(a)
    \/ \E id \in Ids : Remove(id)

Spec == Init /\ [][Next]_vars
-----------------------------------------------------------------------------
\* What krs_connection_map_get finds for an id, and
\* krs_connection_map_get_by_address for an address.
GetById(id) ==
    IF Has(entries, IdHash[id], id) THEN Get(entries, IdHash[id], id) ELSE None
GetByAddress(a) ==
    IF Has(index, AddrHash[a], a) THEN Get(index, AddrHash[a], a) ELSE None

\* The counters that decide when to grow agree with the slots, after every
\* reuse of a tombstone, update in place, removal and growth.
CountsExact ==
    \A t \in {entries, index} :
        /\ t.count = Cardinality(LiveSlots(t))
        /\ t.tombstones = Cardinality(DeadSlots(t))

\* As long as no growth has failed a table keeps a slot that was never used:
\* a search for what is not there ends at it, and an insertion that finds no
\* tombstone never overwrites a slot in use.
FreeSlotStays ==
    failed = 0 =>
        \A t \in {entries, index} : LiveSlots(t) \cup DeadSlots(t) # DOMAIN t.slots

\* What the index says of an address is never stale: it names a connection
\* of that address that is still in the map, so that an ACK is never applied
\* to a connection that has gone.
IndexSound ==
    \A a \in Addrs : GetByAddress(a) # None => GetById(GetByAddress(a)) = a

\* The tables behave as the map they stand for: each lookup by id finds the
\* connection, each lookup by address the one entered last, whatever
\* tombstones, collisions, reused slots, growths and failed growths came
\* before.
Map == INSTANCE AddressBook
           WITH book <- [conns |-> [id \in Ids |-> GetById(id)],
                         latest |-> [a \in Addrs |-> GetByAddress(a)]]
ImplementsMap == Map!Spec
=============================================================================
