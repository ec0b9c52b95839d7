----------------------------- MODULE AddressBook -----------------------------
(***************************************************************************)
(* What connection_map.c promises its callers: a finite map from ids to    *)
(* the connections' addresses, and for each address the connection that    *)
(* was entered last.  Removing a connection takes the entry of its address *)
(* along, whichever connection it names.                                   *)
(***************************************************************************)
CONSTANTS Ids, Addrs, None

VARIABLE book  \* conns: the address of each connection in the map, or None;
               \* latest: the id found for each address, or None

Init == book = [conns |-> [id \in Ids |-> None], latest |-> [a \in Addrs |-> None]]

Enter(b, id, a) == [b EXCEPT !.conns[id] = a, !.latest[a] = id]

Leave(b, id) == [b EXCEPT !.conns[id] = None, !.latest[b.conns[id]] = None]

\* The books one operation away from b.
Changes(b) ==
    {Enter(b, id, a) : id \in {i \in Ids : b.conns[i] = None}, a \in Addrs} \cup
    {Leave(b, id) : id \in {i \in Ids : b.conns[i] # None}}

Next == book' \in Changes(book)

Spec == Init /\ [][Next]_book
=============================================================================
