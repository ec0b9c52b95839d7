-------------------------------- MODULE Ports --------------------------------
(***************************************************************************)
(* The server's registry of ports: krs_server_port_manager_create, _port_  *)
(* add and _destroy (server_port_manager_lifecycle.c), the descriptors     *)
(* with their sockets (socket_handler_lifecycle.c), the chained hash table *)
(* that finds a port's descriptor (lib/port_table), the descriptor list    *)
(* (lib/array), and the reference count of Winsock (wsa_lifecycle.c) that  *)
(* the manager shares with krs_server_start and krs_server_stop            *)
(* (iocp_lifecycle.c) and with the clients of the same process             *)
(* (client_connection.c).                                                  *)
(*                                                                         *)
(* A chain of the table is a set of descriptors: the order of its links is *)
(* never seen, as no chain has two links of one port.  One thread calls    *)
(* the manager; the clients run beside it, so that every call is split     *)
(* where it takes and gives back its reference to Winsock.  Each           *)
(* allocation may fail.                                                    *)
(***************************************************************************)
EXTENDS Integers, Sequences, FiniteSets

CONSTANTS Descs,   \* descriptors, each with its socket
          Clients  \* client connections of the process

Ports == 0 .. 65535
NoPort == 65536

PrimeSizes == <<17, 31, 67, 131, 257, 521, 1031, 2053, 4099, 8209, 16411, 32771, 65537>>

\* HASH_PORT_INDEX, in 32 bits.
Hash(port, size) == ((port * 2654435761) % 4294967296) % size

VARIABLES
    alive,     \* the port manager exists
    running,   \* spm->running
    call,      \* the call in progress: "idle", "add" or "start"
    asked,     \* the port that is being added
    tab,       \* spm->port_table: [level, slots, entries]
    list,      \* spm->descriptor_list
    capacity,  \* its capacity
    portOf,    \* the port of each descriptor ever created
    open,      \* descriptors that exist, with their sockets
    client,    \* state of each client connection
    wsa,       \* s_wsa_ref_count
    lost,      \* descriptors the table has no link to
    gone       \* descriptors that were destroyed although it has one

manager == <<alive, running, call, asked>>
registry == <<tab, list, capacity, portOf, open, lost, gone>>
vars == <<manager, registry, client, wsa>>

Size(t) == PrimeSizes[t.level + 1]
Linked(t) == UNION {t.slots[i] : i \in 0 .. Size(t) - 1}

\* The links of S in the buckets of a table.
Buckets(S, size) == [i \in 0 .. size - 1 |-> {d \in S : Hash(portOf[d], size) = i}]

NewTable == [level |-> 0, slots |-> [i \in 0 .. PrimeSizes[1] - 1 |-> {}], entries |-> 0]

\* krs_lib_port_table_lookup: the descriptors it may find for a port.
Lookup(port) == {d \in tab.slots[Hash(port, Size(tab))] : portOf[d] = port}

Init ==
    /\ alive = FALSE /\ running = FALSE
    /\ call = "idle" /\ asked = NoPort
    /\ tab = NewTable
    /\ list = <<>> /\ capacity = 8
    /\ portOf = [d \in Descs |-> NoPort]
    /\ open = {}
    /\ client = [c \in Clients |-> "none"]
    /\ wsa = 0
    /\ lost = {} /\ gone = {}
-----------------------------------------------------------------------------
(* krs_wsa_init and krs_wsa_cleanup, each under s_wsa_lock.                *)

WsaInit == wsa' = wsa + 1
WsaCleanup == wsa' = wsa - 1
-----------------------------------------------------------------------------
(* The port table.                                                         *)

\* The load factor is above 1.5.
Overloaded(t) == 2 * t.entries > 3 * Size(t)

\* port_table_rebuild with the links of K copied; a link that finds no
\* memory is left out.
Rebuilt(t, K) ==
    [level |-> t.level + 1, slots |-> Buckets(K, PrimeSizes[t.level + 2]),
     entries |-> Cardinality(K)]

\* The table stays as it is at the largest size, or without memory.
Rebuilds(t) ==
    {t} \cup (IF t.level + 1 < Len(PrimeSizes)
              THEN {Rebuilt(t, K) : K \in SUBSET Linked(t)} ELSE {})

Link(t, d, port) ==
    [t EXCEPT !.slots[Hash(port, Size(t))] = @ \cup {d}, !.entries = @ + 1]

\* port_table_insert: a port that has a link, or a link that finds no
\* memory, leaves the table unchanged.
Inserts(t, d, port) ==
    {t} \cup (IF \E e \in t.slots[Hash(port, Size(t))] : portOf[e] = port
              THEN {} ELSE {Link(t, d, port)})

\* krs_lib_port_table_insert; its caller is not told how it went.
TableInsert(d, port) ==
    \E t \in (IF Overloaded(tab) THEN Rebuilds(tab) ELSE {tab}) :
        tab' \in Inserts(t, d, port)
-----------------------------------------------------------------------------
(* The port manager.                                                       *)

\* krs_server_port_manager_create
Create ==
    /\ ~alive
    /\ alive' = TRUE
    /\ tab' = NewTable
    /\ list' = <<>> /\ capacity' = 8
    /\ UNCHANGED <<running, call, asked, portOf, open, lost, gone, client, wsa>>

\* krs_server_port_manager_port_add and _port_add_with_address
AddBegin(port) ==
    /\ alive
    /\ call = "idle"
    /\ call' = "add" /\ asked' = port
    /\ WsaInit
    /\ UNCHANGED <<alive, running, registry, client>>

\* The call returns.
Return == call' = "idle" /\ asked' = NoPort

\* The descriptor or its socket cannot be created.
AddFails ==
    /\ call = "add"
    /\ Return
    /\ WsaCleanup
    /\ UNCHANGED <<alive, running, registry, client>>

\* The descriptor is created and goes into the table, if that takes it.
Register(d) ==
    /\ call = "add"
    /\ portOf[d] = NoPort
    /\ portOf' = [portOf EXCEPT ![d] = asked]
    /\ TableInsert(d, asked)
    /\ Return
    /\ UNCHANGED <<alive, running, client>>

\* krs_array_push succeeds.
AddDone(d) ==
    /\ Register(d)
    /\ list' = Append(list, d)
    /\ capacity' = IF Len(list) < capacity THEN capacity ELSE 2 * capacity
    /\ open' = open \cup {d}
    /\ lost' = lost \cup ((Linked(tab) \cup {d}) \ Linked(tab'))
    /\ UNCHANGED <<gone, wsa>>

\* krs_array_push has no room and finds no memory: the descriptor is
\* destroyed, and its link stays.
AddUndone(d) ==
    /\ Register(d)
    /\ Len(list) >= capacity
    /\ gone' = gone \cup ({d} \cap Linked(tab'))
    /\ lost' = lost \cup (Linked(tab) \ Linked(tab'))
    /\ WsaCleanup
    /\ UNCHANGED <<list, capacity, open>>

\* krs_server_port_manager_destroy, of a server that does not run: the
\* descriptors with a link are destroyed, and one reference to Winsock is
\* given back for each element of the list.
Destroy ==
    /\ alive /\ ~running
    /\ call = "idle"
    /\ alive' = FALSE
    /\ open' = open \ Linked(tab)
    /\ tab' = NewTable
    /\ list' = <<>>
    /\ wsa' = wsa - Len(list)
    /\ UNCHANGED <<running, call, asked, capacity, portOf, lost, gone, client>>
-----------------------------------------------------------------------------
(* The other users of Winsock.                                             *)

\* krs_server_start
StartBegin ==
    /\ alive /\ ~running
    /\ call = "idle"
    /\ call' = "start"
    /\ WsaInit
    /\ UNCHANGED <<alive, running, asked, registry, client>>

StartFails ==
    /\ call = "start"
    /\ Return
    /\ WsaCleanup
    /\ UNCHANGED <<alive, running, registry, client>>

StartDone ==
    /\ call = "start"
    /\ Return
    /\ running' = TRUE
    /\ UNCHANGED <<alive, registry, client, wsa>>

\* krs_server_stop
Stop ==
    /\ running
    /\ call = "idle"
    /\ running' = FALSE
    /\ WsaCleanup
    /\ UNCHANGED <<alive, call, asked, registry, client>>

\* krs_client_server_connect
ConnectBegin(c) ==
    /\ client[c] = "none"
    /\ client' = [client EXCEPT ![c] = "connecting"]
    /\ WsaInit
    /\ UNCHANGED <<manager, registry>>

ConnectDone(c) ==
    /\ client[c] = "connecting"
    /\ client' = [client EXCEPT ![c] = "connected"]
    /\ UNCHANGED <<manager, registry, wsa>>

\* krs_client_disconnect, or one of the failures of a connect.
ClientEnds(c) ==
    /\ client[c] # "none"
    /\ client' = [client EXCEPT ![c] = "none"]
    /\ WsaCleanup
    /\ UNCHANGED <<manager, registry>>
-----------------------------------------------------------------------------
Next ==
    \/ Create \/ Destroy
    \/ \E port \in Ports : AddBegin(port)
    \/ AddFails
    \/ \E d \in Descs : AddDone(d) \/ AddUndone(d)
    \/ StartBegin \/ StartFails \/ StartDone \/ Stop
    \/ \E c \in Clients : ConnectBegin(c) \/ ConnectDone(c) \/ ClientEnds(c)

Spec == Init /\ [][Next]_vars
-----------------------------------------------------------------------------
ActiveClients == {c \in Clients : client[c] # "none"}

\* One for each port of the list, one for the call or the server that runs,
\* one for each client.
References ==
    Len(list) + (IF call = "idle" THEN 0 ELSE 1) + (IF running THEN 1 ELSE 0)
              + Cardinality(ActiveClients)

\* s_wsa_ref_count counts the users of Winsock exactly, on every path of
\* every call: WSACleanup is never called too early or forgotten.
WsaExact == wsa = References

\* The lookup finds the one descriptor of a port whose insertion was not
\* refused, wherever the rebuilds have moved it, and nothing but descriptors
\* of that port.
Findable ==
    alive =>
        /\ \A d \in open \ lost : Lookup(portOf[d]) = {d}
        /\ \A port \in Ports : Lookup(port) \subseteq open \cup gone

\* Without its manager no socket stays open, except those of the descriptors
\* the table had refused or lost.
AllClosed == ~alive => open \subseteq lost

\* total_entries, which decides when to rebuild, is the number of links.
EntriesExact == tab.entries = Cardinality(Linked(tab))
=============================================================================
