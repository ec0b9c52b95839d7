----------------------------- MODULE Connections -----------------------------
(***************************************************************************)
(* The life of the server's connections on one port: the handler threads   *)
(* that create and remove them (server_connection_handler.c,               *)
(* message_handler.c), the eviction of silent ones (retransmit_thread.c),  *)
(* the connection map with its address index (connection_map.c) and the    *)
(* threads that send to them (server_broadcast.c), up to the sweep of      *)
(* krs_server_stop (iocp_lifecycle.c).  Each critical section is a step.   *)
(* A connection object is also its id.                                     *)
(*                                                                         *)
(* Datagrams of a client wait in wire until a handler takes them, in any   *)
(* order or never; with Repeats, a datagram may be taken again, and a      *)
(* client may give up an attempt to connect and start another.             *)
(***************************************************************************)
EXTENDS Integers, FiniteSets

CONSTANTS Conns,         \* connection objects and their ids
          NoConn,
          Addrs,         \* remote addresses
          AppChannels,   \* channels one can subscribe to
          Handlers, Retransmitter, Stopper, Senders,   \* threads
          MaxSessions,   \* bound on the sessions started from an address
          MaxEvictions,  \* MAX_EVICTIONS_PER_CYCLE, 64 in the code
          Repeats        \* whether datagrams and attempts are repeated

Channels == AppChannels \cup {0}
Workers == Handlers \cup {Retransmitter}
Threads == Workers \cup {Stopper}

ASSUME ConnectionsAssumption ==
    /\ NoConn \notin Conns \cup Addrs
    /\ 0 \notin AppChannels
    /\ Retransmitter \notin Handlers /\ Stopper \notin Workers
    /\ MaxSessions \in Nat
    /\ MaxEvictions \in Nat
    /\ Repeats \in BOOLEAN

VARIABLES
    client,    \* state of the client at each address
    started,   \* number of sessions it has started
    wire,      \* its datagrams: [type, addr, ch]
    chans,     \* channel_states[ch].connections, for each channel
    remote,    \* conn->remote_address
    refcount,  \* conn->refcount
    freed,     \* objects that were freed
    map,       \* ids in the connection map
    index,     \* its address index
    quiet,     \* connections without a heartbeat for KRS_HEARTBEAT_TIMEOUT_MS
    pc,        \* where each protocol thread is
    newconn,   \* the connection a handler is creating
    orphans,   \* the connections a thread is finalising
    holds,     \* the connections a sending thread holds a reference to
    running,   \* spm->running
    connected, \* connections for which connect_callback was called
    closed,    \* number of disconnect_callbacks for each connection
    late       \* connections put into the map after they were taken out of it

peers == <<client, started, wire>>
objects == <<chans, remote, refcount, freed, map, index, quiet>>
threads == <<pc, newconn, orphans, holds, running>>
seen == <<connected, closed, late>>
vars == <<peers, objects, threads, seen>>

Listed == UNION {chans[ch] : ch \in Channels}
Created == {c \in Conns : remote[c] # NoConn}

Init ==
    /\ client = [a \in Addrs |-> "idle"]
    /\ started = [a \in Addrs |-> 0]
    /\ wire = {}
    /\ chans = [ch \in Channels |-> {}]
    /\ remote = [c \in Conns |-> NoConn]
    /\ refcount = [c \in Conns |-> 0]
    /\ freed = {}
    /\ map = {}
    /\ index = [a \in Addrs |-> NoConn]
    /\ quiet = {}
    /\ pc = [t \in Threads |-> "idle"]
    /\ newconn = [t \in Threads |-> NoConn]
    /\ orphans = [t \in Threads |-> {}]
    /\ holds = [s \in Senders |-> {}]
    /\ connected = {}
    /\ closed = [c \in Conns |-> 0]
    /\ running = TRUE
    /\ late = {}
-----------------------------------------------------------------------------
(* The clients.                                                            *)

Datagram(type, a, ch) == [type |-> type, addr |-> a, ch |-> ch]

\* krs_client_server_connect sends CONNECTION and waits for SOCKET_ACK.  A
\* later session may be given the same port, and so the same address.
ClientConnect(a) ==
    /\ client[a] = "idle"
    /\ started[a] < MaxSessions
    /\ client' = [client EXCEPT ![a] = "connecting"]
    /\ started' = [started EXCEPT ![a] = @ + 1]
    /\ wire' = wire \cup {Datagram("CONNECTION", a, 0)}
    /\ UNCHANGED <<objects, threads, seen>>

\* No SOCKET_ACK within 5 s.
ClientGivesUp(a) ==
    /\ Repeats
    /\ client[a] = "connecting"
    /\ client' = [client EXCEPT ![a] = "idle"]
    /\ UNCHANGED <<started, wire, objects, threads, seen>>

\* krs_client_subscribe and krs_client_unsubscribe send their frame.
ClientAsks(a, type, ch) ==
    /\ client[a] = "connected"
    /\ wire' = wire \cup {Datagram(type, a, ch)}
    /\ UNCHANGED <<client, started, objects, threads, seen>>

\* krs_client_disconnect
ClientDisconnect(a) ==
    /\ client[a] = "connected"
    /\ client' = [client EXCEPT ![a] = "idle"]
    /\ wire' = wire \cup {Datagram("DISCONNECT", a, 0)}
    /\ UNCHANGED <<started, objects, threads, seen>>

\* No heartbeat arrives from the client for 30 s.  A connection that is
\* being created is not that old.
HeartbeatsStop(c) ==
    /\ c \in Listed
    /\ \A t \in Threads : newconn[t] # c
    /\ quiet' = quiet \cup {c}
    /\ UNCHANGED <<peers, chans, remote, refcount, freed, map, index, threads, seen>>

\* krs_server_handle_heartbeat_frame
Heartbeat(a) ==
    /\ client[a] = "connected"
    /\ quiet' = {c \in quiet : c \notin Listed \/ remote[c] # a}
    /\ UNCHANGED <<peers, chans, remote, refcount, freed, map, index, threads, seen>>

\* A handler takes datagram d from the queue.
Takes(h, d) ==
    /\ running
    /\ pc[h] = "idle"
    /\ d \in wire
    /\ \/ wire' = wire \ {d}
       \/ Repeats /\ wire' = wire

\* SOCKET_ACK is sent to address a: it may arrive, and may be lost.
SocketAck(a) ==
    \/ UNCHANGED client
    \/ client[a] = "connecting" /\ client' = [client EXCEPT ![a] = "connected"]
-----------------------------------------------------------------------------
(* krs_server_handle_connection_frame.                                     *)

OnChannel0(a) == {c \in chans[0] : remote[c] = a}

\* The address is connected already: its heartbeat is refreshed.
ConnectAgain(h, a) ==
    /\ Takes(h, Datagram("CONNECTION", a, 0))
    /\ OnChannel0(a) # {}
    /\ quiet' = quiet \ OnChannel0(a)
    /\ SocketAck(a)
    /\ UNCHANGED <<started, chans, remote, refcount, freed, map, index, threads, seen>>

\* Under state_lock the new connection is put on channel 0.
ConnectCreate(h, a, c) ==
    /\ Takes(h, Datagram("CONNECTION", a, 0))
    /\ OnChannel0(a) = {}
    /\ c \notin Created
    /\ remote' = [remote EXCEPT ![c] = a]
    /\ refcount' = [refcount EXCEPT ![c] = 1]
    /\ chans' = [chans EXCEPT ![0] = @ \cup {c}]
    /\ newconn' = [newconn EXCEPT ![h] = c]
    /\ pc' = [pc EXCEPT ![h] = "put"]
    /\ UNCHANGED <<client, started, freed, map, index, quiet, orphans, holds, running, seen>>

\* A thread has c to take out of the map and has not done so.
ToUnmap(c) == \E t \in Threads : pc[t] = "unmap" /\ c \in orphans[t]

\* krs_connection_map_put, under the map's lock.  Another thread may have
\* removed the connection by now.
ConnectPut(h) ==
    /\ pc[h] = "put"
    /\ map' = map \cup {newconn[h]}
    /\ late' = IF newconn[h] \in Listed \/ ToUnmap(newconn[h]) THEN late
               ELSE late \cup {newconn[h]}
    /\ index' = [index EXCEPT ![remote[newconn[h]]] = newconn[h]]
    /\ pc' = [pc EXCEPT ![h] = "ack"]
    /\ UNCHANGED <<peers, chans, remote, refcount, freed, quiet,
                   newconn, orphans, holds, running, connected, closed>>

ConnectAck(h) ==
    /\ pc[h] = "ack"
    /\ SocketAck(remote[newconn[h]])
    /\ pc' = [pc EXCEPT ![h] = "callback"]
    /\ UNCHANGED <<started, wire, objects, newconn, orphans, holds, running, seen>>

\* connect_callback(conn->connection_id)
ConnectCallback(h) ==
    /\ pc[h] = "callback"
    /\ connected' = connected \cup {newconn[h]}
    /\ newconn' = [newconn EXCEPT ![h] = NoConn]
    /\ pc' = [pc EXCEPT ![h] = "idle"]
    /\ UNCHANGED <<peers, objects, orphans, holds, running, closed, late>>
-----------------------------------------------------------------------------
(* Removal: s_dispatch_disconnect and s_evict_stale_connections take the   *)
(* connections off the lists, krs_server_finalize_orphan_evictions does    *)
(* the rest.                                                               *)

\* Mutant of Unlist: only channel 0 is cleared.
UnlistChannel0(S) == chans' = [chans EXCEPT ![0] = @ \ S]

Unlist(S) == chans' = [ch \in Channels |-> chans[ch] \ S]

\* Mutant of Orphans: the thread keeps none of the connections it unlists.
NoOrphans(t, S) == UNCHANGED <<orphans, pc>>

Orphans(t, S) ==
    /\ orphans' = [orphans EXCEPT ![t] = S]
    /\ pc' = [pc EXCEPT ![t] = IF S = {} THEN "idle" ELSE "unmap"]

\* Under state_lock.
Disconnect(h, a) ==
    /\ Takes(h, Datagram("DISCONNECT", a, 0))
    /\ LET S == {c \in Listed : remote[c] = a} IN Unlist(S) /\ Orphans(h, S)
    /\ UNCHANGED <<client, started, remote, refcount, freed, map, index, quiet,
                   newconn, holds, running, seen>>

\* Under state_lock: all stale connections are taken off the lists, and at
\* most MaxEvictions of them are kept for finalisation.
Evict ==
    /\ running
    /\ pc[Retransmitter] = "idle"
    /\ LET S == Listed \cap quiet IN
          /\ S # {}
          /\ Unlist(S)
          /\ \E K \in SUBSET S :
                /\ Cardinality(K) = IF Cardinality(S) < MaxEvictions
                                    THEN Cardinality(S) ELSE MaxEvictions
                /\ Orphans(Retransmitter, K)
    /\ UNCHANGED <<peers, remote, refcount, freed, map, index, quiet,
                   newconn, holds, running, seen>>

\* krs_connection_map_remove for each orphan, under the map's lock.  An id
\* that is in the map takes the index entry of its address along.
Unmap(t) ==
    /\ pc[t] = "unmap"
    /\ map' = map \ orphans[t]
    /\ index' = [a \in Addrs |->
                    IF \E c \in orphans[t] \cap map : remote[c] = a THEN NoConn ELSE index[a]]
    /\ pc' = [pc EXCEPT ![t] = "release"]
    /\ UNCHANGED <<peers, chans, remote, refcount, freed, quiet,
                   newconn, orphans, holds, running, seen>>

\* Mutant of Release: the object is freed whoever else refers to it.
ReleaseAndFree(S) ==
    /\ refcount' = [c \in Conns |-> IF c \in S THEN refcount[c] - 1 ELSE refcount[c]]
    /\ freed' = freed \cup S

\* krs_connection_map_release for each connection in S.
Release(S) ==
    /\ refcount' = [c \in Conns |-> IF c \in S THEN refcount[c] - 1 ELSE refcount[c]]
    /\ freed' = freed \cup {c \in S : refcount[c] = 1}

\* The list's reference is given up and disconnect_callback is called.
Finalise(t) ==
    /\ pc[t] = "release"
    /\ Release(orphans[t])
    /\ closed' = [c \in Conns |-> IF c \in orphans[t] THEN closed[c] + 1 ELSE closed[c]]
    /\ orphans' = [orphans EXCEPT ![t] = {}]
    /\ pc' = [pc EXCEPT ![t] = IF t = Stopper THEN "sweep" ELSE "idle"]
    /\ UNCHANGED <<peers, chans, remote, map, index, quiet, newconn, holds,
                   running, connected, late>>
-----------------------------------------------------------------------------
(* Subscriptions and sends.                                                *)

\* s_dispatch_subscribe, under state_lock.
Subscribe(h, a, ch) ==
    /\ Takes(h, Datagram("SUBSCRIBE", a, ch))
    /\ chans' = [chans EXCEPT ![ch] = @ \cup OnChannel0(a)]
    /\ UNCHANGED <<client, started, remote, refcount, freed, map, index, quiet, threads, seen>>

\* s_dispatch_unsubscribe, under state_lock.
Unsubscribe(h, a, ch) ==
    /\ Takes(h, Datagram("UNSUBSCRIBE", a, ch))
    /\ chans' = [chans EXCEPT ![ch] = @ \ OnChannel0(a)]
    /\ UNCHANGED <<client, started, remote, refcount, freed, map, index, quiet, threads, seen>>

\* Mutant of Hold: a reference is used that was never taken.
HoldUncounted(s, S) ==
    /\ holds' = [holds EXCEPT ![s] = S]
    /\ UNCHANGED refcount

Hold(s, S) ==
    /\ holds' = [holds EXCEPT ![s] = S]
    /\ refcount' = [c \in Conns |-> IF c \in S THEN refcount[c] + 1 ELSE refcount[c]]

\* krs_connection_map_acquire in krs_server_send.
SendBegin(s, c) ==
    /\ holds[s] = {}
    /\ c \in map
    /\ Hold(s, {c})
    /\ UNCHANGED <<peers, chans, remote, freed, map, index, quiet,
                   pc, newconn, orphans, running, seen>>

\* The snapshot of s_broadcast_on_descriptor, under state_lock;
\* krs_server_broadcast_except leaves out connection x.
BroadcastBegin(s, ch, x) ==
    /\ holds[s] = {}
    /\ chans[ch] \ {x} # {}
    /\ Hold(s, chans[ch] \ {x})
    /\ UNCHANGED <<peers, chans, remote, freed, map, index, quiet,
                   pc, newconn, orphans, running, seen>>

SendEnd(s) ==
    /\ holds[s] # {}
    /\ Release(holds[s])
    /\ holds' = [holds EXCEPT ![s] = {}]
    /\ UNCHANGED <<peers, chans, remote, map, index, quiet, pc, newconn, orphans, running, seen>>
-----------------------------------------------------------------------------
(* krs_server_stop, from the moment the worker threads have ended.         *)

\* running is cleared and the threads are joined: each has come to the end
\* of what it was doing.
Stop ==
    /\ running
    /\ \A t \in Workers : pc[t] = "idle"
    /\ running' = FALSE
    /\ pc' = [pc EXCEPT ![Stopper] = "sweep"]
    /\ UNCHANGED <<peers, objects, newconn, orphans, holds, seen>>

\* The batches s_sweep_active_connections_on_stop may collect: up to
\* MaxEvictions connections, those of channel 0 first.
Batches ==
    {K \in SUBSET Listed :
        /\ Cardinality(K) = IF Cardinality(Listed) < MaxEvictions
                            THEN Cardinality(Listed) ELSE MaxEvictions
        /\ K \subseteq chans[0] \/ chans[0] \subseteq K}

\* One cycle under state_lock.  A connection is taken off the list it was
\* collected from.  A list with others than those of the batch is left at
\* the first of them, and what comes after it on that list stays there.
Sweep ==
    /\ pc[Stopper] = "sweep"
    /\ Listed # {}
    /\ \E K \in Batches :
          /\ \E rest \in [Channels -> SUBSET Listed] :
                /\ \A ch \in Channels :
                      /\ chans[ch] \ K \subseteq rest[ch] /\ rest[ch] \subseteq chans[ch]
                      /\ chans[ch] \subseteq K => rest[ch] = {}
                /\ \A c \in K : \E ch \in Channels : c \in chans[ch] \ rest[ch]
                /\ rest[0] = chans[0] \ K
                /\ chans' = rest
          /\ Orphans(Stopper, K)
    /\ UNCHANGED <<peers, remote, refcount, freed, map, index, quiet,
                   newconn, holds, running, seen>>

\* No connection is left: krs_connection_map_destroy.
Stopped ==
    /\ pc[Stopper] = "sweep"
    /\ Listed = {}
    /\ pc' = [pc EXCEPT ![Stopper] = "stopped"]
    /\ map' = {}
    /\ index' = [a \in Addrs |-> NoConn]
    /\ UNCHANGED <<peers, chans, remote, refcount, freed, quiet,
                   newconn, orphans, holds, running, seen>>
-----------------------------------------------------------------------------
Next ==
    \/ \E a \in Addrs : \/ ClientConnect(a)
                        \/ ClientGivesUp(a)
                        \/ ClientDisconnect(a)
                        \/ Heartbeat(a)
    \/ \E a \in Addrs, ch \in AppChannels :
          ClientAsks(a, "SUBSCRIBE", ch) \/ ClientAsks(a, "UNSUBSCRIBE", ch)
    \/ \E c \in Conns : HeartbeatsStop(c)
    \/ \E h \in Handlers, a \in Addrs : ConnectAgain(h, a) \/ Disconnect(h, a)
    \/ \E h \in Handlers, a \in Addrs, c \in Conns : ConnectCreate(h, a, c)
    \/ \E h \in Handlers, a \in Addrs, ch \in AppChannels :
          Subscribe(h, a, ch) \/ Unsubscribe(h, a, ch)
    \/ \E h \in Handlers : ConnectPut(h) \/ ConnectAck(h) \/ ConnectCallback(h)
    \/ Evict \/ Stop \/ Sweep \/ Stopped
    \/ \E t \in Threads : Unmap(t) \/ Finalise(t)
    \/ \E s \in Senders, c \in Conns : SendBegin(s, c)
    \/ \E s \in Senders, ch \in AppChannels, x \in Conns \cup {NoConn} :
          BroadcastBegin(s, ch, x)
    \/ \E s \in Senders : SendEnd(s)

Spec == Init /\ [][Next]_vars
-----------------------------------------------------------------------------
\* Type correctness.
TypeOK ==
    /\ client \in [Addrs -> {"idle", "connecting", "connected"}]
    /\ started \in [Addrs -> 0 .. MaxSessions]
    /\ chans \in [Channels -> SUBSET Conns]
    /\ remote \in [Conns -> Addrs \cup {NoConn}]
    /\ refcount \in [Conns -> Nat]
    /\ freed \subseteq Conns
    /\ map \subseteq Conns
    /\ index \in [Addrs -> Conns \cup {NoConn}]
    /\ quiet \subseteq Conns
    /\ pc \in [Threads -> {"idle", "put", "ack", "callback", "unmap", "release",
                          "sweep", "stopped"}]
    /\ newconn \in [Threads -> Conns \cup {NoConn}]
    /\ orphans \in [Threads -> SUBSET Conns]
    /\ holds \in [Senders -> SUBSET Conns]
    /\ connected \subseteq Conns
    /\ closed \in [Conns -> Nat]
    /\ running \in BOOLEAN
    /\ late \subseteq Conns

\* No connection is freed while it is on a channel's list, in the map, about
\* to be finalised or held by a thread that sends to it, however sends,
\* disconnects, subscriptions and evictions interleave: the reference count
\* does its job.  (The connections of late are what CreatorUsesAlive is about.)
InUseIsAlive ==
    (freed \ late) \cap (Listed \cup map \cup (UNION {orphans[t] : t \in Threads})
                                \cup (UNION {holds[s] : s \in Senders})) = {}

\* The reference count is exact: one for the lists until a thread has
\* finalised the connection, and one for each sender that holds it.
RefsExact ==
    \A c \in Conns :
        refcount[c] = Cardinality({s \in Senders : c \in holds[s]}) +
                      Cardinality({t \in Threads : c \in orphans[t]}) +
                      (IF c \in Listed THEN 1 ELSE 0)

\* No connection is forgotten: one that is off the lists is being finalised
\* or has had its one disconnect_callback, when the server is stopped too.
NoneForgotten ==
    \A c \in Created :
        \/ c \in Listed /\ closed[c] = 0
        \/ c \notin Listed /\ closed[c] = 0 /\ \E t \in Threads : c \in orphans[t]
        \/ c \notin Listed /\ closed[c] = 1

\* Off the lists means off the map, once nobody is finalising: no ACK, send
\* or retransmission reaches a connection that was removed.
MapFollowsLists ==
    \A c \in map \ late : c \in Listed \/ \E t \in Threads : c \in orphans[t]

\* A handler that creates a connection uses it only while it exists.
CreatorUsesAlive == \A t \in Threads : newconn[t] \notin freed
=============================================================================
