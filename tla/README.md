# Verification of Kronos

Kronos is a reliable-datagram protocol library in C for Windows: a server on
I/O completion ports, a client with one receive thread, and between them UDP
frames with acknowledgement, retransmission, congestion control, fragmentation
and channels that clients subscribe to.  This directory holds TLA+ modules
translated from its source, TLC configurations that check them on small
instances, and proofs checked by TLAPS.  Paths below are relative to the
repository.

## Inventory

| Component | State | Operations | Hard behaviour |
|---|---|---|---|
| message queue (`src/connection/server/message_queue.c`) | ring buffer, condition variable, stopped flag | push, pop, stop, drain | growth of a wrapped ring, drop-oldest, wake-ups, pop racing stop |
| message pool (`message_pool.c`) | stack of free slots, unlocked fallback counter | acquire, release | the counter is tested outside the lock |
| receive path and life cycle (`iocp_io_thread.c`, `iocp_lifecycle.c`) | receive contexts, `running`, threads | completion, re-arm, start, stop | buffers change owners across threads; shutdown order |
| frame dispatch (`message_handler.c`) | lists of connections per channel | CONNECTION, HEARTBEAT, DISCONNECT, SUBSCRIBE, UNSUBSCRIBE, ACK, application frames | several handlers at once, in any order |
| connections (`server_connection_handler.c`) | reference counts, lists | create, acquire, release, remove, sweep at stop | use after free, reconnects during a removal |
| connection map (`connection_map.c`) | two open-addressing tables, by id and by address | put, get, get by address, remove | tombstones, growth, growth without memory |
| port manager (`server_port_manager_lifecycle.c`, `socket_handler_lifecycle.c`, `src/lib/port_table`, `src/lib/array`) | port table, descriptor list | create, add a port, look up, destroy | partial failures, rebuilds |
| Winsock (`src/connection/network/wsa_lifecycle.c`) | reference count | init, cleanup | shared by ports, server and clients of a process |
| retransmit thread (`retransmit_thread.c`) | arrays of pending retransmits, failures, orphans | collect, flush, evict | fixed array sizes, races with ACKs |
| server sends (`server_broadcast.c`) | packet counters | send, broadcast | window, tracker and network in separate steps |
| ACK tracker (`src/ack/ack_tracker.c`) | pending entries | expect, receive, check timeouts | repeated and late ACKs, array capacities |
| congestion controller (`src/congestion/congestion_controller.c`) | cwnd, ssthresh, in_flight, phase | on_send, on_ack, on_loss | what counts as in flight |
| reassembly (`src/frame/fragment.c`) | sessions | split, feed, sweep | duplicates, session limit, ids of several channels |
| client (`src/connection/client/client_connection.c`) | connection, receive thread, pending subscription | connect, send, subscribe, unsubscribe, disconnect | shares tracker and controller between threads; late and repeated ACKs of a subscription |

They interact as follows.  I/O threads copy each datagram into a pool buffer
and push it on the queue; handler threads pop it, dispatch the frame and release
the buffer.  Dispatch changes the channel lists (under `state_lock`), the
connection map (under its own lock) and the tracker and controller of a
connection (under `ack_lock` and `cc_lock`, one after the other).  The
retransmit thread scans all trackers, then sends and reports outside the locks,
then evicts connections without heartbeats.  Application threads send, and hold
a reference to the connection while they do.  The client is the same in
small: one lock, one receive thread that retransmits, acknowledges and delivers.

What makes each part correct: the queue is a bounded FIFO and wakes its
consumers; a buffer has one owner; a stop ends and leaves nothing behind; an
accepted reliable message is delivered or reported; the window counts what is
outstanding; a delivered message is whole and is one message; a connection is
freed when, and only when, nobody uses it and is closed exactly once; the maps
find what was put into them; a subscription reported to the application is one
the server has made; every use of Winsock is counted.

The frame builder and parser, the registration of callbacks, the socket wrappers,
logging and the demo programs are not modelled (see "Not modelled").

## Modules

| Module | Models |
|---|---|
| `FifoQueue` | abstract: a bounded queue that discards its oldest element |
| `MessageQueue` | `message_queue.c`; implements `FifoQueue` |
| `MessagePool` | `message_pool.c` |
| `Ingress` | composes queue and pool with the I/O threads, the handler loop and `krs_server_stop` |
| `IngressProofs` | proofs about `MessageQueue`, and on top of them about `MessagePool` and `Ingress` |
| `AckTracker`, `Congestion`, `Reassembler` | the three protocol objects, as state and operators |
| `ReliableSend` | composes them with sending threads, network and receiver |
| `ReliableSendProofs` | lemmas about the shared part of both directions |
| `ServerSend` | server to client: `krs_server_send`, `s_dispatch_ack`, retransmit thread |
| `ClientSend` | client to server: `krs_client_send`, SUBSCRIBE frames, receive thread |
| `ServerSendProofs`, `ClientSendProofs` | proofs about the two directions |
| `Connections` | life of connections: map, index, lists, reference counts, the sweep of `krs_server_stop` |
| `ConnectionsProofs` | proofs about `Connections` |
| `AddressBook` | abstract: a map from ids to addresses, with the last id of each address |
| `HashTable` | the open-addressing algorithm of `connection_map.c`, as operators |
| `ConnectionMap` | `connection_map.c`: two hash tables; implements `AddressBook` |
| `ConnectionMapProofs` | proofs about `HashTable` and `ConnectionMap` |
| `Subscription` | `krs_client_subscribe`, `krs_client_unsubscribe` and the receive thread against the server's handlers of SUBSCRIBE, UNSUBSCRIBE and application frames |
| `SubscriptionProofs` | proofs about `Subscription` |
| `Ports` | port manager, port table, descriptor list and the count of Winsock |
| `PortsProofs` | proofs about `Ports` |
| `MC*` | instances for TLC |

State and actions follow the code's critical sections: what happens under one
lock is one step, and what happens after the unlock is another, unless nothing
but the network and the application can see the difference.  The actions carry
the name of the function or of the branch they stand for; a comment on each
names it where the two differ.

*Queue.*  `items`, `head`, `tail`, `count`, `capacity` and `stopped` are the
fields of `MessageQueue_t`; `asleep` is the set of threads inside
`SleepConditionVariableCS`, `hold` what pop returned.  push has an action for
each way through it.  Slots of a grown array that were not written hold `NoMsg`,
so that a read of one would be seen.

*Pool and ingress.*  An acquire that finds the stack empty is four steps, as the
increment, the test with its undo, and the allocation are not under a lock.  A
port has one receive context, which is armed, completed, in use by an I/O
thread, or dead after a failed re-arm.  `data` says which datagram a buffer
holds.  A release of a heap buffer frees it and takes it out of the counter in
one step, in the code two; the counter may be too large for a moment longer, which
is what an acquire between increment and undo does as well.  The joins of `krs_server_stop` wait as long as it takes: the models
assume callbacks shorter than the 5 s of `WaitForMultipleObjects`.

*Reliable sends.*  A frame is a record of channel, packet id, fragment number,
number of fragments and the ACK flag.  `pending` is the tracker's array as a set
with positions, because the scan goes from the end and
`krs_ack_tracker_get_retry_frame` takes the first.  Time is gone: at each scan an
arbitrary set of timers has run out, which includes every RTO, backoff and delay.
`net` and `acks` hold everything that was ever sent; receiving does not remove,
so a datagram may be lost, delayed, reordered and repeated.  cwnd and ssthresh
are doubles in the code; the model keeps their whole parts and takes both
outcomes where the fraction decides.  `Failures` lets the building of frames and
the copies of `krs_ack_tracker_expect` fail; the objects the first use allocates are
taken to exist.  The receiver is subscribed to the channel, so that its ACK and its
callback are one step here; `Subscription` splits them.  A session
takes the number of fragments of its first one.  The code never compares a later
fragment with it; in the runs and under `OneStream` they agree, and where streams mix
(run `mixed_channels`, with equal numbers) the model does not follow the
write beyond the session's arrays that different numbers lead to.

*Connections.*  A connection object and its id are one value.  The lists of the
channels are sets, the map a set of ids, the address index a function; hashing
is abstracted here and modelled in `ConnectionMap`.  Removal is three steps
(lists, map, release with callback), as in the code.  A stale connection is one
in `quiet`.  With `Repeats` a datagram may be handled again and a client may give
up connecting, so that one address can have two connections.  `Stop` begins when
the worker threads have been joined; the sweep then collects batches of
`MaxEvictions` connections, and a list with more than fit is left half cleared, as
the `break` of line 79 does.  `late` records the connections that a creating
handler puts into the map after another thread has removed them,
a variant of the finding of run `creator` that needs repeated datagrams; the
properties of the passing run set it apart.  Four simplifications: a connection that
cannot be allocated or listed is a lost CONNECTION frame; the references of a
batch are released, and its callbacks made, in one step, where the code goes from one
connection to the next (each count changes atomically and on its own); heartbeats do not run out while a connection is being
created (it would take the handler 30 s); and the 256 connections a broadcast
reaches at most (`server_broadcast.c:61`) are no limit here, as no property is about
who is reached.

*Connection map.*  A table is a function from slots to `Empty`, `Tombstone` or a key
with its value.  A lookup, a put or a removal holds the map's lock and is one
step.  Ids hash to themselves, as in `s_probe`; the hash of an address is a
constant function, chosen so that addresses collide and wrap around.  Each growth may
find no memory, up to `MaxFailures` times.

*Subscription.*  `net` and `acks` keep every frame that was sent, so it may
arrive late, repeatedly or never; that covers what the tracker sends again.
The call of `krs_client_subscribe` is split where it takes its packet id, where it
sends, and where it looks at the flag the receive thread sets.  A handler
acknowledges an application frame in one step and looks for the subscription in
the next.  Calls of subscribe do not overlap, as `kronos_client.h` asks
(lines 156-159); unsubscribe and send may be called while one waits.  Entering
the SUBSCRIBE into the tracker, setting the pending packet id and sending are
one step, as no ACK can come before the send; so are the packet id, the flag and
the send of an unsubscribe.  A list that cannot take another connection leaves a
SUBSCRIBE without an ACK, which is a lost frame.

*Ports.*  Chains are sets of descriptors.  Sizes and hash are those of the code,
in 32 bits.  Every call is split where it takes and gives back its
reference to Winsock, because clients run beside it.  Each allocation may fail:
a rebuild may stay undone or lose any of its links, an insertion may be
refused, the list may not grow.  `lost` holds the descriptors the table has no
link to, `gone` those that were destroyed with their link in place.  The manager
is destroyed after the server has been stopped, which the code leaves to its caller;
that it then frees the descriptors of `gone` a second time is not tracked.

## Runs

Passing runs:

| Run | Question | Instance |
|---|---|---|
| `queue` | does the ring implement the FIFO; are wake-ups lost; does stop release everybody | 3 messages, 2 consumers, capacity 1 growing to 2 and 3 |
| `ingress` | owner of each buffer, fallback limit and counter, order per port, clean shutdown; does stop end; is a queued datagram taken | 1 slot, 2 heap buffers with limit 1, 2 I/O threads, 1 handler, 2 ports, 3 datagrams, queue 1 to 2 |
| `server_delivery` | silent loss, early giving up, whole messages, in_flight | 2 messages of 1 or 2 fragments, 1 session, 2 senders, 2 handlers, 1 retry |
| `server_settles` | is every accepted message settled | 3 messages, with and without ACK, 2 retries, fast retransmit at 2 |
| `client_delivery` | silent loss, whole messages, settlement for the client | a SUBSCRIBE and a message of 1 or 2 fragments, 2 threads, builds that fail |
| `client_retries` | retries and window of the client | 3 single-frame messages, 2 threads, builds and copies that fail |
| `connections` | use after free, exact counts, nothing forgotten or closed twice, up to the stop | 2 addresses, 2 connections, repeated datagrams, 2 handlers, retransmit thread, 1 sender, the stopping thread |
| `connection_map` | do the tables implement the map; counters; a free slot remains; is the index ever stale | 3 addresses of which some collide, 5 connections, 4 at once, capacity 4 growing to 8, 2 growths that fail |
| `subscription` | is a reported subscription committed; does it stay; why is a message dropped; does the receive thread answer the right call | 2 channels, 2 handlers, 3 packet ids of channel 0, 1 message per channel, with and without receive thread, eviction |

The bounds are the smallest at which the interesting case happens: a ring that
grows while wrapped, grows to a size that is not double, and overwrites at its
maximum; a fallback limit that two threads meet at once; a message with two
fragments next to one that overtakes it; a window (initial 2) that fills; a
threshold for slow start that is crossed; a reassembler without room for the second message; keys that collide and wrap around, a
tombstone in front of a live key, a table that grows with both; two calls of
subscribe whose ACKs arrive in the wrong order with an UNSUBSCRIBE between
them.  `MaxPid`, `MaxMessages`, `MaxDatagrams`, `MaxSessions`, `MaxId`, `MaxLive` and
`MaxFailures` bound counters in the guards of the actions that raise them;
`MaxCapacity`, `MaxFallback`, `MaxEvictions` and the reassembler's `MaxSessions` are
limits of the code, made small.  `MaxLive` has no counterpart in the code.
Drop-oldest is met in run `queue` but not in `ingress`, where two buffers
never overfill a queue of two; there it rests on theorem `BuffersOwned`.
Threads, handlers, senders and connections are symmetric where no liveness is
checked.

What these runs leave out on purpose, because the property does not hold there:

* `InUseIsAlive` and `MapFollowsLists` except the connections of `late`, which a
  creating handler puts into the map after another thread has freed them
  (`CreatorUsesAlive` below).
* `SuccessIsCommitted` excepts a subscription whose packet id is also that of an
  application message: the client recognises an ACK by its packet id alone
  (`client_connection.c:406`), and the ACK of that message completes the call
  although the SUBSCRIBE may be lost.  Without the exception TLC finds this in a
  few steps.
* `FreeSlotStays` is claimed until a growth fails, and the run's `MaxLive` keeps
  the connections within the first table (see "Limits" and `PutFits`).
* The capacities `RetryCap`, `DropCap` and `MaxEvictions` are not reached (see
  "Limits").
* `RetriedBeforeReport` of the client is checked with single-frame messages, and
  `InFlightCovers` of the client without SUBSCRIBE frames.
* `NoSilentLoss` is checked without failing copies: `krs_ack_tracker_expect`
  says nothing when it finds no memory, and the message is sent untracked.

Three runs end in a violation.  Each sets what a comment of the repository
promises against what the code does; `PROJECT.json` quotes the comments.

| Run | What happens |
|---|---|
| `mixed_channels` | the client has one reassembler for all channels, which finds sessions by packet id alone: fragments of two channels make one message |
| `client_fragments` | the client looks up the frame to resend by packet id alone: it resends the first fragment and never the lost one |
| `creator` | a handler reads the id of the connection it created, for the connect callback (`server_connection_handler.c:110`), after a DISCONNECT in another handler has freed it |

### Limits

The same models show what happens at limits the passing runs stay below.  Each
can be seen by changing the constants of a configuration:

* `DropCap = 1` in `MCServerSend.cfg`: `NoSilentLoss` fails.  `check_timeouts`
  destroys exhausted entries that its caller's array (32, or 16 in the client)
  cannot take, and nobody is told.
* `RetryCap = 1` there: `RetriedBeforeReport` fails.  Retries beyond the
  array are counted and not sent.  Both capacities can be reached, as every
  fragment is an entry of its own.  The models have one connection.  In the server the
  arrays of pending retransmits (64) and of failures (32) that `s_retransmit_tick` fills
  (`retransmit_thread.c:84,113`) are shared by all connections of a tick, so that with
  several connections each has only what the others left: retries beyond it are
  not sent and failures beyond it not reported.  `RetriesFit` and `DropsFit` are
  then to be read of what is left.
* `MaxEvictions = 1` in `MCConnections.cfg`: `NoneForgotten` fails.  Stale
  connections beyond 64 per tick leave the lists, but are never finalised.  At
  stop, a connection of a full batch may stay on the list of another channel and
  is finalised again by the next batch: two `disconnect_callback`s, where
  `kronos_server.h:300-301` promises one, and a release of a freed object.
* `MaxLive = 5` and `MaxFailures = 4` in `MCConnectionMap.cfg`: `CountsExact` and
  `ImplementsMap` fail.  A put into a table that is full and cannot grow
  overwrites the live slot at the key's own hash.
* `Channels = {0, 10}` in `MCClientRetries.cfg`: `InFlightCovers` fails.  A
  SUBSCRIBE frame is not counted into the window, but its ACK is counted out.

Three more consequences of the code are visible in the models and have no
property: a packet that is given up is never taken out of `in_flight`, so the
window of a lossy connection closes for good; a message of several fragments is
reported once for each fragment; and a removal deletes the index entry of its
address whichever connection it points to (`Leave` of `AddressBook`), so a client
that reconnects from the same address while its old connection is being removed
may not be found by address, and its ACKs are ignored.  In `Ports`, the same port on a second
address is added with success although the table refuses it: its socket is
never closed, and its datagrams are handled with the first descriptor.  And when the
descriptor list cannot grow, the descriptor is destroyed but its link stays, against
"any acquired resources are released before returning" (`kronos_server.h:96-97`).

Deadlock is checked in `queue`, `server_delivery`, `server_settles` and
`client_delivery`.  It is not checked in the ingress run, where the server stops
and everything ends, nor in the others, where the bounds on packets and
sessions are used up.

### Fairness

Liveness is checked under weak fairness of threads that are runnable: I/O
threads, handlers (whose sleep ends by its 100 ms timeout), the steps of
`krs_server_stop` once it was called, the senders and the retransmit thread.
That is what the scheduler of the operating system gives.  The timer of a
frame runs out again and again until the frame is acknowledged: weak fairness of
the scan that sees it in the server, strong fairness in the client, whose receive thread
alternates between the scan and waiting for a datagram.  Nothing is assumed of the
network, and nobody has to call stop or send.

## Proofs

The first half of `IngressProofs` is about the queue alone and proves, for every set of messages, every non-empty set of
consumers and all capacities `0 < InitialCapacity <= MaxCapacity`
(`QueueAssumption`, which the code's 256 and 65536 satisfy):

* `TypeCorrect`: types, and indices that stay inside the array;
* `QueueInvariant`: the inductive invariant `QInv`;
* `WakeupNotLost`, `LiveSlots`, `RingCorrect`, `StopWakesAll`: its
  consequences by name;
* `QueueImplementsFifo`: the refinement.

`QInv` is the conjunction of the types, `RingConsistent`, `LiveSlotsWritten`,
`NoLostWakeup` and `StopReleasesAll`.  Neither of the last three is inductive
without the first two: that a drop-oldest push keeps the live slots written
needs `tail = head` in a full ring, which is `RingConsistent` at `count =
capacity`, and every index argument needs the types.  The arithmetic is in the
lemmas `ModSum`, `SlotValue`, `SlotShift` and `TailFree`: ring indices are
never more than one lap apart, so a remainder is either the sum or the sum
less the capacity.  The refinement maps the ring to the sequence of its live
slots; each of push, pop and drain is shown to append to it, take its tail or
clear it, and every other step leaves it alone.

`PortsProofs` proves, for every set of descriptors and of clients, and the
code's own sizes and hash (no assumption is needed):

* `WsaCorrect`: the count of Winsock is the number of its users;
* `LookupCorrect`: a lookup finds the one descriptor of each port that was
  accepted, after any number of rebuilds, and nothing that is not open or
  gone;
* `SocketsClosed`: without a manager, no socket is open but those of lost
  descriptors;
* `EntriesCorrect`: `total_entries` is the number of links.

The inductive invariant `IInv` has four parts.  `TableOK` says that each link
is in the bucket of its port, that no bucket has two links of a port, and that
the links are counted; `LookupCorrect` needs the first two and is not
inductive without them, since a rebuild moves every link by its hash.
`RegistryInv` relates links to descriptors up to `lost` and `gone`, and says
that without a manager nothing is listed or running, which is what creating a
new one and destroying rest on. `WsaInv` adds that finitely many clients are
active, so that they can be counted. The lemmas `RebuiltOK` and `InsertOK`
carry the table, `ManagerCounts` and `ClientCounts` the arithmetic of the
count.  No run checks `Ports`: with the code's constants the hash exceeds the
integers of TLC.

The second half of `IngressProofs` proves, for all finite sets of slots, heap addresses, I/O
threads and ports, every non-empty set of handlers, all capacities and limits:

* `BuffersOwned`: each buffer is in exactly one place, or is a freed heap
  buffer;
* `FallbackLimited`, `FallbackCounted`: the limit of the pool and its unlocked
  counter;
* `PortsOrdered`: the datagrams of a port are queued in order of arrival;
* `ShutdownClean`: what is left when `krs_server_stop` destroys the pool;
* `PipelineTypeCorrect`, `PipelineInvariant`: types, and the inductive
  invariant;
* `PipelineQueueIsFifo`: the pipeline takes only steps that the queue allows,
  so that all that is proved of `MessageQueue` alone holds of the queue inside
  the server.

None of the five properties is inductive.  A release gives a heap buffer back
to the count only if the buffer is live, so the count rests on ownership;
ownership rests on `Hands` (a thread has a buffer exactly where the code has
one); the limit rests on `Admitted`, which adds to the live buffers the
acquires that passed the test and have not allocated.  The order of a port
needs `Contexts` (a port has one receive context and at most one thread
carries its datagram) and `Earlier` (what is queued for a port is older than
what is carried or completed for it); the shutdown needs `StopOrder` (the
phases of stop and what each join waited for).  Ownership is stated with sets:
`Members` of stack, queue and hands are a partition of slots and live buffers,
and each container is `Distinct`; `OneOwner`, which counts places, follows.
What a drain releases is a recursive function over the queue's contents;
`PushedOK` describes it by a least counterexample.

`ServerSendProofs` and `ClientSendProofs`, on the lemmas of
`ReliableSendProofs`, prove for any number of threads, channels, packet ids
and fragments, over a network that loses, repeats and reorders:

* `TypeCorrect`: types, packet ids in range, a window of at least one;
* `NothingLost`: an accepted reliable message is tracked, delivered or
  reported;
* `WindowHolds`: `in_flight` covers the messages that wait for their ACK;
* `DeliversWhole`: the receiver hands over whole messages only;
* `ReportsHonest`: each failure report stands for a frame that was sent again
  `MaxRetries` times.

Their hypotheses are the conditions under which the code keeps the promise,
and each is needed: the runs and the section "Limits" show what happens
without it.  `NothingLost` assumes that no copy of a tracked frame fails and
`[]DropsFit`, that the entries a scan gives up fit into its array.
`ReportsHonest` assumes `[]RetriesFit`, the same for the retries, finitely
many sizes (only so that the frames of a message can be counted), and for the
client `OneFramePerPid`, as its retransmission looks for the packet id alone (run `client_fragments`). `WindowHolds` of the client
assumes that it does not subscribe.  `DeliversWhole` assumes `OneStream`, that
a reassembler's key tells messages apart (run `mixed_channels`).  The
invariants: for `NothingLost`, that a thread which is about to send has an
accounted message (`SendersAccounted`); for `WindowHolds`, that `in_flight`
also covers the messages a thread was admitted for and, in the server, the
handlers between `ack_lock` and `cc_lock`; for `DeliversWhole`, that all
frames of a message agree on its number of fragments and each session holds
different fragments of one message and counts them; for `ReportsHonest`, that
a frame has one entry, that the retries an entry counts were sent or are in
the outbox, and that the reports and the entries waiting to be reported are no
more than the frames given up.  That frames are tracked once needs fresh
packet ids (`IdsOK`).

`ConnectionsProofs` proves `TypeCorrect`, `RefsCorrect`, `UseIsSafe`,
`NobodyForgotten` and `MapCorrect` for any number of handlers, senders,
connections, addresses and channels, under `[]BatchSuffices`: no more than
`MaxEvictions` connections go stale between two ticks or are left at stop.
Beyond that the code does lose connections (see "Limits").  The invariant says
of each connection which phase of its life it is in (`Life`: listed, in
exactly one thread's hands to be finalised, or closed once), that the count is
the senders that hold it plus one while it is listed or being finalised
(`Refs`), that the map holds what is listed or about to be unmapped (`MapOK`),
and that what was freed is nowhere (`FreedOK`).  The exception of `late` is
the one of the run.

`ConnectionMapProofs` proves, for every set of addresses, every hash of the
addresses, all capacities from 4 on and any number of connections and of failed
growths:

* `MapSound`: the inductive invariant `MapInvariant`;
* `CountersExact`, `FreeSlot`, `IndexNeverStale`: `CountsExact`,
  `FreeSlotStays` and `IndexSound`;
* `MapImplementsBook`: the refinement of `AddressBook`; a put is `Enter`, a
  removal `Leave`;
* `PutsFit`: when the condition `PutFits` holds.

The condition `[][PutFits]_vars` says that a put after a failed growth finds a slot
that is not live in each table; beyond it the code overwrites a live slot (see
"Limits").  `PutsFit` shows that it holds for any number of connections if no
allocation fails, and whatever fails if there are never more connections than
`InitialCapacity`.  None of the properties is inductive, as none says where a
key may be.  `TableOK` does: from the hash of a key to its slot no slot is free
(`Chained`), no key has two slots (`Unique`), and the counters are exact.
Probing comes to every slot within one lap (`ProbeReaches`), so that `Found` and
`NotFound` say what a lookup answers, also in a table without a free slot.
`PlaceOK` and `ReplaceOK` say what one write to a slot does to keys, values and
numbers of slots; `InsertOK` and `DeleteOK` follow by the branches of the code,
and need that a tombstone keeps a probe going and that the whole probe is
searched before a tombstone is reused.  Growth is a recursive function: `FilledExists`
shows that it has a solution, `GrowOK` by the first turn of the loop to fail that
the new array holds what was copied so far, in as many slots, and hence has a free slot for
the next.  The map adds that ids in the table are at most `nextId`, so that a
new id is new, and that the index is a part of the table, which bounds its
live slots by the connections (`FewLive`).

`SubscriptionProofs` proves `TypeCorrect`, `SuccessCorrect`,
`SubscriptionStays`, `DropsExplained` and `PendingCorrect` for any channels,
handlers and packet ids.  The invariant adds to these what the frames on the
network say of the past (`Traffic`: packet ids are fresh, a commit follows a
SUBSCRIBE that was sent, an ACK follows a commit), that a listed channel stays
listed (`ListedStays`), and that a message sent while its channel was listed
finds it listed (`SentListed`), without which `DropExplained` is not
inductive: the handler decides one step after it has acknowledged.

The assumptions on constants are those of the modules.  Beside the types of
bounds they say that null values are no objects, that the finite resources are
finite, and (`ClientAssumption`) that a client which subscribes can send a
message of one frame, as a SUBSCRIBE is.

Out of the prover's reach, and left to TLC: the liveness properties
(`StopTerminates`, `QueuedIsTaken`, `Settles`).  Every other property of the
passing runs is a theorem.

## Not modelled

* Byte layout, parsing and serialisation of frames: sequential, no shared state.
* The registration of callbacks: assignments made before the server runs.
* The dynamic array beyond the growth of the descriptor list: its order is
  modelled where it matters.
* Sockets, addresses, logging, error texts, statistics.
* Joins of `krs_server_stop` and `krs_client_disconnect` that time out; the order in which
  a failed `krs_server_start` destroys pool and queue; receive contexts that the
  kernel still owns after a stop, and the ports whose first receive fails, which
  `krs_server_start` does not report.
* Two clients on one channel of the server, whose reassembler they share.
* Durations.  Only the order of events is modelled.

## Plan

Done so far: queue, pool, receive path and stop, reliable sends in both
directions, connections with their map and the stop sweep, subscriptions, the
registry of ports; proofs of all of them.  Left, in this order:

1. Two clients on one channel of the server.
2. The failure path of `krs_server_start`, joins that time out, and receive contexts.
3. The client's teardown against its threads.
4. Frames: serialise and parse as operators, checked against each other.
