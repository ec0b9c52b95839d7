------------------------------- MODULE Ingress -------------------------------
(***************************************************************************)
(* The receive side of the server: I/O threads (iocp_io_thread.c) copy      *)
(* datagrams from completed receives into pool buffers and queue them, the *)
(* message handler threads (message_handler.c) take them from the queue    *)
(* and give the buffers back, and krs_server_stop (iocp_lifecycle.c) shuts *)
(* all of it down.  What a handler does with a frame is not modelled here. *)
(*                                                                         *)
(* The joins of krs_server_stop are modelled without their timeouts: no    *)
(* callback is taken to run longer than the 5 s that stop waits.           *)
(***************************************************************************)
EXTENDS MessageQueue, MessagePool

CONSTANTS Ports,         \* one UDP socket, and one receive context, each
          MaxDatagrams   \* bound on the datagrams that arrive

ASSUME IngressAssumption ==
    /\ Msg = Slots \cup Heap
    /\ MaxDatagrams \in Nat
    /\ IsFiniteSet(Ports)

VARIABLES running,   \* spm->running
          ctx,       \* the receive context (UDPOverlapped_t) of each port
          arrived,   \* number of datagrams a port has received
          data,      \* the datagram a buffer holds: <<port, number>>
          io, ioport, iobuf,  \* per I/O thread: where it is, for which port,
                              \* and the buffer it holds
          keys,      \* SHUTDOWN_KEY completions posted and not consumed
          hpc,       \* where each handler thread is
          spc        \* where krs_server_stop is

ioState == <<ctx, arrived, data, io, ioport, iobuf, keys>>
vars == <<qvars, pvars, running, ioState, hpc, spc>>

Init ==
    /\ QInit
    /\ PInit
    /\ running = TRUE
    /\ ctx = [p \in Ports |-> "armed"]
    /\ arrived = [p \in Ports |-> 0]
    /\ data = [b \in Msg |-> NoMsg]
    /\ io = [t \in IoThreads |-> "wait"]
    /\ ioport = [t \in IoThreads |-> NoMsg]
    /\ iobuf = [t \in IoThreads |-> NoMsg]
    /\ keys = 0
    /\ hpc = [c \in Consumers |-> "loop"]
    /\ spc = "up"
-----------------------------------------------------------------------------
\* The n-th datagram of a port.
Datagrams == Ports \X (1 .. MaxDatagrams)

\* A datagram completes the receive that is armed on port p (external).
Arrive(p) ==
    /\ ctx[p] = "armed"
    /\ Cardinality({d \in Datagrams : d[2] <= arrived[d[1]]}) < MaxDatagrams
    /\ arrived' = [arrived EXCEPT ![p] = @ + 1]
    /\ ctx' = [ctx EXCEPT ![p] = "completed"]
    /\ UNCHANGED <<qvars, pvars, running, data, io, ioport, iobuf, keys, hpc, spc>>

(* krs_server_iocp_io_thread.                                              *)

\* Mutant of CtxInUse: the receive is armed again before its data is copied.
CtxReused == "armed"

\* A context stays out of the kernel's hands until the thread re-arms it.
CtxInUse == "busy"

\* GetQueuedCompletionStatus returns a receive: an empty or failed one
\* (usable = FALSE) needs no buffer.
IoCompletion(t, p, usable) ==
    /\ io[t] = "wait"
    /\ ctx[p] = "completed"
    /\ ctx' = [ctx EXCEPT ![p] = CtxInUse]
    /\ ioport' = [ioport EXCEPT ![t] = p]
    /\ io' = [io EXCEPT ![t] = CASE ~running -> "exit"
                                 [] running /\ usable -> "acquire"
                                 [] running /\ ~usable -> "rearm"]
    /\ UNCHANGED <<qvars, pvars, running, arrived, data, iobuf, keys, hpc, spc>>

\* GetQueuedCompletionStatus returns a shutdown key.
IoShutdown(t) ==
    /\ io[t] = "wait"
    /\ keys > 0
    /\ keys' = keys - 1
    /\ io' = [io EXCEPT ![t] = "exit"]
    /\ UNCHANGED <<qvars, pvars, running, ctx, arrived, data, ioport, iobuf, hpc, spc>>

\* acquire succeeds with buffer b and the datagram is copied into it.
IoGotBuffer(t, b) ==
    /\ io[t] = "acquire"
    /\ AcquireSlot(t, b) \/ AcquireMalloc(t, b)
    /\ data' = [data EXCEPT ![b] = <<ioport[t], arrived[ioport[t]]>>]
    /\ iobuf' = [iobuf EXCEPT ![t] = b]
    /\ io' = [io EXCEPT ![t] = "push"]
    /\ UNCHANGED <<qvars, running, ctx, arrived, ioport, keys, hpc, spc>>

\* The steps of an acquire that is refused or not finished.
IoNoBuffer(t) ==
    /\ io[t] = "acquire"
    /\ AcquireEmpty(t) \/ AcquireCount(t) \/ AcquireNoMemory(t)
    /\ UNCHANGED <<qvars, running, ioState, hpc, spc>>

\* acquire returns NULL: the datagram is dropped.
IoDropped(t) ==
    /\ io[t] = "acquire"
    /\ AcquireUndo(t)
    /\ io' = [io EXCEPT ![t] = "rearm"]
    /\ UNCHANGED <<qvars, running, ctx, arrived, data, ioport, iobuf, keys, hpc, spc>>

\* Mutant of PushAndRelease: the message a full queue drops is not released.
PushWithoutRelease(m) == Push(m) /\ UNCHANGED pvars

\* krs_message_queue_push with the releases it makes: the oldest message of
\* a full queue, or the new one when the queue cannot grow.
PushAndRelease(m) ==
    \/ (PushRoom(m) \/ PushGrow(m)) /\ UNCHANGED pvars
    \/ PushDropOldest(m) /\ Release(items[head])
    \/ PushRefused(m) /\ Release(m)

IoPush(t) ==
    /\ io[t] = "push"
    /\ PushAndRelease(iobuf[t])
    /\ iobuf' = [iobuf EXCEPT ![t] = NoMsg]
    /\ io' = [io EXCEPT ![t] = "rearm"]
    /\ UNCHANGED <<running, ctx, arrived, data, ioport, keys, hpc, spc>>

\* WSARecvFrom again, then the loop test; a port whose second attempt fails
\* too receives nothing more.
IoRearm(t, ok) ==
    /\ io[t] = "rearm"
    /\ ctx' = [ctx EXCEPT ![ioport[t]] = IF ok THEN "armed" ELSE "dead"]
    /\ io' = [io EXCEPT ![t] = IF running THEN "wait" ELSE "exit"]
    /\ ioport' = [ioport EXCEPT ![t] = NoMsg]
    /\ UNCHANGED <<qvars, pvars, running, arrived, data, iobuf, keys, hpc, spc>>
-----------------------------------------------------------------------------
(* krs_server_message_handler_thread.                                      *)

HandlerLoop(c) ==
    /\ hpc[c] = "loop"
    /\ hpc' = [hpc EXCEPT ![c] = IF running THEN "pop" ELSE "exit"]
    /\ UNCHANGED <<qvars, pvars, running, ioState, spc>>

HandlerTake(c) ==
    /\ hpc[c] = "pop"
    /\ PopTake(c)
    /\ hpc' = [hpc EXCEPT ![c] = "work"]
    /\ UNCHANGED <<pvars, running, ioState, spc>>

\* The queue is empty: sleep, or wake for no reason and look again.
HandlerSleep(c) ==
    /\ hpc[c] = "pop"
    /\ PopSleep(c) \/ PopWakes(c)
    /\ UNCHANGED <<pvars, running, ioState, hpc, spc>>

\* Mutant of AfterNothing: a pop without a message ends the thread.
QuitOnNothing == "exit"

\* The handler's loop goes on when there was no message.
AfterNothing == "loop"

\* pop returns NULL: after its 100 ms timeout, or at once on a stopped queue.
HandlerNothing(c) ==
    /\ hpc[c] = "pop"
    /\ \/ PopWakes(c)
       \/ c \notin asleep /\ count = 0 /\ stopped /\ UNCHANGED qvars
    /\ hpc' = [hpc EXCEPT ![c] = AfterNothing]
    /\ UNCHANGED <<pvars, running, ioState, spc>>

\* The frame was rejected or routed; every way out releases the buffer once.
HandlerDone(c) ==
    /\ hpc[c] = "work"
    /\ Finish(c)
    /\ Release(hold[c])
    /\ hpc' = [hpc EXCEPT ![c] = "loop"]
    /\ UNCHANGED <<running, ioState, spc>>
-----------------------------------------------------------------------------
(* krs_server_stop.                                                        *)

StopBegin ==
    /\ spc = "up"
    /\ running' = FALSE
    /\ spc' = "post"
    /\ UNCHANGED <<qvars, pvars, ioState, hpc>>

\* Mutant of KeysPosted: a single key for all I/O threads.
OneKey == 1

\* One shutdown key for every I/O thread.
KeysPosted == Cardinality(IoThreads)

StopPost ==
    /\ spc = "post"
    /\ keys' = keys + KeysPosted
    /\ spc' = "joinIo"
    /\ UNCHANGED <<qvars, pvars, running, ctx, arrived, data, io, ioport, iobuf, hpc>>

\* Mutant of IoJoined: the I/O threads are not waited for.
IoNotJoined == TRUE

IoJoined == \A t \in IoThreads : io[t] = "exit"

\* The I/O threads are gone: wake the handlers.
StopQueue ==
    /\ spc = "joinIo"
    /\ IoJoined
    /\ Stop
    /\ spc' = "joinHandlers"
    /\ UNCHANGED <<pvars, running, ioState, hpc>>

\* The handlers are gone: what is still queued goes back to the pool.
StopDrain ==
    /\ spc = "joinHandlers"
    /\ \A c \in Consumers : hpc[c] = "exit"
    /\ Drain
    /\ ReleaseAll(Contents)
    /\ spc' = "destroy"
    /\ UNCHANGED <<running, ioState, hpc>>

\* Queue and pool are destroyed.
StopDestroy ==
    /\ spc = "destroy"
    /\ spc' = "down"
    /\ UNCHANGED <<qvars, pvars, running, ioState, hpc>>

StopStep == StopPost \/ StopQueue \/ StopDrain \/ StopDestroy
-----------------------------------------------------------------------------
IoStep(t) ==
    \/ \E p \in Ports, usable \in BOOLEAN : IoCompletion(t, p, usable)
    \/ IoShutdown(t)
    \/ \E b \in Msg : IoGotBuffer(t, b)
    \/ IoNoBuffer(t) \/ IoDropped(t)
    \/ IoPush(t)
    \/ \E ok \in BOOLEAN : IoRearm(t, ok)

HandlerStep(c) ==
    \/ HandlerLoop(c) \/ HandlerTake(c) \/ HandlerSleep(c)
    \/ HandlerNothing(c) \/ HandlerDone(c)

Next ==
    \/ \E p \in Ports : Arrive(p)
    \/ \E t \in IoThreads : IoStep(t)
    \/ \E c \in Consumers : HandlerStep(c)
    \/ StopBegin
    \/ StopStep

Spec == Init /\ [][Next]_vars

\* Every thread that can run keeps running, in particular a sleep ends by its
\* timeout.  Nothing obliges anyone to call stop.
Fairness ==
    /\ \A t \in IoThreads : WF_vars(IoStep(t))
    /\ \A c \in Consumers : WF_vars(HandlerStep(c))
    /\ WF_vars(StopStep)

FairSpec == Spec /\ Fairness
-----------------------------------------------------------------------------
(* Properties.                                                             *)

\* Types of the pipeline's state.
TypeOK ==
    /\ QTypeOK
    /\ free_stack \in Seq(Slots) /\ Len(free_stack) <= Cardinality(Slots)
    /\ live \subseteq Heap
    /\ outstanding \in Nat
    /\ acq \in [IoThreads -> {"none", "count", "malloc", "undo"}]
    /\ ctx \in [Ports -> {"armed", "completed", "busy", "dead"}]
    /\ arrived \in [Ports -> 0 .. MaxDatagrams]
    /\ io \in [IoThreads -> {"wait", "acquire", "push", "rearm", "exit"}]
    /\ iobuf \in [IoThreads -> Msg \cup {NoMsg}]
    /\ hpc \in [Consumers -> {"loop", "pop", "work", "exit"}]

\* Where a buffer is: each place is counted as often as it holds the buffer.
Owners(b) ==
      Cardinality({i \in 1 .. Len(free_stack) : free_stack[i] = b})
    + Cardinality({i \in 1 .. count : Contents[i] = b})
    + Cardinality({t \in IoThreads : iobuf[t] = b})
    + Cardinality({c \in Consumers : hold[c] = b})

\* Every buffer has exactly one owner - the free stack, the queue, an I/O
\* thread or a handler - and a freed heap buffer has none: no buffer is
\* leaked, released twice or used after it was released.
OneOwner ==
    \A b \in Msg : Owners(b) = IF b \in Slots \cup live THEN 1 ELSE 0

\* Datagrams of one port are queued in the order they arrived, although any
\* I/O thread may carry any of them.
PortOrder ==
    \A i, j \in 1 .. count :
        i < j /\ data[Contents[i]][1] = data[Contents[j]][1]
            => data[Contents[i]][2] < data[Contents[j]][2]

\* When krs_server_stop destroys the pool every buffer is back in it and
\* every heap buffer is freed.
CleanShutdown ==
    spc = "down" => Len(free_stack) = Cardinality(Slots) /\ live = {} /\ outstanding = 0

\* krs_server_stop comes to its end: no join waits for ever.
StopTerminates == (spc = "post") ~> (spc = "down")

\* A queued message does not stay in the queue for ever: its buffer leaves
\* the queue again.
QueuedIsTaken ==
    \A b \in Msg :
        LET queued == \E i \in 1 .. count : Contents[i] = b
        IN  queued ~> ~queued
=============================================================================
