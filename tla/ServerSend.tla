----------------------------- MODULE ServerSend -----------------------------
(***************************************************************************)
(* Reliable sends from the server to one client: krs_server_send           *)
(* (server_broadcast.c), the retransmit thread (retransmit_thread.c) and   *)
(* the handler threads that process the client's ACKs (message_handler.c). *)
(* ack_lock and cc_lock are taken one after the other, so each of the two  *)
(* critical sections is a step of its own.  The connection stays open.     *)
(***************************************************************************)
EXTENDS ReliableSend

CONSTANT Handlers   \* message handler threads

VARIABLES crediting,   \* handlers between ack_lock and cc_lock
          rpc,         \* where the retransmit thread is
          outbox,      \* its PendingRetransmit_t array
          drops,       \* its PendingDeliveryFailure_t array
          loss         \* the loss the congestion controller must hear of

rvars == <<rpc, outbox, drops, loss>>
vars == <<svars, crediting, rvars>>

Init ==
    /\ SInit
    /\ crediting = {}
    /\ rpc = "sleep"
    /\ outbox = {}
    /\ drops = {}
    /\ loss = "none"
-----------------------------------------------------------------------------
(* krs_server_send.                                                        *)

ServerBegin(t, c, n, ack) ==
    /\ NextPid(t, c, n, ack, IF ack THEN "window" ELSE "build")
    /\ UNCHANGED <<crediting, rvars>>

ServerWindow(t) ==
    /\ Admit(t) \/ WindowFull(t)
    /\ UNCHANGED <<crediting, rvars>>

ServerBuild(t) ==
    /\ BuildFails(t) \/ Track(t)
    /\ UNCHANGED <<crediting, rvars>>

ServerTransmit(t) ==
    /\ Transmit(t)
    /\ UNCHANGED <<crediting, rvars>>
-----------------------------------------------------------------------------
(* s_dispatch_ack.                                                         *)

\* Mutant of AckCounts: an ACK is credited whether or not it was awaited.
AnyAckCounts(a) == TRUE

\* rtt_ms >= 0: the ACK has removed an entry.
AckCounts(a) == Tracked(a[1], a[2])

\* Under ack_lock.
AckReceived(h, a) ==
    /\ h \notin crediting
    /\ a \in acks
    /\ ReceiveAck(a[1], a[2])
    /\ crediting' = IF AckCounts(a) THEN crediting \cup {h} ELSE crediting
    /\ UNCHANGED <<ccvars, counter, pc, call, net, acks, sessions, history, rvars>>

\* Under cc_lock.
AckCredited(h) ==
    /\ h \in crediting
    /\ OnAck
    /\ crediting' = crediting \ {h}
    /\ UNCHANGED <<pending, counter, pc, call, net, acks, sessions, history, rvars>>
-----------------------------------------------------------------------------
(* The retransmit thread.                                                  *)

\* s_collect_retransmits, under ack_lock, when the timers of timed ran out.
Collect(timed) ==
    /\ rpc = "sleep"
    /\ Due(timed) # {}
    /\ CheckTimeouts(timed)
    /\ outbox' = {RetryFrameForEntry(e) : e \in RetryRecorded(timed)}
    /\ drops' = DropRecorded(timed)
    /\ loss' = CASE \E e \in RetryRecorded(timed) : ~IsFast(e) -> "timeout"
                 [] RetryRecorded(timed) # {} /\ \A e \in RetryRecorded(timed) : IsFast(e) -> "fast"
                 [] RetryRecorded(timed) = {} -> "none"
    /\ rpc' = IF RetryRecorded(timed) = {} THEN "flush" ELSE "loss"
    /\ UNCHANGED <<ccvars, counter, pc, call, net, acks, sessions, history, crediting>>

\* Under cc_lock.
LossReaction ==
    /\ rpc = "loss"
    /\ IF loss = "timeout" THEN OnTimeoutLoss ELSE OnFastLoss
    /\ rpc' = "flush"
    /\ UNCHANGED <<pending, counter, pc, call, net, acks, sessions, history,
                   crediting, outbox, drops, loss>>

\* s_flush_retransmits and the callbacks of s_retransmit_tick.
Flush ==
    /\ rpc = "flush"
    /\ Resend(outbox)
    /\ Report(drops)
    /\ outbox' = {}
    /\ drops' = {}
    /\ loss' = "none"
    /\ rpc' = "sleep"
    /\ UNCHANGED <<sendState, acks, sessions, accepted, delivered, crediting>>
-----------------------------------------------------------------------------
SenderStep(t) == ServerWindow(t) \/ ServerBuild(t) \/ ServerTransmit(t)

Next ==
    \/ \E t \in Threads, c \in Channels, n \in Sizes, ack \in Modes : ServerBegin(t, c, n, ack)
    \/ \E t \in Threads : SenderStep(t)
    \/ \E h \in Handlers, a \in acks : AckReceived(h, a)
    \/ \E h \in Handlers : AckCredited(h)
    \/ \E timed \in SUBSET pending : Collect(timed)
    \/ LossReaction
    \/ Flush
    \/ \E f \in net : Receive(f) /\ UNCHANGED <<crediting, rvars>>

Spec == Init /\ [][Next]_vars

\* The timer of a frame that is never acknowledged runs out.
CollectsFrame(k) ==
    \E timed \in SUBSET pending : (\E e \in timed : KeyOf(e.frame) = k) /\ Collect(timed)

\* The application's threads, the handlers and the retransmit thread are
\* scheduled, and timers run out; nothing is assumed of the network.
FairSpec ==
    /\ Spec
    /\ \A t \in Threads : WF_vars(SenderStep(t))
    /\ \A h \in Handlers : WF_vars(AckCredited(h))
    /\ WF_vars(LossReaction)
    /\ WF_vars(Flush)
    /\ \A k \in FrameKey : WF_vars(CollectsFrame(k))
-----------------------------------------------------------------------------
\* Type correctness of the tracker, the congestion controller, the sending
\* threads and the retransmit thread.
TypeOK ==
    /\ pending \subseteq Entry
    /\ CCTypeOK
    /\ counter \in [Channels -> 0 .. MaxPid]
    /\ pc \in [Threads -> {"idle", "window", "build", "send"}]
    /\ net \subseteq Frame
    /\ acks \subseteq Message
    /\ accepted \subseteq Message
    /\ crediting \subseteq Handlers
    /\ rpc \in {"sleep", "loss", "flush"}
    /\ outbox \subseteq Frame

IsReported(m) == reports[m] > 0 \/ \E e \in drops : MessageOf(e.frame) = m

\* A message that krs_server_send accepted as reliable is still tracked, or
\* has been given to the client's callback, or the application was (or is
\* about to be) told that it failed: whatever the network does to the frames
\* and the ACKs, it does not disappear.
NoSilentLoss ==
    \A m \in accepted : Tracked(m[1], m[2]) \/ IsDelivered(m) \/ IsReported(m)

\* An accepted message is settled: in the end the tracker forgets it, and it
\* was delivered or the application was told.  The network owes nothing.
Settles ==
    \A m \in Message :
        m \in accepted ~> ~Tracked(m[1], m[2]) /\ (IsDelivered(m) \/ reports[m] > 0)
=============================================================================
