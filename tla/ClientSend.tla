----------------------------- MODULE ClientSend -----------------------------
(***************************************************************************)
(* Reliable sends from a client to the server: krs_client_send, the        *)
(* tracked SUBSCRIBE frame of krs_client_subscribe, and the receive thread *)
(* that retransmits and processes ACKs (client_connection.c).  state_lock  *)
(* makes each of their critical sections one step; what the receive thread *)
(* sends and reports right after it has left the lock belongs to the step. *)
(* The receive thread runs and the connection stays open.                  *)
(***************************************************************************)
EXTENDS ReliableSend

\* A SUBSCRIBE frame is never fragmented.
ASSUME ClientAssumption == Control \in Channels => 1 \in Sizes

VARIABLES congestion,   \* conn->congestion exists
          rpc           \* where the receive thread is

vars == <<svars, congestion, rpc>>

Init ==
    /\ SInit
    /\ congestion = FALSE
    /\ rpc = "tick"
-----------------------------------------------------------------------------
(* krs_client_send.                                                        *)

ClientBegin(t, c, n, ack) ==
    /\ c # Control
    /\ NextPid(t, c, n, ack, IF ack THEN "window" ELSE "build")
    /\ UNCHANGED <<congestion, rpc>>

\* The controller is created by the first reliable send.
ClientWindow(t) ==
    /\ Admit(t) \/ WindowFull(t)
    /\ congestion' = TRUE
    /\ UNCHANGED rpc

ClientBuild(t) ==
    /\ BuildFails(t) \/ Track(t)
    /\ UNCHANGED <<congestion, rpc>>

ClientTransmit(t) ==
    /\ Transmit(t)
    /\ UNCHANGED <<congestion, rpc>>

\* krs_client_subscribe: its frame is tracked like a message's, but does
\* not pass the congestion window.
SubscribeBegin(t) ==
    /\ Control \in Channels
    /\ NextPid(t, Control, 1, TRUE, "build")
    /\ UNCHANGED <<congestion, rpc>>
-----------------------------------------------------------------------------
(* s_client_recv_thread: it checks the tracker, then waits for one frame.  *)

Resends(timed) == {RetryFrame(timed, e.frame.pid) : e \in RetryRecorded(timed)}

\* The loss reaction looks at the retries that were recorded.
ReactToLoss(timed) ==
    IF ~congestion \/ RetryRecorded(timed) = {} THEN UNCHANGED ccvars
    ELSE IF \E e \in RetryRecorded(timed) : ~IsFast(e) THEN OnTimeoutLoss
    ELSE OnFastLoss

ClientTick(timed) ==
    /\ rpc = "tick"
    /\ CheckTimeouts(timed)
    /\ ReactToLoss(timed)
    /\ Resend(Resends(timed))
    /\ Report(DropRecorded(timed))
    /\ rpc' = "recv"
    /\ UNCHANGED <<counter, pc, call, acks, sessions, accepted, delivered, congestion>>

\* Mutant of AckCounts: an ACK is credited whether or not it was awaited.
AnyAckCounts(a) == congestion

\* rtt >= 0 and there is a controller: the ACK has removed an entry.
AckCounts(a) == congestion /\ Tracked(a[1], a[2])

ClientAck(a) ==
    /\ rpc = "recv"
    /\ a \in acks
    /\ ReceiveAck(a[1], a[2])
    /\ IF AckCounts(a) THEN OnAck ELSE UNCHANGED ccvars
    /\ rpc' = "tick"
    /\ UNCHANGED <<counter, pc, call, net, acks, sessions, history, congestion>>

\* recvfrom times out, or returns a frame that is no ACK.
ClientOther ==
    /\ rpc = "recv"
    /\ rpc' = "tick"
    /\ UNCHANGED <<svars, congestion>>
-----------------------------------------------------------------------------
\* The server's retransmit thread discards sessions that are 10 s old.
ServerSweep ==
    /\ \E stale \in (SUBSET DOMAIN sessions) \ {{}} : Sweep(stale)
    /\ UNCHANGED <<sendState, net, acks, history, congestion, rpc>>

SenderStep(t) == ClientWindow(t) \/ ClientBuild(t) \/ ClientTransmit(t)

Next ==
    \/ \E t \in Threads, c \in Channels, n \in Sizes, ack \in Modes : ClientBegin(t, c, n, ack)
    \/ \E t \in Threads : SubscribeBegin(t)
    \/ \E t \in Threads : SenderStep(t)
    \/ \E timed \in SUBSET pending : ClientTick(timed)
    \/ \E a \in acks : ClientAck(a)
    \/ ClientOther
    \/ \E f \in net : Receive(f) /\ UNCHANGED <<congestion, rpc>>
    \/ ServerSweep

Spec == Init /\ [][Next]_vars

\* The timer of a frame that is never acknowledged runs out, for good.
TicksFrame(k) ==
    \E timed \in SUBSET pending : (\E e \in timed : KeyOf(e.frame) = k) /\ ClientTick(timed)

\* The sending threads and the receive thread are scheduled.  The receive
\* thread comes back to its tick again and again: a timer that has run out
\* is seen (strong fairness, as each wait in between disables the tick).
FairSpec ==
    /\ Spec
    /\ \A t \in Threads : WF_vars(SenderStep(t))
    /\ WF_vars(ClientOther)
    /\ WF_vars(\E timed \in SUBSET pending : ClientTick(timed))
    /\ \A k \in FrameKey : SF_vars(TicksFrame(k))
-----------------------------------------------------------------------------
\* Type correctness of the tracker, the controller, the sending threads and
\* the receive thread.
TypeOK ==
    /\ pending \subseteq Entry
    /\ CCTypeOK
    /\ counter \in [Channels -> 0 .. MaxPid]
    /\ pc \in [Threads -> {"idle", "window", "build", "send"}]
    /\ net \subseteq Frame
    /\ acks \subseteq Message
    /\ accepted \subseteq Message
    /\ congestion \in BOOLEAN
    /\ rpc \in {"tick", "recv"}

\* A reliable message that krs_client_send accepted is still tracked, or was
\* given to the server's callback, or the failure callback was called for it:
\* this holds although the client may retransmit the wrong frame.
NoSilentLoss ==
    \A m \in accepted : Tracked(m[1], m[2]) \/ IsDelivered(m) \/ reports[m] > 0

\* An accepted message is settled: in the end the tracker forgets it, and it
\* was delivered or the application was told.  The network owes nothing.
Settles ==
    \A m \in Message :
        m \in accepted ~> ~Tracked(m[1], m[2]) /\ (IsDelivered(m) \/ reports[m] > 0)
=============================================================================
