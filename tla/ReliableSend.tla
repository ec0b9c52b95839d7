---------------------------- MODULE ReliableSend ----------------------------
(***************************************************************************)
(* What the client's and the server's reliable sends have in common: the   *)
(* threads that send, the network between the two ends, and what the       *)
(* application sees.  ServerSend and ClientSend add the two sides' own     *)
(* code around it.                                                         *)
(*                                                                         *)
(* The network may lose, delay, reorder and duplicate every datagram: net  *)
(* and acks hold all that was ever sent, each may be received at any later *)
(* time, any number of times, or never.                                    *)
(* Failures says which steps of a send may find no memory.  The counters,  *)
(* the tracker, the congestion controller and the reassemblers, which      *)
(* their first use allocates, are always there.                            *)
(***************************************************************************)
EXTENDS AckTracker, Congestion, Reassembler

CONSTANTS Threads,      \* application threads that send on the connection
          Modes,        \* values of require_ack they use
          Failures      \* "build": a frame cannot be built, "track": or copied

ASSUME SendAssumption == Modes \subseteq BOOLEAN /\ Failures \subseteq {"build", "track"}

VARIABLES counter,    \* the packet counter of each channel
          pc, call,   \* where each sending thread is, and what it sends
          net,        \* data frames that were sent
          acks,       \* MESSAGE_ACK frames that were sent: <<ch, pid>>
          resent,     \* how often a frame was retransmitted, <<ch, pid, frag>>
          accepted,   \* reliable messages whose send returned KRS_SUCCESS
          delivered,  \* messages given to the receiver's callback
          reports     \* calls of the delivery failure callback per message

sendState == <<pending, ccvars, counter, pc, call>>
history == <<resent, accepted, delivered, reports>>
svars == <<sendState, net, acks, sessions, history>>

\* Channel 0 carries SUBSCRIBE frames.
Control == 0

Message == Channels \X Pid
FrameKey == Message \X UNION {1 .. n : n \in Sizes}

NoCall == [ch |-> 0, pid |-> 0, total |-> 0, ack |-> FALSE]
MessageOf(f) == <<f.ch, f.pid>>
KeyOf(f) == <<MessageOf(f), f.frag>>

\* krs_fragment_split, or the single frame of a short message.
FramesOf(c) ==
    {[ch |-> c.ch, pid |-> c.pid, frag |-> i, total |-> c.total, ack |-> c.ack]
        : i \in 1 .. c.total}

SInit ==
    /\ pending = {}
    /\ CCInit
    /\ RInit
    /\ counter = [c \in Channels |-> 0]
    /\ pc = [t \in Threads |-> "idle"]
    /\ call = [t \in Threads |-> NoCall]
    /\ net = {}
    /\ acks = {}
    /\ resent = [k \in FrameKey |-> 0]
    /\ accepted = {}
    /\ delivered = {}
    /\ reports = [m \in Message |-> 0]
-----------------------------------------------------------------------------
(* The steps of a send.                                                    *)

\* krs_packet_counter_next, under the lock that guards the counter.
NextPid(t, c, n, ack, next) ==
    /\ pc[t] = "idle"
    /\ counter[c] < MaxPid
    /\ counter' = [counter EXCEPT ![c] = @ + 1]
    /\ call' = [call EXCEPT ![t] =
                   [ch |-> c, pid |-> counter[c] + 1, total |-> n, ack |-> ack]]
    /\ pc' = [pc EXCEPT ![t] = next]
    /\ UNCHANGED <<pending, ccvars, net, acks, sessions, history>>

Return(t) ==
    /\ pc' = [pc EXCEPT ![t] = "idle"]
    /\ call' = [call EXCEPT ![t] = NoCall]

\* The congestion window has room, and the packet is counted in it.
Admit(t) ==
    /\ pc[t] = "window"
    /\ CanSend
    /\ OnSend
    /\ pc' = [pc EXCEPT ![t] = "build"]
    /\ UNCHANGED <<pending, counter, call, net, acks, sessions, history>>

\* KRS_ERR_SERVER_CONGESTION_WINDOW_FULL: the packet id stays used.
WindowFull(t) ==
    /\ pc[t] = "window"
    /\ ~CanSend
    /\ Return(t)
    /\ UNCHANGED <<pending, ccvars, counter, net, acks, sessions, history>>

\* The frames cannot be built: the send returns an error.
BuildFails(t) ==
    /\ pc[t] = "build"
    /\ "build" \in Failures
    /\ Return(t)
    /\ UNCHANGED <<pending, ccvars, counter, net, acks, sessions, history>>

\* The frames of a reliable message are tracked before they are sent.
Track(t) ==
    /\ pc[t] = "build"
    /\ call[t].ack
    /\ \E kept \in IF "track" \in Failures THEN SUBSET FramesOf(call[t])
                   ELSE {FramesOf(call[t])} : Expect(kept)
    /\ pc' = [pc EXCEPT ![t] = "send"]
    /\ UNCHANGED <<ccvars, counter, call, net, acks, sessions, history>>

\* krs_net_send_frame for each frame, and KRS_SUCCESS.
Transmit(t) ==
    /\ pc[t] = IF call[t].ack THEN "send" ELSE "build"
    /\ net' = net \cup FramesOf(call[t])
    /\ accepted' = IF call[t].ack THEN accepted \cup {MessageOf(call[t])} ELSE accepted
    /\ Return(t)
    /\ UNCHANGED <<pending, ccvars, counter, acks, sessions, resent, delivered, reports>>
-----------------------------------------------------------------------------
(* Retransmission, and what the application is told.                       *)

\* The frames of a scan are sent again.  A frame that one scan sends twice
\* counts once, and a count stops at MaxRetries, all that is ever asked of it.
Resend(frames) ==
    /\ net' = net \cup frames
    /\ resent' = [k \in FrameKey |->
                     IF (\E f \in frames : KeyOf(f) = k) /\ resent[k] < MaxRetries
                     THEN resent[k] + 1 ELSE resent[k]]

\* The delivery failure callback, once for each recorded entry.
Report(entries) ==
    reports' = [m \in Message |->
                   reports[m] + Cardinality({e \in entries : MessageOf(e.frame) = m})]
-----------------------------------------------------------------------------
(* The receiver of the messages.                                           *)

\* Mutant of Accepts: a fragment is acknowledged when it arrives, not when
\* its message is complete.
AcceptsEach(f) ==
    /\ acks' = IF f.ack THEN acks \cup {MessageOf(f)} ELSE acks
    /\ IF f.total = 1
       THEN /\ delivered' = delivered \cup {[msg |-> MessageOf(f), pieces |-> {f}]}
            /\ UNCHANGED sessions
       ELSE /\ Feed(f)
            /\ delivered' = IF Completes(f)
                            THEN delivered \cup {[msg |-> MessageOf(f), pieces |-> Stored(f).pieces]}
                            ELSE delivered

\* s_dispatch_app_frame and the receive loop of the client, for a channel
\* that is subscribed: a whole message is acknowledged and given to the
\* callback, each time it is received.
Accepts(f) ==
    IF f.total = 1
    THEN /\ acks' = IF f.ack THEN acks \cup {MessageOf(f)} ELSE acks
         /\ delivered' = delivered \cup {[msg |-> MessageOf(f), pieces |-> {f}]}
         /\ UNCHANGED sessions
    ELSE /\ Feed(f)
         /\ IF Completes(f)
            THEN /\ acks' = IF Stored(f).ack THEN acks \cup {MessageOf(f)} ELSE acks
                 /\ delivered' = delivered \cup
                        {[msg |-> MessageOf(f), pieces |-> Stored(f).pieces]}
            ELSE UNCHANGED <<acks, delivered>>

Receive(f) ==
    /\ f \in net
    /\ Accepts(f)
    /\ UNCHANGED <<sendState, net, resent, accepted, reports>>
-----------------------------------------------------------------------------
IsDelivered(m) == \E d \in delivered : d.msg = m

\* Every delivery failure report stands for a frame that really was sent
\* again MaxRetries times: check_timeouts gives up on no frame early.
RetriedBeforeReport ==
    \A m \in Message :
        reports[m] <= Cardinality({k \in FrameKey : k[1] = m /\ resent[k] >= MaxRetries})

\* in_flight never falls below the number of messages that were admitted and
\* still wait for their ACK, although ACKs are lost, repeated and late and
\* the tracker and the controller are not updated together: the window is
\* never opened wider than cwnd allows.
InFlightCovers ==
    in_flight >= Cardinality(
        {m \in Message : m[1] # Control /\ Tracked(m[1], m[2])} \cup
        {MessageOf(call[t]) : t \in {x \in Threads : /\ pc[x] = "build" /\ call[x].ack
                                                    /\ call[x].ch # Control}})

\* What the reassembler hands over is whole: all the fragments, each once,
\* however they were repeated and reordered.
WholeMessages ==
    \A d \in delivered : \A p \in d.pieces :
        {q.frag : q \in d.pieces} = 1 .. p.total /\ Cardinality(d.pieces) = p.total

\* Every fragment of a delivered message is a fragment of that message.
UnmixedMessages == \A d \in delivered : \A p \in d.pieces : MessageOf(p) = d.msg
=============================================================================
