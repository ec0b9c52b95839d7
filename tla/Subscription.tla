---------------------------- MODULE Subscription ----------------------------
(***************************************************************************)
(* Subscribing to a channel, seen from both ends: krs_client_subscribe and *)
(* krs_client_unsubscribe with the receive thread that notices the ACK     *)
(* (client_connection.c), and the handlers of SUBSCRIBE, UNSUBSCRIBE and   *)
(* application frames (message_handler.c), for one client whose connection *)
(* the server has on channel 0 until it evicts it.                         *)
(*                                                                         *)
(* net and acks hold every frame that was ever sent; each may arrive at    *)
(* any later time, any number of times or never.  That includes what the   *)
(* tracker sends again, so the tracker has no state here.  Calls of        *)
(* subscribe do not overlap, as kronos_client.h demands; unsubscribe and   *)
(* send may be called at any time.                                         *)
(***************************************************************************)
EXTENDS Integers

CONSTANTS AppChannels,  \* channels one can subscribe to, 10 to 255
          Handlers,     \* the server's handler threads
          MaxPid,       \* bound on the packet ids of channel 0
          MaxMessages   \* bound on those of an application channel

Control == 0
Channels == AppChannels \cup {Control}
Pids == 1 .. MaxPid

ASSUME SubscriptionAssumption ==
    /\ Control \notin AppChannels
    /\ MaxPid \in Nat /\ MaxMessages \in 0 .. MaxPid

VARIABLES
    counter,     \* conn->packet_counter
    receiving,   \* the receive thread has been started
    cpc, ask,    \* where krs_client_subscribe is, and its [pid, ch]
    pendingPid,  \* conn->pending_subscribe_pid
    ackReceived, \* conn->subscribe_ack_received
    subscribed,  \* the channels with conn->subscribed[ch]
    net,         \* frames to the server: [type, pid, ch]
    acks,        \* MESSAGE_ACK frames to the client: <<channel, pid>>
    present,     \* the server has the connection on channel 0
    subs,        \* the channels whose list has the connection
    hpc, frame,  \* where each handler is, and its frame
    succeeded,   \* the calls of subscribe that returned KRS_SUCCESS
    committed,   \* the SUBSCRIBE frames the server committed, as [pid, ch]
    early,       \* application messages sent when the server did not list the client
    delivered, dropped  \* application messages given to the callback or not

clientVars == <<counter, receiving, cpc, ask, pendingPid, ackReceived, subscribed>>
serverVars == <<present, subs, hpc, frame>>
history == <<succeeded, committed, early, delivered, dropped>>
vars == <<clientVars, net, acks, serverVars, history>>

Ask(pid, ch) == [pid |-> pid, ch |-> ch]
NoAsk == Ask(0, 0)
Frame(type, pid, ch) == [type |-> type, pid |-> pid, ch |-> ch]
NoFrame == Frame("none", 0, 0)

Init ==
    /\ counter = [ch \in Channels |-> 0]
    /\ receiving = FALSE
    /\ cpc = "idle" /\ ask = NoAsk
    /\ pendingPid = 0
    /\ ackReceived = FALSE
    /\ subscribed = {}
    /\ net = {}
    /\ acks = {}
    /\ present = TRUE
    /\ subs = {}
    /\ hpc = [h \in Handlers |-> "idle"]
    /\ frame = [h \in Handlers |-> NoFrame]
    /\ succeeded = {} /\ committed = {} /\ early = {} /\ delivered = {} /\ dropped = {}
-----------------------------------------------------------------------------
(* The client.                                                             *)

\* krs_client_start_receive
StartReceive ==
    /\ ~receiving
    /\ cpc = "idle"
    /\ receiving' = TRUE
    /\ UNCHANGED <<counter, cpc, ask, pendingPid, ackReceived, subscribed,
                   net, acks, serverVars, history>>

\* Mutant of NextPid: ids are counted in steps of two.
SkipPid(ch) ==
    /\ counter[ch] < IF ch = Control THEN MaxPid ELSE MaxMessages
    /\ counter' = [counter EXCEPT ![ch] = @ + 2]

\* krs_packet_counter_next
NextPid(ch) ==
    /\ counter[ch] < IF ch = Control THEN MaxPid ELSE MaxMessages
    /\ counter' = [counter EXCEPT ![ch] = @ + 1]

\* krs_client_subscribe takes a packet id of channel 0.
SubscribeBegin(ch) ==
    /\ cpc = "idle"
    /\ NextPid(Control)
    /\ ask' = Ask(counter'[Control], ch)
    /\ cpc' = "send"
    /\ UNCHANGED <<receiving, pendingPid, ackReceived, subscribed,
                   net, acks, serverVars, history>>

\* What the receive thread is to look for.
Await == pendingPid' = ask.pid /\ ackReceived' = FALSE

SubscribeSend ==
    /\ cpc = "send"
    /\ IF receiving THEN Await ELSE UNCHANGED <<pendingPid, ackReceived>>
    /\ net' = net \cup {Frame("SUBSCRIBE", ask.pid, ask.ch)}
    /\ cpc' = "wait"
    /\ UNCHANGED <<counter, receiving, ask, subscribed, acks, serverVars, history>>

\* Mutant of Forget: the packet id stays pending.
ForgetFlag == ackReceived' = FALSE /\ UNCHANGED pendingPid

Forget == ackReceived' = FALSE /\ pendingPid' = 0

Return == cpc' = "idle" /\ ask' = NoAsk

Succeed ==
    /\ Return
    /\ subscribed' = subscribed \cup {ask.ch}
    /\ succeeded' = succeeded \cup {ask}

\* Mutant of Confirms: any ACK will do.
ConfirmsAny(a, pid) == pid # 0

\* An ACK is recognised by its packet id; its channel is not looked at.
Confirms(a, pid) == pid # 0 /\ a[2] = pid

\* The receive thread handles an ACK.
ReceiveAck(a) ==
    /\ receiving
    /\ a \in acks
    /\ Confirms(a, pendingPid)
    /\ ackReceived' = TRUE
    /\ UNCHANGED <<counter, receiving, cpc, ask, pendingPid, subscribed,
                   net, acks, serverVars, history>>

\* The call sees the flag.
SubscribeDone ==
    /\ cpc = "wait" /\ receiving
    /\ ackReceived
    /\ Succeed
    /\ Forget
    /\ UNCHANGED <<counter, receiving, net, acks, serverVars,
                   committed, early, delivered, dropped>>

\* Without a receive thread the call reads the socket itself.
SubscribeReads(a) ==
    /\ cpc = "wait" /\ ~receiving
    /\ a \in acks
    /\ Confirms(a, ask.pid)
    /\ Succeed
    /\ UNCHANGED <<counter, receiving, pendingPid, ackReceived, net, acks, serverVars,
                   committed, early, delivered, dropped>>

\* KRS_ERR_CLIENT_TIMEOUT; the SUBSCRIBE may still arrive, or be sent again.
SubscribeTimeout ==
    /\ cpc = "wait"
    /\ Return
    /\ IF receiving THEN Forget ELSE UNCHANGED <<pendingPid, ackReceived>>
    /\ UNCHANGED <<counter, receiving, subscribed, net, acks, serverVars, history>>

\* krs_client_unsubscribe, which another thread may call while a subscribe
\* waits.  Between its packet id and its send it only clears subscribed[ch].
Unsubscribe(ch) ==
    /\ NextPid(Control)
    /\ subscribed' = subscribed \ {ch}
    /\ net' = net \cup {Frame("UNSUBSCRIBE", counter'[Control], ch)}
    /\ UNCHANGED <<receiving, cpc, ask, pendingPid, ackReceived, acks, serverVars, history>>

\* krs_client_send of a reliable message in one frame; it does not ask
\* whether the channel is subscribed.
SendMessage(ch) ==
    /\ NextPid(ch)
    /\ net' = net \cup {Frame("BASIC_MESSAGE", counter'[ch], ch)}
    /\ early' = IF ch \in subs THEN early ELSE early \cup {<<ch, counter'[ch]>>}
    /\ UNCHANGED <<receiving, cpc, ask, pendingPid, ackReceived, subscribed, acks,
                   serverVars, succeeded, committed, delivered, dropped>>
-----------------------------------------------------------------------------
(* The server.                                                             *)

Take(h, f, next) ==
    /\ hpc[h] = "idle"
    /\ f \in net
    /\ hpc' = [hpc EXCEPT ![h] = next]
    /\ frame' = [frame EXCEPT ![h] = IF next = "idle" THEN NoFrame ELSE f]

Done(h) ==
    /\ hpc' = [hpc EXCEPT ![h] = "idle"]
    /\ frame' = [frame EXCEPT ![h] = NoFrame]

\* Mutant of Commit: the connection moves to the channel.
CommitMoves(ch) == subs' = {ch}

\* The connection is pushed to the channel's list unless it is there.
Commit(ch) == subs' = subs \cup {ch}

\* Mutant of Uncommit: the connection is taken off every channel.
UncommitAll(ch) == subs' = {}

\* The connection is taken off the channel's list, if it is there.
Uncommit(ch) == subs' = subs \ {ch}

\* s_dispatch_subscribe under state_lock: without a connection on channel 0
\* nothing is committed or acknowledged.
HandleSubscribe(h, f) ==
    /\ f.type = "SUBSCRIBE"
    /\ Take(h, f, IF present THEN "ack" ELSE "idle")
    /\ IF present
       THEN /\ Commit(f.ch)
            /\ committed' = committed \cup {Ask(f.pid, f.ch)}
       ELSE UNCHANGED <<subs, committed>>
    /\ UNCHANGED <<clientVars, net, acks, present, succeeded, early, delivered, dropped>>

\* The ACK of a committed SUBSCRIBE goes out on channel 0.
AckSubscribe(h) ==
    /\ hpc[h] = "ack"
    /\ acks' = acks \cup {<<Control, frame[h].pid>>}
    /\ Done(h)
    /\ UNCHANGED <<clientVars, net, present, subs, history>>

\* s_dispatch_unsubscribe; the client asks for no ACK.
HandleUnsubscribe(h, f) ==
    /\ f.type = "UNSUBSCRIBE"
    /\ Take(h, f, "idle")
    /\ IF present THEN Uncommit(f.ch) ELSE UNCHANGED subs
    /\ UNCHANGED <<clientVars, net, acks, present, history>>

\* s_dispatch_app_frame acknowledges the message first ...
AckMessage(h, f) ==
    /\ f.type = "BASIC_MESSAGE"
    /\ Take(h, f, "check")
    /\ acks' = acks \cup {<<f.ch, f.pid>>}
    /\ UNCHANGED <<clientVars, net, present, subs, history>>

\* ... and then looks for the subscription, under state_lock.
CheckMessage(h) ==
    /\ hpc[h] = "check"
    /\ LET m == <<frame[h].ch, frame[h].pid>> IN
       IF frame[h].ch \in subs
       THEN delivered' = delivered \cup {m} /\ UNCHANGED dropped
       ELSE dropped' = dropped \cup {m} /\ UNCHANGED delivered
    /\ Done(h)
    /\ UNCHANGED <<clientVars, net, acks, present, subs, succeeded, committed, early>>

\* s_evict_stale_connections, after 30 s without a heartbeat.
Evict ==
    /\ present
    /\ present' = FALSE
    /\ subs' = {}
    /\ UNCHANGED <<clientVars, net, acks, hpc, frame, history>>
-----------------------------------------------------------------------------
Next ==
    \/ StartReceive
    \/ \E ch \in AppChannels : SubscribeBegin(ch) \/ Unsubscribe(ch) \/ SendMessage(ch)
    \/ SubscribeSend \/ SubscribeDone \/ SubscribeTimeout
    \/ \E a \in acks : ReceiveAck(a) \/ SubscribeReads(a)
    \/ \E h \in Handlers, f \in net :
          HandleSubscribe(h, f) \/ HandleUnsubscribe(h, f) \/ AckMessage(h, f)
    \/ \E h \in Handlers : AckSubscribe(h) \/ CheckMessage(h)
    \/ Evict

Spec == Init /\ [][Next]_vars
-----------------------------------------------------------------------------
Asks == {Ask(p, ch) : p \in Pids, ch \in AppChannels} \cup {NoAsk}
Messages == AppChannels \X Pids
Unsubscribed(ch) == \E f \in net : f.type = "UNSUBSCRIBE" /\ f.ch = ch

\* Type correctness.
TypeOK ==
    /\ counter \in [Channels -> 0 .. MaxPid]
    /\ receiving \in BOOLEAN
    /\ cpc \in {"idle", "send", "wait"} /\ ask \in Asks
    /\ pendingPid \in 0 .. MaxPid
    /\ ackReceived \in BOOLEAN
    /\ subscribed \subseteq AppChannels
    /\ acks \subseteq Channels \X Pids
    /\ present \in BOOLEAN
    /\ subs \subseteq AppChannels
    /\ hpc \in [Handlers -> {"idle", "ack", "check"}]
    /\ succeeded \cup committed \subseteq Asks
    /\ early \cup delivered \cup dropped \subseteq Messages

\* krs_client_subscribe returns KRS_SUCCESS only for a subscription the
\* server has committed: a late ACK of an earlier call that timed out, an ACK
\* that arrives while the call is starting and the flag of an earlier call
\* never complete it.  The one exception is an application message of the
\* same packet id, whose ACK looks the same to the client.
SuccessIsCommitted ==
    \A s \in succeeded :
        s \in committed \/ \E ch \in AppChannels : <<ch, s.pid>> \in acks

\* A channel that was subscribed and never unsubscribed stays subscribed at
\* the server until the client is evicted, whatever else is subscribed,
\* unsubscribed, repeated or timed out in the meantime.
CommittedStays ==
    \A s \in succeeded \cap committed :
        present /\ ~Unsubscribed(s.ch) => s.ch \in subs

\* A message that is acknowledged and yet not given to the application was
\* sent before its channel was subscribed, or its channel has been
\* unsubscribed, or the client was evicted.
DropExplained ==
    \A m \in dropped : m \in early \/ Unsubscribed(m[1]) \/ ~present

\* The receive thread answers the call that is waiting and no other: what it
\* looks for is the packet id of that call, and its answer rests on an ACK
\* with that id, not on one that an earlier call was waiting for.
PendingIsAsked ==
    /\ pendingPid # 0 => cpc = "wait" /\ pendingPid = ask.pid
    /\ ackReceived => cpc = "wait" /\ \E a \in acks : a[2] = ask.pid
=============================================================================
