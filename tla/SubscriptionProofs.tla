------------------------- MODULE SubscriptionProofs -------------------------
(***************************************************************************)
(* Proofs about Subscription for every set of channels, every number of    *)
(* handler threads and every bound on the packet ids.                      *)
(*                                                                         *)
(* The properties speak of what the caller was told and of what the server *)
(* lists.  What links them is the traffic between the two, so the          *)
(* inductive invariant adds what every frame in transit, every ACK and     *)
(* every frame in a handler's hands stands for.                            *)
(***************************************************************************)
EXTENDS Subscription, TLAPS

FrameTypes == {"SUBSCRIBE", "UNSUBSCRIBE", "BASIC_MESSAGE"}

\* What is on the network was sent by the client.
FramesOK == net \subseteq [type : FrameTypes, pid : Pids, ch : AppChannels]

\* A call in progress has a packet id of its own, taken from the counter.
CallOK ==
    cpc # "idle" => ask.pid \in 1 .. counter[Control] /\ ask.ch \in AppChannels

\* Packet ids of SUBSCRIBE frames are never used again: the frame of the
\* call in progress is the only one with the id of that call.
PidsFresh ==
    \A f \in net : f.type = "SUBSCRIBE" =>
        /\ f.pid <= counter[Control]
        /\ cpc = "send" => f.pid # ask.pid
        /\ cpc = "wait" /\ f.pid = ask.pid => f.ch = ask.ch

\* What the server committed was asked for, and what it acknowledged on
\* channel 0 was committed before.
CommitsSent == \A c \in committed : Frame("SUBSCRIBE", c.pid, c.ch) \in net
AcksCommitted ==
    \A a \in acks : a[1] = Control => \E c \in committed : c.pid = a[2]

\* A handler between two steps holds a frame that was sent, and committed if
\* it is about to acknowledge a SUBSCRIBE.
HandlersOK ==
    /\ frame \in [Handlers -> net \cup {NoFrame}]
    /\ \A h \in Handlers :
          /\ hpc[h] # "idle" => frame[h] \in net
          /\ hpc[h] = "ack" => Ask(frame[h].pid, frame[h].ch) \in committed
          /\ hpc[h] = "check" => frame[h].type = "BASIC_MESSAGE"

\* Without a receive thread there is nothing it looks for.
ReceiverOff == ~receiving => pendingPid = 0 /\ ackReceived = FALSE

\* Every committed channel stays listed, whether or not the caller knows.
ListedStays ==
    \A c \in committed : present /\ ~Unsubscribed(c.ch) => c.ch \in subs

\* A message that was sent while the channel was listed finds it listed.
SentListed ==
    \A f \in net : f.type = "BASIC_MESSAGE" =>
        <<f.ch, f.pid>> \in early \/ Unsubscribed(f.ch) \/ ~present \/ f.ch \in subs

Traffic ==
    /\ FramesOK /\ CallOK /\ PidsFresh /\ CommitsSent /\ AcksCommitted
    /\ HandlersOK /\ ReceiverOff

IInv ==
    /\ TypeOK /\ Traffic
    /\ PendingIsAsked /\ SuccessIsCommitted
    /\ ListedStays /\ SentListed /\ DropExplained
-----------------------------------------------------------------------------
\* krs_packet_counter_next hands out the next id of the channel and touches
\* no other channel's counter.
LEMMA NextPidOK ==
    ASSUME TypeOK, NEW ch \in Channels, NextPid(ch)
    PROVE  /\ counter' \in [Channels -> 0 .. MaxPid]
           /\ counter'[ch] = counter[ch] + 1
           /\ counter'[ch] \in Pids
           /\ \A d \in Channels \ {ch} : counter'[d] = counter[d]
<1>1. counter \in [Channels -> 0 .. MaxPid] /\ MaxPid \in Nat /\ MaxMessages \in 0 .. MaxPid
  BY SubscriptionAssumption DEF TypeOK
<1>2. counter[ch] \in 0 .. MaxPid /\ counter[ch] < MaxPid
  BY <1>1 DEF NextPid
<1>3. counter[ch] + 1 \in 0 .. MaxPid /\ counter[ch] + 1 \in 1 .. MaxPid
  BY <1>1, <1>2
<1>4. QED BY <1>1, <1>3 DEF NextPid, Pids

\* A call in progress asks for a channel under a packet id.
LEMMA AskOK ==
    ASSUME TypeOK, CallOK, cpc # "idle"
    PROVE  ask.pid \in Pids /\ ask.ch \in AppChannels /\ ask = Ask(ask.pid, ask.ch)
<1>1. counter[Control] \in 0 .. MaxPid /\ MaxPid \in Nat
  BY SubscriptionAssumption DEF TypeOK, Channels
<1>2. ask.pid \in 1 .. counter[Control] /\ ask.ch \in AppChannels
  BY DEF CallOK
<1>3. ask.pid \in Pids
  BY <1>1, <1>2 DEF Pids
<1>4. ask = Ask(ask.pid, ask.ch)
  BY DEF TypeOK, Asks, Ask, NoAsk
<1>5. QED BY <1>2, <1>3, <1>4

\* Initially nothing was sent, asked or answered.
LEMMA InitIInv == Init => IInv
<1> SUFFICES ASSUME Init PROVE IInv
  OBVIOUS
<1> USE DEF Init
<1>1. TypeOK
  <2>1. 0 \in 0 .. MaxPid
    BY SubscriptionAssumption
  <2>2. counter \in [Channels -> 0 .. MaxPid] /\ hpc \in [Handlers -> {"idle", "ack", "check"}]
    BY <2>1
  <2>3. succeeded \cup committed \subseteq Asks /\ early \cup delivered \cup dropped \subseteq Messages
    OBVIOUS
  <2>4. ask \in Asks
    BY DEF Asks
  <2>5. QED BY <2>1, <2>2, <2>3, <2>4 DEF TypeOK
<1>2. Traffic
  BY DEF Traffic, FramesOK, CallOK, PidsFresh, CommitsSent, AcksCommitted, HandlersOK, ReceiverOff
<1>3. PendingIsAsked /\ SuccessIsCommitted /\ ListedStays /\ SentListed /\ DropExplained
  BY DEF PendingIsAsked, SuccessIsCommitted, ListedStays, SentListed, DropExplained
<1>4. QED BY <1>1, <1>2, <1>3 DEF IInv

\* Type correctness, and what is on the network, after every step.
LEMMA TypeStep == IInv /\ [Next]_vars => TypeOK' /\ FramesOK'
<1> SUFFICES ASSUME IInv, [Next]_vars PROVE TypeOK' /\ FramesOK'
  OBVIOUS
<1> USE DEF clientVars, serverVars, history
<1>0. TypeOK /\ FramesOK /\ CallOK /\ HandlersOK
  BY DEF IInv, Traffic
<1>1. Control \in Channels /\ AppChannels \subseteq Channels
  BY DEF Channels
<1>2. 0 \in 0 .. MaxPid /\ Pids \subseteq 0 .. MaxPid
  BY SubscriptionAssumption DEF Pids
<1>3. \A h \in Handlers : hpc[h] # "idle" => frame[h].pid \in Pids /\ frame[h].ch \in AppChannels
  BY <1>0 DEF HandlersOK, TypeOK, FramesOK
<1>4. \A p \in Pids, ch \in AppChannels : Ask(p, ch) \in Asks
  BY DEF Asks
<1>5. NoAsk \in Asks
  BY DEF Asks
<1>6. \A t \in FrameTypes, p \in Pids, ch \in AppChannels :
          Frame(t, p, ch) \in [type : FrameTypes, pid : Pids, ch : AppChannels]
  BY DEF Frame
<1>10. CASE StartReceive
  BY <1>0, <1>10 DEF StartReceive, TypeOK, FramesOK
<1>11. ASSUME NEW ch \in AppChannels, SubscribeBegin(ch) PROVE TypeOK' /\ FramesOK'
  <2>1. counter' \in [Channels -> 0 .. MaxPid] /\ counter'[Control] \in Pids
    BY <1>0, <1>1, <1>11, NextPidOK DEF SubscribeBegin
  <2>2. ask' \in Asks
    BY <1>4, <1>11, <2>1 DEF SubscribeBegin
  <2>3. QED BY <1>0, <1>11, <2>1, <2>2 DEF SubscribeBegin, TypeOK, FramesOK
<1>12. ASSUME NEW ch \in AppChannels, Unsubscribe(ch) PROVE TypeOK' /\ FramesOK'
  <2>1. counter' \in [Channels -> 0 .. MaxPid] /\ counter'[Control] \in Pids
    BY <1>0, <1>1, <1>12, NextPidOK DEF Unsubscribe
  <2>2. FramesOK'
    BY <1>0, <1>6, <1>12, <2>1 DEF Unsubscribe, FramesOK, FrameTypes
  <2>3. QED BY <1>0, <1>12, <2>1, <2>2 DEF Unsubscribe, TypeOK
<1>13. ASSUME NEW ch \in AppChannels, SendMessage(ch) PROVE TypeOK' /\ FramesOK'
  <2>1. counter' \in [Channels -> 0 .. MaxPid] /\ counter'[ch] \in Pids
    BY <1>0, <1>1, <1>13, NextPidOK DEF SendMessage
  <2>2. FramesOK'
    BY <1>0, <1>6, <1>13, <2>1 DEF SendMessage, FramesOK, FrameTypes
  <2>3. <<ch, counter'[ch]>> \in Messages
    BY <2>1 DEF Messages
  <2>4. early' \subseteq Messages
    BY <1>0, <1>13, <2>3 DEF SendMessage, TypeOK
  <2>5. QED BY <1>0, <1>13, <2>1, <2>2, <2>4 DEF SendMessage, TypeOK
<1>14. CASE SubscribeSend
  <2>1. ask.pid \in Pids /\ ask.ch \in AppChannels
    BY <1>0, <1>14, AskOK DEF SubscribeSend
  <2>2. FramesOK'
    BY <1>0, <1>6, <1>14, <2>1 DEF SubscribeSend, FramesOK, FrameTypes
  <2>3. pendingPid' \in 0 .. MaxPid /\ ackReceived' \in BOOLEAN
    BY <1>0, <1>2, <1>14, <2>1 DEF SubscribeSend, Await, TypeOK
  <2>4. QED BY <1>0, <1>14, <2>2, <2>3 DEF SubscribeSend, TypeOK
<1>15. CASE SubscribeDone
  <2>1. ask.ch \in AppChannels /\ ask \in Asks
    BY <1>0, <1>15, AskOK DEF SubscribeDone, TypeOK
  <2>2. QED BY <1>0, <1>2, <1>5, <1>15, <2>1
        DEF SubscribeDone, Succeed, Return, Forget, TypeOK, FramesOK
<1>16. CASE SubscribeTimeout
  <2>1. pendingPid' \in 0 .. MaxPid /\ ackReceived' \in BOOLEAN
    BY <1>0, <1>2, <1>16 DEF SubscribeTimeout, Forget, TypeOK
  <2>2. QED BY <1>0, <1>5, <1>16, <2>1 DEF SubscribeTimeout, Return, TypeOK, FramesOK
<1>17. ASSUME NEW a \in acks, ReceiveAck(a) PROVE TypeOK' /\ FramesOK'
  BY <1>0, <1>17 DEF ReceiveAck, TypeOK, FramesOK
<1>18. ASSUME NEW a \in acks, SubscribeReads(a) PROVE TypeOK' /\ FramesOK'
  <2>1. ask.ch \in AppChannels /\ ask \in Asks
    BY <1>0, <1>18, AskOK DEF SubscribeReads, TypeOK
  <2>2. QED BY <1>0, <1>5, <1>18, <2>1
        DEF SubscribeReads, Succeed, Return, TypeOK, FramesOK
<1>19. ASSUME NEW h \in Handlers, NEW f \in net,
              HandleSubscribe(h, f) \/ HandleUnsubscribe(h, f) \/ AckMessage(h, f)
       PROVE  TypeOK' /\ FramesOK'
  <2>1. f.pid \in Pids /\ f.ch \in AppChannels
    BY <1>0 DEF FramesOK
  <2>2. hpc' \in [Handlers -> {"idle", "ack", "check"}]
    BY <1>0, <1>19 DEF HandleSubscribe, HandleUnsubscribe, AckMessage, Take, TypeOK
  <2>3. CASE HandleSubscribe(h, f)
    <3>1. subs' \subseteq AppChannels /\ committed' \subseteq Asks
      BY <1>0, <1>4, <2>1, <2>3 DEF HandleSubscribe, Commit, TypeOK
    <3>2. QED BY <1>0, <2>2, <2>3, <3>1 DEF HandleSubscribe, TypeOK, FramesOK
  <2>4. CASE HandleUnsubscribe(h, f)
    <3>1. subs' \subseteq AppChannels
      BY <1>0, <2>4 DEF HandleUnsubscribe, Uncommit, TypeOK
    <3>2. QED BY <1>0, <2>2, <2>4, <3>1 DEF HandleUnsubscribe, TypeOK, FramesOK
  <2>5. CASE AckMessage(h, f)
    <3>1. acks' \subseteq Channels \X Pids
      BY <1>0, <1>1, <2>1, <2>5 DEF AckMessage, TypeOK
    <3>2. QED BY <1>0, <2>2, <2>5, <3>1 DEF AckMessage, TypeOK, FramesOK
  <2>6. QED BY <1>19, <2>3, <2>4, <2>5
<1>20. ASSUME NEW h \in Handlers, AckSubscribe(h) PROVE TypeOK' /\ FramesOK'
  <2>1. acks' \subseteq Channels \X Pids
    BY <1>0, <1>1, <1>3, <1>20 DEF AckSubscribe, TypeOK
  <2>2. QED BY <1>0, <1>20, <2>1 DEF AckSubscribe, Done, TypeOK, FramesOK
<1>21. ASSUME NEW h \in Handlers, CheckMessage(h) PROVE TypeOK' /\ FramesOK'
  <2>1. <<frame[h].ch, frame[h].pid>> \in Messages
    BY <1>3, <1>21 DEF CheckMessage, Messages
  <2>2. delivered' \subseteq Messages /\ dropped' \subseteq Messages
    BY <1>0, <1>21, <2>1 DEF CheckMessage, TypeOK
  <2>3. QED BY <1>0, <1>21, <2>2 DEF CheckMessage, Done, TypeOK, FramesOK
<1>22. CASE Evict
  BY <1>0, <1>22 DEF Evict, TypeOK, FramesOK
<1>23. CASE UNCHANGED vars
  BY <1>0, <1>23 DEF vars, TypeOK, FramesOK
<1>24. QED
  BY <1>10, <1>11, <1>12, <1>13, <1>14, <1>15, <1>16, <1>17, <1>18, <1>19, <1>20, <1>21,
     <1>22, <1>23 DEF Next
-----------------------------------------------------------------------------
(* What the client's calls know and what its frames stand for.             *)

\* How the ids of channel 0 move on, and where the client's call stands.
LEMMA CallStep == IInv /\ [Next]_vars => CallOK' /\ PidsFresh'
<1> SUFFICES ASSUME IInv, [Next]_vars PROVE CallOK' /\ PidsFresh'
  OBVIOUS
<1> USE DEF clientVars, serverVars, history
<1>0. TypeOK /\ FramesOK /\ CallOK /\ PidsFresh
  BY DEF IInv, Traffic
<1>1. Control \in Channels /\ AppChannels \subseteq Channels /\ Control \notin AppChannels
  BY SubscriptionAssumption DEF Channels
<1>2. counter[Control] \in Nat /\ counter[Control] \in 0 .. MaxPid /\ MaxPid \in Nat
  BY <1>0, <1>1, SubscriptionAssumption DEF TypeOK
<1>3. \A f \in net : f.pid \in Nat
  BY <1>0, SubscriptionAssumption DEF FramesOK, Pids
<1>10. ASSUME NEW ch \in AppChannels, SubscribeBegin(ch) PROVE CallOK' /\ PidsFresh'
  <2>1. counter'[Control] = counter[Control] + 1
    BY <1>0, <1>1, <1>10, NextPidOK DEF SubscribeBegin
  <2>2. ask'.pid = counter[Control] + 1 /\ ask'.ch = ch /\ cpc' = "send" /\ net' = net
    BY <1>10, <2>1 DEF SubscribeBegin, Ask
  <2>3. QED BY <1>0, <1>2, <1>3, <2>1, <2>2 DEF CallOK, PidsFresh
<1>11. ASSUME NEW ch \in AppChannels, Unsubscribe(ch) PROVE CallOK' /\ PidsFresh'
  <2>1. counter'[Control] = counter[Control] + 1
    BY <1>0, <1>1, <1>11, NextPidOK DEF Unsubscribe
  <2>2. cpc' = cpc /\ ask' = ask
    BY <1>11 DEF Unsubscribe
  <2>3. \A f \in net' : f.type = "SUBSCRIBE" => f \in net
    BY <1>11 DEF Unsubscribe, Frame
  <2>4. QED BY <1>0, <1>2, <1>3, <2>1, <2>2, <2>3 DEF CallOK, PidsFresh
<1>12. ASSUME NEW ch \in AppChannels, SendMessage(ch) PROVE CallOK' /\ PidsFresh'
  <2>1. counter'[Control] = counter[Control]
    BY <1>0, <1>1, <1>12, NextPidOK DEF SendMessage
  <2>2. \A f \in net' : f.type = "SUBSCRIBE" => f \in net
    BY <1>12 DEF SendMessage, Frame
  <2>3. cpc' = cpc /\ ask' = ask
    BY <1>12 DEF SendMessage
  <2>4. QED BY <1>0, <2>1, <2>2, <2>3 DEF CallOK, PidsFresh
<1>13. CASE SubscribeSend
  <2>1. cpc = "send" /\ cpc' = "wait" /\ ask' = ask /\ counter' = counter
    BY <1>13 DEF SubscribeSend
  <2>2. \A f \in net' : f \in net \/ (f.pid = ask.pid /\ f.ch = ask.ch)
    BY <1>13 DEF SubscribeSend, Frame
  <2>3. CallOK'
    BY <1>0, <2>1 DEF CallOK
  <2>4. ask.pid <= counter[Control]
    BY <1>0, <1>2, <2>1 DEF CallOK
  <2>5. QED BY <1>0, <2>1, <2>2, <2>3, <2>4 DEF PidsFresh
<1>14. CASE SubscribeDone \/ SubscribeTimeout \/ \E a \in acks : SubscribeReads(a)
  <2>1. cpc' = "idle" /\ counter' = counter /\ net' = net
    BY <1>14 DEF SubscribeDone, SubscribeTimeout, SubscribeReads, Succeed, Return
  <2>2. QED BY <1>0, <2>1 DEF CallOK, PidsFresh
<1>15. CASE UNCHANGED <<counter, cpc, ask, net>>
  BY <1>0, <1>15 DEF CallOK, PidsFresh
<1>16. CASE StartReceive \/ Evict \/ UNCHANGED vars
  BY <1>15, <1>16 DEF StartReceive, Evict, vars
<1>17. ASSUME NEW a \in acks, ReceiveAck(a) PROVE CallOK' /\ PidsFresh'
  BY <1>15, <1>17 DEF ReceiveAck
<1>18. ASSUME NEW h \in Handlers, NEW f \in net,
              HandleSubscribe(h, f) \/ HandleUnsubscribe(h, f) \/ AckMessage(h, f)
       PROVE  CallOK' /\ PidsFresh'
  BY <1>15, <1>18 DEF HandleSubscribe, HandleUnsubscribe, AckMessage
<1>19. ASSUME NEW h \in Handlers, AckSubscribe(h) \/ CheckMessage(h)
       PROVE  CallOK' /\ PidsFresh'
  BY <1>15, <1>19 DEF AckSubscribe, CheckMessage
<1>20. QED
  BY <1>10, <1>11, <1>12, <1>13, <1>14, <1>16, <1>17, <1>18, <1>19 DEF Next

\* The receive thread looks for what the call in progress asked for.
LEMMA PendingStep == IInv /\ [Next]_vars => PendingIsAsked' /\ ReceiverOff'
<1> SUFFICES ASSUME IInv, [Next]_vars PROVE PendingIsAsked' /\ ReceiverOff'
  OBVIOUS
<1> USE DEF clientVars, serverVars, history
<1>0. PendingIsAsked /\ ReceiverOff /\ TypeOK
  BY DEF IInv, Traffic
<1>10. CASE StartReceive
  BY <1>0, <1>10 DEF StartReceive, PendingIsAsked, ReceiverOff
<1>11. ASSUME NEW ch \in AppChannels, SubscribeBegin(ch) PROVE PendingIsAsked' /\ ReceiverOff'
  BY <1>0, <1>11 DEF SubscribeBegin, PendingIsAsked, ReceiverOff
<1>12. ASSUME NEW ch \in AppChannels, Unsubscribe(ch) \/ SendMessage(ch)
       PROVE  PendingIsAsked' /\ ReceiverOff'
  BY <1>0, <1>12 DEF Unsubscribe, SendMessage, PendingIsAsked, ReceiverOff
<1>13. CASE SubscribeSend
  BY <1>0, <1>13 DEF SubscribeSend, Await, PendingIsAsked, ReceiverOff, TypeOK
<1>14. CASE SubscribeDone \/ SubscribeTimeout
  BY <1>0, <1>14 DEF SubscribeDone, SubscribeTimeout, Succeed, Return, Forget, PendingIsAsked, ReceiverOff, TypeOK
<1>15. ASSUME NEW a \in acks, ReceiveAck(a) PROVE PendingIsAsked' /\ ReceiverOff'
  BY <1>0, <1>15 DEF ReceiveAck, Confirms, PendingIsAsked, ReceiverOff
<1>16. ASSUME NEW a \in acks, SubscribeReads(a) PROVE PendingIsAsked' /\ ReceiverOff'
  BY <1>0, <1>16 DEF SubscribeReads, Succeed, Return, PendingIsAsked, ReceiverOff
<1>17. ASSUME acks \subseteq acks', UNCHANGED <<receiving, cpc, ask, pendingPid, ackReceived>>
       PROVE  PendingIsAsked' /\ ReceiverOff'
  BY <1>0, <1>17 DEF PendingIsAsked, ReceiverOff
<1>18. ASSUME NEW h \in Handlers, NEW f \in net,
              HandleSubscribe(h, f) \/ HandleUnsubscribe(h, f) \/ AckMessage(h, f)
       PROVE  PendingIsAsked' /\ ReceiverOff'
  BY <1>17, <1>18 DEF HandleSubscribe, HandleUnsubscribe, AckMessage
<1>19. ASSUME NEW h \in Handlers, AckSubscribe(h) \/ CheckMessage(h)
       PROVE  PendingIsAsked' /\ ReceiverOff'
  BY <1>17, <1>19 DEF AckSubscribe, CheckMessage
<1>20. CASE Evict \/ UNCHANGED vars
  BY <1>17, <1>20 DEF Evict, vars
<1>21. QED
  BY <1>10, <1>11, <1>12, <1>13, <1>14, <1>15, <1>16, <1>18, <1>19, <1>20 DEF Next

\* An ACK with the id of the call in progress either answers its SUBSCRIBE,
\* which the server committed, or is that of an application message.
LEMMA AckMeans ==
    ASSUME IInv, cpc = "wait", NEW a \in acks, a[2] = ask.pid
    PROVE  ask \in committed \/ \E ch \in AppChannels : <<ch, ask.pid>> \in acks
<1>0. TypeOK /\ CallOK /\ PidsFresh /\ CommitsSent /\ AcksCommitted
  BY DEF IInv, Traffic
<1>1. a[1] \in Channels /\ a = <<a[1], a[2]>>
  BY <1>0 DEF TypeOK
<1>2. CASE a[1] = Control
  <2>1. PICK c \in committed : c.pid = ask.pid
    BY <1>0, <1>2 DEF AcksCommitted
  <2>2. Frame("SUBSCRIBE", c.pid, c.ch) \in net
    BY <1>0 DEF CommitsSent
  <2>3. c.ch = ask.ch
    BY <1>0, <2>1, <2>2 DEF PidsFresh, Frame
  <2>4. c = Ask(c.pid, c.ch)
    BY <1>0 DEF TypeOK, Asks, Ask, NoAsk
  <2>5. ask = Ask(ask.pid, ask.ch)
    BY <1>0, AskOK
  <2>6. QED BY <2>1, <2>3, <2>4, <2>5
<1>3. CASE a[1] \in AppChannels
  BY <1>1, <1>3
<1>4. QED BY <1>1, <1>2, <1>3 DEF Channels

\* A call that returns KRS_SUCCESS has an ACK of its own id.
LEMMA SuccessStep == IInv /\ [Next]_vars => SuccessIsCommitted'
<1> SUFFICES ASSUME IInv, [Next]_vars PROVE SuccessIsCommitted'
  OBVIOUS
<1> USE DEF clientVars, serverVars, history
<1>0. SuccessIsCommitted /\ PendingIsAsked
  BY DEF IInv
<1>1. ASSUME UNCHANGED succeeded, committed \subseteq committed', acks \subseteq acks'
      PROVE  SuccessIsCommitted'
  BY <1>0, <1>1 DEF SuccessIsCommitted
<1>2. CASE SubscribeDone
  <2>1. ask \in committed \/ \E ch \in AppChannels : <<ch, ask.pid>> \in acks
    BY <1>0, <1>2, AckMeans DEF SubscribeDone, PendingIsAsked
  <2>2. QED BY <1>0, <1>2, <2>1 DEF SubscribeDone, Succeed, SuccessIsCommitted
<1>3. ASSUME NEW a \in acks, SubscribeReads(a) PROVE SuccessIsCommitted'
  <2>1. ask \in committed \/ \E ch \in AppChannels : <<ch, ask.pid>> \in acks
    BY <1>3, AckMeans DEF SubscribeReads, Confirms
  <2>2. QED BY <1>0, <1>3, <2>1 DEF SubscribeReads, Succeed, SuccessIsCommitted
<1>4. CASE StartReceive \/ SubscribeSend \/ SubscribeTimeout \/ Evict \/ UNCHANGED vars
  BY <1>1, <1>4 DEF StartReceive, SubscribeSend, SubscribeTimeout, Evict, vars
<1>5. ASSUME NEW ch \in AppChannels, SubscribeBegin(ch) \/ Unsubscribe(ch) \/ SendMessage(ch)
      PROVE  SuccessIsCommitted'
  BY <1>1, <1>5 DEF SubscribeBegin, Unsubscribe, SendMessage
<1>6. ASSUME NEW a \in acks, ReceiveAck(a) PROVE SuccessIsCommitted'
  BY <1>1, <1>6 DEF ReceiveAck
<1>7. ASSUME NEW h \in Handlers, NEW f \in net,
             HandleSubscribe(h, f) \/ HandleUnsubscribe(h, f) \/ AckMessage(h, f)
      PROVE  SuccessIsCommitted'
  BY <1>1, <1>7 DEF HandleSubscribe, HandleUnsubscribe, AckMessage
<1>8. ASSUME NEW h \in Handlers, AckSubscribe(h) \/ CheckMessage(h) PROVE SuccessIsCommitted'
  BY <1>1, <1>8 DEF AckSubscribe, CheckMessage
<1>9. QED BY <1>2, <1>3, <1>4, <1>5, <1>6, <1>7, <1>8 DEF Next
-----------------------------------------------------------------------------
(* What the server has committed and what its handlers hold.               *)

Server == CommitsSent /\ AcksCommitted /\ HandlersOK /\ ListedStays /\ SentListed /\ DropExplained

\* One handler moves on, with a frame that fits where it is now.
LEMMA HandlerMoves ==
    ASSUME HandlersOK, TypeOK, net' = net, committed \subseteq committed',
           NEW h \in Handlers, NEW pc, NEW f \in net \cup {NoFrame},
           hpc' = [hpc EXCEPT ![h] = pc], frame' = [frame EXCEPT ![h] = f],
           pc # "idle" => f \in net,
           pc = "ack" => Ask(f.pid, f.ch) \in committed',
           pc = "check" => f.type = "BASIC_MESSAGE"
    PROVE  HandlersOK'
<1>1. frame' \in [Handlers -> net \cup {NoFrame}]
  BY DEF HandlersOK
<1>2. hpc'[h] = pc /\ frame'[h] = f
  BY DEF HandlersOK, TypeOK
<1>3. \A g \in Handlers \ {h} : hpc'[g] = hpc[g] /\ frame'[g] = frame[g]
  BY DEF HandlersOK, TypeOK
<1>4. QED BY <1>1, <1>2, <1>3 DEF HandlersOK

\* A step of the client that adds no message leaves the server's part alone:
\* frames and UNSUBSCRIBEs are only ever added.
LEMMA ClientKeeps ==
    ASSUME Server, net \subseteq net',
           \A f \in net' \ net : f.type # "BASIC_MESSAGE",
           UNCHANGED <<acks, serverVars, committed, early, dropped>>
    PROVE  Server'
<1>1. \A ch : Unsubscribed(ch) => Unsubscribed(ch)'
  BY DEF Unsubscribed
<1>2. CommitsSent' /\ AcksCommitted' /\ HandlersOK'
  BY DEF Server, CommitsSent, AcksCommitted, HandlersOK, serverVars
<1>3. ListedStays'
  BY <1>1 DEF Server, ListedStays, serverVars
<1>4. SentListed'
  BY <1>1 DEF Server, SentListed, serverVars
<1>5. DropExplained'
  BY <1>1 DEF Server, DropExplained, serverVars
<1>6. QED BY <1>2, <1>3, <1>4, <1>5 DEF Server

\* The server's part after every step.
LEMMA ServerStep == IInv /\ [Next]_vars => Server'
<1> SUFFICES ASSUME IInv, [Next]_vars PROVE Server'
  OBVIOUS
<1> USE DEF clientVars, serverVars, history
<1>0. Server /\ TypeOK /\ FramesOK
  BY DEF IInv, Traffic, Server
<1>1. CASE StartReceive \/ SubscribeDone \/ SubscribeTimeout \/ UNCHANGED vars
  BY <1>0, <1>1, ClientKeeps DEF StartReceive, SubscribeDone, SubscribeTimeout, Succeed, vars
<1>2. ASSUME NEW a \in acks, ReceiveAck(a) \/ SubscribeReads(a) PROVE Server'
  BY <1>0, <1>2, ClientKeeps DEF ReceiveAck, SubscribeReads, Succeed
<1>3. ASSUME NEW ch \in AppChannels, SubscribeBegin(ch) PROVE Server'
  BY <1>0, <1>3, ClientKeeps DEF SubscribeBegin
<1>4. ASSUME NEW ch \in AppChannels, Unsubscribe(ch) PROVE Server'
  BY <1>0, <1>4, ClientKeeps DEF Unsubscribe, Frame
<1>5. CASE SubscribeSend
  BY <1>0, <1>5, ClientKeeps DEF SubscribeSend, Frame
<1>6. ASSUME NEW ch \in AppChannels, SendMessage(ch) PROVE Server'
  <2>1. /\ net' = net \cup {Frame("BASIC_MESSAGE", counter'[ch], ch)}
        /\ UNCHANGED <<acks, serverVars, committed, dropped>>
        /\ early \subseteq early'
        /\ ch \in subs \/ <<ch, counter'[ch]>> \in early'
    BY <1>6 DEF SendMessage
  <2>2. \A c : Unsubscribed(c) => Unsubscribed(c)'
    BY <2>1 DEF Unsubscribed
  <2>3. CommitsSent' /\ AcksCommitted' /\ HandlersOK'
    BY <1>0, <2>1 DEF Server, CommitsSent, AcksCommitted, HandlersOK
  <2>4. ListedStays' /\ DropExplained'
    BY <1>0, <2>1, <2>2 DEF Server, ListedStays, DropExplained
  <2>5. SentListed'
    BY <1>0, <2>1, <2>2 DEF Server, SentListed, Frame
  <2>6. QED BY <2>3, <2>4, <2>5 DEF Server
<1>7. ASSUME NEW h \in Handlers, NEW f \in net, HandleSubscribe(h, f) PROVE Server'
  <2>1. CASE present
    <3>1. /\ hpc' = [hpc EXCEPT ![h] = "ack"]
          /\ frame' = [frame EXCEPT ![h] = f]
          /\ subs' = subs \cup {f.ch}
          /\ committed' = committed \cup {Ask(f.pid, f.ch)}
          /\ f.type = "SUBSCRIBE"
          /\ UNCHANGED <<net, acks, present, early, dropped>>
      BY <1>7, <2>1 DEF HandleSubscribe, Take, Commit
    <3>2. \A c : Unsubscribed(c)' <=> Unsubscribed(c)
      BY <3>1 DEF Unsubscribed
    <3>3. f = Frame("SUBSCRIBE", f.pid, f.ch)
      BY <1>0, <3>1 DEF FramesOK, Frame
    <3>4. CommitsSent'
      BY <1>0, <3>1, <3>3 DEF Server, CommitsSent, Ask
    <3>5. AcksCommitted'
      BY <1>0, <3>1 DEF Server, AcksCommitted
    <3>6. HandlersOK'
      BY <1>0, <3>1, HandlerMoves DEF Server
    <3>7. ListedStays' /\ SentListed' /\ DropExplained'
      BY <1>0, <3>1, <3>2 DEF Server, ListedStays, SentListed, DropExplained, Ask
    <3>8. QED BY <3>4, <3>5, <3>6, <3>7 DEF Server
  <2>2. CASE ~present
    <3>1. /\ hpc' = [hpc EXCEPT ![h] = "idle"]
          /\ frame' = [frame EXCEPT ![h] = NoFrame]
          /\ UNCHANGED <<net, acks, present, subs, committed, early, dropped>>
      BY <1>7, <2>2 DEF HandleSubscribe, Take
    <3>2. HandlersOK'
      BY <1>0, <3>1, HandlerMoves DEF Server
    <3>3. \A c : Unsubscribed(c)' <=> Unsubscribed(c)
      BY <3>1 DEF Unsubscribed
    <3>4. QED BY <1>0, <3>1, <3>2, <3>3
          DEF Server, CommitsSent, AcksCommitted, ListedStays, SentListed, DropExplained
  <2>3. QED BY <2>1, <2>2
<1>8. ASSUME NEW h \in Handlers, NEW f \in net, HandleUnsubscribe(h, f) PROVE Server'
  <2>1. /\ hpc' = [hpc EXCEPT ![h] = "idle"]
        /\ frame' = [frame EXCEPT ![h] = NoFrame]
        /\ UNCHANGED <<net, acks, present, committed, early, dropped>>
        /\ Unsubscribed(f.ch)
        /\ subs' = subs \/ subs' = subs \ {f.ch}
    BY <1>8 DEF HandleUnsubscribe, Take, Uncommit, Unsubscribed
  <2>2. \A c : Unsubscribed(c)' <=> Unsubscribed(c)
    BY <2>1 DEF Unsubscribed
  <2>3. HandlersOK'
    BY <1>0, <2>1, HandlerMoves DEF Server
  <2>4. CommitsSent' /\ AcksCommitted'
    BY <1>0, <2>1 DEF Server, CommitsSent, AcksCommitted
  <2>5. ListedStays' /\ SentListed' /\ DropExplained'
    BY <1>0, <2>1, <2>2 DEF Server, ListedStays, SentListed, DropExplained
  <2>6. QED BY <2>3, <2>4, <2>5 DEF Server
<1>9. ASSUME NEW h \in Handlers, NEW f \in net, AckMessage(h, f) PROVE Server'
  <2>1. /\ hpc' = [hpc EXCEPT ![h] = "check"]
        /\ frame' = [frame EXCEPT ![h] = f]
        /\ f.type = "BASIC_MESSAGE" /\ f.ch # Control
        /\ acks' = acks \cup {<<f.ch, f.pid>>}
        /\ UNCHANGED <<net, present, subs, committed, early, dropped>>
    BY <1>0, <1>9, SubscriptionAssumption DEF AckMessage, Take, FramesOK
  <2>2. \A c : Unsubscribed(c)' <=> Unsubscribed(c)
    BY <2>1 DEF Unsubscribed
  <2>3. HandlersOK'
    BY <1>0, <2>1, HandlerMoves DEF Server
  <2>4. CommitsSent' /\ AcksCommitted'
    BY <1>0, <2>1 DEF Server, CommitsSent, AcksCommitted
  <2>5. ListedStays' /\ SentListed' /\ DropExplained'
    BY <1>0, <2>1, <2>2 DEF Server, ListedStays, SentListed, DropExplained
  <2>6. QED BY <2>3, <2>4, <2>5 DEF Server
<1>10. ASSUME NEW h \in Handlers, AckSubscribe(h) PROVE Server'
  <2>1. /\ hpc' = [hpc EXCEPT ![h] = "idle"]
        /\ frame' = [frame EXCEPT ![h] = NoFrame]
        /\ acks' = acks \cup {<<Control, frame[h].pid>>}
        /\ UNCHANGED <<net, present, subs, committed, early, dropped>>
    BY <1>10 DEF AckSubscribe, Done
  <2>2. \A c : Unsubscribed(c)' <=> Unsubscribed(c)
    BY <2>1 DEF Unsubscribed
  <2>3. HandlersOK'
    BY <1>0, <2>1, HandlerMoves DEF Server
  <2>4. \E c \in committed : c.pid = frame[h].pid
    BY <1>0, <1>10 DEF AckSubscribe, Server, HandlersOK, Ask
  <2>5. CommitsSent' /\ AcksCommitted'
    BY <1>0, <2>1, <2>4 DEF Server, CommitsSent, AcksCommitted
  <2>6. ListedStays' /\ SentListed' /\ DropExplained'
    BY <1>0, <2>1, <2>2 DEF Server, ListedStays, SentListed, DropExplained
  <2>7. QED BY <2>3, <2>5, <2>6 DEF Server
<1>11. ASSUME NEW h \in Handlers, CheckMessage(h) PROVE Server'
  <2> DEFINE m == <<frame[h].ch, frame[h].pid>>
  <2>1. /\ hpc' = [hpc EXCEPT ![h] = "idle"]
        /\ frame' = [frame EXCEPT ![h] = NoFrame]
        /\ UNCHANGED <<net, acks, present, subs, committed, early>>
        /\ dropped' = dropped \/ (frame[h].ch \notin subs /\ dropped' = dropped \cup {m})
    BY <1>11 DEF CheckMessage, Done
  <2>2. \A c : Unsubscribed(c)' <=> Unsubscribed(c)
    BY <2>1 DEF Unsubscribed
  <2>3. HandlersOK'
    BY <1>0, <2>1, HandlerMoves DEF Server
  <2>4. CommitsSent' /\ AcksCommitted'
    BY <1>0, <2>1 DEF Server, CommitsSent, AcksCommitted
  <2>5. ListedStays' /\ SentListed'
    BY <1>0, <2>1, <2>2 DEF Server, ListedStays, SentListed
  <2>6. frame[h].ch \in subs \/ m \in early \/ Unsubscribed(m[1]) \/ ~present
    BY <1>0, <1>11 DEF CheckMessage, Server, HandlersOK, SentListed
  <2>7. DropExplained'
    BY <1>0, <2>1, <2>2, <2>6 DEF Server, DropExplained
  <2>8. QED BY <2>3, <2>4, <2>5, <2>7 DEF Server
<1>12. CASE Evict
  <2>1. UNCHANGED <<net, acks, hpc, frame, committed, early, dropped>> /\ ~present'
    BY <1>12 DEF Evict
  <2>2. QED BY <1>0, <2>1
        DEF Server, CommitsSent, AcksCommitted, HandlersOK, ListedStays, SentListed, DropExplained
<1>13. QED
  BY <1>1, <1>2, <1>3, <1>4, <1>5, <1>6, <1>7, <1>8, <1>9, <1>10, <1>11, <1>12 DEF Next
-----------------------------------------------------------------------------
\* The invariant is inductive.
LEMMA AlwaysIInv == Spec => []IInv
<1>1. IInv /\ [Next]_vars => IInv'
  BY TypeStep, CallStep, PendingStep, SuccessStep, ServerStep DEF IInv, Traffic, Server
<1>2. QED BY <1>1, InitIInv, PTL DEF Spec

\* Every variable keeps its type.
THEOREM TypeCorrect == Spec => []TypeOK
<1>1. IInv => TypeOK
  BY DEF IInv
<1>2. QED BY <1>1, AlwaysIInv, PTL

\* krs_client_subscribe returns KRS_SUCCESS only for a subscription that the
\* server committed, or on the ACK of an application message with that id.
THEOREM SuccessCorrect == Spec => []SuccessIsCommitted
<1>1. IInv => SuccessIsCommitted
  BY DEF IInv
<1>2. QED BY <1>1, AlwaysIInv, PTL

\* A subscription stays with the server until it is cancelled or the client
\* is evicted.
THEOREM SubscriptionStays == Spec => []CommittedStays
<1>1. IInv => CommittedStays
  BY DEF IInv, ListedStays, CommittedStays
<1>2. QED BY <1>1, AlwaysIInv, PTL

\* An acknowledged message that the application does not get was sent too
\* early, or after an UNSUBSCRIBE, or by a client that was evicted.
THEOREM DropsExplained == Spec => []DropExplained
<1>1. IInv => DropExplained
  BY DEF IInv
<1>2. QED BY <1>1, AlwaysIInv, PTL

\* The receive thread completes the call that is waiting and no other.
THEOREM PendingCorrect == Spec => []PendingIsAsked
<1>1. IInv => PendingIsAsked
  BY DEF IInv
<1>2. QED BY <1>1, AlwaysIInv, PTL
=============================================================================
