-------------------------- MODULE ServerSendProofs --------------------------
(***************************************************************************)
(* Proofs about the server's reliable sends (ServerSend), for every set of *)
(* threads, handlers, channels and sizes and every limit of the tracker:   *)
(* type correctness, no message lost silently, the in-flight count, and    *)
(* the wholeness of what is delivered.                                     *)
(***************************************************************************)
EXTENDS ServerSend, ReliableSendProofs

\* The retransmit thread's arrays hold what a scan has found, and nothing
\* while it sleeps.
RetransmitterOK ==
    /\ crediting \subseteq Handlers
    /\ rpc \in {"sleep", "loss", "flush"}
    /\ outbox \subseteq Frame
    /\ \A f \in outbox : f.pid <= counter[f.ch]
    /\ drops \subseteq Entry /\ IsFiniteSet(drops)
    /\ rpc = "sleep" => drops = {} /\ outbox = {}

TInv == SendTypes /\ IdsOK /\ AcksDelivered /\ RetransmitterOK
-----------------------------------------------------------------------------
(* Types.                                                                  *)

LEMMA TInit == Init => TInv
<1> SUFFICES ASSUME Init PROVE TInv
  OBVIOUS
<1>1. SendTypes /\ IdsOK /\ AcksDelivered
  BY SendInit DEF Init
<1>2. IsFiniteSet({})
  BY FS_EmptySet
<1>3. RetransmitterOK
  BY <1>2 DEF Init, RetransmitterOK
<1>4. QED BY <1>1, <1>3 DEF TInv

\* What a scan of the tracker gives to the retransmit thread.
LEMMA CollectOK ==
    ASSUME TInv, NEW timed \in SUBSET pending, Collect(timed)
    PROVE  /\ SendTypes' /\ IdsOK' /\ RetransmitterOK'
           /\ \A e \in pending' : \E x \in pending : e.frame = x.frame
           /\ \A x \in pending : x \in Exhausted(timed) \/ \E e \in pending' : e.frame = x.frame
           /\ \A f \in outbox' : \E x \in pending : f = x.frame
<1>1. pending \subseteq Entry /\ IsFiniteSet(pending)
  BY DEF TInv, SendTypes
<1>2. CheckTimeouts(timed)
  BY DEF Collect
<1>3. /\ pending' \subseteq Entry /\ IsFiniteSet(pending')
      /\ \A e \in pending' : \E x \in pending : e.frame = x.frame
      /\ \A x \in pending : x \in Exhausted(timed) \/ \E e \in pending' : e.frame = x.frame
  BY <1>1, <1>2, CheckTimeoutsOK
<1>4. UNCHANGED <<ccvars, counter, pc, call, net, acks, accepted, reports, crediting>>
  BY DEF Collect, history
<1>5. CCTypeOK'
  BY <1>4 DEF TInv, SendTypes, CCTypeOK, ccvars
<1>6. SendTypes' /\ IdsOK'
  BY <1>3, <1>4, <1>5, OthersOK DEF TInv, SendTypes
<1>7. RetryRecorded(timed) \subseteq pending /\ DropRecorded(timed) \subseteq pending
  BY DEF RetryRecorded, DropRecorded, LastOf, Retried, Exhausted, Due
<1>8. \A f \in outbox' : \E x \in pending : f = x.frame
  BY <1>7 DEF Collect, RetryFrameForEntry
<1>9. outbox' \subseteq Frame /\ \A f \in outbox' : f.pid <= counter[f.ch]
  BY <1>1, <1>8, EntryOK DEF TInv, IdsOK
<1>10. drops' \subseteq Entry /\ IsFiniteSet(drops')
  <2>1. drops' = DropRecorded(timed)
    BY DEF Collect
  <2>2. QED BY <1>1, <1>7, <2>1, FS_Subset
<1>11. rpc' \in {"loss", "flush"}
  BY DEF Collect
<1>12. RetransmitterOK'
  BY <1>4, <1>9, <1>10, <1>11 DEF TInv, RetransmitterOK
<1>13. QED BY <1>3, <1>6, <1>8, <1>12

\* Every step of the server keeps the types and the packet ids.
LEMMA TStep ==
    ASSUME TInv, [Next]_vars
    PROVE  TInv'
<1> USE DEF TInv
<1>1. ASSUME UNCHANGED <<crediting, rvars>>, \A c \in Channels : counter[c] <= counter'[c],
             counter' \in [Channels -> 0 .. MaxPid]
      PROVE  RetransmitterOK'
  <2>1. \A f \in outbox : f.pid <= counter'[f.ch]
    BY <1>1, AckAssumption DEF RetransmitterOK, Frame, SendTypes, Pid
  <2>2. QED BY <1>1, <2>1 DEF RetransmitterOK, rvars
<1>2. ASSUME UNCHANGED <<crediting, rvars, counter>>
      PROVE  RetransmitterOK'
  BY <1>2 DEF RetransmitterOK, rvars
<1>3. ASSUME UNCHANGED <<acks, delivered>> PROVE AcksDelivered'
  BY <1>3 DEF AcksDelivered, IsDelivered
<1>4. ASSUME NEW t \in Threads, NEW c \in Channels, NEW n \in Sizes, NEW ack \in Modes,
             ServerBegin(t, c, n, ack)
      PROVE  TInv'
  <2>1. ack \in BOOLEAN /\ NextPid(t, c, n, ack, IF ack THEN "window" ELSE "build")
    BY <1>4, SendAssumption DEF ServerBegin
  <2>2. SendTypes' /\ IdsOK'
    BY <2>1, NextPidOK
  <2>3. \A d \in Channels : counter[d] <= counter'[d]
    BY <2>1, AckAssumption DEF NextPid, SendTypes
  <2>4. QED BY <1>1, <1>3, <1>4, <2>1, <2>2, <2>3 DEF ServerBegin, NextPid, history, SendTypes
<1>5. ASSUME NEW t \in Threads, ServerWindow(t) PROVE TInv'
  <2>1. CASE Admit(t)
    BY <1>2, <1>3, <1>5, <2>1, AdmitOK DEF ServerWindow, Admit, history
  <2>2. CASE WindowFull(t)
    BY <1>2, <1>3, <1>5, <2>2, GiveUpOK DEF ServerWindow, WindowFull, history
  <2>3. QED BY <1>5, <2>1, <2>2 DEF ServerWindow
<1>6. ASSUME NEW t \in Threads, ServerBuild(t) PROVE TInv'
  <2>1. CASE BuildFails(t)
    BY <1>2, <1>3, <1>6, <2>1, GiveUpOK DEF ServerBuild, BuildFails, history
  <2>2. CASE Track(t)
    BY <1>2, <1>3, <1>6, <2>2, TrackOK DEF ServerBuild, Track, history
  <2>3. QED BY <1>6, <2>1, <2>2 DEF ServerBuild
<1>7. ASSUME NEW t \in Threads, ServerTransmit(t) PROVE TInv'
  BY <1>2, <1>3, <1>7, TransmitOK DEF ServerTransmit, Transmit
<1>8. ASSUME NEW h \in Handlers, NEW a \in acks, AckReceived(h, a) PROVE TInv'
  <2>1. UNCHANGED <<ccvars, counter, pc, call, net, acks, accepted, delivered, reports, rvars>>
    BY <1>8 DEF AckReceived, history
  <2>2. /\ pending' \subseteq Entry /\ IsFiniteSet(pending')
        /\ \A e \in pending' : \E x \in pending : e.frame = x.frame
    BY <1>8, ReceiveAckOK DEF AckReceived, SendTypes
  <2>3. CCTypeOK'
    BY <2>1 DEF SendTypes, CCTypeOK, ccvars
  <2>4. SendTypes' /\ IdsOK'
    BY <2>1, <2>2, <2>3, OthersOK DEF SendTypes
  <2>5. crediting' \subseteq Handlers
    BY <1>8 DEF AckReceived, RetransmitterOK
  <2>6. RetransmitterOK'
    BY <2>1, <2>5 DEF RetransmitterOK, rvars
  <2>7. QED BY <1>3, <2>1, <2>4, <2>6
<1>9. ASSUME NEW h \in Handlers, AckCredited(h) PROVE TInv'
  <2>1. UNCHANGED <<pending, counter, pc, call, net, acks, accepted, delivered, reports, rvars>>
    BY <1>9 DEF AckCredited, history
  <2>2. CCTypeOK'
    BY <1>9, OnAckOK DEF AckCredited, SendTypes
  <2>3. SendTypes' /\ IdsOK'
    BY <2>1, <2>2, OthersOK DEF SendTypes
  <2>4. RetransmitterOK'
    BY <1>9, <2>1 DEF RetransmitterOK, rvars, AckCredited
  <2>5. QED BY <1>3, <2>1, <2>3, <2>4
<1>10. ASSUME NEW timed \in SUBSET pending, Collect(timed) PROVE TInv'
  BY <1>3, <1>10, CollectOK DEF Collect, history
<1>11. ASSUME LossReaction PROVE TInv'
  <2>1. UNCHANGED <<pending, counter, pc, call, net, acks, accepted, delivered, reports,
                    crediting, outbox, drops>>
    BY <1>11 DEF LossReaction, history
  <2>2. CCTypeOK'
    BY <1>11, LossOK DEF LossReaction, SendTypes
  <2>3. SendTypes' /\ IdsOK'
    BY <2>1, <2>2, OthersOK DEF SendTypes
  <2>4. RetransmitterOK'
    BY <1>11, <2>1 DEF RetransmitterOK, LossReaction
  <2>5. QED BY <1>3, <2>1, <2>3, <2>4
<1>12. ASSUME Flush PROVE TInv'
  <2>1. UNCHANGED <<pending, ccvars, counter, pc, call, acks, accepted, delivered, crediting>>
    BY <1>12 DEF Flush, sendState
  <2>2. net' = net \cup outbox /\ Report(drops)
    BY <1>12 DEF Flush, Resend
  <2>3. reports' \in [Message -> Nat]
    BY <2>2, ReportOK DEF SendTypes, RetransmitterOK
  <2>4. CCTypeOK'
    BY <2>1 DEF SendTypes, CCTypeOK, ccvars
  <2>5. SendTypes' /\ IdsOK'
    BY <2>1, <2>2, <2>3, <2>4, OthersOK DEF SendTypes, RetransmitterOK
  <2>6. IsFiniteSet({})
    BY FS_EmptySet
  <2>7. RetransmitterOK'
    BY <1>12, <2>1, <2>6 DEF RetransmitterOK, Flush
  <2>8. QED BY <1>3, <2>1, <2>5, <2>7
<1>13. ASSUME NEW f \in net, Receive(f), UNCHANGED <<crediting, rvars>> PROVE TInv'
  <2>1. UNCHANGED <<pending, ccvars, counter, pc, call, net, accepted, reports>> /\ Accepts(f)
    BY <1>13 DEF Receive, sendState
  <2>2. acks' \subseteq Message /\ AcksDelivered'
    BY <2>1, AcceptsOK DEF SendTypes
  <2>3. CCTypeOK'
    BY <2>1 DEF SendTypes, CCTypeOK, ccvars
  <2>4. SendTypes' /\ IdsOK'
    BY <2>1, <2>2, <2>3, OthersOK DEF SendTypes
  <2>5. QED BY <1>2, <1>13, <2>1, <2>2, <2>4
<1>14. CASE UNCHANGED vars
  <2>1. UNCHANGED <<pending, ccvars, counter, pc, call, net, acks, accepted, delivered, reports,
                    crediting, rvars>>
    BY <1>14 DEF vars, svars, sendState, history
  <2>2. CCTypeOK'
    BY <2>1 DEF SendTypes, CCTypeOK, ccvars
  <2>3. SendTypes' /\ IdsOK'
    BY <2>1, <2>2, OthersOK DEF SendTypes
  <2>4. QED BY <1>2, <1>3, <2>1, <2>3
<1>15. QED
  BY <1>4, <1>5, <1>6, <1>7, <1>8, <1>9, <1>10, <1>11, <1>12, <1>13, <1>14 DEF Next, SenderStep

\* The tracker, the congestion controller, the packet counters and the
\* arrays of the retransmit thread always have their types: packet ids stay
\* in range, the window never closes to nothing, and frames and ACKs belong
\* to messages that were sent.
THEOREM TypeCorrect == Spec => []TypeOK
<1>1. TInv => TypeOK
  BY DEF TInv, SendTypes, RetransmitterOK, TypeOK
<1>2. QED BY TInit, TStep, <1>1, PTL DEF Spec
-----------------------------------------------------------------------------
(* No message is lost silently.                                            *)

Accounted(m) == Tracked(m[1], m[2]) \/ IsDelivered(m) \/ IsReported(m)

\* A thread about to send has tracked its message, which by then may already
\* have been acknowledged or given up.
SendersAccounted == \A t \in Threads : pc[t] = "send" => Accounted(MessageOf(call[t]))

\* No step of any thread makes a message disappear.
LEMMA AccountedStays ==
    ASSUME TInv, DropsFit, [Next]_vars, NEW m \in Message, Accounted(m)
    PROVE  Accounted(m)'
<1> USE DEF TInv
<1>1. pending \subseteq Entry /\ IsFiniteSet(pending)
  BY DEF SendTypes
<1>2. ASSUME pending \subseteq pending', delivered \subseteq delivered', UNCHANGED <<reports, drops>>
      PROVE  Accounted(m)'
  BY <1>2 DEF Accounted, Tracked, IsDelivered, IsReported
<1>3. ASSUME NEW t \in Threads, NEW c \in Channels, NEW n \in Sizes, NEW ack \in Modes,
             ServerBegin(t, c, n, ack)
      PROVE  Accounted(m)'
  BY <1>2, <1>3 DEF ServerBegin, NextPid, history, rvars
<1>4. ASSUME NEW t \in Threads, SenderStep(t) PROVE Accounted(m)'
  <2>1. pending \subseteq pending'
    BY <1>4, TrackOK DEF SenderStep, ServerWindow, Admit, WindowFull, ServerBuild, BuildFails,
                         ServerTransmit, Transmit
  <2>2. UNCHANGED <<delivered, reports, drops>>
    BY <1>4 DEF SenderStep, ServerWindow, Admit, WindowFull, ServerBuild, BuildFails, Track,
                ServerTransmit, Transmit, history, rvars
  <2>3. QED BY <1>2, <2>1, <2>2
<1>5. ASSUME NEW h \in Handlers, NEW a \in acks, AckReceived(h, a) PROVE Accounted(m)'
  <2>1. UNCHANGED <<delivered, reports, drops>> /\ ReceiveAck(a[1], a[2]) /\ a \in Message
    BY <1>5 DEF AckReceived, history, rvars, SendTypes
  <2>2. \A x \in pending : ~IsOf(x, a[1], a[2]) => \E e \in pending' : e.frame = x.frame
    BY <1>1, <2>1, ReceiveAckOK
  <2>3. CASE m = a
    <3>1. IsDelivered(m)
      BY <2>3 DEF AcksDelivered
    <3>2. QED BY <2>1, <3>1 DEF Accounted, IsDelivered
  <2>4. CASE m # a
    <3>1. ASSUME NEW x \in pending, IsOf(x, m[1], m[2])
          PROVE  ~IsOf(x, a[1], a[2])
      BY <2>1, <2>4, <3>1 DEF IsOf, Message
    <3>2. Tracked(m[1], m[2]) => \E e \in pending' : IsOf(e, m[1], m[2])
      BY <2>2, <3>1 DEF Tracked, IsOf
    <3>3. QED BY <2>1, <3>2 DEF Accounted, Tracked, IsDelivered, IsReported
  <2>5. QED BY <2>3, <2>4
<1>6. ASSUME NEW h \in Handlers, AckCredited(h) PROVE Accounted(m)'
  BY <1>2, <1>6 DEF AckCredited, history, rvars
<1>7. ASSUME NEW timed \in SUBSET pending, Collect(timed) PROVE Accounted(m)'
  <2>1. UNCHANGED <<delivered, reports>> /\ drops' = DropRecorded(timed) /\ drops = {}
    BY <1>7 DEF Collect, history, RetransmitterOK
  <2>2. DropRecorded(timed) = Exhausted(timed)
    BY <1>1, AllRecorded
  <2>3. \A x \in pending : x \in Exhausted(timed) \/ \E e \in pending' : e.frame = x.frame
    BY <1>7, CollectOK
  <2>4. CASE Tracked(m[1], m[2])
    <3>1. PICK x \in pending : IsOf(x, m[1], m[2])
      BY <2>4 DEF Tracked
    <3>2. CASE x \in Exhausted(timed)
      <4>1. x \in drops' /\ MessageOf(x.frame) = m
        BY <2>1, <2>2, <3>1, <3>2 DEF IsOf, MessageOf, Message
      <4>2. QED BY <4>1 DEF Accounted, IsReported
    <3>3. CASE \E e \in pending' : e.frame = x.frame
      BY <3>1, <3>3 DEF Accounted, Tracked, IsOf
    <3>4. QED BY <2>3, <3>2, <3>3
  <2>5. CASE IsDelivered(m) \/ IsReported(m)
    BY <2>1, <2>5 DEF Accounted, IsDelivered, IsReported
  <2>6. QED BY <2>4, <2>5 DEF Accounted
<1>8. ASSUME LossReaction PROVE Accounted(m)'
  BY <1>2, <1>8 DEF LossReaction, history
<1>9. ASSUME Flush PROVE Accounted(m)'
  <2>1. UNCHANGED <<pending, delivered>> /\ Report(drops)
    BY <1>9 DEF Flush, sendState
  <2>2. /\ reports' \in [Message -> Nat]
        /\ \A k \in Message : reports[k] <= reports'[k]
        /\ \A e \in drops : reports'[MessageOf(e.frame)] > 0
    BY <2>1, ReportOK DEF SendTypes, RetransmitterOK
  <2>3. IsReported(m) => reports'[m] > 0
    BY <2>2 DEF IsReported, SendTypes
  <2>4. QED BY <2>1, <2>3 DEF Accounted, Tracked, IsDelivered, IsReported
<1>10. ASSUME NEW f \in net, Receive(f), UNCHANGED <<crediting, rvars>> PROVE Accounted(m)'
  <2>1. delivered \subseteq delivered'
    BY <1>10, AcceptsOK DEF Receive, SendTypes
  <2>2. QED BY <1>2, <1>10, <2>1 DEF Receive, sendState, rvars
<1>11. CASE UNCHANGED vars
  BY <1>2, <1>11 DEF vars, svars, sendState, history, rvars
<1>12. QED
  BY <1>3, <1>4, <1>5, <1>6, <1>7, <1>8, <1>9, <1>10, <1>11 DEF Next

\* What a thread sends as reliable it has tracked: nothing is accepted that
\* was not accounted for.
LEMMA AccountedStep ==
    ASSUME "track" \notin Failures, TInv, DropsFit, SendersAccounted, NoSilentLoss, [Next]_vars
    PROVE  SendersAccounted' /\ NoSilentLoss'
<1>1. TInv'
  BY TStep
<1>2. \A t \in Threads : pc[t] # "idle" => MessageOf(call[t]) \in Message
  BY FramesOfOK DEF TInv, SendTypes, Busy
<1>3. ASSUME NEW t \in Threads, pc'[t] = "send" PROVE Accounted(MessageOf(call[t]))'
  <2>1. CASE pc[t] = "send" /\ call'[t] = call[t]
    <3>1. Accounted(MessageOf(call[t])) /\ MessageOf(call[t]) \in Message
      BY <1>2, <2>1 DEF SendersAccounted
    <3>2. PICK m \in Message : m = MessageOf(call[t])
      BY <3>1
    <3>3. Accounted(m)'
      BY <3>1, <3>2, AccountedStays
    <3>4. MessageOf(call'[t]) = m
      BY <2>1, <3>2
    <3>5. QED BY <3>3, <3>4
  <2>2. CASE Track(t)
    <3>1. PICK e \in pending' : MessageOf(e.frame) = MessageOf(call[t])
      BY <2>2, TrackOK DEF TInv
    <3>2. call' = call
      BY <2>2 DEF Track
    <3>3. QED BY <3>1, <3>2 DEF Accounted, Tracked, IsOf, MessageOf
  <2>3. \/ Track(t)
        \/ pc'[t] = pc[t] /\ call'[t] = call[t]
        \/ pc'[t] # "send"
    <3>0. pc \in [Threads -> {"idle", "window", "build", "send"}] /\ DOMAIN call = Threads
      BY DEF TInv, SendTypes
    <3>1. ASSUME NEW u \in Threads, NEW c \in Channels, NEW n \in Sizes, NEW ack \in Modes,
                 ServerBegin(u, c, n, ack)
          PROVE  (pc'[t] = pc[t] /\ call'[t] = call[t]) \/ pc'[t] # "send"
      BY <3>0, <3>1 DEF ServerBegin, NextPid
    <3>2. ASSUME NEW u \in Threads, SenderStep(u)
          PROVE  \/ Track(t)
                 \/ pc'[t] = pc[t] /\ call'[t] = call[t]
                 \/ pc'[t] # "send"
      <4>1. CASE Admit(u) \/ WindowFull(u) \/ BuildFails(u) \/ Transmit(u)
        BY <3>0, <4>1 DEF Admit, WindowFull, BuildFails, Transmit, Return
      <4>2. CASE Track(u)
        BY <3>0, <4>2 DEF Track
      <4>3. QED BY <3>2, <4>1, <4>2 DEF SenderStep, ServerWindow, ServerBuild, ServerTransmit
    <3>3. ASSUME UNCHANGED <<pc, call>> PROVE pc'[t] = pc[t] /\ call'[t] = call[t]
      BY <3>3
    <3>4. QED BY <3>1, <3>2, <3>3 DEF Next, AckReceived, AckCredited, Collect, LossReaction,
                    Flush, Receive, sendState, vars, svars
  <2>4. QED BY <1>3, <2>1, <2>2, <2>3
<1>4. ASSUME NEW m \in accepted' PROVE Accounted(m)'
  <2>1. CASE m \in accepted
    <3>1. m \in Message /\ Accounted(m)
      BY <2>1 DEF TInv, SendTypes, NoSilentLoss, Accounted
    <3>2. QED BY <3>1, AccountedStays
  <2>2. CASE \E t \in Threads : pc[t] = "send" /\ m = MessageOf(call[t])
    <3>1. m \in Message /\ Accounted(m)
      BY <1>2, <2>2 DEF SendersAccounted
    <3>2. QED BY <3>1, AccountedStays
  <2>3. m \in accepted \/ \E t \in Threads : pc[t] = "send" /\ m = MessageOf(call[t])
    <3>1. ASSUME NEW t \in Threads, Transmit(t)
          PROVE  m \in accepted \/ (pc[t] = "send" /\ m = MessageOf(call[t]))
      BY <1>4, <3>1 DEF Transmit
    <3>2. CASE accepted' = accepted
      BY <1>4, <3>2
    <3>3. QED BY <3>1, <3>2 DEF Next, ServerBegin, NextPid, SenderStep, ServerWindow, Admit,
                    WindowFull, ServerBuild, BuildFails, Track, ServerTransmit, AckReceived,
                    AckCredited, Collect, LossReaction, Flush, Receive, vars, svars, history
  <2>4. QED BY <2>1, <2>2, <2>3
<1>5. QED BY <1>3, <1>4 DEF SendersAccounted, NoSilentLoss, Accounted

\* Whatever the network loses, repeats and reorders, a reliable message that
\* krs_server_send accepted is tracked, delivered or reported as failed: as
\* long as the frames it tracks can be copied, and the entries that a scan
\* gives up fit into the retransmit thread's array.
THEOREM NothingLost ==
    ASSUME "track" \notin Failures
    PROVE  Spec /\ []DropsFit => []NoSilentLoss
<1> DEFINE Inv == TInv /\ SendersAccounted /\ NoSilentLoss
<1>1. Init => Inv
  <2>1. Init => SendersAccounted /\ NoSilentLoss
    BY DEF Init, SInit, SendersAccounted, NoSilentLoss
  <2>2. QED BY <2>1, TInit
<1>2. Inv /\ DropsFit /\ [Next]_vars => Inv'
  BY TStep, AccountedStep
<1>3. QED BY <1>1, <1>2, PTL DEF Spec
-----------------------------------------------------------------------------
(* The in-flight count.                                                    *)

\* A handler that has removed an entry and not yet told the controller keeps
\* a packet in flight that is no longer covered.
CoversAll ==
    /\ IsFiniteSet(crediting) /\ IsFiniteSet(Covered)
    /\ in_flight >= Cardinality(Covered) + Cardinality(crediting)

LEMMA CoversStep ==
    ASSUME TInv, CoversAll, [Next]_vars
    PROVE  CoversAll'
<1>1. in_flight \in Nat /\ Cardinality(Covered) \in Nat /\ Cardinality(crediting) \in Nat
  BY FS_CardinalityType DEF TInv, SendTypes, CCTypeOK, CoversAll
<1>2. ASSUME Covered' \subseteq Covered, UNCHANGED <<in_flight, crediting>>
      PROVE  CoversAll'
  <2>1. IsFiniteSet(Covered') /\ Cardinality(Covered') <= Cardinality(Covered)
    BY <1>2, FS_Subset DEF CoversAll
  <2>2. Cardinality(Covered') \in Nat
    BY <2>1, FS_CardinalityType
  <2>3. QED BY <1>1, <1>2, <2>1, <2>2 DEF CoversAll
<1>3. ASSUME NEW t \in Threads, NEW c \in Channels, NEW n \in Sizes, NEW ack \in Modes,
             ServerBegin(t, c, n, ack)
      PROVE  CoversAll'
  <2>1. Covered' = Covered
    BY <1>3, CoveredNextPid, SendAssumption DEF ServerBegin, TInv
  <2>2. QED BY <1>2, <1>3, <2>1 DEF ServerBegin, NextPid, ccvars
<1>4. ASSUME NEW t \in Threads, SenderStep(t) PROVE CoversAll'
  <2>1. crediting' = crediting
    BY <1>4 DEF SenderStep, ServerWindow, ServerBuild, ServerTransmit
  <2>2. CASE Admit(t)
    <3> DEFINE m == MessageOf(call[t])
    <3>1. Covered' = Covered \cup {m} /\ in_flight' = in_flight + 1
      BY <2>2, AdmitOK, CoveredAdmit DEF TInv
    <3> HIDE DEF m
    <3>2. /\ IsFiniteSet(Covered \cup {m})
          /\ Cardinality(Covered \cup {m}) \in {Cardinality(Covered), Cardinality(Covered) + 1}
      <4>1. CASE m \in Covered
        <5>1. Covered \cup {m} = Covered
          BY <4>1
        <5>2. QED BY <5>1 DEF CoversAll
      <4>2. CASE m \notin Covered
        BY <4>2, FS_AddElement DEF CoversAll
      <4>3. QED BY <4>1, <4>2
    <3>3. QED BY <1>1, <2>1, <3>1, <3>2 DEF CoversAll
  <2>3. CASE WindowFull(t) \/ BuildFails(t) \/ Transmit(t)
    <3>1. Return(t) /\ UNCHANGED <<pending, in_flight>>
      BY <2>3 DEF WindowFull, BuildFails, Transmit, ccvars
    <3>2. Covered' \subseteq Covered
      BY <3>1, CoveredReturn DEF TInv
    <3>3. QED BY <1>2, <2>1, <3>1, <3>2
  <2>4. CASE Track(t)
    BY <1>2, <2>1, <2>4, CoveredTrack DEF TInv, Track, ccvars
  <2>5. QED BY <1>4, <2>2, <2>3, <2>4 DEF SenderStep, ServerWindow, ServerBuild, ServerTransmit
<1>5. ASSUME NEW h \in Handlers, NEW a \in acks, AckReceived(h, a) PROVE CoversAll'
  <2>1. UNCHANGED <<in_flight, pc, call>> /\ ReceiveAck(a[1], a[2]) /\ a \in Message
    BY <1>5 DEF AckReceived, ccvars, TInv, SendTypes
  <2>2. CASE ~Tracked(a[1], a[2])
    <3>1. \A e \in pending' : \E x \in pending : e.frame = x.frame
      BY <2>1, ReceiveAckOK DEF TInv, SendTypes
    <3>2. Covered' \subseteq Covered
      BY <2>1, <3>1, CoveredOthers
    <3>3. QED BY <1>2, <1>5, <2>1, <2>2, <3>2 DEF AckReceived, AckCounts
  <2>3. CASE Tracked(a[1], a[2])
    <3>1. crediting' = crediting \cup {h} /\ h \notin crediting
      BY <1>5, <2>3 DEF AckReceived, AckCounts
    <3>2. IsFiniteSet(crediting') /\ Cardinality(crediting') = Cardinality(crediting) + 1
      BY <3>1, FS_AddElement DEF CoversAll
    <3>3. Covered' \subseteq Covered \ {a} /\ a \in Covered
      BY <2>1, <2>3, CoveredAck DEF TInv
    <3>4. IsFiniteSet(Covered \ {a}) /\ Cardinality(Covered \ {a}) = Cardinality(Covered) - 1
      BY <3>3, FS_RemoveElement DEF CoversAll
    <3>5. /\ IsFiniteSet(Covered') /\ Cardinality(Covered') <= Cardinality(Covered) - 1
      BY <3>3, <3>4, FS_Subset
    <3>6. Cardinality(Covered') \in Nat
      BY <3>5, FS_CardinalityType
    <3>7. QED BY <1>1, <2>1, <3>2, <3>5, <3>6 DEF CoversAll
  <2>4. QED BY <2>2, <2>3
<1>6. ASSUME NEW h \in Handlers, AckCredited(h) PROVE CoversAll'
  <2>1. crediting' = crediting \ {h} /\ h \in crediting /\ UNCHANGED <<pending, pc, call>>
    BY <1>6 DEF AckCredited
  <2>2. in_flight' >= in_flight - 1 /\ in_flight' \in Nat
    BY <1>6, OnAckOK DEF AckCredited, TInv, SendTypes, CCTypeOK
  <2>3. IsFiniteSet(crediting') /\ Cardinality(crediting') = Cardinality(crediting) - 1
    BY <2>1, FS_RemoveElement DEF CoversAll
  <2>4. Covered' \subseteq Covered
    BY <2>1, CoveredOthers
  <2>5. IsFiniteSet(Covered') /\ Cardinality(Covered') <= Cardinality(Covered)
    BY <2>4, FS_Subset DEF CoversAll
  <2>6. Cardinality(Covered') \in Nat
    BY <2>5, FS_CardinalityType
  <2>7. QED BY <1>1, <2>2, <2>3, <2>5, <2>6 DEF CoversAll
<1>7. ASSUME NEW timed \in SUBSET pending, Collect(timed) PROVE CoversAll'
  <2>1. Covered' \subseteq Covered
    BY <1>7, CollectOK, CoveredOthers DEF Collect
  <2>2. QED BY <1>2, <1>7, <2>1 DEF Collect, ccvars
<1>8. ASSUME UNCHANGED <<pending, pc, call, in_flight, crediting>> PROVE CoversAll'
  BY <1>2, <1>8, CoveredOthers
<1>9. ASSUME LossReaction PROVE CoversAll'
  <2>1. in_flight' = in_flight
    BY <1>9, LossOK DEF LossReaction, TInv, SendTypes
  <2>2. QED BY <1>8, <1>9, <2>1 DEF LossReaction
<1>10. ASSUME Flush PROVE CoversAll'
  BY <1>8, <1>10 DEF Flush, sendState, ccvars
<1>11. ASSUME NEW f \in net, Receive(f), UNCHANGED <<crediting, rvars>> PROVE CoversAll'
  BY <1>8, <1>11 DEF Receive, sendState, ccvars
<1>12. CASE UNCHANGED vars
  BY <1>8, <1>12 DEF vars, svars, sendState, ccvars
<1>13. QED BY <1>3, <1>4, <1>5, <1>6, <1>7, <1>9, <1>10, <1>11, <1>12 DEF Next

\* in_flight never falls below the number of messages that were admitted and
\* still wait for their ACK, although a handler leaves ack_lock before it
\* takes cc_lock: the window is never wider than cwnd.
THEOREM WindowHolds == Spec => []InFlightCovers
<1> DEFINE Inv == TInv /\ CoversAll
<1>1. Init => Inv
  <2>1. Init => Covered = {} /\ crediting = {} /\ in_flight = 0
    BY DEF Init, SInit, CCInit, Covered, Tracked, Admitted
  <2>2. IsFiniteSet({}) /\ Cardinality({}) = 0
    BY FS_EmptySet
  <2>3. Init => CoversAll
    BY <2>1, <2>2 DEF CoversAll
  <2>4. QED BY <2>3, TInit
<1>2. Inv /\ [Next]_vars => Inv'
  BY TStep, CoversStep
<1>3. Inv => InFlightCovers
  <2> SUFFICES ASSUME Inv PROVE InFlightCovers
    OBVIOUS
  <2>1. CCTypeOK /\ in_flight \in Nat
    BY DEF TInv, SendTypes, CCTypeOK
  <2>2. Cardinality(Covered) \in Nat /\ Cardinality(crediting) \in Nat
    BY FS_CardinalityType DEF CoversAll
  <2>3. IsFiniteSet(Covered) /\ in_flight >= Cardinality(Covered)
    BY <2>1, <2>2 DEF CoversAll
  <2>4. QED BY <2>1, <2>3, CoversEnough
<1>4. QED BY <1>1, <1>2, <1>3, PTL DEF Spec
-----------------------------------------------------------------------------
(* Messages are whole.                                                     *)

\* All frames of a message, wherever they are, agree on its size.
Sized ==
    \E size \in [Message -> Nat] :
        Agrees(size) /\ \A f \in outbox : f.total = size[MessageOf(f)]

LEMMA SizedStep ==
    ASSUME TInv, Sized, [Next]_vars
    PROVE  Sized'
<1>1. PICK size \in [Message -> Nat] :
         Agrees(size) /\ \A f \in outbox : f.total = size[MessageOf(f)]
  BY DEF Sized
<1>2. ASSUME NEW t \in Threads, NEW c \in Channels, NEW n \in Sizes, NEW ack \in Modes,
             ServerBegin(t, c, n, ack)
      PROVE  Sized'
  <2>1. ack \in BOOLEAN /\ NextPid(t, c, n, ack, IF ack THEN "window" ELSE "build")
    BY <1>2, SendAssumption DEF ServerBegin
  <2>2. PICK new \in [Message -> Nat] :
           /\ Agrees(new)'
           /\ \A f \in Frame : f.pid <= counter[f.ch] => new[MessageOf(f)] = size[MessageOf(f)]
    BY <1>1, <2>1, AgreesNextPid DEF TInv
  <2>3. outbox' = outbox
    BY <1>2 DEF ServerBegin, rvars
  <2>4. \A f \in outbox' : f.total = new[MessageOf(f)]
    BY <1>1, <2>2, <2>3 DEF TInv, RetransmitterOK
  <2>5. QED BY <2>2, <2>4 DEF Sized
<1>3. ASSUME \A u \in Busy' : u \in Busy /\ call'[u] = call[u],
             \A e \in pending' : (\E x \in pending : e.frame = x.frame)
                                 \/ \E u \in Busy : e.frame \in FramesOf(call[u]),
             \A f \in net' : f \in net \/ f \in outbox \/ \E u \in Busy : f \in FramesOf(call[u]),
             \A f \in outbox' : f \in outbox \/ \E x \in pending : f = x.frame
      PROVE  Sized'
  <2>1. \A f \in net' : f \in net \/ f.total = size[MessageOf(f)]
                        \/ \E u \in Busy : f \in FramesOf(call[u])
    BY <1>1, <1>3
  <2>2. Agrees(size)'
    BY <1>1, <1>3, <2>1, AgreesStays DEF TInv
  <2>3. \A f \in outbox' : f.total = size[MessageOf(f)]
    BY <1>1, <1>3 DEF Agrees
  <2>4. QED BY <2>2, <2>3 DEF Sized
<1>4. ASSUME NEW t \in Threads, SenderStep(t) PROVE Sized'
  <2>1. outbox' = outbox
    BY <1>4 DEF SenderStep, ServerWindow, ServerBuild, ServerTransmit, rvars
  <2>2. CASE Admit(t)
    <3>1. \A u \in Busy' : u \in Busy /\ call'[u] = call[u]
      BY <2>2 DEF Admit, Busy, TInv, SendTypes
    <3>2. QED BY <1>3, <2>1, <2>2, <3>1 DEF Admit
  <2>3. CASE WindowFull(t) \/ BuildFails(t) \/ Transmit(t)
    <3>1. Return(t) /\ UNCHANGED pending
      BY <2>3 DEF WindowFull, BuildFails, Transmit
    <3>2. \A u \in Busy' : u \in Busy /\ call'[u] = call[u]
      BY <3>1, ReturnOK DEF TInv, Busy
    <3>3. \A f \in net' : f \in net \/ \E u \in Busy : f \in FramesOf(call[u])
      BY <2>3, TransmitOK DEF WindowFull, BuildFails, Transmit, TInv, Busy
    <3>4. QED BY <1>3, <2>1, <3>1, <3>2, <3>3
  <2>4. CASE Track(t)
    <3>1. \A e \in pending' : e \in pending \/ e.frame \in FramesOf(call[t])
      BY <2>4, TrackOK DEF TInv
    <3>2. t \in Busy
      BY <2>4 DEF Track, Busy
    <3>3. \A u \in Busy' : u \in Busy /\ call'[u] = call[u]
      BY <2>4 DEF Track, Busy, TInv, SendTypes
    <3>4. QED BY <1>3, <2>1, <2>4, <3>1, <3>2, <3>3 DEF Track
  <2>5. QED BY <1>4, <2>2, <2>3, <2>4 DEF SenderStep, ServerWindow, ServerBuild, ServerTransmit
<1>5. ASSUME UNCHANGED <<pc, call, net, outbox>>,
             \A e \in pending' : \E x \in pending : e.frame = x.frame
      PROVE  Sized'
  BY <1>3, <1>5 DEF Busy
<1>6. ASSUME NEW h \in Handlers, NEW a \in acks, AckReceived(h, a) PROVE Sized'
  <2>1. \A e \in pending' : \E x \in pending : e.frame = x.frame
    BY <1>6, ReceiveAckOK DEF AckReceived, TInv, SendTypes
  <2>2. QED BY <1>5, <1>6, <2>1 DEF AckReceived, rvars
<1>7. ASSUME NEW h \in Handlers, AckCredited(h) PROVE Sized'
  BY <1>5, <1>7 DEF AckCredited, rvars
<1>8. ASSUME NEW timed \in SUBSET pending, Collect(timed) PROVE Sized'
  <2>1. /\ \A e \in pending' : \E x \in pending : e.frame = x.frame
        /\ \A f \in outbox' : \E x \in pending : f = x.frame
    BY <1>8, CollectOK
  <2>2. UNCHANGED <<pc, call, net>>
    BY <1>8 DEF Collect
  <2>3. QED BY <1>3, <2>1, <2>2 DEF Busy
<1>9. ASSUME LossReaction PROVE Sized'
  BY <1>5, <1>9 DEF LossReaction
<1>10. ASSUME Flush PROVE Sized'
  <2>1. UNCHANGED <<pending, pc, call>> /\ net' = net \cup outbox /\ outbox' = {}
    BY <1>10 DEF Flush, Resend, sendState
  <2>2. QED BY <1>3, <2>1 DEF Busy
<1>11. ASSUME NEW f \in net, Receive(f), UNCHANGED <<crediting, rvars>> PROVE Sized'
  BY <1>5, <1>11 DEF Receive, sendState, rvars
<1>12. CASE UNCHANGED vars
  BY <1>5, <1>12 DEF vars, svars, sendState, rvars
<1>13. QED BY <1>2, <1>4, <1>6, <1>7, <1>8, <1>9, <1>10, <1>11, <1>12 DEF Next

\* The client hands over whole messages only: all fragments, each once,
\* however often and in whatever order they arrive, provided that its
\* reassembler is not shared by channels that use the same packet ids.
THEOREM DeliversWhole ==
    ASSUME OneStream
    PROVE  Spec => []WholeMessages
<1> DEFINE Inv == TInv /\ Sized /\ SessionsOK /\ WholeMessages
<1>1. Init => Inv
  <2> SUFFICES ASSUME Init PROVE Inv
    OBVIOUS
  <2>1. pending = {} /\ net = {} /\ outbox = {} /\ Busy = {} /\ delivered = {}
    BY DEF Init, SInit, Busy
  <2>2. sessions = << >>
    BY DEF Init, SInit, RInit
  <2>3. [m \in Message |-> 0] \in [Message -> Nat]
    OBVIOUS
  <2>4. Agrees([m \in Message |-> 0])
    BY <2>1 DEF Agrees
  <2>5. Sized
    BY <2>1, <2>3, <2>4 DEF Sized
  <2>6. SessionsOK
    BY <2>2 DEF SessionsOK
  <2>7. QED BY <2>1, <2>5, <2>6, TInit DEF WholeMessages
<1>2. Inv /\ [Next]_vars => Inv'
  <2> SUFFICES ASSUME Inv, [Next]_vars PROVE SessionsOK' /\ WholeMessages'
    BY TStep, SizedStep
  <2>1. net \subseteq Frame
    BY DEF TInv, SendTypes
  <2>2. NetAgrees
    BY DEF Sized, Agrees, NetAgrees
  <2>3. CASE \E f \in net : Receive(f)
    <3>1. PICK f \in net : Accepts(f) /\ net' = net
      BY <2>3 DEF Receive
    <3>2. QED BY <2>1, <2>2, <3>1, WholeStays
  <2>4. CASE UNCHANGED <<sessions, delivered>> /\ net \subseteq net'
    BY <2>4, SessionsStay DEF WholeMessages
  <2>5. (\E f \in net : Receive(f)) \/ (UNCHANGED <<sessions, delivered>> /\ net \subseteq net')
    BY DEF Next, ServerBegin, NextPid, SenderStep, ServerWindow, Admit, WindowFull, ServerBuild,
           BuildFails, Track, ServerTransmit, Transmit, AckReceived, AckCredited, Collect,
           LossReaction, Flush, Resend, vars, svars, history
  <2>6. QED BY <2>3, <2>4, <2>5
<1>3. QED BY <1>1, <1>2, PTL DEF Spec
-----------------------------------------------------------------------------
(* Delivery failure reports.                                               *)

\* The retries an entry counts were made, but for the one that a scan has
\* just put into the retransmit thread's array.
RetriesMade ==
    /\ resent \in [FrameKey -> 0 .. MaxRetries]
    /\ \A e \in pending :
          \/ resent[KeyOf(e.frame)] >= e.retry
          \/ resent[KeyOf(e.frame)] + 1 >= e.retry /\ \E f \in outbox : KeyOf(f) = KeyOf(e.frame)

RInv == UniqueKeys /\ RetriesMade /\ ReportsBacked(drops)

\* Steps that leave resent, reports, drops and outbox alone and track
\* nothing new.
LEMMA RStays ==
    ASSUME IsFiniteSet(Sizes), TInv, RInv, UNCHANGED <<resent, reports, drops, outbox>>,
           UniqueKeys', \A m \in Message : KeysOf(pending', m) \subseteq KeysOf(pending, m),
           \A e \in pending' : \E x \in pending : e.frame = x.frame /\ e.retry = x.retry,
           \A m \in Message : Unused(m)' => Unused(m)
    PROVE  RInv'
<1>1. RetriesMade'
  <2>1. ASSUME NEW e \in pending'
        PROVE  \/ resent[KeyOf(e.frame)] >= e.retry
               \/ resent[KeyOf(e.frame)] + 1 >= e.retry /\ \E f \in outbox : KeyOf(f) = KeyOf(e.frame)
    BY DEF RInv, RetriesMade
  <2>2. QED BY <2>1 DEF RInv, RetriesMade
<1>2. \A m \in Message :
          /\ reports'[m] + Cardinality(EntriesOf(drops, m)) <= Cardinality(Settled(m)')
          /\ Unused(m)' => reports'[m] = 0 /\ EntriesOf(drops, m) = {}
  BY BackedStays DEF RInv, TInv, SendTypes, RetransmitterOK
<1>3. ReportsBacked(drops)'
  BY <1>2 DEF ReportsBacked, EntriesOf
<1>4. QED BY <1>1, <1>3 DEF RInv

LEMMA RStep ==
    ASSUME IsFiniteSet(Sizes), TInv, RInv, RetriesFit, [Next]_vars
    PROVE  RInv'
<1>1. /\ SendTypes /\ IdsOK /\ UniqueKeys
      /\ pending \subseteq Entry /\ IsFiniteSet(pending) /\ IsFiniteSet(drops)
  BY DEF TInv, RInv, SendTypes, RetransmitterOK
<1>2. ASSUME UNCHANGED <<resent, reports, drops, outbox, pending>>,
             \A m \in Message : Unused(m)' => Unused(m)
      PROVE  RInv'
  <2>1. UniqueKeys' /\ \A m \in Message : KeysOf(pending', m) \subseteq KeysOf(pending, m)
    BY <1>1, <1>2 DEF UniqueKeys, KeysOf, EntriesOf
  <2>2. QED BY <1>2, <2>1, RStays
<1>3. ASSUME UNCHANGED <<resent, reports, drops, outbox, pending, counter>>,
             \A u \in Begun' : u \in Begun /\ call'[u] = call[u]
      PROVE  RInv'
  BY <1>2, <1>3, UnusedStays
<1>4. ASSUME NEW t \in Threads, NEW c \in Channels, NEW n \in Sizes, NEW ack \in Modes,
             ServerBegin(t, c, n, ack)
      PROVE  RInv'
  <2>1. ack \in BOOLEAN /\ NextPid(t, c, n, ack, IF ack THEN "window" ELSE "build")
    BY <1>4, SendAssumption DEF ServerBegin
  <2>2. \A m \in Message : Unused(m)' => Unused(m)
    BY <1>1, <2>1, UnusedNextPid
  <2>3. QED BY <1>2, <1>4, <2>2 DEF ServerBegin, NextPid, history, rvars
<1>5. ASSUME NEW t \in Threads, SenderStep(t) PROVE RInv'
  <2>1. UNCHANGED <<counter, resent, reports, drops, outbox>>
    BY <1>5 DEF SenderStep, ServerWindow, Admit, WindowFull, ServerBuild, BuildFails, Track,
                ServerTransmit, Transmit, history, rvars
  <2>2. CASE Admit(t)
    <3>1. \A u \in Begun' : u \in Begun /\ call'[u] = call[u]
      BY <1>1, <2>2 DEF Admit, Begun, SendTypes
    <3>2. QED BY <1>3, <2>1, <2>2, <3>1 DEF Admit
  <2>3. CASE WindowFull(t) \/ BuildFails(t) \/ Transmit(t)
    <3>1. Return(t) /\ UNCHANGED pending
      BY <2>3 DEF WindowFull, BuildFails, Transmit
    <3>2. \A u \in Begun' : u \in Begun /\ call'[u] = call[u]
      BY <1>1, <3>1, ReturnOK DEF Begun
    <3>3. QED BY <1>3, <2>1, <3>1, <3>2
  <2>4. CASE Track(t)
    <3>1. UniqueKeys' /\ \A e \in pending' \ pending : e.retry = 0
      BY <1>1, <2>4, BackedTrack DEF RInv
    <3>2. PICK D : D = drops
      OBVIOUS
    <3>3. ReportsBacked(D) /\ D = drops'
      BY <2>1, <3>2 DEF RInv
    <3>4. ReportsBacked(D)'
      BY <1>1, <2>4, <3>3, BackedTrack
    <3>5. ReportsBacked(drops)'
      BY <3>3, <3>4
    <3>6. \A e \in pending' : e.frame \in Frame
      BY <1>1, <2>4, TrackOK, EntryOK DEF SendTypes
    <3>7. RetriesMade'
      <4>1. ASSUME NEW e \in pending'
            PROVE  \/ resent[KeyOf(e.frame)] >= e.retry
                   \/ /\ resent[KeyOf(e.frame)] + 1 >= e.retry
                      /\ \E f \in outbox : KeyOf(f) = KeyOf(e.frame)
        <5>1. CASE e \in pending
          BY <5>1 DEF RInv, RetriesMade
        <5>2. CASE e \notin pending
          <6>1. e.retry = 0 /\ KeyOf(e.frame) \in FrameKey
            BY <3>1, <3>6, <5>2, KeyTypes
          <6>2. resent[KeyOf(e.frame)] \in 0 .. MaxRetries
            BY <6>1 DEF RInv, RetriesMade
          <6>3. QED BY <6>1, <6>2
        <5>3. QED BY <5>1, <5>2
      <4>2. QED BY <2>1, <4>1 DEF RInv, RetriesMade
    <3>8. QED BY <3>1, <3>5, <3>7 DEF RInv
  <2>5. QED BY <1>5, <2>2, <2>3, <2>4 DEF SenderStep, ServerWindow, ServerBuild, ServerTransmit
<1>6. ASSUME NEW h \in Handlers, NEW a \in acks, AckReceived(h, a) PROVE RInv'
  <2>1. /\ UNCHANGED <<counter, pc, call, resent, reports, drops, outbox>>
        /\ ReceiveAck(a[1], a[2])
    BY <1>6 DEF AckReceived, history, rvars
  <2>2. UniqueKeys' /\ \A m \in Message : KeysOf(pending', m) \subseteq KeysOf(pending, m)
    BY <1>1, <2>1, AckKeys
  <2>3. \A e \in pending' : \E x \in pending : e.frame = x.frame /\ e.retry = x.retry
    BY <1>1, <2>1, ReceiveAckOK
  <2>4. \A m \in Message : Unused(m)' => Unused(m)
    BY <2>1, UnusedStays DEF Begun
  <2>5. QED BY <2>1, <2>2, <2>3, <2>4, RStays
<1>7. ASSUME NEW h \in Handlers, AckCredited(h) PROVE RInv'
  BY <1>3, <1>7 DEF AckCredited, history, rvars, Begun
<1>8. ASSUME NEW timed \in SUBSET pending, Collect(timed) PROVE RInv'
  <2>1. /\ CheckTimeouts(timed) /\ UNCHANGED <<counter, pc, call, resent, reports>>
        /\ drops' = DropRecorded(timed) /\ drops = {} /\ outbox = {}
        /\ outbox' = {e.frame : e \in RetryRecorded(timed)}
    BY <1>8 DEF Collect, history, TInv, RetransmitterOK, RetryFrameForEntry
  <2>2. RetryRecorded(timed) = Retried(timed)
    BY <1>1, AllRetried
  <2>3. \A e \in pending : resent[KeyOf(e.frame)] >= e.retry
    BY <2>1 DEF RInv, RetriesMade
  <2>4. ASSUME NEW e \in Exhausted(timed) PROVE resent[KeyOf(e.frame)] >= MaxRetries
    <3>1. e \in pending /\ e.retry >= MaxRetries
      BY DEF Exhausted, Due
    <3>2. KeyOf(e.frame) \in FrameKey /\ e.retry \in 0 .. MaxRetries
      BY <1>1, <3>1, EntryOK, KeyTypes
    <3>3. resent[KeyOf(e.frame)] \in 0 .. MaxRetries
      BY <3>2 DEF RInv, RetriesMade
    <3>4. QED BY <2>3, <3>1, <3>2, <3>3, AckAssumption
  <2>5. ReportsBacked({})
    BY <2>1 DEF RInv
  <2>6. PICK D \in SUBSET Exhausted(timed) : D = drops'
    <3>1. drops' \in SUBSET Exhausted(timed)
      BY <2>1 DEF DropRecorded, LastOf
    <3>2. QED BY <3>1
  <2>7. ASSUME NEW m \in Message
        PROVE  /\ reports[m] + Cardinality(EntriesOf(D, m)) <= Cardinality(Done(m) \ KeysOf(pending', m))
               /\ Unused(m) => reports[m] = 0 /\ EntriesOf(D, m) = {}
    BY <1>1, <2>1, <2>4, <2>5, BackedScan
  <2>8. \A m \in Message : Unused(m)' => Unused(m)
    BY <2>1, UnusedStays DEF Begun
  <2>9. ReportsBacked(drops)'
    <3>1. ASSUME NEW m \in Message
          PROVE  EntriesOf(drops, m)' = EntriesOf(D, m) /\ Settled(m)' = Done(m) \ KeysOf(pending', m)
      BY <2>1, <2>6 DEF EntriesOf, Settled, Done, KeysOf
    <3>2. ASSUME NEW m \in Message
          PROVE  /\ reports'[m] + Cardinality(EntriesOf(drops, m)') <= Cardinality(Settled(m)')
                 /\ Unused(m)' => reports'[m] = 0 /\ EntriesOf(drops, m)' = {}
      BY <2>1, <2>7, <2>8, <3>1
    <3>3. QED BY <3>2 DEF ReportsBacked
  <2>10. UniqueKeys'
    BY <1>1, <2>1, ScanKeys
  <2>11. RetriesMade'
    <3>1. ASSUME NEW y \in pending'
          PROVE  \/ resent[KeyOf(y.frame)] >= y.retry
                 \/ /\ resent[KeyOf(y.frame)] + 1 >= y.retry
                    /\ \E f \in outbox' : KeyOf(f) = KeyOf(y.frame)
      <4>1. CASE y \in pending
        BY <2>3, <4>1
      <4>2. CASE y \notin pending
        <5>1. PICK e \in Retried(timed) : y = [e EXCEPT !.retry = @ + 1, !.after = 0]
          BY <2>1, <4>2 DEF CheckTimeouts
        <5>2. e \in pending /\ e \in Entry
          BY <1>1, <5>1 DEF Retried, Due
        <5>3. y.frame = e.frame /\ y.retry = e.retry + 1 /\ e.retry \in Nat
          BY <5>1, <5>2 DEF Entry
        <5>4. e.frame \in outbox'
          BY <2>1, <2>2, <5>1
        <5>5. KeyOf(e.frame) \in FrameKey
          BY <5>2, EntryOK, KeyTypes
        <5>6. resent[KeyOf(e.frame)] \in Nat /\ resent[KeyOf(e.frame)] >= e.retry
          BY <2>3, <5>2, <5>5, AckAssumption DEF RInv, RetriesMade
        <5>7. resent[KeyOf(y.frame)] + 1 >= y.retry
          BY <5>3, <5>6
        <5>8. QED BY <5>3, <5>4, <5>7
      <4>3. QED BY <4>1, <4>2
    <3>2. QED BY <2>1, <3>1 DEF RInv, RetriesMade
  <2>12. QED BY <2>9, <2>10, <2>11 DEF RInv
<1>9. ASSUME LossReaction PROVE RInv'
  BY <1>3, <1>9 DEF LossReaction, history, Begun
<1>10. ASSUME Flush PROVE RInv'
  <2>1. /\ Resend(outbox) /\ Report(drops) /\ drops' = {} /\ outbox' = {}
        /\ UNCHANGED <<pending, counter, pc, call>>
    BY <1>10 DEF Flush, sendState
  <2>2. /\ resent' \in [FrameKey -> 0 .. MaxRetries]
        /\ \A k \in FrameKey : resent[k] <= resent'[k]
        /\ \A k \in FrameKey : (\E f \in outbox : KeyOf(f) = k) =>
               resent'[k] >= MaxRetries \/ resent'[k] = resent[k] + 1
    BY <2>1, ResendOK DEF RInv, RetriesMade
  <2>3. UniqueKeys'
    BY <1>1, <2>1 DEF UniqueKeys
  <2>4. ASSUME NEW e \in pending PROVE resent'[KeyOf(e.frame)] >= e.retry
    <3> DEFINE k == KeyOf(e.frame)
    <3>1. k \in FrameKey /\ e.retry \in 0 .. MaxRetries /\ MaxRetries \in Nat
      BY <1>1, EntryOK, KeyTypes, AckAssumption
    <3>2. /\ resent[k] \in 0 .. MaxRetries /\ resent'[k] \in 0 .. MaxRetries
          /\ resent[k] <= resent'[k]
      BY <2>2, <3>1 DEF RInv, RetriesMade
    <3>3. CASE resent[k] >= e.retry
      BY <3>1, <3>2, <3>3
    <3>4. CASE resent[k] + 1 >= e.retry /\ \E f \in outbox : KeyOf(f) = k
      <4>1. resent'[k] >= MaxRetries \/ resent'[k] = resent[k] + 1
        BY <2>2, <3>1, <3>4
      <4>2. QED BY <3>1, <3>2, <3>4, <4>1
    <3>5. QED BY <3>3, <3>4 DEF RInv, RetriesMade
  <2>5. RetriesMade'
    BY <2>1, <2>2, <2>4 DEF RetriesMade
  <2>6. ASSUME NEW m \in Message
        PROVE  /\ reports'[m] + Cardinality(EntriesOf({}, m)) <= Cardinality(Settled(m)')
               /\ Unused(m)' => reports'[m] = 0 /\ EntriesOf({}, m) = {}
    <3>1. reports'[m] = reports[m] + Cardinality(EntriesOf(drops, m))
      BY <2>1 DEF Report, EntriesOf
    <3>2. /\ reports[m] + Cardinality(EntriesOf(drops, m)) <= Cardinality(Settled(m))
          /\ Unused(m) => reports[m] = 0 /\ EntriesOf(drops, m) = {}
      BY DEF RInv, ReportsBacked
    <3>3. Settled(m) \subseteq Settled(m)'
      <4>1. ASSUME NEW k \in FrameKey, resent[k] >= MaxRetries PROVE resent'[k] >= MaxRetries
        BY <2>2, <4>1, AckAssumption DEF RInv, RetriesMade
      <4>2. QED BY <2>1, <4>1 DEF Settled, Done, KeysOf, EntriesOf
    <3>4. IsFiniteSet(Settled(m)')
      <4>1. Settled(m)' \subseteq {k \in FrameKey : k[1] = m}
        BY DEF Settled, Done
      <4>2. QED BY <4>1, KeysFinite, FS_Subset
    <3>5. Cardinality(Settled(m)) <= Cardinality(Settled(m)') /\ IsFiniteSet(Settled(m))
      BY <3>3, <3>4, FS_Subset
    <3>6. EntriesOf({}, m) = {} /\ Cardinality({}) = 0
      BY FS_EmptySet DEF EntriesOf
    <3>7. IsFiniteSet(EntriesOf(drops, m))
      BY <1>1, FS_Subset DEF EntriesOf
    <3>8. /\ Cardinality(Settled(m)) \in Nat /\ Cardinality(Settled(m)') \in Nat
          /\ Cardinality(EntriesOf(drops, m)) \in Nat /\ reports[m] \in Nat
      BY <1>1, <3>4, <3>5, <3>7, FS_CardinalityType DEF SendTypes
    <3>9. Cardinality(EntriesOf({}, m)) = 0
      BY <3>6
    <3>10. reports'[m] + Cardinality(EntriesOf({}, m)) <= Cardinality(Settled(m)')
      BY <3>1, <3>2, <3>5, <3>8, <3>9
    <3>11. Unused(m)' => Unused(m)
      BY <2>1, UnusedStays DEF Begun
    <3>12. Unused(m) => reports'[m] = 0
      <4>1. ASSUME Unused(m) PROVE reports'[m] = 0
        <5>1. reports[m] = 0 /\ Cardinality(EntriesOf(drops, m)) = 0
          BY <3>2, <3>6, <4>1
        <5>2. QED BY <3>1, <5>1
      <4>2. QED BY <4>1
    <3>13. QED BY <3>6, <3>10, <3>11, <3>12
  <2>7. ReportsBacked(drops)'
    BY <2>1, <2>6 DEF ReportsBacked, EntriesOf
  <2>8. QED BY <2>3, <2>5, <2>7 DEF RInv
<1>11. ASSUME NEW f \in net, Receive(f), UNCHANGED <<crediting, rvars>> PROVE RInv'
  BY <1>3, <1>11 DEF Receive, sendState, rvars, Begun
<1>12. CASE UNCHANGED vars
  BY <1>3, <1>12 DEF vars, svars, sendState, history, rvars, Begun
<1>13. QED BY <1>4, <1>5, <1>6, <1>7, <1>8, <1>9, <1>10, <1>11, <1>12 DEF Next

\* Every delivery failure report stands for a frame of its message that the
\* server sent again MaxRetries times, and no two reports for the same frame:
\* provided that no scan finds more entries to retry than the retransmit
\* thread's array holds.
THEOREM ReportsHonest ==
    ASSUME IsFiniteSet(Sizes)
    PROVE  Spec /\ []RetriesFit => []RetriedBeforeReport
<1> DEFINE Inv == TInv /\ RInv
<1>1. Init => Inv
  <2> SUFFICES ASSUME Init PROVE RInv
    BY TInit
  <2>1. /\ pending = {} /\ drops = {} /\ resent = [k \in FrameKey |-> 0]
        /\ reports = [m \in Message |-> 0]
    BY DEF Init, SInit
  <2>2. UniqueKeys
    BY <2>1 DEF UniqueKeys
  <2>3. RetriesMade
    BY <2>1, AckAssumption DEF RetriesMade
  <2>4. ASSUME NEW m \in Message
        PROVE  /\ reports[m] + Cardinality(EntriesOf(drops, m)) <= Cardinality(Settled(m))
               /\ Unused(m) => reports[m] = 0 /\ EntriesOf(drops, m) = {}
    <3>1. EntriesOf(drops, m) = {} /\ Cardinality({}) = 0 /\ reports[m] = 0
      BY <2>1, FS_EmptySet DEF EntriesOf
    <3>2. Cardinality(Settled(m)) \in Nat
      BY SettledFinite, FS_CardinalityType
    <3>3. QED BY <3>1, <3>2
  <2>5. QED BY <2>2, <2>3, <2>4 DEF RInv, ReportsBacked
<1>2. Inv /\ RetriesFit /\ [Next]_vars => Inv'
  BY TStep, RStep
<1>3. Inv => RetriedBeforeReport
  BY BackedEnough DEF TInv, SendTypes, RetransmitterOK, RInv
<1>4. QED BY <1>1, <1>2, <1>3, PTL DEF Spec
=============================================================================
