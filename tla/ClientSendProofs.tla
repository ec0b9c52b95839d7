-------------------------- MODULE ClientSendProofs --------------------------
(***************************************************************************)
(* Proofs about the client's reliable sends (ClientSend), for every set of *)
(* threads, channels and sizes and every limit of the tracker: type        *)
(* correctness, no message lost silently, the in-flight count, and the     *)
(* wholeness of what is delivered.                                         *)
(***************************************************************************)
EXTENDS ClientSend, ReliableSendProofs

TInv ==
    /\ SendTypes /\ IdsOK /\ AcksDelivered
    /\ congestion \in BOOLEAN /\ rpc \in {"tick", "recv"}
-----------------------------------------------------------------------------
(* Types.                                                                  *)

LEMMA TInit == Init => TInv
BY SendInit DEF Init, TInv

\* krs_client_subscribe and krs_client_send take a packet id alike.
LEMMA BeginOK ==
    ASSUME NEW t \in Threads,
           \/ \E c \in Channels, n \in Sizes, ack \in Modes : ClientBegin(t, c, n, ack)
           \/ SubscribeBegin(t)
    PROVE  \E c \in Channels, n \in Sizes, ack \in BOOLEAN, next \in {"window", "build"} :
               /\ next = "window" => ack
               /\ Control \notin Channels => next = IF ack THEN "window" ELSE "build"
               /\ NextPid(t, c, n, ack, next)
<1>1. ASSUME NEW c \in Channels, NEW n \in Sizes, NEW ack \in Modes, ClientBegin(t, c, n, ack)
      PROVE  /\ ack \in BOOLEAN /\ (IF ack THEN "window" ELSE "build") \in {"window", "build"}
             /\ NextPid(t, c, n, ack, IF ack THEN "window" ELSE "build")
  BY <1>1, SendAssumption DEF ClientBegin
<1>2. ASSUME SubscribeBegin(t)
      PROVE  Control \in Channels /\ 1 \in Sizes /\ NextPid(t, Control, 1, TRUE, "build")
  BY <1>2, ClientAssumption DEF SubscribeBegin
<1>3. QED BY <1>1, <1>2

\* The frame that the client sends again is one that it tracks, with the
\* packet id of the one that timed out: perhaps another one.
LEMMA RetryFrameOK ==
    ASSUME pending \subseteq Entry, NEW timed \in SUBSET pending, NEW e \in Retried(timed)
    PROVE  \E x \in pending : /\ RetryFrame(timed, e.frame.pid) = x.frame
                              /\ x.frame.pid = e.frame.pid
<1> DEFINE pid == e.frame.pid
           S == {x \in pending \ Exhausted(timed) : x.frame.pid = pid}
           T == {x.at : x \in S}
<1>1. e \in S
  BY DEF Retried, Due
<1>2. T \subseteq Nat /\ T # {}
  BY <1>1, EntryOK
<1>3. PICK n \in T : \A k \in T : n <= k
  BY <1>2, LeastNatural
<1>4. PICK y \in S : y.at = n
  BY <1>3
<1>5. \E x \in pending \ Exhausted(timed) :
         /\ x.frame.pid = pid
         /\ \A z \in pending \ Exhausted(timed) : z.frame.pid = pid => x.at <= z.at
  BY <1>3, <1>4
<1> HIDE DEF pid
<1>6. \E x \in pending : RetryFrame(timed, pid) = x.frame /\ x.frame.pid = pid
  BY <1>5 DEF RetryFrame
<1>7. QED BY <1>6 DEF pid

LEMMA ResendsOK ==
    ASSUME pending \subseteq Entry, NEW timed \in SUBSET pending, NEW f \in Resends(timed)
    PROVE  \E x \in pending : f = x.frame
<1>1. PICK e \in RetryRecorded(timed) : f = RetryFrame(timed, e.frame.pid)
  BY DEF Resends
<1>2. e \in Retried(timed)
  BY DEF RetryRecorded, LastOf
<1>3. QED BY <1>1, <1>2, RetryFrameOK

\* What the receive thread's tick does to the tracker and the network.
LEMMA TickOK ==
    ASSUME TInv, NEW timed \in SUBSET pending, ClientTick(timed)
    PROVE  /\ SendTypes' /\ IdsOK' /\ in_flight' = in_flight
           /\ \A e \in pending' : \E x \in pending : e.frame = x.frame
           /\ \A x \in pending : x \in Exhausted(timed) \/ \E e \in pending' : e.frame = x.frame
           /\ \A m \in Message : reports[m] <= reports'[m]
           /\ \A e \in DropRecorded(timed) : reports'[MessageOf(e.frame)] > 0
           /\ reports' \in [Message -> Nat]
           /\ net \subseteq net'
           /\ \A f \in net' : f \in net \/ \E x \in pending : f = x.frame
<1>1. pending \subseteq Entry /\ IsFiniteSet(pending)
  BY DEF TInv, SendTypes
<1>2. /\ CheckTimeouts(timed) /\ ReactToLoss(timed) /\ Report(DropRecorded(timed))
      /\ net' = net \cup Resends(timed)
      /\ UNCHANGED <<counter, pc, call, acks, accepted, delivered>>
  BY DEF ClientTick, Resend
<1>3. /\ pending' \subseteq Entry /\ IsFiniteSet(pending')
      /\ \A e \in pending' : \E x \in pending : e.frame = x.frame
      /\ \A x \in pending : x \in Exhausted(timed) \/ \E e \in pending' : e.frame = x.frame
  BY <1>1, <1>2, CheckTimeoutsOK
<1>4. CCTypeOK' /\ in_flight' = in_flight
  <2>1. CASE UNCHANGED ccvars
    BY <2>1 DEF TInv, SendTypes, CCTypeOK, ccvars
  <2>2. CASE OnTimeoutLoss \/ OnFastLoss
    BY <2>2, LossOK DEF TInv, SendTypes
  <2>3. QED BY <1>2, <2>1, <2>2 DEF ReactToLoss
<1>5. DropRecorded(timed) \subseteq Entry /\ IsFiniteSet(DropRecorded(timed))
  <2>1. DropRecorded(timed) \subseteq pending
    BY DEF DropRecorded, LastOf, Exhausted, Due
  <2>2. QED BY <1>1, <2>1, FS_Subset
<1>6. /\ reports' \in [Message -> Nat]
      /\ \A m \in Message : reports[m] <= reports'[m]
      /\ \A e \in DropRecorded(timed) : reports'[MessageOf(e.frame)] > 0
  BY <1>2, <1>5, ReportOK DEF TInv, SendTypes
<1>7. \A f \in net' : f \in net \/ \E x \in pending : f = x.frame
  BY <1>1, <1>2, ResendsOK
<1>8. net' \subseteq Frame /\ \A f \in net' : f \in net \/ f.pid <= counter[f.ch]
  BY <1>1, <1>7, EntryOK DEF TInv, SendTypes, IdsOK
<1>9. SendTypes' /\ IdsOK'
  BY <1>2, <1>3, <1>4, <1>6, <1>8, OthersOK DEF TInv, SendTypes
<1>10. QED BY <1>2, <1>3, <1>4, <1>6, <1>7, <1>9

\* Every step of the client and the network keeps the types and packet ids.
LEMMA TStep ==
    ASSUME TInv, [Next]_vars
    PROVE  TInv'
<1> USE DEF TInv
<1>1. ASSUME UNCHANGED <<acks, delivered>> PROVE AcksDelivered'
  BY <1>1 DEF AcksDelivered, IsDelivered
<1>2. ASSUME NEW t \in Threads,
             \/ \E c \in Channels, n \in Sizes, ack \in Modes : ClientBegin(t, c, n, ack)
             \/ SubscribeBegin(t)
      PROVE  TInv'
  <2>1. SendTypes' /\ IdsOK'
    BY <1>2, BeginOK, NextPidOK
  <2>2. UNCHANGED <<acks, delivered, congestion, rpc>>
    BY <1>2 DEF ClientBegin, SubscribeBegin, NextPid, history
  <2>3. QED BY <1>1, <2>1, <2>2
<1>3. ASSUME NEW t \in Threads, SenderStep(t) PROVE TInv'
  <2>1. UNCHANGED <<acks, delivered, rpc>> /\ congestion' \in BOOLEAN
    BY <1>3 DEF SenderStep, ClientWindow, Admit, WindowFull, ClientBuild, BuildFails, Track,
                ClientTransmit, Transmit, history
  <2>2. CASE Admit(t)
    BY <1>1, <2>1, <2>2, AdmitOK
  <2>3. CASE WindowFull(t) \/ BuildFails(t)
    BY <1>1, <2>1, <2>3, GiveUpOK DEF WindowFull, BuildFails, history
  <2>4. CASE Track(t)
    BY <1>1, <2>1, <2>4, TrackOK
  <2>5. CASE Transmit(t)
    BY <1>1, <2>1, <2>5, TransmitOK
  <2>6. QED BY <1>3, <2>2, <2>3, <2>4, <2>5 DEF SenderStep, ClientWindow, ClientBuild, ClientTransmit
<1>4. ASSUME NEW timed \in SUBSET pending, ClientTick(timed) PROVE TInv'
  BY <1>1, <1>4, TickOK DEF ClientTick
<1>5. ASSUME NEW a \in acks, ClientAck(a) PROVE TInv'
  <2>1. UNCHANGED <<counter, pc, call, net, acks, accepted, delivered, reports, congestion>>
    BY <1>5 DEF ClientAck, history
  <2>2. /\ pending' \subseteq Entry /\ IsFiniteSet(pending')
        /\ \A e \in pending' : \E x \in pending : e.frame = x.frame
    BY <1>5, ReceiveAckOK DEF ClientAck, SendTypes
  <2>3. CCTypeOK'
    BY <1>5, OnAckOK DEF ClientAck, SendTypes, CCTypeOK, ccvars
  <2>4. SendTypes' /\ IdsOK'
    BY <2>1, <2>2, <2>3, OthersOK DEF SendTypes
  <2>5. QED BY <1>1, <1>5, <2>1, <2>4 DEF ClientAck
<1>6. ASSUME UNCHANGED <<pending, ccvars, counter, pc, call, net, acks, accepted, delivered, reports,
                         congestion>>, rpc' \in {"tick", "recv"}
      PROVE  TInv'
  <2>1. CCTypeOK'
    BY <1>6 DEF SendTypes, CCTypeOK, ccvars
  <2>2. SendTypes' /\ IdsOK'
    BY <1>6, <2>1, OthersOK DEF SendTypes
  <2>3. QED BY <1>1, <1>6, <2>2
<1>7. CASE ClientOther
  BY <1>6, <1>7 DEF ClientOther, svars, sendState, history
<1>8. ASSUME NEW f \in net, Receive(f), UNCHANGED <<congestion, rpc>> PROVE TInv'
  <2>1. UNCHANGED <<pending, ccvars, counter, pc, call, net, accepted, reports>> /\ Accepts(f)
    BY <1>8 DEF Receive, sendState
  <2>2. acks' \subseteq Message /\ AcksDelivered'
    BY <2>1, AcceptsOK DEF SendTypes
  <2>3. CCTypeOK'
    BY <2>1 DEF SendTypes, CCTypeOK, ccvars
  <2>4. SendTypes' /\ IdsOK'
    BY <2>1, <2>2, <2>3, OthersOK DEF SendTypes
  <2>5. QED BY <1>8, <2>2, <2>4
<1>9. CASE ServerSweep
  BY <1>6, <1>9 DEF ServerSweep, sendState, history
<1>10. CASE UNCHANGED vars
  BY <1>6, <1>10 DEF vars, svars, sendState, history
<1>11. QED BY <1>2, <1>3, <1>4, <1>5, <1>7, <1>8, <1>9, <1>10 DEF Next

\* The tracker, the congestion controller and the packet counters always
\* have their types: packet ids stay in range, the window never closes to
\* nothing, and a retransmission sends a frame that the tracker holds.
THEOREM TypeCorrect == Spec => []TypeOK
<1>1. TInv => TypeOK
  BY DEF TInv, SendTypes, TypeOK
<1>2. QED BY TInit, TStep, <1>1, PTL DEF Spec
-----------------------------------------------------------------------------
(* No message is lost silently.                                            *)

Accounted(m) == Tracked(m[1], m[2]) \/ IsDelivered(m) \/ reports[m] > 0

\* A thread about to send has tracked its message, which by then may already
\* have been given up.
SendersAccounted == \A t \in Threads : pc[t] = "send" => Accounted(MessageOf(call[t]))

\* No step of any thread makes a message disappear.
LEMMA AccountedStays ==
    ASSUME TInv, DropsFit, [Next]_vars, NEW m \in Message, Accounted(m)
    PROVE  Accounted(m)'
<1> USE DEF TInv
<1>1. pending \subseteq Entry /\ IsFiniteSet(pending)
  BY DEF SendTypes
<1>2. ASSUME pending \subseteq pending', delivered \subseteq delivered', UNCHANGED reports
      PROVE  Accounted(m)'
  BY <1>2 DEF Accounted, Tracked, IsDelivered
<1>3. ASSUME NEW t \in Threads,
             \/ \E c \in Channels, n \in Sizes, ack \in Modes : ClientBegin(t, c, n, ack)
             \/ SubscribeBegin(t)
      PROVE  Accounted(m)'
  BY <1>2, <1>3 DEF ClientBegin, SubscribeBegin, NextPid, history
<1>4. ASSUME NEW t \in Threads, SenderStep(t) PROVE Accounted(m)'
  <2>1. pending \subseteq pending'
    BY <1>4, TrackOK DEF SenderStep, ClientWindow, Admit, WindowFull, ClientBuild, BuildFails,
                         ClientTransmit, Transmit
  <2>2. UNCHANGED <<delivered, reports>>
    BY <1>4 DEF SenderStep, ClientWindow, Admit, WindowFull, ClientBuild, BuildFails, Track,
                ClientTransmit, Transmit, history
  <2>3. QED BY <1>2, <2>1, <2>2
<1>5. ASSUME NEW timed \in SUBSET pending, ClientTick(timed) PROVE Accounted(m)'
  <2>1. UNCHANGED delivered
    BY <1>5 DEF ClientTick
  <2>2. DropRecorded(timed) = Exhausted(timed)
    BY <1>1, AllRecorded
  <2>3. /\ \A x \in pending : x \in Exhausted(timed) \/ \E e \in pending' : e.frame = x.frame
        /\ reports[m] <= reports'[m] /\ reports'[m] \in Nat /\ reports[m] \in Nat
        /\ \A e \in DropRecorded(timed) : reports'[MessageOf(e.frame)] > 0
    BY <1>5, TickOK DEF SendTypes
  <2>4. CASE Tracked(m[1], m[2])
    <3>1. PICK x \in pending : IsOf(x, m[1], m[2])
      BY <2>4 DEF Tracked
    <3>2. CASE x \in Exhausted(timed)
      <4>1. x \in DropRecorded(timed) /\ MessageOf(x.frame) = m
        BY <2>2, <3>1, <3>2 DEF IsOf, MessageOf, Message
      <4>2. QED BY <2>3, <4>1 DEF Accounted
    <3>3. CASE \E e \in pending' : e.frame = x.frame
      BY <3>1, <3>3 DEF Accounted, Tracked, IsOf
    <3>4. QED BY <2>3, <3>2, <3>3
  <2>5. CASE IsDelivered(m) \/ reports[m] > 0
    BY <2>1, <2>3, <2>5 DEF Accounted, IsDelivered
  <2>6. QED BY <2>4, <2>5 DEF Accounted
<1>6. ASSUME NEW a \in acks, ClientAck(a) PROVE Accounted(m)'
  <2>1. UNCHANGED <<delivered, reports>> /\ ReceiveAck(a[1], a[2]) /\ a \in Message
    BY <1>6 DEF ClientAck, history, SendTypes
  <2>2. \A x \in pending : ~IsOf(x, a[1], a[2]) => \E e \in pending' : e.frame = x.frame
    BY <1>1, <2>1, ReceiveAckOK
  <2>3. CASE m = a
    <3>1. IsDelivered(m)
      BY <2>3 DEF AcksDelivered
    <3>2. QED BY <2>1, <3>1 DEF Accounted, IsDelivered
  <2>4. CASE m # a
    <3>1. ASSUME NEW x \in pending, IsOf(x, m[1], m[2])
          PROVE  ~IsOf(x, a[1], a[2])
      BY <2>1, <2>4, <3>1 DEF IsOf, Message
    <3>2. Tracked(m[1], m[2]) => \E e \in pending' : IsOf(e, m[1], m[2])
      BY <2>2, <3>1 DEF Tracked, IsOf
    <3>3. QED BY <2>1, <3>2 DEF Accounted, Tracked, IsDelivered
  <2>5. QED BY <2>3, <2>4
<1>7. CASE ClientOther \/ ServerSweep \/ UNCHANGED vars
  BY <1>2, <1>7 DEF ClientOther, ServerSweep, vars, svars, sendState, history
<1>8. ASSUME NEW f \in net, Receive(f), UNCHANGED <<congestion, rpc>> PROVE Accounted(m)'
  <2>1. delivered \subseteq delivered'
    BY <1>8, AcceptsOK DEF Receive, SendTypes
  <2>2. QED BY <1>2, <1>8, <2>1 DEF Receive, sendState
<1>9. QED BY <1>3, <1>4, <1>5, <1>6, <1>7, <1>8 DEF Next

\* What a thread sends as reliable it has tracked: nothing is accepted that
\* was not accounted for.
LEMMA AccountedStep ==
    ASSUME "track" \notin Failures, TInv, DropsFit, SendersAccounted, NoSilentLoss, [Next]_vars
    PROVE  SendersAccounted' /\ NoSilentLoss'
<1>1. \A t \in Threads : pc[t] # "idle" => MessageOf(call[t]) \in Message
  BY FramesOfOK DEF TInv, SendTypes, Busy
<1>2. ASSUME NEW t \in Threads, pc'[t] = "send" PROVE Accounted(MessageOf(call[t]))'
  <2>1. CASE pc[t] = "send" /\ call'[t] = call[t]
    <3>1. Accounted(MessageOf(call[t])) /\ MessageOf(call[t]) \in Message
      BY <1>1, <2>1 DEF SendersAccounted
    <3>2. PICK m \in Message : m = MessageOf(call[t])
      BY <3>1
    <3>3. Accounted(m)'
      BY <3>1, <3>2, AccountedStays
    <3>4. MessageOf(call'[t]) = m
      BY <2>1, <3>2
    <3>5. QED BY <3>3, <3>4
  <2>2. CASE Track(t)
    <3>1. PICK e \in pending' : MessageOf(e.frame) = MessageOf(call[t])
      BY <2>2, TrackOK DEF TInv
    <3>2. call' = call
      BY <2>2 DEF Track
    <3>3. QED BY <3>1, <3>2 DEF Accounted, Tracked, IsOf, MessageOf
  <2>3. \/ Track(t)
        \/ pc'[t] = pc[t] /\ call'[t] = call[t]
        \/ pc'[t] # "send"
    <3>1. pc \in [Threads -> {"idle", "window", "build", "send"}] /\ DOMAIN call = Threads
      BY DEF TInv, SendTypes
    <3>2. ASSUME NEW u \in Threads,
                 \/ \E c \in Channels, n \in Sizes, ack \in Modes : ClientBegin(u, c, n, ack)
                 \/ SubscribeBegin(u)
          PROVE  (pc'[t] = pc[t] /\ call'[t] = call[t]) \/ pc'[t] # "send"
      BY <3>1, <3>2 DEF ClientBegin, SubscribeBegin, NextPid
    <3>3. ASSUME NEW u \in Threads, SenderStep(u)
          PROVE  \/ Track(t)
                 \/ pc'[t] = pc[t] /\ call'[t] = call[t]
                 \/ pc'[t] # "send"
      <4>1. CASE Admit(u) \/ WindowFull(u) \/ BuildFails(u) \/ Transmit(u)
        BY <3>1, <4>1 DEF Admit, WindowFull, BuildFails, Transmit, Return
      <4>2. CASE Track(u)
        BY <3>1, <4>2 DEF Track
      <4>3. QED BY <3>3, <4>1, <4>2 DEF SenderStep, ClientWindow, ClientBuild, ClientTransmit
    <3>4. QED BY <3>2, <3>3 DEF Next, ClientTick, ClientAck, ClientOther, ServerSweep, Receive,
                    sendState, vars, svars
  <2>4. QED BY <1>2, <2>1, <2>2, <2>3
<1>3. ASSUME NEW m \in accepted' PROVE Accounted(m)'
  <2>1. CASE m \in accepted
    <3>1. m \in Message /\ Accounted(m)
      BY <2>1 DEF TInv, SendTypes, NoSilentLoss, Accounted
    <3>2. QED BY <3>1, AccountedStays
  <2>2. CASE \E t \in Threads : pc[t] = "send" /\ m = MessageOf(call[t])
    <3>1. m \in Message /\ Accounted(m)
      BY <1>1, <2>2 DEF SendersAccounted
    <3>2. QED BY <3>1, AccountedStays
  <2>3. m \in accepted \/ \E t \in Threads : pc[t] = "send" /\ m = MessageOf(call[t])
    <3>1. ASSUME NEW t \in Threads, Transmit(t)
          PROVE  m \in accepted \/ (pc[t] = "send" /\ m = MessageOf(call[t]))
      BY <1>3, <3>1 DEF Transmit
    <3>2. CASE accepted' = accepted
      BY <1>3, <3>2
    <3>3. QED BY <3>1, <3>2 DEF Next, ClientBegin, SubscribeBegin, NextPid, SenderStep,
                    ClientWindow, Admit, WindowFull, ClientBuild, BuildFails, Track, ClientTransmit,
                    ClientTick, ClientAck, ClientOther, ServerSweep, Receive, vars, svars, history
  <2>4. QED BY <2>1, <2>2, <2>3
<1>4. QED BY <1>2, <1>3 DEF SendersAccounted, NoSilentLoss, Accounted

\* Whatever the network loses, repeats and reorders, and although the client
\* may retransmit another frame than the one that timed out, a reliable
\* message that krs_client_send accepted is tracked, delivered or reported as
\* failed: as long as the frames it tracks can be copied, and the entries
\* that a tick gives up fit into the client's array.
THEOREM NothingLost ==
    ASSUME "track" \notin Failures
    PROVE  Spec /\ []DropsFit => []NoSilentLoss
<1> DEFINE Inv == TInv /\ SendersAccounted /\ NoSilentLoss
<1>1. Init => Inv
  <2>1. Init => SendersAccounted /\ NoSilentLoss
    BY DEF Init, SInit, SendersAccounted, NoSilentLoss
  <2>2. QED BY <2>1, TInit
<1>2. Inv /\ DropsFit /\ [Next]_vars => Inv'
  BY TStep, AccountedStep
<1>3. QED BY <1>1, <1>2, PTL DEF Spec
-----------------------------------------------------------------------------
(* The in-flight count.                                                    *)

CoversAll == IsFiniteSet(Covered) /\ in_flight >= Cardinality(Covered)

LEMMA CoversStep ==
    ASSUME Control \notin Channels, TInv, CoversAll, [Next]_vars
    PROVE  CoversAll'
<1>1. in_flight \in Nat /\ Cardinality(Covered) \in Nat
  BY FS_CardinalityType DEF TInv, SendTypes, CCTypeOK, CoversAll
<1>2. ASSUME Covered' \subseteq Covered, UNCHANGED in_flight
      PROVE  CoversAll'
  <2>1. IsFiniteSet(Covered') /\ Cardinality(Covered') <= Cardinality(Covered)
    BY <1>2, FS_Subset DEF CoversAll
  <2>2. Cardinality(Covered') \in Nat
    BY <2>1, FS_CardinalityType
  <2>3. QED BY <1>1, <1>2, <2>1, <2>2 DEF CoversAll
<1>3. ASSUME NEW t \in Threads,
             \/ \E c \in Channels, n \in Sizes, ack \in Modes : ClientBegin(t, c, n, ack)
             \/ SubscribeBegin(t)
      PROVE  CoversAll'
  <2>1. PICK c \in Channels, n \in Sizes, ack \in BOOLEAN :
           NextPid(t, c, n, ack, IF ack THEN "window" ELSE "build")
    BY <1>3, BeginOK
  <2>2. Covered' = Covered
    BY <2>1, CoveredNextPid DEF TInv
  <2>3. QED BY <1>2, <2>1, <2>2 DEF NextPid, ccvars
<1>4. ASSUME NEW t \in Threads, SenderStep(t) PROVE CoversAll'
  <2>1. CASE Admit(t)
    <3> DEFINE m == MessageOf(call[t])
    <3>1. Covered' = Covered \cup {m} /\ in_flight' = in_flight + 1
      BY <2>1, AdmitOK, CoveredAdmit DEF TInv
    <3> HIDE DEF m
    <3>2. /\ IsFiniteSet(Covered \cup {m})
          /\ Cardinality(Covered \cup {m}) \in {Cardinality(Covered), Cardinality(Covered) + 1}
      <4>1. CASE m \in Covered
        <5>1. Covered \cup {m} = Covered
          BY <4>1
        <5>2. QED BY <5>1 DEF CoversAll
      <4>2. CASE m \notin Covered
        BY <4>2, FS_AddElement DEF CoversAll
      <4>3. QED BY <4>1, <4>2
    <3>3. QED BY <1>1, <3>1, <3>2 DEF CoversAll
  <2>2. CASE WindowFull(t) \/ BuildFails(t) \/ Transmit(t)
    <3>1. Return(t) /\ UNCHANGED <<pending, in_flight>>
      BY <2>2 DEF WindowFull, BuildFails, Transmit, ccvars
    <3>2. Covered' \subseteq Covered
      BY <3>1, CoveredReturn DEF TInv
    <3>3. QED BY <1>2, <3>1, <3>2
  <2>3. CASE Track(t)
    BY <1>2, <2>3, CoveredTrack DEF TInv, Track, ccvars
  <2>4. QED BY <1>4, <2>1, <2>2, <2>3 DEF SenderStep, ClientWindow, ClientBuild, ClientTransmit
<1>5. ASSUME NEW timed \in SUBSET pending, ClientTick(timed) PROVE CoversAll'
  <2>1. Covered' \subseteq Covered
    BY <1>5, TickOK, CoveredOthers DEF ClientTick
  <2>2. QED BY <1>2, <1>5, <2>1, TickOK
<1>6. ASSUME NEW a \in acks, ClientAck(a) PROVE CoversAll'
  <2>1. UNCHANGED <<pc, call>> /\ ReceiveAck(a[1], a[2]) /\ a \in Message
    BY <1>6 DEF ClientAck, TInv, SendTypes
  <2>2. Covered' \subseteq Covered
    <3>1. \A e \in pending' : \E x \in pending : e.frame = x.frame
      BY <2>1, ReceiveAckOK DEF TInv, SendTypes
    <3>2. QED BY <2>1, <3>1, CoveredOthers
  <2>3. CASE ~AckCounts(a)
    BY <1>2, <1>6, <2>2, <2>3 DEF ClientAck, ccvars
  <2>4. CASE AckCounts(a)
    <3>1. in_flight' >= in_flight - 1 /\ in_flight' \in Nat
      BY <1>6, <2>4, OnAckOK DEF ClientAck, TInv, SendTypes, CCTypeOK
    <3>2. Covered' \subseteq Covered \ {a} /\ a \in Covered
      BY <2>1, <2>4, CoveredAck DEF TInv, AckCounts
    <3>3. IsFiniteSet(Covered \ {a}) /\ Cardinality(Covered \ {a}) = Cardinality(Covered) - 1
      BY <3>2, FS_RemoveElement DEF CoversAll
    <3>4. IsFiniteSet(Covered') /\ Cardinality(Covered') <= Cardinality(Covered) - 1
      BY <3>2, <3>3, FS_Subset
    <3>5. Cardinality(Covered') \in Nat
      BY <3>4, FS_CardinalityType
    <3>6. QED BY <1>1, <3>1, <3>4, <3>5 DEF CoversAll
  <2>5. QED BY <2>3, <2>4
<1>7. ASSUME UNCHANGED <<pending, pc, call, in_flight>> PROVE CoversAll'
  BY <1>2, <1>7, CoveredOthers
<1>8. CASE ClientOther \/ ServerSweep \/ UNCHANGED vars
  BY <1>7, <1>8 DEF ClientOther, ServerSweep, vars, svars, sendState, ccvars
<1>9. ASSUME NEW f \in net, Receive(f), UNCHANGED <<congestion, rpc>> PROVE CoversAll'
  BY <1>7, <1>9 DEF Receive, sendState, ccvars
<1>10. QED BY <1>3, <1>4, <1>5, <1>6, <1>8, <1>9 DEF Next

\* in_flight never falls below the number of messages that were admitted and
\* still wait for their ACK, so that the window is never wider than cwnd.
\* This needs a connection that sends nothing on the control channel: the
\* ACK of a SUBSCRIBE is credited to the controller, which never counted it.
THEOREM WindowHolds ==
    ASSUME Control \notin Channels
    PROVE  Spec => []InFlightCovers
<1> DEFINE Inv == TInv /\ CoversAll
<1>1. Init => Inv
  <2>1. Init => Covered = {} /\ in_flight = 0
    BY DEF Init, SInit, CCInit, Covered, Tracked, Admitted
  <2>2. IsFiniteSet({}) /\ Cardinality({}) = 0
    BY FS_EmptySet
  <2>3. Init => CoversAll
    BY <2>1, <2>2 DEF CoversAll
  <2>4. QED BY <2>3, TInit
<1>2. Inv /\ [Next]_vars => Inv'
  BY TStep, CoversStep
<1>3. Inv => InFlightCovers
  BY CoversEnough DEF TInv, SendTypes, CoversAll
<1>4. QED BY <1>1, <1>2, <1>3, PTL DEF Spec
-----------------------------------------------------------------------------
(* Messages are whole.                                                     *)

\* All frames of a message, wherever they are, agree on its size.
Sized == \E size \in [Message -> Nat] : Agrees(size)

LEMMA SizedStep ==
    ASSUME TInv, Sized, [Next]_vars
    PROVE  Sized'
<1>1. PICK size \in [Message -> Nat] : Agrees(size)
  BY DEF Sized
<1>2. ASSUME NEW t \in Threads,
             \/ \E c \in Channels, n \in Sizes, ack \in Modes : ClientBegin(t, c, n, ack)
             \/ SubscribeBegin(t)
      PROVE  Sized'
  <2>1. PICK c \in Channels, n \in Sizes, ack \in BOOLEAN, next \in {"window", "build"} :
           (next = "window" => ack) /\ NextPid(t, c, n, ack, next)
    BY <1>2, BeginOK
  <2>2. \E new \in [Message -> Nat] : Agrees(new)'
    BY <1>1, <2>1, AgreesNextPid DEF TInv
  <2>3. QED BY <2>2 DEF Sized
<1>3. ASSUME \A u \in Busy' : u \in Busy /\ call'[u] = call[u],
             \A e \in pending' : (\E x \in pending : e.frame = x.frame)
                                 \/ \E u \in Busy : e.frame \in FramesOf(call[u]),
             \A f \in net' : f \in net \/ (\E x \in pending : f = x.frame)
                             \/ \E u \in Busy : f \in FramesOf(call[u])
      PROVE  Sized'
  <2>1. \A f \in net' : f \in net \/ f.total = size[MessageOf(f)]
                        \/ \E u \in Busy : f \in FramesOf(call[u])
    BY <1>1, <1>3 DEF Agrees
  <2>2. Agrees(size)'
    BY <1>1, <1>3, <2>1, AgreesStays DEF TInv
  <2>3. QED BY <2>2 DEF Sized
<1>4. ASSUME NEW t \in Threads, SenderStep(t) PROVE Sized'
  <2>1. CASE Admit(t)
    <3>1. \A u \in Busy' : u \in Busy /\ call'[u] = call[u]
      BY <2>1 DEF Admit, Busy, TInv, SendTypes
    <3>2. QED BY <1>3, <2>1, <3>1 DEF Admit
  <2>2. CASE WindowFull(t) \/ BuildFails(t) \/ Transmit(t)
    <3>1. Return(t) /\ UNCHANGED pending
      BY <2>2 DEF WindowFull, BuildFails, Transmit
    <3>2. \A u \in Busy' : u \in Busy /\ call'[u] = call[u]
      BY <3>1, ReturnOK DEF TInv, Busy
    <3>3. \A f \in net' : f \in net \/ \E u \in Busy : f \in FramesOf(call[u])
      BY <2>2, TransmitOK DEF WindowFull, BuildFails, Transmit, TInv, Busy
    <3>4. QED BY <1>3, <3>1, <3>2, <3>3
  <2>3. CASE Track(t)
    <3>1. \A e \in pending' : e \in pending \/ e.frame \in FramesOf(call[t])
      BY <2>3, TrackOK DEF TInv
    <3>2. t \in Busy
      BY <2>3 DEF Track, Busy
    <3>3. \A u \in Busy' : u \in Busy /\ call'[u] = call[u]
      BY <2>3 DEF Track, Busy, TInv, SendTypes
    <3>4. QED BY <1>3, <2>3, <3>1, <3>2, <3>3 DEF Track
  <2>4. QED BY <1>4, <2>1, <2>2, <2>3 DEF SenderStep, ClientWindow, ClientBuild, ClientTransmit
<1>5. ASSUME NEW timed \in SUBSET pending, ClientTick(timed) PROVE Sized'
  <2>1. /\ \A e \in pending' : \E x \in pending : e.frame = x.frame
        /\ \A f \in net' : f \in net \/ \E x \in pending : f = x.frame
    BY <1>5, TickOK
  <2>2. UNCHANGED <<pc, call>>
    BY <1>5 DEF ClientTick
  <2>3. QED BY <1>3, <2>1, <2>2 DEF Busy
<1>6. ASSUME UNCHANGED <<pc, call, net>>,
             \A e \in pending' : \E x \in pending : e.frame = x.frame
      PROVE  Sized'
  BY <1>3, <1>6 DEF Busy
<1>7. ASSUME NEW a \in acks, ClientAck(a) PROVE Sized'
  <2>1. \A e \in pending' : \E x \in pending : e.frame = x.frame
    BY <1>7, ReceiveAckOK DEF ClientAck, TInv, SendTypes
  <2>2. QED BY <1>6, <1>7, <2>1 DEF ClientAck
<1>8. CASE ClientOther \/ ServerSweep \/ UNCHANGED vars
  BY <1>6, <1>8 DEF ClientOther, ServerSweep, vars, svars, sendState
<1>9. ASSUME NEW f \in net, Receive(f), UNCHANGED <<congestion, rpc>> PROVE Sized'
  BY <1>6, <1>9 DEF Receive, sendState
<1>10. QED BY <1>2, <1>4, <1>5, <1>7, <1>8, <1>9 DEF Next

\* The server hands over whole messages only: all fragments, each once,
\* however often and in whatever order they arrive, whichever sessions it
\* discards as stale in between, provided that its reassembler is not shared
\* by channels that use the same packet ids.
THEOREM DeliversWhole ==
    ASSUME OneStream
    PROVE  Spec => []WholeMessages
<1> DEFINE Inv == TInv /\ Sized /\ SessionsOK /\ WholeMessages
<1>1. Init => Inv
  <2> SUFFICES ASSUME Init PROVE Inv
    OBVIOUS
  <2>1. pending = {} /\ net = {} /\ Busy = {} /\ delivered = {}
    BY DEF Init, SInit, Busy
  <2>2. sessions = << >>
    BY DEF Init, SInit, RInit
  <2>3. [m \in Message |-> 0] \in [Message -> Nat]
    OBVIOUS
  <2>4. Agrees([m \in Message |-> 0])
    BY <2>1 DEF Agrees
  <2>5. Sized
    BY <2>3, <2>4 DEF Sized
  <2>6. SessionsOK
    BY <2>2 DEF SessionsOK
  <2>7. QED BY <2>1, <2>5, <2>6, TInit DEF WholeMessages
<1>2. Inv /\ [Next]_vars => Inv'
  <2> SUFFICES ASSUME Inv, [Next]_vars PROVE SessionsOK' /\ WholeMessages'
    BY TStep, SizedStep
  <2>1. net \subseteq Frame
    BY DEF TInv, SendTypes
  <2>2. NetAgrees
    BY DEF Sized, Agrees, NetAgrees
  <2>3. CASE \E f \in net : Receive(f)
    <3>1. PICK f \in net : Accepts(f) /\ net' = net
      BY <2>3 DEF Receive
    <3>2. QED BY <2>1, <2>2, <3>1, WholeStays
  <2>4. CASE UNCHANGED <<sessions, delivered>> /\ net \subseteq net'
    BY <2>4, SessionsStay DEF WholeMessages
  <2>5. CASE ServerSweep
    <3>1. PICK stale : sessions' = Without(stale)
      BY <2>5 DEF ServerSweep, Sweep
    <3>2. UNCHANGED <<net, delivered>>
      BY <2>5 DEF ServerSweep, history
    <3>3. SessionsOK'
      BY <3>1, <3>2, WithoutOK
    <3>4. QED BY <3>2, <3>3 DEF WholeMessages
  <2>6. \/ \E f \in net : Receive(f)
        \/ UNCHANGED <<sessions, delivered>> /\ net \subseteq net'
        \/ ServerSweep
    BY DEF Next, ClientBegin, SubscribeBegin, NextPid, SenderStep, ClientWindow, Admit, WindowFull,
           ClientBuild, BuildFails, Track, ClientTransmit, Transmit, ClientTick, Resend, ClientAck,
           ClientOther, vars, svars, history
  <2>7. QED BY <2>3, <2>4, <2>5, <2>6
<1>3. QED BY <1>1, <1>2, PTL DEF Spec
-----------------------------------------------------------------------------
(* Delivery failure reports.                                               *)

\* krs_ack_tracker_get_retry_frame looks for the packet id only.  It finds
\* the frame that timed out if a packet id belongs to one frame.
OneFramePerPid == Sizes \subseteq {1} /\ \A c, d \in Channels : c = d

\* The retries that an entry counts were made.
RetriesMade ==
    /\ resent \in [FrameKey -> 0 .. MaxRetries]
    /\ \A e \in pending : resent[KeyOf(e.frame)] >= e.retry

RInv == UniqueKeys /\ RetriesMade /\ ReportsBacked({})

LEMMA SizesFinite == OneFramePerPid => IsFiniteSet(Sizes)
BY FS_Singleton, FS_Subset DEF OneFramePerPid

LEMMA SameKey ==
    ASSUME OneFramePerPid, NEW f \in Frame, NEW h \in Frame, f.pid = h.pid
    PROVE  KeyOf(f) = KeyOf(h)
<1>1. f.ch = h.ch
  BY DEF OneFramePerPid, Frame
<1>2. f.frag = 1 /\ h.frag = 1
  BY AckAssumption DEF OneFramePerPid, Frame
<1>3. QED BY <1>1, <1>2 DEF KeyOf, MessageOf

\* Steps that leave resent and reports alone and track nothing new.
LEMMA RStays ==
    ASSUME IsFiniteSet(Sizes), TInv, RInv, UNCHANGED <<resent, reports>>,
           UniqueKeys', \A m \in Message : KeysOf(pending', m) \subseteq KeysOf(pending, m),
           \A e \in pending' : \E x \in pending : e.frame = x.frame /\ e.retry = x.retry,
           \A m \in Message : Unused(m)' => Unused(m)
    PROVE  RInv'
<1>1. RetriesMade'
  BY DEF RInv, RetriesMade
<1>2. \A m \in Message :
          /\ reports'[m] + Cardinality(EntriesOf({}, m)) <= Cardinality(Settled(m)')
          /\ Unused(m)' => reports'[m] = 0 /\ EntriesOf({}, m) = {}
  BY BackedStays, FS_EmptySet DEF RInv, TInv, SendTypes
<1>3. ReportsBacked({})'
  BY <1>2 DEF ReportsBacked, EntriesOf
<1>4. QED BY <1>1, <1>3 DEF RInv

\* A tick reports what it drops and sends again what it keeps.
LEMMA RTick ==
    ASSUME OneFramePerPid, TInv, RInv, RetriesFit, NEW timed \in SUBSET pending, ClientTick(timed)
    PROVE  RInv'
<1>1. /\ SendTypes /\ IdsOK /\ UniqueKeys /\ ReportsBacked({}) /\ IsFiniteSet(Sizes)
      /\ pending \subseteq Entry /\ IsFiniteSet(pending) /\ MaxRetries \in Nat
  BY SizesFinite, AckAssumption DEF TInv, RInv, SendTypes
<1>2. /\ CheckTimeouts(timed) /\ Resend(Resends(timed)) /\ Report(DropRecorded(timed))
      /\ UNCHANGED <<counter, pc, call>>
  BY DEF ClientTick
<1>3. RetryRecorded(timed) = Retried(timed)
  BY <1>1, AllRetried
<1>4. /\ resent' \in [FrameKey -> 0 .. MaxRetries]
      /\ \A k \in FrameKey : resent[k] <= resent'[k]
      /\ \A k \in FrameKey : (\E f \in Resends(timed) : KeyOf(f) = k) =>
             resent'[k] >= MaxRetries \/ resent'[k] = resent[k] + 1
  BY <1>2, ResendOK DEF RInv, RetriesMade
<1>5. ASSUME NEW e \in pending
      PROVE  /\ KeyOf(e.frame) \in FrameKey /\ e.retry \in 0 .. MaxRetries
             /\ resent[KeyOf(e.frame)] \in 0 .. MaxRetries /\ resent[KeyOf(e.frame)] >= e.retry
             /\ resent'[KeyOf(e.frame)] \in 0 .. MaxRetries
             /\ resent'[KeyOf(e.frame)] >= resent[KeyOf(e.frame)]
  <2>1. KeyOf(e.frame) \in FrameKey /\ e.retry \in 0 .. MaxRetries
    BY <1>1, EntryOK, KeyTypes
  <2>2. QED BY <1>4, <2>1 DEF RInv, RetriesMade
<1>6. UniqueKeys'
  BY <1>1, <1>2, ScanKeys
<1>7. RetriesMade'
  <2>1. ASSUME NEW y \in pending' PROVE resent'[KeyOf(y.frame)] >= y.retry
    <3>1. CASE y \in pending
      BY <1>1, <1>5, <3>1
    <3>2. CASE y \notin pending
      <4>1. PICK e \in Retried(timed) : y = [e EXCEPT !.retry = @ + 1, !.after = 0]
        BY <1>2, <3>2 DEF CheckTimeouts
      <4>2. e \in pending /\ e \in Entry /\ ~(e.retry >= MaxRetries)
        BY <1>1, <4>1 DEF Retried, Due, Exhausted
      <4>3. y.frame = e.frame /\ y.retry = e.retry + 1
        BY <4>1, <4>2 DEF Entry
      <4>4. PICK x \in pending : /\ RetryFrame(timed, e.frame.pid) = x.frame
                                 /\ x.frame.pid = e.frame.pid
        BY <1>1, <4>1, RetryFrameOK
      <4>5. KeyOf(x.frame) = KeyOf(e.frame) /\ x.frame \in Resends(timed)
        <5>1. KeyOf(x.frame) = KeyOf(e.frame)
          BY <1>1, <4>2, <4>4, EntryOK, SameKey
        <5>2. QED BY <1>3, <4>1, <4>4, <5>1 DEF Resends
      <4>6. \/ resent'[KeyOf(e.frame)] >= MaxRetries
            \/ resent'[KeyOf(e.frame)] = resent[KeyOf(e.frame)] + 1
        BY <1>4, <1>5, <4>2, <4>5
      <4>7. QED BY <1>1, <1>5, <4>2, <4>3, <4>6
    <3>3. QED BY <3>1, <3>2
  <2>2. QED BY <1>4, <2>1 DEF RetriesMade
<1>8. ASSUME NEW e \in Exhausted(timed) PROVE resent[KeyOf(e.frame)] >= MaxRetries
  <2>1. e \in pending /\ e.retry >= MaxRetries
    BY DEF Exhausted, Due
  <2>2. QED BY <1>1, <1>5, <2>1
<1> DEFINE D == DropRecorded(timed)
<1>9. D \in SUBSET Exhausted(timed)
  BY DEF DropRecorded, LastOf
<1>10. ASSUME NEW m \in Message
       PROVE  /\ reports'[m] + Cardinality(EntriesOf({}, m)) <= Cardinality(Settled(m)')
              /\ Unused(m)' => reports'[m] = 0 /\ EntriesOf({}, m) = {}
  <2>1. reports'[m] = reports[m] + Cardinality(EntriesOf(D, m))
    BY <1>2 DEF Report, EntriesOf
  <2> DEFINE B == Done(m) \ KeysOf(pending', m)
  <2>2. /\ IsFiniteSet(EntriesOf(D, m))
        /\ reports[m] + Cardinality(EntriesOf(D, m)) <= Cardinality(B)
        /\ Unused(m) => reports[m] = 0 /\ EntriesOf(D, m) = {}
    <3> HIDE DEF D
    <3>1. QED BY <1>1, <1>2, <1>8, <1>9, BackedScan
  <2>3. B \subseteq Settled(m)'
    <3>1. ASSUME NEW k \in FrameKey, resent[k] >= MaxRetries PROVE resent'[k] >= MaxRetries
      BY <1>1, <1>4, <3>1 DEF RInv, RetriesMade
    <3>2. QED BY <3>1 DEF Settled, Done, KeysOf, EntriesOf
  <2>4. IsFiniteSet(Settled(m)')
    <3>1. Settled(m)' \subseteq {k \in FrameKey : k[1] = m}
      BY DEF Settled, Done
    <3>2. QED BY <1>1, <3>1, KeysFinite, FS_Subset
  <2> HIDE DEF B, D
  <2>5. Cardinality(B) <= Cardinality(Settled(m)') /\ IsFiniteSet(B)
    BY <2>3, <2>4, FS_Subset
  <2>6. EntriesOf({}, m) = {} /\ Cardinality({}) = 0
    BY FS_EmptySet DEF EntriesOf
  <2>7. /\ Cardinality(B) \in Nat /\ Cardinality(Settled(m)') \in Nat
        /\ Cardinality(EntriesOf(D, m)) \in Nat /\ reports[m] \in Nat
    BY <1>1, <2>2, <2>4, <2>5, FS_CardinalityType DEF SendTypes
  <2>8. Cardinality(EntriesOf({}, m)) = 0
    BY <2>6
  <2>9. reports'[m] + Cardinality(EntriesOf({}, m)) <= Cardinality(Settled(m)')
    BY <2>1, <2>2, <2>5, <2>7, <2>8
  <2>10. Unused(m)' => Unused(m)
    BY <1>2, UnusedStays DEF Begun
  <2>11. ASSUME Unused(m) PROVE reports'[m] = 0
    <3>1. reports[m] = 0 /\ Cardinality(EntriesOf(D, m)) = 0
      BY <2>2, <2>6, <2>11
    <3>2. QED BY <2>1, <3>1
  <2>12. QED BY <2>6, <2>9, <2>10, <2>11
<1>11. ReportsBacked({})'
  BY <1>10 DEF ReportsBacked, EntriesOf
<1>12. QED BY <1>6, <1>7, <1>11 DEF RInv

LEMMA RStep ==
    ASSUME OneFramePerPid, TInv, RInv, RetriesFit, [Next]_vars
    PROVE  RInv'
<1>1. /\ SendTypes /\ IdsOK /\ UniqueKeys /\ ReportsBacked({}) /\ IsFiniteSet(Sizes)
      /\ pending \subseteq Entry /\ IsFiniteSet(pending)
  BY SizesFinite DEF TInv, RInv, SendTypes
<1>2. ASSUME UNCHANGED <<resent, reports, pending>>, \A m \in Message : Unused(m)' => Unused(m)
      PROVE  RInv'
  <2>1. UniqueKeys' /\ \A m \in Message : KeysOf(pending', m) \subseteq KeysOf(pending, m)
    BY <1>1, <1>2 DEF UniqueKeys, KeysOf, EntriesOf
  <2>2. QED BY <1>1, <1>2, <2>1, RStays
<1>3. ASSUME UNCHANGED <<resent, reports, pending, counter>>,
             \A u \in Begun' : u \in Begun /\ call'[u] = call[u]
      PROVE  RInv'
  BY <1>2, <1>3, UnusedStays
<1>4. ASSUME NEW t \in Threads,
             \/ \E c \in Channels, n \in Sizes, ack \in Modes : ClientBegin(t, c, n, ack)
             \/ SubscribeBegin(t)
      PROVE  RInv'
  <2>1. PICK c \in Channels, n \in Sizes, ack \in BOOLEAN, next \in {"window", "build"} :
           NextPid(t, c, n, ack, next)
    BY <1>4, BeginOK
  <2>2. \A m \in Message : Unused(m)' => Unused(m)
    BY <1>1, <2>1, UnusedNextPid
  <2>3. QED BY <1>2, <2>1, <2>2 DEF NextPid, history
<1>5. ASSUME NEW t \in Threads, SenderStep(t) PROVE RInv'
  <2>1. UNCHANGED <<counter, resent, reports>>
    BY <1>5 DEF SenderStep, ClientWindow, Admit, WindowFull, ClientBuild, BuildFails, Track,
                ClientTransmit, Transmit, history
  <2>2. CASE Admit(t)
    <3>1. \A u \in Begun' : u \in Begun /\ call'[u] = call[u]
      BY <1>1, <2>2 DEF Admit, Begun, SendTypes
    <3>2. QED BY <1>3, <2>1, <2>2, <3>1 DEF Admit
  <2>3. CASE WindowFull(t) \/ BuildFails(t) \/ Transmit(t)
    <3>1. Return(t) /\ UNCHANGED pending
      BY <2>3 DEF WindowFull, BuildFails, Transmit
    <3>2. \A u \in Begun' : u \in Begun /\ call'[u] = call[u]
      BY <1>1, <3>1, ReturnOK DEF Begun
    <3>3. QED BY <1>3, <2>1, <3>1, <3>2
  <2>4. CASE Track(t)
    <3>1. UniqueKeys' /\ ReportsBacked({})' /\ \A e \in pending' \ pending : e.retry = 0
      BY <1>1, <2>4, BackedTrack
    <3>2. \A e \in pending' : e.frame \in Frame
      BY <1>1, <2>4, TrackOK, EntryOK DEF SendTypes
    <3>3. ASSUME NEW e \in pending' PROVE resent[KeyOf(e.frame)] >= e.retry
      <4>1. CASE e \in pending
        BY <4>1 DEF RInv, RetriesMade
      <4>2. CASE e \notin pending
        <5>1. e.retry = 0 /\ KeyOf(e.frame) \in FrameKey
          BY <3>1, <3>2, <4>2, KeyTypes
        <5>2. resent[KeyOf(e.frame)] \in 0 .. MaxRetries
          BY <5>1 DEF RInv, RetriesMade
        <5>3. QED BY <5>1, <5>2
      <4>3. QED BY <4>1, <4>2
    <3>4. RetriesMade'
      BY <2>1, <3>3 DEF RInv, RetriesMade
    <3>5. QED BY <3>1, <3>4 DEF RInv
  <2>5. QED BY <1>5, <2>2, <2>3, <2>4 DEF SenderStep, ClientWindow, ClientBuild, ClientTransmit
<1>6. ASSUME NEW timed \in SUBSET pending, ClientTick(timed) PROVE RInv'
  BY <1>6, RTick
<1>7. ASSUME NEW a \in acks, ClientAck(a) PROVE RInv'
  <2>1. UNCHANGED <<counter, pc, call, resent, reports>> /\ ReceiveAck(a[1], a[2])
    BY <1>7 DEF ClientAck, history
  <2>2. UniqueKeys' /\ \A m \in Message : KeysOf(pending', m) \subseteq KeysOf(pending, m)
    BY <1>1, <2>1, AckKeys
  <2>3. \A e \in pending' : \E x \in pending : e.frame = x.frame /\ e.retry = x.retry
    BY <1>1, <2>1, ReceiveAckOK
  <2>4. \A m \in Message : Unused(m)' => Unused(m)
    BY <2>1, UnusedStays DEF Begun
  <2>5. QED BY <1>1, <2>1, <2>2, <2>3, <2>4, RStays
<1>8. CASE ClientOther \/ ServerSweep \/ UNCHANGED vars
  BY <1>3, <1>8 DEF ClientOther, ServerSweep, vars, svars, sendState, history, Begun
<1>9. ASSUME NEW f \in net, Receive(f), UNCHANGED <<congestion, rpc>> PROVE RInv'
  BY <1>3, <1>9 DEF Receive, sendState, Begun
<1>10. QED BY <1>4, <1>5, <1>6, <1>7, <1>8, <1>9 DEF Next

\* Every delivery failure report stands for a frame of its message that the
\* client sent again MaxRetries times, and no two reports for the same frame:
\* provided that no message is fragmented, that the connection uses one
\* channel, and that no tick finds more entries to retry than the client's
\* array holds.  Otherwise the client may send another frame again.
THEOREM ReportsHonest ==
    ASSUME OneFramePerPid
    PROVE  Spec /\ []RetriesFit => []RetriedBeforeReport
<1> DEFINE Inv == TInv /\ RInv
<1>1. IsFiniteSet(Sizes) /\ IsFiniteSet({})
  BY SizesFinite, FS_EmptySet
<1>2. Init => Inv
  <2> SUFFICES ASSUME Init PROVE RInv
    BY TInit
  <2>1. /\ pending = {} /\ resent = [k \in FrameKey |-> 0]
        /\ reports = [m \in Message |-> 0]
    BY DEF Init, SInit
  <2>2. UniqueKeys
    BY <2>1 DEF UniqueKeys
  <2>3. RetriesMade
    BY <2>1, AckAssumption DEF RetriesMade
  <2>4. ASSUME NEW m \in Message
        PROVE  /\ reports[m] + Cardinality(EntriesOf({}, m)) <= Cardinality(Settled(m))
               /\ Unused(m) => reports[m] = 0 /\ EntriesOf({}, m) = {}
    <3>1. EntriesOf({}, m) = {} /\ Cardinality({}) = 0 /\ reports[m] = 0
      BY <2>1, FS_EmptySet DEF EntriesOf
    <3>2. Cardinality(Settled(m)) \in Nat
      BY <1>1, SettledFinite, FS_CardinalityType
    <3>3. QED BY <3>1, <3>2
  <2>5. QED BY <2>2, <2>3, <2>4 DEF RInv, ReportsBacked
<1>3. Inv /\ RetriesFit /\ [Next]_vars => Inv'
  BY TStep, RStep
<1>4. Inv => RetriedBeforeReport
  BY <1>1, BackedEnough DEF TInv, SendTypes, RInv
<1>5. QED BY <1>2, <1>3, <1>4, PTL DEF Spec
=============================================================================
