------------------------- MODULE ReliableSendProofs -------------------------
(***************************************************************************)
(* Facts about the reliable sends of both sides, for every set of          *)
(* channels, sizes and threads and every limit: what the tracker's         *)
(* operations do to the set of tracked messages, how packet ids stay       *)
(* unique, what the in-flight count covers, and what a reassembler         *)
(* session holds.  ServerSendProofs and ClientSendProofs build their       *)
(* inductive invariants from these parts.                                  *)
(***************************************************************************)
EXTENDS ReliableSend, FiniteSetTheorems, TLAPS

Call == [ch : Channels, pid : Pid, total : Sizes, ack : BOOLEAN]

Busy == {t \in Threads : pc[t] # "idle"}

\* A thread has called krs_packet_counter_next and tracks nothing yet.
Begun == {t \in Threads : pc[t] \in {"window", "build"}}

\* Types, and that everything is finite that grows.
SendTypes ==
    /\ pending \subseteq Entry /\ IsFiniteSet(pending)
    /\ CCTypeOK
    /\ counter \in [Channels -> 0 .. MaxPid]
    /\ pc \in [Threads -> {"idle", "window", "build", "send"}]
    /\ call \in [Threads -> Call \cup {NoCall}]
    /\ \A t \in Busy : call[t] \in Call
    /\ \A t \in Threads : pc[t] \in {"window", "send"} => call[t].ack
    /\ net \subseteq Frame
    /\ acks \subseteq Message
    /\ accepted \subseteq Message
    /\ reports \in [Message -> Nat]

\* No packet id is beyond its counter, so that the next one is new; two
\* calls never have the same, and a call that tracks nothing yet has one that
\* no tracked frame has.
IdsOK ==
    /\ \A t \in Busy : call[t].pid <= counter[call[t].ch]
    /\ \A e \in pending : e.frame.pid <= counter[e.frame.ch]
    /\ \A f \in net : f.pid <= counter[f.ch]
    /\ \A t, u \in Busy : MessageOf(call[t]) = MessageOf(call[u]) => t = u
    /\ \A t \in Begun : ~Tracked(call[t].ch, call[t].pid)

\* Only whole messages are acknowledged.
AcksDelivered == \A a \in acks : IsDelivered(a)

\* The messages a thread has been admitted for and that are not tracked yet,
\* and with those that are.
Admitted == {t \in Threads : pc[t] = "build" /\ call[t].ack}
Covered ==
    {m \in Message : Tracked(m[1], m[2])} \cup {MessageOf(call[t]) : t \in Admitted}

\* The frames of a message agree on the number of its fragments: there is an
\* assignment of sizes to messages that they all follow.
Agrees(size) ==
    /\ \A t \in Busy : call[t].total = size[MessageOf(call[t])]
    /\ \A e \in pending : e.frame.total = size[MessageOf(e.frame)]
    /\ \A f \in net : f.total = size[MessageOf(f)]

\* A reassembler's key tells messages apart: it is per channel, or there is
\* one channel only.
OneStream == PerChannel \/ \A c, d \in Channels : c = d

\* A session holds different fragments of one message and counts them.
Holds(s, k) ==
    /\ s \in [total : Sizes, received : Nat, ack : BOOLEAN, pieces : SUBSET net]
    /\ IsFiniteSet(s.pieces) /\ s.received = Cardinality(s.pieces)
    /\ \A p \in s.pieces : Key(p) = k /\ p.total = s.total
    /\ \A p, q \in s.pieces : p.frag = q.frag => p = q

SessionsOK ==
    /\ sessions = [k \in DOMAIN sessions |-> sessions[k]]
    /\ \A k \in DOMAIN sessions : Holds(sessions[k], k) /\ sessions[k].pieces # {}

\* The frames of a message that were sent agree on its size.
NetAgrees == \A p, q \in net : MessageOf(p) = MessageOf(q) => p.total = q.total
-----------------------------------------------------------------------------
(* Sets of numbers, finite sets and their images.                          *)

\* A set of natural numbers that is not empty has a least element.
LEMMA LeastNatural ==
    ASSUME NEW T, T \subseteq Nat, T # {}
    PROVE  \E n \in T : \A k \in T : n <= k
<1> DEFINE R == {ss \in Nat \X Nat : ss[1] < ss[2]}
<1>1. IsWellFoundedOn(R, Nat)
  BY NatLessThanWellFounded DEF OpToRel
<1>2. \A x, y \in Nat : y < x => <<y, x>> \in R
  OBVIOUS
<1> HIDE DEF R
<1>3. PICK n \in T : \A k \in T : ~(<<k, n>> \in R)
  BY <1>1, WFMin
<1>4. ASSUME NEW k \in T PROVE n <= k
  <2>1. n \in Nat /\ k \in Nat
    OBVIOUS
  <2>2. ~(k < n)
    BY <1>2, <1>3, <2>1
  <2>3. QED BY <2>1, <2>2
<1>5. QED BY <1>4

\* A finite set of natural numbers that is not empty has a greatest one: in
\* a smallest set without, the greatest of the others or the one left out
\* would be it.
LEMMA GreatestNatural ==
    ASSUME NEW T, T \subseteq Nat, IsFiniteSet(T), T # {}
    PROVE  \E n \in T : \A k \in T : k <= n
<1> DEFINE HasMax(U) == \E n \in U : \A k \in U : k <= n
           Bad(U) == U \subseteq Nat /\ IsFiniteSet(U) /\ U # {} /\ ~HasMax(U)
           B == {i \in Nat : \E U \in SUBSET Nat : Bad(U) /\ Cardinality(U) = i}
<1>1. SUFFICES ASSUME ~HasMax(T) PROVE FALSE
  OBVIOUS
<1>2. Cardinality(T) \in B
  BY <1>1, FS_CardinalityType
<1>3. PICK i \in B : \A j \in B : i <= j
  BY <1>2, LeastNatural
<1>4. PICK U \in SUBSET Nat : Bad(U) /\ Cardinality(U) = i
  BY <1>3
<1>5. PICK x \in U : TRUE
  BY <1>4
<1> DEFINE V == U \ {x}
<1>6. IsFiniteSet(V) /\ Cardinality(V) = i - 1 /\ Cardinality(V) \in Nat
  BY <1>4, <1>5, FS_RemoveElement, FS_CardinalityType
<1>7. i - 1 \notin B
  BY <1>3
<1>8. CASE V = {}
  <2>1. U = {x} /\ x \in Nat
    BY <1>4, <1>5, <1>8
  <2>2. HasMax(U)
    BY <2>1
  <2>3. QED BY <1>4, <2>2
<1>9. CASE V # {}
  <2>1. ~Bad(V)
    BY <1>6, <1>7
  <2>2. HasMax(V)
    BY <1>4, <1>6, <1>9, <2>1
  <2>3. PICK y \in V : \A k \in V : k <= y
    BY <2>2
  <2>4. x \in Nat /\ y \in Nat /\ \A k \in U : k \in Nat
    BY <1>4, <1>5
  <2>5. CASE x <= y
    BY <1>4, <2>3, <2>4, <2>5
  <2>6. CASE ~(x <= y)
    <3>1. \A k \in U : k <= x
      BY <2>3, <2>4, <2>6
    <3>2. QED BY <1>4, <1>5, <3>1
  <2>7. QED BY <2>5, <2>6
<1>10. QED BY <1>8, <1>9

\* The set of values of a function on a finite set is finite.
LEMMA FiniteValues ==
    ASSUME NEW S, IsFiniteSet(S), NEW g, DOMAIN g = S
    PROVE  IsFiniteSet({g[x] : x \in S}) /\ Cardinality({g[x] : x \in S}) <= Cardinality(S)
<1> DEFINE T == {g[x] : x \in S}
           h == [x \in S |-> g[x]]
<1>1. h \in [S -> T] /\ \A t \in T : \E x \in S : h[x] = t
  OBVIOUS
<1>2. h \in Surjection(S, T)
  BY <1>1 DEF Surjection
<1> HIDE DEF T, h
<1>3. IsFiniteSet(T) /\ Cardinality(T) <= Cardinality(S)
  BY <1>2, FS_Surjection
<1>4. QED BY <1>3 DEF T
-----------------------------------------------------------------------------
(* The tracker's operations (ack_tracker.c).                               *)

\* What an entry is.
LEMMA EntryOK ==
    ASSUME NEW e \in Entry
    PROVE  /\ e.frame \in Frame /\ e.at \in Nat \ {0}
           /\ e.retry \in 0 .. MaxRetries /\ e.after \in 0 .. Threshold
           /\ MessageOf(e.frame) \in Message
BY DEF Entry, Frame, MessageOf, Message

\* The end of the array is past all entries.
LEMMA EndOK ==
    ASSUME pending \subseteq Entry, IsFiniteSet(pending)
    PROVE  End \in Nat /\ \A e \in pending : e.at <= End
<1> DEFINE T == {e.at : e \in pending}
           g == [e \in pending |-> e.at]
<1>1. \A e \in pending : e.at \in Nat
  BY EntryOK
<1>2. T = {g[e] : e \in pending}
  OBVIOUS
<1>3. DOMAIN g = pending
  OBVIOUS
<1> HIDE DEF g
<1>4. IsFiniteSet(T)
  <2>1. IsFiniteSet({g[e] : e \in pending})
    BY <1>3, FiniteValues
  <2> HIDE DEF T
  <2>2. QED BY <1>2, <2>1
<1>5. \E n \in {0} \cup T : \A e \in pending : e.at <= n
  <2>1. CASE pending = {}
    BY <2>1
  <2>2. CASE pending # {}
    <3>1. T # {} /\ T \subseteq Nat
      BY <1>1, <2>2
    <3>2. PICK n \in T : \A k \in T : k <= n
      BY <1>4, <3>1, GreatestNatural
    <3>3. QED BY <3>2
  <2>3. QED BY <2>1, <2>2
<1>6. End \in {0} \cup T /\ \A e \in pending : e.at <= End
  BY <1>5 DEF End
<1>7. QED BY <1>1, <1>6

\* The frames of a call: finitely many and at least one, all of the message.
LEMMA FramesOfOK ==
    ASSUME NEW c \in Call
    PROVE  /\ FramesOf(c) \subseteq Frame
           /\ FramesOf(c) # {}
           /\ IsFiniteSet(FramesOf(c))
           /\ \A f \in FramesOf(c) :
                 /\ f.ch = c.ch /\ f.pid = c.pid /\ f.total = c.total /\ f.ack = c.ack
                 /\ f.frag \in Nat \ {0}
                 /\ MessageOf(f) = MessageOf(c)
           /\ MessageOf(c) \in Message
<1>1. /\ c.ch \in Channels /\ c.pid \in Pid /\ c.total \in Sizes /\ c.ack \in BOOLEAN
      /\ c.total \in Nat \ {0}
  BY AckAssumption DEF Call
<1> DEFINE F(i) == [ch |-> c.ch, pid |-> c.pid, frag |-> i, total |-> c.total, ack |-> c.ack]
           g == [i \in 1 .. c.total |-> F(i)]
<1>2. FramesOf(c) = {g[i] : i \in 1 .. c.total}
  BY DEF FramesOf
<1>3. IsFiniteSet(1 .. c.total)
  BY <1>1, FS_Interval
<1>4. IsFiniteSet(FramesOf(c))
  <2>1. DOMAIN g = 1 .. c.total
    OBVIOUS
  <2> HIDE DEF g
  <2>2. IsFiniteSet({g[i] : i \in 1 .. c.total})
    BY <1>3, <2>1, FiniteValues
  <2>3. QED BY <1>2, <2>2
<1>5. \A i \in 1 .. c.total : i \in UNION {1 .. n : n \in Sizes}
  BY <1>1
<1>6. ASSUME NEW i \in 1 .. c.total PROVE F(i) \in Frame
  <2>1. F(i) \in [ch : Channels, pid : Pid, frag : UNION {1 .. n : n \in Sizes},
                  total : Sizes, ack : BOOLEAN]
    BY <1>1, <1>5
  <2>2. F(i).frag <= F(i).total
    BY <1>1
  <2>3. QED BY <2>1, <2>2 DEF Frame
<1>7. FramesOf(c) \subseteq Frame
  BY <1>6 DEF FramesOf
<1>8. FramesOf(c) # {}
  BY <1>1, 1 \in 1 .. c.total DEF FramesOf
<1>9. \A f \in FramesOf(c) :
         /\ f.ch = c.ch /\ f.pid = c.pid /\ f.total = c.total /\ f.ack = c.ack
         /\ f.frag \in Nat \ {0} /\ MessageOf(f) = MessageOf(c)
  BY DEF FramesOf, MessageOf
<1>10. MessageOf(c) \in Message
  BY <1>1 DEF MessageOf, Message
<1>11. QED BY <1>4, <1>7, <1>8, <1>9, <1>10

\* krs_ack_tracker_expect adds an entry for each frame that is kept, and
\* leaves the others alone.
LEMMA ExpectOK ==
    ASSUME pending \subseteq Entry, IsFiniteSet(pending), NEW c \in Call,
           NEW kept \in SUBSET FramesOf(c), Expect(kept)
    PROVE  /\ pending' \subseteq Entry /\ IsFiniteSet(pending')
           /\ pending \subseteq pending'
           /\ \A e \in pending' \ pending : e.frame \in kept
           /\ \A f \in kept : \E e \in pending' : e.frame = f
<1> DEFINE N(f) == [frame |-> f, at |-> End + f.frag, retry |-> 0, after |-> 0]
           g == [f \in kept |-> N(f)]
<1>1. pending' = pending \cup {g[f] : f \in kept}
  BY DEF Expect
<1>2. ASSUME NEW f \in kept PROVE N(f) \in Entry /\ N(f).frame = f
  <2>1. f \in Frame /\ f.frag \in Nat \ {0}
    BY FramesOfOK
  <2>2. End + f.frag \in Nat \ {0}
    BY <2>1, EndOK
  <2>3. 0 \in 0 .. MaxRetries /\ 0 \in 0 .. Threshold
    BY AckAssumption
  <2>4. QED BY <2>1, <2>2, <2>3 DEF Entry
<1>3. IsFiniteSet({g[f] : f \in kept})
  <2>1. IsFiniteSet(kept)
    BY FramesOfOK, FS_Subset
  <2>2. DOMAIN g = kept
    OBVIOUS
  <2> HIDE DEF g
  <2>3. QED BY <2>1, <2>2, FiniteValues
<1>4. IsFiniteSet(pending')
  BY <1>1, <1>3, FS_Union
<1>5. QED BY <1>1, <1>2, <1>4

\* krs_ack_tracker_receive_rtt takes the entries of the message out, and
\* keeps the frames of all others.
LEMMA ReceiveAckOK ==
    ASSUME pending \subseteq Entry, IsFiniteSet(pending), NEW ch, NEW pid, ReceiveAck(ch, pid)
    PROVE  /\ pending' \subseteq Entry /\ IsFiniteSet(pending')
           /\ \A e \in pending' : \E x \in pending :
                  ~IsOf(x, ch, pid) /\ e.frame = x.frame /\ e.at = x.at /\ e.retry = x.retry
           /\ \A x \in pending : ~IsOf(x, ch, pid) => \E e \in pending' : e.frame = x.frame
<1> DEFINE S == {x \in pending : ~IsOf(x, ch, pid)}
           g == [x \in S |-> Observed(x, ch, pid)]
<1>1. pending' = {g[x] : x \in S}
  BY DEF ReceiveAck
<1>2. IsFiniteSet(pending')
  <2>1. IsFiniteSet(S) /\ DOMAIN g = S
    BY FS_Subset
  <2> HIDE DEF g, S
  <2>2. QED BY <1>1, <2>1, FiniteValues
<1>3. ASSUME NEW x \in pending
      PROVE  LET o == Observed(x, ch, pid)
             IN  o \in Entry /\ o.frame = x.frame /\ o.at = x.at /\ o.retry = x.retry
  <2>1. x \in Entry
    OBVIOUS
  <2>2. x.after < Threshold => x.after + 1 \in 0 .. Threshold
    BY <2>1, AckAssumption DEF Entry
  <2>3. QED BY <2>1, <2>2 DEF Observed, Entry
<1>4. QED BY <1>1, <1>2, <1>3

\* krs_ack_tracker_check_timeouts: what stays has the frame it had, and what
\* leaves has used up its retries.
LEMMA CheckTimeoutsOK ==
    ASSUME pending \subseteq Entry, IsFiniteSet(pending), NEW timed \in SUBSET pending,
           CheckTimeouts(timed)
    PROVE  /\ pending' \subseteq Entry /\ IsFiniteSet(pending')
           /\ \A e \in pending' : \E x \in pending : e.frame = x.frame
           /\ \A x \in pending : x \in Exhausted(timed) \/ \E e \in pending' : e.frame = x.frame
<1> DEFINE R == Retried(timed)
           g == [e \in R |-> [e EXCEPT !.retry = @ + 1, !.after = 0]]
<1>1. pending' = (pending \ Due(timed)) \cup {g[e] : e \in R}
  BY DEF CheckTimeouts
<1>2. /\ R \subseteq pending /\ Due(timed) \subseteq pending
      /\ \A e \in R : ~(e.retry >= MaxRetries)
      /\ Due(timed) = R \cup Exhausted(timed)
  BY DEF Retried, Due, Exhausted
<1> HIDE DEF R
<1>3. IsFiniteSet(pending')
  <2>1. IsFiniteSet(R) /\ DOMAIN g = R
    BY <1>2, FS_Subset
  <2>2. IsFiniteSet({g[e] : e \in R})
    <3> HIDE DEF g
    <3>1. QED BY <2>1, FiniteValues
  <2>3. IsFiniteSet(pending \ Due(timed))
    BY FS_Subset
  <2>4. QED BY <1>1, <2>2, <2>3, FS_Union
<1>4. ASSUME NEW e \in R PROVE g[e] \in Entry /\ g[e].frame = e.frame
  <2>1. e \in Entry
    BY <1>2
  <2>2. e.retry + 1 \in 0 .. MaxRetries /\ 0 \in 0 .. Threshold
    BY <1>2, <2>1, AckAssumption DEF Entry
  <2>3. QED BY <2>1, <2>2 DEF Entry
<1> HIDE DEF g
<1>5. QED BY <1>1, <1>2, <1>3, <1>4

\* A scan that finds no more than fit into the caller's array records all.
LEMMA LastOfAll ==
    ASSUME NEW S, S \subseteq Entry, IsFiniteSet(S), NEW k \in Nat, Cardinality(S) <= k
    PROVE  LastOf(S, k) = S
<1>1. ASSUME NEW e \in S PROVE Cardinality({x \in S : x.at > e.at}) < k
  <2> DEFINE L == {x \in S : x.at > e.at}
  <2>1. e.at \in Nat
    BY EntryOK
  <2>2. L \subseteq S \ {e}
    BY <2>1
  <2>3. IsFiniteSet(S \ {e}) /\ Cardinality(S \ {e}) = Cardinality(S) - 1
    BY FS_RemoveElement
  <2> HIDE DEF L
  <2>4. Cardinality(L) <= Cardinality(S \ {e}) /\ Cardinality(L) \in Nat
    BY <2>2, <2>3, FS_Subset, FS_CardinalityType
  <2>5. Cardinality(S) \in Nat
    BY FS_CardinalityType
  <2>6. Cardinality(L) < k
    BY <2>3, <2>4, <2>5
  <2>7. QED BY <2>6 DEF L
<1>2. QED BY <1>1 DEF LastOf

\* A scan never finds more exhausted entries than the caller's array has room
\* for; what does not fit is dropped unreported.
DropsFit == Cardinality({e \in pending : e.retry >= MaxRetries}) <= DropCap

LEMMA AllRecorded ==
    ASSUME pending \subseteq Entry, IsFiniteSet(pending), DropsFit, NEW timed \in SUBSET pending
    PROVE  DropRecorded(timed) = Exhausted(timed)
<1> DEFINE X == {e \in pending : e.retry >= MaxRetries}
           E == Exhausted(timed)
<1>1. E \subseteq X /\ X \subseteq pending
  BY DEF Exhausted, Due
<1>2. DropCap \in Nat /\ Cardinality(X) <= DropCap
  BY AckAssumption DEF DropsFit
<1> HIDE DEF E, X
<1>3. IsFiniteSet(X) /\ IsFiniteSet(E) /\ Cardinality(E) <= Cardinality(X)
  BY <1>1, FS_Subset
<1>4. Cardinality(E) \in Nat /\ Cardinality(X) \in Nat
  BY <1>3, FS_CardinalityType
<1>5. Cardinality(E) <= DropCap
  BY <1>2, <1>3, <1>4
<1>6. E \subseteq Entry
  BY <1>1
<1>7. LastOf(E, DropCap) = E
  BY <1>2, <1>3, <1>5, <1>6, LastOfAll
<1>8. QED BY <1>7 DEF DropRecorded, E

\* A message with a tracked entry is tracked.
LEMMA TrackedOK ==
    ASSUME pending \subseteq Entry, NEW e \in pending
    PROVE  /\ MessageOf(e.frame) \in Message
           /\ Tracked(MessageOf(e.frame)[1], MessageOf(e.frame)[2])
BY EntryOK DEF Tracked, IsOf, MessageOf
-----------------------------------------------------------------------------
(* The congestion controller (congestion_controller.c).                    *)

LEMMA OnSendOK ==
    ASSUME CCTypeOK, OnSend
    PROVE  CCTypeOK' /\ in_flight' = in_flight + 1
BY DEF CCTypeOK, OnSend

LEMMA OnAckOK ==
    ASSUME CCTypeOK, OnAck
    PROVE  CCTypeOK' /\ in_flight' >= in_flight - 1
<1>1. in_flight' \in Nat /\ in_flight' >= in_flight - 1
  BY DEF CCTypeOK, OnAck
<1>2. cwnd' \in Nat \ {0}
  BY DEF CCTypeOK, OnAck
<1>3. phase' \in {"slow_start", "avoidance"} /\ ssthresh' \in Nat \ {0}
  BY DEF CCTypeOK, OnAck
<1>4. QED BY <1>1, <1>2, <1>3 DEF CCTypeOK

LEMMA LossOK ==
    ASSUME CCTypeOK, OnTimeoutLoss \/ OnFastLoss
    PROVE  CCTypeOK' /\ in_flight' = in_flight
<1>1. Halved \in Nat \ {0}
  BY DEF CCTypeOK, Halved
<1>2. QED BY <1>1 DEF CCTypeOK, OnTimeoutLoss, OnFastLoss
-----------------------------------------------------------------------------
(* Types and packet ids.                                                   *)

LEMMA SendInit ==
    ASSUME SInit
    PROVE  SendTypes /\ IdsOK /\ AcksDelivered
<1>1. IsFiniteSet({})
  BY FS_EmptySet
<1>2. SendTypes
  BY <1>1, CongestionAssumption, AckAssumption
     DEF SInit, SendTypes, CCInit, CCTypeOK, Busy, NoCall
<1>3. Busy = {} /\ Begun = {}
  BY DEF SInit, Busy, Begun
<1>4. QED BY <1>2, <1>3 DEF SInit, IdsOK, AcksDelivered

\* krs_packet_counter_next: the new packet id is beyond all that were used.
LEMMA NextPidOK ==
    ASSUME SendTypes, IdsOK, NEW t \in Threads, NEW c \in Channels, NEW n \in Sizes,
           NEW ack \in BOOLEAN, NEW next \in {"window", "build"}, next = "window" => ack,
           NextPid(t, c, n, ack, next)
    PROVE  /\ SendTypes' /\ IdsOK'
           /\ counter[c] + 1 \in Pid
           /\ call'[t] \in Call /\ MessageOf(call'[t]) = <<c, counter[c] + 1>>
<1> DEFINE new == [ch |-> c, pid |-> counter[c] + 1, total |-> n, ack |-> ack]
<1>1. counter[c] \in 0 .. MaxPid /\ counter[c] < MaxPid /\ MaxPid \in Nat
  BY AckAssumption DEF SendTypes, NextPid
<1>2. counter[c] + 1 \in Pid /\ counter[c] + 1 \in 0 .. MaxPid
  BY <1>1 DEF Pid
<1>3. new \in Call
  BY <1>2 DEF Call
<1>4. call' = [call EXCEPT ![t] = new] /\ pc' = [pc EXCEPT ![t] = next]
  BY DEF NextPid
<1>5. /\ \A u \in Threads : u # t => call'[u] = call[u] /\ pc'[u] = pc[u]
      /\ call'[t] = new /\ pc'[t] = next
  BY <1>4 DEF SendTypes
<1>6. /\ \A d \in Channels : counter[d] <= counter'[d]
      /\ counter'[c] = counter[c] + 1
      /\ counter' \in [Channels -> 0 .. MaxPid]
  BY <1>2 DEF SendTypes, NextPid
<1>7. Busy' = Busy \cup {t} /\ t \notin Busy /\ Busy \subseteq Threads
  BY <1>5 DEF Busy, NextPid
<1>8. SendTypes'
  <2>1. call' \in [Threads -> Call \cup {NoCall}]
    BY <1>3, <1>4 DEF SendTypes
  <2>2. pc' \in [Threads -> {"idle", "window", "build", "send"}]
    BY <1>4 DEF SendTypes
  <2>3. \A u \in Busy' : call'[u] \in Call
    BY <1>3, <1>5, <1>7 DEF SendTypes
  <2>4. \A u \in Threads : pc'[u] \in {"window", "send"} => call'[u].ack
    BY <1>5 DEF SendTypes
  <2>5. CCTypeOK'
    BY DEF SendTypes, CCTypeOK, NextPid, ccvars
  <2>6. QED BY <1>6, <2>1, <2>2, <2>3, <2>4, <2>5 DEF SendTypes, NextPid, history
<1>9. IdsOK'
  <2>1. UNCHANGED <<pending, net>>
    BY DEF NextPid
  <2>2. ASSUME NEW f \in Frame, f.pid <= counter[f.ch]
        PROVE  f.pid <= counter'[f.ch] /\ <<f.ch, f.pid>> # <<c, counter[c] + 1>>
    BY <1>1, <1>6, <2>2 DEF Frame, SendTypes, Pid
  <2>3. ASSUME NEW u \in Busy
        PROVE  /\ call'[u] = call[u]
               /\ call'[u].pid <= counter'[call'[u].ch]
               /\ MessageOf(call'[u]) # <<c, counter[c] + 1>>
    <3>1. call[u] \in Call /\ call[u].pid <= counter[call[u].ch] /\ call'[u] = call[u]
      BY <1>5, <1>7 DEF SendTypes, IdsOK
    <3>2. QED BY <1>1, <1>6, <3>1 DEF Call, SendTypes, MessageOf, Pid
  <2>4. \A u \in Busy' : call'[u].pid <= counter'[call'[u].ch]
    BY <1>1, <1>5, <1>6, <1>7, <2>3
  <2>5. \A u, v \in Busy' : MessageOf(call'[u]) = MessageOf(call'[v]) => u = v
    BY <1>5, <1>7, <2>3 DEF IdsOK, MessageOf
  <2>6. /\ \A e \in pending' : e.frame.pid <= counter'[e.frame.ch]
        /\ \A f \in net' : f.pid <= counter'[f.ch]
    BY <2>1, <2>2, EntryOK DEF SendTypes, IdsOK
  <2>7. ~\E e \in pending : IsOf(e, c, counter[c] + 1)
    BY <2>2, EntryOK DEF SendTypes, IdsOK, IsOf
  <2>8. \A u \in Begun' : ~\E e \in pending' : IsOf(e, call'[u].ch, call'[u].pid)
    BY <1>5, <1>7, <2>1, <2>3, <2>7 DEF Begun, Busy, IdsOK, Tracked
  <2>9. QED BY <2>4, <2>5, <2>6, <2>8 DEF IdsOK, Tracked
<1>10. QED BY <1>2, <1>3, <1>5, <1>8, <1>9 DEF MessageOf

\* A send that returns leaves the other threads' calls alone.
LEMMA ReturnOK ==
    ASSUME SendTypes, IdsOK, NEW t \in Threads, Return(t)
    PROVE  /\ Busy' = Busy \ {t} /\ Begun' = Begun \ {t}
           /\ \A u \in Threads : u # t => call'[u] = call[u] /\ pc'[u] = pc[u]
           /\ pc'[t] = "idle"
           /\ pc' \in [Threads -> {"idle", "window", "build", "send"}]
           /\ call' \in [Threads -> Call \cup {NoCall}]
           /\ \A u \in Busy' : call'[u] \in Call
           /\ \A u \in Threads : pc'[u] \in {"window", "send"} => call'[u].ack
<1>1. pc' = [pc EXCEPT ![t] = "idle"] /\ call' = [call EXCEPT ![t] = NoCall]
  BY DEF Return
<1>2. /\ \A u \in Threads : u # t => call'[u] = call[u] /\ pc'[u] = pc[u]
      /\ pc'[t] = "idle"
      /\ pc' \in [Threads -> {"idle", "window", "build", "send"}]
      /\ call' \in [Threads -> Call \cup {NoCall}]
  BY <1>1 DEF SendTypes
<1>3. Busy' = Busy \ {t} /\ Begun' = Begun \ {t}
  BY <1>2 DEF Busy, Begun
<1>4. \A u \in Busy' : call'[u] \in Call
  BY <1>2, <1>3 DEF SendTypes, Busy
<1>5. \A u \in Threads : pc'[u] \in {"window", "send"} => call'[u].ack
  BY <1>2 DEF SendTypes
<1>6. QED BY <1>2, <1>3, <1>4, <1>5

\* WindowFull and BuildFails: nothing but the thread changes.
LEMMA GiveUpOK ==
    ASSUME SendTypes, IdsOK, NEW t \in Threads, Return(t),
           UNCHANGED <<pending, ccvars, counter, net, acks, accepted, reports>>
    PROVE  SendTypes' /\ IdsOK'
<1>1. CCTypeOK'
  BY DEF SendTypes, CCTypeOK, ccvars
<1>2. SendTypes'
  BY <1>1, ReturnOK DEF SendTypes
<1>3. \A u \in Busy' : u \in Busy /\ call'[u] = call[u]
  BY ReturnOK DEF Busy
<1>4. \A u \in Begun' : u \in Begun /\ call'[u] = call[u]
  BY ReturnOK DEF Begun
<1>5. IdsOK'
  BY <1>3, <1>4 DEF IdsOK, Tracked
<1>6. QED BY <1>2, <1>5

\* The window has room: the packet is counted.
LEMMA AdmitOK ==
    ASSUME SendTypes, IdsOK, NEW t \in Threads, Admit(t)
    PROVE  /\ SendTypes' /\ IdsOK' /\ in_flight' = in_flight + 1
           /\ UNCHANGED <<pending, call>>
           /\ Admitted' = Admitted \cup {t}
<1>1. pc' = [pc EXCEPT ![t] = "build"] /\ pc[t] = "window"
  BY DEF Admit
<1>2. /\ \A u \in Threads : u # t => pc'[u] = pc[u]
      /\ pc'[t] = "build"
      /\ pc' \in [Threads -> {"idle", "window", "build", "send"}]
  BY <1>1 DEF SendTypes
<1>3. CCTypeOK' /\ in_flight' = in_flight + 1
  BY OnSendOK DEF SendTypes, Admit
<1>4. UNCHANGED <<pending, counter, call, net, acks, accepted, reports>>
  BY DEF Admit, history
<1>5. Busy' = Busy /\ Begun' = Begun
  BY <1>1, <1>2 DEF Busy, Begun
<1>6. call[t].ack
  BY <1>1 DEF SendTypes
<1>7. Admitted' = Admitted \cup {t}
  BY <1>2, <1>4, <1>6 DEF Admitted
<1>8. SendTypes'
  BY <1>2, <1>3, <1>4, <1>5, <1>6 DEF SendTypes
<1>9. IdsOK'
  BY <1>4, <1>5 DEF IdsOK, Tracked
<1>10. QED BY <1>3, <1>4, <1>7, <1>8, <1>9

\* The frames of a reliable message are tracked; no other message is.
LEMMA TrackOK ==
    ASSUME SendTypes, IdsOK, NEW t \in Threads, Track(t)
    PROVE  /\ SendTypes' /\ IdsOK'
           /\ t \in Admitted /\ Admitted' = Admitted \ {t}
           /\ call[t] \in Call
           /\ pending \subseteq pending'
           /\ \A e \in pending' : e \in pending \/ e.frame \in FramesOf(call[t])
           /\ "track" \notin Failures =>
                  \E e \in pending' : MessageOf(e.frame) = MessageOf(call[t])
<1>1. /\ pc' = [pc EXCEPT ![t] = "send"] /\ pc[t] = "build" /\ call[t].ack
      /\ UNCHANGED <<ccvars, counter, call, net, acks, accepted, reports>>
  BY DEF Track, history
<1>2. /\ \A u \in Threads : u # t => pc'[u] = pc[u]
      /\ pc'[t] = "send"
      /\ pc' \in [Threads -> {"idle", "window", "build", "send"}]
  BY <1>1 DEF SendTypes
<1>3. call[t] \in Call /\ t \in Busy /\ t \in Begun
  BY <1>1 DEF SendTypes, Busy, Begun
<1>4. PICK kept \in SUBSET FramesOf(call[t]) :
         Expect(kept) /\ ("track" \notin Failures => kept = FramesOf(call[t]))
  BY DEF Track
<1>5. /\ pending' \subseteq Entry /\ IsFiniteSet(pending')
      /\ pending \subseteq pending'
      /\ \A e \in pending' : e \in pending \/ e.frame \in kept
      /\ \A f \in kept : \E e \in pending' : e.frame = f
  BY <1>3, <1>4, ExpectOK DEF SendTypes
<1>6. Busy' = Busy /\ Begun' = Begun \ {t} /\ Admitted' = Admitted \ {t} /\ t \in Admitted
  BY <1>1, <1>2 DEF Busy, Begun, Admitted
<1>7. CCTypeOK'
  BY <1>1 DEF SendTypes, CCTypeOK, ccvars
<1>8. SendTypes'
  BY <1>1, <1>2, <1>5, <1>6, <1>7 DEF SendTypes
<1>9. \A e \in pending' : e \in pending \/ MessageOf(e.frame) = MessageOf(call[t])
  BY <1>3, <1>4, <1>5, FramesOfOK
<1>10. IdsOK'
  <2>1. ASSUME NEW e \in pending' PROVE e.frame.pid <= counter[e.frame.ch]
    <3>1. CASE e \in pending
      BY <3>1 DEF IdsOK
    <3>2. CASE MessageOf(e.frame) = MessageOf(call[t])
      BY <1>3, <3>2 DEF IdsOK, MessageOf
    <3>3. QED BY <1>9, <3>1, <3>2
  <2>2. ASSUME NEW u \in Begun', NEW e \in pending', IsOf(e, call[u].ch, call[u].pid)
        PROVE  FALSE
    <3>1. u \in Begun /\ u \in Busy /\ u # t
      BY <1>6 DEF Begun, Busy
    <3>2. e \notin pending
      BY <2>2, <3>1 DEF IdsOK, Tracked
    <3>3. MessageOf(call[u]) = MessageOf(call[t])
      BY <1>9, <2>2, <3>2 DEF IsOf, MessageOf
    <3>4. QED BY <1>3, <3>1, <3>3 DEF IdsOK
  <2>3. QED BY <1>1, <1>6, <2>1, <2>2 DEF IdsOK, Tracked
<1>11. ASSUME "track" \notin Failures
       PROVE  \E e \in pending' : MessageOf(e.frame) = MessageOf(call[t])
  BY <1>3, <1>4, <1>5, <1>11, FramesOfOK
<1>12. QED BY <1>3, <1>4, <1>5, <1>6, <1>8, <1>10, <1>11

\* The frames of a call are sent.
LEMMA TransmitOK ==
    ASSUME SendTypes, IdsOK, NEW t \in Threads, Transmit(t)
    PROVE  /\ SendTypes' /\ IdsOK'
           /\ call[t] \in Call /\ pc[t] # "idle"
           /\ Busy' \subseteq Busy
<1>1. /\ Return(t)
      /\ net' = net \cup FramesOf(call[t])
      /\ accepted' = IF call[t].ack THEN accepted \cup {MessageOf(call[t])} ELSE accepted
      /\ UNCHANGED <<pending, ccvars, counter, acks, reports>>
  BY DEF Transmit
<1>2. t \in Busy /\ call[t] \in Call
  BY DEF Transmit, SendTypes, Busy
<1>3. /\ FramesOf(call[t]) \subseteq Frame /\ MessageOf(call[t]) \in Message
      /\ \A f \in FramesOf(call[t]) : f.pid <= counter[f.ch]
  BY <1>2, FramesOfOK DEF IdsOK
<1>4. CCTypeOK'
  BY <1>1 DEF SendTypes, CCTypeOK, ccvars
<1>5. SendTypes'
  BY <1>1, <1>3, <1>4, ReturnOK DEF SendTypes
<1>6. \A u \in Busy' : u \in Busy /\ call'[u] = call[u]
  BY <1>1, ReturnOK DEF Busy
<1>7. \A u \in Begun' : u \in Begun /\ call'[u] = call[u]
  BY <1>1, ReturnOK DEF Begun
<1>8. IdsOK'
  BY <1>1, <1>3, <1>6, <1>7 DEF IdsOK, Tracked
<1>9. QED BY <1>2, <1>5, <1>6, <1>8 DEF Busy

\* The steps of the other threads: nothing new is tracked, and no frame is
\* sent whose packet id was not used.
LEMMA OthersOK ==
    ASSUME SendTypes, IdsOK, UNCHANGED <<counter, pc, call, accepted>>,
           pending' \subseteq Entry, IsFiniteSet(pending'),
           \A e \in pending' : \E x \in pending : e.frame = x.frame,
           CCTypeOK', net' \subseteq Frame,
           \A f \in net' : f \in net \/ f.pid <= counter[f.ch],
           acks' \subseteq Message, reports' \in [Message -> Nat]
    PROVE  SendTypes' /\ IdsOK'
<1>1. Busy' = Busy /\ Begun' = Begun
  BY DEF Busy, Begun
<1>2. SendTypes'
  BY <1>1 DEF SendTypes
<1>3. \A e \in pending' : e.frame.pid <= counter[e.frame.ch]
  BY DEF IdsOK
<1>4. \A u \in Begun : ~\E e \in pending' : IsOf(e, call[u].ch, call[u].pid)
  BY DEF IdsOK, Tracked, IsOf
<1>5. IdsOK'
  BY <1>1, <1>3, <1>4 DEF IdsOK, Tracked
<1>6. QED BY <1>2, <1>5

\* The delivery failure callback is called for every recorded entry.
LEMMA ReportOK ==
    ASSUME reports \in [Message -> Nat], NEW D, D \subseteq Entry, IsFiniteSet(D), Report(D)
    PROVE  /\ reports' \in [Message -> Nat]
           /\ \A m \in Message : reports[m] <= reports'[m]
           /\ \A e \in D : reports'[MessageOf(e.frame)] > 0
<1> DEFINE N(m) == {e \in D : MessageOf(e.frame) = m}
<1>1. ASSUME NEW m \in Message
      PROVE  /\ IsFiniteSet(N(m)) /\ Cardinality(N(m)) \in Nat
             /\ N(m) # {} => Cardinality(N(m)) # 0
  <2>1. N(m) \subseteq D
    OBVIOUS
  <2> HIDE DEF N
  <2>2. QED BY <2>1, FS_Subset, FS_CardinalityType, FS_EmptySet
<1>2. reports' = [m \in Message |-> reports[m] + Cardinality(N(m))]
  BY DEF Report
<1>3. ASSUME NEW e \in D PROVE MessageOf(e.frame) \in Message /\ N(MessageOf(e.frame)) # {}
  BY EntryOK
<1> HIDE DEF N
<1>4. ASSUME NEW m \in Message
      PROVE  reports'[m] = reports[m] + Cardinality(N(m)) /\ reports[m] \in Nat
  BY <1>2
<1>5. ASSUME NEW m \in Message PROVE reports'[m] \in Nat /\ reports[m] <= reports'[m]
  BY <1>1, <1>4
<1>6. ASSUME NEW e \in D PROVE reports'[MessageOf(e.frame)] > 0
  BY <1>1, <1>3, <1>4
<1>7. QED BY <1>2, <1>5, <1>6
-----------------------------------------------------------------------------
(* What the in-flight count covers.                                        *)

\* krs_packet_counter_next covers nothing new when the send still has to pass
\* the window, or is not reliable.
LEMMA CoveredNextPid ==
    ASSUME SendTypes, IdsOK, NEW t \in Threads, NEW c \in Channels, NEW n \in Sizes,
           NEW ack \in BOOLEAN, NextPid(t, c, n, ack, IF ack THEN "window" ELSE "build")
    PROVE  Covered' = Covered
<1> DEFINE new == [ch |-> c, pid |-> counter[c] + 1, total |-> n, ack |-> ack]
<1>1. /\ call' = [call EXCEPT ![t] = new]
      /\ pc' = [pc EXCEPT ![t] = IF ack THEN "window" ELSE "build"]
      /\ pc[t] = "idle" /\ pending' = pending
  BY DEF NextPid
<1>2. /\ \A u \in Threads : u # t => call'[u] = call[u] /\ pc'[u] = pc[u]
      /\ call'[t].ack = ack /\ pc'[t] = IF ack THEN "window" ELSE "build"
  BY <1>1 DEF SendTypes
<1>3. t \notin Admitted /\ t \notin Admitted'
  BY <1>1, <1>2 DEF Admitted
<1>4. Admitted' = Admitted /\ \A u \in Admitted : call'[u] = call[u]
  BY <1>2, <1>3 DEF Admitted
<1>5. {MessageOf(call'[u]) : u \in Admitted'} = {MessageOf(call[u]) : u \in Admitted}
  BY <1>4
<1>6. QED BY <1>1, <1>5 DEF Covered, Tracked

\* An admitted message is the only one that is covered anew.
LEMMA CoveredAdmit ==
    ASSUME SendTypes, IdsOK, NEW t \in Threads, Admit(t)
    PROVE  Covered' = Covered \cup {MessageOf(call[t])}
<1>1. UNCHANGED <<pending, call>> /\ Admitted' = Admitted \cup {t}
  BY AdmitOK
<1>2. QED BY <1>1 DEF Covered, Tracked

\* A tracked message was admitted.
LEMMA CoveredTrack ==
    ASSUME SendTypes, IdsOK, NEW t \in Threads, Track(t)
    PROVE  Covered' \subseteq Covered
<1>1. /\ t \in Admitted /\ Admitted' = Admitted \ {t} /\ call[t] \in Call
      /\ \A e \in pending' : e \in pending \/ e.frame \in FramesOf(call[t])
      /\ call' = call
  BY TrackOK DEF Track
<1>2. ASSUME NEW m \in Message, NEW e \in pending', IsOf(e, m[1], m[2])
      PROVE  m \in Covered
  <2>1. CASE e \in pending
    BY <1>2, <2>1 DEF Covered, Tracked
  <2>2. CASE e.frame \in FramesOf(call[t])
    <3>1. MessageOf(e.frame) = MessageOf(call[t])
      BY <1>1, <2>2, FramesOfOK
    <3>2. m = MessageOf(e.frame)
      BY <1>2 DEF IsOf, MessageOf, Message
    <3>3. QED BY <1>1, <3>1, <3>2 DEF Covered
  <2>3. QED BY <1>1, <2>1, <2>2
<1>3. \A m \in Message : (\E e \in pending' : IsOf(e, m[1], m[2])) => m \in Covered
  BY <1>2
<1>4. {MessageOf(call'[u]) : u \in Admitted'} \subseteq {MessageOf(call[u]) : u \in Admitted}
  BY <1>1
<1>5. QED BY <1>3, <1>4 DEF Covered, Tracked

LEMMA CoveredReturn ==
    ASSUME SendTypes, IdsOK, NEW t \in Threads, Return(t), UNCHANGED pending
    PROVE  Covered' \subseteq Covered
<1>1. \A u \in Admitted' : u \in Admitted /\ call'[u] = call[u]
  BY ReturnOK DEF Admitted
<1>2. QED BY <1>1 DEF Covered, Tracked

\* The steps of the other threads cover nothing new.
LEMMA CoveredOthers ==
    ASSUME UNCHANGED <<pc, call>>,
           \A e \in pending' : \E x \in pending : e.frame = x.frame
    PROVE  Covered' \subseteq Covered
<1>1. Admitted' = Admitted
  BY DEF Admitted
<1>2. \A m \in Message : (\E e \in pending' : IsOf(e, m[1], m[2])) => Tracked(m[1], m[2])
  BY DEF Tracked, IsOf
<1>3. QED BY <1>1, <1>2 DEF Covered, Tracked

\* An ACK that removes entries uncovers its message: no thread is about to
\* track it.
LEMMA CoveredAck ==
    ASSUME SendTypes, IdsOK, NEW a \in Message, Tracked(a[1], a[2]), ReceiveAck(a[1], a[2]),
           UNCHANGED <<pc, call>>
    PROVE  Covered' \subseteq Covered \ {a} /\ a \in Covered
<1>1. \A e \in pending' : \E x \in pending : ~IsOf(x, a[1], a[2]) /\ e.frame = x.frame
  BY ReceiveAckOK DEF SendTypes
<1>2. Covered' \subseteq Covered
  BY <1>1, CoveredOthers
<1>3. ~\E e \in pending' : IsOf(e, a[1], a[2])
  BY <1>1 DEF IsOf
<1>4. ASSUME NEW u \in Admitted, MessageOf(call[u]) = a
      PROVE  FALSE
  <2>1. u \in Begun
    BY DEF Admitted, Begun
  <2>2. a[1] = call[u].ch /\ a[2] = call[u].pid
    BY <1>4 DEF MessageOf
  <2>3. QED BY <2>1, <2>2 DEF IdsOK
<1>5. Admitted' = Admitted
  BY DEF Admitted
<1>6. a \notin Covered'
  BY <1>3, <1>4, <1>5 DEF Covered, Tracked
<1>7. QED BY <1>2, <1>6 DEF Covered

\* InFlightCovers speaks of covered messages only.
LEMMA CoversEnough ==
    ASSUME CCTypeOK, IsFiniteSet(Covered), in_flight >= Cardinality(Covered)
    PROVE  InFlightCovers
<1> DEFINE C == {m \in Message : m[1] # Control /\ Tracked(m[1], m[2])} \cup
                {MessageOf(call[t]) : t \in {x \in Threads : /\ pc[x] = "build" /\ call[x].ack
                                                            /\ call[x].ch # Control}}
<1>1. C \subseteq Covered
  BY DEF Covered, Admitted
<1> HIDE DEF C
<1>2. Cardinality(C) <= Cardinality(Covered) /\ Cardinality(C) \in Nat /\ Cardinality(Covered) \in Nat
  BY <1>1, FS_Subset, FS_CardinalityType
<1>3. in_flight >= Cardinality(C)
  BY <1>2 DEF CCTypeOK
<1>4. QED BY <1>3 DEF InFlightCovers, C
-----------------------------------------------------------------------------
(* The sizes of messages.                                                  *)

\* A new message has a packet id of its own, and may have any size.
LEMMA AgreesNextPid ==
    ASSUME SendTypes, IdsOK, NEW size \in [Message -> Nat], Agrees(size),
           NEW t \in Threads, NEW c \in Channels, NEW n \in Sizes,
           NEW ack \in BOOLEAN, NEW next \in {"window", "build"}, next = "window" => ack,
           NextPid(t, c, n, ack, next)
    PROVE  \E new \in [Message -> Nat] :
               /\ Agrees(new)'
               /\ \A f \in Frame : f.pid <= counter[f.ch] => new[MessageOf(f)] = size[MessageOf(f)]
<1> DEFINE m0 == <<c, counter[c] + 1>>
<1>1. /\ SendTypes' /\ IdsOK' /\ counter[c] + 1 \in Pid
      /\ call'[t] \in Call /\ MessageOf(call'[t]) = m0
  BY NextPidOK
<1>2. m0 \in Message /\ n \in Nat /\ counter[c] \in Nat
  BY <1>1, AckAssumption DEF Message, SendTypes
<1>3. /\ [size EXCEPT ![m0] = n] \in [Message -> Nat]
      /\ \A m \in Message : m # m0 => [size EXCEPT ![m0] = n][m] = size[m]
      /\ [size EXCEPT ![m0] = n][m0] = n
  BY <1>2
<1>4. PICK new \in [Message -> Nat] :
         (\A m \in Message : m # m0 => new[m] = size[m]) /\ new[m0] = n
  BY <1>3
<1>5. ASSUME NEW f \in Frame, f.pid <= counter[f.ch]
      PROVE  new[MessageOf(f)] = size[MessageOf(f)]
  <2>1. MessageOf(f) \in Message /\ MessageOf(f) # m0
    BY <1>2, <1>5 DEF Frame, MessageOf, Message, Pid
  <2>2. QED BY <1>4, <2>1
<1>6. ASSUME NEW u \in Busy' PROVE call'[u].total = new[MessageOf(call'[u])]
  <2>1. CASE u = t
    <3>1. call'[t].total = n
      BY DEF NextPid, SendTypes
    <3>2. QED BY <1>1, <1>4, <2>1, <3>1
  <2>2. CASE u # t
    <3>1. u \in Busy /\ call'[u] = call[u]
      BY <2>2 DEF NextPid, Busy, SendTypes
    <3>2. call[u] \in Call /\ call[u].pid <= counter[call[u].ch]
      BY <3>1 DEF SendTypes, IdsOK
    <3>3. MessageOf(call[u]) \in Message /\ MessageOf(call[u]) # m0
      BY <1>2, <3>2 DEF Call, MessageOf, Message, Pid
    <3>4. QED BY <1>4, <3>1, <3>3 DEF Agrees
  <2>3. QED BY <2>1, <2>2
<1>7. pending' = pending /\ net' = net
  BY DEF NextPid
<1>8. \A e \in pending : e.frame \in Frame /\ e.frame.pid <= counter[e.frame.ch]
  BY EntryOK DEF SendTypes, IdsOK
<1>9. \A f \in net : f \in Frame /\ f.pid <= counter[f.ch]
  BY DEF SendTypes, IdsOK
<1>10. Agrees(new)'
  BY <1>5, <1>6, <1>7, <1>8, <1>9 DEF Agrees
<1>11. QED BY <1>5, <1>10

\* All other steps only copy frames around.
LEMMA AgreesStays ==
    ASSUME SendTypes, NEW size, Agrees(size),
           \A u \in Busy' : u \in Busy /\ call'[u] = call[u],
           \A e \in pending' : (\E x \in pending : e.frame = x.frame)
                               \/ \E u \in Busy : e.frame \in FramesOf(call[u]),
           \A f \in net' : f \in net \/ f.total = size[MessageOf(f)]
                           \/ \E u \in Busy : f \in FramesOf(call[u])
    PROVE  Agrees(size)'
<1>1. ASSUME NEW u \in Busy, NEW f \in FramesOf(call[u]) PROVE f.total = size[MessageOf(f)]
  <2>1. call[u] \in Call
    BY DEF SendTypes
  <2>2. f.total = call[u].total /\ MessageOf(f) = MessageOf(call[u])
    BY <2>1, FramesOfOK
  <2>3. QED BY <2>2 DEF Agrees
<1>2. \A e \in pending' : e.frame.total = size[MessageOf(e.frame)]
  BY <1>1 DEF Agrees
<1>3. \A f \in net' : f.total = size[MessageOf(f)]
  BY <1>1 DEF Agrees
<1>4. \A u \in Busy' : call'[u].total = size[MessageOf(call'[u])]
  BY DEF Agrees
<1>5. QED BY <1>2, <1>3, <1>4 DEF Agrees
-----------------------------------------------------------------------------
(* The receiver.                                                           *)

\* A message is acknowledged with its delivery, not before.
LEMMA AcceptsOK ==
    ASSUME acks \subseteq Message, net \subseteq Frame, AcksDelivered,
           NEW f \in net, Accepts(f)
    PROVE  acks' \subseteq Message /\ AcksDelivered' /\ delivered \subseteq delivered'
<1> DEFINE m == MessageOf(f)
<1>1. m \in Message
  BY DEF Frame, MessageOf, Message
<1> HIDE DEF m
<1>2. \/ acks' = acks /\ delivered' = delivered
      \/ /\ acks' \subseteq acks \cup {m}
         /\ delivered \subseteq delivered'
         /\ \E d \in delivered' : d.msg = m
  <2>1. CASE f.total = 1
    <3>1. delivered' = delivered \cup {[msg |-> m, pieces |-> {f}]}
      BY <2>1 DEF Accepts, m
    <3>2. acks' \subseteq acks \cup {m}
      BY <2>1 DEF Accepts, m
    <3>3. [msg |-> m, pieces |-> {f}].msg = m
      OBVIOUS
    <3>4. \E d \in delivered' : d.msg = m
      BY <3>1, <3>3
    <3>5. QED BY <3>1, <3>2, <3>4
  <2>2. CASE f.total # 1 /\ Completes(f)
    <3>1. delivered' = delivered \cup {[msg |-> m, pieces |-> Stored(f).pieces]}
      BY <2>2 DEF Accepts, m
    <3>2. acks' \subseteq acks \cup {m}
      BY <2>2 DEF Accepts, m
    <3>3. [msg |-> m, pieces |-> Stored(f).pieces].msg = m
      OBVIOUS
    <3>4. \E d \in delivered' : d.msg = m
      BY <3>1, <3>3
    <3>5. QED BY <3>1, <3>2, <3>4
  <2>3. CASE f.total # 1 /\ ~Completes(f)
    BY <2>3 DEF Accepts
  <2>4. QED BY <2>1, <2>2, <2>3
<1>3. QED BY <1>1, <1>2 DEF AcksDelivered, IsDelivered

\* Sessions do not change when frames are sent.
LEMMA SessionsStay ==
    ASSUME SessionsOK, UNCHANGED sessions, net \subseteq net'
    PROVE  SessionsOK'
BY DEF SessionsOK, Holds, Key

\* A fragment is looked at in a session of its own message.
LEMMA SessionOK ==
    ASSUME net \subseteq Frame, NetAgrees, OneStream, SessionsOK, NEW f \in net
    PROVE  Holds(Session(f), Key(f)) /\ Session(f).total = f.total
<1>1. CASE ~Known(f)
  <2>1. Session(f) = [total |-> f.total, received |-> 0, ack |-> FALSE, pieces |-> {}]
    BY <1>1 DEF Session, NewSession
  <2>2. f.total \in Sizes
    BY DEF Frame
  <2>3. IsFiniteSet({}) /\ Cardinality({}) = 0
    BY FS_EmptySet
  <2>4. QED BY <2>1, <2>2, <2>3 DEF Holds
<1>2. CASE Known(f)
  <2>1. /\ Session(f) = sessions[Key(f)]
        /\ Holds(Session(f), Key(f)) /\ Session(f).pieces # {}
    BY <1>2 DEF Session, Known, SessionsOK
  <2>2. PICK p \in Session(f).pieces : TRUE
    BY <2>1
  <2>3. p \in net /\ Key(p) = Key(f) /\ p.total = Session(f).total
    BY <2>1, <2>2 DEF Holds
  <2>4. p \in Frame /\ f \in Frame
    BY <2>3
  <2>5. MessageOf(p) = MessageOf(f)
    <3>1. p.pid = f.pid
      BY <2>3 DEF Key
    <3>2. p.ch = f.ch
      BY <2>3, <2>4 DEF Key, OneStream, Frame
    <3>3. QED BY <3>1, <3>2 DEF MessageOf
  <2>6. p.total = f.total
    BY <2>3, <2>5 DEF NetAgrees
  <2>7. QED BY <2>1, <2>3, <2>6
<1>3. QED BY <1>1, <1>2

\* So it is afterwards.
LEMMA StoredOK ==
    ASSUME net \subseteq Frame, NetAgrees, OneStream, SessionsOK, NEW f \in net
    PROVE  /\ Holds(Stored(f), Key(f)) /\ Stored(f).pieces # {}
           /\ Stored(f).total = f.total
<1> DEFINE S == Session(f)
           more == [S EXCEPT !.ack = @ \/ f.ack, !.received = @ + 1, !.pieces = @ \cup {f}]
           same == [S EXCEPT !.ack = @ \/ f.ack]
<1>1. Holds(S, Key(f)) /\ S.total = f.total
  BY SessionOK
<1>2. f \in Frame /\ f.ack \in BOOLEAN
  BY DEF Frame
<1>3. S \in [total : Sizes, received : Nat, ack : BOOLEAN, pieces : SUBSET net]
  BY <1>1 DEF Holds
<1>4. CASE Fresh(f)
  <2>1. Stored(f) = more
    BY <1>4 DEF Stored
  <2>2. f \notin S.pieces /\ \A p \in S.pieces : p.frag # f.frag
    BY <1>4 DEF Fresh
  <2> HIDE DEF S
  <2> DEFINE b == S.ack \/ f.ack
  <2>3. b \in BOOLEAN
    OBVIOUS
  <2>4. more = [S EXCEPT !.ack = b, !.received = @ + 1, !.pieces = @ \cup {f}]
    OBVIOUS
  <2>5. /\ S.total \in Sizes /\ S.received + 1 \in Nat
        /\ S.pieces \cup {f} \in SUBSET net
    BY <1>3
  <2> HIDE DEF b, more
  <2>6. more = [total |-> S.total, received |-> S.received + 1, ack |-> b,
                pieces |-> S.pieces \cup {f}]
    BY <1>3, <2>4
  <2>7. /\ more \in [total : Sizes, received : Nat, ack : BOOLEAN, pieces : SUBSET net]
        /\ more.total = S.total /\ more.received = S.received + 1 /\ more.pieces = S.pieces \cup {f}
    BY <2>3, <2>5, <2>6
  <2>8. IsFiniteSet(S.pieces) /\ S.received = Cardinality(S.pieces)
    BY <1>1 DEF Holds
  <2>9. IsFiniteSet(S.pieces \cup {f}) /\ Cardinality(S.pieces \cup {f}) = S.received + 1
    BY <2>2, <2>8, FS_AddElement
  <2>10. \A p \in S.pieces \cup {f} : Key(p) = Key(f) /\ p.total = S.total
    BY <1>1 DEF Holds
  <2>11. \A p, q \in S.pieces \cup {f} : p.frag = q.frag => p = q
    BY <1>1, <2>2 DEF Holds
  <2>12. Holds(more, Key(f))
    BY <2>7, <2>9, <2>10, <2>11 DEF Holds
  <2>13. QED BY <1>1, <2>1, <2>7, <2>12
<1>5. CASE ~Fresh(f)
  <2>1. Stored(f) = same
    BY <1>5 DEF Stored
  <2>2. S.pieces # {}
    BY <1>5 DEF Fresh
  <2> HIDE DEF S
  <2>3. /\ same \in [total : Sizes, received : Nat, ack : BOOLEAN, pieces : SUBSET net]
        /\ same.total = S.total /\ same.received = S.received /\ same.pieces = S.pieces
    BY <1>2, <1>3
  <2> HIDE DEF same
  <2>4. Holds(same, Key(f))
    BY <1>1, <2>3 DEF Holds
  <2>5. QED BY <1>1, <2>1, <2>2, <2>3, <2>4
<1>6. QED BY <1>4, <1>5

LEMMA WithoutOK ==
    ASSUME SessionsOK, NEW keys, sessions' = Without(keys), net \subseteq net'
    PROVE  SessionsOK'
<1>1. DOMAIN sessions' = DOMAIN sessions \ keys /\ \A k \in DOMAIN sessions' : sessions'[k] = sessions[k]
  BY DEF Without
<1>2. sessions' = [k \in DOMAIN sessions' |-> sessions'[k]]
  BY DEF Without
<1>3. QED BY <1>1, <1>2 DEF SessionsOK, Holds, Key

\* krs_reassembler_feed keeps the sessions as they should be.
LEMMA FeedOK ==
    ASSUME net \subseteq Frame, NetAgrees, OneStream, SessionsOK, NEW f \in net,
           Feed(f), net' = net
    PROVE  SessionsOK'
<1>1. CASE Refused(f)
  <2>1. UNCHANGED sessions
    BY <1>1 DEF Feed, Completes
  <2>2. QED BY <2>1, SessionsStay
<1>2. CASE ~Refused(f) /\ Completes(f)
  BY <1>2, WithoutOK DEF Feed
<1>3. CASE ~Refused(f) /\ ~Completes(f)
  <2> DEFINE D == DOMAIN sessions \cup {Key(f)}
             new == [k \in D |-> IF k = Key(f) THEN Stored(f) ELSE sessions[k]]
  <2>1. sessions' = new
    BY <1>3 DEF Feed
  <2>2. DOMAIN new = D /\ new = [k \in DOMAIN new |-> new[k]]
    OBVIOUS
  <2>3. Holds(Stored(f), Key(f)) /\ Stored(f).pieces # {}
    BY StoredOK
  <2>4. ASSUME NEW k \in D PROVE Holds(new[k], k) /\ new[k].pieces # {}
    <3>1. CASE k = Key(f)
      BY <2>3, <3>1
    <3>2. CASE k # Key(f)
      BY <3>2 DEF SessionsOK
    <3>3. QED BY <3>1, <3>2
  <2> HIDE DEF new, D
  <2>5. DOMAIN sessions' = D
    BY <2>1, <2>2
  <2>6. \A k \in DOMAIN sessions' : Holds(sessions'[k], k) /\ sessions'[k].pieces # {}
    BY <2>1, <2>4, <2>5
  <2>7. \A k \in DOMAIN sessions' : Holds(sessions[k], k)' /\ sessions'[k].pieces # {}
    BY <2>6 DEF Holds, Key
  <2>8. sessions' = [k \in DOMAIN sessions' |-> sessions'[k]]
    BY <2>1, <2>2
  <2>9. QED BY <2>7, <2>8 DEF SessionsOK
<1>4. QED BY <1>1, <1>2, <1>3

\* As many different fragments as the message has are all of them.
LEMMA AllFragments ==
    ASSUME net \subseteq Frame, NEW s, NEW k, Holds(s, k), s.received = s.total
    PROVE  {q.frag : q \in s.pieces} = 1 .. s.total /\ Cardinality(s.pieces) = s.total
<1> DEFINE P == s.pieces
           n == s.total
           g == [q \in P |-> q.frag]
<1>1. n \in Nat /\ P \subseteq net /\ Cardinality(P) = n
  BY AckAssumption DEF Holds
<1>2. ASSUME NEW q \in P PROVE q.frag \in 1 .. n
  <2>1. q \in Frame /\ q.total = n
    BY <1>1 DEF Holds
  <2>2. q.frag \in Nat \ {0} /\ q.frag <= n
    BY <2>1, AckAssumption DEF Frame
  <2>3. QED BY <1>1, <2>2
<1>3. \A p, q \in P : p.frag = q.frag => p = q
  BY DEF Holds
<1> HIDE DEF P, n
<1>4. g \in [P -> 1 .. n] /\ \A p, q \in P : g[p] = g[q] => p = q
  BY <1>2, <1>3
<1>5. g \in Injection(P, 1 .. n)
  BY <1>4 DEF Injection, IsInjective
<1>6. IsFiniteSet(1 .. n) /\ Cardinality(1 .. n) = n
  BY <1>1, FS_Interval
<1> HIDE DEF g
<1>7. g \in Surjection(P, 1 .. n)
  BY <1>1, <1>5, <1>6, FS_Injection
<1>8. \A i \in 1 .. n : \E q \in P : g[q] = i
  BY <1>7 DEF Surjection
<1>9. {q.frag : q \in P} = 1 .. n
  BY <1>2, <1>8 DEF g
<1>10. QED BY <1>1, <1>9 DEF P, n

\* What is delivered is whole.
LEMMA WholeStays ==
    ASSUME net \subseteq Frame, NetAgrees, OneStream, SessionsOK, WholeMessages,
           NEW f \in net, Accepts(f), net' = net
    PROVE  SessionsOK' /\ WholeMessages'
<1> DEFINE Whole(d) == \A p \in d.pieces :
              {q.frag : q \in d.pieces} = 1 .. p.total /\ Cardinality(d.pieces) = p.total
<1>1. CASE f.total = 1
  <2> DEFINE d == [msg |-> MessageOf(f), pieces |-> {f}]
  <2>1. delivered' = delivered \cup {d} /\ UNCHANGED sessions
    BY <1>1 DEF Accepts
  <2>2. f.frag = 1
    BY <1>1, AckAssumption DEF Frame
  <2>3. {q.frag : q \in {f}} = 1 .. 1
    BY <2>2
  <2>4. Cardinality({f}) = 1
    BY FS_Singleton
  <2>5. Whole(d)
    BY <1>1, <2>3, <2>4
  <2>6. SessionsOK'
    BY <2>1, SessionsStay
  <2> HIDE DEF d
  <2>7. QED BY <2>1, <2>5, <2>6 DEF WholeMessages
<1>2. CASE f.total # 1 /\ Completes(f)
  <2> DEFINE d == [msg |-> MessageOf(f), pieces |-> Stored(f).pieces]
  <2>1. delivered' = delivered \cup {d} /\ Feed(f)
    BY <1>2 DEF Accepts
  <2>2. Holds(Stored(f), Key(f)) /\ Stored(f).received = Stored(f).total
    BY <1>2, StoredOK DEF Completes
  <2>3. /\ {q.frag : q \in Stored(f).pieces} = 1 .. Stored(f).total
        /\ Cardinality(Stored(f).pieces) = Stored(f).total
    BY <2>2, AllFragments
  <2>4. \A p \in Stored(f).pieces : p.total = Stored(f).total
    BY <2>2 DEF Holds
  <2>5. Whole(d)
    BY <2>3, <2>4
  <2> HIDE DEF d
  <2>6. QED BY <2>1, <2>5, FeedOK DEF WholeMessages
<1>3. CASE f.total # 1 /\ ~Completes(f)
  <2>1. Feed(f) /\ UNCHANGED delivered
    BY <1>3 DEF Accepts
  <2>2. QED BY <2>1, FeedOK DEF WholeMessages
<1>4. QED BY <1>1, <1>2, <1>3
-----------------------------------------------------------------------------
(* Retransmissions and delivery failure reports.                           *)

\* A frame is tracked by one entry at most.
UniqueKeys == \A e, x \in pending : KeyOf(e.frame) = KeyOf(x.frame) => e = x

\* The frames of a message that were sent again as often as a report claims,
\* those that are tracked, and those that no report can stand for any more.
Done(m) == {k \in FrameKey : k[1] = m /\ resent[k] >= MaxRetries}
EntriesOf(S, m) == {e \in S : MessageOf(e.frame) = m}
KeysOf(S, m) == {KeyOf(e.frame) : e \in EntriesOf(S, m)}
Settled(m) == Done(m) \ KeysOf(pending, m)

\* No frame of the message was tracked so far.
Unused(m) == m[2] > counter[m[1]] \/ \E t \in Begun : MessageOf(call[t]) = m

\* The reports, and the entries in D that will be reported, are no more
\* than the frames that were given up.
ReportsBacked(D) ==
    \A m \in Message :
        /\ reports[m] + Cardinality(EntriesOf(D, m)) <= Cardinality(Settled(m))
        /\ Unused(m) => reports[m] = 0 /\ EntriesOf(D, m) = {}

LEMMA KeyTypes ==
    ASSUME NEW f \in Frame
    PROVE  KeyOf(f) \in FrameKey /\ KeyOf(f)[1] = MessageOf(f) /\ MessageOf(f) \in Message
BY DEF Frame, KeyOf, FrameKey, MessageOf, Message

\* A message has finitely many frames.
LEMMA KeysFinite ==
    ASSUME IsFiniteSet(Sizes), NEW m \in Message
    PROVE  IsFiniteSet({k \in FrameKey : k[1] = m})
<1> DEFINE U == UNION {1 .. n : n \in Sizes}
<1>1. \E top \in Nat : \A n \in Sizes : n <= top
  <2>1. CASE Sizes = {}
    BY <2>1, 0 \in Nat
  <2>2. CASE Sizes # {}
    BY <2>2, GreatestNatural, AckAssumption
  <2>3. QED BY <2>1, <2>2
<1>2. PICK top \in Nat : \A n \in Sizes : n <= top
  BY <1>1
<1>3. U \subseteq 1 .. top
  BY <1>2, AckAssumption
<1>4. IsFiniteSet(1 .. top)
  BY <1>2, FS_Interval
<1>5. IsFiniteSet(U)
  BY <1>3, <1>4, FS_Subset
<1>6. {k \in FrameKey : k[1] = m} \subseteq {m} \X U
  BY DEF FrameKey
<1> HIDE DEF U
<1>7. IsFiniteSet({m} \X U)
  BY <1>5, FS_Singleton, FS_Product
<1>8. QED BY <1>6, <1>7, FS_Subset

LEMMA SettledFinite ==
    ASSUME IsFiniteSet(Sizes), NEW m \in Message
    PROVE  IsFiniteSet(Done(m)) /\ IsFiniteSet(Settled(m))
<1>1. Done(m) \subseteq {k \in FrameKey : k[1] = m} /\ Settled(m) \subseteq Done(m)
  BY DEF Done, Settled
<1>2. QED BY <1>1, KeysFinite, FS_Subset

\* A report stands for a frame that was sent again MaxRetries times.
LEMMA BackedEnough ==
    ASSUME IsFiniteSet(Sizes), reports \in [Message -> Nat],
           NEW D, IsFiniteSet(D), ReportsBacked(D)
    PROVE  RetriedBeforeReport
<1>1. ASSUME NEW m \in Message PROVE reports[m] <= Cardinality(Done(m))
  <2>1. /\ IsFiniteSet(Done(m)) /\ Settled(m) \subseteq Done(m)
        /\ IsFiniteSet(EntriesOf(D, m))
    BY SettledFinite, FS_Subset DEF Settled, EntriesOf
  <2>2. Cardinality(Settled(m)) <= Cardinality(Done(m)) /\ IsFiniteSet(Settled(m))
    BY <2>1, FS_Subset
  <2>3. /\ Cardinality(Settled(m)) \in Nat /\ Cardinality(Done(m)) \in Nat
        /\ Cardinality(EntriesOf(D, m)) \in Nat
    BY <2>1, <2>2, FS_CardinalityType
  <2>4. reports[m] + Cardinality(EntriesOf(D, m)) <= Cardinality(Settled(m))
    BY DEF ReportsBacked
  <2>5. reports[m] \in Nat
    OBVIOUS
  <2>6. QED BY <2>2, <2>3, <2>4, <2>5
<1>2. QED BY <1>1 DEF RetriedBeforeReport, Done

\* The packet id that is taken was unused, and nothing becomes unused.
LEMMA UnusedNextPid ==
    ASSUME SendTypes, IdsOK, NEW t \in Threads, NEW c \in Channels, NEW n \in Sizes,
           NEW ack \in BOOLEAN, NEW next \in {"window", "build"},
           NextPid(t, c, n, ack, next), NEW m \in Message, Unused(m)'
    PROVE  Unused(m)
<1>1. m[1] \in Channels /\ m[2] \in Nat /\ m = <<m[1], m[2]>>
  BY DEF Message, Pid
<1>2. counter[m[1]] <= counter'[m[1]] /\ counter[m[1]] \in Nat /\ counter'[m[1]] \in Nat
  BY <1>1 DEF NextPid, SendTypes
<1>3. CASE m[2] > counter'[m[1]]
  BY <1>1, <1>2, <1>3 DEF Unused
<1>4. CASE \E u \in Begun' : MessageOf(call'[u]) = m
  <2>1. PICK u \in Begun' : MessageOf(call'[u]) = m
    BY <1>4
  <2>2. CASE u = t
    <3>1. m[1] = c /\ m[2] = counter[c] + 1
      BY <2>1, <2>2 DEF NextPid, SendTypes, MessageOf, Begun
    <3>2. QED BY <1>2, <3>1 DEF Unused
  <2>3. CASE u # t
    <3>1. u \in Begun /\ call'[u] = call[u]
      BY <2>1, <2>3 DEF NextPid, SendTypes, Begun
    <3>2. QED BY <2>1, <3>1 DEF Unused
  <2>4. QED BY <2>2, <2>3
<1>5. QED BY <1>3, <1>4 DEF Unused

LEMMA UnusedStays ==
    ASSUME counter' = counter, \A u \in Begun' : u \in Begun /\ call'[u] = call[u],
           NEW m \in Message, Unused(m)'
    PROVE  Unused(m)
BY DEF Unused

\* Entries that leave the tracker, or are rewritten in place, take their keys
\* along and leave those of the others.
LEMMA KeysShrink ==
    ASSUME pending \subseteq Entry, UniqueKeys, NEW S \in SUBSET pending, NEW g,
           pending' = {g[x] : x \in S}, \A x \in S : g[x].frame = x.frame
    PROVE  UniqueKeys' /\ \A m \in Message : KeysOf(pending', m) = KeysOf(S, m)
<1>1. UniqueKeys'
  BY DEF UniqueKeys, KeyOf
<1>2. ASSUME NEW m \in Message PROVE KeysOf(pending', m) = KeysOf(S, m)
  BY DEF KeysOf, EntriesOf
<1>3. QED BY <1>1, <1>2

\* The keys of different entries are different.
LEMMA KeysCount ==
    ASSUME UniqueKeys, NEW S \in SUBSET pending, IsFiniteSet(S)
    PROVE  LET K == {KeyOf(e.frame) : e \in S}
           IN  IsFiniteSet(K) /\ Cardinality(K) = Cardinality(S)
<1> DEFINE K == {KeyOf(e.frame) : e \in S}
           g == [e \in S |-> KeyOf(e.frame)]
<1>1. g \in Surjection(S, K)
  BY DEF Surjection
<1>2. g \in Injection(S, K)
  <2>1. g \in [S -> K] /\ \A e, x \in S : g[e] = g[x] => e = x
    BY DEF UniqueKeys
  <2>2. QED BY <2>1 DEF Injection, IsInjective
<1> HIDE DEF g, K
<1>3. IsFiniteSet(K) /\ Cardinality(K) = Cardinality(S)
  BY <1>1, <1>2, FS_Surjection
<1>4. QED BY <1>3 DEF K

\* Tracking a message whose packet id is new.
LEMMA BackedTrack ==
    ASSUME IsFiniteSet(Sizes), SendTypes, IdsOK, UniqueKeys, NEW D, ReportsBacked(D),
           NEW t \in Threads, Track(t)
    PROVE  UniqueKeys' /\ ReportsBacked(D)' /\ \A e \in pending' \ pending : e.retry = 0
<1>1. /\ call[t] \in Call /\ t \in Begun /\ pc[t] = "build"
      /\ UNCHANGED <<counter, call, resent, reports>> /\ pc' = [pc EXCEPT ![t] = "send"]
  BY TrackOK DEF Track, Begun, history
<1>2. PICK kept \in SUBSET FramesOf(call[t]) : Expect(kept)
  BY DEF Track
<1> DEFINE N(f) == [frame |-> f, at |-> End + f.frag, retry |-> 0, after |-> 0]
           m0 == MessageOf(call[t])
<1>3. pending' = pending \cup {N(f) : f \in kept}
  BY <1>2 DEF Expect
<1>4. \A f \in kept : N(f).frame = f /\ N(f).retry = 0 /\ MessageOf(f) = m0
  BY <1>1, <1>2, FramesOfOK
<1>5. \A e \in pending : MessageOf(e.frame) # m0
  <2>1. ~Tracked(call[t].ch, call[t].pid)
    BY <1>1 DEF IdsOK
  <2>2. QED BY <2>1 DEF Tracked, IsOf, MessageOf
<1>6. \A f, h \in kept : f.frag = h.frag => f = h
  BY <1>2 DEF FramesOf
<1>7. m0 \in Message
  BY <1>1, FramesOfOK
<1> HIDE DEF m0
<1>8. UniqueKeys'
  <2> SUFFICES ASSUME NEW e \in pending', NEW x \in pending', KeyOf(e.frame) = KeyOf(x.frame)
               PROVE  e = x
    BY DEF UniqueKeys
  <2>1. MessageOf(e.frame) = MessageOf(x.frame) /\ e.frame.frag = x.frame.frag
    BY DEF KeyOf
  <2>2. CASE e \in pending /\ x \in pending
    BY <2>2 DEF UniqueKeys
  <2>3. CASE e \in {N(f) : f \in kept} /\ x \in {N(f) : f \in kept}
    BY <1>4, <1>6, <2>1, <2>3
  <2>4. CASE e \in pending /\ x \in {N(f) : f \in kept}
    BY <1>4, <1>5, <2>1, <2>4
  <2>5. CASE x \in pending /\ e \in {N(f) : f \in kept}
    BY <1>4, <1>5, <2>1, <2>5
  <2>6. QED BY <1>3, <2>2, <2>3, <2>4, <2>5
<1>9. \A e \in pending' \ pending : e.retry = 0
  BY <1>3, <1>4
<1>10. ASSUME NEW m \in Message
       PROVE  /\ reports'[m] + Cardinality(EntriesOf(D, m)) <= Cardinality(Settled(m)')
              /\ Unused(m)' => reports'[m] = 0 /\ EntriesOf(D, m) = {}
  <2>1. Unused(m)' => Unused(m)
    <3>1. \A u \in Begun' : u \in Begun /\ call'[u] = call[u]
      BY <1>1 DEF Begun, SendTypes
    <3>2. QED BY <1>1, <3>1, UnusedStays
  <2>2. CASE m = m0
    <3>1. Unused(m)
      BY <1>1, <2>2 DEF Unused, m0
    <3>2. reports[m] = 0 /\ EntriesOf(D, m) = {}
      BY <3>1 DEF ReportsBacked
    <3>3. IsFiniteSet(Settled(m)')
      <4>1. Settled(m)' \subseteq Done(m)
        BY <1>1 DEF Settled, Done
      <4>2. QED BY <4>1, SettledFinite, FS_Subset
    <3>4. Cardinality(Settled(m)') \in Nat /\ Cardinality({}) = 0
      BY <3>3, FS_CardinalityType, FS_EmptySet
    <3>5. QED BY <1>1, <3>2, <3>4
  <2>3. CASE m # m0
    <3>1. EntriesOf(pending, m)' = EntriesOf(pending, m)
      BY <1>3, <1>4, <2>3 DEF EntriesOf
    <3>2. Settled(m)' = Settled(m)
      BY <1>1, <3>1 DEF Settled, Done, KeysOf
    <3>3. QED BY <1>1, <2>1, <3>2 DEF ReportsBacked
  <2>4. QED BY <2>2, <2>3
<1>11. ReportsBacked(D)'
  BY <1>10 DEF ReportsBacked, EntriesOf
<1>12. QED BY <1>8, <1>9, <1>11

\* Steps that report nothing: the frames that were given up stay given up.
LEMMA BackedStays ==
    ASSUME IsFiniteSet(Sizes), NEW D, ReportsBacked(D), reports \in [Message -> Nat],
           IsFiniteSet(D), UNCHANGED reports,
           \A k \in FrameKey : resent[k] >= MaxRetries => resent'[k] >= MaxRetries,
           \A m \in Message : KeysOf(pending', m) \subseteq KeysOf(pending, m),
           \A m \in Message : Unused(m)' => Unused(m)
    PROVE  \A m \in Message :
               /\ reports'[m] + Cardinality(EntriesOf(D, m)) <= Cardinality(Settled(m)')
               /\ Unused(m)' => reports'[m] = 0 /\ EntriesOf(D, m) = {}
<1> SUFFICES ASSUME NEW m \in Message
             PROVE  /\ reports'[m] + Cardinality(EntriesOf(D, m)) <= Cardinality(Settled(m)')
                    /\ Unused(m)' => reports'[m] = 0 /\ EntriesOf(D, m) = {}
  OBVIOUS
<1>1. Settled(m) \subseteq Settled(m)'
  BY DEF Settled, Done, KeysOf, EntriesOf
<1>2. IsFiniteSet(Settled(m)')
  <2>1. Settled(m)' \subseteq {k \in FrameKey : k[1] = m}
    BY DEF Settled, Done
  <2>2. QED BY <2>1, KeysFinite, FS_Subset
<1>3. Cardinality(Settled(m)) <= Cardinality(Settled(m)') /\ IsFiniteSet(Settled(m))
  BY <1>1, <1>2, FS_Subset
<1>4. IsFiniteSet(EntriesOf(D, m))
  BY FS_Subset DEF EntriesOf
<1>5. /\ Cardinality(Settled(m)) \in Nat /\ Cardinality(Settled(m)') \in Nat
      /\ Cardinality(EntriesOf(D, m)) \in Nat /\ reports[m] \in Nat
  BY <1>2, <1>3, <1>4, FS_CardinalityType
<1>6. reports[m] + Cardinality(EntriesOf(D, m)) <= Cardinality(Settled(m))
  BY DEF ReportsBacked
<1>7. reports'[m] + Cardinality(EntriesOf(D, m)) <= Cardinality(Settled(m)')
  BY <1>3, <1>5, <1>6
<1>8. QED BY <1>7 DEF ReportsBacked

\* krs_ack_tracker_receive_rtt and krs_ack_tracker_check_timeouts keep the
\* entries apart.
LEMMA AckKeys ==
    ASSUME pending \subseteq Entry, UniqueKeys, NEW ch, NEW pid, ReceiveAck(ch, pid)
    PROVE  UniqueKeys' /\ \A m \in Message : KeysOf(pending', m) \subseteq KeysOf(pending, m)
<1> DEFINE S == {x \in pending : ~IsOf(x, ch, pid)}
           g == [x \in S |-> Observed(x, ch, pid)]
<1>1. S \in SUBSET pending /\ pending' = {g[x] : x \in S}
  BY DEF ReceiveAck
<1>2. ASSUME NEW x \in S PROVE g[x].frame = x.frame
  <2>1. x \in Entry
    BY <1>1
  <2>2. QED BY <2>1 DEF Observed, Entry
<1>3. \A m \in Message : KeysOf(S, m) \subseteq KeysOf(pending, m)
  BY <1>1 DEF KeysOf, EntriesOf
<1> HIDE DEF S, g
<1>4. UniqueKeys' /\ \A m \in Message : KeysOf(pending', m) = KeysOf(S, m)
  BY <1>1, <1>2, KeysShrink
<1>5. QED BY <1>3, <1>4

LEMMA ScanKeys ==
    ASSUME pending \subseteq Entry, UniqueKeys, NEW timed \in SUBSET pending, CheckTimeouts(timed)
    PROVE  /\ UniqueKeys'
           /\ \A m \in Message : KeysOf(pending', m) = KeysOf(pending \ Exhausted(timed), m)
<1> DEFINE S == pending \ Exhausted(timed)
           R(e) == [e EXCEPT !.retry = @ + 1, !.after = 0]
           g == [x \in S |-> IF x \in Retried(timed) THEN R(x) ELSE x]
<1>1. /\ Retried(timed) \subseteq S /\ Due(timed) = Retried(timed) \cup Exhausted(timed)
      /\ S \in SUBSET pending
  BY DEF Retried, Due, Exhausted
<1>2. pending' = (pending \ Due(timed)) \cup {R(e) : e \in Retried(timed)}
  BY DEF CheckTimeouts
<1>3. pending' = {g[x] : x \in S}
  <2>1. ASSUME NEW x \in S PROVE g[x] \in pending'
    BY <1>1, <1>2
  <2>2. ASSUME NEW y \in pending' PROVE \E x \in S : y = g[x]
    <3>1. CASE y \in pending \ Due(timed)
      <4>1. y \in S /\ g[y] = y
        BY <1>1, <3>1
      <4>2. QED BY <4>1
    <3>2. CASE y \in {R(e) : e \in Retried(timed)}
      <4>1. PICK e \in Retried(timed) : y = R(e)
        BY <3>2
      <4>2. e \in S /\ g[e] = y
        BY <1>1, <4>1
      <4>3. QED BY <4>2
    <3>3. QED BY <1>2, <3>1, <3>2
  <2> HIDE DEF g, S
  <2>3. QED BY <2>1, <2>2
<1>4. ASSUME NEW x \in S PROVE g[x].frame = x.frame
  <2>1. x \in Entry
    OBVIOUS
  <2>2. R(x).frame = x.frame
    BY <2>1 DEF Entry
  <2>3. QED BY <2>2
<1> HIDE DEF g, S
<1>5. UniqueKeys' /\ \A m \in Message : KeysOf(pending', m) = KeysOf(S, m)
  BY <1>1, <1>3, <1>4, KeysShrink
<1>6. QED BY <1>5 DEF S

\* The entries that a scan gives up may all be reported, if they were sent
\* again often enough.
LEMMA BackedScan ==
    ASSUME IsFiniteSet(Sizes), SendTypes, IdsOK, UniqueKeys, ReportsBacked({}),
           NEW timed \in SUBSET pending, CheckTimeouts(timed),
           \A e \in Exhausted(timed) : resent[KeyOf(e.frame)] >= MaxRetries,
           NEW D \in SUBSET Exhausted(timed), NEW m \in Message
    PROVE  /\ IsFiniteSet(EntriesOf(D, m))
           /\ IsFiniteSet(Done(m) \ KeysOf(pending', m))
           /\ reports[m] + Cardinality(EntriesOf(D, m)) <= Cardinality(Done(m) \ KeysOf(pending', m))
           /\ Unused(m) => reports[m] = 0 /\ EntriesOf(D, m) = {}
<1> DEFINE X == EntriesOf(Exhausted(timed), m)
           K == {KeyOf(e.frame) : e \in X}
           A == Settled(m)
           B == Done(m) \ KeysOf(pending', m)
<1>1. pending \subseteq Entry /\ IsFiniteSet(pending) /\ reports[m] \in Nat
  BY DEF SendTypes
<1>2. X \subseteq pending /\ EntriesOf(D, m) \subseteq X
  BY DEF EntriesOf, Exhausted, Due
<1>3. IsFiniteSet(X) /\ IsFiniteSet(EntriesOf(D, m)) /\ Cardinality(EntriesOf(D, m)) <= Cardinality(X)
  BY <1>1, <1>2, FS_Subset
<1>4. IsFiniteSet(K) /\ Cardinality(K) = Cardinality(X)
  <2> HIDE DEF X
  <2>1. QED BY <1>2, <1>3, KeysCount
<1>5. KeysOf(pending', m) = KeysOf(pending \ Exhausted(timed), m)
  BY <1>1, ScanKeys
<1>6. K \subseteq B
  <2> SUFFICES ASSUME NEW e \in X PROVE KeyOf(e.frame) \in B
    OBVIOUS
  <2>1. e \in pending /\ e \in Exhausted(timed) /\ MessageOf(e.frame) = m /\ e.frame \in Frame
    BY <1>1, <1>2, EntryOK DEF EntriesOf
  <2>2. KeyOf(e.frame) \in Done(m)
    BY <2>1, KeyTypes DEF Done
  <2>3. KeyOf(e.frame) \notin KeysOf(pending \ Exhausted(timed), m)
    BY <2>1 DEF KeysOf, EntriesOf, UniqueKeys
  <2>4. QED BY <1>5, <2>2, <2>3
<1>7. A \subseteq B
  BY <1>5 DEF Settled, KeysOf, EntriesOf
<1>8. A \cap K = {}
  BY <1>2 DEF Settled, KeysOf, EntriesOf
<1>9. IsFiniteSet(A) /\ IsFiniteSet(B)
  <2>1. IsFiniteSet(Done(m)) /\ IsFiniteSet(Settled(m))
    BY SettledFinite
  <2>2. QED BY <2>1, FS_Subset
<1>10. reports[m] <= Cardinality(A) /\ (Unused(m) => reports[m] = 0)
  <2>1. EntriesOf({}, m) = {} /\ Cardinality({}) = 0
    BY FS_EmptySet DEF EntriesOf
  <2>2. reports[m] + Cardinality(EntriesOf({}, m)) <= Cardinality(Settled(m))
    BY DEF ReportsBacked
  <2>3. reports[m] + 0 <= Cardinality(Settled(m))
    BY <2>1, <2>2
  <2>4. reports[m] <= Cardinality(A)
    BY <1>1, <2>3
  <2>5. Unused(m) => reports[m] = 0
    BY DEF ReportsBacked
  <2>6. QED BY <2>4, <2>5
<1>11. Unused(m) => EntriesOf(D, m) = {}
  <2>1. ASSUME Unused(m), NEW e \in pending, MessageOf(e.frame) = m PROVE FALSE
    <3>1. e.frame.ch = m[1] /\ e.frame.pid = m[2] /\ e.frame \in Frame
      BY <1>1, <2>1, EntryOK DEF MessageOf
    <3>2. ~(m[2] > counter[m[1]])
      <4>1. m[2] <= counter[m[1]] /\ m[2] \in Nat /\ counter[m[1]] \in Nat
        BY <3>1 DEF IdsOK, SendTypes, Frame, Pid
      <4>2. QED BY <4>1
    <3>3. PICK t \in Begun : MessageOf(call[t]) = m
      BY <2>1, <3>2 DEF Unused
    <3>4. call[t].ch = m[1] /\ call[t].pid = m[2]
      BY <3>3 DEF MessageOf
    <3>5. QED BY <3>1, <3>3, <3>4 DEF IdsOK, Tracked, IsOf
  <2>2. QED BY <1>2, <2>1 DEF EntriesOf
<1> HIDE DEF A, B, K, X
<1>12. IsFiniteSet(A \cup K) /\ Cardinality(A \cup K) = Cardinality(A) + Cardinality(K)
  <2>1. Cardinality(A \cap K) = 0
    BY <1>8, FS_EmptySet
  <2>2. Cardinality(A) \in Nat /\ Cardinality(K) \in Nat
    BY <1>4, <1>9, FS_CardinalityType
  <2>3. QED BY <1>4, <1>9, <2>1, <2>2, FS_Union
<1>13. Cardinality(A \cup K) <= Cardinality(B)
  BY <1>6, <1>7, <1>9, FS_Subset
<1>14. /\ Cardinality(A) \in Nat /\ Cardinality(B) \in Nat /\ Cardinality(X) \in Nat
       /\ Cardinality(EntriesOf(D, m)) \in Nat
  BY <1>3, <1>9, FS_CardinalityType
<1>15. reports[m] + Cardinality(EntriesOf(D, m)) <= Cardinality(B)
  BY <1>1, <1>3, <1>4, <1>10, <1>12, <1>13, <1>14
<1>16. QED BY <1>3, <1>9, <1>10, <1>11, <1>15 DEF B

\* A scan never finds more entries to send again than the caller's array has
\* room for; what does not fit uses up a retry unsent.
RetriesFit == Cardinality({e \in pending : e.retry < MaxRetries}) <= RetryCap

LEMMA AllRetried ==
    ASSUME pending \subseteq Entry, IsFiniteSet(pending), RetriesFit, NEW timed \in SUBSET pending
    PROVE  RetryRecorded(timed) = Retried(timed)
<1> DEFINE X == {e \in pending : e.retry < MaxRetries}
           E == Retried(timed)
<1>1. E \subseteq X /\ X \subseteq pending
  <2>1. ASSUME NEW e \in pending PROVE e.retry >= MaxRetries \/ e.retry < MaxRetries
    BY EntryOK, AckAssumption
  <2>2. QED BY <2>1 DEF Retried, Exhausted, Due
<1>2. RetryCap \in Nat /\ Cardinality(X) <= RetryCap
  BY AckAssumption DEF RetriesFit
<1> HIDE DEF E, X
<1>3. IsFiniteSet(X) /\ IsFiniteSet(E) /\ Cardinality(E) <= Cardinality(X)
  BY <1>1, FS_Subset
<1>4. Cardinality(E) \in Nat /\ Cardinality(X) \in Nat
  BY <1>3, FS_CardinalityType
<1>5. Cardinality(E) <= RetryCap
  BY <1>2, <1>3, <1>4
<1>6. E \subseteq Entry
  BY <1>1
<1>7. LastOf(E, RetryCap) = E
  BY <1>2, <1>3, <1>5, <1>6, LastOfAll
<1>8. QED BY <1>7 DEF RetryRecorded, E

\* Counts of retransmissions only grow, up to MaxRetries.
LEMMA ResendOK ==
    ASSUME resent \in [FrameKey -> 0 .. MaxRetries], NEW F, Resend(F)
    PROVE  /\ resent' \in [FrameKey -> 0 .. MaxRetries]
           /\ \A k \in FrameKey : resent[k] <= resent'[k]
           /\ \A k \in FrameKey : (\E f \in F : KeyOf(f) = k) =>
                  resent'[k] >= MaxRetries \/ resent'[k] = resent[k] + 1
<1>1. MaxRetries \in Nat
  BY AckAssumption
<1>2. ASSUME NEW k \in FrameKey
      PROVE  /\ resent'[k] \in 0 .. MaxRetries /\ resent[k] <= resent'[k]
             /\ (\E f \in F : KeyOf(f) = k) => resent'[k] >= MaxRetries \/ resent'[k] = resent[k] + 1
  <2>1. resent[k] \in 0 .. MaxRetries
    OBVIOUS
  <2>2. resent'[k] = IF (\E f \in F : KeyOf(f) = k) /\ resent[k] < MaxRetries
                     THEN resent[k] + 1 ELSE resent[k]
    BY DEF Resend
  <2>3. QED BY <1>1, <2>1, <2>2
<1>3. QED BY <1>2 DEF Resend
=============================================================================
