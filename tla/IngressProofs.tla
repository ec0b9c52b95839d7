---------------------------- MODULE IngressProofs ----------------------------
(***************************************************************************)
(* Proofs about the message queue (MessageQueue) and the receive pipeline  *)
(* that is built on it (Ingress), for every set of messages, every number  *)
(* of consumers and every pair of capacities.                              *)
(*                                                                         *)
(* First the queue: where its messages are in the ring, that its consumers *)
(* are woken, that it is a bounded FIFO queue.  Then the pipeline: who     *)
(* owns a buffer, what the unlocked fallback counter counts, in which      *)
(* order the datagrams of a port are queued, and what is left when         *)
(* krs_server_stop has run.  The second part uses the first through the    *)
(* fact that every step of the pipeline is a step of the queue or leaves   *)
(* it alone.                                                               *)
(***************************************************************************)
EXTENDS Ingress, SequenceTheorems, FiniteSetTheorems, FunctionTheorems,
        WellFoundedInduction, NaturalsInduction, TLAPS

-----------------------------------------------------------------------------
(* THE MESSAGE QUEUE.                                                      *)

(***************************************************************************)
(* The remainders that ring indices meet are at most one lap away.         *)
(***************************************************************************)

\* Below the capacity an index is its own remainder.
LEMMA ModSmall ==
    ASSUME NEW c \in Nat \ {0}, NEW x \in 0 .. c - 1
    PROVE  x % c = x
BY SMT

\* In the second lap the remainder is the distance past the capacity.
LEMMA ModWrap ==
    ASSUME NEW c \in Nat \ {0}, NEW x \in c .. 2 * c - 1
    PROVE  x % c = x - c
BY SMT

\* The sum of a slot number and an offset, with the wrap written out.
LEMMA ModSum ==
    ASSUME NEW c \in Nat \ {0}, NEW h \in 0 .. c - 1, NEW i \in 0 .. c
    PROVE  /\ (h + i) % c = IF h + i < c THEN h + i ELSE h + i - c
           /\ (h + i) % c \in 0 .. c - 1
<1>1. CASE h + i < c
  <2>1. h + i \in 0 .. c - 1
    BY <1>1
  <2>2. QED BY <1>1, <2>1, ModSmall
<1>2. CASE h + i >= c
  <2>1. h + i \in c .. 2 * c - 1
    BY <1>2
  <2>2. (h + i) % c = h + i - c
    BY <2>1, ModWrap
  <2>3. QED BY <1>2, <2>1, <2>2
<1>3. QED BY <1>1, <1>2

\* Facts about the capacity, and the value of every slot index in use.
LEMMA SlotValue ==
    ASSUME QTypeOK
    PROVE  /\ capacity \in Nat \ {0}
           /\ \A i \in 0 .. capacity :
                 /\ Slot(i) = IF head + i < capacity THEN head + i
                                                     ELSE head + i - capacity
                 /\ Slot(i) \in 0 .. capacity - 1
           /\ (head + 1) % capacity = Slot(1)
           /\ (tail + 1) % capacity = IF tail + 1 < capacity THEN tail + 1 ELSE 0
<1>1. capacity \in Nat \ {0} /\ head \in 0 .. capacity - 1 /\ tail \in 0 .. capacity - 1
  BY QueueAssumption DEF QueueAssumption, QTypeOK
<1>2. ASSUME NEW i \in 0 .. capacity
      PROVE  /\ Slot(i) = IF head + i < capacity THEN head + i ELSE head + i - capacity
             /\ Slot(i) \in 0 .. capacity - 1
  BY <1>1, ModSum DEF Slot
<1>3. (tail + 1) % capacity = IF tail + 1 < capacity THEN tail + 1 ELSE 0
  <2>1. (tail + 1) % capacity = IF tail + 1 < capacity THEN tail + 1 ELSE tail + 1 - capacity
    BY <1>1, ModSum, 1 \in 0 .. capacity
  <2>2. QED BY <1>1, <2>1
<1>4. QED BY <1>1, <1>2, <1>3 DEF Slot

\* The slot i after the next head is the slot i + 1 after the head.
LEMMA SlotShift ==
    ASSUME QTypeOK, NEW i \in 0 .. capacity - 1
    PROVE  (Slot(1) + i) % capacity = Slot(i + 1) /\ i + 1 \in 0 .. capacity
<1>0. capacity \in Nat \ {0} /\ head \in 0 .. capacity - 1
  BY QueueAssumption DEF QueueAssumption, QTypeOK
<1>1. i + 1 \in 0 .. capacity /\ i \in 0 .. capacity /\ 1 \in 0 .. capacity
  BY <1>0
<1>2. Slot(i + 1) = IF head + (i + 1) < capacity THEN head + (i + 1)
                    ELSE head + (i + 1) - capacity
  BY <1>1, SlotValue
<1>3. Slot(1) = (IF head + 1 < capacity THEN head + 1 ELSE head + 1 - capacity)
      /\ Slot(1) \in 0 .. capacity - 1
  BY <1>1, SlotValue
<1>4. (Slot(1) + i) % capacity = IF Slot(1) + i < capacity THEN Slot(1) + i
                                 ELSE Slot(1) + i - capacity
  BY <1>0, <1>1, <1>3, ModSum
<1>5. CASE head + 1 < capacity
  <2>1. Slot(1) + i = head + (i + 1)
    BY <1>0, <1>3, <1>5
  <2>2. QED BY <1>1, <2>1 DEF Slot
<1>6. CASE ~(head + 1 < capacity)
  <2>1. Slot(1) = 0 /\ head = capacity - 1
    BY <1>0, <1>3, <1>6
  <2>2. (Slot(1) + i) % capacity = i
    BY <1>0, <1>4, <2>1
  <2>3. Slot(i + 1) = i
    BY <1>0, <1>1, <1>2, <2>1
  <2>4. QED BY <1>1, <2>2, <2>3
<1>7. QED BY <1>5, <1>6

\* push never writes on a live message: the tail slot is free, or, in a full
\* ring, holds the oldest message only.
LEMMA TailFree ==
    ASSUME QTypeOK, RingConsistent
    PROVE  /\ count < capacity => \A i \in 0 .. count - 1 : Slot(i) # tail
           /\ count = capacity => \A i \in 1 .. count - 1 : Slot(i) # tail
<1>0. capacity \in Nat \ {0} /\ head \in 0 .. capacity - 1 /\ count \in 0 .. capacity
  BY QueueAssumption DEF QueueAssumption, QTypeOK
<1>1. tail = IF head + count < capacity THEN head + count ELSE head + count - capacity
  BY <1>0, ModSum DEF RingConsistent
<1>2. ASSUME NEW i \in 0 .. count - 1
      PROVE  Slot(i) = IF head + i < capacity THEN head + i ELSE head + i - capacity
  BY <1>0, SlotValue
<1>3. ASSUME count < capacity, NEW i \in 0 .. count - 1 PROVE Slot(i) # tail
  BY <1>0, <1>1, <1>2, <1>3
<1>4. ASSUME count = capacity, NEW i \in 1 .. count - 1 PROVE Slot(i) # tail
  <2>1. i \in 0 .. count - 1
    BY <1>0
  <2>2. Slot(i) = IF head + i < capacity THEN head + i ELSE head + i - capacity
    BY <1>2, <2>1
  <2>3. QED BY <1>0, <1>1, <1>4, <2>2
<1>5. QED BY <1>3, <1>4

\* A grown ring is larger than the full one it replaces and within bounds.
LEMMA GrownBounds ==
    ASSUME QTypeOK, capacity < MaxCapacity
    PROVE  /\ GrownCapacity \in InitialCapacity .. MaxCapacity
           /\ capacity < GrownCapacity
BY QueueAssumption DEF QueueAssumption, QTypeOK, GrownCapacity

\* WakeConditionVariable only takes threads out of the set of sleepers.
LEMMA WakeOneType ==
    ASSUME QTypeOK, WakeOne
    PROVE  asleep' \subseteq asleep
BY DEF QTypeOK, WakeOne
-----------------------------------------------------------------------------
(***************************************************************************)
(* Type correctness: the indices never leave the allocated array.          *)
(***************************************************************************)

\* krs_message_queue_create starts from a well-typed queue.
LEMMA TypeInit == QInit => QTypeOK
<1> SUFFICES ASSUME QInit PROVE QTypeOK
  OBVIOUS
<1>1. stopped \in BOOLEAN /\ asleep \subseteq Consumers
  BY DEF QInit
<1>2. hold \in [Consumers -> Msg \cup {NoMsg}]
  BY DEF QInit
<1>3. /\ capacity \in InitialCapacity .. MaxCapacity
      /\ head \in 0 .. capacity - 1 /\ tail \in 0 .. capacity - 1
      /\ count \in 0 .. capacity
  BY QueueAssumption DEF QueueAssumption, QInit
<1>4. items \in [0 .. capacity - 1 -> Msg \cup {NoMsg}]
  BY DEF QInit
<1>5. QED BY <1>1, <1>2, <1>3, <1>4 DEF QTypeOK

\* Every queue operation keeps the types: indices stay inside the array.
LEMMA TypeStep == QTypeOK /\ [QNext]_qvars => QTypeOK'
<1> SUFFICES ASSUME QTypeOK, [QNext]_qvars PROVE QTypeOK'
  OBVIOUS
<1> USE QueueAssumption DEF QueueAssumption
<1>0. capacity \in Nat \ {0} /\ Slot(1) \in 0 .. capacity - 1
      /\ (head + 1) % capacity = Slot(1)
      /\ (tail + 1) % capacity \in 0 .. capacity - 1
  BY SlotValue DEF QTypeOK
<1>1. ASSUME NEW m \in Msg, PushRoom(m) PROVE QTypeOK'
  BY <1>0, <1>1, WakeOneType DEF PushRoom, QTypeOK
<1>2. ASSUME NEW m \in Msg, PushDropOldest(m) PROVE QTypeOK'
  BY <1>0, <1>2, WakeOneType DEF PushDropOldest, DropOldest, QTypeOK
<1>3. ASSUME NEW m \in Msg, PushGrow(m) PROVE QTypeOK'
  <2>1. GrownCapacity \in InitialCapacity .. MaxCapacity /\ capacity < GrownCapacity
    BY <1>3, GrownBounds DEF PushGrow
  <2>2. items' \in [0 .. GrownCapacity - 1 -> Msg \cup {NoMsg}]
    <3>1. \A i \in 0 .. GrownCapacity - 1 : i < count => Copied(i) \in Msg \cup {NoMsg}
      BY <1>0, <1>3, SlotValue DEF QTypeOK, Copied, PushGrow
    <3>2. QED BY <1>3, <3>1 DEF PushGrow
  <2>3. tail' \in 0 .. GrownCapacity - 1
    <3>1. count + 1 \in Nat /\ GrownCapacity \in Nat \ {0}
      BY <2>1 DEF QTypeOK
    <3>2. QED BY <1>3, <3>1 DEF PushGrow
  <2>4. QED BY <1>0, <1>3, <2>1, <2>2, <2>3, WakeOneType DEF PushGrow, QTypeOK
<1>4. ASSUME NEW m \in Msg, PushRefused(m) PROVE QTypeOK'
  BY <1>4 DEF PushRefused, QTypeOK, qvars
<1>5. ASSUME NEW c \in Consumers, PopTake(c) PROVE QTypeOK'
  BY <1>0, <1>5 DEF PopTake, QTypeOK
<1>6. ASSUME NEW c \in Consumers, PopSleep(c) PROVE QTypeOK'
  BY <1>6 DEF PopSleep, QTypeOK, ring
<1>7. ASSUME NEW c \in Consumers, PopWakes(c) PROVE QTypeOK'
  BY <1>7 DEF PopWakes, QTypeOK, ring
<1>8. ASSUME NEW c \in Consumers, Finish(c) PROVE QTypeOK'
  BY <1>8 DEF Finish, QTypeOK, ring
<1>9. CASE Stop
  BY <1>9 DEF Stop, QTypeOK, ring
<1>10. CASE Drain
  BY <1>0, <1>10 DEF Drain, QTypeOK
<1>11. CASE UNCHANGED qvars
  BY <1>11 DEF qvars, QTypeOK
<1>12. QED
  BY <1>1, <1>2, <1>3, <1>4, <1>5, <1>6, <1>7, <1>8, <1>9, <1>10, <1>11 DEF QNext, Push

\* The queue's fields keep their types: head and tail never index outside
\* the array push and pop use, count never passes the capacity, and growth
\* never passes MaxCapacity (message_queue.c, all operations).
THEOREM TypeCorrect == QSpec => []QTypeOK
BY TypeInit, TypeStep, PTL DEF QSpec
-----------------------------------------------------------------------------
(***************************************************************************)
(* The inductive invariant.  LiveSlotsWritten needs RingConsistent: only   *)
(* because tail is the slot after the newest message does push extend the  *)
(* written part of the ring.                                               *)
(***************************************************************************)

\* The inductive invariant: head, tail and count agree, live slots were
\* written, no wake-up is lost and a stopped queue holds no sleeper.
QInv ==
    /\ QTypeOK
    /\ RingConsistent
    /\ LiveSlotsWritten
    /\ NoLostWakeup
    /\ StopReleasesAll

\* Every operation keeps tail one count past head, modulo the capacity.
LEMMA RingStep ==
    ASSUME QTypeOK, RingConsistent, [QNext]_qvars
    PROVE  RingConsistent'
<1> USE QueueAssumption DEF QueueAssumption
<1>0. /\ capacity \in Nat \ {0} /\ head \in 0 .. capacity - 1 /\ count \in 0 .. capacity
      /\ tail = IF head + count < capacity THEN head + count ELSE head + count - capacity
      /\ (head + 1) % capacity = IF head + 1 < capacity THEN head + 1 ELSE 0
      /\ (tail + 1) % capacity = IF tail + 1 < capacity THEN tail + 1 ELSE 0
  <2>1. capacity \in Nat \ {0} /\ head \in 0 .. capacity - 1 /\ count \in 0 .. capacity
    BY DEF QTypeOK
  <2>2. tail = IF head + count < capacity THEN head + count ELSE head + count - capacity
    BY <2>1, ModSum DEF RingConsistent
  <2>3. (head + 1) % capacity = IF head + 1 < capacity THEN head + 1 ELSE head + 1 - capacity
    BY <2>1, ModSum, 1 \in 0 .. capacity
  <2>4. QED BY <2>1, <2>2, <2>3, SlotValue
<1>1. ASSUME NEW m \in Msg, PushRoom(m) PROVE RingConsistent'
  <2>1. (head + (count + 1)) % capacity = IF head + (count + 1) < capacity
            THEN head + (count + 1) ELSE head + (count + 1) - capacity
    BY <1>0, <1>1, ModSum, count + 1 \in 0 .. capacity DEF PushRoom
  <2>2. (head + (count + 1)) % capacity = (tail + 1) % capacity
    BY <1>0, <2>1
  <2>3. QED BY <1>1, <2>2 DEF PushRoom, RingConsistent
<1>2. ASSUME NEW m \in Msg, PushDropOldest(m) PROVE RingConsistent'
  <2>1. head = tail /\ (head + 1) % capacity \in 0 .. capacity - 1
    BY <1>0, <1>2 DEF PushDropOldest
  <2>2. (((head + 1) % capacity) + capacity) % capacity = (head + 1) % capacity
    <3> DEFINE h == (head + 1) % capacity
    <3>1. (h + capacity) % capacity = IF h + capacity < capacity THEN h + capacity
                                      ELSE h + capacity - capacity
      BY <1>0, <2>1, ModSum, capacity \in 0 .. capacity
    <3> HIDE DEF h
    <3>2. QED BY <1>0, <2>1, <3>1 DEF h
  <2>3. QED BY <1>2, <2>1, <2>2 DEF PushDropOldest, DropOldest, RingConsistent
<1>3. ASSUME NEW m \in Msg, PushGrow(m) PROVE RingConsistent'
  <2>1. head' + count' = count + 1
    BY <1>0, <1>3 DEF PushGrow
  <2>2. tail' = (count + 1) % capacity'
    BY <1>3 DEF PushGrow
  <2>3. QED BY <2>1, <2>2 DEF RingConsistent
<1>4. ASSUME NEW c \in Consumers, PopTake(c) PROVE RingConsistent'
  <2> DEFINE h == (head + 1) % capacity
  <2>1. h = IF head + 1 < capacity THEN head + 1 ELSE 0
    BY <1>0
  <2>2. h \in 0 .. capacity - 1 /\ count - 1 \in 0 .. capacity
    BY <1>0, <1>4 DEF PopTake
  <2> HIDE DEF h
  <2>3. (h + (count - 1)) % capacity = IF h + (count - 1) < capacity THEN h + (count - 1)
                                       ELSE h + (count - 1) - capacity
    BY <1>0, <2>2, ModSum
  <2>4. (h + (count - 1)) % capacity = tail
    BY <1>0, <1>4, <2>1, <2>2, <2>3 DEF PopTake
  <2>5. QED BY <1>4, <2>4 DEF PopTake, RingConsistent, h
<1>5. ASSUME UNCHANGED ring PROVE RingConsistent'
  BY <1>5 DEF ring, RingConsistent
<1>6. CASE Drain
  BY <1>0, <1>6, ModSmall DEF Drain, RingConsistent
<1>7. QED
  BY <1>1, <1>2, <1>3, <1>4, <1>5, <1>6
  DEF QNext, Push, PushRefused, PopSleep, PopWakes, Finish, Stop, qvars, ring

\* Every operation keeps the slots from head to tail written.
LEMMA LiveStep ==
    ASSUME QTypeOK, RingConsistent, LiveSlotsWritten, [QNext]_qvars
    PROVE  LiveSlotsWritten'
<1> USE QueueAssumption DEF QueueAssumption
<1>0. /\ capacity \in Nat \ {0} /\ head \in 0 .. capacity - 1 /\ count \in 0 .. capacity
      /\ items \in [0 .. capacity - 1 -> Msg \cup {NoMsg}]
      /\ tail \in 0 .. capacity - 1
  BY DEF QTypeOK
<1>1. \A i \in 0 .. capacity :
         /\ Slot(i) = IF head + i < capacity THEN head + i ELSE head + i - capacity
         /\ Slot(i) \in 0 .. capacity - 1
  BY SlotValue
<1>2. \A i \in 0 .. count - 1 : items[Slot(i)] \in Msg
  BY DEF LiveSlotsWritten
<1>3. tail = Slot(count)
  BY DEF RingConsistent, Slot
<1>4. \A i \in 0 .. capacity - 1 :
         (Slot(1) + i) % capacity = Slot(i + 1) /\ i + 1 \in 0 .. capacity
  BY <1>0, SlotShift
<1>5. ASSUME NEW m \in Msg, PushRoom(m) PROVE LiveSlotsWritten'
  <2> SUFFICES ASSUME NEW i \in 0 .. count PROVE items'[Slot(i)] \in Msg
    <3>1. count' - 1 = count /\ head' = head /\ capacity' = capacity
      BY <1>0, <1>5 DEF PushRoom
    <3>2. QED BY <3>1 DEF LiveSlotsWritten, Slot
  <2>1. CASE i = count
    BY <1>0, <1>3, <1>5, <2>1 DEF PushRoom
  <2>2. CASE i # count
    <3>1. i \in 0 .. count - 1 /\ i \in 0 .. capacity /\ count < capacity
      BY <1>0, <1>5, <2>2 DEF PushRoom
    <3>2. Slot(i) \in 0 .. capacity - 1 /\ Slot(i) # tail
      BY <1>1, <3>1, TailFree
    <3>3. QED BY <1>0, <1>2, <1>5, <3>1, <3>2 DEF PushRoom
  <2>3. QED BY <2>1, <2>2
<1>6. ASSUME NEW m \in Msg, PushDropOldest(m) PROVE LiveSlotsWritten'
  <2>1. count = capacity
    BY <1>6 DEF PushDropOldest
  <2> SUFFICES ASSUME NEW i \in 0 .. capacity - 1
               PROVE  items'[(Slot(1) + i) % capacity] \in Msg
    BY <1>0, <1>6, <2>1, SlotValue DEF PushDropOldest, DropOldest, LiveSlotsWritten, Slot
  <2>2. (Slot(1) + i) % capacity = Slot(i + 1) /\ i + 1 \in 0 .. capacity
    BY <1>4
  <2>3. CASE i + 1 = capacity
    <3>1. Slot(i + 1) = tail
      BY <1>3, <2>1, <2>3
    <3>2. QED BY <1>0, <1>6, <2>2, <3>1 DEF PushDropOldest
  <2>4. CASE i + 1 # capacity
    <3>1. i + 1 \in 1 .. count - 1 /\ i + 1 \in 0 .. count - 1
      BY <1>0, <2>1, <2>2, <2>4
    <3>2. Slot(i + 1) # tail /\ Slot(i + 1) \in 0 .. capacity - 1
      BY <1>1, <2>1, <2>2, <3>1, TailFree
    <3>3. items[Slot(i + 1)] \in Msg
      BY <1>2, <3>1
    <3>4. QED BY <1>0, <1>6, <2>2, <3>2, <3>3 DEF PushDropOldest
  <2>5. QED BY <2>3, <2>4
<1>7. ASSUME NEW m \in Msg, PushGrow(m) PROVE LiveSlotsWritten'
  <2>1. GrownCapacity \in Nat \ {0} /\ count < GrownCapacity /\ count = capacity
    BY <1>0, <1>7, GrownBounds DEF PushGrow
  <2> SUFFICES ASSUME NEW i \in 0 .. count PROVE items'[(0 + i) % GrownCapacity] \in Msg
    BY <1>0, <1>7 DEF PushGrow, LiveSlotsWritten, Slot
  <2>2. (0 + i) % GrownCapacity = i /\ i \in 0 .. GrownCapacity - 1
    BY <1>0, <2>1, ModSmall
  <2>3. items'[i] = IF i < count THEN Copied(i) ELSE IF i = count THEN m ELSE NoMsg
    BY <1>7, <2>2 DEF PushGrow
  <2>4. CASE i = count
    BY <1>0, <2>2, <2>3, <2>4
  <2>5. CASE i # count
    <3>1. i \in 0 .. count - 1 /\ i < count
      BY <1>0, <2>5
    <3>2. QED BY <1>2, <2>2, <2>3, <3>1 DEF Copied
  <2>6. QED BY <2>4, <2>5
<1>8. ASSUME NEW c \in Consumers, PopTake(c) PROVE LiveSlotsWritten'
  <2> SUFFICES ASSUME NEW i \in 0 .. (count - 1) - 1
               PROVE  items[(Slot(1) + i) % capacity] \in Msg
    BY <1>8, SlotValue DEF PopTake, LiveSlotsWritten, Slot
  <2>1. i \in 0 .. capacity - 1 /\ i + 1 \in 0 .. count - 1
    BY <1>0
  <2>2. QED BY <1>2, <1>4, <2>1
<1>9. ASSUME UNCHANGED ring PROVE LiveSlotsWritten'
  BY <1>9 DEF ring, LiveSlotsWritten, Slot
<1>10. CASE Drain
  BY <1>10 DEF Drain, LiveSlotsWritten
<1>11. QED
  BY <1>5, <1>6, <1>7, <1>8, <1>9, <1>10
  DEF QNext, Push, PushRefused, PopSleep, PopWakes, Finish, Stop, qvars, ring

\* No operation leaves all handlers asleep beside a queued message, or any
\* handler asleep in a stopped queue.
LEMMA WakeStep ==
    ASSUME QTypeOK, NoLostWakeup, StopReleasesAll, [QNext]_qvars
    PROVE  NoLostWakeup' /\ StopReleasesAll'
<1> USE QueueAssumption DEF QueueAssumption
<1>0. asleep \subseteq Consumers /\ count \in Nat
  BY DEF QTypeOK
<1>1. ASSUME WakeOne, stopped' = stopped PROVE NoLostWakeup' /\ StopReleasesAll'
  <2>1. CASE asleep = {}
    BY <1>0, <1>1, <2>1 DEF WakeOne, NoLostWakeup, StopReleasesAll
  <2>2. CASE asleep # {}
    <3>1. PICK c \in asleep : asleep' = asleep \ {c}
      BY <1>1, <2>2 DEF WakeOne
    <3>2. c \in Consumers /\ c \notin asleep'
      BY <1>0, <3>1
    <3>3. asleep' # Consumers /\ (asleep = {} => asleep' = {})
      BY <3>1, <3>2
    <3>4. QED BY <1>1, <3>3 DEF NoLostWakeup, StopReleasesAll
  <2>3. QED BY <2>1, <2>2
<1>2. ASSUME NEW m \in Msg, Push(m) PROVE NoLostWakeup' /\ StopReleasesAll'
  BY <1>1, <1>2
  DEF Push, PushRoom, PushDropOldest, PushGrow, PushRefused, qvars, NoLostWakeup, StopReleasesAll
<1>3. ASSUME NEW c \in Consumers, PopTake(c) PROVE NoLostWakeup' /\ StopReleasesAll'
  BY <1>0, <1>3 DEF PopTake, NoLostWakeup, StopReleasesAll
<1>4. ASSUME NEW c \in Consumers, PopSleep(c) PROVE NoLostWakeup' /\ StopReleasesAll'
  BY <1>4 DEF PopSleep, ring, NoLostWakeup, StopReleasesAll
<1>5. ASSUME NEW c \in Consumers, PopWakes(c) PROVE NoLostWakeup' /\ StopReleasesAll'
  BY <1>0, <1>5 DEF PopWakes, ring, NoLostWakeup, StopReleasesAll
<1>6. ASSUME NEW c \in Consumers, Finish(c) PROVE NoLostWakeup' /\ StopReleasesAll'
  BY <1>6 DEF Finish, ring, NoLostWakeup, StopReleasesAll
<1>7. CASE Stop
  BY <1>7 DEF Stop, ring, NoLostWakeup, StopReleasesAll
<1>8. CASE Drain
  BY <1>8 DEF Drain, NoLostWakeup, StopReleasesAll
<1>9. CASE UNCHANGED qvars
  BY <1>9 DEF qvars, NoLostWakeup, StopReleasesAll
<1>10. QED BY <1>2, <1>3, <1>4, <1>5, <1>6, <1>7, <1>8, <1>9 DEF QNext

\* The queue krs_message_queue_create returns satisfies the invariant.
LEMMA QueueStarts == QInit => QInv
<1> SUFFICES ASSUME QInit PROVE QInv
  OBVIOUS
<1>1. QTypeOK
  BY TypeInit
<1>2. RingConsistent
  BY QueueAssumption, ModSmall DEF QueueAssumption, QInit, RingConsistent
<1>3. LiveSlotsWritten /\ NoLostWakeup /\ StopReleasesAll
  BY DEF QInit, LiveSlotsWritten, NoLostWakeup, StopReleasesAll
<1>4. QED BY <1>1, <1>2, <1>3 DEF QInv

\* The ring never loses its shape, never exposes an unwritten slot, never
\* leaves every handler asleep while a message waits, and after
\* krs_message_queue_stop leaves none asleep (message_queue.c, all operations).
THEOREM QueueInvariant == QSpec => []QInv
<1>1. QInit => QInv
  BY QueueStarts
<1>2. QInv /\ [QNext]_qvars => QInv'
  BY TypeStep, RingStep, LiveStep, WakeStep DEF QInv
<1>3. QED BY <1>1, <1>2, PTL DEF QSpec

\* No handler thread sleeps through a queued message (message_queue.c, the
\* WakeConditionVariable of push against the while loop of pop).
THEOREM WakeupNotLost == QSpec => []NoLostWakeup
<1>1. QInv => NoLostWakeup
  BY DEF QInv
<1>2. QED BY <1>1, QueueInvariant, PTL

\* Every slot pop reads was written by push, across every growth.
THEOREM LiveSlots == QSpec => []LiveSlotsWritten
<1>1. QInv => LiveSlotsWritten
  BY DEF QInv
<1>2. QED BY <1>1, QueueInvariant, PTL

\* Head, tail and count describe one and the same window of the ring.
THEOREM RingCorrect == QSpec => []RingConsistent
<1>1. QInv => RingConsistent
  BY DEF QInv
<1>2. QED BY <1>1, QueueInvariant, PTL

\* After krs_message_queue_stop no handler thread is left waiting.
THEOREM StopWakesAll == QSpec => []StopReleasesAll
<1>1. QInv => StopReleasesAll
  BY DEF QInv
<1>2. QED BY <1>1, QueueInvariant, PTL
-----------------------------------------------------------------------------
(***************************************************************************)
(* Refinement: Contents is the abstract queue.  Three facts about          *)
(* sequences given as functions come first.                                *)
(***************************************************************************)

\* A function on 1 .. n is a sequence of length n.
LEMMA FcnIsSeq ==
    ASSUME NEW S, NEW n \in Nat, NEW f \in [1 .. n -> S]
    PROVE  f \in Seq(S) /\ Len(f) = n
BY SMT

\* A function that extends a sequence by one element is its Append.
LEMMA IsAppend ==
    ASSUME NEW S, NEW n \in Nat, NEW s \in [1 .. n -> S], NEW e \in S,
           NEW t \in [1 .. n + 1 -> S],
           \A i \in 1 .. n : t[i] = s[i],
           t[n + 1] = e
    PROVE  t = Append(s, e)
<1>1. s \in Seq(S) /\ Len(s) = n
  BY FcnIsSeq
<1>2. t \in Seq(S) /\ Len(t) = n + 1
  BY FcnIsSeq
<1>3. /\ Append(s, e) \in Seq(S)
      /\ Len(Append(s, e)) = n + 1
      /\ \A i \in 1 .. n : Append(s, e)[i] = s[i]
      /\ Append(s, e)[n + 1] = e
  BY <1>1, AppendProperties
<1>4. \A i \in 1 .. n + 1 : t[i] = Append(s, e)[i]
  BY <1>3
<1>5. QED BY <1>2, <1>3, <1>4, SeqEqual

\* A function that drops the first element of a sequence is its Tail.
LEMMA IsTail ==
    ASSUME NEW S, NEW n \in Nat \ {0}, NEW s \in [1 .. n -> S],
           NEW t \in [1 .. n - 1 -> S],
           \A i \in 1 .. n - 1 : t[i] = s[i + 1]
    PROVE  t = Tail(s) /\ Head(s) = s[1] /\ s # <<>>
<1>1. s \in Seq(S) /\ Len(s) = n
  BY FcnIsSeq
<1>2. Head(s) = s[1] /\ s # <<>>
  BY <1>1
<1>3. t \in Seq(S) /\ Len(t) = n - 1
  BY FcnIsSeq
<1>4. /\ Tail(s) \in Seq(S)
      /\ Len(Tail(s)) = n - 1
      /\ \A i \in 1 .. n - 1 : Tail(s)[i] = s[i + 1]
  BY <1>1, <1>2, HeadTailProperties
<1>5. t = Tail(s)
  BY <1>3, <1>4, SeqEqual
<1>6. QED BY <1>2, <1>5

\* The queue read from head to tail is a sequence of count messages.
LEMMA ContentsFcn ==
    ASSUME QInv
    PROVE  /\ count \in Nat
           /\ Contents \in [1 .. count -> Msg]
           /\ Contents \in Seq(Msg) /\ Len(Contents) = count
<1>1. count \in Nat
  BY QueueAssumption DEF QueueAssumption, QInv, QTypeOK
<1>2. \A i \in 1 .. count : i - 1 \in 0 .. count - 1
  BY <1>1
<1>3. Contents \in [1 .. count -> Msg]
  BY <1>2 DEF Contents, QInv, LiveSlotsWritten
<1>4. QED BY <1>1, <1>3, FcnIsSeq

\* A new ring is an empty queue.
LEMMA RefineInit == QInit => Fifo!Init
<1> SUFFICES ASSUME QInit PROVE Fifo!Init
  OBVIOUS
<1>1. count = 0 /\ hold = [c \in Consumers |-> NoMsg]
  BY DEF QInit
<1>2. Contents = <<>>
  BY <1>1 DEF Contents
<1>3. QED BY <1>1, <1>2 DEF Fifo!Init

\* What QInv says of the ring, in the form the four lemmas below use it.
LEMMA RingFacts ==
    ASSUME QInv
    PROVE  /\ capacity \in Nat \ {0} /\ head \in 0 .. capacity - 1 /\ count \in 0 .. capacity
           /\ items \in [0 .. capacity - 1 -> Msg \cup {NoMsg}]
           /\ tail \in 0 .. capacity - 1 /\ capacity <= MaxCapacity
           /\ QTypeOK /\ RingConsistent
           /\ hold \in [Consumers -> Msg \cup {NoMsg}]
           /\ count \in Nat /\ Contents \in [1 .. count -> Msg]
           /\ Contents \in Seq(Msg) /\ Len(Contents) = count
           /\ \A i \in 1 .. count : Contents[i] = items[Slot(i - 1)] /\ items[Slot(i - 1)] \in Msg
           /\ \A i \in 0 .. capacity : Slot(i) \in 0 .. capacity - 1
           /\ tail = Slot(count)
<1> USE QueueAssumption DEF QueueAssumption
<1>0. /\ capacity \in Nat \ {0} /\ head \in 0 .. capacity - 1 /\ count \in 0 .. capacity
      /\ items \in [0 .. capacity - 1 -> Msg \cup {NoMsg}]
      /\ tail \in 0 .. capacity - 1 /\ capacity <= MaxCapacity
      /\ QTypeOK /\ RingConsistent
      /\ hold \in [Consumers -> Msg \cup {NoMsg}]
  BY DEF QInv, QTypeOK
<1>1. /\ count \in Nat /\ Contents \in [1 .. count -> Msg]
      /\ Contents \in Seq(Msg) /\ Len(Contents) = count
  BY ContentsFcn
<1>2. \A i \in 1 .. count : Contents[i] = items[Slot(i - 1)] /\ items[Slot(i - 1)] \in Msg
  BY <1>1 DEF Contents
<1>3. \A i \in 0 .. capacity : Slot(i) \in 0 .. capacity - 1
  BY SlotValue, <1>0
<1>4. tail = Slot(count)
  BY <1>0 DEF RingConsistent, Slot
<1>5. QED BY <1>0, <1>1, <1>2, <1>3, <1>4

\* A push that finds room appends its message.
LEMMA RoomEnqueues ==
    ASSUME QInv, NEW m \in Msg, PushRoom(m)
    PROVE  Fifo!Enqueue(m)
<1> USE QueueAssumption DEF QueueAssumption
<1>0. /\ capacity \in Nat \ {0} /\ head \in 0 .. capacity - 1 /\ count \in 0 .. capacity
      /\ items \in [0 .. capacity - 1 -> Msg \cup {NoMsg}]
      /\ tail \in 0 .. capacity - 1 /\ capacity <= MaxCapacity
      /\ QTypeOK /\ RingConsistent
      /\ hold \in [Consumers -> Msg \cup {NoMsg}]
  BY RingFacts
<1>1. /\ count \in Nat /\ Contents \in [1 .. count -> Msg]
      /\ Contents \in Seq(Msg) /\ Len(Contents) = count
  BY RingFacts
<1>2. \A i \in 1 .. count : Contents[i] = items[Slot(i - 1)] /\ items[Slot(i - 1)] \in Msg
  BY RingFacts
<1>3. \A i \in 0 .. capacity : Slot(i) \in 0 .. capacity - 1
  BY RingFacts
<1>4. tail = Slot(count)
  BY RingFacts
<1>5. PushRoom(m)
  OBVIOUS
<1>6. QED
  <2> DEFINE T == [i \in 1 .. count + 1 |-> items'[Slot(i - 1)]]
  <2>1. Contents' = T
    BY <1>5 DEF PushRoom, Contents, Slot
  <2>2. \A i \in 1 .. count : T[i] = Contents[i]
    <3> SUFFICES ASSUME NEW i \in 1 .. count PROVE T[i] = Contents[i]
      OBVIOUS
    <3>0. T[i] = items'[Slot(i - 1)] /\ Contents[i] = items[Slot(i - 1)]
      BY <1>1, <1>2
    <3>1. i - 1 \in 0 .. count - 1 /\ i - 1 \in 0 .. capacity
      BY <1>0
    <3>2. Slot(i - 1) # tail /\ Slot(i - 1) \in 0 .. capacity - 1
      BY <1>0, <1>3, <1>5, <3>1, TailFree DEF PushRoom
    <3>3. QED BY <1>0, <1>5, <3>0, <3>2 DEF PushRoom
  <2>3. T[count + 1] = m
    <3>1. T[count + 1] = items'[Slot((count + 1) - 1)]
      BY <1>1
    <3>2. (count + 1) - 1 = count
      BY <1>1
    <3>3. QED BY <1>0, <1>4, <1>5, <3>1, <3>2 DEF PushRoom
  <2>4. T \in [1 .. count + 1 -> Msg]
    <3>1. \A i \in 1 .. count + 1 : T[i] \in Msg
      <4> HIDE DEF T
      <4> TAKE i \in 1 .. count + 1
      <4>1. CASE i = count + 1
        BY <1>1, <2>2, <2>3, <4>1
      <4>2. CASE i # count + 1
        <5>1. i \in 1 .. count + 1 - 1
          BY <1>1, <4>2
        <5>2. QED BY <1>1, <2>2, <2>3, <5>1
      <4>3. QED BY <4>1, <4>2
    <3>2. QED BY <3>1
  <2> HIDE DEF T
  <2>5. T = Append(Contents, m)
    BY <1>1, <2>2, <2>3, <2>4, IsAppend
  <2>6. Len(Contents) < MaxCapacity /\ hold' = hold
    BY <1>0, <1>1, <1>5 DEF PushRoom
  <2>7. QED BY <2>1, <2>5, <2>6 DEF Fifo!Enqueue

\* A push to a full ring drops the oldest message and appends its own.
LEMMA DropOverwrites ==
    ASSUME QInv, NEW m \in Msg, PushDropOldest(m)
    PROVE  Fifo!Overwrite(m)
<1> USE QueueAssumption DEF QueueAssumption
<1>0. /\ capacity \in Nat \ {0} /\ head \in 0 .. capacity - 1 /\ count \in 0 .. capacity
      /\ items \in [0 .. capacity - 1 -> Msg \cup {NoMsg}]
      /\ tail \in 0 .. capacity - 1 /\ capacity <= MaxCapacity
      /\ QTypeOK /\ RingConsistent
      /\ hold \in [Consumers -> Msg \cup {NoMsg}]
  BY RingFacts
<1>1. /\ count \in Nat /\ Contents \in [1 .. count -> Msg]
      /\ Contents \in Seq(Msg) /\ Len(Contents) = count
  BY RingFacts
<1>2. \A i \in 1 .. count : Contents[i] = items[Slot(i - 1)] /\ items[Slot(i - 1)] \in Msg
  BY RingFacts
<1>3. \A i \in 0 .. capacity : Slot(i) \in 0 .. capacity - 1
  BY RingFacts
<1>4. tail = Slot(count)
  BY RingFacts
<1>6. PushDropOldest(m)
  OBVIOUS
<1>7. QED
  <2>0. count = capacity /\ capacity = MaxCapacity /\ hold' = hold
    BY <1>0, <1>6 DEF PushDropOldest
  <2> DEFINE U == [i \in 1 .. count - 1 |-> Contents[i + 1]]
             T == [i \in 1 .. count |-> items'[(Slot(1) + (i - 1)) % capacity]]
  <2>1. Contents' = T
    BY <1>0, <1>6, SlotValue DEF PushDropOldest, DropOldest, Contents, Slot
  <2>2. U \in [1 .. count - 1 -> Msg] /\ \A i \in 1 .. count - 1 : U[i] = Contents[i + 1]
    BY <1>1
  <2>3. \A i \in 1 .. count : T[i] = items'[Slot(i)] /\ Slot(i) \in 0 .. capacity - 1
    <3> SUFFICES ASSUME NEW i \in 1 .. count
                 PROVE  T[i] = items'[Slot(i)] /\ Slot(i) \in 0 .. capacity - 1
      OBVIOUS
    <3>1. i - 1 \in 0 .. capacity - 1 /\ i \in 0 .. capacity /\ (i - 1) + 1 = i
      BY <1>0
    <3>2. (Slot(1) + (i - 1)) % capacity = Slot((i - 1) + 1)
      BY <1>0, <3>1, SlotShift
    <3>3. QED BY <1>3, <3>1, <3>2
  <2>4. T[count] = m
    BY <1>0, <1>1, <1>4, <1>6, <2>0, <2>3 DEF PushDropOldest
  <2>5. \A i \in 1 .. count - 1 : T[i] = U[i]
    <3> SUFFICES ASSUME NEW i \in 1 .. count - 1 PROVE T[i] = Contents[i + 1]
      BY <2>2
    <3>1. i \in 1 .. count /\ i + 1 \in 1 .. count /\ (i + 1) - 1 = i
      BY <1>0
    <3>2. Slot(i) # tail
      BY <1>0, <2>0, TailFree
    <3>3. Contents[i + 1] = items[Slot(i)]
      BY <1>2, <3>1
    <3>4. T[i] = items'[Slot(i)] /\ Slot(i) \in 0 .. capacity - 1
      BY <2>3, <3>1
    <3>5. QED BY <1>0, <1>6, <3>2, <3>3, <3>4 DEF PushDropOldest
  <2>6. T \in [1 .. count -> Msg]
    <3>1. \A i \in 1 .. count : T[i] \in Msg
      <4> HIDE DEF T
      <4> TAKE i \in 1 .. count
      <4>1. CASE i = count
        BY <2>2, <2>4, <2>5, <4>1
      <4>2. CASE i # count
        <5>1. i \in 1 .. count - 1
          BY <1>1, <4>2
        <5>2. QED BY <2>2, <2>4, <2>5, <5>1
      <4>3. QED BY <4>1, <4>2
    <3>2. QED BY <3>1
  <2> HIDE DEF T, U
  <2>7. U = Tail(Contents)
    BY <1>0, <1>1, <2>0, <2>2, IsTail
  <2>8. T = Append(U, m)
    <3>1. count - 1 \in Nat /\ (count - 1) + 1 = count
      BY <1>0, <2>0
    <3>2. QED BY <2>2, <2>4, <2>5, <2>6, <3>1, IsAppend
  <2>9. QED BY <1>1, <2>0, <2>1, <2>7, <2>8 DEF Fifo!Overwrite

\* A push that grows the ring keeps the order of what it copies.
LEMMA GrowEnqueues ==
    ASSUME QInv, NEW m \in Msg, PushGrow(m)
    PROVE  Fifo!Enqueue(m)
<1> USE QueueAssumption DEF QueueAssumption
<1>0. /\ capacity \in Nat \ {0} /\ head \in 0 .. capacity - 1 /\ count \in 0 .. capacity
      /\ items \in [0 .. capacity - 1 -> Msg \cup {NoMsg}]
      /\ tail \in 0 .. capacity - 1 /\ capacity <= MaxCapacity
      /\ QTypeOK /\ RingConsistent
      /\ hold \in [Consumers -> Msg \cup {NoMsg}]
  BY RingFacts
<1>1. /\ count \in Nat /\ Contents \in [1 .. count -> Msg]
      /\ Contents \in Seq(Msg) /\ Len(Contents) = count
  BY RingFacts
<1>2. \A i \in 1 .. count : Contents[i] = items[Slot(i - 1)] /\ items[Slot(i - 1)] \in Msg
  BY RingFacts
<1>3. \A i \in 0 .. capacity : Slot(i) \in 0 .. capacity - 1
  BY RingFacts
<1>4. tail = Slot(count)
  BY RingFacts
<1>7. PushGrow(m)
  OBVIOUS
<1>8. QED
  <2>0. /\ GrownCapacity \in Nat \ {0} /\ count < GrownCapacity /\ count = capacity
        /\ count < MaxCapacity /\ hold' = hold
    BY <1>0, <1>7, GrownBounds DEF PushGrow
  <2> DEFINE T == [i \in 1 .. count + 1 |-> items'[(0 + (i - 1)) % GrownCapacity]]
  <2>1. Contents' = T
    BY <1>7 DEF PushGrow, Contents, Slot
  <2>2. \A i \in 1 .. count + 1 : T[i] = IF i = count + 1 THEN m ELSE Contents[i]
    <3> SUFFICES ASSUME NEW i \in 1 .. count + 1
                 PROVE  T[i] = IF i = count + 1 THEN m ELSE Contents[i]
      OBVIOUS
    <3>1. (0 + (i - 1)) % GrownCapacity = i - 1 /\ i - 1 \in 0 .. GrownCapacity - 1
      BY <1>1, <2>0, ModSmall
    <3>2. T[i] = IF i - 1 < count THEN Copied(i - 1) ELSE IF i - 1 = count THEN m ELSE NoMsg
      BY <1>7, <3>1 DEF PushGrow
    <3>3. CASE i = count + 1
      BY <1>1, <3>2, <3>3
    <3>4. CASE i # count + 1
      <4>1. i \in 1 .. count /\ i - 1 < count
        BY <1>1, <3>4
      <4>2. QED BY <1>2, <3>2, <3>4, <4>1 DEF Copied
    <3>5. QED BY <3>3, <3>4
  <2>3. T \in [1 .. count + 1 -> Msg] /\ (\A i \in 1 .. count : T[i] = Contents[i]) /\ T[count + 1] = m
    <3>1. (\A i \in 1 .. count : T[i] = Contents[i]) /\ T[count + 1] = m
      BY <1>1, <2>2
    <3>2. \A i \in 1 .. count + 1 : T[i] \in Msg
      <4> HIDE DEF T
      <4> TAKE i \in 1 .. count + 1
      <4>1. CASE i = count + 1
        BY <1>1, <3>1, <4>1
      <4>2. CASE i # count + 1
        <5>1. i \in 1 .. count + 1 - 1
          BY <1>1, <4>2
        <5>2. QED BY <1>1, <3>1, <5>1
      <4>3. QED BY <4>1, <4>2
    <3>3. QED BY <3>1, <3>2
  <2> HIDE DEF T
  <2>4. T = Append(Contents, m)
    BY <1>1, <2>3, IsAppend
  <2>5. QED BY <1>1, <2>0, <2>1, <2>4 DEF Fifo!Enqueue

\* A pop takes the oldest message.
LEMMA TakeDequeues ==
    ASSUME QInv, NEW c \in Consumers, PopTake(c)
    PROVE  Fifo!Dequeue(c)
<1> USE QueueAssumption DEF QueueAssumption
<1>0. /\ capacity \in Nat \ {0} /\ head \in 0 .. capacity - 1 /\ count \in 0 .. capacity
      /\ items \in [0 .. capacity - 1 -> Msg \cup {NoMsg}]
      /\ tail \in 0 .. capacity - 1 /\ capacity <= MaxCapacity
      /\ QTypeOK /\ RingConsistent
      /\ hold \in [Consumers -> Msg \cup {NoMsg}]
  BY RingFacts
<1>1. /\ count \in Nat /\ Contents \in [1 .. count -> Msg]
      /\ Contents \in Seq(Msg) /\ Len(Contents) = count
  BY RingFacts
<1>2. \A i \in 1 .. count : Contents[i] = items[Slot(i - 1)] /\ items[Slot(i - 1)] \in Msg
  BY RingFacts
<1>3. \A i \in 0 .. capacity : Slot(i) \in 0 .. capacity - 1
  BY RingFacts
<1>4. tail = Slot(count)
  BY RingFacts
<1>8. PopTake(c)
  OBVIOUS
<1>9. QED
  <2>0. /\ count \in Nat \ {0} /\ hold[c] = NoMsg /\ items' = items /\ capacity' = capacity
        /\ head' = Slot(1) /\ count' = count - 1
        /\ hold' = [hold EXCEPT ![c] = items[head]]
    BY <1>0, <1>1, <1>8, SlotValue DEF PopTake
  <2> DEFINE T == [i \in 1 .. count - 1 |-> items[(Slot(1) + (i - 1)) % capacity]]
  <2>1. Contents' = T
    BY <2>0 DEF Contents, Slot
  <2>2. \A i \in 1 .. count - 1 : T[i] = Contents[i + 1]
    <3> SUFFICES ASSUME NEW i \in 1 .. count - 1 PROVE T[i] = Contents[i + 1]
      OBVIOUS
    <3>1. i - 1 \in 0 .. capacity - 1 /\ i + 1 \in 1 .. count /\ (i - 1) + 1 = i /\ (i + 1) - 1 = i
      BY <1>0
    <3>2. (Slot(1) + (i - 1)) % capacity = Slot((i - 1) + 1)
      BY <1>0, <3>1, SlotShift
    <3>3. QED BY <1>2, <3>1, <3>2
  <2>3. T \in [1 .. count - 1 -> Msg]
    <3>1. \A i \in 1 .. count - 1 : T[i] \in Msg
      BY <1>1, <2>2
    <3>2. QED BY <3>1
  <2> HIDE DEF T
  <2>4. T = Tail(Contents) /\ Head(Contents) = Contents[1] /\ Contents # <<>>
    BY <1>1, <2>0, <2>2, <2>3, IsTail
  <2>5. Contents[1] = items[head]
    <3>1. Slot(1 - 1) = head
      BY <1>0, ModSmall DEF Slot
    <3>2. QED BY <1>2, <2>0, <3>1
  <2>6. QED BY <2>0, <2>1, <2>4, <2>5 DEF Fifo!Dequeue

\* Every step of the ring is a step of the abstract queue, or leaves it alone.
LEMMA RefineStep ==
    ASSUME QInv, [QNext]_qvars
    PROVE  [Fifo!Next]_(Fifo!vars)
<1>1. ASSUME NEW c \in Consumers, Finish(c) PROVE Fifo!Finish(c)
  BY <1>1 DEF Finish, Fifo!Finish, ring, Contents, Slot
<1>2. CASE Drain
  <2>1. count' = 0 /\ hold' = hold
    BY <1>2 DEF Drain
  <2>2. Contents' = <<>>
    BY <2>1 DEF Contents
  <2>3. Fifo!Clear
    BY <2>1, <2>2 DEF Fifo!Clear
  <2>4. QED BY <2>3 DEF Fifo!Next
<1>3. ASSUME UNCHANGED <<ring, hold>> PROVE UNCHANGED Fifo!vars
  BY <1>3 DEF ring, Fifo!vars, Contents, Slot
<1>4. ASSUME NEW m \in Msg, Push(m) PROVE [Fifo!Next]_(Fifo!vars)
  BY RoomEnqueues, DropOverwrites, GrowEnqueues, <1>3, <1>4 DEF Push, PushRefused, Fifo!Next, qvars, ring
<1>5. ASSUME NEW c \in Consumers, PopTake(c) \/ PopSleep(c) \/ PopWakes(c) \/ Finish(c)
       PROVE  [Fifo!Next]_(Fifo!vars)
  BY TakeDequeues, <1>1, <1>3, <1>5 DEF PopSleep, PopWakes, Fifo!Next
<1>6. CASE Stop \/ UNCHANGED qvars
  BY <1>3, <1>6 DEF Stop, qvars, ring
<1>7. QED BY <1>2, <1>4, <1>5, <1>6 DEF QNext

\* The ring buffer of message_queue.c implements the bounded first-in
\* first-out queue, whatever the capacities and the number of handlers.
THEOREM QueueImplementsFifo == QSpec => ImplementsFifo
BY RefineInit, RefineStep, QueueInvariant, PTL DEF QSpec, ImplementsFifo, Fifo!Spec

-----------------------------------------------------------------------------
(* THE RECEIVE PIPELINE.                                                   *)

-----------------------------------------------------------------------------
(* Containers of buffers: a sequence or a function that gives each of its  *)
(* places a buffer or NoMsg.                                               *)

\* The buffers a container holds.
Members(f) == {f[x] : x \in DOMAIN f} \ {NoMsg}

\* No buffer is in two places of the container.
Distinct(f) == \A x, y \in DOMAIN f : f[x] = f[y] /\ f[x] # NoMsg => x = y

\* A set of natural numbers that is not empty has a least element.
LEMMA Smallest ==
    ASSUME NEW T, T \subseteq Nat, T # {}
    PROVE  \E n \in T : \A k \in T : n <= k
<1> DEFINE R == {p \in Nat \X Nat : p[1] < p[2]}
<1>1. IsWellFoundedOn(R, Nat)
  BY NatLessThanWellFounded DEF OpToRel
<1>2. \A x, y \in Nat : y < x => <<y, x>> \in R
  OBVIOUS
<1> HIDE DEF R
<1>3. PICK n \in T : \A k \in T : ~(<<k, n>> \in R)
  BY <1>1, WFMin
<1>4. ASSUME NEW k \in T PROVE n <= k
  <2>1. n \in Nat /\ k \in Nat /\ ~(k < n)
    BY <1>2, <1>3
  <2>2. QED BY <2>1
<1>5. QED BY <1>4

\* The places of a sequence of buffers.
LEMMA SeqContainer ==
    ASSUME NEW s \in Seq(Msg)
    PROVE  /\ Len(s) \in Nat /\ DOMAIN s = 1 .. Len(s)
           /\ \A i \in 1 .. Len(s) : s[i] \in Msg /\ s[i] # NoMsg /\ s[i] \in Members(s)
           /\ Members(s) = {s[i] : i \in 1 .. Len(s)}
           /\ Distinct(s) <=> \A i, j \in 1 .. Len(s) : s[i] = s[j] => i = j
<1>1. Len(s) \in Nat /\ DOMAIN s = 1 .. Len(s) /\ \A i \in 1 .. Len(s) : s[i] \in Msg
  BY LenProperties, ElementOfSeq
<1>2. NoMsg \notin Msg
  BY QueueAssumption DEF QueueAssumption
<1>3. QED BY <1>1, <1>2 DEF Members, Distinct

\* An empty sequence holds nothing.
LEMMA EmptyContainer ==
    ASSUME NEW s \in Seq(Msg), Len(s) = 0
    PROVE  Members(s) = {} /\ Distinct(s)
<1>1. \A i \in 1 .. Len(s) : FALSE
  OBVIOUS
<1>2. Members(s) = {s[i] : i \in 1 .. Len(s)}
  BY SeqContainer
<1>3. Members(s) = {}
  BY <1>1, <1>2
<1>4. Distinct(s)
  BY <1>1, SeqContainer
<1>5. QED BY <1>3, <1>4

\* The buffers of a sequence, found by their places.
LEMMA SeqMembers ==
    ASSUME NEW s \in Seq(Msg), NEW b
    PROVE  b \in Members(s) <=> \E i \in 1 .. Len(s) : s[i] = b
BY SeqContainer

\* Taking the last element off a stack.
LEMMA PopLast ==
    ASSUME NEW s \in Seq(Msg), s # <<>>, Distinct(s)
    PROVE  LET t == SubSeq(s, 1, Len(s) - 1)
           IN  /\ s[Len(s)] \in Members(s)
               /\ t \in Seq(Msg) /\ Distinct(t) /\ Len(t) = Len(s) - 1
               /\ Members(t) = Members(s) \ {s[Len(s)]}
<1> DEFINE t == SubSeq(s, 1, Len(s) - 1)
<1>1. Len(s) \in Nat \ {0}
  BY EmptySeq
<1>2. \A i \in 1 .. Len(s) : s[i] \in Msg
  BY SeqContainer
<1>3. /\ t \in Seq(Msg) /\ Len(t) = Len(s) - 1
      /\ \A i \in 1 .. Len(s) - 1 : t[i] = s[i]
  <2> DEFINE n == Len(s) - 1
  <2>1. n \in 0 .. Len(s) /\ n \in Nat /\ \A i \in 1 .. n : i \in 1 .. Len(s)
    BY <1>1
  <2>2. t = Restrict(s, 1 .. n)
    BY <2>1, SubSeqRestrict
  <2>3. t = [i \in 1 .. n |-> s[i]]
    BY <2>2 DEF Restrict
  <2> HIDE DEF n, t
  <2>4. t \in [1 .. n -> Msg]
    BY <1>2, <2>1, <2>3
  <2>5. t \in Seq(Msg) /\ Len(t) = n
    BY <2>1, <2>4, FcnIsSeq
  <2>6. QED BY <2>3, <2>5 DEF n
<1> HIDE DEF t
<1>4. s[Len(s)] \in Members(s)
  BY <1>1, SeqContainer
<1>5. \A i, j \in 1 .. Len(s) : s[i] = s[j] => i = j
  BY SeqContainer
<1>6. \A i, j \in 1 .. Len(t) : t[i] = t[j] => i = j
  BY <1>1, <1>3, <1>5
<1>7. Distinct(t)
  BY <1>3, <1>6, SeqContainer
<1>8. ASSUME NEW b PROVE b \in Members(t) <=> b \in Members(s) \ {s[Len(s)]}
  <2>1. b \in Members(t) <=> \E i \in 1 .. Len(s) - 1 : s[i] = b
    BY <1>1, <1>3, SeqMembers
  <2>2. b \in Members(s) <=> \E i \in 1 .. Len(s) : s[i] = b
    BY SeqMembers
  <2>3. QED BY <1>1, <1>5, <2>1, <2>2
<1>9. Members(t) = Members(s) \ {s[Len(s)]}
  BY <1>8
<1>10. QED BY <1>3, <1>4, <1>7, <1>9 DEF t

\* Appending a buffer that is not there.
LEMMA PushNew ==
    ASSUME NEW s \in Seq(Msg), Distinct(s), NEW b \in Msg, b \notin Members(s)
    PROVE  LET t == Append(s, b)
           IN  /\ t \in Seq(Msg) /\ Distinct(t) /\ Len(t) = Len(s) + 1
               /\ Members(t) = Members(s) \cup {b}
<1> DEFINE t == Append(s, b)
<1>1. /\ t \in Seq(Msg) /\ Len(t) = Len(s) + 1 /\ Len(s) \in Nat
      /\ \A i \in 1 .. Len(s) : t[i] = s[i]
      /\ t[Len(s) + 1] = b
  BY AppendProperties, LenProperties
<1> HIDE DEF t
<1>2. \A i, j \in 1 .. Len(s) : s[i] = s[j] => i = j
  BY SeqContainer
<1>3. \A i \in 1 .. Len(s) : s[i] # b
  BY SeqMembers
<1>4. \A i \in 1 .. Len(t) : i \in 1 .. Len(s) \/ i = Len(s) + 1
  BY <1>1
<1>5. Distinct(t)
  <2>1. \A i, j \in 1 .. Len(t) : t[i] = t[j] => i = j
    BY <1>1, <1>2, <1>3, <1>4
  <2>2. QED BY <1>1, <2>1, SeqContainer
<1>6. ASSUME NEW x PROVE x \in Members(t) <=> x \in Members(s) \cup {b}
  <2>1. x \in Members(t) <=> \E i \in 1 .. Len(t) : t[i] = x
    BY <1>1, SeqMembers
  <2>2. x \in Members(s) <=> \E i \in 1 .. Len(s) : s[i] = x
    BY SeqMembers
  <2>3. QED BY <1>1, <1>4, <2>1, <2>2
<1>7. Members(t) = Members(s) \cup {b}
  BY <1>6
<1>8. QED BY <1>1, <1>5, <1>7 DEF t

\* Taking the first element of a queue.
LEMMA TakeFirst ==
    ASSUME NEW s \in Seq(Msg), s # <<>>, Distinct(s)
    PROVE  LET t == Tail(s)
           IN  /\ s[1] \in Members(s)
               /\ t \in Seq(Msg) /\ Distinct(t) /\ Len(t) = Len(s) - 1
               /\ Members(t) = Members(s) \ {s[1]}
<1> DEFINE t == Tail(s)
<1>1. Len(s) \in Nat \ {0}
  BY EmptySeq
<1>2. /\ t \in Seq(Msg) /\ Len(t) = Len(s) - 1
      /\ \A i \in 1 .. Len(s) - 1 : t[i] = s[i + 1]
  BY <1>1, HeadTailProperties
<1> HIDE DEF t
<1>3. s[1] \in Members(s)
  BY <1>1, SeqContainer
<1>4. \A i, j \in 1 .. Len(s) : s[i] = s[j] => i = j
  BY SeqContainer
<1>5. Distinct(t)
  <2>1. \A i, j \in 1 .. Len(t) : t[i] = t[j] => i = j
    BY <1>1, <1>2, <1>4
  <2>2. QED BY <1>2, <2>1, SeqContainer
<1>6. ASSUME NEW b PROVE b \in Members(t) <=> b \in Members(s) \ {s[1]}
  <2>1. b \in Members(t) <=> \E i \in 1 .. Len(s) - 1 : s[i + 1] = b
    BY <1>1, <1>2, SeqMembers
  <2>2. b \in Members(s) <=> \E i \in 1 .. Len(s) : s[i] = b
    BY SeqMembers
  <2>3. ASSUME NEW i \in 1 .. Len(s), i # 1 PROVE i - 1 \in 1 .. Len(s) - 1 /\ (i - 1) + 1 = i
    BY <1>1, <2>3
  <2>4. ASSUME NEW i \in 1 .. Len(s) - 1 PROVE i + 1 \in 1 .. Len(s) /\ i + 1 # 1
    BY <1>1
  <2>5. ASSUME b \in Members(s), b # s[1] PROVE b \in Members(t)
    <3>1. PICK i \in 1 .. Len(s) : s[i] = b
      BY <2>2, <2>5
    <3>2. s[(i - 1) + 1] = b /\ i - 1 \in 1 .. Len(s) - 1
      BY <2>3, <2>5, <3>1
    <3>3. QED BY <2>1, <3>2
  <2>6. ASSUME b \in Members(t) PROVE b \in Members(s) /\ b # s[1]
    <3>1. PICK i \in 1 .. Len(s) - 1 : s[i + 1] = b
      BY <2>1, <2>6
    <3>2. QED BY <1>1, <1>4, <2>2, <2>4, <3>1
  <2>7. QED BY <2>5, <2>6
<1>7. Members(t) = Members(s) \ {s[1]}
  BY <1>6
<1>8. QED BY <1>2, <1>3, <1>5, <1>7 DEF t

\* A thread with empty hands takes a buffer nobody holds.
LEMMA TakeInHand ==
    ASSUME NEW D, NEW f \in [D -> Msg \cup {NoMsg}], Distinct(f), NEW x \in D, f[x] = NoMsg,
           NEW b \in Msg, b \notin Members(f),
           NEW g \in [D -> Msg \cup {NoMsg}], g[x] = b, \A y \in D : y # x => g[y] = f[y]
    PROVE  Distinct(g) /\ Members(g) = Members(f) \cup {b}
<1>0. b # NoMsg
  BY QueueAssumption DEF QueueAssumption
<1>1. \A y \in D : f[y] # b
  BY <1>0 DEF Members
<1>2. Distinct(g)
  BY <1>1 DEF Distinct
<1>3. \A y : y \in Members(g) <=> y \in Members(f) \cup {b}
  BY <1>0 DEF Members
<1>4. Members(g) = Members(f) \cup {b}
  BY <1>3
<1>5. QED BY <1>2, <1>4

\* A thread gives the buffer it holds away.
LEMMA PutDown ==
    ASSUME NEW D, NEW f \in [D -> Msg \cup {NoMsg}], Distinct(f), NEW x \in D, f[x] # NoMsg,
           NEW g, g = [f EXCEPT ![x] = NoMsg]
    PROVE  /\ f[x] \in Members(f) /\ f[x] \in Msg
           /\ Distinct(g) /\ Members(g) = Members(f) \ {f[x]}
<1>1. /\ g \in [D -> Msg \cup {NoMsg}] /\ g[x] = NoMsg
      /\ \A y \in D : y # x => g[y] = f[y]
  OBVIOUS
<1>2. \A y \in D : y # x => f[y] # f[x]
  BY DEF Distinct
<1>3. Distinct(g)
  BY <1>1 DEF Distinct
<1>4. \A y : y \in Members(g) <=> y \in Members(f) \ {f[x]}
  BY <1>1, <1>2 DEF Members
<1>5. Members(g) = Members(f) \ {f[x]}
  BY <1>4
<1>6. f[x] \in Members(f) /\ f[x] \in Msg
  BY DEF Members
<1>7. QED BY <1>3, <1>5, <1>6

-----------------------------------------------------------------------------
(* What a sequence of releases does to the pool.                           *)

\* The recursion of Pushed, for the first n of the buffers bs.
PushedUpTo(bs, n, f) ==
    f = [i \in 0 .. n |-> IF i = 0 THEN <<>>
                          ELSE IF bs[i] \in Slots THEN Append(f[i - 1], bs[i])
                          ELSE f[i - 1]]

\* The recursion has a solution: a shortest sequence of releases without one
\* would have one, that of its predecessor with one release more.
LEMMA PushedExists ==
    ASSUME NEW bs, NEW n \in Nat
    PROVE  \E f : PushedUpTo(bs, n, f)
<1> DEFINE B == {m \in Nat : ~\E f : PushedUpTo(bs, m, f)}
<1>1. SUFFICES ASSUME B # {} PROVE FALSE
  OBVIOUS
<1>2. PICK m \in B : \A k \in B : m <= k
  BY <1>1, Smallest
<1>3. CASE m = 0
  <2> DEFINE f == [i \in 0 .. 0 |-> <<>>]
  <2>1. f = [i \in 0 .. 0 |-> IF i = 0 THEN <<>>
                              ELSE IF bs[i] \in Slots THEN Append(f[i - 1], bs[i])
                              ELSE f[i - 1]]
    OBVIOUS
  <2>2. PushedUpTo(bs, 0, f)
    BY <2>1 DEF PushedUpTo
  <2>3. QED BY <1>3, <2>2
<1>4. CASE m # 0
  <2>1. m \in Nat /\ m - 1 \in Nat /\ ~(m <= m - 1)
    BY <1>4
  <2>2. m - 1 \notin B
    BY <1>2, <2>1
  <2>3. PICK f : PushedUpTo(bs, m - 1, f)
    BY <2>1, <2>2
  <2> DEFINE last == IF bs[m] \in Slots THEN Append(f[m - 1], bs[m]) ELSE f[m - 1]
             g == [i \in 0 .. m |-> IF i = m THEN last ELSE f[i]]
  <2>4. \A i \in 0 .. m - 1 : f[i] = IF i = 0 THEN <<>>
                                    ELSE IF bs[i] \in Slots THEN Append(f[i - 1], bs[i])
                                    ELSE f[i - 1]
    BY <2>3 DEF PushedUpTo
  <2>5. \A i \in 0 .. m : i # 0 => g[i - 1] = f[i - 1]
    BY <2>1
  <2>6. \A i \in 0 .. m : g[i] = IF i = 0 THEN <<>>
                                  ELSE IF bs[i] \in Slots THEN Append(g[i - 1], bs[i])
                                  ELSE g[i - 1]
    <3> TAKE i \in 0 .. m
    <3>1. g[i] = IF i = m THEN last ELSE f[i]
      OBVIOUS
    <3>2. CASE i = m
      BY <1>4, <2>1, <2>5, <3>1, <3>2
    <3>3. CASE i # m
      <4>1. i \in 0 .. m - 1
        BY <2>1, <3>3
      <4>2. QED BY <2>4, <2>5, <3>1, <3>3, <4>1
    <3>4. QED BY <3>2, <3>3
  <2>7. g = [i \in 0 .. m |-> g[i]]
    OBVIOUS
  <2> HIDE DEF g
  <2>8. PushedUpTo(bs, m, g)
    BY <2>6, <2>7 DEF PushedUpTo
  <2>9. QED BY <2>8
<1>5. QED BY <1>3, <1>4

\* Pushed(bs) satisfies its recursion.
LEMMA PushedRecursion ==
    ASSUME NEW bs, Len(bs) \in Nat
    PROVE  /\ Pushed(bs)[0] = <<>>
           /\ \A i \in 1 .. Len(bs) : Pushed(bs)[i] =
                 IF bs[i] \in Slots THEN Append(Pushed(bs)[i - 1], bs[i]) ELSE Pushed(bs)[i - 1]
<1>1. Pushed(bs) = CHOOSE f : PushedUpTo(bs, Len(bs), f)
  BY DEF Pushed, PushedUpTo
<1>2. PushedUpTo(bs, Len(bs), Pushed(bs))
  BY <1>1, PushedExists
<1>3. ASSUME NEW f, PushedUpTo(bs, Len(bs), f)
      PROVE  /\ f[0] = <<>>
             /\ \A i \in 1 .. Len(bs) : f[i] =
                   IF bs[i] \in Slots THEN Append(f[i - 1], bs[i]) ELSE f[i - 1]
  <2>1. /\ 0 \in 0 .. Len(bs)
        /\ \A i \in 1 .. Len(bs) : i \in 0 .. Len(bs) /\ i # 0
    OBVIOUS
  <2>2. \A i \in 0 .. Len(bs) : f[i] = IF i = 0 THEN <<>>
                                      ELSE IF bs[i] \in Slots THEN Append(f[i - 1], bs[i])
                                      ELSE f[i - 1]
    BY <1>3 DEF PushedUpTo
  <2>3. QED BY <2>1, <2>2
<1>4. QED BY <1>2, <1>3

\* Releasing distinct buffers one after the other pushes each slot among
\* them once, and leaves as many releases for the heap as it has buffers
\* outside the pool: by the least number of releases for which that fails.
LEMMA PushedOK ==
    ASSUME NEW bs \in Seq(Msg), Distinct(bs)
    PROVE  LET slots == Pushed(bs)[Len(bs)]
               freed == Members(bs) \ Slots
           IN  /\ slots \in Seq(Slots) /\ slots \in Seq(Msg) /\ Distinct(slots)
               /\ Members(slots) = Members(bs) \cap Slots
               /\ IsFiniteSet(freed)
               /\ Len(slots) \in Nat /\ Cardinality(freed) = Len(bs) - Len(slots)
<1> DEFINE P == Pushed(bs)
           First(n) == {bs[k] : k \in 1 .. n}
           Fine(n) == /\ P[n] \in Seq(Slots) /\ P[n] \in Seq(Msg) /\ Distinct(P[n])
                      /\ Members(P[n]) = First(n) \cap Slots
                      /\ IsFiniteSet(First(n) \ Slots)
                      /\ Len(P[n]) \in Nat
                      /\ Cardinality(First(n) \ Slots) = n - Len(P[n])
           B == {n \in 0 .. Len(bs) : ~Fine(n)}
<1>1. /\ Len(bs) \in Nat /\ Members(bs) = First(Len(bs))
      /\ \A i \in 1 .. Len(bs) : bs[i] \in Msg
      /\ \A i, j \in 1 .. Len(bs) : bs[i] = bs[j] => i = j
  BY SeqContainer
<1>2. /\ P[0] = <<>>
      /\ \A i \in 1 .. Len(bs) :
            P[i] = IF bs[i] \in Slots THEN Append(P[i - 1], bs[i]) ELSE P[i - 1]
  BY <1>1, PushedRecursion
<1>3. Slots \subseteq Msg
  BY IngressAssumption DEF IngressAssumption
<1> HIDE DEF P
<1>4. Fine(0)
  <2>1. First(0) = {}
    OBVIOUS
  <2>2. <<>> \in Seq(Slots) /\ <<>> \in Seq(Msg) /\ Len(<<>>) = 0
    BY EmptySeq
  <2>3. Members(<<>>) = {} /\ Distinct(<<>>)
    BY <2>2, EmptyContainer
  <2> HIDE DEF First
  <2>4. First(0) \ Slots = {} /\ First(0) \cap Slots = {}
    BY <2>1
  <2>5. IsFiniteSet(First(0) \ Slots) /\ Cardinality(First(0) \ Slots) = 0
    BY <2>4, FS_EmptySet
  <2>6. 0 = 0 - Len(<<>>) /\ Len(<<>>) \in Nat
    <3>1. 0 = 0 - 0 /\ 0 \in Nat
      OBVIOUS
    <3>2. QED BY <2>2, <3>1, Zenon
  <2>7. QED BY <1>2, <2>2, <2>3, <2>4, <2>5, <2>6
<1>5. ASSUME NEW n \in 1 .. Len(bs), Fine(n - 1) PROVE Fine(n)
  <2>0. n \in Nat /\ n - 1 \in Nat /\ bs[n] \in Msg
    BY <1>1
  <2>1. First(n) = First(n - 1) \cup {bs[n]}
    <3>1. \A k \in 1 .. n : k \in 1 .. n - 1 \/ k = n
      BY <2>0
    <3>2. \A k \in 1 .. n - 1 : k \in 1 .. n
      BY <2>0
    <3>3. n \in 1 .. n
      OBVIOUS
    <3>4. \A x : x \in First(n) <=> x \in First(n - 1) \cup {bs[n]}
      BY <3>1, <3>2, <3>3
    <3>5. QED BY <3>4
  <2>2. bs[n] \notin First(n - 1)
    <3>1. \A k \in 1 .. n - 1 : k \in 1 .. Len(bs) /\ k # n
      BY <1>1
    <3>2. QED BY <1>1, <3>1
  <2>3. /\ P[n - 1] \in Seq(Slots) /\ P[n - 1] \in Seq(Msg) /\ Distinct(P[n - 1])
        /\ Members(P[n - 1]) = First(n - 1) \cap Slots
        /\ IsFiniteSet(First(n - 1) \ Slots)
        /\ Len(P[n - 1]) \in Nat
        /\ Cardinality(First(n - 1) \ Slots) = (n - 1) - Len(P[n - 1])
    BY <1>5
  <2> HIDE DEF First
  <2>4. CASE bs[n] \in Slots
    <3>1. P[n] = Append(P[n - 1], bs[n])
      BY <1>2, <2>4
    <3>2. bs[n] \notin Members(P[n - 1])
      BY <2>2, <2>3
    <3>3. /\ P[n] \in Seq(Msg) /\ Distinct(P[n]) /\ Len(P[n]) = Len(P[n - 1]) + 1
          /\ Members(P[n]) = Members(P[n - 1]) \cup {bs[n]}
      BY <2>0, <2>3, <3>1, <3>2, PushNew
    <3>4. P[n] \in Seq(Slots)
      BY <2>3, <2>4, <3>1, AppendProperties
    <3>5. First(n) \ Slots = First(n - 1) \ Slots /\ First(n) \cap Slots = (First(n - 1) \cap Slots) \cup {bs[n]}
      BY <2>1, <2>4
    <3>6. (n - 1) - Len(P[n - 1]) = n - Len(P[n]) /\ Len(P[n]) \in Nat
      BY <2>0, <2>3, <3>3
    <3>7. QED BY <2>3, <3>3, <3>4, <3>5, <3>6
  <2>5. CASE bs[n] \notin Slots
    <3>1. P[n] = P[n - 1]
      BY <1>2, <2>5
    <3>2. /\ First(n) \ Slots = (First(n - 1) \ Slots) \cup {bs[n]}
          /\ First(n) \cap Slots = First(n - 1) \cap Slots
          /\ bs[n] \notin First(n - 1) \ Slots
      BY <2>1, <2>2, <2>5
    <3>3. /\ IsFiniteSet(First(n) \ Slots)
          /\ Cardinality(First(n) \ Slots) = Cardinality(First(n - 1) \ Slots) + 1
      <4> DEFINE U == First(n - 1) \ Slots
      <4>1. IsFiniteSet(U) /\ bs[n] \notin U /\ First(n) \ Slots = U \cup {bs[n]}
        BY <2>3, <3>2
      <4> HIDE DEF U
      <4>2. IsFiniteSet(U \cup {bs[n]}) /\ Cardinality(U \cup {bs[n]}) = Cardinality(U) + 1
        BY <4>1, FS_AddElement
      <4>3. QED BY <4>1, <4>2 DEF U
    <3>4. ((n - 1) - Len(P[n - 1])) + 1 = n - Len(P[n])
      BY <2>0, <2>3, <3>1
    <3>5. QED BY <2>3, <3>1, <3>2, <3>3, <3>4
  <2>6. QED BY <2>4, <2>5
<1> HIDE DEF Fine
<1>6. \A n \in 0 .. Len(bs) : Fine(n)
  <2>1. SUFFICES ASSUME B # {} PROVE FALSE
    OBVIOUS
  <2>2. B \subseteq Nat
    BY <1>1
  <2>3. PICK n \in B : \A k \in B : n <= k
    BY <2>1, <2>2, Smallest
  <2>4. n \in 1 .. Len(bs)
    BY <1>1, <1>4
  <2>5. n - 1 \in 0 .. Len(bs) /\ ~(n <= n - 1)
    BY <1>1, <2>4
  <2>6. n - 1 \notin B
    BY <2>3, <2>5
  <2>7. QED BY <1>5, <2>4, <2>5, <2>6
<1>7. Fine(Len(bs))
  BY <1>1, <1>6
<1>8. QED BY <1>1, <1>7 DEF Fine, P

\* Releasing one buffer: a slot goes on top of the free stack, a heap buffer
\* is freed and leaves the count.
LEMMA ReleaseOK ==
    ASSUME NEW b \in Msg, free_stack \in Seq(Slots), outstanding \in Int, Release(b)
    PROVE  /\ acq' = acq
           /\ b \in Slots => /\ free_stack' = Append(free_stack, b)
                             /\ live' = live /\ outstanding' = outstanding
           /\ b \notin Slots => /\ free_stack' = free_stack
                                /\ live' = live \ {b} /\ outstanding' = outstanding - 1
<1> DEFINE s == <<b>>
           P == Pushed(s)
<1>1. /\ Len(s) = 1 /\ s[1] = b
  OBVIOUS
<1>2. P[0] = <<>> /\ P[1] = IF b \in Slots THEN Append(P[0], b) ELSE P[0]
  <2>1. /\ P[0] = <<>>
        /\ \A i \in 1 .. Len(s) : P[i] = IF s[i] \in Slots THEN Append(P[i - 1], s[i]) ELSE P[i - 1]
    BY <1>1, PushedRecursion
  <2>2. 1 \in 1 .. Len(s) /\ 1 - 1 = 0
    BY <1>1
  <2> HIDE DEF P, s
  <2>3. P[1] = IF s[1] \in Slots THEN Append(P[0], s[1]) ELSE P[0]
    BY <2>1, <2>2
  <2>4. QED BY <1>1, <2>1, <2>3
<1>3. /\ free_stack' = free_stack \o P[1]
      /\ live' = live \ ({s[i] : i \in 1 .. Len(s)} \ Slots)
      /\ outstanding' = outstanding - (1 - Len(P[1]))
      /\ acq' = acq
  BY <1>1 DEF Release, ReleaseAll
<1>4. {s[i] : i \in 1 .. Len(s)} = {b}
  BY <1>1
<1> HIDE DEF P, s
<1>5. CASE b \in Slots
  <2>1. P[1] = <<b>>
    BY <1>2, <1>5
  <2>2. Len(P[1]) = 1
    BY <2>1
  <2>3. outstanding - (1 - 1) = outstanding
    OBVIOUS
  <2>4. free_stack' = Append(free_stack, b)
    BY <1>3, <1>5, <2>1, AppendIsConcat
  <2>5. live' = live
    BY <1>3, <1>4, <1>5
  <2>6. QED BY <1>3, <1>5, <2>2, <2>3, <2>4, <2>5
<1>6. CASE b \notin Slots
  <2>1. P[1] = <<>> /\ Len(P[1]) = 0
    BY <1>2, <1>6
  <2>2. free_stack' = free_stack
    BY <1>3, <2>1, ConcatEmptySeq
  <2>3. live' = live \ {b}
    <3>1. {b} \ Slots = {b}
      BY <1>6
    <3>2. QED BY <1>3, <1>4, <3>1
  <2>4. outstanding' = outstanding - 1
    <3>1. 1 - 0 = 1
      OBVIOUS
    <3>2. QED BY <1>3, <2>1, <3>1
  <2>5. QED BY <1>3, <1>6, <2>2, <2>3, <2>4
<1>7. QED BY <1>5, <1>6
-----------------------------------------------------------------------------
(***************************************************************************)
(* The inductive invariant.  OneOwner, FallbackExact and PortOrder are not *)
(* inductive: a release returns a heap buffer to the count only if it was  *)
(* live, which ownership tells; ownership needs that a thread holds a      *)
(* buffer just when it is between acquire and push; and the order of a     *)
(* port's datagrams rests on the one receive context of the port, which is *)
(* out of the kernel's hands while a thread carries its datagram.          *)
(***************************************************************************)

\* Types of the variables outside the queue.
PipelineTypes ==
    /\ free_stack \in Seq(Slots)
    /\ live \subseteq Heap
    /\ outstanding \in Int
    /\ acq \in [IoThreads -> {"none", "count", "malloc", "undo"}]
    /\ ctx \in [Ports -> {"armed", "completed", "busy", "dead"}]
    /\ arrived \in [Ports -> 0 .. MaxDatagrams]
    /\ data \in [Msg -> (Ports \X Nat) \cup {NoMsg}]
    /\ io \in [IoThreads -> {"wait", "acquire", "push", "rearm", "exit"}]
    /\ ioport \in [IoThreads -> Ports \cup {NoMsg}]
    /\ iobuf \in [IoThreads -> Msg \cup {NoMsg}]
    /\ hpc \in [Consumers -> {"loop", "pop", "work", "exit"}]
    /\ spc \in {"up", "post", "joinIo", "joinHandlers", "destroy", "down"}

\* A thread has a buffer in hand exactly where the code has one, and is
\* inside krs_message_pool_acquire only where the code calls it.
Hands ==
    /\ \A t \in IoThreads : iobuf[t] # NoMsg <=> io[t] = "push"
    /\ \A c \in Consumers : hold[c] # NoMsg <=> hpc[c] = "work"
    /\ \A t \in IoThreads : acq[t] # "none" => io[t] = "acquire"

\* Thread t is between a completed receive and its re-arming.
Carrying(t) == io[t] \in {"acquire", "push", "rearm"}

\* The receive context of a port is busy while a thread carries its
\* datagram, and no two threads carry datagrams of one port.
Contexts ==
    /\ \A t \in IoThreads : Carrying(t) => ioport[t] \in Ports /\ ctx[ioport[t]] = "busy"
    /\ \A t, u \in IoThreads :
          Carrying(t) /\ Carrying(u) /\ ioport[t] = ioport[u] => t = u

\* The sets F, Q, I and H of buffers share none, and together they are the
\* slots of the pool and the live heap buffers L.
Partition(F, Q, I, H, L) ==
    /\ F \cap Q = {} /\ F \cap I = {} /\ F \cap H = {}
    /\ Q \cap I = {} /\ Q \cap H = {} /\ I \cap H = {}
    /\ F \cup Q \cup I \cup H = Slots \cup L

\* The free stack, the queue and the hands of the threads share the buffers
\* among them.
Ownership ==
    /\ Distinct(free_stack) /\ Distinct(Contents) /\ Distinct(iobuf) /\ Distinct(hold)
    /\ Partition(Members(free_stack), Members(Contents), Members(iobuf), Members(hold), live)

\* The threads inside krs_message_pool_acquire with one of the values of X.
Acquiring(X) == {t \in IoThreads : acq[t] \in X}

\* The acquires that may still allocate are within the limit.
Admitted == Cardinality(live) + Cardinality(Acquiring({"malloc"})) <= MaxFallback

\* What is queued for a port was received before what a thread carries for
\* it and before what its completed receive holds.
Earlier ==
    /\ \A b \in Members(Contents) :
          LET d == data[b]
          IN  /\ d \in Ports \X Nat
              /\ d[2] <= arrived[d[1]]
              /\ ctx[d[1]] = "completed" => d[2] < arrived[d[1]]
              /\ \A t \in IoThreads : io[t] \in {"acquire", "push"} /\ ioport[t] = d[1]
                                         => d[2] < arrived[d[1]]
    /\ \A t \in IoThreads : io[t] = "push" => data[iobuf[t]] = <<ioport[t], arrived[ioport[t]]>>

\* krs_server_stop goes on only when the threads it joins are gone, and
\* leaves an empty queue.
StopOrder ==
    /\ spc \in {"joinHandlers", "destroy", "down"} => \A t \in IoThreads : io[t] = "exit"
    /\ spc \in {"destroy", "down"} => count = 0 /\ \A c \in Consumers : hpc[c] = "exit"

\* The inductive invariant of the pipeline.
IInv ==
    /\ QInv
    /\ PipelineTypes
    /\ Hands
    /\ Contexts
    /\ Ownership
    /\ FallbackExact
    /\ Admitted
    /\ Earlier
    /\ PortOrder
    /\ StopOrder
-----------------------------------------------------------------------------
(* The pipeline and its queue.                                             *)

\* Every step of the pipeline is a step of the queue, or leaves it alone.
LEMMA IsQueueStep ==
    ASSUME PipelineTypes, Hands, [Next]_vars
    PROVE  [QNext]_qvars
<1>1. ASSUME NEW t \in IoThreads, IoStep(t) PROVE [QNext]_qvars
  <2>1. CASE IoPush(t)
    <3>1. iobuf[t] \in Msg
      BY <2>1 DEF IoPush, PipelineTypes, Hands
    <3>2. Push(iobuf[t])
      BY <2>1 DEF IoPush, PushAndRelease, Push
    <3>3. QED BY <3>1, <3>2 DEF QNext
  <2>2. CASE ~IoPush(t)
    BY <1>1, <2>2 DEF IoStep, IoCompletion, IoShutdown, IoGotBuffer, IoNoBuffer, IoDropped, IoRearm
  <2>3. QED BY <2>1, <2>2
<1>2. ASSUME NEW c \in Consumers, HandlerStep(c) PROVE [QNext]_qvars
  BY <1>2 DEF HandlerStep, HandlerLoop, HandlerTake, HandlerSleep, HandlerNothing, HandlerDone, QNext
<1>3. CASE StopStep
  BY <1>3 DEF StopStep, StopPost, StopQueue, StopDrain, StopDestroy, QNext
<1>4. CASE UNCHANGED vars
  BY <1>4 DEF vars
<1>5. QED BY <1>1, <1>2, <1>3, <1>4 DEF Next, Arrive, StopBegin

\* The queue keeps its own invariant.
LEMMA QueueKept ==
    ASSUME QInv, PipelineTypes, Hands, [Next]_vars
    PROVE  QInv'
BY IsQueueStep, TypeStep, RingStep, LiveStep, WakeStep DEF QInv

\* A step that leaves the ring alone leaves the queue's contents.
LEMMA RingStill ==
    ASSUME UNCHANGED ring
    PROVE  Contents' = Contents /\ count' = count
BY DEF ring, Contents, Slot

\* What krs_message_queue_push does to the queue and the pool: the message is
\* queued, queued in place of the oldest, or released.
LEMMA PushEffect ==
    ASSUME QInv, NEW m \in Msg, PushAndRelease(m)
    PROVE  /\ hold' = hold
           /\ \/ Contents' = Append(Contents, m) /\ count' = count + 1 /\ UNCHANGED pvars
              \/ /\ Contents # <<>> /\ Contents' = Append(Tail(Contents), m)
                 /\ count' = count /\ Release(Contents[1])
              \/ Contents' = Contents /\ count' = count /\ Release(m)
<1>1. CASE (PushRoom(m) \/ PushGrow(m)) /\ UNCHANGED pvars
  <2>1. Fifo!Enqueue(m)
    BY <1>1, RoomEnqueues, GrowEnqueues
  <2>2. count' = count + 1
    BY <1>1 DEF PushRoom, PushGrow
  <2>3. QED BY <1>1, <2>1, <2>2 DEF Fifo!Enqueue
<1>2. CASE PushDropOldest(m) /\ Release(items[head])
  <2>1. Contents' = Append(Tail(Contents), m) /\ hold' = hold
    BY <1>2, DropOverwrites DEF Fifo!Overwrite
  <2>2. count' = count /\ count = capacity
    BY <1>2 DEF PushDropOldest
  <2>3. Contents # <<>> /\ Contents[1] = items[head]
    <3>1. /\ capacity \in Nat \ {0} /\ head \in 0 .. capacity - 1 /\ Len(Contents) = count
          /\ \A i \in 1 .. count : Contents[i] = items[Slot(i - 1)]
      BY RingFacts
    <3>2. 1 \in 1 .. count /\ Len(Contents) # 0
      BY <2>2, <3>1
    <3>3. Slot(1 - 1) = head
      BY <3>1, ModSmall DEF Slot
    <3>4. QED BY <3>1, <3>2, <3>3
  <2>4. QED BY <1>2, <2>1, <2>2, <2>3
<1>3. CASE PushRefused(m) /\ Release(m)
  <2>1. hold' = hold /\ UNCHANGED ring
    BY <1>3 DEF PushRefused, qvars, ring
  <2>2. QED BY <1>3, <2>1, RingStill
<1>4. QED BY <1>1, <1>2, <1>3 DEF PushAndRelease

\* What a pop that finds a message does.
LEMMA TakeEffect ==
    ASSUME QInv, NEW c \in Consumers, PopTake(c)
    PROVE  /\ Contents # <<>> /\ hold[c] = NoMsg
           /\ hold' = [hold EXCEPT ![c] = Contents[1]]
           /\ Contents' = Tail(Contents) /\ count' = count - 1
<1>1. Fifo!Dequeue(c)
  BY TakeDequeues
<1>2. Contents \in Seq(Msg)
  BY RingFacts
<1>3. Contents # <<>> => Head(Contents) = Contents[1]
  BY <1>2
<1>4. count' = count - 1
  BY DEF PopTake
<1>5. QED BY <1>1, <1>3, <1>4 DEF Fifo!Dequeue
-----------------------------------------------------------------------------
(* Ownership.                                                              *)

\* A sequence of slots is a sequence of buffers.
LEMMA StackIsSeq ==
    ASSUME PipelineTypes
    PROVE  /\ free_stack \in Seq(Msg) /\ Members(free_stack) \subseteq Slots
           /\ Slots \subseteq Msg /\ Heap \subseteq Msg /\ live \subseteq Heap
           /\ Slots \cap Heap = {}
<1>1. Slots \subseteq Msg /\ Heap \subseteq Msg /\ Slots \cap Heap = {}
  BY IngressAssumption, PoolAssumption DEF IngressAssumption, PoolAssumption
<1>2. free_stack \in Seq(Slots) /\ live \subseteq Heap
  BY DEF PipelineTypes
<1>3. free_stack \in Seq(Msg)
  BY <1>1, <1>2, SeqMonotonic
<1>4. Members(free_stack) \subseteq Slots
  BY <1>2, <1>3, SeqMembers, ElementOfSeq
<1>5. QED BY <1>1, <1>2, <1>3, <1>4

\* Releasing a buffer that is not in the pool already.
LEMMA ReleaseShares ==
    ASSUME PipelineTypes, Distinct(free_stack), NEW b \in Msg, b \notin Members(free_stack),
           Release(b)
    PROVE  /\ free_stack' \in Seq(Slots) /\ Distinct(free_stack')
           /\ Members(free_stack') = Members(free_stack) \cup ({b} \cap Slots)
           /\ live' = live \ ({b} \ Slots)
<1>1. free_stack \in Seq(Slots) /\ outstanding \in Int /\ free_stack \in Seq(Msg)
  BY StackIsSeq DEF PipelineTypes
<1>2. CASE b \in Slots
  <2>1. free_stack' = Append(free_stack, b) /\ live' = live
    BY <1>1, <1>2, ReleaseOK
  <2>2. free_stack' \in Seq(Slots)
    BY <1>1, <1>2, <2>1, AppendProperties
  <2>3. Distinct(free_stack') /\ Members(free_stack') = Members(free_stack) \cup {b}
    BY <1>1, <2>1, PushNew
  <2>4. {b} \cap Slots = {b} /\ live \ ({b} \ Slots) = live
    BY <1>2
  <2>5. QED BY <2>1, <2>2, <2>3, <2>4
<1>3. CASE b \notin Slots
  <2>1. free_stack' = free_stack /\ live' = live \ {b}
    BY <1>1, <1>3, ReleaseOK
  <2>2. Members(free_stack) \cup ({b} \cap Slots) = Members(free_stack) /\ {b} \ Slots = {b}
    BY <1>3
  <2>3. QED BY <1>1, <2>1, <2>2
<1>4. QED BY <1>2, <1>3

\* A step that moves no buffer.
LEMMA OwnershipStill ==
    ASSUME Ownership, UNCHANGED <<free_stack, Contents, iobuf, hold, live>>
    PROVE  Ownership'
BY DEF Ownership

\* An acquired buffer moves from the pool, or the heap, to its thread.
LEMMA OwnershipAcquire ==
    ASSUME QInv, PipelineTypes, Hands, Ownership, NEW t \in IoThreads, NEW b \in Msg,
           IoGotBuffer(t, b)
    PROVE  Ownership' /\ b \notin Members(Contents) /\ b \notin Members(iobuf)
<1> DEFINE F == Members(free_stack)
           Q == Members(Contents)
           I == Members(iobuf)
           H == Members(hold)
<1>1. /\ Distinct(free_stack) /\ Distinct(Contents) /\ Distinct(iobuf) /\ Distinct(hold)
      /\ Partition(F, Q, I, H, live)
  BY DEF Ownership
<1>2. /\ free_stack \in Seq(Msg) /\ F \subseteq Slots /\ live \subseteq Heap /\ Slots \cap Heap = {}
  BY StackIsSeq
<1>3. UNCHANGED qvars /\ iobuf' = [iobuf EXCEPT ![t] = b] /\ iobuf[t] = NoMsg
  BY DEF IoGotBuffer, Hands
<1>4. Contents' = Contents /\ hold' = hold
  BY <1>3, RingStill DEF qvars, ring
<1>5. ASSUME b \notin I PROVE Distinct(iobuf') /\ Members(iobuf') = I \cup {b}
  <2>1. iobuf \in [IoThreads -> Msg \cup {NoMsg}]
    BY DEF PipelineTypes
  <2>2. /\ Distinct(iobuf) /\ iobuf[t] = NoMsg /\ b \notin Members(iobuf)
        /\ iobuf' \in [IoThreads -> Msg \cup {NoMsg}] /\ iobuf'[t] = b
        /\ \A u \in IoThreads : u # t => iobuf'[u] = iobuf[u]
    BY <1>1, <1>3, <1>5, <2>1
  <2>3. Distinct(iobuf') /\ Members(iobuf') = Members(iobuf) \cup {b}
    BY <2>1, <2>2, TakeInHand
  <2>4. QED BY <2>3
<1>6. CASE AcquireSlot(t, b)
  <2>1. /\ free_stack # <<>> /\ b = free_stack[Len(free_stack)] /\ live' = live
        /\ free_stack' = SubSeq(free_stack, 1, Len(free_stack) - 1)
    BY <1>6 DEF AcquireSlot
  <2>2. b \in F /\ Distinct(free_stack') /\ Members(free_stack') = F \ {b}
    BY <1>1, <1>2, <2>1, PopLast
  <2> HIDE DEF F, Q, I, H
  <2>3. b \notin I /\ b \notin Q
    BY <1>1, <2>2 DEF Partition
  <2>4. Partition(F \ {b}, Q, I \cup {b}, H, live)
    BY <1>1, <2>2 DEF Partition
  <2>5. QED BY <1>1, <1>4, <1>5, <2>1, <2>2, <2>3, <2>4 DEF Ownership, F, Q, I, H
<1>7. CASE AcquireMalloc(t, b)
  <2>1. b \in Heap \ live /\ live' = live \cup {b} /\ free_stack' = free_stack
    BY <1>7 DEF AcquireMalloc
  <2> HIDE DEF F, Q, I, H
  <2>2. b \notin F \cup Q \cup I \cup H
    BY <1>1, <1>2, <2>1 DEF Partition
  <2>3. Partition(F, Q, I \cup {b}, H, live \cup {b})
    BY <1>1, <2>2 DEF Partition
  <2>4. QED BY <1>1, <1>4, <1>5, <2>1, <2>2, <2>3 DEF Ownership, F, Q, I, H
<1>8. QED BY <1>6, <1>7 DEF IoGotBuffer

\* A buffer that is released leaves the set it was in; a slot joins the free
\* ones, a heap buffer is no longer live.
LEMMA PartitionRelease ==
    ASSUME NEW F, NEW Q, NEW I, NEW H, NEW L, NEW x,
           Partition(F, Q, I, H, L), L \cap Slots = {}
    PROVE  LET G == F \cup ({x} \cap Slots)
               M == L \ ({x} \ Slots)
           IN  /\ x \in Q => Partition(G, Q \ {x}, I, H, M)
               /\ x \in I => Partition(G, Q, I \ {x}, H, M)
               /\ x \in H => Partition(G, Q, I, H \ {x}, M)
<1>1. CASE x \in Slots
  <2>1. {x} \cap Slots = {x} /\ L \ ({x} \ Slots) = L
    BY <1>1
  <2>2. QED BY <2>1 DEF Partition
<1>2. CASE x \notin Slots
  <2>1. F \cup ({x} \cap Slots) = F /\ {x} \ Slots = {x}
    BY <1>2
  <2>2. QED BY <1>2, <2>1 DEF Partition
<1>3. QED BY <1>1, <1>2

\* The buffer a thread pushes moves to the queue; the one that push releases
\* goes back to the pool.
LEMMA OwnershipPush ==
    ASSUME QInv, PipelineTypes, Hands, Ownership, NEW t \in IoThreads, IoPush(t)
    PROVE  /\ Ownership'
           /\ free_stack' \in Seq(Slots)
           /\ iobuf[t] \in Msg /\ iobuf[t] \notin Members(Contents)
<1> DEFINE F == Members(free_stack)
           Q == Members(Contents)
           I == Members(iobuf)
           H == Members(hold)
           m == iobuf[t]
<1>1. /\ Distinct(free_stack) /\ Distinct(Contents) /\ Distinct(iobuf) /\ Distinct(hold)
      /\ Partition(F, Q, I, H, live)
  BY DEF Ownership
<1>2. /\ free_stack \in Seq(Msg) /\ F \subseteq Slots /\ live \cap Slots = {}
      /\ free_stack \in Seq(Slots)
  BY StackIsSeq DEF PipelineTypes
<1>3. Contents \in Seq(Msg)
  BY RingFacts
<1>4. /\ m # NoMsg /\ iobuf' = [iobuf EXCEPT ![t] = NoMsg] /\ PushAndRelease(m)
  BY DEF IoPush, Hands
<1>5. iobuf \in [IoThreads -> Msg \cup {NoMsg}]
  BY DEF PipelineTypes
<1>6. /\ m \in I /\ m \in Msg
      /\ Distinct(iobuf') /\ Members(iobuf') = I \ {m}
  BY <1>1, <1>4, <1>5, PutDown
<1>7. m \notin Q /\ m \notin F
  BY <1>1, <1>6 DEF Partition
<1>8. hold' = hold
  BY <1>4, <1>6, PushEffect
<1>9. CASE Contents' = Append(Contents, m) /\ UNCHANGED pvars
  <2>1. Distinct(Contents') /\ Members(Contents') = Q \cup {m}
    BY <1>1, <1>3, <1>6, <1>7, <1>9, PushNew
  <2>2. free_stack' = free_stack /\ live' = live
    BY <1>9 DEF pvars
  <2> HIDE DEF F, Q, I, H, m
  <2>3. Partition(F, Q \cup {m}, I \ {m}, H, live)
    BY <1>1, <1>6 DEF Partition
  <2>4. QED BY <1>1, <1>2, <1>6, <1>7, <1>8, <2>1, <2>2, <2>3 DEF Ownership, F, Q, I, H, m
<1>10. CASE Contents # <<>> /\ Contents' = Append(Tail(Contents), m) /\ Release(Contents[1])
  <2> DEFINE x == Contents[1]
  <2>1. /\ x \in Q /\ Tail(Contents) \in Seq(Msg) /\ Distinct(Tail(Contents))
        /\ Members(Tail(Contents)) = Q \ {x}
    BY <1>1, <1>3, <1>10, TakeFirst
  <2>2. Distinct(Contents') /\ Members(Contents') = (Q \ {x}) \cup {m}
    BY <1>6, <1>7, <1>10, <2>1, PushNew
  <2>3. x \notin F /\ x \in Msg
    <3>1. x \notin F
      BY <1>1, <2>1 DEF Partition
    <3>2. Len(Contents) \in Nat \ {0}
      BY <1>3, <1>10, EmptySeq
    <3>3. QED BY <1>3, <3>1, <3>2, ElementOfSeq
  <2>4. /\ free_stack' \in Seq(Slots) /\ Distinct(free_stack')
        /\ Members(free_stack') = F \cup ({x} \cap Slots)
        /\ live' = live \ ({x} \ Slots)
    BY <1>1, <1>10, <2>3, ReleaseShares
  <2> HIDE DEF F, Q, I, H, m, x
  <2>5. Partition(F \cup ({x} \cap Slots), Q \ {x}, I, H, live \ ({x} \ Slots))
    BY <1>1, <1>2, <2>1, PartitionRelease
  <2>6. Partition(F \cup ({x} \cap Slots), (Q \ {x}) \cup {m}, I \ {m}, H, live \ ({x} \ Slots))
    BY <1>6, <2>5 DEF Partition
  <2>7. QED BY <1>1, <1>6, <1>7, <1>8, <2>2, <2>4, <2>6 DEF Ownership, F, Q, I, H, m
<1>11. CASE Contents' = Contents /\ Release(m)
  <2>1. /\ free_stack' \in Seq(Slots) /\ Distinct(free_stack')
        /\ Members(free_stack') = F \cup ({m} \cap Slots)
        /\ live' = live \ ({m} \ Slots)
    BY <1>1, <1>6, <1>7, <1>11, ReleaseShares
  <2> HIDE DEF F, Q, I, H, m
  <2>2. Partition(F \cup ({m} \cap Slots), Q, I \ {m}, H, live \ ({m} \ Slots))
    BY <1>1, <1>2, <1>6, PartitionRelease
  <2>3. QED BY <1>1, <1>6, <1>7, <1>8, <1>11, <2>1, <2>2 DEF Ownership, F, Q, I, H, m
<1>12. QED BY <1>4, <1>6, <1>9, <1>10, <1>11, PushEffect

\* The buffer of the oldest message moves from the queue to the handler.
LEMMA OwnershipTake ==
    ASSUME QInv, PipelineTypes, Ownership, NEW c \in Consumers, HandlerTake(c)
    PROVE  Ownership'
<1> DEFINE F == Members(free_stack)
           Q == Members(Contents)
           I == Members(iobuf)
           H == Members(hold)
           x == Contents[1]
<1>1. /\ Distinct(free_stack) /\ Distinct(Contents) /\ Distinct(iobuf) /\ Distinct(hold)
      /\ Partition(F, Q, I, H, live)
  BY DEF Ownership
<1>2. /\ Contents # <<>> /\ hold[c] = NoMsg
      /\ hold' = [hold EXCEPT ![c] = x] /\ Contents' = Tail(Contents)
  BY TakeEffect DEF HandlerTake
<1>3. free_stack' = free_stack /\ live' = live /\ iobuf' = iobuf
  BY DEF HandlerTake, pvars, ioState
<1>4. Contents \in Seq(Msg) /\ hold \in [Consumers -> Msg \cup {NoMsg}]
  BY RingFacts
<1>5. x \in Q /\ Distinct(Contents') /\ Members(Contents') = Q \ {x}
  BY <1>1, <1>2, <1>4, TakeFirst
<1>6. x \in Msg /\ x \notin H
  <2>1. Len(Contents) \in Nat \ {0}
    BY <1>2, <1>4, EmptySeq
  <2>2. QED BY <1>1, <1>4, <1>5, <2>1, ElementOfSeq DEF Partition
<1>7. Distinct(hold') /\ Members(hold') = H \cup {x}
  <2>1. /\ hold' \in [Consumers -> Msg \cup {NoMsg}] /\ hold'[c] = x
        /\ \A u \in Consumers : u # c => hold'[u] = hold[u]
    BY <1>2, <1>4, <1>6
  <2>2. Distinct(hold) /\ hold[c] = NoMsg /\ x \in Msg /\ x \notin Members(hold)
    BY <1>1, <1>2, <1>6
  <2> HIDE DEF x
  <2>3. Distinct(hold') /\ Members(hold') = Members(hold) \cup {x}
    BY <1>4, <2>1, <2>2, TakeInHand
  <2>4. QED BY <2>3
<1> HIDE DEF F, Q, I, H, x
<1>8. Partition(F, Q \ {x}, I, H \cup {x}, live)
  BY <1>1, <1>5 DEF Partition
<1>9. QED BY <1>1, <1>3, <1>5, <1>7, <1>8 DEF Ownership, F, Q, I, H

\* The buffer a handler is done with goes back to the pool.
LEMMA OwnershipDone ==
    ASSUME QInv, PipelineTypes, Ownership, NEW c \in Consumers, HandlerDone(c)
    PROVE  Ownership' /\ free_stack' \in Seq(Slots) /\ Contents' = Contents /\ count' = count
<1> DEFINE F == Members(free_stack)
           Q == Members(Contents)
           I == Members(iobuf)
           H == Members(hold)
           x == hold[c]
<1>1. /\ Distinct(free_stack) /\ Distinct(Contents) /\ Distinct(iobuf) /\ Distinct(hold)
      /\ Partition(F, Q, I, H, live)
  BY DEF Ownership
<1>2. /\ x # NoMsg /\ hold' = [hold EXCEPT ![c] = NoMsg] /\ UNCHANGED ring
      /\ Release(x) /\ iobuf' = iobuf
  BY DEF HandlerDone, Finish, ioState
<1>3. Contents' = Contents /\ count' = count
  BY <1>2, RingStill
<1>4. hold \in [Consumers -> Msg \cup {NoMsg}]
  BY RingFacts
<1>5. x \in H /\ x \in Msg /\ Distinct(hold') /\ Members(hold') = H \ {x}
  BY <1>1, <1>2, <1>4, PutDown
<1>6. x \notin F /\ live \cap Slots = {}
  BY <1>1, <1>5, StackIsSeq DEF Partition
<1>7. /\ free_stack' \in Seq(Slots) /\ Distinct(free_stack')
      /\ Members(free_stack') = F \cup ({x} \cap Slots)
      /\ live' = live \ ({x} \ Slots)
  BY <1>1, <1>2, <1>5, <1>6, ReleaseShares
<1> HIDE DEF F, Q, I, H, x
<1>8. Partition(F \cup ({x} \cap Slots), Q, I, H \ {x}, live \ ({x} \ Slots))
  BY <1>1, <1>5, <1>6, PartitionRelease
<1>9. QED BY <1>1, <1>2, <1>3, <1>5, <1>7, <1>8 DEF Ownership, F, Q, I, H

\* Two sequences that share no buffer, one after the other.
LEMMA JoinApart ==
    ASSUME NEW s \in Seq(Msg), NEW t \in Seq(Msg), Distinct(s), Distinct(t),
           Members(s) \cap Members(t) = {}
    PROVE  /\ s \o t \in Seq(Msg) /\ Distinct(s \o t)
           /\ Members(s \o t) = Members(s) \cup Members(t)
<1>1. /\ Len(s) \in Nat /\ Len(t) \in Nat /\ s \o t \in Seq(Msg)
      /\ Len(s \o t) = Len(s) + Len(t)
      /\ \A i \in 1 .. Len(s) + Len(t) : (s \o t)[i] = IF i <= Len(s) THEN s[i] ELSE t[i - Len(s)]
  BY ConcatProperties, LenProperties
<1> DEFINE u == s \o t
<1> HIDE DEF u
<1>2. /\ u \in Seq(Msg) /\ Len(u) = Len(s) + Len(t)
      /\ \A i \in 1 .. Len(u) :
            \/ i \in 1 .. Len(s) /\ u[i] = s[i]
            \/ (i - Len(s)) \in 1 .. Len(t) /\ u[i] = t[i - Len(s)]
  BY <1>1 DEF u
<1>3. /\ \A i \in 1 .. Len(s) : i \in 1 .. Len(u) /\ u[i] = s[i]
      /\ \A i \in 1 .. Len(t) : i + Len(s) \in 1 .. Len(u) /\ u[i + Len(s)] = t[i]
  <2>1. \A i \in 1 .. Len(s) : i \in 1 .. Len(s) + Len(t) /\ i <= Len(s)
    BY <1>1
  <2>2. \A i \in 1 .. Len(t) : /\ i + Len(s) \in 1 .. Len(s) + Len(t) /\ ~(i + Len(s) <= Len(s))
                              /\ (i + Len(s)) - Len(s) = i
    BY <1>1
  <2>3. QED BY <1>1, <1>2, <2>1, <2>2 DEF u
<1>4. /\ \A i, j \in 1 .. Len(s) : s[i] = s[j] => i = j
      /\ \A i, j \in 1 .. Len(t) : t[i] = t[j] => i = j
      /\ \A i \in 1 .. Len(s), j \in 1 .. Len(t) : s[i] # t[j]
  BY SeqContainer
<1>5. ASSUME NEW i \in 1 .. Len(u), NEW j \in 1 .. Len(u), u[i] = u[j] PROVE i = j
  <2>1. CASE i \in 1 .. Len(s) /\ u[i] = s[i] /\ j \in 1 .. Len(s) /\ u[j] = s[j]
    BY <1>4, <1>5, <2>1
  <2>2. CASE /\ (i - Len(s)) \in 1 .. Len(t) /\ u[i] = t[i - Len(s)]
             /\ (j - Len(s)) \in 1 .. Len(t) /\ u[j] = t[j - Len(s)]
    <3>1. i - Len(s) = j - Len(s)
      BY <1>4, <1>5, <2>2
    <3>2. QED BY <1>1, <3>1
  <2>3. QED BY <1>2, <1>4, <1>5, <2>1, <2>2
<1>6. Distinct(u)
  BY <1>2, <1>5, SeqContainer
<1>7. ASSUME NEW x PROVE x \in Members(u) <=> x \in Members(s) \cup Members(t)
  <2>1. /\ x \in Members(u) <=> \E i \in 1 .. Len(u) : u[i] = x
        /\ x \in Members(s) <=> \E i \in 1 .. Len(s) : s[i] = x
        /\ x \in Members(t) <=> \E i \in 1 .. Len(t) : t[i] = x
    BY <1>2, SeqMembers
  <2>2. QED BY <1>2, <1>3, <2>1
<1>8. Members(u) = Members(s) \cup Members(t)
  BY <1>7
<1>9. QED BY <1>1, <1>6, <1>8 DEF u

\* What krs_message_queue_drain does to the queue and the pool.
LEMMA DrainEffect ==
    ASSUME QInv, PipelineTypes, Ownership, StopDrain
    PROVE  LET Q == Members(Contents)
           IN  /\ Contents' = <<>> /\ count' = 0 /\ UNCHANGED <<hold, ioState, acq, hpc>>
               /\ free_stack' \in Seq(Slots) /\ Distinct(free_stack')
               /\ Members(free_stack') = Members(free_stack) \cup (Q \cap Slots)
               /\ live' = live \ (Q \ Slots)
               /\ IsFiniteSet(Q \ Slots)
               /\ outstanding' = outstanding - Cardinality(Q \ Slots)
<1> DEFINE Q == Members(Contents)
           slots == Pushed(Contents)[Len(Contents)]
<1>1. Contents \in Seq(Msg) /\ Distinct(Contents) /\ Distinct(free_stack)
  BY RingFacts DEF Ownership
<1>2. /\ slots \in Seq(Slots) /\ slots \in Seq(Msg) /\ Distinct(slots)
      /\ Members(slots) = Q \cap Slots
      /\ IsFiniteSet(Q \ Slots)
      /\ Cardinality(Q \ Slots) = Len(Contents) - Len(slots)
  BY <1>1, PushedOK
<1>3. Q = {Contents[i] : i \in 1 .. Len(Contents)}
  BY <1>1, SeqContainer
<1>4. /\ free_stack' = free_stack \o slots
      /\ live' = live \ ({Contents[i] : i \in 1 .. Len(Contents)} \ Slots)
      /\ outstanding' = outstanding - (Len(Contents) - Len(slots))
      /\ acq' = acq
  BY DEF StopDrain, ReleaseAll
<1>5. count' = 0 /\ hold' = hold /\ UNCHANGED ioState /\ hpc' = hpc
  BY DEF StopDrain, Drain
<1>6. Contents' = <<>>
  BY <1>5 DEF Contents
<1>7. free_stack \in Seq(Slots) /\ free_stack \in Seq(Msg)
  BY StackIsSeq DEF PipelineTypes
<1>8. Members(free_stack) \cap Q = {}
  BY DEF Ownership, Partition
<1> HIDE DEF Q, slots
<1>9. free_stack' \in Seq(Slots)
  BY <1>2, <1>4, <1>7, ConcatProperties
<1>10. Members(free_stack) \cap Members(slots) = {}
  BY <1>2, <1>8
<1>11. Distinct(free_stack') /\ Members(free_stack') = Members(free_stack) \cup (Q \cap Slots)
  BY <1>1, <1>2, <1>4, <1>7, <1>10, JoinApart
<1>12. live' = live \ (Q \ Slots) /\ outstanding' = outstanding - Cardinality(Q \ Slots)
  BY <1>2, <1>3, <1>4
<1>13. QED BY <1>2, <1>4, <1>5, <1>6, <1>9, <1>11, <1>12 DEF Q

\* The buffers of the queue go back to the pool.
LEMMA OwnershipDrain ==
    ASSUME QInv, PipelineTypes, Ownership, StopDrain
    PROVE  Ownership'
<1> DEFINE F == Members(free_stack)
           Q == Members(Contents)
           I == Members(iobuf)
           H == Members(hold)
<1>1. /\ Distinct(iobuf) /\ Distinct(hold) /\ Partition(F, Q, I, H, live)
  BY DEF Ownership
<1>2. /\ Contents' = <<>> /\ UNCHANGED <<hold, ioState>> /\ Distinct(free_stack')
      /\ Members(free_stack') = F \cup (Q \cap Slots) /\ live' = live \ (Q \ Slots)
  BY DrainEffect
<1>3. Members(<<>>) = {} /\ Distinct(<<>>)
  <2>1. <<>> \in Seq(Msg) /\ Len(<<>>) = 0
    BY EmptySeq
  <2>2. QED BY <2>1, EmptyContainer
<1>4. live \cap Slots = {}
  BY StackIsSeq
<1>5. iobuf' = iobuf /\ hold' = hold
  BY <1>2 DEF ioState
<1> HIDE DEF F, Q, I, H
<1>6. Partition(F \cup (Q \cap Slots), {}, I, H, live \ (Q \ Slots))
  BY <1>1, <1>4 DEF Partition
<1>7. QED BY <1>1, <1>2, <1>3, <1>5, <1>6 DEF Ownership, F, Q, I, H

\* Every buffer keeps exactly one owner.
LEMMA OwnershipStep ==
    ASSUME QInv, PipelineTypes, Hands, Ownership, [Next]_vars
    PROVE  Ownership'
<1>1. ASSUME UNCHANGED <<ring, hold, iobuf, free_stack, live>> PROVE Ownership'
  BY <1>1, RingStill, OwnershipStill
<1>2. ASSUME NEW t \in IoThreads, IoStep(t) PROVE Ownership'
  <2>1. ASSUME NEW b \in Msg, IoGotBuffer(t, b) PROVE Ownership'
    BY <2>1, OwnershipAcquire
  <2>2. CASE IoPush(t)
    BY <2>2, OwnershipPush
  <2>3. CASE IoShutdown(t) \/ \E p \in Ports, usable \in BOOLEAN : IoCompletion(t, p, usable)
    BY <1>1, <2>3 DEF IoShutdown, IoCompletion, qvars, ring, pvars
  <2>4. CASE IoNoBuffer(t) \/ IoDropped(t)
    BY <1>1, <2>4 DEF IoNoBuffer, IoDropped, AcquireEmpty, AcquireCount, AcquireNoMemory,
                      AcquireUndo, qvars, ring, ioState
  <2>5. CASE \E ok \in BOOLEAN : IoRearm(t, ok)
    BY <1>1, <2>5 DEF IoRearm, qvars, ring, pvars
  <2>6. QED BY <1>2, <2>1, <2>2, <2>3, <2>4, <2>5 DEF IoStep
<1>3. ASSUME NEW c \in Consumers, HandlerStep(c) PROVE Ownership'
  <2>1. CASE HandlerTake(c)
    BY <2>1, OwnershipTake
  <2>2. CASE HandlerDone(c)
    BY <2>2, OwnershipDone
  <2>3. CASE HandlerLoop(c) \/ HandlerSleep(c) \/ HandlerNothing(c)
    BY <1>1, <2>3 DEF HandlerLoop, HandlerSleep, HandlerNothing, PopSleep, PopWakes,
                      qvars, ring, pvars, ioState
  <2>4. QED BY <1>3, <2>1, <2>2, <2>3 DEF HandlerStep
<1>4. CASE StopStep
  <2>1. CASE StopDrain
    BY <2>1, OwnershipDrain
  <2>2. CASE StopPost \/ StopQueue \/ StopDestroy
    BY <1>1, <2>2 DEF StopPost, StopQueue, StopDestroy, Stop, qvars, ring, pvars, ioState
  <2>3. QED BY <1>4, <2>1, <2>2 DEF StopStep
<1>5. CASE \E p \in Ports : Arrive(p)
  BY <1>1, <1>5 DEF Arrive, qvars, ring, pvars
<1>6. CASE StopBegin
  BY <1>1, <1>6 DEF StopBegin, qvars, ring, pvars, ioState
<1>7. CASE UNCHANGED vars
  BY <1>1, <1>7 DEF vars, qvars, ring, pvars, ioState
<1>8. QED BY <1>2, <1>3, <1>4, <1>5, <1>6, <1>7 DEF Next
-----------------------------------------------------------------------------
(* Types, hands and receive contexts.                                      *)

\* Fewer datagrams than the bound have arrived where one more may arrive.
LEMMA ArriveBound ==
    ASSUME PipelineTypes, NEW p \in Ports, Arrive(p)
    PROVE  arrived[p] + 1 \in 0 .. MaxDatagrams
<1> DEFINE S == {d \in Datagrams : d[2] <= arrived[d[1]]}
           N == 1 .. MaxDatagrams
           f == [n \in N |-> <<p, n>>]
<1>1. MaxDatagrams \in Nat /\ IsFiniteSet(Ports) /\ arrived[p] \in 0 .. MaxDatagrams
  BY IngressAssumption DEF IngressAssumption, PipelineTypes
<1>2. Cardinality(S) < MaxDatagrams
  BY DEF Arrive
<1>3. IsFiniteSet(S)
  <2>1. IsFiniteSet(N)
    BY <1>1, FS_Interval
  <2>2. IsFiniteSet(Datagrams)
    BY <1>1, <2>1, FS_Product DEF Datagrams
  <2>3. QED BY <2>2, FS_Subset
<1>4. SUFFICES ASSUME arrived[p] = MaxDatagrams PROVE FALSE
  BY <1>1
<1>5. f \in Injection(N, S)
  <2>1. \A n \in N : <<p, n>> \in S
    BY <1>1, <1>4 DEF Datagrams
  <2> HIDE DEF S
  <2>2. f \in [N -> S] /\ \A m, n \in N : f[m] = f[n] => m = n
    BY <2>1
  <2>3. QED BY <2>2 DEF Injection, IsInjective
<1> HIDE DEF S, f
<1>6. Cardinality(N) <= Cardinality(S)
  BY <1>3, <1>5, FS_Injection
<1>7. Cardinality(N) = MaxDatagrams
  BY <1>1, FS_Interval
<1>8. Cardinality(S) \in Nat
  BY <1>3, FS_CardinalityType
<1>9. QED BY <1>1, <1>2, <1>6, <1>7, <1>8

\* A release keeps the counter an integer and frees only heap buffers.
LEMMA ReleaseTypes ==
    ASSUME PipelineTypes, NEW b \in Msg, Release(b)
    PROVE  outstanding' \in Int /\ live' \subseteq live /\ acq' = acq
<1>1. free_stack \in Seq(Slots) /\ outstanding \in Int
  BY DEF PipelineTypes
<1>2. CASE b \in Slots
  BY <1>1, <1>2, ReleaseOK
<1>3. CASE b \notin Slots
  BY <1>1, <1>3, ReleaseOK
<1>4. QED BY <1>2, <1>3

\* What a push leaves of the pool.
LEMMA PushTypes ==
    ASSUME QInv, PipelineTypes, Hands, Ownership, NEW t \in IoThreads, IoPush(t)
    PROVE  outstanding' \in Int /\ live' \subseteq live /\ acq' = acq
<1>1. iobuf[t] \in Msg /\ PushAndRelease(iobuf[t])
  BY OwnershipPush DEF IoPush
<1>2. CASE UNCHANGED pvars
  BY <1>2 DEF pvars, PipelineTypes
<1>3. ASSUME NEW b \in Msg, Release(b) PROVE outstanding' \in Int /\ live' \subseteq live /\ acq' = acq
  BY <1>3, ReleaseTypes
<1>4. Contents # <<>> => Contents[1] \in Msg
  <2>1. Contents \in Seq(Msg)
    BY RingFacts
  <2>2. Contents # <<>> => 1 \in 1 .. Len(Contents)
    BY <2>1, EmptySeq
  <2>3. QED BY <2>1, <2>2, ElementOfSeq
<1>5. QED BY <1>1, <1>2, <1>3, <1>4, PushEffect

\* Every step keeps the types of the pipeline's variables.
LEMMA TypesStep ==
    ASSUME QInv, PipelineTypes, Hands, Contexts, Ownership, [Next]_vars
    PROVE  PipelineTypes'
<1>0. Slots \subseteq Msg /\ Heap \subseteq Msg /\ NoMsg \notin Msg /\ MaxDatagrams \in Nat
  BY IngressAssumption, QueueAssumption DEF IngressAssumption, QueueAssumption
<1>1. ASSUME NEW t \in IoThreads, IoStep(t) PROVE PipelineTypes'
  <2>1. ASSUME NEW b \in Msg, IoGotBuffer(t, b) PROVE PipelineTypes'
    <3>1. free_stack' \in Seq(Slots) /\ live' \subseteq Heap /\ outstanding' \in Int
          /\ acq' \in [IoThreads -> {"none", "count", "malloc", "undo"}]
      <4>1. CASE AcquireSlot(t, b)
        <5>1. /\ free_stack \in Seq(Slots) /\ free_stack # <<>> /\ UNCHANGED <<live, outstanding, acq>>
              /\ free_stack' = SubSeq(free_stack, 1, Len(free_stack) - 1)
          BY <4>1 DEF AcquireSlot, PipelineTypes
        <5>2. Len(free_stack) \in Nat /\ \A i \in 1 .. Len(free_stack) - 1 : free_stack[i] \in Slots
          BY <5>1
        <5>3. free_stack' \in Seq(Slots)
          BY <5>1, <5>2, SubSeqProperties
        <5>4. QED BY <5>1, <5>3 DEF PipelineTypes
      <4>2. CASE AcquireMalloc(t, b)
        BY <4>2 DEF AcquireMalloc, PipelineTypes
      <4>3. QED BY <2>1, <4>1, <4>2 DEF IoGotBuffer
    <3>2. ioport[t] \in Ports /\ arrived[ioport[t]] \in Nat
      BY <2>1 DEF IoGotBuffer, Contexts, Carrying, PipelineTypes
    <3>3. data' \in [Msg -> (Ports \X Nat) \cup {NoMsg}]
      BY <2>1, <3>2 DEF IoGotBuffer, PipelineTypes
    <3>4. /\ iobuf' \in [IoThreads -> Msg \cup {NoMsg}]
          /\ io' \in [IoThreads -> {"wait", "acquire", "push", "rearm", "exit"}]
      BY <2>1 DEF IoGotBuffer, PipelineTypes
    <3>5. UNCHANGED <<ctx, arrived, ioport, hpc, spc>>
      BY <2>1 DEF IoGotBuffer
    <3>6. QED BY <3>1, <3>3, <3>4, <3>5 DEF PipelineTypes
  <2>2. CASE IoPush(t)
    <3>1. free_stack' \in Seq(Slots)
      BY <2>2, OwnershipPush
    <3>2. outstanding' \in Int /\ live' \subseteq live /\ acq' = acq
      BY <2>2, PushTypes
    <3>3. /\ iobuf' \in [IoThreads -> Msg \cup {NoMsg}]
          /\ io' \in [IoThreads -> {"wait", "acquire", "push", "rearm", "exit"}]
      BY <2>2 DEF IoPush, PipelineTypes
    <3>4. QED BY <2>2, <3>1, <3>2, <3>3 DEF IoPush, PipelineTypes
  <2>3. ASSUME NEW p \in Ports, NEW usable \in BOOLEAN, IoCompletion(t, p, usable)
        PROVE  PipelineTypes'
    <3>1. io' \in [IoThreads -> {"wait", "acquire", "push", "rearm", "exit"}]
      <4>1. \E v \in {"exit", "acquire", "rearm"} : io' = [io EXCEPT ![t] = v]
        BY <2>3, Zenon DEF IoCompletion
      <4>2. QED BY <4>1 DEF PipelineTypes
    <3>2. /\ ctx' \in [Ports -> {"armed", "completed", "busy", "dead"}]
          /\ ioport' \in [IoThreads -> Ports \cup {NoMsg}]
      BY <2>3 DEF IoCompletion, CtxInUse, PipelineTypes
    <3>3. QED BY <2>3, <3>1, <3>2 DEF IoCompletion, pvars, PipelineTypes
  <2>4. CASE IoShutdown(t)
    BY <2>4 DEF IoShutdown, pvars, PipelineTypes
  <2>5. CASE IoNoBuffer(t)
    <3>1. UNCHANGED <<free_stack, live, ioState, hpc, spc>>
      BY <2>5 DEF IoNoBuffer, AcquireEmpty, AcquireCount, AcquireNoMemory
    <3>2. outstanding' \in Int
      BY <2>5 DEF IoNoBuffer, AcquireEmpty, AcquireCount, AcquireNoMemory, PipelineTypes
    <3>3. acq' \in [IoThreads -> {"none", "count", "malloc", "undo"}]
      BY <2>5 DEF IoNoBuffer, AcquireEmpty, AcquireCount, AcquireNoMemory, PipelineTypes
    <3>4. QED BY <3>1, <3>2, <3>3 DEF ioState, PipelineTypes
  <2>6. CASE IoDropped(t)
    BY <2>6 DEF IoDropped, AcquireUndo, PipelineTypes
  <2>7. ASSUME NEW ok \in BOOLEAN, IoRearm(t, ok) PROVE PipelineTypes'
    <3>1. ctx' \in [Ports -> {"armed", "completed", "busy", "dead"}]
      BY <2>7 DEF IoRearm, PipelineTypes
    <3>2. /\ io' \in [IoThreads -> {"wait", "acquire", "push", "rearm", "exit"}]
          /\ ioport' \in [IoThreads -> Ports \cup {NoMsg}]
      BY <2>7 DEF IoRearm, PipelineTypes
    <3>3. QED BY <2>7, <3>1, <3>2 DEF IoRearm, pvars, PipelineTypes
  <2>8. QED BY <1>1, <2>1, <2>2, <2>3, <2>4, <2>5, <2>6, <2>7 DEF IoStep
<1>2. ASSUME NEW c \in Consumers, HandlerStep(c) PROVE PipelineTypes'
  <2>1. UNCHANGED <<ioState, spc>> /\ hpc' \in [Consumers -> {"loop", "pop", "work", "exit"}]
    BY <1>2 DEF HandlerStep, HandlerLoop, HandlerTake, HandlerSleep, HandlerNothing, HandlerDone,
                AfterNothing, PipelineTypes
  <2>2. CASE UNCHANGED pvars
    BY <2>1, <2>2 DEF pvars, ioState, PipelineTypes
  <2>3. CASE HandlerDone(c)
    <3>1. free_stack' \in Seq(Slots)
      BY <2>3, OwnershipDone
    <3>2. hold[c] \in Msg /\ Release(hold[c])
      BY <2>3, RingFacts DEF HandlerDone, Finish
    <3>3. outstanding' \in Int /\ live' \subseteq live /\ acq' = acq
      BY <3>2, ReleaseTypes
    <3>4. QED BY <2>1, <3>1, <3>3 DEF ioState, PipelineTypes
  <2>4. QED BY <1>2, <2>2, <2>3
        DEF HandlerStep, HandlerLoop, HandlerTake, HandlerSleep, HandlerNothing
<1>3. CASE StopStep
  <2>1. CASE StopDrain
    <3>1. /\ UNCHANGED <<ioState, acq, hpc>> /\ free_stack' \in Seq(Slots) /\ live' \subseteq live
      BY <2>1, DrainEffect
    <3>2. outstanding' \in Int
      <4>1. /\ IsFiniteSet(Members(Contents) \ Slots)
            /\ outstanding' = outstanding - Cardinality(Members(Contents) \ Slots)
        BY <2>1, DrainEffect
      <4>2. Cardinality(Members(Contents) \ Slots) \in Nat
        BY <4>1, FS_CardinalityType
      <4>3. QED BY <4>1, <4>2 DEF PipelineTypes
    <3>3. spc' = "destroy"
      BY <2>1 DEF StopDrain
    <3>4. QED BY <3>1, <3>2, <3>3 DEF ioState, PipelineTypes
  <2>2. CASE StopPost \/ StopQueue \/ StopDestroy
    BY <2>2 DEF StopPost, StopQueue, StopDestroy, pvars, ioState, PipelineTypes
  <2>3. QED BY <1>3, <2>1, <2>2 DEF StopStep
<1>4. ASSUME NEW p \in Ports, Arrive(p) PROVE PipelineTypes'
  <2>1. arrived[p] + 1 \in 0 .. MaxDatagrams
    BY <1>4, ArriveBound
  <2>2. arrived' \in [Ports -> 0 .. MaxDatagrams]
    BY <1>4, <2>1 DEF Arrive, PipelineTypes
  <2>3. ctx' \in [Ports -> {"armed", "completed", "busy", "dead"}]
    BY <1>4 DEF Arrive, PipelineTypes
  <2>4. QED BY <1>4, <2>2, <2>3 DEF Arrive, pvars, PipelineTypes
<1>5. CASE StopBegin
  BY <1>5 DEF StopBegin, pvars, ioState, PipelineTypes
<1>6. CASE UNCHANGED vars
  BY <1>6 DEF vars, pvars, ioState, PipelineTypes
<1>7. QED BY <1>1, <1>2, <1>3, <1>4, <1>5, <1>6 DEF Next

\* Threads hold buffers where the code does.
LEMMA HandsStep ==
    ASSUME QInv, PipelineTypes, Hands, Ownership, [Next]_vars
    PROVE  Hands'
<1>0. /\ NoMsg \notin Msg
      /\ io \in [IoThreads -> {"wait", "acquire", "push", "rearm", "exit"}]
      /\ iobuf \in [IoThreads -> Msg \cup {NoMsg}]
      /\ acq \in [IoThreads -> {"none", "count", "malloc", "undo"}]
      /\ hpc \in [Consumers -> {"loop", "pop", "work", "exit"}]
      /\ hold \in [Consumers -> Msg \cup {NoMsg}]
  BY QueueAssumption, RingFacts DEF QueueAssumption, PipelineTypes
<1> DEFINE IoHands == /\ \A t \in IoThreads : iobuf[t] # NoMsg <=> io[t] = "push"
                      /\ \A t \in IoThreads : acq[t] # "none" => io[t] = "acquire"
           HandlerHands == \A c \in Consumers : hold[c] # NoMsg <=> hpc[c] = "work"
<1>1. IoHands /\ HandlerHands
  BY DEF Hands
<1>2. ASSUME UNCHANGED <<io, iobuf, acq>> PROVE IoHands'
  BY <1>1, <1>2
<1>3. ASSUME UNCHANGED <<hold, hpc>> PROVE HandlerHands'
  BY <1>1, <1>3
<1>4. SUFFICES IoHands' /\ HandlerHands'
  BY DEF Hands
<1> HIDE DEF HandlerHands
<1>5. ASSUME NEW t \in IoThreads, IoStep(t) PROVE IoHands' /\ HandlerHands'
  <2>1. ASSUME NEW b \in Msg, IoGotBuffer(t, b) PROVE IoHands' /\ HandlerHands'
    <3>1. io' = [io EXCEPT ![t] = "push"] /\ iobuf' = [iobuf EXCEPT ![t] = b] /\ b # NoMsg
      BY <1>0, <2>1 DEF IoGotBuffer
    <3>2. acq'[t] = "none" /\ \A u \in IoThreads : u # t => acq'[u] = acq[u]
      BY <1>0, <2>1 DEF IoGotBuffer, AcquireSlot, AcquireMalloc
    <3>3. IoHands'
      BY <1>0, <1>1, <3>1, <3>2
    <3>4. QED BY <1>3, <2>1, <3>3 DEF IoGotBuffer, qvars
  <2>2. CASE IoPush(t)
    <3>1. /\ io[t] = "push" /\ io' = [io EXCEPT ![t] = "rearm"]
          /\ iobuf' = [iobuf EXCEPT ![t] = NoMsg] /\ hpc' = hpc
      BY <2>2 DEF IoPush
    <3>2. acq' = acq
      BY <2>2, PushTypes
    <3>3. hold' = hold
      BY <2>2, OwnershipPush, PushEffect DEF IoPush
    <3>4. IoHands'
      BY <1>0, <1>1, <3>1, <3>2
    <3>5. QED BY <1>3, <3>1, <3>3, <3>4
  <2>3. ASSUME NEW p \in Ports, NEW usable \in BOOLEAN, IoCompletion(t, p, usable)
        PROVE  IoHands' /\ HandlerHands'
    <3>1. /\ io[t] = "wait" /\ UNCHANGED <<acq, iobuf, hold, hpc>>
          /\ \E v \in {"exit", "acquire", "rearm"} : io' = [io EXCEPT ![t] = v]
      BY <2>3, Zenon DEF IoCompletion, qvars, pvars
    <3>2. IoHands'
      BY <1>0, <1>1, <3>1
    <3>3. QED BY <1>3, <3>1, <3>2
  <2>4. CASE IoShutdown(t)
    <3>1. /\ io[t] = "wait" /\ UNCHANGED <<acq, iobuf, hold, hpc>> /\ io' = [io EXCEPT ![t] = "exit"]
      BY <2>4 DEF IoShutdown, qvars, pvars
    <3>2. IoHands'
      BY <1>0, <1>1, <3>1
    <3>3. QED BY <1>3, <3>1, <3>2
  <2>5. CASE IoNoBuffer(t)
    <3>1. io[t] = "acquire" /\ UNCHANGED <<io, iobuf, hold, hpc>>
      BY <2>5 DEF IoNoBuffer, qvars, ioState
    <3>2. \A u \in IoThreads : u # t => acq'[u] = acq[u]
      BY <1>0, <2>5 DEF IoNoBuffer, AcquireEmpty, AcquireCount, AcquireNoMemory
    <3>3. IoHands'
      BY <1>1, <3>1, <3>2
    <3>4. QED BY <1>3, <3>1, <3>3
  <2>6. CASE IoDropped(t)
    <3>1. /\ io[t] = "acquire" /\ UNCHANGED <<iobuf, hold, hpc>> /\ io' = [io EXCEPT ![t] = "rearm"]
          /\ acq' = [acq EXCEPT ![t] = "none"]
      BY <2>6 DEF IoDropped, AcquireUndo, qvars
    <3>2. IoHands'
      BY <1>0, <1>1, <3>1
    <3>3. QED BY <1>3, <3>1, <3>2
  <2>7. ASSUME NEW ok \in BOOLEAN, IoRearm(t, ok) PROVE IoHands' /\ HandlerHands'
    <3>1. /\ io[t] = "rearm" /\ UNCHANGED <<acq, iobuf, hold, hpc>>
          /\ \E v \in {"wait", "exit"} : io' = [io EXCEPT ![t] = v]
      BY <2>7 DEF IoRearm, qvars, pvars
    <3>2. IoHands'
      BY <1>0, <1>1, <3>1
    <3>3. QED BY <1>3, <3>1, <3>2
  <2>8. QED BY <1>5, <2>1, <2>2, <2>3, <2>4, <2>5, <2>6, <2>7 DEF IoStep
<1>6. ASSUME NEW c \in Consumers, HandlerStep(c) PROVE IoHands' /\ HandlerHands'
  <2>1. UNCHANGED <<io, iobuf>>
    BY <1>6 DEF HandlerStep, HandlerLoop, HandlerTake, HandlerSleep, HandlerNothing, HandlerDone, ioState
  <2>2. CASE HandlerTake(c)
    <3>1. acq' = acq /\ hpc' = [hpc EXCEPT ![c] = "work"] /\ hold' = [hold EXCEPT ![c] = Contents[1]]
      BY <2>2, TakeEffect DEF HandlerTake, pvars
    <3>2. Contents[1] \in Msg
      <4>1. Contents \in Seq(Msg) /\ Contents # <<>>
        BY <2>2, RingFacts, TakeEffect DEF HandlerTake
      <4>2. 1 \in 1 .. Len(Contents)
        BY <4>1, EmptySeq
      <4>3. QED BY <4>1, <4>2, ElementOfSeq
    <3>3. HandlerHands'
      BY <1>0, <1>1, <3>1, <3>2 DEF HandlerHands
    <3>4. QED BY <1>2, <2>1, <3>1, <3>3
  <2>3. CASE HandlerDone(c)
    <3>1. hpc' = [hpc EXCEPT ![c] = "loop"] /\ hold' = [hold EXCEPT ![c] = NoMsg]
      BY <2>3 DEF HandlerDone, Finish
    <3>2. hold[c] \in Msg /\ Release(hold[c])
      BY <2>3, RingFacts DEF HandlerDone, Finish
    <3>3. acq' = acq
      BY <3>2, ReleaseTypes
    <3>4. HandlerHands'
      BY <1>0, <1>1, <3>1 DEF HandlerHands
    <3>5. QED BY <1>2, <2>1, <3>3, <3>4
  <2>4. CASE HandlerLoop(c) \/ HandlerSleep(c) \/ HandlerNothing(c)
    <3>1. /\ acq' = acq /\ hold' = hold /\ hpc[c] \in {"loop", "pop"}
          /\ \E v \in {"loop", "pop", "exit"} : hpc' = [hpc EXCEPT ![c] = v]
      <4>1. CASE HandlerLoop(c)
        BY <4>1 DEF HandlerLoop, qvars, pvars
      <4>2. CASE HandlerSleep(c)
        <5>1. hpc' = hpc /\ hpc[c] = "pop"
          BY <4>2 DEF HandlerSleep
        <5>2. hpc' = [hpc EXCEPT ![c] = "pop"]
          BY <1>0, <5>1
        <5>3. QED BY <4>2, <5>1, <5>2 DEF HandlerSleep, PopSleep, PopWakes, pvars
      <4>3. CASE HandlerNothing(c)
        BY <4>3 DEF HandlerNothing, AfterNothing, PopWakes, qvars, pvars
      <4>4. QED BY <2>4, <4>1, <4>2, <4>3
    <3>2. HandlerHands'
      BY <1>0, <1>1, <3>1 DEF HandlerHands
    <3>3. QED BY <1>2, <2>1, <3>1, <3>2
  <2>5. QED BY <1>6, <2>2, <2>3, <2>4 DEF HandlerStep
<1>7. CASE StopStep
  <2>1. CASE StopDrain
    BY <1>2, <1>3, <2>1, DrainEffect DEF ioState
  <2>2. CASE StopPost \/ StopQueue \/ StopDestroy
    BY <1>2, <1>3, <2>2 DEF StopPost, StopQueue, StopDestroy, Stop, qvars, pvars, ioState
  <2>3. QED BY <1>7, <2>1, <2>2 DEF StopStep
<1>8. CASE (\E p \in Ports : Arrive(p)) \/ StopBegin \/ UNCHANGED vars
  BY <1>2, <1>3, <1>8 DEF Arrive, StopBegin, vars, qvars, pvars, ioState
<1>9. QED BY <1>5, <1>6, <1>7, <1>8 DEF Next

\* A thread that keeps its datagram, or lets it go, leaves the others alone.
LEMMA ContextsStill ==
    ASSUME PipelineTypes, Contexts, ctx' = ctx, NEW t \in IoThreads,
           \A u \in IoThreads : u # t => io'[u] = io[u],
           ioport' = ioport,
           Carrying(t) \/ io'[t] \notin {"acquire", "push", "rearm"}
    PROVE  Contexts'
BY DEF Contexts, Carrying

\* One receive context, one carrier.
LEMMA ContextsStep ==
    ASSUME PipelineTypes, Contexts, [Next]_vars
    PROVE  Contexts'
<1>0. /\ io \in [IoThreads -> {"wait", "acquire", "push", "rearm", "exit"}]
      /\ ioport \in [IoThreads -> Ports \cup {NoMsg}]
      /\ ctx \in [Ports -> {"armed", "completed", "busy", "dead"}]
  BY DEF PipelineTypes
<1>1. ASSUME UNCHANGED <<io, ioport, ctx>> PROVE Contexts'
  BY <1>1 DEF Contexts, Carrying
<1>2. ASSUME NEW t \in IoThreads, IoStep(t) PROVE Contexts'
  <2>1. CASE IoPush(t) \/ IoDropped(t) \/ IoShutdown(t) \/ \E b \in Msg : IoGotBuffer(t, b)
    <3>1. /\ ctx' = ctx /\ ioport' = ioport
          /\ \E v : io' = [io EXCEPT ![t] = v] /\ (v = "exit" \/ Carrying(t))
      BY <2>1 DEF IoPush, IoDropped, IoShutdown, IoGotBuffer, Carrying
    <3>2. /\ \A u \in IoThreads : u # t => io'[u] = io[u]
          /\ Carrying(t) \/ io'[t] \notin {"acquire", "push", "rearm"}
      BY <1>0, <3>1
    <3>3. QED BY <3>1, <3>2, ContextsStill
  <2>2. CASE IoNoBuffer(t)
    BY <1>1, <2>2 DEF IoNoBuffer, ioState
  <2>3. ASSUME NEW p \in Ports, NEW usable \in BOOLEAN, IoCompletion(t, p, usable)
        PROVE  Contexts'
    <3>1. /\ io[t] = "wait" /\ ctx[p] = "completed" /\ ctx' = [ctx EXCEPT ![p] = "busy"]
          /\ ioport' = [ioport EXCEPT ![t] = p]
      BY <2>3 DEF IoCompletion, CtxInUse
    <3>2. \A u \in IoThreads : u # t => io'[u] = io[u] /\ ioport'[u] = ioport[u]
      BY <1>0, <2>3 DEF IoCompletion
    <3>3. \A u \in IoThreads : u # t /\ Carrying(u) => ioport[u] \in Ports /\ ioport[u] # p
      BY <3>1 DEF Contexts
    <3>4. ioport'[t] = p /\ ctx'[p] = "busy"
      BY <1>0, <3>1
    <3>5. \A u \in IoThreads : Carrying(u)' => ioport'[u] \in Ports /\ ctx'[ioport'[u]] = "busy"
      BY <1>0, <3>1, <3>2, <3>3, <3>4 DEF Contexts, Carrying
    <3>6. \A u, w \in IoThreads :
             Carrying(u)' /\ Carrying(w)' /\ ioport'[u] = ioport'[w] => u = w
      BY <3>2, <3>3, <3>4 DEF Contexts, Carrying
    <3>7. QED BY <3>5, <3>6 DEF Contexts
  <2>4. ASSUME NEW ok \in BOOLEAN, IoRearm(t, ok) PROVE Contexts'
    <3>1. /\ Carrying(t) /\ \E v : ctx' = [ctx EXCEPT ![ioport[t]] = v]
      BY <2>4 DEF IoRearm, Carrying
    <3>2. /\ io'[t] \in {"wait", "exit"}
          /\ \A u \in IoThreads : u # t => io'[u] = io[u] /\ ioport'[u] = ioport[u]
      BY <1>0, <2>4 DEF IoRearm
    <3>3. \A u \in IoThreads : u # t /\ Carrying(u) => ioport[u] \in Ports /\ ioport[u] # ioport[t]
      BY <3>1 DEF Contexts
    <3>4. \A u \in IoThreads : Carrying(u)' => u # t /\ Carrying(u)
      BY <3>2 DEF Carrying
    <3>5. \A u \in IoThreads : Carrying(u)' => ioport'[u] \in Ports /\ ctx'[ioport'[u]] = "busy"
      BY <1>0, <3>1, <3>2, <3>3, <3>4 DEF Contexts
    <3>6. \A u, w \in IoThreads :
             Carrying(u)' /\ Carrying(w)' /\ ioport'[u] = ioport'[w] => u = w
      BY <3>2, <3>4 DEF Contexts
    <3>7. QED BY <3>5, <3>6 DEF Contexts
  <2>5. QED BY <1>2, <2>1, <2>2, <2>3, <2>4 DEF IoStep
<1>3. ASSUME NEW p \in Ports, Arrive(p) PROVE Contexts'
  <2>1. /\ ctx[p] = "armed" /\ ctx' = [ctx EXCEPT ![p] = "completed"] /\ UNCHANGED <<io, ioport>>
    BY <1>3 DEF Arrive
  <2>2. \A u \in IoThreads : Carrying(u) => ioport[u] \in Ports /\ ioport[u] # p
    BY <2>1 DEF Contexts
  <2>3. QED BY <1>0, <2>1, <2>2 DEF Contexts, Carrying
<1>4. ASSUME NEW c \in Consumers, HandlerStep(c) PROVE Contexts'
  BY <1>1, <1>4 DEF HandlerStep, HandlerLoop, HandlerTake, HandlerSleep, HandlerNothing, HandlerDone, ioState
<1>5. CASE StopStep \/ StopBegin \/ UNCHANGED vars
  BY <1>1, <1>5 DEF StopStep, StopPost, StopQueue, StopDrain, StopDestroy, StopBegin, vars, ioState
<1>6. QED BY <1>2, <1>3, <1>4, <1>5 DEF Next

\* krs_server_stop goes through its phases in order.
LEMMA StopOrderStep ==
    ASSUME PipelineTypes, StopOrder, [Next]_vars
    PROVE  StopOrder'
<1>1. ASSUME UNCHANGED <<io, hpc, count, spc>> PROVE StopOrder'
  BY <1>1 DEF StopOrder
<1>2. ASSUME NEW t \in IoThreads, IoStep(t) PROVE StopOrder'
  <2>1. io[t] # "exit" /\ spc' = spc
    BY <1>2 DEF IoStep, IoCompletion, IoShutdown, IoGotBuffer, IoNoBuffer, IoDropped, IoPush, IoRearm
  <2>2. spc \notin {"joinHandlers", "destroy", "down"}
    BY <2>1 DEF StopOrder
  <2>3. QED BY <2>1, <2>2 DEF StopOrder
<1>3. ASSUME NEW c \in Consumers, HandlerStep(c) PROVE StopOrder'
  <2>1. hpc[c] # "exit" /\ spc' = spc /\ io' = io
    BY <1>3 DEF HandlerStep, HandlerLoop, HandlerTake, HandlerSleep, HandlerNothing, HandlerDone, ioState
  <2>2. spc \notin {"destroy", "down"}
    BY <2>1 DEF StopOrder
  <2>3. QED BY <2>1, <2>2 DEF StopOrder
<1>4. CASE StopPost
  BY <1>4 DEF StopPost, StopOrder
<1>5. CASE StopQueue
  BY <1>5 DEF StopQueue, IoJoined, ioState, StopOrder
<1>6. CASE StopDrain
  BY <1>6 DEF StopDrain, Drain, ioState, StopOrder
<1>7. CASE StopDestroy
  BY <1>7 DEF StopDestroy, qvars, ioState, StopOrder
<1>8. CASE StopBegin
  BY <1>8 DEF StopBegin, StopOrder
<1>9. CASE (\E p \in Ports : Arrive(p)) \/ UNCHANGED vars
  BY <1>1, <1>9 DEF Arrive, vars, qvars, ioState
<1>10. QED BY <1>2, <1>3, <1>4, <1>5, <1>6, <1>7, <1>8, <1>9 DEF Next, StopStep
-----------------------------------------------------------------------------
(* The fallback counter.                                                   *)

\* Live buffers and acquiring threads can be counted.
LEMMA Countable ==
    ASSUME PipelineTypes
    PROVE  /\ IsFiniteSet(live) /\ Cardinality(live) \in Nat /\ MaxFallback \in Nat
           /\ \A X : IsFiniteSet(Acquiring(X)) /\ Cardinality(Acquiring(X)) \in Nat
<1>1. IsFiniteSet(Heap) /\ IsFiniteSet(IoThreads) /\ MaxFallback \in Nat
  BY PoolAssumption DEF PoolAssumption
<1>2. live \in SUBSET Heap
  BY DEF PipelineTypes
<1>3. IsFiniteSet(live) /\ Cardinality(live) \in Nat
  BY <1>1, <1>2, FS_Subset, FS_CardinalityType
<1>4. ASSUME NEW X PROVE IsFiniteSet(Acquiring(X)) /\ Cardinality(Acquiring(X)) \in Nat
  <2>1. Acquiring(X) \in SUBSET IoThreads
    BY DEF Acquiring
  <2>2. QED BY <1>1, <2>1, FS_Subset, FS_CardinalityType
<1>5. QED BY <1>1, <1>3, <1>4

\* A thread that goes from one stage of acquire to another.
LEMMA AcquiringStep ==
    ASSUME PipelineTypes, NEW t \in IoThreads, NEW v, acq'[t] = v,
           \A u \in IoThreads : u # t => acq'[u] = acq[u],
           NEW X, NEW k, k = Cardinality({u \in IoThreads : acq'[u] \in X})
    PROVE  /\ acq[t] \in X /\ v \in X => k = Cardinality(Acquiring(X))
           /\ acq[t] \notin X /\ v \in X => k = Cardinality(Acquiring(X)) + 1
           /\ acq[t] \in X /\ v \notin X => k = Cardinality(Acquiring(X)) - 1
           /\ acq[t] \notin X /\ v \notin X => k = Cardinality(Acquiring(X))
<1> DEFINE A == Acquiring(X)
           B == {u \in IoThreads : acq'[u] \in X}
<1>1. IsFiniteSet(A) /\ Cardinality(A) \in Nat
  BY Countable
<1>2. acq'[t] = v /\ \A u \in IoThreads : u # t => acq'[u] = acq[u]
  OBVIOUS
<1>3. t \in A <=> acq[t] \in X
  BY DEF Acquiring
<1>4. v \in X => B = A \cup {t}
  BY <1>2 DEF Acquiring
<1>5. v \notin X => B = A \ {t}
  BY <1>2 DEF Acquiring
<1>6. k = Cardinality(B)
  OBVIOUS
<1> HIDE DEF A, B
<1>7. /\ t \in A => Cardinality(A \cup {t}) = Cardinality(A) /\ Cardinality(A \ {t}) = Cardinality(A) - 1
      /\ t \notin A => Cardinality(A \cup {t}) = Cardinality(A) + 1 /\ Cardinality(A \ {t}) = Cardinality(A)
  BY <1>1, FS_AddElement, FS_RemoveElement
<1>8. QED BY <1>3, <1>4, <1>5, <1>6, <1>7 DEF A

\* Releases lower the counter by what they free.
LEMMA CountReleased ==
    ASSUME PipelineTypes, FallbackExact, Admitted, acq' = acq,
           Cardinality(live') \in Nat, Cardinality(live') <= Cardinality(live),
           outstanding' = outstanding - (Cardinality(live) - Cardinality(live'))
    PROVE  FallbackExact' /\ Admitted'
<1> DEFINE U == Acquiring({"malloc", "undo"})
           M == Acquiring({"malloc"})
           n == Cardinality(live)
           k == Cardinality(live')
<1>1. n \in Nat /\ Cardinality(U) \in Nat /\ Cardinality(M) \in Nat /\ MaxFallback \in Nat
  BY Countable
<1>2. outstanding = n + Cardinality(U) /\ n + Cardinality(M) <= MaxFallback
  BY DEF FallbackExact, Admitted, Acquiring
<1>3. /\ FallbackExact' <=> outstanding' = k + Cardinality(U)
      /\ Admitted' <=> k + Cardinality(M) <= MaxFallback
  BY DEF FallbackExact, Admitted, Acquiring
<1> HIDE DEF U, M, n, k
<1>4. k \in Nat /\ k <= n /\ outstanding' = outstanding - (n - k)
  BY DEF n, k
<1>5. outstanding' = k + Cardinality(U) /\ k + Cardinality(M) <= MaxFallback
  BY <1>1, <1>2, <1>4
<1>6. QED BY <1>3, <1>5

\* Releasing one buffer that has an owner.
LEMMA CountRelease ==
    ASSUME PipelineTypes, FallbackExact, Admitted, NEW b \in Slots \cup live, Release(b)
    PROVE  FallbackExact' /\ Admitted'
<1>1. /\ IsFiniteSet(live) /\ Cardinality(live) \in Nat /\ b \in Msg
      /\ free_stack \in Seq(Slots) /\ outstanding \in Int
  BY Countable, StackIsSeq DEF PipelineTypes
<1>2. acq' = acq
  BY <1>1, ReleaseOK
<1>3. CASE b \in Slots
  <2>1. live' = live /\ outstanding' = outstanding
    BY <1>1, <1>3, ReleaseOK
  <2>2. outstanding - (Cardinality(live) - Cardinality(live)) = outstanding
    BY <1>1
  <2>3. QED BY <1>1, <1>2, <2>1, <2>2, CountReleased
<1>4. CASE b \notin Slots
  <2>1. live' = live \ {b} /\ outstanding' = outstanding - 1 /\ b \in live
    BY <1>1, <1>4, ReleaseOK
  <2>2. IsFiniteSet(live \ {b}) /\ Cardinality(live \ {b}) = Cardinality(live) - 1
    BY <1>1, <2>1, FS_RemoveElement
  <2>3. Cardinality(live \ {b}) \in Nat
    BY <2>2, FS_CardinalityType
  <2>4. /\ Cardinality(live') <= Cardinality(live)
        /\ outstanding' = outstanding - (Cardinality(live) - Cardinality(live'))
    BY <1>1, <2>1, <2>2
  <2>5. QED BY <1>2, <2>1, <2>3, <2>4, CountReleased
<1>5. QED BY <1>3, <1>4

\* Draining the queue.
LEMMA CountDrain ==
    ASSUME QInv, PipelineTypes, Ownership, FallbackExact, Admitted, StopDrain
    PROVE  FallbackExact' /\ Admitted'
<1> DEFINE R == Members(Contents) \ Slots
<1>1. /\ acq' = acq /\ live' = live \ R /\ IsFiniteSet(R) /\ outstanding' = outstanding - Cardinality(R)
  BY DrainEffect
<1>2. R \subseteq live
  BY DEF Ownership, Partition
<1>3. IsFiniteSet(live) /\ Cardinality(live) \in Nat
  BY Countable
<1> HIDE DEF R
<1>4. Cardinality(R) \in Nat
  BY <1>1, FS_CardinalityType
<1>5. live \cap R = R
  BY <1>2
<1>6. IsFiniteSet(live \ R) /\ Cardinality(live \ R) = Cardinality(live) - Cardinality(R)
  BY <1>3, <1>5, FS_Difference
<1>7. Cardinality(live \ R) \in Nat
  BY <1>6, FS_CardinalityType
<1>8. /\ Cardinality(live') <= Cardinality(live)
      /\ Cardinality(R) = Cardinality(live) - Cardinality(live')
  BY <1>1, <1>3, <1>4, <1>6, <1>7
<1>9. QED BY <1>1, <1>7, <1>8, CountReleased

\* The steps of an acquire.
LEMMA CountAcquire ==
    ASSUME PipelineTypes, FallbackExact, Admitted, NEW t \in IoThreads,
           \/ AcquireEmpty(t) \/ AcquireCount(t) \/ AcquireNoMemory(t) \/ AcquireUndo(t)
           \/ \E b \in Msg : AcquireMalloc(t, b)
    PROVE  FallbackExact' /\ Admitted'
<1> DEFINE Un == {"malloc", "undo"}
           n == Cardinality(live)
           u == Cardinality(Acquiring(Un))
           m == Cardinality(Acquiring({"malloc"}))
           v == Cardinality({w \in IoThreads : acq'[w] \in Un})
           k == Cardinality({w \in IoThreads : acq'[w] \in {"malloc"}})
<1>1. /\ n \in Nat /\ u \in Nat /\ m \in Nat /\ MaxFallback \in Nat
      /\ outstanding = n + u /\ n + m <= MaxFallback /\ m <= u
  <2>1. n \in Nat /\ u \in Nat /\ m \in Nat /\ MaxFallback \in Nat
    BY Countable
  <2>2. outstanding = n + u /\ n + m <= MaxFallback
    BY DEF FallbackExact, Admitted, Acquiring
  <2>3. m <= u
    <3>1. Acquiring({"malloc"}) \in SUBSET Acquiring(Un)
      BY DEF Acquiring
    <3>2. IsFiniteSet(Acquiring(Un))
      BY Countable
    <3>3. QED BY <3>1, <3>2, FS_Subset
  <2>4. QED BY <2>1, <2>2, <2>3
<1>2. /\ FallbackExact' <=> outstanding' = Cardinality(live') + v
      /\ Admitted' <=> Cardinality(live') + k <= MaxFallback
  BY DEF FallbackExact, Admitted, Acquiring
<1>3. ASSUME NEW w, acq' = [acq EXCEPT ![t] = w]
      PROVE  /\ acq[t] \in Un /\ w \in Un => v = u
             /\ acq[t] \notin Un /\ w \in Un => v = u + 1
             /\ acq[t] \in Un /\ w \notin Un => v = u - 1
             /\ acq[t] \notin Un /\ w \notin Un => v = u
  <2>1. acq'[t] = w /\ \A x \in IoThreads : x # t => acq'[x] = acq[x]
    BY <1>3 DEF PipelineTypes
  <2> HIDE DEF Un
  <2>2. QED BY <2>1, AcquiringStep
<1>4. ASSUME NEW w, acq' = [acq EXCEPT ![t] = w]
      PROVE  /\ acq[t] # "malloc" /\ w = "malloc" => k = m + 1
             /\ acq[t] = "malloc" /\ w # "malloc" => k = m - 1
             /\ acq[t] # "malloc" /\ w # "malloc" => k = m
  <2> DEFINE X == {"malloc"}
  <2>1. /\ acq[t] \notin X /\ w \in X => k = m + 1
        /\ acq[t] \in X /\ w \notin X => k = m - 1
        /\ acq[t] \notin X /\ w \notin X => k = m
    <3>1. acq'[t] = w /\ \A x \in IoThreads : x # t => acq'[x] = acq[x]
      BY <1>4 DEF PipelineTypes
    <3> HIDE DEF X
    <3>2. m = Cardinality(Acquiring(X)) /\ k = Cardinality({x \in IoThreads : acq'[x] \in X})
      BY DEF X
    <3> HIDE DEF k, m
    <3>3. QED BY <3>1, <3>2, AcquiringStep
  <2>2. QED BY <2>1
<1>5. "malloc" \in Un /\ "undo" \in Un /\ "none" \notin Un /\ "count" \notin Un
  OBVIOUS
<1> HIDE DEF Un, n, u, m, v, k
<1>6. CASE AcquireEmpty(t)
  <2>1. /\ acq[t] = "none" /\ acq' = [acq EXCEPT ![t] = "count"] /\ UNCHANGED <<live, outstanding>>
    BY <1>6 DEF AcquireEmpty
  <2>2. v = u /\ k = m
    BY <2>1, <1>3, <1>4, <1>5
  <2>3. QED BY <1>1, <1>2, <2>1, <2>2 DEF n
<1>7. CASE AcquireCount(t)
  <2>0. /\ acq[t] = "count" /\ live' = live /\ outstanding' = outstanding + 1
        /\ acq' = [acq EXCEPT ![t] = IF OverLimit THEN "undo" ELSE "malloc"]
    BY <1>7 DEF AcquireCount
  <2>1. CASE OverLimit
    <3>1. acq' = [acq EXCEPT ![t] = "undo"]
      BY <2>0, <2>1
    <3>2. v = u + 1 /\ k = m
      BY <2>0, <3>1, <1>3, <1>4, <1>5
    <3>3. outstanding' = n + v /\ n + k <= MaxFallback
      BY <1>1, <2>0, <3>2
    <3>4. QED BY <1>2, <2>0, <3>3 DEF n
  <2>2. CASE ~OverLimit
    <3>1. acq' = [acq EXCEPT ![t] = "malloc"] /\ ~(outstanding + 1 > MaxFallback)
      BY <2>0, <2>2 DEF OverLimit
    <3>2. v = u + 1 /\ k = m + 1
      BY <2>0, <3>1, <1>3, <1>4, <1>5
    <3>3. outstanding' = n + v /\ n + k <= MaxFallback
      BY <1>1, <2>0, <3>1, <3>2
    <3>4. QED BY <1>2, <2>0, <3>3 DEF n
  <2>3. QED BY <2>1, <2>2
<1>8. CASE AcquireNoMemory(t)
  <2>1. /\ acq[t] = "malloc" /\ acq' = [acq EXCEPT ![t] = "undo"] /\ UNCHANGED <<live, outstanding>>
    BY <1>8 DEF AcquireNoMemory
  <2>2. v = u
    BY <2>1, <1>3, <1>5
  <2>3. k = m - 1
    <3>1. "undo" # "malloc"
      OBVIOUS
    <3>2. acq[t] = "malloc" /\ "undo" # "malloc" => k = m - 1
      BY <2>1, <1>4, Zenon
    <3>3. QED BY <2>1, <3>1, <3>2
  <2>4. outstanding' = n + v /\ n + k <= MaxFallback
    BY <1>1, <2>1, <2>2, <2>3
  <2>5. QED BY <1>2, <2>1, <2>4 DEF n
<1>9. CASE AcquireUndo(t)
  <2>1. /\ acq[t] = "undo" /\ acq' = [acq EXCEPT ![t] = "none"] /\ live' = live
        /\ outstanding' = outstanding - 1
    BY <1>9 DEF AcquireUndo
  <2>2. v = u - 1 /\ k = m
    BY <2>1, <1>3, <1>4, <1>5
  <2>3. outstanding' = n + v /\ n + k <= MaxFallback
    BY <1>1, <2>1, <2>2
  <2>4. QED BY <1>2, <2>1, <2>3 DEF n
<1>10. ASSUME NEW b \in Msg, AcquireMalloc(t, b) PROVE FallbackExact' /\ Admitted'
  <2>1. /\ acq[t] = "malloc" /\ acq' = [acq EXCEPT ![t] = "none"] /\ b \notin live
        /\ live' = live \cup {b} /\ outstanding' = outstanding
    BY <1>10 DEF AcquireMalloc
  <2>2. v = u - 1 /\ k = m - 1
    BY <2>1, <1>3, <1>4, <1>5
  <2>3. Cardinality(live') = n + 1
    BY <2>1, Countable, FS_AddElement DEF n
  <2>4. outstanding' = (n + 1) + v /\ (n + 1) + k <= MaxFallback
    BY <1>1, <2>1, <2>2
  <2>5. QED BY <1>2, <2>3, <2>4
<1>11. QED BY <1>6, <1>7, <1>8, <1>9, <1>10

\* The counter stays exact, and within the limit.
LEMMA CountingStep ==
    ASSUME QInv, PipelineTypes, Hands, Ownership, FallbackExact, Admitted, [Next]_vars
    PROVE  FallbackExact' /\ Admitted'
<1>1. ASSUME UNCHANGED <<live, outstanding, acq>> PROVE FallbackExact' /\ Admitted'
  BY <1>1 DEF FallbackExact, Admitted, Acquiring
<1>2. ASSUME NEW t \in IoThreads, IoStep(t) PROVE FallbackExact' /\ Admitted'
  <2>1. ASSUME NEW b \in Msg, IoGotBuffer(t, b) PROVE FallbackExact' /\ Admitted'
    <3>1. CASE AcquireSlot(t, b)
      BY <1>1, <3>1 DEF AcquireSlot
    <3>2. CASE AcquireMalloc(t, b)
      BY <3>2, CountAcquire
    <3>3. QED BY <2>1, <3>1, <3>2 DEF IoGotBuffer
  <2>2. CASE IoPush(t)
    <3>1. iobuf[t] \in Msg /\ PushAndRelease(iobuf[t]) /\ iobuf[t] # NoMsg
      BY <2>2, OwnershipPush DEF IoPush, Hands
    <3>2. CASE UNCHANGED pvars
      BY <1>1, <3>2 DEF pvars
    <3>3. CASE Release(iobuf[t])
      <4>1. iobuf[t] \in Members(iobuf)
        BY <3>1 DEF Members, PipelineTypes
      <4>2. iobuf[t] \in Slots \cup live
        BY <4>1 DEF Ownership, Partition
      <4>3. QED BY <3>3, <4>2, CountRelease
    <3>4. CASE Contents # <<>> /\ Release(Contents[1])
      <4>1. Contents \in Seq(Msg) /\ 1 \in 1 .. Len(Contents)
        BY <3>4, RingFacts, EmptySeq
      <4>2. Contents[1] \in Members(Contents)
        BY <4>1, SeqContainer
      <4>3. Contents[1] \in Slots \cup live
        BY <4>2 DEF Ownership, Partition
      <4>4. QED BY <3>4, <4>3, CountRelease
    <3>5. QED BY <3>1, <3>2, <3>3, <3>4, PushEffect
  <2>3. CASE IoNoBuffer(t) \/ IoDropped(t)
    BY <2>3, CountAcquire DEF IoNoBuffer, IoDropped
  <2>4. CASE \/ IoShutdown(t)
             \/ \E p \in Ports, usable \in BOOLEAN : IoCompletion(t, p, usable)
             \/ \E ok \in BOOLEAN : IoRearm(t, ok)
    BY <1>1, <2>4 DEF IoShutdown, IoCompletion, IoRearm, pvars
  <2>5. QED BY <1>2, <2>1, <2>2, <2>3, <2>4 DEF IoStep
<1>3. ASSUME NEW c \in Consumers, HandlerStep(c) PROVE FallbackExact' /\ Admitted'
  <2>1. CASE HandlerDone(c)
    <3>1. hold[c] # NoMsg /\ Release(hold[c]) /\ hold \in [Consumers -> Msg \cup {NoMsg}]
      BY <2>1, RingFacts DEF HandlerDone, Finish
    <3>2. hold[c] \in Members(hold)
      BY <3>1 DEF Members
    <3>3. hold[c] \in Slots \cup live
      BY <3>2 DEF Ownership, Partition
    <3>4. QED BY <3>1, <3>3, CountRelease
  <2>2. CASE UNCHANGED pvars
    BY <1>1, <2>2 DEF pvars
  <2>3. QED BY <1>3, <2>1, <2>2
        DEF HandlerStep, HandlerLoop, HandlerTake, HandlerSleep, HandlerNothing
<1>4. CASE StopStep
  BY <1>1, <1>4, CountDrain DEF StopStep, StopPost, StopQueue, StopDestroy, pvars
<1>5. CASE (\E p \in Ports : Arrive(p)) \/ StopBegin \/ UNCHANGED vars
  BY <1>1, <1>5 DEF Arrive, StopBegin, vars, pvars
<1>6. QED BY <1>2, <1>3, <1>4, <1>5 DEF Next
-----------------------------------------------------------------------------
(* The order of a port's datagrams.                                        *)

\* The datagrams dat of one port are in the order of their arrival in s.
Ordered(s, dat) ==
    \A i, j \in 1 .. Len(s) :
        i < j /\ dat[s[i]][1] = dat[s[j]][1] => dat[s[i]][2] < dat[s[j]][2]

\* The order does not suffer when the oldest message goes.
LEMMA OrderedTail ==
    ASSUME NEW s \in Seq(Msg), s # <<>>, NEW dat, Ordered(s, dat)
    PROVE  Ordered(Tail(s), dat)
<1>1. Len(s) \in Nat \ {0}
  BY EmptySeq
<1>2. Len(Tail(s)) = Len(s) - 1 /\ \A i \in 1 .. Len(Tail(s)) : Tail(s)[i] = s[i + 1]
  BY HeadTailProperties
<1> SUFFICES ASSUME NEW i \in 1 .. Len(Tail(s)), NEW j \in 1 .. Len(Tail(s)), i < j,
                    dat[Tail(s)[i]][1] = dat[Tail(s)[j]][1]
             PROVE  dat[Tail(s)[i]][2] < dat[Tail(s)[j]][2]
  BY DEF Ordered
<1>3. i + 1 \in 1 .. Len(s) /\ j + 1 \in 1 .. Len(s) /\ i + 1 < j + 1
  BY <1>1, <1>2
<1>4. QED BY <1>2, <1>3 DEF Ordered

\* Nor when a message is appended that arrived after those of its port.
LEMMA OrderedAppend ==
    ASSUME NEW s \in Seq(Msg), NEW dat, Ordered(s, dat), NEW m \in Msg,
           \A b \in Members(s) : dat[b][1] = dat[m][1] => dat[b][2] < dat[m][2]
    PROVE  Ordered(Append(s, m), dat)
<1> DEFINE t == Append(s, m)
<1>1. /\ Len(s) \in Nat /\ Len(t) = Len(s) + 1
      /\ \A i \in 1 .. Len(s) : t[i] = s[i] /\ s[i] \in Members(s)
      /\ t[Len(s) + 1] = m
  BY AppendProperties, SeqContainer
<1> HIDE DEF t
<1>2. ASSUME NEW i \in 1 .. Len(t), NEW j \in 1 .. Len(t), i < j, dat[t[i]][1] = dat[t[j]][1]
      PROVE  dat[t[i]][2] < dat[t[j]][2]
  <2>1. i \in 1 .. Len(s) /\ (j \in 1 .. Len(s) \/ j = Len(s) + 1)
    BY <1>1, <1>2
  <2>2. CASE j \in 1 .. Len(s)
    BY <1>1, <1>2, <2>1, <2>2 DEF Ordered
  <2>3. CASE j = Len(s) + 1
    BY <1>1, <1>2, <2>1, <2>3
  <2>4. QED BY <2>1, <2>2, <2>3
<1>3. Ordered(t, dat)
  BY <1>2 DEF Ordered
<1>4. QED BY <1>3 DEF t

\* A step after which there is less queued and less carried.
LEMMA EarlierLess ==
    ASSUME PipelineTypes, Earlier, Members(Contents') \subseteq Members(Contents),
           UNCHANGED <<data, arrived>>,
           \A p \in Ports : ctx'[p] = "completed" => ctx[p] = "completed",
           \A u \in IoThreads : io'[u] \in {"acquire", "push"} =>
               io'[u] = io[u] /\ ioport'[u] = ioport[u] /\ iobuf'[u] = iobuf[u]
    PROVE  Earlier'
<1>1. ASSUME NEW b \in Members(Contents')
      PROVE  /\ data[b] \in Ports \X Nat /\ data[b][2] <= arrived[data[b][1]]
             /\ ctx'[data[b][1]] = "completed" => data[b][2] < arrived[data[b][1]]
             /\ \A t \in IoThreads : io'[t] \in {"acquire", "push"} /\ ioport'[t] = data[b][1]
                                         => data[b][2] < arrived[data[b][1]]
  <2>1. /\ data[b] \in Ports \X Nat /\ data[b][2] <= arrived[data[b][1]]
        /\ ctx[data[b][1]] = "completed" => data[b][2] < arrived[data[b][1]]
        /\ \A t \in IoThreads : io[t] \in {"acquire", "push"} /\ ioport[t] = data[b][1]
                                    => data[b][2] < arrived[data[b][1]]
    BY DEF Earlier
  <2>2. data[b][1] \in Ports
    BY <2>1
  <2>3. QED BY <2>1, <2>2
<1>2. ASSUME NEW t \in IoThreads, io'[t] = "push"
      PROVE  data[iobuf'[t]] = <<ioport'[t], arrived[ioport'[t]]>>
  BY <1>2 DEF Earlier
<1>3. QED BY <1>1, <1>2 DEF Earlier

\* What the queue holds stays ordered while it only loses messages.
LEMMA PortOrderKept ==
    ASSUME count' = Len(Contents'), Ordered(Contents', data')
    PROVE  PortOrder'
BY DEF PortOrder, Ordered

\* A datagram that is pushed arrived after those of its port in the queue.
LEMMA OrderPush ==
    ASSUME QInv, PipelineTypes, Hands, Contexts, Ownership, Earlier, Ordered(Contents, data),
           NEW t \in IoThreads, IoPush(t)
    PROVE  Earlier' /\ PortOrder'
<1> DEFINE m == iobuf[t]
           p == ioport[t]
           Q == Members(Contents)
<1>1. /\ io[t] = "push" /\ io' = [io EXCEPT ![t] = "rearm"]
      /\ iobuf' = [iobuf EXCEPT ![t] = NoMsg] /\ PushAndRelease(m)
      /\ UNCHANGED <<ctx, arrived, data, ioport>>
  BY DEF IoPush
<1>2. m \in Msg /\ m \notin Q
  BY OwnershipPush
<1>3. Contents \in Seq(Msg) /\ Len(Contents) = count /\ Distinct(Contents) /\ count \in Nat
  BY RingFacts DEF Ownership
<1>4. p \in Ports /\ ctx[p] = "busy" /\ data[m] = <<p, arrived[p]>> /\ arrived[p] \in Nat
  BY <1>1 DEF Contexts, Carrying, Earlier, PipelineTypes
<1>5. \A b \in Q : data[b][1] = data[m][1] => data[b][2] < data[m][2]
  BY <1>1, <1>4 DEF Earlier
<1>6. \A u \in IoThreads : io'[u] \in {"acquire", "push"} =>
         u # t /\ io'[u] = io[u] /\ iobuf'[u] = iobuf[u] /\ ioport[u] # p
  <2>1. \A u \in IoThreads : u # t => io'[u] = io[u] /\ iobuf'[u] = iobuf[u]
    BY <1>1 DEF PipelineTypes
  <2>2. io'[t] = "rearm"
    BY <1>1 DEF PipelineTypes
  <2>3. \A u \in IoThreads : u # t /\ io[u] \in {"acquire", "push"} => ioport[u] # p
    BY <1>1 DEF Contexts, Carrying
  <2>4. QED BY <2>1, <2>2, <2>3
<1>7. ASSUME Members(Contents') \subseteq Q \cup {m} PROVE Earlier'
  <2>1. ASSUME NEW b \in Members(Contents')
        PROVE  /\ data[b] \in Ports \X Nat /\ data[b][2] <= arrived[data[b][1]]
               /\ ctx[data[b][1]] = "completed" => data[b][2] < arrived[data[b][1]]
               /\ \A u \in IoThreads : io'[u] \in {"acquire", "push"} /\ ioport[u] = data[b][1]
                                           => data[b][2] < arrived[data[b][1]]
    <3>1. CASE b \in Q
      BY <1>6, <3>1 DEF Earlier
    <3>2. CASE b = m
      <4>1. data[b] \in Ports \X Nat /\ data[b][1] = p /\ data[b][2] = arrived[p]
        BY <1>4, <3>2
      <4> HIDE DEF p
      <4>2. data[b][2] <= arrived[data[b][1]] /\ ctx[data[b][1]] # "completed"
        BY <1>4, <4>1
      <4>3. QED BY <1>6, <4>1, <4>2
    <3>3. QED BY <1>7, <3>1, <3>2
  <2>2. \A u \in IoThreads : io'[u] = "push" => data[iobuf'[u]] = <<ioport[u], arrived[ioport[u]]>>
    BY <1>6 DEF Earlier
  <2>3. QED BY <1>1, <2>1, <2>2 DEF Earlier
<1>8. CASE Contents' = Append(Contents, m) /\ count' = count + 1
  <2>1. Members(Contents') = Q \cup {m} /\ Len(Contents') = Len(Contents) + 1
    BY <1>2, <1>3, <1>8, PushNew
  <2>2. Ordered(Contents', data)
    BY <1>2, <1>3, <1>5, <1>8, OrderedAppend
  <2>3. count' = Len(Contents')
    BY <1>3, <1>8, <2>1
  <2>4. QED BY <1>1, <1>7, <2>1, <2>2, <2>3, PortOrderKept
<1>9. CASE Contents # <<>> /\ Contents' = Append(Tail(Contents), m) /\ count' = count
  <2> DEFINE s == Tail(Contents)
  <2>1. /\ s \in Seq(Msg) /\ Distinct(s) /\ Len(s) = Len(Contents) - 1 /\ Members(s) \subseteq Q
    BY <1>3, <1>9, TakeFirst
  <2>2. Ordered(s, data)
    BY <1>3, <1>9, OrderedTail
  <2> HIDE DEF s, m
  <2>3. m \notin Members(s) /\ \A b \in Members(s) : data[b][1] = data[m][1] => data[b][2] < data[m][2]
    BY <1>2, <1>5, <2>1
  <2>4. Contents' = Append(s, m)
    BY <1>9 DEF s
  <2>5. Members(Contents') = Members(s) \cup {m} /\ Len(Contents') = Len(s) + 1
    BY <1>2, <2>1, <2>3, <2>4, PushNew
  <2>6. Ordered(Contents', data)
    BY <1>2, <2>1, <2>2, <2>3, <2>4, OrderedAppend
  <2>7. count' = Len(Contents')
    BY <1>3, <1>9, <2>1, <2>5
  <2>8. QED BY <1>1, <1>7, <2>1, <2>5, <2>6, <2>7, PortOrderKept
<1>10. CASE Contents' = Contents /\ count' = count
  BY <1>1, <1>3, <1>7, <1>10, PortOrderKept
<1>11. QED BY <1>1, <1>2, <1>8, <1>9, <1>10, PushEffect

\* The copy of a datagram goes to a buffer that nobody else looks at.
LEMMA OrderCopy ==
    ASSUME QInv, PipelineTypes, Hands, Contexts, Ownership, Earlier, Ordered(Contents, data),
           NEW t \in IoThreads, NEW b \in Msg, IoGotBuffer(t, b)
    PROVE  Earlier' /\ PortOrder'
<1>1. /\ io[t] = "acquire" /\ io' = [io EXCEPT ![t] = "push"] /\ iobuf' = [iobuf EXCEPT ![t] = b]
      /\ data' = [data EXCEPT ![b] = <<ioport[t], arrived[ioport[t]]>>]
      /\ UNCHANGED <<ring, ctx, arrived, ioport>>
  BY DEF IoGotBuffer, qvars, ring
<1>2. b \notin Members(Contents) /\ b \notin Members(iobuf)
  BY OwnershipAcquire
<1>3. Contents' = Contents /\ count' = count /\ count = Len(Contents) /\ Contents \in Seq(Msg)
  BY <1>1, RingStill, RingFacts
<1>4. Members(Contents) \subseteq Msg /\ \A i \in 1 .. Len(Contents) : Contents[i] \in Members(Contents)
  BY <1>3, SeqContainer
<1>5. data'[b] = <<ioport[t], arrived[ioport[t]]>> /\ \A x \in Msg : x # b => data'[x] = data[x]
  BY <1>1 DEF PipelineTypes
<1>6. \A x \in Members(Contents) : data'[x] = data[x]
  BY <1>2, <1>4, <1>5
<1>7. Ordered(Contents', data')
  BY <1>3, <1>4, <1>6 DEF Ordered
<1>8. \A u \in IoThreads : u # t => io'[u] = io[u] /\ iobuf'[u] = iobuf[u]
  BY <1>1 DEF PipelineTypes
<1>9. \A x \in Members(Contents') :
         LET d == data'[x]
         IN  /\ d \in Ports \X Nat
             /\ d[2] <= arrived[d[1]]
             /\ ctx[d[1]] = "completed" => d[2] < arrived[d[1]]
             /\ \A u \in IoThreads : io'[u] \in {"acquire", "push"} /\ ioport[u] = d[1]
                                        => d[2] < arrived[d[1]]
  BY <1>1, <1>3, <1>6, <1>8 DEF Earlier
<1>10. \A u \in IoThreads : io'[u] = "push" => data'[iobuf'[u]] = <<ioport[u], arrived[ioport[u]]>>
  <2> TAKE u \in IoThreads
  <2> HAVE io'[u] = "push"
  <2>1. CASE u = t
    BY <1>1, <1>5, <2>1 DEF PipelineTypes
  <2>2. CASE u # t
    <3>1. io[u] = "push" /\ iobuf'[u] = iobuf[u] /\ iobuf[u] # NoMsg
      BY <1>8, <2>2 DEF Hands
    <3>2. iobuf[u] \in Msg /\ iobuf[u] \in Members(iobuf)
      BY <3>1 DEF Members, PipelineTypes
    <3>3. data'[iobuf[u]] = data[iobuf[u]]
      BY <1>2, <1>5, <3>2
    <3>4. QED BY <3>1, <3>3 DEF Earlier
  <2>3. QED BY <2>1, <2>2
<1>11. Earlier'
  BY <1>1, <1>9, <1>10 DEF Earlier
<1>12. QED BY <1>3, <1>7, <1>11, PortOrderKept

\* Every step keeps the order of every port.
LEMMA OrderStep ==
    ASSUME QInv, PipelineTypes, Hands, Contexts, Ownership, Earlier, PortOrder, [Next]_vars
    PROVE  Earlier' /\ PortOrder'
<1>1. Contents \in Seq(Msg) /\ Len(Contents) = count /\ count \in Nat /\ Distinct(Contents)
  BY RingFacts DEF Ownership
<1>2. Ordered(Contents, data)
  BY <1>1 DEF PortOrder, Ordered
<1>3. ASSUME UNCHANGED <<ring, data>> PROVE PortOrder' /\ Contents' = Contents
  <2>1. Contents' = Contents /\ count' = count
    BY <1>3, RingStill
  <2>2. QED BY <1>1, <1>2, <1>3, <2>1, PortOrderKept
<1>4. ASSUME UNCHANGED <<ring, data, arrived, ctx, io, ioport, iobuf>> PROVE Earlier' /\ PortOrder'
  <2>1. PortOrder' /\ Contents' = Contents
    BY <1>3, <1>4
  <2>2. QED BY <1>4, <2>1, EarlierLess
<1>5. ASSUME NEW t \in IoThreads, IoStep(t) PROVE Earlier' /\ PortOrder'
  <2>1. ASSUME NEW b \in Msg, IoGotBuffer(t, b) PROVE Earlier' /\ PortOrder'
    BY <1>2, <2>1, OrderCopy
  <2>2. CASE IoPush(t)
    BY <1>2, <2>2, OrderPush
  <2>3. ASSUME NEW p \in Ports, NEW usable \in BOOLEAN, IoCompletion(t, p, usable)
        PROVE  Earlier' /\ PortOrder'
    <3>1. /\ io[t] = "wait" /\ ctx[p] = "completed" /\ ctx' = [ctx EXCEPT ![p] = "busy"]
          /\ ioport' = [ioport EXCEPT ![t] = p] /\ UNCHANGED <<ring, data, arrived, iobuf>>
      BY <2>3 DEF IoCompletion, CtxInUse, qvars, ring
    <3>2. io'[t] # "push" /\ \A u \in IoThreads : u # t => io'[u] = io[u]
      <4>1. \E v \in {"exit", "acquire", "rearm"} : io' = [io EXCEPT ![t] = v]
        BY <2>3, Zenon DEF IoCompletion
      <4>2. QED BY <4>1 DEF PipelineTypes
    <3>3. ioport'[t] = p /\ \A u \in IoThreads : u # t => ioport'[u] = ioport[u]
      BY <3>1 DEF PipelineTypes
    <3>4. ctx'[p] = "busy" /\ \A q \in Ports : q # p => ctx'[q] = ctx[q]
      BY <3>1 DEF PipelineTypes
    <3>5. PortOrder' /\ Contents' = Contents
      BY <1>3, <3>1
    <3>6. ASSUME NEW b \in Members(Contents)
          PROVE  /\ data[b] \in Ports \X Nat /\ data[b][2] <= arrived[data[b][1]]
                 /\ ctx'[data[b][1]] = "completed" => data[b][2] < arrived[data[b][1]]
                 /\ \A u \in IoThreads : io'[u] \in {"acquire", "push"} /\ ioport'[u] = data[b][1]
                                             => data[b][2] < arrived[data[b][1]]
      <4>1. /\ data[b] \in Ports \X Nat /\ data[b][2] <= arrived[data[b][1]]
            /\ ctx[data[b][1]] = "completed" => data[b][2] < arrived[data[b][1]]
            /\ \A u \in IoThreads : io[u] \in {"acquire", "push"} /\ ioport[u] = data[b][1]
                                        => data[b][2] < arrived[data[b][1]]
        BY DEF Earlier
      <4>2. data[b][1] \in Ports
        BY <4>1
      <4>3. QED BY <3>1, <3>2, <3>3, <3>4, <4>1, <4>2
    <3>7. \A u \in IoThreads : io'[u] = "push" => data[iobuf[u]] = <<ioport'[u], arrived[ioport'[u]]>>
      BY <3>2, <3>3 DEF Earlier
    <3>8. Earlier'
      BY <3>1, <3>5, <3>6, <3>7 DEF Earlier
    <3>9. QED BY <3>5, <3>8
  <2>4. CASE IoNoBuffer(t)
    BY <1>4, <2>4 DEF IoNoBuffer, qvars, ring, ioState
  <2>5. CASE IoShutdown(t) \/ IoDropped(t)
    <3>1. /\ UNCHANGED <<ring, data, arrived, ctx, ioport, iobuf>>
          /\ \E v \in {"exit", "rearm"} : io' = [io EXCEPT ![t] = v]
      BY <2>5 DEF IoShutdown, IoDropped, qvars, ring
    <3>2. \A u \in IoThreads : io'[u] \in {"acquire", "push"} => io'[u] = io[u]
      BY <3>1 DEF PipelineTypes
    <3>3. PortOrder' /\ Contents' = Contents
      BY <1>3, <3>1
    <3>4. QED BY <3>1, <3>2, <3>3, EarlierLess
  <2>6. ASSUME NEW ok \in BOOLEAN, IoRearm(t, ok) PROVE Earlier' /\ PortOrder'
    <3>1. /\ UNCHANGED <<ring, data, arrived, iobuf>>
          /\ \E v \in {"wait", "exit"} : io' = [io EXCEPT ![t] = v]
          /\ \E v \in {"armed", "dead"} : ctx' = [ctx EXCEPT ![ioport[t]] = v]
          /\ ioport' = [ioport EXCEPT ![t] = NoMsg]
      BY <2>6 DEF IoRearm, qvars, ring
    <3>2. \A u \in IoThreads : io'[u] \in {"acquire", "push"} =>
             io'[u] = io[u] /\ ioport'[u] = ioport[u]
      BY <3>1 DEF PipelineTypes
    <3>3. \A p \in Ports : ctx'[p] = "completed" => ctx[p] = "completed"
      BY <3>1 DEF PipelineTypes
    <3>4. PortOrder' /\ Contents' = Contents
      BY <1>3, <3>1
    <3>5. QED BY <3>1, <3>2, <3>3, <3>4, EarlierLess
  <2>7. QED BY <1>5, <2>1, <2>2, <2>3, <2>4, <2>5, <2>6 DEF IoStep
<1>6. ASSUME NEW c \in Consumers, HandlerStep(c) PROVE Earlier' /\ PortOrder'
  <2>1. UNCHANGED <<data, arrived, ctx, io, ioport, iobuf>>
    BY <1>6 DEF HandlerStep, HandlerLoop, HandlerTake, HandlerSleep, HandlerNothing, HandlerDone, ioState
  <2>2. CASE HandlerTake(c)
    <3>1. Contents # <<>> /\ Contents' = Tail(Contents) /\ count' = count - 1
      BY <2>2, TakeEffect DEF HandlerTake
    <3>2. Members(Contents') \subseteq Members(Contents) /\ Len(Contents') = Len(Contents) - 1
      BY <1>1, <3>1, TakeFirst
    <3>3. Ordered(Contents', data')
      BY <1>1, <1>2, <2>1, <3>1, OrderedTail
    <3>4. PortOrder'
      BY <1>1, <3>1, <3>2, <3>3, PortOrderKept
    <3>5. QED BY <2>1, <3>2, <3>4, EarlierLess
  <2>3. CASE UNCHANGED ring
    BY <1>4, <2>1, <2>3
  <2>4. QED BY <1>6, <2>2, <2>3
        DEF HandlerStep, HandlerLoop, HandlerSleep, HandlerNothing, HandlerDone, PopSleep, PopWakes,
            Finish, qvars, ring
<1>7. CASE StopStep
  <2>1. CASE StopDrain
    <3>1. Contents' = <<>> /\ count' = 0 /\ UNCHANGED ioState
      BY <2>1, DrainEffect
    <3>2. Members(<<>>) = {} /\ Len(<<>>) = 0
      <4>1. <<>> \in Seq(Msg) /\ Len(<<>>) = 0
        BY EmptySeq
      <4>2. QED BY <4>1, EmptyContainer
    <3>3. PortOrder'
      BY <3>1 DEF PortOrder
    <3>4. Members(Contents') \subseteq Members(Contents)
      BY <3>1, <3>2
    <3>5. UNCHANGED <<data, arrived, ctx, io, ioport, iobuf>>
      BY <3>1 DEF ioState
    <3>6. QED BY <3>3, <3>4, <3>5, EarlierLess
  <2>2. CASE StopPost \/ StopQueue \/ StopDestroy
    BY <1>4, <2>2 DEF StopPost, StopQueue, StopDestroy, Stop, qvars, ring, ioState
  <2>3. QED BY <1>7, <2>1, <2>2 DEF StopStep
<1>8. ASSUME NEW p \in Ports, Arrive(p) PROVE Earlier' /\ PortOrder'
  <2>1. /\ ctx[p] = "armed" /\ ctx' = [ctx EXCEPT ![p] = "completed"]
        /\ arrived' = [arrived EXCEPT ![p] = @ + 1]
        /\ UNCHANGED <<ring, data, io, ioport, iobuf>>
    BY <1>8 DEF Arrive, qvars, ring
  <2>2. /\ arrived[p] \in Nat /\ arrived'[p] = arrived[p] + 1
        /\ \A q \in Ports : q # p => arrived'[q] = arrived[q] /\ ctx'[q] = ctx[q]
    BY <2>1 DEF PipelineTypes
  <2>3. PortOrder' /\ Contents' = Contents
    BY <1>3, <2>1
  <2>4. ASSUME NEW b \in Members(Contents)
        PROVE  /\ data[b] \in Ports \X Nat /\ data[b][2] <= arrived'[data[b][1]]
               /\ ctx'[data[b][1]] = "completed" => data[b][2] < arrived'[data[b][1]]
               /\ \A u \in IoThreads : io[u] \in {"acquire", "push"} /\ ioport[u] = data[b][1]
                                           => data[b][2] < arrived'[data[b][1]]
    <3>1. /\ data[b] \in Ports \X Nat /\ data[b][2] <= arrived[data[b][1]]
          /\ ctx[data[b][1]] = "completed" => data[b][2] < arrived[data[b][1]]
          /\ \A u \in IoThreads : io[u] \in {"acquire", "push"} /\ ioport[u] = data[b][1]
                                      => data[b][2] < arrived[data[b][1]]
      BY DEF Earlier
    <3>2. data[b][1] \in Ports /\ data[b][2] \in Nat
      BY <3>1
    <3>3. CASE data[b][1] = p
      <4>1. data[b][2] < arrived'[p] /\ data[b][2] <= arrived'[p]
        BY <2>2, <3>1, <3>2, <3>3
      <4>2. QED BY <3>1, <3>3, <4>1
    <3>4. CASE data[b][1] # p
      BY <2>2, <3>1, <3>2, <3>4
    <3>5. QED BY <3>3, <3>4
  <2>5. \A u \in IoThreads : io[u] = "push" => data[iobuf[u]] = <<ioport[u], arrived'[ioport[u]]>>
    <3>1. \A u \in IoThreads : io[u] = "push" => ioport[u] \in Ports /\ ioport[u] # p
      BY <2>1 DEF Contexts, Carrying
    <3>2. QED BY <2>2, <3>1 DEF Earlier
  <2>6. Earlier'
    BY <2>1, <2>3, <2>4, <2>5 DEF Earlier
  <2>7. QED BY <2>3, <2>6
<1>9. CASE StopBegin \/ UNCHANGED vars
  BY <1>4, <1>9 DEF StopBegin, vars, qvars, ring, ioState
<1>10. QED BY <1>5, <1>6, <1>7, <1>8, <1>9 DEF Next
-----------------------------------------------------------------------------
(* The invariant holds.                                                    *)

\* A stack of distinct slots has at most as many places as there are slots,
\* and just as many when no slot is missing.
LEMMA DistinctLength ==
    ASSUME NEW s \in Seq(Slots), Distinct(s)
    PROVE  /\ Len(s) \in Nat /\ Cardinality(Slots) \in Nat /\ Len(s) <= Cardinality(Slots)
           /\ Len(s) = Cardinality(Slots) <=> Slots \subseteq Members(s)
<1>0. IsFiniteSet(Slots) /\ Slots \subseteq Msg /\ NoMsg \notin Msg
  BY PoolAssumption, IngressAssumption, QueueAssumption
  DEF PoolAssumption, IngressAssumption, QueueAssumption
<1>1. Len(s) \in Nat /\ DOMAIN s = 1 .. Len(s) /\ s \in [1 .. Len(s) -> Slots]
  BY LenProperties
<1>2. \A i \in 1 .. Len(s) : s[i] \in Slots /\ s[i] # NoMsg
  BY <1>0, <1>1
<1>3. \A i, j \in 1 .. Len(s) : s[i] = s[j] => i = j
  BY <1>1, <1>2 DEF Distinct
<1>4. Members(s) = {s[i] : i \in 1 .. Len(s)}
  BY <1>1, <1>2 DEF Members
<1>5. s \in Injection(1 .. Len(s), Slots)
  BY <1>1, <1>3 DEF Injection, IsInjective
<1>6. Cardinality(1 .. Len(s)) = Len(s)
  BY <1>1, FS_Interval
<1>7. s \in Surjection(1 .. Len(s), Slots) <=> Slots \subseteq Members(s)
  BY <1>1, <1>4 DEF Surjection
<1>8. Cardinality(Slots) \in Nat
  BY <1>0, FS_CardinalityType
<1>9. QED BY <1>0, <1>1, <1>5, <1>6, <1>7, <1>8, FS_Injection

\* The state krs_server_start leaves satisfies the invariant.
LEMMA InvInit == Init => IInv
<1> SUFFICES ASSUME Init PROVE IInv
  OBVIOUS
<1>0. /\ IsFiniteSet(Slots) /\ Slots \subseteq Msg /\ NoMsg \notin Msg
      /\ MaxFallback \in Nat /\ MaxDatagrams \in Nat /\ Cardinality(Slots) \in Nat
  BY PoolAssumption, IngressAssumption, QueueAssumption, FS_CardinalityType
  DEF PoolAssumption, IngressAssumption, QueueAssumption
<1>1. QInv
  BY QueueStarts DEF Init
<1>2. /\ free_stack \in Seq(Slots) /\ Len(free_stack) = Cardinality(Slots)
      /\ DOMAIN free_stack = 1 .. Cardinality(Slots)
  BY <1>0, FcnIsSeq DEF Init, PInit
<1>3. Distinct(free_stack)
  BY <1>2 DEF Init, PInit, Distinct
<1>4. PipelineTypes
  BY <1>0, <1>2 DEF Init, PInit, PipelineTypes
<1>5. Hands /\ Contexts /\ StopOrder
  BY DEF Init, PInit, QInit, Hands, Contexts, Carrying, StopOrder
<1>6. Contents \in Seq(Msg) /\ Len(Contents) = 0 /\ count = 0
  BY <1>1, RingFacts DEF Init, QInit
<1>7. Members(Contents) = {} /\ Distinct(Contents)
  BY <1>6, EmptyContainer
<1>8. Members(iobuf) = {} /\ Distinct(iobuf) /\ Members(hold) = {} /\ Distinct(hold)
  BY DEF Init, QInit, Members, Distinct
<1>9. Members(free_stack) = Slots
  <2>1. Slots \subseteq Members(free_stack)
    BY <1>2, <1>3, DistinctLength
  <2>2. Members(free_stack) \subseteq Slots
    BY <1>2 DEF Init, PInit, Members
  <2>3. QED BY <2>1, <2>2
<1>10. Ownership
  BY <1>3, <1>7, <1>8, <1>9 DEF Ownership, Partition, Init, PInit
<1>11. FallbackExact /\ Admitted
  <2>1. live = {} /\ outstanding = 0 /\ \A t \in IoThreads : acq[t] = "none"
    BY DEF Init, PInit
  <2>2. Acquiring({"malloc"}) = {} /\ {t \in IoThreads : acq[t] \in {"malloc", "undo"}} = {}
    BY <2>1 DEF Acquiring
  <2>3. Cardinality({}) = 0
    BY FS_EmptySet
  <2>4. FallbackExact
    <3>1. outstanding = Cardinality({}) + Cardinality({})
      BY <2>1, <2>3
    <3>2. QED BY <2>1, <2>2, <3>1, Zenon DEF FallbackExact
  <2>5. Admitted
    <3>1. Cardinality({}) + Cardinality({}) <= MaxFallback
      BY <1>0, <2>3
    <3>2. QED BY <2>1, <2>2, <3>1, Zenon DEF Admitted
  <2>6. QED BY <2>4, <2>5
<1>12. Earlier /\ PortOrder
  BY <1>6, <1>7 DEF Earlier, PortOrder, Init
<1>13. QED BY <1>1, <1>4, <1>5, <1>10, <1>11, <1>12 DEF IInv

\* Every reachable state of the pipeline (iocp_io_thread.c, message_pool.c,
\* message_queue.c, message_handler.c, iocp_lifecycle.c) satisfies the
\* inductive invariant.
THEOREM PipelineInvariant == Spec => []IInv
<1>1. Init => IInv
  BY InvInit
<1>2. IInv /\ [Next]_vars => IInv'
  <2> SUFFICES ASSUME IInv, [Next]_vars PROVE IInv'
    OBVIOUS
  <2>1. /\ QInv /\ PipelineTypes /\ Hands /\ Contexts /\ Ownership
        /\ FallbackExact /\ Admitted /\ Earlier /\ PortOrder /\ StopOrder
    BY DEF IInv
  <2>2. QInv' /\ PipelineTypes' /\ Hands' /\ Contexts' /\ Ownership'
    BY <2>1, QueueKept, TypesStep, HandsStep, ContextsStep, OwnershipStep
  <2>3. FallbackExact' /\ Admitted'
    BY <2>1, CountingStep
  <2>4. Earlier' /\ PortOrder' /\ StopOrder'
    BY <2>1, OrderStep, StopOrderStep
  <2>5. QED BY <2>2, <2>3, <2>4 DEF IInv
<1>3. QED BY <1>1, <1>2, PTL DEF Spec
-----------------------------------------------------------------------------
(* What it gives.                                                          *)

\* The variables of the pipeline keep their types; in particular the free
\* stack of message_pool.c never holds more entries than the pool has slots.
THEOREM PipelineTypeCorrect == Spec => []TypeOK
<1>1. IInv => TypeOK
  <2> SUFFICES ASSUME IInv PROVE TypeOK
    OBVIOUS
  <2>1. QTypeOK /\ PipelineTypes /\ Distinct(free_stack) /\ FallbackExact
    BY DEF IInv, QInv, Ownership
  <2>2. outstanding \in Nat
    <3>1. outstanding = Cardinality(live) + Cardinality(Acquiring({"malloc", "undo"}))
      BY <2>1 DEF FallbackExact, Acquiring
    <3>2. Cardinality(live) \in Nat /\ Cardinality(Acquiring({"malloc", "undo"})) \in Nat
      BY <2>1, Countable
    <3>3. QED BY <3>1, <3>2
  <2>3. Len(free_stack) <= Cardinality(Slots)
    BY <2>1, DistinctLength DEF PipelineTypes
  <2>4. QED BY <2>1, <2>2, <2>3 DEF TypeOK, PipelineTypes
<1>2. QED BY <1>1, PipelineInvariant, PTL

\* A container without duplicates holds a buffer once or not at all.
LEMMA Places ==
    ASSUME NEW f, Distinct(f), NEW b, b # NoMsg
    PROVE  Cardinality({x \in DOMAIN f : f[x] = b}) = IF b \in Members(f) THEN 1 ELSE 0
<1> DEFINE P == {x \in DOMAIN f : f[x] = b}
<1>1. CASE b \in Members(f)
  <2>1. PICK x \in DOMAIN f : f[x] = b
    BY <1>1 DEF Members
  <2>2. P = {x}
    BY <2>1 DEF Distinct
  <2>3. QED BY <1>1, <2>2, FS_Singleton
<1>2. CASE b \notin Members(f)
  <2>1. P = {}
    BY <1>2 DEF Members
  <2>2. QED BY <1>2, <2>1, FS_EmptySet
<1>3. QED BY <1>1, <1>2

\* Every buffer is at every moment in exactly one place - the free stack, the
\* queue, an I/O thread or a handler thread - or, for a heap buffer, freed:
\* the releases of iocp_io_thread.c, message_handler.c and message_queue.c
\* give back each buffer that message_pool.c handed out exactly once.
THEOREM BuffersOwned == Spec => []OneOwner
<1>1. IInv => OneOwner
  <2> SUFFICES ASSUME IInv, NEW b \in Msg
               PROVE  Owners(b) = IF b \in Slots \cup live THEN 1 ELSE 0
    BY DEF OneOwner
  <2>1. /\ QInv /\ PipelineTypes
        /\ Distinct(free_stack) /\ Distinct(Contents) /\ Distinct(iobuf) /\ Distinct(hold)
        /\ Partition(Members(free_stack), Members(Contents), Members(iobuf), Members(hold), live)
    BY DEF IInv, Ownership
  <2>2. b # NoMsg
    BY QueueAssumption DEF QueueAssumption
  <2>3. DOMAIN free_stack = 1 .. Len(free_stack)
    BY <2>1, LenProperties DEF PipelineTypes
  <2>4. DOMAIN Contents = 1 .. count
    BY <2>1, RingFacts, SeqContainer
  <2>5. DOMAIN iobuf = IoThreads /\ DOMAIN hold = Consumers
    BY <2>1 DEF PipelineTypes, QInv, QTypeOK
  <2> DEFINE F == Cardinality({i \in 1 .. Len(free_stack) : free_stack[i] = b})
             Q == Cardinality({i \in 1 .. count : Contents[i] = b})
             I == Cardinality({t \in IoThreads : iobuf[t] = b})
             H == Cardinality({c \in Consumers : hold[c] = b})
  <2>6. F = IF b \in Members(free_stack) THEN 1 ELSE 0
    BY <2>1, <2>2, <2>3, Places
  <2>7. Q = IF b \in Members(Contents) THEN 1 ELSE 0
    BY <2>1, <2>2, <2>4, Places
  <2>8. I = IF b \in Members(iobuf) THEN 1 ELSE 0
    BY <2>1, <2>2, <2>5, Places
  <2>9. H = IF b \in Members(hold) THEN 1 ELSE 0
    BY <2>1, <2>2, <2>5, Places
  <2>10. Owners(b) = F + Q + I + H
    BY DEF Owners
  <2> HIDE DEF F, Q, I, H
  <2>11. QED BY <2>1, <2>6, <2>7, <2>8, <2>9, <2>10 DEF Partition
<1>2. QED BY <1>1, PipelineInvariant, PTL

\* However acquires and releases interleave around the counter that
\* message_pool.c reads outside its lock, the limit on heap buffers is kept.
THEOREM FallbackLimited == Spec => []FallbackBounded
<1>1. IInv => FallbackBounded
  <2> SUFFICES ASSUME IInv PROVE FallbackBounded
    OBVIOUS
  <2>1. Cardinality(live) \in Nat /\ MaxFallback \in Nat /\ Cardinality(Acquiring({"malloc"})) \in Nat
    BY Countable DEF IInv
  <2>2. Cardinality(live) + Cardinality(Acquiring({"malloc"})) <= MaxFallback
    BY DEF IInv, Admitted
  <2>3. QED BY <2>1, <2>2 DEF FallbackBounded
<1>2. QED BY <1>1, PipelineInvariant, PTL

\* outstanding_fallback_count of message_pool.c never drifts: it is the heap
\* buffers in use and the acquires that have counted themselves.
THEOREM FallbackCounted == Spec => []FallbackExact
<1>1. IInv => FallbackExact
  BY DEF IInv
<1>2. QED BY <1>1, PipelineInvariant, PTL

\* Although any I/O thread of iocp_io_thread.c may carry any datagram, those
\* of one port are queued in the order they arrived.
THEOREM PortsOrdered == Spec => []PortOrder
<1>1. IInv => PortOrder
  BY DEF IInv
<1>2. QED BY <1>1, PipelineInvariant, PTL

\* When krs_server_stop (iocp_lifecycle.c) destroys the pool, every slot is
\* back on the free stack, every heap buffer is freed and the counter is 0.
THEOREM ShutdownClean == Spec => []CleanShutdown
<1>1. IInv => CleanShutdown
  <2> SUFFICES ASSUME IInv, spc = "down"
               PROVE  Len(free_stack) = Cardinality(Slots) /\ live = {} /\ outstanding = 0
    BY DEF CleanShutdown
  <2>1. /\ count = 0 /\ \A t \in IoThreads : io[t] = "exit"
        /\ \A c \in Consumers : hpc[c] = "exit"
    BY DEF IInv, StopOrder
  <2>2. /\ \A t \in IoThreads : iobuf[t] = NoMsg /\ acq[t] = "none"
        /\ \A c \in Consumers : hold[c] = NoMsg
    BY <2>1 DEF IInv, Hands
  <2>3. Members(Contents) = {}
    BY <2>1, RingFacts, EmptyContainer DEF IInv
  <2>4. Members(iobuf) = {} /\ Members(hold) = {}
    <3>1. DOMAIN iobuf = IoThreads /\ DOMAIN hold = Consumers
      BY DEF IInv, PipelineTypes, QInv, QTypeOK
    <3>2. QED BY <2>2, <3>1 DEF Members
  <2>5. Members(free_stack) = Slots \cup live
    BY <2>3, <2>4 DEF IInv, Ownership, Partition
  <2>6. Members(free_stack) \subseteq Slots
    BY LenProperties DEF IInv, PipelineTypes, Members
  <2>7. live = {}
    BY <2>5, <2>6, PoolAssumption DEF IInv, PipelineTypes, PoolAssumption
  <2>8. Len(free_stack) = Cardinality(Slots)
    BY <2>5, DistinctLength DEF IInv, PipelineTypes, Ownership
  <2>9. outstanding = 0
    <3>1. {t \in IoThreads : acq[t] \in {"malloc", "undo"}} = {}
      BY <2>2
    <3>2. QED BY <2>7, <3>1, FS_EmptySet DEF IInv, FallbackExact
  <2>10. QED BY <2>7, <2>8, <2>9
<1>2. QED BY <1>1, PipelineInvariant, PTL

\* The pipeline uses its queue as message_queue.c allows: what is proved of
\* the queue alone holds of the queue in the server, so what the handlers
\* take is the abstract first-in first-out queue that loses only the oldest.
THEOREM PipelineQueueIsFifo == Spec => ImplementsFifo
<1>1. Init => QInit
  BY DEF Init
<1>2. IInv /\ [Next]_vars => [QNext]_qvars
  BY IsQueueStep DEF IInv
<1>3. Spec => QSpec
  BY <1>1, <1>2, PipelineInvariant, PTL DEF Spec, QSpec
<1>4. QED BY <1>3, QueueImplementsFifo, PTL
=============================================================================
