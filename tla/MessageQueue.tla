---------------------------- MODULE MessageQueue ----------------------------
(***************************************************************************)
(* connection/server/message_queue.c: the ring buffer between the I/O      *)
(* threads and the message handler threads of the server.                  *)
(*                                                                         *)
(* Every operation runs under queue->lock, so each critical section is one *)
(* step.  A consumer that finds the queue empty sleeps on the condition    *)
(* variable not_empty, which splits krs_message_queue_pop in two steps.    *)
(***************************************************************************)
EXTENDS Naturals, FiniteSets

CONSTANTS Msg,              \* message buffers (IncomingMessage_t*)
          NoMsg,            \* NULL, and the content of a slot never written
          Consumers,        \* the message handler threads
          InitialCapacity,  \* 256 in krs_server_start
          MaxCapacity       \* 65536

ASSUME QueueAssumption ==
    /\ InitialCapacity \in Nat \ {0}
    /\ MaxCapacity \in Nat
    /\ InitialCapacity <= MaxCapacity
    /\ NoMsg \notin Msg
    /\ Consumers # {}

VARIABLES items,     \* the ring: a function on 0 .. capacity - 1
          head, tail, count, capacity,
          stopped,   \* krs_message_queue_stop has run
          asleep,    \* consumers blocked in SleepConditionVariableCS
          hold       \* the message pop returned to a consumer, until released

ring == <<items, head, tail, count, capacity>>
qvars == <<items, head, tail, count, capacity, stopped, asleep, hold>>

\* The slot that holds the i-th oldest message, i counted from 0.
Slot(i) == (head + i) % capacity

QInit ==
    /\ items = [i \in 0 .. InitialCapacity - 1 |-> NoMsg]
    /\ head = 0 /\ tail = 0 /\ count = 0
    /\ capacity = InitialCapacity
    /\ stopped = FALSE
    /\ asleep = {}
    /\ hold = [c \in Consumers |-> NoMsg]
-----------------------------------------------------------------------------
(* krs_message_queue_push, one action for each way through it.             *)

\* Mutant of WakeOne: push forgets to signal not_empty.
WakeNone == UNCHANGED asleep

\* WakeConditionVariable: one sleeping consumer, if there is any.
WakeOne ==
    IF asleep = {} THEN UNCHANGED asleep
                   ELSE \E c \in asleep : asleep' = asleep \ {c}

\* There is a free slot: store at the tail.
PushRoom(m) ==
    /\ count < capacity
    /\ items' = [items EXCEPT ![tail] = m]
    /\ tail' = (tail + 1) % capacity
    /\ count' = count + 1
    /\ WakeOne
    /\ UNCHANGED <<head, capacity, stopped, hold>>

\* Mutant of DropOldest: count is lowered and raised again, head is not moved.
DropNothing == UNCHANGED head

\* The oldest message leaves the ring to make room.
DropOldest == head' = (head + 1) % capacity

\* Full at the maximum: the oldest message goes back to the pool (the caller
\* of this module adds that step), and the new one takes a slot.
PushDropOldest(m) ==
    /\ count = capacity
    /\ capacity >= MaxCapacity
    /\ DropOldest
    /\ items' = [items EXCEPT ![tail] = m]
    /\ tail' = (tail + 1) % capacity
    /\ count' = count
    /\ WakeOne
    /\ UNCHANGED <<capacity, stopped, hold>>

\* Mutant of GrownCapacity: the maximum is not applied to the doubled size.
DoubledCapacity == 2 * capacity

GrownCapacity == IF 2 * capacity > MaxCapacity THEN MaxCapacity ELSE 2 * capacity

\* Mutant of Copied: the array is copied as it lies, not in queue order.
CopiedAsItLies(i) == items[i]

\* What the copy loop of a growth stores in slot i of the new array.
Copied(i) == items[Slot(i)]

\* Full below the maximum: copy to a larger array in queue order, then store.
PushGrow(m) ==
    /\ count = capacity
    /\ capacity < MaxCapacity
    /\ items' = [i \in 0 .. GrownCapacity - 1 |->
                    IF i < count THEN Copied(i)
                    ELSE IF i = count THEN m ELSE NoMsg]
    /\ head' = 0
    /\ tail' = (count + 1) % GrownCapacity
    /\ capacity' = GrownCapacity
    /\ count' = count + 1
    /\ WakeOne
    /\ UNCHANGED <<stopped, hold>>

\* Full below the maximum and malloc fails: the new message is refused.
PushRefused(m) ==
    /\ count = capacity
    /\ capacity < MaxCapacity
    /\ UNCHANGED qvars

Push(m) == PushRoom(m) \/ PushDropOldest(m) \/ PushGrow(m) \/ PushRefused(m)
-----------------------------------------------------------------------------
(* krs_message_queue_pop                                                   *)

PopTake(c) ==
    /\ c \notin asleep
    /\ hold[c] = NoMsg
    /\ count > 0
    /\ hold' = [hold EXCEPT ![c] = items[head]]
    /\ head' = (head + 1) % capacity
    /\ count' = count - 1
    /\ UNCHANGED <<items, tail, capacity, stopped, asleep>>

PopSleep(c) ==
    /\ c \notin asleep
    /\ hold[c] = NoMsg
    /\ count = 0
    /\ ~stopped
    /\ asleep' = asleep \cup {c}
    /\ UNCHANGED <<ring, stopped, hold>>

\* The timeout passes (pop returns NULL) or the sleep ends spuriously.
PopWakes(c) ==
    /\ c \in asleep
    /\ asleep' = asleep \ {c}
    /\ UNCHANGED <<ring, stopped, hold>>

\* The consumer is done with its message and gives it back to the pool.
Finish(c) ==
    /\ hold[c] # NoMsg
    /\ hold' = [hold EXCEPT ![c] = NoMsg]
    /\ UNCHANGED <<ring, stopped, asleep>>
-----------------------------------------------------------------------------
\* Mutant of Stop: WakeConditionVariable where WakeAll is meant.
StopWakesOne ==
    /\ stopped' = TRUE
    /\ WakeOne
    /\ UNCHANGED <<ring, hold>>

\* krs_message_queue_stop: WakeAllConditionVariable.
Stop ==
    /\ stopped' = TRUE
    /\ asleep' = {}
    /\ UNCHANGED <<ring, hold>>

\* Mutant of Drain: count is left as it was.
DrainKeepsCount ==
    /\ items' = [s \in 0 .. capacity - 1 |->
                    IF \E i \in 0 .. count - 1 : s = Slot(i) THEN NoMsg ELSE items[s]]
    /\ head' = 0 /\ tail' = 0
    /\ UNCHANGED <<count, capacity, stopped, asleep, hold>>

\* krs_message_queue_drain: every queued message back to the pool.
Drain ==
    /\ items' = [s \in 0 .. capacity - 1 |->
                    IF \E i \in 0 .. count - 1 : s = Slot(i) THEN NoMsg ELSE items[s]]
    /\ count' = 0 /\ head' = 0 /\ tail' = 0
    /\ UNCHANGED <<capacity, stopped, asleep, hold>>

QNext ==
    \/ \E m \in Msg : Push(m)
    \/ \E c \in Consumers : PopTake(c) \/ PopSleep(c) \/ PopWakes(c) \/ Finish(c)
    \/ Stop
    \/ Drain

QSpec == QInit /\ [][QNext]_qvars

-----------------------------------------------------------------------------
(* Properties.                                                             *)

\* Types of the queue's fields; the indices stay inside the allocated array.
QTypeOK ==
    /\ capacity \in InitialCapacity .. MaxCapacity
    /\ items \in [0 .. capacity - 1 -> Msg \cup {NoMsg}]
    /\ head \in 0 .. capacity - 1
    /\ tail \in 0 .. capacity - 1
    /\ count \in 0 .. capacity
    /\ stopped \in BOOLEAN
    /\ asleep \subseteq Consumers
    /\ hold \in [Consumers -> Msg \cup {NoMsg}]

\* head, count and tail agree through wrap-around, growth and drop-oldest:
\* the slot push writes next is the one just after the newest message.
RingConsistent == tail = (head + count) % capacity

\* Every slot pop may read holds a message that was pushed: never NULL and
\* never the uninitialised part of a grown array.
LiveSlotsWritten == \A i \in 0 .. count - 1 : items[Slot(i)] \in Msg

\* push wakes a consumer whenever that is needed: the consumers are never
\* all asleep while a message waits, so delivery does not depend on the
\* 100 ms timeout of pop.
NoLostWakeup == asleep = Consumers => count = 0

\* After krs_message_queue_stop no consumer is blocked, nor blocks again.
StopReleasesAll == stopped => asleep = {}

\* The queued messages, oldest first.
Contents == [i \in 1 .. count |-> items[Slot(i - 1)]]

Fifo == INSTANCE FifoQueue WITH fifo <- Contents, hold <- hold, Bound <- MaxCapacity

\* The ring buffer implements the bounded first-in first-out queue.
ImplementsFifo == Fifo!Spec
=============================================================================
