------------------------------ MODULE FifoQueue ------------------------------
(***************************************************************************)
(* What the server's message queue promises its users, without ring        *)
(* buffer, growth or condition variable: a bounded first-in first-out      *)
(* queue that makes room by discarding its oldest element.  MessageQueue   *)
(* implements this specification.                                          *)
(***************************************************************************)
EXTENDS Naturals, Sequences

CONSTANTS Msg,        \* messages
          NoMsg,      \* what a consumer holds between two pops
          Consumers,  \* threads that take messages out
          Bound       \* the largest number of messages ever kept

VARIABLES fifo,       \* the queued messages, oldest first
          hold        \* the message each consumer has taken and not finished

vars == <<fifo, hold>>

Init ==
    /\ fifo = <<>>
    /\ hold = [c \in Consumers |-> NoMsg]

Enqueue(m) ==
    /\ Len(fifo) < Bound
    /\ fifo' = Append(fifo, m)
    /\ UNCHANGED hold

\* A full queue loses its oldest message, never the new one.
Overwrite(m) ==
    /\ Len(fifo) = Bound
    /\ fifo' = Append(Tail(fifo), m)
    /\ UNCHANGED hold

Dequeue(c) ==
    /\ hold[c] = NoMsg
    /\ fifo # <<>>
    /\ hold' = [hold EXCEPT ![c] = Head(fifo)]
    /\ fifo' = Tail(fifo)

Finish(c) ==
    /\ hold[c] # NoMsg
    /\ hold' = [hold EXCEPT ![c] = NoMsg]
    /\ UNCHANGED fifo

Clear ==
    /\ fifo' = <<>>
    /\ UNCHANGED hold

Next ==
    \/ \E m \in Msg : Enqueue(m) \/ Overwrite(m)
    \/ \E c \in Consumers : Dequeue(c) \/ Finish(c)
    \/ Clear

Spec == Init /\ [][Next]_vars
=============================================================================
