----------------------------- MODULE AckTracker -----------------------------
(***************************************************************************)
(* The frames of one connection that wait for an ACK (ack_tracker.c).      *)
(*                                                                         *)
(* The code keeps them in an array, pushed at the end and removed in       *)
(* place; here they are a set, and "at" gives the order of the array.      *)
(* Time is abstracted: the entries whose timer has run out when the        *)
(* tracker is checked are an arbitrary set, so that every RTO, every       *)
(* backoff and every delay of the checking thread is covered.              *)
(***************************************************************************)
EXTENDS Integers, FiniteSets

CONSTANTS Channels,     \* channels frames are sent on
          MaxPid,       \* bound on the packets of a channel
          Sizes,        \* numbers of fragments a message may have
          MaxRetries,   \* 5 in the code
          Threshold,    \* KRS_FAST_RETRANSMIT_THRESHOLD, 3 in the code
          RetryCap,     \* entries of the caller's arrays: 16 in the client,
          DropCap       \* 32 in the server

ASSUME AckAssumption ==
    /\ MaxPid \in Nat \ {0}
    /\ Sizes \subseteq Nat \ {0}
    /\ MaxRetries \in Nat
    /\ Threshold \in Nat \ {0}
    /\ RetryCap \in Nat
    /\ DropCap \in Nat

VARIABLE pending   \* tracker->pending

Pid == 1 .. MaxPid

Frame == {f \in [ch : Channels, pid : Pid, frag : UNION {1 .. n : n \in Sizes},
                 total : Sizes, ack : BOOLEAN] : f.frag <= f.total}

\* acked_after_count is only compared with Threshold: it saturates there.
Entry == [frame : Frame, at : Nat \ {0}, retry : 0 .. MaxRetries, after : 0 .. Threshold]

\* The entry of message <<ch, pid>>?
IsOf(e, ch, pid) == e.frame.ch = ch /\ e.frame.pid = pid

Tracked(ch, pid) == \E e \in pending : IsOf(e, ch, pid)
-----------------------------------------------------------------------------
\* The end of the array: larger than the place of every entry.
End == CHOOSE n \in {0} \cup {e.at : e \in pending} : \A e \in pending : e.at <= n

\* krs_ack_tracker_expect, called for each of the frames in turn.  A frame
\* that cannot be copied is not in kept, and waits for nothing.
Expect(kept) ==
    pending' = pending \cup
        {[frame |-> f, at |-> End + f.frag, retry |-> 0, after |-> 0] : f \in kept}

\* s_record_ack_observation: every ACK counts for the earlier packets of
\* its channel, those that ACK a packet again included.
Observed(e, ch, pid) ==
    IF e.frame.ch = ch /\ e.frame.pid < pid /\ e.after < Threshold
    THEN [e EXCEPT !.after = @ + 1]
    ELSE e

\* krs_ack_tracker_receive_rtt: all the entries of the message leave.  It
\* returns an RTT, not -1, exactly when Tracked(ch, pid).
ReceiveAck(ch, pid) ==
    pending' = {Observed(e, ch, pid) : e \in {x \in pending : ~IsOf(x, ch, pid)}}
-----------------------------------------------------------------------------
(* krs_ack_tracker_check_timeouts, when the timers of timed have run out.  *)

IsFast(e) == e.after >= Threshold

Due(timed) == timed \cup {e \in pending : IsFast(e)}

\* Mutants of Exhausted: one retry more than the limit, and one less.
ExhaustedLate(timed) == {e \in Due(timed) : e.retry > MaxRetries}
ExhaustedEarly(timed) == {e \in Due(timed) : e.retry + 1 >= MaxRetries}

Exhausted(timed) == {e \in Due(timed) : e.retry >= MaxRetries}

Retried(timed) == Due(timed) \ Exhausted(timed)

\* The scan goes from the end of the array to its start: the entries that
\* fit into an output array of k are the last k.
LastOf(S, k) == {e \in S : Cardinality({x \in S : x.at > e.at}) < k}

\* What the scan leaves: the dropped entries are gone whether or not they
\* were recorded, and a retried entry has used a retry likewise.
CheckTimeouts(timed) ==
    pending' = (pending \ Due(timed)) \cup
               {[e EXCEPT !.retry = @ + 1, !.after = 0] : e \in Retried(timed)}

RetryRecorded(timed) == LastOf(Retried(timed), RetryCap)

\* Mutant of DropRecorded: the scan forgets to record what it drops.
DropForgotten(timed) == {}

DropRecorded(timed) == LastOf(Exhausted(timed), DropCap)

\* krs_ack_tracker_get_retry_frame, called after the scan: the first entry
\* with this packet id, whatever its channel and fragment.
RetryFrame(timed, pid) ==
    (CHOOSE e \in pending \ Exhausted(timed) :
        /\ e.frame.pid = pid
        /\ \A x \in pending \ Exhausted(timed) : x.frame.pid = pid => e.at <= x.at).frame

\* krs_ack_tracker_get_retry_frame_for_entry
RetryFrameForEntry(e) == e.frame
=============================================================================
