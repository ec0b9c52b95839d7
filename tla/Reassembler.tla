---------------------------- MODULE Reassembler ----------------------------
(***************************************************************************)
(* The reassembly of fragmented messages (fragment.c).  A session collects *)
(* the fragments of one packet id until it has all of them.  The server    *)
(* keeps one reassembler per channel, the client one for its connection.   *)
(***************************************************************************)
EXTENDS Integers, FiniteSets

CONSTANTS PerChannel,     \* one reassembler for each channel?
          MaxSessions     \* KRS_MAX_REASSEMBLY_SESSIONS, 256 in the code

ASSUME ReassemblerAssumption == PerChannel \in BOOLEAN /\ MaxSessions \in Nat

VARIABLE sessions   \* the open sessions: a function from their keys

RInit == sessions = << >>

\* s_find_session looks for the packet id in the reassembler at hand.
Key(f) == IF PerChannel THEN <<f.ch, f.pid>> ELSE <<f.pid>>

Known(f) == Key(f) \in DOMAIN sessions

\* A reassembler counts its own sessions only.
Siblings(f) == {k \in DOMAIN sessions : PerChannel => k[1] = f.ch}

\* A new session beyond the limit is refused, and the fragment with it.
Refused(f) == ~Known(f) /\ Cardinality(Siblings(f)) >= MaxSessions

\* s_create_session
NewSession(f) == [total |-> f.total, received |-> 0, ack |-> FALSE, pieces |-> {}]

Session(f) == IF Known(f) THEN sessions[Key(f)] ELSE NewSession(f)

\* Mutant of Fresh: a fragment counts whether or not its index is there.
AlwaysFresh(f) == TRUE

\* piece_received[index] is not set yet.
Fresh(f) == \A p \in Session(f).pieces : p.frag # f.frag

\* The session of f when f has been looked at.
Stored(f) ==
    IF Fresh(f)
    THEN [Session(f) EXCEPT !.ack = @ \/ f.ack, !.received = @ + 1, !.pieces = @ \cup {f}]
    ELSE [Session(f) EXCEPT !.ack = @ \/ f.ack]

Completes(f) == ~Refused(f) /\ Fresh(f) /\ Stored(f).received = Stored(f).total

Without(keys) == [k \in DOMAIN sessions \ keys |-> sessions[k]]

\* krs_reassembler_feed: a complete session is removed.
Feed(f) ==
    sessions' = CASE Refused(f) -> sessions
                  [] Completes(f) -> Without({Key(f)})
                  [] OTHER -> [k \in DOMAIN sessions \cup {Key(f)} |->
                                  IF k = Key(f) THEN Stored(f) ELSE sessions[k]]

\* krs_reassembler_sweep_stale, when the sessions in stale are old enough.
Sweep(stale) == sessions' = Without(stale)
=============================================================================
