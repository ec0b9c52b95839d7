----------------------------- MODULE Congestion -----------------------------
(***************************************************************************)
(* The congestion controller of one connection (congestion_controller.c).  *)
(*                                                                         *)
(* cwnd and ssthresh are doubles in the code; only the whole part of cwnd  *)
(* decides whether a packet may be sent, so the model keeps the whole      *)
(* parts and, where the fractions decide, allows both outcomes.  The RTT   *)
(* estimate only sets timers, which are abstracted.                        *)
(***************************************************************************)
EXTENDS Integers

CONSTANTS InitialCwnd,      \* KRS_CC_INITIAL_CWND, 4 in the code
          InitialSsthresh   \* KRS_CC_INITIAL_SSTHRESH, 64 in the code

ASSUME CongestionAssumption ==
    /\ InitialCwnd \in Nat \ {0}
    /\ InitialSsthresh \in Nat \ {0}

VARIABLES cwnd, ssthresh, in_flight, phase

ccvars == <<cwnd, ssthresh, in_flight, phase>>

CCInit ==
    /\ cwnd = InitialCwnd
    /\ ssthresh = InitialSsthresh
    /\ in_flight = 0
    /\ phase = "slow_start"

CanSend == in_flight < cwnd

OnSend ==
    /\ in_flight' = in_flight + 1
    /\ UNCHANGED <<cwnd, ssthresh, phase>>

\* cwnd >= ssthresh, for the whole parts w and s of the two.
ReachesThreshold(w, s) == IF w = s THEN BOOLEAN ELSE {w > s}

\* krs_congestion_on_ack.  One packet leaves the window; in slow start cwnd
\* grows by 1, and by 1/cwnd afterwards (x + 1/x is never below 2).
OnAck ==
    /\ in_flight' = IF in_flight > 0 THEN in_flight - 1 ELSE 0
    /\ \/ /\ phase = "slow_start"
          /\ cwnd' = cwnd + 1
          /\ \E reached \in ReachesThreshold(cwnd + 1, ssthresh) :
                phase' = IF reached THEN "avoidance" ELSE "slow_start"
       \/ /\ phase = "avoidance"
          /\ cwnd' \in IF cwnd = 1 THEN {2} ELSE {cwnd, cwnd + 1}
          /\ UNCHANGED phase
    /\ UNCHANGED ssthresh

\* cwnd / 2, but at least KRS_CC_MIN_CWND.
Halved == IF cwnd \div 2 < 1 THEN 1 ELSE cwnd \div 2

OnTimeoutLoss ==
    /\ ssthresh' = Halved
    /\ cwnd' = 1
    /\ phase' = "slow_start"
    /\ UNCHANGED in_flight

OnFastLoss ==
    /\ ssthresh' = Halved
    /\ cwnd' = Halved
    /\ phase' = "avoidance"
    /\ UNCHANGED in_flight

CCTypeOK ==
    /\ cwnd \in Nat \ {0}
    /\ ssthresh \in Nat \ {0}
    /\ in_flight \in Nat
    /\ phase \in {"slow_start", "avoidance"}
=============================================================================
