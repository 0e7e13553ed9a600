--------------------------- MODULE MCTimerManager ---------------------------
(* TimerManager with one timer that retransmits and one that does not. *)
EXTENDS TimerRefinement

MCNames == {"T3560", "T3512"}
MCUEs == {"ue1", "ue2"}

(* total = interval * (MaxRetransmit + 1), as fsm.startTimer computes it. *)
MCDuration == [n \in MCNames |-> IF n = "T3560" THEN 3 ELSE 1]
MCInterval == [n \in MCNames |-> IF n = "T3560" THEN 1 ELSE 0]
MCMaxRetx == [n \in MCNames |-> IF n = "T3560" THEN 2 ELSE 0]

(* The totals leave room for late ticks, here with nothing to spare. *)
ASSUME MCCadence == Cadence
=============================================================================
