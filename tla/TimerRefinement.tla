-------------------------- MODULE TimerRefinement --------------------------
(***************************************************************************)
(* The manager implements the life of a timer: an entry is armed from the  *)
(* Start that made it until it is marked cancelled or listed as expired.   *)
(***************************************************************************)
EXTENDS TimerManager

PhaseOf(g) ==
    CASE g > alloc -> "unused"
      [] g \leq alloc /\ expCalls[g] > 0 -> "fired"
      [] g \leq alloc /\ expCalls[g] = 0 /\ g \in cancelled -> "cancelled"
      [] g \leq alloc /\ expCalls[g] = 0 /\ g \notin cancelled /\ g \in expired -> "due"
      [] OTHER -> "armed"

Life == INSTANCE TimerLife WITH
            Calls <- Gens,
            phase <- [g \in Gens |-> PhaseOf(g)],
            resent <- retxCalls,
            late <- lateCalls

(* Every behaviour of the manager, seen through the phase of its entries,  *)
(* is one of the abstract timer's: Start, Cancel and CancelAllForUE against *)
(* the two unlocked loops of tick never revive a call that was cancelled   *)
(* or has fired, and never fire one that was not due.                      *)
ImplementsLife == Life!LifeSpec
=============================================================================
