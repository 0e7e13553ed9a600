----------------------------- MODULE TimerLife -----------------------------
(***************************************************************************)
(* What the timer package promises the code that starts timers: the life   *)
(* of one Start call.  It is armed; it is cancelled, or it comes due and   *)
(* fires; cancelled and fired are final.  While it is armed its message is *)
(* sent again, and a retransmission whose turn had come may still go out   *)
(* once after a cancellation.                                              *)
(***************************************************************************)
EXTENDS Naturals

CONSTANT
    Calls       \* the Start calls of a behaviour

VARIABLES
    phase,      \* where each call is in its life
    resent,     \* retransmissions made for it
    late        \* those of them made after its cancellation

lifeVars == <<phase, resent, late>>

Phases == {"unused", "armed", "cancelled", "due", "fired"}

LifeInit ==
    /\ phase = [c \in Calls |-> "unused"]
    /\ resent = [c \in Calls |-> 0]
    /\ late = [c \in Calls |-> 0]

Move(S, to) == [c \in Calls |-> IF c \in S THEN to ELSE phase[c]]

Armed == {c \in Calls : phase[c] = "armed"}

(* A Start arms a new call and cancels at most one, that of the same timer. *)
Arm ==
    \E c \in Calls, S \in SUBSET Armed :
        /\ phase[c] = "unused"
        /\ \A a, b \in S : a = b
        /\ phase' = [Move(S, "cancelled") EXCEPT ![c] = "armed"]
        /\ UNCHANGED <<resent, late>>

Disarm ==
    \E S \in SUBSET Armed :
        /\ S # {}
        /\ phase' = Move(S, "cancelled")
        /\ UNCHANGED <<resent, late>>

ComeDue ==
    \E S \in SUBSET Armed :
        /\ S # {}
        /\ phase' = Move(S, "due")
        /\ UNCHANGED <<resent, late>>

Fire(c) ==
    /\ phase[c] = "due"
    /\ phase' = [phase EXCEPT ![c] = "fired"]
    /\ UNCHANGED <<resent, late>>

(* A call that is due has had its last retransmission. *)
Resend(c) ==
    /\ phase[c] \in {"armed", "cancelled"}
    /\ resent' = [resent EXCEPT ![c] = @ + 1]
    /\ phase[c] = "cancelled" => late[c] = 0
    /\ late' = IF phase[c] = "cancelled" THEN [late EXCEPT ![c] = 1] ELSE late
    /\ UNCHANGED phase

LifeNext == Arm \/ Disarm \/ ComeDue \/ \E c \in Calls : Fire(c) \/ Resend(c)

LifeSpec == LifeInit /\ [][LifeNext]_lifeVars
=============================================================================
