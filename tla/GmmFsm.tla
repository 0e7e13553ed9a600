------------------------------- MODULE GmmFsm -------------------------------
(***************************************************************************)
(* The per-UE 5GMM state machine of the AMF: its transition table          *)
(* (core/nf/amf/gmm/fsm_transitions.go) and the engine that runs the table *)
(* (core/nf/amf/gmm/fsm/fsm.go), as operators on the record                *)
(*                                                                         *)
(*   [st, armed, due, late, raced]                                         *)
(*                                                                         *)
(* st is the state of the FSM that Of(ue) returns.  armed holds the UE's   *)
(* entries in the map of the timer manager and due the entry that a tick   *)
(* has taken out of the map to call it back.  From then on Cancel cannot   *)
(* reach it (module TimerManager); late says that it was cancelled or      *)
(* restarted since.  The callback is a closure over the FSM that armed it: *)
(* own is "live" for the FSM of the registry, else the state in which      *)
(* Drop left the FSM behind.  raced is a history variable: a callback that *)
(* came late has taken a transition.                                       *)
(***************************************************************************)
EXTENDS Naturals

States ==
    {"Deregistered", "Identification", "Authentication", "SecurityMode",
     "RegisteredInitiated", "Registered", "DeregistrationInitiated", "MTDeregPending"}

(* The timers of the table, each with the expiry event it feeds back. *)
TimerEvents ==
    {<<"T3570", "T3570Expired">>, <<"T3560", "T3560AuthExpired">>,
     <<"T3560", "T3560SMCExpired">>, <<"T3550", "T3550Expired">>,
     <<"T3512", "T3512Expired">>, <<"T3555", "T3555Expired">>,
     <<"T3522", "T3522Expired">>, <<"Twait", "TwaitExpired">>}

Nothing == <<"-", "-">>

(***************************************************************************)
(* A row: the state entered, the timer stopped, the timer started with its *)
(* expiry event, and what the row's Action does besides logging: "release" *)
(* sends a UE Context Release Command, "clear" also calls ClearVolatile.   *)
(***************************************************************************)
Go(to, stop, start, act) == [to |-> to, stop |-> stop, start |-> start, act |-> act]

NoRow == Go("-", "-", Nothing, "-")

T3560Auth == <<"T3560", "T3560AuthExpired">>
T3560SMC == <<"T3560", "T3560SMCExpired">>
T3550 == <<"T3550", "T3550Expired">>
T3512 == <<"T3512", "T3512Expired">>

DeregisteredRow(ev) ==
    CASE ev = "RegistrationRequest" -> Go("Authentication", "-", T3560Auth, "log")
      [] ev = "RegRequestContextValid" -> Go("RegisteredInitiated", "-", T3550, "log")
      [] ev = "IdentityRequestSent" ->
            Go("Identification", "-", <<"T3570", "T3570Expired">>, "log")
      [] OTHER -> NoRow

IdentificationRow(ev) ==
    CASE ev = "IdentityResponse" -> Go("Authentication", "T3570", T3560Auth, "log")
      [] ev = "T3570Expired" -> Go("Deregistered", "-", Nothing, "release")
      [] ev = "IdentityResponseFail" -> Go("Deregistered", "T3570", Nothing, "log")
      [] ev = "RegistrationRequest" -> Go("Authentication", "T3570", T3560Auth, "log")
      [] OTHER -> NoRow

AuthenticationRow(ev) ==
    CASE ev = "AuthResponseValid" -> Go("SecurityMode", "T3560", T3560SMC, "log")
      [] ev = "AuthResponseInvalid" -> Go("Deregistered", "T3560", Nothing, "log")
      [] ev = "AuthRetry" -> Go("Authentication", "T3560", T3560Auth, "log")
      [] ev = "AuthenticationFailure" -> Go("Deregistered", "T3560", Nothing, "log")
      [] ev = "T3560AuthExpired" -> Go("Deregistered", "-", Nothing, "release")
      [] ev = "RegistrationRequest" -> Go("Authentication", "T3560", T3560Auth, "log")
      [] OTHER -> NoRow

SecurityModeRow(ev) ==
    CASE ev = "SecurityModeComplete" -> Go("RegisteredInitiated", "T3560", T3550, "log")
      [] ev = "SecurityModeReject" -> Go("Deregistered", "T3560", Nothing, "log")
      [] ev = "T3560SMCExpired" -> Go("Deregistered", "-", Nothing, "release")
      [] ev = "RegistrationRequest" -> Go("Authentication", "T3560", T3560Auth, "log")
      [] OTHER -> NoRow

(* Mutant: the T3550 row enters Registered without T3512. *)
RegisteredInitiatedNoT3512(ev) ==
    CASE ev = "RegistrationComplete" -> Go("Registered", "T3550", T3512, "log")
      [] ev = "T3550Expired" -> Go("Registered", "-", Nothing, "log")
      [] ev = "RegistrationRequest" -> Go("Authentication", "T3550", T3560Auth, "log")
      [] OTHER -> NoRow

RegisteredInitiatedRow(ev) ==
    CASE ev = "RegistrationComplete" -> Go("Registered", "T3550", T3512, "log")
      [] ev = "T3550Expired" -> Go("Registered", "-", T3512, "log")
      [] ev = "RegistrationRequest" -> Go("Authentication", "T3550", T3560Auth, "log")
      [] OTHER -> NoRow

(* ConfigUpdateComplete has two rows; the first one, a no-op, wins. *)
RegisteredRow(ev) ==
    CASE ev \in {"ULNASTransport", "ServiceRequest", "ConfigUpdateComplete",
                 "Status5GMM", "T3555Expired"} -> Go("Registered", "-", Nothing, "log")
      [] ev = "RegRequestContextValid" -> Go("RegisteredInitiated", "T3512", T3550, "log")
      [] ev = "RegistrationRequest" -> Go("Authentication", "T3512", T3560Auth, "log")
      [] ev = "ConfigUpdateCommandSent" ->
            Go("Registered", "-", <<"T3555", "T3555Expired">>, "log")
      [] ev = "DeregistrationRequestSentMT" ->
            Go("MTDeregPending", "T3512", <<"T3522", "T3522Expired">>, "log")
      [] ev = "T3512Expired" -> Go("Deregistered", "-", Nothing, "clear")
      [] ev = "DeregistrationRequestMO" ->
            Go("DeregistrationInitiated", "T3512", <<"Twait", "TwaitExpired">>, "log")
      [] OTHER -> NoRow

DeregistrationInitiatedRow(ev) ==
    CASE ev = "UEContextReleaseComplete" -> Go("Deregistered", "Twait", Nothing, "clear")
      [] ev = "TwaitExpired" -> Go("Deregistered", "-", Nothing, "clear")
      [] OTHER -> NoRow

MTDeregPendingRow(ev) ==
    CASE ev = "DeregistrationAcceptMT" -> Go("Deregistered", "T3522", Nothing, "clear")
      [] ev = "T3522Expired" -> Go("Deregistered", "-", Nothing, "clear")
      [] OTHER -> NoRow

(* The row that Fire finds for an event in a state, NoRow if none. *)
Row(s, ev) ==
    CASE s = "Deregistered" -> DeregisteredRow(ev)
      [] s = "Identification" -> IdentificationRow(ev)
      [] s = "Authentication" -> AuthenticationRow(ev)
      [] s = "SecurityMode" -> SecurityModeRow(ev)
      [] s = "RegisteredInitiated" -> RegisteredInitiatedRow(ev)
      [] s = "Registered" -> RegisteredRow(ev)
      [] s = "DeregistrationInitiated" -> DeregistrationInitiatedRow(ev)
      [] OTHER -> MTDeregPendingRow(ev)
-----------------------------------------------------------------------------
(* The engine. *)

Owners == States \cup {"live"}

TimerEntries == {[timer |-> te[1], ev |-> te[2], own |-> o] : te \in TimerEvents, o \in Owners}

FsmType ==
    [st : States, armed : SUBSET TimerEntries, due : SUBSET TimerEntries,
     late : BOOLEAN, raced : BOOLEAN]

(* What Of(ue) creates on first access. *)
NewFsm ==
    [st |-> "Deregistered", armed |-> {}, due |-> {}, late |-> FALSE, raced |-> FALSE]

CancelTimer(f, t) ==
    [f EXCEPT !.armed = {e \in @ : e.timer # t},
              !.late = @ \/ \E e \in f.due : e.timer = t]

CancelAllForUE(f) ==
    [f EXCEPT !.armed = {}, !.late = @ \/ f.due # {}]

(* Start on a key that is armed replaces its entry. *)
startTimer(f, te, o) ==
    LET g == CancelTimer(f, te[1])
    IN  [g EXCEPT !.armed = @ \cup {[timer |-> te[1], ev |-> te[2], own |-> o]}]

(* The registry forgets the FSM; a callback that is due keeps it. *)
Drop(f) ==
    [f EXCEPT !.st = "Deregistered",
              !.due = {[e EXCEPT !.own = IF @ = "live" THEN f.st ELSE @] : e \in @}]

ResetTo(f, s) == [f EXCEPT !.st = s]

(* Mutant: the hook that cancels the timers is missing. *)
RemoveHooksNoTimers(f) == Drop(f)

(* The removal hooks that ClearVolatile runs: CancelAllForUE, then Drop. *)
RemoveHooks(f) == Drop(CancelAllForUE(f))

(* Stop, advance, start: what Fire does once the action of the row is done. *)
Commit(f, o, row) ==
    LET g == CancelTimer(f, row.stop)
        h == IF o = "live" THEN [g EXCEPT !.st = row.to] ELSE g
    IN  IF row.start = Nothing THEN h
        ELSE startTimer(h, row.start, IF o = "live" THEN "live" ELSE row.to)

(* Fire on the FSM that o stands for; only a "clear" action reaches the live one. *)
FireAt(f, o, ev) ==
    LET row == Row(IF o = "live" THEN f.st ELSE o, ev)
    IN  IF row = NoRow THEN f
        ELSE IF row.act = "clear" THEN RemoveHooks(f)
        ELSE Commit(f, o, row)

Fire(f, ev) == FireAt(f, "live", ev)
=============================================================================
