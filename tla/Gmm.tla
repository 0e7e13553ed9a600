-------------------------------- MODULE Gmm ---------------------------------
(***************************************************************************)
(* Registration management of one UE context in the AMF: the NAS handlers  *)
(* of core/nf/amf/gmm, the NGAP procedures of core/nf/amf/ngap that start, *)
(* set up and release the UE's N2 connection, and the tick goroutine that  *)
(* calls the FSM back when a timer expires.                                *)
(*                                                                         *)
(* A handler is one action per outcome.  Messages of the UE and of the     *)
(* gNB are inputs that may arrive in any order; what a message contains is *)
(* reduced to the branch that the handler takes on it.  The input up says  *)
(* whether the gNB's SCTP association takes the writes of the handler.     *)
(***************************************************************************)
EXTENDS GmmFsm

CONSTANTS
    MaxAuthRetries,     \* maxAuthRetries
    Writes,             \* bound: the outcomes of a write to the gNB, BOOLEAN for all
    Silence             \* bound: UE and gNB may fall silent for good

ASSUME ConstantsAssumption ==
    /\ MaxAuthRetries \in Nat \ {0}
    /\ Writes \subseteq BOOLEAN
    /\ Silence \in BOOLEAN

VARIABLES
    fsm,    \* the UE's FSM and its timers, a record of GmmFsm
    mm,     \* 5GMM fields of AmfUeCtx
    sec,    \* the fields of SecurityCtx that decide a branch
    ran,    \* NGAP fields of AmfUeCtx and the N2 connection
    quiet   \* UE and gNB have fallen silent for good

vars == <<fsm, mm, sec, ran, quiet>>

(* rm: RM; proc: GMMProc; retx: RetxNASPDU is set; lastRR: LastRegRequestPDU *)
(* is set; tmsi: TMSI5G is assigned; idx: indexed under its IMSI.            *)
MmType ==
    [rm : {"DEREGISTERED", "REGISTERED"},
     proc : {"None", "Registration", "Deregistration"},
     retx : BOOLEAN, lastRR : BOOLEAN, tmsi : BOOLEAN, idx : BOOLEAN]

(* authDone, pending: AuthDone, Pending; tries: AuthRetryCount. *)
SecType == [authDone : BOOLEAN, pending : BOOLEAN, tries : 0 .. MaxAuthRetries]

(* known: the context is in the registry; conn: the gNB has the UE's N2     *)
(* connection; cm: CM; ngap: NGAPProc; hard: HardRemoveOnComplete; rel, ics: *)
(* a release command, a setup request of this connection is unanswered.      *)
RanType ==
    [known : BOOLEAN, conn : BOOLEAN, cm : {"IDLE", "CONNECTED"},
     ngap : {"None", "ICS", "Release"}, hard : BOOLEAN, rel : BOOLEAN, ics : BOOLEAN]

NewMm ==
    [rm |-> "DEREGISTERED", proc |-> "None", retx |-> FALSE, lastRR |-> FALSE,
     tmsi |-> FALSE, idx |-> FALSE]

NewSec == [authDone |-> FALSE, pending |-> FALSE, tries |-> 0]

NoRan ==
    [known |-> FALSE, conn |-> FALSE, cm |-> "IDLE", ngap |-> "None",
     hard |-> FALSE, rel |-> FALSE, ics |-> FALSE]

Init ==
    /\ fsm = NewFsm /\ mm = NewMm /\ sec = NewSec /\ ran = NoRan
    /\ quiet = FALSE

(* Registry.Remove and its hooks: the context is gone. *)
Remove == fsm' = NewFsm /\ mm' = NewMm /\ sec' = NewSec /\ ran' = NoRan
-----------------------------------------------------------------------------
(* What the handlers share. *)

(* mirrorToUECtx. *)
Mirror(m, s) ==
    CASE s = "Deregistered" -> [m EXCEPT !.rm = "DEREGISTERED", !.proc = "None"]
      [] s = "Registered" -> [m EXCEPT !.rm = "REGISTERED", !.proc = "None"]
      [] s \in {"DeregistrationInitiated", "MTDeregPending"} ->
            [m EXCEPT !.proc = "Deregistration"]
      [] OTHER -> [m EXCEPT !.proc = "Registration"]

(* The mirror's part of Fire in state s. *)
MirrorFire(m, s, ev) ==
    LET row == Row(s, ev) IN IF row = NoRow THEN m ELSE Mirror(m, row.to)

(* UE Context Release Command. *)
SendCommand(r, up) == IF up THEN [r EXCEPT !.ngap = "Release", !.rel = TRUE] ELSE r

(* Initial Context Setup Request: refused while another one or a release runs. *)
SendICS(r, up) ==
    IF up /\ r.ngap = "None" THEN [r EXCEPT !.ngap = "ICS", !.ics = TRUE] ELSE r

(* Mutant: ClearVolatile forgets RM. *)
ClearMmKeepsRM(m) == [m EXCEPT !.proc = "None", !.retx = FALSE, !.lastRR = FALSE]

(* ClearVolatile; the hooks' part of it is RemoveHooks. *)
ClearMm(m) ==
    [m EXCEPT !.rm = "DEREGISTERED", !.proc = "None", !.retx = FALSE, !.lastRR = FALSE]
ClearRan(r) == [r EXCEPT !.cm = "IDLE", !.ngap = "None"]

(* abortCurrentProcedure, on FSM, 5GMM fields and security context. *)
AbortMm(m) == [m EXCEPT !.proc = "None", !.retx = FALSE]
DiscardPending(s) == [s EXCEPT !.pending = FALSE]

(* checkCollision for a message that aborts the procedure it collides with. *)
Collides == mm.proc # "None"
FsmChecked == IF Collides THEN CancelAllForUE(fsm) ELSE fsm
MmChecked == IF Collides THEN AbortMm(mm) ELSE mm
SecChecked == IF Collides THEN DiscardPending(sec) ELSE sec

(* abortRegistrationAndReleaseN1: reject, release, cancel the timers; the  *)
(* state of the FSM is left as it is.                                      *)
RejectMm(m) == [m EXCEPT !.proc = "None", !.rm = "DEREGISTERED"]
RejectRan(r, up) == [SendCommand(r, up) EXCEPT !.hard = TRUE, !.cm = "IDLE"]

(* startAuthentication: av, the AUSF returns an authentication vector. *)
AuthFsm(f, av) == IF av THEN f ELSE CancelAllForUE(f)
AuthMm(m, av, up) ==
    IF av THEN [m EXCEPT !.proc = "Registration", !.retx = up \/ @] ELSE RejectMm(m)
AuthSec(s) == [s EXCEPT !.authDone = FALSE]
AuthRan(r, av, up) == IF av THEN r ELSE RejectRan(r, up)

(* A message of the UE reaches a handler of this context. *)
Receives == ~quiet /\ ran.known /\ ran.conn
-----------------------------------------------------------------------------
(* NGAP Initial UE Message; the NAS message it carries is dispatched by one *)
(* of the handlers below, or refused by RxNAS.                              *)

(* Neither the RAN-UE-NGAP-ID nor a 5G-S-TMSI is known. *)
InitialUEFresh ==
    /\ ~quiet /\ ~ran.known
    /\ fsm' = NewFsm /\ mm' = NewMm /\ sec' = NewSec
    /\ ran' = [NoRan EXCEPT !.known = TRUE, !.conn = TRUE, !.cm = "CONNECTED"]
    /\ UNCHANGED quiet

(* Found by 5G-S-TMSI: the context moves to a new RAN-UE-NGAP-ID.  A release *)
(* complete under the old one is stale and dropped; the answer to an initial *)
(* context setup is not compared and still counts.                           *)
InitialUEByTmsi ==
    /\ ~quiet /\ ran.known /\ mm.tmsi
    /\ mm' = AbortMm(mm)
    /\ ran' = [ran EXCEPT !.conn = TRUE, !.cm = "CONNECTED", !.ngap = "None", !.rel = FALSE]
    /\ UNCHANGED <<fsm, sec, quiet>>

(* Found by a RAN-UE-NGAP-ID that the gNB has released and given out again. *)
InitialUEByRanKey ==
    /\ ~quiet /\ ran.known /\ ~ran.conn
    /\ ran' = [ran EXCEPT !.conn = TRUE, !.cm = "CONNECTED"]
    /\ UNCHANGED <<fsm, mm, sec, quiet>>
-----------------------------------------------------------------------------
(* handleRegistrationRequest, after checkCollision. *)

(* The request is identical to the last one: the cached PDU is sent again, *)
(* or, there being none, the request is ignored.                           *)
RegistrationDuplicate ==
    /\ Receives
    /\ mm.lastRR /\ mm.rm # "REGISTERED"
    /\ fsm' = FsmChecked /\ mm' = MmChecked /\ sec' = SecChecked
    /\ UNCHANGED <<ran, quiet>>

(* Not decodable or no usable identity; or, with the request remembered,   *)
(* an unknown subscriber or no slice allowed.                              *)
RegistrationRejected(remembered, up) ==
    /\ Receives
    /\ fsm' = CancelAllForUE(fsm)
    /\ mm' = RejectMm([MmChecked EXCEPT !.lastRR = remembered \/ @])
    /\ sec' = SecChecked
    /\ ran' = RejectRan(ran, up)
    /\ UNCHANGED quiet

(* ErrNoSUPI: sendIdentityRequest. *)
RegistrationNoSupi ==
    /\ Receives
    /\ fsm' = Fire(FsmChecked, "IdentityRequestSent")
    /\ mm' = MirrorFire([MmChecked EXCEPT !.proc = "Registration", !.retx = TRUE],
                        fsm.st, "IdentityRequestSent")
    /\ sec' = SecChecked
    /\ UNCHANGED <<ran, quiet>>

(* The 5GMM fields once the subscriber and its slices are accepted. *)
MmAccepted == [MmChecked EXCEPT !.proc = "Registration", !.lastRR = TRUE]

(* No context to reuse: another context of the subscriber is removed, this *)
(* one is indexed and authenticated.                                       *)
RegistrationAuthenticate(av, up) ==
    /\ Receives
    /\ fsm' = Fire(AuthFsm(FsmChecked, av), "RegistrationRequest")
    /\ mm' = MirrorFire(AuthMm([MmAccepted EXCEPT !.idx = TRUE], av, up),
                        fsm.st, "RegistrationRequest")
    /\ sec' = AuthSec(SecChecked)
    /\ ran' = AuthRan(ran, av, up)
    /\ UNCHANGED quiet

(* canReuseCachedContext: a context that was authenticated, and an ngKSI   *)
(* that the UE repeats.  sendRegistrationAcceptReusedContext succeeds.     *)
ReuseAccepted(m) ==
    /\ SendICS(ran, TRUE) # ran
    /\ fsm' = Fire(FsmChecked, "RegRequestContextValid")
    /\ mm' = MirrorFire([m EXCEPT !.tmsi = TRUE, !.retx = TRUE],
                        fsm.st, "RegRequestContextValid")
    /\ ran' = SendICS(ran, TRUE)

(* Mutant: a context that was not authenticated is reused. *)
RegistrationReuseUnchecked ==
    /\ Receives
    /\ ReuseAccepted(MmAccepted)
    /\ sec' = SecChecked
    /\ UNCHANGED quiet

RegistrationReuse ==
    /\ Receives
    /\ sec.authDone
    /\ ReuseAccepted(MmAccepted)
    /\ sec' = SecChecked
    /\ UNCHANGED quiet

(* The setup request is refused or not sent: back to authentication. *)
RegistrationReuseFails(av, up) ==
    /\ Receives
    /\ sec.authDone
    /\ SendICS(ran, up) = ran
    /\ fsm' = Fire(AuthFsm(FsmChecked, av), "RegistrationRequest")
    /\ mm' = MirrorFire(AuthMm([MmAccepted EXCEPT !.tmsi = TRUE], av, up),
                        fsm.st, "RegistrationRequest")
    /\ sec' = AuthSec(SecChecked)
    /\ ran' = AuthRan(ran, av, up)
    /\ UNCHANGED quiet

(* The context to reuse is another one of the subscriber, whose keys the   *)
(* request verifies under: they move here and that context is removed.     *)
RegistrationMigrate ==
    /\ Receives
    /\ ~mm.idx
    /\ ReuseAccepted([MmAccepted EXCEPT !.idx = TRUE])
    /\ sec' = [SecChecked EXCEPT !.authDone = TRUE]
    /\ UNCHANGED quiet

(* As above when the setup request fails: authentication, but no event. *)
RegistrationMigrateFails(av, up) ==
    /\ Receives
    /\ ~mm.idx
    /\ SendICS(ran, up) = ran
    /\ fsm' = AuthFsm(FsmChecked, av)
    /\ mm' = AuthMm([MmAccepted EXCEPT !.idx = TRUE, !.tmsi = TRUE], av, up)
    /\ sec' = AuthSec(SecChecked)
    /\ ran' = AuthRan(ran, av, up)
    /\ UNCHANGED quiet
-----------------------------------------------------------------------------
(* Identification, authentication and security mode control. *)

(* Every failure: not decodable, no SUPI in the answer. *)
IdentityResponseFails(up) ==
    /\ Receives
    /\ fsm.st = "Identification"
    /\ fsm' = CancelAllForUE(Fire(fsm, "IdentityResponseFail"))
    /\ mm' = RejectMm(MirrorFire(mm, fsm.st, "IdentityResponseFail"))
    /\ ran' = RejectRan(ran, up)
    /\ UNCHANGED <<sec, quiet>>

(* The subscriber is not provisioned: rejected without an event. *)
IdentityUnknown(up) ==
    /\ Receives
    /\ fsm.st = "Identification" /\ mm.proc = "Registration"
    /\ fsm' = CancelAllForUE(fsm)
    /\ mm' = RejectMm([mm EXCEPT !.idx = TRUE])
    /\ ran' = RejectRan(ran, up)
    /\ UNCHANGED <<sec, quiet>>

(* Authentication follows only if the registration still runs. *)
IdentityResponse(av, up) ==
    LET registering == mm.proc = "Registration"
        m == [mm EXCEPT !.idx = TRUE]
    IN
    /\ Receives
    /\ fsm.st = "Identification"
    /\ fsm' = Fire(AuthFsm(fsm, ~registering \/ av), "IdentityResponse")
    /\ mm' = MirrorFire(IF registering THEN AuthMm(m, av, up) ELSE m,
                        fsm.st, "IdentityResponse")
    /\ sec' = IF registering THEN AuthSec(sec) ELSE sec
    /\ ran' = IF registering THEN AuthRan(ran, av, up) ELSE ran
    /\ UNCHANGED quiet

AwaitsAuthResponse == Receives /\ fsm.st = "Authentication" /\ ~sec.authDone

AuthResponseUndecodable(up) ==
    /\ AwaitsAuthResponse
    /\ fsm' = CancelAllForUE(Fire(fsm, "AuthResponseInvalid"))
    /\ mm' = RejectMm(MirrorFire(mm, fsm.st, "AuthResponseInvalid"))
    /\ ran' = RejectRan(ran, up)
    /\ UNCHANGED <<sec, quiet>>

(* RES* is missing or wrong: sendAuthenticationReject removes the context. *)
AuthResponseWrong ==
    /\ AwaitsAuthResponse
    /\ Remove
    /\ UNCHANGED quiet

(* startSecurityMode, then the event; alg, the algorithms could be negotiated. *)
AuthResponseValid(alg, up) ==
    /\ AwaitsAuthResponse
    /\ fsm' = Fire(AuthFsm(fsm, alg), "AuthResponseValid")
    /\ mm' = MirrorFire(IF alg THEN [mm EXCEPT !.retx = up \/ @] ELSE RejectMm(mm),
                        fsm.st, "AuthResponseValid")
    /\ sec' = [sec EXCEPT !.authDone = TRUE, !.pending = alg \/ @]
    /\ ran' = IF alg THEN ran ELSE RejectRan(ran, up)
    /\ UNCHANGED quiet

AwaitsAuthFailure == Receives /\ fsm.st = "Authentication"

(* Mutant: the retries are not limited. *)
RetriesUnlimited == TRUE

RetriesLeft == sec.tries + 1 < MaxAuthRetries

AuthFailureUndecodable ==
    /\ AwaitsAuthFailure
    /\ fsm' = Fire(fsm, "AuthenticationFailure")
    /\ mm' = [MirrorFire(mm, fsm.st, "AuthenticationFailure") EXCEPT !.proc = "None"]
    /\ UNCHANGED <<sec, ran, quiet>>

AuthFailureExhausted ==
    /\ AwaitsAuthFailure
    /\ ~RetriesLeft
    /\ Remove
    /\ UNCHANGED quiet

(* A new challenge for causes 20, 21, 26 and the others. *)
AuthFailureRetry(av, up) ==
    /\ AwaitsAuthFailure
    /\ RetriesLeft
    /\ fsm' = Fire(AuthFsm(fsm, av), "AuthRetry")
    /\ mm' = MirrorFire(AuthMm(mm, av, up), fsm.st, "AuthRetry")
    /\ sec' = [AuthSec(sec) EXCEPT !.tries = @ + 1]
    /\ ran' = AuthRan(ran, av, up)
    /\ UNCHANGED quiet

(* Cause 71: the same challenge under another ngKSI, if it can be sent. *)
AuthFailureNgKSIInUse(up) ==
    LET ev == IF up THEN "AuthRetry" ELSE "AuthenticationFailure" IN
    /\ AwaitsAuthFailure
    /\ RetriesLeft
    /\ fsm' = Fire(fsm, ev)
    /\ mm' = MirrorFire([mm EXCEPT !.retx = up \/ @], fsm.st, ev)
    /\ sec' = [sec EXCEPT !.tries = @ + 1]
    /\ UNCHANGED <<ran, quiet>>

AwaitsSecurityMode == Receives /\ fsm.st = "SecurityMode"

(* PromoteContext, setup request, Registration Accept. *)
SecurityModeComplete(up) ==
    /\ AwaitsSecurityMode
    /\ sec.pending
    /\ fsm' = Fire(fsm, "SecurityModeComplete")
    /\ mm' = MirrorFire([mm EXCEPT !.tmsi = TRUE, !.retx = up \/ @],
                        fsm.st, "SecurityModeComplete")
    /\ sec' = [sec EXCEPT !.authDone = TRUE, !.pending = FALSE]
    /\ ran' = SendICS(ran, up)
    /\ UNCHANGED quiet

(* The NAS message container that was asked for is missing. *)
SecurityModeNoContainer(up) ==
    /\ AwaitsSecurityMode
    /\ sec.pending
    /\ fsm' = CancelAllForUE(fsm)
    /\ mm' = RejectMm(mm)
    /\ sec' = [sec EXCEPT !.authDone = TRUE, !.pending = FALSE]
    /\ ran' = RejectRan(ran, up)
    /\ UNCHANGED quiet

SecurityModeReject(up) ==
    /\ AwaitsSecurityMode
    /\ fsm' = CancelAllForUE(Fire(fsm, "SecurityModeReject"))
    /\ mm' = RejectMm(MirrorFire(mm, fsm.st, "SecurityModeReject"))
    /\ sec' = DiscardPending(sec)
    /\ ran' = RejectRan(ran, up)
    /\ UNCHANGED quiet
-----------------------------------------------------------------------------
(* The other NAS handlers. *)

(* In state RM-REGISTERED the message is taken for a duplicate and dropped. *)
RegistrationComplete ==
    /\ Receives
    /\ fsm.st = "RegisteredInitiated" /\ mm.rm # "REGISTERED"
    /\ fsm' = Fire(fsm, "RegistrationComplete")
    /\ mm' = MirrorFire([mm EXCEPT !.rm = "REGISTERED", !.proc = "None"],
                        fsm.st, "RegistrationComplete")
    /\ ran' = [ran EXCEPT !.cm = "CONNECTED"]
    /\ UNCHANGED <<sec, quiet>>

(* Dropped while a procedure runs; ctxReq, the gNB asked for a context. *)
ServiceRequest(ctxReq, up) ==
    /\ Receives
    /\ mm.proc = "None" /\ fsm.st = "Registered"
    /\ fsm' = Fire(fsm, "ServiceRequest")
    /\ mm' = MirrorFire(mm, fsm.st, "ServiceRequest")
    /\ ran' = [SendICS(ran, ctxReq /\ up) EXCEPT !.cm = "CONNECTED"]
    /\ UNCHANGED <<sec, quiet>>

(* UL NAS Transport and 5GMM Status: no state guard, only the event. *)
NasInRegistered(ev) ==
    /\ Receives
    /\ fsm' = Fire(fsm, ev)
    /\ mm' = MirrorFire(mm, fsm.st, ev)
    /\ UNCHANGED <<sec, ran, quiet>>

(* No state guard: a Complete nobody waits for ends the procedure flag. *)
ConfigUpdateComplete ==
    /\ Receives
    /\ fsm' = Fire(fsm, "ConfigUpdateComplete")
    /\ mm' = MirrorFire([mm EXCEPT !.proc = "None"], fsm.st, "ConfigUpdateComplete")
    /\ UNCHANGED <<sec, ran, quiet>>

(* Sessions and timers end, the accept and the release command go out, the *)
(* event fires, and ClearVolatile has the last word.                       *)
DeregistrationMO(up) ==
    /\ Receives
    /\ fsm' = RemoveHooks(Fire(CancelAllForUE(fsm), "DeregistrationRequestMO"))
    /\ mm' = ClearMm(mm)
    /\ sec' = SecChecked
    /\ ran' = ClearRan(SendCommand(ran, up))
    /\ UNCHANGED quiet

(* Not decodable: checkCollision alone has acted. *)
DeregistrationUndecodable ==
    /\ Receives
    /\ Collides
    /\ fsm' = FsmChecked /\ mm' = MmChecked /\ sec' = SecChecked
    /\ UNCHANGED <<ran, quiet>>

(* The request came on a fresh context and its 5G-GUTI names this one. *)
DeregistrationByTmsi(up) ==
    /\ ~quiet /\ ran.known /\ mm.tmsi
    /\ fsm' = RemoveHooks(Fire(CancelAllForUE(fsm), "DeregistrationRequestMO"))
    /\ mm' = ClearMm(mm)
    /\ ran' = ClearRan(SendCommand([ran EXCEPT !.conn = TRUE, !.rel = FALSE], up))
    /\ UNCHANGED <<sec, quiet>>

(* No state guard: the accept is obeyed whether or not one was asked for. *)
DeregistrationAccept(up) ==
    /\ Receives
    /\ fsm' = RemoveHooks(Fire(CancelTimer(fsm, "T3522"), "DeregistrationAcceptMT"))
    /\ mm' = ClearMm(mm)
    /\ ran' = ClearRan(SendCommand(ran, up))
    /\ UNCHANGED <<sec, quiet>>
-----------------------------------------------------------------------------
(* NGAP procedures of the gNB. *)

(* Mutant: every context goes back to Registered. *)
FailureToRegistered(f) == ResetTo(f, "Registered")

(* OnNASLowerLayerFailure: back to Registered, or forgotten. *)
LowerLayerFailure(f) ==
    IF mm.rm = "REGISTERED" THEN ResetTo(f, "Registered") ELSE Drop(f)

(* Mutant: the UE stays CM-CONNECTED. *)
ReleasedConnected(r) ==
    [r EXCEPT !.conn = FALSE, !.rel = FALSE, !.ics = FALSE, !.ngap = "None"]

Released(r) ==
    [r EXCEPT !.conn = FALSE, !.rel = FALSE, !.ics = FALSE, !.ngap = "None", !.cm = "IDLE"]

(* A release for user inactivity is skipped while a PDU is kept for        *)
(* retransmission; a procedure that runs is aborted (OnNASLowerLayerFailure). *)
ReleaseRequest(inactivity, up) ==
    LET f == CancelAllForUE(fsm)
        r == [ran EXCEPT !.cm = "IDLE", !.ngap = "None"]
    IN
    /\ Receives
    /\ ~(inactivity /\ mm.retx)
    /\ IF Collides
       THEN /\ fsm' = LowerLayerFailure(f)
            /\ mm' = AbortMm(mm)
            /\ sec' = DiscardPending(sec)
       ELSE fsm' = f /\ UNCHANGED <<mm, sec>>
    /\ ran' = SendCommand(r, up)
    /\ UNCHANGED quiet

(* The answer to the last release command sent on this connection. *)
ReleaseComplete ==
    /\ Receives
    /\ ran.rel
    /\ \/ /\ mm.rm = "DEREGISTERED" /\ ran.hard
          /\ Remove
       \/ /\ mm.rm = "DEREGISTERED" /\ ~ran.hard
          /\ fsm' = RemoveHooks(fsm)
          /\ mm' = ClearMm(mm)
          /\ ran' = ClearRan(Released(ran))
          /\ UNCHANGED sec
       \/ /\ mm.rm = "REGISTERED"
          /\ ran' = Released(ran)
          /\ UNCHANGED <<fsm, mm, sec>>
    /\ UNCHANGED quiet

(* Initial Context Setup Response or Failure. *)
ICSAnswer ==
    /\ Receives
    /\ ran.ics
    /\ ran' = [ran EXCEPT !.ics = FALSE, !.ngap = "None"]
    /\ UNCHANGED <<fsm, mm, sec, quiet>>

(* RemoveAllForGnb: the gNB's association is lost. *)
GnbLost ==
    /\ ~quiet /\ ran.known
    /\ Remove
    /\ UNCHANGED quiet

(* The subscriber registers on another context, which removes this one. *)
Superseded ==
    /\ ~quiet /\ ran.known /\ mm.idx
    /\ Remove
    /\ UNCHANGED quiet

FallSilent ==
    /\ Silence /\ ~quiet
    /\ quiet' = TRUE
    /\ UNCHANGED <<fsm, mm, sec, ran>>
-----------------------------------------------------------------------------
(* The tick goroutine (module TimerManager). *)

(* The locked part of a tick takes an expired entry out of the map. *)
Collect(e) ==
    /\ fsm.due = {}
    /\ fsm' = [fsm EXCEPT !.armed = @ \ {e}, !.due = {e}, !.late = FALSE]
    /\ UNCHANGED <<mm, sec, ran, quiet>>

(* Its callback, FireTimer on the FSM that armed the timer. *)
ExpiryCallback(e, up) ==
    LET s == IF e.own = "live" THEN fsm.st ELSE e.own
        row == Row(s, e.ev)
        f == [fsm EXCEPT !.due = {}, !.late = FALSE,
                         !.raced = @ \/ (fsm.late /\ row # NoRow)]
    IN
    /\ fsm' = FireAt(f, e.own, e.ev)
    /\ mm' = MirrorFire(IF row.act = "clear" THEN ClearMm(mm) ELSE mm, s, e.ev)
    /\ ran' = CASE row.act = "release" -> SendCommand(ran, up)
                [] row.act = "clear" -> ClearRan(SendCommand(ran, up))
                [] OTHER -> ran
    /\ UNCHANGED <<sec, quiet>>

Tick ==
    \/ \E e \in fsm.armed : Collect(e)
    \/ \E e \in fsm.due, up \in Writes : ExpiryCallback(e, up)
-----------------------------------------------------------------------------
Register ==
    \/ InitialUEFresh \/ InitialUEByTmsi \/ InitialUEByRanKey
    \/ RegistrationDuplicate \/ RegistrationNoSupi
    \/ RegistrationReuse \/ RegistrationMigrate
    \/ \E b \in BOOLEAN, up \in Writes :
          \/ RegistrationRejected(b, up)
          \/ RegistrationAuthenticate(b, up)
          \/ RegistrationReuseFails(b, up)
          \/ RegistrationMigrateFails(b, up)

CommonProcedure ==
    \/ \E b \in BOOLEAN, up \in Writes :
          IdentityResponse(b, up) \/ AuthResponseValid(b, up) \/ AuthFailureRetry(b, up)
    \/ \E up \in Writes :
          \/ IdentityResponseFails(up) \/ IdentityUnknown(up)
          \/ AuthResponseUndecodable(up) \/ AuthFailureNgKSIInUse(up)
          \/ SecurityModeComplete(up) \/ SecurityModeNoContainer(up) \/ SecurityModeReject(up)
    \/ AuthResponseWrong \/ AuthFailureUndecodable \/ AuthFailureExhausted

OtherNas ==
    \/ RegistrationComplete
    \/ \E b \in BOOLEAN, up \in Writes : ServiceRequest(b, up)
    \/ \E ev \in {"ULNASTransport", "Status5GMM"} : NasInRegistered(ev)
    \/ ConfigUpdateComplete
    \/ \E up \in Writes :
          DeregistrationMO(up) \/ DeregistrationByTmsi(up) \/ DeregistrationAccept(up)
    \/ DeregistrationUndecodable

Ngap ==
    \/ \E b \in BOOLEAN, up \in Writes : ReleaseRequest(b, up)
    \/ ReleaseComplete \/ ICSAnswer \/ GnbLost \/ Superseded

Next == Register \/ CommonProcedure \/ OtherNas \/ Ngap \/ FallSilent \/ Tick

Spec == Init /\ [][Next]_vars

(* The tick goroutine runs for ever; nobody else has to do anything. *)
FairSpec == Spec /\ WF_vars(Tick)
-----------------------------------------------------------------------------
(* Properties. *)

(* Type invariant of the context's FSM, 5GMM, security and NGAP fields. *)
TypeOK ==
    /\ fsm \in FsmType
    /\ mm \in MmType
    /\ sec \in SecType
    /\ ran \in RanType
    /\ quiet \in BOOLEAN

(* The expiry event that the table gives each state to leave it by. *)
OwnExpiry(s) ==
    CASE s = "Identification" -> "T3570Expired"
      [] s = "Authentication" -> "T3560AuthExpired"
      [] s = "SecurityMode" -> "T3560SMCExpired"
      [] s = "RegisteredInitiated" -> "T3550Expired"
      [] s = "Registered" -> "T3512Expired"
      [] s = "DeregistrationInitiated" -> "TwaitExpired"
      [] s = "MTDeregPending" -> "T3522Expired"
      [] OTHER -> "-"

(* Every armed timer, and every expiry on its way that nobody cancelled,   *)
(* belongs to the state the FSM is in, so that Fire never swallows an      *)
(* expiry for want of a row: the StopTimers of the rows, checkCollision,   *)
(* the rejections and ClearVolatile leave no timer of an earlier state.    *)
(* Only a callback that was cancelled too late breaks this (raced).        *)
TimerOfState ==
    fsm.raced \/
        \A e \in fsm.armed \cup (IF fsm.late THEN {} ELSE fsm.due) :
            e.own = "live" /\ e.ev = OwnExpiry(fsm.st)

(* Security mode control and Registration Accept come only after the UE    *)
(* authenticated (AuthDone): no collision, fallback, retry or migration of *)
(* a context brings the FSM there with an open challenge.                  *)
AcceptAfterAuthentication ==
    fsm.st \in {"SecurityMode", "RegisteredInitiated"} => sec.authDone

(* RM and the FSM state say the same of the UE: RM-REGISTERED whenever the *)
(* FSM is in Registered, unless a rejection is about to remove the         *)
(* context, and RM-DEREGISTERED in Deregistered and Identification.        *)
RMAgrees ==
    fsm.raced \/
        /\ fsm.st = "Registered" => mm.rm = "REGISTERED" \/ ran.hard
        /\ fsm.st \in {"Deregistered", "Identification"} => mm.rm = "DEREGISTERED"

(* A UE that the AMF holds to be CM-CONNECTED has its N2 connection, so    *)
(* downlink data is never sent into nothing instead of paging the UE.      *)
ConnectedHasLink == ran.cm = "CONNECTED" => ran.conn

(* The FSM enters Registered only when the accept was answered or timed    *)
(* out, or on a lower-layer failure of a UE that was registered before.    *)
RegisteredByAccept ==
    [][fsm.st # "Registered" /\ fsm'.st = "Registered"
          => fsm.st = "RegisteredInitiated" \/ mm.rm = "REGISTERED"]_vars

(* While the state's own timer is armed or due, a UE and a gNB that fall   *)
(* silent do not hold the context for ever: T3570, T3560, T3550 and then   *)
(* T3512 bring it back to Deregistered.                                    *)
Guarded ==
    \E e \in fsm.armed \cup fsm.due : e.own = "live" /\ e.ev = OwnExpiry(fsm.st)

SilenceEnds == quiet /\ Guarded ~> fsm.st = "Deregistered"

(* What docs/design/nf/amf.md:305 and fsm_actions.go:246 say of T3512: a   *)
(* registered UE that is not heard of any more is deregistered implicitly. *)
(* Stated for UEs that no procedure, rejection or late callback disturbs.  *)
ImplicitDeregistration ==
    (/\ quiet /\ fsm.st = "Registered" /\ mm.proc = "None"
     /\ ~ran.hard /\ ~fsm.raced)  ~>  fsm.st = "Deregistered"
=============================================================================
