------------------------- MODULE GmmAgreementProofs -------------------------
(***************************************************************************)
(* Proofs that the AMF's views of one UE agree: RM, which mirrorToUECtx    *)
(* and the rejections write, with the state of the FSM; CM with the N2     *)
(* connection; and that the FSM enters Registered only after an accept.    *)
(*                                                                         *)
(* RMAgrees is inductive once the invariant IInv of GmmProofs is known:    *)
(* that one says that a callback which is not late belongs to the state    *)
(* the FSM is in, so that the mirror writes the RM of the state that the   *)
(* FSM enters and not of one that an earlier FSM would have entered.       *)
(***************************************************************************)
EXTENDS GmmProofs

(* RMAgrees of a state s, an RM value and HardRemoveOnComplete. *)
Agree(s, rm, hard) ==
    /\ s = "Registered" => rm = "REGISTERED" \/ hard
    /\ s \in First => rm = "DEREGISTERED"

(* RegisteredByAccept of one step. *)
EntersByAccept ==
    fsm.st # "Registered" /\ fsm'.st = "Registered"
        => fsm.st = "RegisteredInitiated" \/ mm.rm = "REGISTERED"

(* What a step does: nothing of the context is left, a callback has come   *)
(* late, or RM agrees with the state if it did before.                     *)
AgreeStep ==
    /\ EntersByAccept
    /\ \/ fsm' = NewFsm /\ mm' = NewMm
       \/ fsm'.raced
       \/ /\ ~fsm.raced
          /\ Agree(fsm.st, mm.rm, ran.hard) => Agree(fsm'.st, mm'.rm, ran'.hard)

(* Registered is entered from RegisteredInitiated, Identification from     *)
(* Deregistered, and from nowhere else.                                    *)
LEMMA RowSource ==
    ASSUME NEW s \in States, NEW ev, Row(s, ev) # NoRow
    PROVE  /\ Row(s, ev).to = "Registered" => s \in {"RegisteredInitiated", "Registered"}
           /\ Row(s, ev).to = "Identification" => s = "Deregistered"
  <1> USE DEF Go, NoRow
  <1>1. CASE s = "Deregistered"
    BY <1>1 DEF Row, DeregisteredRow
  <1>2. CASE s = "Identification"
    BY <1>2 DEF Row, IdentificationRow
  <1>3. CASE s = "Authentication"
    BY <1>3 DEF Row, AuthenticationRow
  <1>4. CASE s = "SecurityMode"
    BY <1>4 DEF Row, SecurityModeRow
  <1>5. CASE s = "RegisteredInitiated"
    BY <1>5 DEF Row, RegisteredInitiatedRow
  <1>6. CASE s = "Registered"
    BY <1>6 DEF Row, RegisteredRow
  <1>7. CASE s = "DeregistrationInitiated"
    BY <1>7 DEF Row, DeregistrationInitiatedRow
  <1>8. CASE s = "MTDeregPending"
    BY <1>8 DEF Row, MTDeregPendingRow
  <1> QED
    BY <1>1, <1>2, <1>3, <1>4, <1>5, <1>6, <1>7, <1>8 DEF States

(* The RM that mirrorToUECtx writes. *)
LEMMA MirrorRM ==
    ASSUME NEW m \in MmType, NEW s
    PROVE  Mirror(m, s).rm = CASE s = "Deregistered" -> "DEREGISTERED"
                               [] s = "Registered" -> "REGISTERED"
                               [] OTHER -> m.rm
  BY DEF Mirror, MmType

(* Cancelling, dropping and resetting leave the history variable alone. *)
LEMMA RacedKept ==
    ASSUME NEW f \in FsmType
    PROVE  /\ CancelAllForUE(f).raced = f.raced /\ Drop(f).raced = f.raced
           /\ RemoveHooks(f).raced = f.raced
           /\ \A t : CancelTimer(f, t).raced = f.raced
           /\ \A s : ResetTo(f, s).raced = f.raced /\ ResetTo(f, s).st = s
           /\ \A av : AuthFsm(f, av).raced = f.raced
  BY DEF FsmType, CancelAllForUE, Drop, RemoveHooks, CancelTimer, ResetTo, AuthFsm

(* Fire does not touch it either. *)
LEMMA FireRaced ==
    ASSUME NEW f, FsmInv(f), NEW ev
    PROVE  Fire(f, ev).raced = f.raced
  <1> DEFINE row == Row(f.st, ev)
  <1>1. f \in FsmType /\ f.st \in States /\ "live" \in Owners
    BY DEF FsmInv, FsmType, Owners
  <1>2. CASE row = NoRow
    BY <1>2 DEF Fire, FireAt
  <1>3. CASE row # NoRow /\ row.act = "clear"
    BY <1>1, <1>3, RacedKept DEF Fire, FireAt
  <1>4. CASE row # NoRow /\ row.act # "clear"
    <2>1. Fire(f, ev) = Commit(f, "live", row)
      BY <1>4 DEF Fire, FireAt
    <2>2. row.to \in States /\ (row.start = Nothing \/ row.start \in TimerEvents)
      BY <1>1, <1>4, RowType
    <2> HIDE DEF row
    <2> QED
      BY <1>1, <2>1, <2>2, CommitFields
  <1> QED
    BY <1>2, <1>3, <1>4

(* Fire and the mirror's part of it keep RM and state in agreement: the    *)
(* mirror writes the RM of the state entered.                              *)
LEMMA FireAgrees ==
    ASSUME NEW f, FsmInv(f), NEW m \in MmType, NEW hard, NEW ev
    PROVE  /\ Agree(f.st, m.rm, hard)
                => Agree(Fire(f, ev).st, MirrorFire(m, f.st, ev).rm, hard)
           /\ Fire(f, ev).st = "Registered" => f.st \in {"RegisteredInitiated", "Registered"}
  <1> DEFINE row == Row(f.st, ev)
  <1>1. f.st \in States
    BY DEF FsmInv, FsmType
  <1>2. Fire(f, ev).st = IF row = NoRow THEN f.st ELSE row.to
    BY FireState
  <1>3. MirrorFire(m, f.st, ev) = IF row = NoRow THEN m ELSE Mirror(m, row.to)
    BY DEF MirrorFire
  <1>4. row # NoRow => /\ row.to = "Registered" => f.st \in {"RegisteredInitiated", "Registered"}
                       /\ row.to = "Identification" => f.st = "Deregistered"
    BY <1>1, RowSource
  <1> HIDE DEF row
  <1>5. Mirror(m, row.to).rm = CASE row.to = "Deregistered" -> "DEREGISTERED"
                                 [] row.to = "Registered" -> "REGISTERED"
                                 [] OTHER -> m.rm
    BY MirrorRM
  <1> QED
    BY <1>2, <1>3, <1>4, <1>5 DEF Agree, First

(* A handler that fires an event on an FSM in the same state. *)
LEMMA FireStep ==
    ASSUME IInv, NEW f, FsmInv(f), f.st = fsm.st, f.raced = fsm.raced,
           NEW m \in MmType, NEW ev,
           m.rm = mm.rm \/ (m.rm = "DEREGISTERED" /\ ran'.hard)
               \/ fsm.st = "RegisteredInitiated",
           ran.hard => ran'.hard,
           fsm' = Fire(f, ev), mm' = MirrorFire(m, fsm.st, ev)
    PROVE  AgreeStep
  <1>1. fsm'.raced = fsm.raced
    BY FireRaced
  <1>2. Agree(fsm.st, m.rm, ran'.hard) => Agree(fsm'.st, mm'.rm, ran'.hard)
    BY FireAgrees
  <1>3. fsm'.st = "Registered" => fsm.st \in {"RegisteredInitiated", "Registered"}
    BY FireAgrees
  <1>4. Agree(fsm.st, mm.rm, ran.hard) => Agree(fsm.st, m.rm, ran'.hard)
    BY DEF Agree, First
  <1> QED
    BY <1>1, <1>2, <1>3, <1>4 DEF AgreeStep, EntersByAccept

(* A handler that leaves the state of the FSM and at most rejects. *)
LEMMA StayStep ==
    ASSUME fsm'.st = fsm.st, fsm'.raced = fsm.raced,
           mm'.rm = mm.rm \/ (mm'.rm = "DEREGISTERED" /\ ran'.hard),
           ran.hard => ran'.hard
    PROVE  AgreeStep
  BY DEF AgreeStep, EntersByAccept, Agree, First

(* A handler that leaves the FSM in Deregistered with RM to match. *)
LEMMA ClearStep ==
    ASSUME fsm'.st = "Deregistered", mm'.rm = "DEREGISTERED", fsm'.raced = fsm.raced
    PROVE  AgreeStep
  BY DEF AgreeStep, EntersByAccept, Agree, First

(* A removed or new context. *)
LEMMA NewStep ==
    ASSUME fsm' = NewFsm, mm' = NewMm
    PROVE  AgreeStep
  BY DEF AgreeStep, EntersByAccept, NewFsm

(* Only the rejection writes HardRemoveOnComplete. *)
LEMMA HardFields ==
    ASSUME NEW r \in RanType
    PROVE  /\ ClearRan(r).hard = r.hard /\ Released(r).hard = r.hard
           /\ \A up \in BOOLEAN : /\ SendCommand(r, up).hard = r.hard
                                  /\ SendICS(r, up).hard = r.hard
                                  /\ RejectRan(r, up).hard = TRUE
                                  /\ \A av : r.hard => AuthRan(r, av, up).hard
                                  /\ \A av \in BOOLEAN : ~av => AuthRan(r, av, up).hard
  <1>1. \A up \in BOOLEAN : SendCommand(r, up) \in RanType
    BY RanTypes
  <1> QED
    BY <1>1 DEF ClearRan, Released, SendCommand, SendICS, RejectRan, AuthRan, RanType
(* startAuthentication changes RM only where it rejects. *)
LEMMA AuthMmRM ==
    ASSUME IInv, NEW av \in BOOLEAN, NEW up \in Writes, NEW m \in MmType, m.rm = mm.rm,
           ran' = AuthRan(ran, av, up)
    PROVE  /\ AuthMm(m, av, up) \in MmType
           /\ \/ AuthMm(m, av, up).rm = mm.rm
              \/ AuthMm(m, av, up).rm = "DEREGISTERED" /\ ran'.hard
           /\ ran.hard => ran'.hard
  <1>1. AuthMm(m, av, up) \in MmType
    BY ConstantsAssumption, MmTypes
  <1>2. (ran.hard => ran'.hard) /\ (~av => ran'.hard)
    BY ConstantsAssumption, HardFields DEF IInv
  <1>3. IF av THEN AuthMm(m, av, up).rm = mm.rm ELSE AuthMm(m, av, up).rm = "DEREGISTERED"
    BY DEF AuthMm, RejectMm, MmType
  <1> QED
    BY <1>1, <1>2, <1>3
-----------------------------------------------------------------------------
(* Initial UE Message and Registration Request keep RM in agreement. *)
LEMMA RegisterAgrees ==
    ASSUME IInv, Register
    PROVE  AgreeStep
  <1>t. fsm \in FsmType /\ FsmInv(fsm) /\ mm \in MmType /\ ran \in RanType /\ Writes \subseteq BOOLEAN
    BY ConstantsAssumption DEF IInv, FsmInv
  <1>c. /\ FsmInv(FsmChecked) /\ FsmChecked.st = fsm.st /\ FsmChecked.raced = fsm.raced
        /\ MmChecked \in MmType /\ MmChecked.rm = mm.rm
        /\ MmAccepted \in MmType /\ MmAccepted.rm = mm.rm
    <2>1. FsmChecked.raced = fsm.raced
      BY <1>t, RacedKept DEF FsmChecked
    <2> QED
      BY <2>1, CheckedTypes, CheckedFields
  <1>1. CASE InitialUEFresh
    BY <1>1, NewStep DEF InitialUEFresh
  <1>2. CASE InitialUEByTmsi
    <2>1. fsm' = fsm /\ mm'.rm = mm.rm /\ ran'.hard = ran.hard
      BY <1>2, <1>t, MmFields DEF InitialUEByTmsi, RanType
    <2> QED
      BY <2>1, StayStep
  <1>3. CASE InitialUEByRanKey
    <2>1. fsm' = fsm /\ mm' = mm /\ ran'.hard = ran.hard
      BY <1>3, <1>t DEF InitialUEByRanKey, RanType
    <2> QED
      BY <2>1, StayStep
  <1>4. CASE RegistrationDuplicate
    BY <1>4, <1>c, StayStep DEF RegistrationDuplicate
  <1>5. CASE RegistrationNoSupi
    <2> DEFINE m == [MmChecked EXCEPT !.proc = "Registration", !.retx = TRUE]
    <2>1. m \in MmType /\ m.rm = mm.rm
      BY <1>c DEF MmType
    <2>2. fsm' = Fire(FsmChecked, "IdentityRequestSent") /\ ran' = ran
          /\ mm' = MirrorFire(m, fsm.st, "IdentityRequestSent")
      BY <1>5 DEF RegistrationNoSupi
    <2> HIDE DEF m
    <2> QED
      BY <1>c, <2>1, <2>2, FireStep
  <1>6. ASSUME NEW m \in MmType, m.rm = mm.rm, ReuseAccepted(m)
        PROVE  AgreeStep
    <2> DEFINE n == [m EXCEPT !.tmsi = TRUE, !.retx = TRUE]
    <2>1. n \in MmType /\ n.rm = mm.rm
      BY <1>6 DEF MmType
    <2>2. ran'.hard = ran.hard
      BY <1>6, <1>t, HardFields DEF ReuseAccepted
    <2>3. fsm' = Fire(FsmChecked, "RegRequestContextValid")
          /\ mm' = MirrorFire(n, fsm.st, "RegRequestContextValid")
      BY <1>6 DEF ReuseAccepted
    <2> HIDE DEF n
    <2> QED
      BY <1>c, <2>1, <2>2, <2>3, FireStep
  <1>7. CASE RegistrationReuse
    BY <1>6, <1>7, <1>c DEF RegistrationReuse
  <1>8. CASE RegistrationMigrate
    <2>1. [MmAccepted EXCEPT !.idx = TRUE] \in MmType /\ [MmAccepted EXCEPT !.idx = TRUE].rm = mm.rm
      BY <1>c DEF MmType
    <2> QED
      BY <1>6, <1>8, <2>1 DEF RegistrationMigrate
  <1>9. ASSUME NEW b \in BOOLEAN, NEW up \in Writes, RegistrationRejected(b, up)
        PROVE  AgreeStep
    <2>1. fsm'.st = fsm.st /\ fsm'.raced = fsm.raced
      BY <1>9, <1>t, CancelAllInv, RacedKept DEF RegistrationRejected
    <2>2. [MmChecked EXCEPT !.lastRR = b \/ @] \in MmType
      BY <1>c DEF MmType
    <2>3. mm'.rm = "DEREGISTERED"
      BY <1>9, <2>2, MmFields DEF RegistrationRejected
    <2>4. ran'.hard
      BY <1>9, <1>t, HardFields DEF RegistrationRejected
    <2> QED
      BY <2>1, <2>3, <2>4, StayStep
  <1>10. \A av : /\ FsmInv(AuthFsm(FsmChecked, av)) /\ AuthFsm(FsmChecked, av).st = fsm.st
                 /\ AuthFsm(FsmChecked, av).raced = fsm.raced
    BY <1>c, AuthFsmInv, RacedKept DEF FsmInv
  <1>11. ASSUME NEW av \in BOOLEAN, NEW up \in Writes, RegistrationAuthenticate(av, up)
         PROVE  AgreeStep
    <2>1. [MmAccepted EXCEPT !.idx = TRUE] \in MmType /\ [MmAccepted EXCEPT !.idx = TRUE].rm = mm.rm
      BY <1>c DEF MmType
    <2> DEFINE m == AuthMm([MmAccepted EXCEPT !.idx = TRUE], av, up)
    <2>2. fsm' = Fire(AuthFsm(FsmChecked, av), "RegistrationRequest") /\ ran' = AuthRan(ran, av, up)
          /\ mm' = MirrorFire(m, fsm.st, "RegistrationRequest")
      BY <1>11 DEF RegistrationAuthenticate
    <2>3. m \in MmType /\ (m.rm = mm.rm \/ (m.rm = "DEREGISTERED" /\ ran'.hard))
          /\ (ran.hard => ran'.hard)
      BY <2>1, <2>2, AuthMmRM
    <2> HIDE DEF m
    <2> QED
      BY <1>10, <2>2, <2>3, FireStep
  <1>12. ASSUME NEW av \in BOOLEAN, NEW up \in Writes, RegistrationReuseFails(av, up)
         PROVE  AgreeStep
    <2>1. [MmAccepted EXCEPT !.tmsi = TRUE] \in MmType /\ [MmAccepted EXCEPT !.tmsi = TRUE].rm = mm.rm
      BY <1>c DEF MmType
    <2> DEFINE m == AuthMm([MmAccepted EXCEPT !.tmsi = TRUE], av, up)
    <2>2. fsm' = Fire(AuthFsm(FsmChecked, av), "RegistrationRequest") /\ ran' = AuthRan(ran, av, up)
          /\ mm' = MirrorFire(m, fsm.st, "RegistrationRequest")
      BY <1>12 DEF RegistrationReuseFails
    <2>3. m \in MmType /\ (m.rm = mm.rm \/ (m.rm = "DEREGISTERED" /\ ran'.hard))
          /\ (ran.hard => ran'.hard)
      BY <2>1, <2>2, AuthMmRM
    <2> HIDE DEF m
    <2> QED
      BY <1>10, <2>2, <2>3, FireStep
  <1>13. ASSUME NEW av \in BOOLEAN, NEW up \in Writes, RegistrationMigrateFails(av, up)
         PROVE  AgreeStep
    <2> DEFINE n == [MmAccepted EXCEPT !.idx = TRUE, !.tmsi = TRUE]
    <2>1. n \in MmType /\ n.rm = mm.rm
      BY <1>c DEF MmType
    <2>2. fsm' = AuthFsm(FsmChecked, av) /\ ran' = AuthRan(ran, av, up) /\ mm' = AuthMm(n, av, up)
      BY <1>13 DEF RegistrationMigrateFails
    <2> HIDE DEF n
    <2> QED
      BY <1>10, <2>1, <2>2, AuthMmRM, StayStep
  <1> QED
    BY <1>1, <1>2, <1>3, <1>4, <1>5, <1>7, <1>8, <1>9, <1>11, <1>12, <1>13 DEF Register

(* Identification, authentication and security mode keep it. *)
LEMMA CommonProcedureAgrees ==
    ASSUME IInv, CommonProcedure
    PROVE  AgreeStep
  <1>t. fsm \in FsmType /\ FsmInv(fsm) /\ mm \in MmType /\ ran \in RanType /\ Writes \subseteq BOOLEAN
    BY ConstantsAssumption DEF IInv, FsmInv
  <1>a. \A av : /\ FsmInv(AuthFsm(fsm, av)) /\ AuthFsm(fsm, av).st = fsm.st
                /\ AuthFsm(fsm, av).raced = fsm.raced
    BY <1>t, AuthFsmInv, RacedKept
  (* The failures that fire an event to Deregistered and reject. *)
  <1>f. ASSUME NEW ev \in HandlerEvents, Row(fsm.st, ev) # NoRow, Row(fsm.st, ev).to = "Deregistered",
               fsm' = CancelAllForUE(Fire(fsm, ev)),
               mm' = RejectMm(MirrorFire(mm, fsm.st, ev))
        PROVE  AgreeStep
    <2>1. FsmInv(Fire(fsm, ev))
      BY <1>t, FireInv
    <2>2. fsm'.st = "Deregistered" /\ fsm'.raced = fsm.raced
      BY <1>f, <1>t, <2>1, CancelAllInv, RacedKept, FireState, FireRaced DEF FsmInv
    <2>3. mm'.rm = "DEREGISTERED"
      BY <1>f, <1>t, MirrorFireType, MmFields
    <2> QED
      BY <2>2, <2>3, ClearStep
  (* The rejections that leave the FSM where it is. *)
  <1>r. ASSUME NEW up \in Writes, NEW m \in MmType, fsm' = CancelAllForUE(fsm),
               mm' = RejectMm(m), ran' = RejectRan(ran, up)
        PROVE  AgreeStep
    <2>1. fsm'.st = fsm.st /\ fsm'.raced = fsm.raced
      BY <1>r, <1>t, CancelAllInv, RacedKept
    <2>2. mm'.rm = "DEREGISTERED" /\ ran'.hard
      BY <1>r, <1>t, MmFields, HardFields
    <2> QED
      BY <2>1, <2>2, StayStep
  <1>1. ASSUME NEW av \in BOOLEAN, NEW up \in Writes, IdentityResponse(av, up)
        PROVE  AgreeStep
    <2> DEFINE n == [mm EXCEPT !.idx = TRUE]
               m == IF mm.proc = "Registration" THEN AuthMm(n, av, up) ELSE n
               f == AuthFsm(fsm, ~(mm.proc = "Registration") \/ av)
    <2>1. n \in MmType /\ n.rm = mm.rm
      BY <1>t DEF MmType
    <2>2. fsm' = Fire(f, "IdentityResponse") /\ mm' = MirrorFire(m, fsm.st, "IdentityResponse")
          /\ ran' = IF mm.proc = "Registration" THEN AuthRan(ran, av, up) ELSE ran
      BY <1>1 DEF IdentityResponse
    <2>3. m \in MmType /\ (m.rm = mm.rm \/ (m.rm = "DEREGISTERED" /\ ran'.hard))
          /\ (ran.hard => ran'.hard)
      BY <2>1, <2>2, AuthMmRM
    <2>4. FsmInv(f) /\ f.st = fsm.st /\ f.raced = fsm.raced
      BY <1>a
    <2> HIDE DEF m, f
    <2> QED
      BY <2>2, <2>3, <2>4, FireStep
  <1>2. ASSUME NEW alg \in BOOLEAN, NEW up \in Writes, AuthResponseValid(alg, up)
        PROVE  AgreeStep
    <2> DEFINE m == IF alg THEN [mm EXCEPT !.retx = up \/ @] ELSE RejectMm(mm)
               f == AuthFsm(fsm, alg)
    <2>1. fsm' = Fire(f, "AuthResponseValid") /\ mm' = MirrorFire(m, fsm.st, "AuthResponseValid")
          /\ ran' = IF alg THEN ran ELSE RejectRan(ran, up)
      BY <1>2 DEF AuthResponseValid
    <2>2. [mm EXCEPT !.retx = up \/ @] \in MmType /\ [mm EXCEPT !.retx = up \/ @].rm = mm.rm
      BY <1>t DEF MmType
    <2>3. m \in MmType /\ (m.rm = mm.rm \/ (m.rm = "DEREGISTERED" /\ ran'.hard))
          /\ (ran.hard => ran'.hard)
      BY <1>t, <2>1, <2>2, MmTypes, MmFields, HardFields
    <2>4. FsmInv(f) /\ f.st = fsm.st /\ f.raced = fsm.raced
      BY <1>a
    <2> HIDE DEF m, f
    <2> QED
      BY <2>1, <2>3, <2>4, FireStep
  <1>3. ASSUME NEW av \in BOOLEAN, NEW up \in Writes, AuthFailureRetry(av, up)
        PROVE  AgreeStep
    <2>1. /\ fsm' = Fire(AuthFsm(fsm, av), "AuthRetry") /\ ran' = AuthRan(ran, av, up)
          /\ mm' = MirrorFire(AuthMm(mm, av, up), fsm.st, "AuthRetry")
      BY <1>3 DEF AuthFailureRetry
    <2> QED
      BY <1>a, <1>t, <2>1, AuthMmRM, FireStep
  <1>4. ASSUME NEW up \in Writes, IdentityResponseFails(up)
        PROVE  AgreeStep
    <2>1. fsm.st = "Identification" => /\ Row(fsm.st, "IdentityResponseFail") # NoRow
                                       /\ Row(fsm.st, "IdentityResponseFail").to = "Deregistered"
      BY DEF Row, IdentificationRow, Go, NoRow
    <2> QED
      BY <1>4, <1>f, <2>1 DEF IdentityResponseFails, HandlerEvents
  <1>5. ASSUME NEW up \in Writes, IdentityUnknown(up)
        PROVE  AgreeStep
    <2>1. [mm EXCEPT !.idx = TRUE] \in MmType
      BY <1>t DEF MmType
    <2> QED
      BY <1>5, <1>r, <2>1 DEF IdentityUnknown
  <1>6. ASSUME NEW up \in Writes, AuthResponseUndecodable(up)
        PROVE  AgreeStep
    <2>1. fsm.st = "Authentication" => /\ Row(fsm.st, "AuthResponseInvalid") # NoRow
                                       /\ Row(fsm.st, "AuthResponseInvalid").to = "Deregistered"
      BY DEF Row, AuthenticationRow, Go, NoRow
    <2> QED
      BY <1>6, <1>f, <2>1 DEF AuthResponseUndecodable, AwaitsAuthResponse, HandlerEvents
  <1>7. ASSUME NEW up \in Writes, AuthFailureNgKSIInUse(up)
        PROVE  AgreeStep
    <2> DEFINE m == [mm EXCEPT !.retx = up \/ @]
               ev == IF up THEN "AuthRetry" ELSE "AuthenticationFailure"
    <2>1. m \in MmType /\ m.rm = mm.rm
      BY <1>t DEF MmType
    <2>2. fsm' = Fire(fsm, ev) /\ mm' = MirrorFire(m, fsm.st, ev) /\ ran' = ran
      BY <1>7 DEF AuthFailureNgKSIInUse
    <2> HIDE DEF m, ev
    <2> QED
      BY <1>t, <2>1, <2>2, FireStep
  <1>8. ASSUME NEW up \in Writes, SecurityModeComplete(up)
        PROVE  AgreeStep
    <2> DEFINE m == [mm EXCEPT !.tmsi = TRUE, !.retx = up \/ @]
    <2>1. m \in MmType /\ m.rm = mm.rm
      BY <1>t DEF MmType
    <2>2. fsm' = Fire(fsm, "SecurityModeComplete") /\ ran' = SendICS(ran, up)
          /\ mm' = MirrorFire(m, fsm.st, "SecurityModeComplete")
      BY <1>8 DEF SecurityModeComplete
    <2>3. ran'.hard = ran.hard
      BY <1>t, <2>2, HardFields
    <2> HIDE DEF m
    <2> QED
      BY <1>t, <2>1, <2>2, <2>3, FireStep
  <1>9. ASSUME NEW up \in Writes, SecurityModeNoContainer(up)
        PROVE  AgreeStep
    BY <1>9, <1>r, <1>t DEF SecurityModeNoContainer
  <1>10. ASSUME NEW up \in Writes, SecurityModeReject(up)
         PROVE  AgreeStep
    <2>1. fsm.st = "SecurityMode" => /\ Row(fsm.st, "SecurityModeReject") # NoRow
                                     /\ Row(fsm.st, "SecurityModeReject").to = "Deregistered"
      BY DEF Row, SecurityModeRow, Go, NoRow
    <2> QED
      BY <1>10, <1>f, <2>1 DEF SecurityModeReject, AwaitsSecurityMode, HandlerEvents
  <1>11. CASE AuthResponseWrong
    BY <1>11, NewStep DEF AuthResponseWrong, Remove
  <1>12. CASE AuthFailureUndecodable
    <2>1. fsm.st = "Authentication" => /\ Row(fsm.st, "AuthenticationFailure") # NoRow
                                       /\ Row(fsm.st, "AuthenticationFailure").to = "Deregistered"
      BY DEF Row, AuthenticationRow, Go, NoRow
    <2>2. fsm'.st = "Deregistered" /\ fsm'.raced = fsm.raced
      BY <1>12, <1>t, <2>1, FireState, FireRaced DEF AuthFailureUndecodable, AwaitsAuthFailure
    <2>3. \A m \in MmType : [Mirror(m, "Deregistered") EXCEPT !.proc = "None"].rm = "DEREGISTERED"
      BY DEF Mirror, MmType
    <2>4. mm'.rm = "DEREGISTERED"
      BY <1>12, <1>t, <2>1, <2>3 DEF AuthFailureUndecodable, AwaitsAuthFailure, MirrorFire
    <2> QED
      BY <2>2, <2>4, ClearStep
  <1>13. CASE AuthFailureExhausted
    BY <1>13, NewStep DEF AuthFailureExhausted, Remove
  <1> QED
    BY <1>1, <1>2, <1>3, <1>4, <1>5, <1>6, <1>7, <1>8, <1>9, <1>10, <1>11, <1>12, <1>13
       DEF CommonProcedure

(* The other NAS handlers keep it. *)
LEMMA OtherNasAgrees ==
    ASSUME IInv, OtherNas
    PROVE  AgreeStep
  <1>t. fsm \in FsmType /\ FsmInv(fsm) /\ mm \in MmType /\ ran \in RanType /\ Writes \subseteq BOOLEAN
    BY ConstantsAssumption DEF IInv, FsmInv
  (* The deregistrations: ClearVolatile has the last word. *)
  <1>d. ASSUME NEW f, FsmInv(f), f.raced = fsm.raced, NEW ev \in HandlerEvents,
               fsm' = RemoveHooks(Fire(f, ev)), mm' = ClearMm(mm)
        PROVE  AgreeStep
    <2>1. FsmInv(Fire(f, ev)) /\ Fire(f, ev).raced = fsm.raced
      BY <1>d, FireInv, FireRaced
    <2>2. fsm'.st = "Deregistered" /\ fsm'.raced = fsm.raced
      BY <1>d, <2>1, RemoveHooksInv, RacedKept DEF FsmInv
    <2>3. mm'.rm = "DEREGISTERED"
      BY <1>d, <1>t, MmFields
    <2> QED
      BY <2>2, <2>3, ClearStep
  <1>a. FsmInv(CancelAllForUE(fsm)) /\ CancelAllForUE(fsm).raced = fsm.raced
    BY <1>t, CancelAllInv, RacedKept
  <1>1. CASE RegistrationComplete
    <2> DEFINE m == [mm EXCEPT !.rm = "REGISTERED", !.proc = "None"]
    <2>1. m \in MmType /\ ran'.hard = ran.hard
      BY <1>1, <1>t DEF RegistrationComplete, MmType, RanType
    <2>2. fsm.st = "RegisteredInitiated" /\ fsm' = Fire(fsm, "RegistrationComplete")
          /\ mm' = MirrorFire(m, fsm.st, "RegistrationComplete")
      BY <1>1 DEF RegistrationComplete
    <2> HIDE DEF m
    <2> QED
      BY <1>t, <2>1, <2>2, FireStep
  <1>2. ASSUME NEW b \in BOOLEAN, NEW up \in Writes, ServiceRequest(b, up)
        PROVE  AgreeStep
    <2> DEFINE r == SendICS(ran, b /\ up)
    <2>1. r \in RanType /\ r.hard = ran.hard
      BY <1>t, HardFields, RanTypes
    <2>2. ran' = [r EXCEPT !.cm = "CONNECTED"] /\ fsm' = Fire(fsm, "ServiceRequest")
          /\ mm' = MirrorFire(mm, fsm.st, "ServiceRequest")
      BY <1>2 DEF ServiceRequest
    <2> HIDE DEF r
    <2>3. ran'.hard = ran.hard
      BY <2>1, <2>2 DEF RanType
    <2> QED
      BY <1>t, <2>2, <2>3, FireStep
  <1>3. ASSUME NEW ev \in {"ULNASTransport", "Status5GMM"}, NasInRegistered(ev)
        PROVE  AgreeStep
    BY <1>3, <1>t, FireStep DEF NasInRegistered
  <1>4. CASE ConfigUpdateComplete
    <2> DEFINE m == [mm EXCEPT !.proc = "None"]
    <2>1. m \in MmType /\ m.rm = mm.rm
      BY <1>t DEF MmType
    <2>2. fsm' = Fire(fsm, "ConfigUpdateComplete") /\ ran' = ran
          /\ mm' = MirrorFire(m, fsm.st, "ConfigUpdateComplete")
      BY <1>4 DEF ConfigUpdateComplete
    <2> HIDE DEF m
    <2> QED
      BY <1>t, <2>1, <2>2, FireStep
  <1>5. ASSUME NEW up \in Writes, DeregistrationMO(up)
        PROVE  AgreeStep
    BY <1>5, <1>a, <1>d DEF DeregistrationMO, HandlerEvents
  <1>6. ASSUME NEW up \in Writes, DeregistrationByTmsi(up)
        PROVE  AgreeStep
    BY <1>6, <1>a, <1>d DEF DeregistrationByTmsi, HandlerEvents
  <1>7. ASSUME NEW up \in Writes, DeregistrationAccept(up)
        PROVE  AgreeStep
    <2>1. FsmInv(CancelTimer(fsm, "T3522")) /\ CancelTimer(fsm, "T3522").raced = fsm.raced
      BY <1>t, CancelTimerInv, RacedKept
    <2> QED
      BY <1>7, <1>d, <2>1 DEF DeregistrationAccept, HandlerEvents
  <1>8. CASE DeregistrationUndecodable
    <2>1. FsmChecked.raced = fsm.raced
      BY <1>t, RacedKept DEF FsmChecked
    <2> QED
      BY <1>8, <2>1, CheckedTypes, CheckedFields, StayStep DEF DeregistrationUndecodable
  <1> QED
    BY <1>1, <1>2, <1>3, <1>4, <1>5, <1>6, <1>7, <1>8 DEF OtherNas

(* The NGAP procedures of the gNB keep it: a lower-layer failure takes the *)
(* FSM to the state that RM names.                                         *)
LEMMA NgapAgrees ==
    ASSUME IInv, Ngap
    PROVE  AgreeStep
  <1>t. fsm \in FsmType /\ FsmInv(fsm) /\ mm \in MmType /\ ran \in RanType /\ Writes \subseteq BOOLEAN
    BY ConstantsAssumption DEF IInv, FsmInv
  <1>1. ASSUME NEW b \in BOOLEAN, NEW up \in Writes, ReleaseRequest(b, up)
        PROVE  AgreeStep
    <2> DEFINE f == CancelAllForUE(fsm)
               r == [ran EXCEPT !.cm = "IDLE", !.ngap = "None"]
    <2>1. /\ f \in FsmType /\ FsmInv(f) /\ f.st = fsm.st /\ f.armed = {} /\ (f.late \/ f.due = {})
          /\ f.raced = fsm.raced
      BY <1>t, CancelAllInv, RacedKept DEF FsmInv
    <2>2. r \in RanType /\ r.hard = ran.hard
      BY <1>t DEF RanType
    <2>3. /\ ran' = SendCommand(r, up)
          /\ \/ /\ fsm' = IF mm.rm = "REGISTERED" THEN ResetTo(f, "Registered") ELSE Drop(f)
                /\ mm' = AbortMm(mm)
             \/ fsm' = f /\ UNCHANGED mm
      BY <1>1 DEF ReleaseRequest, LowerLayerFailure
    <2> HIDE DEF f, r
    <2>4. ran'.hard = ran.hard
      BY <1>t, <2>2, <2>3, HardFields
    <2>5. CASE fsm' = f /\ UNCHANGED mm
      BY <2>1, <2>4, <2>5, StayStep
    <2>6. CASE fsm' = (IF mm.rm = "REGISTERED" THEN ResetTo(f, "Registered") ELSE Drop(f))
               /\ mm' = AbortMm(mm)
      <3>1. mm'.rm = mm.rm /\ mm.rm \in {"REGISTERED", "DEREGISTERED"}
        BY <1>t, <2>6, MmFields DEF MmType
      <3>2. fsm'.raced = fsm.raced
        BY <2>1, <2>6, RacedKept
      <3>3. fsm'.st = IF mm.rm = "REGISTERED" THEN "Registered" ELSE "Deregistered"
        BY <2>1, <2>6, DropInv, RacedKept
      <3> QED
        BY <3>1, <3>2, <3>3 DEF AgreeStep, EntersByAccept, Agree, First
    <2> QED
      BY <2>3, <2>5, <2>6
  <1>2. CASE ReleaseComplete
    <2>1. \/ Remove
          \/ fsm' = RemoveHooks(fsm) /\ mm' = ClearMm(mm)
          \/ ran' = Released(ran) /\ UNCHANGED <<fsm, mm>>
      BY <1>2 DEF ReleaseComplete
    <2>2. CASE Remove
      BY <2>2, NewStep DEF Remove
    <2>3. CASE fsm' = RemoveHooks(fsm) /\ mm' = ClearMm(mm)
      BY <1>t, <2>3, RemoveHooksInv, RacedKept, MmFields, ClearStep
    <2>4. CASE ran' = Released(ran) /\ UNCHANGED <<fsm, mm>>
      BY <1>t, <2>4, HardFields, StayStep
    <2> QED
      BY <2>1, <2>2, <2>3, <2>4
  <1>3. CASE ICSAnswer
    <2>1. ran'.hard = ran.hard /\ fsm' = fsm /\ mm' = mm
      BY <1>3, <1>t DEF ICSAnswer, RanType
    <2> QED
      BY <2>1, StayStep
  <1>4. CASE GnbLost
    BY <1>4, NewStep DEF GnbLost, Remove
  <1>5. CASE Superseded
    BY <1>5, NewStep DEF Superseded, Remove
  <1> QED
    BY <1>1, <1>2, <1>3, <1>4, <1>5 DEF Ngap

(* The tick goroutine keeps it: a callback that is not late fires on the   *)
(* live FSM, and any other one that takes a transition counts as raced.    *)
LEMMA TickAgrees ==
    ASSUME IInv, Tick
    PROVE  AgreeStep
  <1>t. fsm \in FsmType /\ FsmInv(fsm) /\ mm \in MmType /\ ran \in RanType /\ Writes \subseteq BOOLEAN
    BY ConstantsAssumption DEF IInv, FsmInv
  <1>1. ASSUME NEW e \in fsm.armed, Collect(e)
        PROVE  AgreeStep
    <2>1. fsm'.st = fsm.st /\ fsm'.raced = fsm.raced /\ mm' = mm /\ ran' = ran
      BY <1>1, <1>t DEF Collect, FsmType
    <2> QED
      BY <2>1, StayStep
  <1>2. ASSUME NEW e \in fsm.due, NEW up \in Writes, ExpiryCallback(e, up)
        PROVE  AgreeStep
    <2> DEFINE s == IF e.own = "live" THEN fsm.st ELSE e.own
               row == Row(s, e.ev)
               f == [fsm EXCEPT !.due = {}, !.late = FALSE,
                                !.raced = @ \/ (fsm.late /\ row # NoRow)]
               m == IF row.act = "clear" THEN ClearMm(mm) ELSE mm
    <2>1. fsm' = FireAt(f, e.own, e.ev) /\ mm' = MirrorFire(m, s, e.ev)
      BY <1>2 DEF ExpiryCallback
    <2>2. /\ f \in FsmType /\ f.st = fsm.st /\ f.due = {} /\ f.late = FALSE /\ f.armed = fsm.armed
          /\ f.raced = (fsm.raced \/ (fsm.late /\ row # NoRow))
      BY <1>t DEF FsmType
    <2>3. e.own \in Owners /\ s \in States
      BY <1>t DEF FsmType, TimerEntries, Owners
    <2>4. ran'.hard = ran.hard
      <3>1. \A r \in RanType : ClearRan(r).hard = r.hard
        BY HardFields
      <3>2. SendCommand(ran, up) \in RanType /\ SendCommand(ran, up).hard = ran.hard
        BY <1>t, HardFields, RanTypes
      <3>3. ran' \in {SendCommand(ran, up), ClearRan(SendCommand(ran, up)), ran}
        BY <1>2 DEF ExpiryCallback
      <3> QED
        BY <3>1, <3>2, <3>3
    <2>5. FireAt(f, e.own, e.ev) = IF row = NoRow THEN f
                                   ELSE IF row.act = "clear" THEN RemoveHooks(f)
                                   ELSE Commit(f, e.own, row)
      BY <2>2 DEF FireAt
    <2>6. row # NoRow => row.to \in States /\ (row.start = Nothing \/ row.start \in TimerEvents)
      BY <2>3, RowType
    <2>7. row # NoRow => (row.to = "Registered" => s \in {"RegisteredInitiated", "Registered"})
      BY <2>3, RowSource
    <2>8. CASE row = NoRow
      <3>1. fsm' = f /\ mm' = mm
        BY <2>1, <2>5, <2>8 DEF MirrorFire, NoRow, Go
      <3> HIDE DEF f, row
      <3>2. f.raced = fsm.raced
        BY <1>t, <2>2, <2>8 DEF FsmType
      <3> QED
        BY <2>2, <2>4, <3>1, <3>2, StayStep
    <2>9. CASE row # NoRow /\ ~(fsm.raced \/ fsm.late)
      <3>1. e.own = "live" /\ s = fsm.st
        BY <2>9 DEF IInv, FsmInv, Match, Live
      <3>2. Match(f) /\ Once(f)
        BY <2>2, <2>9, <1>t DEF FsmInv, Match, Once, Live
      <3>3. FsmInv(f)
        BY <2>2, <3>2 DEF FsmInv
      <3>4. f.raced = fsm.raced
        BY <1>t, <2>2, <2>9 DEF FsmType
      <3>5. fsm' = Fire(f, e.ev)
        BY <2>1, <3>1 DEF Fire
      <3>6. CASE row.act = "clear"
        <4>1. m \in MmType /\ m.rm = "DEREGISTERED"
          BY <1>t, <3>6, MmFields, MmTypes
        <4>2. Row(f.st, e.ev) = row
          BY <2>2, <3>1
        <4>3. mm' = Mirror(m, row.to)
          BY <2>1, <2>9 DEF MirrorFire
        <4> HIDE DEF f, m, row, s
        <4>4. fsm' = RemoveHooks(f)
          BY <2>1, <2>5, <2>9, <3>6
        <4>5. fsm'.st = "Deregistered" /\ fsm'.raced = fsm.raced
          BY <2>2, <3>3, <3>4, <4>4, RemoveHooksInv, RacedKept
        <4>6. row.to = "Deregistered"
          BY <2>9, <3>3, <3>5, <4>2, <4>5, FireState
        <4>7. mm'.rm = "DEREGISTERED"
          BY <4>1, <4>3, <4>6, MirrorRM
        <4> QED
          BY <4>5, <4>7, ClearStep
      <3>7. CASE row.act # "clear"
        <4>1. m = mm
          BY <3>7
        <4> QED
          BY <1>t, <2>1, <2>2, <2>4, <3>1, <3>3, <3>4, <3>5, <4>1, FireStep
      <3> QED
        BY <3>6, <3>7
    <2>10. CASE row # NoRow /\ (fsm.raced \/ fsm.late)
      <3>1. f.raced
        BY <2>2, <2>10
      <3> HIDE DEF f, row
      <3>2. Commit(f, e.own, row).raced = f.raced
            /\ Commit(f, e.own, row).st = IF e.own = "live" THEN row.to ELSE f.st
        BY <2>2, <2>3, <2>6, <2>10, CommitFields
      <3>3. RemoveHooks(f).raced = f.raced /\ RemoveHooks(f).st = "Deregistered"
        BY <2>2, RacedKept DEF FsmType, RemoveHooks, CancelAllForUE, Drop
      <3>4. fsm'.raced
        BY <2>1, <2>5, <2>10, <3>1, <3>2, <3>3
      <3>5. EntersByAccept
        BY <2>1, <2>2, <2>5, <2>7, <2>10, <3>2, <3>3 DEF EntersByAccept
      <3> QED
        BY <3>4, <3>5 DEF AgreeStep
    <2> QED
      BY <2>8, <2>9, <2>10
  <1> QED
    BY <1>1, <1>2 DEF Tick

(* Every step of the AMF keeps RM in agreement with the FSM. *)
LEMMA NextAgrees ==
    ASSUME IInv, [Next]_vars
    PROVE  AgreeStep
  <1>1. CASE FallSilent
    BY <1>1, StayStep DEF FallSilent
  <1>2. CASE UNCHANGED vars
    BY <1>2, StayStep DEF vars
  <1> QED
    BY <1>1, <1>2, RegisterAgrees, CommonProcedureAgrees, OtherNasAgrees, NgapAgrees, TickAgrees
       DEF Next

(* RM and the FSM never disagree on whether the UE is registered, whatever *)
(* the interleaving of handlers and callbacks, unless a callback came late. *)
THEOREM RMFollowsState == Spec => []RMAgrees
  <1>1. RMAgrees <=> fsm.raced \/ Agree(fsm.st, mm.rm, ran.hard)
    BY DEF RMAgrees, Agree, First
  <1>2. Init => RMAgrees
    BY DEF Init, NewFsm, NewMm, RMAgrees
  <1>3. IInv /\ RMAgrees /\ [Next]_vars => RMAgrees'
    <2> SUFFICES ASSUME IInv, RMAgrees, AgreeStep PROVE RMAgrees'
      BY NextAgrees
    <2>1. CASE fsm' = NewFsm /\ mm' = NewMm
      BY <2>1 DEF RMAgrees, NewFsm, NewMm
    <2>2. CASE ~(fsm' = NewFsm /\ mm' = NewMm)
      BY <1>1, <2>2 DEF AgreeStep, RMAgrees, Agree, First
    <2> QED
      BY <2>1, <2>2
  <1> QED
    BY <1>2, <1>3, Invariant, PTL DEF Spec

(* The FSM enters Registered only out of RegisteredInitiated or, after a   *)
(* lower-layer failure, for a UE that is RM-REGISTERED already.            *)
THEOREM RegisteredOnlyByAccept == Spec => RegisteredByAccept
  <1>1. IInv /\ [Next]_vars => [EntersByAccept]_vars
    BY NextAgrees DEF AgreeStep
  <1> QED
    BY <1>1, Invariant, PTL DEF Spec, RegisteredByAccept, EntersByAccept
-----------------------------------------------------------------------------
(* ConnectedHasLink of the NGAP fields r. *)
Linked(r) == r.cm = "CONNECTED" => r.conn

(* The commands, setup requests and rejections keep the link that they     *)
(* find; ClearVolatile and the release leave the UE idle.                  *)
LEMMA LinkedFields ==
    ASSUME NEW r \in RanType
    PROVE  /\ Linked(ClearRan(r)) /\ Linked(Released(r))
           /\ \A up \in BOOLEAN : /\ SendCommand(r, up).cm = r.cm
                                  /\ SendCommand(r, up).conn = r.conn
                                  /\ SendICS(r, up).cm = r.cm
                                  /\ SendICS(r, up).conn = r.conn
                                  /\ RejectRan(r, up).cm = "IDLE"
           /\ \A av, up \in BOOLEAN : Linked(r) => Linked(AuthRan(r, av, up))
  <1>1. \A up \in BOOLEAN : SendCommand(r, up) \in RanType
    BY RanTypes
  <1> QED
    BY <1>1 DEF Linked, ClearRan, Released, SendCommand, SendICS, RejectRan, AuthRan, RanType

(* A step gives the UE a link, takes CM-CONNECTED away with it, or leaves both. *)
LEMMA NextLinked ==
    ASSUME IInv, Linked(ran), [Next]_vars
    PROVE  Linked(ran')
  <1>t. ran \in RanType /\ Writes \subseteq BOOLEAN
    BY ConstantsAssumption DEF IInv
  <1>n. Linked(NoRan)
    BY DEF Linked, NoRan
  <1>r. \A up \in Writes : Linked(RejectRan(ran, up))
    BY <1>t, LinkedFields DEF Linked
  <1>c. \A up \in Writes : Linked(SendCommand(ran, up)) /\ Linked(ClearRan(SendCommand(ran, up)))
    <2>1. \A up \in Writes : SendCommand(ran, up) \in RanType
      BY <1>t, RanTypes
    <2> QED
      BY <1>t, <2>1, LinkedFields DEF Linked
  <1>s. \A up \in BOOLEAN : Linked(SendICS(ran, up))
    BY <1>t, LinkedFields DEF Linked
  <1>a. \A av \in BOOLEAN, up \in Writes : Linked(AuthRan(ran, av, up))
    BY <1>t, LinkedFields
  <1>1. CASE Register
    <2>1. CASE InitialUEFresh \/ InitialUEByTmsi \/ InitialUEByRanKey
      BY <1>t, <2>1 DEF InitialUEFresh, InitialUEByTmsi, InitialUEByRanKey, NoRan, RanType, Linked
    <2>2. CASE RegistrationDuplicate \/ RegistrationNoSupi
      BY <2>2 DEF RegistrationDuplicate, RegistrationNoSupi
    <2>3. CASE RegistrationReuse \/ RegistrationMigrate
      BY <1>s, <2>3 DEF RegistrationReuse, RegistrationMigrate, ReuseAccepted
    <2>4. ASSUME NEW b \in BOOLEAN, NEW up \in Writes,
                 \/ RegistrationRejected(b, up) \/ RegistrationAuthenticate(b, up)
                 \/ RegistrationReuseFails(b, up) \/ RegistrationMigrateFails(b, up)
          PROVE  Linked(ran')
      BY <1>a, <1>r, <2>4
         DEF RegistrationRejected, RegistrationAuthenticate, RegistrationReuseFails,
             RegistrationMigrateFails
    <2> QED
      BY <1>1, <2>1, <2>2, <2>3, <2>4 DEF Register
  <1>2. CASE CommonProcedure
    <2>1. ASSUME NEW b \in BOOLEAN, NEW up \in Writes,
                 IdentityResponse(b, up) \/ AuthResponseValid(b, up) \/ AuthFailureRetry(b, up)
          PROVE  Linked(ran')
      BY <1>a, <1>r, <2>1 DEF IdentityResponse, AuthResponseValid, AuthFailureRetry
    <2>2. ASSUME NEW up \in Writes,
                 \/ IdentityResponseFails(up) \/ IdentityUnknown(up)
                 \/ AuthResponseUndecodable(up) \/ SecurityModeNoContainer(up)
                 \/ SecurityModeReject(up)
          PROVE  Linked(ran')
      BY <1>r, <2>2 DEF IdentityResponseFails, IdentityUnknown, AuthResponseUndecodable,
                        SecurityModeNoContainer, SecurityModeReject
    <2>3. ASSUME NEW up \in Writes, AuthFailureNgKSIInUse(up) \/ SecurityModeComplete(up)
          PROVE  Linked(ran')
      BY <1>s, <1>t, <2>3 DEF AuthFailureNgKSIInUse, SecurityModeComplete
    <2>4. CASE AuthResponseWrong \/ AuthFailureUndecodable \/ AuthFailureExhausted
      BY <1>n, <2>4 DEF AuthResponseWrong, AuthFailureUndecodable, AuthFailureExhausted, Remove
    <2> QED
      BY <1>2, <2>1, <2>2, <2>3, <2>4 DEF CommonProcedure
  <1>3. CASE OtherNas
    <2>1. CASE RegistrationComplete
      BY <1>t, <2>1 DEF RegistrationComplete, Receives, RanType, Linked
    <2>2. ASSUME NEW b \in BOOLEAN, NEW up \in Writes, ServiceRequest(b, up)
          PROVE  Linked(ran')
      <3> DEFINE r == SendICS(ran, b /\ up)
      <3>1. r \in RanType /\ r.conn = ran.conn
        BY <1>t, LinkedFields, RanTypes
      <3>2. ran' = [r EXCEPT !.cm = "CONNECTED"] /\ ran.conn
        BY <2>2 DEF ServiceRequest, Receives
      <3> HIDE DEF r
      <3> QED
        BY <3>1, <3>2 DEF RanType, Linked
    <2>3. ASSUME NEW ev \in {"ULNASTransport", "Status5GMM"}, NasInRegistered(ev)
          PROVE  Linked(ran')
      BY <2>3 DEF NasInRegistered
    <2>4. CASE ConfigUpdateComplete \/ DeregistrationUndecodable
      BY <2>4 DEF ConfigUpdateComplete, DeregistrationUndecodable
    <2>5. ASSUME NEW up \in Writes, DeregistrationMO(up) \/ DeregistrationAccept(up)
          PROVE  Linked(ran')
      BY <1>c, <2>5 DEF DeregistrationMO, DeregistrationAccept
    <2>6. ASSUME NEW up \in Writes, DeregistrationByTmsi(up)
          PROVE  Linked(ran')
      <3> DEFINE r == [ran EXCEPT !.conn = TRUE, !.rel = FALSE]
      <3>1. r \in RanType
        BY <1>t DEF RanType
      <3>2. ran' = ClearRan(SendCommand(r, up))
        BY <2>6 DEF DeregistrationByTmsi
      <3> HIDE DEF r
      <3> QED
        BY <1>t, <3>1, <3>2, RanTypes, LinkedFields
    <2> QED
      BY <1>3, <2>1, <2>2, <2>3, <2>4, <2>5, <2>6 DEF OtherNas
  <1>4. CASE Ngap
    <2>1. ASSUME NEW b \in BOOLEAN, NEW up \in Writes, ReleaseRequest(b, up)
          PROVE  Linked(ran')
      <3> DEFINE r == [ran EXCEPT !.cm = "IDLE", !.ngap = "None"]
      <3>1. r \in RanType /\ r.cm = "IDLE"
        BY <1>t DEF RanType
      <3>2. ran' = SendCommand(r, up)
        BY <2>1 DEF ReleaseRequest
      <3> HIDE DEF r
      <3> QED
        BY <1>t, <3>1, <3>2, LinkedFields DEF Linked
    <2>2. CASE ReleaseComplete
      <3>1. Released(ran) \in RanType
        BY <1>t DEF Released, RanType
      <3>2. ran' \in {NoRan, ClearRan(Released(ran)), Released(ran)}
        BY <2>2 DEF ReleaseComplete, Remove
      <3> QED
        BY <1>n, <1>t, <3>1, <3>2, LinkedFields
    <2>3. CASE ICSAnswer
      BY <1>t, <2>3 DEF ICSAnswer, RanType, Linked
    <2>4. CASE GnbLost \/ Superseded
      BY <1>n, <2>4 DEF GnbLost, Superseded, Remove
    <2> QED
      BY <1>4, <2>1, <2>2, <2>3, <2>4 DEF Ngap
  <1>5. CASE Tick
    <2>1. ASSUME NEW e \in fsm.armed, Collect(e)
          PROVE  Linked(ran')
      BY <2>1 DEF Collect
    <2>2. ASSUME NEW e \in fsm.due, NEW up \in Writes, ExpiryCallback(e, up)
          PROVE  Linked(ran')
      <3>1. ran' \in {SendCommand(ran, up), ClearRan(SendCommand(ran, up)), ran}
        BY <2>2 DEF ExpiryCallback
      <3> QED
        BY <1>c, <3>1
    <2> QED
      BY <1>5, <2>1, <2>2 DEF Tick
  <1>6. CASE FallSilent \/ UNCHANGED vars
    BY <1>6 DEF FallSilent, vars
  <1> QED
    BY <1>1, <1>2, <1>3, <1>4, <1>5, <1>6 DEF Next

(* A UE that is CM-CONNECTED has its N2 connection, whatever is released,  *)
(* rejected or retargeted in between.                                      *)
THEOREM ConnectedLinked == Spec => []ConnectedHasLink
  <1>1. ConnectedHasLink <=> Linked(ran)
    BY DEF ConnectedHasLink, Linked
  <1>2. Init => ConnectedHasLink
    BY DEF Init, NoRan, ConnectedHasLink
  <1>3. IInv /\ ConnectedHasLink /\ [Next]_vars => ConnectedHasLink'
    BY <1>1, NextLinked DEF ConnectedHasLink, Linked
  <1> QED
    BY <1>2, <1>3, Invariant, PTL DEF Spec
=============================================================================
