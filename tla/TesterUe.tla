------------------------------- MODULE TesterUe -------------------------------
(***************************************************************************)
(* Registration and deregistration of the simulated UEs: UeStateMachine    *)
(* (statemachine/ue_fsm.py), the UE bookkeeping of the gNB that serves     *)
(* them (ue_map and the NGAP identifiers, statemachine/gnb_fsm.py), and    *)
(* the test that drives them (testcases/base.py).                          *)
(*                                                                         *)
(* Two threads work on one UE object without a common lock: the test       *)
(* thread calls attach_ue, register and deregister and waits for a state;  *)
(* the gNB's receive thread runs the NAS and NGAP handlers.  A registration *)
(* opens a new NG connection while the release of the previous one may     *)
(* still be on its way, and connections travel on different SCTP streams,  *)
(* so only messages of one connection stay in order.                       *)
(*                                                                         *)
(* A connection is named by its RAN-UE-NGAP-ID.  The AMF gives each one an *)
(* AMF-UE-NGAP-ID of its own; the model uses the same number for both.     *)
(* PDU sessions and tunnels are in GnbSession; the NAS COUNTs and the      *)
(* contents of the messages are left out; a key is the number of the       *)
(* authentication vector it derives from.                                  *)
(***************************************************************************)
EXTENDS Integers, Sequences, FiniteSets

CONSTANTS
    Ues,         \* the UE objects of the test
    MayRefuse,   \* does the AMF refuse registrations, or challenges that failed?
    MaxConn,     \* bound: NG connections
    MaxVectors,  \* bound: authentication vectors the AMF uses
    MaxResend,   \* bound: NAS retransmissions by the AMF (T3560, T3550)
    MaxUpsets    \* bound: releases the AMF starts by itself, and timed out waits

ASSUME UeAssumption ==
    /\ MayRefuse \in BOOLEAN
    /\ {MaxConn, MaxVectors, MaxResend, MaxUpsets} \subseteq Nat
    /\ MaxConn > 0 /\ MaxVectors > 0

Conns == 1..MaxConn
Keys  == 0..MaxVectors               \* 0: no key
NoUe  == "none"
ASSUME NoUeAssumption == NoUe \notin Ues

VARIABLES
    state,       \* ue.state
    ran,         \* ue.ran_ue_ngap_id, 0 for None
    amfId,       \* ue.amf_ue_ngap_id, 0 for None
    ctx,         \* ue.security_ctx: the keys KAMF and knasint derive from
    rejected,    \* ue.last_reject_cause is not None
    test,        \* where the test thread of each UE is
    ueMap,       \* gnb.ue_map
    ranCounter,  \* gnb._ran_ue_counter
    rx,          \* the receive thread and the message it handles
    dl, ul,      \* the messages under way on each connection
    amf,         \* the AMF's context of each connection
    vectors,     \* authentication vectors used so far
    resent,      \* NAS retransmissions so far
    upsets       \* AMF releases and timeouts so far

ue   == <<state, ran, amfId, ctx, rejected>>
amfV == <<amf, vectors, resent, upsets>>
vars == <<ue, test, ueMap, ranCounter, rx, dl, ul, amfV>>

States   == {"DEREGISTERED", "REG_INITIATED", "AUTH_PENDING", "SEC_MODE_PENDING",
             "REGISTERED", "DEREGISTERING"}
Downlink == [type : {"AuthRequest"}, key : Keys, ok : BOOLEAN]
              \cup [type : {"SecurityMode", "ContextSetup", "Accept", "AuthReject",
                            "Reject", "DeregAccept", "Release"}]
Uplink   == [type : {"Initial"}, ue : Ues]
              \cup [type : {"AuthResponse", "SecurityComplete", "RegComplete"},
                    to : Conns, key : Keys]
              \cup [type : {"Dereg"}, to : Conns, key : Keys, switchOff : BOOLEAN]
              \cup [type : {"AuthFailure", "ReleaseComplete", "SetupResponse"},
                    to : Conns]
RxIdle   == [pc |-> "idle", on |-> 0, msg |-> [type |-> "Release"], ue |-> NoUe]
NoCtx    == [phase |-> "none", key |-> 0, ok |-> TRUE]

TypeOK ==
    /\ state \in [Ues -> States]
    /\ ran \in [Ues -> 0..MaxConn]
    /\ amfId \in [Ues -> 0..MaxConn]
    /\ ctx \in [Ues -> [kamf : Keys, knas : Keys]]
    /\ rejected \in [Ues -> BOOLEAN]
    /\ test \in [Ues -> {"idle", "attached", "initiated", "waitReg", "up", "checked",
                         "leaving", "waitDereg", "failed"}]
    /\ ueMap \in [Conns -> Ues \cup {NoUe}]
    /\ ranCounter \in 0..MaxConn
    /\ rx \in [pc : {"idle", "run", "release", "clear"}, on : 0..MaxConn,
               msg : Downlink, ue : Ues \cup {NoUe}]
    /\ dl \in [Conns -> Seq(Downlink)]
    /\ ul \in [Conns -> Seq(Uplink)]
    /\ amf \in [Conns -> [phase : {"none", "auth", "smc", "accept", "registered",
                                   "releasing"}, key : Keys, ok : BOOLEAN]]
    /\ vectors \in Keys
    /\ resent \in 0..MaxResend
    /\ upsets \in 0..MaxUpsets

FreshUe ==
    /\ state' = [u \in Ues |-> "DEREGISTERED"]
    /\ ran' = [u \in Ues |-> 0]
    /\ amfId' = [u \in Ues |-> 0]
    /\ ctx' = [u \in Ues |-> [kamf |-> 0, knas |-> 0]]

Init ==
    /\ state = [u \in Ues |-> "DEREGISTERED"]
    /\ ran = [u \in Ues |-> 0]
    /\ amfId = [u \in Ues |-> 0]
    /\ ctx = [u \in Ues |-> [kamf |-> 0, knas |-> 0]]
    /\ rejected = [u \in Ues |-> FALSE]
    /\ test = [u \in Ues |-> "idle"]
    /\ ueMap = [c \in Conns |-> NoUe]
    /\ ranCounter = 0
    /\ rx = RxIdle
    /\ dl = [c \in Conns |-> <<>>]
    /\ ul = [c \in Conns |-> <<>>]
    /\ amf = [c \in Conns |-> NoCtx]
    /\ vectors = 0 /\ resent = 0 /\ upsets = 0

SetState(u, s) == state' = [state EXCEPT ![u] = s]
Down(c, msgs)  == dl' = [dl EXCEPT ![c] = @ \o msgs]
GoTo(u, pc)    == test' = [test EXCEPT ![u] = pc]

(***************************************************************************)
(* The test thread.                                                        *)
(***************************************************************************)
\* The effect of attach_ue.  The old mapping and the AMF identifier stay.
AttachUe(u) ==
    /\ ranCounter < MaxConn
    /\ ranCounter' = ranCounter + 1
    /\ ran' = [ran EXCEPT ![u] = ranCounter + 1]
    /\ ueMap' = [ueMap EXCEPT ![ranCounter + 1] = u]

\* The next attempt may follow at once: the receive thread need not have
\* returned from the handler whose state change ended the previous wait.
Attach(u) ==
    /\ test[u] = "idle"
    /\ AttachUe(u)
    /\ GoTo(u, "attached")
    /\ UNCHANGED <<state, amfId, ctx, rejected, rx, dl, ul, amfV>>

Register(u) ==
    /\ test[u] = "attached"
    /\ rejected' = [rejected EXCEPT ![u] = FALSE]
    /\ SetState(u, "REG_INITIATED")
    /\ GoTo(u, "initiated")
    /\ UNCHANGED <<ran, amfId, ctx, ueMap, ranCounter, rx, dl, ul, amfV>>

\* send_initial_ue_message
SendInitial(u) ==
    /\ test[u] = "initiated"
    /\ IF ran[u] = 0 THEN AttachUe(u) ELSE UNCHANGED <<ran, ueMap, ranCounter>>
    /\ ul' = [ul EXCEPT ![ran'[u]] = Append(@, [type |-> "Initial", ue |-> u])]
    /\ GoTo(u, "waitReg")
    /\ UNCHANGED <<state, amfId, ctx, rejected, rx, dl, amfV>>

\* register_ue: the wait for REGISTERED succeeds.
WaitRegistered(u) ==
    /\ test[u] = "waitReg" /\ state[u] = "REGISTERED"
    /\ GoTo(u, "up")
    /\ UNCHANGED <<ue, ueMap, ranCounter, rx, dl, ul, amfV>>

\* expect_reject: the poll sees the cause of the reject.
WaitRejected(u) ==
    /\ test[u] = "waitReg" /\ rejected[u]
    /\ GoTo(u, "idle")
    /\ UNCHANGED <<ue, ueMap, ranCounter, rx, dl, ul, amfV>>

\* deregister(): the check of the state and the assignment are two steps;
\* a UE found DEREGISTERED is left alone, and the wait then ends at once.
CheckDeregister(u) ==
    /\ test[u] = "up"
    /\ GoTo(u, IF state[u] = "DEREGISTERED" THEN "idle" ELSE "checked")
    /\ UNCHANGED <<ue, ueMap, ranCounter, rx, dl, ul, amfV>>

Deregister(u) ==
    /\ test[u] = "checked"
    /\ SetState(u, "DEREGISTERING")
    /\ GoTo(u, "leaving")
    /\ UNCHANGED <<ran, amfId, ctx, rejected, ueMap, ranCounter, rx, dl, ul, amfV>>

(***************************************************************************)
(* send_uplink_nas_transport.  Without an AMF identifier the message is    *)
(* dropped with a warning; without a RAN identifier the encoder raises.    *)
(***************************************************************************)
Raises(u) == amfId[u] # 0 /\ ran[u] = 0
SendUplink(base, u, msg) ==
    ul' = IF msg.to # 0 /\ ran[u] # 0
          THEN [base EXCEPT ![ran[u]] = Append(@, msg)] ELSE base

\* A test that got past register() has keys: the request is always secured.
SendDeregister(u, switchOff) ==
    /\ test[u] = "leaving"
    /\ SendUplink(ul, u, [type |-> "Dereg", to |-> amfId[u], key |-> ctx[u].knas,
                          switchOff |-> switchOff])
    /\ GoTo(u, IF Raises(u) THEN "failed" ELSE "waitDereg")
    /\ UNCHANGED <<ue, ueMap, ranCounter, rx, dl, amfV>>

WaitDeregistered(u) ==
    /\ test[u] = "waitDereg" /\ state[u] = "DEREGISTERED"
    /\ GoTo(u, "idle")
    /\ UNCHANGED <<ue, ueMap, ranCounter, rx, dl, ul, amfV>>

\* wait_for_state gives up.
WaitTimeout(u) ==
    /\ test[u] \in {"waitReg", "waitDereg"} /\ upsets < MaxUpsets
    /\ upsets' = upsets + 1
    /\ GoTo(u, "failed")
    /\ UNCHANGED <<ue, ueMap, ranCounter, rx, dl, ul, amf, vectors, resent>>

(***************************************************************************)
(* cleanup() after the test: the gNB disconnects, which ends its           *)
(* association and with it the AMF's contexts, and the UEs are reset by    *)
(* plain assignments.  The next test builds a new gNB; its connections get *)
(* numbers of their own in the model.                                      *)
(***************************************************************************)
Cleanup ==
    /\ \E u \in Ues : test[u] = "failed"
    /\ \A u \in Ues : test[u] \in {"failed", "idle", "up"}
    /\ rx.pc = "idle"
    /\ FreshUe
    /\ test' = [u \in Ues |-> "idle"]
    /\ ueMap' = [c \in Conns |-> NoUe]
    /\ dl' = [c \in Conns |-> <<>>]
    /\ ul' = [c \in Conns |-> <<>>]
    /\ amf' = [c \in Conns |-> NoCtx]
    /\ UNCHANGED <<rejected, ranCounter, rx, vectors, resent, upsets>>

(***************************************************************************)
(* The receive thread.  A NAS handler is one step: the test thread is then *)
(* waiting for the state the handler sets, or deregistering, which reads   *)
(* nothing the handlers of that phase write.  A connection is unmapped     *)
(* only by its release, the last message it carries, so every other        *)
(* message finds its UE (DownlinkFindsUe).                                 *)
(***************************************************************************)
RxTake(c) ==
    /\ rx.pc = "idle" /\ dl[c] # <<>>
    /\ rx' = [pc |-> "run", on |-> c, msg |-> Head(dl[c]), ue |-> NoUe]
    /\ dl' = [dl EXCEPT ![c] = Tail(@)]
    /\ UNCHANGED <<ue, test, ueMap, ranCounter, ul, amfV>>

\* _find_ue, which also takes over the AMF identifier of the message.
FindUe(u, type) ==
    /\ rx.pc = "run" /\ rx.msg.type = type /\ ueMap[rx.on] = u
    /\ amfId' = [amfId EXCEPT ![u] = rx.on]
    /\ rx' = RxIdle
    /\ UNCHANGED <<ran, test, ueMap, ranCounter, dl, amfV>>

\* Mutant: a challenge that does not verify is left unanswered.
IgnoreBadChallenge(u) ==
    /\ FindUe(u, "AuthRequest")
    /\ SetState(u, "AUTH_PENDING")
    /\ IF rx.msg.ok
       THEN /\ ctx' = [ctx EXCEPT ![u].kamf = rx.msg.key]
            /\ SendUplink(ul, u, [type |-> "AuthResponse", to |-> rx.on, key |-> rx.msg.key])
       ELSE UNCHANGED <<ctx, ul>>
    /\ UNCHANGED rejected

\* A response that does not fit the challenge is answered with the AUTS.
OnAuthRequest(u) ==
    /\ FindUe(u, "AuthRequest")
    /\ SetState(u, "AUTH_PENDING")
    /\ IF rx.msg.ok
       THEN /\ ctx' = [ctx EXCEPT ![u].kamf = rx.msg.key]
            /\ SendUplink(ul, u, [type |-> "AuthResponse", to |-> rx.on, key |-> rx.msg.key])
       ELSE /\ SendUplink(ul, u, [type |-> "AuthFailure", to |-> rx.on])
            /\ ctx' = ctx
    /\ UNCHANGED rejected

\* Mutant: keys of an earlier registration are kept.
KeepOldKeys(u) ==
    /\ FindUe(u, "SecurityMode")
    /\ SetState(u, "SEC_MODE_PENDING")
    /\ ctx' = [ctx EXCEPT ![u].knas = IF @ = 0 THEN ctx[u].kamf ELSE @]
    /\ SendUplink(ul, u, [type |-> "SecurityComplete", to |-> rx.on, key |-> ctx[u].kamf])
    /\ UNCHANGED rejected

OnSecurityMode(u) ==
    /\ FindUe(u, "SecurityMode")
    /\ SetState(u, "SEC_MODE_PENDING")
    /\ ctx' = [ctx EXCEPT ![u].knas = ctx[u].kamf]
    /\ SendUplink(ul, u, [type |-> "SecurityComplete", to |-> rx.on, key |-> ctx'[u].knas])
    /\ UNCHANGED rejected

\* _handle_registration_accept: the Complete first, then the state.
Accepted(base, u) ==
    /\ SendUplink(base, u, [type |-> "RegComplete", to |-> rx.on, key |-> ctx[u].knas])
    /\ IF ran[u] = 0 THEN state' = state ELSE SetState(u, "REGISTERED")
    /\ UNCHANGED <<ctx, rejected>>

OnAccept(u) == FindUe(u, "Accept") /\ Accepted(ul, u)

\* The response goes out first, on the connection of the request.
OnContextSetup(u) ==
    /\ FindUe(u, "ContextSetup")
    /\ Accepted([ul EXCEPT ![rx.on] = Append(@, [type |-> "SetupResponse", to |-> rx.on])], u)

OnReject(u) ==
    /\ FindUe(u, "Reject") \/ FindUe(u, "AuthReject")
    /\ rejected' = [rejected EXCEPT ![u] = TRUE]
    /\ SetState(u, "DEREGISTERED")
    /\ UNCHANGED <<ctx, ul>>

\* Mutant: the gNB's name for the resting state.
DeregAcceptIdle(u) ==
    /\ FindUe(u, "DeregAccept")
    /\ SetState(u, "IDLE")
    /\ UNCHANGED <<ctx, rejected, ul>>

OnDeregAccept(u) ==
    /\ FindUe(u, "DeregAccept")
    /\ SetState(u, "DEREGISTERED")
    /\ UNCHANGED <<ctx, rejected, ul>>

(***************************************************************************)
(* _handle_ue_context_release, in three steps: the lookup, the answer and  *)
(* the check whether the connection is superseded; the state; the          *)
(* identifiers.                                                            *)
(***************************************************************************)
\* Mutants: a superseded connection is not told from the current one; the
\* mapping dropped for it is the current one's.
ReleaseAnyConnection ==
    /\ rx.pc = "run" /\ rx.msg.type = "Release"
    /\ ul' = [ul EXCEPT ![rx.on] = Append(@, [type |-> "ReleaseComplete", to |-> rx.on])]
    /\ rx' = [pc |-> "release", on |-> rx.on, msg |-> rx.msg, ue |-> ueMap[rx.on]]
    /\ UNCHANGED <<ue, test, ueMap, ranCounter, dl, amfV>>

ReleaseDropsCurrent ==
    /\ rx.pc = "run" /\ rx.msg.type = "Release"
    /\ ul' = [ul EXCEPT ![rx.on] = Append(@, [type |-> "ReleaseComplete", to |-> rx.on])]
    /\ LET u == ueMap[rx.on] IN
          IF ran[u] \notin {0, rx.on}
          THEN /\ ueMap' = [ueMap EXCEPT ![ran[u]] = NoUe]
               /\ rx' = RxIdle
          ELSE /\ rx' = [pc |-> "release", on |-> rx.on, msg |-> rx.msg, ue |-> u]
               /\ ueMap' = ueMap
    /\ UNCHANGED <<ue, test, ranCounter, dl, amfV>>

OnRelease ==
    /\ rx.pc = "run" /\ rx.msg.type = "Release"
    /\ ul' = [ul EXCEPT ![rx.on] = Append(@, [type |-> "ReleaseComplete", to |-> rx.on])]
    /\ LET u == ueMap[rx.on] IN
          IF ran[u] \notin {0, rx.on}
          THEN /\ ueMap' = [ueMap EXCEPT ![rx.on] = NoUe]
               /\ rx' = RxIdle
          ELSE /\ rx' = [pc |-> "release", on |-> rx.on, msg |-> rx.msg, ue |-> u]
               /\ ueMap' = ueMap
    /\ UNCHANGED <<ue, test, ranCounter, dl, amfV>>

ReleaseState ==
    /\ rx.pc = "release"
    /\ SetState(rx.ue, "DEREGISTERED")
    /\ rx' = [rx EXCEPT !.pc = "clear"]
    /\ UNCHANGED <<ran, amfId, ctx, rejected, test, ueMap, ranCounter, dl, ul, amfV>>

ReleaseClear ==
    /\ rx.pc = "clear"
    /\ ueMap' = [ueMap EXCEPT ![rx.on] = NoUe]
    /\ ran' = [ran EXCEPT ![rx.ue] = 0]
    /\ amfId' = [amfId EXCEPT ![rx.ue] = 0]
    /\ rx' = RxIdle
    /\ UNCHANGED <<state, ctx, rejected, test, ranCounter, dl, ul, amfV>>

(***************************************************************************)
(* The AMF, as far as the UE can see it.  It finds its context by the AMF  *)
(* identifier of the uplink message.                                       *)
(***************************************************************************)
AmfReads(c, type) ==
    /\ ul[c] # <<>> /\ Head(ul[c]).type = type
    /\ ul' = [ul EXCEPT ![c] = Tail(@)]
    /\ UNCHANGED <<ue, test, ueMap, ranCounter, rx, resent, upsets>>

Move(c, phase) == amf' = [amf EXCEPT ![c].phase = phase]

\* A new vector; the UE finds it out of step when ok is FALSE.
Challenge(c) ==
    /\ vectors < MaxVectors
    /\ vectors' = vectors + 1
    /\ \E ok \in BOOLEAN :
          /\ ok \/ vectors' < MaxVectors
          /\ amf' = [amf EXCEPT ![c] = [phase |-> "auth", key |-> vectors', ok |-> ok]]
          /\ Down(c, <<[type |-> "AuthRequest", key |-> vectors', ok |-> ok]>>)

Refuse(c, reason) ==
    /\ Move(c, "releasing")
    /\ Down(c, <<[type |-> reason], [type |-> "Release"]>>)
    /\ UNCHANGED vectors

AmfInitial(c) ==
    /\ AmfReads(c, "Initial")
    /\ Challenge(c) \/ (MayRefuse /\ Refuse(c, "Reject"))

AmfAuthFailure(c) ==
    /\ AmfReads(c, "AuthFailure")
    /\ LET t == Head(ul[c]).to IN
          IF amf[t].phase # "auth" THEN UNCHANGED <<amf, dl, vectors>>
          ELSE Challenge(t) \/ (MayRefuse /\ Refuse(t, "AuthReject"))

AmfAuthResponse(c) ==
    /\ AmfReads(c, "AuthResponse")
    /\ LET m == Head(ul[c]) IN
          IF amf[m.to].phase # "auth" THEN UNCHANGED <<amf, dl, vectors>>
          ELSE IF m.key # amf[m.to].key THEN Refuse(m.to, "AuthReject")
          ELSE /\ Move(m.to, "smc")
               /\ Down(m.to, <<[type |-> "SecurityMode"]>>)
               /\ UNCHANGED vectors

\* Integrity protected messages: the key must be that of the context.
Verified(m, phases) == amf[m.to].phase \in phases /\ amf[m.to].key = m.key

AmfSecurityComplete(c) ==
    /\ AmfReads(c, "SecurityComplete")
    /\ IF Verified(Head(ul[c]), {"smc"})
       THEN Move(Head(ul[c]).to, "accept")
            /\ Down(Head(ul[c]).to, <<[type |-> "ContextSetup"]>>)
       ELSE UNCHANGED <<amf, dl>>
    /\ UNCHANGED vectors

AmfRegComplete(c) ==
    /\ AmfReads(c, "RegComplete")
    /\ IF Verified(Head(ul[c]), {"accept"})
       THEN Move(Head(ul[c]).to, "registered") ELSE UNCHANGED amf
    /\ UNCHANGED <<dl, vectors>>

AmfDereg(c) ==
    /\ AmfReads(c, "Dereg")
    /\ LET m == Head(ul[c]) IN
          IF Verified(m, {"accept", "registered"})
          THEN /\ Move(m.to, "releasing")
               /\ Down(m.to, IF m.switchOff THEN <<[type |-> "Release"]>>
                             ELSE <<[type |-> "DeregAccept"], [type |-> "Release"]>>)
          ELSE UNCHANGED <<amf, dl>>
    /\ UNCHANGED vectors

AmfReleased(c) ==
    /\ AmfReads(c, "ReleaseComplete") \/ AmfReads(c, "SetupResponse")
    /\ UNCHANGED <<amf, dl, vectors>>

AmfUplink(c) ==
    \/ AmfInitial(c) \/ AmfAuthFailure(c) \/ AmfAuthResponse(c)
    \/ AmfSecurityComplete(c) \/ AmfRegComplete(c) \/ AmfDereg(c) \/ AmfReleased(c)

\* T3560 or T3550 expires.
AmfResend(c) ==
    /\ resent < MaxResend /\ resent' = resent + 1
    /\ \/ /\ amf[c].phase = "auth"
          /\ Down(c, <<[type |-> "AuthRequest", key |-> amf[c].key, ok |-> amf[c].ok]>>)
       \/ amf[c].phase = "smc" /\ Down(c, <<[type |-> "SecurityMode"]>>)
       \/ amf[c].phase = "accept" /\ Down(c, <<[type |-> "Accept"]>>)
    /\ UNCHANGED <<ue, test, ueMap, ranCounter, rx, ul, amf, vectors, upsets>>

\* The AMF releases a connection on its own account.
AmfRelease(c) ==
    /\ amf[c].phase \in {"auth", "smc", "accept", "registered"}
    /\ upsets < MaxUpsets /\ upsets' = upsets + 1
    /\ Move(c, "releasing")
    /\ Down(c, <<[type |-> "Release"]>>)
    /\ UNCHANGED <<ue, test, ueMap, ranCounter, rx, ul, vectors, resent>>

(***************************************************************************)
(* The specification.                                                      *)
(***************************************************************************)
RxRun ==
    \/ OnRelease \/ ReleaseState \/ ReleaseClear
    \/ \E u \in Ues : \/ OnAuthRequest(u) \/ OnSecurityMode(u) \/ OnAccept(u)
                      \/ OnContextSetup(u) \/ OnReject(u) \/ OnDeregAccept(u)

\* What the test thread does without waiting for anything.
TestRuns(u) ==
    \/ Register(u) \/ SendInitial(u) \/ WaitRegistered(u)
    \/ Deregister(u) \/ WaitDeregistered(u)
    \/ \E switchOff \in BOOLEAN : SendDeregister(u, switchOff)

Next ==
    \/ \E u \in Ues : \/ Attach(u) \/ CheckDeregister(u) \/ WaitRejected(u)
                      \/ WaitTimeout(u) \/ TestRuns(u)
    \/ Cleanup
    \/ RxRun
    \/ \E c \in Conns : RxTake(c) \/ AmfUplink(c) \/ AmfResend(c) \/ AmfRelease(c)

\* The threads of the tester run, and the AMF answers what it receives.  No
\* test has to register or deregister, and the AMF need not give up.
Fairness ==
    /\ \A u \in Ues : WF_vars(TestRuns(u))
    /\ WF_vars(RxRun)
    /\ WF_vars(\E c \in Conns : RxTake(c))
    /\ \A c \in Conns : WF_vars(AmfUplink(c))

Spec == Init /\ [][Next]_vars /\ Fairness

(***************************************************************************)
(* Properties.                                                             *)
(***************************************************************************)
Trying == {"REG_INITIATED", "AUTH_PENDING", "SEC_MODE_PENDING"}

\* Every downlink message but those of a connection already released finds
\* the UE it is for: the mapping of a connection outlives the re-attach of
\* its UE, and goes only with the release of that very connection.
DownlinkFindsUe ==
    rx.pc = "run" => ueMap[rx.on] # NoUe

\* A UE that reports REGISTERED and the AMF context of its connection hold
\* keys of the same authentication, whatever was retransmitted, repeated
\* after a synchronisation failure or left over from an earlier connection.
KeysAgree ==
    \A u \in Ues :
        state[u] = "REGISTERED" /\ ran[u] # 0 /\ amf[ran[u]].phase \in {"accept", "registered"}
            => ctx[u].knas = amf[ran[u]].key

\* The registration of a UE is changed only by its test, by a message of its
\* current connection, or by a release that was for the current connection when
\* the handler looked (_handle_ue_context_release).  The release of a connection
\* already superseded then, which may arrive at any point of a later attempt,
\* leaves that attempt alone; an attempt that starts after the look loses its
\* identifiers, and is never completed without them.
PhaseOf(s) == CASE s = "DEREGISTERED"  -> "idle"
                [] s \in Trying        -> "trying"
                [] s = "REGISTERED"    -> "registered"
                [] s = "DEREGISTERING" -> "leaving"

Registration == INSTANCE UeRegistration WITH
                    phase <- [u \in Ues |-> PhaseOf(state[u])],
                    conn  <- ran,
                    heard <- rx.on, judged <- rx.ue

ImplementsRegistration == Registration!RegSpec

\* Every registration attempt ends, with the UE REGISTERED or DEREGISTERED,
\* unless a release has taken its identifiers away.
AttemptEnds ==
    \A u \in Ues : state[u] \in Trying ~>
                      state[u] \in {"REGISTERED", "DEREGISTERED"} \/ ran[u] = 0

\* A UE whose registration request is out keeps the identifiers of the new
\* connection: of a superseded one "only the old mapping may be dropped"
\* (_handle_ue_context_release).
AttemptKeepsIds ==
    \A u \in Ues : test[u] = "waitReg" /\ state[u] \in Trying => ran[u] # 0
===============================================================================
