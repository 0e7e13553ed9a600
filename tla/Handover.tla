------------------------------- MODULE Handover -------------------------------
(***************************************************************************)
(* N2 handover end to end: the test that drives it (_do_handover and the   *)
(* cancel test of testcases/core/tc_handover.py), the source and target    *)
(* gNBs of the tester (statemachine/gnb_fsm.py), and the AMF that relays   *)
(* between them (core/nf/amf/ngap/handover.go).                            *)
(*                                                                         *)
(*   source -> AMF  Required      AMF -> target  Request                   *)
(*   target -> AMF  Ack, Failure  AMF -> source  Command, PrepFailure      *)
(*   target -> AMF  Notify        source -> AMF -> source  Cancel, CancelAck *)
(*                                                                         *)
(* The test thread and the receive thread of each gNB share the gNB's      *)
(* single _ho_context, _ho_command_event and _pending_tunnels.  The AMF    *)
(* runs one worker per gNB and SCTP stream; they share the map hoSessions, *)
(* keyed by the source gNB and the stream.                                 *)
(*                                                                         *)
(* Each UE has one PDU session.  A UE stands for its AMF-UE-NGAP-ID, which *)
(* a handover does not change.  Left out because they change no state:     *)
(* the status transfer, the end markers, and the UEContextReleaseCommand   *)
(* that Notify and Cancel send with an empty list of IEs, in which the gNB *)
(* finds no identifier and so no UE.  Both gNBs stay connected and TUN     *)
(* devices can be made; GnbSession has those failures.                     *)
(***************************************************************************)
EXTENDS Integers, Sequences, FiniteSets

CONSTANTS
    Gnbs,        \* the gNBs of the test
    Source,      \* the gNB all UEs register on
    Ues,         \* the UEs, each with an active PDU session
    Usable,      \* UE-associated SCTP streams (out_streams - 1)
    MaxHops      \* bound: handovers of one test

ASSUME HandoverAssumption ==
    /\ Source \in Gnbs
    /\ IsFiniteSet(Ues) /\ Ues # {}
    /\ Usable \in Nat \ {0} /\ MaxHops \in Nat

NoUe      == "none"
Ids       == 1..(Cardinality(Ues) + MaxHops)     \* RAN-UE-NGAP-IDs, TEIDs less 0x10000
Streams   == 1..Usable
Channels  == Gnbs \X Streams
NoContext == [ue |-> NoUe, ran |-> 0]

ASSUME NoUeAssumption == NoUe \notin Ues

VARIABLES
    serving,     \* ue.gnb
    ran,         \* ue.ran_ue_ngap_id
    teid,        \* ue.pdu_sessions[1]['local_teid']
    ueMap,       \* gnb.ue_map
    ranCounter,  \* gnb._ran_ue_counter
    teidCounter, \* gnb._gtp_teid_counter
    hoContext,   \* gnb._ho_context
    pending,     \* gnb._pending_tunnels[1]: its TEID, 0 if absent
    command,     \* gnb._ho_command_event is set
    prepFailure, \* gnb._ho_prep_failure is not None
    cancelAck,   \* gnb._ho_cancel_event is set
    refuses,     \* gnb.force_ho_failure
    tunnels,     \* GtpuManager._tunnels, shared by the gNBs: the UE of each TEID
    test,        \* the test thread: [pc, ue, src, tgt]
    hops,        \* handovers so far
    up, down,    \* the messages under way, on each stream of each gNB
    worker,      \* the session an AMF worker has still to remember
    sessions     \* hoSessions

ueV   == <<serving, ran, teid, ueMap, tunnels>>
srcV  == <<command, prepFailure, cancelAck>>
tgtV  == <<ranCounter, teidCounter, hoContext, pending>>
testV == <<test, hops, refuses>>
amfV  == <<worker, sessions>>
vars  == <<ueV, srcV, tgtV, testV, amfV, up, down>>

NoSession == [source |-> Source, target |-> Source, tstream |-> 0]
Sessions  == [source : Gnbs, target : Gnbs, tstream : Streams] \cup {NoSession}
Uplink    == [type : {"Required"}, ue : Ues, target : Gnbs]
               \cup [type : {"Ack", "Failure", "Notify", "Cancel"}, ue : Ues]
Downlink  == [type : {"Request"}, ue : Ues]
               \cup [type : {"Command", "PrepFailure", "CancelAck"}]

TypeOK ==
    /\ serving \in [Ues -> Gnbs]
    /\ ran \in [Ues -> Ids]
    /\ teid \in [Ues -> Ids]
    /\ ueMap \in [Gnbs -> [Ids -> Ues \cup {NoUe}]]
    /\ ranCounter \in [Gnbs -> Ids \cup {0}]
    /\ teidCounter \in [Gnbs -> Ids \cup {0}]
    /\ hoContext \in [Gnbs -> [ue : Ues, ran : Ids] \cup {NoContext}]
    /\ pending \in [Gnbs -> Ids \cup {0}]
    /\ {command, prepFailure, cancelAck, refuses} \subseteq [Gnbs -> BOOLEAN]
    /\ tunnels \in [Ids -> Ues \cup {NoUe}]
    /\ test \in [pc : {"idle", "wait", "execute", "notify", "failed", "cancel", "over"},
                 ue : Ues, src : Gnbs, tgt : Gnbs]
    /\ hops \in 0..MaxHops
    /\ up \in [Channels -> Seq(Uplink)]
    /\ down \in [Channels -> Seq(Downlink)]
    /\ worker \in [Channels -> Sessions]
    /\ sessions \in [Channels -> Sessions]

\* All UEs are registered on the source gNB, where they got their identifiers
\* and, each in a thread of its own, their TEIDs: in any order.
Init ==
    /\ serving = [u \in Ues |-> Source]
    /\ \E f \in [Ues -> 1..Cardinality(Ues)] :
          /\ \A u, v \in Ues : f[u] = f[v] => u = v
          /\ ran = f
          /\ ueMap = [g \in Gnbs |-> [i \in Ids |->
                         IF g = Source /\ \E u \in Ues : f[u] = i
                         THEN CHOOSE u \in Ues : f[u] = i ELSE NoUe]]
    /\ \E f \in [Ues -> 1..Cardinality(Ues)] :
          /\ \A u, v \in Ues : f[u] = f[v] => u = v
          /\ teid = f
          /\ tunnels = [i \in Ids |-> IF \E u \in Ues : f[u] = i
                                      THEN CHOOSE u \in Ues : f[u] = i ELSE NoUe]
    /\ ranCounter = [g \in Gnbs |-> IF g = Source THEN Cardinality(Ues) ELSE 0]
    /\ teidCounter = ranCounter
    /\ hoContext = [g \in Gnbs |-> NoContext]
    /\ pending = [g \in Gnbs |-> 0]
    /\ command = [g \in Gnbs |-> FALSE]
    /\ prepFailure = [g \in Gnbs |-> FALSE]
    /\ cancelAck = [g \in Gnbs |-> FALSE]
    /\ refuses = [g \in Gnbs |-> FALSE]
    /\ test = [pc |-> "idle", ue |-> CHOOSE u \in Ues : TRUE, src |-> Source, tgt |-> Source]
    /\ hops = 0
    /\ up = [c \in Channels |-> <<>>]
    /\ down = [c \in Channels |-> <<>>]
    /\ worker = [c \in Channels |-> NoSession]
    /\ sessions = [c \in Channels |-> NoSession]

StreamForUe(id)  == (id % Usable) + 1
SendUp(g, id, m) == up' = [up EXCEPT ![<<g, StreamForUe(id)>>] = Append(@, m)]
GoTo(pc)         == test' = [test EXCEPT !.pc = pc]

\* Nothing is under way: what the timeouts of ten, fifteen and five seconds allow
\* a test to assume.
Quiet == /\ \A c \in Channels : up[c] = <<>> /\ down[c] = <<>>
         /\ \A c \in Channels : worker[c] = NoSession

(***************************************************************************)
(* The test thread.                                                        *)
(***************************************************************************)
\* initiate_handover; the failure test tells the target to refuse before.
InitiateHandover(u, t, refuse) ==
    /\ test.pc = "idle" /\ hops < MaxHops /\ t # serving[u]
    /\ hops' = hops + 1
    /\ test' = [pc |-> "wait", ue |-> u, src |-> serving[u], tgt |-> t]
    /\ refuses' = [refuses EXCEPT ![t] = refuse]
    /\ command' = [command EXCEPT ![serving[u]] = FALSE]
    /\ prepFailure' = [prepFailure EXCEPT ![serving[u]] = FALSE]
    /\ SendUp(serving[u], ran[u], [type |-> "Required", ue |-> u, target |-> t])
    /\ UNCHANGED <<ueV, cancelAck, tgtV, amfV, down>>

\* Mutants: a wait without a timeout; one that gives up while messages are
\* under way; one that takes the timeout for a failure.
WaitForEver ==
    /\ test.pc = "wait" /\ command[test.src]
    /\ GoTo(IF prepFailure[test.src] THEN "failed" ELSE "execute")
    /\ UNCHANGED <<ueV, srcV, tgtV, hops, refuses, amfV, up, down>>

WaitTooShort ==
    /\ test.pc = "wait"
    /\ GoTo(IF command[test.src]
            THEN IF prepFailure[test.src] THEN "failed" ELSE "execute"
            ELSE IF hoContext[test.tgt] = NoContext THEN "failed" ELSE "execute")
    /\ UNCHANGED <<ueV, srcV, tgtV, hops, refuses, amfV, up, down>>

TimeoutFails ==
    /\ test.pc = "wait"
    /\ \/ /\ command[test.src]
          /\ GoTo(IF prepFailure[test.src] THEN "failed" ELSE "execute")
       \/ Quiet /\ ~command[test.src] /\ GoTo("failed")
    /\ UNCHANGED <<ueV, srcV, tgtV, hops, refuses, amfV, up, down>>

\* The event is set, by a command or a failure; or the wait times out, and the
\* handover goes on if the target has a context.
AwaitCommand ==
    /\ test.pc = "wait"
    /\ \/ /\ command[test.src]
          /\ GoTo(IF prepFailure[test.src] THEN "failed" ELSE "execute")
       \/ /\ Quiet /\ ~command[test.src]
          /\ GoTo(IF hoContext[test.tgt] = NoContext THEN "failed" ELSE "execute")
    /\ UNCHANGED <<ueV, srcV, tgtV, hops, refuses, amfV, up, down>>

\* create_tunnel: what the table has for the UE goes first.
CreateTunnel(table, id, u) ==
    [i \in Ids |-> IF i = id THEN u ELSE IF table[i] = u THEN NoUe ELSE table[i]]

\* Mutant: the UE is not detached from the source.
AdoptWithoutDetach ==
    LET u == test.ue
        new == hoContext[test.tgt].ran
    IN  /\ test.pc = "execute" /\ hoContext[test.tgt] # NoContext
        /\ GoTo("notify")
        /\ serving' = [serving EXCEPT ![u] = test.tgt]
        /\ ran' = [ran EXCEPT ![u] = new]
        /\ ueMap' = [ueMap EXCEPT ![test.tgt][new] = u]
        /\ teid' = [teid EXCEPT ![u] = pending[test.tgt]]
        /\ tunnels' = CreateTunnel(tunnels, pending[test.tgt], u)
        /\ pending' = [pending EXCEPT ![test.tgt] = 0]
        /\ UNCHANGED <<srcV, ranCounter, teidCounter, hoContext, hops, refuses, amfV, up, down>>

\* complete_handover up to its message: the UE moves to the target, its tunnel at
\* the source is destroyed, whatever UE has that TEID now, and the one the target
\* prepared is made.
CompleteHandover ==
    LET u   == test.ue
        g   == test.tgt
        new == hoContext[g].ran
        destroyed == [tunnels EXCEPT ![teid[u]] = NoUe]
    IN  /\ test.pc = "execute"
        /\ IF hoContext[g] = NoContext
           THEN GoTo("failed") /\ UNCHANGED <<ueV, pending>>
           ELSE /\ GoTo("notify")
                /\ serving' = [serving EXCEPT ![u] = g]
                /\ ran' = [ran EXCEPT ![u] = new]
                /\ ueMap' = [ueMap EXCEPT ![test.src][ran[u]] = NoUe, ![g][new] = u]
                /\ pending' = [pending EXCEPT ![g] = 0]
                /\ IF pending[g] = 0
                   THEN tunnels' = destroyed /\ teid' = teid
                   ELSE /\ tunnels' = CreateTunnel(destroyed, pending[g], u)
                        /\ teid' = [teid EXCEPT ![u] = pending[g]]
        /\ UNCHANGED <<srcV, ranCounter, teidCounter, hoContext, hops, refuses, amfV, up, down>>

\* HandoverNotify, then the context is cleared.
SendNotify ==
    /\ test.pc = "notify"
    /\ GoTo("idle")
    /\ SendUp(test.tgt, ran[test.ue], [type |-> "Notify", ue |-> test.ue])
    /\ hoContext' = [hoContext EXCEPT ![test.tgt] = NoContext]
    /\ refuses' = [refuses EXCEPT ![test.tgt] = FALSE]
    /\ UNCHANGED <<ueV, srcV, ranCounter, teidCounter, pending, hops, amfV, down>>

ReturnFalse ==
    /\ test.pc = "failed"
    /\ GoTo("idle")
    /\ refuses' = [refuses EXCEPT ![test.tgt] = FALSE]
    /\ UNCHANGED <<ueV, srcV, tgtV, hops, amfV, up, down>>

\* The cancel test does not wait for the command.
CancelHandover ==
    /\ test.pc = "wait" /\ ~refuses[test.tgt]
    /\ GoTo("cancel")
    /\ cancelAck' = [cancelAck EXCEPT ![test.src] = FALSE]
    /\ SendUp(test.src, ran[test.ue], [type |-> "Cancel", ue |-> test.ue])
    /\ UNCHANGED <<ueV, command, prepFailure, tgtV, hops, refuses, amfV, down>>

AwaitCancelAck ==
    /\ test.pc = "cancel"
    /\ cancelAck[test.src] \/ Quiet
    /\ GoTo("over")
    /\ UNCHANGED <<ueV, srcV, tgtV, hops, refuses, amfV, up, down>>

(***************************************************************************)
(* The receive threads of the gNBs.                                        *)
(***************************************************************************)
Receives(g, s, type) ==
    /\ down[<<g, s>>] # <<>> /\ Head(down[<<g, s>>]).type = type
    /\ down' = [down EXCEPT ![<<g, s>>] = Tail(@)]
    /\ UNCHANGED <<ueV, testV, amfV>>

\* Mutant: the identifier is read before the counter is incremented.
RequestReadsFirst(g, s) ==
    LET u == Head(down[<<g, s>>]).ue
    IN  /\ Receives(g, s, "Request")
        /\ ranCounter' = [ranCounter EXCEPT ![g] = @ + 1]
        /\ teidCounter' = [teidCounter EXCEPT ![g] = @ + 1]
        /\ pending' = [pending EXCEPT ![g] = teidCounter[g] + 1]
        /\ IF refuses[g]
           THEN /\ hoContext' = [hoContext EXCEPT ![g] = NoContext]
                /\ SendUp(g, ranCounter[g] + 1, [type |-> "Failure", ue |-> u])
           ELSE /\ hoContext' = [hoContext EXCEPT ![g] = [ue |-> u, ran |-> ranCounter[g]]]
                /\ SendUp(g, ranCounter[g] + 1, [type |-> "Ack", ue |-> u])
        /\ UNCHANGED srcV

\* _handle_handover_request: identifier, TEID and pending tunnel are allocated
\* whether or not the request is refused.
HandleRequest(g, s) ==
    LET u  == Head(down[<<g, s>>]).ue
        id == ranCounter[g] + 1
    IN  /\ Receives(g, s, "Request")
        /\ ranCounter' = [ranCounter EXCEPT ![g] = id]
        /\ teidCounter' = [teidCounter EXCEPT ![g] = @ + 1]
        /\ pending' = [pending EXCEPT ![g] = teidCounter[g] + 1]
        /\ IF refuses[g]
           THEN /\ hoContext' = [hoContext EXCEPT ![g] = NoContext]
                /\ SendUp(g, id, [type |-> "Failure", ue |-> u])
           ELSE /\ hoContext' = [hoContext EXCEPT ![g] = [ue |-> u, ran |-> id]]
                /\ SendUp(g, id, [type |-> "Ack", ue |-> u])
        /\ UNCHANGED srcV

HandleCommand(g, s) ==
    /\ Receives(g, s, "Command")
    /\ command' = [command EXCEPT ![g] = TRUE]
    /\ UNCHANGED <<prepFailure, cancelAck, tgtV, up>>

HandlePrepFailure(g, s) ==
    /\ Receives(g, s, "PrepFailure")
    /\ prepFailure' = [prepFailure EXCEPT ![g] = TRUE]
    /\ command' = [command EXCEPT ![g] = TRUE]
    /\ UNCHANGED <<cancelAck, tgtV, up>>

HandleCancelAck(g, s) ==
    /\ Receives(g, s, "CancelAck")
    /\ cancelAck' = [cancelAck EXCEPT ![g] = TRUE]
    /\ UNCHANGED <<command, prepFailure, tgtV, up>>

(***************************************************************************)
(* The AMF's worker of stream s of gNB g.                                  *)
(***************************************************************************)
Dispatches(g, s, type) ==
    /\ worker[<<g, s>>] = NoSession
    /\ up[<<g, s>>] # <<>> /\ Head(up[<<g, s>>]).type = type
    /\ up' = [up EXCEPT ![<<g, s>>] = Tail(@)]
    /\ UNCHANGED <<ueV, srcV, tgtV, testV>>

SendDown(c, m) == down' = [down EXCEPT ![c] = Append(@, m)]
Forget(k)      == sessions' = [sessions EXCEPT ![k] = NoSession]

\* lookupSessionByTarget: a session of the target and the stream, else any of the
\* target; the map is iterated in no particular order.
Matching(g, s) ==
    LET ofTarget == {k \in Channels : sessions[k] # NoSession /\ sessions[k].target = g}
        exact    == {k \in ofTarget : sessions[k].tstream = s}
    IN  IF exact # {} THEN exact ELSE ofTarget

\* handleHandoverPreparation sends the request first and remembers the session
\* afterwards: the target may answer in between.
Prepare(g, s) ==
    LET m == Head(up[<<g, s>>])
    IN  /\ Dispatches(g, s, "Required")
        /\ SendDown(<<m.target, s>>, [type |-> "Request", ue |-> m.ue])
        /\ worker' = [worker EXCEPT ![<<g, s>>] =
                         [source |-> g, target |-> m.target, tstream |-> s]]
        /\ UNCHANGED sessions

RememberSession(g, s) ==
    /\ worker[<<g, s>>] # NoSession
    /\ sessions' = [sessions EXCEPT ![<<g, s>>] = worker[<<g, s>>]]
    /\ worker' = [worker EXCEPT ![<<g, s>>] = NoSession]
    /\ UNCHANGED <<ueV, srcV, tgtV, testV, up, down>>

AllocationAck(g, s) ==
    /\ Dispatches(g, s, "Ack")
    /\ IF Matching(g, s) = {} THEN UNCHANGED <<down, sessions>>
       ELSE \E k \in Matching(g, s) :
               /\ SendDown(k, [type |-> "Command"])
               /\ sessions' = [sessions EXCEPT ![k].tstream = s]
    /\ UNCHANGED worker

AllocationFailure(g, s) ==
    /\ Dispatches(g, s, "Failure")
    /\ IF Matching(g, s) = {} THEN UNCHANGED <<down, sessions>>
       ELSE \E k \in Matching(g, s) : SendDown(k, [type |-> "PrepFailure"]) /\ Forget(k)
    /\ UNCHANGED worker

Notification(g, s) ==
    /\ Dispatches(g, s, "Notify")
    /\ IF Matching(g, s) = {} THEN UNCHANGED sessions
       ELSE \E k \in Matching(g, s) : Forget(k)
    /\ UNCHANGED <<down, worker>>

Cancel(g, s) ==
    /\ Dispatches(g, s, "Cancel")
    /\ IF sessions[<<g, s>>] = NoSession THEN UNCHANGED <<down, sessions>>
       ELSE SendDown(<<g, s>>, [type |-> "CancelAck"]) /\ Forget(<<g, s>>)
    /\ UNCHANGED worker

TestStep == \/ AwaitCommand \/ CompleteHandover \/ SendNotify \/ ReturnFalse
            \/ AwaitCancelAck
RxStep(g) == \E s \in Streams : \/ HandleRequest(g, s) \/ HandleCommand(g, s)
                                \/ HandlePrepFailure(g, s) \/ HandleCancelAck(g, s)
AmfStep(g, s) == \/ Prepare(g, s) \/ RememberSession(g, s) \/ AllocationAck(g, s)
                 \/ AllocationFailure(g, s) \/ Notification(g, s) \/ Cancel(g, s)

Next ==
    \/ \E u \in Ues, t \in Gnbs, refuse \in BOOLEAN : InitiateHandover(u, t, refuse)
    \/ CancelHandover
    \/ TestStep
    \/ \E g \in Gnbs : RxStep(g)
    \/ \E g \in Gnbs, s \in Streams : AmfStep(g, s)

\* Threads and goroutines run; no test has to start or cancel a handover.
Fairness ==
    /\ WF_vars(TestStep)
    /\ \A g \in Gnbs : WF_vars(RxStep(g))
    /\ \A g \in Gnbs, s \in Streams : WF_vars(AmfStep(g, s))

Spec == Init /\ [][Next]_vars /\ Fairness

(***************************************************************************)
(* Properties.                                                             *)
(***************************************************************************)
\* A UE is in the map of the gNB that serves it, under its identifier there, and
\* in no other place, through every chain of handovers, refusals and timeouts.
ServedOnce ==
    \A u \in Ues, g \in Gnbs, i \in Ids :
        ueMap[g][i] = u <=> (serving[u] = g /\ ran[u] = i)

\* A handover that the target accepts completes: although the AMF may drop the
\* acknowledgement because it has not remembered the session yet, or send the
\* command to another source, _do_handover fails only when the target refused.
AcceptedCompletes ==
    test.pc = "failed" => refuses[test.tgt]

\* A UE moves only with the context that the target prepared for that UE, never
\* with one left by the handover of another UE.
AdoptsOwnContext ==
    [][\A u \in Ues : serving'[u] # serving[u] => hoContext[serving'[u]].ue = u]_vars

\* Every handover a test starts ends.
HandoverEnds ==
    test.pc \in {"wait", "cancel"} ~> test.pc \in {"idle", "over"}

\* The tunnel of every UE outlives the handovers of the others: "Each UE has
\* independent GTP-U tunnels with distinct TEIDs" (_gtp_teid_counter).
TunnelKept ==
    test.pc = "idle" => \A u \in Ues : tunnels[teid[u]] = u
===============================================================================
