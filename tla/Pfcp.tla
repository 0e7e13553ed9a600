--------------------------------- MODULE Pfcp ---------------------------------
(***************************************************************************)
(* PDU sessions on N4: the SMF's Manager (core/nf/upf/upf.go) and          *)
(* PfcpBridge (core/nf/smf/upfclient/pfcp_bridge.go), the PFCP Transport   *)
(* both ends are built on (core/nf/upf/pfcp/transport.go), the UPF's       *)
(* Handler (core/nf/upf/pfcp/handler*.go) with the dataplane's session     *)
(* table behind it, and the forwarder of downlink data reports             *)
(* (core/nf/upf/upfloop/upfloop.go).                                       *)
(*                                                                         *)
(* A Transport numbers its requests, keeps them in pending, sends the same *)
(* bytes again each time T1 expires and gives up at a deadline.  What it   *)
(* receives is the answer to the pending request of the same sequence      *)
(* number, if there is one, and goes to the handler otherwise: nothing     *)
(* tells a request of the other side from an answer, and nothing notices a *)
(* request that was handled before.  Every datagram has its own goroutine, *)
(* so they may overtake each other; one that UDP loses is one that is      *)
(* never received, and one that UDP repeats stays on its way when it is    *)
(* received.  The first write of a request may fail.                       *)
(*                                                                         *)
(* The Manager holds its mutex across every request but the establishment. *)
(*                                                                         *)
(* The model starts once Dial has set up the association, which took       *)
(* sequence number 1 of the SMF.  Rules other than the downlink FAR, the   *)
(* SMF's ring of received reports, encoding errors, the release of the     *)
(* association at shutdown and the wrap of the 24-bit sequence number are  *)
(* left out.                                                               *)
(***************************************************************************)
EXTENDS Integers, FiniteSets

CONSTANTS
    Keys,        \* (imsi, pduSessionID)
    N1,          \* Transport.n1
    UpfSeq,      \* the UPF's sequence number so far: its node reports took some
    MaxRequests, \* bound: sequence numbers of the SMF
    MaxReports,  \* bound: session reports of the UPF
    MaxRepeats   \* bound: datagrams sent or delivered once more; later ones are lost

ASSUME PfcpAssumption ==
    /\ "none" \notin Keys
    /\ N1 \in Nat \ {0}
    /\ {UpfSeq, MaxRequests, MaxReports, MaxRepeats} \subseteq Nat

VARIABLES
    mgr,       \* Manager.sessions: "absent", or the action of the downlink FAR
    lock,      \* Manager.mu: who waits for an answer while holding it
    install,   \* installUPFRules of each key: "idle", "created" or "commit"
    rules,     \* PfcpBridge.pending: the CP-SEID of the session to be committed
    sessions,  \* PfcpBridge.sessions
    cpSeid,    \* PfcpBridge.cpSeid, less its seed
    seq,       \* Transport.seq of the SMF
    pending,   \* Transport.pending of the SMF: the requests and their attempts
    upfSeq,    \* Transport.seq of the UPF
    report,    \* Transport.pending of the UPF: the forwarder's one request
    net,       \* the datagrams on their way
    repeats,   \* datagrams that T1 has sent again, or the network has repeated
    upf,       \* Handler.sessions
    byIMSI,    \* Handler.byIMSI: the UP-SEID, 0 if absent
    upSeid,    \* Handler.nextSEID, less its seed
    handling,  \* Handler goroutines between their table and their dataplane step
    buffered,  \* dpdkBridge.pending: keys created and not yet committed
    plane,     \* the dataplane's session table: "none", or the FAR's action
    ring,      \* the dataplane's reports that are not forwarded yet
    upset      \* history: T1 expired, the network repeated a request, a deletion could
               \* not be sent, a report was taken for an answer, or a release crossed
               \* the establishment

smfVars  == <<mgr, lock, install, rules, sessions, cpSeid>>
sendVars == <<seq, pending>>
upfVars  == <<upf, byIMSI, upSeid, handling, buffered, plane>>
repVars  == <<upfSeq, report, ring>>
netVars  == <<net, repeats>>
vars     == <<smfVars, sendVars, repVars, netVars, upfVars, upset>>

None      == [up |-> 0, cp |-> 0]          \* no session in PfcpBridge.sessions
NoReport  == [seq |-> 0, attempts |-> 0]   \* no report under way
Ops       == {"establish", "modify", "delete"}
Seqs      == 1..(1 + MaxRequests)
UpfSeqs   == 1..(UpfSeq + MaxReports)
Seids     == 0..(MaxRequests + MaxRepeats)

\* What a request asks for; "far" matters to a modification only.
Requests  == [op : Ops, key : Keys, cp : Seids, up : Seids, far : {"buf", "fwd"}]

\* The four kinds of datagram.
ToUpf(s, r)     == [to |-> "upf", kind |-> "request", seq |-> s, req |-> r]
Answer(s, c, u) == [to |-> "smf", kind |-> "answer", seq |-> s, cause |-> c, up |-> u]
Report(s)       == [to |-> "smf", kind |-> "report", seq |-> s]
Ack(s)          == [to |-> "upf", kind |-> "ack", seq |-> s]
Datagrams ==
    [to : {"upf"}, kind : {"request"}, seq : Seqs, req : Requests]
      \cup [to : {"smf"}, kind : {"answer"}, seq : Seqs, cause : {1, 65}, up : Seids]
      \cup [to : {"smf"}, kind : {"report"}, seq : UpfSeqs]
      \cup [to : {"upf"}, kind : {"ack"}, seq : UpfSeqs]

\* handleInbound and Handler.dispatch log and drop an answer or acknowledgement
\* that nobody waits for.  It can do no more, so it goes as soon as nobody does.
Awaited(ds) ==
    {d \in ds : /\ d.kind = "answer" => \E p \in pending' : p.seq = d.seq
                /\ d.kind = "ack" => report'.seq = d.seq}

\* A datagram is received, and out is sent.  The network may deliver a request
\* or a report once more; an answer that is repeated finds nobody waiting.
Received(d, out) ==
    \/ /\ net' = Awaited((net \ {d}) \cup out)
       /\ UNCHANGED repeats
    \/ /\ d.kind \in {"request", "report"} /\ repeats < MaxRepeats
       /\ repeats' = repeats + 1
       /\ net' = Awaited(net \cup out)

\* The association is up, no session exists.
Init ==
    /\ mgr = [k \in Keys |-> "absent"]
    /\ lock = "none"
    /\ install = [k \in Keys |-> "idle"]
    /\ rules = [k \in Keys |-> 0]
    /\ sessions = [k \in Keys |-> None]
    /\ cpSeid = 0
    /\ seq = 1
    /\ pending = {}
    /\ upfSeq = UpfSeq
    /\ report = NoReport
    /\ net = {} /\ repeats = 0
    /\ upf = {}
    /\ byIMSI = [k \in Keys |-> 0]
    /\ upSeid = 0
    /\ handling = {}
    /\ buffered = {}
    /\ plane = [k \in Keys |-> "none"]
    /\ ring = {}
    /\ upset = FALSE

-------------------------------------------------------------------------------
(* Transport of the SMF *)

\* allocateSeq; SendRequest up to the wait: remember the request, then send it.
SendRequest(r) ==
    /\ seq' = seq + 1
    /\ pending' = pending \cup {[seq |-> seq + 1, req |-> r, attempts |-> 0]}
    /\ net' = net \cup {ToUpf(seq + 1, r)}
    /\ UNCHANGED repeats

\* SendRequest when WriteToUDP fails: the request is forgotten and its caller
\* has the error at once.  T1 is not armed yet.
FailToSend ==
    /\ seq' = seq + 1
    /\ UNCHANGED <<pending, netVars>>

\* The same bytes again, or, as far as the peer can tell, not.
Resend(p) ==
    /\ repeats' = IF repeats < MaxRepeats THEN repeats + 1 ELSE repeats
    /\ net' = IF repeats < MaxRepeats THEN net \cup {ToUpf(p.seq, p.req)} ELSE net

\* Mutant: onT1Expiry never looks at n1.
T1Forever(p) ==
    /\ pending' = (pending \ {p}) \cup {[p EXCEPT !.attempts = @ + 1]}
    /\ Resend(p)
    /\ upset' = TRUE
    /\ UNCHANGED <<smfVars, seq, repVars, upfVars>>

\* onT1Expiry: count the attempt, and send the same bytes unless it was the last.
T1Expiry(p) ==
    /\ p.attempts < N1
    /\ pending' = (pending \ {p}) \cup {[p EXCEPT !.attempts = @ + 1]}
    /\ IF p.attempts + 1 < N1 THEN Resend(p) ELSE UNCHANGED netVars
    /\ upset' = TRUE
    /\ UNCHANGED <<smfVars, seq, repVars, upfVars>>

\* What the caller of SendRequest does with its outcome.  CommitSession keeps
\* the session if the answer accepts it; the others only log a failure, give
\* the mutex back and, for a FAR, record the action they asked for.
Complete(p, ok, up) ==
    LET r == p.req IN
    /\ pending' = pending \ {p}
    /\ install' = IF r.op = "establish" THEN [install EXCEPT ![r.key] = "idle"] ELSE install
    /\ sessions' = IF r.op = "establish" /\ ok
                   THEN [sessions EXCEPT ![r.key] = [up |-> up, cp |-> r.cp]] ELSE sessions
    /\ mgr' = IF r.op = "modify" THEN [mgr EXCEPT ![r.key] = r.far] ELSE mgr
    /\ lock' = IF r.op = "establish" THEN lock ELSE "none"
    /\ UNCHANGED <<rules, cpSeid, seq>>

\* Mutant: the deadline waits for one attempt more than T1 makes.
DeadlineTooLate(p) ==
    /\ p.attempts > N1
    /\ Complete(p, FALSE, 0)
    /\ UNCHANGED <<repeats, repVars, upfVars, upset>>
    /\ net' = Awaited(net)

\* SendRequest's deadline, which comes after the last expiry of T1.
Exhausted(p) ==
    /\ p.attempts >= N1
    /\ Complete(p, FALSE, 0)
    /\ UNCHANGED <<repeats, repVars, upfVars, upset>>
    /\ net' = Awaited(net)

\* Mutant: the caller does not look at the cause.
AnyPayloadAccepts(d, p) ==
    /\ Complete(p, TRUE, IF d.kind = "answer" THEN d.up ELSE 0)
    /\ Received(d, {})
    /\ upset' = (upset \/ d.kind = "report")

\* dispatch: the pending request of this sequence number takes the payload.  A
\* report decodes as an answer without a cause, which is no acceptance.
TakeAnswer(d, p) ==
    /\ Complete(p, d.kind = "answer" /\ d.cause = 1, IF d.kind = "answer" THEN d.up ELSE 0)
    /\ Received(d, {})
    /\ upset' = (upset \/ d.kind = "report")

\* handleInbound: acknowledge a report; the ring it goes to is left out.
Unsolicited(d) ==
    /\ UNCHANGED <<smfVars, sendVars, upset>>
    /\ Received(d, {Ack(d.seq)})

\* readLoop and dispatch of the SMF.
SmfReceive(d) ==
    /\ d.to = "smf"
    /\ UNCHANGED <<repVars, upfVars>>
    /\ \/ \E p \in pending : p.seq = d.seq /\ TakeAnswer(d, p)
       \/ (\A p \in pending : p.seq # d.seq) /\ Unsolicited(d)

-------------------------------------------------------------------------------
(* Manager and PfcpBridge *)

\* Nobody has the Manager's mutex, and the bound leaves a request to the caller
\* as well as to every installation that is still to commit.
Free ==
    /\ lock = "none"
    /\ seq + Cardinality({k \in Keys : install[k] = "created"}) < 1 + MaxRequests

\* Manager.CreateSession and PfcpBridge.SessionCreate, called by
\* installUPFRules: a new CP-SEID, kept until the commit.  The FAR buffers.
CreateSession(k) ==
    /\ Free /\ install[k] = "idle" /\ mgr[k] = "absent"
    /\ mgr' = [mgr EXCEPT ![k] = "buf"]
    /\ cpSeid' = cpSeid + 1
    /\ rules' = [rules EXCEPT ![k] = cpSeid + 1]
    /\ install' = [install EXCEPT ![k] = "created"]
    /\ UNCHANGED <<lock, sessions, sendVars, repVars, netVars, upfVars, upset>>

\* Manager.CommitSession and PfcpBridge.CommitSession up to the wait, without
\* the Manager's mutex.
CommitSession(k) ==
    /\ install[k] = "created"
    /\ rules' = [rules EXCEPT ![k] = 0]
    /\ \/ /\ SendRequest([op |-> "establish", key |-> k, cp |-> rules[k], up |-> 0, far |-> "buf"])
          /\ install' = [install EXCEPT ![k] = "commit"]
       \/ /\ FailToSend
          /\ install' = [install EXCEPT ![k] = "idle"]
    /\ UNCHANGED <<mgr, lock, sessions, cpSeid, repVars, upfVars, upset>>

\* Manager.DeleteSession and PfcpBridge.SessionDelete: forget the session
\* first, then tell the UPF and wait.  A session whose establishment is not
\* answered yet is unknown to the bridge, and the UPF is told nothing; nor is it
\* when the request cannot be sent.  ReleaseWithCause deletes only what the SMF
\* holds.
DeleteSession(k) ==
    /\ Free /\ mgr[k] # "absent"
    /\ mgr' = [mgr EXCEPT ![k] = "absent"]
    /\ sessions' = [sessions EXCEPT ![k] = None]
    /\ \/ /\ sessions[k] = None
          /\ upset' = (upset \/ install[k] # "idle")
          /\ UNCHANGED <<lock, sendVars, netVars>>
       \/ /\ sessions[k] # None
          /\ SendRequest([op |-> "delete", key |-> k, cp |-> 0, up |-> sessions[k].up, far |-> "buf"])
          /\ lock' = k
          /\ UNCHANGED upset
       \/ /\ sessions[k] # None
          /\ FailToSend
          /\ upset' = TRUE
          /\ UNCHANGED lock
    /\ UNCHANGED <<install, rules, cpSeid, repVars, upfVars>>

\* Manager.ActivateDL ("fwd"), or DeactivateDL ("buf") of a FAR that forwards,
\* and the bridge's UpdateFAR or DeactivateDLFAR up to the wait.  Without a
\* session, or a datagram, the bridge fails at once and the Manager records the
\* action anyway.
UpdateFAR(k, far) ==
    /\ Free /\ mgr[k] # "absent" /\ install[k] = "idle"
    /\ far = "buf" => mgr[k] = "fwd"
    /\ \/ /\ sessions[k] = None
          /\ mgr' = [mgr EXCEPT ![k] = far]
          /\ UNCHANGED <<lock, sendVars, netVars>>
       \/ /\ sessions[k] # None
          /\ SendRequest([op |-> "modify", key |-> k, cp |-> 0, up |-> sessions[k].up, far |-> far])
          /\ lock' = k
          /\ UNCHANGED mgr
       \/ /\ sessions[k] # None
          /\ FailToSend
          /\ mgr' = [mgr EXCEPT ![k] = far]
          /\ UNCHANGED lock
    /\ UNCHANGED <<install, rules, sessions, cpSeid, repVars, upfVars, upset>>

-------------------------------------------------------------------------------
(* The UPF: each handler changes its tables under Handler.mu, then drives  *)
(* the dataplane and answers.                                              *)

\* handleSessionEstablishment: a new session for every request that arrives.
EstablishTable(d) ==
    LET u == upSeid + 1 IN
    /\ upSeid' = u
    /\ upf' = upf \cup {[up |-> u, cp |-> d.req.cp, key |-> d.req.key]}
    /\ byIMSI' = [byIMSI EXCEPT ![d.req.key] = u]
    /\ buffered' = buffered \cup {d.req.key}
    /\ handling' = handling \cup {[seq |-> d.seq, op |-> "establish", up |-> u,
                                   keys |-> {d.req.key}, far |-> "buf"]}
    /\ Received(d, {})

\* handleSessionModification: find the key of the session, which may be unknown.
ModifyTable(d) ==
    /\ handling' = handling \cup {[seq |-> d.seq, op |-> "modify", up |-> d.req.up, far |-> d.req.far,
                                   keys |-> {s.key : s \in {x \in upf : x.up = d.req.up}}]}
    /\ Received(d, {})
    /\ UNCHANGED <<upf, byIMSI, upSeid, buffered>>

\* Mutant: the handler drops byIMSI's entry and forgets the session's.
DeleteIndexOnly(d) ==
    LET gone == {s \in upf : s.up = d.req.up} IN
    /\ byIMSI' = [k \in Keys |-> IF \E s \in gone : s.key = k THEN 0 ELSE byIMSI[k]]
    /\ handling' = handling \cup {[seq |-> d.seq, op |-> "delete", up |-> d.req.up,
                                   keys |-> {s.key : s \in gone}, far |-> "buf"]}
    /\ Received(d, {})
    /\ UNCHANGED <<upf, upSeid, buffered>>

\* handleSessionDeletion: drop the session and whatever byIMSI has for its key;
\* cause 65 if there is none.
DeleteTable(d) ==
    LET gone == {s \in upf : s.up = d.req.up} IN
    /\ upf' = upf \ gone
    /\ byIMSI' = [k \in Keys |-> IF \E s \in gone : s.key = k THEN 0 ELSE byIMSI[k]]
    /\ \/ /\ gone # {}
          /\ handling' = handling \cup {[seq |-> d.seq, op |-> "delete", up |-> d.req.up,
                                         keys |-> {s.key : s \in gone}, far |-> "buf"]}
          /\ Received(d, {})
       \/ /\ gone = {}
          /\ Received(d, {Answer(d.seq, 65, 0)})
          /\ UNCHANGED handling
    /\ UNCHANGED <<upSeid, buffered>>

\* dispatch of the UPF: whatever has the number of the report under way ends
\* that report; other requests are handled.
UpfReceive(d) ==
    /\ d.to = "upf"
    /\ UNCHANGED <<smfVars, sendVars, upfSeq, ring, plane>>
    /\ \/ /\ report.seq = d.seq
          /\ report' = NoReport
          /\ Received(d, {})
          /\ UNCHANGED <<upf, byIMSI, upSeid, handling, buffered>>
       \/ /\ report.seq # d.seq
          /\ UNCHANGED report
          /\ CASE d.req.op = "establish" -> EstablishTable(d)
               [] d.req.op = "modify"    -> ModifyTable(d)
               [] d.req.op = "delete"    -> DeleteTable(d)
    /\ upset' = (upset \/ repeats' # repeats)

\* dpdkBridge.CommitSession and upf_session_create: flush what is buffered; a
\* key that is in the table is refused.
CreateInPlane(h) ==
    /\ buffered' = buffered \ h.keys
    /\ plane' = [k \in Keys |-> IF k \in h.keys \cap buffered /\ plane[k] = "none"
                                THEN "buf" ELSE plane[k]]

\* Mutant: SessionDelete returns once the buffer has been looked at.
DeleteBufferOnly(h) ==
    /\ buffered' = buffered \ h.keys
    /\ UNCHANGED plane

\* tearDownSession and dpdkBridge.SessionDelete: a buffered session is dropped
\* from the buffer, and only otherwise the one in the table is deleted.
DeleteInPlane(h) ==
    /\ buffered' = buffered \ h.keys
    /\ plane' = [k \in Keys |-> IF k \in h.keys \ buffered THEN "none" ELSE plane[k]]

\* applyUpdateFARToHook: changes the FAR of a session the table has.
UpdateInPlane(h) ==
    /\ plane' = [k \in Keys |-> IF k \in h.keys /\ plane[k] # "none" THEN h.far ELSE plane[k]]
    /\ UNCHANGED buffered

\* The rest of a handler: dataplane, then the answer, which accepts whatever
\* the dataplane made of it.
Finish(h) ==
    /\ CASE h.op = "establish" -> CreateInPlane(h)
         [] h.op = "modify"    -> UpdateInPlane(h)
         [] h.op = "delete"    -> DeleteInPlane(h)
    /\ handling' = handling \ {h}
    /\ UNCHANGED <<smfVars, sendVars, repVars, repeats, upf, byIMSI, upSeid, upset>>
    /\ net' = Awaited(net \cup {Answer(h.seq, 1, IF h.op = "establish" THEN h.up ELSE 0)})

\* The dataplane buffers a downlink packet and reports it in the ring.
BufferPacket(k) ==
    /\ plane[k] = "buf" /\ k \notin ring
    /\ upfSeq < UpfSeq + MaxReports
    /\ ring' = ring \cup {k}
    /\ UNCHANGED <<smfVars, sendVars, upfSeq, report, netVars, upfVars, upset>>

\* forwardOneReport: one report at a time, some time after the packet.  It is
\* dropped if the session is gone, and given up if it cannot be sent.
ForwardReport(k) ==
    /\ report = NoReport /\ k \in ring
    /\ ring' = ring \ {k}
    /\ \/ /\ byIMSI[k] = 0
          /\ UNCHANGED <<upfSeq, report, net>>
       \/ /\ byIMSI[k] # 0 /\ upfSeq < UpfSeq + MaxReports
          /\ upfSeq' = upfSeq + 1
          /\ \/ /\ report' = [seq |-> upfSeq + 1, attempts |-> 0]
                /\ net' = net \cup {Report(upfSeq + 1)}
             \/ UNCHANGED <<report, net>>
    /\ UNCHANGED <<smfVars, sendVars, repeats, upfVars, upset>>

\* onT1Expiry of the UPF's transport.
ReportT1Expiry ==
    /\ report # NoReport /\ report.attempts < N1
    /\ report' = [report EXCEPT !.attempts = @ + 1]
    /\ net' = IF report.attempts + 1 < N1 THEN net \cup {Report(report.seq)} ELSE net
    /\ UNCHANGED <<smfVars, sendVars, upfSeq, ring, repeats, upfVars, upset>>

\* The deadline of the report's SendRequest.
ReportExhausted ==
    /\ report.attempts >= N1
    /\ report' = NoReport
    /\ UNCHANGED <<smfVars, sendVars, upfSeq, ring, repeats, upfVars, upset>>
    /\ net' = Awaited(net)

-------------------------------------------------------------------------------
Next ==
    \/ \E k \in Keys :
          \/ CreateSession(k) \/ CommitSession(k) \/ DeleteSession(k)
          \/ \E far \in {"buf", "fwd"} : UpdateFAR(k, far)
          \/ BufferPacket(k) \/ ForwardReport(k)
    \/ \E p \in pending : T1Expiry(p) \/ Exhausted(p)
    \/ \E d \in net : SmfReceive(d) \/ UpfReceive(d)
    \/ \E h \in handling : Finish(h)
    \/ ReportT1Expiry
    \/ ReportExhausted

\* Runtime timers fire; nothing is assumed of the network or of the UPF.
Fairness ==
    \A s \in Seqs : WF_vars(\E p \in pending : p.seq = s /\ (T1Expiry(p) \/ Exhausted(p)))

Spec == Init /\ [][Next]_vars /\ Fairness

-------------------------------------------------------------------------------
(* Properties *)

\* The types of the two transports' and the UPF's tables: at most N1 attempts of
\* a request, sequence numbers and SEIDs from their counters (transport.go).
TypeOK ==
    /\ mgr \in [Keys -> {"absent", "buf", "fwd"}]
    /\ lock \in Keys \cup {"none"}
    /\ install \in [Keys -> {"idle", "created", "commit"}]
    /\ rules \in [Keys -> Seids]
    /\ sessions \in [Keys -> [up : Seids, cp : Seids]]
    /\ cpSeid \in Seids /\ upSeid \in Seids
    /\ seq \in Seqs /\ upfSeq \in UpfSeqs \cup {0}
    /\ pending \subseteq [seq : Seqs, req : Requests, attempts : 0..N1]
    /\ report \in [seq : UpfSeqs \cup {0}, attempts : 0..N1]
    /\ net \subseteq Datagrams
    /\ repeats \in 0..MaxRepeats /\ ring \subseteq Keys
    /\ upf \subseteq [up : Seids, cp : Seids, key : Keys]
    /\ byIMSI \in [Keys -> Seids]
    /\ handling \subseteq [seq : Seqs, op : Ops, up : Seids, keys : SUBSET Keys, far : {"buf", "fwd"}]
    /\ buffered \subseteq Keys
    /\ plane \in [Keys -> {"none", "buf", "fwd"}]
    /\ upset \in BOOLEAN

\* A session the SMF holds exists at the UPF under the UP-SEID the SMF uses for
\* it, with its CP-SEID and its key: no repeated, late or misdirected message
\* takes it away (CommitSession, SessionDelete, handleSessionDeletion).
SessionBacked ==
    \A k \in Keys : sessions[k] # None =>
        [up |-> sessions[k].up, cp |-> sessions[k].cp, key |-> k] \in upf

\* The dataplane keeps no session that the UPF's control plane has forgotten:
\* one with the key is in Handler.sessions or is being torn down.  Establishments
\* and deletions of one key may run side by side, and a deletion that meets a
\* buffered establishment leaves the dataplane's table alone (handle-
\* SessionDeletion, tearDownSession, dpdkBridge.SessionDelete).
PlaneOwned ==
    \A k \in Keys : plane[k] # "none" =>
        \/ \E s \in upf : s.key = k
        \/ \E h \in handling : h.op = "delete" /\ k \in h.keys

\* The UPF session s is known to the SMF, or a request under way will settle it.
Known(s) ==
    \/ sessions[s.key] = [up |-> s.up, cp |-> s.cp]
    \/ \E p \in pending : p.req.op = "establish" /\ p.req.cp = s.cp
    \/ \E p \in pending : p.req.op = "delete" /\ p.req.up = s.up

\* A session of the UPF that the SMF neither holds nor is about to learn of or
\* to delete goes back to one of five things: T1 expired, the network repeated a
\* request, a deletion could not be sent, a report was taken for an answer, or a
\* release crossed the establishment.  Without them the tables of SMF and UPF agree (PfcpBridge.sessions,
\* Handler.sessions).
LeakHasCause ==
    ~upset => \A s \in upf : Known(s)

\* The Manager's mutex, held across a request, is given back whatever the
\* network and the UPF do, so the other PDU sessions of the SMF go on
\* (SendRequest's deadline; Manager.DeleteSession, UpdateFAR, DeactivateDL).
MutexReturned ==
    lock # "none" ~> lock = "none"
===============================================================================
