------------------------------ MODULE GnbSession ------------------------------
(***************************************************************************)
(* The threaded gNB of the tester: GnbStateMachine (statemachine/          *)
(* gnb_fsm.py) over SctpClient (protocol/sctp.py) and the GtpuManager      *)
(* (protocol/gtpu.py) that all gNBs of the process share.                  *)
(*                                                                         *)
(* Threads: per gNB the test thread (connect, disconnect), and per         *)
(* connection one receive thread, one handler thread and the send worker;  *)
(* per GtpuManager a pool of tunnel-setup workers.  They share the gNB's   *)
(* state, its stop event, its socket and its handler queue, and none of    *)
(* them is joined for longer than two seconds, so a thread of an earlier   *)
(* connection can still run in a later one.                                *)
(*                                                                         *)
(* A PDU SESSION RESOURCE SETUP REQUEST (PSR) travels                      *)
(*   AMF -> receive thread -> handler queue -> handler thread              *)
(*       -> setup queue -> setup worker -> answer to the AMF.              *)
(***************************************************************************)
EXTENDS Integers, Sequences, FiniteSets

CONSTANTS
    Gnbs,        \* GnbStateMachine objects of one tester
    Ues,         \* UeStateMachine objects
    Serving,     \* [Ues -> Gnbs]: the gNB a UE attaches to
    Reqs,        \* the PSRs the AMF may send: [id, ue, psi, kinds]
    Workers,     \* MMT_GTPU_SETUP_WORKERS, the number of setup workers (4 unless configured)
    MaxConn,     \* bound: associations one gNB opens
    MaxPsr,      \* bound: PSRs the AMF sends
    MaxUpsets,   \* bound: disconnects, releases and losses of an association
    QueueMax     \* handler_q maxsize (4096 in the code)

Psis  == {r.psi : r \in Reqs}
Kinds == {"accept", "noupf", "reactivate", "ethernet"}
Conns == 1..MaxConn
None  == [id |-> 0]                  \* the sentinel disconnect() queues
Base  == 65536                       \* 0x10000, the same for every gNB
Teids == (Base + 1)..(Base + Cardinality(Reqs))

ASSUME SessionAssumption ==
    /\ Serving \in [Ues -> Gnbs]
    /\ IsFiniteSet(Reqs)
    /\ Reqs \subseteq [id : Nat \ {0}, ue : Ues, psi : Nat, kinds : SUBSET Kinds]
    /\ \A r, s \in Reqs : r.id = s.id => r = s
    /\ {Workers, MaxConn, MaxPsr, MaxUpsets, QueueMax} \subseteq Nat

VARIABLES
    state,       \* gnb.state
    stop,        \* gnb._stop
    sock,        \* gnb._sctp._sock: 0 is None, c the association of connection c
    sender,      \* the send worker: it sends, its sctp_send raises, it has failed
    main,        \* where the test thread is in connect() or disconnect()
    conns,       \* associations opened so far
    assoc,       \* each association: what the peer made of it, what it has sent
    rx,          \* the receive thread of each connection
    hd,          \* the handler thread of each connection
    handlerQ,    \* gnb._handler_q
    teidCounter, \* gnb._gtp_teid_counter
    attached,    \* UEs in gnb.ue_map
    session,     \* ue.pdu_sessions: absent, without local_teid (0), or its TEID
    setupQ,      \* GtpuManager._setup_queue
    running,     \* the jobs the setup workers are executing: [pc, job]
    tunnels,     \* GtpuManager._tunnels, as a set of records keyed by teid
    answers,     \* history: the answers sent for each PSR
    built,       \* history: PSRs with a tunnel in _tunnels, or that need none
    amfUe,       \* the AMF's view: the association of each UE's context, 0 if none
    psrs,        \* PSRs the AMF has sent
    upsets       \* number of disconnects, releases and losses so far

link   == <<sock, sender, assoc, conns>>
amf    == <<amfUe, psrs, upsets>>
gtpu   == <<setupQ, running, tunnels>>
vars   == <<state, stop, link, main, rx, hd, handlerQ, teidCounter, attached,
            session, gtpu, answers, built, amf>>

Absent    == -1
PsrMsg(r) == [type |-> "psr", req |-> r]
Release(u) == [type |-> "release", ue |-> u]
NGSetup(result) == [type |-> "ngsetup", result |-> result]
Messages  == {PsrMsg(r) : r \in Reqs} \cup {Release(u) : u \in Ues}
                 \cup {NGSetup(x) : x \in {"response", "failure"}}
Jobs      == [req : Reqs, teid : Teids, build : BOOLEAN]
Answer    == [ok : BOOLEAN, teid : Teids]
Tunnel    == [teid : Teids, ue : Ues, req : Reqs]

Rx(pc, on, msg) == [pc |-> pc, on |-> on, msg |-> msg]
Hd(pc, item)    == [pc |-> pc, item |-> item]
Assoc(peer, in) == [peer |-> peer, in |-> in]
RxDone          == Rx("done", 0, <<>>)
HdDone          == Hd("done", None)

TypeOK ==
    /\ state \in [Gnbs -> {"IDLE", "NG_SETUP_SENT", "READY", "ERROR"}]
    /\ stop \in [Gnbs -> BOOLEAN]
    /\ sock \in [Gnbs -> 0..MaxConn]
    /\ sender \in [Gnbs -> {"ok", "failing", "failed"}]
    /\ main \in [Gnbs -> {"idle", "connected", "started", "idled", "poke",
                          "close", "join"}]
    /\ conns \in [Gnbs -> 0..MaxConn]
    /\ assoc \in [Gnbs -> [Conns -> [peer : {"none", "up", "lost", "closed", "gone"},
                                    in : Seq(Messages)]]]
    /\ rx \in [Gnbs -> [Conns -> [pc : {"none", "recv", "callback", "done"},
                                 on : 0..MaxConn, msg : Messages \cup {<<>>}]]]
    /\ hd \in [Gnbs -> [Conns -> [pc : {"none", "get", "run", "done"},
                                 item : Reqs \cup {None}]]]
    /\ handlerQ \in [Gnbs -> Seq(Reqs \cup {None})]
    /\ \A g \in Gnbs : Len(handlerQ[g]) <= QueueMax
    /\ teidCounter \in [Gnbs -> Base..(Base + Cardinality(Reqs))]
    /\ attached \subseteq Ues
    /\ session \in [Ues -> [Psis -> Teids \cup {Absent, 0}]]
    /\ setupQ \in Seq(Jobs)
    /\ running \subseteq [pc : {"device", "insert", "send"}, job : Jobs]
    /\ Cardinality(running) <= Workers
    /\ tunnels \subseteq Tunnel
    /\ answers \in [Reqs -> Seq(Answer)]
    /\ built \subseteq Reqs
    /\ amfUe \in [Ues -> 0..MaxConn]
    /\ psrs \subseteq Reqs
    /\ upsets \in 0..MaxUpsets

Init ==
    /\ state = [g \in Gnbs |-> "IDLE"]
    /\ stop = [g \in Gnbs |-> FALSE]
    /\ sock = [g \in Gnbs |-> 0]
    /\ sender = [g \in Gnbs |-> "ok"]
    /\ main = [g \in Gnbs |-> "idle"]
    /\ conns = [g \in Gnbs |-> 0]
    /\ assoc = [g \in Gnbs |-> [c \in Conns |-> Assoc("none", <<>>)]]
    /\ rx = [g \in Gnbs |-> [c \in Conns |-> Rx("none", 0, <<>>)]]
    /\ hd = [g \in Gnbs |-> [c \in Conns |-> Hd("none", None)]]
    /\ handlerQ = [g \in Gnbs |-> <<>>]
    /\ teidCounter = [g \in Gnbs |-> Base]
    /\ attached = {}
    /\ session = [u \in Ues |-> [p \in Psis |-> Absent]]
    /\ setupQ = <<>>
    /\ running = {}
    /\ tunnels = {}
    /\ answers = [r \in Reqs |-> <<>>]
    /\ built = {}
    /\ amfUe = [u \in Ues |-> 0]
    /\ psrs = {}
    /\ upsets = 0

(***************************************************************************)
(* Sending.  send() only queues the message: it raises when the socket is  *)
(* gone or the send worker has failed.  The worker hands it to the kernel, *)
(* which refuses it when the peer has torn the association down.           *)
(***************************************************************************)
Down(g)    == state[g] \in {"IDLE", "ERROR"}
CanSend(g) == sock[g] # 0 /\ sender[g] # "failed"
SendOn(g)  == sender' = IF sock[g] # 0 /\ assoc[g][sock[g]].peer # "up"
                        THEN [sender EXCEPT ![g] = "failing"] ELSE sender

\* ERROR, the stop event and a wake-up of the UEs' waiters, unless already down.
MarkError(g) ==
    IF Down(g) THEN UNCHANGED <<state, stop>>
    ELSE /\ state' = [state EXCEPT ![g] = "ERROR"]
         /\ stop' = [stop EXCEPT ![g] = TRUE]

SendWorkerFails(g) ==
    /\ sender[g] = "failing"
    /\ sender' = [sender EXCEPT ![g] = "failed"]
    /\ MarkError(g)
    /\ UNCHANGED <<sock, assoc, conns, main, rx, hd, handlerQ, teidCounter, attached,
                   session, gtpu, answers, built, amf>>

\* The peer sends m on association a.
Arrives(g, a, m) ==
    assoc' = [assoc EXCEPT ![g][a] = Assoc(assoc[g][a].peer, Append(assoc[g][a].in, m))]

(***************************************************************************)
(* connect().  The socket attribute is assigned before the kernel connect, *)
(* so a refused connection leaves it set.                                  *)
(***************************************************************************)
ConnectFail(g) ==
    /\ main[g] = "idle" /\ state[g] = "IDLE" /\ conns[g] < MaxConn
    /\ conns' = [conns EXCEPT ![g] = @ + 1]
    /\ sock' = [sock EXCEPT ![g] = conns[g] + 1]
    /\ assoc' = [assoc EXCEPT ![g][conns[g] + 1] = Assoc("gone", <<>>)]
    /\ state' = [state EXCEPT ![g] = "ERROR"]
    /\ UNCHANGED <<stop, sender, main, rx, hd, handlerQ, teidCounter, attached,
                   session, gtpu, answers, built, amf>>

ConnectSctp(g) ==
    /\ main[g] = "idle" /\ state[g] = "IDLE" /\ conns[g] < MaxConn
    /\ conns' = [conns EXCEPT ![g] = @ + 1]
    /\ sock' = [sock EXCEPT ![g] = conns[g] + 1]
    /\ assoc' = [assoc EXCEPT ![g][conns[g] + 1] = Assoc("up", <<>>)]
    /\ sender' = [sender EXCEPT ![g] = "ok"]
    /\ main' = [main EXCEPT ![g] = "connected"]
    /\ UNCHANGED <<state, stop, rx, hd, handlerQ, teidCounter, attached, session,
                   gtpu, answers, built, amf>>

ConnectThreads(g) ==
    /\ main[g] = "connected"
    /\ main' = [main EXCEPT ![g] = "started"]
    /\ stop' = [stop EXCEPT ![g] = FALSE]
    /\ hd' = [hd EXCEPT ![g][conns[g]] = Hd("get", None)]
    /\ rx' = [rx EXCEPT ![g][conns[g]] = Rx("recv", sock[g], <<>>)]
    /\ UNCHANGED <<state, link, handlerQ, teidCounter, attached, session, gtpu,
                   answers, built, amf>>

\* NG_SETUP_SENT, then NGSetupRequest: when send() raises, connect() does too.
\* The AMF answers an NGSetupRequest that reaches it.
ConnectSetup(g, result) ==
    /\ main[g] = "started"
    /\ main' = [main EXCEPT ![g] = "idle"]
    /\ state' = [state EXCEPT ![g] = "NG_SETUP_SENT"]
    /\ IF CanSend(g)
       THEN /\ SendOn(g)
            /\ IF assoc[g][sock[g]].peer = "up"
               THEN Arrives(g, sock[g], NGSetup(result))
               ELSE UNCHANGED assoc
       ELSE UNCHANGED <<sender, assoc>>
    /\ UNCHANGED <<stop, sock, conns, rx, hd, handlerQ, teidCounter, attached, session,
                   gtpu, answers, built, amf>>

(***************************************************************************)
(* disconnect(), step by step: another thread can run between any two.     *)
(***************************************************************************)
DisconnectIdle(g) ==
    /\ main[g] = "idle" /\ upsets < MaxUpsets
    /\ upsets' = upsets + 1
    /\ main' = [main EXCEPT ![g] = "idled"]
    /\ state' = IF Down(g) THEN state ELSE [state EXCEPT ![g] = "IDLE"]
    /\ UNCHANGED <<stop, link, rx, hd, handlerQ, teidCounter, attached, session, gtpu,
                   answers, built, amfUe, psrs>>

\* destroy_tunnel for each TEID of ts: the entry leaves the table.
DestroyTunnels(ts) == tunnels' = {x \in tunnels : x.teid \notin ts}

SessionTeids(us) == {session[u][p] : u \in us, p \in Psis} \ {Absent, 0}

\* The stop event; cancel_pending_setups, which drops the queued jobs of every gNB
\* since the queue is the manager's; the tunnels of the sessions that have one.
DisconnectCancel(g) ==
    /\ main[g] = "idled"
    /\ main' = [main EXCEPT ![g] = "poke"]
    /\ stop' = [stop EXCEPT ![g] = TRUE]
    /\ setupQ' = <<>>
    /\ DestroyTunnels(SessionTeids({u \in attached : Serving[u] = g}))
    /\ UNCHANGED <<state, link, rx, hd, handlerQ, teidCounter, attached, session,
                   running, answers, built, amf>>

\* Mutant: the sentinel is put whether or not the queue is full.
PokeFullQueue(g) ==
    /\ main[g] = "poke"
    /\ main' = [main EXCEPT ![g] = "close"]
    /\ handlerQ' = [handlerQ EXCEPT ![g] = Append(@, None)]
    /\ UNCHANGED <<state, stop, link, rx, hd, teidCounter, attached, session, gtpu,
                   answers, built, amf>>

DisconnectPoke(g) ==
    /\ main[g] = "poke"
    /\ main' = [main EXCEPT ![g] = "close"]
    /\ handlerQ' = IF Len(handlerQ[g]) < QueueMax
                   THEN [handlerQ EXCEPT ![g] = Append(@, None)] ELSE handlerQ
    /\ UNCHANGED <<state, stop, link, rx, hd, teidCounter, attached, session, gtpu,
                   answers, built, amf>>

\* SctpClient.disconnect: the attribute becomes None, what the peer still sent
\* is drained, the socket is closed.  The end of an association that was up is
\* notified too, and the drain may leave that to a receive thread that is inside
\* recv(); a notification that no thread waits for is forgotten.
DisconnectClose(g) ==
    /\ main[g] = "close"
    /\ main' = [main EXCEPT ![g] = "join"]
    /\ sock' = [sock EXCEPT ![g] = 0]
    /\ assoc' = IF sock[g] = 0 THEN assoc
                ELSE [assoc EXCEPT ![g][sock[g]] =
                         Assoc(IF @.peer = "up" /\ \E c \in Conns : rx[g][c].pc = "recv" /\ rx[g][c].on = sock[g]
                               THEN "closed" ELSE "gone", <<>>)]
    /\ UNCHANGED <<state, stop, sender, conns, rx, hd, handlerQ, teidCounter, attached,
                   session, gtpu, answers, built, amf>>

\* join(timeout=2.0): the handler wakes from get() within a second, so only a
\* handler that is executing a request outlasts the join.
DisconnectJoin(g) ==
    /\ main[g] = "join"
    /\ conns[g] > 0 => hd[g][conns[g]].pc \in {"none", "run", "done"}
    /\ main' = [main EXCEPT ![g] = "idle"]
    /\ UNCHANGED <<state, stop, link, rx, hd, handlerQ, teidCounter, attached, session,
                   gtpu, answers, built, amf>>

(***************************************************************************)
(* The receive thread of connection c.  Its loop reads self._sock afresh   *)
(* in every iteration: a thread left over from connection c may go on with *)
(* the socket of a later one.                                              *)
(***************************************************************************)
RxLoop(g) == IF stop[g] \/ sock[g] = 0 THEN RxDone ELSE Rx("recv", sock[g], <<>>)

RxRecv(g, c) ==
    LET a == rx[g][c].on
    IN  /\ rx[g][c].pc = "recv"
        /\ assoc[g][a].in # <<>>
        /\ rx' = [rx EXCEPT ![g][c] = Rx("callback", a, Head(assoc[g][a].in))]
        /\ assoc' = [assoc EXCEPT ![g][a] = Assoc(assoc[g][a].peer, Tail(assoc[g][a].in))]
        /\ UNCHANGED <<state, stop, sock, sender, conns, main, hd, handlerQ, teidCounter,
                       attached, session, gtpu, answers, built, amf>>

\* Mutant: the notification only ends the loop.
TerminalUnreported(g, c) ==
    LET a == rx[g][c].on
    IN  /\ rx[g][c].pc = "recv"
        /\ assoc[g][a].peer = "lost" /\ assoc[g][a].in = <<>>
        /\ assoc' = [assoc EXCEPT ![g][a] = Assoc("gone", <<>>)]
        /\ rx' = [rx EXCEPT ![g][c] = RxDone]
        /\ sender' = [sender EXCEPT ![g] = "failed"]
        /\ UNCHANGED <<state, stop, sock, conns, main, hd, handlerQ, teidCounter,
                       attached, session, gtpu, answers, built, amf>>

\* A terminal notification: one reader gets it.  It fails the send worker of the
\* client, whatever connection that serves now, and reports the failure; a thread
\* that is slow may do so after the gNB has connected again.
RxTerminal(g, c) ==
    LET a == rx[g][c].on
    IN  /\ rx[g][c].pc = "recv"
        /\ assoc[g][a].peer \in {"lost", "closed"} /\ assoc[g][a].in = <<>>
        /\ assoc' = [assoc EXCEPT ![g][a] = Assoc("gone", <<>>)]
        /\ rx' = [rx EXCEPT ![g][c] = RxDone]
        /\ sender' = [sender EXCEPT ![g] = "failed"]
        /\ MarkError(g)
        /\ UNCHANGED <<sock, conns, main, hd, handlerQ, teidCounter, attached, session,
                       gtpu, answers, built, amf>>

\* recv() on a closed socket: end of file or OSError, which end the loop; the
\* notification of a disconnect, if there was one, went to the drain.
RxEof(g, c) ==
    LET a == rx[g][c].on
    IN  /\ rx[g][c].pc = "recv"
        /\ assoc[g][a].peer \in {"closed", "gone"} /\ assoc[g][a].in = <<>>
        /\ assoc' = [assoc EXCEPT ![g][a] = Assoc("gone", <<>>)]
        /\ rx' = [rx EXCEPT ![g][c] = RxDone]
        /\ UNCHANGED <<state, stop, sock, sender, conns, main, hd, handlerQ, teidCounter,
                       attached, session, gtpu, answers, built, amf>>

RxBack(g, c) == rx' = [rx EXCEPT ![g][c] = RxLoop(g)]

OnNGSetup(g, c) ==
    LET m == rx[g][c].msg
    IN  /\ rx[g][c].pc = "callback" /\ m.type = "ngsetup"
        /\ state' = [state EXCEPT ![g] = IF m.result = "response" THEN "READY" ELSE "ERROR"]
        /\ RxBack(g, c)
        /\ UNCHANGED <<stop, link, main, hd, handlerQ, teidCounter, attached, session,
                       gtpu, answers, built, amf>>

\* A PSR is put in the handler queue, or dropped when that is full.
OnPsr(g, c) ==
    LET m == rx[g][c].msg
    IN  /\ rx[g][c].pc = "callback" /\ m.type = "psr"
        /\ handlerQ' = IF Len(handlerQ[g]) < QueueMax
                       THEN [handlerQ EXCEPT ![g] = Append(@, m.req)] ELSE handlerQ
        /\ RxBack(g, c)
        /\ UNCHANGED <<state, stop, link, main, hd, teidCounter, attached, session,
                       gtpu, answers, built, amf>>

\* UEContextReleaseCommand: Complete is sent first; when send() raises, the rest
\* of the handler is skipped and the gNB goes to ERROR.
OnRelease(g, c) ==
    LET u == rx[g][c].msg.ue
    IN  /\ rx[g][c].pc = "callback" /\ rx[g][c].msg.type = "release"
        /\ RxBack(g, c)
        /\ IF ~CanSend(g)
           THEN /\ MarkError(g)
                /\ UNCHANGED <<sender, attached, tunnels>>
           ELSE /\ SendOn(g)
                /\ IF u \in attached THEN DestroyTunnels(SessionTeids({u}))
                                     ELSE UNCHANGED tunnels
                /\ attached' = attached \ {u}
                /\ UNCHANGED <<state, stop>>
        /\ UNCHANGED <<sock, conns, assoc, main, hd, handlerQ, teidCounter, session,
                       setupQ, running, answers, built, amf>>

(***************************************************************************)
(* The handler thread of connection c.                                     *)
(***************************************************************************)
HandlerLoop(g) == IF stop[g] THEN HdDone ELSE Hd("get", None)

\* Mutant: a get() without a timeout.
GetWithoutTimeout(g, c) ==
    /\ hd[g][c].pc = "get"
    /\ handlerQ[g] # <<>>
    /\ handlerQ' = [handlerQ EXCEPT ![g] = Tail(@)]
    /\ hd' = [hd EXCEPT ![g][c] =
                 IF Head(handlerQ[g]) = None THEN HdDone
                 ELSE Hd("run", Head(handlerQ[g]))]
    /\ UNCHANGED <<state, stop, link, main, rx, teidCounter, attached, session, gtpu,
                   answers, built, amf>>

\* get(): an item, the sentinel, or a timeout after which the loop looks at _stop
\* (a timeout without a stop changes nothing).
HandlerGet(g, c) ==
    /\ hd[g][c].pc = "get"
    /\ \/ /\ handlerQ[g] # <<>>
          /\ handlerQ' = [handlerQ EXCEPT ![g] = Tail(@)]
          /\ hd' = [hd EXCEPT ![g][c] =
                       IF Head(handlerQ[g]) = None THEN HdDone
                       ELSE Hd("run", Head(handlerQ[g]))]
       \/ /\ handlerQ[g] = <<>> /\ stop[g]
          /\ hd' = [hd EXCEPT ![g][c] = HdDone]
          /\ UNCHANGED handlerQ
    /\ UNCHANGED <<state, stop, link, main, rx, teidCounter, attached, session, gtpu,
                   answers, built, amf>>

\* The end of _send_success and _send_failure: nothing when the gNB is down, a
\* logged exception when send() raises.
Respond(g, r, ok, teid) ==
    IF ~Down(g) /\ CanSend(g)
    THEN /\ SendOn(g)
         /\ answers' = [answers EXCEPT ![r] = Append(@, [ok |-> ok, teid |-> teid])]
    ELSE UNCHANGED <<sender, answers>>

\* _handle_pdu_session_setup and, through the UE's NAS handler,
\* _on_pdu_session_accepted: a TEID is allocated whatever follows; a UE that is
\* no longer in ue_map gets no further.  The entry of _pending_tunnels lives only
\* within this handler.
HandlePsr(g, c, kind) ==
    LET r == hd[g][c].item
        teid == teidCounter[g] + 1
    IN  /\ hd[g][c].pc = "run" /\ kind \in r.kinds
        /\ hd' = [hd EXCEPT ![g][c] = HandlerLoop(g)]
        /\ teidCounter' = [teidCounter EXCEPT ![g] = teid]
        /\ IF r.ue \notin attached
           THEN UNCHANGED <<session, setupQ, sender, answers, built>>
           ELSE /\ session' = IF kind = "reactivate" THEN session
                              ELSE [session EXCEPT ![r.ue][r.psi] = 0]
                /\ IF kind = "ethernet"
                   THEN /\ Respond(g, r, TRUE, teid)
                        /\ built' = built \cup {r}
                        /\ UNCHANGED setupQ
                   ELSE /\ setupQ' = Append(setupQ, [req |-> r, teid |-> teid,
                                                     build |-> kind # "noupf"])
                        /\ UNCHANGED <<sender, answers, built>>
        /\ UNCHANGED <<state, stop, sock, conns, assoc, main, rx, handlerQ, attached,
                       running, tunnels, amf>>

(***************************************************************************)
(* A setup worker: the two closures of _on_pdu_session_accepted and        *)
(* create_tunnel, whose steps on the table and on the device are separate. *)
(***************************************************************************)
GnbOf(job)   == Serving[job.req.ue]
GoTo(w, pc)  == running' = (running \ {w}) \cup {[pc |-> pc, job |-> w.job]}
Finish(w)    == running' = running \ {w}
NotGtpu      == <<stop, sock, conns, assoc, main, rx, hd, handlerQ, teidCounter,
                  attached, amf, state>>

\* A job whose gNB is down is dropped.  create_tunnel first destroys whatever the
\* table holds for the IMSI, of whatever session.
WorkerTake ==
    LET job == Head(setupQ)
        g   == GnbOf(job)
    IN  /\ setupQ # <<>> /\ Cardinality(running) < Workers
        /\ setupQ' = Tail(setupQ)
        /\ IF job.build /\ ~Down(g)
           THEN /\ running' = running \cup {[pc |-> "device", job |-> job]}
                /\ DestroyTunnels({x.teid : x \in {y \in tunnels : y.ue = job.req.ue}})
                /\ UNCHANGED <<sender, answers>>
           ELSE /\ UNCHANGED <<running, tunnels>>
                /\ IF job.build THEN UNCHANGED <<sender, answers>>
                                ELSE Respond(g, job.req, FALSE, job.teid)
        /\ UNCHANGED <<session, built>>
        /\ UNCHANGED NotGtpu

\* Mutants: success is answered before the tunnel is in the table; a device that
\* cannot be made is not answered.
RespondBeforeInsert(w, ok) ==
    /\ w.pc = "device"
    /\ IF ok THEN GoTo(w, "send") /\ UNCHANGED <<sender, answers>>
             ELSE Finish(w) /\ Respond(GnbOf(w.job), w.job.req, FALSE, w.job.teid)
    /\ UNCHANGED <<session, setupQ, tunnels, built>>
    /\ UNCHANGED NotGtpu

DeviceFailureSwallowed(w, ok) ==
    /\ w.pc = "device"
    /\ IF ok THEN GoTo(w, "insert") ELSE Finish(w)
    /\ UNCHANGED <<session, setupQ, tunnels, built, sender, answers>>
    /\ UNCHANGED NotGtpu

\* The device is made, after deleting one of the same name if it is busy; when
\* that fails too the request is answered with a failure.
WorkerDevice(w, ok) ==
    /\ w.pc = "device"
    /\ IF ok THEN GoTo(w, "insert") /\ UNCHANGED <<sender, answers>>
             ELSE Finish(w) /\ Respond(GnbOf(w.job), w.job.req, FALSE, w.job.teid)
    /\ UNCHANGED <<session, setupQ, tunnels, built>>
    /\ UNCHANGED NotGtpu

WorkerInsert(w) ==
    LET r == w.job.req
    IN  /\ w.pc = "insert"
        /\ tunnels' = {x \in tunnels : x.teid # w.job.teid}
                          \cup {[teid |-> w.job.teid, ue |-> r.ue, req |-> r]}
        /\ session' = IF session[r.ue][r.psi] = Absent THEN session
                      ELSE [session EXCEPT ![r.ue][r.psi] = w.job.teid]
        /\ built' = built \cup {r}
        /\ GoTo(w, "send")
        /\ UNCHANGED <<setupQ, sender, answers>>
        /\ UNCHANGED NotGtpu

WorkerSend(w) ==
    /\ w.pc = "send"
    /\ Respond(GnbOf(w.job), w.job.req, TRUE, w.job.teid)
    /\ Finish(w)
    /\ UNCHANGED <<session, setupQ, tunnels, built>>
    /\ UNCHANGED NotGtpu

(***************************************************************************)
(* The test attaches UEs; the AMF requests sessions for and releases the   *)
(* UEs it has a context for, and may tear an association down.             *)
(***************************************************************************)
Attach(g, u) ==
    /\ Serving[u] = g /\ main[g] = "idle" /\ state[g] = "READY"
    /\ CanSend(g) /\ assoc[g][sock[g]].peer = "up" /\ amfUe[u] # sock[g]
    /\ attached' = attached \cup {u}
    /\ amfUe' = [amfUe EXCEPT ![u] = sock[g]]
    /\ UNCHANGED <<state, stop, link, main, rx, hd, handlerQ, teidCounter, session,
                   gtpu, answers, built, psrs, upsets>>

AmfSends(u, m) ==
    LET g == Serving[u]
        a == amfUe[u]
    IN  /\ a # 0 /\ assoc[g][a].peer = "up"
        /\ Arrives(g, a, m)
        /\ UNCHANGED <<state, stop, sock, sender, conns, main, rx, hd, handlerQ,
                       teidCounter, attached, session, gtpu, answers, built>>

AmfPsr(r) ==
    /\ r \notin psrs /\ Cardinality(psrs) < MaxPsr
    /\ AmfSends(r.ue, PsrMsg(r))
    /\ psrs' = psrs \cup {r}
    /\ UNCHANGED <<amfUe, upsets>>

AmfRelease(u) ==
    /\ upsets < MaxUpsets
    /\ AmfSends(u, Release(u))
    /\ upsets' = upsets + 1
    /\ amfUe' = [amfUe EXCEPT ![u] = 0]
    /\ UNCHANGED psrs

AmfDown(g, c) ==
    /\ assoc[g][c].peer = "up" /\ upsets < MaxUpsets
    /\ upsets' = upsets + 1
    /\ assoc' = [assoc EXCEPT ![g][c] = Assoc("lost", assoc[g][c].in)]
    /\ UNCHANGED <<state, stop, sock, sender, conns, main, rx, hd, handlerQ, teidCounter,
                   attached, session, gtpu, answers, built, amfUe, psrs>>

MainStep(g) ==
    \/ ConnectThreads(g)
    \/ \E result \in {"response", "failure"} : ConnectSetup(g, result)
    \/ DisconnectCancel(g) \/ DisconnectPoke(g)
    \/ DisconnectClose(g) \/ DisconnectJoin(g)
RxStep(g, c) ==
    \/ RxRecv(g, c) \/ RxTerminal(g, c) \/ RxEof(g, c)
    \/ OnNGSetup(g, c) \/ OnPsr(g, c) \/ OnRelease(g, c)
HandlerStep(g, c) == HandlerGet(g, c) \/ \E kind \in Kinds : HandlePsr(g, c, kind)
JobStep(r) ==
    \E w \in running :
        /\ w.job.req = r
        /\ \/ \E ok \in BOOLEAN : WorkerDevice(w, ok)
           \/ WorkerInsert(w) \/ WorkerSend(w)
WorkerStep ==
    \/ WorkerTake
    \/ \E r \in Reqs : JobStep(r)
EnvStep ==
    \/ \E g \in Gnbs : ConnectFail(g) \/ ConnectSctp(g) \/ DisconnectIdle(g)
    \/ \E g \in Gnbs, u \in Ues : Attach(g, u)
    \/ \E r \in Reqs : AmfPsr(r)
    \/ \E u \in Ues : AmfRelease(u)
    \/ \E g \in Gnbs, c \in Conns : AmfDown(g, c)

Next ==
    \/ EnvStep
    \/ \E g \in Gnbs : MainStep(g) \/ SendWorkerFails(g)
    \/ \E g \in Gnbs, c \in Conns : RxStep(g, c) \/ HandlerStep(g, c)
    \/ WorkerStep

\* Every thread that can run does: the interpreter switches threads.
Fairness ==
    /\ \A g \in Gnbs : WF_vars(MainStep(g)) /\ WF_vars(SendWorkerFails(g))
    /\ \A g \in Gnbs, c \in Conns : WF_vars(RxStep(g, c)) /\ WF_vars(HandlerStep(g, c))
    /\ WF_vars(WorkerTake)
    /\ \A r \in Reqs : WF_vars(JobStep(r))

Spec == Init /\ [][Next]_vars /\ Fairness

(***************************************************************************)
(* Properties.                                                             *)
(***************************************************************************)
\* The AMF gets at most one answer for a PSR, across queues, retries and
\* reconnections, and a success only for a session whose tunnel was built (an
\* Ethernet session needs none): "AMF only ever sees a response that matches
\* reality".
AnsweredOnceAfterBuild ==
    \A r \in Reqs :
        /\ Len(answers[r]) <= 1
        /\ \A i \in DOMAIN answers[r] :
              answers[r][i].ok => r \in built

\* What the receive thread enqueues has a consumer, also on a gNB that is connected
\* again: while a connection that has not been told to stop is read, its handler
\* thread is alive, whatever the thread of an earlier connection left in the queue.
EnqueuedHasConsumer ==
    \A g \in Gnbs :
        /\ \E c \in 1..conns[g] - 1 : hd[g][c].pc = "done"
        /\ ~stop[g] /\ main[g] = "idle"
        /\ rx[g][conns[g]].pc \in {"recv", "callback"}
        => hd[g][conns[g]].pc \in {"get", "run"}

Queued(g, r) == \E i \in DOMAIN handlerQ[g] : handlerQ[g][i] = r

Connected(g) == state[g] = "READY" /\ sock[g] # 0 /\ sender[g] # "failed" /\ ~stop[g]
Served(g) == \E c \in Conns : hd[g][c].pc \in {"get", "run"}

\* A PSR for an attached UE that waits in the handler queue of a handler thread
\* that runs, with no left-over sentinel, is answered, unless the gNB disconnects,
\* its association fails or the UE's context is released first.  The handler builds
\* a pending entry "instead of just silently swallowing the request and letting AMF
\* time out".
PsrAnswered ==
    \A r \in Reqs :
        LET g == Serving[r.ue]
        IN  /\ Queued(g, r) /\ ~Queued(g, None) /\ Served(g)
            /\ Connected(g) /\ r.ue \in attached
            ~> answers[r] # <<>> \/ ~Connected(g) \/ r.ue \notin attached

\* disconnect() ends: the test thread gets through its join, and the receive and
\* handler threads of all connections end, unless a reconnect clears the stop
\* event before they have seen it.
DisconnectEnds ==
    \A g \in Gnbs :
        main[g] = "join"
            ~> main[g] # "join" /\ (~stop[g] \/ \A c \in Conns :
                                       {rx[g][c].pc, hd[g][c].pc} \subseteq {"none", "done"})

\* A connected gNB does not stay READY when the AMF tears its association down: the
\* notification, or the first send, marks it ERROR so that waiters bail out.
LinkLossSeen ==
    \A g \in Gnbs :
        Connected(g) /\ main[g] = "idle" /\ assoc[g][sock[g]].peer = "lost"
            ~> state[g] # "READY"
=============================================================================
