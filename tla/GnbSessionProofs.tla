--------------------------- MODULE GnbSessionProofs ---------------------------
(***************************************************************************)
(* GnbSession for every set of gNBs, UEs and requests and every bound: its *)
(* types, and that a PDU session setup request is answered at most once,   *)
(* with a success only for a tunnel that was built.                        *)
(*                                                                         *)
(* The argument follows a request through the gNB.  At any time it is at   *)
(* one place of one thread or queue, or nowhere: the AMF sends it once,    *)
(* and each thread takes it out of one place before, or as, it puts it in  *)
(* the next, whatever connection the thread belongs to.  An answer is the  *)
(* last of these places.                                                   *)
(***************************************************************************)
EXTENDS GnbSession, FiniteSetTheorems, TLAPS

\* A member of X is in the queue q; at most one is.
Has(q, X)  == \E i \in 1..Len(q) : q[i] \in X
Once(q, X) == \A i, j \in 1..Len(q) : q[i] \in X /\ q[j] \in X => i = j
JobsOf(r)  == {j \in Jobs : j.req = r}

Early  == {"sent", "received", "queued", "handled"}
Stages == Early \cup {"setup", "working", "answered"}
Links  == 0..MaxConn

\* Request r is in stage s: with connection c of gNB g, as long as it has one.
Holds(r, s, g, c) ==
    \/ s = "sent"     /\ c # 0 /\ Has(assoc[g][c].in, {PsrMsg(r)})
    \/ s = "received" /\ c # 0 /\ rx[g][c].pc = "callback" /\ rx[g][c].msg = PsrMsg(r)
    \/ s = "queued"   /\ c = 0 /\ Has(handlerQ[g], {r})
    \/ s = "handled"  /\ c # 0 /\ hd[g][c].pc = "run" /\ hd[g][c].item = r
    \/ s = "setup"    /\ c = 0 /\ g = Serving[r.ue] /\ Has(setupQ, JobsOf(r))
    \/ s = "working"  /\ c = 0 /\ g = Serving[r.ue] /\ \E w \in running : w.job.req = r
    \/ s = "answered" /\ c = 0 /\ g = Serving[r.ue] /\ answers[r] # <<>>

\* It is at one place at most, and no queue has it twice.
Alone == \A r \in Reqs, s, t \in Stages, g, h \in Gnbs, c, d \in Links :
            Holds(r, s, g, c) /\ Holds(r, t, h, d) => s = t /\ g = h /\ c = d

NoCopies ==
    \A r \in Reqs :
        /\ \A g \in Gnbs, c \in Conns : Once(assoc[g][c].in, {PsrMsg(r)})
        /\ \A g \in Gnbs : Once(handlerQ[g], {r})
        /\ Once(setupQ, JobsOf(r))
        /\ \A v, w \in running : v.job.req = r /\ w.job.req = r => v = w
        /\ Len(answers[r]) <= 1

\* Requests the AMF has not sent are nowhere.
Known == \A r \in Reqs, s \in Stages, g \in Gnbs, c \in Links : Holds(r, s, g, c) => r \in psrs

\* Each request a handler thread has yet to handle will take at most one TEID.
Pending == {r \in Reqs : r \notin psrs \/ \E s \in Early, g \in Gnbs, c \in Links : Holds(r, s, g, c)}
Counted == \A g \in Gnbs : teidCounter[g] + Cardinality(Pending) <= Base + Cardinality(Reqs)

\* A success is sent for a tunnel that was built.
Honest ==
    /\ \A w \in running : w.pc = "send" => w.job.req \in built
    /\ \A r \in Reqs : \A i \in DOMAIN answers[r] : answers[r][i].ok => r \in built

\* Threads hold what their place in the program says they hold.
Shape ==
    /\ \A g \in Gnbs : main[g] \in {"connected", "started"} =>
                          sock[g] = conns[g] /\ conns[g] \in Conns
    /\ \A g \in Gnbs, c \in Conns :
          /\ rx[g][c].pc = "recv" => rx[g][c].on \in Conns
          /\ rx[g][c].pc = "callback" => rx[g][c].msg \in Messages
          /\ hd[g][c].pc = "run" => hd[g][c].item \in Reqs
    /\ IsFiniteSet(running)

Tokens == Alone /\ NoCopies /\ Known
IInv   == TypeOK /\ Shape /\ Tokens /\ Counted /\ Honest

(***************************************************************************)
(* Queues.                                                                 *)
(***************************************************************************)
\* What is appended is the last element.
LEMMA AppendHas ==
    ASSUME NEW S, NEW q \in Seq(S), NEW x \in S, NEW X
    PROVE  /\ Append(q, x) \in Seq(S) /\ Len(Append(q, x)) = Len(q) + 1
           /\ Has(Append(q, x), X) => Has(q, X) \/ x \in X
           /\ x \notin X \/ ~Has(q, X) => (Once(q, X) => Once(Append(q, x), X))
  <1>1. /\ Append(q, x) \in Seq(S) /\ Len(Append(q, x)) = Len(q) + 1 /\ Len(q) \in Nat
        /\ \A i \in 1..Len(q) : Append(q, x)[i] = q[i]
        /\ Append(q, x)[Len(q) + 1] = x
    OBVIOUS
  <1>2. \A i \in 1..(Len(q) + 1) : i \in 1..Len(q) \/ i = Len(q) + 1
    BY <1>1
  <1> HIDE DEF Has, Once
  <1>3. Has(Append(q, x), X) => Has(q, X) \/ x \in X
    BY <1>1, <1>2 DEF Has
  <1>4. ASSUME x \notin X \/ ~Has(q, X), Once(q, X) PROVE Once(Append(q, x), X)
    BY <1>1, <1>2, <1>4 DEF Has, Once
  <1> QED BY <1>1, <1>3, <1>4

\* What is taken out is the first, and it was there once.
LEMMA TailHas ==
    ASSUME NEW S, NEW q \in Seq(S), q # <<>>, NEW X
    PROVE  /\ Head(q) \in S /\ Tail(q) \in Seq(S) /\ Len(Tail(q)) = Len(q) - 1 /\ Len(q) \in Nat \ {0}
           /\ Has(Tail(q), X) => Has(q, X)
           /\ Once(q, X) => Once(Tail(q), X)
           /\ Head(q) \in X => Has(q, X)
           /\ Head(q) \in X /\ Once(q, X) => ~Has(Tail(q), X)
  <1>1. /\ Head(q) \in S /\ Tail(q) \in Seq(S) /\ Len(Tail(q)) = Len(q) - 1
        /\ Len(q) \in Nat \ {0} /\ Head(q) = q[1]
        /\ \A i \in 1..Len(Tail(q)) : Tail(q)[i] = q[i + 1]
    OBVIOUS
  <1>2. /\ 1 \in 1..Len(q)
        /\ \A i \in 1..Len(Tail(q)) : i \in Int /\ i + 1 \in 1..Len(q) /\ i + 1 # 1
    BY <1>1
  <1>3. \A i, j \in 1..Len(Tail(q)) : i + 1 = j + 1 => i = j
    BY <1>2
  <1>4. Has(Tail(q), X) => Has(q, X)
    BY <1>1, <1>2 DEF Has
  <1>5. Once(q, X) => Once(Tail(q), X)
    BY <1>1, <1>2, <1>3 DEF Once
  <1>6. Head(q) \in X => Has(q, X)
    BY <1>1, <1>2 DEF Has
  <1>7. ASSUME Head(q) \in X, Once(q, X), Has(Tail(q), X) PROVE FALSE
    BY <1>1, <1>2, <1>7 DEF Has, Once
  <1> QED BY <1>1, <1>4, <1>5, <1>6, <1>7

\* An empty queue.
LEMMA EmptyHas == \A X : ~Has(<<>>, X) /\ Once(<<>>, X)
  BY DEF Has, Once

\* Messages and requests are what they say.
LEMMA MessageKinds ==
    /\ \A r, q \in Reqs : PsrMsg(r) \in {PsrMsg(q)} => r = q
    /\ \A u \in Ues, r \in Reqs : Release(u) \notin {PsrMsg(r)}
    /\ \A x \in {"response", "failure"}, r \in Reqs : NGSetup(x) \notin {PsrMsg(r)}
    /\ None \notin Reqs
  BY SessionAssumption DEF PsrMsg, Release, NGSetup, None

(***************************************************************************)
(* How a step moves requests.                                              *)
(***************************************************************************)
AssocFewer == \A g \in Gnbs, c \in Conns, r \in Reqs :
                 /\ Has(assoc'[g][c].in, {PsrMsg(r)}) => Has(assoc[g][c].in, {PsrMsg(r)})
                 /\ Once(assoc[g][c].in, {PsrMsg(r)}) => Once(assoc'[g][c].in, {PsrMsg(r)})
RxFewer    == \A g \in Gnbs, c \in Conns, r \in Reqs :
                 rx'[g][c].pc = "callback" /\ rx'[g][c].msg = PsrMsg(r) =>
                     rx[g][c].pc = "callback" /\ rx[g][c].msg = PsrMsg(r)
HdFewer    == \A g \in Gnbs, c \in Conns : hd'[g][c].pc = "run" => hd'[g][c] = hd[g][c]
QueueFewer == \A g \in Gnbs, r \in Reqs :
                 /\ Has(handlerQ'[g], {r}) => Has(handlerQ[g], {r})
                 /\ Once(handlerQ[g], {r}) => Once(handlerQ'[g], {r})
SetupFewer == \A r \in Reqs :
                 /\ Has(setupQ', JobsOf(r)) => Has(setupQ, JobsOf(r))
                 /\ Once(setupQ, JobsOf(r)) => Once(setupQ', JobsOf(r))

\* No request goes anywhere, except r to one place.
Kept == \A r \in Reqs, s \in Stages, g \in Gnbs, c \in Links :
           Holds(r, s, g, c)' => Holds(r, s, g, c)
MovesTo(r, t, h, d) ==
    \A q \in Reqs, s \in Stages, g \in Gnbs, c \in Links :
        Holds(q, s, g, c)' => Holds(q, s, g, c) \/ (q = r /\ s = t /\ g = h /\ c = d)

\* A request that leaves its place for another stays alone.
LEMMA AloneMoves ==
    ASSUME Alone, NEW r \in Reqs, NEW s \in Stages, NEW g \in Gnbs, NEW c \in Links,
           NEW t \in Stages, NEW h \in Gnbs, NEW d \in Links,
           Holds(r, s, g, c), ~Holds(r, s, g, c)', MovesTo(r, t, h, d)
    PROVE  Alone'
  BY DEF Alone, MovesTo

\* A step that sends nothing and allocates nothing keeps the count.
LEMMA CountStays ==
    ASSUME Counted, TypeOK, teidCounter' = teidCounter, Pending' \subseteq Pending
    PROVE  Counted'
  <1>1. IsFiniteSet(Reqs) /\ Pending \subseteq Reqs /\ Pending' \subseteq Reqs
    BY SessionAssumption DEF Pending
  <1>2. IsFiniteSet(Pending) /\ IsFiniteSet(Pending')
    BY <1>1, FS_Subset
  <1>3. /\ Cardinality(Pending) \in Nat /\ Cardinality(Pending') \in Nat
        /\ Cardinality(Reqs) \in Nat /\ Cardinality(Pending') <= Cardinality(Pending)
    BY <1>1, <1>2, FS_Subset, FS_CardinalityType
  <1>4. \A g \in Gnbs : teidCounter[g] \in Int
    BY <1>3 DEF TypeOK, Base
  <1> QED BY <1>3, <1>4 DEF Counted, Base

\* In a step that only loses requests, or changes nothing they are in.
LEMMA Fewer ==
    ASSUME IInv, AssocFewer, RxFewer, HdFewer, QueueFewer, SetupFewer,
           running' \subseteq running, answers' = answers, psrs \subseteq psrs',
           teidCounter' = teidCounter, built \subseteq built'
    PROVE  Tokens' /\ Counted' /\ Honest'
  <1>1. Kept
    <2> SUFFICES ASSUME NEW r \in Reqs, NEW s \in Stages, NEW g \in Gnbs, NEW c \in Links,
                        Holds(r, s, g, c)'
                 PROVE  Holds(r, s, g, c)
      BY DEF Kept
    <2>1. c # 0 => c \in Conns
      BY SessionAssumption DEF Links, Conns
    <2>2. CASE s = "sent"
      BY <2>1, <2>2 DEF Holds, AssocFewer
    <2>3. CASE s = "received"
      BY <2>1, <2>3 DEF Holds, RxFewer
    <2>4. CASE s = "queued"
      BY <2>4 DEF Holds, QueueFewer
    <2>5. CASE s = "handled"
      BY <2>1, <2>5 DEF Holds, HdFewer
    <2>6. CASE s = "setup"
      BY <2>6 DEF Holds, SetupFewer
    <2>7. CASE s = "working" \/ s = "answered"
      BY <2>7 DEF Holds
    <2> QED BY <2>2, <2>3, <2>4, <2>5, <2>6, <2>7 DEF Stages, Early
  <1>2. Alone'
    BY <1>1 DEF IInv, Tokens, Alone, Kept
  <1>3. NoCopies'
    BY DEF IInv, Tokens, NoCopies, AssocFewer, QueueFewer, SetupFewer
  <1>4. Known'
    BY <1>1 DEF IInv, Tokens, Known, Kept
  <1>5. Pending' \subseteq Pending
    BY <1>1 DEF Pending, Kept, Stages
  <1>6. Counted'
    BY <1>5, CountStays DEF IInv
  <1>7. Honest'
    BY DEF IInv, Honest
  <1> QED BY <1>2, <1>3, <1>4, <1>6, <1>7 DEF Tokens

\* The frames of the steps that leave a part alone.
LEMMA Stays ==
    /\ UNCHANGED assoc => AssocFewer
    /\ UNCHANGED rx => RxFewer
    /\ UNCHANGED hd => HdFewer
    /\ UNCHANGED handlerQ => QueueFewer
    /\ UNCHANGED setupQ => SetupFewer
  BY DEF AssocFewer, RxFewer, HdFewer, QueueFewer, SetupFewer

(***************************************************************************)
(* The steps that lose requests or touch none.                             *)
(***************************************************************************)
\* The bounds are numbers.
LEMMA Bounds ==
    /\ MaxConn \in Nat /\ MaxUpsets \in Nat /\ QueueMax \in Nat /\ Workers \in Nat
    /\ IsFiniteSet(Reqs) /\ Cardinality(Reqs) \in Nat
    /\ \A c \in Conns : c \in 0..MaxConn /\ c # 0 /\ c \in Links
    /\ \A c \in Links : c # 0 => c \in Conns
  BY SessionAssumption, FS_CardinalityType DEF Conns, Links

\* What the receive thread does after a message.
LEMMA LoopTypes ==
    ASSUME TypeOK, NEW g \in Gnbs
    PROVE  /\ RxLoop(g) \in [pc : {"none", "recv", "callback", "done"},
                             on : 0..MaxConn, msg : Messages \cup {<<>>}]
           /\ RxLoop(g).pc # "callback"
           /\ RxLoop(g).pc = "recv" => RxLoop(g).on \in Conns
           /\ HandlerLoop(g) \in [pc : {"none", "get", "run", "done"}, item : Reqs \cup {None}]
           /\ HandlerLoop(g).pc # "run"
  BY Bounds DEF TypeOK, RxLoop, HandlerLoop, Rx, Hd, RxDone, HdDone, Conns

\* The types in parts, each for a step to keep on its own.
GnbTypes ==
    /\ state \in [Gnbs -> {"IDLE", "NG_SETUP_SENT", "READY", "ERROR"}]
    /\ stop \in [Gnbs -> BOOLEAN]
    /\ sender \in [Gnbs -> {"ok", "failing", "failed"}]
MainTypes ==
    /\ sock \in [Gnbs -> 0..MaxConn]
    /\ main \in [Gnbs -> {"idle", "connected", "started", "idled", "poke", "close", "join"}]
    /\ conns \in [Gnbs -> 0..MaxConn]
Assocs   == [peer : {"none", "up", "lost", "closed", "gone"}, in : Seq(Messages)]
RxStates == [pc : {"none", "recv", "callback", "done"}, on : 0..MaxConn,
             msg : Messages \cup {<<>>}]
HdStates == [pc : {"none", "get", "run", "done"}, item : Reqs \cup {None}]
AssocTypes  == assoc \in [Gnbs -> [Conns -> Assocs]]
ThreadTypes == rx \in [Gnbs -> [Conns -> RxStates]] /\ hd \in [Gnbs -> [Conns -> HdStates]]
QueueTypes  == /\ handlerQ \in [Gnbs -> Seq(Reqs \cup {None})]
               /\ \A g \in Gnbs : Len(handlerQ[g]) <= QueueMax
SessionTypes ==
    /\ teidCounter \in [Gnbs -> Base..(Base + Cardinality(Reqs))]
    /\ attached \subseteq Ues
    /\ session \in [Ues -> [Psis -> Teids \cup {Absent, 0}]]
    /\ tunnels \subseteq Tunnel
WorkTypes ==
    /\ setupQ \in Seq(Jobs)
    /\ running \subseteq [pc : {"device", "insert", "send"}, job : Jobs]
    /\ Cardinality(running) <= Workers
AmfTypes ==
    /\ answers \in [Reqs -> Seq(Answer)]
    /\ built \subseteq Reqs
    /\ amfUe \in [Ues -> 0..MaxConn]
    /\ psrs \subseteq Reqs
    /\ upsets \in 0..MaxUpsets

\* They are the types.
LEMMA Types ==
    TypeOK <=> /\ GnbTypes /\ MainTypes /\ AssocTypes /\ ThreadTypes /\ QueueTypes
               /\ SessionTypes /\ WorkTypes /\ AmfTypes
  BY DEF TypeOK, GnbTypes, MainTypes, AssocTypes, ThreadTypes, QueueTypes, SessionTypes,
         WorkTypes, AmfTypes, Assocs, RxStates, HdStates

\* What the test thread is at, what the threads hold, and the workers.
MainShape    == \A g \in Gnbs : main[g] \in {"connected", "started"} =>
                                   sock[g] = conns[g] /\ conns[g] \in Conns
ThreadShape  == \A g \in Gnbs, c \in Conns :
                   /\ rx[g][c].pc = "recv" => rx[g][c].on \in Conns
                   /\ rx[g][c].pc = "callback" => rx[g][c].msg \in Messages
                   /\ hd[g][c].pc = "run" => hd[g][c].item \in Reqs

\* A part stays when nothing in it changes.
LEMMA PartsStay ==
    ASSUME IInv
    PROVE  /\ UNCHANGED <<state, stop, sender>> => GnbTypes'
           /\ UNCHANGED <<sock, main, conns>> => MainTypes' /\ MainShape'
           /\ UNCHANGED assoc => AssocTypes'
           /\ UNCHANGED <<rx, hd>> => ThreadTypes' /\ ThreadShape'
           /\ UNCHANGED handlerQ => QueueTypes'
           /\ UNCHANGED <<teidCounter, attached, session, tunnels>> => SessionTypes'
           /\ UNCHANGED <<setupQ, running>> => WorkTypes' /\ IsFiniteSet(running')
           /\ UNCHANGED <<answers, built, amfUe, psrs, upsets>> => AmfTypes'
  <1>1. /\ GnbTypes /\ MainTypes /\ AssocTypes /\ ThreadTypes /\ QueueTypes
        /\ SessionTypes /\ WorkTypes /\ AmfTypes /\ MainShape /\ ThreadShape
        /\ IsFiniteSet(running)
    BY Types DEF IInv, Shape, MainShape, ThreadShape
  <1>2. UNCHANGED <<state, stop, sender>> => GnbTypes'
    BY <1>1 DEF GnbTypes
  <1>3. UNCHANGED <<sock, main, conns>> => MainTypes' /\ MainShape'
    BY <1>1 DEF MainTypes, MainShape
  <1>4. UNCHANGED assoc => AssocTypes'
    BY <1>1 DEF AssocTypes
  <1>5. UNCHANGED <<rx, hd>> => ThreadTypes' /\ ThreadShape'
    BY <1>1 DEF ThreadTypes, ThreadShape
  <1>6. UNCHANGED handlerQ => QueueTypes'
    BY <1>1 DEF QueueTypes
  <1>7. UNCHANGED <<teidCounter, attached, session, tunnels>> => SessionTypes'
    BY <1>1 DEF SessionTypes
  <1>8. UNCHANGED <<setupQ, running>> => WorkTypes' /\ IsFiniteSet(running')
    BY <1>1 DEF WorkTypes
  <1>9. UNCHANGED <<answers, built, amfUe, psrs, upsets>> => AmfTypes'
    BY <1>1 DEF AmfTypes
  <1> QED BY <1>2, <1>3, <1>4, <1>5, <1>6, <1>7, <1>8, <1>9

\* The parts make the invariant again.
LEMMA PartsMake ==
    ASSUME GnbTypes', MainTypes', AssocTypes', ThreadTypes', QueueTypes', SessionTypes',
           WorkTypes', AmfTypes', MainShape', ThreadShape', IsFiniteSet(running'),
           Tokens', Counted', Honest'
    PROVE  IInv'
  <1>1. TypeOK'
    BY DEF TypeOK, GnbTypes, MainTypes, AssocTypes, ThreadTypes, QueueTypes, SessionTypes,
           WorkTypes, AmfTypes, Assocs, RxStates, HdStates
  <1>2. Shape'
    BY DEF Shape, MainShape, ThreadShape
  <1> QED BY <1>1, <1>2 DEF IInv

\* And the invariant gives them.
LEMMA PartsHold ==
    ASSUME IInv
    PROVE  /\ GnbTypes /\ MainTypes /\ AssocTypes /\ ThreadTypes /\ QueueTypes
           /\ SessionTypes /\ WorkTypes /\ AmfTypes /\ MainShape /\ ThreadShape
           /\ IsFiniteSet(running) /\ Alone /\ NoCopies /\ Known /\ Counted /\ Honest
  BY Types DEF IInv, Shape, MainShape, ThreadShape, Tokens

\* The send worker fails.
LEMMA InvariantSendWorkerFails ==
    ASSUME IInv, NEW g \in Gnbs, SendWorkerFails(g) PROVE IInv'
  <1>1. UNCHANGED <<sock, assoc, conns, main, rx, hd, handlerQ, teidCounter, attached, session,
                    setupQ, running, tunnels, answers, built, amfUe, psrs, upsets>>
    BY DEF SendWorkerFails, gtpu, amf
  <1>2. GnbTypes'
    BY PartsHold DEF GnbTypes, SendWorkerFails, MarkError
  <1>3. Tokens' /\ Counted' /\ Honest'
    BY <1>1, Stays, Fewer
  <1> QED BY <1>1, <1>2, <1>3, PartsStay, PartsMake

\* Attach, and the first and the last step of disconnect().
LEMMA InvariantQuiet ==
    ASSUME IInv, NEW g \in Gnbs,
           DisconnectIdle(g) \/ DisconnectJoin(g) \/ \E u \in Ues : Attach(g, u)
    PROVE  IInv'
  <1>1. UNCHANGED <<sock, assoc, conns, rx, hd, handlerQ, teidCounter, session,
                    setupQ, running, tunnels, answers, built, psrs, stop, sender>>
    BY DEF DisconnectIdle, DisconnectJoin, Attach, gtpu, amf, link
  <1>2. GnbTypes'
    BY <1>1, PartsHold DEF GnbTypes, DisconnectIdle, DisconnectJoin, Attach
  <1>3. MainTypes' /\ MainShape'
    BY <1>1, PartsHold DEF MainTypes, MainShape, DisconnectIdle, DisconnectJoin, Attach
  <1>4. SessionTypes'
    BY <1>1, PartsHold DEF SessionTypes, DisconnectIdle, DisconnectJoin, Attach
  <1>5. AmfTypes'
    BY <1>1, PartsHold, Bounds DEF AmfTypes, MainTypes, DisconnectIdle, DisconnectJoin, Attach, amf
  <1>6. Tokens' /\ Counted' /\ Honest'
    BY <1>1, Stays, Fewer
  <1> QED BY <1>1, <1>2, <1>3, <1>4, <1>5, <1>6, PartsStay, PartsMake

\* connect() opens an association, or fails to.
LEMMA InvariantConnect ==
    ASSUME IInv, NEW g \in Gnbs, ConnectFail(g) \/ ConnectSctp(g) PROVE IInv'
  <1>1. UNCHANGED <<stop, rx, hd, handlerQ, teidCounter, attached, session,
                    setupQ, running, tunnels, answers, built, amfUe, psrs, upsets>>
    BY DEF ConnectFail, ConnectSctp, gtpu, amf
  <1>2. PICK c \in Conns : c = conns[g] + 1
    BY PartsHold, Bounds DEF MainTypes, ConnectFail, ConnectSctp, Conns
  <1>3. PICK a \in Assocs : assoc' = [assoc EXCEPT ![g][c] = a] /\ a.in = <<>>
    <2>1. Assoc("gone", <<>>) \in Assocs /\ Assoc("up", <<>>) \in Assocs
      BY DEF Assoc, Assocs
    <2>2. Assoc("gone", <<>>).in = <<>> /\ Assoc("up", <<>>).in = <<>>
      BY DEF Assoc
    <2>3. \/ assoc' = [assoc EXCEPT ![g][c] = Assoc("gone", <<>>)]
          \/ assoc' = [assoc EXCEPT ![g][c] = Assoc("up", <<>>)]
      BY <1>2 DEF ConnectFail, ConnectSctp
    <2> QED BY <2>1, <2>2, <2>3
  <1>4. AssocFewer /\ AssocTypes'
    BY <1>3, EmptyHas, PartsHold DEF AssocFewer, AssocTypes
  <1>5. GnbTypes'
    BY <1>1, PartsHold DEF GnbTypes, ConnectFail, ConnectSctp
  <1>6. MainTypes' /\ MainShape'
    <2>1. /\ sock' = [sock EXCEPT ![g] = c] /\ conns' = [conns EXCEPT ![g] = c]
          /\ (main' = main /\ main[g] = "idle") \/ main' = [main EXCEPT ![g] = "connected"]
      BY <1>2 DEF ConnectFail, ConnectSctp
    <2> QED BY <2>1, PartsHold, Bounds DEF MainTypes, MainShape
  <1>7. Tokens' /\ Counted' /\ Honest'
    BY <1>1, <1>4, Stays, Fewer
  <1> QED BY <1>1, <1>4, <1>5, <1>6, <1>7, PartsStay, PartsMake

\* connect() starts the threads of its connection.
LEMMA InvariantConnectThreads ==
    ASSUME IInv, NEW g \in Gnbs, ConnectThreads(g) PROVE IInv'
  <1>1. UNCHANGED <<state, sock, sender, assoc, conns, handlerQ, teidCounter, attached, session,
                    setupQ, running, tunnels, answers, built, amfUe, psrs, upsets>>
    BY DEF ConnectThreads, gtpu, amf, link
  <1>2. PICK c \in Conns : c = conns[g] /\ sock[g] = c
    BY PartsHold DEF MainShape, ConnectThreads
  <1>3. /\ rx' = [rx EXCEPT ![g][c] = [pc |-> "recv", on |-> c, msg |-> <<>>]]
        /\ hd' = [hd EXCEPT ![g][c] = [pc |-> "get", item |-> None]]
    BY <1>2 DEF ConnectThreads, Rx, Hd
  <1>4. RxFewer /\ HdFewer
    BY <1>3, PartsHold DEF RxFewer, HdFewer, ThreadTypes
  <1>5. ThreadTypes'
    BY <1>3, PartsHold, Bounds DEF ThreadTypes, RxStates, HdStates
  <1>6. ThreadShape'
    BY <1>3, PartsHold DEF ThreadTypes, ThreadShape
  <1>7. GnbTypes' /\ MainTypes' /\ MainShape'
    BY <1>1, PartsHold DEF GnbTypes, MainTypes, MainShape, ConnectThreads
  <1>8. Tokens' /\ Counted' /\ Honest'
    BY <1>1, <1>4, Stays, Fewer
  <1> QED BY <1>1, <1>5, <1>6, <1>7, <1>8, PartsStay, PartsMake

\* A message that arrives is appended; it leaves the requests alone unless it is one.
LEMMA ArrivesHas ==
    ASSUME IInv, NEW g \in Gnbs, NEW a \in Conns, NEW m \in Messages, Arrives(g, a, m)
    PROVE  /\ AssocTypes'
           /\ \A h \in Gnbs, c \in Conns, r \in Reqs :
                 /\ Has(assoc'[h][c].in, {PsrMsg(r)}) =>
                       Has(assoc[h][c].in, {PsrMsg(r)}) \/ (m = PsrMsg(r) /\ h = g /\ c = a)
                 /\ m # PsrMsg(r) \/ ~Has(assoc[h][c].in, {PsrMsg(r)}) =>
                       (Once(assoc[h][c].in, {PsrMsg(r)}) => Once(assoc'[h][c].in, {PsrMsg(r)}))
  <1>1. assoc \in [Gnbs -> [Conns -> Assocs]]
    BY PartsHold DEF AssocTypes
  <1>2. PICK q \in Seq(Messages) : q = assoc[g][a].in
    BY <1>1 DEF Assocs
  <1>3. Append(q, m) \in Seq(Messages)
    BY AppendHas
  <1>4. PICK x \in Assocs : assoc' = [assoc EXCEPT ![g][a] = x] /\ x.in = Append(q, m)
    <2>1. Assoc(assoc[g][a].peer, Append(q, m)) \in Assocs
      BY <1>1, <1>3 DEF Assoc, Assocs
    <2>2. Assoc(assoc[g][a].peer, Append(q, m)).in = Append(q, m)
      BY DEF Assoc
    <2> QED BY <1>2, <2>1, <2>2 DEF Arrives
  <1>5. AssocTypes'
    BY <1>1, <1>4 DEF AssocTypes
  <1>6. /\ assoc'[g][a].in = Append(q, m)
        /\ \A h \in Gnbs, c \in Conns : h # g \/ c # a => assoc'[h][c] = assoc[h][c]
    BY <1>1, <1>4
  <1>7. ASSUME NEW r \in Reqs
        PROVE  /\ Has(Append(q, m), {PsrMsg(r)}) => Has(q, {PsrMsg(r)}) \/ m = PsrMsg(r)
               /\ m # PsrMsg(r) \/ ~Has(q, {PsrMsg(r)}) =>
                     (Once(q, {PsrMsg(r)}) => Once(Append(q, m), {PsrMsg(r)}))
    <2>1. m \in {PsrMsg(r)} <=> m = PsrMsg(r)
      OBVIOUS
    <2> QED BY <2>1, AppendHas
  <1> QED BY <1>2, <1>5, <1>6, <1>7

\* connect() sends NGSetupRequest; the AMF's answer arrives.
LEMMA InvariantConnectSetup ==
    ASSUME IInv, NEW g \in Gnbs, NEW x \in {"response", "failure"}, ConnectSetup(g, x)
    PROVE  IInv'
  <1>1. UNCHANGED <<stop, sock, conns, rx, hd, handlerQ, teidCounter, attached, session,
                    setupQ, running, tunnels, answers, built, amfUe, psrs, upsets>>
    BY DEF ConnectSetup, gtpu, amf
  <1>2. AssocFewer /\ AssocTypes'
    <2>1. CASE UNCHANGED assoc
      BY <2>1, Stays, PartsStay
    <2>2. CASE CanSend(g) /\ Arrives(g, sock[g], NGSetup(x))
      <3>1. NGSetup(x) \in Messages
        BY DEF Messages
      <3>2. sock[g] \in Conns
        BY <2>2, PartsHold, Bounds DEF CanSend, MainTypes, Links
      <3>3. \A r \in Reqs : NGSetup(x) # PsrMsg(r)
        BY MessageKinds
      <3> HIDE DEF Arrives, Has, Once
      <3> QED BY <2>2, <3>1, <3>2, <3>3, ArrivesHas DEF AssocFewer
    <2> QED BY <2>1, <2>2 DEF ConnectSetup
  <1>3. GnbTypes'
    BY <1>1, PartsHold DEF GnbTypes, ConnectSetup, SendOn
  <1>4. MainTypes' /\ MainShape'
    BY <1>1, PartsHold DEF MainTypes, MainShape, ConnectSetup
  <1>5. Tokens' /\ Counted' /\ Honest'
    BY <1>1, <1>2, Stays, Fewer
  <1> QED BY <1>1, <1>2, <1>3, <1>4, <1>5, PartsStay, PartsMake

\* disconnect() drops the setup jobs of every gNB and destroys tunnels.
LEMMA InvariantDisconnectCancel ==
    ASSUME IInv, NEW g \in Gnbs, DisconnectCancel(g) PROVE IInv'
  <1>1. /\ UNCHANGED <<state, sock, sender, assoc, conns, rx, hd, handlerQ, teidCounter,
                       attached, session, running, answers, built, amfUe, psrs, upsets>>
        /\ setupQ' = <<>> /\ tunnels' \subseteq tunnels
    BY DEF DisconnectCancel, DestroyTunnels, amf, link
  <1>2. SetupFewer
    BY <1>1, EmptyHas DEF SetupFewer
  <1>3. GnbTypes' /\ MainTypes' /\ MainShape'
    BY <1>1, PartsHold DEF GnbTypes, MainTypes, MainShape, DisconnectCancel
  <1>4. SessionTypes' /\ WorkTypes' /\ IsFiniteSet(running')
    BY <1>1, PartsHold DEF SessionTypes, WorkTypes
  <1>5. Tokens' /\ Counted' /\ Honest'
    BY <1>1, <1>2, Stays, Fewer
  <1> QED BY <1>1, <1>3, <1>4, <1>5, PartsStay, PartsMake

\* disconnect() puts the sentinel in the handler queue, if there is room.
LEMMA InvariantDisconnectPoke ==
    ASSUME IInv, NEW g \in Gnbs, DisconnectPoke(g) PROVE IInv'
  <1>1. UNCHANGED <<state, stop, sock, sender, assoc, conns, rx, hd, teidCounter, attached,
                    session, setupQ, running, tunnels, answers, built, amfUe, psrs, upsets>>
    BY DEF DisconnectPoke, gtpu, amf, link
  <1>2. MainTypes' /\ MainShape'
    BY <1>1, PartsHold DEF MainTypes, MainShape, DisconnectPoke
  <1>3. CASE UNCHANGED handlerQ
    BY <1>1, <1>2, <1>3, Stays, Fewer, PartsStay, PartsMake
  <1>4. CASE Len(handlerQ[g]) < QueueMax /\ handlerQ' = [handlerQ EXCEPT ![g] = Append(handlerQ[g], None)]
    <2>1. PICK q \in Seq(Reqs \cup {None}) : q = handlerQ[g]
      BY PartsHold DEF QueueTypes
    <2>2. /\ Append(q, None) \in Seq(Reqs \cup {None}) /\ Len(Append(q, None)) = Len(q) + 1
          /\ Len(q) \in Nat /\ Len(q) < QueueMax
          /\ \A r \in Reqs : /\ Has(Append(q, None), {r}) => Has(q, {r})
                             /\ Once(q, {r}) => Once(Append(q, None), {r})
      BY <1>4, <2>1, AppendHas, MessageKinds
    <2>3. PICK p : p = Append(q, None)
      OBVIOUS
    <2>4. handlerQ' = [handlerQ EXCEPT ![g] = p]
      BY <1>4, <2>1, <2>3
    <2>5. QueueFewer
      BY <2>1, <2>2, <2>3, <2>4, PartsHold DEF QueueTypes, QueueFewer
    <2>6. QueueTypes'
      BY <2>1, <2>2, <2>3, <2>4, Bounds, PartsHold DEF QueueTypes
    <2>7. Tokens' /\ Counted' /\ Honest'
      BY <1>1, <2>5, Stays, Fewer
    <2> QED BY <1>1, <1>2, <2>6, <2>7, PartsStay, PartsMake
  <1> QED BY <1>3, <1>4 DEF DisconnectPoke

\* disconnect() closes the socket.
LEMMA InvariantDisconnectClose ==
    ASSUME IInv, NEW g \in Gnbs, DisconnectClose(g) PROVE IInv'
  <1>1. UNCHANGED <<state, stop, sender, conns, rx, hd, handlerQ, teidCounter, attached, session,
                    setupQ, running, tunnels, answers, built, amfUe, psrs, upsets>>
    BY DEF DisconnectClose, gtpu, amf
  <1>2. AssocFewer /\ AssocTypes'
    <2>1. CASE UNCHANGED assoc
      BY <2>1, Stays, PartsStay
    <2>2. ASSUME NEW p \in {"closed", "gone"}, sock[g] # 0,
                 assoc' = [assoc EXCEPT ![g][sock[g]] = Assoc(p, <<>>)]
          PROVE  AssocFewer /\ AssocTypes'
      <3>1. PICK c \in Conns : c = sock[g]
        BY <2>2, PartsHold, Bounds DEF MainTypes, Links
      <3>2. Assoc(p, <<>>) \in Assocs /\ Assoc(p, <<>>).in = <<>>
        BY DEF Assoc, Assocs
      <3>3. PICK a \in Assocs : a = Assoc(p, <<>>) /\ a.in = <<>>
        BY <3>2
      <3> QED BY <2>2, <3>1, <3>3, EmptyHas, PartsHold DEF AssocFewer, AssocTypes
    <2>3. CASE sock[g] # 0
      <3>1. PICK p \in {"closed", "gone"} : assoc' = [assoc EXCEPT ![g][sock[g]] = Assoc(p, <<>>)]
        BY <2>3, Zenon DEF DisconnectClose
      <3> QED BY <2>2, <2>3, <3>1
    <2>4. CASE sock[g] = 0
      BY <2>1, <2>4 DEF DisconnectClose
    <2> QED BY <2>3, <2>4
  <1>3. MainTypes' /\ MainShape'
    BY <1>1, PartsHold, Bounds DEF MainTypes, MainShape, DisconnectClose
  <1>4. Tokens' /\ Counted' /\ Honest'
    BY <1>1, <1>2, Stays, Fewer
  <1> QED BY <1>1, <1>2, <1>3, <1>4, PartsStay, PartsMake

(***************************************************************************)
(* The receive threads.                                                    *)
(***************************************************************************)
\* A receive thread that puts down what it holds.
LEMMA RxPutsDown ==
    ASSUME IInv, NEW g \in Gnbs, NEW c \in Conns, NEW x \in RxStates, UNCHANGED hd,
           x.pc # "callback", x.pc = "recv" => x.on \in Conns, rx' = [rx EXCEPT ![g][c] = x]
    PROVE  RxFewer /\ ThreadTypes' /\ ThreadShape'
  <1>1. RxFewer
    BY PartsHold DEF RxFewer, ThreadTypes
  <1>2. ThreadTypes'
    BY PartsHold DEF ThreadTypes
  <1>3. ThreadShape'
    BY PartsHold DEF ThreadTypes, ThreadShape
  <1> QED BY <1>1, <1>2, <1>3

\* The end of the thread, and the start of its loop, are such states.
LEMMA RxEnds ==
    ASSUME IInv, NEW g \in Gnbs
    PROVE  /\ RxDone \in RxStates /\ RxDone.pc = "done"
           /\ RxLoop(g) \in RxStates /\ RxLoop(g).pc # "callback"
           /\ RxLoop(g).pc = "recv" => RxLoop(g).on \in Conns
  <1>1. RxDone \in RxStates /\ RxDone.pc = "done"
    BY Bounds DEF RxDone, Rx, RxStates
  <1> QED BY <1>1, LoopTypes DEF RxStates, IInv

\* The thread ends: a terminal notification, or the end of a closed socket.
LEMMA InvariantRxEnd ==
    ASSUME IInv, NEW g \in Gnbs, NEW c \in Conns, RxTerminal(g, c) \/ RxEof(g, c) PROVE IInv'
  <1>1. /\ UNCHANGED <<sock, conns, main, hd, handlerQ, teidCounter, attached, session,
                       setupQ, running, tunnels, answers, built, amfUe, psrs, upsets>>
        /\ rx' = [rx EXCEPT ![g][c] = RxDone]
    BY DEF RxTerminal, RxEof, gtpu, amf, link
  <1>2. PICK a \in Conns : a = rx[g][c].on
    BY PartsHold DEF ThreadShape, RxTerminal, RxEof
  <1>3. AssocFewer /\ AssocTypes'
    <2>1. CASE UNCHANGED assoc
      BY <2>1, Stays, PartsStay
    <2>2. CASE assoc' = [assoc EXCEPT ![g][a] = Assoc("gone", <<>>)]
      <3>1. Assoc("gone", <<>>) \in Assocs /\ Assoc("gone", <<>>).in = <<>>
        BY DEF Assoc, Assocs
      <3>2. PICK x \in Assocs : x = Assoc("gone", <<>>) /\ x.in = <<>>
        BY <3>1
      <3> QED BY <2>2, <3>2, EmptyHas, PartsHold DEF AssocFewer, AssocTypes
    <2> QED BY <1>2, <2>1, <2>2 DEF RxTerminal, RxEof, link
  <1>4. RxFewer /\ ThreadTypes' /\ ThreadShape'
    BY <1>1, RxEnds, RxPutsDown
  <1>5. GnbTypes'
    BY PartsHold DEF GnbTypes, RxTerminal, RxEof, MarkError, link
  <1>6. Tokens' /\ Counted' /\ Honest'
    BY <1>1, <1>3, <1>4, Stays, Fewer
  <1> QED BY <1>1, <1>3, <1>4, <1>5, <1>6, PartsStay, PartsMake

\* An answer to NG Setup, or a release command, is handled.
LEMMA InvariantRxHandles ==
    ASSUME IInv, NEW g \in Gnbs, NEW c \in Conns, OnNGSetup(g, c) \/ OnRelease(g, c) PROVE IInv'
  <1>1. /\ UNCHANGED <<sock, conns, assoc, main, hd, handlerQ, teidCounter, session,
                       setupQ, running, answers, built, amfUe, psrs, upsets>>
        /\ rx' = [rx EXCEPT ![g][c] = RxLoop(g)]
    BY DEF OnNGSetup, OnRelease, RxBack, gtpu, amf, link
  <1>2. tunnels' \subseteq tunnels /\ attached' \subseteq attached
    BY DEF OnNGSetup, OnRelease, DestroyTunnels, gtpu
  <1>3. RxFewer /\ ThreadTypes' /\ ThreadShape'
    BY <1>1, RxEnds, RxPutsDown
  <1>4. GnbTypes'
    BY PartsHold DEF GnbTypes, OnNGSetup, OnRelease, MarkError, SendOn, link
  <1>5. SessionTypes'
    BY <1>1, <1>2, PartsHold DEF SessionTypes
  <1>6. Tokens' /\ Counted' /\ Honest'
    BY <1>1, <1>3, Stays, Fewer
  <1> QED BY <1>1, <1>3, <1>4, <1>5, <1>6, PartsStay, PartsMake

\* The AMF tears an association down, or releases a UE.
LEMMA InvariantAmfDown ==
    ASSUME IInv, NEW g \in Gnbs, NEW c \in Conns, AmfDown(g, c) PROVE IInv'
  <1>1. UNCHANGED <<state, stop, sock, sender, conns, main, rx, hd, handlerQ, teidCounter,
                    attached, session, setupQ, running, tunnels, answers, built, amfUe, psrs>>
    BY DEF AmfDown, gtpu
  <1>2. PICK x \in Assocs : assoc' = [assoc EXCEPT ![g][c] = x] /\ x.in = assoc[g][c].in
    <2>1. /\ Assoc("lost", assoc[g][c].in) \in Assocs
          /\ Assoc("lost", assoc[g][c].in).in = assoc[g][c].in
      BY PartsHold DEF AssocTypes, Assoc, Assocs
    <2> QED BY <2>1 DEF AmfDown
  <1>3. AssocFewer /\ AssocTypes'
    BY <1>2, PartsHold DEF AssocFewer, AssocTypes
  <1>4. AmfTypes'
    BY <1>1, Bounds, PartsHold DEF AmfTypes, AmfDown
  <1>5. Tokens' /\ Counted' /\ Honest'
    BY <1>1, <1>3, Stays, Fewer
  <1> QED BY <1>1, <1>3, <1>4, <1>5, PartsStay, PartsMake

\* Release(u) arrives where the AMF has the context of u.
LEMMA InvariantAmfRelease ==
    ASSUME IInv, NEW u \in Ues, AmfRelease(u) PROVE IInv'
  <1>1. UNCHANGED <<state, stop, sock, sender, conns, main, rx, hd, handlerQ, teidCounter,
                    attached, session, setupQ, running, tunnels, answers, built, psrs>>
    BY DEF AmfRelease, AmfSends, gtpu
  <1>2. PICK g \in Gnbs, a \in Conns : Arrives(g, a, Release(u))
    <2>1. Serving[u] \in Gnbs
      BY SessionAssumption
    <2>2. amfUe[u] \in Conns
      BY PartsHold, Bounds DEF AmfTypes, AmfRelease, AmfSends, Links
    <2> QED BY <2>1, <2>2 DEF AmfRelease, AmfSends
  <1>3. AssocFewer /\ AssocTypes'
    <2>1. Release(u) \in Messages /\ \A r \in Reqs : Release(u) # PsrMsg(r)
      BY MessageKinds DEF Messages
    <2> HIDE DEF Arrives, Has, Once
    <2> QED BY <1>2, <2>1, ArrivesHas DEF AssocFewer
  <1>4. AmfTypes'
    BY <1>1, Bounds, PartsHold DEF AmfTypes, AmfRelease
  <1>5. Tokens' /\ Counted' /\ Honest'
    BY <1>1, <1>3, Stays, Fewer
  <1> QED BY <1>1, <1>3, <1>4, <1>5, PartsStay, PartsMake

(***************************************************************************)
(* The steps that move a request on.                                       *)
(***************************************************************************)
\* A request leaves one place for at most one other, which is no earlier.
LEMMA TokensMove ==
    ASSUME IInv, NEW r \in Reqs, NEW s \in Stages, NEW g \in Gnbs, NEW c \in Links,
           NEW t \in Stages, NEW h \in Gnbs, NEW d \in Links, t \in Early => s \in Early,
           Holds(r, s, g, c), ~Holds(r, s, g, c)', MovesTo(r, t, h, d), NoCopies', psrs' = psrs
    PROVE  Tokens' /\ Pending' \subseteq Pending
  <1>1. Alone /\ Known
    BY PartsHold
  <1>2. Alone'
    BY <1>1, AloneMoves
  <1>3. Known'
    BY <1>1 DEF Known, MovesTo
  <1>4. Pending' \subseteq Pending
    <2> SUFFICES ASSUME NEW q \in Pending' PROVE q \in Pending
      OBVIOUS
    <2>1. CASE q \notin psrs'
      BY <2>1 DEF Pending
    <2>2. CASE \E x \in Early, k \in Gnbs, l \in Links : Holds(q, x, k, l)'
      <3>1. PICK x \in Early, k \in Gnbs, l \in Links : Holds(q, x, k, l)'
        BY <2>2
      <3>2. q \in Reqs /\ x \in Stages
        BY DEF Pending, Stages
      <3>3. Holds(q, x, k, l) \/ (q = r /\ x = t)
        BY <3>1, <3>2 DEF MovesTo
      <3>4. CASE Holds(q, x, k, l)
        BY <3>2, <3>4 DEF Pending
      <3>5. CASE q = r /\ x = t
        BY <3>5, <3>2 DEF Pending
      <3> QED BY <3>3, <3>4, <3>5
    <2> QED BY <2>1, <2>2 DEF Pending
  <1> QED BY <1>2, <1>3, <1>4 DEF Tokens

\* The receive thread takes a message off its association.
LEMMA InvariantRxRecv ==
    ASSUME IInv, NEW g \in Gnbs, NEW c \in Conns, RxRecv(g, c) PROVE IInv'
  <1>1. UNCHANGED <<state, stop, sock, sender, conns, main, hd, handlerQ, teidCounter, attached,
                    session, setupQ, running, tunnels, answers, built, amfUe, psrs, upsets>>
    BY DEF RxRecv, gtpu, amf
  <1>2. PICK a \in Conns : a = rx[g][c].on
    BY PartsHold DEF ThreadShape, RxRecv
  <1>3. PICK q \in Seq(Messages) : q = assoc[g][a].in /\ q # <<>>
    BY <1>2, PartsHold DEF AssocTypes, Assocs, RxRecv
  <1>4. /\ Head(q) \in Messages /\ Tail(q) \in Seq(Messages)
        /\ \A X : /\ Has(Tail(q), X) => Has(q, X)
                  /\ Once(q, X) => Once(Tail(q), X)
                  /\ Head(q) \in X => Has(q, X)
                  /\ Head(q) \in X /\ Once(q, X) => ~Has(Tail(q), X)
    BY <1>3, TailHas
  <1>5. PICK m \in Messages, p \in Seq(Messages) : m = Head(q) /\ p = Tail(q)
    BY <1>4
  <1>6. PICK x \in Assocs : assoc' = [assoc EXCEPT ![g][a] = x] /\ x.in = p
    <2>1. Assoc(assoc[g][a].peer, p) \in Assocs /\ Assoc(assoc[g][a].peer, p).in = p
      BY PartsHold DEF AssocTypes, Assoc, Assocs
    <2> QED BY <1>2, <1>3, <1>5, <2>1 DEF RxRecv
  <1>7. rx' = [rx EXCEPT ![g][c] = [pc |-> "callback", on |-> a, msg |-> m]]
    BY <1>2, <1>3, <1>5 DEF RxRecv, Rx
  <1>8. ThreadTypes' /\ ThreadShape' /\ AssocTypes'
    <2>1. ThreadTypes'
      BY <1>1, <1>7, Bounds, PartsHold DEF ThreadTypes, RxStates
    <2>2. ThreadShape'
      BY <1>1, <1>7, PartsHold DEF ThreadTypes, ThreadShape
    <2>3. AssocTypes'
      BY <1>6, PartsHold DEF AssocTypes
    <2> QED BY <2>1, <2>2, <2>3
  <1> HIDE DEF Has, Once
  <1>9. AssocFewer
    BY <1>3, <1>4, <1>5, <1>6, PartsHold DEF AssocFewer, AssocTypes
  <1>10. Tokens' /\ Counted' /\ Honest'
    <2>1. CASE \A r \in Reqs : m # PsrMsg(r)
      <3>1. RxFewer
        BY <1>7, <2>1, PartsHold DEF RxFewer, ThreadTypes
      <3> QED BY <1>1, <1>9, <3>1, Stays, Fewer
    <2>2. CASE \E r \in Reqs : m = PsrMsg(r)
      <3>1. PICK r \in Reqs : m = PsrMsg(r)
        BY <2>2
      <3>2. a # 0 /\ a \in Links /\ c # 0 /\ c \in Links /\ \A l \in Links : l # 0 => l \in Conns
        BY Bounds
      <3>3. Holds(r, "sent", g, a) /\ ~Holds(r, "sent", g, a)'
        <4>1. Has(q, {PsrMsg(r)}) /\ ~Has(p, {PsrMsg(r)})
          BY <1>3, <1>4, <1>5, <3>1, PartsHold DEF NoCopies
        <4>2. assoc'[g][a].in = p
          BY <1>6, PartsHold DEF AssocTypes
        <4> QED BY <1>3, <3>2, <4>1, <4>2 DEF Holds
      <3>4. MovesTo(r, "received", g, c)
        <4> SUFFICES ASSUME NEW b \in Reqs, NEW s \in Stages, NEW k \in Gnbs, NEW l \in Links,
                            Holds(b, s, k, l)'
                     PROVE  Holds(b, s, k, l) \/ (b = r /\ s = "received" /\ k = g /\ l = c)
          BY DEF MovesTo
        <4>1. CASE s = "sent"
          BY <1>9, <3>2, <4>1 DEF Holds, AssocFewer
        <4>2. CASE s = "received"
          <5>1. l \in Conns /\ rx'[k][l].pc = "callback" /\ rx'[k][l].msg = PsrMsg(b)
            BY <3>2, <4>2 DEF Holds
          <5>2. CASE k = g /\ l = c
            <6>1. m = PsrMsg(b)
              BY <1>7, <5>1, <5>2, PartsHold DEF ThreadTypes
            <6> QED BY <3>1, <4>2, <5>2, <6>1, MessageKinds
          <5>3. CASE ~(k = g /\ l = c)
            <6>1. rx'[k][l] = rx[k][l]
              BY <1>7, <5>1, <5>3, PartsHold DEF ThreadTypes
            <6> QED BY <4>2, <5>1, <6>1, <3>2 DEF Holds, Conns
          <5> QED BY <5>2, <5>3
        <4>3. CASE s \in Stages \ {"sent", "received"}
          BY <1>1, <4>3 DEF Holds
        <4> QED BY <4>1, <4>2, <4>3
      <3>5. NoCopies'
        BY <1>1, <1>9, PartsHold DEF NoCopies, AssocFewer
      <3>6. /\ {"sent", "received"} \subseteq Stages /\ "sent" \in Early
        BY DEF Stages, Early
      <3>7. Tokens' /\ Pending' \subseteq Pending
        BY <1>1, <3>2, <3>3, <3>4, <3>5, <3>6, TokensMove
      <3>8. Counted'
        BY <1>1, <3>7, CountStays, PartsHold DEF IInv
      <3> QED BY <1>1, <3>7, <3>8, PartsHold DEF Honest
    <2> QED BY <2>1, <2>2
  <1> QED BY <1>1, <1>8, <1>10, PartsStay, PartsMake

\* The receive thread puts a request in the handler queue, or drops it.
LEMMA InvariantOnPsr ==
    ASSUME IInv, NEW g \in Gnbs, NEW c \in Conns, OnPsr(g, c) PROVE IInv'
  <1>1. /\ UNCHANGED <<state, stop, sock, sender, assoc, conns, main, hd, teidCounter, attached,
                       session, setupQ, running, tunnels, answers, built, amfUe, psrs, upsets>>
        /\ rx' = [rx EXCEPT ![g][c] = RxLoop(g)]
    BY DEF OnPsr, RxBack, gtpu, amf, link
  <1>2. RxFewer /\ ThreadTypes' /\ ThreadShape'
    BY <1>1, RxEnds, RxPutsDown
  <1>3. PICK r \in Reqs : rx[g][c].pc = "callback" /\ rx[g][c].msg = PsrMsg(r) /\ rx[g][c].msg.req = r
    <2>1. rx[g][c].pc = "callback" /\ rx[g][c].msg \in Messages /\ rx[g][c].msg.type = "psr"
      BY PartsHold DEF OnPsr, ThreadShape
    <2> QED BY <2>1 DEF Messages, PsrMsg, Release, NGSetup
  <1>4. CASE UNCHANGED handlerQ
    <2>1. Tokens' /\ Counted' /\ Honest'
      BY <1>1, <1>2, <1>4, Stays, Fewer
    <2> QED BY <1>1, <1>2, <1>4, <2>1, PartsStay, PartsMake
  <1>5. CASE Len(handlerQ[g]) < QueueMax /\ handlerQ' = [handlerQ EXCEPT ![g] = Append(handlerQ[g], r)]
    <2>1. PICK q \in Seq(Reqs \cup {None}) : q = handlerQ[g]
      BY PartsHold DEF QueueTypes
    <2>2. PICK p : p = Append(q, r)
      OBVIOUS
    <2>3. /\ p \in Seq(Reqs \cup {None}) /\ Len(p) = Len(q) + 1 /\ Len(q) \in Nat /\ Len(q) < QueueMax
          /\ \A b \in Reqs : /\ Has(p, {b}) => Has(q, {b}) \/ b = r
                             /\ b # r \/ ~Has(q, {b}) => (Once(q, {b}) => Once(p, {b}))
      BY <1>5, <2>1, <2>2, AppendHas
    <2>4. handlerQ' = [handlerQ EXCEPT ![g] = p]
      BY <1>5, <2>1, <2>2
    <2>5. QueueTypes'
      BY <2>1, <2>3, <2>4, Bounds, PartsHold DEF QueueTypes
    <2> HIDE DEF Has, Once
    <2>6. c # 0 /\ c \in Links /\ 0 \in Links /\ \A l \in Links : l # 0 => l \in Conns
      BY Bounds DEF Links
    <2>7. {"received", "queued"} \subseteq Stages /\ "received" \in Early
      BY DEF Stages, Early
    <2>8. Holds(r, "received", g, c) /\ ~Holds(r, "received", g, c)'
      <3>1. rx'[g][c].pc # "callback"
        BY <1>1, RxEnds, PartsHold DEF ThreadTypes
      <3> QED BY <1>3, <2>6, <3>1 DEF Holds
    <2>9. ~Has(q, {r})
      <3>1. ~Holds(r, "queued", g, 0)
        BY <2>6, <2>7, <2>8, PartsHold DEF Alone
      <3> QED BY <2>1, <3>1 DEF Holds
    <2>10. MovesTo(r, "queued", g, 0)
      <3> SUFFICES ASSUME NEW b \in Reqs, NEW s \in Stages, NEW k \in Gnbs, NEW l \in Links,
                          Holds(b, s, k, l)'
                   PROVE  Holds(b, s, k, l) \/ (b = r /\ s = "queued" /\ k = g /\ l = 0)
        BY DEF MovesTo
      <3>1. CASE s = "received"
        BY <1>2, <2>6, <3>1 DEF Holds, RxFewer
      <3>2. CASE s = "queued"
        BY <2>1, <2>3, <2>4, <3>2, PartsHold DEF Holds, QueueTypes
      <3>3. CASE s \in Stages \ {"received", "queued"}
        BY <1>1, <3>3 DEF Holds
      <3> QED BY <3>1, <3>2, <3>3
    <2>11. \A k \in Gnbs, b \in Reqs : Once(handlerQ'[k], {b})
      BY <2>1, <2>3, <2>4, <2>9, PartsHold DEF NoCopies, QueueTypes
    <2>12. NoCopies'
      BY <1>1, <2>11, PartsHold DEF NoCopies
    <2>13. Tokens' /\ Pending' \subseteq Pending
      BY <1>1, <2>6, <2>7, <2>8, <2>10, <2>12, TokensMove
    <2>14. Counted'
      BY <1>1, <2>13, CountStays, PartsHold DEF IInv
    <2>15. Honest'
      BY <1>1, PartsHold DEF Honest
    <2> QED BY <1>1, <1>2, <2>5, <2>13, <2>14, <2>15, PartsStay, PartsMake
  <1> QED BY <1>3, <1>4, <1>5 DEF OnPsr

\* The handler thread takes a request or the sentinel off its queue, or ends.
LEMMA InvariantHandlerGet ==
    ASSUME IInv, NEW g \in Gnbs, NEW c \in Conns, HandlerGet(g, c) PROVE IInv'
  <1>1. UNCHANGED <<state, stop, sock, sender, assoc, conns, main, rx, teidCounter, attached,
                    session, setupQ, running, tunnels, answers, built, amfUe, psrs, upsets>>
    BY DEF HandlerGet, gtpu, amf, link
  <1>2. hd[g][c].pc = "get"
    BY DEF HandlerGet
  <1>3. CASE handlerQ[g] = <<>>
    <2>1. UNCHANGED handlerQ /\ hd' = [hd EXCEPT ![g][c] = [pc |-> "done", item |-> None]]
      BY <1>3 DEF HandlerGet, HdDone, Hd
    <2>2. HdFewer /\ ThreadTypes' /\ ThreadShape'
      BY <1>1, <2>1, PartsHold DEF HdFewer, ThreadTypes, ThreadShape, HdStates
    <2>3. Tokens' /\ Counted' /\ Honest'
      BY <1>1, <2>1, <2>2, Stays, Fewer
    <2> QED BY <1>1, <2>1, <2>2, <2>3, PartsStay, PartsMake
  <1>4. CASE handlerQ[g] # <<>>
    <2>1. PICK q \in Seq(Reqs \cup {None}) : q = handlerQ[g] /\ q # <<>>
      BY <1>4, PartsHold DEF QueueTypes
    <2>2. PICK x \in Reqs \cup {None}, p \in Seq(Reqs \cup {None}) : x = Head(q) /\ p = Tail(q)
      BY <2>1, TailHas
    <2>3. /\ Len(p) = Len(q) - 1 /\ Len(q) \in Nat /\ Len(q) <= QueueMax
          /\ \A X : /\ Has(p, X) => Has(q, X)
                    /\ Once(q, X) => Once(p, X)
                    /\ x \in X => Has(q, X)
                    /\ x \in X /\ Once(q, X) => ~Has(p, X)
      BY <2>1, <2>2, TailHas, PartsHold DEF QueueTypes
    <2>4. /\ handlerQ' = [handlerQ EXCEPT ![g] = p]
          /\ hd' = [hd EXCEPT ![g][c] = IF x = None THEN [pc |-> "done", item |-> None]
                                        ELSE [pc |-> "run", item |-> x]]
      BY <1>4, <2>1, <2>2 DEF HandlerGet, HdDone, Hd
    <2>5. QueueTypes'
      BY <2>3, <2>4, Bounds, PartsHold DEF QueueTypes
    <2> HIDE DEF Has, Once
    <2>6. QueueFewer
      BY <2>1, <2>3, <2>4, PartsHold DEF QueueFewer, QueueTypes
    <2>7. ThreadTypes' /\ ThreadShape'
      <3>1. CASE x = None
        BY <1>1, <2>4, <3>1, PartsHold DEF ThreadTypes, ThreadShape, HdStates
      <3>2. CASE x # None
        BY <1>1, <2>4, <3>2, PartsHold DEF ThreadTypes, ThreadShape, HdStates
      <3> QED BY <3>1, <3>2
    <2>8. Tokens' /\ Counted' /\ Honest'
      <3>1. CASE x = None
        <4>1. HdFewer
          BY <2>4, <3>1, PartsHold DEF HdFewer, ThreadTypes
        <4> QED BY <1>1, <2>6, <4>1, Stays, Fewer
      <3>2. CASE x # None
        <4>1. PICK r \in Reqs : r = x
          BY <3>2
        <4>2. c # 0 /\ c \in Links /\ 0 \in Links /\ \A l \in Links : l # 0 => l \in Conns
          BY Bounds DEF Links
        <4>3. {"queued", "handled"} \subseteq Stages /\ "queued" \in Early
          BY DEF Stages, Early
        <4>4. Holds(r, "queued", g, 0) /\ ~Holds(r, "queued", g, 0)'
          <5>1. Has(q, {r}) /\ ~Has(p, {r})
            BY <2>1, <2>3, <4>1, PartsHold DEF NoCopies
          <5>2. handlerQ'[g] = p
            BY <2>4, PartsHold DEF QueueTypes
          <5> QED BY <2>1, <5>1, <5>2 DEF Holds
        <4>5. hd' = [hd EXCEPT ![g][c] = [pc |-> "run", item |-> r]]
          BY <2>4, <3>2, <4>1
        <4>6. MovesTo(r, "handled", g, c)
          <5> SUFFICES ASSUME NEW b \in Reqs, NEW s \in Stages, NEW k \in Gnbs, NEW l \in Links,
                              Holds(b, s, k, l)'
                       PROVE  Holds(b, s, k, l) \/ (b = r /\ s = "handled" /\ k = g /\ l = c)
            BY DEF MovesTo
          <5>1. CASE s = "queued"
            BY <2>6, <5>1 DEF Holds, QueueFewer
          <5>2. CASE s = "handled"
            <6>1. l # 0 /\ l \in Conns /\ hd'[k][l].pc = "run" /\ hd'[k][l].item = b
              BY <4>2, <5>2 DEF Holds
            <6>2. CASE k = g /\ l = c
              BY <4>5, <5>2, <6>1, <6>2, PartsHold DEF ThreadTypes
            <6>3. CASE ~(k = g /\ l = c)
              <7>1. hd'[k][l] = hd[k][l]
                BY <4>5, <6>1, <6>3, PartsHold DEF ThreadTypes
              <7> QED BY <5>2, <6>1, <7>1 DEF Holds
            <6> QED BY <6>2, <6>3
          <5>3. CASE s \in Stages \ {"queued", "handled"}
            BY <1>1, <5>3 DEF Holds
          <5> QED BY <5>1, <5>2, <5>3
        <4>7. NoCopies'
          BY <1>1, <2>6, PartsHold DEF NoCopies, QueueFewer
        <4>8. Tokens' /\ Pending' \subseteq Pending
          BY <1>1, <4>2, <4>3, <4>4, <4>6, <4>7, TokensMove
        <4>9. Counted'
          BY <1>1, <4>8, CountStays, PartsHold DEF IInv
        <4> QED BY <1>1, <4>8, <4>9, PartsHold DEF Honest
      <3> QED BY <3>1, <3>2
    <2> QED BY <1>1, <2>5, <2>7, <2>8, PartsStay, PartsMake
  <1> QED BY <1>3, <1>4

\* The AMF sends a request: it is nowhere yet.
LEMMA InvariantAmfPsr ==
    ASSUME IInv, NEW r \in Reqs, AmfPsr(r) PROVE IInv'
  <1>1. /\ UNCHANGED <<state, stop, sock, sender, conns, main, rx, hd, handlerQ, teidCounter,
                       attached, session, setupQ, running, tunnels, answers, built, amfUe, upsets>>
        /\ r \notin psrs /\ psrs' = psrs \cup {r}
    BY DEF AmfPsr, AmfSends, gtpu
  <1>2. PICK g \in Gnbs, a \in Conns : Arrives(g, a, PsrMsg(r))
    <2>1. r.ue \in Ues /\ Serving[r.ue] \in Gnbs
      BY SessionAssumption
    <2>2. amfUe[r.ue] \in Conns
      BY <2>1, PartsHold, Bounds DEF AmfTypes, AmfPsr, AmfSends, Links
    <2> QED BY <2>1, <2>2 DEF AmfPsr, AmfSends
  <1>3. PsrMsg(r) \in Messages
    BY DEF Messages
  <1>4. \A b \in Reqs : PsrMsg(r) = PsrMsg(b) => b = r
    BY MessageKinds
  <1>5. \A b \in Links : b # 0 => b \in Conns
    BY Bounds
  <1> HIDE DEF Has, Once, Arrives
  <1>6. AssocTypes'
    BY <1>2, <1>3, ArrivesHas
  <1>7. \A s \in Stages, k \in Gnbs, l \in Links : ~Holds(r, s, k, l)
    BY <1>1, PartsHold DEF Known
  <1>8. MovesTo(r, "sent", g, a)
    <2> SUFFICES ASSUME NEW b \in Reqs, NEW s \in Stages, NEW k \in Gnbs, NEW l \in Links,
                        Holds(b, s, k, l)'
                 PROVE  Holds(b, s, k, l) \/ (b = r /\ s = "sent" /\ k = g /\ l = a)
      BY DEF MovesTo
    <2>1. CASE s = "sent"
      <3>1. l \in Conns /\ l # 0 /\ Has(assoc'[k][l].in, {PsrMsg(b)})
        BY <1>5, <2>1 DEF Holds
      <3>2. Has(assoc[k][l].in, {PsrMsg(b)}) \/ (PsrMsg(r) = PsrMsg(b) /\ k = g /\ l = a)
        BY <1>2, <1>3, <3>1, ArrivesHas
      <3> QED BY <1>4, <2>1, <3>1, <3>2 DEF Holds
    <2>2. CASE s \in Stages \ {"sent"}
      BY <1>1, <2>2 DEF Holds
    <2> QED BY <2>1, <2>2
  <1>9. NoCopies'
    <2>1. \A k \in Gnbs, l \in Conns : ~Has(assoc[k][l].in, {PsrMsg(r)})
      <3> SUFFICES ASSUME NEW k \in Gnbs, NEW l \in Conns PROVE ~Has(assoc[k][l].in, {PsrMsg(r)})
        OBVIOUS
      <3>1. "sent" \in Stages /\ l \in Links /\ l # 0
        BY Bounds DEF Stages, Early
      <3> QED BY <1>7, <3>1 DEF Holds
    <2>2. \A k \in Gnbs, l \in Conns, b \in Reqs : Once(assoc'[k][l].in, {PsrMsg(b)})
      <3> SUFFICES ASSUME NEW k \in Gnbs, NEW l \in Conns, NEW b \in Reqs
                   PROVE  Once(assoc'[k][l].in, {PsrMsg(b)})
        OBVIOUS
      <3>1. Once(assoc[k][l].in, {PsrMsg(b)})
        BY PartsHold DEF NoCopies
      <3>2. PsrMsg(r) # PsrMsg(b) \/ ~Has(assoc[k][l].in, {PsrMsg(b)})
        BY <1>4, <2>1
      <3> QED BY <1>2, <1>3, <3>1, <3>2, ArrivesHas
    <2> QED BY <1>1, <2>2, PartsHold DEF NoCopies
  <1>10. Alone'
    BY <1>7, <1>8, PartsHold DEF Alone, MovesTo
  <1>11. Known'
    BY <1>1, <1>8, PartsHold DEF Known, MovesTo
  <1>12. Counted'
    <2>1. Pending' \subseteq Pending
      BY <1>1, <1>8 DEF Pending, MovesTo, Stages
    <2> QED BY <1>1, <2>1, CountStays, PartsHold DEF IInv
  <1>13. Honest'
    BY <1>1, PartsHold DEF Honest
  <1>14. AmfTypes'
    BY <1>1, PartsHold DEF AmfTypes
  <1> QED BY <1>1, <1>6, <1>9, <1>10, <1>11, <1>12, <1>13, <1>14, PartsStay, PartsMake DEF Tokens

(***************************************************************************)
(* Answers.                                                                *)
(***************************************************************************)
\* One answer is sent, or none; it is a success only for what has been built.
LEMMA RespondAnswers ==
    ASSUME IInv, NEW g \in Gnbs, NEW r \in Reqs, NEW ok \in BOOLEAN, NEW teid \in Teids,
           Respond(g, r, ok, teid), answers[r] = <<>>, ok => r \in built', built \subseteq built'
    PROVE  /\ sender' \in [Gnbs -> {"ok", "failing", "failed"}]
           /\ answers' \in [Reqs -> Seq(Answer)]
           /\ \A q \in Reqs : /\ Len(answers'[q]) <= 1
                              /\ q # r => answers'[q] = answers[q]
                              /\ \A i \in DOMAIN answers'[q] : answers'[q][i].ok => q \in built'
  <1>1. sender' \in [Gnbs -> {"ok", "failing", "failed"}]
    BY PartsHold DEF Respond, SendOn, GnbTypes
  <1>2. CASE answers' = answers
    BY <1>1, <1>2, PartsHold DEF AmfTypes, NoCopies, Honest
  <1>3. CASE answers' = [answers EXCEPT ![r] = Append(answers[r], [ok |-> ok, teid |-> teid])]
    <2>1. [ok |-> ok, teid |-> teid] \in Answer /\ [ok |-> ok, teid |-> teid].ok = ok
      BY DEF Answer
    <2>2. PICK a \in Answer : a = [ok |-> ok, teid |-> teid] /\ a.ok = ok
      BY <2>1
    <2>3. /\ Append(<<>>, a) \in Seq(Answer) /\ Len(Append(<<>>, a)) = 1
          /\ DOMAIN Append(<<>>, a) = {1} /\ Append(<<>>, a)[1] = a
      OBVIOUS
    <2>4. PICK s \in Seq(Answer) : s = Append(<<>>, a)
      BY <2>3
    <2>5. answers' = [answers EXCEPT ![r] = s]
      BY <1>3, <2>2, <2>4
    <2>6. /\ answers' \in [Reqs -> Seq(Answer)] /\ answers'[r] = s
          /\ \A q \in Reqs : q # r => answers'[q] = answers[q]
      BY <2>5, PartsHold DEF AmfTypes
    <2>7. Len(s) = 1 /\ DOMAIN s = {1} /\ s[1].ok = ok
      BY <2>2, <2>3, <2>4
    <2>8. ASSUME NEW q \in Reqs
          PROVE  Len(answers'[q]) <= 1 /\ \A i \in DOMAIN answers'[q] : answers'[q][i].ok => q \in built'
      <3>1. CASE q = r
        <4>1. answers'[q] = s
          BY <2>6, <3>1
        <4>2. \A i \in DOMAIN s : s[i].ok => q \in built'
          BY <2>7, <3>1
        <4>3. Len(answers'[q]) = 1
          BY <2>7, <4>1, Zenon
        <4>4. Len(answers'[q]) <= 1
          BY <4>3
        <4> QED BY <4>1, <4>2, <4>4, Zenon
      <3>2. CASE q # r
        <4>1. answers'[q] = answers[q]
          BY <2>6, <3>2
        <4> QED BY <4>1, PartsHold DEF NoCopies, Honest
      <3> QED BY <3>1, <3>2
    <2> QED BY <1>1, <2>6, <2>8
  <1> QED BY <1>2, <1>3 DEF Respond

\* A request that is somewhere else has no answer yet.
LEMMA Unanswered ==
    ASSUME IInv, NEW r \in Reqs, NEW s \in Stages \ {"answered"}, NEW g \in Gnbs, NEW c \in Links,
           Holds(r, s, g, c)
    PROVE  answers[r] = <<>> /\ Serving[r.ue] \in Gnbs /\ r \in psrs
  <1>1. Serving[r.ue] \in Gnbs /\ 0 \in Links /\ "answered" \in Stages
    BY SessionAssumption, Bounds DEF Links, Stages
  <1>2. ~Holds(r, "answered", Serving[r.ue], 0)
    BY <1>1, PartsHold DEF Alone
  <1> QED BY <1>1, <1>2, PartsHold DEF Holds, Known

\* The TEID of a request that is being handled is one of those there are.
LEMMA TeidLeft ==
    ASSUME IInv, NEW r \in Pending, NEW g \in Gnbs
    PROVE  teidCounter[g] + 1 \in Teids /\ teidCounter[g] \in Base..(Base + Cardinality(Reqs))
  <1>1. IsFiniteSet(Pending) /\ Pending \subseteq Reqs
    BY Bounds, FS_Subset DEF Pending
  <1>2. Cardinality(Pending) \in Nat /\ Cardinality(Pending) # 0
    BY <1>1, FS_CardinalityType, FS_EmptySet
  <1>3. teidCounter[g] \in Base..(Base + Cardinality(Reqs))
    BY PartsHold DEF SessionTypes
  <1>4. teidCounter[g] + Cardinality(Pending) <= Base + Cardinality(Reqs)
    BY PartsHold DEF Counted
  <1> QED BY <1>2, <1>3, <1>4, Bounds DEF Teids, Base

\* A request that has been handled takes one TEID of one gNB.
LEMMA CountTakes ==
    ASSUME IInv, NEW r \in Pending, NEW g \in Gnbs, Pending' \subseteq Pending \ {r},
           teidCounter' = [teidCounter EXCEPT ![g] = teidCounter[g] + 1]
    PROVE  Counted'
  <1>1. IsFiniteSet(Pending) /\ Pending \subseteq Reqs
    BY Bounds, FS_Subset DEF Pending
  <1>2. IsFiniteSet(Pending \ {r}) /\ Cardinality(Pending \ {r}) = Cardinality(Pending) - 1
    BY <1>1, FS_RemoveElement
  <1>3. /\ Cardinality(Pending') <= Cardinality(Pending) - 1
        /\ Cardinality(Pending) \in Nat /\ Cardinality(Pending') \in Nat
    <2>1. IsFiniteSet(Pending') /\ Cardinality(Pending') <= Cardinality(Pending \ {r})
      BY <1>2, FS_Subset
    <2> QED BY <1>1, <1>2, <2>1, FS_CardinalityType
  <1>4. \A h \in Gnbs : teidCounter[h] \in Int /\ (h # g => teidCounter'[h] = teidCounter[h])
    BY Bounds, PartsHold DEF SessionTypes, Base
  <1>5. teidCounter'[g] = teidCounter[g] + 1
    BY PartsHold DEF SessionTypes
  <1>6. \A h \in Gnbs : teidCounter[h] + Cardinality(Pending) <= Base + Cardinality(Reqs)
    BY PartsHold DEF Counted
  <1> HIDE DEF Pending
  <1>7. \A h \in Gnbs : teidCounter'[h] <= teidCounter[h] + 1 /\ teidCounter'[h] \in Int
    BY <1>4, <1>5
  <1>8. \A h \in Gnbs : teidCounter'[h] + Cardinality(Pending') <= Base + Cardinality(Reqs)
    BY <1>3, <1>4, <1>6, <1>7, Bounds DEF Base
  <1> QED BY <1>8 DEF Counted

\* A thread answers the request it holds and puts it down.
LEMMA AnswerSent ==
    ASSUME IInv, NEW r \in Reqs, NEW s \in Stages \ {"answered"}, NEW g \in Gnbs, NEW c \in Links,
           Holds(r, s, g, c), ~Holds(r, s, g, c)',
           NEW ok \in BOOLEAN, NEW teid \in Teids, NEW n \in Gnbs, Respond(n, r, ok, teid),
           ok => r \in built', built \subseteq built',
           AssocFewer, RxFewer, HdFewer, QueueFewer, SetupFewer, running' \subseteq running,
           psrs' = psrs
    PROVE  /\ Tokens' /\ Pending' \subseteq Pending /\ Honest'
           /\ MovesTo(r, "answered", Serving[r.ue], 0)
           /\ sender' \in [Gnbs -> {"ok", "failing", "failed"}]
           /\ answers' \in [Reqs -> Seq(Answer)]
  <1>1. answers[r] = <<>> /\ Serving[r.ue] \in Gnbs
    BY Unanswered
  <1>2. /\ sender' \in [Gnbs -> {"ok", "failing", "failed"}]
        /\ answers' \in [Reqs -> Seq(Answer)]
        /\ \A q \in Reqs : /\ Len(answers'[q]) <= 1
                           /\ q # r => answers'[q] = answers[q]
                           /\ \A i \in DOMAIN answers'[q] : answers'[q][i].ok => q \in built'
    BY <1>1, RespondAnswers
  <1>3. "answered" \in Stages /\ "answered" \notin Early /\ s \in Stages /\ 0 \in Links
        /\ \A l \in Links : l # 0 => l \in Conns
    BY Bounds DEF Stages, Early, Links
  <1>4. MovesTo(r, "answered", Serving[r.ue], 0)
    <2> SUFFICES ASSUME NEW b \in Reqs, NEW t \in Stages, NEW k \in Gnbs, NEW l \in Links,
                        Holds(b, t, k, l)'
                 PROVE  \/ Holds(b, t, k, l)
                        \/ b = r /\ t = "answered" /\ k = Serving[r.ue] /\ l = 0
      BY DEF MovesTo
    <2>1. CASE t = "sent"
      BY <1>3, <2>1 DEF Holds, AssocFewer
    <2>2. CASE t = "received"
      BY <1>3, <2>2 DEF Holds, RxFewer
    <2>3. CASE t = "queued"
      BY <2>3 DEF Holds, QueueFewer
    <2>4. CASE t = "handled"
      BY <1>3, <2>4 DEF Holds, HdFewer
    <2>5. CASE t = "setup"
      BY <2>5 DEF Holds, SetupFewer
    <2>6. CASE t = "working"
      BY <2>6 DEF Holds
    <2>7. CASE t = "answered"
      BY <1>2, <2>7 DEF Holds
    <2> QED BY <2>1, <2>2, <2>3, <2>4, <2>5, <2>6, <2>7 DEF Stages, Early
  <1>5. NoCopies'
    BY <1>2, PartsHold DEF NoCopies, AssocFewer, QueueFewer, SetupFewer
  <1>6. Tokens' /\ Pending' \subseteq Pending
    BY <1>1, <1>3, <1>4, <1>5, TokensMove
  <1>7. Honest'
    BY <1>2, PartsHold DEF Honest
  <1> QED BY <1>2, <1>4, <1>6, <1>7

\* A request that has been handled is no longer pending.
LEMMA HandledLeaves ==
    ASSUME IInv, NEW r \in Reqs, NEW g \in Gnbs, NEW c \in Links, Holds(r, "handled", g, c),
           ~Holds(r, "handled", g, c)', psrs' = psrs, NEW t \in Stages \ Early, NEW h \in Gnbs,
           NEW d \in Links, MovesTo(r, t, h, d)
    PROVE  r \in Pending /\ r \notin Pending'
  <1>1. "handled" \in Early /\ Early \subseteq Stages
    BY DEF Early, Stages
  <1>2. r \in Pending
    BY <1>1 DEF Pending
  <1>3. r \in psrs
    BY <1>1, PartsHold DEF Known
  <1>4. ASSUME NEW s \in Early, NEW k \in Gnbs, NEW l \in Links, Holds(r, s, k, l)' PROVE FALSE
    <2>1. Holds(r, s, k, l)
      BY <1>1, <1>4 DEF MovesTo
    <2>2. s = "handled" /\ k = g /\ l = c
      BY <1>1, <2>1, PartsHold DEF Alone
    <2> QED BY <1>4, <2>2
  <1> QED BY <1>2, <1>3, <1>4 DEF Pending

\* The steps on the table of sessions.
LEMMA SessionSteps ==
    ASSUME IInv, NEW u \in Ues, NEW p \in Psis, NEW x \in Teids \cup {Absent, 0}
    PROVE  [session EXCEPT ![u][p] = x] \in [Ues -> [Psis -> Teids \cup {Absent, 0}]]
  BY PartsHold DEF SessionTypes

\* The handler thread handles a request.
LEMMA InvariantHandlePsr ==
    ASSUME IInv, NEW g \in Gnbs, NEW c \in Conns, NEW kind \in Kinds, HandlePsr(g, c, kind)
    PROVE  IInv'
  <1>1. /\ UNCHANGED <<state, stop, sock, conns, assoc, main, rx, handlerQ, attached, running,
                       tunnels, amfUe, psrs, upsets>>
        /\ hd' = [hd EXCEPT ![g][c] = HandlerLoop(g)]
        /\ hd[g][c].pc = "run"
    BY DEF HandlePsr, amf
  <1>2. PICK r \in Reqs : hd[g][c].item = r
    BY <1>1, PartsHold DEF ThreadShape
  <1>3. PICK x \in HdStates : x = HandlerLoop(g) /\ x.pc # "run"
    BY LoopTypes DEF HdStates, IInv
  <1>4. HdFewer /\ ThreadTypes' /\ ThreadShape'
    BY <1>1, <1>3, PartsHold DEF HdFewer, ThreadTypes, ThreadShape
  <1>5. c # 0 /\ c \in Links /\ 0 \in Links /\ (\A l \in Links : l # 0 => l \in Conns)
    BY Bounds DEF Links
  <1>6. Holds(r, "handled", g, c) /\ ~Holds(r, "handled", g, c)'
    <2>1. hd'[g][c].pc # "run"
      BY <1>1, <1>3, PartsHold DEF ThreadTypes
    <2> QED BY <1>1, <1>2, <1>5, <2>1 DEF Holds
  <1>7. /\ "handled" \in Stages \ {"answered"} /\ "setup" \in Stages \ Early
        /\ "answered" \in Stages \ Early /\ "handled" \in Early /\ "setup" \in Stages
    BY DEF Stages, Early
  <1>8. answers[r] = <<>> /\ Serving[r.ue] \in Gnbs /\ r \in Pending
    BY <1>5, <1>6, <1>7, Unanswered DEF Pending
  <1>9. PICK teid \in Teids : teid = teidCounter[g] + 1
    BY <1>8, TeidLeft
  <1>10. teidCounter' = [teidCounter EXCEPT ![g] = teidCounter[g] + 1]
    BY DEF HandlePsr
  <1>11. r.ue \in Ues /\ r.psi \in Psis
    BY SessionAssumption DEF Psis
  <1>12. SessionTypes'
    <2>1. session' = session \/ session' = [session EXCEPT ![r.ue][r.psi] = 0]
      BY <1>2 DEF HandlePsr
    <2>2. session' \in [Ues -> [Psis -> Teids \cup {Absent, 0}]]
      BY <1>11, <2>1, SessionSteps, PartsHold DEF SessionTypes
    <2>3. teidCounter' \in [Gnbs -> Base..(Base + Cardinality(Reqs))]
      <3>1. teidCounter[g] + 1 \in Base..(Base + Cardinality(Reqs))
        BY <1>9, Bounds DEF Teids, Base
      <3> QED BY <1>10, <3>1, PartsHold DEF SessionTypes
    <2> QED BY <1>1, <2>2, <2>3, PartsHold DEF SessionTypes
  <1>13. WorkTypes' /\ IsFiniteSet(running') /\ AmfTypes' /\ GnbTypes' /\ Tokens' /\ Honest'
         /\ Pending' \subseteq Pending \ {r}
    <2>1. CASE UNCHANGED <<setupQ, sender, answers, built>>
      <3>1. Kept
        <4> SUFFICES ASSUME NEW b \in Reqs, NEW t \in Stages, NEW k \in Gnbs, NEW l \in Links,
                            Holds(b, t, k, l)'
                     PROVE  Holds(b, t, k, l)
          BY DEF Kept
        <4>1. CASE t = "handled"
          BY <1>4, <1>5, <4>1 DEF Holds, HdFewer
        <4>2. CASE t \in Stages \ {"handled"}
          BY <1>1, <2>1, <4>2 DEF Holds
        <4> QED BY <4>1, <4>2
      <3>2. MovesTo(r, "answered", g, c)
        BY <3>1 DEF Kept, MovesTo
      <3>3. NoCopies'
        BY <1>1, <2>1, PartsHold DEF NoCopies
      <3>4. Tokens' /\ Pending' \subseteq Pending
        BY <1>1, <1>5, <1>6, <1>7, <3>2, <3>3, TokensMove
      <3>5. r \notin Pending'
        BY <1>1, <1>5, <1>6, <1>7, <3>2, HandledLeaves
      <3> QED BY <1>1, <2>1, <3>4, <3>5, PartsHold DEF WorkTypes, AmfTypes, GnbTypes, Honest
    <2>2. CASE /\ kind = "ethernet" /\ Respond(g, r, TRUE, teid)
               /\ built' = built \cup {r} /\ UNCHANGED setupQ
      <3> USE <2>2
      <3>1. AssocFewer /\ RxFewer /\ QueueFewer /\ SetupFewer
        BY <1>1, Stays
      <3>2. TRUE \in BOOLEAN /\ r \in built' /\ built \subseteq built' /\ built' \subseteq Reqs
            /\ running' \subseteq running /\ psrs' = psrs
        BY <1>1, PartsHold DEF AmfTypes
      <3>3. /\ Tokens' /\ Pending' \subseteq Pending /\ Honest'
            /\ MovesTo(r, "answered", Serving[r.ue], 0)
            /\ sender' \in [Gnbs -> {"ok", "failing", "failed"}]
            /\ answers' \in [Reqs -> Seq(Answer)]
        BY <1>4, <1>5, <1>6, <1>7, <3>1, <3>2, AnswerSent
      <3>4. r \notin Pending'
        BY <1>1, <1>5, <1>6, <1>7, <1>8, <3>3, HandledLeaves
      <3>5. WorkTypes' /\ IsFiniteSet(running') /\ AmfTypes' /\ GnbTypes'
        BY <1>1, <3>2, <3>3, PartsHold DEF WorkTypes, AmfTypes, GnbTypes
      <3> QED BY <3>3, <3>4, <3>5
    <2>3. CASE /\ setupQ' = Append(setupQ, [req |-> r, teid |-> teid, build |-> kind # "noupf"])
               /\ UNCHANGED <<sender, answers, built>>
      <3>1. [req |-> r, teid |-> teid, build |-> kind # "noupf"] \in Jobs
        BY DEF Jobs
      <3>2. PICK j \in Jobs : j = [req |-> r, teid |-> teid, build |-> kind # "noupf"] /\ j.req = r
        BY <3>1
      <3>3. PICK q \in Seq(Jobs) : q = setupQ
        BY PartsHold DEF WorkTypes
      <3>4. PICK p : p = Append(q, j)
        OBVIOUS
      <3>5. /\ p \in Seq(Jobs)
            /\ \A b \in Reqs : /\ Has(p, JobsOf(b)) => Has(q, JobsOf(b)) \/ b = r
                               /\ b # r \/ ~Has(q, JobsOf(b)) =>
                                     (Once(q, JobsOf(b)) => Once(p, JobsOf(b)))
        <4>1. \A b \in Reqs : j \in JobsOf(b) <=> b = r
          BY <3>2 DEF JobsOf
        <4> HIDE DEF Has, Once, JobsOf
        <4> QED BY <3>3, <3>4, <4>1, AppendHas
      <3>6. setupQ' = p
        BY <2>3, <3>2, <3>3, <3>4
      <3> HIDE DEF Has, Once, JobsOf
      <3>7. MovesTo(r, "setup", Serving[r.ue], 0)
        <4> SUFFICES ASSUME NEW b \in Reqs, NEW t \in Stages, NEW k \in Gnbs, NEW l \in Links,
                            Holds(b, t, k, l)'
                     PROVE  \/ Holds(b, t, k, l)
                            \/ b = r /\ t = "setup" /\ k = Serving[r.ue] /\ l = 0
          BY DEF MovesTo
        <4>1. CASE t = "handled"
          BY <1>4, <1>5, <4>1 DEF Holds, HdFewer
        <4>2. CASE t = "setup"
          BY <3>3, <3>5, <3>6, <4>2 DEF Holds
        <4>3. CASE t \in Stages \ {"handled", "setup"}
          BY <1>1, <2>3, <4>3 DEF Holds
        <4> QED BY <4>1, <4>2, <4>3
      <3>8. NoCopies'
        <4>1. ~Holds(r, "setup", Serving[r.ue], 0)
          BY <1>5, <1>6, <1>7, <1>8, PartsHold DEF Alone
        <4>2. ~Has(q, JobsOf(r))
          BY <3>3, <4>1 DEF Holds
        <4>3. \A b \in Reqs : Once(setupQ', JobsOf(b))
          BY <3>3, <3>5, <3>6, <4>2, PartsHold DEF NoCopies
        <4> QED BY <1>1, <2>3, <4>3, PartsHold DEF NoCopies
      <3>9. Tokens' /\ Pending' \subseteq Pending
        BY <1>1, <1>5, <1>6, <1>7, <1>8, <3>7, <3>8, TokensMove
      <3>10. r \notin Pending'
        BY <1>1, <1>5, <1>6, <1>7, <1>8, <3>7, HandledLeaves
      <3>11. WorkTypes' /\ IsFiniteSet(running') /\ AmfTypes' /\ GnbTypes' /\ Honest'
        BY <1>1, <2>3, <3>5, <3>6, PartsHold DEF WorkTypes, AmfTypes, GnbTypes, Honest
      <3> QED BY <3>9, <3>10, <3>11
    <2> QED BY <1>2, <1>9, <2>1, <2>2, <2>3 DEF HandlePsr
  <1>14. Counted'
    BY <1>8, <1>10, <1>13, CountTakes
  <1> QED BY <1>1, <1>4, <1>12, <1>13, <1>14, PartsStay, PartsMake

(***************************************************************************)
(* The setup workers.                                                      *)
(***************************************************************************)
\* A worker goes on with its job.
LEMMA WorkerGoesOn ==
    ASSUME IInv, NEW w \in running, NEW pc \in {"device", "insert", "send"}, GoTo(w, pc),
           UNCHANGED <<assoc, rx, hd, handlerQ, setupQ, answers, psrs, teidCounter>>
    PROVE  /\ WorkTypes' /\ IsFiniteSet(running') /\ Tokens' /\ Counted'
           /\ \A v \in running' : v \in running \/ (v.pc = pc /\ v.job = w.job)
  <1>1. PICK x : x = [pc |-> pc, job |-> w.job] /\ x.pc = pc /\ x.job = w.job
    <2>1. [pc |-> pc, job |-> w.job].pc = pc /\ [pc |-> pc, job |-> w.job].job = w.job
      OBVIOUS
    <2> QED BY <2>1
  <1>2. running' = (running \ {w}) \cup {x}
    BY <1>1 DEF GoTo
  <1>3. x \in [pc : {"device", "insert", "send"}, job : Jobs]
    BY <1>1, PartsHold DEF WorkTypes
  <1>4. IsFiniteSet(running') /\ Cardinality(running') <= Cardinality(running)
    <2>1. IsFiniteSet(running) /\ Cardinality(running) \in Nat
      BY PartsHold, FS_CardinalityType
    <2>2. IsFiniteSet(running \ {w}) /\ Cardinality(running \ {w}) = Cardinality(running) - 1
      BY <2>1, FS_RemoveElement
    <2>3. /\ IsFiniteSet((running \ {w}) \cup {x})
          /\ \/ Cardinality((running \ {w}) \cup {x}) = Cardinality(running \ {w})
             \/ Cardinality((running \ {w}) \cup {x}) = Cardinality(running \ {w}) + 1
      BY <2>2, FS_AddElement
    <2> QED BY <1>2, <2>1, <2>2, <2>3
  <1>5. WorkTypes'
    <2>1. Cardinality(running') \in Nat /\ Cardinality(running) \in Nat /\ Workers \in Nat
      BY <1>4, PartsHold, FS_CardinalityType, Bounds
    <2> QED BY <1>2, <1>3, <1>4, <2>1, PartsHold DEF WorkTypes
  <1>6. Kept
    BY <1>1, <1>2 DEF Kept, Holds
  <1>7. NoCopies'
    <2>1. ASSUME NEW b \in Reqs, NEW v \in running', NEW y \in running', v.job.req = b, y.job.req = b
          PROVE  v = y
      BY <1>1, <1>2, <2>1, PartsHold DEF NoCopies
    <2> QED BY <2>1, PartsHold DEF NoCopies
  <1>8. Tokens'
    BY <1>6, <1>7, PartsHold DEF Tokens, Alone, Known, Kept
  <1>9. Pending' \subseteq Pending
    BY <1>6 DEF Pending, Kept, Stages
  <1>10. Counted'
    BY <1>9, CountStays, PartsHold DEF IInv
  <1> QED BY <1>1, <1>2, <1>4, <1>5, <1>8, <1>10

\* A worker that has finished leaves its request.
LEMMA WorkerFinishes ==
    ASSUME IInv, NEW w \in running, Finish(w)
    PROVE  /\ running' \subseteq running /\ IsFiniteSet(running')
           /\ Cardinality(running') <= Workers
           /\ w.job.req \in Reqs /\ w.job.teid \in Teids
           /\ Holds(w.job.req, "working", Serving[w.job.req.ue], 0)
           /\ ~Holds(w.job.req, "working", Serving[w.job.req.ue], 0)'
  <1>1. running' \subseteq running /\ w \notin running'
    BY DEF Finish
  <1>2. IsFiniteSet(running') /\ Cardinality(running') <= Cardinality(running)
    BY <1>1, PartsHold, FS_Subset
  <1>3. Cardinality(running') <= Workers
    BY <1>2, PartsHold, FS_CardinalityType, Bounds DEF WorkTypes
  <1>4. w.job.req \in Reqs /\ w.job.teid \in Teids
    BY PartsHold DEF WorkTypes, Jobs
  <1>5. Holds(w.job.req, "working", Serving[w.job.req.ue], 0)
    BY DEF Holds
  <1>6. \A v \in running' : v.job.req # w.job.req
    BY <1>1, <1>4, PartsHold DEF NoCopies
  <1>7. ~Holds(w.job.req, "working", Serving[w.job.req.ue], 0)'
    <2>1. PICK r \in Reqs : r = w.job.req
      BY <1>4
    <2>2. ~Holds(r, "working", Serving[r.ue], 0)'
      BY <1>6, <2>1 DEF Holds
    <2> QED BY <2>1, <2>2
  <1> QED BY <1>1, <1>2, <1>3, <1>4, <1>5, <1>7

\* It answers the AMF, or does not get through.
LEMMA WorkerAnswers ==
    ASSUME IInv, NEW w \in running, Finish(w), NEW ok \in BOOLEAN,
           Respond(GnbOf(w.job), w.job.req, ok, w.job.teid), ok => w.job.req \in built,
           UNCHANGED <<session, setupQ, tunnels, built>>, UNCHANGED NotGtpu
    PROVE  IInv'
  <1>1. UNCHANGED <<state, stop, sock, assoc, conns, main, rx, hd, handlerQ, teidCounter,
                    attached, amfUe, psrs, upsets, session, setupQ, tunnels, built>>
    BY DEF NotGtpu, amf
  <1>2. PICK r \in Reqs, teid \in Teids : r = w.job.req /\ teid = w.job.teid
    BY WorkerFinishes
  <1>3. AssocFewer /\ RxFewer /\ HdFewer /\ QueueFewer /\ SetupFewer
    BY <1>1, Stays
  <1>4. running' \subseteq running /\ IsFiniteSet(running') /\ Cardinality(running') <= Workers
    BY WorkerFinishes
  <1>5. Serving[r.ue] \in Gnbs /\ 0 \in Links /\ "working" \in Stages \ {"answered"}
    BY SessionAssumption, Bounds DEF Links, Stages, Early
  <1>6. Holds(r, "working", Serving[r.ue], 0) /\ ~Holds(r, "working", Serving[r.ue], 0)'
    <2>1. /\ Holds(w.job.req, "working", Serving[w.job.req.ue], 0)
          /\ \A v \in running' : v.job.req # w.job.req
      BY <1>2, WorkerFinishes, PartsHold DEF Finish, NoCopies
    <2> QED BY <1>2, <2>1 DEF Holds
  <1>7. Respond(Serving[r.ue], r, ok, teid) /\ (ok => r \in built') /\ built \subseteq built'
        /\ psrs' = psrs
    BY <1>1, <1>2 DEF GnbOf
  <1>8. /\ Tokens' /\ Pending' \subseteq Pending /\ Honest'
        /\ sender' \in [Gnbs -> {"ok", "failing", "failed"}]
        /\ answers' \in [Reqs -> Seq(Answer)]
    BY <1>3, <1>4, <1>5, <1>6, <1>7, AnswerSent
  <1>9. Counted'
    BY <1>1, <1>8, CountStays, PartsHold DEF IInv
  <1>10. WorkTypes' /\ AmfTypes' /\ GnbTypes'
    BY <1>1, <1>4, <1>8, PartsHold DEF WorkTypes, AmfTypes, GnbTypes
  <1> QED BY <1>1, <1>4, <1>8, <1>9, <1>10, PartsStay, PartsMake

\* A worker makes the device, puts the tunnel in the table, answers.
LEMMA InvariantJobStep ==
    ASSUME IInv, NEW r \in Reqs, JobStep(r) PROVE IInv'
  <1>1. PICK w \in running : (\E ok \in BOOLEAN : WorkerDevice(w, ok)) \/ WorkerInsert(w) \/ WorkerSend(w)
    BY DEF JobStep
  <1>2. CASE \E ok \in BOOLEAN : WorkerDevice(w, ok)
    <2>1. UNCHANGED <<session, setupQ, tunnels, built>> /\ UNCHANGED NotGtpu
      BY <1>2 DEF WorkerDevice
    <2>2. CASE GoTo(w, "insert") /\ UNCHANGED <<sender, answers>>
      <3>1. UNCHANGED <<state, stop, sender, sock, assoc, conns, main, rx, hd, handlerQ, teidCounter,
                        attached, amfUe, psrs, upsets, session, setupQ, tunnels, built, answers>>
        BY <2>1, <2>2 DEF NotGtpu, amf
      <3>2. /\ WorkTypes' /\ IsFiniteSet(running') /\ Tokens' /\ Counted'
            /\ \A v \in running' : v \in running \/ (v.pc = "insert" /\ v.job = w.job)
        BY <2>2, <3>1, WorkerGoesOn
      <3>3. Honest'
        BY <3>1, <3>2, PartsHold DEF Honest
      <3> QED BY <3>1, <3>2, <3>3, PartsStay, PartsMake
    <2>3. CASE Finish(w) /\ Respond(GnbOf(w.job), w.job.req, FALSE, w.job.teid)
      BY <2>1, <2>3, WorkerAnswers
    <2> QED BY <1>2, <2>2, <2>3 DEF WorkerDevice
  <1>3. CASE WorkerInsert(w)
    <2>1. /\ UNCHANGED <<state, stop, sender, sock, assoc, conns, main, rx, hd, handlerQ, teidCounter,
                         attached, amfUe, psrs, upsets, setupQ, answers>>
          /\ GoTo(w, "send")
      BY <1>3 DEF WorkerInsert, NotGtpu, amf
    <2>2. PICK q \in Reqs, teid \in Teids : q = w.job.req /\ teid = w.job.teid
      BY PartsHold DEF WorkTypes, Jobs
    <2>3. q.ue \in Ues /\ q.psi \in Psis
      BY SessionAssumption DEF Psis
    <2>4. built' = built \cup {q}
      BY <1>3, <2>2 DEF WorkerInsert
    <2>5. SessionTypes'
      <3>1. session' \in [Ues -> [Psis -> Teids \cup {Absent, 0}]]
        <4>1. session' = session \/ session' = [session EXCEPT ![q.ue][q.psi] = teid]
          BY <1>3, <2>2 DEF WorkerInsert
        <4> QED BY <2>3, <4>1, SessionSteps, PartsHold DEF SessionTypes
      <3>2. tunnels' \subseteq Tunnel
        <4>1. [teid |-> teid, ue |-> q.ue, req |-> q] \in Tunnel
          BY <2>3 DEF Tunnel
        <4> QED BY <1>3, <2>2, <4>1, PartsHold DEF WorkerInsert, SessionTypes
      <3> QED BY <2>1, <3>1, <3>2, PartsHold DEF SessionTypes
    <2>6. /\ WorkTypes' /\ IsFiniteSet(running') /\ Tokens' /\ Counted'
          /\ \A v \in running' : v \in running \/ (v.pc = "send" /\ v.job = w.job)
      BY <2>1, WorkerGoesOn
    <2>7. Honest'
      BY <2>1, <2>2, <2>4, <2>6, PartsHold DEF Honest
    <2>8. AmfTypes'
      BY <2>1, <2>4, PartsHold DEF AmfTypes
    <2> QED BY <2>1, <2>5, <2>6, <2>7, <2>8, PartsStay, PartsMake
  <1>4. CASE WorkerSend(w)
    <2>1. /\ Finish(w) /\ Respond(GnbOf(w.job), w.job.req, TRUE, w.job.teid)
          /\ w.job.req \in built
          /\ UNCHANGED <<session, setupQ, tunnels, built>> /\ UNCHANGED NotGtpu
      BY <1>4, PartsHold DEF WorkerSend, Honest
    <2> QED BY <2>1, WorkerAnswers
  <1> QED BY <1>1, <1>2, <1>3, <1>4

\* A worker takes a job: it goes to work, refuses, or drops it.
LEMMA InvariantWorkerTake ==
    ASSUME IInv, WorkerTake PROVE IInv'
  <1>1. UNCHANGED <<state, stop, sock, assoc, conns, main, rx, hd, handlerQ, teidCounter,
                    attached, amfUe, psrs, upsets, session, built>>
    BY DEF WorkerTake, NotGtpu, amf
  <1>2. PICK q \in Seq(Jobs) : q = setupQ /\ q # <<>>
    BY PartsHold DEF WorkTypes, WorkerTake
  <1>3. PICK j \in Jobs, p \in Seq(Jobs) : j = Head(q) /\ p = Tail(q)
    BY <1>2, TailHas
  <1>4. PICK r \in Reqs, teid \in Teids : r = j.req /\ teid = j.teid
    BY DEF Jobs
  <1>5. /\ setupQ' = p /\ Cardinality(running) < Workers
        /\ \/ /\ running' = running \cup {[pc |-> "device", job |-> j]}
              /\ tunnels' \subseteq tunnels /\ UNCHANGED <<sender, answers>>
           \/ UNCHANGED <<running, tunnels, sender, answers>>
           \/ UNCHANGED <<running, tunnels>> /\ Respond(Serving[r.ue], r, FALSE, teid)
    BY <1>2, <1>3, <1>4 DEF WorkerTake, DestroyTunnels, GnbOf
  <1>6. \A X : /\ Has(p, X) => Has(q, X)
               /\ Once(q, X) => Once(p, X)
               /\ j \in X => Has(q, X)
               /\ j \in X /\ Once(q, X) => ~Has(p, X)
    BY <1>2, <1>3, TailHas
  <1>7. j \in JobsOf(r)
    BY <1>4 DEF JobsOf
  <1> HIDE DEF Has, Once, JobsOf
  <1>8. SetupFewer
    BY <1>2, <1>5, <1>6 DEF SetupFewer
  <1>9. Has(q, JobsOf(r)) /\ ~Has(p, JobsOf(r))
    BY <1>2, <1>6, <1>7, PartsHold DEF NoCopies
  <1>10. /\ Serving[r.ue] \in Gnbs /\ 0 \in Links /\ "setup" \in Stages \ {"answered"}
         /\ {"setup", "working"} \subseteq Stages /\ "working" \notin Early
         /\ \A l \in Links : l # 0 => l \in Conns
    BY SessionAssumption, Bounds DEF Links, Stages, Early
  <1>11. Holds(r, "setup", Serving[r.ue], 0) /\ ~Holds(r, "setup", Serving[r.ue], 0)'
    BY <1>2, <1>5, <1>9 DEF Holds
  <1>12. AssocFewer /\ RxFewer /\ HdFewer /\ QueueFewer
    BY <1>1, Stays
  <1>13. SessionTypes'
    BY <1>1, <1>5, PartsHold DEF SessionTypes
  <1>14. CASE UNCHANGED <<running, tunnels, sender, answers>>
    <2>1. Tokens' /\ Counted' /\ Honest'
      BY <1>1, <1>8, <1>12, <1>14, Fewer
    <2>2. WorkTypes' /\ IsFiniteSet(running')
      BY <1>5, <1>14, PartsHold DEF WorkTypes
    <2> QED BY <1>1, <1>14, <2>1, <2>2, PartsStay, PartsMake
  <1>15. CASE UNCHANGED <<running, tunnels>> /\ Respond(Serving[r.ue], r, FALSE, teid)
    <2>1. FALSE \in BOOLEAN /\ built \subseteq built' /\ running' \subseteq running /\ psrs' = psrs
      BY <1>1, <1>15
    <2>2. /\ Tokens' /\ Pending' \subseteq Pending /\ Honest'
          /\ sender' \in [Gnbs -> {"ok", "failing", "failed"}]
          /\ answers' \in [Reqs -> Seq(Answer)]
      BY <1>8, <1>10, <1>11, <1>12, <1>15, <2>1, AnswerSent
    <2>3. Counted'
      BY <1>1, <2>2, CountStays, PartsHold DEF IInv
    <2>4. WorkTypes' /\ IsFiniteSet(running') /\ AmfTypes' /\ GnbTypes'
      BY <1>1, <1>5, <1>15, <2>2, PartsHold DEF WorkTypes, AmfTypes, GnbTypes
    <2> QED BY <1>1, <1>13, <2>2, <2>3, <2>4, PartsStay, PartsMake
  <1>16. CASE /\ running' = running \cup {[pc |-> "device", job |-> j]}
              /\ tunnels' \subseteq tunnels /\ UNCHANGED <<sender, answers>>
    <2>1. PICK x \in [pc : {"device", "insert", "send"}, job : Jobs] :
             x = [pc |-> "device", job |-> j] /\ x.pc = "device" /\ x.job = j
      <3>1. /\ [pc |-> "device", job |-> j] \in [pc : {"device", "insert", "send"}, job : Jobs]
            /\ [pc |-> "device", job |-> j].pc = "device" /\ [pc |-> "device", job |-> j].job = j
        OBVIOUS
      <3> QED BY <3>1
    <2>2. running' = running \cup {x}
      BY <1>16, <2>1
    <2>3. WorkTypes' /\ IsFiniteSet(running')
      <3>1. IsFiniteSet(running) /\ Cardinality(running) \in Nat /\ Workers \in Nat
        BY PartsHold, FS_CardinalityType, Bounds
      <3>2. /\ IsFiniteSet(running \cup {x})
            /\ \/ Cardinality(running \cup {x}) = Cardinality(running)
               \/ Cardinality(running \cup {x}) = Cardinality(running) + 1
        BY <3>1, FS_AddElement
      <3>3. Cardinality(running \cup {x}) <= Workers
        BY <1>5, <3>1, <3>2
      <3> QED BY <1>5, <2>2, <3>2, <3>3, PartsHold DEF WorkTypes
    <2>4. MovesTo(r, "working", Serving[r.ue], 0)
      <3> SUFFICES ASSUME NEW b \in Reqs, NEW t \in Stages, NEW k \in Gnbs, NEW l \in Links,
                          Holds(b, t, k, l)'
                   PROVE  \/ Holds(b, t, k, l)
                          \/ b = r /\ t = "working" /\ k = Serving[r.ue] /\ l = 0
        BY DEF MovesTo
      <3>1. CASE t = "setup"
        BY <1>8, <3>1 DEF Holds, SetupFewer
      <3>2. CASE t = "working"
        BY <1>4, <2>1, <2>2, <3>2 DEF Holds
      <3>3. CASE t \in Stages \ {"setup", "working"}
        BY <1>1, <1>16, <3>3 DEF Holds
      <3> QED BY <3>1, <3>2, <3>3
    <2>5. NoCopies'
      <3>1. ~Holds(r, "working", Serving[r.ue], 0)
        BY <1>10, <1>11, PartsHold DEF Alone
      <3>2. \A w \in running : w.job.req # r
        BY <3>1 DEF Holds
      <3>3. ASSUME NEW b \in Reqs, NEW v \in running', NEW y \in running', v.job.req = b, y.job.req = b
            PROVE  v = y
        BY <1>4, <2>1, <2>2, <3>2, <3>3, PartsHold DEF NoCopies
      <3>4. \A b \in Reqs : Once(setupQ', JobsOf(b))
        BY <1>8, PartsHold DEF NoCopies, SetupFewer
      <3> QED BY <1>1, <1>16, <3>3, <3>4, PartsHold DEF NoCopies
    <2>6. Tokens' /\ Pending' \subseteq Pending
      BY <1>1, <1>10, <1>11, <2>4, <2>5, TokensMove
    <2>7. Counted'
      BY <1>1, <2>6, CountStays, PartsHold DEF IInv
    <2>8. Honest'
      BY <1>1, <1>16, <2>1, <2>2, PartsHold DEF Honest
    <2> QED BY <1>1, <1>13, <1>16, <2>3, <2>6, <2>7, <2>8, PartsStay, PartsMake
  <1> QED BY <1>5, <1>14, <1>15, <1>16

(***************************************************************************)
(* The theorems.                                                           *)
(***************************************************************************)
\* Nothing runs, nothing is sent.
LEMMA InvariantInit == Init => IInv
  <1> SUFFICES ASSUME Init PROVE IInv
    OBVIOUS
  <1> USE DEF Init
  <1>1. \A r \in Reqs, s \in Stages, g \in Gnbs, c \in Links : ~Holds(r, s, g, c)
    <2> SUFFICES ASSUME NEW r \in Reqs, NEW s \in Stages, NEW g \in Gnbs, NEW c \in Links
                 PROVE  ~Holds(r, s, g, c)
      OBVIOUS
    <2>1. c # 0 => /\ assoc[g][c].in = <<>> /\ rx[g][c].pc = "none" /\ hd[g][c].pc = "none"
      BY Bounds DEF Assoc, Rx, Hd
    <2>2. handlerQ[g] = <<>> /\ setupQ = <<>> /\ running = {} /\ answers[r] = <<>>
      OBVIOUS
    <2> HIDE DEF Init
    <2> QED BY <2>1, <2>2, EmptyHas DEF Holds
  <1>2. Alone /\ Known
    BY <1>1 DEF Alone, Known
  <1>3. NoCopies
    <2>1. \A g \in Gnbs, c \in Conns : assoc[g][c].in = <<>>
      BY DEF Assoc
    <2>2. \A r \in Reqs : answers[r] = <<>> /\ Len(answers[r]) <= 1
      OBVIOUS
    <2>3. (\A g \in Gnbs : handlerQ[g] = <<>>) /\ setupQ = <<>> /\ running = {}
      OBVIOUS
    <2> HIDE DEF Init
    <2> QED BY <2>1, <2>2, <2>3, EmptyHas DEF NoCopies
  <1>4. Counted
    <2>1. Pending \subseteq Reqs /\ IsFiniteSet(Pending)
      BY Bounds, FS_Subset DEF Pending
    <2>2. Cardinality(Pending) <= Cardinality(Reqs) /\ Cardinality(Pending) \in Nat
      BY <2>1, Bounds, FS_Subset, FS_CardinalityType
    <2>3. \A g \in Gnbs : teidCounter[g] = Base
      OBVIOUS
    <2> QED BY <2>2, <2>3, Bounds DEF Counted, Base
  <1>5. Honest
    BY DEF Honest
  <1>6. Shape
    BY FS_EmptySet DEF Shape, Rx, Hd
  <1>7. TypeOK
    <2>1. GnbTypes /\ MainTypes
      BY Bounds DEF GnbTypes, MainTypes
    <2>2. AssocTypes
      BY DEF AssocTypes, Assocs, Assoc
    <2>3. ThreadTypes
      BY Bounds DEF ThreadTypes, RxStates, HdStates, Rx, Hd
    <2>4. QueueTypes
      <3>1. <<>> \in Seq(Reqs \cup {None}) /\ Len(<<>>) <= QueueMax
        BY Bounds
      <3> QED BY <3>1 DEF QueueTypes
    <2>5. SessionTypes
      BY Bounds DEF SessionTypes, Base
    <2>6. WorkTypes
      BY Bounds, FS_EmptySet DEF WorkTypes
    <2>7. AmfTypes
      BY Bounds DEF AmfTypes
    <2> QED BY <2>1, <2>2, <2>3, <2>4, <2>5, <2>6, <2>7, Types
  <1> QED BY <1>2, <1>3, <1>4, <1>5, <1>6, <1>7 DEF IInv, Tokens

\* Every step keeps it.
LEMMA InvariantNext == IInv /\ [Next]_vars => IInv'
  <1> SUFFICES ASSUME IInv, [Next]_vars PROVE IInv'
    OBVIOUS
  <1>1. CASE UNCHANGED vars
    <2>1. UNCHANGED <<state, stop, sock, sender, assoc, conns, main, rx, hd, handlerQ, teidCounter,
                      attached, session, setupQ, running, tunnels, answers, built, amfUe, psrs, upsets>>
      BY <1>1 DEF vars, link, gtpu, amf
    <2> QED BY <2>1, Stays, Fewer, PartsStay, PartsMake
  <1>2. CASE EnvStep
    BY <1>2, InvariantConnect, InvariantQuiet, InvariantAmfPsr, InvariantAmfRelease,
       InvariantAmfDown DEF EnvStep
  <1>3. ASSUME NEW g \in Gnbs, MainStep(g) PROVE IInv'
    BY <1>3, InvariantConnectThreads, InvariantConnectSetup, InvariantDisconnectCancel,
       InvariantDisconnectPoke, InvariantDisconnectClose, InvariantQuiet DEF MainStep
  <1>4. ASSUME NEW g \in Gnbs, NEW c \in Conns, RxStep(g, c) PROVE IInv'
    BY <1>4, InvariantRxRecv, InvariantRxEnd, InvariantRxHandles, InvariantOnPsr DEF RxStep
  <1>5. ASSUME NEW g \in Gnbs, NEW c \in Conns, HandlerStep(g, c) PROVE IInv'
    BY <1>5, InvariantHandlerGet, InvariantHandlePsr DEF HandlerStep
  <1>6. CASE WorkerStep
    BY <1>6, InvariantWorkerTake, InvariantJobStep DEF WorkerStep
  <1> QED BY <1>1, <1>2, <1>3, <1>4, <1>5, <1>6, InvariantSendWorkerFails DEF Next

\* The strengthening holds.
LEMMA Invariant == Spec => []IInv
  BY InvariantInit, InvariantNext, PTL DEF Spec

\* The gNB's threads, queues and tables hold what they should, and no more TEIDs
\* are taken than there are requests: GnbStateMachine, SctpClient and GtpuManager.
THEOREM TypeCorrect == Spec => []TypeOK
  <1>1. IInv => TypeOK
    BY DEF IInv
  <1> QED BY <1>1, Invariant, PTL

\* The AMF gets at most one answer for a PSR, and a success only when the tunnel
\* was built, for any number of gNBs, workers, connections and requests.
THEOREM OneAnswerAfterBuild == Spec => []AnsweredOnceAfterBuild
  <1>1. IInv => AnsweredOnceAfterBuild
    BY DEF IInv, Tokens, NoCopies, Honest, AnsweredOnceAfterBuild
  <1> QED BY <1>1, Invariant, PTL

=============================================================================
