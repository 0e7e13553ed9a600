------------------------------ MODULE PfcpProofs ------------------------------
(***************************************************************************)
(* Type correctness of Pfcp and its three safety invariants, for every set *)
(* of PDU sessions, every n1 and every bound.                              *)
(*                                                                         *)
(* What makes them hold is that numbers are never used twice: a sequence   *)
(* number names one request, a CP-SEID one establishment, a UP-SEID one    *)
(* session of the UPF, which the SMF learns from one answer.  A deletion   *)
(* therefore hits the one session the SMF has just forgotten, however      *)
(* often it is repeated and however late it comes.                         *)
(***************************************************************************)
EXTENDS Pfcp, FiniteSetTheorems, TLAPS

Requested == {d \in net : d.kind = "request"}
Answered  == {d \in net : d.kind = "answer"}
Asking(o) == {p \in pending : p.req.op = o}
Serving   == {h \in handling : h.op = "establish"}

\* The requests that are on their way; a session of the UPF takes one of them, or
\* one that T1 or the network has repeated.
Created == {k \in Keys : install[k] = "created"}
Copies  == {d.seq : d \in Requested}

Counted ==
    /\ IsFiniteSet(Created)
    /\ seq + Cardinality(Created) =< 1 + MaxRequests
    /\ cpSeid =< (seq - 1) + Cardinality(Created)
    /\ upSeid + Cardinality(Copies) =< (seq - 1) + repeats

\* A sequence number names one request, and nothing is under way for a number
\* that is yet to be used.
Numbered ==
    /\ \A p \in pending : p.seq =< seq
    /\ \A p, q \in pending : p.seq = q.seq => p = q
    /\ \A d \in Requested : d.seq =< seq
    /\ \A h \in handling : h.seq =< seq
    /\ \A d, e \in Requested : d.seq = e.seq => d = e
    /\ \A p \in pending, d \in Requested : d.seq = p.seq => d.req = p.req
    /\ \A p \in pending, h \in handling : h.seq = p.seq => h.op = p.req.op
    /\ \A d \in Answered : \E p \in pending : p.seq = d.seq
    /\ \A d \in net : d.kind = "ack" => report.seq = d.seq
    /\ report.seq = 0 => report = NoReport

\* A CP-SEID names one establishment; a key has at most one.
Fresh ==
    /\ \A p \in Asking("establish") : install[p.req.key] = "commit" /\ p.req.cp =< cpSeid
    /\ \A d \in Requested : d.req.op = "establish" => d.req.cp =< cpSeid
    /\ \A s \in upf : s.cp =< cpSeid
    /\ \A p, q \in Asking("establish") :
          p.req.key = q.req.key \/ p.req.cp = q.req.cp => p = q
    /\ \A k \in Created :
          /\ rules[k] =< cpSeid
          /\ \A j \in Created : rules[j] = rules[k] => j = k
          /\ \A p \in Asking("establish") : p.req.cp # rules[k]
          /\ \A d \in Requested : d.req.op = "establish" => d.req.cp # rules[k]
          /\ \A s \in upf : s.cp # rules[k]

\* The SMF has asked for the deletion of the session u, or may ask again.
Doomed(u) ==
    \/ \E p \in Asking("delete") : p.req.up = u
    \/ \E d \in Requested : d.req.op = "delete" /\ d.req.up = u

\* The SMF has never heard of the session u.
Unheard(u) == ~Doomed(u) /\ \A k \in Keys : sessions[k].up # u

\* A UP-SEID names one session; the SMF hears of it once, and it is there until
\* the SMF asks for its deletion.
Identified ==
    /\ \A s \in upf : s.up \in 1..upSeid
    /\ \A s, t \in upf : s.up = t.up => s = t
    /\ \A u \in Seids : Doomed(u) => u \in 1..upSeid
    /\ \A k \in Keys : sessions[k] # None => ~Doomed(sessions[k].up)

Offered ==
    /\ \A h \in Serving :
          /\ Unheard(h.up)
          /\ \E s \in upf : /\ s.up = h.up /\ h.keys = {s.key}
                            /\ \A p \in pending : p.seq = h.seq =>
                                  p.req.cp = s.cp /\ p.req.key = s.key
    /\ \A h, i \in Serving : h.up = i.up => h = i
    /\ \A d \in Answered, p \in Asking("establish") : d.seq = p.seq =>
          /\ d.cause = 1
          /\ Unheard(d.up)
          /\ [up |-> d.up, cp |-> p.req.cp, key |-> p.req.key] \in upf
          /\ \A h \in Serving : h.up # d.up

\* What the dataplane buffers is still to be flushed by its establishment.
Buffered == \A k \in buffered : \E h \in Serving : k \in h.keys

\* A deletion that the UPF has looked at has removed its session.
Removed ==
    \A p \in Asking("delete") :
        (\E h \in handling : h.seq = p.seq) \/ (\E d \in Answered : d.seq = p.seq)
            => \A s \in upf : s.up # p.req.up

\* As long as nothing went wrong every request has been sent once, is pending
\* until it is answered, and its session is new.
Orderly ==
    ~upset =>
        /\ \A p \in pending : p.attempts = 0
        /\ \A d \in Requested :
              /\ \E p \in pending : p.seq = d.seq
              /\ \A h \in handling : h.seq # d.seq
              /\ \A a \in Answered : a.seq # d.seq
              /\ d.req.op = "establish" => \A s \in upf : s.cp # d.req.cp
        /\ \A s, t \in upf : s.cp = t.cp => s = t
        /\ \A k \in Keys : install[k] # "idle" => mgr[k] # "absent" /\ sessions[k] = None
        /\ \A k \in Keys : sessions[k] # None => mgr[k] # "absent"

IInv ==
    /\ TypeOK /\ Counted /\ Numbered /\ Fresh /\ Identified /\ SessionBacked
    /\ Offered /\ Buffered /\ PlaneOwned /\ Removed /\ Orderly /\ LeakHasCause
-----------------------------------------------------------------------------
(* The datagrams. *)

\* What the four kinds of datagram are made of.
LEMMA Kinds ==
    ASSUME TypeOK, NEW d \in net
    PROVE  \/ /\ d.kind = "request" /\ d.to = "upf" /\ d.seq \in Seqs /\ d.req \in Requests
              /\ d = ToUpf(d.seq, d.req)
           \/ /\ d.kind = "answer" /\ d.to = "smf" /\ d.seq \in Seqs /\ d.cause \in {1, 65}
              /\ d.up \in Seids /\ d = Answer(d.seq, d.cause, d.up)
           \/ d.kind = "report" /\ d.to = "smf" /\ d.seq \in UpfSeqs /\ d = Report(d.seq)
           \/ d.kind = "ack" /\ d.to = "upf" /\ d.seq \in UpfSeqs /\ d = Ack(d.seq)
  <1>1. d \in Datagrams
    BY DEF TypeOK
  <1> QED
    BY <1>1 DEF Datagrams, ToUpf, Answer, Report, Ack

\* The fields of a request, of a pending request and of a handler.
LEMMA Fields ==
    ASSUME TypeOK
    PROVE  /\ \A r \in Requests : /\ r.op \in Ops /\ r.key \in Keys /\ r.cp \in Seids
                                  /\ r.up \in Seids /\ r.far \in {"buf", "fwd"}
           /\ \A p \in pending : p.seq \in Seqs /\ p.req \in Requests /\ p.attempts \in 0..N1
           /\ \A h \in handling : /\ h.seq \in Seqs /\ h.op \in Ops /\ h.up \in Seids
                                  /\ h.keys \subseteq Keys /\ h.far \in {"buf", "fwd"}
           /\ \A s \in upf : s.up \in Seids /\ s.cp \in Seids /\ s.key \in Keys
           /\ \A k \in Keys : sessions[k].up \in Seids /\ sessions[k].cp \in Seids
  BY DEF TypeOK, Requests

\* What SendRequest remembers of a request.
New(r) == [seq |-> seq + 1, req |-> r, attempts |-> 0]

\* SendRequest adds a request to what is under way.
LEMMA Sends ==
    ASSUME TypeOK, NEW r \in Requests, SendRequest(r)
    PROVE  /\ pending' = pending \cup {New(r)} /\ seq' = seq + 1
           /\ New(r).seq = seq + 1 /\ New(r).req = r /\ New(r).attempts = 0
           /\ seq + 1 \in Seqs => New(r) \in [seq : Seqs, req : Requests, attempts : 0..N1]
           /\ seq + 1 \in Seqs => net' \subseteq Datagrams
           /\ Requested' = Requested \cup {ToUpf(seq + 1, r)}
           /\ Answered' = Answered
           /\ \A d \in net' : d.kind = "ack" => d \in net
           /\ ToUpf(seq + 1, r).seq = seq + 1 /\ ToUpf(seq + 1, r).req = r
           /\ repeats' = repeats
  <1>1. ToUpf(seq + 1, r).kind = "request"
    BY DEF ToUpf
  <1>2. ToUpf(seq + 1, r).seq = seq + 1 /\ ToUpf(seq + 1, r).req = r
    BY DEF ToUpf
  <1>3. net' = net \cup {ToUpf(seq + 1, r)} /\ seq' = seq + 1 /\ repeats' = repeats
    BY DEF SendRequest
  <1>4. /\ pending' = pending \cup {New(r)}
        /\ New(r).seq = seq + 1 /\ New(r).req = r /\ New(r).attempts = 0
        /\ seq + 1 \in Seqs => New(r) \in [seq : Seqs, req : Requests, attempts : 0..N1]
    BY PfcpAssumption DEF SendRequest, New
  <1>5. seq + 1 \in Seqs => net' \subseteq Datagrams
    <2>1. seq + 1 \in Seqs => ToUpf(seq + 1, r) \in Datagrams
      BY DEF Datagrams, ToUpf
    <2>2. net \subseteq Datagrams
      BY DEF TypeOK
    <2> QED
      BY <1>3, <2>1, <2>2
  <1> HIDE DEF ToUpf
  <1>6. /\ Requested' = Requested \cup {ToUpf(seq + 1, r)} /\ Answered' = Answered
        /\ \A d \in net' : d.kind = "ack" => d \in net
    BY <1>1, <1>3 DEF Requested, Answered
  <1> QED
    BY <1>2, <1>3, <1>4, <1>5, <1>6

\* T1 counts an attempt of p and may send p's request once more.
LEMMA Repeats ==
    ASSUME TypeOK, NEW p \in pending, T1Expiry(p)
    PROVE  /\ \E q \in [seq : Seqs, req : Requests, attempts : 0..N1] :
                 /\ q.seq = p.seq /\ q.req = p.req /\ q.attempts = p.attempts + 1
                 /\ pending' = (pending \ {p}) \cup {q}
           /\ \/ /\ Requested' = Requested \cup {ToUpf(p.seq, p.req)}
                 /\ net' = net \cup {ToUpf(p.seq, p.req)}
                 /\ repeats' = repeats + 1
              \/ Requested' = Requested /\ net' = net /\ repeats' = repeats
           /\ repeats' \in 0..MaxRepeats
           /\ Answered' = Answered
           /\ \A d \in net' : d.kind = "ack" => d \in net
           /\ ToUpf(p.seq, p.req).seq = p.seq /\ ToUpf(p.seq, p.req).req = p.req
  <1> USE PfcpAssumption
  <1>0. p \in [seq : Seqs, req : Requests, attempts : 0..N1]
    BY DEF TypeOK
  <1>1. p.attempts + 1 \in 0..N1 /\ p.seq \in Seqs /\ p.req \in Requests
    BY <1>0 DEF T1Expiry
  <1>2. [p EXCEPT !.attempts = @ + 1] = [seq |-> p.seq, req |-> p.req, attempts |-> p.attempts + 1]
    BY <1>0
  <1>3. pending' = (pending \ {p}) \cup {[seq |-> p.seq, req |-> p.req, attempts |-> p.attempts + 1]}
    BY <1>2 DEF T1Expiry
  <1>4. /\ \/ net' = net \cup {ToUpf(p.seq, p.req)} /\ repeats' = repeats + 1
           \/ net' = net /\ repeats' = repeats
        /\ repeats' \in 0..MaxRepeats
    BY DEF T1Expiry, Resend, netVars, TypeOK
  <1>5. /\ ToUpf(p.seq, p.req).kind = "request"
        /\ ToUpf(p.seq, p.req).seq = p.seq /\ ToUpf(p.seq, p.req).req = p.req
    BY DEF ToUpf
  <1>6. \E q \in [seq : Seqs, req : Requests, attempts : 0..N1] :
           /\ q.seq = p.seq /\ q.req = p.req /\ q.attempts = p.attempts + 1
           /\ pending' = (pending \ {p}) \cup {q}
    <2>1. [seq |-> p.seq, req |-> p.req, attempts |-> p.attempts + 1]
             \in [seq : Seqs, req : Requests, attempts : 0..N1]
      BY <1>1
    <2> QED
      BY <1>3, <2>1
  <1> HIDE DEF ToUpf
  <1> QED
    BY <1>4, <1>5, <1>6 DEF Requested, Answered

\* What is received is no longer on its way, unless the network repeats it.
LEMMA Receives ==
    ASSUME TypeOK, NEW d \in net, NEW out, Received(d, out)
    PROVE  /\ \/ net' = Awaited((net \ {d}) \cup out) /\ repeats' = repeats
              \/ /\ net' = Awaited(net \cup out) /\ repeats' = repeats + 1
                 /\ d.kind \in {"request", "report"}
           /\ \A x \in net' : /\ x \in net \/ x \in out
                              /\ x.kind = "answer" => \E p \in pending' : p.seq = x.seq
                              /\ x.kind = "ack" => report'.seq = x.seq
           /\ repeats' \in 0..MaxRepeats
  BY PfcpAssumption DEF Received, Awaited, TypeOK

\* The UPF has taken the request d, or one of its two copies.
Consumed(d) ==
    /\ repeats' \in 0..MaxRepeats
    /\ \/ repeats' = repeats /\ Requested' = Requested \ {d}
       \/ repeats' = repeats + 1 /\ Requested' = Requested

\* What a handler of the UPF receives is a request; what it sends is not.
LEMMA Consumes ==
    ASSUME TypeOK, Numbered, NEW d \in Requested, NEW out, Received(d, out),
           UNCHANGED <<pending, report>>, \A x \in out : x.kind = "answer"
    PROVE  /\ Consumed(d)
           /\ \A x \in net' : x \in net \/ x \in out
           /\ \A x \in net' : x.kind = "ack" => x \in net
           /\ \A a \in Answered' : /\ \E p \in pending : p.seq = a.seq
                                   /\ a \in Answered \/ a \in out
           /\ Answered \subseteq Answered'
  <1>1. d \in net /\ d.kind = "request"
    BY DEF Requested
  <1>2. /\ \/ net' = Awaited((net \ {d}) \cup out) /\ repeats' = repeats
           \/ net' = Awaited(net \cup out) /\ repeats' = repeats + 1
        /\ \A x \in net' : /\ x \in net \/ x \in out
                           /\ x.kind = "answer" => \E p \in pending' : p.seq = x.seq
        /\ repeats' \in 0..MaxRepeats
    BY <1>1, Receives
  <1>3. /\ \A a \in Answered : \E p \in pending : p.seq = a.seq
        /\ \A x \in net : x.kind = "ack" => report.seq = x.seq
    BY DEF Numbered
  <1>4. Consumed(d)
    BY <1>1, <1>2 DEF Awaited, Requested, Consumed
  <1>5. Answered \subseteq Answered'
    BY <1>1, <1>2, <1>3 DEF Awaited, Answered
  <1> QED
    BY <1>2, <1>4, <1>5 DEF Answered

\* The same when the handler has yet to answer.
LEMMA ConsumesOnly ==
    ASSUME TypeOK, Numbered, NEW d \in Requested, Received(d, {}), UNCHANGED <<pending, report>>
    PROVE  /\ Consumed(d) /\ Requested' \subseteq Requested /\ Answered' = Answered
           /\ net' \subseteq net
  <1>1. \A x \in {} : x.kind = "answer"
    OBVIOUS
  <1>2. /\ Consumed(d) /\ Answered \subseteq Answered'
        /\ \A x \in net' : x \in net \/ x \in {}
        /\ \A a \in Answered' : a \in Answered \/ a \in {}
    BY <1>1, Consumes
  <1> QED
    BY <1>2 DEF Consumed

\* What upset tells of a request that the UPF has taken.
LEMMA ConsumedOnce ==
    ASSUME TypeOK, NEW d \in Requested, Consumed(d),
           upset' = (upset \/ repeats' # repeats)
    PROVE  /\ upset' \in BOOLEAN /\ (upset => upset')
           /\ ~upset' => ~upset /\ Requested' = Requested \ {d}
  <1>1. repeats + 1 # repeats
    BY PfcpAssumption DEF TypeOK
  <1>2. upset' \in BOOLEAN /\ (upset => upset') /\ (~upset' => ~upset /\ repeats' = repeats)
    BY DEF TypeOK
  <1> QED
    BY <1>1, <1>2 DEF Consumed

\* A completed request takes the answers to it along.
LEMMA Completes ==
    ASSUME TypeOK, NEW p \in pending,
           Exhausted(p) \/ \E d \in net : d.to = "smf" /\ TakeAnswer(d, p)
    PROVE  /\ Requested' = Requested
           /\ Answered' \subseteq Answered
           /\ \A a \in Answered' : \E q \in pending' : q.seq = a.seq
           /\ \A d \in net' : d \in net /\ (d.kind = "ack" => report'.seq = d.seq)
           /\ repeats' \in 0..MaxRepeats /\ repeats' >= repeats
  <1>0. repeats \in 0..MaxRepeats
    BY DEF TypeOK
  <1>1. CASE Exhausted(p)
    BY <1>0, <1>1 DEF Exhausted, Awaited, Requested, Answered
  <1>2. ASSUME NEW d \in net, d.to = "smf", TakeAnswer(d, p)
        PROVE  /\ Requested' = Requested
               /\ Answered' \subseteq Answered
               /\ \A a \in Answered' : \E q \in pending' : q.seq = a.seq
               /\ \A x \in net' : x \in net /\ (x.kind = "ack" => report'.seq = x.seq)
               /\ repeats' \in 0..MaxRepeats /\ repeats' >= repeats
    <2>1. d \notin Requested
      BY <1>2, Kinds DEF Requested
    <2>3. Received(d, {})
      BY <1>2 DEF TakeAnswer
    <2>4. \/ net' = Awaited((net \ {d}) \cup {}) /\ repeats' = repeats
          \/ net' = Awaited(net \cup {}) /\ repeats' = repeats + 1
      BY <2>3 DEF Received
    <2>5. repeats' \in 0..MaxRepeats
      BY <2>3, Receives
    <2>2. /\ net' = Awaited((net \ {d}) \cup {}) \/ net' = Awaited(net \cup {})
          /\ repeats' \in 0..MaxRepeats /\ repeats' >= repeats
      BY <1>0, <2>4, <2>5
    <2> QED
      BY <2>1, <2>2 DEF Awaited, Requested, Answered
  <1> QED
    BY <1>1, <1>2

\* The datagrams of reports and acknowledgements leave the requests alone.
LEMMA Reports ==
    ASSUME TypeOK, Numbered,
           \/ \E d \in net : /\ d.to = "smf" /\ (\A p \in pending : p.seq # d.seq)
                             /\ Unsolicited(d) /\ UNCHANGED <<repVars, upfVars>>
           \/ \E k \in Keys : BufferPacket(k) \/ ForwardReport(k)
           \/ ReportT1Expiry
           \/ ReportExhausted
    PROVE  /\ Requested' = Requested /\ Answered' = Answered
           /\ UNCHANGED <<smfVars, sendVars, upfVars, upset>>
           /\ net' \subseteq Datagrams
           /\ \A d \in net' : d.kind = "ack" => report'.seq = d.seq
           /\ report' \in [seq : UpfSeqs \cup {0}, attempts : 0..N1]
           /\ report'.seq = 0 => report' = NoReport
           /\ upfSeq' \in UpfSeqs \cup {0} /\ ring' \subseteq Keys
           /\ repeats' \in 0..MaxRepeats /\ repeats' >= repeats
  <1> USE PfcpAssumption
  <1>0. /\ net \subseteq Datagrams /\ report \in [seq : UpfSeqs \cup {0}, attempts : 0..N1]
        /\ upfSeq \in UpfSeqs \cup {0} /\ ring \subseteq Keys /\ repeats \in 0..MaxRepeats
    BY DEF TypeOK
  <1>a. \A s \in UpfSeqs : Report(s) \in Datagrams /\ Ack(s) \in Datagrams
    BY DEF Datagrams, Report, Ack
  <1>b. /\ \A a \in Answered : \E p \in pending : p.seq = a.seq
        /\ \A d \in net : d.kind = "ack" => report.seq = d.seq
        /\ report.seq = 0 => report = NoReport
    BY DEF Numbered
  <1>c. \A s \in UpfSeqs : /\ Report(s).kind = "report"
                           /\ Ack(s).kind = "ack" /\ Ack(s).seq = s
    BY DEF Report, Ack
  <1>1. ASSUME NEW d \in net, d.to = "smf", \A p \in pending : p.seq # d.seq,
               Unsolicited(d), UNCHANGED <<repVars, upfVars>>
        PROVE  /\ Requested' = Requested /\ Answered' = Answered
               /\ UNCHANGED <<smfVars, sendVars, upfVars, upset, repVars>>
               /\ net' \subseteq Datagrams
               /\ \A x \in net' : x.kind = "ack" => report'.seq = x.seq
               /\ repeats' \in 0..MaxRepeats /\ repeats' >= repeats
    <2>1. d.kind = "report" /\ d.seq \in UpfSeqs
      BY <1>1, <1>b, Kinds DEF Answered
    <2>2. /\ Received(d, {Ack(d.seq)})
          /\ UNCHANGED <<smfVars, sendVars, upfVars, upset, repVars>>
      BY <1>1 DEF Unsolicited
    <2>3. pending' = pending /\ report' = report
      BY <2>2 DEF sendVars, repVars
    <2>4. /\ \/ net' = Awaited((net \ {d}) \cup {Ack(d.seq)})
             \/ net' = Awaited(net \cup {Ack(d.seq)})
          /\ \A x \in net' : /\ x \in net \/ x \in {Ack(d.seq)}
                             /\ x.kind = "ack" => report'.seq = x.seq
          /\ repeats' \in 0..MaxRepeats /\ repeats' >= repeats
      <3>1. \/ net' = Awaited((net \ {d}) \cup {Ack(d.seq)}) /\ repeats' = repeats
            \/ net' = Awaited(net \cup {Ack(d.seq)}) /\ repeats' = repeats + 1
        BY <2>2 DEF Received
      <3>2. /\ repeats' \in 0..MaxRepeats
            /\ \A x \in net' : /\ x \in net \/ x \in {Ack(d.seq)}
                               /\ x.kind = "ack" => report'.seq = x.seq
        BY <2>2, Receives
      <3> QED
        BY <1>0, <3>1, <3>2
    <2> HIDE DEF Ack, Datagrams
    <2>5. Requested' = Requested /\ Answered' = Answered
      BY <2>1, <2>3, <2>4, <1>b, <1>c DEF Awaited, Requested, Answered
    <2>6. net' \subseteq Datagrams
      BY <2>1, <2>4, <1>0, <1>a
    <2> QED
      BY <2>2, <2>3, <2>4, <2>5, <2>6
  <1>2. ASSUME NEW k \in Keys, ForwardReport(k)
        PROVE  /\ Requested' = Requested /\ Answered' = Answered
               /\ UNCHANGED <<smfVars, sendVars, upfVars, upset, repeats>>
               /\ net' \subseteq Datagrams
               /\ \A x \in net' : x.kind = "ack" => report'.seq = x.seq
               /\ report' \in [seq : UpfSeqs \cup {0}, attempts : 0..N1]
               /\ report'.seq = 0 => report' = NoReport
               /\ upfSeq' \in UpfSeqs \cup {0} /\ ring' \subseteq Keys
    <2>1. /\ UNCHANGED <<smfVars, sendVars, upfVars, upset, repeats>>
          /\ ring' \subseteq Keys /\ report = NoReport
      BY <1>2, <1>0 DEF ForwardReport
    <2>2. report.seq = 0
      BY <2>1 DEF NoReport
    <2>3. \A x \in net : x.kind # "ack"
      BY <2>2, <1>b, Kinds DEF UpfSeqs
    <2>4. \/ upfSeq' = upfSeq /\ report' = report /\ net' = net
          \/ /\ upfSeq' = upfSeq + 1 /\ upfSeq + 1 \in UpfSeqs
             /\ \/ /\ report' = [seq |-> upfSeq + 1, attempts |-> 0]
                   /\ net' = net \cup {Report(upfSeq + 1)}
                \/ report' = report /\ net' = net
      BY <1>2, <1>0 DEF ForwardReport, UpfSeqs
    <2>5. upfSeq + 1 \in UpfSeqs =>
             /\ [seq |-> upfSeq + 1, attempts |-> 0] \in [seq : UpfSeqs \cup {0}, attempts : 0..N1]
             /\ upfSeq + 1 # 0
      BY DEF UpfSeqs
    <2>6. Requested' = Requested /\ Answered' = Answered
      BY <2>4, <1>c DEF Requested, Answered
    <2>7. /\ net' \subseteq Datagrams
          /\ \A x \in net' : x.kind = "ack" => report'.seq = x.seq
      BY <2>3, <2>4, <1>a, <1>c, <1>0
    <2>8. /\ report' \in [seq : UpfSeqs \cup {0}, attempts : 0..N1]
          /\ report'.seq = 0 => report' = NoReport
          /\ upfSeq' \in UpfSeqs \cup {0}
      BY <2>1, <2>4, <2>5, <1>0
    <2> QED
      BY <2>1, <2>6, <2>7, <2>8
  <1>3. ASSUME ReportT1Expiry
        PROVE  /\ Requested' = Requested /\ Answered' = Answered
               /\ UNCHANGED <<smfVars, sendVars, upfVars, upset, upfSeq, ring, repeats>>
               /\ net' \subseteq Datagrams
               /\ \A x \in net' : x.kind = "ack" => report'.seq = x.seq
               /\ report' \in [seq : UpfSeqs \cup {0}, attempts : 0..N1]
               /\ report'.seq # 0
    <2>1. report' = [seq |-> report.seq, attempts |-> report.attempts + 1]
      BY <1>3, <1>0 DEF ReportT1Expiry
    <2>2. report.seq \in UpfSeqs
      BY <1>0, <1>b, <1>3 DEF ReportT1Expiry
    <2>3. /\ net' = net \cup {Report(report.seq)} \/ net' = net
          /\ UNCHANGED <<smfVars, sendVars, upfVars, upset, upfSeq, ring, repeats>>
      BY <1>3 DEF ReportT1Expiry
    <2>4. report.attempts + 1 \in 0..N1
      BY <1>3, <1>0 DEF ReportT1Expiry
    <2>5. report' \in [seq : UpfSeqs \cup {0}, attempts : 0..N1] /\ report'.seq = report.seq
      BY <2>1, <2>2, <2>4
    <2>6. Requested' = Requested /\ Answered' = Answered
      BY <2>2, <2>3, <1>c DEF Requested, Answered
    <2>7. report.seq # 0
      BY <2>2 DEF UpfSeqs
    <2> QED
      BY <2>2, <2>3, <2>5, <2>6, <2>7, <1>a, <1>b, <1>c, <1>0
  <1>4. ASSUME ReportExhausted
        PROVE  /\ Requested' = Requested /\ Answered' = Answered
               /\ UNCHANGED <<smfVars, sendVars, upfVars, upset, upfSeq, ring, repeats>>
               /\ net' \subseteq Datagrams
               /\ \A x \in net' : x.kind = "ack" => report'.seq = x.seq
               /\ report' = NoReport
    <2>1. /\ net' = Awaited(net) /\ report' = NoReport
          /\ UNCHANGED <<smfVars, sendVars, upfVars, upset, upfSeq, ring, repeats>>
      BY <1>4 DEF ReportExhausted
    <2>2. pending' = pending
      BY <2>1 DEF sendVars
    <2> QED
      BY <2>1, <2>2, <1>0, <1>b DEF Awaited, Requested, Answered
  <1>5. NoReport \in [seq : UpfSeqs \cup {0}, attempts : 0..N1]
    BY DEF NoReport
  <1>6. ASSUME NEW d \in net, d.to = "smf", \A p \in pending : p.seq # d.seq,
               Unsolicited(d), UNCHANGED <<repVars, upfVars>>
        PROVE  report' = report /\ upfSeq' = upfSeq /\ ring' = ring
    BY <1>6 DEF repVars
  <1>7. ASSUME NEW k \in Keys, BufferPacket(k)
        PROVE  /\ Requested' = Requested /\ Answered' = Answered
               /\ UNCHANGED <<smfVars, sendVars, upfVars, upset, upfSeq, report, net, repeats>>
               /\ ring' \subseteq Keys
    <2>1. /\ UNCHANGED <<smfVars, sendVars, upfVars, upset, upfSeq, report, net, repeats>>
          /\ ring' \subseteq Keys
      BY <1>7, <1>0 DEF BufferPacket, netVars
    <2> QED
      BY <2>1 DEF Requested, Answered
  <1>8. repeats' = repeats => repeats' \in 0..MaxRepeats /\ repeats' >= repeats
    BY <1>0
  <1> QED
    BY <1>0, <1>b, <1>1, <1>2, <1>3, <1>4, <1>5, <1>6, <1>7, <1>8

\* The UPF takes a datagram that has the number of its report as an
\* acknowledgement; the request, if it was one, is gone.
LEMMA TakenForAck ==
    ASSUME TypeOK, Numbered, NEW d \in net, UpfReceive(d), report.seq = d.seq
    PROVE  /\ Requested' \subseteq Requested /\ Answered' = Answered
           /\ UNCHANGED <<smfVars, sendVars, upfVars, upfSeq, ring>>
           /\ upset' = (upset \/ repeats' # repeats)
           /\ report' = NoReport
           /\ \A x \in net' : x \in net /\ x.kind # "ack"
           /\ repeats' \in 0..MaxRepeats /\ repeats' >= repeats
  <1>0. d \notin Answered
    BY Kinds DEF UpfReceive, Answered
  <1>1. /\ report' = NoReport /\ Received(d, {})
        /\ UNCHANGED <<smfVars, sendVars, upfVars, upfSeq, ring>>
        /\ upset' = (upset \/ repeats' # repeats)
    BY DEF UpfReceive, upfVars
  <1>2. pending' = pending
    BY <1>1 DEF sendVars
  <1>3. \A x \in net : x.kind = "ack" => x.seq # 0
    BY Kinds, PfcpAssumption DEF UpfSeqs
  <1>4. \A a \in Answered : \E p \in pending : p.seq = a.seq
    BY DEF Numbered
  <1>5. /\ net' = Awaited((net \ {d}) \cup {}) \/ net' = Awaited(net \cup {})
        /\ repeats' \in 0..MaxRepeats /\ (repeats' = repeats \/ repeats' = repeats + 1)
    BY <1>1, Receives
  <1>6. repeats' >= repeats
    BY <1>5 DEF TypeOK
  <1> QED
    BY <1>0, <1>1, <1>2, <1>3, <1>4, <1>5, <1>6 DEF Awaited, Requested, Answered, NoReport

\* What the handlers are given is a request.
LEMMA Handled ==
    ASSUME TypeOK, Numbered, NEW d \in net, UpfReceive(d), report.seq # d.seq
    PROVE  /\ d \in Requested
           /\ UNCHANGED <<smfVars, sendVars, repVars, plane>>
           /\ upset' = (upset \/ repeats' # repeats)
           /\ \/ d.req.op = "establish" /\ EstablishTable(d)
              \/ d.req.op = "modify" /\ ModifyTable(d)
              \/ d.req.op = "delete" /\ DeleteTable(d)
  <1>1. d \in Requested
    BY Kinds DEF UpfReceive, Requested, Numbered
  <1>2. d.req.op \in Ops
    BY <1>1, Kinds, Fields DEF Requested
  <1>3. /\ UNCHANGED <<smfVars, sendVars, repVars, plane>>
        /\ upset' = (upset \/ repeats' # repeats)
    BY DEF UpfReceive, repVars
  <1>4. (CASE d.req.op = "establish" -> EstablishTable(d)
           [] d.req.op = "modify"    -> ModifyTable(d)
           [] d.req.op = "delete"    -> DeleteTable(d))
    BY DEF UpfReceive
  <1> QED
    BY <1>1, <1>2, <1>3, <1>4 DEF Ops

\* A handler of the UPF between its two steps.
Handlers == [seq : Seqs, op : Ops, up : Seids, keys : SUBSET Keys, far : {"buf", "fwd"}]

\* An establishment makes a session of its own.
LEMMA Establishes ==
    ASSUME TypeOK, Numbered, NEW d \in Requested, EstablishTable(d), upSeid + 1 \in Seids,
           UNCHANGED <<pending, report>>
    PROVE  /\ Consumed(d) /\ Answered' = Answered
           /\ net' \subseteq net
           /\ \E s \in [up : Seids, cp : Seids, key : Keys] :
                 /\ s.up = upSeid + 1 /\ s.cp = d.req.cp /\ s.key = d.req.key
                 /\ upf' = upf \cup {s}
           /\ \E h \in Handlers :
                 /\ h.seq = d.seq /\ h.op = "establish" /\ h.up = upSeid + 1
                 /\ h.keys = {d.req.key} /\ handling' = handling \cup {h}
           /\ byIMSI' \in [Keys -> Seids]
           /\ upSeid' = upSeid + 1
           /\ buffered' = buffered \cup {d.req.key}
           /\ d.req.key \in Keys
  <1>1. d.seq \in Seqs /\ d.req.key \in Keys /\ d.req.cp \in Seids /\ d \in net
    BY Kinds, Fields DEF Requested
  <1> DEFINE s == [up |-> upSeid + 1, cp |-> d.req.cp, key |-> d.req.key]
             h == [seq |-> d.seq, op |-> "establish", up |-> upSeid + 1,
                   keys |-> {d.req.key}, far |-> "buf"]
  <1>2. /\ s \in [up : Seids, cp : Seids, key : Keys]
        /\ s.up = upSeid + 1 /\ s.cp = d.req.cp /\ s.key = d.req.key
    BY <1>1
  <1>3. /\ h \in Handlers /\ h.seq = d.seq /\ h.op = "establish" /\ h.up = upSeid + 1
        /\ h.keys = {d.req.key}
    BY <1>1 DEF Handlers, Ops
  <1>4. /\ upf' = upf \cup {s} /\ handling' = handling \cup {h} /\ Received(d, {})
        /\ upSeid' = upSeid + 1 /\ buffered' = buffered \cup {d.req.key}
        /\ byIMSI' = [byIMSI EXCEPT ![d.req.key] = upSeid + 1]
    BY DEF EstablishTable
  <1>5. byIMSI' \in [Keys -> Seids]
    BY <1>4, <1>1 DEF TypeOK
  <1>6. Consumed(d) /\ Answered' = Answered /\ net' \subseteq net
    BY <1>4, ConsumesOnly
  <1> HIDE DEF s, h
  <1> QED
    BY <1>1, <1>2, <1>3, <1>4, <1>5, <1>6

\* A modification looks its session up.
LEMMA Modifies ==
    ASSUME TypeOK, Numbered, NEW d \in Requested, ModifyTable(d), UNCHANGED <<pending, report>>
    PROVE  /\ Consumed(d) /\ Answered' = Answered
           /\ net' \subseteq net
           /\ \E h \in Handlers : /\ h.seq = d.seq /\ h.op = "modify"
                                  /\ handling' = handling \cup {h}
           /\ UNCHANGED <<upf, byIMSI, upSeid, buffered>>
  <1>1. d.seq \in Seqs /\ d.req.up \in Seids /\ d.req.far \in {"buf", "fwd"} /\ d \in net
    BY Kinds, Fields DEF Requested
  <1> DEFINE h == [seq |-> d.seq, op |-> "modify", up |-> d.req.up, far |-> d.req.far,
                   keys |-> {s.key : s \in {x \in upf : x.up = d.req.up}}]
  <1>2. {s.key : s \in {x \in upf : x.up = d.req.up}} \subseteq Keys
    BY Fields
  <1>3. h \in Handlers /\ h.seq = d.seq /\ h.op = "modify"
    BY <1>1, <1>2 DEF Handlers, Ops
  <1>4. /\ handling' = handling \cup {h} /\ Received(d, {})
        /\ UNCHANGED <<upf, byIMSI, upSeid, buffered>>
    BY DEF ModifyTable
  <1>5. Consumed(d) /\ Answered' = Answered /\ net' \subseteq net
    BY <1>4, ConsumesOnly
  <1> HIDE DEF h
  <1> QED
    BY <1>1, <1>3, <1>4, <1>5

\* A deletion removes the sessions of its UP-SEID; only a deletion that finds
\* none is answered at once.
LEMMA Deletes ==
    ASSUME TypeOK, Numbered, NEW d \in Requested, DeleteTable(d), UNCHANGED <<sendVars, repVars>>
    PROVE  /\ Consumed(d)
           /\ upf' = {s \in upf : s.up # d.req.up}
           /\ byIMSI' \in [Keys -> Seids]
           /\ UNCHANGED <<upSeid, buffered>>
           /\ \/ /\ upf' # upf /\ net' \subseteq net /\ Answered' = Answered
                 /\ \E h \in Handlers :
                       /\ h.seq = d.seq /\ h.op = "delete"
                       /\ h.keys = {s.key : s \in upf \ upf'}
                       /\ handling' = handling \cup {h}
              \/ /\ upf' = upf /\ handling' = handling
                 /\ net' \subseteq Datagrams
                 /\ \A x \in net' : x.kind = "ack" => x \in net
                 /\ \A a \in Answered' :
                       /\ \E p \in pending : p.seq = a.seq
                       /\ a \in Answered \/ (a.seq = d.seq /\ a.cause = 65)
  <1> USE PfcpAssumption
  <1>1. /\ d.seq \in Seqs /\ d.req.up \in Seids /\ d \in net /\ net \subseteq Datagrams
        /\ d \notin Answered
    BY Kinds, Fields DEF Requested, Answered, TypeOK
  <1> DEFINE gone == {s \in upf : s.up = d.req.up}
             h == [seq |-> d.seq, op |-> "delete", up |-> d.req.up,
                   keys |-> {s.key : s \in gone}, far |-> "buf"]
             a == Answer(d.seq, 65, 0)
  <1>2. /\ upf' = upf \ gone
        /\ byIMSI' = [k \in Keys |-> IF \E s \in gone : s.key = k THEN 0 ELSE byIMSI[k]]
        /\ UNCHANGED <<upSeid, buffered>>
        /\ \/ gone # {} /\ handling' = handling \cup {h} /\ Received(d, {})
           \/ gone = {} /\ Received(d, {a}) /\ UNCHANGED handling
    BY DEF DeleteTable
  <1>3. 0 \in Seids
    BY DEF Seids
  <1>4. byIMSI' \in [Keys -> Seids]
    <2>1. byIMSI \in [Keys -> Seids]
      BY DEF TypeOK
    <2> QED
      BY <1>2, <1>3, <2>1
  <1>5. upf' = {s \in upf : s.up # d.req.up} /\ upf \ upf' = gone
    BY <1>2
  <1>6. gone \subseteq upf /\ {s.key : s \in gone} \subseteq Keys
    BY Fields
  <1>7. h \in Handlers /\ h.seq = d.seq /\ h.op = "delete" /\ h.keys = {s.key : s \in gone}
    BY <1>1, <1>6 DEF Handlers, Ops
  <1>8. a \in Datagrams /\ a.kind = "answer" /\ a.seq = d.seq /\ a.cause = 65
    BY <1>1, <1>3 DEF Datagrams, Answer
  <1>9. pending' = pending /\ report' = report
    BY DEF sendVars, repVars
  <1> HIDE DEF h, a
  <1>10. CASE gone # {}
    <2>1. handling' = handling \cup {h} /\ Received(d, {}) /\ upf' # upf
      BY <1>2, <1>10
    <2>2. h.keys = {s.key : s \in upf \ upf'}
      BY <1>5, <1>7
    <2>3. Consumed(d) /\ Answered' = Answered /\ net' \subseteq net
      BY <2>1, <1>9, ConsumesOnly
    <2> HIDE DEF gone
    <2> QED
      BY <1>2, <1>4, <1>5, <1>7, <2>1, <2>2, <2>3
  <1>11. CASE gone = {}
    <2>1. Received(d, {a}) /\ handling' = handling /\ upf' = upf
      BY <1>2, <1>11
    <2>2. /\ Consumed(d)
          /\ \A x \in net' : x \in net \/ x \in {a}
          /\ \A x \in net' : x.kind = "ack" => x \in net
          /\ \A x \in Answered' : /\ \E p \in pending : p.seq = x.seq
                                  /\ x \in Answered \/ x \in {a}
      BY <2>1, <1>8, <1>9, Consumes
    <2>3. \A x \in Answered' : /\ \E p \in pending : p.seq = x.seq
                               /\ x \in Answered \/ (x.seq = d.seq /\ x.cause = 65)
      BY <2>2, <1>8
    <2>4. net' \subseteq Datagrams
      BY <2>2, <1>1, <1>8
    <2> HIDE DEF gone
    <2> QED
      BY <1>2, <1>4, <1>5, <2>1, <2>2, <2>3, <2>4
  <1> QED
    BY <1>10, <1>11

\* The rest of a handler answers its request, if somebody still waits.
LEMMA Finishes ==
    ASSUME TypeOK, Numbered, NEW h \in handling, Finish(h)
    PROVE  /\ Requested' = Requested
           /\ net' \subseteq Datagrams
           /\ \A x \in net' : x.kind = "ack" => x \in net
           /\ \A a \in Answered' :
                 /\ \E p \in pending : p.seq = a.seq
                 /\ \/ a \in Answered
                    \/ /\ a.seq = h.seq /\ a.cause = 1
                       /\ h.op = "establish" => a.up = h.up
           /\ UNCHANGED <<smfVars, sendVars, repVars, repeats, upf, byIMSI, upSeid, upset>>
           /\ handling' = handling \ {h}
           /\ \/ h.op = "establish" /\ CreateInPlane(h)
              \/ h.op = "modify" /\ UpdateInPlane(h)
              \/ h.op = "delete" /\ DeleteInPlane(h)
  <1> USE PfcpAssumption
  <1>1. h.seq \in Seqs /\ h.up \in Seids /\ h.op \in Ops /\ net \subseteq Datagrams
    BY Fields DEF TypeOK
  <1> DEFINE a == Answer(h.seq, 1, IF h.op = "establish" THEN h.up ELSE 0)
  <1>2. 0 \in Seids
    BY DEF Seids
  <1>3. /\ a \in Datagrams /\ a.kind = "answer" /\ a.seq = h.seq /\ a.cause = 1
        /\ h.op = "establish" => a.up = h.up
    BY <1>1, <1>2 DEF Datagrams, Answer
  <1>4. /\ net' = Awaited(net \cup {a}) /\ handling' = handling \ {h}
        /\ UNCHANGED <<smfVars, sendVars, repVars, repeats, upf, byIMSI, upSeid, upset>>
        /\ (CASE h.op = "establish" -> CreateInPlane(h)
              [] h.op = "modify"    -> UpdateInPlane(h)
              [] h.op = "delete"    -> DeleteInPlane(h))
    BY DEF Finish
  <1>5. pending' = pending /\ report' = report
    BY <1>4 DEF sendVars, repVars
  <1> HIDE DEF a
  <1>6. net' = {x \in net \cup {a} :
                   /\ x.kind = "answer" => \E p \in pending : p.seq = x.seq
                   /\ x.kind = "ack" => report.seq = x.seq}
    BY <1>4, <1>5 DEF Awaited
  <1>7. \A x \in net : x.kind = "ack" => report.seq = x.seq
    BY DEF Numbered
  <1>8. Requested' = Requested
    BY <1>3, <1>6 DEF Requested
  <1>9. \A x \in Answered' :
           /\ \E p \in pending : p.seq = x.seq
           /\ \/ x \in Answered
              \/ x.seq = h.seq /\ x.cause = 1 /\ (h.op = "establish" => x.up = h.up)
    BY <1>3, <1>6 DEF Answered
  <1>10. net' \subseteq Datagrams /\ \A x \in net' : x.kind = "ack" => x \in net
    BY <1>1, <1>3, <1>6
  <1>11. \/ h.op = "establish" /\ CreateInPlane(h)
         \/ h.op = "modify" /\ UpdateInPlane(h)
         \/ h.op = "delete" /\ DeleteInPlane(h)
    BY <1>1, <1>4 DEF Ops
  <1> QED
    BY <1>4, <1>8, <1>9, <1>10, <1>11
-----------------------------------------------------------------------------
(* Counting. *)

\* Sets of sequence numbers are finite, and the bounds on what is counted are
\* SEIDs.
LEMMA Bounds ==
    /\ \A S : S \subseteq Seqs => IsFiniteSet(S) /\ Cardinality(S) \in Nat
    /\ \A n \in Nat, m \in 0..MaxRequests, r \in 0..MaxRepeats : n =< m + r => n \in Seids
    /\ \A n \in Nat : n =< MaxRequests => n \in Seids
  <1> USE PfcpAssumption
  <1>1. IsFiniteSet(Seqs)
    BY FS_Interval DEF Seqs
  <1>2. ASSUME NEW S, S \subseteq Seqs
        PROVE  IsFiniteSet(S) /\ Cardinality(S) \in Nat
    <2>1. S \in SUBSET Seqs
      BY <1>2
    <2>2. IsFiniteSet(S)
      BY <1>1, <2>1, FS_Subset, Zenon
    <2> QED
      BY <2>2, FS_CardinalityType
  <1>3. /\ \A n \in Nat, m \in 0..MaxRequests, r \in 0..MaxRepeats : n =< m + r => n \in Seids
        /\ \A n \in Nat : n =< MaxRequests => n \in Seids
    BY DEF Seids
  <1> QED
    BY <1>2, <1>3

\* The numbers of the requests under way, before and after a step.
LEMMA CopiesFinite ==
    ASSUME TypeOK
    PROVE  /\ Copies \subseteq Seqs /\ IsFiniteSet(Copies) /\ Cardinality(Copies) \in Nat
           /\ \A S : S \subseteq Seqs => IsFiniteSet(S) /\ Cardinality(S) \in Nat
  <1>1. Copies \subseteq Seqs
    BY Kinds DEF Copies, Requested
  <1> QED
    BY <1>1, Bounds

\* A request that is sent takes a number of its own, or is one more repetition.
LEMMA CountGrown ==
    ASSUME TypeOK, Counted, NEW c \in Seqs, Copies' \subseteq Copies \cup {c}, upSeid' = upSeid,
           seq' \in Nat, repeats' \in Nat, seq' + repeats' >= seq + repeats + 1
    PROVE  upSeid' + Cardinality(Copies)' =< (seq' - 1) + repeats'
  <1> USE PfcpAssumption
  <1>1. /\ IsFiniteSet(Copies) /\ Cardinality(Copies) \in Nat
        /\ IsFiniteSet(Copies') /\ Cardinality(Copies') \in Nat
    <2>1. Copies' \subseteq Seqs
      BY CopiesFinite
    <2> QED
      BY <2>1, CopiesFinite
  <1>2. /\ IsFiniteSet(Copies \cup {c}) /\ Cardinality(Copies \cup {c}) \in Nat
        /\ Cardinality(Copies \cup {c}) =< Cardinality(Copies) + 1
    <2>1. /\ IsFiniteSet(Copies \cup {c})
          /\ Cardinality(Copies \cup {c}) =
                IF c \in Copies THEN Cardinality(Copies) ELSE Cardinality(Copies) + 1
      BY <1>1, FS_AddElement, Zenon
    <2> QED
      BY <1>1, <2>1
  <1>3. Cardinality(Copies') =< Cardinality(Copies \cup {c})
    <2>1. Copies' \in SUBSET (Copies \cup {c})
      BY Zenon
    <2> QED
      BY <1>2, <2>1, FS_Subset, Zenon
  <1>4. seq \in Nat /\ upSeid \in Nat /\ repeats \in Nat
    BY DEF TypeOK, Seqs, Seids
  <1>5. upSeid + Cardinality(Copies) =< (seq - 1) + repeats
    BY DEF Counted
  <1>6. Cardinality(Copies') =< Cardinality(Copies) + 1
    BY <1>1, <1>2, <1>3
  <1> DEFINE i == seq
             j == seq'
             m == repeats
             n == repeats'
             a == Cardinality(Copies)
             b == Cardinality(Copies')
             u == upSeid
  <1>7. /\ i \in Nat /\ j \in Nat /\ m \in Nat /\ n \in Nat /\ j + n >= i + m + 1
        /\ a \in Nat /\ b \in Nat /\ u \in Nat /\ b =< a + 1 /\ u + a =< (i - 1) + m
    BY <1>1, <1>4, <1>5, <1>6
  <1>8. u + b =< (j - 1) + n
    <2> HIDE DEF i, j, m, n, a, b, u
    <2> QED
      BY <1>7
  <1> QED
    BY <1>8

\* Anything else makes no copy that was not counted; an establishment that is
\* handled was one, or is one more repetition.
LEMMA CountOthers ==
    ASSUME TypeOK, Counted, Copies' \subseteq Copies,
           seq' \in Nat, repeats' \in Nat, seq' + repeats' >= seq + repeats,
           \/ upSeid' = upSeid
           \/ upSeid' = upSeid + 1 /\ \E c \in Copies : c \notin Copies'
           \/ upSeid' = upSeid + 1 /\ seq' + repeats' >= seq + repeats + 1
    PROVE  upSeid' + Cardinality(Copies)' =< (seq' - 1) + repeats'
  <1> USE PfcpAssumption
  <1>1. /\ IsFiniteSet(Copies) /\ Cardinality(Copies) \in Nat
        /\ IsFiniteSet(Copies') /\ Cardinality(Copies') \in Nat
    <2>1. Copies' \subseteq Seqs
      BY CopiesFinite
    <2> QED
      BY <2>1, CopiesFinite
  <1>2. seq \in Nat /\ upSeid \in Nat /\ repeats \in Nat
    BY DEF TypeOK, Seqs, Seids
  <1>3. upSeid + Cardinality(Copies) =< (seq - 1) + repeats
    BY DEF Counted
  <1>4. Copies' \in SUBSET Copies
    BY Zenon
  <1>5. /\ Cardinality(Copies') =< Cardinality(Copies)
        /\ Cardinality(Copies) = Cardinality(Copies') => Copies = Copies'
    BY <1>1, <1>4, FS_Subset, Zenon
  <1> DEFINE i == seq
             j == seq'
             m == repeats
             n == repeats'
             a == Cardinality(Copies)
             b == Cardinality(Copies')
             u == upSeid
             v == upSeid'
  <1>6. /\ i \in Nat /\ j \in Nat /\ m \in Nat /\ n \in Nat /\ j + n >= i + m
        /\ a \in Nat /\ b \in Nat /\ u \in Nat /\ b =< a /\ u + a =< (i - 1) + m
    BY <1>1, <1>2, <1>3, <1>5
  <1>7. \/ v = u
        \/ v = u + 1 /\ b # a
        \/ v = u + 1 /\ j + n >= i + m + 1
    BY <1>5
  <1>8. v + b =< (j - 1) + n
    <2> HIDE DEF i, j, m, n, a, b, u, v
    <2> QED
      BY <1>6, <1>7
  <1> QED
    BY <1>8

\* A sum grows with its second term.
LEMMA Sums == \A a, b, c \in Nat : b >= c => a + b >= a + c
  OBVIOUS

\* A handled request is gone, and so is its copy, or the network has repeated it.
LEMMA HandledCounted ==
    ASSUME TypeOK, Counted, Numbered, NEW d \in Requested, Consumed(d), seq' = seq,
           upSeid' = upSeid \/ upSeid' = upSeid + 1
    PROVE  upSeid' + Cardinality(Copies)' =< (seq' - 1) + repeats'
  <1> USE PfcpAssumption
  <1>1. seq \in Nat /\ repeats \in Nat /\ repeats' \in Nat
    BY DEF TypeOK, Seqs, Consumed
  <1>2. CASE repeats' = repeats /\ Requested' = Requested \ {d}
    <2>1. d.seq \in Copies
      BY DEF Copies
    <2>2. d.seq \notin Copies'
      BY <1>2 DEF Copies, Numbered
    <2>3. Copies' \subseteq Copies
      BY <1>2 DEF Copies
    <2> QED
      BY <1>1, <1>2, <2>1, <2>2, <2>3, CountOthers
  <1>3. CASE repeats' = repeats + 1 /\ Requested' = Requested
    <2>1. Copies' \subseteq Copies
      BY <1>3 DEF Copies
    <2> QED
      BY <1>1, <1>3, <2>1, CountOthers
  <1> QED
    BY <1>2, <1>3 DEF Consumed
-----------------------------------------------------------------------------
(* The initial state and the steps, one lemma per action. *)

\* The initial state satisfies the invariant.
LEMMA InitIInv == Init => IInv
  <1> SUFFICES ASSUME Init PROVE IInv
    OBVIOUS
  <1> USE PfcpAssumption
  <1>0. /\ Requested = {} /\ Answered = {} /\ Serving = {} /\ Created = {} /\ Copies = {}
        /\ \A o \in Ops : Asking(o) = {}
        /\ \A u \in Seids : ~Doomed(u)
    BY DEF Init, Requested, Answered, Serving, Created, Copies, Asking, Doomed
  <1>1. 0 \in Seids
    BY DEF Seids
  <1>2. TypeOK
    <2>1. 1 \in Seqs /\ UpfSeq \in UpfSeqs \cup {0} /\ 0 \in 0..N1
      BY DEF Seqs, UpfSeqs
    <2>2. None \in [up : Seids, cp : Seids]
      BY <1>1 DEF None
    <2>3. NoReport \in [seq : UpfSeqs \cup {0}, attempts : 0..N1] /\ 0 \in 0..MaxRepeats
      BY <2>1 DEF NoReport
    <2> QED
      BY <1>1, <2>1, <2>2, <2>3 DEF Init, TypeOK
  <1>3. Counted
    <2>1. IsFiniteSet(Created) /\ Cardinality(Created) = 0 /\ Cardinality(Copies) = 0
      BY <1>0, FS_EmptySet
    <2> QED
      BY <2>1 DEF Init, Counted
  <1>4. Numbered
    BY <1>0 DEF Init, Numbered
  <1>5. Fresh
    BY <1>0 DEF Init, Fresh, Ops
  <1>6. Identified /\ SessionBacked
    BY <1>0 DEF Init, Identified, SessionBacked
  <1>7. Offered /\ Buffered /\ PlaneOwned
    BY <1>0 DEF Init, Offered, Buffered, PlaneOwned
  <1>8. Removed /\ Orderly /\ LeakHasCause
    BY <1>0 DEF Init, Removed, Orderly, LeakHasCause, Ops
  <1> QED
    BY <1>2, <1>3, <1>4, <1>5, <1>6, <1>7, <1>8 DEF IInv

\* CreateSession takes a CP-SEID that nothing has.
LEMMA CreateSessionIInv ==
    ASSUME IInv, NEW k \in Keys, CreateSession(k)
    PROVE  IInv'
  <1> USE PfcpAssumption
  <1> USE DEF IInv
  <1>1. /\ UNCHANGED <<lock, sessions, seq, pending, upfSeq, report, ring, net, repeats>>
        /\ UNCHANGED <<upf, byIMSI, upSeid, handling, buffered, plane, upset>>
    BY DEF CreateSession, sendVars, repVars, netVars, upfVars
  <1>2. /\ install[k] = "idle" /\ mgr[k] = "absent" /\ cpSeid' = cpSeid + 1
        /\ mgr' = [mgr EXCEPT ![k] = "buf"]
        /\ rules' = [rules EXCEPT ![k] = cpSeid + 1]
        /\ install' = [install EXCEPT ![k] = "created"]
    BY DEF CreateSession
  <1>3. /\ Requested' = Requested /\ Answered' = Answered /\ Serving' = Serving
        /\ \A o \in Ops : Asking(o)' = Asking(o)
        /\ \A u \in Seids : Doomed(u)' <=> Doomed(u)
        /\ Copies' = Copies
    BY <1>1 DEF Requested, Answered, Serving, Asking, Doomed, Copies
  <1>4. Created' = Created \cup {k} /\ k \notin Created
    BY <1>2 DEF Created, TypeOK
  <1>5. /\ IsFiniteSet(Created) /\ Cardinality(Created) \in Nat
        /\ IsFiniteSet(Created') /\ Cardinality(Created') = Cardinality(Created) + 1
    BY <1>4, FS_AddElement, FS_CardinalityType DEF Counted
  <1>6. seq + Cardinality(Created) < 1 + MaxRequests
    BY DEF CreateSession, Free, Created
  <1>7. seq \in Nat /\ cpSeid \in Nat
    BY DEF TypeOK, Seqs, Seids
  <1>8. Counted'
    BY <1>1, <1>2, <1>3, <1>5, <1>6, <1>7 DEF Counted
  <1>9. cpSeid + 1 \in Seids
    <2>1. cpSeid + 1 =< MaxRequests
      BY <1>5, <1>6, <1>7 DEF Counted
    <2> QED
      BY <2>1, <1>7, Bounds
  <1>10. TypeOK'
    BY <1>1, <1>2, <1>9 DEF TypeOK
  <1>11. Numbered'
    BY <1>1, <1>3 DEF Numbered
  <1>12. Fresh'
    <2>1. \A p \in Asking("establish") : p.req.key # k /\ p.req.key \in Keys /\ p.req.cp \in Nat
      BY <1>2, Fields DEF Fresh, Asking, Seids
    <2>2. /\ \A d \in Requested : d.req.cp \in Nat
          /\ \A s \in upf : s.cp \in Nat
      BY Kinds, Fields DEF Requested, Seids
    <2>3. /\ \A j \in Created : rules'[j] = rules[j] /\ rules[j] \in Nat
          /\ rules'[k] = cpSeid + 1
      BY <1>2, <1>4 DEF TypeOK, Created, Seids
    <2>4. Asking("establish")' = Asking("establish")
      BY <1>3 DEF Ops
    <2>5. \A p \in Asking("establish") : install'[p.req.key] = install[p.req.key]
      BY <2>1, <1>2 DEF TypeOK
    <2> QED
      BY <2>1, <2>2, <2>3, <2>4, <2>5, <1>1, <1>2, <1>3, <1>4, <1>7 DEF Fresh
  <1>13. Identified' /\ SessionBacked'
    <2>1. \A j \in Keys : sessions[j].up \in Seids
      BY Fields
    <2> QED
      BY <1>1, <1>3, <2>1 DEF Identified, SessionBacked
  <1>14. Offered'
    <2>1. \A h \in Serving : h.up \in Seids
      BY Fields DEF Serving
    <2>2. \A d \in Answered : d.up \in Seids
      BY Kinds DEF Answered
    <2> QED
      BY <1>1, <1>3, <2>1, <2>2 DEF Offered, Unheard, Ops
  <1>15. Buffered' /\ PlaneOwned'
    BY <1>1, <1>3 DEF Buffered, PlaneOwned
  <1>16. Removed'
    BY <1>1, <1>3 DEF Removed, Ops
  <1>17. Orderly'
    BY <1>1, <1>2, <1>3 DEF Orderly, TypeOK
  <1>18. LeakHasCause'
    BY <1>1 DEF LeakHasCause, Known
  <1> QED
    BY <1>8, <1>10, <1>11, <1>12, <1>13, <1>14, <1>15, <1>16, <1>17, <1>18

\* A request that is sent takes its own number.
LEMMA SentCounted ==
    ASSUME TypeOK, Counted, NEW r \in Requests, SendRequest(r), seq + 1 \in Seqs, upSeid' = upSeid
    PROVE  upSeid' + Cardinality(Copies)' =< (seq' - 1) + repeats'
  <1>1. /\ Requested' = Requested \cup {ToUpf(seq + 1, r)} /\ ToUpf(seq + 1, r).seq = seq + 1
        /\ seq' = seq + 1 /\ repeats' = repeats
    BY Sends
  <1>2. Copies' \subseteq Copies \cup {seq + 1}
    BY <1>1 DEF Copies
  <1>3. seq \in Nat /\ repeats \in Nat
    BY DEF TypeOK, Seqs
  <1> QED
    BY <1>1, <1>2, <1>3, CountGrown

\* A request that could not be sent leaves a number unused.
LEMMA FailedNumbered ==
    ASSUME TypeOK, Counted, Numbered, FailToSend, seq + 1 \in Seqs,
           UNCHANGED <<upSeid, handling, report>>
    PROVE  /\ Numbered'
           /\ upSeid' + Cardinality(Copies)' =< (seq' - 1) + repeats'
           /\ UNCHANGED <<pending, net, repeats>> /\ seq' = seq + 1
           /\ Requested' = Requested /\ Answered' = Answered
           /\ \A o \in Ops : Asking(o)' = Asking(o)
           /\ \A u \in Seids : Doomed(u)' <=> Doomed(u)
  <1>1. UNCHANGED <<pending, net, repeats>> /\ seq' = seq + 1
    BY DEF FailToSend, netVars
  <1>2. /\ Requested' = Requested /\ Answered' = Answered /\ Copies' = Copies
        /\ \A o \in Ops : Asking(o)' = Asking(o)
        /\ \A u \in Seids : Doomed(u)' <=> Doomed(u)
    BY <1>1 DEF Requested, Answered, Copies, Asking, Doomed
  <1>3. /\ seq \in Nat /\ repeats \in Nat
        /\ \A p \in pending : p.seq \in Nat
        /\ \A h \in handling : h.seq \in Nat
        /\ \A d \in Requested : d.seq \in Nat
    BY Kinds, Fields DEF Seqs, TypeOK, Requested
  <1>4. Numbered'
    <2>1. /\ \A p \in pending' : p.seq =< seq'
          /\ \A d \in Requested' : d.seq =< seq'
          /\ \A h \in handling' : h.seq =< seq'
      BY <1>1, <1>2, <1>3 DEF Numbered
    <2> QED
      BY <2>1, <1>1, <1>2 DEF Numbered
  <1>5. upSeid' + Cardinality(Copies)' =< (seq' - 1) + repeats'
    BY <1>1, <1>2, <1>3, CountOthers
  <1> QED
    BY <1>1, <1>2, <1>4, <1>5

\* A request of a new number keeps the numbers apart.
LEMMA SentNumbered ==
    ASSUME TypeOK, Numbered, NEW r \in Requests, SendRequest(r), UNCHANGED <<handling, report>>
    PROVE  /\ Numbered'
           /\ \A a \in Answered : a.seq # seq + 1
           /\ \A h \in handling : h.seq # seq + 1
           /\ \A p \in pending : p.seq # seq + 1
  <1>1. /\ pending' = pending \cup {New(r)} /\ seq' = seq + 1
        /\ New(r).seq = seq + 1 /\ New(r).req = r
        /\ Requested' = Requested \cup {ToUpf(seq + 1, r)}
        /\ ToUpf(seq + 1, r).seq = seq + 1 /\ ToUpf(seq + 1, r).req = r
        /\ Answered' = Answered
        /\ \A d \in net' : d.kind = "ack" => d \in net
    BY Sends
  <1>2. /\ seq \in Int /\ (\A p \in pending : p.seq \in Int) /\ (\A h \in handling : h.seq \in Int)
        /\ \A d \in Requested : d.seq \in Int
    BY Kinds, Fields DEF Seqs, TypeOK, Requested
  <1>3. /\ \A p \in pending : p.seq =< seq
        /\ \A h \in handling : h.seq =< seq
        /\ \A d \in Requested : d.seq =< seq
        /\ \A a \in Answered : \E p \in pending : p.seq = a.seq
    BY DEF Numbered
  <1>4. /\ \A a \in Answered : a.seq # seq + 1
        /\ \A h \in handling : h.seq # seq + 1
        /\ \A p \in pending : p.seq # seq + 1
        /\ \A d \in Requested : d.seq # seq + 1
    BY <1>2, <1>3
  <1>5. /\ \A p \in pending' : p.seq =< seq'
        /\ \A d \in Requested' : d.seq =< seq'
        /\ \A h \in handling' : h.seq =< seq'
    BY <1>1, <1>2, <1>3
  <1>6. /\ \A p, q \in pending' : p.seq = q.seq => p = q
        /\ \A d, e \in Requested' : d.seq = e.seq => d = e
    BY <1>1, <1>4 DEF Numbered
  <1>7. /\ \A p \in pending', d \in Requested' : d.seq = p.seq => d.req = p.req
        /\ \A p \in pending', h \in handling' : h.seq = p.seq => h.op = p.req.op
    BY <1>1, <1>4 DEF Numbered
  <1>8. /\ \A d \in Answered' : \E p \in pending' : p.seq = d.seq
        /\ \A d \in net' : d.kind = "ack" => report'.seq = d.seq
        /\ report'.seq = 0 => report' = NoReport
    BY <1>1 DEF Numbered
  <1> QED
    BY <1>4, <1>5, <1>6, <1>7, <1>8 DEF Numbered

\* What CommitSession asks for.
Establishment(k) == [op |-> "establish", key |-> k, cp |-> rules[k], up |-> 0, far |-> "buf"]

\* CommitSession sends the establishment of a CP-SEID that nothing else has.
LEMMA CommitSentIInv ==
    ASSUME IInv, NEW k \in Keys, CommitSession(k),
           SendRequest(Establishment(k)), install' = [install EXCEPT ![k] = "commit"]
    PROVE  IInv'
  <1> USE PfcpAssumption
  <1> USE DEF IInv
  <1> DEFINE r == Establishment(k)
             d == ToUpf(seq + 1, r)
  <1>1. /\ UNCHANGED <<mgr, lock, sessions, cpSeid, upfSeq, report, ring>>
        /\ UNCHANGED <<upf, byIMSI, upSeid, handling, buffered, plane, upset>>
        /\ SendRequest(r)
        /\ install[k] = "created" /\ install' = [install EXCEPT ![k] = "commit"]
        /\ rules' = [rules EXCEPT ![k] = 0]
    BY DEF CommitSession, repVars, upfVars
  <1>2. /\ r \in Requests /\ r.op = "establish" /\ r.key = k /\ r.cp = rules[k]
        /\ rules[k] \in Seids /\ 0 \in Seids
    BY DEF Establishment, Requests, Ops, TypeOK, Seids
  <1> HIDE DEF r
  <1>3. /\ pending' = pending \cup {New(r)} /\ seq' = seq + 1
        /\ New(r).seq = seq + 1 /\ New(r).req = r /\ New(r).attempts = 0
        /\ seq + 1 \in Seqs => New(r) \in [seq : Seqs, req : Requests, attempts : 0..N1]
        /\ seq + 1 \in Seqs => net' \subseteq Datagrams
        /\ Requested' = Requested \cup {d} /\ Answered' = Answered
        /\ d.seq = seq + 1 /\ d.req = r
        /\ repeats' = repeats
    BY <1>1, <1>2, Sends
  <1>4. /\ Numbered'
        /\ \A a \in Answered : a.seq # seq + 1
        /\ \A h \in handling : h.seq # seq + 1
    BY <1>1, <1>2, SentNumbered
  <1> HIDE DEF d
  <1>5. /\ Serving' = Serving
        /\ Asking("establish")' = Asking("establish") \cup {New(r)}
        /\ Asking("delete")' = Asking("delete")
        /\ \A u \in Seids : Doomed(u)' <=> Doomed(u)
    BY <1>1, <1>2, <1>3 DEF Serving, Asking, Doomed
  <1>6. Created' = Created \ {k} /\ k \in Created
    BY <1>1 DEF Created, TypeOK
  <1>7. /\ IsFiniteSet(Created) /\ Cardinality(Created) \in Nat
        /\ IsFiniteSet(Created') /\ Cardinality(Created') = Cardinality(Created) - 1
        /\ Cardinality(Created') \in Nat
    BY <1>6, FS_RemoveElement, FS_CardinalityType DEF Counted
  <1>8. seq \in Nat /\ cpSeid \in Nat /\ seq \geq 1
    BY DEF TypeOK, Seqs, Seids
  <1>9. upSeid' + Cardinality(Copies)' =< (seq' - 1) + repeats'
    BY <1>1, <1>2, <1>7, <1>8, SentCounted DEF Counted, Seqs
  <1>10. Counted'
    <2>1. /\ seq + Cardinality(Created) =< 1 + MaxRequests
          /\ cpSeid =< (seq - 1) + Cardinality(Created)
      BY DEF Counted
    <2> QED
      BY <1>1, <1>3, <1>7, <1>8, <1>9, <2>1 DEF Counted
  <1>11. seq + 1 \in Seqs
    BY <1>7, <1>8 DEF Counted, Seqs
  <1>12. TypeOK'
    BY <1>1, <1>2, <1>3, <1>11 DEF TypeOK
  <1>13. Fresh'
    <2>1. \A p \in Asking("establish") : /\ p.req.key # k /\ p.req.key \in Keys
                                         /\ p.req.cp # rules[k]
      BY <1>1, <1>6, Fields DEF Fresh, Asking
    <2>2. /\ rules[k] =< cpSeid
          /\ \A j \in Created : rules[j] = rules[k] => j = k
          /\ \A s \in upf : s.cp # rules[k]
      BY <1>6 DEF Fresh
    <2>3. \A j \in Created' : j \in Created /\ j # k /\ j \in Keys /\ rules'[j] = rules[j]
      BY <1>1, <1>6 DEF TypeOK, Created
    <2>4. \A p \in Asking("establish") : install'[p.req.key] = install[p.req.key]
      BY <2>1, <1>1 DEF TypeOK
    <2>5. install'[k] = "commit"
      BY <1>1 DEF TypeOK
    <2>6. \A p \in Asking("establish")' : install'[p.req.key] = "commit" /\ p.req.cp =< cpSeid'
      BY <2>2, <2>4, <2>5, <1>1, <1>2, <1>3, <1>5 DEF Fresh
    <2>7. \A p, q \in Asking("establish")' :
             p.req.key = q.req.key \/ p.req.cp = q.req.cp => p = q
      BY <2>1, <1>2, <1>3, <1>5 DEF Fresh
    <2>8. /\ \A e \in Requested' : e.req.op = "establish" => e.req.cp =< cpSeid'
          /\ \A s \in upf' : s.cp =< cpSeid'
      BY <2>2, <1>1, <1>2, <1>3 DEF Fresh
    <2>9. ASSUME NEW j \in Created'
          PROVE  /\ rules'[j] =< cpSeid'
                 /\ \A i \in Created' : rules'[i] = rules'[j] => i = j
                 /\ \A p \in Asking("establish")' : p.req.cp # rules'[j]
                 /\ \A e \in Requested' : e.req.op = "establish" => e.req.cp # rules'[j]
                 /\ \A s \in upf' : s.cp # rules'[j]
      <3>1. j \in Created /\ rules'[j] = rules[j] /\ rules[j] # rules[k]
        BY <2>2, <2>3
      <3> QED
        BY <3>1, <2>3, <1>1, <1>2, <1>3, <1>5 DEF Fresh
    <2> QED
      BY <2>6, <2>7, <2>8, <2>9 DEF Fresh
  <1>14. Identified' /\ SessionBacked'
    <2>1. \A j \in Keys : sessions[j].up \in Seids
      BY Fields
    <2> QED
      BY <1>1, <1>5, <2>1 DEF Identified, SessionBacked
  <1>15. Offered'
    <2>1. \A h \in Serving : h.up \in Seids /\ h \in handling
      BY Fields DEF Serving
    <2>2. \A a \in Answered : a.up \in Seids
      BY Kinds DEF Answered
    <2>3. /\ \A h \in Serving : Unheard(h.up)' <=> Unheard(h.up)
          /\ \A a \in Answered : Unheard(a.up)' <=> Unheard(a.up)
      BY <1>1, <1>5, <2>1, <2>2 DEF Unheard
    <2>4. \A h \in Serving : h.seq # New(r).seq
      BY <1>3, <1>4, <2>1
    <2>5. \A a \in Answered : a.seq # New(r).seq
      BY <1>3, <1>4
    <2> QED
      BY <1>1, <1>3, <1>5, <2>3, <2>4, <2>5 DEF Offered
  <1>16. Buffered' /\ PlaneOwned'
    BY <1>1, <1>5 DEF Buffered, PlaneOwned
  <1>17. Removed'
    BY <1>1, <1>3, <1>5 DEF Removed
  <1>18. Orderly'
    <2>1. \A s \in upf : s.cp # rules[k]
      BY <1>6 DEF Fresh
    <2> QED
      BY <1>1, <1>2, <1>3, <1>4, <2>1 DEF Orderly, TypeOK
  <1>19. LeakHasCause'
    BY <1>1, <1>3 DEF LeakHasCause, Known
  <1> QED
    BY <1>4, <1>10, <1>12, <1>13, <1>14, <1>15, <1>16, <1>17, <1>18, <1>19

\* CommitSession gives its CP-SEID up when its request cannot be sent.
LEMMA CommitFailedIInv ==
    ASSUME IInv, NEW k \in Keys, CommitSession(k),
           FailToSend, install' = [install EXCEPT ![k] = "idle"]
    PROVE  IInv'
  <1> USE PfcpAssumption
  <1> USE DEF IInv
  <1>1. /\ UNCHANGED <<mgr, lock, sessions, cpSeid, upfSeq, report, ring>>
        /\ UNCHANGED <<upf, byIMSI, upSeid, handling, buffered, plane, upset>>
        /\ install[k] = "created"
        /\ rules' = [rules EXCEPT ![k] = 0]
    BY DEF CommitSession, repVars, upfVars
  <1>2. Created' = Created \ {k} /\ k \in Created
    BY <1>1 DEF Created, TypeOK
  <1>3. /\ IsFiniteSet(Created) /\ Cardinality(Created) \in Nat
        /\ IsFiniteSet(Created') /\ Cardinality(Created') = Cardinality(Created) - 1
        /\ Cardinality(Created') \in Nat
    BY <1>2, FS_RemoveElement, FS_CardinalityType DEF Counted
  <1>4. seq \in Nat /\ cpSeid \in Nat /\ seq \geq 1
    BY DEF TypeOK, Seqs, Seids
  <1>5. seq + 1 \in Seqs
    BY <1>3, <1>4 DEF Counted, Seqs
  <1>6. /\ Numbered'
        /\ upSeid' + Cardinality(Copies)' =< (seq' - 1) + repeats'
        /\ UNCHANGED <<pending, net, repeats>> /\ seq' = seq + 1
        /\ Requested' = Requested /\ Answered' = Answered
        /\ \A o \in Ops : Asking(o)' = Asking(o)
        /\ \A u \in Seids : Doomed(u)' <=> Doomed(u)
    BY <1>1, <1>5, FailedNumbered
  <1>7. /\ Serving' = Serving
        /\ Asking("establish")' = Asking("establish") /\ Asking("delete")' = Asking("delete")
    BY <1>1, <1>6 DEF Serving, Ops
  <1>8. Counted'
    <2>1. /\ seq + Cardinality(Created) =< 1 + MaxRequests
          /\ cpSeid =< (seq - 1) + Cardinality(Created)
      BY DEF Counted
    <2> QED
      BY <1>1, <1>3, <1>4, <1>6, <2>1 DEF Counted
  <1>9. TypeOK'
    <2>1. 0 \in Seids
      BY DEF Seids
    <2> QED
      BY <2>1, <1>1, <1>5, <1>6 DEF TypeOK
  <1>10. Fresh'
    <2>1. \A p \in Asking("establish") : p.req.key # k /\ p.req.key \in Keys
      BY <1>1, Fields DEF Fresh, Asking
    <2>2. \A j \in Created' : j \in Created /\ j # k /\ j \in Keys /\ rules'[j] = rules[j]
      BY <1>1, <1>2 DEF TypeOK, Created
    <2>3. \A p \in Asking("establish") : install'[p.req.key] = install[p.req.key]
      BY <2>1 DEF TypeOK
    <2> QED
      BY <2>2, <2>3, <1>1, <1>6, <1>7 DEF Fresh
  <1>11. Identified' /\ SessionBacked'
    <2>1. \A j \in Keys : sessions[j].up \in Seids
      BY Fields
    <2> QED
      BY <1>1, <1>6, <2>1 DEF Identified, SessionBacked
  <1>12. Offered'
    <2>1. \A h \in Serving : h.up \in Seids
      BY Fields DEF Serving
    <2>2. \A a \in Answered : a.up \in Seids
      BY Kinds DEF Answered
    <2>3. \A u \in Seids : Unheard(u)' <=> Unheard(u)
      BY <1>1, <1>6 DEF Unheard
    <2> QED
      BY <1>1, <1>6, <1>7, <2>1, <2>2, <2>3 DEF Offered
  <1>13. Buffered' /\ PlaneOwned' /\ Removed'
    BY <1>1, <1>6, <1>7 DEF Buffered, PlaneOwned, Removed
  <1>14. Orderly'
    BY <1>1, <1>6 DEF Orderly, TypeOK
  <1>15. LeakHasCause'
    BY <1>1, <1>6 DEF LeakHasCause, Known
  <1> QED
    BY <1>6, <1>8, <1>9, <1>10, <1>11, <1>12, <1>13, <1>14, <1>15

\* CommitSession, whether its request can be sent or not.
LEMMA CommitSessionIInv ==
    ASSUME IInv, NEW k \in Keys, CommitSession(k)
    PROVE  IInv'
  <1>1. \/ SendRequest(Establishment(k)) /\ install' = [install EXCEPT ![k] = "commit"]
        \/ FailToSend /\ install' = [install EXCEPT ![k] = "idle"]
    BY DEF CommitSession, Establishment
  <1> QED
    BY <1>1, CommitSentIInv, CommitFailedIInv

\* DeleteSession asks for the deletion of the one session it forgets.
LEMMA DeleteSessionIInv ==
    ASSUME IInv, NEW k \in Keys, DeleteSession(k)
    PROVE  IInv'
  <1> USE PfcpAssumption
  <1> USE DEF IInv
  <1>1. /\ UNCHANGED <<install, rules, cpSeid, upfSeq, report, ring>>
        /\ UNCHANGED <<upf, byIMSI, upSeid, handling, buffered, plane>>
        /\ mgr' = [mgr EXCEPT ![k] = "absent"]
        /\ sessions' = [sessions EXCEPT ![k] = None]
        /\ Free
    BY DEF DeleteSession, repVars, upfVars
  <1>2. None \in [up : Seids, cp : Seids] /\ None.up = 0
    BY DEF None, Seids
  <1>3. Created' = Created /\ Serving' = Serving
    BY <1>1 DEF Created, Serving
  <1>4. CASE sessions[k] = None
    <2>1. /\ UNCHANGED <<lock, seq, pending, net, repeats>>
          /\ upset' = (upset \/ install[k] # "idle")
      BY <1>4 DEF DeleteSession, sendVars, netVars
    <2>2. sessions' = sessions
      BY <1>1, <1>4 DEF TypeOK
    <2>3. /\ Requested' = Requested /\ Answered' = Answered /\ Copies' = Copies
          /\ \A o \in Ops : Asking(o)' = Asking(o)
          /\ \A u \in Seids : Doomed(u)' <=> Doomed(u)
      BY <2>1 DEF Requested, Answered, Copies, Asking, Doomed
    <2>4. Asking("establish")' = Asking("establish") /\ Asking("delete")' = Asking("delete")
      BY <2>3 DEF Ops
    <2>5. TypeOK'
      BY <1>1, <2>1, <2>2 DEF TypeOK
    <2>6. Counted' /\ Numbered' /\ Fresh'
      BY <1>1, <1>3, <2>1, <2>3, <2>4 DEF Counted, Numbered, Fresh
    <2>7. Identified' /\ SessionBacked'
      <3>1. \A j \in Keys : sessions[j].up \in Seids
        BY Fields
      <3> QED
        BY <1>1, <2>2, <2>3, <3>1 DEF Identified, SessionBacked
    <2>8. Offered'
      <3>1. \A h \in Serving : h.up \in Seids
        BY Fields DEF Serving
      <3>2. \A a \in Answered : a.up \in Seids
        BY Kinds DEF Answered
      <3> QED
        BY <1>1, <1>3, <2>1, <2>2, <2>3, <2>4, <3>1, <3>2 DEF Offered, Unheard
    <2>9. Buffered' /\ PlaneOwned' /\ Removed'
      BY <1>1, <1>3, <2>1, <2>3, <2>4 DEF Buffered, PlaneOwned, Removed
    <2>10. Orderly'
      BY <1>1, <1>4, <2>1, <2>2, <2>3 DEF Orderly, TypeOK
    <2>11. LeakHasCause'
      BY <1>1, <2>1, <2>2 DEF LeakHasCause, Known
    <2> QED
      BY <2>5, <2>6, <2>7, <2>8, <2>9, <2>10, <2>11
  \* What sessions and the counters are like when there was one.
  <1>6. /\ IsFiniteSet(Created) /\ Cardinality(Created) \in Nat
        /\ seq + Cardinality(Created) < 1 + MaxRequests
        /\ cpSeid =< (seq - 1) + Cardinality(Created)
        /\ seq \in Nat /\ cpSeid \in Nat /\ seq \geq 1
    BY <1>1, FS_CardinalityType DEF Counted, Free, Created, TypeOK, Seqs, Seids
  <1>7. seq + 1 \in Seqs
    BY <1>6 DEF Seqs
  <1>8. \A j \in Keys : j # k => sessions'[j] = sessions[j]
    BY <1>1
  <1>9. sessions'[k] = None
    BY <1>1 DEF TypeOK
  <1>10. \A j \in Keys : sessions[j].up \in Seids
    BY Fields
  <1>11. SessionBacked'
    BY <1>1, <1>8, <1>9 DEF SessionBacked
  <1>12. /\ \A h \in Serving : h.up \in Seids /\ h \in handling /\ h.up \in 1..upSeid
         /\ \A a \in Answered, p \in Asking("establish") :
               a.seq = p.seq => a.up \in Seids /\ a.up \in 1..upSeid
    <2>1. \A h \in Serving : h.up \in Seids /\ h \in handling /\ h.up \in 1..upSeid
      BY Fields DEF Serving, Offered, Identified
    <2>2. ASSUME NEW a \in Answered, NEW p \in Asking("establish"), a.seq = p.seq
          PROVE  a.up \in Seids /\ a.up \in 1..upSeid
      <3>1. [up |-> a.up, cp |-> p.req.cp, key |-> p.req.key] \in upf
        BY <2>2 DEF Offered
      <3>2. a.up \in Seids
        BY Kinds DEF Answered
      <3> QED
        BY <3>1, <3>2 DEF Identified
    <2> QED
      BY <2>1, <2>2
  <1>13. CASE sessions[k] # None /\ FailToSend /\ upset' = TRUE /\ lock' = lock
    <2>1. /\ Numbered'
          /\ upSeid' + Cardinality(Copies)' =< (seq' - 1) + repeats'
          /\ UNCHANGED <<pending, net, repeats>> /\ seq' = seq + 1
          /\ Requested' = Requested /\ Answered' = Answered
          /\ \A o \in Ops : Asking(o)' = Asking(o)
          /\ \A u \in Seids : Doomed(u)' <=> Doomed(u)
      BY <1>1, <1>7, <1>13, FailedNumbered
    <2>2. Asking("establish")' = Asking("establish") /\ Asking("delete")' = Asking("delete")
      BY <2>1 DEF Ops
    <2>3. TypeOK'
      BY <1>1, <1>2, <1>7, <1>13, <2>1 DEF TypeOK
    <2>4. Counted' /\ Fresh'
      BY <1>1, <1>3, <1>6, <2>1, <2>2 DEF Counted, Fresh
    <2>5. Identified'
      <3>1. ASSUME NEW j \in Keys, sessions'[j] # None
            PROVE  /\ sessions'[j] = sessions[j] /\ sessions[j].up \in Seids
                   /\ ~Doomed(sessions[j].up)
        BY <3>1, <1>8, <1>9, <1>10 DEF Identified
      <3>2. (\A j \in Keys : sessions[j] # None => ~Doomed(sessions[j].up))'
        BY <2>1, <3>1 DEF Doomed
      <3> QED
        BY <1>1, <2>1, <3>2 DEF Identified
    <2>6. \A u \in 1..upSeid : u \in Seids /\ Unheard(u) => Unheard(u)'
      <3> SUFFICES ASSUME NEW u \in 1..upSeid, u \in Seids, Unheard(u)
                   PROVE  Unheard(u)'
        OBVIOUS
      <3>1. ~Doomed(u)'
        BY <2>1 DEF Unheard
      <3>2. \A j \in Keys : sessions'[j].up # u
        BY <1>2, <1>8, <1>9 DEF Unheard
      <3> QED
        BY <3>1, <3>2 DEF Unheard
    <2>7. Offered'
      <3>1. /\ \A h \in Serving : Unheard(h.up)'
            /\ \A a \in Answered, p \in Asking("establish") : a.seq = p.seq => Unheard(a.up)'
        BY <1>12, <2>6 DEF Offered
      <3> QED
        BY <1>1, <1>3, <2>1, <2>2, <3>1 DEF Offered
    <2>8. Buffered' /\ PlaneOwned' /\ Removed'
      BY <1>1, <1>3, <2>1, <2>2 DEF Buffered, PlaneOwned, Removed
    <2>9. Orderly' /\ LeakHasCause'
      BY <1>13 DEF Orderly, LeakHasCause
    <2> QED
      BY <1>11, <2>1, <2>3, <2>4, <2>5, <2>7, <2>8, <2>9
  <1>5. CASE /\ sessions[k] # None /\ lock' = k /\ upset' = upset
             /\ SendRequest([op |-> "delete", key |-> k, cp |-> 0, up |-> sessions[k].up,
                             far |-> "buf"])
    <2> DEFINE r == [op |-> "delete", key |-> k, cp |-> 0, up |-> sessions[k].up, far |-> "buf"]
               d == ToUpf(seq + 1, r)
    <2>1. SendRequest(r) /\ lock' = k /\ upset' = upset
      BY <1>5
    <2>2. r \in Requests /\ r.op = "delete" /\ r.up = sessions[k].up /\ r.up \in Seids
      BY Fields DEF Requests, Ops, Seids
    <2> HIDE DEF r
    <2>3. /\ pending' = pending \cup {New(r)} /\ seq' = seq + 1
          /\ New(r).seq = seq + 1 /\ New(r).req = r /\ New(r).attempts = 0
          /\ seq + 1 \in Seqs => New(r) \in [seq : Seqs, req : Requests, attempts : 0..N1]
          /\ seq + 1 \in Seqs => net' \subseteq Datagrams
          /\ Requested' = Requested \cup {d} /\ Answered' = Answered
          /\ d.seq = seq + 1 /\ d.req = r
          /\ repeats' = repeats
      BY <2>1, <2>2, Sends
    <2>4. /\ Numbered'
          /\ \A a \in Answered : a.seq # seq + 1
          /\ \A h \in handling : h.seq # seq + 1
      BY <1>1, <2>1, <2>2, SentNumbered
    <2> HIDE DEF d
    <2>5. /\ Asking("establish")' = Asking("establish")
          /\ Asking("delete")' = Asking("delete") \cup {New(r)}
          /\ \A u \in Seids : Doomed(u)' <=> (Doomed(u) \/ u = sessions[k].up)
      BY <2>2, <2>3 DEF Asking, Doomed
    <2>7. upSeid' + Cardinality(Copies)' =< (seq' - 1) + repeats'
      BY <1>1, <1>7, <2>1, <2>2, SentCounted
    <2>8. Counted'
      BY <1>1, <1>3, <1>6, <2>3, <2>7 DEF Counted
    <2>10. TypeOK'
      BY <1>1, <1>2, <1>7, <2>1, <2>3 DEF TypeOK
    <2>11. Fresh'
      BY <1>1, <1>3, <2>2, <2>3, <2>5 DEF Fresh
    <2>12. [up |-> sessions[k].up, cp |-> sessions[k].cp, key |-> k] \in upf
      BY <1>5 DEF SessionBacked
    <2>13. sessions[k].up \in 1..upSeid
      BY <2>12 DEF Identified
    <2>17. ASSUME NEW j \in Keys, j # k, sessions[j] # None
           PROVE  sessions[j].up # sessions[k].up
      <3>1. [up |-> sessions[j].up, cp |-> sessions[j].cp, key |-> j] \in upf
        BY <2>17 DEF SessionBacked
      <3> QED
        BY <2>12, <2>17, <3>1 DEF Identified
    <2>18. Identified'
      <3>1. ASSUME NEW j \in Keys, sessions'[j] # None
            PROVE  /\ sessions'[j] = sessions[j] /\ sessions[j].up \in Seids
                   /\ ~Doomed(sessions[j].up) /\ sessions[j].up # sessions[k].up
        BY <3>1, <1>8, <1>9, <1>10, <2>17 DEF Identified
      <3>2. (\A j \in Keys : sessions[j] # None => ~Doomed(sessions[j].up))'
        BY <2>5, <3>1 DEF Doomed
      <3> QED
        BY <1>1, <2>5, <2>13, <3>2 DEF Identified
    <2>20. \A u \in 1..upSeid : u \in Seids /\ Unheard(u) => Unheard(u)'
      <3> SUFFICES ASSUME NEW u \in 1..upSeid, u \in Seids, Unheard(u)
                   PROVE  Unheard(u)'
        OBVIOUS
      <3>1. ~Doomed(u)'
        BY <2>5 DEF Unheard
      <3>2. \A j \in Keys : sessions'[j].up # u
        BY <1>2, <1>8, <1>9 DEF Unheard
      <3> QED
        BY <3>1, <3>2 DEF Unheard
    <2>21. Offered'
      <3>3. \A h \in Serving : h.seq # New(r).seq
        BY <1>12, <2>3, <2>4
      <3>4. \A h \in Serving : Unheard(h.up)'
        BY <1>12, <2>20 DEF Offered
      <3>5. \A a \in Answered, p \in Asking("establish") : a.seq = p.seq => Unheard(a.up)'
        BY <1>12, <2>20 DEF Offered
      <3>6. \A h \in Serving' : \E s \in upf' :
               /\ s.up = h.up /\ h.keys = {s.key}
               /\ \A p \in pending' : p.seq = h.seq => p.req.cp = s.cp /\ p.req.key = s.key
        BY <1>1, <1>3, <2>3, <3>3 DEF Offered
      <3>7. \A a \in Answered', p \in Asking("establish")' : a.seq = p.seq =>
               /\ a.cause = 1
               /\ [up |-> a.up, cp |-> p.req.cp, key |-> p.req.key] \in upf'
               /\ \A h \in Serving' : h.up # a.up
        BY <1>1, <1>3, <2>3, <2>5 DEF Offered
      <3>8. \A h, i \in Serving' : h.up = i.up => h = i
        BY <1>3 DEF Offered
      <3>9. /\ \A h \in Serving' : Unheard(h.up)'
            /\ \A a \in Answered', p \in Asking("establish")' : a.seq = p.seq => Unheard(a.up)'
        BY <1>3, <2>3, <2>5, <3>4, <3>5
      <3> QED
        BY <3>6, <3>7, <3>8, <3>9 DEF Offered
    <2>22. Buffered' /\ PlaneOwned'
      BY <1>1, <1>3 DEF Buffered, PlaneOwned
    <2>23. Removed'
      BY <1>1, <2>3, <2>4, <2>5 DEF Removed
    <2>24. Orderly'
      BY <1>1, <1>5, <1>8, <1>9, <2>1, <2>2, <2>3, <2>4 DEF Orderly, TypeOK
    <2>25. LeakHasCause'
      <3> SUFFICES ASSUME ~upset, NEW s \in upf PROVE Known(s)'
        BY <1>1, <2>1 DEF LeakHasCause
      <3>1. Known(s) /\ s.key \in Keys
        BY Fields DEF LeakHasCause
      <3>2. CASE s.key = k /\ sessions[s.key] = [up |-> s.up, cp |-> s.cp]
        BY <3>2, <2>2, <2>3 DEF Known
      <3>3. CASE s.key # k /\ sessions[s.key] = [up |-> s.up, cp |-> s.cp]
        BY <3>1, <3>3, <1>8, <2>3 DEF Known
      <3>4. CASE sessions[s.key] # [up |-> s.up, cp |-> s.cp]
        BY <3>1, <3>4, <2>3 DEF Known
      <3> QED
        BY <3>2, <3>3, <3>4
    <2> QED
      BY <1>11, <2>4, <2>8, <2>10, <2>11, <2>18, <2>21, <2>22, <2>23, <2>24, <2>25
  <1> QED
    BY <1>4, <1>5, <1>13 DEF DeleteSession

\* UpdateFAR sends a modification or nothing; no session depends on either.
LEMMA UpdateFARIInv ==
    ASSUME IInv, NEW k \in Keys, NEW far \in {"buf", "fwd"}, UpdateFAR(k, far)
    PROVE  IInv'
  <1> USE PfcpAssumption
  <1> USE DEF IInv
  <1>1. /\ UNCHANGED <<install, rules, sessions, cpSeid, upfSeq, report, ring>>
        /\ UNCHANGED <<upf, byIMSI, upSeid, handling, buffered, plane, upset>>
        /\ Free
    BY DEF UpdateFAR, repVars, upfVars
  <1>2. Created' = Created /\ Serving' = Serving
    BY <1>1 DEF Created, Serving
  <1>3. \A j \in Keys : sessions[j].up \in Seids
    BY Fields
  <1>4. \A h \in Serving : h.up \in Seids /\ h \in handling
    BY Fields DEF Serving
  <1>5. \A a \in Answered : a.up \in Seids
    BY Kinds DEF Answered
  <1>8. /\ IsFiniteSet(Created) /\ Cardinality(Created) \in Nat
        /\ seq + Cardinality(Created) < 1 + MaxRequests
        /\ cpSeid =< (seq - 1) + Cardinality(Created)
        /\ seq \in Nat /\ cpSeid \in Nat /\ seq \geq 1
    BY <1>1, FS_CardinalityType DEF Counted, Free, Created, TypeOK, Seqs, Seids
  <1>9. seq + 1 \in Seqs
    BY <1>8 DEF Seqs
  <1>6. CASE /\ lock' = lock /\ mgr' = [mgr EXCEPT ![k] = far]
             /\ FailToSend \/ UNCHANGED <<sendVars, netVars>>
    <2>1. UNCHANGED <<lock, pending, net, repeats>> /\ mgr' = [mgr EXCEPT ![k] = far]
      BY <1>6 DEF FailToSend, sendVars, netVars
    <2>2. /\ Requested' = Requested /\ Answered' = Answered /\ Copies' = Copies
          /\ \A o \in Ops : Asking(o)' = Asking(o)
          /\ \A u \in Seids : Doomed(u)' <=> Doomed(u)
      BY <2>1 DEF Requested, Answered, Copies, Asking, Doomed
    <2>11. /\ Counted' /\ Numbered'
           /\ seq' \in Seqs
      <3>1. CASE FailToSend
        <4>1. /\ Numbered' /\ seq' = seq + 1
              /\ upSeid' + Cardinality(Copies)' =< (seq' - 1) + repeats'
          BY <3>1, <1>1, <1>9, FailedNumbered
        <4> QED
          BY <4>1, <1>1, <1>2, <1>8, <1>9 DEF Counted
      <3>2. CASE UNCHANGED <<sendVars, netVars>>
        <4>1. seq' = seq
          BY <3>2 DEF sendVars
        <4> QED
          BY <4>1, <1>1, <1>2, <2>1, <2>2 DEF Counted, Numbered, TypeOK
      <3> QED
        BY <1>6, <3>1, <3>2
    <2>3. Asking("establish")' = Asking("establish") /\ Asking("delete")' = Asking("delete")
      BY <2>2 DEF Ops
    <2>4. TypeOK'
      BY <1>1, <2>1, <2>11 DEF TypeOK
    <2>5. Fresh'
      BY <1>1, <1>2, <2>1, <2>2, <2>3 DEF Fresh
    <2>6. Identified' /\ SessionBacked'
      BY <1>1, <1>3, <2>2 DEF Identified, SessionBacked
    <2>7. Offered'
      <3>1. \A u \in Seids : Unheard(u)' <=> Unheard(u)
        BY <1>1, <2>2 DEF Unheard
      <3> QED
        BY <1>1, <1>2, <1>4, <1>5, <2>1, <2>2, <2>3, <3>1 DEF Offered
    <2>8. Buffered' /\ PlaneOwned' /\ Removed'
      BY <1>1, <1>2, <2>1, <2>2, <2>3 DEF Buffered, PlaneOwned, Removed
    <2>9. Orderly'
      BY <1>1, <2>1, <2>2 DEF Orderly, TypeOK
    <2>10. LeakHasCause'
      BY <1>1, <2>1 DEF LeakHasCause, Known
    <2> QED
      BY <2>4, <2>5, <2>6, <2>7, <2>8, <2>9, <2>10, <2>11
  <1>7. CASE /\ lock' = k /\ mgr' = mgr
             /\ SendRequest([op |-> "modify", key |-> k, cp |-> 0, up |-> sessions[k].up,
                             far |-> far])
    <2> DEFINE r == [op |-> "modify", key |-> k, cp |-> 0, up |-> sessions[k].up, far |-> far]
               d == ToUpf(seq + 1, r)
    <2>1. SendRequest(r) /\ lock' = k /\ mgr' = mgr
      BY <1>7
    <2>2. r \in Requests /\ r.op = "modify"
      BY <1>3 DEF Requests, Ops, Seids
    <2> HIDE DEF r
    <2>3. /\ pending' = pending \cup {New(r)} /\ seq' = seq + 1
          /\ New(r).seq = seq + 1 /\ New(r).req = r /\ New(r).attempts = 0
          /\ seq + 1 \in Seqs => New(r) \in [seq : Seqs, req : Requests, attempts : 0..N1]
          /\ seq + 1 \in Seqs => net' \subseteq Datagrams
          /\ Requested' = Requested \cup {d} /\ Answered' = Answered
          /\ d.seq = seq + 1 /\ d.req = r
          /\ repeats' = repeats
      BY <2>1, <2>2, Sends
    <2>4. /\ Numbered'
          /\ \A a \in Answered : a.seq # seq + 1
          /\ \A h \in handling : h.seq # seq + 1
      BY <1>1, <2>1, <2>2, SentNumbered
    <2> HIDE DEF d
    <2>5. /\ Asking("establish")' = Asking("establish")
          /\ Asking("delete")' = Asking("delete")
          /\ \A u \in Seids : Doomed(u)' <=> Doomed(u)
      BY <2>2, <2>3 DEF Asking, Doomed
    <2>7. upSeid' + Cardinality(Copies)' =< (seq' - 1) + repeats'
      BY <1>1, <1>9, <2>1, <2>2, SentCounted
    <2>8. Counted'
      BY <1>1, <1>2, <1>8, <2>3, <2>7 DEF Counted
    <2>10. TypeOK'
      BY <1>1, <1>9, <2>1, <2>3 DEF TypeOK
    <2>11. Fresh'
      BY <1>1, <1>2, <2>2, <2>3, <2>5 DEF Fresh
    <2>12. Identified' /\ SessionBacked'
      BY <1>1, <1>3, <2>5 DEF Identified, SessionBacked
    <2>13. Offered'
      <3>1. \A h \in Serving : h.seq # New(r).seq
        BY <2>3, <2>4, <1>4
      <3> QED
        <4>1. \A u \in Seids : Unheard(u)' <=> Unheard(u)
          BY <1>1, <2>5 DEF Unheard
        <4> QED
          BY <1>1, <1>2, <1>4, <1>5, <2>3, <2>5, <3>1, <4>1 DEF Offered
    <2>14. Buffered' /\ PlaneOwned' /\ Removed'
      BY <1>1, <1>2, <2>3, <2>5 DEF Buffered, PlaneOwned, Removed
    <2>15. Orderly'
      BY <1>1, <2>1, <2>2, <2>3, <2>4 DEF Orderly
    <2>16. LeakHasCause'
      BY <1>1, <2>3 DEF LeakHasCause, Known
    <2> QED
      BY <2>4, <2>8, <2>10, <2>11, <2>12, <2>13, <2>14, <2>15, <2>16
  <1> QED
    BY <1>6, <1>7 DEF UpdateFAR

\* T1 repeats what is pending already.
LEMMA T1ExpiryIInv ==
    ASSUME IInv, NEW p \in pending, T1Expiry(p)
    PROVE  IInv'
  <1> USE PfcpAssumption
  <1> USE DEF IInv
  <1> DEFINE e == ToUpf(p.seq, p.req)
  <1>1. /\ UNCHANGED <<mgr, lock, install, rules, sessions, cpSeid, seq, upfSeq, report, ring>>
        /\ UNCHANGED <<upf, byIMSI, upSeid, handling, buffered, plane>>
        /\ upset' = TRUE
    BY DEF T1Expiry, smfVars, repVars, upfVars
  <1>2. PICK q \in [seq : Seqs, req : Requests, attempts : 0..N1] :
           /\ q.seq = p.seq /\ q.req = p.req /\ q.attempts = p.attempts + 1
           /\ pending' = (pending \ {p}) \cup {q}
    BY Repeats
  <1>3. /\ \/ Requested' = Requested \cup {e} /\ net' = net \cup {e} /\ repeats' = repeats + 1
           \/ Requested' = Requested /\ net' = net /\ repeats' = repeats
        /\ repeats' \in 0..MaxRepeats
        /\ Answered' = Answered
        /\ \A d \in net' : d.kind = "ack" => d \in net
        /\ e.seq = p.seq /\ e.req = p.req
    BY Repeats
  <1>4. e \in Datagrams /\ p.seq \in Seqs /\ p.req \in Requests /\ p.attempts \in 0..N1
    BY Fields DEF Datagrams, ToUpf
  <1>5. \A d \in Requested : d = ToUpf(d.seq, d.req)
    BY Kinds DEF Requested
  <1>6. \A d \in Requested : d.seq = p.seq => d = e
    BY <1>5 DEF Numbered
  <1> HIDE DEF e
  <1>7. TypeOK'
    BY <1>1, <1>2, <1>3, <1>4 DEF TypeOK
  <1>8. /\ Serving' = Serving /\ Created' = Created
        /\ \A o \in Ops : \A x \in Asking(o)' : \/ x = q /\ p \in Asking(o)
                                                \/ x # p /\ x \in Asking(o)
        /\ \A u \in Seids : Doomed(u)' <=> Doomed(u)
    <2>1. Serving' = Serving /\ Created' = Created
      BY <1>1 DEF Serving, Created
    <2>2. ASSUME NEW o \in Ops, NEW x \in Asking(o)'
          PROVE  \/ x = q /\ p \in Asking(o)
                 \/ x # p /\ x \in Asking(o)
      BY <1>2 DEF Asking
    <2>3. ASSUME NEW u \in Seids PROVE Doomed(u)' <=> Doomed(u)
      <3>1. (\E x \in Asking("delete")' : x.req.up = u) <=> (\E x \in Asking("delete") : x.req.up = u)
        BY <1>2 DEF Asking
      <3>2. \A d \in Requested' : d \in Requested \/ (d.req = p.req /\ p \in pending)
        BY <1>3
      <3>3. Requested \subseteq Requested'
        BY <1>3
      <3> QED
        BY <3>1, <3>2, <3>3 DEF Doomed, Asking
    <2> QED
      BY <2>1, <2>2, <2>3
  <1>9. /\ \A x \in Asking("establish")' : \/ x = q /\ p \in Asking("establish")
                                           \/ x # p /\ x \in Asking("establish")
        /\ \A x \in Asking("delete")' : \/ x = q /\ p \in Asking("delete")
                                        \/ x # p /\ x \in Asking("delete")
    BY <1>8 DEF Ops
  <1>10. Counted'
    <2>1. upSeid' + Cardinality(Copies)' =< (seq' - 1) + repeats'
      <3>1. Copies' \subseteq Copies \cup {p.seq} /\ (Requested' = Requested => Copies' = Copies)
        BY <1>3 DEF Copies
      <3>2. seq' \in Nat /\ repeats' \in Nat /\ seq \in Nat /\ repeats \in Nat
        BY <1>1, <1>3 DEF TypeOK, Seqs
      <3>3. CASE repeats' = repeats + 1
        BY <3>1, <3>2, <3>3, <1>1, <1>4, CountGrown
      <3>4. CASE Requested' = Requested /\ repeats' = repeats
        BY <3>1, <3>2, <3>4, <1>1, CountOthers
      <3> QED
        BY <1>3, <3>3, <3>4
    <2> QED
      BY <2>1, <1>1, <1>8 DEF Counted
  <1>11. Numbered'
    <2>1. \A x \in pending' : \/ x = q
                              \/ x \in pending /\ x # p
      BY <1>2
    <2>2. \A d \in Requested' : d \in Requested \/ d = e
      BY <1>3
    <2>3. /\ \A x \in pending' : x.seq =< seq'
          /\ \A x, y \in pending' : x.seq = y.seq => x = y
      BY <2>1, <1>1, <1>2 DEF Numbered
    <2>4. /\ \A d \in Requested' : d.seq =< seq'
          /\ \A d, f \in Requested' : d.seq = f.seq => d = f
      BY <2>2, <1>1, <1>3, <1>6 DEF Numbered
    <2>5. \A x \in pending', d \in Requested' : d.seq = x.seq => d.req = x.req
      BY <2>1, <2>2, <1>2, <1>3 DEF Numbered
    <2>6. \A x \in pending', h \in handling' : h.seq = x.seq => h.op = x.req.op
      BY <2>1, <1>1, <1>2 DEF Numbered
    <2>7. \A a \in Answered' : \E x \in pending' : x.seq = a.seq
      <3> SUFFICES ASSUME NEW a \in Answered PROVE \E x \in pending' : x.seq = a.seq
        BY <1>3
      <3>1. PICK x \in pending : x.seq = a.seq
        BY DEF Numbered
      <3> QED
        BY <3>1, <1>2
    <2> QED
      BY <2>3, <2>4, <2>5, <2>6, <2>7, <1>1, <1>3 DEF Numbered
  <1>12. Fresh'
    BY <1>1, <1>2, <1>3, <1>8, <1>9 DEF Fresh, Asking
  <1>13. Identified' /\ SessionBacked'
    <2>1. \A j \in Keys : sessions[j].up \in Seids
      BY Fields
    <2> QED
      BY <1>1, <1>8, <2>1 DEF Identified, SessionBacked
  <1>14. Offered'
    <2>1. \A h \in Serving : h.up \in Seids
      BY Fields DEF Serving
    <2>2. \A a \in Answered : a.up \in Seids
      BY Kinds DEF Answered
    <2>3. /\ \A h \in Serving : Unheard(h.up)' <=> Unheard(h.up)
          /\ \A a \in Answered : Unheard(a.up)' <=> Unheard(a.up)
      BY <1>1, <1>8, <2>1, <2>2 DEF Unheard
    <2> QED
      BY <1>1, <1>2, <1>3, <1>8, <1>9, <2>3 DEF Offered
  <1>15. Buffered' /\ PlaneOwned'
    BY <1>1, <1>8 DEF Buffered, PlaneOwned
  <1>16. Removed'
    BY <1>1, <1>2, <1>3, <1>9 DEF Removed
  <1>17. Orderly' /\ LeakHasCause'
    BY <1>1 DEF Orderly, LeakHasCause
  <1> QED
    BY <1>7, <1>10, <1>11, <1>12, <1>13, <1>14, <1>15, <1>16, <1>17

\* A request ends, with its answer or without.  An acceptance tells the SMF of a
\* session it has not heard of, which is at the UPF and which nobody deletes.
LEMMA CompleteIInv ==
    ASSUME IInv, NEW p \in pending,
           \/ Exhausted(p)
           \/ \E d \in net : d.to = "smf" /\ d.seq = p.seq /\ TakeAnswer(d, p)
                             /\ UNCHANGED <<repVars, upfVars>>
    PROVE  IInv'
  <1> USE PfcpAssumption
  <1> USE DEF IInv
  <1> DEFINE k == p.req.key
             Takes(u) == sessions' = [sessions EXCEPT ![k] = [up |-> u, cp |-> p.req.cp]]
  <1>1. /\ p.seq \in Seqs /\ p.req \in Requests /\ p.req.op \in Ops /\ k \in Keys
        /\ p.req.cp \in Seids /\ p.req.far \in {"buf", "fwd"}
    BY Fields
  <1>2. /\ UNCHANGED <<upfSeq, report, ring, upf, byIMSI, upSeid, handling, buffered, plane>>
        /\ UNCHANGED <<rules, cpSeid, seq>>
        /\ pending' = pending \ {p}
        /\ install' = IF p.req.op = "establish" THEN [install EXCEPT ![k] = "idle"] ELSE install
        /\ mgr' = IF p.req.op = "modify" THEN [mgr EXCEPT ![k] = p.req.far] ELSE mgr
        /\ lock' = IF p.req.op = "establish" THEN lock ELSE "none"
    BY DEF Exhausted, TakeAnswer, Complete, repVars, upfVars
  <1>3. /\ Requested' = Requested
        /\ Answered' \subseteq Answered
        /\ \A a \in Answered' : \E q \in pending' : q.seq = a.seq
        /\ \A d \in net' : d \in net /\ (d.kind = "ack" => report'.seq = d.seq)
        /\ repeats' \in 0..MaxRepeats /\ repeats' >= repeats
    BY Completes
  <1>4. /\ Serving' = Serving
        /\ Asking("establish")' = Asking("establish") \ {p}
        /\ Asking("delete")' = Asking("delete") \ {p}
        /\ \A u \in Seids : Doomed(u)' => Doomed(u)
    BY <1>2, <1>3 DEF Serving, Asking, Doomed
  <1>5. \/ sessions' = sessions
        \/ /\ p.req.op = "establish"
           /\ \E a \in Answered : a.seq = p.seq /\ Takes(a.up)
    <2>1. CASE Exhausted(p)
      BY <2>1 DEF Exhausted, Complete
    <2>2. ASSUME NEW d \in net, d.to = "smf", d.seq = p.seq, TakeAnswer(d, p)
          PROVE  \/ sessions' = sessions
                 \/ /\ p.req.op = "establish"
                    /\ \E a \in Answered : a.seq = p.seq /\ Takes(a.up)
      BY <2>2 DEF TakeAnswer, Complete, Answered
    <2> QED
      BY <2>1, <2>2
  <1>6. ~upset' => /\ ~upset
                   /\ \E a \in Answered : a.seq = p.seq
                   /\ p.req.op = "establish" => \E a \in Answered : a.seq = p.seq /\ Takes(a.up)
    <2>1. CASE Exhausted(p)
      <3>1. upset' = upset /\ p.attempts >= N1
        BY <2>1 DEF Exhausted
      <3>2. ~upset => p.attempts = 0
        BY DEF Orderly
      <3> QED
        BY <3>1, <3>2
    <2>2. ASSUME NEW d \in net, d.to = "smf", d.seq = p.seq, TakeAnswer(d, p), ~upset'
          PROVE  /\ ~upset /\ d \in Answered
                 /\ p.req.op = "establish" => Takes(d.up)
      <3>1. ~upset /\ d.kind # "report"
        BY <2>2 DEF TakeAnswer
      <3>2. d \in Answered
        BY <2>2, <3>1, Kinds DEF Answered
      <3>3. p.req.op = "establish" => d.cause = 1
        BY <2>2, <3>2 DEF Offered, Asking
      <3> QED
        BY <2>2, <3>1, <3>2, <3>3 DEF TakeAnswer, Complete, Answered
    <2> QED
      BY <2>1, <2>2
  <1>7. Created' = Created
    <2>1. p.req.op = "establish" => install[k] = "commit"
      BY DEF Fresh, Asking
    <2> QED
      BY <2>1, <1>1, <1>2 DEF Created, TypeOK
  <1>8. Counted'
    <2>1. Copies' \subseteq Copies
      BY <1>2, <1>3 DEF Copies
    <2>2. upSeid' + Cardinality(Copies)' =< (seq' - 1) + repeats'
      <3>1. seq' = seq /\ seq \in Nat /\ repeats \in Nat /\ repeats' \in Nat
        BY <1>2, <1>3, PfcpAssumption DEF TypeOK, Seqs
      <3>2. seq' + repeats' >= seq + repeats
        BY <3>1, <1>3, Sums
      <3> QED
        BY <2>1, <1>2, <3>1, <3>2, CountOthers
    <2> QED
      BY <2>2, <1>2, <1>7 DEF Counted
  \* The session that an answer tells of.
  <1>9. ASSUME NEW a \in Answered, a.seq = p.seq, p.req.op = "establish", Takes(a.up)
        PROVE  /\ a.up \in Seids /\ Unheard(a.up)
               /\ [up |-> a.up, cp |-> p.req.cp, key |-> k] \in upf
               /\ \A h \in Serving : h.up # a.up
               /\ sessions'[k] = [up |-> a.up, cp |-> p.req.cp]
               /\ sessions' \in [Keys -> [up : Seids, cp : Seids]]
               /\ \A j \in Keys : j # k => sessions'[j] = sessions[j]
    <2>1. p \in Asking("establish")
      BY <1>9 DEF Asking
    <2>2. a.up \in Seids
      BY Kinds DEF Answered
    <2>3. sessions \in [Keys -> [up : Seids, cp : Seids]]
      BY DEF TypeOK
    <2>4. [up |-> a.up, cp |-> p.req.cp] \in [up : Seids, cp : Seids]
      BY <1>1, <2>2
    <2>5. /\ sessions'[k] = [up |-> a.up, cp |-> p.req.cp]
          /\ sessions' \in [Keys -> [up : Seids, cp : Seids]]
          /\ \A j \in Keys : j # k => sessions'[j] = sessions[j]
      BY <1>1, <1>9, <2>3, <2>4
    <2> QED
      BY <1>9, <2>1, <2>2, <2>5 DEF Offered
  <1> HIDE DEF Takes
  <1>10. TypeOK'
    <2>1. sessions' \in [Keys -> [up : Seids, cp : Seids]]
      BY <1>5, <1>9 DEF TypeOK
    <2>2. upset' \in BOOLEAN
      BY DEF Exhausted, TakeAnswer, TypeOK
    <2>3. net' \subseteq Datagrams
      BY <1>3 DEF TypeOK
    <2> QED
      BY <1>1, <1>2, <1>3, <2>1, <2>2, <2>3 DEF TypeOK
  <1>11. Numbered'
    BY <1>2, <1>3 DEF Numbered
  <1>12. Fresh'
    <2>1. \A q \in Asking("establish")' : /\ q \in Asking("establish") /\ q # p
                                          /\ q.req.key \in Keys
      BY <1>4, Fields DEF Asking
    <2>2. p.req.op = "establish" => p \in Asking("establish")
      BY DEF Asking
    <2>3. \A q \in Asking("establish")' : install'[q.req.key] = install[q.req.key]
      BY <2>1, <2>2, <1>2 DEF Fresh, TypeOK
    <2> QED
      BY <2>1, <2>3, <1>2, <1>3, <1>7 DEF Fresh
  <1>13. Identified'
    <2>1. ASSUME NEW j \in Keys, sessions'[j] # None
          PROVE  \E u \in Seids : sessions'[j].up = u /\ ~Doomed(u)'
      <3>1. CASE sessions'[j] = sessions[j]
        BY <3>1, <2>1, <1>4, Fields DEF Identified
      <3>2. CASE sessions'[j] # sessions[j]
        <4>1. PICK a \in Answered : a.seq = p.seq /\ Takes(a.up) /\ p.req.op = "establish"
          BY <1>5, <3>2
        <4>2. /\ a.up \in Seids /\ ~Doomed(a.up) /\ j = k
              /\ sessions'[k] = [up |-> a.up, cp |-> p.req.cp]
          BY <4>1, <1>9, <3>2 DEF Unheard
        <4>3. sessions'[j].up = a.up
          BY <4>2
        <4> QED
          BY <4>2, <4>3, <1>4
      <3> QED
        BY <3>1, <3>2
    <2>2. (\A j \in Keys : sessions[j] # None => ~Doomed(sessions[j].up))'
      BY <2>1 DEF Doomed
    <2> QED
      BY <2>2, <1>2, <1>4 DEF Identified
  <1>14. SessionBacked'
    <2> SUFFICES ASSUME NEW j \in Keys, sessions'[j] # None
                 PROVE  [up |-> sessions'[j].up, cp |-> sessions'[j].cp, key |-> j] \in upf
      BY <1>2 DEF SessionBacked
    <2>1. CASE sessions'[j] = sessions[j]
      BY <2>1 DEF SessionBacked
    <2>2. CASE sessions'[j] # sessions[j]
      <3>1. PICK a \in Answered : a.seq = p.seq /\ Takes(a.up) /\ p.req.op = "establish"
        BY <1>5, <2>2
      <3>2. /\ [up |-> a.up, cp |-> p.req.cp, key |-> k] \in upf
            /\ j = k /\ sessions'[k] = [up |-> a.up, cp |-> p.req.cp]
        BY <3>1, <1>9, <2>2
      <3>3. sessions'[j].up = a.up /\ sessions'[j].cp = p.req.cp
        BY <3>2
      <3> QED
        BY <3>2, <3>3
    <2> QED
      BY <2>1, <2>2
  <1>15. Offered'
    <2>1. ASSUME NEW u \in Seids, Unheard(u),
                 \A a \in Answered : p.req.op = "establish" /\ a.seq = p.seq => a.up # u
          PROVE  Unheard(u)'
      <3>1. ~Doomed(u)'
        BY <2>1, <1>4 DEF Unheard
      <3>2. \A j \in Keys : sessions'[j].up # u
        <4> SUFFICES ASSUME NEW j \in Keys PROVE sessions'[j].up # u
          OBVIOUS
        <4>1. CASE sessions'[j] = sessions[j]
          BY <4>1, <2>1 DEF Unheard
        <4>2. CASE sessions'[j] # sessions[j]
          <5>1. PICK a \in Answered : a.seq = p.seq /\ Takes(a.up) /\ p.req.op = "establish"
            BY <1>5, <4>2
          <5>2. j = k /\ sessions'[k] = [up |-> a.up, cp |-> p.req.cp]
            BY <5>1, <1>9, <4>2
          <5>3. sessions'[j].up = a.up
            BY <5>2
          <5> QED
            BY <5>1, <5>3, <2>1
        <4> QED
          BY <4>1, <4>2
      <3> QED
        BY <3>1, <3>2 DEF Unheard
    <2>2. p.req.op = "establish" => p \in Asking("establish")
      BY DEF Asking
    <2>3. \A h \in Serving : Unheard(h.up)'
      <3> SUFFICES ASSUME NEW h \in Serving PROVE Unheard(h.up)'
        OBVIOUS
      <3>1. h.up \in Seids /\ Unheard(h.up)
        BY Fields DEF Serving, Offered
      <3>2. \A a \in Answered : p.req.op = "establish" /\ a.seq = p.seq => a.up # h.up
        BY <2>2 DEF Offered
      <3> QED
        BY <3>1, <3>2, <2>1
    <2>4. ASSUME NEW a \in Answered, NEW q \in Asking("establish"), q # p, a.seq = q.seq
          PROVE  Unheard(a.up)'
      <3>1. a.up \in Seids /\ Unheard(a.up)
        BY <2>4, Kinds DEF Offered, Answered
      <3>2. [up |-> a.up, cp |-> q.req.cp, key |-> q.req.key] \in upf
        BY <2>4 DEF Offered
      <3>3. ASSUME NEW b \in Answered, p.req.op = "establish", b.seq = p.seq
            PROVE  b.up # a.up
        <4>1. [up |-> b.up, cp |-> p.req.cp, key |-> p.req.key] \in upf
          BY <2>2, <3>3 DEF Offered
        <4>2. q.req.cp # p.req.cp
          BY <2>2, <2>4, <3>3 DEF Fresh
        <4> QED
          BY <3>2, <4>1, <4>2 DEF Identified
      <3> QED
        BY <3>1, <3>3, <2>1
    <2>5. \A a \in Answered', q \in Asking("establish")' :
             a.seq = q.seq => a \in Answered /\ q \in Asking("establish") /\ q # p
      BY <1>3, <1>4
    <2>6. (\A a \in Answered, q \in Asking("establish") : a.seq = q.seq => Unheard(a.up))'
      BY <2>4, <2>5
    <2>7. (\A a \in Answered, q \in Asking("establish") : a.seq = q.seq =>
              /\ a.cause = 1
              /\ [up |-> a.up, cp |-> q.req.cp, key |-> q.req.key] \in upf
              /\ \A h \in Serving : h.up # a.up)'
      BY <2>5, <1>2, <1>4 DEF Offered
    <2>8. (\A h \in Serving : \E s \in upf :
              /\ s.up = h.up /\ h.keys = {s.key}
              /\ \A q \in pending : q.seq = h.seq => q.req.cp = s.cp /\ q.req.key = s.key)'
      BY <1>2, <1>4 DEF Offered
    <2>9. (\A h, i \in Serving : h.up = i.up => h = i)'
      BY <1>4 DEF Offered
    <2> QED
      BY <2>3, <2>6, <2>7, <2>8, <2>9, <1>4 DEF Offered
  <1>16. Buffered' /\ PlaneOwned'
    BY <1>2, <1>4 DEF Buffered, PlaneOwned
  <1>17. Removed'
    BY <1>2, <1>3, <1>4 DEF Removed
  <1>18. Orderly'
    <2> SUFFICES ASSUME ~upset' PROVE Orderly'
      BY DEF Orderly
    <2>1. ~upset /\ \E a \in Answered : a.seq = p.seq
      BY <1>6
    <2>2. p.req.op = "establish" => /\ install[k] = "commit" /\ mgr[k] # "absent"
                                    /\ sessions[k] = None
      BY <2>1, <1>1 DEF Fresh, Orderly, Asking
    <2>3. \A x \in pending' : x.attempts = 0
      BY <2>1, <1>2 DEF Orderly
    <2>4. \A d \in Requested' :
             /\ \E x \in pending' : x.seq = d.seq
             /\ \A h \in handling' : h.seq # d.seq
             /\ \A a \in Answered' : a.seq # d.seq
             /\ d.req.op = "establish" => \A s \in upf' : s.cp # d.req.cp
      <3> SUFFICES ASSUME NEW d \in Requested
                   PROVE  /\ \E x \in pending' : x.seq = d.seq
                          /\ \A h \in handling : h.seq # d.seq
                          /\ \A a \in Answered : a.seq # d.seq
                          /\ d.req.op = "establish" => \A s \in upf : s.cp # d.req.cp
        BY <1>2, <1>3
      <3>1. /\ \A h \in handling : h.seq # d.seq
            /\ \A a \in Answered : a.seq # d.seq
            /\ d.req.op = "establish" => \A s \in upf : s.cp # d.req.cp
        BY <2>1 DEF Orderly
      <3>2. PICK x \in pending : x.seq = d.seq
        BY <2>1 DEF Orderly
      <3> QED
        BY <3>1, <3>2, <2>1, <1>2
    <2>5. \A j \in Keys : j # k => sessions'[j] = sessions[j]
      BY <1>5, <1>9
    <2>6. p.req.op # "establish" => sessions' = sessions
      BY <1>5
    <2>7. \A j \in Keys : mgr[j] # "absent" => mgr'[j] # "absent"
      BY <1>1, <1>2 DEF TypeOK
    <2>8. \A j \in Keys : /\ p.req.op = "establish" /\ j = k => install'[j] = "idle"
                          /\ p.req.op # "establish" \/ j # k => install'[j] = install[j]
      BY <1>1, <1>2 DEF TypeOK
    <2>9. ASSUME NEW j \in Keys
          PROVE  /\ install'[j] # "idle" => mgr'[j] # "absent" /\ sessions'[j] = None
                 /\ sessions'[j] # None => mgr'[j] # "absent"
      <3>1. CASE p.req.op = "establish" /\ j = k
        BY <3>1, <2>2, <2>7, <2>8
      <3>2. CASE p.req.op # "establish" \/ j # k
        BY <3>2, <2>1, <2>5, <2>6, <2>7, <2>8 DEF Orderly
      <3> QED
        BY <3>1, <3>2
    <2> QED
      BY <2>1, <2>3, <2>4, <2>9, <1>2 DEF Orderly
  <1>19. LeakHasCause'
    <2> SUFFICES ASSUME ~upset', NEW s \in upf PROVE Known(s)'
      BY <1>2 DEF LeakHasCause
    <2>1. ~upset /\ \E a \in Answered : a.seq = p.seq
      BY <1>6
    <2>2. Known(s) /\ s.key \in Keys /\ s.up # 0 /\ s.up \in Seids /\ s.cp \in Seids
      <3>1. s.up \in 1..upSeid
        BY DEF Identified
      <3>2. s.up # 0
        BY <3>1 DEF TypeOK, Seids
      <3> QED
        BY <2>1, <3>2, Fields DEF LeakHasCause
    <2>3. CASE p.req.op = "establish"
      <3>1. PICK a \in Answered : a.seq = p.seq /\ Takes(a.up)
        BY <1>6, <2>3
      <3>2. /\ [up |-> a.up, cp |-> p.req.cp, key |-> k] \in upf
            /\ sessions'[k] = [up |-> a.up, cp |-> p.req.cp]
            /\ \A j \in Keys : j # k => sessions'[j] = sessions[j]
        BY <3>1, <2>3, <1>9
      <3>3. sessions[k] = None
        BY <2>1, <2>3, <1>1 DEF Fresh, Orderly, Asking
      <3>4. CASE s.cp = p.req.cp
        <4>1. s = [up |-> a.up, cp |-> p.req.cp, key |-> k]
          BY <3>2, <3>4, <2>1 DEF Orderly
        <4>2. s.key = k /\ s.up = a.up
          BY <4>1
        <4>3. sessions'[s.key] = [up |-> s.up, cp |-> s.cp]
          BY <3>2, <3>4, <4>2
        <4> QED
          BY <4>3 DEF Known
      <3>5. CASE s.cp # p.req.cp
        <4>1. CASE sessions[s.key] = [up |-> s.up, cp |-> s.cp]
          <5>1. s.key # k
            BY <4>1, <3>3, <2>2 DEF None
          <5> QED
            BY <4>1, <5>1, <3>2, <2>2 DEF Known
        <4>2. CASE sessions[s.key] # [up |-> s.up, cp |-> s.cp]
          BY <4>2, <3>5, <2>2, <2>3, <1>2 DEF Known
        <4> QED
          BY <4>1, <4>2
      <3> QED
        BY <3>4, <3>5
    <2>4. CASE p.req.op # "establish"
      <3>1. sessions' = sessions
        BY <2>4, <1>5
      <3>2. p.req.op = "delete" => s.up # p.req.up
        BY <2>1 DEF Removed, Asking
      <3> QED
        BY <2>2, <2>4, <3>1, <3>2, <1>2 DEF Known
    <2> QED
      BY <2>3, <2>4
  <1> QED
    BY <1>8, <1>10, <1>11, <1>12, <1>13, <1>14, <1>15, <1>16, <1>17, <1>18, <1>19

\* Reports, acknowledgements and the loss of a request change no table.
LEMMA QuietIInv ==
    ASSUME IInv, Requested' \subseteq Requested, Answered' = Answered,
           UNCHANGED <<smfVars, sendVars, upfVars>>,
           upset' \in BOOLEAN, upset => upset',
           ring' \subseteq Keys, repeats' \in 0..MaxRepeats, repeats' >= repeats,
           net' \subseteq Datagrams,
           \A d \in net' : d.kind = "ack" => report'.seq = d.seq,
           report' \in [seq : UpfSeqs \cup {0}, attempts : 0..N1],
           report'.seq = 0 => report' = NoReport,
           upfSeq' \in UpfSeqs \cup {0}
    PROVE  IInv'
  <1> USE DEF IInv
  <1>1. /\ UNCHANGED <<mgr, lock, install, rules, sessions, cpSeid, seq, pending>>
        /\ UNCHANGED <<upf, byIMSI, upSeid, handling, buffered, plane>>
    BY DEF smfVars, sendVars, upfVars
  <1>2. /\ Serving' = Serving /\ Created' = Created /\ Copies' \subseteq Copies
        /\ Asking("establish")' = Asking("establish") /\ Asking("delete")' = Asking("delete")
        /\ \A u \in Seids : Doomed(u)' => Doomed(u)
    BY <1>1 DEF Serving, Created, Copies, Asking, Doomed
  <1>3. TypeOK'
    BY <1>1 DEF TypeOK
  <1>4. Counted'
    <2>1. upSeid' + Cardinality(Copies)' =< (seq' - 1) + repeats'
      <3>1. seq' = seq /\ seq \in Nat /\ repeats \in Nat /\ repeats' \in Nat
        BY <1>1, PfcpAssumption DEF TypeOK, Seqs
      <3>2. seq' + repeats' >= seq + repeats
        BY <3>1, Sums
      <3> QED
        BY <1>1, <1>2, <3>1, <3>2, CountOthers
    <2> QED
      BY <2>1, <1>1, <1>2 DEF Counted
  <1>5. Numbered' /\ Fresh'
    BY <1>1, <1>2 DEF Numbered, Fresh
  <1>6. Identified' /\ SessionBacked'
    <2>1. \A j \in Keys : sessions[j].up \in Seids
      BY Fields
    <2> QED
      BY <1>1, <1>2, <2>1 DEF Identified, SessionBacked
  <1>7. Offered'
    <2>1. \A h \in Serving : h.up \in Seids
      BY Fields DEF Serving
    <2>2. \A a \in Answered : a.up \in Seids
      BY Kinds DEF Answered
    <2>3. /\ \A h \in Serving : Unheard(h.up) => Unheard(h.up)'
          /\ \A a \in Answered : Unheard(a.up) => Unheard(a.up)'
      BY <1>1, <1>2, <2>1, <2>2 DEF Unheard
    <2> QED
      BY <1>1, <1>2, <2>3 DEF Offered
  <1>8. Buffered' /\ PlaneOwned' /\ Removed'
    BY <1>1, <1>2 DEF Buffered, PlaneOwned, Removed
  <1>9. Orderly' /\ LeakHasCause'
    BY <1>1 DEF Orderly, LeakHasCause, Known
  <1> QED
    BY <1>3, <1>4, <1>5, <1>6, <1>7, <1>8, <1>9

\* An establishment makes a session with a UP-SEID of its own and has its answer
\* to come.
LEMMA EstablishIInv ==
    ASSUME IInv, NEW d \in Requested, d.req.op = "establish", EstablishTable(d),
           UNCHANGED <<smfVars, sendVars, repVars, plane>>,
           upset' = (upset \/ repeats' # repeats)
    PROVE  IInv'
  <1> USE PfcpAssumption
  <1> USE DEF IInv
  <1>1. UNCHANGED <<mgr, lock, install, rules, sessions, cpSeid, seq, pending, upfSeq, report, ring>>
    BY DEF smfVars, sendVars, repVars
  <1>2. upSeid' = upSeid + 1 /\ upSeid \in Nat /\ seq \in Seqs
    BY DEF EstablishTable, TypeOK, Seids
  <1>3. Received(d, {})
    BY DEF EstablishTable
  <1>4. Consumed(d) /\ Requested' \subseteq Requested /\ Answered' = Answered
    BY <1>1, <1>3, ConsumesOnly
  <1>5. Created' = Created
    BY <1>1 DEF Created
  <1>6. Counted'
    <2>1. upSeid' + Cardinality(Copies)' =< (seq' - 1) + repeats'
      BY <1>1, <1>2, <1>4, HandledCounted
    <2> QED
      BY <2>1, <1>1, <1>5 DEF Counted
  <1>7. upSeid + 1 \in Seids
    <2>1. Cardinality(Copies') \in Nat
      <3>1. Copies' \subseteq Seqs
        BY <1>4, CopiesFinite DEF Copies
      <3> QED
        BY <3>1, Bounds
    <2>2. seq - 1 \in 0..MaxRequests /\ repeats' \in 0..MaxRepeats
      BY <1>2, <1>4 DEF Seqs, Consumed
    <2>3. upSeid + 1 + Cardinality(Copies') =< (seq - 1) + repeats'
      BY <1>1, <1>2, <1>6 DEF Counted
    <2>4. upSeid + 1 =< (seq - 1) + repeats' /\ upSeid + 1 \in Nat
      BY <1>2, <2>1, <2>2, <2>3
    <2> QED
      BY <2>2, <2>4, Bounds
  <1>8. PICK s \in [up : Seids, cp : Seids, key : Keys] :
           /\ s.up = upSeid + 1 /\ s.cp = d.req.cp /\ s.key = d.req.key
           /\ upf' = upf \cup {s}
    BY <1>1, <1>7, Establishes
  <1>9. PICK h \in Handlers :
           /\ h.seq = d.seq /\ h.op = "establish" /\ h.up = upSeid + 1
           /\ h.keys = {d.req.key} /\ handling' = handling \cup {h}
    BY <1>1, <1>7, Establishes
  <1>10. /\ net' \subseteq net /\ byIMSI' \in [Keys -> Seids] /\ upSeid' = upSeid + 1
         /\ buffered' = buffered \cup {d.req.key} /\ d.req.key \in Keys
         /\ plane' = plane /\ upset' = (upset \/ repeats' # repeats)
    BY <1>1, <1>7, Establishes
  <1>11. /\ Serving' = Serving \cup {h}
         /\ Asking("establish")' = Asking("establish") /\ Asking("delete")' = Asking("delete")
         /\ \A u \in Seids : Doomed(u)' => Doomed(u)
    BY <1>1, <1>4, <1>9 DEF Serving, Asking, Doomed
  <1>12. TypeOK'
    BY <1>1, <1>4, <1>7, <1>8, <1>9, <1>10 DEF TypeOK, Handlers, Consumed
  <1>13. Numbered'
    <2>1. ASSUME NEW q \in pending, h.seq = q.seq PROVE h.op = q.req.op
      <3>1. q.req = d.req
        BY <1>9, <2>1 DEF Numbered
      <3>2. q.req.op = d.req.op
        BY <3>1
      <3> QED
        BY <1>9, <3>2
    <2>2. h.seq =< seq
      BY <1>9 DEF Numbered
    <2> QED
      BY <2>1, <2>2, <1>1, <1>4, <1>9, <1>10 DEF Numbered
  <1>14. Fresh'
    BY <1>1, <1>4, <1>5, <1>8, <1>11 DEF Fresh
  \* Nothing has the new UP-SEID yet.
  <1>15. /\ \A t \in upf : t.up \in 1..upSeid /\ t.up # upSeid + 1
         /\ ~Doomed(upSeid + 1)
         /\ \A j \in Keys : sessions[j].up # upSeid + 1
         /\ \A i \in Serving : i.up # upSeid + 1
         /\ \A a \in Answered, q \in Asking("establish") : a.seq = q.seq => a.up # upSeid + 1
    <2>1. \A t \in upf : t.up \in 1..upSeid /\ t.up # upSeid + 1
      BY <1>2 DEF Identified
    <2>2. ~Doomed(upSeid + 1)
      BY <1>2, <1>7 DEF Identified
    <2>3. ASSUME NEW j \in Keys PROVE sessions[j].up # upSeid + 1
      <3>1. CASE sessions[j] = None
        BY <3>1, <1>2 DEF None
      <3>2. CASE sessions[j] # None
        BY <3>2, <2>1 DEF SessionBacked
      <3> QED
        BY <3>1, <3>2
    <2>4. \A i \in Serving : i.up # upSeid + 1
      BY <2>1 DEF Offered
    <2>5. ASSUME NEW a \in Answered, NEW q \in Asking("establish"), a.seq = q.seq
          PROVE  a.up # upSeid + 1
      <3>1. [up |-> a.up, cp |-> q.req.cp, key |-> q.req.key] \in upf
        BY <2>5 DEF Offered
      <3> QED
        BY <3>1, <2>1
    <2> QED
      BY <2>1, <2>2, <2>3, <2>4, <2>5
  <1>16. Identified' /\ SessionBacked'
    <2>1. \A j \in Keys : sessions[j].up \in Seids
      BY Fields
    <2>2. /\ \A t \in upf' : t.up \in 1..upSeid'
          /\ \A t, x \in upf' : t.up = x.up => t = x
      BY <1>2, <1>8, <1>15 DEF Identified
    <2>3. \A u \in Seids : Doomed(u)' => u \in 1..upSeid'
      BY <1>2, <1>11 DEF Identified
    <2> QED
      BY <1>1, <1>8, <1>11, <2>1, <2>2, <2>3 DEF Identified, SessionBacked
  <1>17. Offered'
    <2>1. \A i \in Serving : i.up \in Seids /\ i \in handling
      BY Fields DEF Serving
    <2>2. \A a \in Answered : a.up \in Seids
      BY Kinds DEF Answered
    <2>3. /\ \A i \in Serving : Unheard(i.up) => Unheard(i.up)'
          /\ \A a \in Answered : Unheard(a.up) => Unheard(a.up)'
          /\ Unheard(h.up)'
      BY <1>1, <1>7, <1>9, <1>11, <1>15, <2>1, <2>2 DEF Unheard
    <2>4. \A q \in pending : q.seq = h.seq => q.req.cp = s.cp /\ q.req.key = s.key
      BY <1>8, <1>9 DEF Numbered
    <2>5. \A i \in Serving' :
             /\ Unheard(i.up)'
             /\ \E t \in upf' : /\ t.up = i.up /\ i.keys = {t.key}
                                /\ \A q \in pending' : q.seq = i.seq =>
                                      q.req.cp = t.cp /\ q.req.key = t.key
      <3> SUFFICES ASSUME NEW i \in Serving'
                   PROVE  /\ Unheard(i.up)'
                          /\ \E t \in upf' : /\ t.up = i.up /\ i.keys = {t.key}
                                             /\ \A q \in pending' : q.seq = i.seq =>
                                                   q.req.cp = t.cp /\ q.req.key = t.key
        OBVIOUS
      <3>1. CASE i = h
        <4>1. i.up = h.up
          BY <3>1
        <4>2. Unheard(i.up)'
          BY <2>3, <4>1 DEF Unheard, Doomed
        <4> QED
          BY <3>1, <4>2, <2>4, <1>1, <1>8, <1>9
      <3>2. CASE i \in Serving
        BY <3>2, <2>3, <1>1, <1>8 DEF Offered
      <3> QED
        BY <3>1, <3>2, <1>11
    <2>6. \A i, j \in Serving' : i.up = j.up => i = j
      BY <1>9, <1>11, <1>15 DEF Offered
    <2>7. \A a \in Answered', q \in Asking("establish")' : a.seq = q.seq =>
             /\ a.cause = 1
             /\ Unheard(a.up)'
             /\ [up |-> a.up, cp |-> q.req.cp, key |-> q.req.key] \in upf'
             /\ \A i \in Serving' : i.up # a.up
      BY <1>4, <1>8, <1>9, <1>11, <1>15, <2>3 DEF Offered
    <2> QED
      BY <2>5, <2>6, <2>7 DEF Offered
  <1>18. Buffered' /\ PlaneOwned'
    BY <1>8, <1>9, <1>10, <1>11 DEF Buffered, PlaneOwned
  <1>19. Removed'
    <2> SUFFICES ASSUME NEW q \in Asking("delete"),
                        \/ \E i \in handling' : i.seq = q.seq
                        \/ \E a \in Answered : a.seq = q.seq,
                        NEW t \in upf'
                 PROVE  t.up # q.req.up
      BY <1>4, <1>11 DEF Removed
    <2>1. h.seq # q.seq
      BY <1>9 DEF Numbered, Asking
    <2>2. CASE t \in upf
      BY <2>1, <2>2, <1>9 DEF Removed
    <2>3. CASE t = s
      <3>1. Doomed(q.req.up) /\ q.req.up \in Seids
        BY Fields DEF Doomed, Asking
      <3> QED
        BY <2>3, <3>1, <1>8, <1>15
    <2> QED
      BY <2>2, <2>3, <1>8
  <1>20. Orderly'
    <2> SUFFICES ASSUME ~upset' PROVE Orderly'
      BY DEF Orderly
    <2>4. ~upset /\ Requested' = Requested \ {d}
      BY <1>4, <1>10, ConsumedOnce
    <2>1. /\ \A e \in Requested : /\ \E q \in pending : q.seq = e.seq
                                  /\ \A i \in handling : i.seq # e.seq
                                  /\ \A a \in Answered : a.seq # e.seq
                                  /\ e.req.op = "establish" => \A t \in upf : t.cp # e.req.cp
          /\ \A t, x \in upf : t.cp = x.cp => t = x
      BY <2>4 DEF Orderly
    <2>2. \A t, x \in upf' : t.cp = x.cp => t = x
      BY <2>1, <1>8
    <2>3. ASSUME NEW e \in Requested'
          PROVE  /\ \E q \in pending' : q.seq = e.seq
                 /\ \A i \in handling' : i.seq # e.seq
                 /\ \A a \in Answered' : a.seq # e.seq
                 /\ e.req.op = "establish" => \A t \in upf' : t.cp # e.req.cp
      <3>1. e \in Requested /\ e.seq # d.seq
        BY <2>4 DEF Numbered
      <3>2. e.req.op = "establish" => e.req.cp # d.req.cp
        <4> SUFFICES ASSUME e.req.op = "establish", e.req.cp = d.req.cp PROVE FALSE
          OBVIOUS
        <4>1. PICK q \in pending : q.seq = e.seq
          BY <2>1, <3>1
        <4>2. PICK x \in pending : x.seq = d.seq
          BY <2>1
        <4>3. q.req = e.req /\ x.req = d.req
          BY <4>1, <4>2, <3>1 DEF Numbered
        <4>4. q \in Asking("establish") /\ x \in Asking("establish")
          BY <4>3 DEF Asking
        <4>5. q = x
          BY <4>3, <4>4 DEF Fresh
        <4> QED
          BY <4>1, <4>2, <4>5, <3>1
      <3> QED
        BY <2>1, <3>1, <3>2, <1>1, <1>4, <1>8, <1>9
    <2> QED
      BY <2>2, <2>3, <2>4, <1>1 DEF Orderly
  <1>21. LeakHasCause'
    <2> SUFFICES ASSUME ~upset, NEW t \in upf' PROVE Known(t)'
      BY <1>10 DEF LeakHasCause
    <2>1. CASE t \in upf
      BY <2>1, <1>1 DEF LeakHasCause, Known
    <2>2. CASE t = s
      <3>1. PICK q \in pending : q.seq = d.seq
        BY DEF Orderly
      <3>2. q.req = d.req
        BY <3>1 DEF Numbered
      <3> QED
        BY <2>2, <3>1, <3>2, <1>1, <1>8 DEF Known
    <2> QED
      BY <2>1, <2>2, <1>8
  <1> QED
    BY <1>6, <1>12, <1>13, <1>14, <1>16, <1>17, <1>18, <1>19, <1>20, <1>21

\* A modification changes nothing until its handler finishes.
LEMMA ModifyIInv ==
    ASSUME IInv, NEW d \in Requested, d.req.op = "modify", ModifyTable(d),
           UNCHANGED <<smfVars, sendVars, repVars, plane>>,
           upset' = (upset \/ repeats' # repeats)
    PROVE  IInv'
  <1> USE DEF IInv
  <1>1. UNCHANGED <<mgr, lock, install, rules, sessions, cpSeid, seq, pending, upfSeq, report, ring>>
    BY DEF smfVars, sendVars, repVars
  <1>2. /\ Consumed(d) /\ Requested' \subseteq Requested /\ Answered' = Answered
        /\ net' \subseteq net /\ UNCHANGED <<upf, byIMSI, upSeid, buffered>>
    BY <1>1, Modifies DEF Consumed
  <1>3. PICK h \in Handlers : h.seq = d.seq /\ h.op = "modify" /\ handling' = handling \cup {h}
    BY <1>1, Modifies
  <1>4. /\ Serving' = Serving /\ Created' = Created
        /\ Asking("establish")' = Asking("establish") /\ Asking("delete")' = Asking("delete")
        /\ \A u \in Seids : Doomed(u)' => Doomed(u)
    BY <1>1, <1>2, <1>3 DEF Serving, Created, Asking, Doomed
  <1>5. TypeOK'
    BY <1>1, <1>2, <1>3 DEF TypeOK, Handlers, Consumed
  <1>6. Counted'
    <2>1. upSeid' + Cardinality(Copies)' =< (seq' - 1) + repeats'
      BY <1>1, <1>2, HandledCounted
    <2> QED
      BY <2>1, <1>1, <1>4 DEF Counted
  <1>7. \A q \in pending : h.seq = q.seq => h.op = q.req.op /\ q \notin Asking("delete")
    <2> SUFFICES ASSUME NEW q \in pending, h.seq = q.seq
                 PROVE  h.op = q.req.op /\ q \notin Asking("delete")
      OBVIOUS
    <2>1. q.req = d.req
      <3>1. \A p \in pending, e \in Requested : e.seq = p.seq => e.req = p.req
        BY DEF Numbered
      <3>2. d.seq = q.seq
        BY <1>3
      <3> QED
        BY <3>1, <3>2
    <2>2. q.req.op = "modify"
      BY <2>1
    <2> QED
      BY <2>2, <1>3 DEF Asking
  <1>8. Numbered'
    <2>1. h.seq =< seq
      BY <1>3 DEF Numbered
    <2> QED
      BY <2>1, <1>1, <1>2, <1>3, <1>7 DEF Numbered
  <1>9. Fresh'
    BY <1>1, <1>2, <1>4 DEF Fresh
  <1>10. Identified' /\ SessionBacked'
    <2>1. \A j \in Keys : sessions[j].up \in Seids
      BY Fields
    <2> QED
      BY <1>1, <1>2, <1>4, <2>1 DEF Identified, SessionBacked
  <1>11. Offered'
    <2>1. \A i \in Serving : i.up \in Seids
      BY Fields DEF Serving
    <2>2. \A a \in Answered : a.up \in Seids
      BY Kinds DEF Answered
    <2>3. /\ \A i \in Serving : Unheard(i.up) => Unheard(i.up)'
          /\ \A a \in Answered : Unheard(a.up) => Unheard(a.up)'
      BY <1>1, <1>4, <2>1, <2>2 DEF Unheard
    <2> QED
      BY <1>1, <1>2, <1>4, <2>3 DEF Offered
  <1>12. Buffered' /\ PlaneOwned'
    BY <1>2, <1>3, <1>4 DEF Buffered, PlaneOwned
  <1>13. Removed'
    <2>1. \A q \in Asking("delete") : h.seq # q.seq
      BY <1>7 DEF Asking
    <2> QED
      BY <2>1, <1>2, <1>3, <1>4 DEF Removed
  <1>14. Orderly'
    <2>2. ~upset' => ~upset /\ Requested' = Requested \ {d}
      BY <1>2, ConsumedOnce
    <2>1. ~upset' => \A e \in Requested' : e \in Requested /\ e.seq # h.seq
      BY <1>3, <2>2 DEF Numbered
    <2> QED
      BY <2>1, <1>1, <1>2, <1>3 DEF Orderly
  <1>15. LeakHasCause'
    BY <1>1, <1>2 DEF LeakHasCause, Known
  <1> QED
    BY <1>5, <1>6, <1>8, <1>9, <1>10, <1>11, <1>12, <1>13, <1>14, <1>15

\* A deletion removes a session that nobody is about to learn of or holds.
LEMMA DeleteIInv ==
    ASSUME IInv, NEW d \in Requested, d.req.op = "delete", DeleteTable(d),
           UNCHANGED <<smfVars, sendVars, repVars, plane>>,
           upset' = (upset \/ repeats' # repeats)
    PROVE  IInv'
  <1> USE DEF IInv
  <1>1. UNCHANGED <<mgr, lock, install, rules, sessions, cpSeid, seq, pending, upfSeq, report, ring>>
    BY DEF smfVars, sendVars, repVars
  <1>2. /\ Consumed(d) /\ Requested' \subseteq Requested
        /\ upf' = {s \in upf : s.up # d.req.up}
        /\ byIMSI' \in [Keys -> Seids]
        /\ UNCHANGED <<upSeid, buffered>>
    BY Deletes DEF Consumed
  <1>3. \/ handling' = handling
        \/ \E h \in Handlers : h.seq = d.seq /\ h.op = "delete" /\ handling' = handling \cup {h}
    BY Deletes
  <1>4. /\ net' \subseteq Datagrams
        /\ \A x \in net' : x.kind = "ack" => x \in net
        /\ \A a \in Answered' : /\ \E p \in pending : p.seq = a.seq
                                /\ a \in Answered \/ (a.seq = d.seq /\ a.cause = 65)
    BY Deletes DEF TypeOK, Numbered
  <1>5. /\ Serving' = Serving /\ Created' = Created
        /\ Asking("establish")' = Asking("establish") /\ Asking("delete")' = Asking("delete")
        /\ \A u \in Seids : Doomed(u)' => Doomed(u)
    BY <1>1, <1>2, <1>3 DEF Serving, Created, Asking, Doomed
  <1>6. /\ handling \subseteq handling'
        /\ \A i \in handling' : i \in handling \/ (i \in Handlers /\ i.seq = d.seq /\ i.op = "delete")
    BY <1>3
  <1>7. TypeOK'
    BY <1>1, <1>2, <1>4, <1>6 DEF TypeOK, Handlers, Consumed
  <1>8. Counted'
    <2>1. upSeid' + Cardinality(Copies)' =< (seq' - 1) + repeats'
      BY <1>1, <1>2, HandledCounted
    <2> QED
      BY <2>1, <1>1, <1>2, <1>5 DEF Counted
  <1>9. \A q \in pending : d.seq = q.seq => q.req.op = "delete" /\ q.req.up = d.req.up
    <2> SUFFICES ASSUME NEW q \in pending, d.seq = q.seq
                 PROVE  q.req.op = "delete" /\ q.req.up = d.req.up
      OBVIOUS
    <2>1. q.req = d.req
      BY DEF Numbered
    <2> QED
      BY <2>1
  <1>10. Numbered'
    <2>1. d.seq =< seq
      BY DEF Numbered
    <2>2. \A i \in handling' : i.seq =< seq
      BY <2>1, <1>6 DEF Numbered
    <2>3. \A p \in pending, i \in handling' : i.seq = p.seq => i.op = p.req.op
      BY <1>6, <1>9 DEF Numbered
    <2> QED
      BY <2>2, <2>3, <1>1, <1>2, <1>4 DEF Numbered
  <1>11. Fresh'
    BY <1>1, <1>2, <1>5 DEF Fresh
  <1>12. Doomed(d.req.up) /\ d.req.up \in Seids
    BY Kinds, Fields DEF Doomed, Requested
  <1>13. Identified' /\ SessionBacked'
    <2>1. \A j \in Keys : sessions[j].up \in Seids
      BY Fields
    <2>2. Identified'
      BY <1>1, <1>2, <1>5, <2>1 DEF Identified
    <2>3. ASSUME NEW j \in Keys, sessions[j] # None
          PROVE  [up |-> sessions[j].up, cp |-> sessions[j].cp, key |-> j] \in upf'
      <3>1. sessions[j].up # d.req.up
        BY <1>12, <2>3 DEF Identified
      <3>2. [up |-> sessions[j].up, cp |-> sessions[j].cp, key |-> j].up = sessions[j].up
        OBVIOUS
      <3> QED
        BY <3>1, <3>2, <2>3, <1>2 DEF SessionBacked
    <2> QED
      BY <2>2, <2>3, <1>1 DEF SessionBacked
  <1>14. Offered'
    <2>1. \A i \in Serving : i.up \in Seids /\ i.up # d.req.up
      BY <1>12, Fields DEF Serving, Offered, Unheard
    <2>2. \A a \in Answered : a.up \in Seids
      BY Kinds DEF Answered
    <2>3. /\ \A i \in Serving : Unheard(i.up) => Unheard(i.up)'
          /\ \A a \in Answered : Unheard(a.up) => Unheard(a.up)'
      BY <1>1, <1>5, <2>1, <2>2 DEF Unheard
    <2>4. \A i \in Serving' :
             /\ Unheard(i.up)'
             /\ \E t \in upf' : /\ t.up = i.up /\ i.keys = {t.key}
                                /\ \A q \in pending' : q.seq = i.seq =>
                                      q.req.cp = t.cp /\ q.req.key = t.key
      BY <2>1, <2>3, <1>1, <1>2, <1>5 DEF Offered
    <2>5. ASSUME NEW a \in Answered', NEW q \in Asking("establish"), a.seq = q.seq
          PROVE  /\ a \in Answered /\ a.cause = 1
                 /\ Unheard(a.up)'
                 /\ [up |-> a.up, cp |-> q.req.cp, key |-> q.req.key] \in upf'
                 /\ \A i \in Serving' : i.up # a.up
      <3>1. a.seq # d.seq
        BY <2>5, <1>9 DEF Asking
      <3>2. a \in Answered
        BY <3>1, <1>4
      <3>3. /\ a.cause = 1 /\ Unheard(a.up)
            /\ [up |-> a.up, cp |-> q.req.cp, key |-> q.req.key] \in upf
            /\ \A i \in Serving : i.up # a.up
        BY <3>2, <2>5 DEF Offered
      <3>4. a.up # d.req.up
        BY <3>3, <1>12 DEF Unheard
      <3>5. [up |-> a.up, cp |-> q.req.cp, key |-> q.req.key].up = a.up
        OBVIOUS
      <3> QED
        BY <3>2, <3>3, <3>4, <3>5, <2>3, <1>2, <1>5
    <2>6. \A i, j \in Serving' : i.up = j.up => i = j
      BY <1>5 DEF Offered
    <2>7. \A a \in Answered', q \in Asking("establish")' : a.seq = q.seq =>
             /\ a.cause = 1
             /\ Unheard(a.up)'
             /\ [up |-> a.up, cp |-> q.req.cp, key |-> q.req.key] \in upf'
             /\ \A i \in Serving' : i.up # a.up
      BY <2>5, <1>5
    <2> QED
      BY <2>4, <2>6, <2>7 DEF Offered
  <1>15. Buffered'
    BY <1>2, <1>5 DEF Buffered
  <1>16. PlaneOwned'
    <2> SUFFICES ASSUME NEW k \in Keys, plane[k] # "none"
                 PROVE  \/ \E s \in upf' : s.key = k
                        \/ \E h \in handling' : h.op = "delete" /\ k \in h.keys
      BY DEF PlaneOwned
    <2>1. CASE \E h \in handling : h.op = "delete" /\ k \in h.keys
      BY <2>1, <1>6
    <2>2. ASSUME NEW s \in upf, s.key = k, s \notin upf'
          PROVE  \E h \in handling' : h.op = "delete" /\ k \in h.keys
      <3>1. PICK h \in Handlers : /\ h.op = "delete" /\ h.keys = {x.key : x \in upf \ upf'}
                                  /\ handling' = handling \cup {h}
        BY <2>2, Deletes
      <3>2. k \in h.keys
        BY <2>2, <3>1
      <3> QED
        BY <3>1, <3>2
    <2> QED
      BY <2>1, <2>2 DEF PlaneOwned
  <1>17. Removed'
    <2> SUFFICES ASSUME NEW q \in Asking("delete"),
                        \/ \E i \in handling' : i.seq = q.seq
                        \/ \E a \in Answered' : a.seq = q.seq,
                        NEW t \in upf'
                 PROVE  t.up # q.req.up
      BY <1>5 DEF Removed
    <2>1. CASE q.seq = d.seq
      BY <2>1, <1>2, <1>9 DEF Asking
    <2>2. CASE q.seq # d.seq
      BY <2>2, <1>2, <1>4, <1>6 DEF Removed
    <2> QED
      BY <2>1, <2>2
  <1>18. Orderly'
    <2>2. ~upset' => ~upset /\ Requested' = Requested \ {d}
      BY <1>2, ConsumedOnce
    <2>1. ~upset' => \A e \in Requested' : e \in Requested /\ e.seq # d.seq
      BY <2>2 DEF Numbered
    <2> QED
      BY <2>1, <1>1, <1>2, <1>4, <1>6 DEF Orderly
  <1>19. LeakHasCause'
    BY <1>1, <1>2 DEF LeakHasCause, Known
  <1> QED
    BY <1>7, <1>8, <1>10, <1>11, <1>13, <1>14, <1>15, <1>16, <1>17, <1>18, <1>19

\* A handler drives the dataplane and offers its session to whoever waits.
LEMMA FinishIInv ==
    ASSUME IInv, NEW h \in handling, Finish(h)
    PROVE  IInv'
  <1> USE DEF IInv
  <1>0. /\ UNCHANGED <<smfVars, sendVars, repVars, repeats, upf, byIMSI, upSeid, upset>>
        /\ \/ h.op = "establish" /\ CreateInPlane(h)
           \/ h.op = "modify" /\ UpdateInPlane(h)
           \/ h.op = "delete" /\ DeleteInPlane(h)
    BY Finishes
  <1>1. /\ UNCHANGED <<mgr, lock, install, rules, sessions, cpSeid, seq, pending, upfSeq, report, ring>>
        /\ UNCHANGED <<repeats, upf, byIMSI, upSeid, upset>>
    BY <1>0 DEF smfVars, sendVars, repVars
  <1>2. /\ Requested' = Requested /\ net' \subseteq Datagrams
        /\ \A x \in net' : x.kind = "ack" => x \in net
        /\ handling' = handling \ {h}
        /\ \A a \in Answered' :
              /\ \E p \in pending : p.seq = a.seq
              /\ \/ a \in Answered
                 \/ a.seq = h.seq /\ a.cause = 1 /\ (h.op = "establish" => a.up = h.up)
    BY Finishes
  <1>3. /\ Serving' = Serving \ {h} /\ Created' = Created /\ Copies' = Copies
        /\ Asking("establish")' = Asking("establish") /\ Asking("delete")' = Asking("delete")
        /\ \A u \in Seids : Doomed(u)' <=> Doomed(u)
    BY <1>1, <1>2 DEF Serving, Created, Copies, Asking, Doomed
  <1>4. h.far \in {"buf", "fwd"} /\ h.up \in Seids /\ h.keys \subseteq Keys
    BY Fields
  <1>5. TypeOK'
    <2>1. plane' \in [Keys -> {"none", "buf", "fwd"}] /\ buffered' \subseteq Keys
      BY <1>0, <1>4 DEF CreateInPlane, UpdateInPlane, DeleteInPlane, TypeOK
    <2> QED
      BY <2>1, <1>1, <1>2 DEF TypeOK
  <1>6. Counted' /\ Numbered' /\ Fresh'
    BY <1>1, <1>2, <1>3 DEF Counted, Numbered, Fresh
  <1>7. Identified' /\ SessionBacked'
    <2>1. \A j \in Keys : sessions[j].up \in Seids
      BY Fields
    <2> QED
      BY <1>1, <1>3, <2>1 DEF Identified, SessionBacked
  <1>8. Offered'
    <2>1. \A i \in Serving : i.up \in Seids
      BY Fields DEF Serving
    <2>2. \A u \in Seids : Unheard(u) => Unheard(u)'
      BY <1>1, <1>3 DEF Unheard
    <2>3. \A i \in Serving' :
             /\ Unheard(i.up)'
             /\ \E t \in upf' : /\ t.up = i.up /\ i.keys = {t.key}
                                /\ \A q \in pending' : q.seq = i.seq =>
                                      q.req.cp = t.cp /\ q.req.key = t.key
      <3>1. \A i \in Serving' : i \in Serving
        BY <1>3
      <3>2. \A i \in Serving' : Unheard(i.up)'
        BY <3>1, <2>1, <2>2 DEF Offered
      <3> QED
        BY <3>1, <3>2, <1>1 DEF Offered
    <2>4. ASSUME NEW a \in Answered', NEW q \in Asking("establish"), a.seq = q.seq
          PROVE  /\ a.cause = 1
                 /\ a.up \in Seids /\ Unheard(a.up)
                 /\ [up |-> a.up, cp |-> q.req.cp, key |-> q.req.key] \in upf
                 /\ \A i \in Serving' : i.up # a.up
      <3>1. CASE a \in Answered
        BY <3>1, <2>4, <1>3, Kinds DEF Offered, Answered
      <3>2. CASE a \notin Answered
        <4>1. a.seq = h.seq /\ a.cause = 1 /\ (h.op = "establish" => a.up = h.up)
          BY <3>2, <1>2
        <4>2. q \in pending /\ q.req.op = "establish"
          BY DEF Asking
        <4>3. h.op = "establish" /\ a.up = h.up /\ h \in Serving
          <5>1. h.seq = q.seq
            BY <4>1, <2>4
          <5>2. h.op = q.req.op
            BY <4>2, <5>1 DEF Numbered
          <5>3. h.op = "establish"
            BY <4>2, <5>2
          <5> QED
            BY <4>1, <5>3 DEF Serving
        <4>4. PICK s \in upf : /\ s.up = h.up
                               /\ \A p \in pending : p.seq = h.seq =>
                                     p.req.cp = s.cp /\ p.req.key = s.key
          BY <4>3 DEF Offered
        <4>5. s = [up |-> s.up, cp |-> s.cp, key |-> s.key]
          BY DEF TypeOK
        <4>6. q.req.cp = s.cp /\ q.req.key = s.key
          BY <4>1, <4>2, <4>4, <2>4
        <4>7. [up |-> a.up, cp |-> q.req.cp, key |-> q.req.key] \in upf
          BY <4>3, <4>4, <4>5, <4>6
        <4>8. Unheard(h.up) /\ \A i \in Serving' : i.up # h.up
          BY <4>3, <1>3 DEF Offered
        <4>9. Unheard(a.up)
          BY <4>3, <4>8 DEF Unheard, Doomed
        <4> QED
          BY <4>1, <4>3, <4>7, <4>8, <4>9, <1>4
      <3> QED
        BY <3>1, <3>2
    <2>5. \A i, j \in Serving' : i.up = j.up => i = j
      BY <1>3 DEF Offered
    <2>6. \A a \in Answered', q \in Asking("establish")' : a.seq = q.seq =>
             /\ a.cause = 1
             /\ Unheard(a.up)'
             /\ [up |-> a.up, cp |-> q.req.cp, key |-> q.req.key] \in upf'
             /\ \A i \in Serving' : i.up # a.up
      BY <2>2, <2>4, <1>1, <1>3
    <2> QED
      BY <2>3, <2>5, <2>6 DEF Offered
  \* What is buffered has an establishment under way, which has a session.
  <1>9. \A k \in buffered : \E s \in upf : s.key = k
    BY DEF Buffered, Offered
  <1>10. Buffered'
    <2>1. \A k \in buffered' : k \in buffered /\ (h.op = "establish" => k \notin h.keys)
      BY <1>0 DEF CreateInPlane, UpdateInPlane, DeleteInPlane
    <2>2. h.op # "establish" => h \notin Serving
      BY DEF Serving
    <2> QED
      BY <2>1, <2>2, <1>3 DEF Buffered, Serving
  <1>11. PlaneOwned'
    <2> SUFFICES ASSUME NEW k \in Keys, plane'[k] # "none"
                 PROVE  \/ \E s \in upf : s.key = k
                        \/ \E i \in handling : i # h /\ i.op = "delete" /\ k \in i.keys
      BY <1>1, <1>2 DEF PlaneOwned
    <2>1. CASE h.op = "establish" /\ CreateInPlane(h)
      <3>1. k \in buffered \/ plane[k] # "none"
        BY <2>1 DEF CreateInPlane
      <3> QED
        BY <2>1, <3>1, <1>9 DEF PlaneOwned
    <2>2. CASE h.op = "modify" /\ UpdateInPlane(h)
      <3>1. plane[k] # "none"
        BY <2>2 DEF UpdateInPlane
      <3> QED
        BY <2>2, <3>1 DEF PlaneOwned
    <2>3. CASE h.op = "delete" /\ DeleteInPlane(h)
      <3>1. k \notin h.keys \ buffered /\ plane[k] # "none"
        BY <2>3 DEF DeleteInPlane
      <3> QED
        BY <3>1, <1>9 DEF PlaneOwned
    <2> QED
      BY <2>1, <2>2, <2>3, <1>0
  <1>12. Removed'
    <2> SUFFICES ASSUME NEW q \in Asking("delete"),
                        \/ \E i \in handling' : i.seq = q.seq
                        \/ \E a \in Answered' : a.seq = q.seq,
                        NEW t \in upf
                 PROVE  t.up # q.req.up
      BY <1>1, <1>3 DEF Removed
    <2>1. \/ \E i \in handling : i.seq = q.seq
          \/ \E a \in Answered : a.seq = q.seq
      BY <1>2
    <2> QED
      BY <2>1 DEF Removed
  <1>13. Orderly' /\ LeakHasCause'
    BY <1>1, <1>2 DEF Orderly, LeakHasCause, Known
  <1> QED
    BY <1>5, <1>6, <1>7, <1>8, <1>10, <1>11, <1>12, <1>13
-----------------------------------------------------------------------------
(* The theorems. *)

\* Every step keeps the invariant.
LEMMA NextIInv == IInv /\ [Next]_vars => IInv'
  <1> SUFFICES ASSUME IInv, [Next]_vars PROVE IInv'
    OBVIOUS
  <1>0. TypeOK /\ Numbered
    BY DEF IInv
  <1>1. CASE UNCHANGED vars
    <2>1. /\ UNCHANGED <<smfVars, sendVars, upfVars, upset, repVars, net, repeats>>
      BY <1>1 DEF vars, netVars
    <2>2. /\ Requested' = Requested /\ Answered' = Answered
          /\ net' = net /\ upfSeq' = upfSeq /\ report' = report /\ ring' = ring
      BY <2>1 DEF Requested, Answered, repVars
    <2>3. /\ report \in [seq : UpfSeqs \cup {0}, attempts : 0..N1]
          /\ upfSeq \in UpfSeqs \cup {0} /\ net \subseteq Datagrams
          /\ ring \subseteq Keys /\ repeats \in 0..MaxRepeats /\ upset \in BOOLEAN
          /\ report.seq = 0 => report = NoReport
          /\ \A d \in net : d.kind = "ack" => report.seq = d.seq
      BY <1>0 DEF TypeOK, Numbered
    <2> QED
      BY <2>1, <2>2, <2>3, QuietIInv
  <1>2. ASSUME NEW k \in Keys,
               \/ CreateSession(k) \/ CommitSession(k) \/ DeleteSession(k)
               \/ \E far \in {"buf", "fwd"} : UpdateFAR(k, far)
        PROVE  IInv'
    BY <1>2, CreateSessionIInv, CommitSessionIInv, DeleteSessionIInv, UpdateFARIInv
  <1>3. CASE \/ \E d \in net : /\ d.to = "smf" /\ (\A p \in pending : p.seq # d.seq)
                               /\ Unsolicited(d) /\ UNCHANGED <<repVars, upfVars>>
             \/ \E k \in Keys : BufferPacket(k) \/ ForwardReport(k)
             \/ ReportT1Expiry
             \/ ReportExhausted
    <2>1. /\ Requested' = Requested /\ Answered' = Answered
          /\ UNCHANGED <<smfVars, sendVars, upfVars, upset>>
          /\ net' \subseteq Datagrams
          /\ \A d \in net' : d.kind = "ack" => report'.seq = d.seq
          /\ report' \in [seq : UpfSeqs \cup {0}, attempts : 0..N1]
          /\ report'.seq = 0 => report' = NoReport
          /\ upfSeq' \in UpfSeqs \cup {0} /\ ring' \subseteq Keys
          /\ repeats' \in 0..MaxRepeats /\ repeats' >= repeats
      BY <1>0, <1>3, Reports
    <2>2. upset' \in BOOLEAN /\ (upset => upset')
      BY <1>0, <2>1 DEF TypeOK
    <2> QED
      BY <2>1, <2>2, QuietIInv
  <1>4. ASSUME NEW p \in pending, T1Expiry(p) \/ Exhausted(p)
        PROVE  IInv'
    BY <1>4, T1ExpiryIInv, CompleteIInv
  <1>5. ASSUME NEW d \in net, SmfReceive(d)
        PROVE  IInv'
    <2>1. ASSUME NEW p \in pending, p.seq = d.seq, TakeAnswer(d, p)
          PROVE  IInv'
      <3>1. d.to = "smf" /\ UNCHANGED <<repVars, upfVars>>
        BY <1>5 DEF SmfReceive
      <3> QED
        BY <2>1, <3>1, CompleteIInv
    <2>2. CASE (\A p \in pending : p.seq # d.seq) /\ Unsolicited(d)
      <3>1. d.to = "smf" /\ UNCHANGED <<repVars, upfVars>>
        BY <1>5 DEF SmfReceive
      <3> QED
        BY <2>2, <3>1, <1>3
    <2> QED
      BY <1>5, <2>1, <2>2 DEF SmfReceive
  <1>6. ASSUME NEW d \in net, UpfReceive(d)
        PROVE  IInv'
    <2>1. CASE report.seq = d.seq
      <3>1. /\ Requested' \subseteq Requested /\ Answered' = Answered
            /\ UNCHANGED <<smfVars, sendVars, upfVars, upfSeq, ring>>
            /\ upset' = (upset \/ repeats' # repeats)
            /\ report' = NoReport
            /\ \A x \in net' : x \in net /\ x.kind # "ack"
            /\ repeats' \in 0..MaxRepeats /\ repeats' >= repeats
        BY <1>0, <1>6, <2>1, TakenForAck
      <3>2. /\ NoReport \in [seq : UpfSeqs \cup {0}, attempts : 0..N1]
            /\ upfSeq \in UpfSeqs \cup {0} /\ net \subseteq Datagrams /\ ring \subseteq Keys
        BY <1>0, PfcpAssumption DEF NoReport, TypeOK
      <3>3. upset' \in BOOLEAN /\ (upset => upset')
        BY <1>0, <3>1 DEF TypeOK
      <3> QED
        BY <3>1, <3>2, <3>3, QuietIInv
    <2>2. CASE report.seq # d.seq
      <3>1. /\ d \in Requested
            /\ UNCHANGED <<smfVars, sendVars, repVars, plane>>
            /\ upset' = (upset \/ repeats' # repeats)
            /\ \/ d.req.op = "establish" /\ EstablishTable(d)
               \/ d.req.op = "modify" /\ ModifyTable(d)
               \/ d.req.op = "delete" /\ DeleteTable(d)
        BY <1>0, <1>6, <2>2, Handled
      <3> QED
        BY <3>1, EstablishIInv, ModifyIInv, DeleteIInv
    <2> QED
      BY <2>1, <2>2
  <1>7. ASSUME NEW h \in handling, Finish(h)
        PROVE  IInv'
    BY <1>7, FinishIInv
  <1>8. CASE Next
    BY <1>8, <1>2, <1>3, <1>4, <1>5, <1>6, <1>7 DEF Next
  <1> QED
    BY <1>1, <1>8

\* The invariant holds throughout.
LEMMA Invariant == Spec => []IInv
  <1>1. Init => IInv
    BY InitIInv
  <1>2. IInv /\ [Next]_vars => IInv'
    BY NextIInv
  <1> QED
    BY <1>1, <1>2, PTL DEF Spec

\* Tables, counters and datagrams keep their types: at most N1 attempts are made
\* of a request, and the UPF hands out at most one UP-SEID per request that was
\* sent, sent again or repeated.
THEOREM TypeCorrect == Spec => []TypeOK
  <1>1. IInv => TypeOK
    BY DEF IInv
  <1> QED
    BY <1>1, Invariant, PTL

\* Whatever is repeated, lost, late or taken for something else, a session that
\* the SMF holds is at the UPF under the UP-SEID that the SMF uses for it.
THEOREM HeldSessionsExist == Spec => []SessionBacked
  <1>1. IInv => SessionBacked
    BY DEF IInv
  <1> QED
    BY <1>1, Invariant, PTL

\* What the dataplane holds is known to the UPF's control plane or is being torn
\* down, although the two are changed in different steps.
THEOREM DataplaneOwned == Spec => []PlaneOwned
  <1>1. IInv => PlaneOwned
    BY DEF IInv
  <1> QED
    BY <1>1, Invariant, PTL

\* The tables of SMF and UPF part only after a timeout, a request that the network
\* repeated, a deletion that could not be sent, a misdirected report or a release
\* that crossed the establishment.
THEOREM LeaksHaveCauses == Spec => []LeakHasCause
  <1>1. IInv => LeakHasCause
    BY DEF IInv
  <1> QED
    BY <1>1, Invariant, PTL
===============================================================================
