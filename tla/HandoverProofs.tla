---------------------------- MODULE HandoverProofs ----------------------------
(***************************************************************************)
(* Handover for every set of gNBs, UEs, streams and every number of        *)
(* handovers: its types, that every UE is served in one place, that a      *)
(* handover the target accepts completes, and that a UE moves only with    *)
(* the context prepared for it.                                            *)
(*                                                                         *)
(* The argument follows the message that carries a handover: from the      *)
(* request to the command or the failure there is one of it, at one place  *)
(* of one queue, although the AMF may drop it or send it to the wrong      *)
(* source.  The test starts the next handover only when it is gone.        *)
(***************************************************************************)
EXTENDS Handover, FiniteSetTheorems, TLAPS

Chase == {"Required", "Request", "Ack", "Failure", "Command", "PrepFailure"}

\* Where the message of the handover is in the queues f.
ChaseIn(f, c) == {i \in 1..Len(f[c]) : f[c][i].type \in Chase}
None(f)       == \A c \in Channels : ChaseIn(f, c) = {}
Unique(f)     == \A c, d \in Channels : \A i \in ChaseIn(f, c), j \in ChaseIn(f, d) :
                    c = d /\ i = j
NoChase       == None(up) /\ None(down)

\* There is at most one such message.
Single == Unique(up) /\ Unique(down) /\ (None(up) \/ None(down))

\* The target has not seen the request of the handover.
Asking ==
    \/ \E c \in Channels : \E i \in ChaseIn(up, c) : up[c][i].type = "Required"
    \/ \E c \in Channels : \E i \in ChaseIn(down, c) : down[c][i].type = "Request"

\* Each handover takes at most one identifier of each gNB.
Counted ==
    /\ teidCounter = ranCounter
    /\ \A g \in Gnbs : ranCounter[g] <= Cardinality(Ues) + hops
    /\ Asking => \A g \in Gnbs : ranCounter[g] < Cardinality(Ues) + hops

\* What the message says of the handover the test waits for.
Addressed ==
    test.pc = "wait" =>
        /\ \A c \in Channels : \A i \in ChaseIn(up, c) :
              /\ up[c][i].type = "Required" => up[c][i].ue = test.ue /\ up[c][i].target = test.tgt
              /\ up[c][i].type = "Ack" => ~refuses[test.tgt]
              /\ up[c][i].type = "Failure" => refuses[test.tgt]
        /\ \A c \in Channels : \A i \in ChaseIn(down, c) :
              /\ down[c][i].type = "Request" => down[c][i].ue = test.ue /\ c[1] = test.tgt
              /\ down[c][i].type = "Command" => ~refuses[test.tgt]
              /\ down[c][i].type = "PrepFailure" => refuses[test.tgt]

\* What the test can conclude from what it sees.
Answered ==
    test.pc = "wait" =>
        /\ Asking => hoContext[test.tgt] = NoContext
        /\ ~Asking => (hoContext[test.tgt] = NoContext <=> refuses[test.tgt])
        /\ prepFailure[test.src] => refuses[test.tgt]
        /\ command[test.src] => NoChase
        /\ command[test.src] /\ ~prepFailure[test.src] => ~refuses[test.tgt]

\* Only the target of the handover under way holds a context, that of its UE.
Prepared ==
    /\ test.pc \in {"idle", "failed"} => \A g \in Gnbs : hoContext[g] = NoContext
    /\ test.pc \in {"wait", "execute", "notify"} =>
          \A g \in Gnbs : hoContext[g] # NoContext => g = test.tgt /\ hoContext[g].ue = test.ue
    /\ test.pc \in {"wait", "execute"} => serving[test.ue] = test.src /\ test.src # test.tgt
    /\ test.pc = "execute" => hoContext[test.tgt] # NoContext
    /\ test.pc = "failed" => refuses[test.tgt]
    /\ test.pc \in {"idle", "execute", "notify", "failed"} => NoChase

\* The identifier of a context is that of no UE.
Fresh ==
    /\ \A g \in Gnbs : \A i \in Ids : i > ranCounter[g] => ueMap[g][i] = NoUe
    /\ test.pc \in {"wait", "execute"} => \A g \in Gnbs : hoContext[g] # NoContext =>
          hoContext[g].ran <= ranCounter[g] /\ ueMap[g][hoContext[g].ran] = NoUe

Messages == Single /\ Counted
Progress == Addressed /\ Answered /\ Prepared
IInv     == TypeOK /\ Messages /\ Progress /\ Fresh /\ ServedOnce

(***************************************************************************)
(* Constants and queues.                                                   *)
(***************************************************************************)
\* The numbers of UEs and of identifiers.
LEMMA Sizes ==
    /\ Cardinality(Ues) \in Nat /\ MaxHops \in Nat /\ Usable \in Nat /\ Usable > 0
    /\ Source \in Gnbs /\ Ues # {} /\ NoUe \notin Ues
    /\ Ids = 1..(Cardinality(Ues) + MaxHops) /\ 1..Cardinality(Ues) \subseteq Ids
    /\ 0 \notin Ids
  BY FS_CardinalityType, HandoverAssumption, NoUeAssumption DEF Ids

\* The stream of an identifier is one of the usable ones.
LEMMA StreamInRange ==
    ASSUME NEW id \in Nat
    PROVE  StreamForUe(id) \in Streams
  BY Sizes DEF StreamForUe, Streams

\* What is taken from a queue.
LEMMA TakeOne ==
    ASSUME NEW S, NEW f \in [Channels -> Seq(S)], NEW c \in Channels, f[c] # <<>>,
           NEW g, g = [f EXCEPT ![c] = Tail(@)]
    PROVE  /\ g \in [Channels -> Seq(S)] /\ \A d \in Channels : d # c => g[d] = f[d]
           /\ Len(f[c]) \in Nat /\ Len(f[c]) > 0 /\ Len(g[c]) = Len(f[c]) - 1
           /\ \A i \in 1..Len(g[c]) : g[c][i] = f[c][i + 1]
           /\ Head(f[c]) = f[c][1] /\ f[c][1] \in S
  <1>1. f[c] \in Seq(S)
    OBVIOUS
  <1>2. /\ Tail(f[c]) \in Seq(S) /\ Len(Tail(f[c])) = Len(f[c]) - 1 /\ Len(f[c]) > 0
        /\ Len(f[c]) \in Nat
        /\ \A i \in 1..Len(Tail(f[c])) : Tail(f[c])[i] = f[c][i + 1]
    BY <1>1
  <1>3. g[c] = Tail(f[c]) /\ \A d \in Channels : d # c => g[d] = f[d]
    OBVIOUS
  <1>4. g \in [Channels -> Seq(S)]
    BY <1>2
  <1> QED BY <1>1, <1>2, <1>3, <1>4

\* What is put at the end of a queue.
LEMMA PutOne ==
    ASSUME NEW S, NEW f \in [Channels -> Seq(S)], NEW c \in Channels, NEW m \in S,
           NEW g, g = [f EXCEPT ![c] = Append(@, m)]
    PROVE  /\ g \in [Channels -> Seq(S)] /\ \A d \in Channels : d # c => g[d] = f[d]
           /\ Len(f[c]) \in Nat /\ Len(g[c]) = Len(f[c]) + 1
           /\ \A i \in 1..Len(f[c]) : g[c][i] = f[c][i]
           /\ g[c][Len(f[c]) + 1] = m
  <1>1. f[c] \in Seq(S)
    OBVIOUS
  <1>2. /\ Append(f[c], m) \in Seq(S) /\ Len(Append(f[c], m)) = Len(f[c]) + 1
        /\ Len(f[c]) \in Nat
        /\ \A i \in 1..Len(f[c]) : Append(f[c], m)[i] = f[c][i]
        /\ Append(f[c], m)[Len(f[c]) + 1] = m
    BY <1>1
  <1>3. g[c] = Append(f[c], m) /\ \A d \in Channels : d # c => g[d] = f[d]
    OBVIOUS
  <1>4. g \in [Channels -> Seq(S)]
    BY <1>2
  <1> QED BY <1>1, <1>2, <1>3, <1>4

(***************************************************************************)
(* The message of the handover.                                            *)
(***************************************************************************)
\* The queues g carry the same messages of a handover as f.
Same(f, g) ==
    /\ \A c \in Channels : \A i \in ChaseIn(g, c) : \E j \in ChaseIn(f, c) : g[c][i] = f[c][j]
    /\ \A c \in Channels : \A j \in ChaseIn(f, c) : \E i \in ChaseIn(g, c) : g[c][i] = f[c][j]
    /\ Unique(f) => Unique(g)

\* The queues g carry the message m on channel c, and no other of a handover.
One(g, c, m) ==
    /\ \E i \in ChaseIn(g, c) : g[c][i] = m
    /\ \A d \in Channels : \A i \in ChaseIn(g, d) : d = c /\ g[d][i] = m
    /\ Unique(g)

\* A message of no handover is taken.
LEMMA TakeOther ==
    ASSUME NEW S, NEW f \in [Channels -> Seq(S)], NEW c \in Channels, f[c] # <<>>,
           NEW g, g = [f EXCEPT ![c] = Tail(@)], f[c][1].type \notin Chase
    PROVE  Same(f, g)
  <1>1. /\ g \in [Channels -> Seq(S)] /\ \A d \in Channels : d # c => g[d] = f[d]
        /\ Len(f[c]) \in Nat /\ Len(f[c]) > 0 /\ Len(g[c]) = Len(f[c]) - 1
        /\ \A i \in 1..Len(g[c]) : g[c][i] = f[c][i + 1]
    BY TakeOne
  <1>2. \A d \in Channels : d # c => ChaseIn(g, d) = ChaseIn(f, d)
    BY <1>1 DEF ChaseIn
  <1>3. \A i \in ChaseIn(g, c) : i \in Int /\ i + 1 \in ChaseIn(f, c) /\ g[c][i] = f[c][i + 1]
    BY <1>1 DEF ChaseIn
  <1>4. ASSUME NEW j \in ChaseIn(f, c)
        PROVE  j \in Int /\ j - 1 \in ChaseIn(g, c) /\ g[c][j - 1] = f[c][j]
    <2>1. j \in 1..Len(f[c]) /\ f[c][j].type \in Chase /\ j # 1
      BY DEF ChaseIn
    <2>2. j - 1 \in 1..Len(g[c]) /\ (j - 1) + 1 = j
      BY <1>1, <2>1
    <2>3. g[c][j - 1] = f[c][j]
      BY <1>1, <2>2
    <2> QED BY <2>1, <2>2, <2>3 DEF ChaseIn
  <1>5. ASSUME NEW d \in Channels, NEW i \in ChaseIn(g, d)
        PROVE  \E j \in ChaseIn(f, d) : g[d][i] = f[d][j]
    <2>1. CASE d = c
      BY <1>3, <1>5, <2>1
    <2>2. CASE d # c
      <3>1. i \in ChaseIn(f, d) /\ g[d] = f[d]
        BY <1>1, <1>2, <1>5, <2>2
      <3> QED BY <3>1
    <2> QED BY <2>1, <2>2
  <1>6. ASSUME NEW d \in Channels, NEW j \in ChaseIn(f, d)
        PROVE  \E i \in ChaseIn(g, d) : g[d][i] = f[d][j]
    <2>1. CASE d = c
      BY <1>4, <1>6, <2>1
    <2>2. CASE d # c
      <3>1. j \in ChaseIn(g, d) /\ g[d] = f[d]
        BY <1>1, <1>2, <1>6, <2>2
      <3> QED BY <3>1
    <2> QED BY <2>1, <2>2
  <1>7. ASSUME Unique(f), NEW d \in Channels, NEW e \in Channels, NEW i \in ChaseIn(g, d),
               NEW j \in ChaseIn(g, e)
        PROVE  d = e /\ i = j
    <2>1. CASE d # c /\ e # c
      BY <1>2, <1>7, <2>1 DEF Unique
    <2>2. CASE d = c /\ e # c
      <3>1. i + 1 \in ChaseIn(f, c) /\ j \in ChaseIn(f, e)
        BY <1>2, <1>3, <1>7, <2>2
      <3> QED BY <1>7, <2>2, <3>1 DEF Unique
    <2>3. CASE d # c /\ e = c
      <3>1. j + 1 \in ChaseIn(f, c) /\ i \in ChaseIn(f, d)
        BY <1>2, <1>3, <1>7, <2>3
      <3> QED BY <1>7, <2>3, <3>1 DEF Unique
    <2>4. CASE d = c /\ e = c
      <3>1. i + 1 \in ChaseIn(f, c) /\ j + 1 \in ChaseIn(f, c) /\ i \in Int /\ j \in Int
        BY <1>3, <1>7, <2>4
      <3>2. i + 1 = j + 1
        BY <1>7, <3>1 DEF Unique
      <3> QED BY <2>4, <3>1, <3>2
    <2> QED BY <2>1, <2>2, <2>3, <2>4
  <1>8. Unique(f) => Unique(g)
    BY <1>7 DEF Unique
  <1> QED BY <1>5, <1>6, <1>8 DEF Same

\* The message of the handover is taken.
LEMMA TakeChase ==
    ASSUME NEW S, NEW f \in [Channels -> Seq(S)], NEW c \in Channels, f[c] # <<>>,
           NEW g, g = [f EXCEPT ![c] = Tail(@)], f[c][1].type \in Chase, Unique(f)
    PROVE  None(g) /\ ~None(f)
  <1>1. /\ \A d \in Channels : d # c => g[d] = f[d]
        /\ Len(f[c]) \in Nat /\ Len(f[c]) > 0 /\ Len(g[c]) = Len(f[c]) - 1
        /\ \A i \in 1..Len(g[c]) : g[c][i] = f[c][i + 1]
    BY TakeOne
  <1>2. 1 \in ChaseIn(f, c)
    BY <1>1 DEF ChaseIn
  <1>3. \A d \in Channels : d # c => ChaseIn(g, d) = {}
    BY <1>1, <1>2 DEF ChaseIn, Unique
  <1>4. ASSUME NEW i \in ChaseIn(g, c) PROVE FALSE
    <2>1. i \in 1..Len(g[c]) /\ g[c][i] = f[c][i + 1] /\ g[c][i].type \in Chase
      BY <1>1 DEF ChaseIn
    <2>2. i + 1 \in ChaseIn(f, c) /\ i + 1 # 1
      BY <1>1, <2>1 DEF ChaseIn
    <2> QED BY <1>2, <2>2 DEF Unique
  <1> QED BY <1>2, <1>3, <1>4 DEF None

\* A message of no handover is put.
LEMMA PutOther ==
    ASSUME NEW S, NEW f \in [Channels -> Seq(S)], NEW c \in Channels, NEW m \in S,
           NEW g, g = [f EXCEPT ![c] = Append(@, m)], m.type \notin Chase
    PROVE  Same(f, g)
  <1>1. /\ g \in [Channels -> Seq(S)] /\ \A d \in Channels : d # c => g[d] = f[d]
        /\ Len(f[c]) \in Nat /\ Len(g[c]) = Len(f[c]) + 1
        /\ \A i \in 1..Len(f[c]) : g[c][i] = f[c][i]
        /\ g[c][Len(f[c]) + 1] = m
    BY PutOne
  <1>2. \A d \in Channels : ChaseIn(g, d) = ChaseIn(f, d)
    <2>1. \A i \in 1..Len(g[c]) : i \in 1..Len(f[c]) \/ i = Len(f[c]) + 1
      BY <1>1
    <2>2. ChaseIn(g, c) = ChaseIn(f, c)
      BY <1>1, <2>1 DEF ChaseIn
    <2> QED BY <1>1, <2>2 DEF ChaseIn
  <1>3. \A d \in Channels : \A i \in ChaseIn(f, d) : g[d][i] = f[d][i]
    BY <1>1 DEF ChaseIn
  <1>4. Unique(f) => Unique(g)
    BY <1>2 DEF Unique
  <1> QED BY <1>2, <1>3, <1>4 DEF Same

\* The message of the handover is put.
LEMMA PutChase ==
    ASSUME NEW S, NEW f \in [Channels -> Seq(S)], NEW c \in Channels, NEW m \in S,
           NEW g, g = [f EXCEPT ![c] = Append(@, m)], m.type \in Chase, None(f)
    PROVE  One(g, c, m)
  <1>1. /\ g \in [Channels -> Seq(S)] /\ \A d \in Channels : d # c => g[d] = f[d]
        /\ Len(f[c]) \in Nat /\ Len(g[c]) = Len(f[c]) + 1
        /\ \A i \in 1..Len(f[c]) : g[c][i] = f[c][i]
        /\ g[c][Len(f[c]) + 1] = m
    BY PutOne
  <1>2. Len(f[c]) + 1 \in ChaseIn(g, c)
    BY <1>1 DEF ChaseIn
  <1>3. ASSUME NEW d \in Channels, NEW i \in ChaseIn(g, d)
        PROVE  d = c /\ i = Len(f[c]) + 1 /\ g[d][i] = m
    <2>1. d = c
      BY <1>1, <1>3 DEF ChaseIn, None
    <2>2. i \in 1..Len(g[c]) /\ g[c][i].type \in Chase
      BY <1>3, <2>1 DEF ChaseIn
    <2>3. i \notin 1..Len(f[c])
      BY <1>1, <2>2 DEF ChaseIn, None
    <2>4. i = Len(f[c]) + 1
      BY <1>1, <2>2, <2>3
    <2> QED BY <1>1, <2>1, <2>4
  <1> QED BY <1>1, <1>2, <1>3 DEF One, Unique

(***************************************************************************)
(* What a step does with the message of the handover: it stays, it goes,   *)
(* or it turns into the message m of channel c.                            *)
(***************************************************************************)
Keeps ==
    /\ Single' /\ (Asking' <=> Asking) /\ (NoChase => NoChase')
    /\ \A c \in Channels : \A i \in ChaseIn(up', c) :
          \E j \in ChaseIn(up, c) : up'[c][i] = up[c][j]
    /\ \A c \in Channels : \A i \in ChaseIn(down', c) :
          \E j \in ChaseIn(down, c) : down'[c][i] = down[c][j]
Ends            == None(up') /\ None(down')
SendsUp(c, m)   == One(up', c, m) /\ None(down')
SendsDown(c, m) == One(down', c, m) /\ None(up')

\* A queue that does not change.
LEMMA SameSelf == \A f : Same(f, f)
  BY DEF Same

\* Queues with the same messages of the handover.
LEMMA KeepsSame ==
    ASSUME Single, Same(up, up'), Same(down, down')
    PROVE  Keeps
  <1>1. /\ \A c \in Channels : \A i \in ChaseIn(up', c) :
              \E j \in ChaseIn(up, c) : up'[c][i] = up[c][j]
        /\ \A c \in Channels : \A j \in ChaseIn(up, c) :
              \E i \in ChaseIn(up', c) : up'[c][i] = up[c][j]
        /\ Unique(up) => Unique(up')
    BY DEF Same
  <1>2. /\ \A c \in Channels : \A i \in ChaseIn(down', c) :
              \E j \in ChaseIn(down, c) : down'[c][i] = down[c][j]
        /\ \A c \in Channels : \A j \in ChaseIn(down, c) :
              \E i \in ChaseIn(down', c) : down'[c][i] = down[c][j]
        /\ Unique(down) => Unique(down')
    BY DEF Same
  <1>3. (None(up) => None(up')) /\ (None(down) => None(down'))
    BY <1>1, <1>2 DEF None
  <1>4. Unique(up') /\ Unique(down') /\ (None(up') \/ None(down'))
    BY <1>1, <1>2, <1>3 DEF Single
  <1>5. Single' /\ (NoChase => NoChase')
    BY <1>3, <1>4 DEF Single, NoChase, Unique, None, ChaseIn
  <1>6. Asking' <=>
           \/ \E c \in Channels : \E i \in ChaseIn(up', c) : up'[c][i].type = "Required"
           \/ \E c \in Channels : \E i \in ChaseIn(down', c) : down'[c][i].type = "Request"
    BY DEF Asking, ChaseIn
  <1>7. Asking' <=> Asking
    BY <1>1, <1>2, <1>6 DEF Asking
  <1> QED BY <1>1, <1>2, <1>5, <1>7 DEF Keeps

\* The message is gone.
LEMMA EndsAll ==
    ASSUME Ends
    PROVE  Single' /\ ~Asking' /\ NoChase'
  <1>1. \A c \in Channels : ChaseIn(up', c) = {} /\ ChaseIn(down', c) = {}
    BY DEF Ends, None
  <1> QED BY <1>1 DEF Single, Asking, NoChase, None, Unique, ChaseIn

\* The message is now m, on its way up.
LEMMA SentUp ==
    ASSUME NEW c \in Channels, NEW m, SendsUp(c, m)
    PROVE  /\ Single' /\ (Asking' <=> m.type = "Required")
           /\ \A d \in Channels : \A i \in ChaseIn(up', d) : d = c /\ up'[d][i] = m
           /\ \A d \in Channels : ChaseIn(down', d) = {}
  <1>1. /\ \E i \in ChaseIn(up', c) : up'[c][i] = m
        /\ \A d \in Channels : \A i \in ChaseIn(up', d) : d = c /\ up'[d][i] = m
        /\ \A d \in Channels : ChaseIn(down', d) = {}
        /\ Unique(up')
    BY DEF SendsUp, One, None
  <1>2. Asking' <=>
           \/ \E d \in Channels : \E i \in ChaseIn(up', d) : up'[d][i].type = "Required"
           \/ \E d \in Channels : \E i \in ChaseIn(down', d) : down'[d][i].type = "Request"
    BY DEF Asking, ChaseIn
  <1>3. Unique(down') /\ None(down')
    BY <1>1 DEF Unique, None
  <1>4. Single'
    BY <1>1, <1>3 DEF Single, None, Unique, ChaseIn
  <1> QED BY <1>1, <1>2, <1>4

\* The message is now m, on its way down.
LEMMA SentDown ==
    ASSUME NEW c \in Channels, NEW m, SendsDown(c, m)
    PROVE  /\ Single' /\ (Asking' <=> m.type = "Request")
           /\ \A d \in Channels : \A i \in ChaseIn(down', d) : d = c /\ down'[d][i] = m
           /\ \A d \in Channels : ChaseIn(up', d) = {}
  <1>1. /\ \E i \in ChaseIn(down', c) : down'[c][i] = m
        /\ \A d \in Channels : \A i \in ChaseIn(down', d) : d = c /\ down'[d][i] = m
        /\ \A d \in Channels : ChaseIn(up', d) = {}
        /\ Unique(down')
    BY DEF SendsDown, One, None
  <1>2. Asking' <=>
           \/ \E d \in Channels : \E i \in ChaseIn(up', d) : up'[d][i].type = "Required"
           \/ \E d \in Channels : \E i \in ChaseIn(down', d) : down'[d][i].type = "Request"
    BY DEF Asking, ChaseIn
  <1>3. Unique(up') /\ None(up')
    BY <1>1 DEF Unique, None
  <1>4. Single'
    BY <1>1, <1>3 DEF Single, None, Unique, ChaseIn
  <1> QED BY <1>1, <1>2, <1>4

\* The messages and their fields.
LEMMA MessageTypes ==
    /\ \A u \in Ues, t \in Gnbs : [type |-> "Required", ue |-> u, target |-> t] \in Uplink
    /\ \A u \in Ues, t \in {"Ack", "Failure", "Notify", "Cancel"} : [type |-> t, ue |-> u] \in Uplink
    /\ \A u \in Ues : [type |-> "Request", ue |-> u] \in Downlink
    /\ \A t \in {"Command", "PrepFailure", "CancelAck"} : [type |-> t] \in Downlink
    /\ \A m \in Uplink : /\ m.type \in {"Required", "Ack", "Failure", "Notify", "Cancel"}
                         /\ m.ue \in Ues
                         /\ m.type = "Required" => m.target \in Gnbs
    /\ \A m \in Downlink : /\ m.type \in {"Request", "Command", "PrepFailure", "CancelAck"}
                           /\ m.type = "Request" => m.ue \in Ues
  BY DEF Uplink, Downlink

\* A message of the handover at the head of a queue is the only one.
LEMMA HeadUp ==
    ASSUME TypeOK, Single, NEW c \in Channels, up[c] # <<>>, up[c][1].type \in Chase
    PROVE  /\ None(down) /\ ~NoChase /\ 1 \in ChaseIn(up, c)
           /\ Asking <=> up[c][1].type = "Required"
  <1>1. up[c] \in Seq(Uplink)
    BY DEF TypeOK
  <1>2. 1 \in ChaseIn(up, c)
    BY <1>1 DEF ChaseIn
  <1>3. ~None(up) /\ None(down)
    BY <1>2 DEF None, Single
  <1>4. \A d \in Channels : ChaseIn(down, d) = {}
    BY <1>3 DEF None
  <1>5. \A d \in Channels : \A i \in ChaseIn(up, d) : d = c /\ i = 1
    BY <1>2 DEF Single, Unique
  <1> QED BY <1>2, <1>3, <1>4, <1>5 DEF Asking, NoChase

\* The same of the other direction.
LEMMA HeadDown ==
    ASSUME TypeOK, Single, NEW c \in Channels, down[c] # <<>>, down[c][1].type \in Chase
    PROVE  /\ None(up) /\ ~NoChase /\ 1 \in ChaseIn(down, c)
           /\ Asking <=> down[c][1].type = "Request"
  <1>1. down[c] \in Seq(Downlink)
    BY DEF TypeOK
  <1>2. 1 \in ChaseIn(down, c)
    BY <1>1 DEF ChaseIn
  <1>3. ~None(down) /\ None(up)
    BY <1>2 DEF None, Single
  <1>4. \A d \in Channels : ChaseIn(up, d) = {}
    BY <1>3 DEF None
  <1>5. \A d \in Channels : \A i \in ChaseIn(down, d) : d = c /\ i = 1
    BY <1>2 DEF Single, Unique
  <1> QED BY <1>2, <1>3, <1>4, <1>5 DEF Asking, NoChase

\* No message, no request.
LEMMA NothingAsked == NoChase => ~Asking
  BY DEF NoChase, None, Asking

\* The test thread goes on.
LEMMA Goes ==
    ASSUME TypeOK, NEW p \in {"idle", "wait", "execute", "notify", "failed", "cancel", "over"},
           GoTo(p)
    PROVE  /\ test'.pc = p /\ test'.ue = test.ue /\ test'.src = test.src /\ test'.tgt = test.tgt
           /\ test' \in [pc : {"idle", "wait", "execute", "notify", "failed", "cancel", "over"},
                         ue : Ues, src : Gnbs, tgt : Gnbs]
  BY DEF GoTo, TypeOK

\* The test's gNBs and UE.
LEMMA TestFields ==
    ASSUME TypeOK
    PROVE  /\ test.ue \in Ues /\ test.src \in Gnbs /\ test.tgt \in Gnbs
           /\ test.pc \in {"idle", "wait", "execute", "notify", "failed", "cancel", "over"}
           /\ \A g \in Gnbs : hoContext[g] # NoContext => hoContext[g].ue \in Ues /\ hoContext[g].ran \in Ids
  BY DEF TypeOK

\* A channel of a gNB.
LEMMA ChannelOf ==
    ASSUME NEW g \in Gnbs, NEW s \in Streams
    PROVE  <<g, s>> \in Channels /\ <<g, s>>[1] = g
  BY DEF Channels

\* What a gNB sends up.
LEMMA PutUp ==
    ASSUME TypeOK, NEW g \in Gnbs, NEW id \in Ids, NEW m \in Uplink, SendUp(g, id, m)
    PROVE  /\ up' \in [Channels -> Seq(Uplink)]
           /\ m.type \notin Chase => Same(up, up')
           /\ m.type \in Chase /\ None(up) =>
                 \E c \in Channels : c[1] = g /\ One(up', c, m)
  <1>1. StreamForUe(id) \in Streams
    BY Sizes, StreamInRange
  <1>2. PICK c \in Channels : c = <<g, StreamForUe(id)>> /\ c[1] = g
    BY <1>1, ChannelOf
  <1>3. PICK f : f = up'
    OBVIOUS
  <1>4. f = [up EXCEPT ![c] = Append(@, m)] /\ up \in [Channels -> Seq(Uplink)]
    BY <1>2, <1>3 DEF SendUp, TypeOK
  <1>5. /\ f \in [Channels -> Seq(Uplink)]
        /\ m.type \notin Chase => Same(up, f)
        /\ m.type \in Chase /\ None(up) => One(f, c, m)
    <2>1. f \in [Channels -> Seq(Uplink)]
      BY <1>4, PutOne
    <2>2. m.type \notin Chase => Same(up, f)
      BY <1>4, PutOther
    <2>3. m.type \in Chase /\ None(up) => One(f, c, m)
      BY <1>4, PutChase
    <2> QED BY <2>1, <2>2, <2>3
  <1> QED BY <1>2, <1>3, <1>5

\* What the AMF sends down.
LEMMA PutDown ==
    ASSUME TypeOK, NEW c \in Channels, NEW m \in Downlink, SendDown(c, m)
    PROVE  /\ down' \in [Channels -> Seq(Downlink)]
           /\ m.type \notin Chase => Same(down, down')
           /\ m.type \in Chase /\ None(down) => One(down', c, m)
  <1>1. PICK f : f = down'
    OBVIOUS
  <1>2. f = [down EXCEPT ![c] = Append(@, m)] /\ down \in [Channels -> Seq(Downlink)]
    BY <1>1 DEF SendDown, TypeOK
  <1>3. f \in [Channels -> Seq(Downlink)]
    BY <1>2, PutOne
  <1>4. m.type \notin Chase => Same(down, f)
    BY <1>2, PutOther
  <1>5. m.type \in Chase /\ None(down) => One(f, c, m)
    BY <1>2, PutChase
  <1> QED BY <1>1, <1>3, <1>4, <1>5

\* What a gNB takes from the AMF.
LEMMA TakenDown ==
    ASSUME TypeOK, Single, NEW g \in Gnbs, NEW s \in Streams, NEW t, Receives(g, s, t)
    PROVE  /\ down' \in [Channels -> Seq(Downlink)]
           /\ down[<<g, s>>] # <<>> /\ Head(down[<<g, s>>]) = down[<<g, s>>][1]
           /\ down[<<g, s>>][1] \in Downlink /\ down[<<g, s>>][1].type = t
           /\ t \notin Chase => Same(down, down')
           /\ t \in Chase => None(down')
           /\ UNCHANGED <<serving, ran, teid, ueMap, tunnels, test, hops, refuses, worker, sessions>>
  <1>1. PICK c \in Channels : c = <<g, s>>
    BY ChannelOf
  <1>2. PICK f : f = down'
    OBVIOUS
  <1>3. /\ f = [down EXCEPT ![c] = Tail(@)] /\ down \in [Channels -> Seq(Downlink)]
        /\ down[c] # <<>> /\ Head(down[c]).type = t
    BY <1>1, <1>2 DEF Receives, TypeOK
  <1>4. /\ f \in [Channels -> Seq(Downlink)] /\ Head(down[c]) = down[c][1] /\ down[c][1] \in Downlink
    BY <1>3, TakeOne
  <1>5. t \notin Chase => Same(down, f)
    BY <1>3, <1>4, TakeOther
  <1>6. t \in Chase => None(f)
    BY <1>3, <1>4, TakeChase DEF Single
  <1> QED BY <1>1, <1>2, <1>3, <1>4, <1>5, <1>6 DEF Receives, ueV, testV, amfV

\* What a worker of the AMF takes.
LEMMA TakenUp ==
    ASSUME TypeOK, Single, NEW g \in Gnbs, NEW s \in Streams, NEW t, Dispatches(g, s, t)
    PROVE  /\ up' \in [Channels -> Seq(Uplink)]
           /\ up[<<g, s>>] # <<>> /\ Head(up[<<g, s>>]) = up[<<g, s>>][1]
           /\ up[<<g, s>>][1] \in Uplink /\ up[<<g, s>>][1].type = t
           /\ t \notin Chase => Same(up, up')
           /\ t \in Chase => None(up')
           /\ UNCHANGED <<ueV, srcV, tgtV, testV>>
  <1>1. PICK c \in Channels : c = <<g, s>>
    BY ChannelOf
  <1>2. PICK f : f = up'
    OBVIOUS
  <1>3. /\ f = [up EXCEPT ![c] = Tail(@)] /\ up \in [Channels -> Seq(Uplink)]
        /\ up[c] # <<>> /\ Head(up[c]).type = t
    BY <1>1, <1>2 DEF Dispatches, TypeOK
  <1>4. /\ f \in [Channels -> Seq(Uplink)] /\ Head(up[c]) = up[c][1] /\ up[c][1] \in Uplink
    BY <1>3, TakeOne
  <1>5. t \notin Chase => Same(up, f)
    BY <1>3, <1>4, TakeOther
  <1>6. t \in Chase => None(f)
    BY <1>3, <1>4, TakeChase DEF Single
  <1> QED BY <1>1, <1>2, <1>3, <1>4, <1>5, <1>6 DEF Dispatches

(***************************************************************************)
(* Steps that leave the UEs, the counters and the test alone.              *)
(***************************************************************************)
\* What message m of channel c may say to the test.
Honest(c, m) ==
    test.pc = "wait" =>
        /\ m.type = "Required" => m.ue = test.ue /\ m.target = test.tgt
        /\ m.type = "Request" => m.ue = test.ue /\ c[1] = test.tgt
        /\ m.type \in {"Ack", "Command"} => ~refuses[test.tgt]
        /\ m.type \in {"Failure", "PrepFailure"} => refuses[test.tgt]

\* A message under way is honest.
LEMMA HonestUp ==
    ASSUME Addressed, NEW c \in Channels, NEW i \in ChaseIn(up, c), up[c][i] \in Uplink
    PROVE  Honest(c, up[c][i])
  <1>1. up[c][i].type \in {"Required", "Ack", "Failure", "Notify", "Cancel"}
    BY MessageTypes
  <1> QED BY <1>1 DEF Addressed, Honest

\* The same of the other direction.
LEMMA HonestDown ==
    ASSUME Addressed, NEW c \in Channels, NEW i \in ChaseIn(down, c), down[c][i] \in Downlink
    PROVE  Honest(c, down[c][i])
  <1>1. down[c][i].type \in {"Request", "Command", "PrepFailure", "CancelAck"}
    BY MessageTypes
  <1> QED BY <1>1 DEF Addressed, Honest

\* The invariants are preserved.
LEMMA Relayed ==
    ASSUME TypeOK, Messages, Progress, Fresh, ServedOnce,
           UNCHANGED <<serving, ran, ueMap, ranCounter, teidCounter, hoContext, test, hops,
                       refuses, command, prepFailure>>,
           \/ Keeps
           \/ Ends /\ ~Asking
           \/ /\ ~NoChase
              /\ \E c \in Channels : \E m \in Downlink :
                    SendsDown(c, m) /\ (Asking <=> m.type = "Request") /\ Honest(c, m)
    PROVE  Messages' /\ Progress' /\ Fresh' /\ ServedOnce'
  <1>1. Fresh' /\ ServedOnce'
    BY DEF Fresh, ServedOnce
  <1>2. /\ Single' /\ (Asking' <=> Asking) /\ (NoChase => NoChase')
    <2>1. CASE Keeps
      BY <2>1 DEF Keeps
    <2>2. CASE Ends /\ ~Asking
      BY <2>2, EndsAll
    <2>3. ASSUME ~NoChase, NEW c \in Channels, NEW m \in Downlink, SendsDown(c, m),
                 Asking <=> m.type = "Request"
          PROVE  /\ Single' /\ (Asking' <=> Asking) /\ (NoChase => NoChase')
      BY <2>3, SentDown
    <2> QED BY <2>1, <2>2, <2>3
  <1>3. Counted'
    BY <1>2 DEF Messages, Counted
  <1>4. Answered' /\ Prepared'
    BY <1>2 DEF Progress, Answered, Prepared
  <1>5. /\ test.pc = "wait" =>
           /\ \A c \in Channels : \A i \in ChaseIn(up', c) :
                 /\ up'[c][i].type = "Required" => up'[c][i].ue = test.ue /\ up'[c][i].target = test.tgt
                 /\ up'[c][i].type = "Ack" => ~refuses[test.tgt]
                 /\ up'[c][i].type = "Failure" => refuses[test.tgt]
           /\ \A c \in Channels : \A i \in ChaseIn(down', c) :
                 /\ down'[c][i].type = "Request" => down'[c][i].ue = test.ue /\ c[1] = test.tgt
                 /\ down'[c][i].type = "Command" => ~refuses[test.tgt]
                 /\ down'[c][i].type = "PrepFailure" => refuses[test.tgt]
    <2>1. CASE Keeps
      BY <2>1 DEF Keeps, Progress, Addressed
    <2>2. CASE Ends
      BY <2>2 DEF Ends, None
    <2>3. ASSUME NEW c \in Channels, NEW m \in Downlink, SendsDown(c, m), Honest(c, m),
                 test.pc = "wait"
          PROVE  /\ \A d \in Channels : ChaseIn(up', d) = {}
                 /\ \A d \in Channels : \A i \in ChaseIn(down', d) :
                       /\ down'[d][i].type = "Request" => down'[d][i].ue = test.ue /\ d[1] = test.tgt
                       /\ down'[d][i].type = "Command" => ~refuses[test.tgt]
                       /\ down'[d][i].type = "PrepFailure" => refuses[test.tgt]
      <3>1. /\ \A d \in Channels : \A i \in ChaseIn(down', d) : d = c /\ down'[d][i] = m
            /\ \A d \in Channels : ChaseIn(up', d) = {}
        BY <2>3, SentDown
      <3>2. /\ m.type = "Request" => m.ue = test.ue /\ c[1] = test.tgt
            /\ m.type = "Command" => ~refuses[test.tgt]
            /\ m.type = "PrepFailure" => refuses[test.tgt]
        BY <2>3 DEF Honest
      <3> QED BY <3>1, <3>2
    <2> QED BY <2>1, <2>2, <2>3
  <1>6. Addressed'
    BY <1>5 DEF Addressed, ChaseIn
  <1> QED BY <1>1, <1>2, <1>3, <1>4, <1>6 DEF Messages, Progress

(***************************************************************************)
(* The AMF.                                                                *)
(***************************************************************************)
\* The sessions a worker finds, and what it may do to them.
LEMMA SessionTypes ==
    ASSUME TypeOK, NEW g \in Gnbs, NEW s \in Streams
    PROVE  /\ Matching(g, s) \subseteq {k \in Channels : sessions[k] # NoSession}
           /\ \A k \in Channels : Forget(k) => sessions' \in [Channels -> Sessions]
           /\ \A k \in Channels : sessions[k] # NoSession /\ sessions' = [sessions EXCEPT ![k].tstream = s]
                 => sessions' \in [Channels -> Sessions]
  <1>1. Matching(g, s) \subseteq {k \in Channels : sessions[k] # NoSession}
    BY DEF Matching
  <1>2. \A k \in Channels : Forget(k) => sessions' \in [Channels -> Sessions]
    BY DEF Forget, TypeOK, Sessions
  <1>3. ASSUME NEW k \in Channels, sessions[k] # NoSession, sessions' = [sessions EXCEPT ![k].tstream = s]
        PROVE  sessions' \in [Channels -> Sessions]
    <2> DEFINE r == [sessions[k] EXCEPT !.tstream = s]
    <2>1. sessions[k] \in [source : Gnbs, target : Gnbs, tstream : Streams]
      BY <1>3 DEF TypeOK, Sessions
    <2>2. r \in Sessions
      BY <2>1 DEF Sessions
    <2>3. sessions' = [sessions EXCEPT ![k] = r]
      BY <1>3, Zenon
    <2> HIDE DEF r
    <2> QED BY <2>2, <2>3 DEF TypeOK
  <1> QED BY <1>1, <1>2, <1>3

\* The types after a step of the AMF.
LEMMA TypeAmf ==
    ASSUME TypeOK, UNCHANGED <<ueV, srcV, tgtV, testV>>,
           up' \in [Channels -> Seq(Uplink)], down' \in [Channels -> Seq(Downlink)],
           worker' \in [Channels -> Sessions], sessions' \in [Channels -> Sessions]
    PROVE  /\ TypeOK'
           /\ UNCHANGED <<serving, ran, ueMap, ranCounter, teidCounter, hoContext, test, hops,
                          refuses, command, prepFailure>>
  BY DEF TypeOK, ueV, srcV, tgtV, testV

\* The AMF relays the request and remembers the session.
LEMMA InvariantPrepare ==
    ASSUME IInv, NEW g \in Gnbs, NEW s \in Streams, Prepare(g, s) \/ RememberSession(g, s)
    PROVE  IInv'
  <1> USE DEF IInv, Messages
  <1>1. <<g, s>> \in Channels
    BY ChannelOf
  <1>2. CASE Prepare(g, s)
    <2>1. PICK m : m = up[<<g, s>>][1]
      OBVIOUS
    <2>2. /\ up' \in [Channels -> Seq(Uplink)] /\ up[<<g, s>>] # <<>>
          /\ Head(up[<<g, s>>]) = m /\ m \in Uplink /\ m.type = "Required" /\ None(up')
          /\ UNCHANGED <<ueV, srcV, tgtV, testV>>
      BY <1>2, <2>1, TakenUp DEF Prepare, Chase
    <2>3. /\ None(down) /\ ~NoChase /\ 1 \in ChaseIn(up, <<g, s>>) /\ Asking
      BY <1>1, <2>1, <2>2, HeadUp DEF Chase
    <2>4. m.ue \in Ues /\ m.target \in Gnbs
      BY <2>2, MessageTypes
    <2>5. PICK c \in Channels : c = <<m.target, s>> /\ c[1] = m.target
      BY <2>4, ChannelOf
    <2>6. PICK r \in Downlink : r = [type |-> "Request", ue |-> m.ue]
      BY <2>4, MessageTypes
    <2>7. SendDown(c, r)
      BY <1>2, <2>2, <2>5, <2>6 DEF Prepare
    <2>8. down' \in [Channels -> Seq(Downlink)] /\ One(down', c, r)
      BY <2>3, <2>6, <2>7, PutDown DEF Chase
    <2>9. Honest(<<g, s>>, m)
      BY <1>1, <2>1, <2>2, <2>3, HonestUp DEF Progress
    <2>10. Honest(c, r)
      BY <2>2, <2>5, <2>6, <2>9 DEF Honest
    <2>11. worker' \in [Channels -> Sessions] /\ sessions' \in [Channels -> Sessions]
      BY <1>1, <1>2, <2>2, <2>4 DEF Prepare, TypeOK, Sessions
    <2>12. TypeOK' /\ UNCHANGED <<serving, ran, ueMap, ranCounter, teidCounter, hoContext, test,
                                  hops, refuses, command, prepFailure>>
      BY <2>2, <2>8, <2>11, TypeAmf
    <2>13. SendsDown(c, r) /\ r.type = "Request"
      BY <2>2, <2>6, <2>8 DEF SendsDown
    <2> QED BY <2>3, <2>10, <2>12, <2>13, Relayed
  <1>3. CASE RememberSession(g, s)
    <2>1. /\ worker' \in [Channels -> Sessions] /\ sessions' \in [Channels -> Sessions]
          /\ up' = up /\ down' = down /\ UNCHANGED <<ueV, srcV, tgtV, testV>>
      BY <1>1, <1>3 DEF RememberSession, TypeOK, Sessions
    <2>2. TypeOK' /\ UNCHANGED <<serving, ran, ueMap, ranCounter, teidCounter, hoContext, test,
                                  hops, refuses, command, prepFailure>>
      BY <2>1, TypeAmf DEF TypeOK
    <2>3. Keeps
      BY <2>1, SameSelf, KeepsSame
    <2> QED BY <2>2, <2>3, Relayed
  <1> QED BY <1>2, <1>3

\* The AMF relays the answer of the target to some source, or drops it.
LEMMA InvariantAnswer ==
    ASSUME IInv, NEW g \in Gnbs, NEW s \in Streams, AllocationAck(g, s) \/ AllocationFailure(g, s)
    PROVE  IInv'
  <1> USE DEF IInv, Messages
  <1>1. <<g, s>> \in Channels
    BY ChannelOf
  <1>2. PICK m : m = up[<<g, s>>][1]
    OBVIOUS
  <1>3. PICK t \in {"Command", "PrepFailure"} :
           /\ t = "Command" => AllocationAck(g, s) /\ Dispatches(g, s, "Ack")
           /\ t = "PrepFailure" => AllocationFailure(g, s) /\ Dispatches(g, s, "Failure")
    BY DEF AllocationAck, AllocationFailure
  <1>4. /\ up' \in [Channels -> Seq(Uplink)] /\ up[<<g, s>>] # <<>>
        /\ m \in Uplink /\ None(up') /\ UNCHANGED <<ueV, srcV, tgtV, testV>>
        /\ t = "Command" => m.type = "Ack"
        /\ t = "PrepFailure" => m.type = "Failure"
    BY <1>2, <1>3, TakenUp DEF Chase
  <1>5. /\ None(down) /\ ~NoChase /\ 1 \in ChaseIn(up, <<g, s>>) /\ ~Asking
    BY <1>1, <1>2, <1>4, HeadUp DEF Chase
  <1>6. Honest(<<g, s>>, m)
    BY <1>1, <1>2, <1>4, <1>5, HonestUp DEF Progress
  <1>7. PICK r \in Downlink : r = [type |-> t]
    BY MessageTypes
  <1>8. worker' = worker
    BY <1>3 DEF AllocationAck, AllocationFailure
  <1>9. CASE down' = down /\ sessions' = sessions
    <2>1. TypeOK' /\ UNCHANGED <<serving, ran, ueMap, ranCounter, teidCounter, hoContext, test,
                                  hops, refuses, command, prepFailure>>
      BY <1>4, <1>8, <1>9, TypeAmf DEF TypeOK
    <2>2. Ends
      BY <1>4, <1>5, <1>9 DEF Ends
    <2> QED BY <1>5, <2>1, <2>2, Relayed
  <1>10. ASSUME NEW k \in Channels, SendDown(k, r), sessions' \in [Channels -> Sessions]
         PROVE  IInv'
    <2>1. down' \in [Channels -> Seq(Downlink)] /\ One(down', k, r)
      BY <1>5, <1>7, <1>10, PutDown DEF Chase
    <2>2. TypeOK' /\ UNCHANGED <<serving, ran, ueMap, ranCounter, teidCounter, hoContext, test,
                                  hops, refuses, command, prepFailure>>
      BY <1>4, <1>8, <1>10, <2>1, TypeAmf DEF TypeOK
    <2>3. Honest(k, r) /\ r.type # "Request"
      BY <1>4, <1>6, <1>7 DEF Honest
    <2>4. SendsDown(k, r)
      BY <1>4, <2>1 DEF SendsDown
    <2> QED BY <1>5, <2>2, <2>3, <2>4, Relayed
  <1>11. \/ down' = down /\ sessions' = sessions
         \/ \E k \in Channels : SendDown(k, r) /\ sessions' \in [Channels -> Sessions]
    <2>1. CASE t = "Command"
      BY <1>3, <1>7, <2>1, SessionTypes DEF AllocationAck
    <2>2. CASE t = "PrepFailure"
      BY <1>3, <1>7, <2>2, SessionTypes DEF AllocationFailure
    <2> QED BY <2>1, <2>2
  <1> QED BY <1>9, <1>10, <1>11

\* The AMF takes a notification or a cancellation.
LEMMA InvariantEnd ==
    ASSUME IInv, NEW g \in Gnbs, NEW s \in Streams, Notification(g, s) \/ Cancel(g, s)
    PROVE  IInv'
  <1> USE DEF IInv, Messages
  <1>1. <<g, s>> \in Channels
    BY ChannelOf
  <1>2. up' \in [Channels -> Seq(Uplink)] /\ Same(up, up') /\ UNCHANGED <<ueV, srcV, tgtV, testV>>
    BY TakenUp DEF Notification, Cancel, Chase
  <1>3. worker' = worker /\ sessions' \in [Channels -> Sessions]
    <2>1. CASE Notification(g, s)
      BY <2>1, SessionTypes DEF Notification, TypeOK
    <2>2. CASE Cancel(g, s)
      BY <1>1, <2>2, SessionTypes DEF Cancel, TypeOK
    <2> QED BY <2>1, <2>2
  <1>4. down' \in [Channels -> Seq(Downlink)] /\ Same(down, down')
    <2>1. CASE down' = down
      BY <2>1, SameSelf DEF TypeOK
    <2>2. CASE SendDown(<<g, s>>, [type |-> "CancelAck"])
      <3>1. PICK r \in Downlink : r = [type |-> "CancelAck"]
        BY MessageTypes
      <3> QED BY <1>1, <2>2, <3>1, PutDown DEF Chase
    <2> QED BY <2>1, <2>2 DEF Notification, Cancel
  <1>5. TypeOK' /\ UNCHANGED <<serving, ran, ueMap, ranCounter, teidCounter, hoContext, test,
                               hops, refuses, command, prepFailure>>
    BY <1>2, <1>3, <1>4, TypeAmf DEF TypeOK
  <1>6. Keeps
    BY <1>2, <1>4, KeepsSame
  <1> QED BY <1>5, <1>6, Relayed

(***************************************************************************)
(* The receive threads of the gNBs.                                        *)
(***************************************************************************)
\* The target takes a new identifier for the request, and refuses it or prepares
\* a context.
LEMMA InvariantRequest ==
    ASSUME IInv, NEW g \in Gnbs, NEW s \in Streams, HandleRequest(g, s)
    PROVE  IInv'
  <1> USE DEF IInv, Messages
  <1>1. <<g, s>> \in Channels /\ <<g, s>>[1] = g
    BY ChannelOf
  <1>2. PICK m : m = down[<<g, s>>][1]
    OBVIOUS
  <1>3. /\ down' \in [Channels -> Seq(Downlink)] /\ down[<<g, s>>] # <<>>
        /\ Head(down[<<g, s>>]) = m /\ m \in Downlink /\ m.type = "Request" /\ None(down')
        /\ UNCHANGED <<serving, ran, teid, ueMap, tunnels, test, hops, refuses, worker, sessions>>
    BY <1>2, TakenDown DEF HandleRequest, Chase
  <1>4. None(up) /\ ~NoChase /\ Asking /\ 1 \in ChaseIn(down, <<g, s>>)
    BY <1>1, <1>2, <1>3, HeadDown DEF Chase
  <1>5. PICK id \in Ids : id = ranCounter[g] + 1
    <2>1. ranCounter[g] < Cardinality(Ues) + hops /\ hops \in 0..MaxHops
      BY <1>4 DEF Counted, TypeOK
    <2>2. ranCounter[g] \in Nat
      BY Sizes DEF TypeOK
    <2>3. ranCounter[g] + 1 \in 1..(Cardinality(Ues) + MaxHops)
      BY <2>1, <2>2, Sizes
    <2> QED BY <2>3, Sizes
  <1>6. PICK u \in Ues : u = m.ue
    BY <1>3, MessageTypes
  <1>7. /\ ranCounter' = [ranCounter EXCEPT ![g] = id]
        /\ teidCounter' = [teidCounter EXCEPT ![g] = id]
        /\ pending' = [pending EXCEPT ![g] = id] /\ UNCHANGED <<command, prepFailure, cancelAck>>
    BY <1>5 DEF HandleRequest, Counted, srcV
  <1>8. PICK r \in Uplink, x \in [ue : Ues, ran : Ids] \cup {NoContext} :
           /\ SendUp(g, id, r) /\ hoContext' = [hoContext EXCEPT ![g] = x]
           /\ refuses[g] => r.type = "Failure" /\ x = NoContext
           /\ ~refuses[g] => r.type = "Ack" /\ x # NoContext /\ x.ue = u /\ x.ran = id
    <2>1. CASE refuses[g]
      <3>1. PICK r \in Uplink : r = [type |-> "Failure", ue |-> u]
        BY MessageTypes
      <3> QED BY <1>3, <1>5, <1>6, <2>1, <3>1 DEF HandleRequest
    <2>2. CASE ~refuses[g]
      <3>1. PICK r \in Uplink : r = [type |-> "Ack", ue |-> u]
        BY MessageTypes
      <3>2. PICK x \in [ue : Ues, ran : Ids] : x = [ue |-> u, ran |-> id]
        OBVIOUS
      <3>3. x # NoContext /\ x.ue = u /\ x.ran = id
        BY <3>2, Sizes DEF NoContext
      <3> QED BY <1>3, <1>5, <1>6, <2>2, <3>1, <3>2, <3>3 DEF HandleRequest
    <2> QED BY <2>1, <2>2
  <1>9. PICK c \in Channels : One(up', c, r)
    BY <1>4, <1>8, PutUp DEF Chase
  <1>10. up' \in [Channels -> Seq(Uplink)]
    BY <1>8, PutUp
  <1>11. TypeOK'
    BY <1>3, <1>7, <1>8, <1>10 DEF TypeOK
  <1>12. SendsUp(c, r) /\ r.type # "Required"
    BY <1>3, <1>8, <1>9 DEF SendsUp
  <1>13. /\ Single' /\ ~Asking'
         /\ \A d \in Channels : \A i \in ChaseIn(up', d) : d = c /\ up'[d][i] = r
         /\ \A d \in Channels : ChaseIn(down', d) = {}
    BY <1>12, SentUp
  <1>14. Counted'
    <2>1. id <= Cardinality(Ues) + hops
      <3>1. ranCounter[g] < Cardinality(Ues) + hops /\ ranCounter[g] \in Nat
        BY <1>4, Sizes DEF Counted, TypeOK
      <3>2. hops \in Nat /\ Cardinality(Ues) \in Nat
        BY Sizes DEF TypeOK
      <3> QED BY <1>5, <3>1, <3>2
    <2> QED BY <1>3, <1>7, <1>13, <2>1 DEF Counted, TypeOK
  <1>15. test.pc = "wait" => g = test.tgt /\ u = test.ue
    <2>1. Honest(<<g, s>>, m)
      BY <1>1, <1>2, <1>3, <1>4, HonestDown DEF Progress
    <2> QED BY <1>1, <1>3, <1>6, <2>1 DEF Honest
  <1>16. test.pc \notin {"idle", "execute", "notify", "failed"}
    BY <1>4 DEF Progress, Prepared
  <1>17. /\ hoContext'[g] = x /\ \A h \in Gnbs : h # g => hoContext'[h] = hoContext[h]
         /\ ranCounter'[g] = id /\ \A h \in Gnbs : h # g => ranCounter'[h] = ranCounter[h]
    BY <1>7, <1>8 DEF TypeOK
  <1>18. Addressed'
    <2>1. test.pc = "wait" =>
            /\ \A d \in Channels : \A i \in ChaseIn(up', d) :
                  /\ up'[d][i].type # "Required"
                  /\ up'[d][i].type = "Ack" => ~refuses[test.tgt]
                  /\ up'[d][i].type = "Failure" => refuses[test.tgt]
            /\ \A d \in Channels : ChaseIn(down', d) = {}
      BY <1>8, <1>12, <1>13, <1>15
    <2> QED BY <1>3, <2>1 DEF Addressed, ChaseIn
  <1>19. Answered'
    BY <1>3, <1>4, <1>7, <1>8, <1>13, <1>15, <1>17 DEF Progress, Answered
  <1>20. Prepared'
    BY <1>3, <1>8, <1>15, <1>16, <1>17 DEF Progress, Prepared
  <1>21. Fresh'
    <2>1. ranCounter[g] \in Int /\ id > ranCounter[g] /\ id <= id
      BY <1>5, Sizes DEF TypeOK
    <2>2. ueMap[g][id] = NoUe
      BY <1>5, <2>1 DEF Fresh
    <2>3. \A h \in Gnbs : \A i \in Ids : i > ranCounter'[h] => ueMap[h][i] = NoUe
      <3>1. \A i \in Ids : i > id => i > ranCounter[g]
        BY <2>1, Sizes
      <3> QED BY <1>17, <3>1 DEF Fresh
    <2>4. ASSUME test.pc = "wait", NEW h \in Gnbs, hoContext'[h] # NoContext
          PROVE  hoContext'[h].ran <= ranCounter'[h] /\ ueMap[h][hoContext'[h].ran] = NoUe
      <3>1. CASE h = g
        <4>1. hoContext'[h].ran = id /\ ranCounter'[h] = id
          BY <1>8, <1>17, <2>4, <3>1
        <4> QED BY <2>1, <2>2, <3>1, <4>1
      <3>2. CASE h # g
        BY <1>17, <2>4, <3>2 DEF Fresh
      <3> QED BY <3>1, <3>2
    <2> QED BY <1>3, <1>16, <2>3, <2>4 DEF Fresh
  <1>22. ServedOnce'
    BY <1>3 DEF ServedOnce
  <1> QED BY <1>11, <1>13, <1>14, <1>18, <1>19, <1>20, <1>21, <1>22 DEF Progress

\* The source takes the answer of the AMF.
LEMMA InvariantAnswered ==
    ASSUME IInv, NEW g \in Gnbs, NEW s \in Streams, HandleCommand(g, s) \/ HandlePrepFailure(g, s)
    PROVE  IInv'
  <1> USE DEF IInv, Messages
  <1>1. <<g, s>> \in Channels /\ <<g, s>>[1] = g
    BY ChannelOf
  <1>2. PICK m : m = down[<<g, s>>][1]
    OBVIOUS
  <1>3. PICK t \in {"Command", "PrepFailure"} :
           /\ t = "Command" => HandleCommand(g, s) /\ Receives(g, s, "Command")
           /\ t = "PrepFailure" => HandlePrepFailure(g, s) /\ Receives(g, s, "PrepFailure")
    BY DEF HandleCommand, HandlePrepFailure
  <1>4. /\ down' \in [Channels -> Seq(Downlink)] /\ down[<<g, s>>] # <<>>
        /\ m \in Downlink /\ m.type = t /\ None(down')
        /\ UNCHANGED <<serving, ran, teid, ueMap, tunnels, test, hops, refuses, worker, sessions>>
    BY <1>2, <1>3, TakenDown DEF Chase
  <1>5. None(up) /\ ~NoChase /\ ~Asking /\ 1 \in ChaseIn(down, <<g, s>>)
    BY <1>1, <1>2, <1>4, HeadDown DEF Chase
  <1>6. /\ command' = [command EXCEPT ![g] = TRUE] /\ up' = up
        /\ prepFailure' = IF t = "Command" THEN prepFailure ELSE [prepFailure EXCEPT ![g] = TRUE]
        /\ UNCHANGED <<cancelAck, ranCounter, teidCounter, hoContext, pending>>
    BY <1>3 DEF HandleCommand, HandlePrepFailure, tgtV
  <1>7. TypeOK'
    BY <1>4, <1>6 DEF TypeOK
  <1>8. Ends
    BY <1>4, <1>5, <1>6 DEF Ends
  <1>9. Single' /\ ~Asking' /\ NoChase'
    BY <1>8, EndsAll
  <1>10. Counted' /\ Fresh' /\ ServedOnce'
    BY <1>4, <1>6, <1>9 DEF Counted, Fresh, ServedOnce
  <1>11. test.pc = "wait" => /\ t = "Command" => ~refuses[test.tgt]
                             /\ t = "PrepFailure" => refuses[test.tgt]
    <2>1. Honest(<<g, s>>, m)
      BY <1>1, <1>2, <1>4, <1>5, HonestDown DEF Progress
    <2> QED BY <1>4, <2>1 DEF Honest
  <1>12. Addressed'
    BY <1>8, <1>9 DEF Addressed, Ends, None, ChaseIn
  <1>13. Answered'
    <2>1. /\ \A h \in Gnbs : h # g => command'[h] = command[h] /\ prepFailure'[h] = prepFailure[h]
          /\ prepFailure'[g] <=> (t = "PrepFailure" \/ prepFailure[g])
      BY <1>6 DEF TypeOK
    <2> QED BY <1>4, <1>5, <1>6, <1>9, <1>11, <2>1, TestFields DEF Progress, Answered
  <1>14. Prepared'
    BY <1>4, <1>5, <1>6, <1>9 DEF Progress, Prepared
  <1> QED BY <1>7, <1>9, <1>10, <1>12, <1>13, <1>14 DEF Progress

\* The source takes the acknowledgement of its cancellation.
LEMMA InvariantCancelAck ==
    ASSUME IInv, NEW g \in Gnbs, NEW s \in Streams, HandleCancelAck(g, s)
    PROVE  IInv'
  <1> USE DEF IInv, Messages
  <1>1. /\ down' \in [Channels -> Seq(Downlink)] /\ Same(down, down')
        /\ UNCHANGED <<serving, ran, teid, ueMap, tunnels, test, hops, refuses, worker, sessions>>
    <2>1. Receives(g, s, "CancelAck") /\ "CancelAck" \notin Chase
      BY DEF HandleCancelAck, Chase
    <2> QED BY <2>1, TakenDown
  <1>2. /\ cancelAck' = [cancelAck EXCEPT ![g] = TRUE] /\ up' = up
        /\ UNCHANGED <<command, prepFailure, ranCounter, teidCounter, hoContext, pending>>
    BY DEF HandleCancelAck, tgtV
  <1>3. TypeOK'
    BY <1>1, <1>2 DEF TypeOK
  <1>4. Keeps
    BY <1>1, <1>2, SameSelf, KeepsSame
  <1> QED BY <1>1, <1>2, <1>3, <1>4, Relayed

(***************************************************************************)
(* The test thread.                                                        *)
(***************************************************************************)
\* A handover starts when nothing of an earlier one is left.
LEMMA InvariantInitiate ==
    ASSUME IInv, NEW u \in Ues, NEW t \in Gnbs, NEW refuse \in BOOLEAN,
           InitiateHandover(u, t, refuse)
    PROVE  IInv'
  <1> USE DEF IInv, Messages
  <1>1. /\ test.pc = "idle" /\ hops < MaxHops /\ t # serving[u] /\ hops' = hops + 1
        /\ test' = [pc |-> "wait", ue |-> u, src |-> serving[u], tgt |-> t]
        /\ refuses' = [refuses EXCEPT ![t] = refuse]
        /\ command' = [command EXCEPT ![serving[u]] = FALSE]
        /\ prepFailure' = [prepFailure EXCEPT ![serving[u]] = FALSE]
        /\ UNCHANGED <<serving, ran, teid, ueMap, tunnels, cancelAck, ranCounter, teidCounter,
                       hoContext, pending, worker, sessions, down>>
    BY DEF InitiateHandover, ueV, tgtV, amfV
  <1>2. PICK g \in Gnbs : g = serving[u]
    BY DEF TypeOK
  <1>3. PICK id \in Ids : id = ran[u]
    BY DEF TypeOK
  <1>4. PICK m \in Uplink : m = [type |-> "Required", ue |-> u, target |-> t]
    BY MessageTypes
  <1>5. None(up) /\ None(down)
    BY <1>1 DEF Progress, Prepared, NoChase
  <1>6. SendUp(g, id, m)
    BY <1>2, <1>3, <1>4 DEF InitiateHandover
  <1>7. PICK c \in Channels : One(up', c, m)
    BY <1>4, <1>5, <1>6, PutUp DEF Chase
  <1>8. /\ Single' /\ (Asking' <=> m.type = "Required")
        /\ \A d \in Channels : \A i \in ChaseIn(up', d) : d = c /\ up'[d][i] = m
        /\ \A d \in Channels : ChaseIn(down', d) = {}
    BY <1>1, <1>5, <1>7, SentUp DEF SendsUp
  <1>9. up' \in [Channels -> Seq(Uplink)]
    BY <1>6, PutUp
  <1>10. hops \in Nat /\ hops + 1 \in 0..MaxHops
    BY <1>1, Sizes DEF TypeOK
  <1>11. test' \in [pc : {"idle", "wait", "execute", "notify", "failed", "cancel", "over"},
                    ue : Ues, src : Gnbs, tgt : Gnbs]
    BY <1>1, <1>2
  <1>12. TypeOK'
    BY <1>1, <1>2, <1>9, <1>10, <1>11 DEF TypeOK
  <1>13. /\ test'.pc = "wait" /\ test'.ue = u /\ test'.src = g /\ test'.tgt = t
         /\ refuses'[t] = refuse /\ ~command'[g] /\ ~prepFailure'[g]
    BY <1>1, <1>2 DEF TypeOK
  <1>14. Counted'
    <2>1. ASSUME NEW h \in Gnbs
          PROVE  /\ ranCounter[h] < Cardinality(Ues) + (hops + 1)
                 /\ ranCounter[h] <= Cardinality(Ues) + (hops + 1)
      <3>1. ranCounter[h] \in Nat /\ ranCounter[h] <= Cardinality(Ues) + hops
        BY Sizes DEF Counted, TypeOK
      <3> QED BY <1>10, <3>1, Sizes
    <2> QED BY <1>1, <2>1 DEF Counted
  <1>15. Addressed'
    BY <1>4, <1>8, <1>13 DEF Addressed, ChaseIn
  <1>16. \A h \in Gnbs : hoContext'[h] = NoContext
    BY <1>1 DEF Progress, Prepared
  <1>17. Answered'
    BY <1>4, <1>8, <1>13, <1>16 DEF Answered
  <1>18. Prepared'
    BY <1>1, <1>2, <1>13, <1>16 DEF Prepared
  <1>19. Fresh'
    BY <1>1, <1>16 DEF Fresh
  <1>20. ServedOnce'
    BY <1>1 DEF ServedOnce
  <1> QED BY <1>8, <1>12, <1>14, <1>15, <1>17, <1>18, <1>19, <1>20 DEF Progress

\* The test thread leaves the queues alone.
LEMMA QueuesStay ==
    ASSUME Messages, up' = up, down' = down, UNCHANGED <<ranCounter, teidCounter, hops>>
    PROVE  Messages' /\ (NoChase' <=> NoChase) /\ (Asking' <=> Asking)
  <1>1. (NoChase' <=> NoChase) /\ (Asking' <=> Asking) /\ Single'
    BY DEF Messages, Single, NoChase, None, Unique, ChaseIn, Asking
  <1> QED BY <1>1 DEF Messages, Counted

\* Empty queues.
LEMMA QuietEmpty == Quiet => NoChase
  BY DEF Quiet, NoChase, None, ChaseIn

\* The wait ends with an answer or a timeout; either way the test then knows whether
\* the target accepted.
LEMMA InvariantAwait ==
    ASSUME IInv, AwaitCommand
    PROVE  IInv'
  <1> USE DEF IInv
  <1>1. PICK p \in {"execute", "failed"} :
           /\ test.pc = "wait" /\ GoTo(p) /\ NoChase
           /\ p = "failed" => hoContext[test.tgt] = NoContext
           /\ p = "execute" => hoContext[test.tgt] # NoContext
    <2>1. CASE command[test.src]
      <3>1. NoChase /\ ~Asking
        BY <2>1, NothingAsked DEF AwaitCommand, Progress, Answered
      <3>2. prepFailure[test.src] => hoContext[test.tgt] = NoContext
        BY <2>1, <3>1 DEF AwaitCommand, Progress, Answered
      <3>3. ~prepFailure[test.src] => hoContext[test.tgt] # NoContext
        BY <2>1, <3>1 DEF AwaitCommand, Progress, Answered
      <3> QED BY <2>1, <3>1, <3>2, <3>3 DEF AwaitCommand
    <2>2. CASE ~command[test.src]
      BY <2>2, QuietEmpty DEF AwaitCommand
    <2> QED BY <2>1, <2>2
  <1>2. UNCHANGED <<serving, ran, teid, ueMap, tunnels, command, prepFailure, cancelAck,
                    ranCounter, teidCounter, hoContext, pending, hops, refuses, worker, sessions,
                    up, down>>
    BY DEF AwaitCommand, ueV, srcV, tgtV, amfV
  <1>3. /\ test'.pc = p /\ test'.ue = test.ue /\ test'.src = test.src /\ test'.tgt = test.tgt
        /\ test' \in [pc : {"idle", "wait", "execute", "notify", "failed", "cancel", "over"},
                      ue : Ues, src : Gnbs, tgt : Gnbs]
    BY <1>1, Goes
  <1>4. TypeOK'
    BY <1>2, <1>3 DEF TypeOK
  <1>5. Messages' /\ NoChase' /\ ~Asking
    BY <1>1, <1>2, QueuesStay, NothingAsked
  <1>6. Addressed' /\ Answered'
    BY <1>3 DEF Addressed, Answered
  <1>7. p = "failed" => refuses[test.tgt] /\ \A g \in Gnbs : hoContext[g] = NoContext
    BY <1>1, <1>5, TestFields DEF Progress, Answered, Prepared
  <1>8. Prepared'
    BY <1>1, <1>2, <1>3, <1>5, <1>7 DEF Progress, Prepared
  <1>9. Fresh' /\ ServedOnce'
    BY <1>1, <1>2, <1>3 DEF Fresh, ServedOnce
  <1> QED BY <1>4, <1>5, <1>6, <1>8, <1>9 DEF Progress

\* The test returns, or it gives up waiting for the acknowledgement.
LEMMA InvariantReturn ==
    ASSUME IInv, ReturnFalse \/ AwaitCancelAck
    PROVE  IInv'
  <1> USE DEF IInv
  <1>1. PICK p \in {"idle", "over"} :
           /\ GoTo(p)
           /\ p = "idle" => test.pc = "failed"
           /\ p = "over" => test.pc = "cancel"
    BY DEF ReturnFalse, AwaitCancelAck
  <1>2. /\ UNCHANGED <<serving, ran, teid, ueMap, tunnels, command, prepFailure, cancelAck,
                       ranCounter, teidCounter, hoContext, pending, hops, worker, sessions,
                       up, down>>
        /\ refuses' \in [Gnbs -> BOOLEAN]
    BY DEF ReturnFalse, AwaitCancelAck, ueV, srcV, tgtV, amfV, TypeOK
  <1>3. /\ test'.pc = p
        /\ test' \in [pc : {"idle", "wait", "execute", "notify", "failed", "cancel", "over"},
                      ue : Ues, src : Gnbs, tgt : Gnbs]
    BY <1>1, Goes
  <1>4. TypeOK'
    BY <1>2, <1>3 DEF TypeOK
  <1>5. Messages' /\ (NoChase' <=> NoChase)
    BY <1>2, QueuesStay
  <1>6. Addressed' /\ Answered'
    BY <1>3 DEF Addressed, Answered
  <1>7. Prepared'
    BY <1>1, <1>2, <1>3, <1>5 DEF Progress, Prepared
  <1>8. Fresh' /\ ServedOnce'
    BY <1>2, <1>3 DEF Fresh, ServedOnce
  <1> QED BY <1>4, <1>5, <1>6, <1>7, <1>8 DEF Progress

\* The notification and the cancellation are no messages of the handover itself.
LEMMA InvariantSends ==
    ASSUME IInv, SendNotify \/ CancelHandover
    PROVE  IInv'
  <1> USE DEF IInv
  <1>1. PICK p \in {"idle", "cancel"}, t \in {"Notify", "Cancel"} :
           /\ GoTo(p)
           /\ p = "idle" => test.pc = "notify" /\ hoContext' = [hoContext EXCEPT ![test.tgt] = NoContext]
           /\ p = "cancel" => test.pc = "wait" /\ hoContext' = hoContext
           /\ \E g \in Gnbs : SendUp(g, ran[test.ue], [type |-> t, ue |-> test.ue])
    BY TestFields DEF SendNotify, CancelHandover, tgtV
  <1>2. /\ UNCHANGED <<serving, ran, teid, ueMap, tunnels, command, prepFailure,
                       ranCounter, teidCounter, pending, hops, worker, sessions, down>>
        /\ refuses' \in [Gnbs -> BOOLEAN] /\ cancelAck' \in [Gnbs -> BOOLEAN]
    BY DEF SendNotify, CancelHandover, ueV, srcV, tgtV, amfV, TypeOK
  <1>3. /\ test'.pc = p
        /\ test' \in [pc : {"idle", "wait", "execute", "notify", "failed", "cancel", "over"},
                      ue : Ues, src : Gnbs, tgt : Gnbs]
    BY <1>1, Goes
  <1>4. PICK m \in Uplink : m = [type |-> t, ue |-> test.ue]
    BY MessageTypes, TestFields
  <1>5. PICK id \in Ids : id = ran[test.ue]
    BY TestFields DEF TypeOK
  <1>6. PICK g \in Gnbs : SendUp(g, id, m)
    BY <1>1, <1>4, <1>5
  <1>7. m.type \notin Chase
    BY <1>4 DEF Chase
  <1>8. up' \in [Channels -> Seq(Uplink)] /\ Same(up, up')
    BY <1>6, <1>7, PutUp
  <1>9. TypeOK'
    <2>1. hoContext' \in [Gnbs -> [ue : Ues, ran : Ids] \cup {NoContext}]
      BY <1>1 DEF TypeOK
    <2> QED BY <1>2, <1>3, <1>8, <2>1 DEF TypeOK
  <1>10. Keeps
    BY <1>2, <1>8, SameSelf, KeepsSame DEF Messages
  <1>11. Messages' /\ (NoChase => NoChase')
    BY <1>2, <1>10 DEF Keeps, Messages, Counted
  <1>12. Addressed' /\ Answered'
    BY <1>3 DEF Addressed, Answered
  <1>13. p = "idle" => \A h \in Gnbs : hoContext'[h] = NoContext
    BY <1>1, TestFields DEF Progress, Prepared, TypeOK
  <1>14. Prepared'
    BY <1>1, <1>3, <1>11, <1>13 DEF Progress, Prepared
  <1>15. Fresh' /\ ServedOnce'
    BY <1>2, <1>3 DEF Fresh, ServedOnce
  <1> QED BY <1>9, <1>11, <1>12, <1>14, <1>15 DEF Progress

\* A UE moves from place i of gNB a to place j of gNB b.
Moved(a, b, i, j, u) ==
    /\ ueMap' \in [Gnbs -> [Ids -> Ues \cup {NoUe}]]
    /\ ueMap'[a][i] = NoUe /\ ueMap'[b][j] = u
    /\ \A g \in Gnbs, k \in Ids :
          ~(g = a /\ k = i) /\ ~(g = b /\ k = j) => ueMap'[g][k] = ueMap[g][k]

\* The two assignments of CompleteHandover to the gNBs' maps do that.
LEMMA MapMoves ==
    ASSUME TypeOK, NEW a \in Gnbs, NEW b \in Gnbs, a # b, NEW i \in Ids, NEW j \in Ids,
           NEW u \in Ues, ueMap' = [ueMap EXCEPT ![a][i] = NoUe, ![b][j] = u]
    PROVE  Moved(a, b, i, j, u)
  <1> DEFINE R == [Ids -> Ues \cup {NoUe}]
             x == [ueMap[a] EXCEPT ![i] = NoUe]
             y == [ueMap[b] EXCEPT ![j] = u]
  <1>1. ueMap \in [Gnbs -> R] /\ ueMap[a] \in R /\ ueMap[b] \in R
    BY DEF TypeOK
  <1>2. x \in R /\ x[i] = NoUe /\ \A k \in Ids : k # i => x[k] = ueMap[a][k]
    BY <1>1
  <1>3. y \in R /\ y[j] = u /\ \A k \in Ids : k # j => y[k] = ueMap[b][k]
    BY <1>1
  <1>4. ueMap' = [[ueMap EXCEPT ![a] = x] EXCEPT ![b] = [@ EXCEPT ![j] = u]]
    BY Zenon
  <1>5. PICK f : f = [ueMap EXCEPT ![a] = x]
    OBVIOUS
  <1> HIDE DEF x, R
  <1>6. f \in [Gnbs -> R] /\ f[a] = x /\ \A g \in Gnbs : g # a => f[g] = ueMap[g]
    BY <1>1, <1>2, <1>5
  <1>7. ueMap' = [f EXCEPT ![b] = y]
    BY <1>4, <1>5, <1>6
  <1> HIDE DEF y
  <1>8. /\ ueMap' \in [Gnbs -> R] /\ ueMap'[a] = x /\ ueMap'[b] = y
        /\ \A g \in Gnbs : g # a /\ g # b => ueMap'[g] = ueMap[g]
    BY <1>3, <1>6, <1>7
  <1>9. ASSUME NEW g \in Gnbs, NEW k \in Ids, ~(g = a /\ k = i), ~(g = b /\ k = j)
        PROVE  ueMap'[g][k] = ueMap[g][k]
    <2>1. CASE g = a
      BY <1>2, <1>8, <1>9, <2>1
    <2>2. CASE g = b
      BY <1>3, <1>8, <1>9, <2>2
    <2>3. CASE g # a /\ g # b
      BY <1>8, <2>3
    <2> QED BY <2>1, <2>2, <2>3
  <1>10. ueMap'[a][i] = NoUe /\ ueMap'[b][j] = u
    BY <1>2, <1>3, <1>8
  <1>11. ueMap' \in [Gnbs -> [Ids -> Ues \cup {NoUe}]]
    BY <1>8 DEF R
  <1> QED BY <1>9, <1>10, <1>11 DEF Moved

\* The table of tunnels.
LEMMA TunnelTypes ==
    ASSUME NEW f \in [Ids -> Ues \cup {NoUe}], NEW i \in Ids, NEW u \in Ues
    PROVE  /\ CreateTunnel(f, i, u) \in [Ids -> Ues \cup {NoUe}]
           /\ [f EXCEPT ![i] = NoUe] \in [Ids -> Ues \cup {NoUe}]
  BY DEF CreateTunnel

\* The UE moves to an identifier of the target that no UE has.
LEMMA InvariantComplete ==
    ASSUME IInv, CompleteHandover
    PROVE  /\ IInv'
           /\ \A v \in Ues : serving'[v] # serving[v] => hoContext[serving'[v]].ue = v
  <1> USE DEF IInv
  <1>1. /\ test.pc = "execute" /\ hoContext[test.tgt] # NoContext
        /\ serving[test.ue] = test.src /\ test.src # test.tgt
        /\ hoContext[test.tgt].ue = test.ue /\ NoChase
    BY TestFields DEF CompleteHandover, Progress, Prepared
  <1>2. PICK u \in Ues, a \in Gnbs, b \in Gnbs : u = test.ue /\ a = test.src /\ b = test.tgt
    BY TestFields
  <1>3. PICK i \in Ids, j \in Ids : i = ran[u] /\ j = hoContext[b].ran
    BY <1>1, <1>2, TestFields DEF TypeOK
  <1>4. /\ GoTo("notify") /\ serving' = [serving EXCEPT ![u] = b] /\ ran' = [ran EXCEPT ![u] = j]
        /\ ueMap' = [ueMap EXCEPT ![a][i] = NoUe, ![b][j] = u]
    BY <1>1, <1>2, <1>3, Zenon DEF CompleteHandover
  <1>5. UNCHANGED <<command, prepFailure, cancelAck, ranCounter, teidCounter, hoContext, hops,
                    refuses, worker, sessions, up, down>>
    BY DEF CompleteHandover, srcV, amfV
  <1>6. /\ test'.pc = "notify" /\ test'.ue = u /\ test'.src = a /\ test'.tgt = b
        /\ test' \in [pc : {"idle", "wait", "execute", "notify", "failed", "cancel", "over"},
                      ue : Ues, src : Gnbs, tgt : Gnbs]
    BY <1>2, <1>4, Goes
  <1>7. /\ ueMap' \in [Gnbs -> [Ids -> Ues \cup {NoUe}]]
        /\ ueMap'[a][i] = NoUe /\ ueMap'[b][j] = u
        /\ \A g \in Gnbs, k \in Ids :
              ~(g = a /\ k = i) /\ ~(g = b /\ k = j) => ueMap'[g][k] = ueMap[g][k]
    <2>1. a # b
      BY <1>1, <1>2
    <2>2. TypeOK /\ ueMap' = [ueMap EXCEPT ![a][i] = NoUe, ![b][j] = u]
      BY <1>4, Zenon
    <2>3. Moved(a, b, i, j, u)
      BY <2>1, <2>2, MapMoves, Zenon
    <2> QED BY <2>3 DEF Moved
  <1>8. /\ serving'[u] = b /\ \A v \in Ues : v # u => serving'[v] = serving[v]
        /\ ran'[u] = j /\ \A v \in Ues : v # u => ran'[v] = ran[v]
        /\ serving' \in [Ues -> Gnbs] /\ ran' \in [Ues -> Ids]
    BY <1>4 DEF TypeOK
  <1>9. /\ tunnels' \in [Ids -> Ues \cup {NoUe}] /\ teid' \in [Ues -> Ids]
        /\ pending' \in [Gnbs -> Ids \cup {0}]
    <2>1. /\ tunnels \in [Ids -> Ues \cup {NoUe}] /\ teid \in [Ues -> Ids] /\ teid[u] \in Ids
          /\ pending[b] \in Ids \cup {0}
      BY DEF TypeOK
    <2>2. PICK destroyed \in [Ids -> Ues \cup {NoUe}] : destroyed = [tunnels EXCEPT ![teid[u]] = NoUe]
      BY <2>1, TunnelTypes
    <2>3. pending' \in [Gnbs -> Ids \cup {0}]
      BY <1>1 DEF CompleteHandover, TypeOK
    <2>4. CASE pending[b] = 0
      BY <1>1, <1>2, <2>1, <2>2, <2>3, <2>4 DEF CompleteHandover
    <2>5. CASE pending[b] # 0
      <3>1. pending[b] \in Ids
        BY <2>1, <2>5
      <3>2. /\ tunnels' = CreateTunnel(destroyed, pending[b], u)
            /\ teid' = [teid EXCEPT ![u] = pending[b]]
        BY <1>1, <1>2, <2>2, <2>5 DEF CompleteHandover
      <3> QED BY <2>1, <2>2, <2>3, <3>1, <3>2, TunnelTypes
    <2> QED BY <2>4, <2>5
  <1>10. TypeOK'
    BY <1>5, <1>6, <1>7, <1>8, <1>9 DEF TypeOK
  <1>11. Messages' /\ NoChase'
    BY <1>1, <1>5, QueuesStay
  <1>12. Addressed' /\ Answered'
    BY <1>6 DEF Addressed, Answered
  <1>13. Prepared'
    BY <1>1, <1>2, <1>5, <1>6, <1>11 DEF Progress, Prepared
  <1>14. j <= ranCounter[b] /\ ueMap[b][j] = NoUe
    BY <1>1, <1>2, <1>3 DEF Fresh
  <1>15. Fresh'
    <2>1. ASSUME NEW g \in Gnbs, NEW k \in Ids, k > ranCounter[g] PROVE ueMap'[g][k] = NoUe
      <3>1. ~(g = b /\ k = j)
        <4>1. ranCounter[g] \in Int /\ k \in Int
          BY Sizes DEF TypeOK
        <4>2. k > ranCounter[g] => ~(k <= ranCounter[g])
          BY <4>1
        <4> QED BY <1>14, <2>1, <4>2
      <3> QED BY <1>7, <2>1, <3>1 DEF Fresh
    <2> QED BY <1>5, <1>6, <2>1 DEF Fresh
  <1>16. ServedOnce'
    <2>1. serving[u] = a /\ ran[u] = i /\ a # b
      BY <1>1, <1>2, <1>3
    <2>2. ASSUME NEW v \in Ues, NEW g \in Gnbs, NEW k \in Ids
          PROVE  ueMap'[g][k] = v <=> (serving'[v] = g /\ ran'[v] = k)
      <3>1. ueMap[g][k] = v <=> (serving[v] = g /\ ran[v] = k)
        BY DEF ServedOnce
      <3>2. ueMap[a][i] = u
        BY <2>1 DEF ServedOnce
      <3>3. CASE g = a /\ k = i
        BY <1>7, <1>8, <2>1, <3>1, <3>2, <3>3, Sizes
      <3>4. CASE g = b /\ k = j
        BY <1>7, <1>8, <1>14, <3>1, <3>4, Sizes
      <3>5. CASE ~(g = a /\ k = i) /\ ~(g = b /\ k = j)
        BY <1>7, <1>8, <2>1, <3>1, <3>5
      <3> QED BY <3>3, <3>4, <3>5
    <2> QED BY <2>2 DEF ServedOnce
  <1>17. \A v \in Ues : serving'[v] # serving[v] => hoContext[serving'[v]].ue = v
    BY <1>1, <1>2, <1>8
  <1> QED BY <1>10, <1>11, <1>12, <1>13, <1>15, <1>16, <1>17 DEF Progress

(***************************************************************************)
(* The invariant.                                                          *)
(***************************************************************************)
\* The UEs start with identifiers of their own on the source.
LEMMA InvariantInit == Init => IInv
  <1> SUFFICES ASSUME Init PROVE IInv
    OBVIOUS
  <1>1. PICK f \in [Ues -> 1..Cardinality(Ues)] :
           /\ \A u, v \in Ues : f[u] = f[v] => u = v
           /\ ran = f
           /\ ueMap = [g \in Gnbs |-> [i \in Ids |->
                          IF g = Source /\ \E u \in Ues : f[u] = i
                          THEN CHOOSE u \in Ues : f[u] = i ELSE NoUe]]
    BY DEF Init
  <1>2. PICK e \in [Ues -> 1..Cardinality(Ues)] :
           /\ teid = e
           /\ tunnels = [i \in Ids |-> IF \E u \in Ues : e[u] = i
                                       THEN CHOOSE u \in Ues : e[u] = i ELSE NoUe]
    BY DEF Init
  <1>3. /\ serving = [u \in Ues |-> Source]
        /\ ranCounter = [g \in Gnbs |-> IF g = Source THEN Cardinality(Ues) ELSE 0]
        /\ teidCounter = ranCounter /\ hoContext = [g \in Gnbs |-> NoContext]
        /\ test = [pc |-> "idle", ue |-> CHOOSE u \in Ues : TRUE, src |-> Source, tgt |-> Source]
        /\ hops = 0
        /\ up = [c \in Channels |-> <<>>] /\ down = [c \in Channels |-> <<>>]
    BY DEF Init
  <1>4. /\ f \in [Ues -> Ids] /\ e \in [Ues -> Ids] /\ hops \in 0..MaxHops
        /\ Cardinality(Ues) \in Ids
    <2>1. \E u : u \in Ues
      BY Sizes
    <2>2. Cardinality(Ues) # 0
      BY <2>1, HandoverAssumption, FS_EmptySet
    <2> QED BY <1>3, <2>2, Sizes
  <1>5. (CHOOSE u \in Ues : TRUE) \in Ues
    BY Sizes
  <1>6. ASSUME NEW h \in [Ues -> Ids], NEW i \in Ids
        PROVE  (\E u \in Ues : h[u] = i) =>
                  /\ (CHOOSE u \in Ues : h[u] = i) \in Ues
                  /\ h[CHOOSE u \in Ues : h[u] = i] = i
    OBVIOUS
  <1>7. tunnels \in [Ids -> Ues \cup {NoUe}] /\ ueMap \in [Gnbs -> [Ids -> Ues \cup {NoUe}]]
    BY <1>1, <1>2, <1>4, <1>6
  <1>8. test \in [pc : {"idle", "wait", "execute", "notify", "failed", "cancel", "over"},
                  ue : Ues, src : Gnbs, tgt : Gnbs]
    BY <1>3, <1>5, Sizes
  <1>9. TypeOK
    BY <1>1, <1>2, <1>3, <1>4, <1>7, <1>8, Sizes DEF Init, TypeOK, Sessions
  <1>10. \A c \in Channels : ChaseIn(up, c) = {} /\ ChaseIn(down, c) = {}
    BY <1>3 DEF ChaseIn
  <1>11. NoChase /\ Single
    BY <1>10 DEF NoChase, Single, None, Unique
  <1>12. Messages
    BY <1>3, <1>11, NothingAsked, Sizes DEF Messages, Counted
  <1>13. Progress
    BY <1>3, <1>11 DEF Progress, Addressed, Answered, Prepared
  <1>14. Fresh
    <2>1. ASSUME NEW g \in Gnbs, NEW i \in Ids, i > ranCounter[g] PROVE ueMap[g][i] = NoUe
      <3>1. g = Source => ~\E u \in Ues : f[u] = i
        BY <1>3, <2>1, Sizes
      <3> QED BY <1>1, <3>1
    <2> QED BY <1>3, <2>1 DEF Fresh
  <1>15. ServedOnce
    <2>1. ASSUME NEW u \in Ues, NEW g \in Gnbs, NEW i \in Ids
          PROVE  ueMap[g][i] = u <=> (serving[u] = g /\ ran[u] = i)
      <3>1. serving[u] = Source /\ ran[u] = f[u]
        BY <1>1, <1>3
      <3>2. CASE g = Source /\ \E v \in Ues : f[v] = i
        <4>1. ueMap[g][i] = CHOOSE v \in Ues : f[v] = i
          BY <1>1, <3>2
        <4>2. PICK w \in Ues : w = ueMap[g][i] /\ f[w] = i
          BY <1>4, <1>6, <3>2, <4>1
        <4> QED BY <1>1, <3>1, <3>2, <4>2
      <3>3. CASE ~(g = Source /\ \E v \in Ues : f[v] = i)
        <4>1. ueMap[g][i] = NoUe
          BY <1>1, <3>3
        <4> QED BY <3>1, <3>3, <4>1, Sizes
      <3> QED BY <3>2, <3>3
    <2> QED BY <2>1 DEF ServedOnce
  <1> QED BY <1>9, <1>12, <1>13, <1>14, <1>15 DEF IInv

\* A stuttering step changes nothing the invariant reads.
LEMMA InvariantStutter ==
    ASSUME IInv, UNCHANGED vars
    PROVE  IInv'
  <1> USE DEF IInv
  <1>1. UNCHANGED <<serving, ran, teid, ueMap, ranCounter, teidCounter, hoContext, pending, command,
                    prepFailure, cancelAck, refuses, tunnels, test, hops, up, down, worker, sessions>>
    BY DEF vars, ueV, srcV, tgtV, testV, amfV
  <1>2. TypeOK'
    BY <1>1 DEF TypeOK
  <1>3. Keeps
    BY <1>1, SameSelf, KeepsSame DEF Messages
  <1> QED BY <1>1, <1>2, <1>3, Relayed

\* Every step preserves the invariant.
LEMMA InvariantNext == IInv /\ [Next]_vars => IInv'
  <1> SUFFICES ASSUME IInv, [Next]_vars PROVE IInv'
    OBVIOUS
  <1>1. ASSUME NEW u \in Ues, NEW t \in Gnbs, NEW refuse \in BOOLEAN,
               InitiateHandover(u, t, refuse)
        PROVE  IInv'
    BY <1>1, InvariantInitiate
  <1>2. CASE CancelHandover \/ TestStep
    BY <1>2, InvariantAwait, InvariantComplete, InvariantSends, InvariantReturn DEF TestStep
  <1>3. ASSUME NEW g \in Gnbs, RxStep(g) PROVE IInv'
    BY <1>3, InvariantRequest, InvariantAnswered, InvariantCancelAck DEF RxStep
  <1>4. ASSUME NEW g \in Gnbs, NEW s \in Streams, AmfStep(g, s) PROVE IInv'
    BY <1>4, InvariantPrepare, InvariantAnswer, InvariantEnd DEF AmfStep
  <1>5. CASE UNCHANGED vars
    BY <1>5, InvariantStutter
  <1> QED BY <1>1, <1>2, <1>3, <1>4, <1>5 DEF Next

\* The invariant holds in every reachable state.
LEMMA Invariant == Spec => []IInv
  BY InvariantInit, InvariantNext, PTL DEF Spec

(***************************************************************************)
(* The theorems.                                                           *)
(***************************************************************************)
\* Every variable stays within its type; in particular no gNB runs out of the
\* identifiers the number of UEs and handovers allows for.
THEOREM TypeCorrect == Spec => []TypeOK
  <1>1. IInv => TypeOK
    BY DEF IInv
  <1> QED BY <1>1, Invariant, PTL

\* A UE is in the map of the gNB that serves it under its identifier, and nowhere
\* else, through every chain of handovers, refusals, cancellations and timeouts.
THEOREM ServedInOnePlace == Spec => []ServedOnce
  <1>1. IInv => ServedOnce
    BY DEF IInv
  <1> QED BY <1>1, Invariant, PTL

\* The test sees a handover fail only when the target refused it, although the AMF
\* may drop the acknowledgement or send the command to another source.
THEOREM FailsOnlyRefused == Spec => []AcceptedCompletes
  <1>1. IInv => AcceptedCompletes
    BY DEF IInv, Progress, Prepared, AcceptedCompletes
  <1> QED BY <1>1, Invariant, PTL

\* Only the completion of a handover moves a UE.
LEMMA OnlyCompletionMoves ==
    ASSUME IInv, [Next]_vars
    PROVE  \A u \in Ues : serving'[u] # serving[u] => hoContext[serving'[u]].ue = u
  <1>1. CASE CompleteHandover
    BY <1>1, InvariantComplete
  <1>2. CASE \E u \in Ues, t \in Gnbs, refuse \in BOOLEAN : InitiateHandover(u, t, refuse)
    BY <1>2 DEF InitiateHandover, ueV
  <1>3. CASE CancelHandover \/ AwaitCommand \/ SendNotify \/ ReturnFalse \/ AwaitCancelAck
    BY <1>3 DEF CancelHandover, AwaitCommand, SendNotify, ReturnFalse, AwaitCancelAck, ueV
  <1>4. CASE \E g \in Gnbs : RxStep(g)
    BY <1>4 DEF RxStep, HandleRequest, HandleCommand, HandlePrepFailure, HandleCancelAck,
                Receives, ueV
  <1>5. CASE \E g \in Gnbs, s \in Streams : AmfStep(g, s)
    BY <1>5 DEF AmfStep, Prepare, RememberSession, AllocationAck, AllocationFailure,
                Notification, Cancel, Dispatches, ueV
  <1>6. CASE UNCHANGED vars
    BY <1>6 DEF vars, ueV
  <1> QED BY <1>1, <1>2, <1>3, <1>4, <1>5, <1>6 DEF Next, TestStep

\* A UE moves only with the context that the target prepared for that UE, never with
\* one left by the handover of another UE.
THEOREM MovesWithOwnContext == Spec => AdoptsOwnContext
  <1>1. IInv /\ [Next]_vars => [\A u \in Ues : serving'[u] # serving[u] => hoContext[serving'[u]].ue = u]_vars
    BY OnlyCompletionMoves
  <1> QED BY <1>1, Invariant, PTL DEF Spec, AdoptsOwnContext

===============================================================================
