---------------------------- MODULE TesterUeProofs ----------------------------
(***************************************************************************)
(* Type correctness of TesterUe and its two safety invariants, and that    *)
(* the UEs implement UeRegistration, for every set of UEs, every bound and *)
(* a test that may register again at once.                                 *)
(*                                                                         *)
(* The argument is about connections that are over: the AMF has released   *)
(* them, or never heard of them, and only the release is still under way.  *)
(* A UE has at most one connection that is not, and none while its test    *)
(* starts a registration; so no old connection answers for the new one,    *)
(* although the test and the receive thread share the UE without a lock.   *)
(***************************************************************************)
EXTENDS TesterUe, TLAPS

Open     == {"auth", "smc", "accept", "registered"}
Keyed    == {"smc", "accept", "registered"}
Farewell == {"Reject", "AuthReject", "DeregAccept"}

\* The messages under way to the UE on connection c, by their places: the one
\* the receive thread holds is at place 0.
At(c, i)  == IF i = 0 THEN rx.msg ELSE dl[c][i]
Places(c) == {i \in 0..Len(dl[c]) : i = 0 => rx.pc = "run" /\ rx.on = c}

\* The messages under way to the AMF.
Sent         == UNION {{ul[d][j] : j \in 1..Len(ul[d])} : d \in Conns}
InitialOn(c) == \E j \in 1..Len(ul[c]) : ul[c][j].type = "Initial"

\* Connection c is over, or its Initial UE Message is not yet sent.
Quiet(c) ==
    /\ amf[c].phase \notin Open
    /\ ~InitialOn(c)
    /\ \A i \in Places(c) : At(c, i).type = "Release"

AllQuiet(u) == \A c \in Conns : ueMap[c] = u => Quiet(c)

Receiver ==
    /\ rx.pc = "idle" => rx = RxIdle
    /\ rx.pc # "idle" => rx.on \in Conns
    /\ rx.pc \in {"release", "clear"} =>
          /\ rx.ue \in Ues /\ ueMap[rx.on] = rx.ue
          /\ dl[rx.on] = <<>> /\ amf[rx.on].phase = "releasing"

\* The release is the last message of a connection; a message that ends the
\* registration is the last but one.
Streams ==
    \A c \in Conns : \A i \in Places(c) :
        /\ ueMap[c] # NoUe /\ amf[c].phase # "none"
        /\ At(c, i).type \in Farewell \cup {"Release"} => amf[c].phase = "releasing"
        /\ At(c, i).type = "Release" => i = Len(dl[c])
        /\ At(c, i).type \in Farewell =>
              i + 1 = Len(dl[c]) /\ dl[c][i + 1].type = "Release"

Links ==
    /\ \A c \in Conns : ueMap[c] # NoUe => c <= ranCounter
    /\ \A c \in Conns : c > ranCounter => amf[c].phase = "none" /\ ul[c] = <<>>
    /\ \A c \in Conns : amf[c].phase \in Open => ueMap[c] # NoUe
    /\ \A u \in Ues : ran[u] # 0 => ueMap[ran[u]] = u

Initials ==
    \A c \in Conns : \A i \in 1..Len(ul[c]) :
        ul[c][i].type = "Initial" =>
            /\ amf[c].phase = "none" /\ ueMap[c] # NoUe
            /\ \A j \in 1..Len(ul[c]) : ul[c][j].type = "Initial" => j = i

\* A UE has one connection that is not quiet, and it is the current one unless
\* the receive thread has cleared the identifiers of the UE.
Alone ==
    \A c, d \in Conns :
        ueMap[c] = ueMap[d] /\ ueMap[c] # NoUe /\ ~Quiet(c) /\ ~Quiet(d) => c = d
Current ==
    \A c \in Conns : \A u \in Ues : ueMap[c] = u /\ ~Quiet(c) => ran[u] \in {0, c}

\* What the test may conclude from what it sees of the UE.
Starting == {"idle", "attached", "initiated"}
Using    == {"up", "checked", "leaving", "waitDereg"}

Before ==
    \A u \in Ues : test[u] \in Starting =>
        /\ AllQuiet(u)
        /\ state[u] # "REGISTERED"
        /\ test[u] \in {"idle", "attached"} => state[u] = "DEREGISTERED"
        /\ test[u] # "idle" /\ ran[u] # 0 => amf[ran[u]].phase = "none"
        /\ test[u] = "initiated" => ~rejected[u]
Refused ==
    \A u \in Ues : test[u] = "waitReg" /\ rejected[u]
        => AllQuiet(u) /\ state[u] = "DEREGISTERED"
Gone ==
    \A u \in Ues : state[u] = "DEREGISTERED" /\ test[u] \in Using => AllQuiet(u)
Detached ==
    \A u \in Ues : ran[u] = 0 /\ (test[u] \in Using \/ state[u] = "REGISTERED")
        => AllQuiet(u)
Ending ==
    rx.pc \in {"release", "clear"} =>
        \/ AllQuiet(rx.ue)
        \/ state[rx.ue] # "REGISTERED" /\ test[rx.ue] \in {"waitReg", "failed"}

\* The keys.  Once the UE has answered the challenge that counts, every request
\* still under way repeats it.
IsRequest(m) == m.type = "AuthRequest"
Answered(c) ==
    /\ ctx[ueMap[c]].kamf = amf[c].key
    /\ \A i \in Places(c) : IsRequest(At(c, i)) => At(c, i).key = amf[c].key
Vectors ==
    /\ \A c \in Conns : \A i \in Places(c) : IsRequest(At(c, i)) => At(c, i).key <= vectors
    /\ \A m \in Sent : m.type = "AuthResponse" => m.key <= vectors
    /\ \A c \in Conns : amf[c].key <= vectors
Sequenced ==
    \A c \in Conns : \A i, j \in Places(c) :
        /\ amf[c].phase = "auth" /\ i < j /\ IsRequest(At(c, i)) /\ IsRequest(At(c, j))
        /\ At(c, i).key = amf[c].key
        => At(c, j).key = amf[c].key
Challenged ==
    /\ \A c \in Conns : amf[c].phase \in Keyed => Answered(c)
    /\ \A m \in Sent :
          m.type = "AuthResponse" /\ amf[m.to].phase = "auth" /\ m.key = amf[m.to].key
              => Answered(m.to)
Commanded ==
    /\ \A c \in Conns : \A i \in Places(c) :
          At(c, i).type = "SecurityMode" => amf[c].phase \in Keyed \cup {"releasing"}
    /\ \A m \in Sent : m.type = "SecurityComplete" =>
          /\ amf[m.to].phase \in Keyed \cup {"releasing"}
          /\ amf[m.to].phase = "smc" => ctx[ueMap[m.to]].knas = amf[m.to].key
Secured ==
    \A c \in Conns : amf[c].phase \in {"accept", "registered"}
        => ctx[ueMap[c]].knas = amf[c].key

Traffic == Receiver /\ Streams /\ Links /\ Initials
Phases  == Alone /\ Current /\ Before /\ Refused /\ Gone /\ Detached /\ Ending
Security == Vectors /\ Sequenced /\ Challenged /\ Commanded /\ Secured

IInv == TypeOK /\ Traffic /\ Phases /\ Security

(***************************************************************************)
(* Messages.                                                               *)
(***************************************************************************)
\* What the fields of a message to the UE range over.
LEMMA DownlinkFields ==
    ASSUME NEW m \in Downlink
    PROVE  /\ m.type \in {"AuthRequest", "SecurityMode", "ContextSetup", "Accept",
                          "AuthReject", "Reject", "DeregAccept", "Release"}
           /\ m.type = "AuthRequest" => m.key \in Keys /\ m.ok \in BOOLEAN
  BY DEF Downlink

\* The messages the AMF sends are messages to the UE.
LEMMA DownlinkMessages ==
    /\ \A k \in Keys, b \in BOOLEAN : [type |-> "AuthRequest", key |-> k, ok |-> b] \in Downlink
    /\ \A t \in {"SecurityMode", "ContextSetup", "Accept", "AuthReject", "Reject",
                 "DeregAccept", "Release"} : [type |-> t] \in Downlink
  BY DEF Downlink

\* What the fields of a message to the AMF range over.
LEMMA UplinkFields ==
    ASSUME NEW m \in Uplink
    PROVE  /\ m.type # "Initial" => m.to \in Conns
           /\ m.type \in {"AuthResponse", "SecurityComplete", "RegComplete", "Dereg"}
                 => m.key \in Keys
           /\ m.type = "Dereg" => m.switchOff \in BOOLEAN
  BY DEF Uplink

\* The messages the UE sends are messages to the AMF.
LEMMA UplinkMessages ==
    ASSUME NEW c \in Conns, NEW k \in Keys
    PROVE  /\ \A u \in Ues : [type |-> "Initial", ue |-> u] \in Uplink
           /\ \A t \in {"AuthResponse", "SecurityComplete", "RegComplete"} :
                 [type |-> t, to |-> c, key |-> k] \in Uplink
           /\ \A b \in BOOLEAN :
                 [type |-> "Dereg", to |-> c, key |-> k, switchOff |-> b] \in Uplink
           /\ \A t \in {"AuthFailure", "ReleaseComplete", "SetupResponse"} :
                 [type |-> t, to |-> c] \in Uplink
  BY DEF Uplink

\* The connections and the keys are numbers; a UE is none of them.
LEMMA Constants ==
    /\ MaxConn \in Nat \ {0} /\ MaxVectors \in Nat \ {0} /\ MaxResend \in Nat
    /\ MaxUpsets \in Nat /\ MayRefuse \in BOOLEAN
    /\ Conns \subseteq Nat \ {0} /\ \A n \in 0..MaxConn : n # 0 => n \in Conns
    /\ \A n \in Nat : n # 0 /\ n <= MaxConn => n \in Conns
    /\ NoUe \notin Ues
  BY UeAssumption, NoUeAssumption DEF Conns

(***************************************************************************)
(* Sequences of messages.                                                  *)
(***************************************************************************)
\* What a sequence holds after one message is appended.
LEMMA AppendOne ==
    ASSUME NEW S, NEW s \in Seq(S), NEW m \in S
    PROVE  /\ Append(s, m) \in Seq(S)
           /\ Len(Append(s, m)) = Len(s) + 1
           /\ \A i \in 1..Len(s) + 1 : Append(s, m)[i] = IF i = Len(s) + 1 THEN m ELSE s[i]
  OBVIOUS

\* What a sequence holds after one or two messages are added by the AMF.
LEMMA ConcatShort ==
    ASSUME NEW S, NEW s \in Seq(S), NEW m \in S, NEW n \in S
    PROVE  /\ s \o <<m>> \in Seq(S) /\ Len(s \o <<m>>) = Len(s) + 1
           /\ \A i \in 1..Len(s) + 1 : (s \o <<m>>)[i] = IF i = Len(s) + 1 THEN m ELSE s[i]
           /\ s \o <<m, n>> \in Seq(S) /\ Len(s \o <<m, n>>) = Len(s) + 2
           /\ \A i \in 1..Len(s) + 2 :
                 (s \o <<m, n>>)[i] = CASE i = Len(s) + 1 -> m
                                        [] i = Len(s) + 2 -> n
                                        [] OTHER -> s[i]
  OBVIOUS

\* What a sequence holds after its first message is taken.
LEMMA TailOne ==
    ASSUME NEW S, NEW s \in Seq(S), s # <<>>
    PROVE  /\ Head(s) \in S /\ Head(s) = s[1] /\ Len(s) \in Nat \ {0}
           /\ Tail(s) \in Seq(S) /\ Len(Tail(s)) = Len(s) - 1
           /\ \A i \in 1..Len(s) - 1 : Tail(s)[i] = s[i + 1]
  OBVIOUS

(***************************************************************************)
(* Effects on the uplink.                                                  *)
(***************************************************************************)
\* No message of the UE that is new is an Initial UE Message.
Added(M) ==
    /\ Sent' \subseteq Sent \cup M
    /\ \A d \in Conns : \A i \in 1..Len(ul'[d]) : ul'[d][i].type = "Initial" =>
          i \in 1..Len(ul[d]) /\ ul[d][i].type = "Initial"

\* A message appended to a connection is the only new one.
LEMMA AppendUplink ==
    ASSUME TypeOK, NEW f \in [Conns -> Seq(Uplink)], NEW c \in Conns, NEW m \in Uplink,
           NEW g, g = [f EXCEPT ![c] = Append(@, m)]
    PROVE  /\ g \in [Conns -> Seq(Uplink)]
           /\ \A d \in Conns : d # c => g[d] = f[d]
           /\ \A d \in Conns : \A i \in 1..Len(g[d]) :
                 (i \in 1..Len(f[d]) /\ g[d][i] = f[d][i]) \/ g[d][i] = m
  <1>1. g[c] = Append(f[c], m) /\ \A d \in Conns : d # c => g[d] = f[d]
    OBVIOUS
  <1>2. f[c] \in Seq(Uplink)
    OBVIOUS
  <1>3. /\ g[c] \in Seq(Uplink)
        /\ Len(g[c]) = Len(f[c]) + 1
        /\ \A i \in 1..Len(f[c]) + 1 : g[c][i] = IF i = Len(f[c]) + 1 THEN m ELSE f[c][i]
    BY <1>1, <1>2, AppendOne
  <1>4. g \in [Conns -> Seq(Uplink)]
    BY <1>3
  <1>5. ASSUME NEW d \in Conns, NEW i \in 1..Len(g[d])
        PROVE  (i \in 1..Len(f[d]) /\ g[d][i] = f[d][i]) \/ g[d][i] = m
    <2>1. CASE d = c
      BY <2>1, <1>2, <1>3
    <2>2. CASE d # c
      BY <2>2, <1>1
    <2> QED BY <2>1, <2>2
  <1> QED BY <1>1, <1>4, <1>5

\* send_uplink_nas_transport adds its message, or nothing.
LEMMA SendOne ==
    ASSUME TypeOK, NEW f \in [Conns -> Seq(Uplink)], NEW u \in Ues, NEW m,
           m.to # 0 => m \in Uplink, SendUplink(f, u, m)
    PROVE  /\ ul' \in [Conns -> Seq(Uplink)]
           /\ \A d \in Conns : d # ran[u] => ul'[d] = f[d]
           /\ \A d \in Conns : \A i \in 1..Len(ul'[d]) :
                 \/ i \in 1..Len(f[d]) /\ ul'[d][i] = f[d][i]
                 \/ m \in Uplink /\ ul'[d][i] = m
  <1>1. CASE m.to # 0 /\ ran[u] # 0
    <2>1. m \in Uplink /\ ran[u] \in Conns
      BY <1>1, Constants DEF TypeOK
    <2>2. ul' = [f EXCEPT ![ran[u]] = Append(@, m)]
      BY <1>1 DEF SendUplink
    <2> QED BY <2>1, <2>2, AppendUplink
  <1>2. CASE ~(m.to # 0 /\ ran[u] # 0)
    BY <1>2 DEF SendUplink
  <1> QED BY <1>1, <1>2

\* What a send adds to the messages under way.
LEMMA SendAdds ==
    ASSUME TypeOK, NEW u \in Ues, NEW m, m.to # 0 => m \in Uplink, SendUplink(ul, u, m),
           m.type # "Initial"
    PROVE  Added({m}) /\ ul' \in [Conns -> Seq(Uplink)]
           /\ \A d \in Conns : d # ran[u] => ul'[d] = ul[d]
  <1>1. ul \in [Conns -> Seq(Uplink)]
    BY DEF TypeOK
  <1>2. /\ ul' \in [Conns -> Seq(Uplink)]
        /\ \A d \in Conns : d # ran[u] => ul'[d] = ul[d]
        /\ \A d \in Conns : \A i \in 1..Len(ul'[d]) :
              \/ i \in 1..Len(ul[d]) /\ ul'[d][i] = ul[d][i]
              \/ m \in Uplink /\ ul'[d][i] = m
    BY <1>1, SendOne
  <1>3. Sent' \subseteq Sent \cup {m}
    BY <1>2 DEF Sent
  <1> QED BY <1>2, <1>3 DEF Added

(***************************************************************************)
(* Type correctness.                                                       *)
(***************************************************************************)
\* Type correctness holds at the start.
LEMMA TypeInit == Init => TypeOK
  <1> SUFFICES ASSUME Init PROVE TypeOK
    OBVIOUS
  <1> USE Constants DEF Init, TypeOK, States
  <1>1. ctx \in [Ues -> [kamf : Keys, knas : Keys]]
    BY DEF Keys
  <1>2. rx \in [pc : {"idle", "run", "release", "clear"}, on : 0..MaxConn,
                msg : Downlink, ue : Ues \cup {NoUe}]
    BY DownlinkMessages DEF RxIdle
  <1>3. amf \in [Conns -> [phase : {"none", "auth", "smc", "accept", "registered",
                                    "releasing"}, key : Keys, ok : BOOLEAN]]
    BY DEF NoCtx, Keys
  <1>4. vectors \in Keys /\ resent \in 0..MaxResend /\ upsets \in 0..MaxUpsets
    BY DEF Keys
  <1> QED BY <1>1, <1>2, <1>3, <1>4

\* A step of the test thread preserves the types.
LEMMA TypeTest ==
    ASSUME TypeOK, NEW u \in Ues,
           \/ Attach(u) \/ CheckDeregister(u) \/ WaitRejected(u) \/ WaitTimeout(u)
           \/ Register(u) \/ SendInitial(u) \/ WaitRegistered(u) \/ Deregister(u)
           \/ WaitDeregistered(u)
           \/ \E switchOff \in BOOLEAN : SendDeregister(u, switchOff)
    PROVE  TypeOK'
  <1> USE Constants
  <1>1. ASSUME AttachUe(u)
        PROVE  /\ ran' \in [Ues -> 0..MaxConn] /\ ran'[u] \in Conns
               /\ ueMap' \in [Conns -> Ues \cup {NoUe}]
               /\ ranCounter' \in 0..MaxConn
    BY <1>1 DEF AttachUe, TypeOK
  <1>2. CASE Attach(u)
    BY <1>1, <1>2 DEF Attach, GoTo, TypeOK, amfV
  <1>3. CASE Register(u)
    BY <1>3 DEF Register, GoTo, SetState, States, TypeOK, amfV
  <1>4. CASE SendInitial(u)
    <2>1. /\ ran' \in [Ues -> 0..MaxConn] /\ ran'[u] \in Conns
          /\ ueMap' \in [Conns -> Ues \cup {NoUe}]
          /\ ranCounter' \in 0..MaxConn
      <3>1. CASE ran[u] = 0
        BY <1>1, <1>4, <3>1 DEF SendInitial
      <3>2. CASE ran[u] # 0
        BY <1>4, <3>2 DEF SendInitial, TypeOK
      <3> QED BY <3>1, <3>2
    <2>2. [type |-> "Initial", ue |-> u] \in Uplink
      BY DEF Uplink
    <2>3. ul \in [Conns -> Seq(Uplink)]
      BY DEF TypeOK
    <2>4. ul' \in [Conns -> Seq(Uplink)]
      BY <2>1, <2>2, <2>3, <1>4, AppendUplink DEF SendInitial
    <2> QED BY <2>1, <2>4, <1>4 DEF SendInitial, GoTo, TypeOK, amfV
  <1>5. CASE WaitRegistered(u) \/ WaitRejected(u) \/ WaitDeregistered(u)
    BY <1>5 DEF WaitRegistered, WaitRejected, WaitDeregistered, GoTo, TypeOK, ue, amfV
  <1>6. CASE CheckDeregister(u)
    BY <1>6 DEF CheckDeregister, GoTo, TypeOK, ue, amfV
  <1>7. CASE Deregister(u)
    BY <1>7 DEF Deregister, GoTo, SetState, States, TypeOK, amfV
  <1>8. ASSUME NEW b \in BOOLEAN, SendDeregister(u, b) PROVE TypeOK'
    <2> DEFINE m == [type |-> "Dereg", to |-> amfId[u], key |-> ctx[u].knas, switchOff |-> b]
    <2>1. m.to # 0 => m \in Uplink
      <3>1. amfId[u] \in 0..MaxConn /\ ctx[u].knas \in Keys
        BY DEF TypeOK
      <3>2. amfId[u] # 0 => amfId[u] \in Conns
        BY <3>1
      <3> QED BY <3>1, <3>2, UplinkMessages
    <2>2. SendUplink(ul, u, m) /\ m.type # "Initial"
      BY <1>8 DEF SendDeregister
    <2> HIDE DEF m
    <2>3. ul' \in [Conns -> Seq(Uplink)]
      BY <2>1, <2>2, SendAdds
    <2> QED BY <2>3, <1>8 DEF SendDeregister, GoTo, TypeOK, ue, amfV
  <1>9. CASE WaitTimeout(u)
    BY <1>9 DEF WaitTimeout, GoTo, TypeOK, ue
  <1> QED BY <1>2, <1>3, <1>4, <1>5, <1>6, <1>7, <1>8, <1>9

\* The cleanup preserves the types.
LEMMA TypeCleanup ==
    ASSUME TypeOK, Cleanup
    PROVE  TypeOK'
  <1> USE Constants
  <1>1. /\ state' \in [Ues -> States]
        /\ ran' \in [Ues -> 0..MaxConn]
        /\ amfId' \in [Ues -> 0..MaxConn]
        /\ ctx' \in [Ues -> [kamf : Keys, knas : Keys]]
    BY DEF Cleanup, FreshUe, States, Keys
  <1>2. amf' \in [Conns -> [phase : {"none", "auth", "smc", "accept", "registered",
                                     "releasing"}, key : Keys, ok : BOOLEAN]]
    BY DEF Cleanup, NoCtx, Keys
  <1>3. /\ ueMap' \in [Conns -> Ues \cup {NoUe}]
        /\ dl' \in [Conns -> Seq(Downlink)]
        /\ ul' \in [Conns -> Seq(Uplink)]
    BY DEF Cleanup
  <1>4. test' = [v \in Ues |-> "idle"]
    BY DEF Cleanup
  <1>5. UNCHANGED <<rejected, ranCounter, rx, vectors, resent, upsets>>
    BY DEF Cleanup
  <1> QED BY <1>1, <1>2, <1>3, <1>4, <1>5 DEF TypeOK

\* A step of the receive thread preserves the types.
LEMMA TypeReceiver ==
    ASSUME TypeOK, Receiver,
           \/ \E c \in Conns : RxTake(c)
           \/ OnRelease \/ ReleaseState \/ ReleaseClear
    PROVE  TypeOK'
  <1> USE Constants
  <1>1. ASSUME NEW c \in Conns, RxTake(c) PROVE TypeOK'
    <2>1. dl[c] \in Seq(Downlink) /\ dl[c] # <<>>
      BY <1>1 DEF RxTake, TypeOK
    <2>2. Head(dl[c]) \in Downlink /\ Tail(dl[c]) \in Seq(Downlink)
      BY <2>1, TailOne
    <2>3. dl' \in [Conns -> Seq(Downlink)]
      BY <2>2, <1>1 DEF RxTake, TypeOK
    <2>4. rx' = [pc |-> "run", on |-> c, msg |-> Head(dl[c]), ue |-> NoUe]
      BY <1>1 DEF RxTake
    <2>5. rx' \in [pc : {"idle", "run", "release", "clear"}, on : 0..MaxConn,
                   msg : Downlink, ue : Ues \cup {NoUe}]
      BY <2>2, <2>4 DEF Conns
    <2> QED BY <2>3, <2>5, <1>1 DEF RxTake, TypeOK, ue, amfV
  <1>2. CASE OnRelease
    <2>1. rx.on \in Conns /\ rx.pc = "run"
      BY <1>2 DEF OnRelease, Receiver
    <2>2. [type |-> "ReleaseComplete", to |-> rx.on] \in Uplink
      <3>1. 0 \in Keys
        BY DEF Keys
      <3> QED BY <2>1, <3>1, UplinkMessages
    <2>3. ul \in [Conns -> Seq(Uplink)]
      BY DEF TypeOK
    <2>4. ul' \in [Conns -> Seq(Uplink)]
      BY <2>1, <2>2, <2>3, <1>2, AppendUplink DEF OnRelease
    <2>5. ueMap' \in [Conns -> Ues \cup {NoUe}]
      BY <2>1, <1>2 DEF OnRelease, TypeOK
    <2>6. rx' \in [pc : {"idle", "run", "release", "clear"}, on : 0..MaxConn,
                   msg : Downlink, ue : Ues \cup {NoUe}]
      <3>1. RxIdle \in [pc : {"idle", "run", "release", "clear"}, on : 0..MaxConn,
                        msg : Downlink, ue : Ues \cup {NoUe}]
        BY DownlinkMessages DEF RxIdle
      <3>2. ueMap[rx.on] \in Ues \cup {NoUe}
        BY <2>1 DEF TypeOK
      <3>3. \/ rx' = RxIdle
            \/ rx' = [pc |-> "release", on |-> rx.on, msg |-> rx.msg, ue |-> ueMap[rx.on]]
        BY <1>2 DEF OnRelease
      <3> QED BY <3>1, <3>2, <3>3 DEF TypeOK
    <2> QED BY <2>4, <2>5, <2>6, <1>2 DEF OnRelease, TypeOK, ue, amfV
  <1>3. CASE ReleaseState
    BY <1>3 DEF ReleaseState, SetState, States, TypeOK, amfV, Receiver
  <1>4. CASE ReleaseClear
    BY <1>4, DownlinkMessages DEF ReleaseClear, RxIdle, TypeOK, amfV, Receiver
  <1> QED BY <1>1, <1>2, <1>3, <1>4

\* A function with one value replaced.
LEMMA Updated ==
    ASSUME NEW D, NEW R, NEW g \in [D -> R], NEW x \in D, NEW r \in R, NEW f,
           f = [g EXCEPT ![x] = r]
    PROVE  f \in [D -> R] /\ f[x] = r /\ \A y \in D : y # x => f[y] = g[y]
  OBVIOUS

\* A key pair with one key replaced.
LEMMA NewKey ==
    ASSUME NEW r \in [kamf : Keys, knas : Keys], NEW k \in Keys
    PROVE  /\ [r EXCEPT !.kamf = k] \in [kamf : Keys, knas : Keys]
           /\ [r EXCEPT !.kamf = k].kamf = k /\ [r EXCEPT !.kamf = k].knas = r.knas
           /\ [r EXCEPT !.knas = k] \in [kamf : Keys, knas : Keys]
           /\ [r EXCEPT !.knas = k].knas = k /\ [r EXCEPT !.knas = k].kamf = r.kamf
  OBVIOUS

\* The keys of a UE after an authentication.
LEMMA NewKamf ==
    ASSUME TypeOK, NEW u \in Ues, NEW k \in Keys, ctx' = [ctx EXCEPT ![u].kamf = k]
    PROVE  /\ ctx' \in [Ues -> [kamf : Keys, knas : Keys]]
           /\ \A v \in Ues : v # u => ctx'[v] = ctx[v]
           /\ ctx'[u].kamf = k /\ ctx'[u].knas = ctx[u].knas
  <1> DEFINE R == [kamf : Keys, knas : Keys]
             p == [ctx[u] EXCEPT !.kamf = k]
  <1>1. ctx \in [Ues -> R] /\ ctx[u] \in R
    BY DEF TypeOK
  <1>2. p \in R /\ p.kamf = k /\ p.knas = ctx[u].knas
    BY <1>1, NewKey
  <1>3. ctx' = [ctx EXCEPT ![u] = p]
    BY Zenon
  <1> HIDE DEF p, R
  <1>4. ctx' \in [Ues -> R] /\ ctx'[u] = p /\ \A v \in Ues : v # u => ctx'[v] = ctx[v]
    BY <1>1, <1>2, <1>3, Updated
  <1> QED BY <1>2, <1>4, Zenon DEF R

\* The keys of a UE after a security mode command.
LEMMA NewKnas ==
    ASSUME TypeOK, NEW u \in Ues, NEW k \in Keys, ctx' = [ctx EXCEPT ![u].knas = k]
    PROVE  /\ ctx' \in [Ues -> [kamf : Keys, knas : Keys]]
           /\ \A v \in Ues : v # u => ctx'[v] = ctx[v]
           /\ ctx'[u].knas = k /\ ctx'[u].kamf = ctx[u].kamf
  <1> DEFINE R == [kamf : Keys, knas : Keys]
             p == [ctx[u] EXCEPT !.knas = k]
  <1>1. ctx \in [Ues -> R] /\ ctx[u] \in R
    BY DEF TypeOK
  <1>2. p \in R /\ p.knas = k /\ p.kamf = ctx[u].kamf
    BY <1>1, NewKey
  <1>3. ctx' = [ctx EXCEPT ![u] = p]
    BY Zenon
  <1> HIDE DEF p, R
  <1>4. ctx' \in [Ues -> R] /\ ctx'[u] = p /\ \A v \in Ues : v # u => ctx'[v] = ctx[v]
    BY <1>1, <1>2, <1>3, Updated
  <1> QED BY <1>2, <1>4, Zenon DEF R

\* The handlers of NAS messages.
Handles(u) ==
    \/ OnAuthRequest(u) \/ OnSecurityMode(u) \/ OnAccept(u) \/ OnContextSetup(u)
    \/ OnReject(u) \/ OnDeregAccept(u)

\* The UE a handler finds.
LEMMA Found ==
    ASSUME TypeOK, Receiver, NEW u \in Ues, NEW t, FindUe(u, t)
    PROVE  /\ rx.pc = "run" /\ rx.msg.type = t /\ rx.msg \in Downlink
           /\ rx.on \in Conns /\ ueMap[rx.on] = u
           /\ amfId' \in [Ues -> 0..MaxConn]
           /\ rx' = RxIdle
           /\ UNCHANGED <<ran, test, ueMap, ranCounter, dl, amfV>>
  BY Constants DEF FindUe, Receiver, TypeOK

\* The answer to a Registration Accept.
LEMMA Acceptance ==
    ASSUME TypeOK, NEW f \in [Conns -> Seq(Uplink)], NEW u \in Ues, Accepted(f, u),
           rx.on \in Conns
    PROVE  /\ ul' \in [Conns -> Seq(Uplink)]
           /\ state' \in [Ues -> States]
           /\ UNCHANGED <<ctx, rejected>>
           /\ \A v \in Ues : v # u => state'[v] = state[v]
           /\ state'[u] \in {"REGISTERED", state[u]}
           /\ ran[u] = 0 => state'[u] = state[u]
           /\ \A d \in Conns : d # ran[u] => ul'[d] = f[d]
           /\ \A d \in Conns : \A i \in 1..Len(ul'[d]) :
                 \/ i \in 1..Len(f[d]) /\ ul'[d][i] = f[d][i]
                 \/ ul'[d][i].type = "RegComplete"
  <1> DEFINE m == [type |-> "RegComplete", to |-> rx.on, key |-> ctx[u].knas]
  <1>1. m \in Uplink /\ m.type = "RegComplete"
    BY UplinkMessages DEF TypeOK
  <1>2. SendUplink(f, u, m)
    BY DEF Accepted
  <1> HIDE DEF m
  <1>3. /\ ul' \in [Conns -> Seq(Uplink)]
        /\ \A d \in Conns : d # ran[u] => ul'[d] = f[d]
        /\ \A d \in Conns : \A i \in 1..Len(ul'[d]) :
              \/ i \in 1..Len(f[d]) /\ ul'[d][i] = f[d][i]
              \/ m \in Uplink /\ ul'[d][i] = m
    BY <1>1, <1>2, SendOne
  <1>4. \A d \in Conns : \A i \in 1..Len(ul'[d]) :
           (i \in 1..Len(f[d]) /\ ul'[d][i] = f[d][i]) \/ ul'[d][i].type = "RegComplete"
    BY <1>1, <1>3
  <1>5. /\ state' \in [Ues -> States]
        /\ UNCHANGED <<ctx, rejected>>
        /\ \A v \in Ues : v # u => state'[v] = state[v]
        /\ state'[u] \in {"REGISTERED", state[u]}
        /\ ran[u] = 0 => state'[u] = state[u]
    BY DEF Accepted, SetState, States, TypeOK
  <1> QED BY <1>3, <1>4, <1>5

\* What a handler of the receive thread finds and leaves alone, what it sends, and
\* what it does to the UE.
HandlerFrame(u) ==
    /\ rx.pc = "run" /\ rx.msg \in Downlink /\ rx.msg.type # "Release"
    /\ rx.on \in Conns /\ ueMap[rx.on] = u /\ rx' = RxIdle
    /\ UNCHANGED <<ran, test, ueMap, ranCounter, dl, amfV>>
    /\ amfId' \in [Ues -> 0..MaxConn]
    /\ state' \in [Ues -> States]
    /\ rejected' \in [Ues -> BOOLEAN]
    /\ ctx' \in [Ues -> [kamf : Keys, knas : Keys]]
    /\ ul' \in [Conns -> Seq(Uplink)]
    /\ \A v \in Ues : v # u =>
          state'[v] = state[v] /\ rejected'[v] = rejected[v] /\ ctx'[v] = ctx[v]
    /\ \A d \in Conns : d \notin {ran[u], rx.on} => ul'[d] = ul[d]

HandlerSends(u) ==
    \A d \in Conns : \A i \in 1..Len(ul'[d]) :
        \/ i \in 1..Len(ul[d]) /\ ul'[d][i] = ul[d][i]
        \/ ul'[d][i].type \in {"AuthFailure", "RegComplete", "SetupResponse"}
        \/ /\ ul'[d][i].type = "AuthResponse" /\ rx.msg.type = "AuthRequest"
           /\ ul'[d][i].to = rx.on /\ ul'[d][i].key = rx.msg.key
           /\ ctx'[u].kamf = rx.msg.key
        \/ /\ ul'[d][i].type = "SecurityComplete" /\ rx.msg.type = "SecurityMode"
           /\ ul'[d][i].to = rx.on

HandlerKeys(u) ==
    /\ rx.msg.type = "AuthRequest" =>
          /\ ctx'[u].knas = ctx[u].knas
          /\ ctx'[u].kamf \in {ctx[u].kamf, rx.msg.key}
    /\ rx.msg.type = "SecurityMode" =>
          ctx'[u].kamf = ctx[u].kamf /\ ctx'[u].knas = ctx[u].kamf
    /\ rx.msg.type \notin {"AuthRequest", "SecurityMode"} => ctx' = ctx

HandlerState(u) ==
    /\ rx.msg.type \in Farewell => state'[u] = "DEREGISTERED"
    /\ state'[u] = "REGISTERED" => state[u] = "REGISTERED" \/ ran[u] # 0
    /\ \/ rx.msg.type \in Farewell
       \/ rejected'[u] = rejected[u] /\ (state'[u] = state[u] \/ state'[u] # "DEREGISTERED")

\* Every handler is described by these four predicates.
LEMMA HandlerEffect ==
    ASSUME TypeOK, Receiver, NEW u \in Ues, Handles(u)
    PROVE  HandlerFrame(u) /\ HandlerSends(u) /\ HandlerKeys(u) /\ HandlerState(u)
  <1>0. ul \in [Conns -> Seq(Uplink)]
    BY DEF TypeOK
  <1>1. CASE OnAuthRequest(u)
    <2>1. FindUe(u, "AuthRequest")
      BY <1>1 DEF OnAuthRequest
    <2>f. /\ rx.pc = "run" /\ rx.msg.type = "AuthRequest" /\ rx.msg \in Downlink
          /\ rx.on \in Conns /\ ueMap[rx.on] = u
          /\ amfId' \in [Ues -> 0..MaxConn]
          /\ rx' = RxIdle
          /\ UNCHANGED <<ran, test, ueMap, ranCounter, dl, amfV>>
      BY <2>1, Found
    <2> DEFINE m == [type |-> "AuthResponse", to |-> rx.on, key |-> rx.msg.key]
               n == [type |-> "AuthFailure", to |-> rx.on]
    <2>2. rx.on \in Conns /\ rx.msg.key \in Keys
      BY <2>1, Found, DownlinkFields
    <2>3. /\ m \in Uplink /\ m.type = "AuthResponse" /\ m.to = rx.on /\ m.key = rx.msg.key
          /\ n \in Uplink /\ n.type = "AuthFailure"
      BY <2>2, UplinkMessages
    <2>4. \/ SendUplink(ul, u, m) /\ ctx' = [ctx EXCEPT ![u].kamf = rx.msg.key]
          \/ SendUplink(ul, u, n) /\ ctx' = ctx
      BY <1>1, Zenon DEF OnAuthRequest
    <2>5. UNCHANGED rejected /\ state' = [state EXCEPT ![u] = "AUTH_PENDING"]
      BY <1>1, Zenon DEF OnAuthRequest, SetState
    <2>g. /\ state' \in [Ues -> States] /\ state'[u] = "AUTH_PENDING"
          /\ \A v \in Ues : v # u => state'[v] = state[v]
          /\ rejected' = rejected /\ rejected' \in [Ues -> BOOLEAN]
      BY <2>5 DEF TypeOK, States
    <2> HIDE DEF m, n
    <2>6. CASE SendUplink(ul, u, m) /\ ctx' = [ctx EXCEPT ![u].kamf = rx.msg.key]
      <3>0. SendUplink(ul, u, m)
        BY <2>6, Zenon
      <3>1. /\ ul' \in [Conns -> Seq(Uplink)]
            /\ \A d \in Conns : d # ran[u] => ul'[d] = ul[d]
            /\ \A d \in Conns : \A i \in 1..Len(ul'[d]) :
                  \/ i \in 1..Len(ul[d]) /\ ul'[d][i] = ul[d][i]
                  \/ m \in Uplink /\ ul'[d][i] = m
        BY <1>0, <2>3, <3>0, SendOne
      <3>2. /\ ctx' \in [Ues -> [kamf : Keys, knas : Keys]]
            /\ \A v \in Ues : v # u => ctx'[v] = ctx[v]
            /\ ctx'[u].kamf = rx.msg.key /\ ctx'[u].knas = ctx[u].knas
        BY <2>2, <2>6, NewKamf, Zenon
      <3>a. HandlerFrame(u)
        BY <2>f, <2>3, <2>5, <3>1, <3>2, <2>g DEF HandlerFrame, States
      <3>b. HandlerSends(u)
        BY <2>f, <2>3, <2>5, <3>1, <3>2, <2>g DEF HandlerSends
      <3>c. HandlerKeys(u)
        BY <2>f, <2>3, <2>5, <3>1, <3>2, <2>g DEF HandlerKeys
      <3>d. HandlerState(u)
        BY <2>f, <2>3, <2>5, <3>1, <3>2, <2>g DEF HandlerState, Farewell
      <3> QED BY <3>a, <3>b, <3>c, <3>d
    <2>7. CASE SendUplink(ul, u, n) /\ ctx' = ctx
      <3>1. /\ ul' \in [Conns -> Seq(Uplink)]
            /\ \A d \in Conns : d # ran[u] => ul'[d] = ul[d]
            /\ \A d \in Conns : \A i \in 1..Len(ul'[d]) :
                  \/ i \in 1..Len(ul[d]) /\ ul'[d][i] = ul[d][i]
                  \/ n \in Uplink /\ ul'[d][i] = n
        BY <1>0, <2>3, <2>7, SendOne
      <3>a. HandlerFrame(u)
        BY <2>f, <2>3, <2>5, <2>7, <3>1, <2>g DEF HandlerFrame, TypeOK
      <3>b. HandlerSends(u)
        BY <2>f, <2>3, <2>5, <2>7, <3>1, <2>g DEF HandlerSends
      <3>c. HandlerKeys(u)
        BY <2>f, <2>3, <2>5, <2>7, <3>1, <2>g DEF HandlerKeys
      <3>d. HandlerState(u)
        BY <2>f, <2>3, <2>5, <2>7, <3>1, <2>g DEF HandlerState, Farewell
      <3> QED BY <3>a, <3>b, <3>c, <3>d
    <2> QED BY <2>4, <2>6, <2>7
  <1>2. CASE OnSecurityMode(u)
    <2>1. FindUe(u, "SecurityMode")
      BY <1>2, Zenon DEF OnSecurityMode
    <2>f. /\ rx.pc = "run" /\ rx.msg.type = "SecurityMode" /\ rx.msg \in Downlink
          /\ rx.on \in Conns /\ ueMap[rx.on] = u
          /\ amfId' \in [Ues -> 0..MaxConn]
          /\ rx' = RxIdle
          /\ UNCHANGED <<ran, test, ueMap, ranCounter, dl, amfV>>
      BY <2>1, Found
    <2> DEFINE m == [type |-> "SecurityComplete", to |-> rx.on, key |-> ctx'[u].knas]
    <2>2. ctx' = [ctx EXCEPT ![u].knas = ctx[u].kamf]
      BY <1>2, Zenon DEF OnSecurityMode
    <2>8. UNCHANGED rejected /\ state' = [state EXCEPT ![u] = "SEC_MODE_PENDING"]
      BY <1>2, Zenon DEF OnSecurityMode, SetState
    <2>g. /\ state' \in [Ues -> States] /\ state'[u] = "SEC_MODE_PENDING"
          /\ \A v \in Ues : v # u => state'[v] = state[v]
          /\ rejected' = rejected /\ rejected' \in [Ues -> BOOLEAN]
      BY <2>8 DEF TypeOK, States
    <2>3. /\ ctx' \in [Ues -> [kamf : Keys, knas : Keys]]
          /\ \A v \in Ues : v # u => ctx'[v] = ctx[v]
          /\ ctx'[u].knas = ctx[u].kamf /\ ctx'[u].kamf = ctx[u].kamf
      <3>1. ctx[u].kamf \in Keys
        BY DEF TypeOK
      <3>2. ctx' = [ctx EXCEPT ![u].knas = ctx[u].kamf]
        BY <2>2, Zenon
      <3> QED BY <3>1, <3>2, NewKnas, Zenon
    <2>4. m \in Uplink /\ m.type = "SecurityComplete" /\ m.to = rx.on
      BY <2>1, <2>3, Found, UplinkMessages
    <2>5. SendUplink(ul, u, m)
      BY <1>2, Zenon DEF OnSecurityMode
    <2>6. ul' = IF m.to # 0 /\ ran[u] # 0
                THEN [ul EXCEPT ![ran[u]] = Append(@, m)] ELSE ul
      BY <2>5 DEF SendUplink
    <2> HIDE DEF m
    <2>7. /\ ul' \in [Conns -> Seq(Uplink)]
          /\ \A d \in Conns : d # ran[u] => ul'[d] = ul[d]
          /\ \A d \in Conns : \A i \in 1..Len(ul'[d]) :
                \/ i \in 1..Len(ul[d]) /\ ul'[d][i] = ul[d][i]
                \/ ul'[d][i] = m
      <3>1. CASE ul' = ul
        BY <1>0, <3>1
      <3>2. CASE ul' # ul
        <4>1. ran[u] # 0 /\ ul' = [ul EXCEPT ![ran[u]] = Append(@, m)]
          BY <2>6, <3>2
        <4>2. ran[u] \in Conns
          BY <4>1 DEF TypeOK, Conns
        <4>3. /\ ul' \in [Conns -> Seq(Uplink)]
              /\ \A d \in Conns : d # ran[u] => ul'[d] = ul[d]
              /\ \A d \in Conns : \A i \in 1..Len(ul'[d]) :
                    (i \in 1..Len(ul[d]) /\ ul'[d][i] = ul[d][i]) \/ ul'[d][i] = m
          <5>1. m \in Uplink
            BY <2>4
          <5>0. PICK g : g = ul'
            OBVIOUS
          <5>3. g = [ul EXCEPT ![ran[u]] = Append(@, m)]
            BY <4>1, <5>0
          <5>2. /\ g \in [Conns -> Seq(Uplink)]
                /\ \A d \in Conns : d # ran[u] => g[d] = ul[d]
                /\ \A d \in Conns : \A i \in 1..Len(g[d]) :
                      (i \in 1..Len(ul[d]) /\ g[d][i] = ul[d][i]) \/ g[d][i] = m
            BY <1>0, <4>2, <5>1, <5>3, AppendUplink
          <5> QED BY <5>0, <5>2
        <4> QED BY <4>3
      <3> QED BY <3>1, <3>2
    <2>a. HandlerFrame(u)
      BY <2>f, <2>3, <2>4, <2>7, <2>8, <2>g DEF HandlerFrame, States
    <2>b. HandlerSends(u)
      BY <2>f, <2>3, <2>4, <2>7, <2>8, <2>g DEF HandlerSends
    <2>c. HandlerKeys(u)
      BY <2>f, <2>3, <2>4, <2>7, <2>8, <2>g DEF HandlerKeys
    <2>d. HandlerState(u)
      BY <2>f, <2>3, <2>4, <2>7, <2>8, <2>g DEF HandlerState, Farewell
    <2> QED BY <2>a, <2>b, <2>c, <2>d
  <1>3. CASE OnAccept(u)
    <2>1. FindUe(u, "Accept") /\ Accepted(ul, u)
      BY <1>3 DEF OnAccept
    <2>f. /\ rx.pc = "run" /\ rx.msg.type = "Accept" /\ rx.msg \in Downlink
          /\ rx.on \in Conns /\ ueMap[rx.on] = u
          /\ amfId' \in [Ues -> 0..MaxConn]
          /\ rx' = RxIdle
          /\ UNCHANGED <<ran, test, ueMap, ranCounter, dl, amfV>>
      BY <2>1, Found
    <2>2. rx.on \in Conns
      BY <2>1, Found
    <2>3. /\ ul' \in [Conns -> Seq(Uplink)]
          /\ state' \in [Ues -> States]
          /\ UNCHANGED <<ctx, rejected>>
          /\ \A v \in Ues : v # u => state'[v] = state[v]
          /\ state'[u] \in {"REGISTERED", state[u]}
          /\ ran[u] = 0 => state'[u] = state[u]
          /\ \A d \in Conns : d # ran[u] => ul'[d] = ul[d]
          /\ \A d \in Conns : \A i \in 1..Len(ul'[d]) :
                \/ i \in 1..Len(ul[d]) /\ ul'[d][i] = ul[d][i]
                \/ ul'[d][i].type = "RegComplete"
      BY <1>0, <2>1, <2>2, Acceptance
    <2>r. rejected' \in [Ues -> BOOLEAN] /\ ctx' \in [Ues -> [kamf : Keys, knas : Keys]]
      BY <2>3 DEF TypeOK
    <2>a. HandlerFrame(u)
      BY <2>f, <2>3, <2>r DEF HandlerFrame, States
    <2>b. HandlerSends(u)
      BY <2>f, <2>3, <2>r DEF HandlerSends
    <2>c. HandlerKeys(u)
      BY <2>f, <2>3, <2>r DEF HandlerKeys
    <2>d. HandlerState(u)
      BY <2>f, <2>3, <2>r DEF HandlerState, Farewell
    <2> QED BY <2>a, <2>b, <2>c, <2>d
  <1>4. CASE OnContextSetup(u)
    <2> DEFINE m == [type |-> "SetupResponse", to |-> rx.on]
               f == [ul EXCEPT ![rx.on] = Append(@, m)]
    <2>1. FindUe(u, "ContextSetup") /\ Accepted(f, u)
      BY <1>4 DEF OnContextSetup
    <2>f. /\ rx.pc = "run" /\ rx.msg.type = "ContextSetup" /\ rx.msg \in Downlink
          /\ rx.on \in Conns /\ ueMap[rx.on] = u
          /\ amfId' \in [Ues -> 0..MaxConn]
          /\ rx' = RxIdle
          /\ UNCHANGED <<ran, test, ueMap, ranCounter, dl, amfV>>
      BY <2>1, Found
    <2>2. rx.on \in Conns
      BY <2>1, Found
    <2>3. m \in Uplink /\ m.type = "SetupResponse"
      <3>1. 0 \in Keys
        BY Constants DEF Keys
      <3> QED BY <2>2, <3>1, UplinkMessages
    <2> HIDE DEF m
    <2>4. /\ f \in [Conns -> Seq(Uplink)]
          /\ \A d \in Conns : d # rx.on => f[d] = ul[d]
          /\ \A d \in Conns : \A i \in 1..Len(f[d]) :
                (i \in 1..Len(ul[d]) /\ f[d][i] = ul[d][i]) \/ f[d][i] = m
      <3>1. m \in Uplink
        BY <2>3
      <3>2. ASSUME NEW g, g = [ul EXCEPT ![rx.on] = Append(@, m)]
            PROVE  /\ g \in [Conns -> Seq(Uplink)]
                   /\ \A d \in Conns : d # rx.on => g[d] = ul[d]
                   /\ \A d \in Conns : \A i \in 1..Len(g[d]) :
                         (i \in 1..Len(ul[d]) /\ g[d][i] = ul[d][i]) \/ g[d][i] = m
        BY <1>0, <2>2, <3>1, <3>2, AppendUplink
      <3>3. f = [ul EXCEPT ![rx.on] = Append(@, m)]
        BY DEF f
      <3> QED BY <3>2, <3>3
    <2> HIDE DEF f
    <2>5. /\ ul' \in [Conns -> Seq(Uplink)]
          /\ state' \in [Ues -> States]
          /\ UNCHANGED <<ctx, rejected>>
          /\ \A v \in Ues : v # u => state'[v] = state[v]
          /\ state'[u] \in {"REGISTERED", state[u]}
          /\ ran[u] = 0 => state'[u] = state[u]
          /\ \A d \in Conns : d # ran[u] => ul'[d] = f[d]
          /\ \A d \in Conns : \A i \in 1..Len(ul'[d]) :
                \/ i \in 1..Len(f[d]) /\ ul'[d][i] = f[d][i]
                \/ ul'[d][i].type = "RegComplete"
      BY <2>1, <2>2, <2>4, Acceptance
    <2>6. ASSUME NEW d \in Conns, NEW i \in 1..Len(ul'[d])
          PROVE  \/ i \in 1..Len(ul[d]) /\ ul'[d][i] = ul[d][i]
                 \/ ul'[d][i].type \in {"RegComplete", "SetupResponse"}
      BY <2>3, <2>4, <2>5
    <2>7. \A d \in Conns : d \notin {ran[u], rx.on} => ul'[d] = ul[d]
      BY <2>4, <2>5
    <2>r. rejected' \in [Ues -> BOOLEAN] /\ ctx' \in [Ues -> [kamf : Keys, knas : Keys]]
      BY <2>5 DEF TypeOK
    <2>a. HandlerFrame(u)
      BY <2>f, <2>5, <2>6, <2>7, <2>r DEF HandlerFrame, States
    <2>b. HandlerSends(u)
      BY <2>f, <2>5, <2>6, <2>7, <2>r DEF HandlerSends
    <2>c. HandlerKeys(u)
      BY <2>f, <2>5, <2>6, <2>7, <2>r DEF HandlerKeys
    <2>d. HandlerState(u)
      BY <2>f, <2>5, <2>6, <2>7, <2>r DEF HandlerState, Farewell
    <2> QED BY <2>a, <2>b, <2>c, <2>d
  <1>5. CASE OnReject(u) \/ OnDeregAccept(u)
    <2>1. FindUe(u, "Reject") \/ FindUe(u, "AuthReject") \/ FindUe(u, "DeregAccept")
      BY <1>5 DEF OnReject, OnDeregAccept
    <2>2. /\ rx.pc = "run" /\ rx.msg.type \in Farewell /\ rx.msg \in Downlink
          /\ rx.on \in Conns /\ ueMap[rx.on] = u
          /\ amfId' \in [Ues -> 0..MaxConn]
          /\ rx' = RxIdle
          /\ UNCHANGED <<ran, test, ueMap, ranCounter, dl, amfV>>
      BY <2>1, Found DEF Farewell
    <2>3. /\ state' = [state EXCEPT ![u] = "DEREGISTERED"] /\ ctx' = ctx /\ ul' = ul
          /\ rejected' \in {rejected, [rejected EXCEPT ![u] = TRUE]}
      BY <1>5 DEF OnReject, OnDeregAccept, SetState
    <2>4. /\ state' \in [Ues -> States] /\ state'[u] = "DEREGISTERED"
          /\ \A v \in Ues : v # u => state'[v] = state[v]
      BY <2>3 DEF TypeOK, States
    <2>5. /\ rejected' \in [Ues -> BOOLEAN]
          /\ \A v \in Ues : v # u => rejected'[v] = rejected[v]
      BY <2>3 DEF TypeOK
    <2>a. HandlerFrame(u)
      BY <2>2, <2>3, <2>4, <2>5 DEF HandlerFrame, TypeOK, States, Farewell
    <2>b. HandlerSends(u)
      BY <2>2, <2>3, <2>4, <2>5 DEF HandlerSends, TypeOK
    <2>c. HandlerKeys(u)
      BY <2>2, <2>3, <2>4, <2>5 DEF HandlerKeys, Farewell
    <2>d. HandlerState(u)
      BY <2>2, <2>3, <2>4, <2>5 DEF HandlerState, TypeOK, Farewell
    <2> QED BY <2>a, <2>b, <2>c, <2>d
  <1> QED BY <1>1, <1>2, <1>3, <1>4, <1>5 DEF Handles

(***************************************************************************)
(* Effects of the AMF.                                                     *)
(***************************************************************************)
\* What the AMF's reading of a message does to the uplink.
Reads(c) ==
    /\ ul' \in [Conns -> Seq(Uplink)] /\ Sent' \subseteq Sent
    /\ \A d \in Conns : d # c => ul'[d] = ul[d]
    /\ ul[c] # <<>> /\ Len(ul'[c]) = Len(ul[c]) - 1
    /\ \A i \in 1..Len(ul'[c]) : ul'[c][i] = ul[c][i + 1]
    /\ Head(ul[c]) = ul[c][1] /\ ul[c][1] \in Sent /\ ul[c][1] \in Uplink

\* Connection t gains the messages s.
Gains(t, s) ==
    /\ dl' \in [Conns -> Seq(Downlink)]
    /\ \A d \in Conns : d # t => dl'[d] = dl[d]
    /\ Len(dl'[t]) = Len(dl[t]) + Len(s)
    /\ \A i \in 1..Len(dl[t]) : dl'[t][i] = dl[t][i]
    /\ \A k \in 1..Len(s) : dl'[t][Len(dl[t]) + k] = s[k]

\* The AMF's context of connection t enters phase p.
Turns(t, p) ==
    /\ amf' \in [Conns -> [phase : {"none", "auth", "smc", "accept", "registered",
                                    "releasing"}, key : Keys, ok : BOOLEAN]]
    /\ \A d \in Conns : d # t => amf'[d] = amf[d]
    /\ amf'[t].phase = p /\ amf'[t].key = amf[t].key
    /\ vectors' = vectors

Asks(t, ok) ==
    /\ amf' \in [Conns -> [phase : {"none", "auth", "smc", "accept", "registered",
                                    "releasing"}, key : Keys, ok : BOOLEAN]]
    /\ \A d \in Conns : d # t => amf'[d] = amf[d]
    /\ vectors' = vectors + 1 /\ vectors' \in Keys
    /\ amf'[t].phase = "auth" /\ amf'[t].key = vectors'
    /\ Gains(t, <<[type |-> "AuthRequest", key |-> vectors', ok |-> ok]>>)

Ends(t) ==
    /\ Turns(t, "releasing")
    /\ \/ Gains(t, <<[type |-> "Release"]>>)
       \/ \E x \in Farewell : Gains(t, <<[type |-> x], [type |-> "Release"]>>)

Commands(t) ==
    /\ amf[t].phase = "auth" /\ Turns(t, "smc")
    /\ Gains(t, <<[type |-> "SecurityMode"]>>)
    /\ \E m \in Sent : m.type = "AuthResponse" /\ m.to = t /\ m.key = amf[t].key

Accepts(t) ==
    /\ amf[t].phase = "smc" /\ Turns(t, "accept")
    /\ Gains(t, <<[type |-> "ContextSetup"]>>)
    /\ \E m \in Sent : m.type = "SecurityComplete" /\ m.to = t

Registers(t) ==
    /\ amf[t].phase = "accept" /\ Turns(t, "registered") /\ dl' = dl

Repeats(t) ==
    /\ amf' = amf /\ vectors' = vectors
    /\ \/ /\ amf[t].phase = "auth"
          /\ Gains(t, <<[type |-> "AuthRequest", key |-> amf[t].key, ok |-> amf[t].ok]>>)
       \/ amf[t].phase = "smc" /\ Gains(t, <<[type |-> "SecurityMode"]>>)
       \/ amf[t].phase = "accept" /\ Gains(t, <<[type |-> "Accept"]>>)

Ignores == amf' = amf /\ dl' = dl /\ vectors' = vectors

\* The AMF answers on a connection it has open, or on one whose Initial UE Message
\* it has just taken.
Turn(c) ==
    /\ UNCHANGED <<ue, test, ueMap, ranCounter, rx>>
    /\ \/ Reads(c) /\ Ignores
       \/ Reads(c) /\ \E t \in Conns : Commands(t) \/ Accepts(t) \/ Registers(t)
       \/ Reads(c) /\ \E t \in Conns : amf[t].phase \in Open /\ Ends(t)
       \/ Reads(c) /\ \E t \in Conns : amf[t].phase = "auth" /\ \E b \in BOOLEAN : Asks(t, b)
       \/ Reads(c) /\ ul[c][1].type = "Initial" /\ (Ends(c) \/ \E b \in BOOLEAN : Asks(c, b))
       \/ ul' = ul /\ Repeats(c)
       \/ ul' = ul /\ amf[c].phase \in Open /\ Ends(c)

\* The effect of AmfReads.
LEMMA ReadEffect ==
    ASSUME TypeOK, NEW c \in Conns, NEW t, AmfReads(c, t)
    PROVE  Reads(c) /\ ul[c][1].type = t
  <1>1. ul \in [Conns -> Seq(Uplink)] /\ ul[c] \in Seq(Uplink)
    BY DEF TypeOK
  <1>2. ul[c] # <<>> /\ Head(ul[c]).type = t /\ ul' = [ul EXCEPT ![c] = Tail(@)]
    BY DEF AmfReads
  <1>3. /\ Head(ul[c]) \in Uplink /\ Head(ul[c]) = ul[c][1] /\ Len(ul[c]) \in Nat \ {0}
        /\ Tail(ul[c]) \in Seq(Uplink) /\ Len(Tail(ul[c])) = Len(ul[c]) - 1
        /\ \A i \in 1..Len(ul[c]) - 1 : Tail(ul[c])[i] = ul[c][i + 1]
    BY <1>1, <1>2, TailOne
  <1>4. /\ ul' \in [Conns -> Seq(Uplink)] /\ ul'[c] = Tail(ul[c])
        /\ \A d \in Conns : d # c => ul'[d] = ul[d]
    BY <1>1, <1>2, <1>3
  <1>5. Sent' \subseteq Sent
    <2>1. ASSUME NEW d \in Conns, NEW i \in 1..Len(ul'[d])
          PROVE  \E j \in 1..Len(ul[d]) : ul[d][j] = ul'[d][i]
      <3>1. CASE d = c
        <4>1. i + 1 \in 1..Len(ul[c]) /\ ul'[c][i] = ul[c][i + 1]
          BY <1>3, <1>4, <2>1, <3>1
        <4> QED BY <3>1, <4>1
      <3>2. CASE d # c
        BY <1>4, <2>1, <3>2
      <3> QED BY <3>1, <3>2
    <2> QED BY <2>1 DEF Sent
  <1>6. ul[c][1] \in Sent
    BY <1>1, <1>3 DEF Sent
  <1> QED BY <1>2, <1>3, <1>4, <1>5, <1>6 DEF Reads

\* The effect of Down.
LEMMA DownEffect ==
    ASSUME TypeOK, NEW t \in Conns, NEW m \in Downlink, NEW n \in Downlink
    PROVE  /\ Down(t, <<m>>) => Gains(t, <<m>>)
           /\ Down(t, <<m, n>>) => Gains(t, <<m, n>>)
  <1>1. dl \in [Conns -> Seq(Downlink)] /\ dl[t] \in Seq(Downlink)
    BY DEF TypeOK
  <1>2. /\ dl[t] \o <<m>> \in Seq(Downlink) /\ Len(dl[t] \o <<m>>) = Len(dl[t]) + 1
        /\ \A i \in 1..Len(dl[t]) + 1 :
              (dl[t] \o <<m>>)[i] = IF i = Len(dl[t]) + 1 THEN m ELSE dl[t][i]
        /\ dl[t] \o <<m, n>> \in Seq(Downlink) /\ Len(dl[t] \o <<m, n>>) = Len(dl[t]) + 2
        /\ \A i \in 1..Len(dl[t]) + 2 :
              (dl[t] \o <<m, n>>)[i] = CASE i = Len(dl[t]) + 1 -> m
                                         [] i = Len(dl[t]) + 2 -> n
                                         [] OTHER -> dl[t][i]
    BY <1>1, ConcatShort
  <1>3. ASSUME Down(t, <<m>>) PROVE Gains(t, <<m>>)
    <2>1. dl' = [dl EXCEPT ![t] = @ \o <<m>>]
      BY <1>3 DEF Down
    <2>2. dl'[t] = dl[t] \o <<m>> /\ \A d \in Conns : d # t => dl'[d] = dl[d]
      BY <1>1, <2>1
    <2>3. dl' \in [Conns -> Seq(Downlink)]
      BY <1>1, <1>2, <2>1
    <2> QED BY <1>1, <1>2, <2>2, <2>3 DEF Gains
  <1>4. ASSUME Down(t, <<m, n>>) PROVE Gains(t, <<m, n>>)
    <2>1. dl' = [dl EXCEPT ![t] = @ \o <<m, n>>]
      BY <1>4 DEF Down
    <2>2. dl'[t] = dl[t] \o <<m, n>> /\ \A d \in Conns : d # t => dl'[d] = dl[d]
      BY <1>1, <2>1
    <2>3. dl' \in [Conns -> Seq(Downlink)]
      BY <1>1, <1>2, <2>1
    <2>4. \A i \in 1..Len(dl[t]) : dl'[t][i] = dl[t][i]
      BY <1>1, <1>2, <2>2
    <2>5. dl'[t][Len(dl[t]) + 1] = m /\ dl'[t][Len(dl[t]) + 2] = n
      BY <1>1, <1>2, <2>2
    <2> QED BY <1>1, <1>2, <2>2, <2>3, <2>4, <2>5 DEF Gains
  <1> QED BY <1>3, <1>4

\* A context record with its phase replaced.
LEMMA NewPhase ==
    ASSUME NEW P, NEW K, NEW r \in [phase : P, key : K, ok : BOOLEAN], NEW p \in P
    PROVE  /\ [r EXCEPT !.phase = p] \in [phase : P, key : K, ok : BOOLEAN]
           /\ [r EXCEPT !.phase = p].phase = p /\ [r EXCEPT !.phase = p].key = r.key
  OBVIOUS

\* The effect of Move.
LEMMA MoveEffect ==
    ASSUME TypeOK, NEW t \in Conns, vectors' = vectors,
           NEW p \in {"none", "auth", "smc", "accept", "registered", "releasing"},
           Move(t, p)
    PROVE  Turns(t, p)
  <1> DEFINE P == {"none", "auth", "smc", "accept", "registered", "releasing"}
             R == [phase : P, key : Keys, ok : BOOLEAN]
             r == [amf[t] EXCEPT !.phase = p]
  <1>1. amf \in [Conns -> R] /\ amf[t] \in R
    BY DEF TypeOK
  <1>2. r \in R /\ r.phase = p /\ r.key = amf[t].key
    BY <1>1, NewPhase
  <1>3. amf' = [amf EXCEPT ![t] = r]
    BY Zenon DEF Move
  <1> HIDE DEF r, R
  <1>4. amf' \in [Conns -> R] /\ amf'[t] = r /\ \A d \in Conns : d # t => amf'[d] = amf[d]
    BY <1>1, <1>2, <1>3, Updated
  <1> QED BY <1>2, <1>4, Zenon DEF Turns, R, P

\* The effect of Challenge.
LEMMA ChallengeEffect ==
    ASSUME TypeOK, NEW t \in Conns, Challenge(t)
    PROVE  \E b \in BOOLEAN : Asks(t, b)
  <1>1. vectors < MaxVectors /\ vectors' = vectors + 1
    BY DEF Challenge
  <1>2. vectors' \in Keys
    BY <1>1, Constants DEF TypeOK, Keys
  <1>3. PICK b \in BOOLEAN :
           /\ amf' = [amf EXCEPT ![t] = [phase |-> "auth", key |-> vectors', ok |-> b]]
           /\ Down(t, <<[type |-> "AuthRequest", key |-> vectors', ok |-> b]>>)
    BY DEF Challenge
  <1>4. /\ amf' \in [Conns -> [phase : {"none", "auth", "smc", "accept", "registered",
                                        "releasing"}, key : Keys, ok : BOOLEAN]]
        /\ \A d \in Conns : d # t => amf'[d] = amf[d]
        /\ amf'[t].phase = "auth" /\ amf'[t].key = vectors'
    BY <1>2, <1>3 DEF TypeOK
  <1>5. ASSUME NEW k \in Keys, Down(t, <<[type |-> "AuthRequest", key |-> k, ok |-> b]>>)
        PROVE  Gains(t, <<[type |-> "AuthRequest", key |-> k, ok |-> b]>>)
    <2>1. [type |-> "AuthRequest", key |-> k, ok |-> b] \in Downlink
      BY DownlinkMessages
    <2> QED BY <1>5, <2>1, DownEffect
  <1>6. Gains(t, <<[type |-> "AuthRequest", key |-> vectors', ok |-> b]>>)
    BY <1>2, <1>3, <1>5
  <1> QED BY <1>1, <1>2, <1>4, <1>6 DEF Asks

\* The effect of Refuse.
LEMMA RefuseEffect ==
    ASSUME TypeOK, NEW t \in Conns, NEW x \in Farewell, Refuse(t, x)
    PROVE  Ends(t)
  <1>1. [type |-> x] \in Downlink /\ [type |-> "Release"] \in Downlink
    BY DownlinkMessages DEF Farewell
  <1>2. Gains(t, <<[type |-> x], [type |-> "Release"]>>)
    BY <1>1, DownEffect DEF Refuse
  <1>3. Turns(t, "releasing")
    BY MoveEffect DEF Refuse
  <1> QED BY <1>2, <1>3 DEF Ends

\* Every step of the AMF is one of the effects above.
LEMMA AmfEffect ==
    ASSUME TypeOK, NEW c \in Conns, AmfUplink(c) \/ AmfResend(c) \/ AmfRelease(c)
    PROVE  Turn(c)
  <1> DEFINE m == ul[c][1]
  <1>1. ASSUME NEW t, AmfReads(c, t)
        PROVE  /\ Reads(c) /\ m.type = t /\ Head(ul[c]) = m /\ m \in Uplink /\ m \in Sent
               /\ t # "Initial" => m.to \in Conns
               /\ UNCHANGED <<ue, test, ueMap, ranCounter, rx>>
    <2>1. Reads(c) /\ m.type = t
      BY <1>1, ReadEffect
    <2>2. Head(ul[c]) = m /\ m \in Uplink /\ m \in Sent
      BY <2>1 DEF Reads
    <2>3. t # "Initial" => m.to \in Conns
      BY <2>1, <2>2, UplinkFields
    <2> QED BY <1>1, <2>1, <2>2, <2>3 DEF AmfReads
  <1> HIDE DEF m
  <1>2. CASE AmfInitial(c)
    <2>1. AmfReads(c, "Initial") /\ (Challenge(c) \/ Refuse(c, "Reject"))
      BY <1>2 DEF AmfInitial
    <2>2. Ends(c) \/ \E b \in BOOLEAN : Asks(c, b)
      BY <2>1, ChallengeEffect, RefuseEffect DEF Farewell
    <2> QED BY <1>1, <2>1, <2>2 DEF Turn, m
  <1>3. CASE AmfAuthFailure(c)
    <2>1. AmfReads(c, "AuthFailure")
      BY <1>3 DEF AmfAuthFailure
    <2>2. m.to \in Conns /\ Head(ul[c]) = m
      BY <1>1, <2>1
    <2>3. CASE amf[m.to].phase # "auth"
      BY <1>1, <1>3, <2>1, <2>2, <2>3 DEF AmfAuthFailure, Turn, Ignores
    <2>4. CASE amf[m.to].phase = "auth"
      <3>1. Challenge(m.to) \/ Refuse(m.to, "AuthReject")
        BY <1>3, <2>2, <2>4 DEF AmfAuthFailure
      <3>2. Ends(m.to) \/ \E b \in BOOLEAN : Asks(m.to, b)
        BY <2>2, <3>1, ChallengeEffect, RefuseEffect DEF Farewell
      <3> QED BY <1>1, <2>1, <2>2, <2>4, <3>2 DEF Turn, Open
    <2> QED BY <2>3, <2>4
  <1>4. CASE AmfAuthResponse(c)
    <2>1. AmfReads(c, "AuthResponse")
      BY <1>4 DEF AmfAuthResponse
    <2>2. m.to \in Conns /\ Head(ul[c]) = m /\ m \in Sent /\ m.type = "AuthResponse"
      BY <1>1, <2>1
    <2>3. CASE amf[m.to].phase # "auth"
      BY <1>1, <1>4, <2>1, <2>2, <2>3 DEF AmfAuthResponse, Turn, Ignores
    <2>4. CASE amf[m.to].phase = "auth" /\ m.key # amf[m.to].key
      <3>1. Refuse(m.to, "AuthReject")
        BY <1>4, <2>2, <2>4 DEF AmfAuthResponse
      <3>2. Ends(m.to)
        BY <2>2, <3>1, RefuseEffect DEF Farewell
      <3> QED BY <1>1, <2>1, <2>2, <2>4, <3>2 DEF Turn, Open
    <2>5. CASE amf[m.to].phase = "auth" /\ m.key = amf[m.to].key
      <3>1. /\ Move(m.to, "smc") /\ Down(m.to, <<[type |-> "SecurityMode"]>>)
            /\ vectors' = vectors
        BY <1>4, <2>2, <2>5 DEF AmfAuthResponse
      <3>2. Turns(m.to, "smc")
        BY <2>2, <3>1, MoveEffect
      <3>3. [type |-> "SecurityMode"] \in Downlink
        BY DownlinkMessages
      <3>4. Gains(m.to, <<[type |-> "SecurityMode"]>>)
        BY <2>2, <3>1, <3>3, DownEffect
      <3>5. Commands(m.to)
        BY <2>2, <2>5, <3>2, <3>4 DEF Commands
      <3> QED BY <1>1, <2>1, <2>2, <3>5 DEF Turn
    <2> QED BY <2>3, <2>4, <2>5
  <1>5. CASE AmfSecurityComplete(c)
    <2>1. AmfReads(c, "SecurityComplete")
      BY <1>5 DEF AmfSecurityComplete
    <2>2. m.to \in Conns /\ Head(ul[c]) = m /\ m \in Sent /\ m.type = "SecurityComplete"
      BY <1>1, <2>1
    <2>3. CASE ~Verified(m, {"smc"})
      BY <1>1, <1>5, <2>1, <2>2, <2>3 DEF AmfSecurityComplete, Turn, Ignores
    <2>4. CASE Verified(m, {"smc"})
      <3>1. /\ Move(m.to, "accept") /\ Down(m.to, <<[type |-> "ContextSetup"]>>)
            /\ vectors' = vectors /\ amf[m.to].phase = "smc"
        BY <1>5, <2>2, <2>4 DEF AmfSecurityComplete, Verified
      <3>2. Turns(m.to, "accept")
        BY <2>2, <3>1, MoveEffect
      <3>3. [type |-> "ContextSetup"] \in Downlink
        BY DownlinkMessages
      <3>4. Gains(m.to, <<[type |-> "ContextSetup"]>>)
        BY <2>2, <3>1, <3>3, DownEffect
      <3>5. Accepts(m.to)
        BY <2>2, <3>1, <3>2, <3>4 DEF Accepts
      <3> QED BY <1>1, <2>1, <2>2, <3>5 DEF Turn
    <2> QED BY <2>3, <2>4
  <1>6. CASE AmfRegComplete(c)
    <2>1. AmfReads(c, "RegComplete")
      BY <1>6 DEF AmfRegComplete
    <2>2. m.to \in Conns /\ Head(ul[c]) = m
      BY <1>1, <2>1
    <2>3. CASE ~Verified(m, {"accept"})
      BY <1>1, <1>6, <2>1, <2>2, <2>3 DEF AmfRegComplete, Turn, Ignores
    <2>4. CASE Verified(m, {"accept"})
      <3>1. /\ Move(m.to, "registered") /\ dl' = dl /\ vectors' = vectors
            /\ amf[m.to].phase = "accept"
        BY <1>6, <2>2, <2>4 DEF AmfRegComplete, Verified
      <3>2. Registers(m.to)
        BY <2>2, <3>1, MoveEffect DEF Registers
      <3> QED BY <1>1, <2>1, <2>2, <3>2 DEF Turn
    <2> QED BY <2>3, <2>4
  <1>7. CASE AmfDereg(c)
    <2>1. AmfReads(c, "Dereg")
      BY <1>7 DEF AmfDereg
    <2>2. m.to \in Conns /\ Head(ul[c]) = m
      BY <1>1, <2>1
    <2>3. CASE ~Verified(m, {"accept", "registered"})
      BY <1>1, <1>7, <2>1, <2>2, <2>3 DEF AmfDereg, Turn, Ignores
    <2>4. CASE Verified(m, {"accept", "registered"})
      <3>1. /\ Move(m.to, "releasing") /\ vectors' = vectors
            /\ \/ Down(m.to, <<[type |-> "Release"]>>)
               \/ Down(m.to, <<[type |-> "DeregAccept"], [type |-> "Release"]>>)
            /\ amf[m.to].phase \in Open
        BY <1>7, <2>2, <2>4 DEF AmfDereg, Verified, Open
      <3>2. Turns(m.to, "releasing")
        BY <2>2, <3>1, MoveEffect
      <3>3. [type |-> "DeregAccept"] \in Downlink /\ [type |-> "Release"] \in Downlink
        BY DownlinkMessages
      <3>6. \/ Gains(m.to, <<[type |-> "Release"]>>)
            \/ Gains(m.to, <<[type |-> "DeregAccept"], [type |-> "Release"]>>)
        BY <2>2, <3>1, <3>3, DownEffect
      <3>7. Ends(m.to)
        BY <3>2, <3>6 DEF Ends, Farewell
      <3> QED BY <1>1, <2>1, <2>2, <3>1, <3>7 DEF Turn
    <2> QED BY <2>3, <2>4
  <1>8. CASE AmfReleased(c)
    BY <1>1, <1>8 DEF AmfReleased, Turn, Ignores
  <1>9. CASE AmfResend(c)
    <2>1. /\ UNCHANGED <<ue, test, ueMap, ranCounter, rx, ul, amf, vectors, upsets>>
          /\ \/ /\ amf[c].phase = "auth"
                /\ Down(c, <<[type |-> "AuthRequest", key |-> amf[c].key, ok |-> amf[c].ok]>>)
             \/ amf[c].phase = "smc" /\ Down(c, <<[type |-> "SecurityMode"]>>)
             \/ amf[c].phase = "accept" /\ Down(c, <<[type |-> "Accept"]>>)
      BY <1>9 DEF AmfResend
    <2>2. amf[c].key \in Keys /\ amf[c].ok \in BOOLEAN
      BY DEF TypeOK
    <2>3. /\ [type |-> "AuthRequest", key |-> amf[c].key, ok |-> amf[c].ok] \in Downlink
          /\ [type |-> "SecurityMode"] \in Downlink /\ [type |-> "Accept"] \in Downlink
      BY <2>2, DownlinkMessages
    <2>4. Repeats(c)
      BY <2>1, <2>3, DownEffect DEF Repeats
    <2> QED BY <2>1, <2>4 DEF Turn
  <1>10. CASE AmfRelease(c)
    <2>1. /\ amf[c].phase \in Open /\ Move(c, "releasing") /\ vectors' = vectors
          /\ Down(c, <<[type |-> "Release"]>>) /\ ul' = ul
          /\ UNCHANGED <<ue, test, ueMap, ranCounter, rx>>
      BY <1>10 DEF AmfRelease, Open
    <2>2. [type |-> "Release"] \in Downlink
      BY DownlinkMessages
    <2>3. Ends(c)
      BY <2>1, <2>2, MoveEffect, DownEffect DEF Ends
    <2> QED BY <2>1, <2>3 DEF Turn
  <1> QED BY <1>2, <1>3, <1>4, <1>5, <1>6, <1>7, <1>8, <1>9, <1>10 DEF AmfUplink

\* A handler preserves the types.
LEMMA TypeHandler ==
    ASSUME TypeOK, Receiver, NEW u \in Ues, Handles(u)
    PROVE  TypeOK'
  <1>1. HandlerFrame(u)
    BY HandlerEffect
  <1>2. RxIdle \in [pc : {"idle", "run", "release", "clear"}, on : 0..MaxConn,
                    msg : Downlink, ue : Ues \cup {NoUe}]
    BY DownlinkMessages, Constants DEF RxIdle
  <1> QED BY <1>1, <1>2 DEF HandlerFrame, TypeOK, amfV

\* A step of the AMF preserves the types.
LEMMA TypeAmf ==
    ASSUME TypeOK, NEW c \in Conns, AmfUplink(c) \/ AmfResend(c) \/ AmfRelease(c)
    PROVE  TypeOK'
  <1>1. Turn(c)
    BY AmfEffect
  <1>2. UNCHANGED <<ue, test, ueMap, ranCounter, rx>>
    BY <1>1 DEF Turn
  <1>3. /\ ul' \in [Conns -> Seq(Uplink)]
        /\ amf' \in [Conns -> [phase : {"none", "auth", "smc", "accept", "registered",
                                        "releasing"}, key : Keys, ok : BOOLEAN]]
        /\ dl' \in [Conns -> Seq(Downlink)]
        /\ vectors' \in Keys
    <2>1. ul' \in [Conns -> Seq(Uplink)]
      BY <1>1 DEF Turn, Reads, TypeOK
    <2>2. \/ Ignores
          \/ \E t \in Conns : \/ Commands(t) \/ Accepts(t) \/ Registers(t) \/ Ends(t)
                              \/ Repeats(t) \/ \E b \in BOOLEAN : Asks(t, b)
      BY <1>1 DEF Turn
    <2>3. CASE Ignores
      BY <2>1, <2>3 DEF Ignores, TypeOK
    <2>4. ASSUME NEW t \in Conns,
                 \/ Commands(t) \/ Accepts(t) \/ Registers(t) \/ Ends(t)
                 \/ Repeats(t) \/ \E b \in BOOLEAN : Asks(t, b)
          PROVE  /\ amf' \in [Conns -> [phase : {"none", "auth", "smc", "accept",
                                   "registered", "releasing"}, key : Keys, ok : BOOLEAN]]
                 /\ dl' \in [Conns -> Seq(Downlink)]
                 /\ vectors' \in Keys
      BY <2>4 DEF Commands, Accepts, Registers, Ends, Repeats, Asks, Turns, Gains, TypeOK
    <2> QED BY <2>1, <2>2, <2>3, <2>4
  <1>4. resent' \in 0..MaxResend /\ upsets' \in 0..MaxUpsets
    <2>1. CASE AmfUplink(c)
      BY <2>1 DEF AmfUplink, AmfInitial, AmfAuthFailure, AmfAuthResponse, AmfSecurityComplete,
                  AmfRegComplete, AmfDereg, AmfReleased, AmfReads, TypeOK
    <2>2. CASE AmfResend(c)
      <3>1. resent < MaxResend /\ resent' = resent + 1 /\ upsets' = upsets
        BY <2>2 DEF AmfResend
      <3> QED BY <3>1, Constants DEF TypeOK
    <2>3. CASE AmfRelease(c)
      <3>1. upsets < MaxUpsets /\ upsets' = upsets + 1 /\ resent' = resent
        BY <2>3 DEF AmfRelease
      <3> QED BY <3>1, Constants DEF TypeOK
    <2> QED BY <2>1, <2>2, <2>3
  <1> QED BY <1>2, <1>3, <1>4 DEF TypeOK, ue

(***************************************************************************)
(* The messages under way to the UE.                                       *)
(***************************************************************************)
\* The places of a connection are numbers.
LEMMA PlaceRange ==
    ASSUME TypeOK, NEW c \in Conns
    PROVE  /\ dl[c] \in Seq(Downlink) /\ Len(dl[c]) \in Nat
           /\ \A i \in Places(c) : i \in Nat /\ i <= Len(dl[c]) /\ At(c, i) \in Downlink
  <1>1. dl[c] \in Seq(Downlink) /\ Len(dl[c]) \in Nat
    BY DEF TypeOK
  <1>2. ASSUME NEW i \in Places(c)
        PROVE  i \in Nat /\ i <= Len(dl[c]) /\ At(c, i) \in Downlink
    <2>1. i \in 0..Len(dl[c])
      BY <1>2 DEF Places
    <2>2. CASE i = 0
      BY <2>1, <2>2 DEF At, TypeOK
    <2>3. CASE i # 0
      <3>1. i \in 1..Len(dl[c])
        BY <1>1, <2>1, <2>3
      <3>2. dl[c][i] \in Downlink
        BY <1>1, <3>1
      <3> QED BY <2>1, <2>3, <3>2 DEF At
    <2> QED BY <2>2, <2>3
  <1> QED BY <1>1, <1>2

\* Nothing changes on a connection.
LEMMA SamePlaces ==
    ASSUME NEW c \in Conns, rx' = rx, dl'[c] = dl[c]
    PROVE  Places(c)' = Places(c) /\ \A i \in Places(c) : At(c, i)' = At(c, i)
  BY DEF Places, At

\* The AMF sends on connection t.
LEMMA GainPlaces ==
    ASSUME TypeOK, rx' = rx, NEW t \in Conns, NEW s, Len(s) \in Nat, Gains(t, s),
           NEW d \in Conns, NEW i \in Places(d)'
    PROVE  \/ i \in Places(d) /\ At(d, i)' = At(d, i)
           \/ d = t /\ \E k \in 1..Len(s) : i = Len(dl[t]) + k /\ At(d, i)' = s[k]
  <1>1. CASE d # t
    BY <1>1, SamePlaces DEF Gains
  <1>2. CASE d = t
    <2>1. Len(dl[t]) \in Nat /\ Len(dl'[t]) = Len(dl[t]) + Len(s)
      BY PlaceRange DEF Gains
    <2>2. i \in 0..Len(dl'[t]) /\ (i = 0 => rx.pc = "run" /\ rx.on = t)
      BY <1>2 DEF Places
    <2>3. At(d, i)' = IF i = 0 THEN rx.msg ELSE dl'[t][i]
      BY <1>2 DEF At
    <2>4. CASE i <= Len(dl[t])
      BY <1>2, <2>1, <2>2, <2>3, <2>4 DEF Gains, Places, At
    <2>5. CASE i > Len(dl[t])
      <3>1. i - Len(dl[t]) \in 1..Len(s) /\ i = Len(dl[t]) + (i - Len(dl[t])) /\ i # 0
        BY <2>1, <2>2, <2>5
      <3> QED BY <1>2, <2>3, <3>1 DEF Gains
    <2> QED BY <2>1, <2>2, <2>4, <2>5
  <1> QED BY <1>1, <1>2

\* The receive thread takes the first message of connection c.
LEMMA TakePlaces ==
    ASSUME TypeOK, NEW c \in Conns, RxTake(c), NEW d \in Conns, NEW i \in Places(d)'
    PROVE  /\ d = c => /\ i + 1 \in Places(c) /\ At(c, i)' = At(c, i + 1)
                       /\ Len(dl'[c]) = Len(dl[c]) - 1
           /\ d # c => i \in Places(d) /\ At(d, i)' = At(d, i) /\ dl'[d] = dl[d]
  <1>1. /\ rx.pc = "idle" /\ dl[c] # <<>> /\ dl' = [dl EXCEPT ![c] = Tail(@)]
        /\ rx' = [pc |-> "run", on |-> c, msg |-> Head(dl[c]), ue |-> NoUe]
    BY DEF RxTake
  <1>2. /\ Head(dl[c]) = dl[c][1] /\ Len(dl[c]) \in Nat \ {0}
        /\ Len(Tail(dl[c])) = Len(dl[c]) - 1
        /\ \A j \in 1..Len(dl[c]) - 1 : Tail(dl[c])[j] = dl[c][j + 1]
    BY <1>1, TailOne, PlaceRange
  <1>3. dl'[c] = Tail(dl[c]) /\ \A e \in Conns : e # c => dl'[e] = dl[e]
    BY <1>1 DEF TypeOK
  <1>4. i \in 0..Len(dl'[d]) /\ (i = 0 => rx'.pc = "run" /\ rx'.on = d)
    BY DEF Places
  <1>5. At(d, i)' = IF i = 0 THEN rx'.msg ELSE dl'[d][i]
    BY DEF At
  <1>6. CASE d = c
    <2>0. i \in 0..(Len(dl[c]) - 1)
      BY <1>2, <1>3, <1>4, <1>6
    <2>1. i + 1 \in 1..Len(dl[c])
      BY <1>2, <2>0
    <2>2. At(c, i + 1) = dl[c][i + 1] /\ i + 1 \in Places(c)
      BY <1>2, <2>1 DEF At, Places
    <2>3. CASE i = 0
      <3>1. i + 1 = 1 /\ At(d, i)' = Head(dl[c])
        BY <1>1, <1>5, <2>3
      <3> QED BY <1>2, <1>3, <1>6, <2>2, <3>1
    <2>4. CASE i # 0
      <3>1. i \in 1..Len(dl[c]) - 1
        BY <1>2, <2>0, <2>4
      <3> QED BY <1>2, <1>3, <1>5, <1>6, <2>2, <2>4, <3>1
    <2> QED BY <2>3, <2>4
  <1>7. CASE d # c
    <2>1. i # 0
      BY <1>1, <1>4, <1>7
    <2> QED BY <1>3, <1>4, <1>5, <1>7, <2>1 DEF Places, At
  <1> QED BY <1>6, <1>7

\* The receive thread is done with the message it holds.
LEMMA DonePlaces ==
    ASSUME TypeOK, dl' = dl, rx'.pc # "run", NEW d \in Conns, NEW i \in Places(d)'
    PROVE  i \in Places(d) /\ i # 0 /\ At(d, i)' = At(d, i)
  BY DEF Places, At

(***************************************************************************)
(* The traffic: steps of the test thread.                                  *)
(***************************************************************************)
\* The traffic invariants read no other state.
LEMMA TrafficFrame ==
    ASSUME Traffic, UNCHANGED <<rx, dl, ul, amf, ueMap, ranCounter, ran>>
    PROVE  Traffic'
  BY DEF Traffic, Receiver, Streams, Links, Initials, Places, At, RxIdle, Open, Farewell

\* What AttachUe assigns.
LEMMA AttachEffect ==
    ASSUME TypeOK, Links, NEW u \in Ues, AttachUe(u)
    PROVE  /\ ranCounter + 1 \in Conns /\ ranCounter' = ranCounter + 1
           /\ ran'[u] = ranCounter + 1 /\ \A v \in Ues : v # u => ran'[v] = ran[v]
           /\ ueMap'[ranCounter + 1] = u /\ ueMap[ranCounter + 1] = NoUe
           /\ \A d \in Conns : d # ranCounter + 1 => ueMap'[d] = ueMap[d]
           /\ amf[ranCounter + 1].phase = "none" /\ ul[ranCounter + 1] = <<>>
  <1>1. /\ ranCounter \in Nat /\ ranCounter + 1 \in Conns /\ ranCounter < ranCounter + 1
    BY Constants DEF AttachUe, TypeOK
  <1>2. /\ amf[ranCounter + 1].phase = "none" /\ ul[ranCounter + 1] = <<>>
        /\ ueMap[ranCounter + 1] = NoUe
    BY <1>1 DEF Links
  <1> QED BY <1>1, <1>2 DEF AttachUe, TypeOK

\* A connection number the gNB has not used yet.
LEMMA Unused ==
    ASSUME TypeOK, Traffic, NEW c \in Conns, ueMap[c] = NoUe
    PROVE  /\ Places(c) = {} /\ ~InitialOn(c) /\ amf[c].phase \notin Open /\ Quiet(c)
           /\ \A u \in Ues : ran[u] # c
  <1>1. Places(c) = {}
    BY DEF Traffic, Streams
  <1>2. ~InitialOn(c)
    BY DEF Traffic, Initials, InitialOn
  <1>3. amf[c].phase \notin Open
    BY DEF Traffic, Links
  <1>4. \A u \in Ues : ran[u] # c
    BY Constants DEF Traffic, Links
  <1> QED BY <1>1, <1>2, <1>3, <1>4 DEF Quiet

\* A test that attaches its UE preserves the traffic invariants.
LEMMA TrafficAttach ==
    ASSUME TypeOK, Traffic, NEW u \in Ues, Attach(u)
    PROVE  Traffic'
  <1> USE DEF Traffic
  <1>1. AttachUe(u) /\ UNCHANGED <<rx, dl, ul, amf>>
    BY DEF Attach, amfV
  <1> DEFINE new == ranCounter + 1
  <1>2. /\ new \in Conns /\ ranCounter' = new
        /\ ran'[u] = new /\ \A v \in Ues : v # u => ran'[v] = ran[v]
        /\ ueMap'[new] = u /\ ueMap[new] = NoUe
        /\ \A d \in Conns : d # new => ueMap'[d] = ueMap[d]
        /\ amf[new].phase = "none" /\ ul[new] = <<>>
    BY <1>1, AttachEffect
  <1>3. \A d \in Conns : ueMap[d] # NoUe => ueMap'[d] = ueMap[d]
    BY <1>2
  <1>4. \A v \in Ues : ran[v] # 0 => ran[v] \in Conns /\ ueMap[ran[v]] = v
    BY Constants DEF TypeOK, Links
  <1>5. Receiver'
    BY <1>1, <1>3, Constants DEF Receiver, RxIdle
  <1>6. Streams'
    <2>1. ASSUME NEW c \in Conns
          PROVE  Places(c)' = Places(c) /\ \A i \in Places(c) : At(c, i)' = At(c, i)
      BY <1>1, SamePlaces
    <2> QED BY <1>1, <1>2, <2>1, Constants DEF Streams
  <1>7. Links'
    <2>1. ranCounter \in Nat /\ \A c \in Conns : c \in Nat
      BY Constants DEF TypeOK
    <2>2. \A c \in Conns : ueMap'[c] # NoUe => c <= ranCounter'
      BY <1>2, <2>1 DEF Links
    <2>3. \A c \in Conns : c > ranCounter' => amf'[c].phase = "none" /\ ul'[c] = <<>>
      BY <1>1, <1>2, <2>1 DEF Links
    <2>4. \A c \in Conns : amf'[c].phase \in Open => ueMap'[c] # NoUe
      BY <1>1, <1>3 DEF Links
    <2>5. \A v \in Ues : ran'[v] # 0 => ueMap'[ran'[v]] = v
      BY <1>2, <1>3, <1>4, Constants
    <2> QED BY <2>2, <2>3, <2>4, <2>5 DEF Links
  <1>8. Initials'
    BY <1>1, <1>3 DEF Initials
  <1> QED BY <1>5, <1>6, <1>7, <1>8

\* The test sends the Initial UE Message of u on connection c.
Sending(u, c) ==
    /\ ueMap'[c] = u /\ ueMap[c] \in {u, NoUe}
    /\ \A d \in Conns : d # c => ueMap'[d] = ueMap[d]
    /\ ran'[u] = c /\ \A v \in Ues : v # u => ran'[v] = ran[v]
    /\ c <= ranCounter' /\ ranCounter' >= ranCounter /\ ranCounter' \in Nat
    /\ amf[c].phase = "none" /\ ~InitialOn(c)
    /\ ul' = [ul EXCEPT ![c] = Append(@, [type |-> "Initial", ue |-> u])]
    /\ UNCHANGED <<rx, dl, amf>>

\* The connection on which a test sends its Initial UE Message.
LEMMA InitialEffect ==
    ASSUME TypeOK, Traffic, Before, NEW u \in Ues, SendInitial(u)
    PROVE  \E c \in Conns : Sending(u, c)
  <1>1. /\ ul' = [ul EXCEPT ![ran'[u]] = Append(@, [type |-> "Initial", ue |-> u])]
        /\ UNCHANGED <<rx, dl, amf>> /\ test[u] = "initiated"
    BY DEF SendInitial, amfV
  <1>2. CASE ran[u] = 0
    <2>1. AttachUe(u)
      BY <1>2 DEF SendInitial
    <2>2. ~InitialOn(ranCounter + 1)
      BY <2>1, AttachEffect, Unused DEF Traffic
    <2>3. ranCounter \in Nat
      BY Constants DEF TypeOK
    <2> DEFINE new == ranCounter + 1
    <2>4. /\ new \in Conns /\ ranCounter' = new
          /\ ran'[u] = new /\ \A v \in Ues : v # u => ran'[v] = ran[v]
          /\ ueMap'[new] = u /\ ueMap[new] = NoUe
          /\ \A d \in Conns : d # new => ueMap'[d] = ueMap[d]
          /\ amf[new].phase = "none"
      BY <2>1, AttachEffect DEF Traffic
    <2>5. new <= ranCounter' /\ ranCounter' >= ranCounter /\ ranCounter' \in Nat
      BY <2>3, <2>4
    <2> HIDE DEF new
    <2>6. Sending(u, new)
      BY <1>1, <2>2, <2>4, <2>5 DEF Sending, new
    <2> QED BY <2>4, <2>6
  <1>3. CASE ran[u] # 0
    <2>1. ran' = ran /\ ueMap' = ueMap /\ ranCounter' = ranCounter
      BY <1>3 DEF SendInitial
    <2>2. ran[u] \in Conns /\ ueMap[ran[u]] = u
      BY <1>3, Constants DEF TypeOK, Traffic, Links
    <2>3. AllQuiet(u) /\ amf[ran[u]].phase = "none"
      BY <1>1, <1>3 DEF Before, Starting
    <2>4. ~InitialOn(ran[u])
      BY <2>2, <2>3 DEF AllQuiet, Quiet
    <2>5. ran[u] <= ranCounter /\ ranCounter \in Nat
      BY <2>2, Constants DEF TypeOK, Traffic, Links
    <2>6. Sending(u, ran[u])
      BY <1>1, <2>1, <2>2, <2>3, <2>4, <2>5 DEF Sending
    <2> QED BY <2>2, <2>6
  <1> QED BY <1>2, <1>3

(***************************************************************************)
(* The phases of the connections.                                          *)
(***************************************************************************)
\* No step but the sending of an Initial UE Message wakes a connection.
Calm == \A c \in Conns : Quiet(c) => Quiet(c)'

\* A step of the receive thread or of the AMF that touches no UE.
LEMMA PhasesCalm ==
    ASSUME Phases, Links, Calm, UNCHANGED <<state, ran, rejected, test, ueMap>>,
           rx'.pc \in {"release", "clear"} => rx' = rx,
           \A c \in Conns : amf[c].phase = "none" /\ Quiet(c) => amf'[c].phase = "none",
           TypeOK
    PROVE  Phases'
  <1> USE DEF Phases
  <1>1. \A u \in Ues : AllQuiet(u) => AllQuiet(u)'
    BY DEF Calm, AllQuiet
  <1>2. Alone'
    BY DEF Calm, Alone
  <1>3. Current'
    BY DEF Calm, Current
  <1>4. Before'
    <2>1. ASSUME NEW u \in Ues, test[u] \in Starting, test[u] # "idle", ran[u] # 0
          PROVE  amf'[ran[u]].phase = "none"
      <3>1. ran[u] \in Conns /\ ueMap[ran[u]] = u
        BY <2>1, Constants DEF TypeOK, Links
      <3>2. AllQuiet(u) /\ amf[ran[u]].phase = "none"
        BY <2>1 DEF Before
      <3> QED BY <3>1, <3>2 DEF AllQuiet
    <2> QED BY <1>1, <2>1 DEF Before
  <1>5. Refused'
    BY <1>1 DEF Refused
  <1>6. Gone'
    BY <1>1 DEF Gone
  <1>7. Detached'
    BY <1>1 DEF Detached
  <1>8. Ending'
    <2>1. CASE rx'.pc \in {"release", "clear"}
      <3>1. rx' = rx
        BY <2>1
      <3>2. AllQuiet(rx.ue) => AllQuiet(rx.ue)'
        BY <3>1 DEF Calm, AllQuiet
      <3> QED BY <2>1, <3>1, <3>2 DEF Ending
    <2> QED BY <2>1 DEF Ending
  <1> QED BY <1>2, <1>3, <1>4, <1>5, <1>6, <1>7, <1>8

\* The receive thread takes a message.
LEMMA TakeCalm ==
    ASSUME TypeOK, NEW c \in Conns, RxTake(c)
    PROVE  Calm
  <1>1. UNCHANGED <<amf, ul>>
    BY DEF RxTake, amfV
  <1>2. ASSUME NEW d \in Conns, Quiet(d) PROVE Quiet(d)'
    <2>1. ASSUME NEW i \in Places(d)' PROVE At(d, i)'.type = "Release"
      BY <1>2, <2>1, TakePlaces DEF Quiet
    <2>2. amf'[d].phase \notin Open /\ ~InitialOn(d)'
      BY <1>1, <1>2 DEF Quiet, InitialOn
    <2> QED BY <2>1, <2>2 DEF Quiet
  <1> QED BY <1>2 DEF Calm

\* It preserves the phases.
LEMMA PhasesTake ==
    ASSUME TypeOK, Traffic, Phases, NEW c \in Conns, RxTake(c)
    PROVE  Phases'
  <1>1. UNCHANGED <<ue, test, ueMap, amf>> /\ rx'.pc = "run"
    BY DEF RxTake, amfV
  <1> QED BY <1>1, TakeCalm, PhasesCalm DEF Traffic, ue

\* What a step of the test thread that sends nothing does to the UE's state.
TestMoves(u) ==
    /\ test' = [test EXCEPT ![u] = test'[u]]
    /\ \/ /\ test[u] = "attached" /\ test'[u] = "initiated"
          /\ state' = [state EXCEPT ![u] = "REG_INITIATED"]
          /\ rejected' = [rejected EXCEPT ![u] = FALSE]
       \/ /\ test[u] = "checked" /\ test'[u] = "leaving"
          /\ state' = [state EXCEPT ![u] = "DEREGISTERING"] /\ rejected' = rejected
       \/ /\ test[u] = "waitReg" /\ state[u] = "REGISTERED" /\ test'[u] = "up"
          /\ UNCHANGED <<state, rejected>>
       \/ /\ test[u] = "waitReg" /\ rejected[u] /\ test'[u] = "idle"
          /\ UNCHANGED <<state, rejected>>
       \/ /\ test[u] \in Using /\ test'[u] \in Using \cup {"failed"}
          /\ UNCHANGED <<state, rejected>>
       \/ /\ test[u] \in Using /\ state[u] = "DEREGISTERED" /\ test'[u] = "idle"
          /\ UNCHANGED <<state, rejected>>
       \/ /\ test[u] \in {"waitReg", "waitDereg"} /\ test'[u] = "failed"
          /\ UNCHANGED <<state, rejected>>

\* The steps of the test thread other than Attach and SendInitial.
LEMMA TestEffect ==
    ASSUME TypeOK, NEW u \in Ues,
           \/ Register(u) \/ WaitRegistered(u) \/ WaitRejected(u) \/ CheckDeregister(u)
           \/ Deregister(u) \/ WaitDeregistered(u) \/ WaitTimeout(u)
           \/ \E switchOff \in BOOLEAN : SendDeregister(u, switchOff)
    PROVE  TestMoves(u) /\ UNCHANGED <<ran, ctx, ueMap, ranCounter, rx, dl, amf, vectors>>
  <1>1. CASE Register(u)
    BY <1>1 DEF Register, GoTo, SetState, TestMoves, amfV, TypeOK
  <1>2. CASE WaitRegistered(u)
    BY <1>2 DEF WaitRegistered, GoTo, TestMoves, amfV, TypeOK, ue
  <1>3. CASE WaitRejected(u)
    BY <1>3 DEF WaitRejected, GoTo, TestMoves, amfV, TypeOK, ue
  <1>4. CASE CheckDeregister(u)
    BY <1>4 DEF CheckDeregister, GoTo, TestMoves, amfV, TypeOK, Using, ue
  <1>5. CASE Deregister(u)
    BY <1>5 DEF Deregister, GoTo, SetState, TestMoves, amfV, TypeOK
  <1>6. CASE WaitDeregistered(u)
    BY <1>6 DEF WaitDeregistered, GoTo, TestMoves, amfV, TypeOK, Using, ue
  <1>7. CASE WaitTimeout(u)
    BY <1>7 DEF WaitTimeout, GoTo, TestMoves, TypeOK, ue
  <1>8. CASE \E switchOff \in BOOLEAN : SendDeregister(u, switchOff)
    BY <1>8 DEF SendDeregister, GoTo, TestMoves, amfV, TypeOK, Using, ue
  <1> QED BY <1>1, <1>2, <1>3, <1>4, <1>5, <1>6, <1>7, <1>8

\* They preserve what the test may conclude.
LEMMA PhasesTest ==
    ASSUME TypeOK, Phases, Receiver, Calm, NEW u \in Ues, TestMoves(u),
           UNCHANGED <<ran, ueMap, rx, amf>>
    PROVE  Phases'
  <1> USE DEF Phases
  <1>1. \A v \in Ues : AllQuiet(v) => AllQuiet(v)'
    BY DEF Calm, AllQuiet
  <1>2. /\ \A v \in Ues : v # u => /\ test'[v] = test[v] /\ state'[v] = state[v]
                                   /\ rejected'[v] = rejected[v]
        /\ \/ /\ test[u] = "attached" /\ test'[u] = "initiated"
              /\ state'[u] = "REG_INITIATED" /\ ~rejected'[u]
           \/ /\ test[u] = "checked" /\ test'[u] = "leaving"
              /\ state'[u] = "DEREGISTERING" /\ rejected'[u] = rejected[u]
           \/ /\ state'[u] = state[u] /\ rejected'[u] = rejected[u]
              /\ \/ test[u] = "waitReg" /\ state[u] = "REGISTERED" /\ test'[u] = "up"
                 \/ test[u] = "waitReg" /\ rejected[u] /\ test'[u] = "idle"
                 \/ test[u] \in Using /\ test'[u] \in Using \cup {"failed"}
                 \/ test[u] \in Using /\ state[u] = "DEREGISTERED" /\ test'[u] = "idle"
                 \/ test[u] \in {"waitReg", "waitDereg"} /\ test'[u] = "failed"
    BY DEF TestMoves, TypeOK
  <1>3. Alone' /\ Current'
    BY DEF Calm, Alone, Current
  <1>4. Before'
    <2>1. ASSUME NEW v \in Ues, v # u, test'[v] \in Starting
          PROVE  /\ AllQuiet(v)' /\ state'[v] # "REGISTERED"
                 /\ test'[v] \in {"idle", "attached"} => state'[v] = "DEREGISTERED"
                 /\ test'[v] # "idle" /\ ran'[v] # 0 => amf'[ran'[v]].phase = "none"
                 /\ test'[v] = "initiated" => ~rejected'[v]
      BY <1>1, <1>2, <2>1 DEF Before
    <2>2. ASSUME test'[u] \in Starting
          PROVE  /\ AllQuiet(u)' /\ state'[u] # "REGISTERED"
                 /\ test'[u] \in {"idle", "attached"} => state'[u] = "DEREGISTERED"
                 /\ test'[u] # "idle" /\ ran'[u] # 0 => amf'[ran'[u]].phase = "none"
                 /\ test'[u] = "initiated" => ~rejected'[u]
      <3>1. CASE test[u] = "attached" /\ test'[u] = "initiated" /\ state'[u] = "REG_INITIATED" /\ ~rejected'[u]
        BY <1>1, <2>2, <3>1 DEF Before, Starting
      <3>2. CASE state'[u] = state[u] /\ test'[u] = "idle" /\ test[u] = "waitReg" /\ rejected[u]
        BY <1>1, <2>2, <3>2 DEF Refused
      <3>3. CASE state'[u] = state[u] /\ test'[u] = "idle" /\ test[u] \in Using
                 /\ state[u] = "DEREGISTERED"
        BY <1>1, <2>2, <3>3 DEF Gone
      <3> QED BY <1>2, <2>2, <3>1, <3>2, <3>3 DEF Starting, Using
    <2> QED BY <2>1, <2>2 DEF Before
  <1>5. Refused'
    BY <1>1, <1>2 DEF Refused, Using
  <1>6. Gone'
    <2>1. ASSUME NEW v \in Ues, state'[v] = "DEREGISTERED", test'[v] \in Using
          PROVE  AllQuiet(v)
      BY <1>2, <2>1 DEF Gone, Using
    <2> QED BY <1>1, <2>1 DEF Gone
  <1>7. Detached'
    <2>1. ASSUME NEW v \in Ues, ran'[v] = 0, test'[v] \in Using \/ state'[v] = "REGISTERED"
          PROVE  AllQuiet(v)
      BY <1>2, <2>1 DEF Detached, Using
    <2> QED BY <1>1, <2>1 DEF Detached
  <1>8. Ending'
    <2>1. ASSUME rx.pc \in {"release", "clear"} PROVE rx.ue \in Ues
      BY <2>1 DEF Receiver
    <2>2. ASSUME rx.pc \in {"release", "clear"}, ~AllQuiet(rx.ue)
          PROVE  state'[rx.ue] # "REGISTERED" /\ test'[rx.ue] \in {"waitReg", "failed"}
      <3>1. state[rx.ue] # "REGISTERED" /\ test[rx.ue] \in {"waitReg", "failed"}
        BY <2>2 DEF Ending
      <3>2. ~(test[rx.ue] = "waitReg" /\ rejected[rx.ue])
        BY <2>1, <2>2 DEF Refused
      <3> QED BY <1>2, <2>1, <2>2, <3>1, <3>2 DEF Using
    <2>3. rx.pc \in {"release", "clear"} /\ AllQuiet(rx.ue) => AllQuiet(rx.ue)'
      BY <1>1, <2>1
    <2> QED BY <2>2, <2>3 DEF Ending
  <1> QED BY <1>3, <1>4, <1>5, <1>6, <1>7, <1>8

\* An attach preserves the phases: the new connection carries nothing.
LEMMA PhasesAttach ==
    ASSUME TypeOK, Traffic, Phases, NEW u \in Ues, Attach(u)
    PROVE  Phases'
  <1> USE DEF Phases
  <1>1. /\ AttachUe(u) /\ UNCHANGED <<state, rejected, rx, dl, ul, amf>>
        /\ test[u] = "idle" /\ test' = [test EXCEPT ![u] = "attached"]
    BY DEF Attach, GoTo, amfV
  <1> DEFINE new == ranCounter + 1
  <1>2. /\ new \in Conns /\ ran'[u] = new /\ \A v \in Ues : v # u => ran'[v] = ran[v]
        /\ ueMap'[new] = u /\ ueMap[new] = NoUe
        /\ \A d \in Conns : d # new => ueMap'[d] = ueMap[d]
        /\ amf[new].phase = "none"
    BY <1>1, AttachEffect DEF Traffic
  <1> HIDE DEF new
  <1>3. test'[u] = "attached" /\ \A v \in Ues : v # u => test'[v] = test[v]
    BY <1>1 DEF TypeOK
  <1>4. Quiet(new) /\ \A c \in Conns : Quiet(c)' = Quiet(c)
    <2>1. Quiet(new)
      BY <1>2, Unused
    <2>2. ASSUME NEW c \in Conns PROVE Quiet(c)' = Quiet(c)
      BY <1>1 DEF Quiet, InitialOn, Places, At
    <2> QED BY <2>1, <2>2
  <1>5. \A v \in Ues : AllQuiet(v) => AllQuiet(v)'
    BY <1>2, <1>4 DEF AllQuiet
  <1>6. AllQuiet(u) /\ state[u] = "DEREGISTERED"
    BY <1>1 DEF Before, Starting
  <1>7. Alone'
    BY <1>2, <1>4 DEF Alone
  <1>8. Current'
    BY <1>2, <1>4, <1>6 DEF Current, AllQuiet
  <1>9. Before'
    BY <1>1, <1>2, <1>3, <1>5, <1>6 DEF Before, Starting
  <1>10. Refused' /\ Gone'
    BY <1>1, <1>3, <1>5 DEF Refused, Gone, Using
  <1>11. Detached'
    BY <1>1, <1>2, <1>3, <1>5, <1>6 DEF Detached, Using
  <1>12. Ending'
    <2>1. ASSUME rx.pc \in {"release", "clear"} PROVE rx.ue \in Ues
      BY <2>1 DEF Traffic, Receiver
    <2> QED BY <1>1, <1>3, <1>5, <1>6, <2>1 DEF Ending
  <1> QED BY <1>7, <1>8, <1>9, <1>10, <1>11, <1>12

\* The sending of the Initial UE Message wakes one connection, of a UE that had
\* none awake.
LEMMA PhasesInitial ==
    ASSUME TypeOK, Traffic, Phases, NEW u \in Ues, SendInitial(u)
    PROVE  Phases'
  <1> USE DEF Phases
  <1>1. /\ UNCHANGED <<state, rejected>> /\ test[u] = "initiated"
        /\ test' = [test EXCEPT ![u] = "waitReg"]
    BY DEF SendInitial, GoTo
  <1>2. PICK c \in Conns : Sending(u, c)
    BY InitialEffect
  <1>3. test'[u] = "waitReg" /\ \A v \in Ues : v # u => test'[v] = test[v]
    BY <1>1 DEF TypeOK
  <1>4. /\ ueMap'[c] = u /\ ueMap[c] \in {u, NoUe}
        /\ \A d \in Conns : d # c => ueMap'[d] = ueMap[d]
        /\ ran'[u] = c /\ \A v \in Ues : v # u => ran'[v] = ran[v]
        /\ UNCHANGED <<rx, dl, amf>>
    BY <1>2 DEF Sending
  <1>5. \A d \in Conns : d # c => ul'[d] = ul[d]
    BY <1>2 DEF Sending, TypeOK
  <1>6. \A d \in Conns : d # c => Quiet(d)' = Quiet(d)
    BY <1>4, <1>5 DEF Quiet, InitialOn, Places, At
  <1>7. /\ AllQuiet(u) /\ state[u] # "REGISTERED" /\ ~rejected[u]
    BY <1>1 DEF Before, Starting
  <1>8. \A v \in Ues : v # u /\ AllQuiet(v) => AllQuiet(v)'
    BY <1>4, <1>6 DEF AllQuiet
  <1>9. \A d \in Conns : ueMap'[d] = u /\ ~Quiet(d)' => d = c
    BY <1>4, <1>6, <1>7 DEF AllQuiet
  <1>10. Alone'
    BY <1>4, <1>6, <1>9 DEF Alone
  <1>11. Current'
    BY <1>4, <1>6, <1>9 DEF Current
  <1>12. Before'
    BY <1>1, <1>3, <1>4, <1>8 DEF Before, Starting
  <1>13. Refused' /\ Gone'
    BY <1>1, <1>3, <1>7, <1>8 DEF Refused, Gone, Using
  <1>14. Detached'
    BY <1>1, <1>3, <1>4, <1>8, Constants DEF Detached, Using
  <1>15. Ending'
    <2>1. ASSUME rx.pc \in {"release", "clear"} PROVE rx.ue \in Ues
      BY <2>1 DEF Traffic, Receiver
    <2> QED BY <1>1, <1>3, <1>4, <1>7, <1>8, <2>1 DEF Ending
  <1> QED BY <1>10, <1>11, <1>12, <1>13, <1>14, <1>15

(***************************************************************************)
(* The traffic: what the UE and the AMF send.                              *)
(***************************************************************************)
\* No Initial UE Message is new.
NoInitial ==
    \A d \in Conns : \A i \in 1..Len(ul'[d]) :
        ul'[d][i].type = "Initial" => i \in 1..Len(ul[d]) /\ ul[d][i].type = "Initial"

\* The UE answers, or the gNB drops the mapping of a connection that is over.
LEMMA TrafficAnswer ==
    ASSUME TypeOK, Traffic, Receiver', NoInitial, UNCHANGED <<dl, amf, ranCounter>>,
           \A d \in Conns : \A i \in Places(d)' : i \in Places(d) /\ At(d, i)' = At(d, i),
           \A d \in Conns : ueMap[d] = NoUe => ul'[d] = ul[d],
           \A d \in Conns : ueMap'[d] # ueMap[d] =>
               /\ ueMap'[d] = NoUe /\ Places(d)' = {} /\ amf[d].phase = "releasing"
               /\ \A v \in Ues : ran'[v] # d,
           \A v \in Ues : ran'[v] \in {0, ran[v]}
    PROVE  Traffic'
  <1> USE DEF Traffic
  <1>1. Streams'
    <2>1. ASSUME NEW c \in Conns, NEW i \in Places(c)'
          PROVE  /\ ueMap'[c] # NoUe /\ amf'[c].phase # "none"
                 /\ At(c, i)'.type \in Farewell \cup {"Release"} => amf'[c].phase = "releasing"
                 /\ At(c, i)'.type = "Release" => i = Len(dl'[c])
                 /\ At(c, i)'.type \in Farewell =>
                       i + 1 = Len(dl'[c]) /\ dl'[c][i + 1].type = "Release"
      <3>1. i \in Places(c) /\ At(c, i)' = At(c, i) /\ ueMap'[c] = ueMap[c]
        BY <2>1
      <3> QED BY <3>1 DEF Streams
    <2> QED BY <2>1 DEF Streams
  <1>2. Links'
    <2>1. ASSUME NEW v \in Ues, ran'[v] # 0 PROVE ueMap'[ran'[v]] = v
      <3>1. ran'[v] = ran[v] /\ ran[v] \in 0..MaxConn
        BY <2>1 DEF TypeOK
      <3>2. ran[v] \in Conns
        BY <2>1, <3>1 DEF Conns
      <3>3. ueMap[ran[v]] = v
        BY <2>1, <3>1 DEF Links
      <3> QED BY <3>1, <3>2, <3>3
    <2>2. ASSUME NEW c \in Conns, c > ranCounter PROVE ueMap[c] = NoUe
      <3>1. c \in Int /\ ranCounter \in Int
        BY DEF TypeOK, Conns
      <3> QED BY <2>2, <3>1 DEF Links
    <2>3. \A c \in Conns : amf'[c].phase \in Open => ueMap'[c] # NoUe
      BY DEF Links, Open
    <2>4. \A c \in Conns : c > ranCounter' => amf'[c].phase = "none" /\ ul'[c] = <<>>
      BY <2>2 DEF Links
    <2>5. \A c \in Conns : ueMap'[c] # NoUe => c <= ranCounter'
      BY DEF Links
    <2> QED BY <2>1, <2>3, <2>4, <2>5 DEF Links
  <1>3. Initials'
    <2>1. ASSUME NEW c \in Conns, NEW i \in 1..Len(ul'[c]), ul'[c][i].type = "Initial"
          PROVE  /\ amf'[c].phase = "none" /\ ueMap'[c] # NoUe
                 /\ \A j \in 1..Len(ul'[c]) : ul'[c][j].type = "Initial" => j = i
      <3>1. i \in 1..Len(ul[c]) /\ ul[c][i].type = "Initial"
        BY <2>1 DEF NoInitial
      <3>2. amf[c].phase = "none" /\ ueMap[c] # NoUe
        BY <3>1 DEF Initials
      <3> QED BY <3>1, <3>2 DEF Initials, NoInitial
    <2> QED BY <2>1 DEF Initials
  <1> QED BY <1>1, <1>2, <1>3

\* The receive thread takes a message.
LEMMA TrafficTake ==
    ASSUME TypeOK, Traffic, NEW c \in Conns, RxTake(c)
    PROVE  Traffic'
  <1> USE DEF Traffic
  <1>1. /\ UNCHANGED <<ran, ueMap, ranCounter, amf, ul>>
        /\ rx' = [pc |-> "run", on |-> c, msg |-> Head(dl[c]), ue |-> NoUe]
    BY DEF RxTake, amfV, ue
  <1>2. Receiver'
    BY <1>1 DEF Receiver
  <1>3. Streams'
    <2>1. ASSUME NEW d \in Conns, NEW i \in Places(d)'
          PROVE  /\ ueMap'[d] # NoUe /\ amf'[d].phase # "none"
                 /\ At(d, i)'.type \in Farewell \cup {"Release"} => amf'[d].phase = "releasing"
                 /\ At(d, i)'.type = "Release" => i = Len(dl'[d])
                 /\ At(d, i)'.type \in Farewell =>
                       i + 1 = Len(dl'[d]) /\ dl'[d][i + 1].type = "Release"
      <3>1. CASE d # c
        BY <1>1, <3>1, TakePlaces DEF Streams
      <3>2. CASE d = c
        <4>1. /\ i + 1 \in Places(c) /\ At(c, i)' = At(c, i + 1)
              /\ Len(dl'[c]) = Len(dl[c]) - 1 /\ Len(dl[c]) \in Nat /\ i \in Nat
          BY <3>2, TakePlaces, PlaceRange DEF Places
        <4>2. /\ ueMap[c] # NoUe /\ amf[c].phase # "none"
              /\ At(c, i + 1).type \in Farewell \cup {"Release"} => amf[c].phase = "releasing"
              /\ At(c, i + 1).type = "Release" => i + 1 = Len(dl[c])
              /\ At(c, i + 1).type \in Farewell =>
                    (i + 1) + 1 = Len(dl[c]) /\ dl[c][(i + 1) + 1].type = "Release"
          BY <4>1 DEF Streams
        <4>3. ASSUME At(c, i + 1).type \in Farewell
              PROVE  i + 1 = Len(dl'[c]) /\ dl'[c][i + 1].type = "Release"
          <5>1. (i + 1) + 1 = Len(dl[c]) /\ dl[c][(i + 1) + 1].type = "Release"
            BY <4>2, <4>3
          <5>2. dl'[c] = Tail(dl[c]) /\ dl[c] # <<>> /\ dl[c] \in Seq(Downlink)
            BY DEF RxTake, TypeOK
          <5>3. i + 1 \in 1..Len(dl[c]) - 1
            BY <4>1, <5>1
          <5>4. dl'[c][i + 1] = dl[c][(i + 1) + 1]
            BY <5>2, <5>3, TailOne
          <5> QED BY <4>1, <5>1, <5>4
        <4> QED BY <1>1, <3>2, <4>1, <4>2, <4>3
      <3> QED BY <3>1, <3>2
    <2> QED BY <2>1 DEF Streams
  <1>4. Links' /\ Initials'
    BY <1>1 DEF Links, Initials
  <1> QED BY <1>2, <1>3, <1>4

\* The test sends its Initial UE Message.
LEMMA TrafficInitial ==
    ASSUME TypeOK, Traffic, Phases, NEW u \in Ues, SendInitial(u)
    PROVE  Traffic'
  <1> USE DEF Traffic
  <1>1. PICK c \in Conns : Sending(u, c)
    BY InitialEffect DEF Phases
  <1>2. /\ ueMap'[c] = u /\ ueMap[c] \in {u, NoUe}
        /\ \A d \in Conns : d # c => ueMap'[d] = ueMap[d]
        /\ ran'[u] = c /\ \A v \in Ues : v # u => ran'[v] = ran[v]
        /\ c <= ranCounter' /\ ranCounter' >= ranCounter /\ ranCounter' \in Nat
        /\ amf[c].phase = "none" /\ ~InitialOn(c)
        /\ UNCHANGED <<rx, dl, amf>>
    BY <1>1 DEF Sending
  <1>3. \A d \in Conns : ueMap[d] # NoUe => ueMap'[d] = ueMap[d]
    BY <1>2
  <1>4. Receiver'
    BY <1>2, <1>3, Constants DEF Receiver, RxIdle
  <1>5. Streams'
    <2>1. \A d \in Conns : Places(d)' = Places(d) /\ \A i \in Places(d) : At(d, i)' = At(d, i)
      BY <1>2, SamePlaces
    <2> QED BY <1>2, <1>3, <2>1 DEF Streams
  <1>6. /\ Len(ul[c]) \in Nat /\ Len(ul'[c]) = Len(ul[c]) + 1
        /\ \A i \in 1..Len(ul[c]) + 1 :
              ul'[c][i] = IF i = Len(ul[c]) + 1 THEN [type |-> "Initial", ue |-> u] ELSE ul[c][i]
        /\ \A d \in Conns : d # c => ul'[d] = ul[d]
    <2>1. ul[c] \in Seq(Uplink) /\ [type |-> "Initial", ue |-> u] \in Uplink
      BY DEF TypeOK, Uplink
    <2>2. ul'[c] = Append(ul[c], [type |-> "Initial", ue |-> u])
          /\ \A d \in Conns : d # c => ul'[d] = ul[d]
      BY <1>1 DEF Sending, TypeOK
    <2> QED BY <2>1, <2>2, AppendOne
  <1>7. Links'
    <2>0. ranCounter \in Nat /\ \A d \in Conns : d \in Nat
      BY Constants DEF TypeOK
    <2>1. \A d \in Conns : ueMap'[d] # NoUe => d <= ranCounter'
      BY <1>2, <2>0 DEF Links
    <2>2. \A d \in Conns : d > ranCounter' => amf'[d].phase = "none" /\ ul'[d] = <<>>
      BY <1>2, <1>6, <2>0 DEF Links
    <2>3. \A d \in Conns : amf'[d].phase \in Open => ueMap'[d] # NoUe
      BY <1>2, <1>3 DEF Links
    <2>4. ASSUME NEW v \in Ues, ran'[v] # 0 PROVE ueMap'[ran'[v]] = v
      <3>1. CASE v = u
        BY <1>2, <3>1
      <3>2. CASE v # u
        <4>1. ran'[v] = ran[v] /\ ran[v] \in 0..MaxConn
          BY <1>2, <3>2 DEF TypeOK
        <4>2. ran[v] \in Conns /\ ueMap[ran[v]] = v
          BY <2>4, <4>1 DEF Links, Conns
        <4> QED BY <1>3, <4>1, <4>2, Constants
      <3> QED BY <3>1, <3>2
    <2> QED BY <2>1, <2>2, <2>3, <2>4 DEF Links
  <1>8. Initials'
    <2>1. ASSUME NEW i \in 1..Len(ul'[c]), ul'[c][i].type = "Initial"
          PROVE  i = Len(ul[c]) + 1
      BY <1>2, <1>6, <2>1 DEF InitialOn
    <2>2. ASSUME NEW d \in Conns, d # c, NEW i \in 1..Len(ul'[d]), ul'[d][i].type = "Initial"
          PROVE  /\ amf'[d].phase = "none" /\ ueMap'[d] # NoUe
                 /\ \A j \in 1..Len(ul'[d]) : ul'[d][j].type = "Initial" => j = i
      BY <1>2, <1>3, <1>6, <2>2 DEF Initials
    <2> QED BY <1>2, <2>1, <2>2, Constants DEF Initials
  <1> QED BY <1>4, <1>5, <1>7, <1>8

(***************************************************************************)
(* The receive thread.                                                     *)
(***************************************************************************)
\* A connection stays quiet when nothing is added to what is under way on it.
LEMMA QuietKept ==
    ASSUME NoInitial, amf' = amf,
           \A d \in Conns : \A i \in Places(d)' : i \in Places(d) /\ At(d, i)' = At(d, i)
    PROVE  Calm
  BY DEF Calm, Quiet, InitialOn, NoInitial

\* The connection whose message a handler has taken was not quiet, and is the only
\* one of its UE.
LEMMA Handled ==
    ASSUME TypeOK, Traffic, Phases, rx.pc = "run", rx.msg.type # "Release",
           NEW u \in Ues, ueMap[rx.on] = u, rx.on \in Conns
    PROVE  /\ 0 \in Places(rx.on) /\ At(rx.on, 0) = rx.msg /\ ~Quiet(rx.on)
           /\ \A c \in Conns : ueMap[c] = u /\ ~Quiet(c) => c = rx.on
           /\ ~AllQuiet(u)
  <1>1. 0 \in Places(rx.on) /\ At(rx.on, 0) = rx.msg
    BY PlaceRange DEF Places, At
  <1>2. ~Quiet(rx.on)
    BY <1>1 DEF Quiet
  <1>3. ~AllQuiet(u)
    BY <1>2 DEF AllQuiet
  <1> QED BY <1>1, <1>2, <1>3, Constants DEF Phases, Alone

\* What a handler leaves under way.
LEMMA HandlerLeaves ==
    ASSUME TypeOK, NEW u \in Ues, HandlerFrame(u), HandlerSends(u)
    PROVE  /\ NoInitial /\ Calm
           /\ \A d \in Conns : \A i \in Places(d)' :
                 i \in Places(d) /\ i # 0 /\ At(d, i)' = At(d, i)
  <1>1. /\ dl' = dl /\ rx' = RxIdle /\ amf' = amf
    BY DEF HandlerFrame, amfV
  <1>2. \A d \in Conns : \A i \in Places(d)' : i \in Places(d) /\ i # 0 /\ At(d, i)' = At(d, i)
    BY <1>1, DonePlaces DEF RxIdle
  <1>3. NoInitial
    BY DEF HandlerSends, NoInitial
  <1> QED BY <1>1, <1>2, <1>3, QuietKept

\* A handler preserves the traffic invariants.
LEMMA TrafficHandler ==
    ASSUME TypeOK, Traffic, NEW u \in Ues, Handles(u)
    PROVE  Traffic'
  <1>1. HandlerFrame(u) /\ HandlerSends(u)
    BY HandlerEffect DEF Traffic
  <1>2. /\ NoInitial
        /\ \A d \in Conns : \A i \in Places(d)' : i \in Places(d) /\ At(d, i)' = At(d, i)
    BY <1>1, HandlerLeaves
  <1>3. /\ UNCHANGED <<ran, ueMap, ranCounter, dl, amf>> /\ rx' = RxIdle
        /\ ueMap[rx.on] = u /\ \A d \in Conns : d \notin {ran[u], rx.on} => ul'[d] = ul[d]
    BY <1>1 DEF HandlerFrame, amfV
  <1>4. Receiver'
    BY <1>3 DEF Receiver, RxIdle
  <1>5. ASSUME NEW d \in Conns, ueMap[d] = NoUe PROVE ul'[d] = ul[d]
    <2>1. d # rx.on
      BY <1>3, <1>5, Constants
    <2>2. d # ran[u]
      BY <1>5, Unused
    <2> QED BY <1>3, <2>1, <2>2
  <1>6. \A v \in Ues : ran'[v] \in {0, ran[v]}
    BY <1>3
  <1> QED BY <1>2, <1>3, <1>4, <1>5, <1>6, TrafficAnswer

\* A message that ends the registration leaves the only connection of the UE quiet.
LEMMA FarewellQuiets ==
    ASSUME TypeOK, Traffic, Phases, NEW u \in Ues, Handles(u), rx.msg.type \in Farewell
    PROVE  AllQuiet(u)'
  <1>1. HandlerFrame(u) /\ HandlerSends(u) /\ HandlerState(u)
    BY HandlerEffect DEF Traffic
  <1>2. /\ Calm
        /\ \A d \in Conns : \A i \in Places(d)' :
              i \in Places(d) /\ i # 0 /\ At(d, i)' = At(d, i)
    BY <1>1, HandlerLeaves
  <1>3. /\ UNCHANGED <<ran, test, ueMap, ranCounter, dl, amf>> /\ rx' = RxIdle
        /\ rx.pc = "run" /\ rx.msg.type # "Release"
        /\ ueMap[rx.on] = u /\ rx.on \in Conns
        /\ \A v \in Ues : v # u => state'[v] = state[v] /\ rejected'[v] = rejected[v]
    BY <1>1 DEF HandlerFrame, amfV
  <1>4. /\ 0 \in Places(rx.on) /\ At(rx.on, 0) = rx.msg /\ ~AllQuiet(u)
        /\ \A c \in Conns : ueMap[c] = u /\ ~Quiet(c) => c = rx.on
    BY <1>3, Handled
  <1>5. PICK on \in Conns : on = rx.on
    BY <1>3
  <1>6. /\ amf[on].phase = "releasing" /\ 0 + 1 = Len(dl[on])
        /\ dl[on][0 + 1].type = "Release"
    BY <1>3, <1>4, <1>5 DEF Traffic, Streams
  <1>7. ASSUME NEW i \in Places(on)' PROVE At(on, i)'.type = "Release"
    <2>1. i \in Places(on) /\ i # 0 /\ At(on, i)' = At(on, i)
      BY <1>2
    <2>2. i \in Nat /\ i <= Len(dl[on])
      BY <2>1, PlaceRange
    <2>a. Len(dl[on]) = 1 /\ i # 0
      BY <1>6, <2>1
    <2>3. i = 0 + 1
      BY <2>2, <2>a
    <2> QED BY <1>6, <2>1, <2>3 DEF At
  <1>8. ~InitialOn(on)
    BY <1>6 DEF InitialOn, Traffic, Initials
  <1>9. ~InitialOn(on)'
    BY <1>1, <1>8, HandlerLeaves DEF NoInitial, InitialOn
  <1>10. Quiet(on)'
    BY <1>3, <1>6, <1>7, <1>9 DEF Quiet, Open
  <1>11. \A c \in Conns : ueMap'[c] = u => c = on \/ Quiet(c)'
    BY <1>2, <1>3, <1>4, <1>5 DEF Calm
  <1> QED BY <1>10, <1>11 DEF AllQuiet

\* A handler preserves the phases: a message that ends the registration leaves the
\* only connection of the UE quiet.
LEMMA PhasesHandler ==
    ASSUME TypeOK, Traffic, Phases, NEW u \in Ues, Handles(u)
    PROVE  Phases'
  <1> USE DEF Phases
  <1>1. HandlerFrame(u) /\ HandlerSends(u) /\ HandlerState(u)
    BY HandlerEffect DEF Traffic
  <1>2. /\ Calm
        /\ \A d \in Conns : \A i \in Places(d)' :
              i \in Places(d) /\ i # 0 /\ At(d, i)' = At(d, i)
    BY <1>1, HandlerLeaves
  <1>3. /\ UNCHANGED <<ran, test, ueMap, ranCounter, dl, amf>> /\ rx' = RxIdle
        /\ rx.pc = "run" /\ rx.msg.type # "Release"
        /\ ueMap[rx.on] = u /\ rx.on \in Conns
        /\ \A v \in Ues : v # u => state'[v] = state[v] /\ rejected'[v] = rejected[v]
    BY <1>1 DEF HandlerFrame, amfV
  <1>4. /\ 0 \in Places(rx.on) /\ At(rx.on, 0) = rx.msg /\ ~AllQuiet(u)
        /\ \A c \in Conns : ueMap[c] = u /\ ~Quiet(c) => c = rx.on
    BY <1>3, Handled
  <1>5. rx.msg.type \in Farewell => AllQuiet(u)'
    BY FarewellQuiets
  <1>6. \A v \in Ues : AllQuiet(v) => AllQuiet(v)'
    BY <1>2, <1>3 DEF Calm, AllQuiet
  <1>7. /\ test[u] \notin Starting
        /\ ~(test[u] = "waitReg" /\ rejected[u])
        /\ ~(test[u] \in Using /\ state[u] = "DEREGISTERED")
        /\ ~(ran[u] = 0 /\ (test[u] \in Using \/ state[u] = "REGISTERED"))
    BY <1>4 DEF Before, Refused, Gone, Detached
  <1>8. /\ rx.msg.type \in Farewell => state'[u] = "DEREGISTERED"
        /\ state'[u] = "REGISTERED" => state[u] = "REGISTERED" \/ ran[u] # 0
        /\ rx.msg.type \notin Farewell => /\ rejected'[u] = rejected[u]
                                          /\ state'[u] = state[u] \/ state'[u] # "DEREGISTERED"
    BY <1>1 DEF HandlerState
  <1>9. Alone' /\ Current'
    BY <1>2, <1>3 DEF Calm, Alone, Current
  <1>10. Before'
    BY <1>3, <1>6, <1>7 DEF Before
  <1>11. Refused' /\ Gone'
    BY <1>3, <1>5, <1>6, <1>7, <1>8 DEF Refused, Gone
  <1>12. Detached'
    BY <1>3, <1>6, <1>7, <1>8 DEF Detached
  <1>13. Ending'
    BY <1>3 DEF Ending, RxIdle
  <1> QED BY <1>9, <1>10, <1>11, <1>12, <1>13

\* A release finds the connection it ends with nothing left on it.
LEMMA Released ==
    ASSUME TypeOK, Traffic, OnRelease
    PROVE  /\ rx.on \in Conns /\ ueMap[rx.on] \in Ues /\ amf[rx.on].phase = "releasing"
           /\ dl[rx.on] = <<>> /\ Quiet(rx.on)
           /\ Added({[type |-> "ReleaseComplete", to |-> rx.on]})
           /\ \A d \in Conns : d # rx.on => ul'[d] = ul[d]
           /\ UNCHANGED <<ue, test, ranCounter, dl, amfV>> /\ rx'.pc # "run"
           /\ rx.pc = "run" /\ rx.msg.type = "Release"
  <1> USE DEF Traffic
  <1>1. /\ rx.pc = "run" /\ rx.msg.type = "Release" /\ rx'.pc # "run"
        /\ ul' = [ul EXCEPT ![rx.on] = Append(@, [type |-> "ReleaseComplete", to |-> rx.on])]
        /\ UNCHANGED <<ue, test, ranCounter, dl, amfV>>
    BY DEF OnRelease, RxIdle
  <1>2. rx.on \in Conns
    BY <1>1 DEF Receiver
  <1>3. 0 \in Places(rx.on) /\ At(rx.on, 0) = rx.msg
    BY <1>1, <1>2, PlaceRange DEF Places, At
  <1>4. ueMap[rx.on] # NoUe /\ amf[rx.on].phase = "releasing" /\ 0 = Len(dl[rx.on])
    BY <1>1, <1>2, <1>3 DEF Streams
  <1>5. dl[rx.on] = <<>>
    BY <1>2, <1>4 DEF TypeOK
  <1>6. ~InitialOn(rx.on)
    BY <1>2, <1>4 DEF Initials, InitialOn
  <1>7. Quiet(rx.on)
    BY <1>1, <1>4, <1>6 DEF Quiet, Open, Places, At
  <1>8. /\ Added({[type |-> "ReleaseComplete", to |-> rx.on]})
        /\ \A d \in Conns : d # rx.on => ul'[d] = ul[d]
    <2> DEFINE m == [type |-> "ReleaseComplete", to |-> rx.on]
    <2>1. m \in Uplink /\ m.type # "Initial"
      BY <1>2 DEF Uplink
    <2> HIDE DEF m
    <2>2. PICK g : g = ul'
      OBVIOUS
    <2>3. ul \in [Conns -> Seq(Uplink)] /\ g = [ul EXCEPT ![rx.on] = Append(@, m)]
      BY <1>1, <2>2 DEF TypeOK, m
    <2>4. /\ \A d \in Conns : d # rx.on => g[d] = ul[d]
          /\ \A d \in Conns : \A i \in 1..Len(g[d]) :
                (i \in 1..Len(ul[d]) /\ g[d][i] = ul[d][i]) \/ g[d][i] = m
      BY <1>2, <2>1, <2>3, AppendUplink
    <2>5. /\ \A d \in Conns : \A i \in 1..Len(ul'[d]) :
                (i \in 1..Len(ul[d]) /\ ul'[d][i] = ul[d][i]) \/ ul'[d][i] = m
      BY <2>2, <2>4
    <2>6. Added({m})
      BY <2>1, <2>5 DEF Added, Sent
    <2> QED BY <2>2, <2>4, <2>6 DEF m
  <1> QED BY <1>1, <1>2, <1>4, <1>5, <1>7, <1>8 DEF TypeOK

\* What the three steps of the release leave under way, and the mapping they drop.
LEMMA ReleaseLeaves ==
    ASSUME TypeOK, Traffic, OnRelease \/ ReleaseState \/ ReleaseClear
    PROVE  /\ NoInitial /\ Calm /\ UNCHANGED <<dl, amf, ranCounter, ctx, vectors, test, rejected>>
           /\ \A d \in Conns : \A i \in Places(d)' : i \in Places(d) /\ At(d, i)' = At(d, i)
           /\ \A d \in Conns : ueMap[d] = NoUe => ul'[d] = ul[d]
           /\ \A v \in Ues : ran'[v] \in {0, ran[v]}
           /\ \A d \in Conns : ueMap'[d] # ueMap[d] =>
                 /\ d = rx.on /\ ueMap'[d] = NoUe /\ Places(d)' = {}
                 /\ amf[d].phase = "releasing" /\ \A v \in Ues : ran'[v] # d
           /\ Added({[type |-> "ReleaseComplete", to |-> rx.on]})
  <1> USE DEF Traffic
  <1>0. ul' = ul => NoInitial /\ Added({[type |-> "ReleaseComplete", to |-> rx.on]})
    BY DEF NoInitial, Added, Sent
  <1>1. CASE OnRelease
    <2>1. /\ rx.on \in Conns /\ ueMap[rx.on] \in Ues /\ amf[rx.on].phase = "releasing"
          /\ dl[rx.on] = <<>>
          /\ Added({[type |-> "ReleaseComplete", to |-> rx.on]})
          /\ \A d \in Conns : d # rx.on => ul'[d] = ul[d]
          /\ UNCHANGED <<ue, test, ranCounter, dl, amfV>> /\ rx'.pc # "run"
      BY <1>1, Released
    <2>2. \A d \in Conns : \A i \in Places(d)' : i \in Places(d) /\ i # 0 /\ At(d, i)' = At(d, i)
      BY <2>1, DonePlaces
    <2>3. NoInitial
      BY <2>1 DEF Added, NoInitial
    <2>4. Calm
      BY <2>1, <2>2, <2>3, QuietKept DEF amfV
    <2>5. ASSUME NEW d \in Conns, ueMap'[d] # ueMap[d]
          PROVE  /\ d = rx.on /\ ueMap'[d] = NoUe /\ Places(d)' = {}
                 /\ amf[d].phase = "releasing" /\ \A v \in Ues : ran'[v] # d
      <3>1. /\ ran[ueMap[rx.on]] \notin {0, rx.on} /\ ueMap' = [ueMap EXCEPT ![rx.on] = NoUe]
        BY <1>1, <2>5 DEF OnRelease
      <3>2. d = rx.on /\ ueMap'[d] = NoUe
        BY <2>1, <2>5, <3>1 DEF TypeOK
      <3>3. Places(d)' = {}
        BY <2>1, <3>2 DEF Places
      <3>4. \A v \in Ues : ran'[v] # d
        BY <2>1, <3>1, <3>2, Constants DEF Links, ue
      <3> QED BY <2>1, <3>2, <3>3, <3>4
    <2> QED BY <2>1, <2>2, <2>3, <2>4, <2>5, Constants DEF ue, amfV
  <1>2. CASE ReleaseState
    <2>1. /\ UNCHANGED <<ran, ctx, rejected, test, ueMap, ranCounter, dl, ul, amf, vectors>>
          /\ rx'.pc # "run"
      BY <1>2 DEF ReleaseState, amfV, TypeOK
    <2>2. \A d \in Conns : \A i \in Places(d)' : i \in Places(d) /\ i # 0 /\ At(d, i)' = At(d, i)
      BY <2>1, DonePlaces
    <2>3. Calm
      BY <1>0, <2>1, <2>2, QuietKept
    <2> QED BY <1>0, <2>1, <2>2, <2>3
  <1>3. CASE ReleaseClear
    <2>1. /\ UNCHANGED <<state, ctx, rejected, test, ranCounter, dl, ul, amf, vectors>>
          /\ rx'.pc # "run" /\ rx.pc = "clear"
          /\ ueMap' = [ueMap EXCEPT ![rx.on] = NoUe]
          /\ ran' = [ran EXCEPT ![rx.ue] = 0]
      BY <1>3 DEF ReleaseClear, amfV, RxIdle
    <2>2. \A d \in Conns : \A i \in Places(d)' : i \in Places(d) /\ i # 0 /\ At(d, i)' = At(d, i)
      BY <2>1, DonePlaces
    <2>3. Calm
      BY <1>0, <2>1, <2>2, QuietKept
    <2>4. /\ rx.on \in Conns /\ rx.ue \in Ues /\ ueMap[rx.on] = rx.ue
          /\ dl[rx.on] = <<>> /\ amf[rx.on].phase = "releasing"
      BY <2>1 DEF Receiver
    <2>5. ran'[rx.ue] = 0 /\ \A v \in Ues : v # rx.ue => ran'[v] = ran[v]
      BY <2>1, <2>4 DEF TypeOK
    <2>6. ASSUME NEW d \in Conns, ueMap'[d] # ueMap[d]
          PROVE  /\ d = rx.on /\ ueMap'[d] = NoUe /\ Places(d)' = {}
                 /\ amf[d].phase = "releasing" /\ \A v \in Ues : ran'[v] # d
      <3>2. d = rx.on /\ ueMap'[d] = NoUe
        BY <2>1, <2>4, <2>6 DEF TypeOK
      <3>3. Places(d)' = {}
        BY <2>1, <2>4, <3>2 DEF Places
      <3>4. \A v \in Ues : ran'[v] # d
        BY <2>4, <2>5, <3>2, Constants DEF Links
      <3> QED BY <2>4, <3>2, <3>3, <3>4
    <2>7. \A v \in Ues : ran'[v] \in {0, ran[v]}
      BY <2>5
    <2> QED BY <1>0, <2>1, <2>2, <2>3, <2>6, <2>7
  <1> QED BY <1>1, <1>2, <1>3

\* The steps of the release preserve the traffic invariants.
LEMMA TrafficRelease ==
    ASSUME TypeOK, Traffic, OnRelease \/ ReleaseState \/ ReleaseClear
    PROVE  Traffic'
  <1>1. Receiver'
    <2>1. CASE OnRelease
      <3>1. /\ rx.on \in Conns /\ ueMap[rx.on] \in Ues /\ amf[rx.on].phase = "releasing"
            /\ dl[rx.on] = <<>> /\ dl' = dl /\ amf' = amf
        BY <2>1, Released DEF amfV
      <3>2. \/ rx' = RxIdle
            \/ /\ rx' = [pc |-> "release", on |-> rx.on, msg |-> rx.msg, ue |-> ueMap[rx.on]]
               /\ ueMap' = ueMap
        BY <2>1 DEF OnRelease
      <3> QED BY <3>1, <3>2 DEF Receiver, RxIdle
    <2>2. CASE ReleaseState
      <3>1. /\ rx'.pc = "clear" /\ rx'.on = rx.on /\ rx'.ue = rx.ue /\ rx.pc = "release"
            /\ UNCHANGED <<ueMap, dl, amf>>
        BY <2>2 DEF ReleaseState, TypeOK, amfV
      <3> QED BY <3>1 DEF Receiver, Traffic
    <2>3. CASE ReleaseClear
      BY <2>3 DEF ReleaseClear, Receiver, RxIdle
    <2> QED BY <2>1, <2>2, <2>3
  <1>2. /\ NoInitial /\ UNCHANGED <<dl, amf, ranCounter>>
        /\ \A d \in Conns : \A i \in Places(d)' : i \in Places(d) /\ At(d, i)' = At(d, i)
        /\ \A d \in Conns : ueMap[d] = NoUe => ul'[d] = ul[d]
        /\ \A v \in Ues : ran'[v] \in {0, ran[v]}
        /\ \A d \in Conns : ueMap'[d] # ueMap[d] =>
              /\ d = rx.on /\ ueMap'[d] = NoUe /\ Places(d)' = {}
              /\ amf[d].phase = "releasing" /\ \A v \in Ues : ran'[v] # d
    BY ReleaseLeaves
  <1> QED BY <1>1, <1>2, TrafficAnswer

\* A release that goes on to clear the UE either finds every connection of the UE
\* quiet, or a test that has not got to the point of using the UE.
LEMMA ReleaseFinds ==
    ASSUME TypeOK, Traffic, Phases, OnRelease, NEW u \in Ues, ueMap[rx.on] = u,
           ran[u] \in {0, rx.on}
    PROVE  AllQuiet(u) \/ (state[u] # "REGISTERED" /\ test[u] \in {"waitReg", "failed"})
  <1> USE DEF Phases
  <1>1. rx.on \in Conns /\ Quiet(rx.on) /\ rx.on # 0
    BY Released, Constants
  <1>2. CASE ran[u] = rx.on
    <2>1. ASSUME NEW c \in Conns, ueMap[c] = u, ~Quiet(c) PROVE FALSE
      BY <1>1, <1>2, <2>1 DEF Current
    <2> QED BY <2>1 DEF AllQuiet
  <1>3. CASE ran[u] = 0
    <2>1. test[u] \in Starting \cup Using \cup {"waitReg", "failed"}
      BY DEF TypeOK, Starting, Using
    <2> QED BY <1>3, <2>1 DEF Detached, Before
  <1> QED BY <1>2, <1>3

\* The steps of the release preserve the phases.
LEMMA PhasesRelease ==
    ASSUME TypeOK, Traffic, Phases, OnRelease \/ ReleaseState \/ ReleaseClear
    PROVE  Phases'
  <1> USE DEF Phases
  <1>1. /\ Calm /\ UNCHANGED <<amf, test, rejected>>
        /\ \A v \in Ues : ran'[v] \in {0, ran[v]}
        /\ \A d \in Conns : ueMap'[d] \in {NoUe, ueMap[d]}
    BY ReleaseLeaves
  <1>2. \A v \in Ues : AllQuiet(v) => AllQuiet(v)'
    BY <1>1, Constants DEF Calm, AllQuiet
  <1>3. Alone' /\ Current'
    BY <1>1, Constants DEF Calm, Alone, Current
  <1>4. CASE OnRelease
    <2>1. /\ UNCHANGED <<state, ran>> /\ ueMap[rx.on] \in Ues
      BY <1>4, Released DEF ue
    <2>2. Before' /\ Refused' /\ Gone' /\ Detached'
      BY <1>1, <1>2, <2>1 DEF Before, Refused, Gone, Detached
    <2>3. Ending'
      <3>1. CASE ran[ueMap[rx.on]] \notin {0, rx.on}
        BY <1>4, <3>1 DEF OnRelease, RxIdle, Ending
      <3>2. CASE ran[ueMap[rx.on]] \in {0, rx.on}
        <4>1. rx'.ue = ueMap[rx.on]
          BY <1>4, <3>2 DEF OnRelease
        <4>2. PICK u \in Ues : u = ueMap[rx.on]
          BY <2>1
        <4>3. AllQuiet(u) \/ (state[u] # "REGISTERED" /\ test[u] \in {"waitReg", "failed"})
          BY <1>4, <3>2, <4>2, ReleaseFinds
        <4>4. AllQuiet(u)' \/ (state'[u] # "REGISTERED" /\ test'[u] \in {"waitReg", "failed"})
          BY <1>1, <1>2, <2>1, <4>3
        <4> QED BY <4>1, <4>2, <4>4 DEF Ending
      <3> QED BY <3>1, <3>2
    <2> QED BY <1>3, <2>2, <2>3
  <1>5. CASE ReleaseState
    <2>1. /\ rx.pc = "release" /\ UNCHANGED <<ran, ueMap>>
          /\ rx'.ue = rx.ue /\ rx'.pc = "clear" /\ rx.ue \in Ues
      BY <1>5 DEF ReleaseState, TypeOK, Traffic, Receiver
    <2>2. state'[rx.ue] = "DEREGISTERED" /\ \A v \in Ues : v # rx.ue => state'[v] = state[v]
      BY <1>5, <2>1 DEF ReleaseState, SetState, TypeOK
    <2>3. AllQuiet(rx.ue) \/ (state[rx.ue] # "REGISTERED" /\ test[rx.ue] \in {"waitReg", "failed"})
      BY <2>1 DEF Ending
    <2>4. PICK u \in Ues : u = rx.ue
      BY <2>1
    <2>5. Before'
      BY <1>1, <1>2, <2>1, <2>2 DEF Before
    <2>6. Refused'
      BY <1>1, <1>2, <2>1, <2>2 DEF Refused
    <2>7. Gone'
      BY <1>1, <1>2, <2>1, <2>2, <2>3 DEF Gone, Using
    <2>8. Detached'
      BY <1>1, <1>2, <2>1, <2>2 DEF Detached
    <2>9. Ending'
      <3>1. AllQuiet(u)' \/ (state'[u] # "REGISTERED" /\ test'[u] \in {"waitReg", "failed"})
        BY <1>1, <1>2, <2>2, <2>3, <2>4
      <3> QED BY <2>1, <2>4, <3>1 DEF Ending
    <2> QED BY <1>3, <2>5, <2>6, <2>7, <2>8, <2>9
  <1>6. CASE ReleaseClear
    <2>1. /\ rx.pc = "clear" /\ state' = state /\ rx'.pc = "idle" /\ rx.ue \in Ues
      BY <1>6 DEF ReleaseClear, RxIdle, Traffic, Receiver
    <2>2. ran'[rx.ue] = 0 /\ \A v \in Ues : v # rx.ue => ran'[v] = ran[v]
      BY <1>6, <2>1 DEF ReleaseClear, TypeOK
    <2>3. AllQuiet(rx.ue) \/ (state[rx.ue] # "REGISTERED" /\ test[rx.ue] \in {"waitReg", "failed"})
      BY <2>1 DEF Ending
    <2>4. Before'
      BY <1>1, <1>2, <2>1, <2>2 DEF Before
    <2>5. Refused' /\ Gone'
      BY <1>1, <1>2, <2>1 DEF Refused, Gone
    <2>6. Detached'
      BY <1>1, <1>2, <2>1, <2>2, <2>3 DEF Detached, Using
    <2>7. Ending'
      BY <2>1 DEF Ending
    <2> QED BY <1>3, <2>4, <2>5, <2>6, <2>7
  <1> QED BY <1>4, <1>5, <1>6

(***************************************************************************)
(* The AMF.                                                                *)
(***************************************************************************)
\* The messages the AMF may add to a connection it leaves in phase p.
Fits(s, p) ==
    \/ p \in Open /\ Len(s) = 1 /\ s[1].type \notin Farewell \cup {"Release"}
    \/ p = "releasing" /\ Len(s) = 1 /\ s[1].type = "Release"
    \/ p = "releasing" /\ Len(s) = 2 /\ s[1].type \in Farewell /\ s[2].type = "Release"

\* Whatever the AMF does, it does to one connection t.
Touches(t) ==
    /\ \A d \in Conns : d # t => amf'[d] = amf[d] /\ dl'[d] = dl[d]
    /\ \/ dl' = dl /\ amf'[t].phase \in Open
       \/ \E s \in Seq(Downlink) : Gains(t, s) /\ Fits(s, amf'[t].phase)

\* The effects of the AMF touch the connection they are about.
LEMMA EffectTouches ==
    ASSUME TypeOK, NEW t \in Conns,
           \/ Commands(t) \/ Accepts(t) \/ Registers(t) \/ Ends(t) \/ Repeats(t)
           \/ \E b \in BOOLEAN : Asks(t, b)
    PROVE  Touches(t)
  <1> USE DEF Touches
  <1>1. ASSUME NEW m \in Downlink, Gains(t, <<m>>), amf'[t].phase \in Open,
               m.type \notin Farewell \cup {"Release"},
               \A d \in Conns : d # t => amf'[d] = amf[d]
        PROVE  Touches(t)
    <2>1. <<m>> \in Seq(Downlink) /\ Fits(<<m>>, amf'[t].phase)
      BY <1>1 DEF Fits
    <2> QED BY <1>1, <2>1 DEF Gains
  <1>2. CASE Commands(t)
    <2>1. Gains(t, <<[type |-> "SecurityMode"]>>) /\ [type |-> "SecurityMode"] \in Downlink
      BY <1>2, DownlinkMessages DEF Commands
    <2>2. amf'[t].phase \in Open /\ \A d \in Conns : d # t => amf'[d] = amf[d]
      BY <1>2 DEF Commands, Turns, Open
    <2> QED BY <1>1, <2>1, <2>2 DEF Farewell
  <1>3. CASE Accepts(t)
    <2>1. Gains(t, <<[type |-> "ContextSetup"]>>) /\ [type |-> "ContextSetup"] \in Downlink
      BY <1>3, DownlinkMessages DEF Accepts
    <2>2. amf'[t].phase \in Open /\ \A d \in Conns : d # t => amf'[d] = amf[d]
      BY <1>3 DEF Accepts, Turns, Open
    <2> QED BY <1>1, <2>1, <2>2 DEF Farewell
  <1>4. CASE Registers(t)
    BY <1>4 DEF Registers, Turns, Open
  <1>5. CASE Ends(t)
    <2>1. amf'[t].phase = "releasing" /\ \A d \in Conns : d # t => amf'[d] = amf[d]
      BY <1>5 DEF Ends, Turns
    <2>2. CASE Gains(t, <<[type |-> "Release"]>>)
      <3>1. /\ <<[type |-> "Release"]>> \in Seq(Downlink)
            /\ Fits(<<[type |-> "Release"]>>, amf'[t].phase)
        BY <2>1, DownlinkMessages DEF Fits
      <3> QED BY <2>1, <2>2, <3>1 DEF Gains
    <2>3. ASSUME NEW x \in Farewell, Gains(t, <<[type |-> x], [type |-> "Release"]>>)
          PROVE  Touches(t)
      <3>1. [type |-> x] \in Downlink /\ [type |-> "Release"] \in Downlink
        BY DownlinkMessages DEF Farewell
      <3>2. /\ <<[type |-> x], [type |-> "Release"]>> \in Seq(Downlink)
            /\ Fits(<<[type |-> x], [type |-> "Release"]>>, amf'[t].phase)
        BY <2>1, <3>1 DEF Fits
      <3> QED BY <2>1, <2>3, <3>2 DEF Gains
    <2> QED BY <1>5, <2>2, <2>3 DEF Ends
  <1>6. CASE Repeats(t)
    <2>1. amf' = amf
      BY <1>6 DEF Repeats
    <2>2. CASE amf[t].phase = "auth" /\ Gains(t, <<[type |-> "AuthRequest", key |-> amf[t].key, ok |-> amf[t].ok]>>)
      <3>1. [type |-> "AuthRequest", key |-> amf[t].key, ok |-> amf[t].ok] \in Downlink
        BY DownlinkMessages DEF TypeOK
      <3> QED BY <1>1, <2>1, <2>2, <3>1 DEF Open, Farewell
    <2>3. CASE amf[t].phase = "smc" /\ Gains(t, <<[type |-> "SecurityMode"]>>)
      BY <1>1, <2>1, <2>3, DownlinkMessages DEF Open, Farewell
    <2>4. CASE amf[t].phase = "accept" /\ Gains(t, <<[type |-> "Accept"]>>)
      BY <1>1, <2>1, <2>4, DownlinkMessages DEF Open, Farewell
    <2> QED BY <1>6, <2>2, <2>3, <2>4 DEF Repeats
  <1>7. ASSUME NEW b \in BOOLEAN, Asks(t, b) PROVE Touches(t)
    <2>1. PICK k \in Keys : k = vectors'
      BY <1>7 DEF Asks
    <2>2. [type |-> "AuthRequest", key |-> k, ok |-> b] \in Downlink
      BY DownlinkMessages
    <2>3. /\ Gains(t, <<[type |-> "AuthRequest", key |-> k, ok |-> b]>>)
          /\ amf'[t].phase \in Open /\ \A d \in Conns : d # t => amf'[d] = amf[d]
      BY <1>7, <2>1 DEF Asks, Open
    <2> QED BY <1>1, <2>2, <2>3 DEF Farewell
  <1> QED BY <1>2, <1>3, <1>4, <1>5, <1>6, <1>7

\* A turn of the AMF ignores what it read or touches a connection that was awake.
LEMMA TurnTouches ==
    ASSUME TypeOK, Traffic, NEW c \in Conns, Turn(c)
    PROVE  \/ amf' = amf /\ dl' = dl
           \/ \E t \in Conns :
                 /\ Touches(t) /\ ueMap[t] # NoUe /\ ~Quiet(t)
                 /\ \/ amf[t].phase \in Open
                    \/ amf[t].phase = "none" /\ ~InitialOn(t)'
  <1>1. CASE Ignores
    BY <1>1 DEF Ignores
  <1>2. ASSUME NEW t \in Conns, amf[t].phase \in Open,
               \/ Commands(t) \/ Accepts(t) \/ Registers(t) \/ Ends(t) \/ Repeats(t)
               \/ \E b \in BOOLEAN : Asks(t, b)
        PROVE  Touches(t) /\ ueMap[t] # NoUe /\ ~Quiet(t)
    BY <1>2, EffectTouches DEF Quiet, Traffic, Links
  <1>3. ASSUME Reads(c), ul[c][1].type = "Initial", Ends(c) \/ \E b \in BOOLEAN : Asks(c, b)
        PROVE  /\ Touches(c) /\ ueMap[c] # NoUe /\ ~Quiet(c) /\ amf[c].phase = "none"
               /\ ~InitialOn(c)'
    <2>1. Len(ul[c]) \in Nat \ {0} /\ 1 \in 1..Len(ul[c])
      BY <1>3 DEF Reads, TypeOK
    <2>2. amf[c].phase = "none" /\ ueMap[c] # NoUe
      BY <1>3, <2>1 DEF Traffic, Initials
    <2>3. ~Quiet(c)
      BY <1>3, <2>1 DEF Quiet, InitialOn
    <2>4. ~InitialOn(c)'
      <3>1. SUFFICES ASSUME NEW i \in 1..Len(ul'[c]), ul'[c][i].type = "Initial" PROVE FALSE
        BY DEF InitialOn
      <3>2. i + 1 \in 1..Len(ul[c]) /\ ul'[c][i] = ul[c][i + 1] /\ i + 1 # 1
        BY <1>3, <2>1 DEF Reads
      <3>3. ul[c][i + 1].type = "Initial"
        BY <3>1, <3>2
      <3> QED BY <1>3, <2>1, <3>2, <3>3 DEF Traffic, Initials
    <2> QED BY <1>3, <2>2, <2>3, <2>4, EffectTouches
  <1> QED BY <1>1, <1>2, <1>3 DEF Turn, Commands, Accepts, Registers, Repeats, Open

\* What a turn of the AMF leaves of the messages to it.
LEMMA TurnReads ==
    ASSUME TypeOK, Traffic, NEW c \in Conns, Turn(c)
    PROVE  /\ UNCHANGED <<ue, test, ueMap, ranCounter, rx>>
           /\ \A d \in Conns : ul[d] = <<>> => ul'[d] = <<>>
           /\ \A d \in Conns : InitialOn(d)' => InitialOn(d)
           /\ \A d \in Conns : \A i, j \in 1..Len(ul'[d]) :
                 ul'[d][i].type = "Initial" /\ ul'[d][j].type = "Initial" => j = i
  <1>1. CASE ul' = ul
    BY <1>1 DEF Turn, Traffic, Initials, InitialOn
  <1>2. CASE Reads(c)
    <2>1. /\ Len(ul[c]) \in Nat \ {0} /\ Len(ul'[c]) = Len(ul[c]) - 1 /\ ul[c] # <<>>
          /\ \A i \in 1..Len(ul'[c]) : ul'[c][i] = ul[c][i + 1]
          /\ \A d \in Conns : d # c => ul'[d] = ul[d]
      BY <1>2 DEF Reads, TypeOK
    <2>2. \A i \in 1..Len(ul'[c]) : i \in Int /\ i + 1 \in 1..Len(ul[c])
      BY <2>1
    <2>3. ASSUME NEW d \in Conns, InitialOn(d)' PROVE InitialOn(d)
      <3>1. CASE d = c
        BY <2>1, <2>2, <2>3, <3>1 DEF InitialOn
      <3>2. CASE d # c
        BY <2>1, <2>3, <3>2 DEF InitialOn
      <3> QED BY <3>1, <3>2
    <2>4. ASSUME NEW d \in Conns, NEW i \in 1..Len(ul'[d]), NEW j \in 1..Len(ul'[d]),
                 ul'[d][i].type = "Initial", ul'[d][j].type = "Initial"
          PROVE  j = i
      <3>1. CASE d = c
        <4>1. i + 1 \in 1..Len(ul[c]) /\ j + 1 \in 1..Len(ul[c]) /\ i \in Int /\ j \in Int
          BY <2>2, <2>4, <3>1
        <4>2. ul[c][i + 1].type = "Initial" /\ ul[c][j + 1].type = "Initial"
          BY <2>1, <2>4, <3>1
        <4>3. j + 1 = i + 1
          BY <4>1, <4>2 DEF Traffic, Initials
        <4> QED BY <4>1, <4>3
      <3>2. CASE d # c
        BY <2>1, <2>4, <3>2 DEF Traffic, Initials
      <3> QED BY <3>1, <3>2
    <2>5. UNCHANGED <<ue, test, ueMap, ranCounter, rx>>
      BY DEF Turn
    <2> QED BY <2>1, <2>3, <2>4, <2>5
  <1> QED BY <1>1, <1>2 DEF Turn

\* The messages of a touched connection.
LEMMA TouchedPlaces ==
    ASSUME TypeOK, rx' = rx, NEW t \in Conns, Touches(t), NEW d \in Conns, NEW i \in Places(d)'
    PROVE  \/ i \in Places(d) /\ At(d, i)' = At(d, i)
           \/ /\ d = t /\ i # 0 /\ i > Len(dl[t])
              /\ At(d, i)'.type \in Farewell \cup {"Release"} => amf'[t].phase = "releasing"
              /\ At(d, i)'.type = "Release" => i = Len(dl'[t])
              /\ At(d, i)'.type \in Farewell =>
                    i + 1 = Len(dl'[t]) /\ dl'[t][i + 1].type = "Release"
  <1>1. CASE dl' = dl
    BY <1>1, SamePlaces
  <1>2. ASSUME NEW s \in Seq(Downlink), Gains(t, s), Fits(s, amf'[t].phase)
        PROVE  \/ i \in Places(d) /\ At(d, i)' = At(d, i)
               \/ /\ d = t /\ i # 0 /\ i > Len(dl[t])
                  /\ At(d, i)'.type \in Farewell \cup {"Release"} => amf'[t].phase = "releasing"
                  /\ At(d, i)'.type = "Release" => i = Len(dl'[t])
                  /\ At(d, i)'.type \in Farewell =>
                        i + 1 = Len(dl'[t]) /\ dl'[t][i + 1].type = "Release"
    <2>1. Len(s) \in Nat /\ Len(dl[t]) \in Nat /\ Len(dl'[t]) = Len(dl[t]) + Len(s)
      BY <1>2, PlaceRange DEF Gains
    <2>2. ASSUME ~(i \in Places(d) /\ At(d, i)' = At(d, i))
          PROVE  d = t /\ \E k \in 1..Len(s) : i = Len(dl[t]) + k /\ At(d, i)' = s[k]
      BY <1>2, <2>1, <2>2, GainPlaces
    <2>3. ASSUME d = t, NEW k \in 1..Len(s), i = Len(dl[t]) + k, At(d, i)' = s[k]
          PROVE  /\ i # 0 /\ i > Len(dl[t])
                 /\ s[k].type \in Farewell \cup {"Release"} => amf'[t].phase = "releasing"
                 /\ s[k].type = "Release" => i = Len(dl'[t])
                 /\ s[k].type \in Farewell =>
                       i + 1 = Len(dl'[t]) /\ dl'[t][i + 1].type = "Release"
      <3>1. \/ /\ Len(s) = 1 /\ k = 1 /\ s[1].type \notin Farewell
               /\ amf'[t].phase = "releasing" \/ s[1].type # "Release"
            \/ /\ Len(s) = 2 /\ k = 1 /\ s[1].type \in Farewell /\ s[2].type = "Release"
               /\ amf'[t].phase = "releasing"
            \/ /\ Len(s) = 2 /\ k = 2 /\ s[2].type = "Release"
               /\ amf'[t].phase = "releasing"
        BY <1>2, <2>1, <2>3 DEF Fits, Farewell
      <3>2. CASE Len(s) = 1 /\ k = 1 /\ s[1].type \notin Farewell
                 /\ (amf'[t].phase = "releasing" \/ s[1].type # "Release")
        BY <2>1, <2>3, <3>2
      <3>3. CASE Len(s) = 2 /\ k = 1 /\ s[1].type \in Farewell /\ s[2].type = "Release"
                 /\ amf'[t].phase = "releasing"
        <4>1. dl'[t][Len(dl[t]) + 2] = s[2]
          BY <1>2, <3>3 DEF Gains
        <4>2. i + 1 = Len(dl[t]) + 2 /\ i + 1 = Len(dl'[t])
          BY <2>1, <2>3, <3>3
        <4> QED BY <2>1, <2>3, <3>3, <4>1, <4>2 DEF Farewell
      <3>4. CASE Len(s) = 2 /\ k = 2 /\ s[2].type = "Release" /\ amf'[t].phase = "releasing"
        BY <2>1, <2>3, <3>4 DEF Farewell
      <3> QED BY <3>1, <3>2, <3>3, <3>4
    <2> QED BY <2>2, <2>3
  <1> QED BY <1>1, <1>2 DEF Touches

\* A turn of the AMF preserves the traffic invariants.
LEMMA TrafficAmf ==
    ASSUME TypeOK, Traffic, NEW c \in Conns, Turn(c)
    PROVE  Traffic'
  <1> USE DEF Traffic
  <1>1. /\ UNCHANGED <<ue, test, ueMap, ranCounter, rx>>
        /\ \A d \in Conns : ul[d] = <<>> => ul'[d] = <<>>
        /\ \A d \in Conns : InitialOn(d)' => InitialOn(d)
        /\ \A d \in Conns : \A i, j \in 1..Len(ul'[d]) :
              ul'[d][i].type = "Initial" /\ ul'[d][j].type = "Initial" => j = i
    BY TurnReads
  <1>2. \A d \in Conns : InitialOn(d) => amf[d].phase = "none" /\ ueMap[d] # NoUe
    BY DEF Initials, InitialOn
  <1>3. CASE amf' = amf /\ dl' = dl
    <2>1. \A d \in Conns : Places(d)' = Places(d) /\ \A i \in Places(d) : At(d, i)' = At(d, i)
      BY <1>1, <1>3, SamePlaces
    <2>2. Receiver' /\ Streams'
      BY <1>1, <1>3, <2>1 DEF Receiver, Streams
    <2>3. Links'
      BY <1>1, <1>3 DEF Links, ue
    <2>4. Initials'
      BY <1>1, <1>2, <1>3 DEF Initials, InitialOn
    <2> QED BY <2>2, <2>3, <2>4
  <1>4. ASSUME NEW t \in Conns, Touches(t), ueMap[t] # NoUe, ~Quiet(t),
               \/ amf[t].phase \in Open
               \/ amf[t].phase = "none" /\ ~InitialOn(t)'
        PROVE  Traffic'
    <2>1. /\ \A d \in Conns : d # t => amf'[d] = amf[d] /\ dl'[d] = dl[d]
          /\ amf'[t].phase \in Open \cup {"releasing"}
      BY <1>4 DEF Touches, Fits
    <2>2. Receiver'
      <3>1. rx.pc \in {"release", "clear"} => rx.on # t
        BY <1>4 DEF Receiver, Open
      <3> QED BY <1>1, <2>1, <3>1 DEF Receiver
    <2>3. \A i \in Places(t) : At(t, i).type \notin Farewell \cup {"Release"}
      BY <1>4 DEF Streams, Open
    <2>4. Streams'
      <3>1. ASSUME NEW d \in Conns, NEW i \in Places(d)'
            PROVE  /\ ueMap'[d] # NoUe /\ amf'[d].phase # "none"
                   /\ At(d, i)'.type \in Farewell \cup {"Release"} => amf'[d].phase = "releasing"
                   /\ At(d, i)'.type = "Release" => i = Len(dl'[d])
                   /\ At(d, i)'.type \in Farewell =>
                         i + 1 = Len(dl'[d]) /\ dl'[d][i + 1].type = "Release"
        <4>1. CASE i \in Places(d) /\ At(d, i)' = At(d, i)
          <5>1. CASE d = t
            BY <1>1, <1>4, <2>1, <2>3, <4>1, <5>1 DEF Open
          <5>2. CASE d # t
            BY <1>1, <2>1, <4>1, <5>2 DEF Streams
          <5> QED BY <5>1, <5>2
        <4>2. CASE ~(i \in Places(d) /\ At(d, i)' = At(d, i))
          <5>1. /\ d = t
                /\ At(d, i)'.type \in Farewell \cup {"Release"} => amf'[t].phase = "releasing"
                /\ At(d, i)'.type = "Release" => i = Len(dl'[t])
                /\ At(d, i)'.type \in Farewell =>
                      i + 1 = Len(dl'[t]) /\ dl'[t][i + 1].type = "Release"
            BY <1>1, <1>4, <4>2, TouchedPlaces
          <5> QED BY <1>1, <1>4, <2>1, <5>1 DEF Open
        <4> QED BY <4>1, <4>2
      <3> QED BY <3>1 DEF Streams
    <2>5. Links'
      <3>1. ran' = ran
        BY <1>1 DEF ue
      <3>2. t <= ranCounter /\ ranCounter \in Int /\ t \in Int
        BY <1>4 DEF Links, TypeOK, Conns
      <3>3. \A d \in Conns : d > ranCounter => d # t
        BY <3>2
      <3>4. \A d \in Conns : d > ranCounter => amf'[d].phase = "none" /\ ul'[d] = <<>>
        BY <1>1, <2>1, <3>3 DEF Links
      <3>5. \A d \in Conns : amf'[d].phase \in Open => ueMap'[d] # NoUe
        BY <1>1, <1>4, <2>1 DEF Links
      <3> QED BY <1>1, <3>1, <3>4, <3>5 DEF Links
    <2>6. Initials'
      <3>1. ASSUME NEW d \in Conns, InitialOn(d)'
            PROVE  amf'[d].phase = "none" /\ ueMap'[d] # NoUe
        <4>1. InitialOn(d) /\ amf[d].phase = "none" /\ ueMap[d] # NoUe
          BY <1>1, <1>2, <3>1
        <4>2. d # t
          BY <1>4, <3>1, <4>1 DEF Open
        <4> QED BY <1>1, <2>1, <4>1, <4>2
      <3> QED BY <1>1, <3>1 DEF Initials, InitialOn
    <2> QED BY <2>2, <2>4, <2>5, <2>6
  <1> QED BY <1>3, <1>4, TurnTouches

\* A turn of the AMF wakes no connection.
LEMMA TurnCalm ==
    ASSUME TypeOK, Traffic, NEW c \in Conns, Turn(c)
    PROVE  Calm /\ \A d \in Conns : amf[d].phase = "none" /\ Quiet(d) => amf'[d].phase = "none"
  <1>1. /\ UNCHANGED <<ue, test, ueMap, ranCounter, rx>>
        /\ \A d \in Conns : InitialOn(d)' => InitialOn(d)
    BY TurnReads
  <1>2. CASE amf' = amf /\ dl' = dl
    BY <1>1, <1>2 DEF Calm, Quiet, Places, At
  <1>3. ASSUME NEW t \in Conns, Touches(t), ~Quiet(t)
        PROVE  Calm /\ \A d \in Conns : amf[d].phase = "none" /\ Quiet(d) => amf'[d].phase = "none"
    <2>1. \A d \in Conns : d # t => amf'[d] = amf[d] /\ dl'[d] = dl[d]
      BY <1>3 DEF Touches
    <2>2. ASSUME NEW d \in Conns, Quiet(d) PROVE Quiet(d)' /\ amf'[d] = amf[d]
      <3>1. d # t
        BY <1>3, <2>2
      <3>2. Places(d)' = Places(d) /\ \A i \in Places(d) : At(d, i)' = At(d, i)
        BY <1>1, <2>1, <3>1, SamePlaces
      <3> QED BY <1>1, <2>1, <2>2, <3>1, <3>2 DEF Quiet
    <2> QED BY <2>2 DEF Calm
  <1> QED BY <1>2, <1>3, TurnTouches

\* It preserves the phases.
LEMMA PhasesAmf ==
    ASSUME TypeOK, Traffic, Phases, NEW c \in Conns, Turn(c)
    PROVE  Phases'
  <1>1. UNCHANGED <<ue, test, ueMap, rx>>
    BY TurnReads
  <1> QED BY <1>1, TurnCalm, PhasesCalm DEF Traffic, ue

(***************************************************************************)
(* The keys.                                                               *)
(***************************************************************************)
\* The messages under way on connection c after a step are those before it, in
\* their order, n places further ahead.
Shifted(c, n) == \A i \in Places(c)' : i + n \in Places(c) /\ At(c, i)' = At(c, i + n)

\* The security invariants survive a step that gives no key and asks for none.
LEMMA SecurityFrame ==
    ASSUME TypeOK, Security, UNCHANGED <<ctx, amf, vectors>>,
           \A c \in Conns : amf[c].phase \in Open => ueMap'[c] = ueMap[c],
           \A c \in Conns : \E n \in {0, 1} : Shifted(c, n),
           \A m \in Sent' : m.type \in {"AuthResponse", "SecurityComplete"} =>
               m \in Sent /\ m.to \in Conns,
           \A c \in Conns : Places(c)' \subseteq Int
    PROVE  Security'
  <1> USE DEF Security
  <1>1. ASSUME NEW c \in Conns, Answered(c), amf[c].phase \in Open PROVE Answered(c)'
    <2>1. PICK n \in {0, 1} : Shifted(c, n)
      OBVIOUS
    <2> QED BY <1>1, <2>1 DEF Answered, Shifted
  <1>2. Vectors'
    <2>1. ASSUME NEW c \in Conns, NEW i \in Places(c)', IsRequest(At(c, i)')
          PROVE  At(c, i)'.key <= vectors'
      <3>1. PICK n \in {0, 1} : Shifted(c, n)
        OBVIOUS
      <3> QED BY <2>1, <3>1 DEF Vectors, Shifted
    <2> QED BY <2>1 DEF Vectors
  <1>3. Sequenced'
    <2>1. ASSUME NEW c \in Conns, NEW i \in Places(c)', NEW j \in Places(c)',
                 amf'[c].phase = "auth", i < j, IsRequest(At(c, i)'), IsRequest(At(c, j)'),
                 At(c, i)'.key = amf'[c].key
          PROVE  At(c, j)'.key = amf'[c].key
      <3>1. PICK n \in {0, 1} : Shifted(c, n)
        OBVIOUS
      <3>2. i + n < j + n
        BY <2>1
      <3>3. /\ i + n \in Places(c) /\ j + n \in Places(c)
            /\ At(c, i)' = At(c, i + n) /\ At(c, j)' = At(c, j + n)
        BY <3>1 DEF Shifted
      <3> QED BY <2>1, <3>2, <3>3 DEF Sequenced
    <2> QED BY <2>1 DEF Sequenced, IsRequest
  <1>4. Challenged'
    BY <1>1 DEF Challenged, Keyed, Open
  <1>5. Commanded'
    <2>1. ASSUME NEW c \in Conns, NEW i \in Places(c)', At(c, i)'.type = "SecurityMode"
          PROVE  amf'[c].phase \in Keyed \cup {"releasing"}
      <3>1. PICK n \in {0, 1} : Shifted(c, n)
        OBVIOUS
      <3> QED BY <2>1, <3>1 DEF Commanded, Shifted
    <2> QED BY <2>1 DEF Commanded, Open
  <1>6. Secured'
    BY DEF Secured, Open
  <1> QED BY <1>2, <1>3, <1>4, <1>5, <1>6

\* The places of a connection are integers, before and after a step.
LEMMA PlaceIntegers ==
    ASSUME NEW c \in Conns
    PROVE  Places(c) \subseteq Int /\ Places(c)' \subseteq Int
  BY DEF Places

\* What follows from the places of a step that takes nothing.
LEMMA ShiftNone ==
    ASSUME NEW c \in Conns, \A i \in Places(c)' : i \in Places(c) /\ At(c, i)' = At(c, i)
    PROVE  \E n \in {0, 1} : Shifted(c, n)
  <1>1. \A i \in Places(c)' : i + 0 = i
    BY PlaceIntegers
  <1>2. Shifted(c, 0)
    BY <1>1 DEF Shifted
  <1> QED BY <1>2

\* The messages under way to the AMF are messages it knows.
LEMMA SentUplink ==
    ASSUME TypeOK
    PROVE  Sent \subseteq Uplink /\ \A m \in Sent : m.type # "Initial" => m.to \in Conns
  BY UplinkFields DEF TypeOK, Sent

\* The steps of the test thread preserve the security invariants.
LEMMA SecurityTest ==
    ASSUME TypeOK, Traffic, Phases, Security, NEW u \in Ues,
           \/ Attach(u) \/ SendInitial(u)
           \/ /\ UNCHANGED <<ctx, amf, vectors, rx, dl, ueMap>>
              /\ \E m : Added({m}) /\ m.type \notin {"AuthResponse", "SecurityComplete"}
    PROVE  Security'
  <1>1. UNCHANGED <<ctx, amf, vectors, rx, dl>>
    BY DEF Attach, SendInitial, amfV
  <1>2. ASSUME NEW c \in Conns PROVE \E n \in {0, 1} : Shifted(c, n)
    <2>1. Places(c)' = Places(c) /\ \A i \in Places(c) : At(c, i)' = At(c, i)
      BY <1>1, SamePlaces
    <2> QED BY <2>1, ShiftNone
  <1>3. \A c \in Conns : amf[c].phase \in Open => ueMap'[c] = ueMap[c]
    <2>1. CASE Attach(u)
      <3>1. AttachUe(u)
        BY <2>1 DEF Attach
      <3>2. /\ \A d \in Conns : d # ranCounter + 1 => ueMap'[d] = ueMap[d]
            /\ amf[ranCounter + 1].phase = "none"
        BY <3>1, AttachEffect DEF Traffic
      <3> QED BY <3>2 DEF Open
    <2>2. CASE SendInitial(u)
      <3>1. PICK c \in Conns : Sending(u, c)
        BY <2>2, InitialEffect DEF Phases
      <3> QED BY <3>1 DEF Sending, Open
    <2> QED BY <2>1, <2>2
  <1>4. ASSUME NEW m \in Sent', m.type \in {"AuthResponse", "SecurityComplete"}
        PROVE  m \in Sent
    <2>1. CASE Attach(u)
      BY <2>1 DEF Attach, Sent
    <2>2. CASE SendInitial(u)
      <3>1. PICK c \in Conns : Sending(u, c)
        BY <2>2, InitialEffect DEF Phases
      <3> DEFINE n == [type |-> "Initial", ue |-> u]
      <3>2. n \in Uplink /\ n.type = "Initial"
        BY DEF Uplink
      <3> HIDE DEF n
      <3>3. PICK g : g = ul'
        OBVIOUS
      <3>4. ul \in [Conns -> Seq(Uplink)] /\ g = [ul EXCEPT ![c] = Append(@, n)]
        BY <3>1, <3>3 DEF Sending, TypeOK, n
      <3>5. \A d \in Conns : \A i \in 1..Len(g[d]) :
                (i \in 1..Len(ul[d]) /\ g[d][i] = ul[d][i]) \/ g[d][i] = n
        BY <3>2, <3>4, AppendUplink
      <3>6. Sent' \subseteq Sent \cup {n}
        BY <3>3, <3>5 DEF Sent
      <3> QED BY <1>4, <3>2, <3>6
    <2>3. ASSUME NEW n, Added({n}), n.type \notin {"AuthResponse", "SecurityComplete"}
          PROVE  m \in Sent
      BY <1>4, <2>3 DEF Added
    <2> QED BY <2>1, <2>2, <2>3
  <1>5. \A m \in Sent' : m.type \in {"AuthResponse", "SecurityComplete"} =>
           m \in Sent /\ m.to \in Conns
    BY <1>4, SentUplink
  <1> QED BY <1>1, <1>2, <1>3, <1>5, SecurityFrame, PlaceIntegers

\* The receive thread takes a message.
LEMMA SecurityTake ==
    ASSUME TypeOK, Traffic, Security, NEW c \in Conns, RxTake(c)
    PROVE  Security'
  <1>1. UNCHANGED <<ctx, amf, vectors, ueMap, ul>>
    BY DEF RxTake, amfV, ue
  <1>2. ASSUME NEW d \in Conns PROVE \E n \in {0, 1} : Shifted(d, n)
    <2>1. CASE d = c
      <3>1. Shifted(c, 1)
        BY TakePlaces DEF Shifted
      <3> QED BY <2>1, <3>1
    <2>2. CASE d # c
      BY <2>2, TakePlaces, ShiftNone
    <2> QED BY <2>1, <2>2
  <1>3. Sent' = Sent
    BY <1>1 DEF Sent
  <1>4. \A m \in Sent' : m.type \in {"AuthResponse", "SecurityComplete"} =>
           m \in Sent /\ m.to \in Conns
    BY <1>3, SentUplink
  <1> QED BY <1>1, <1>2, <1>4, SecurityFrame, PlaceIntegers

\* The release of a connection preserves the security invariants.
LEMMA SecurityRelease ==
    ASSUME TypeOK, Traffic, Security, OnRelease \/ ReleaseState \/ ReleaseClear
    PROVE  Security'
  <1>1. /\ UNCHANGED <<amf, ctx, vectors>>
        /\ \A d \in Conns : \A i \in Places(d)' : i \in Places(d) /\ At(d, i)' = At(d, i)
        /\ \A d \in Conns : ueMap'[d] # ueMap[d] => amf[d].phase = "releasing"
        /\ Added({[type |-> "ReleaseComplete", to |-> rx.on]})
    BY ReleaseLeaves
  <1>2. \A d \in Conns : \E n \in {0, 1} : Shifted(d, n)
    BY <1>1, ShiftNone
  <1>3. \A m \in Sent' : m.type \in {"AuthResponse", "SecurityComplete"} =>
           m \in Sent /\ m.to \in Conns
    BY <1>1, SentUplink DEF Added
  <1>4. \A d \in Conns : amf[d].phase \in Open => ueMap'[d] = ueMap[d]
    BY <1>1 DEF Open
  <1> QED BY <1>1, <1>2, <1>3, <1>4, SecurityFrame, PlaceIntegers

\* What a handler does to the keys, where the connection of the message is the only
\* one of the UE that counts.
LEMMA HandlerMeans ==
    ASSUME TypeOK, Traffic, Phases, Security, NEW u \in Ues, Handles(u)
    PROVE  /\ UNCHANGED <<amf, vectors, ueMap>> /\ rx.on \in Conns /\ ueMap[rx.on] = u
           /\ rx.pc = "run" /\ 0 \in Places(rx.on) /\ At(rx.on, 0) = rx.msg
           /\ \A d \in Conns : \A i \in Places(d)' :
                 i \in Places(d) /\ 0 < i /\ At(d, i)' = At(d, i)
           /\ \A c \in Conns : amf[c].phase \in Open /\ ueMap[c] = u => c = rx.on
           /\ \A v \in Ues : v # u => ctx'[v] = ctx[v]
           /\ \A c \in Conns : amf[c].phase \in Open => ueMap[c] \in Ues
           /\ HandlerKeys(u)
           /\ \A m \in Sent' : \/ m \in Sent
                               \/ m.type \notin {"AuthResponse", "SecurityComplete"}
                               \/ /\ m.type = "AuthResponse" /\ rx.msg.type = "AuthRequest"
                                  /\ m.to = rx.on /\ m.key = rx.msg.key
                                  /\ ctx'[u].kamf = rx.msg.key
                               \/ /\ m.type = "SecurityComplete" /\ rx.msg.type = "SecurityMode"
                                  /\ m.to = rx.on
  <1>1. HandlerFrame(u) /\ HandlerSends(u) /\ HandlerKeys(u)
    BY HandlerEffect DEF Traffic
  <1>2. /\ UNCHANGED <<amf, vectors, ueMap>> /\ rx.on \in Conns /\ ueMap[rx.on] = u
        /\ rx.pc = "run" /\ rx.msg.type # "Release"
        /\ \A v \in Ues : v # u => ctx'[v] = ctx[v]
    BY <1>1 DEF HandlerFrame, amfV
  <1>3. /\ 0 \in Places(rx.on) /\ At(rx.on, 0) = rx.msg
        /\ \A c \in Conns : ueMap[c] = u /\ ~Quiet(c) => c = rx.on
    BY <1>2, Handled
  <1>4. \A d \in Conns : \A i \in Places(d)' : i \in Places(d) /\ 0 < i /\ At(d, i)' = At(d, i)
    <2>1. ASSUME NEW d \in Conns, NEW i \in Places(d)'
          PROVE  i \in Places(d) /\ i # 0 /\ At(d, i)' = At(d, i)
      BY <1>1, HandlerLeaves
    <2>2. \A d \in Conns : \A i \in Places(d) : i \in Nat
      BY PlaceRange
    <2> QED BY <2>1, <2>2
  <1>5. \A c \in Conns : amf[c].phase \in Open => ueMap[c] \in Ues /\ ~Quiet(c)
    BY DEF Traffic, Links, TypeOK, Quiet
  <1>6. ASSUME NEW m \in Sent'
        PROVE  \/ m \in Sent
               \/ m.type \notin {"AuthResponse", "SecurityComplete"}
               \/ /\ m.type = "AuthResponse" /\ rx.msg.type = "AuthRequest"
                  /\ m.to = rx.on /\ m.key = rx.msg.key
                  /\ ctx'[u].kamf = rx.msg.key
               \/ /\ m.type = "SecurityComplete" /\ rx.msg.type = "SecurityMode"
                  /\ m.to = rx.on
    <2>0. PICK d \in Conns : \E i \in 1..Len(ul'[d]) : m = ul'[d][i]
      BY <1>6 DEF Sent
    <2>1. PICK i \in 1..Len(ul'[d]) : m = ul'[d][i]
      BY <2>0
    <2>2. CASE i \in 1..Len(ul[d]) /\ ul'[d][i] = ul[d][i]
      <3>1. m \in Sent
        BY <2>1, <2>2 DEF Sent
      <3> QED BY <3>1
    <2>3. CASE ~(i \in 1..Len(ul[d]) /\ ul'[d][i] = ul[d][i])
      BY <1>1, <2>1, <2>3 DEF HandlerSends
    <2> QED BY <2>2, <2>3
  <1> QED BY <1>1, <1>2, <1>3, <1>4, <1>5, <1>6

\* A handler preserves the security invariants: the only connection whose keys it
\* can change is the one its message came on.
LEMMA SecurityHandler ==
    ASSUME TypeOK, Traffic, Phases, Security, NEW u \in Ues, Handles(u)
    PROVE  Security'
  <1> USE DEF Security
  <1>1. /\ UNCHANGED <<amf, vectors, ueMap>> /\ rx.on \in Conns /\ ueMap[rx.on] = u
        /\ rx.pc = "run" /\ 0 \in Places(rx.on) /\ At(rx.on, 0) = rx.msg
        /\ \A d \in Conns : \A i \in Places(d)' :
              i \in Places(d) /\ 0 < i /\ At(d, i)' = At(d, i)
        /\ \A c \in Conns : amf[c].phase \in Open /\ ueMap[c] = u => c = rx.on
        /\ \A v \in Ues : v # u => ctx'[v] = ctx[v]
        /\ \A c \in Conns : amf[c].phase \in Open => ueMap[c] \in Ues
        /\ HandlerKeys(u)
        /\ \A m \in Sent' : \/ m \in Sent
                            \/ m.type \notin {"AuthResponse", "SecurityComplete"}
                            \/ /\ m.type = "AuthResponse" /\ rx.msg.type = "AuthRequest"
                               /\ m.to = rx.on /\ m.key = rx.msg.key
                               /\ ctx'[u].kamf = rx.msg.key
                            \/ /\ m.type = "SecurityComplete" /\ rx.msg.type = "SecurityMode"
                               /\ m.to = rx.on
    BY HandlerMeans
  <1>2. \A c \in Conns : amf[c].phase \in Open => c = rx.on \/ ctx'[ueMap[c]] = ctx[ueMap[c]]
    BY <1>1
  <1>3. PICK on \in Conns : on = rx.on
    BY <1>1
  <1>4. /\ rx.msg.type = "AuthRequest" =>
              ctx'[u].knas = ctx[u].knas /\ ctx'[u].kamf \in {ctx[u].kamf, rx.msg.key}
        /\ rx.msg.type = "SecurityMode" =>
              ctx'[u].kamf = ctx[u].kamf /\ ctx'[u].knas = ctx[u].kamf
        /\ rx.msg.type \notin {"AuthRequest", "SecurityMode"} => ctx' = ctx
    BY <1>1 DEF HandlerKeys
  <1>5. ASSUME NEW c \in Conns, Answered(c), amf[c].phase \in Open
        PROVE  Answered(c)'
    <2>1. ctx'[ueMap[c]].kamf = amf[c].key
      <3>1. CASE c = on
        <4>1. rx.msg.type = "AuthRequest" => rx.msg.key = amf[on].key
          BY <1>1, <1>3, <1>5, <3>1 DEF Answered, IsRequest
        <4>2. ctx[u].kamf = amf[on].key
          BY <1>1, <1>3, <1>5, <3>1 DEF Answered
        <4> QED BY <1>1, <1>3, <1>4, <3>1, <4>1, <4>2
      <3>2. CASE c # on
        BY <1>2, <1>3, <1>5, <3>2 DEF Answered
      <3> QED BY <3>1, <3>2
    <2> QED BY <1>1, <1>5, <2>1 DEF Answered
  <1>6. Vectors'
    <2>1. rx.msg.type = "AuthRequest" => rx.msg.key <= vectors
      BY <1>1 DEF Vectors, IsRequest
    <2> QED BY <1>1, <2>1 DEF Vectors
  <1>7. Sequenced'
    BY <1>1 DEF Sequenced
  <1>8. Challenged'
    <2>1. \A c \in Conns : amf'[c].phase \in Keyed => Answered(c)'
      BY <1>1, <1>5 DEF Challenged, Keyed, Open
    <2>2. ASSUME NEW m \in Sent', m.type = "AuthResponse", amf'[m.to].phase = "auth",
                 m.key = amf'[m.to].key
          PROVE  Answered(m.to)'
      <3>1. CASE m \in Sent
        <4>1. m.to \in Conns
          BY <2>2, <3>1, SentUplink
        <4>2. Answered(m.to)
          BY <1>1, <2>2, <3>1 DEF Challenged
        <4>3. PICK c \in Conns : c = m.to
          BY <4>1
        <4>4. Answered(c)'
          BY <1>1, <1>5, <2>2, <4>2, <4>3 DEF Open
        <4> QED BY <4>3, <4>4
      <3>2. CASE m \notin Sent
        <4>1. /\ rx.msg.type = "AuthRequest" /\ m.to = on /\ m.key = rx.msg.key
              /\ ctx'[u].kamf = rx.msg.key
          BY <1>1, <1>3, <2>2, <3>2
        <4>2. amf[on].phase = "auth" /\ At(on, 0).key = amf[on].key /\ IsRequest(At(on, 0))
          BY <1>1, <1>3, <2>2, <4>1 DEF IsRequest
        <4>3. ASSUME NEW i \in Places(on)', IsRequest(At(on, i)')
              PROVE  At(on, i)'.key = amf'[on].key
          <5>1. i \in Places(on) /\ 0 < i /\ At(on, i)' = At(on, i) /\ 0 \in Places(on)
            BY <1>1, <1>3
          <5> QED BY <1>1, <4>2, <4>3, <5>1 DEF Sequenced
        <4>4. ctx'[ueMap'[on]].kamf = amf'[on].key
          BY <1>1, <1>3, <4>1, <4>2
        <4>5. Answered(on)'
          BY <4>3, <4>4 DEF Answered
        <4> QED BY <4>1, <4>5
      <3> QED BY <3>1, <3>2
    <2> QED BY <2>1, <2>2 DEF Challenged
  <1>9. Commanded'
    <2>1. \A c \in Conns : \A i \in Places(c)' :
             At(c, i)'.type = "SecurityMode" => amf'[c].phase \in Keyed \cup {"releasing"}
      BY <1>1 DEF Commanded
    <2>2. ASSUME NEW m \in Sent', m.type = "SecurityComplete"
          PROVE  /\ amf'[m.to].phase \in Keyed \cup {"releasing"}
                 /\ amf'[m.to].phase = "smc" => ctx'[ueMap'[m.to]].knas = amf'[m.to].key
      <3>0. amf[on].phase = "smc" => ctx[u].kamf = amf[on].key
        BY <1>1, <1>3 DEF Challenged, Keyed, Answered
      <3>1. CASE m \in Sent
        <4>1. m.to \in Conns
          BY <2>2, <3>1, SentUplink
        <4>2. /\ amf[m.to].phase \in Keyed \cup {"releasing"}
              /\ amf[m.to].phase = "smc" => ctx[ueMap[m.to]].knas = amf[m.to].key
          BY <2>2, <3>1 DEF Commanded
        <4>3. CASE m.to = on
          BY <1>1, <1>3, <1>4, <3>0, <4>2, <4>3
        <4>4. CASE m.to # on
          BY <1>1, <1>2, <1>3, <4>1, <4>2, <4>4 DEF Open
        <4> QED BY <4>3, <4>4
      <3>2. CASE m \notin Sent
        <4>1. rx.msg.type = "SecurityMode" /\ m.to = on
          BY <1>1, <1>3, <2>2, <3>2
        <4>2. amf[on].phase \in Keyed \cup {"releasing"}
          BY <1>1, <1>3, <4>1 DEF Commanded
        <4> QED BY <1>1, <1>3, <1>4, <3>0, <4>1, <4>2
      <3> QED BY <3>1, <3>2
    <2> QED BY <2>1, <2>2 DEF Commanded
  <1>10. Secured'
    <2>1. ASSUME NEW c \in Conns, amf'[c].phase \in {"accept", "registered"}
          PROVE  ctx'[ueMap'[c]].knas = amf'[c].key
      <3>1. ctx[ueMap[c]].knas = amf[c].key /\ ctx[ueMap[c]].kamf = amf[c].key
        BY <1>1, <2>1 DEF Secured, Challenged, Keyed, Answered
      <3>2. CASE c = on
        BY <1>1, <1>3, <1>4, <3>1, <3>2
      <3>3. CASE c # on
        BY <1>1, <1>2, <1>3, <2>1, <3>1, <3>3 DEF Open
      <3> QED BY <3>2, <3>3
    <2> QED BY <2>1 DEF Secured
  <1> QED BY <1>6, <1>7, <1>8, <1>9, <1>10

\* A connection the AMF gains one message on.
LEMMA GainOne ==
    ASSUME TypeOK, rx' = rx, NEW t \in Conns, NEW m, Gains(t, <<m>>),
           NEW d \in Conns, NEW i \in Places(d)'
    PROVE  \/ i \in Places(d) /\ At(d, i)' = At(d, i)
           \/ d = t /\ i = Len(dl[t]) + 1 /\ At(d, i)' = m
  <1>1. Len(<<m>>) = 1 /\ <<m>>[1] = m
    OBVIOUS
  <1>2. \/ i \in Places(d) /\ At(d, i)' = At(d, i)
        \/ d = t /\ \E k \in 1..Len(<<m>>) : i = Len(dl[t]) + k /\ At(d, i)' = <<m>>[k]
    BY <1>1, GainPlaces
  <1>3. \A k \in 1..Len(<<m>>) : k = 1
    BY <1>1
  <1> QED BY <1>1, <1>2, <1>3

\* The AMF moves connection t on, and no request of it is new.
LEMMA SecurityTurns ==
    ASSUME TypeOK, Traffic, Security, UNCHANGED <<ctx, ueMap, vectors>>, Sent' \subseteq Sent,
           NEW t \in Conns,
           \A d \in Conns : d # t => amf'[d] = amf[d],
           amf'[t].key = amf[t].key,
           \A d \in Conns : \A i \in Places(d)' :
               \/ i \in Places(d) /\ At(d, i)' = At(d, i)
               \/ /\ d = t /\ ~IsRequest(At(d, i)')
                  /\ At(d, i)'.type = "SecurityMode" => amf'[t].phase = "smc",
           amf'[t].phase \in Keyed \cup {"releasing"},
           amf'[t].phase \in Keyed => Answered(t),
           amf'[t].phase = "smc" => amf[t].phase \in {"auth", "smc"},
           amf'[t].phase \in {"accept", "registered"} => ctx[ueMap[t]].knas = amf[t].key
    PROVE  Security'
  <1> USE DEF Security
  <1>1. \A c \in Conns : amf'[c].key = amf[c].key
    OBVIOUS
  <1>2. \A c \in Conns : Answered(c) => Answered(c)'
    BY <1>1 DEF Answered
  <1>3. \A m \in Sent : m.type \in {"AuthResponse", "SecurityComplete"} => m.to \in Conns
    BY SentUplink
  <1>4. Vectors'
    BY <1>1 DEF Vectors
  <1>5. Sequenced'
    BY <1>1 DEF Sequenced, Keyed
  <1>6. Challenged'
    <2>1. \A c \in Conns : amf'[c].phase \in Keyed => Answered(c)'
      BY <1>2 DEF Challenged
    <2>2. ASSUME NEW m \in Sent', m.type = "AuthResponse", amf'[m.to].phase = "auth",
                 m.key = amf'[m.to].key
          PROVE  Answered(m.to)'
      <3>1. m \in Sent /\ m.to \in Conns /\ m.to # t
        BY <1>3, <2>2 DEF Keyed
      <3>2. Answered(m.to)
        BY <2>2, <3>1 DEF Challenged
      <3>3. PICK c \in Conns : c = m.to
        BY <3>1
      <3> QED BY <1>2, <3>2, <3>3
    <2> QED BY <2>1, <2>2 DEF Challenged
  <1>7. Commanded'
    <2>1. ASSUME NEW c \in Conns, NEW i \in Places(c)', At(c, i)'.type = "SecurityMode"
          PROVE  amf'[c].phase \in Keyed \cup {"releasing"}
      BY <2>1 DEF Commanded
    <2>2. ASSUME NEW m \in Sent', m.type = "SecurityComplete"
          PROVE  /\ amf'[m.to].phase \in Keyed \cup {"releasing"}
                 /\ amf'[m.to].phase = "smc" => ctx'[ueMap'[m.to]].knas = amf'[m.to].key
      <3>1. /\ m.to \in Conns /\ amf[m.to].phase \in Keyed \cup {"releasing"}
            /\ amf[m.to].phase = "smc" => ctx[ueMap[m.to]].knas = amf[m.to].key
        BY <1>3, <2>2 DEF Commanded
      <3>2. CASE m.to = t
        BY <3>1, <3>2 DEF Keyed
      <3>3. CASE m.to # t
        BY <3>1, <3>3
      <3> QED BY <3>2, <3>3
    <2> QED BY <2>1, <2>2 DEF Commanded
  <1>8. Secured'
    BY <1>1 DEF Secured
  <1> QED BY <1>4, <1>5, <1>6, <1>7, <1>8

\* The AMF repeats its challenge.
LEMMA SecurityRepeat ==
    ASSUME TypeOK, Traffic, Security, UNCHANGED <<ctx, ueMap, vectors, amf, rx>>,
           Sent' \subseteq Sent, NEW t \in Conns, amf[t].phase = "auth",
           Gains(t, <<[type |-> "AuthRequest", key |-> amf[t].key, ok |-> amf[t].ok]>>)
    PROVE  Security'
  <1> USE DEF Security
  <1> DEFINE r == [type |-> "AuthRequest", key |-> amf[t].key, ok |-> amf[t].ok]
  <1>1. r.type = "AuthRequest" /\ r.key = amf[t].key
    OBVIOUS
  <1>2. Gains(t, <<r>>)
    OBVIOUS
  <1> HIDE DEF r
  <1>3. \A d \in Conns : \A i \in Places(d)' :
           \/ i \in Places(d) /\ At(d, i)' = At(d, i)
           \/ d = t /\ i = Len(dl[t]) + 1 /\ At(d, i)' = r
    BY <1>2, GainOne
  <1>4. \A c \in Conns : Answered(c) => Answered(c)'
    BY <1>1, <1>3 DEF Answered
  <1>5. \A m \in Sent : m.type \in {"AuthResponse", "SecurityComplete"} => m.to \in Conns
    BY SentUplink
  <1>6. Vectors'
    BY <1>1, <1>3 DEF Vectors
  <1>7. Sequenced'
    <2>1. Len(dl[t]) \in Nat /\ \A d \in Conns : \A i \in Places(d) : i \in Nat /\ i <= Len(dl[d])
      BY PlaceRange
    <2>2. ASSUME NEW c \in Conns, NEW i \in Places(c)', NEW j \in Places(c)',
                 amf'[c].phase = "auth", i < j, IsRequest(At(c, i)'), IsRequest(At(c, j)'),
                 At(c, i)'.key = amf'[c].key
          PROVE  At(c, j)'.key = amf'[c].key
      <3>1. CASE c = t /\ At(c, j)' = r
        BY <1>1, <3>1
      <3>2. CASE ~(c = t /\ At(c, j)' = r)
        <4>1. j \in Places(c) /\ At(c, j)' = At(c, j)
          BY <1>3, <3>2
        <4>2. i \in Places(c) /\ At(c, i)' = At(c, i)
          <5>1. j <= Len(dl[c]) /\ j \in Nat
            BY <2>1, <4>1
          <5>2. ~(c = t /\ i = Len(dl[t]) + 1)
            BY <2>1, <2>2, <5>1
          <5> QED BY <1>3, <5>2
        <4> QED BY <2>2, <4>1, <4>2 DEF Sequenced
      <3> QED BY <3>1, <3>2
    <2> QED BY <2>2 DEF Sequenced, IsRequest
  <1>8. Challenged'
    <2>1. \A c \in Conns : amf'[c].phase \in Keyed => Answered(c)'
      BY <1>4 DEF Challenged
    <2>2. ASSUME NEW m \in Sent', m.type = "AuthResponse", amf'[m.to].phase = "auth",
                 m.key = amf'[m.to].key
          PROVE  Answered(m.to)'
      <3>1. m \in Sent /\ m.to \in Conns /\ Answered(m.to)
        BY <1>5, <2>2 DEF Challenged
      <3>3. PICK c \in Conns : c = m.to
        BY <3>1
      <3> QED BY <1>4, <3>1, <3>3
    <2> QED BY <2>1, <2>2 DEF Challenged
  <1>9. Commanded'
    BY <1>1, <1>3 DEF Commanded
  <1>10. Secured'
    BY DEF Secured
  <1> QED BY <1>6, <1>7, <1>8, <1>9, <1>10

\* The AMF challenges the UE with a new vector.
LEMMA SecurityAsk ==
    ASSUME TypeOK, Traffic, Security, UNCHANGED <<ctx, ueMap, rx>>,
           Sent' \subseteq Sent, NEW t \in Conns, amf[t].phase \in {"auth", "none"},
           NEW b \in BOOLEAN, Asks(t, b)
    PROVE  Security'
  <1> USE DEF Security
  <1>0. PICK k \in Keys : k = vectors'
    BY DEF Asks
  <1> DEFINE r == [type |-> "AuthRequest", key |-> k, ok |-> b]
  <1>1. /\ r.type = "AuthRequest" /\ r.key = k /\ k = vectors + 1 /\ vectors' = k
        /\ Gains(t, <<r>>) /\ amf'[t].phase = "auth" /\ amf'[t].key = k
        /\ \A d \in Conns : d # t => amf'[d] = amf[d]
    BY <1>0 DEF Asks
  <1> HIDE DEF r
  <1>2. vectors \in Int /\ k \in Int /\ \A c \in Conns : amf[c].key \in Int
    BY Constants DEF TypeOK, Keys
  <1>3. \A d \in Conns : \A i \in Places(d)' :
           \/ i \in Places(d) /\ At(d, i)' = At(d, i)
           \/ d = t /\ i = Len(dl[t]) + 1 /\ At(d, i)' = r
    BY <1>1, GainOne
  <1>4. \A c \in Conns : c # t /\ Answered(c) => Answered(c)'
    BY <1>1, <1>3 DEF Answered
  <1>5. \A m \in Sent : m.type \in {"AuthResponse", "SecurityComplete"} =>
           m.to \in Conns /\ m.key \in Int
    BY SentUplink, UplinkFields DEF Keys
  <1>6. \A d \in Conns : \A i \in Places(d) : IsRequest(At(d, i)) =>
           At(d, i).key <= vectors /\ At(d, i).key \in Int
    BY PlaceRange, DownlinkFields DEF Vectors, IsRequest, Keys
  <1>7. Vectors'
    <2>1. \A c \in Conns : \A i \in Places(c)' : IsRequest(At(c, i)') => At(c, i)'.key <= vectors'
      BY <1>1, <1>2, <1>3, <1>6
    <2>2. \A m \in Sent' : m.type = "AuthResponse" => m.key <= vectors'
      BY <1>1, <1>2, <1>5 DEF Vectors
    <2>3. \A c \in Conns : amf'[c].key <= vectors'
      BY <1>1, <1>2 DEF Vectors
    <2> QED BY <2>1, <2>2, <2>3 DEF Vectors, IsRequest
  <1>8. Sequenced'
    <2>1. Len(dl[t]) \in Nat /\ \A d \in Conns : \A i \in Places(d) : i \in Nat /\ i <= Len(dl[d])
      BY PlaceRange
    <2>2. ASSUME NEW c \in Conns, NEW i \in Places(c)', NEW j \in Places(c)',
                 amf'[c].phase = "auth", i < j, IsRequest(At(c, i)'), IsRequest(At(c, j)'),
                 At(c, i)'.key = amf'[c].key
          PROVE  At(c, j)'.key = amf'[c].key
      <3>1. CASE c = t
        <4>1. CASE At(c, j)' = r
          BY <1>1, <3>1, <4>1
        <4>2. CASE At(c, j)' # r
          <5>1. j \in Places(c) /\ j \in Nat /\ j <= Len(dl[c])
            BY <1>3, <2>1, <4>2
          <5>2. i # Len(dl[t]) + 1
            BY <2>1, <2>2, <3>1, <5>1
          <5>3. i \in Places(c) /\ At(c, i)' = At(c, i)
            BY <1>3, <5>2
          <5>4. At(c, i).key <= vectors /\ At(c, i).key \in Int
            BY <1>6, <2>2, <5>3
          <5> QED BY <1>1, <1>2, <2>2, <3>1, <5>3, <5>4
        <4> QED BY <4>1, <4>2
      <3>2. CASE c # t
        BY <1>1, <1>3, <2>2, <3>2 DEF Sequenced
      <3> QED BY <3>1, <3>2
    <2> QED BY <2>2 DEF Sequenced, IsRequest
  <1>9. Challenged'
    <2>1. \A c \in Conns : amf'[c].phase \in Keyed => Answered(c)'
      BY <1>1, <1>4 DEF Challenged, Keyed
    <2>2. ASSUME NEW m \in Sent', m.type = "AuthResponse", amf'[m.to].phase = "auth",
                 m.key = amf'[m.to].key
          PROVE  Answered(m.to)'
      <3>1. m \in Sent /\ m.to \in Conns /\ m.key <= vectors /\ m.key \in Int
        BY <1>5, <2>2 DEF Vectors
      <3>2. m.to # t
        BY <1>1, <1>2, <2>2, <3>1
      <3>3. Answered(m.to)
        BY <1>1, <2>2, <3>1, <3>2 DEF Challenged
      <3>4. PICK c \in Conns : c = m.to
        BY <3>1
      <3> QED BY <1>4, <3>2, <3>3, <3>4
    <2> QED BY <2>1, <2>2 DEF Challenged
  <1>10. Commanded'
    <2>1. ASSUME NEW c \in Conns, NEW i \in Places(c)', At(c, i)'.type = "SecurityMode"
          PROVE  amf'[c].phase \in Keyed \cup {"releasing"}
      <3>1. i \in Places(c) /\ At(c, i)' = At(c, i)
        BY <1>1, <1>3, <2>1
      <3>2. amf[c].phase \in Keyed \cup {"releasing"}
        BY <2>1, <3>1 DEF Commanded
      <3> QED BY <1>1, <3>2 DEF Keyed
    <2>2. ASSUME NEW m \in Sent', m.type = "SecurityComplete"
          PROVE  /\ amf'[m.to].phase \in Keyed \cup {"releasing"}
                 /\ amf'[m.to].phase = "smc" => ctx'[ueMap'[m.to]].knas = amf'[m.to].key
      <3>1. /\ m.to \in Conns /\ amf[m.to].phase \in Keyed \cup {"releasing"}
            /\ amf[m.to].phase = "smc" => ctx[ueMap[m.to]].knas = amf[m.to].key
        BY <1>5, <2>2 DEF Commanded
      <3>2. m.to # t
        BY <3>1 DEF Keyed
      <3> QED BY <1>1, <3>1, <3>2
    <2> QED BY <2>1, <2>2 DEF Commanded
  <1>11. Secured'
    BY <1>1 DEF Secured
  <1> QED BY <1>7, <1>8, <1>9, <1>10, <1>11

\* A turn of the AMF preserves the security invariants.
LEMMA SecurityAmf ==
    ASSUME TypeOK, Traffic, Security, NEW c \in Conns, Turn(c)
    PROVE  Security'
  <1>1. /\ UNCHANGED <<ctx, ueMap, rx>> /\ Sent' \subseteq Sent
    <2>1. Reads(c) \/ ul' = ul
      BY DEF Turn
    <2>2. ul' = ul => Sent' = Sent
      BY DEF Sent
    <2>3. Sent' \subseteq Sent
      BY <2>1, <2>2 DEF Reads
    <2> QED BY <2>3 DEF Turn, ue
  <1>2. CASE Ignores
    <2>1. \A d \in Conns : \E n \in {0, 1} : Shifted(d, n)
      BY <1>1, <1>2, SamePlaces, ShiftNone DEF Ignores
    <2>2. \A m \in Sent' : m.type \in {"AuthResponse", "SecurityComplete"} =>
             m \in Sent /\ m.to \in Conns
      BY <1>1, SentUplink
    <2> QED BY <1>1, <1>2, <2>1, <2>2, SecurityFrame, PlaceIntegers DEF Ignores
  <1>3. ASSUME NEW t \in Conns, Commands(t) PROVE Security'
    <2> DEFINE m == [type |-> "SecurityMode"]
    <2>1. m.type = "SecurityMode" /\ Gains(t, <<m>>) /\ amf[t].phase = "auth" /\ Turns(t, "smc")
      BY <1>3 DEF Commands
    <2> HIDE DEF m
    <2>2. \A d \in Conns : \A i \in Places(d)' :
             (i \in Places(d) /\ At(d, i)' = At(d, i)) \/ (d = t /\ At(d, i)' = m)
      BY <1>1, <2>1, GainOne
    <2>3. Answered(t)
      <3>1. PICK r \in Sent : r.type = "AuthResponse" /\ r.to = t /\ r.key = amf[t].key
        BY <1>3 DEF Commands
      <3> QED BY <2>1, <3>1 DEF Security, Challenged
    <2>4. /\ \A d \in Conns : d # t => amf'[d] = amf[d]
          /\ amf'[t].phase = "smc" /\ amf'[t].key = amf[t].key /\ vectors' = vectors
      BY <2>1 DEF Turns
    <2>5. \A d \in Conns : \A i \in Places(d)' :
             \/ i \in Places(d) /\ At(d, i)' = At(d, i)
             \/ /\ d = t /\ ~IsRequest(At(d, i)')
                /\ At(d, i)'.type = "SecurityMode" => amf'[t].phase = "smc"
      BY <2>1, <2>2, <2>4 DEF IsRequest
    <2> QED BY <1>1, <2>1, <2>3, <2>4, <2>5, SecurityTurns DEF Keyed
  <1>4. ASSUME NEW t \in Conns, Accepts(t) PROVE Security'
    <2> DEFINE m == [type |-> "ContextSetup"]
    <2>1. m.type = "ContextSetup" /\ Gains(t, <<m>>) /\ amf[t].phase = "smc" /\ Turns(t, "accept")
      BY <1>4 DEF Accepts
    <2> HIDE DEF m
    <2>2. \A d \in Conns : \A i \in Places(d)' :
             (i \in Places(d) /\ At(d, i)' = At(d, i)) \/ (d = t /\ At(d, i)' = m)
      BY <1>1, <2>1, GainOne
    <2>3. Answered(t)
      BY <2>1 DEF Security, Challenged, Keyed
    <2>4. /\ \A d \in Conns : d # t => amf'[d] = amf[d]
          /\ amf'[t].phase = "accept" /\ amf'[t].key = amf[t].key /\ vectors' = vectors
      BY <2>1 DEF Turns
    <2>5. \A d \in Conns : \A i \in Places(d)' :
             \/ i \in Places(d) /\ At(d, i)' = At(d, i)
             \/ /\ d = t /\ ~IsRequest(At(d, i)')
                /\ At(d, i)'.type = "SecurityMode" => amf'[t].phase = "smc"
      BY <2>1, <2>2 DEF IsRequest
    <2>6. ctx[ueMap[t]].knas = amf[t].key
      <3>1. PICK r \in Sent : r.type = "SecurityComplete" /\ r.to = t
        BY <1>4 DEF Accepts
      <3> QED BY <2>1, <3>1 DEF Security, Commanded
    <2> QED BY <1>1, <2>3, <2>4, <2>5, <2>6, SecurityTurns DEF Keyed
  <1>5. ASSUME NEW t \in Conns, Registers(t) PROVE Security'
    <2>1. amf[t].phase = "accept" /\ Turns(t, "registered") /\ dl' = dl
      BY <1>5 DEF Registers
    <2>2. \A d \in Conns : \A i \in Places(d)' : i \in Places(d) /\ At(d, i)' = At(d, i)
      BY <1>1, <2>1, SamePlaces
    <2>3. Answered(t) /\ ctx[ueMap[t]].knas = amf[t].key
      BY <2>1 DEF Security, Challenged, Keyed, Secured
    <2>4. /\ \A d \in Conns : d # t => amf'[d] = amf[d]
          /\ amf'[t].phase = "registered" /\ amf'[t].key = amf[t].key /\ vectors' = vectors
      BY <2>1 DEF Turns
    <2> QED BY <1>1, <2>2, <2>3, <2>4, SecurityTurns DEF Keyed
  <1>6. ASSUME NEW t \in Conns, Ends(t) PROVE Security'
    <2>1. /\ \A d \in Conns : d # t => amf'[d] = amf[d]
          /\ amf'[t].phase = "releasing" /\ amf'[t].key = amf[t].key /\ vectors' = vectors
      BY <1>6 DEF Ends, Turns
    <2>2. \A d \in Conns : \A i \in Places(d)' :
             \/ i \in Places(d) /\ At(d, i)' = At(d, i)
             \/ /\ d = t /\ ~IsRequest(At(d, i)')
                /\ At(d, i)'.type = "SecurityMode" => amf'[t].phase = "smc"
      <3>1. CASE Gains(t, <<[type |-> "Release"]>>)
        <4> DEFINE m == [type |-> "Release"]
        <4>1. m.type = "Release" /\ Gains(t, <<m>>)
          BY <3>1
        <4> HIDE DEF m
        <4> QED BY <1>1, <4>1, GainOne DEF IsRequest
      <3>2. ASSUME NEW x \in Farewell, Gains(t, <<[type |-> x], [type |-> "Release"]>>)
            PROVE  \A d \in Conns : \A i \in Places(d)' :
                      \/ i \in Places(d) /\ At(d, i)' = At(d, i)
                      \/ /\ d = t /\ ~IsRequest(At(d, i)')
                         /\ At(d, i)'.type = "SecurityMode" => amf'[t].phase = "smc"
        <4>0. PICK s : s = <<[type |-> x], [type |-> "Release"]>>
          OBVIOUS
        <4>1. Len(s) = 2 /\ s[1].type = x /\ s[2].type = "Release" /\ Gains(t, s)
          BY <3>2, <4>0
        <4>2. \A k \in 1..Len(s) : s[k].type \notin {"AuthRequest", "SecurityMode"}
          BY <4>1 DEF Farewell
        <4>3. ASSUME NEW d \in Conns, NEW i \in Places(d)'
              PROVE  \/ i \in Places(d) /\ At(d, i)' = At(d, i)
                     \/ d = t /\ \E k \in 1..Len(s) : i = Len(dl[t]) + k /\ At(d, i)' = s[k]
          BY <1>1, <4>1, GainPlaces
        <4> QED BY <4>2, <4>3 DEF IsRequest
      <3> QED BY <1>6, <3>1, <3>2 DEF Ends
    <2> QED BY <1>1, <2>1, <2>2, SecurityTurns DEF Keyed
  <1>7. ASSUME NEW t \in Conns, Repeats(t) PROVE Security'
    <2>1. amf' = amf /\ vectors' = vectors
      BY <1>7 DEF Repeats
    <2>2. CASE amf[t].phase = "auth" /\ Gains(t, <<[type |-> "AuthRequest", key |-> amf[t].key, ok |-> amf[t].ok]>>)
      BY <1>1, <2>1, <2>2, SecurityRepeat
    <2>3. ASSUME NEW m, Gains(t, <<m>>),
                 \/ m.type = "SecurityMode" /\ amf[t].phase = "smc"
                 \/ m.type = "Accept" /\ amf[t].phase = "accept"
          PROVE  Security'
      <3>1. \A d \in Conns : \A i \in Places(d)' :
               (i \in Places(d) /\ At(d, i)' = At(d, i)) \/ (d = t /\ At(d, i)' = m)
        BY <1>1, <2>3, GainOne
      <3>2. Answered(t) /\ (amf[t].phase = "accept" => ctx[ueMap[t]].knas = amf[t].key)
        BY <2>3 DEF Security, Challenged, Keyed, Secured
      <3>3. \A d \in Conns : \A i \in Places(d)' :
               \/ i \in Places(d) /\ At(d, i)' = At(d, i)
               \/ /\ d = t /\ ~IsRequest(At(d, i)')
                  /\ At(d, i)'.type = "SecurityMode" => amf'[t].phase = "smc"
        BY <2>1, <2>3, <3>1 DEF IsRequest
      <3> QED BY <1>1, <2>1, <2>3, <3>2, <3>3, SecurityTurns DEF Keyed
    <2>4. [type |-> "SecurityMode"].type = "SecurityMode" /\ [type |-> "Accept"].type = "Accept"
      OBVIOUS
    <2> QED BY <1>7, <2>2, <2>3, <2>4 DEF Repeats
  <1>8. ASSUME NEW t \in Conns, amf[t].phase \in {"auth", "none"}, NEW b \in BOOLEAN, Asks(t, b)
        PROVE  Security'
    BY <1>1, <1>8, SecurityAsk
  <1>9. Reads(c) /\ ul[c][1].type = "Initial" => amf[c].phase = "none"
    BY DEF Reads, TypeOK, Traffic, Initials
  <1> QED BY <1>2, <1>3, <1>4, <1>5, <1>6, <1>7, <1>8, <1>9 DEF Turn

(***************************************************************************)
(* The invariant.                                                          *)
(***************************************************************************)
\* A gNB with nothing under way and an AMF without contexts.
Blank ==
    /\ ueMap = [c \in Conns |-> NoUe] /\ amf = [c \in Conns |-> NoCtx]
    /\ dl = [c \in Conns |-> <<>>] /\ ul = [c \in Conns |-> <<>>]
    /\ ran = [u \in Ues |-> 0] /\ state = [u \in Ues |-> "DEREGISTERED"]
    /\ test = [u \in Ues |-> "idle"] /\ rx = RxIdle

\* Nothing is wrong where nothing has happened.
LEMMA BlankSlate == TypeOK /\ Blank => Traffic /\ Phases /\ Security
  <1> SUFFICES ASSUME TypeOK, Blank PROVE Traffic /\ Phases /\ Security
    OBVIOUS
  <1> USE DEF Blank
  <1>1. \A c \in Conns : /\ ueMap[c] = NoUe /\ amf[c].phase = "none" /\ amf[c].key = 0
                         /\ dl[c] = <<>> /\ ul[c] = <<>>
    BY DEF NoCtx
  <1>2. \A c \in Conns : Places(c) = {} /\ 1..Len(ul[c]) = {}
    BY <1>1 DEF Places, RxIdle
  <1>3. Sent = {}
    BY <1>2 DEF Sent
  <1>4. Traffic
    BY <1>1, <1>2 DEF Traffic, Receiver, Streams, Links, Initials, RxIdle, Open
  <1>5. \A c \in Conns : Quiet(c)
    BY <1>1, <1>2 DEF Quiet, InitialOn, Open
  <1>6. Phases
    BY <1>1, <1>5 DEF Phases, AllQuiet, Alone, Current, Before, Refused, Gone, Detached,
                      Ending, RxIdle, Starting, Using
  <1>7. Security
    <2>1. 0 <= vectors
      BY DEF TypeOK, Keys
    <2> QED BY <1>1, <1>2, <1>3, <2>1 DEF Security, Vectors, Sequenced, Challenged, Commanded,
                                      Secured, Keyed
  <1> QED BY <1>4, <1>6, <1>7

\* The invariant holds initially.
LEMMA InvariantInit == Init => IInv
  BY TypeInit, BlankSlate DEF Init, Blank, IInv

\* A stuttering step changes nothing the invariant reads.
LEMMA Stutter ==
    ASSUME IInv, UNCHANGED vars
    PROVE  IInv'
  <1>1. UNCHANGED <<state, ran, amfId, ctx, rejected, test, ueMap, ranCounter, rx, dl, ul, amf,
                    vectors, resent, upsets>>
    BY DEF vars, ue, amfV
  <1>2. TypeOK'
    BY <1>1 DEF IInv, TypeOK
  <1>3. \A c \in Conns : /\ Places(c)' = Places(c) /\ \A i \in Places(c) : At(c, i)' = At(c, i)
                         /\ Quiet(c)' = Quiet(c)
    BY <1>1 DEF Places, At, Quiet, InitialOn
  <1>4. Sent' = Sent
    BY <1>1 DEF Sent
  <1>5. Traffic'
    BY <1>1, TrafficFrame DEF IInv
  <1>6. Phases'
    BY <1>1, <1>3, PhasesCalm DEF IInv, Calm, Traffic
  <1>7. Security'
    <2>1. \A c \in Conns : \E n \in {0, 1} : Shifted(c, n)
      BY <1>3, ShiftNone
    <2>2. \A m \in Sent' : m.type \in {"AuthResponse", "SecurityComplete"} =>
             m \in Sent /\ m.to \in Conns
      BY <1>4, SentUplink DEF IInv
    <2> QED BY <1>1, <2>1, <2>2, SecurityFrame, PlaceIntegers DEF IInv
  <1> QED BY <1>2, <1>5, <1>6, <1>7 DEF IInv

\* A step of the test thread preserves the invariant.
LEMMA InvariantTest ==
    ASSUME IInv, NEW u \in Ues,
           \/ Attach(u) \/ CheckDeregister(u) \/ WaitRejected(u) \/ WaitTimeout(u) \/ TestRuns(u)
    PROVE  IInv'
  <1> USE DEF IInv
  <1>1. TypeOK'
    BY TypeTest DEF TestRuns
  <1>2. CASE Attach(u)
    BY <1>1, <1>2, TrafficAttach, PhasesAttach, SecurityTest
  <1>3. CASE SendInitial(u)
    BY <1>1, <1>3, TrafficInitial, PhasesInitial, SecurityTest
  <1>4. CASE \/ Register(u) \/ WaitRegistered(u) \/ WaitRejected(u) \/ CheckDeregister(u)
             \/ Deregister(u) \/ WaitDeregistered(u) \/ WaitTimeout(u)
             \/ \E switchOff \in BOOLEAN : SendDeregister(u, switchOff)
    <2>1. TestMoves(u) /\ UNCHANGED <<ran, ctx, ueMap, ranCounter, rx, dl, amf, vectors>>
      BY <1>4, TestEffect
    <2>2. /\ \E m : Added({m}) /\ m.type \notin {"AuthResponse", "SecurityComplete"}
          /\ \A d \in Conns : d # ran[u] => ul'[d] = ul[d]
      <3>1. CASE ul' = ul
        <4>1. Added({[type |-> "Release"]})
          BY <3>1 DEF Added, Sent
        <4>2. [type |-> "Release"].type \notin {"AuthResponse", "SecurityComplete"}
          OBVIOUS
        <4> QED BY <3>1, <4>1, <4>2
      <3>2. ASSUME NEW b \in BOOLEAN, SendDeregister(u, b)
            PROVE  /\ \E m : Added({m}) /\ m.type \notin {"AuthResponse", "SecurityComplete"}
                   /\ \A d \in Conns : d # ran[u] => ul'[d] = ul[d]
        <4> DEFINE m == [type |-> "Dereg", to |-> amfId[u], key |-> ctx[u].knas, switchOff |-> b]
        <4>1. m.type = "Dereg" /\ SendUplink(ul, u, m)
          BY <3>2 DEF SendDeregister
        <4>2. m.to # 0 => m \in Uplink
          <5>1. amfId[u] # 0 => amfId[u] \in Conns
            BY DEF TypeOK, Conns
          <5>2. ctx[u].knas \in Keys
            BY DEF TypeOK
          <5> QED BY <5>1, <5>2, UplinkMessages
        <4> HIDE DEF m
        <4>3. Added({m}) /\ \A d \in Conns : d # ran[u] => ul'[d] = ul[d]
          BY <4>1, <4>2, SendAdds
        <4> QED BY <4>1, <4>3
      <3>3. ul' = ul \/ \E b \in BOOLEAN : SendDeregister(u, b)
        BY <1>4 DEF Register, WaitRegistered, WaitRejected, CheckDeregister, Deregister,
                    WaitDeregistered, WaitTimeout
      <3> QED BY <3>1, <3>2, <3>3
    <2>3. NoInitial
      BY <2>2 DEF Added, NoInitial
    <2>4. \A d \in Conns : Places(d)' = Places(d) /\ \A i \in Places(d) : At(d, i)' = At(d, i)
      BY <2>1, SamePlaces
    <2>5. Traffic'
      <3>1. Receiver'
        BY <2>1 DEF Traffic, Receiver
      <3>2. \A d \in Conns : ueMap[d] = NoUe => ul'[d] = ul[d]
        BY <2>2, Unused
      <3>3. \A v \in Ues : ran'[v] \in {0, ran[v]}
        BY <2>1
      <3> QED BY <2>1, <2>3, <2>4, <3>1, <3>2, <3>3, TrafficAnswer
    <2>6. Calm
      BY <2>1, <2>3, <2>4, QuietKept
    <2>7. Phases'
      BY <2>1, <2>6, PhasesTest DEF Traffic
    <2>8. Security'
      BY <2>1, <2>2, SecurityTest
    <2> QED BY <1>1, <2>5, <2>7, <2>8
  <1> QED BY <1>2, <1>3, <1>4 DEF TestRuns

\* Every step preserves the invariant.
LEMMA InvariantNext == IInv /\ [Next]_vars => IInv'
  <1> SUFFICES ASSUME IInv, [Next]_vars PROVE IInv'
    OBVIOUS
  <1>1. ASSUME NEW u \in Ues,
               \/ Attach(u) \/ CheckDeregister(u) \/ WaitRejected(u) \/ WaitTimeout(u)
               \/ TestRuns(u)
        PROVE  IInv'
    BY <1>1, InvariantTest
  <1>2. CASE Cleanup
    <2>1. TypeOK'
      BY <1>2, TypeCleanup DEF IInv
    <2>2. Blank'
      BY <1>2 DEF Cleanup, FreshUe, Blank, IInv, Traffic, Receiver
    <2>3. TypeOK' /\ Blank' => Traffic' /\ Phases' /\ Security'
      BY BlankSlate, PTL
    <2> QED BY <2>1, <2>2, <2>3 DEF IInv
  <1>3. CASE OnRelease \/ ReleaseState \/ ReleaseClear
    <2>1. TypeOK'
      BY <1>3, TypeReceiver DEF IInv, Traffic
    <2> QED BY <1>3, <2>1, TrafficRelease, PhasesRelease, SecurityRelease DEF IInv
  <1>4. ASSUME NEW u \in Ues, Handles(u) PROVE IInv'
    <2>1. TypeOK'
      BY <1>4, TypeHandler DEF IInv, Traffic
    <2> QED BY <1>4, <2>1, TrafficHandler, PhasesHandler, SecurityHandler DEF IInv
  <1>5. ASSUME NEW c \in Conns, RxTake(c) PROVE IInv'
    <2>1. TypeOK'
      BY <1>5, TypeReceiver DEF IInv, Traffic
    <2> QED BY <1>5, <2>1, TrafficTake, PhasesTake, SecurityTake DEF IInv
  <1>6. ASSUME NEW c \in Conns, AmfUplink(c) \/ AmfResend(c) \/ AmfRelease(c) PROVE IInv'
    <2>1. TypeOK' /\ Turn(c)
      BY <1>6, TypeAmf, AmfEffect DEF IInv
    <2> QED BY <2>1, TrafficAmf, PhasesAmf, SecurityAmf DEF IInv
  <1>7. CASE UNCHANGED vars
    BY <1>7, Stutter
  <1> QED BY <1>1, <1>2, <1>3, <1>4, <1>5, <1>6, <1>7 DEF Next, RxRun, Handles

\* The invariant holds in every reachable state.
LEMMA Invariant == Spec => []IInv
  BY InvariantInit, InvariantNext, PTL DEF Spec

(***************************************************************************)
(* The theorems.                                                           *)
(***************************************************************************)
\* Every variable stays within its type, whatever the threads and the AMF do.
THEOREM TypeCorrect == Spec => []TypeOK
  <1>1. IInv => TypeOK
    BY DEF IInv
  <1> QED BY <1>1, Invariant, PTL

\* Whatever message the receive thread takes, the gNB still has the UE it is for.
THEOREM DownlinkAlwaysFinds == Spec => []DownlinkFindsUe
  <1>1. IInv => DownlinkFindsUe
    <2>1. SUFFICES ASSUME IInv, rx.pc = "run" PROVE ueMap[rx.on] # NoUe
      BY DEF DownlinkFindsUe
    <2>2. rx.on \in Conns
      BY <2>1 DEF IInv, Traffic, Receiver
    <2>3. 0 \in Places(rx.on)
      BY <2>1, <2>2, PlaceRange DEF IInv, Places
    <2> QED BY <2>1, <2>2, <2>3 DEF IInv, Traffic, Streams
  <1> QED BY <1>1, Invariant, PTL

\* A UE that reports REGISTERED and the AMF's context of its connection hold keys of
\* the same authentication, however old messages and retransmissions interleave.
THEOREM KeysAlwaysAgree == Spec => []KeysAgree
  <1>1. IInv => KeysAgree
    <2>1. SUFFICES ASSUME IInv, NEW u \in Ues, ran[u] # 0,
                          amf[ran[u]].phase \in {"accept", "registered"}
                   PROVE  ctx[u].knas = amf[ran[u]].key
      BY DEF KeysAgree
    <2>2. ran[u] \in Conns
      BY <2>1 DEF IInv, TypeOK, Conns
    <2>3. ueMap[ran[u]] = u
      BY <2>1 DEF IInv, Traffic, Links
    <2> QED BY <2>1, <2>2, <2>3 DEF IInv, Security, Secured
  <1> QED BY <1>1, Invariant, PTL

(***************************************************************************)
(* The refinement.  A release may put a UE to rest that has begun another  *)
(* attempt, and the test may go on with that attempt.  The UE then has     *)
(* answered nothing on its new connection, for the thread that answers is  *)
(* the one that was busy with the release: so no message completes the     *)
(* attempt before one has challenged the UE.                               *)
(***************************************************************************)
Granting == {"SecurityMode", "ContextSetup", "Accept"}

\* The AMF has no answer on connection c to the challenge that counts.
Unanswered(c) ==
    /\ amf[c].phase \notin Keyed
    /\ amf[c].phase = "auth" =>
          \A m \in Sent : m.type = "AuthResponse" /\ m.to = c => m.key # amf[c].key
    /\ \A i \in Places(c) : At(c, i).type \notin Granting

\* The UE is at rest, or a release is about to put it to rest.
SetBack(u) == state[u] = "DEREGISTERED" \/ (rx.pc \in {"release", "clear"} /\ rx.ue = u)

Unmoved ==
    /\ rx.pc = "run" => rx.ue = NoUe
    /\ \A u \in Ues : SetBack(u) /\ ran[u] # 0 => Unanswered(ran[u])

\* The states a handler can leave a UE in.
LEMMA HandlerTarget ==
    ASSUME TypeOK, NEW u \in Ues, Handles(u)
    PROVE  /\ state'[u] \in {state[u], "AUTH_PENDING", "SEC_MODE_PENDING", "REGISTERED",
                             "DEREGISTERED"}
           /\ state'[u] = "REGISTERED" => state[u] = "REGISTERED" \/ rx.msg.type \in Granting
  <1>1. \/ state' = state
        \/ \E x \in {"AUTH_PENDING", "SEC_MODE_PENDING", "DEREGISTERED"} :
              state' = [state EXCEPT ![u] = x]
        \/ state' = [state EXCEPT ![u] = "REGISTERED"] /\ rx.msg.type \in Granting
    <2>1. CASE OnAuthRequest(u)
      BY <2>1 DEF OnAuthRequest, SetState
    <2>2. CASE OnSecurityMode(u)
      <3>1. state' = [state EXCEPT ![u] = "SEC_MODE_PENDING"]
        BY <2>2, Zenon DEF OnSecurityMode, SetState
      <3> QED BY <3>1
    <2>3. CASE OnAccept(u)
      BY <2>3 DEF OnAccept, Accepted, SetState, FindUe, Granting
    <2>4. CASE OnContextSetup(u)
      BY <2>4 DEF OnContextSetup, Accepted, SetState, FindUe, Granting
    <2>5. CASE OnReject(u) \/ OnDeregAccept(u)
      BY <2>5 DEF OnReject, OnDeregAccept, SetState
    <2> QED BY <2>1, <2>2, <2>3, <2>4, <2>5 DEF Handles
  <1> QED BY <1>1 DEF TypeOK

\* Nothing is answered on a connection that is over or not begun.
LEMMA QuietUnanswered ==
    ASSUME NEW c \in Conns, Quiet(c)
    PROVE  Unanswered(c)
  BY DEF Quiet, Unanswered, Open, Keyed, Granting

\* A connection the step adds nothing to stays unanswered.
LEMMA UnansweredKept ==
    ASSUME NEW c \in Conns, Unanswered(c), amf'[c] = amf[c], \E n \in {0, 1} : Shifted(c, n),
           \A m \in Sent' : m.type = "AuthResponse" /\ m.to = c => m \in Sent
    PROVE  Unanswered(c)'
  BY DEF Unanswered, Shifted

\* A step that puts no UE to rest.
LEMMA UnmovedFrame ==
    ASSUME IInv, Unmoved, rx'.pc = "run" => rx'.ue = NoUe,
           \A u \in Ues : SetBack(u)' /\ ran'[u] # 0 => SetBack(u) /\ ran'[u] = ran[u],
           \A c \in Conns : Unanswered(c) => Unanswered(c)'
    PROVE  Unmoved'
  <1>1. ASSUME NEW u \in Ues, SetBack(u)', ran'[u] # 0 PROVE Unanswered(ran[u])' /\ ran'[u] = ran[u]
    <2>1. SetBack(u) /\ ran'[u] = ran[u]
      BY <1>1
    <2>2. PICK c \in Conns : c = ran[u]
      BY <1>1, <2>1, Constants DEF IInv, TypeOK
    <2>3. Unanswered(c)'
      BY <1>1, <2>1, <2>2 DEF Unmoved
    <2> QED BY <2>1, <2>2, <2>3
  <1> QED BY <1>1 DEF Unmoved

\* The steps of the test thread answer nothing.
LEMMA UnmovedTest ==
    ASSUME IInv, Unmoved, NEW u \in Ues,
           \/ Attach(u) \/ CheckDeregister(u) \/ WaitRejected(u) \/ WaitTimeout(u) \/ TestRuns(u)
    PROVE  Unmoved'
  <1> USE DEF IInv
  <1>1. CASE Attach(u) \/ SendInitial(u)
    <2>1. UNCHANGED <<state, rx, dl, amf>>
      BY <1>1 DEF Attach, SendInitial, amfV
    <2>2. \A m \in Sent' : m.type = "AuthResponse" => m \in Sent
      <3>1. CASE Attach(u)
        BY <3>1 DEF Attach, Sent
      <3>2. CASE SendInitial(u)
        <4>1. PICK c \in Conns : Sending(u, c)
          BY <3>2, InitialEffect DEF Phases
        <4> DEFINE n == [type |-> "Initial", ue |-> u]
        <4>2. n \in Uplink /\ n.type = "Initial"
          BY DEF Uplink
        <4> HIDE DEF n
        <4>3. PICK g : g = ul'
          OBVIOUS
        <4>4. ul \in [Conns -> Seq(Uplink)] /\ g = [ul EXCEPT ![c] = Append(@, n)]
          BY <4>1, <4>3 DEF Sending, TypeOK, n
        <4>5. \A d \in Conns : \A i \in 1..Len(g[d]) :
                  (i \in 1..Len(ul[d]) /\ g[d][i] = ul[d][i]) \/ g[d][i] = n
          BY <4>2, <4>4, AppendUplink
        <4>6. Sent' \subseteq Sent \cup {n}
          BY <4>3, <4>5 DEF Sent
        <4> QED BY <4>2, <4>6
      <3> QED BY <1>1, <3>1, <3>2
    <2>3. ASSUME NEW c \in Conns, Unanswered(c) PROVE Unanswered(c)'
      BY <2>1, <2>2, <2>3, SamePlaces, ShiftNone, UnansweredKept
    <2>4. PICK c \in Conns : /\ ran'[u] = c /\ \A v \in Ues : v # u => ran'[v] = ran[v]
                             /\ Quiet(c)
      <3>1. CASE Attach(u) \/ ran[u] = 0
        <4>1. AttachUe(u)
          BY <1>1, <3>1 DEF Attach, SendInitial
        <4>2. /\ ranCounter + 1 \in Conns /\ ueMap[ranCounter + 1] = NoUe
              /\ ran'[u] = ranCounter + 1 /\ \A v \in Ues : v # u => ran'[v] = ran[v]
          BY <4>1, AttachEffect DEF Traffic
        <4> QED BY <4>2, Unused
      <3>2. CASE SendInitial(u) /\ ran[u] # 0
        <4>1. ran' = ran /\ test[u] = "initiated"
          BY <3>2 DEF SendInitial
        <4>2. ran[u] \in Conns /\ ueMap[ran[u]] = u
          BY <3>2, Constants DEF TypeOK, Traffic, Links
        <4>3. AllQuiet(u)
          BY <4>1 DEF Phases, Before, Starting
        <4> QED BY <4>1, <4>2, <4>3 DEF AllQuiet
      <3> QED BY <1>1, <3>1, <3>2
    <2>5. Unanswered(c)'
      BY <2>3, <2>4, QuietUnanswered
    <2>6. ASSUME NEW v \in Ues, v # u, SetBack(v)', ran'[v] # 0
          PROVE  Unanswered(ran[v])' /\ ran'[v] = ran[v]
      <3>1. SetBack(v) /\ ran'[v] = ran[v]
        BY <2>1, <2>4, <2>6 DEF SetBack
      <3>2. PICK d \in Conns : d = ran[v]
        BY <2>6, <3>1, Constants DEF TypeOK
      <3>3. Unanswered(d)'
        BY <2>3, <2>6, <3>1, <3>2 DEF Unmoved
      <3> QED BY <3>1, <3>2, <3>3
    <2> QED BY <2>1, <2>4, <2>5, <2>6 DEF Unmoved
  <1>2. CASE \/ Register(u) \/ WaitRegistered(u) \/ WaitRejected(u) \/ CheckDeregister(u)
             \/ Deregister(u) \/ WaitDeregistered(u) \/ WaitTimeout(u)
             \/ \E switchOff \in BOOLEAN : SendDeregister(u, switchOff)
    <2>1. TestMoves(u) /\ UNCHANGED <<ran, ctx, ueMap, ranCounter, rx, dl, amf, vectors>>
      BY <1>2, TestEffect
    <2>2. \A m \in Sent' : m.type = "AuthResponse" => m \in Sent
      <3>1. CASE ul' = ul
        BY <3>1 DEF Sent
      <3>2. ASSUME NEW b \in BOOLEAN, SendDeregister(u, b)
            PROVE  \A m \in Sent' : m.type = "AuthResponse" => m \in Sent
        <4> DEFINE n == [type |-> "Dereg", to |-> amfId[u], key |-> ctx[u].knas, switchOff |-> b]
        <4>1. n.type = "Dereg" /\ SendUplink(ul, u, n)
          BY <3>2 DEF SendDeregister
        <4>2. n.to # 0 => n \in Uplink
          <5>1. amfId[u] # 0 => amfId[u] \in Conns
            BY DEF TypeOK, Conns
          <5>2. ctx[u].knas \in Keys
            BY DEF TypeOK
          <5> QED BY <5>1, <5>2, UplinkMessages
        <4> HIDE DEF n
        <4>3. Added({n})
          BY <4>1, <4>2, SendAdds
        <4> QED BY <4>1, <4>3 DEF Added
      <3>3. ul' = ul \/ \E b \in BOOLEAN : SendDeregister(u, b)
        BY <1>2 DEF Register, WaitRegistered, WaitRejected, CheckDeregister, Deregister,
                    WaitDeregistered, WaitTimeout
      <3> QED BY <3>1, <3>2, <3>3
    <2>3. ASSUME NEW c \in Conns, Unanswered(c) PROVE Unanswered(c)'
      BY <2>1, <2>2, <2>3, SamePlaces, ShiftNone, UnansweredKept
    <2>4. \A v \in Ues : state'[v] = "DEREGISTERED" => state[v] = "DEREGISTERED"
      BY <2>1 DEF TestMoves, TypeOK
    <2>5. \A v \in Ues : SetBack(v)' => SetBack(v)
      BY <2>1, <2>4 DEF SetBack
    <2> QED BY <2>1, <2>3, <2>5, UnmovedFrame DEF Unmoved
  <1> QED BY <1>1, <1>2 DEF TestRuns

\* A handler puts its UE to rest only with the last message but the release.
LEMMA UnmovedHandler ==
    ASSUME IInv, Unmoved, NEW u \in Ues, Handles(u)
    PROVE  /\ Unmoved' /\ ran[u] \in {0, rx.on} /\ rx.on # 0 /\ rx.pc = "run" /\ rx.ue = NoUe
           /\ state'[u] = "REGISTERED" /\ state[u] # "REGISTERED" =>
                 ran[u] # 0 /\ state[u] # "DEREGISTERED"
  <1> USE DEF IInv
  <1>1. HandlerFrame(u) /\ HandlerSends(u) /\ HandlerState(u)
    BY HandlerEffect DEF Traffic
  <1>2. /\ UNCHANGED <<ran, ueMap, amf>> /\ rx' = RxIdle
        /\ rx.pc = "run" /\ rx.msg.type # "Release" /\ ueMap[rx.on] = u /\ rx.on \in Conns
        /\ \A v \in Ues : v # u => state'[v] = state[v]
    BY <1>1 DEF HandlerFrame, amfV
  <1>3. ~Quiet(rx.on) /\ 0 \in Places(rx.on) /\ At(rx.on, 0) = rx.msg
    BY <1>2, Handled
  <1>4. ran[u] \in {0, rx.on}
    <2>1. PICK on \in Conns : on = rx.on
      BY <1>2
    <2> QED BY <1>2, <1>3, <2>1 DEF Phases, Current
  <1>5. \A d \in Conns : \A i \in Places(d)' : i \in Places(d) /\ At(d, i)' = At(d, i)
    BY <1>1, HandlerLeaves
  <1>6. \A m \in Sent' : m.type = "AuthResponse" => m \in Sent \/ m.to = rx.on
    BY HandlerMeans
  <1>7. ASSUME NEW d \in Conns, d # rx.on, Unanswered(d) PROVE Unanswered(d)'
    BY <1>2, <1>5, <1>6, <1>7, ShiftNone, UnansweredKept
  <1>8. ASSUME NEW v \in Ues, v # u, SetBack(v)', ran'[v] # 0 PROVE Unanswered(ran[v])'
    <2>1. SetBack(v) /\ ran[v] # 0
      BY <1>2, <1>8 DEF SetBack, RxIdle
    <2>2. PICK d \in Conns : d = ran[v] /\ d = ran'[v]
      BY <1>2, <2>1, Constants DEF TypeOK
    <2>3. d # rx.on
      BY <1>2, <1>8, <2>1, <2>2 DEF Traffic, Links
    <2>4. Unanswered(d)'
      BY <1>7, <2>1, <2>2, <2>3 DEF Unmoved
    <2> QED BY <2>2, <2>4
  <1>9. ASSUME SetBack(u)', ran'[u] # 0 PROVE Unanswered(ran[u])'
    <2>1. state'[u] = "DEREGISTERED"
      BY <1>2, <1>9 DEF SetBack, RxIdle
    <2>2. ran[u] = rx.on
      BY <1>2, <1>4, <1>9
    <2>3. PICK on \in Conns : on = rx.on /\ on = ran[u] /\ on = ran'[u]
      BY <1>2, <2>2
    <2>4. CASE rx.msg.type \in Farewell
      <3>1. AllQuiet(u)'
        BY <2>4, FarewellQuiets
      <3>2. Quiet(on)'
        BY <1>2, <2>3, <3>1 DEF AllQuiet
      <3>3. Unanswered(on)'
        BY <3>2 DEF Quiet, Unanswered, Open, Keyed, Granting
      <3> QED BY <2>3, <3>3
    <2>5. CASE rx.msg.type \notin Farewell
      <3>1. state[u] = "DEREGISTERED" /\ state' = state
        BY <1>1, <1>2, <2>1, <2>5 DEF HandlerState, HandlerFrame, TypeOK
      <3>2. rx.msg.type \notin Granting
        <4>1. Unanswered(on)
          BY <1>2, <2>3, <3>1, Constants DEF Unmoved, SetBack
        <4> QED BY <1>3, <2>3, <4>1 DEF Unanswered
      <3>3. rx.msg.type = "AuthRequest"
        BY <1>1, <1>2, <2>5, <3>2, DownlinkFields DEF HandlerFrame, Farewell, Granting
      <3>4. OnAuthRequest(u)
        BY <3>3 DEF Handles, OnSecurityMode, OnAccept, OnContextSetup, OnReject, OnDeregAccept,
                    FindUe
      <3>5. state'[u] = "AUTH_PENDING"
        BY <3>4 DEF OnAuthRequest, SetState, TypeOK
      <3> QED BY <2>1, <3>5
    <2> QED BY <2>4, <2>5
  <1>10. Unmoved'
    BY <1>2, <1>8, <1>9 DEF Unmoved, RxIdle
  <1>11. ASSUME state'[u] = "REGISTERED", state[u] # "REGISTERED"
         PROVE  ran[u] # 0 /\ state[u] # "DEREGISTERED"
    <2>1. ran[u] # 0
      BY <1>1, <1>11 DEF HandlerState
    <2>2. rx.msg.type \in Granting
      BY <1>11, HandlerTarget
    <2>3. ~Unanswered(rx.on)
      BY <1>3, <2>2 DEF Unanswered
    <2> QED BY <1>4, <2>1, <2>3 DEF Unmoved, SetBack
  <1> QED BY <1>2, <1>4, <1>10, <1>11, Constants DEF Unmoved

\* The steps of a release: what it puts to rest, it judged to be over or without a
\* connection, and the UE has answered nothing on a connection it got since.
LEMMA UnmovedRelease ==
    ASSUME IInv, Unmoved, OnRelease \/ ReleaseState \/ ReleaseClear
    PROVE  Unmoved'
  <1> USE DEF IInv
  <1>1. /\ UNCHANGED amf /\ Added({[type |-> "ReleaseComplete", to |-> rx.on]})
        /\ \A d \in Conns : \A i \in Places(d)' : i \in Places(d) /\ At(d, i)' = At(d, i)
    BY ReleaseLeaves
  <1>2. \A m \in Sent' : m.type = "AuthResponse" => m \in Sent
    BY <1>1 DEF Added
  <1>3. ASSUME NEW d \in Conns, Unanswered(d) PROVE Unanswered(d)'
    BY <1>1, <1>2, <1>3, ShiftNone, UnansweredKept
  <1>4. CASE OnRelease
    <2>1. /\ UNCHANGED <<state, ran>> /\ rx.on \in Conns /\ Quiet(rx.on) /\ rx'.pc # "run"
          /\ rx.pc = "run"
      BY <1>4, Released DEF ue
    <2>2. PICK on \in Conns : on = rx.on
      BY <2>1
    <2>3. Unanswered(on)'
      BY <1>3, <2>1, <2>2, QuietUnanswered
    <2>4. rx'.pc \in {"release", "clear"} => ran[rx'.ue] \in {0, on}
      BY <1>4, <2>2 DEF OnRelease, RxIdle
    <2>5. ASSUME NEW v \in Ues, SetBack(v)', ran'[v] # 0 PROVE Unanswered(ran[v])'
      <3>1. CASE ran[v] = on
        <4>1. on = ran'[v]
          BY <2>1, <3>1
        <4> QED BY <2>3, <4>1
      <3>2. CASE ran[v] # on
        <4>1. SetBack(v) /\ ran[v] # 0
          BY <2>1, <2>4, <2>5, <3>2 DEF SetBack
        <4>2. PICK d \in Conns : d = ran[v] /\ d = ran'[v]
          BY <2>1, <4>1, Constants DEF TypeOK
        <4>3. Unanswered(d)'
          BY <1>3, <4>1, <4>2 DEF Unmoved
        <4> QED BY <4>2, <4>3
      <3> QED BY <3>1, <3>2
    <2> QED BY <2>1, <2>5 DEF Unmoved
  <1>5. CASE ReleaseState
    <2>1. /\ rx.pc = "release" /\ ran' = ran /\ rx.ue \in Ues
          /\ rx'.ue = rx.ue /\ rx'.pc = "clear"
      BY <1>5 DEF ReleaseState, TypeOK, Traffic, Receiver
    <2>2. \A v \in Ues : v # rx.ue => state'[v] = state[v]
      BY <1>5, <2>1 DEF ReleaseState, SetState, TypeOK
    <2>3. \A v \in Ues : SetBack(v)' => SetBack(v)
      BY <2>1, <2>2 DEF SetBack
    <2> QED BY <1>3, <2>1, <2>3, UnmovedFrame
  <1>6. CASE ReleaseClear
    <2>1. /\ rx.pc = "clear" /\ state' = state /\ rx'.pc = "idle" /\ rx.ue \in Ues
      BY <1>6 DEF ReleaseClear, RxIdle, Traffic, Receiver
    <2>2. ran'[rx.ue] = 0 /\ \A v \in Ues : v # rx.ue => ran'[v] = ran[v]
      BY <1>6, <2>1 DEF ReleaseClear, TypeOK
    <2>3. \A v \in Ues : SetBack(v)' /\ ran'[v] # 0 => SetBack(v) /\ ran'[v] = ran[v]
      BY <2>1, <2>2 DEF SetBack
    <2> QED BY <1>3, <2>1, <2>3, UnmovedFrame
  <1> QED BY <1>4, <1>5, <1>6

\* A turn of the AMF sends on a connection without an answer nothing but another
\* challenge, a refusal or a release.
LEMMA TurnUnanswered ==
    ASSUME IInv, NEW c \in Conns, Turn(c), NEW d \in Conns, Unanswered(d)
    PROVE  Unanswered(d)'
  <1> USE DEF IInv
  <1>1. rx' = rx /\ Sent' \subseteq Sent
    <2>1. Reads(c) \/ ul' = ul
      BY DEF Turn
    <2>2. ul' = ul => Sent' = Sent
      BY DEF Sent
    <2>3. Sent' \subseteq Sent
      BY <2>1, <2>2 DEF Reads
    <2> QED BY <2>3 DEF Turn
  <1>2. ASSUME amf'[d] = amf[d], dl'[d] = dl[d] PROVE Unanswered(d)'
    BY <1>1, <1>2, SamePlaces, ShiftNone, UnansweredKept
  <1>3. CASE Ignores
    BY <1>2, <1>3 DEF Ignores
  <1>4. ASSUME NEW t \in Conns, t # d,
               \/ Commands(t) \/ Accepts(t) \/ Registers(t) \/ Ends(t) \/ Repeats(t)
               \/ \E b \in BOOLEAN : Asks(t, b)
        PROVE  Unanswered(d)'
    <2>1. Touches(t)
      BY <1>4, EffectTouches
    <2> QED BY <1>2, <1>4, <2>1 DEF Touches
  <1>5. ASSUME Commands(d) \/ Accepts(d) \/ Registers(d) PROVE FALSE
    BY <1>5 DEF Commands, Accepts, Registers, Unanswered, Keyed
  <1>6. CASE Ends(d)
    <2>1. amf'[d].phase = "releasing"
      BY <1>6 DEF Ends, Turns
    <2>2. \A i \in Places(d)' : At(d, i)'.type \notin Granting
      <3>1. CASE Gains(d, <<[type |-> "Release"]>>)
        <4> DEFINE m == [type |-> "Release"]
        <4>1. m.type \notin Granting /\ Gains(d, <<m>>)
          BY <3>1 DEF Granting
        <4> HIDE DEF m
        <4> QED BY <1>1, <4>1, GainOne DEF Unanswered
      <3>2. ASSUME NEW x \in Farewell, Gains(d, <<[type |-> x], [type |-> "Release"]>>)
            PROVE  \A i \in Places(d)' : At(d, i)'.type \notin Granting
        <4> DEFINE s == <<[type |-> x], [type |-> "Release"]>>
        <4>1. Len(s) = 2 /\ \A k \in 1..Len(s) : s[k].type \notin Granting
          BY DEF Granting, Farewell
        <4>2. Gains(d, s)
          BY <3>2
        <4> HIDE DEF s
        <4> QED BY <1>1, <4>1, <4>2, GainPlaces DEF Unanswered
      <3> QED BY <1>6, <3>1, <3>2 DEF Ends
    <2> QED BY <2>1, <2>2 DEF Unanswered, Keyed
  <1>7. CASE Repeats(d)
    <2> DEFINE m == [type |-> "AuthRequest", key |-> amf[d].key, ok |-> amf[d].ok]
    <2>1. m.type \notin Granting /\ amf' = amf /\ Gains(d, <<m>>)
      BY <1>7 DEF Repeats, Unanswered, Keyed, Granting
    <2> HIDE DEF m
    <2>2. \A i \in Places(d)' : At(d, i)'.type \notin Granting
      BY <1>1, <2>1, GainOne DEF Unanswered
    <2> QED BY <1>1, <2>1, <2>2 DEF Unanswered
  <1>8. ASSUME NEW b \in BOOLEAN, Asks(d, b) PROVE Unanswered(d)'
    <2>0. PICK k \in Keys : k = vectors'
      BY <1>8 DEF Asks
    <2> DEFINE m == [type |-> "AuthRequest", key |-> k, ok |-> b]
    <2>1. /\ m.type \notin Granting /\ Gains(d, <<m>>) /\ k = vectors + 1
          /\ amf'[d].phase = "auth" /\ amf'[d].key = k
      BY <1>8, <2>0 DEF Asks, Granting
    <2> HIDE DEF m
    <2>2. \A i \in Places(d)' : At(d, i)'.type \notin Granting
      BY <1>1, <2>1, GainOne DEF Unanswered
    <2>3. vectors \in Int
      BY Constants DEF TypeOK, Keys
    <2>4. \A n \in Sent : n.type = "AuthResponse" => n.key \in Int /\ n.key <= vectors
      BY SentUplink, UplinkFields DEF Keys, Security, Vectors
    <2>5. \A n \in Sent' : n.type = "AuthResponse" => n.key # k
      BY <1>1, <2>1, <2>3, <2>4
    <2> QED BY <2>1, <2>2, <2>5 DEF Unanswered, Keyed
  <1> QED BY <1>3, <1>4, <1>5, <1>6, <1>7, <1>8 DEF Turn

\* Every step preserves it.
LEMMA UnmovedNext == IInv /\ Unmoved /\ [Next]_vars => Unmoved'
  <1> SUFFICES ASSUME IInv, Unmoved, [Next]_vars PROVE Unmoved'
    OBVIOUS
  <1>1. ASSUME NEW u \in Ues,
               \/ Attach(u) \/ CheckDeregister(u) \/ WaitRejected(u) \/ WaitTimeout(u)
               \/ TestRuns(u)
        PROVE  Unmoved'
    BY <1>1, UnmovedTest
  <1>2. CASE Cleanup
    BY <1>2 DEF Cleanup, FreshUe, Unmoved
  <1>3. CASE OnRelease \/ ReleaseState \/ ReleaseClear
    BY <1>3, UnmovedRelease
  <1>4. ASSUME NEW u \in Ues, Handles(u) PROVE Unmoved'
    BY <1>4, UnmovedHandler
  <1>5. ASSUME NEW c \in Conns, RxTake(c) PROVE Unmoved'
    <2>1. /\ UNCHANGED <<state, ran, ul, amf>> /\ rx'.pc = "run" /\ rx'.ue = NoUe
      BY <1>5 DEF RxTake, ue, amfV
    <2>2. ASSUME NEW d \in Conns PROVE \E n \in {0, 1} : Shifted(d, n)
      <3>1. CASE d = c
        <4>1. Shifted(c, 1)
          BY <1>5, TakePlaces DEF Shifted, IInv
        <4> QED BY <3>1, <4>1
      <3>2. CASE d # c
        BY <1>5, <3>2, TakePlaces, ShiftNone DEF IInv
      <3> QED BY <3>1, <3>2
    <2>3. Sent' = Sent
      BY <2>1 DEF Sent
    <2>4. ASSUME NEW d \in Conns, Unanswered(d) PROVE Unanswered(d)'
      BY <2>1, <2>2, <2>3, <2>4, UnansweredKept
    <2>5. \A v \in Ues : SetBack(v)' => SetBack(v)
      BY <2>1 DEF SetBack
    <2> QED BY <2>1, <2>4, <2>5, UnmovedFrame
  <1>6. ASSUME NEW c \in Conns, AmfUplink(c) \/ AmfResend(c) \/ AmfRelease(c) PROVE Unmoved'
    <2>1. Turn(c)
      BY <1>6, AmfEffect DEF IInv
    <2>2. UNCHANGED <<state, ran, rx>>
      BY <2>1 DEF Turn, ue
    <2>3. \A v \in Ues : SetBack(v)' => SetBack(v)
      BY <2>2 DEF SetBack
    <2> QED BY <2>1, <2>2, <2>3, TurnUnanswered, UnmovedFrame DEF Unmoved
  <1>7. CASE UNCHANGED vars
    <2>1. UNCHANGED <<state, ran, rx, dl, ul, amf>>
      BY <1>7 DEF vars, ue, amfV
    <2>2. Sent' = Sent /\ \A v \in Ues : SetBack(v)' => SetBack(v)
      BY <2>1 DEF Sent, SetBack
    <2>3. ASSUME NEW d \in Conns, Unanswered(d) PROVE Unanswered(d)'
      BY <2>1, <2>2, <2>3, SamePlaces, ShiftNone, UnansweredKept
    <2> QED BY <2>1, <2>2, <2>3, UnmovedFrame DEF Unmoved
  <1> QED BY <1>1, <1>2, <1>3, <1>4, <1>5, <1>6, <1>7 DEF Next, RxRun, Handles

\* It holds in every reachable state.
LEMMA UnmovedAlways == Spec => [](IInv /\ Unmoved)
  <1>1. Init => Unmoved
    BY DEF Init, Unmoved, RxIdle
  <1>2. IInv /\ Unmoved /\ [Next]_vars => Unmoved'
    BY UnmovedNext
  <1> QED BY <1>1, <1>2, InvariantInit, InvariantNext, PTL DEF Spec

(***************************************************************************)
(* Every step is a step of UeRegistration.                                 *)
(***************************************************************************)
PhasesOf == [u \in Ues |-> PhaseOf(state[u])]

\* The states by phase.
LEMMA PhaseValues ==
    ASSUME NEW s \in States
    PROVE  /\ PhaseOf(s) \in Registration!Phases
           /\ PhaseOf(s) = "idle" <=> s = "DEREGISTERED"
           /\ PhaseOf(s) = "registered" <=> s = "REGISTERED"
           /\ PhaseOf(s) = "leaving" <=> s = "DEREGISTERING"
  BY DEF States, PhaseOf, Trying, Registration!Phases

\* A step that changes the state of one UE changes its phase and no other.
LEMMA PhaseStep ==
    ASSUME TypeOK, NEW u \in Ues, NEW s \in States, state' = [state EXCEPT ![u] = s]
    PROVE  PhasesOf' = [PhasesOf EXCEPT ![u] = PhaseOf(s)]
  <1>1. /\ state'[u] = s /\ \A v \in Ues : v # u => state'[v] = state[v]
    BY DEF TypeOK
  <1>2. PhasesOf' = [v \in Ues |-> PhaseOf(state'[v])]
    BY DEF PhasesOf, PhaseOf
  <1>3. PhasesOf = [v \in Ues |-> PhaseOf(state[v])]
    BY DEF PhasesOf
  <1> QED BY <1>1, <1>2, <1>3

\* The connection of the message being handled, and the UE of the release.
LEMMA HeardConn == IInv => rx.on \in Conns \cup {0} /\ (rx.pc = "idle" => rx.ue = NoUe)
  BY DEF IInv, Traffic, Receiver, RxIdle, TypeOK

\* A step that changes no UE.
LEMMA Listens ==
    ASSUME (rx.on \in Conns \cup {0})', UNCHANGED <<state, ran>>, rx'.ue = rx.ue
    PROVE  Registration!RegNext
  <1>1. PhasesOf' = PhasesOf
    BY DEF PhasesOf, PhaseOf
  <1> QED BY <1>1 DEF PhasesOf, Registration!RegNext, Registration!Listen

\* The steps of the test thread: it attaches the UE, begins or leaves.
LEMMA SimulatesTest ==
    ASSUME IInv, IInv', NEW u \in Ues,
           \/ Attach(u) \/ CheckDeregister(u) \/ WaitRejected(u) \/ WaitTimeout(u) \/ TestRuns(u)
    PROVE  Registration!RegNext
  <1>0. (rx.on \in Conns \cup {0})'
    BY HeardConn, PTL
  <1>1. CASE Attach(u) \/ (SendInitial(u) /\ ran[u] = 0)
    <2>1. (Attach(u) => state[u] = "DEREGISTERED") /\ AttachUe(u) /\ UNCHANGED <<state, rx>>
      BY <1>1 DEF Attach, SendInitial, IInv, Phases, Before, Starting
    <2>2. PhasesOf[u] = "idle" \/ ran[u] = 0
      BY <1>1, <2>1, PhaseValues DEF PhasesOf, States
    <2>3. PhasesOf' = PhasesOf
      BY <2>1 DEF PhasesOf, PhaseOf
    <2>4. ranCounter + 1 \in Conns /\ ran' = [ran EXCEPT ![u] = ranCounter + 1]
      BY <2>1, AttachEffect DEF AttachUe, IInv, Traffic
    <2> QED BY <1>0, <2>1, <2>2, <2>3, <2>4
            DEF PhasesOf, Registration!RegNext, Registration!Attach
  <1>2. CASE Register(u)
    <2>1. state[u] = "DEREGISTERED" /\ UNCHANGED <<ran, rx>>
      BY <1>2 DEF Register, IInv, Phases, Before, Starting
    <2>2. PhasesOf[u] = "idle"
      BY <2>1, PhaseValues DEF PhasesOf, States
    <2>3. PhaseOf("REG_INITIATED") = "trying" /\ "REG_INITIATED" \in States
      BY DEF PhaseOf, Trying, States
    <2>4. PhasesOf' = [PhasesOf EXCEPT ![u] = "trying"]
      BY <1>2, <2>3, PhaseStep DEF Register, SetState, IInv
    <2> QED BY <1>0, <2>1, <2>2, <2>4
            DEF PhasesOf, Registration!RegNext, Registration!Begin
  <1>3. CASE Deregister(u)
    <2>1. PhaseOf("DEREGISTERING") = "leaving" /\ "DEREGISTERING" \in States
      BY DEF PhaseOf, Trying, States
    <2>2. PhasesOf' = [PhasesOf EXCEPT ![u] = "leaving"]
      BY <1>3, <2>1, PhaseStep DEF Deregister, SetState, IInv
    <2>3. UNCHANGED <<ran, rx>>
      BY <1>3 DEF Deregister
    <2> QED BY <1>0, <2>2, <2>3 DEF PhasesOf, Registration!RegNext, Registration!Leave
  <1>4. CASE \/ CheckDeregister(u) \/ WaitRejected(u) \/ WaitTimeout(u) \/ WaitRegistered(u)
             \/ WaitDeregistered(u) \/ \E switchOff \in BOOLEAN : SendDeregister(u, switchOff)
             \/ SendInitial(u) /\ ran[u] # 0
    <2>1. UNCHANGED <<state, ran, rx>>
      BY <1>4 DEF CheckDeregister, WaitRejected, WaitTimeout, WaitRegistered, WaitDeregistered,
                  SendDeregister, SendInitial, ue
    <2> QED BY <1>0, <2>1, Listens
  <1> QED BY <1>1, <1>2, <1>3, <1>4 DEF TestRuns

\* The handlers: the UE learns from a message of its own connection, or of the one
\* it has lost.
LEMMA SimulatesHandler ==
    ASSUME IInv, IInv', Unmoved, NEW u \in Ues, Handles(u)
    PROVE  Registration!RegNext
  <1>0. (rx.on \in Conns \cup {0})'
    BY HeardConn, PTL
  <1>1. HandlerFrame(u)
    BY HandlerEffect DEF IInv, Traffic
  <1>2. /\ ran' = ran /\ state' \in [Ues -> States] /\ rx'.ue = NoUe
        /\ \A v \in Ues : v # u => state'[v] = state[v]
    BY <1>1 DEF HandlerFrame, RxIdle
  <1>3. /\ ran[u] \in {0, rx.on} /\ rx.on # 0 /\ rx.ue = NoUe
        /\ state'[u] = "REGISTERED" /\ state[u] # "REGISTERED" =>
              ran[u] # 0 /\ state[u] # "DEREGISTERED"
    BY UnmovedHandler
  <1>4. PICK s \in States : s = state'[u]
    BY <1>2
  <1>5. state' = [state EXCEPT ![u] = s]
    BY <1>2, <1>4 DEF IInv, TypeOK
  <1>6. CASE s = state[u]
    <2>1. state' = state
      BY <1>5, <1>6 DEF IInv, TypeOK
    <2> QED BY <1>0, <1>2, <1>3, <2>1, Listens
  <1>7. CASE s # state[u]
    <2>1. PhaseOf(s) \in {"idle", "trying", "registered"}
      BY <1>4, <1>7, HandlerTarget DEF PhaseOf, Trying, IInv
    <2>2. PhaseOf(s) = "registered" => ran[u] = rx.on /\ PhasesOf[u] # "idle"
      <3>1. state[u] \in States
        BY DEF IInv, TypeOK
      <3> QED BY <1>3, <1>4, <1>7, <3>1, PhaseValues DEF PhasesOf
    <2>3. PhasesOf' = [PhasesOf EXCEPT ![u] = PhaseOf(s)]
      BY <1>5, PhaseStep DEF IInv
    <2> QED BY <1>0, <1>2, <1>3, <2>1, <2>2, <2>3
            DEF PhasesOf, Registration!RegNext, Registration!Learn
  <1> QED BY <1>6, <1>7

\* The release: it is judged, and then lets the UE go and drops its connection.
LEMMA SimulatesRelease ==
    ASSUME IInv, IInv', Unmoved, OnRelease \/ ReleaseState \/ ReleaseClear
    PROVE  Registration!RegNext
  <1>0. (rx.on \in Conns \cup {0})'
    BY HeardConn, PTL
  <1>1. CASE OnRelease
    <2>1. /\ UNCHANGED <<state, ran>> /\ rx.on \in Conns /\ ueMap[rx.on] \in Ues
          /\ rx.pc = "run" /\ rx.ue = NoUe
      BY <1>1, Released DEF IInv, ue, Unmoved
    <2>2. PICK u \in Ues : u = ueMap[rx.on]
      BY <2>1
    <2>3. CASE ran[u] \notin {0, rx.on}
      BY <1>0, <1>1, <2>1, <2>2, <2>3, Listens DEF OnRelease, RxIdle
    <2>4. CASE ran[u] \in {0, rx.on}
      <3>1. rx'.ue = u
        BY <1>1, <2>2, <2>4 DEF OnRelease
      <3>2. rx.on # 0
        BY <2>1, Constants
      <3>3. PhasesOf' = PhasesOf
        BY <2>1 DEF PhasesOf, PhaseOf
      <3> QED BY <1>0, <2>1, <2>4, <3>1, <3>2, <3>3
              DEF PhasesOf, Registration!RegNext, Registration!Judge
    <2> QED BY <2>3, <2>4
  <1>2. CASE ReleaseState
    <2>1. rx.pc = "release" /\ ran' = ran /\ rx'.ue = rx.ue
      BY <1>2 DEF ReleaseState, IInv, TypeOK
    <2>2. PICK u \in Ues : u = rx.ue
      BY <2>1 DEF IInv, Traffic, Receiver
    <2>3. state' = [state EXCEPT ![u] = "DEREGISTERED"]
      BY <1>2, <2>2 DEF ReleaseState, SetState
    <2>4. PhaseOf("DEREGISTERED") = "idle" /\ "DEREGISTERED" \in States
      BY DEF PhaseOf, Trying, States
    <2>5. PhasesOf' = [PhasesOf EXCEPT ![u] = "idle"]
      BY <2>3, <2>4, PhaseStep DEF IInv
    <2> QED BY <1>0, <2>1, <2>2, <2>5
            DEF PhasesOf, Registration!RegNext, Registration!LetGo
  <1>3. CASE ReleaseClear
    <2>1. rx.pc = "clear" /\ state' = state /\ rx'.ue = NoUe
      BY <1>3 DEF ReleaseClear, RxIdle
    <2>2. PICK u \in Ues : u = rx.ue
      BY <2>1 DEF IInv, Traffic, Receiver
    <2>3. ran' = [ran EXCEPT ![u] = 0]
      BY <1>3, <2>2 DEF ReleaseClear
    <2>4. PhasesOf' = PhasesOf
      BY <2>1 DEF PhasesOf, PhaseOf
    <2> QED BY <1>0, <2>1, <2>2, <2>3, <2>4
            DEF PhasesOf, Registration!RegNext, Registration!Drop
  <1> QED BY <1>1, <1>2, <1>3

\* Every step is a step of UeRegistration.
LEMMA Simulates ==
    IInv /\ IInv' /\ Unmoved /\ [Next]_vars => Registration!RegNext
  <1> SUFFICES ASSUME IInv, IInv', Unmoved, [Next]_vars PROVE Registration!RegNext
    OBVIOUS
  <1>0. (rx.on \in Conns \cup {0})'
    BY HeardConn, PTL
  <1>1. ASSUME NEW u \in Ues,
               \/ Attach(u) \/ CheckDeregister(u) \/ WaitRejected(u) \/ WaitTimeout(u)
               \/ TestRuns(u)
        PROVE  Registration!RegNext
    BY <1>1, SimulatesTest
  <1>2. CASE Cleanup
    <2>1. /\ rx.on = 0 /\ rx.ue = NoUe /\ rx' = rx
          /\ state' = [u \in Ues |-> "DEREGISTERED"] /\ ran' = [u \in Ues |-> 0]
      BY <1>2 DEF Cleanup, FreshUe, IInv, Traffic, Receiver, RxIdle
    <2>2. PhaseOf("DEREGISTERED") = "idle"
      BY PhaseValues DEF States
    <2>3. PhasesOf' = [u \in Ues |-> PhaseOf(state'[u])]
      BY DEF PhasesOf, PhaseOf
    <2>4. PhasesOf' = [u \in Ues |-> "idle"]
      BY <2>1, <2>2, <2>3
    <2> QED BY <1>0, <2>1, <2>4 DEF PhasesOf, Registration!RegNext, Registration!Reset
  <1>3. CASE OnRelease \/ ReleaseState \/ ReleaseClear
    BY <1>3, SimulatesRelease
  <1>4. ASSUME NEW u \in Ues, Handles(u) PROVE Registration!RegNext
    BY <1>4, SimulatesHandler
  <1>5. ASSUME NEW c \in Conns, RxTake(c) PROVE Registration!RegNext
    <2>1. UNCHANGED <<state, ran>> /\ rx'.ue = rx.ue
      BY <1>5, HeardConn DEF RxTake, ue
    <2> QED BY <1>0, <2>1, Listens
  <1>6. ASSUME NEW c \in Conns, AmfUplink(c) \/ AmfResend(c) \/ AmfRelease(c)
        PROVE  Registration!RegNext
    <2>1. UNCHANGED <<state, ran, rx>>
      BY <1>6, AmfEffect DEF Turn, IInv, ue
    <2> QED BY <1>0, <2>1, Listens
  <1>7. CASE UNCHANGED vars
    BY <1>0, <1>7, Listens DEF vars, ue
  <1> QED BY <1>1, <1>2, <1>3, <1>4, <1>5, <1>6, <1>7 DEF Next, RxRun, Handles

\* The initial state maps to the abstract one.
LEMMA StartsRegistration == Init => Registration!RegInit
  <1> SUFFICES ASSUME Init PROVE Registration!RegInit
    OBVIOUS
  <1>1. PhaseOf("DEREGISTERED") = "idle"
    BY PhaseValues DEF States
  <1> QED BY <1>1 DEF Init, RxIdle, Registration!RegInit

\* A registration is changed only by the test, by a message of its own connection or
\* by a release judged against the connection the UE had then, and is completed only
\* on the UE's connection and after a challenge: for every set of UEs, every number of
\* connections and every interleaving of the two threads with the AMF, also when the
\* test registers again at once.
THEOREM RegistrationImplemented == Spec => ImplementsRegistration
  <1>1. Spec => [](IInv /\ Unmoved)
    BY UnmovedAlways
  <1>2. IInv /\ IInv' /\ Unmoved /\ [Next]_vars => Registration!RegNext
    BY Simulates
  <1> QED BY <1>1, <1>2, StartsRegistration, PTL
          DEF Spec, ImplementsRegistration, Registration!RegSpec

===============================================================================
