---------------------------- MODULE UeRegistration ----------------------------
(***************************************************************************)
(* What a simulated UE promises the test that drives it.  Its registration *)
(* is changed by the test itself, by a message of the NG connection the    *)
(* registration runs on, or by a release, and by nothing else.  A release  *)
(* is judged in one step and applied in later ones: it is judged against   *)
(* the connection the UE has at that moment, and one of a superseded       *)
(* connection is never applied.  What was judged is applied even if the    *)
(* test has started another attempt in the meantime; such an attempt loses *)
(* its connection, and it cannot complete then.                            *)
(***************************************************************************)
CONSTANTS Ues, Conns, NoUe

VARIABLES
    phase,   \* [Ues -> Phases]
    conn,    \* the NG connection of each UE, 0 for none
    heard,   \* the NG connection whose message is being handled, 0 for none
    judged   \* the UE a release is being applied to, NoUe for none

Phases == {"idle", "trying", "registered", "leaving"}

RegInit ==
    /\ phase = [u \in Ues |-> "idle"]
    /\ conn = [u \in Ues |-> 0]
    /\ heard = 0 /\ judged = NoUe

(***************************************************************************)
(* What the test does.                                                     *)
(***************************************************************************)
\* A UE that has lost its connection gets another one with its request.
Attach(u) ==
    /\ phase[u] = "idle" \/ conn[u] = 0
    /\ \E c \in Conns : conn' = [conn EXCEPT ![u] = c]
    /\ UNCHANGED <<phase, judged>>

Begin(u) ==
    /\ phase[u] = "idle"
    /\ phase' = [phase EXCEPT ![u] = "trying"]
    /\ UNCHANGED <<conn, judged>>

Leave(u) ==
    /\ phase' = [phase EXCEPT ![u] = "leaving"]
    /\ UNCHANGED <<conn, judged>>

\* The test is over, and no message is being handled any more.
Reset ==
    /\ heard = 0 /\ judged = NoUe
    /\ phase' = [u \in Ues |-> "idle"]
    /\ conn' = [u \in Ues |-> 0]
    /\ judged' = judged

(***************************************************************************)
(* What the network does.  An attempt is completed by a message of the     *)
(* UE's connection, and never while the UE is at rest: one that a release  *)
(* has set back is challenged first.  A UE without a connection still      *)
(* hears the one it has lost, and is not registered by it.                 *)
(***************************************************************************)
Learn(u) ==
    /\ heard # 0 /\ judged = NoUe /\ conn[u] \in {0, heard}
    /\ \E p \in {"idle", "trying", "registered"} :
          /\ p = "registered" => conn[u] = heard /\ phase[u] # "idle"
          /\ phase' = [phase EXCEPT ![u] = p]
    /\ UNCHANGED <<conn, judged>>

\* A release is never judged against a UE that has moved on.
Judge(u) ==
    /\ heard # 0 /\ judged = NoUe
    /\ conn[u] \in {0, heard}
    /\ judged' = u
    /\ UNCHANGED <<phase, conn>>

LetGo(u) ==
    /\ judged = u
    /\ phase' = [phase EXCEPT ![u] = "idle"]
    /\ UNCHANGED <<conn, judged>>

Drop(u) ==
    /\ judged = u
    /\ conn' = [conn EXCEPT ![u] = 0]
    /\ judged' = NoUe
    /\ phase' = phase

\* Which message is handled next is up to the network.
Listen == UNCHANGED <<phase, conn, judged>>

RegNext ==
    /\ heard' \in Conns \cup {0}
    /\ \/ Listen \/ Reset
       \/ \E u \in Ues : \/ Attach(u) \/ Begin(u) \/ Leave(u)
                         \/ Learn(u) \/ Judge(u) \/ LetGo(u) \/ Drop(u)

RegSpec == RegInit /\ [][RegNext]_<<phase, conn, heard, judged>>
===============================================================================
