------------------------------ MODULE MCSession ------------------------------
(***************************************************************************)
(* GnbSession for TLC: one gNB serving one UE with two PDU sessions, one   *)
(* that gets a tunnel or is refused for lack of one, and one that needs    *)
(* none.                                                                   *)
(***************************************************************************)
EXTENDS GnbSession

Req(i, p, ks) == [id |-> i, ue |-> "u1", psi |-> p, kinds |-> ks]

OneServing == [u \in {"u1"} |-> "g1"]
OneReqs    == {Req(1, 1, {"accept", "noupf"}), Req(2, 2, {"ethernet"})}
=============================================================================
