------------------------------ MODULE MCHandover ------------------------------
(* Handover for TLC: three gNBs, so that a session the AMF kept can belong to *)
(* another source; two UEs that share a stream or not.                        *)
EXTENDS Handover
===============================================================================
