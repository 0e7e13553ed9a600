-------------------------------- MODULE MCGmm --------------------------------
(* Gmm for TLC: the configurations choose the retry limit, the outcomes of  *)
(* writes and whether the radio side may fall silent.                       *)
EXTENDS Gmm
=============================================================================
