---------------------------- MODULE MCWeightPack ----------------------------
(* Small instances of WeightPack. *)
EXTENDS WeightPack
=============================================================================
