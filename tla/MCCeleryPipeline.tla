-------------------------- MODULE MCCeleryPipeline --------------------------
(* Small instances of CeleryPipeline; the constants are set by the cfg files. *)
EXTENDS CeleryPipeline, TLC

Symmetry == Permutations(Tasks) \cup Permutations(Sources) \cup Permutations(Admins)
=============================================================================
