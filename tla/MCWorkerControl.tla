--------------------------- MODULE MCWorkerControl ---------------------------
(* Small instances of WorkerControl; the constants are set by the cfg files. *)
EXTENDS WorkerControl, TLC

Symmetry == Permutations(Commands) \cup Permutations(Nodes) \cup Permutations(Roles)
=============================================================================
