------------------------- MODULE MCWorkerSupervisor -------------------------
(* Small instances of WorkerSupervisor; the constants are set by the cfg files. *)
EXTENDS WorkerSupervisor
=============================================================================
