-------------------------- MODULE MCWorkerRegistry --------------------------
(* A small instance of WorkerRegistry; the constants are set by the cfg file. *)
EXTENDS WorkerRegistry
=============================================================================
