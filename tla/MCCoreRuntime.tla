---------------------------- MODULE MCCoreRuntime ----------------------------
(* Small instances of CoreRuntime; the constants are set by the cfg files. *)
EXTENDS CoreRuntime
=============================================================================
