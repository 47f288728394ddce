-------------------------- MODULE MCRuntimeUploads --------------------------
(* A small instance of RuntimeUploads; the constants are set by Runtime.cfg. *)
EXTENDS RuntimeUploads
=============================================================================
