-------------------------- MODULE MCMainThreadCall --------------------------
(* Small instances of MainThreadCall for TLC. *)
EXTENDS MainThreadCall
=============================================================================
