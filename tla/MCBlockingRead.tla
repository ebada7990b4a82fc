--------------------------- MODULE MCBlockingRead ---------------------------
(* Small instances of BlockingRead for TLC. *)
EXTENDS BlockingRead
=============================================================================
