--------------------------- MODULE MCPathResolver ---------------------------
(* Small instances of PathResolver for TLC. *)
EXTENDS PathResolver
=============================================================================
