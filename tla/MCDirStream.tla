---------------------------- MODULE MCDirStream -----------------------------
(* Small instances of DirStream for TLC. *)
EXTENDS DirStream
=============================================================================
