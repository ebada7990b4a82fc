----------------------------- MODULE MCInstance -----------------------------
(* A small instance of Instance for TLC. *)
EXTENDS Instance

SomePaths == {"/dev/stdout", "/file"}
=============================================================================
