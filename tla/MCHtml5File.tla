---------------------------- MODULE MCHtml5File ----------------------------
(* Small instances of Html5File for TLC. *)
EXTENDS Html5File
=============================================================================
