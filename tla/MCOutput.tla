------------------------------ MODULE MCOutput ------------------------------
(* Small instances of Output for TLC. *)
EXTENDS Output, TLC

CONSTANTS t1, t2, stdout, stderr, x, nl

\* The start of a line, the end of one with the start of the next, and two lines.
SomeMessages ==
  {[port |-> stdout, bytes |-> <<x>>], [port |-> stdout, bytes |-> <<nl, x>>],
   [port |-> stderr, bytes |-> <<x, nl, nl>>]}

FewWrites == (t1 :> 2) @@ (t2 :> 1) @@ (Main :> 1)
=============================================================================
