--------------------------- MODULE MCDescriptors ---------------------------
(* A small instance of Descriptors for TLC. *)
EXTENDS Descriptors, TLC

Symmetry == Permutations(Delegates)

SomePaths == {Standard[1], Unknown, File}
=============================================================================
