----------------------------- MODULE StdinPipe -----------------------------
(***************************************************************************)
(* What standard input promises an application: until the pipe breaks, the *)
(* bytes it reads are the bytes the page sent, each once, in order.        *)
(* PortFileSystem::buffer_ with FileSystem::Read and                       *)
(* FileSystem::HandleMessage is to implement this.                         *)
(***************************************************************************)
EXTENDS Integers, Sequences

CONSTANT Bytes

VARIABLES
  stored,     \* every byte the page has sent
  delivered,  \* every byte a read has returned before the pipe broke
  broken      \* may bytes have been wrong, lost or repeated?

Init == stored = <<>> /\ delivered = <<>> /\ broken = FALSE

Store(c) ==
  /\ stored' = Append(stored, c)
  /\ UNCHANGED <<delivered, broken>>

\* The pipe may break, for good: then it delivers nothing more.
Break ==
  /\ broken' = TRUE
  /\ UNCHANGED <<stored, delivered>>

\* A read returns at least one byte, from where the last one stopped.
Deliver ==
  /\ ~broken
  /\ Len(delivered) < Len(stored)
  /\ \E last \in Len(delivered) + 1 .. Len(stored) :
       delivered' = SubSeq(stored, 1, last)
  /\ UNCHANGED <<stored, broken>>

Next == (\E c \in Bytes : Store(c)) \/ Deliver \/ Break

Spec == Init /\ [][Next]_<<stored, delivered, broken>>
=============================================================================
