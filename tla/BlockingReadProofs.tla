------------------------- MODULE BlockingReadProofs -------------------------
(* Theorems about BlockingRead, for any descriptors, bytes and bounds. *)
EXTENDS BlockingRead, SequenceTheorems, TLAPS

(***************************************************************************)
(* Type correctness.  buffer_.erase(buffer_.begin()) needs a byte to be    *)
(* there: only the reader removes bytes, so what it has seen stays, unless *)
(* it saw it in a vector that push_back was changing.                      *)
(***************************************************************************)
EraseReady ==
  /\ pc = "erase" => fildes \in Ports /\ (buffer # <<>> \/ mainPc = "tear")
  /\ pc = "tear" => fildes \in Ports /\ raced
  /\ mainPc = "tear" => raced

TypeInv == TypeOK /\ EraseReady

\* What a race leaves is a sequence of bytes all the same.
LEMMA WreckageIsSeq == Wreckage \subseteq Seq(Bytes)
<1> SUFFICES ASSUME NEW s \in Wreckage PROVE s \in Seq(Bytes)
  OBVIOUS
<1>1. PICK m \in 0..MaxBytes : s \in [1..m -> Bytes]
  BY DEF Wreckage, BoundedSeq, SeqOf
<1> QED BY <1>1, BoundsAssumption

LEMMA TypeInvStep == TypeInv /\ [Next]_vars => TypeInv'
<1> SUFFICES ASSUME TypeInv, [Next]_vars
             PROVE  TypeInv'
  OBVIOUS
<1> USE DEF TypeInv, TypeOK, EraseReady, readVars, mainVars
<1>1. ASSUME NEW f \in Descriptors, NEW n \in 0..MaxRead, Read(f, n)
      PROVE  TypeInv'
  <2>1. <<>> \in Seq(Bytes) /\ Len(<<>>) = 0
    BY EmptySeq
  <2> QED BY <1>1, <2>1, BoundsAssumption DEF Read
<1>2. ASSUME NEW p \in Ports, NEW b \in BOOLEAN, SetBlocking(p, b)
      PROVE  TypeInv'
  BY <1>2 DEF SetBlocking
<1>3. CASE CopyFront
  <2>1. Head(buffer) \in Bytes
    BY <1>3, HeadTailProperties DEF CopyFront, MoreToCopy
  <2>2. /\ Append(got, Head(buffer)) \in Seq(Bytes)
        /\ Len(Append(got, Head(buffer))) = Len(got) + 1
    BY <2>1, AppendProperties
  <2>3. Len(got) + 1 <= nbytes
    BY <1>3, LenProperties, BoundsAssumption DEF CopyFront, MoreToCopy
  <2> QED BY <1>3, <2>2, <2>3 DEF CopyFront, InPortRead, MoreToCopy
<1>4. CASE EraseFront
  BY <1>4, HeadTailProperties DEF EraseFront
<1>5. CASE ReturnBytes
  <2>1. <<>> \in Seq(Bytes) /\ Len(<<>>) = 0 /\ received \o got \in Seq(Bytes)
    BY EmptySeq, ConcatProperties
  <2> QED BY <1>5, <2>1, BoundsAssumption DEF ReturnBytes
<1>6. CASE ReturnNothing
  BY <1>6 DEF ReturnNothing
<1>7. CASE ReadFile
  BY <1>7 DEF ReadFile
<1>8. CASE LockAndRetry
  BY <1>8 DEF LockAndRetry
<1>9. ASSUME NEW c \in Bytes, MessageArrives(c)
      PROVE  TypeInv'
  BY <1>9 DEF MessageArrives
<1>10. CASE PushBack
  BY <1>10, AppendProperties DEF PushBack
<1>11. CASE Unlock
  BY <1>11 DEF Unlock
<1>12. CASE RacingCopy
  <2>1. PICK c \in Bytes : got' = Append(got, c)
    BY <1>12 DEF RacingCopy
  <2>2. got' \in Seq(Bytes) /\ Len(got') = Len(got) + 1
    BY <2>1, AppendProperties
  <2>3. Len(got') <= nbytes
    BY <1>12, <2>2, LenProperties, BoundsAssumption DEF RacingCopy
  <2> QED BY <1>12, <2>2, <2>3 DEF RacingCopy, Overlap, InPortRead
<1>13. CASE RacingStop
  <2>1. <<>> \in Seq(Bytes) /\ Len(<<>>) = 0
    BY EmptySeq
  <2> QED BY <1>13, <2>1, BoundsAssumption DEF RacingStop, Overlap, InPortRead
<1>14. CASE RacingErase
  BY <1>14 DEF RacingErase, Overlap
<1>15. CASE EraseTorn
  BY <1>15, WreckageIsSeq DEF EraseTorn
<1>16. CASE PushTorn
  BY <1>16, WreckageIsSeq, AppendProperties DEF PushTorn
<1>17. CASE Crash
  BY <1>17 DEF Crash
<1>18. CASE UNCHANGED vars
  BY <1>18 DEF vars
<1> QED
  BY <1>1, <1>2, <1>3, <1>4, <1>5, <1>6, <1>7, <1>8, <1>9, <1>10, <1>11,
     <1>12, <1>13, <1>14, <1>15, <1>16, <1>17, <1>18
     DEF Next, ReadStep, HandleStep

LEMMA TypeInvInit == Init => TypeInv
<1> SUFFICES ASSUME Init PROVE TypeInv
  OBVIOUS
<1> USE DEF Init
<1>1. /\ got \in Seq(Bytes) /\ Len(got) = 0 /\ buffer \in Seq(Bytes)
      /\ stored \in Seq(Bytes) /\ received \in Seq(Bytes)
  BY EmptySeq
<1>2. locked \in BOOLEAN /\ raced \in BOOLEAN /\ blocking \in [Ports -> BOOLEAN]
  OBVIOUS
<1> QED BY <1>1, <1>2, BoundsAssumption DEF TypeInv, TypeOK, EraseReady

LEMMA TypeInvariant == Spec => []TypeInv
<1>1. Init => TypeInv
  BY TypeInvInit
<1> QED BY <1>1, TypeInvStep, PTL DEF Spec

\* TypeOK holds in every reachable state, race or no race: in particular a
\* read never writes past the nbytes bytes its caller has room for.
THEOREM TypeCorrect == Spec => []TypeOK
<1>1. TypeInv => TypeOK
  BY DEF TypeInv
<1> QED BY <1>1, TypeInvariant, PTL

-----------------------------------------------------------------------------
\* A reader of stdin never sleeps on a byte that has come: when it decided to
\* sleep the buffer was empty or a push_back was under way, and every byte since
\* has unlocked the mutex or is about to, whatever a race has left of the buffer.
THEOREM NoWakeupMissed == Spec => []NoMissedByte
<1>1. Init => NoMissedByte
  BY DEF Init, NoMissedByte
<1>2. TypeInv /\ NoMissedByte /\ [Next]_vars => NoMissedByte'
  <2> SUFFICES ASSUME TypeInv, NoMissedByte, [Next]_vars
               PROVE  NoMissedByte'
    OBVIOUS
  <2> USE DEF NoMissedByte, ReadsPort, readVars, mainVars
  <2>1. CASE ReturnNothing
    <3>1. nbytes > 0 => buffer = <<>>
      BY <2>1, EmptySeq DEF ReturnNothing, MoreToCopy
    <3> QED BY <2>1, <3>1 DEF ReturnNothing
  <2>2. CASE ReadFile
    BY <2>2, DescriptorsAssumption DEF ReadFile
  <2>3. CASE PushBack \/ PushTorn \/ Unlock
    BY <2>3 DEF PushBack, PushTorn, Unlock
  <2>4. CASE \/ CopyFront \/ EraseFront \/ ReturnBytes \/ LockAndRetry
             \/ EraseTorn \/ Crash
    BY <2>4 DEF CopyFront, EraseFront, ReturnBytes, LockAndRetry, EraseTorn, Crash
  <2>9. CASE RacingCopy \/ RacingStop \/ RacingErase
    BY <2>9 DEF RacingCopy, RacingStop, RacingErase, Overlap
  <2>5. ASSUME NEW f \in Descriptors, NEW n \in 0..MaxRead, Read(f, n)
        PROVE  NoMissedByte'
    BY <2>5 DEF Read
  <2>6. ASSUME NEW p \in Ports, NEW b \in BOOLEAN, SetBlocking(p, b)
        PROVE  NoMissedByte'
    BY <2>6 DEF SetBlocking
  <2>7. ASSUME NEW c \in Bytes, MessageArrives(c)
        PROVE  NoMissedByte'
    BY <2>7 DEF MessageArrives
  <2>8. CASE UNCHANGED vars
    BY <2>8 DEF vars
  <2> QED
    BY <2>1, <2>2, <2>3, <2>4, <2>5, <2>6, <2>7, <2>8, <2>9
       DEF Next, ReadStep, HandleStep
<1> QED BY <1>1, <1>2, TypeInvariant, PTL DEF Spec

\* A read of stdin that returns while the port blocks brings a byte: what wakes it,
\* a byte or an unlock left over from another, only sends it round the loop.
THEOREM ReadBrings == Spec => BlockingReadBrings
<1> DEFINE Brings ==
      pc # "idle" /\ pc' = "idle" /\ fildes \in Ports /\ blocking[fildes] => got # <<>>
<1>1. [Next]_vars => [Brings]_vars
  <2> SUFFICES ASSUME [Next]_vars PROVE Brings
    OBVIOUS
  <2>1. CASE ReturnBytes
    BY <2>1 DEF ReturnBytes
  <2>2. CASE ReturnNothing
    BY <2>2 DEF ReturnNothing
  <2>3. CASE ReadFile
    BY <2>3, DescriptorsAssumption DEF ReadFile
  <2>4. CASE \/ CopyFront \/ EraseFront \/ LockAndRetry \/ EraseTorn
             \/ HandleStep \/ Crash
    BY <2>4 DEF CopyFront, EraseFront, LockAndRetry, EraseTorn, HandleStep, PushBack,
                PushTorn, Unlock, Crash
  <2>9. CASE RacingCopy \/ RacingStop \/ RacingErase
    BY <2>9 DEF RacingCopy, RacingStop, RacingErase, Overlap, readVars
  <2>5. ASSUME NEW f \in Descriptors, NEW n \in 0..MaxRead, Read(f, n)
        PROVE  Brings
    BY <2>5 DEF Read
  <2>6. ASSUME NEW p \in Ports, NEW b \in BOOLEAN, SetBlocking(p, b)
        PROVE  Brings
    BY <2>6 DEF SetBlocking
  <2>7. ASSUME NEW c \in Bytes, MessageArrives(c)
        PROVE  Brings
    BY <2>7 DEF MessageArrives
  <2>8. CASE UNCHANGED vars
    BY <2>8 DEF vars
  <2> QED
    BY <2>1, <2>2, <2>3, <2>4, <2>5, <2>6, <2>7, <2>8, <2>9 DEF Next, ReadStep
<1> QED BY <1>1, PTL DEF Spec, BlockingReadBrings

-----------------------------------------------------------------------------
(***************************************************************************)
(* BlockingRead implements StdinPipe, which the first race breaks.  Until  *)
(* then what has been read for good, what the read in progress has copied  *)
(* and what is left in the buffer are, in this order, what was stored.     *)
(***************************************************************************)
\* The bytes no read has copied: the front is erased after it is copied.
Rest == IF pc = "erase" THEN Tail(buffer) ELSE buffer

Conserved == ~raced => (received \o got) \o Rest = stored

NothingCopied == pc \in {"idle", "lock"} \/ fildes \in Files => got = <<>>

PipeInv == TypeInv /\ Conserved /\ NothingCopied

LEMMA CopyKeepsOrder ==
  ASSUME received \in Seq(Bytes), got \in Seq(Bytes), buffer \in Seq(Bytes),
         buffer # <<>>
  PROVE  (received \o Append(got, Head(buffer))) \o Tail(buffer)
           = (received \o got) \o buffer
<1> DEFINE lhs == (received \o Append(got, Head(buffer))) \o Tail(buffer)
           rhs == (received \o got) \o buffer
<1>1. lhs \in Seq(Bytes) /\ rhs \in Seq(Bytes)
  OBVIOUS
<1>2. Len(lhs) = Len(rhs)
  OBVIOUS
<1>3. \A i \in 1..Len(lhs) : lhs[i] = rhs[i]
  OBVIOUS
<1> HIDE DEF lhs, rhs
<1>4. lhs = rhs
  BY <1>1, <1>2, <1>3, SeqEqual
<1> QED BY <1>4 DEF lhs, rhs

LEMMA AppendToRight ==
  ASSUME received \o got \in Seq(Bytes), Rest \in Seq(Bytes), message \in Bytes
  PROVE  (received \o got) \o Append(Rest, message)
           = Append((received \o got) \o Rest, message)
OBVIOUS

LEMMA ConservedStep ==
  ASSUME PipeInv, [Next]_vars
  PROVE  Conserved' /\ NothingCopied'
<1> USE DEF PipeInv, Conserved, NothingCopied, Rest, readVars, mainVars
<1>0. /\ got \in Seq(Bytes) /\ buffer \in Seq(Bytes) /\ received \in Seq(Bytes)
      /\ received \o got \in Seq(Bytes)
      /\ ~raced => Rest \in Seq(Bytes)
      /\ message \in Bytes
  BY ConcatProperties, HeadTailProperties DEF TypeInv, TypeOK, EraseReady
<1>1. ASSUME NEW f \in Descriptors, NEW n \in 0..MaxRead, Read(f, n)
      PROVE  Conserved' /\ NothingCopied'
  BY <1>1 DEF Read
<1>2. CASE CopyFront
  <2>1. buffer # <<>> /\ pc = "read" /\ fildes \in Ports
    BY <1>2 DEF CopyFront, MoreToCopy, InPortRead
  <2>2. /\ got' = Append(got, Head(buffer)) /\ Rest' = Tail(buffer)
        /\ UNCHANGED <<received, stored, raced>>
    BY <1>2 DEF CopyFront
  <2>3. (received \o Append(got, Head(buffer))) \o Tail(buffer)
          = (received \o got) \o buffer
    BY <1>0, <2>1, CopyKeepsOrder
  <2>4. NothingCopied'
    BY <1>2, <2>1, DescriptorsAssumption DEF CopyFront
  <2> QED BY <2>1, <2>2, <2>3, <2>4
<1>3. CASE EraseFront
  BY <1>3, DescriptorsAssumption DEF EraseFront, TypeInv, EraseReady
<1>4. CASE ReturnBytes
  BY <1>0, <1>4, ConcatEmptySeq DEF ReturnBytes, InPortRead
<1>5. CASE PushBack
  <2> SUFFICES ASSUME ~raced PROVE Conserved' /\ NothingCopied'
    BY <1>5 DEF PushBack
  <2>1. Rest' = Append(Rest, message)
    BY <1>0, <1>5, HeadTailAppend DEF PushBack, TypeInv, TypeOK, EraseReady
  <2>2. /\ stored' = Append(stored, message)
        /\ UNCHANGED <<received, got, raced>>
        /\ NothingCopied'
    BY <1>5 DEF PushBack
  <2> HIDE DEF Rest
  <2>3. (received \o got) \o Append(Rest, message)
          = Append((received \o got) \o Rest, message)
    BY <1>0, AppendToRight
  <2> QED BY <2>1, <2>2, <2>3
<1>6. CASE ReturnNothing \/ ReadFile \/ LockAndRetry \/ Unlock
  BY <1>6 DEF ReturnNothing, ReadFile, LockAndRetry, Unlock, InPortRead
<1>7. ASSUME NEW p \in Ports, NEW b \in BOOLEAN, SetBlocking(p, b)
      PROVE  Conserved' /\ NothingCopied'
  BY <1>7 DEF SetBlocking
<1>8. ASSUME NEW c \in Bytes, MessageArrives(c)
      PROVE  Conserved' /\ NothingCopied'
  BY <1>8 DEF MessageArrives
<1>9. CASE RacingCopy \/ RacingStop \/ RacingErase
  BY <1>9, DescriptorsAssumption
     DEF RacingCopy, RacingStop, RacingErase, Overlap, InPortRead, TypeInv, EraseReady
<1>10. CASE EraseTorn \/ PushTorn \/ Crash
  BY <1>10, DescriptorsAssumption
     DEF EraseTorn, PushTorn, Crash, TypeInv, EraseReady
<1>11. CASE UNCHANGED vars
  BY <1>11 DEF vars
<1> QED
  BY <1>1, <1>2, <1>3, <1>4, <1>5, <1>6, <1>7, <1>8, <1>9, <1>10, <1>11
     DEF Next, ReadStep, HandleStep

\* The one step that returns bytes is a Deliver of the pipe, until it breaks.
LEMMA ReturnBytesDelivers ==
  ASSUME PipeInv, ~raced, ReturnBytes
  PROVE  Pipe!Deliver
<1>1. /\ got \in Seq(Bytes) /\ buffer \in Seq(Bytes) /\ received \in Seq(Bytes)
      /\ received \o got \in Seq(Bytes)
      /\ got # <<>>
      /\ received' = received \o got /\ stored' = stored /\ raced' = raced
  BY ConcatProperties DEF PipeInv, TypeInv, TypeOK, ReturnBytes, mainVars
<1>2. stored = (received \o got) \o buffer
  BY DEF ReturnBytes, InPortRead, PipeInv, Conserved, Rest
<1> DEFINE last == Len(received \o got)
<1>3. /\ Len(received) \in Nat /\ Len(got) \in Nat \ {0} /\ Len(buffer) \in Nat
      /\ last = Len(received) + Len(got)
      /\ Len(stored) = last + Len(buffer)
  BY <1>1, <1>2, EmptySeq, LenProperties, ConcatProperties
<1>4. SubSeq(stored, 1, last) = SubSeq(received \o got, 1, last)
  BY <1>1, <1>2, <1>3, SubSeqOfConcat1
<1>5. @ = received \o got
  BY <1>1, SubSeqFull
<1>6. last \in Len(received) + 1 .. Len(stored)
  BY <1>3
<1>7. received' = SubSeq(stored, 1, last)
  BY <1>1, <1>4, <1>5
<1>8. Len(received) < Len(stored)
  BY <1>3
<1> HIDE DEF last
<1> QED BY <1>1, <1>6, <1>7, <1>8 DEF Pipe!Deliver

\* Blocking reads implement the pipe: until a use of the vector by a read first
\* overlaps a push_back, the bytes read are those the page sent, each once and
\* in order, whatever the sizes and the blocking modes.
THEOREM ImplementsPipe == Spec => InOrder
<1>1. Init => PipeInv
  <2> SUFFICES ASSUME Init PROVE PipeInv
    OBVIOUS
  <2>1. TypeInv
    BY TypeInvInit
  <2>2. (<<>> \o <<>>) \o <<>> = <<>>
    BY EmptySeq, ConcatEmptySeq
  <2> QED
    BY <2>1, <2>2 DEF Init, PipeInv, Conserved, NothingCopied, Rest
<1>2. PipeInv /\ [Next]_vars => PipeInv'
  BY TypeInvStep, ConservedStep DEF PipeInv
<1>3. Init => Pipe!Init
  BY DEF Init, Pipe!Init
<1>4. PipeInv /\ [Next]_vars => [Pipe!Next]_<<stored, received, raced>>
  <2> SUFFICES ASSUME PipeInv, [Next]_vars
               PROVE  [Pipe!Next]_<<stored, received, raced>>
    OBVIOUS
  <2> USE DEF Pipe!Next, mainVars, readVars
  <2>1. CASE ReturnBytes
    BY <2>1, ReturnBytesDelivers DEF ReturnBytes, PipeInv, TypeInv, TypeOK
  <2>2. CASE PushBack \/ PushTorn
    BY <2>2 DEF PushBack, PushTorn, Pipe!Store, PipeInv, TypeInv, TypeOK
  <2>7. CASE RacingCopy \/ RacingStop \/ RacingErase
    BY <2>7 DEF RacingCopy, RacingStop, RacingErase, Overlap, Pipe!Break
  <2>3. CASE \/ CopyFront \/ EraseFront \/ ReturnNothing \/ ReadFile
             \/ LockAndRetry \/ EraseTorn \/ Unlock \/ Crash \/ UNCHANGED vars
    BY <2>3 DEF CopyFront, EraseFront, ReturnNothing, ReadFile, LockAndRetry,
                EraseTorn, Unlock, Crash, vars
  <2>4. ASSUME NEW f \in Descriptors, NEW n \in 0..MaxRead, Read(f, n)
        PROVE  [Pipe!Next]_<<stored, received, raced>>
    BY <2>4 DEF Read
  <2>5. ASSUME NEW p \in Ports, NEW b \in BOOLEAN, SetBlocking(p, b)
        PROVE  [Pipe!Next]_<<stored, received, raced>>
    BY <2>5 DEF SetBlocking
  <2>6. ASSUME NEW c \in Bytes, MessageArrives(c)
        PROVE  [Pipe!Next]_<<stored, received, raced>>
    BY <2>6 DEF MessageArrives
  <2> QED
    BY <2>1, <2>2, <2>3, <2>4, <2>5, <2>6, <2>7
       DEF Next, ReadStep, HandleStep
<1> QED
  BY <1>1, <1>2, <1>3, <1>4, PTL DEF Spec, InOrder, Pipe!Spec
=============================================================================
