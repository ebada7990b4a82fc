---------------------------- MODULE BlockingRead ----------------------------
(***************************************************************************)
(* Blocking reads of standard input.                                       *)
(*                                                                         *)
(* FileSystem::Read loops: while the delegate's Read answers the "magic    *)
(* number" -2 it locks FileSystem::mutex_, which the constructor locked    *)
(* and which FileSystem::HandleMessage, on the main thread, unlocks after  *)
(* each byte that PortFileSystem::HandleMessage appends to buffer_.  The   *)
(* mutex is thus a binary semaphore: it is unlocked by a thread that does  *)
(* not own it, and unlocking it twice is unlocking it once.                *)
(*                                                                         *)
(* The application thread runs PortFileSystem::Read itself, without a      *)
(* lock, so its uses of the vector may overlap the main thread's           *)
(* buffer_.push_back: the race.  A push_back that reallocates frees the    *)
(* array that front() reads, and both it and erase store the vector's end. *)
(* A file's Read stands for the whole Delegate::Call that                  *)
(* Html5FileSystem::ReadCall serves.                                       *)
(***************************************************************************)
EXTENDS Integers, Sequences, SequencesExt

CONSTANTS
  Ports,     \* descriptors of /dev/stdin
  Files,     \* descriptors of an Html5FileSystem
  Bytes,     \* what a key can send
  MaxRead,   \* bound: the largest nbytes
  MaxBytes   \* bound: the bytes the page sends, or a torn vector seems to hold

ASSUME DescriptorsAssumption == Ports \cap Files = {}
ASSUME BoundsAssumption == MaxRead \in Nat /\ MaxBytes \in Nat

Descriptors == Ports \cup Files

VARIABLES
  pc,        \* where the application thread stands in FileSystem::Read
  fildes,    \* its argument (meaningful unless pc = "idle")
  nbytes,    \* its argument
  got,       \* bytes that PortFileSystem::Read has put in the user's buffer
  blocking,  \* PortFileSystem::blocking_ of each port
  locked,    \* FileSystem::mutex_
  buffer,    \* PortFileSystem::buffer_
  mainPc,    \* where the main thread stands in HandleMessage
  message,   \* the byte of the message it handles
  stored,    \* history: every byte appended to buffer_
  received,  \* history: every byte a read of a port has returned, until raced
  raced      \* history: has a use of the vector overlapped a push_back?

vars == <<pc, fildes, nbytes, got, blocking, locked, buffer, mainPc, message,
          stored, received, raced>>

readVars == <<fildes, nbytes, blocking>>
mainVars == <<mainPc, message, stored, raced>>

\* The copy never runs past the nbytes bytes the caller has room for.
TypeOK ==
  /\ pc \in {"idle", "read", "erase", "tear", "lock", "dead"}
  /\ fildes \in Descriptors
  /\ nbytes \in 0..MaxRead
  /\ got \in Seq(Bytes) /\ Len(got) <= nbytes
  /\ blocking \in [Ports -> BOOLEAN]
  /\ locked \in BOOLEAN
  /\ buffer \in Seq(Bytes)
  /\ mainPc \in {"loop", "push", "tear", "unlock", "dead"}
  /\ message \in Bytes
  /\ stored \in Seq(Bytes)
  /\ received \in Seq(Bytes)
  /\ raced \in BOOLEAN

\* The FileSystem constructor has locked the mutex and every port blocks.
Init ==
  /\ pc = "idle"
  /\ fildes \in Descriptors
  /\ nbytes = 0
  /\ got = <<>>
  /\ blocking = [p \in Ports |-> TRUE]
  /\ locked = TRUE
  /\ buffer = <<>>
  /\ mainPc = "loop"
  /\ message \in Bytes
  /\ stored = <<>>
  /\ received = <<>>
  /\ raced = FALSE

-----------------------------------------------------------------------------
(* The application thread.                                                 *)

Read(f, n) ==
  /\ pc = "idle"
  /\ fildes' = f
  /\ nbytes' = n
  /\ got' = <<>>
  /\ pc' = "read"
  /\ UNCHANGED <<blocking, locked, buffer, received, mainVars>>

\* Fcntl(F_SETFL): blocking_ = !(flag & O_NONBLOCK).
SetBlocking(p, b) ==
  /\ pc = "idle"
  /\ blocking' = [blocking EXCEPT ![p] = b]
  /\ UNCHANGED <<pc, fildes, nbytes, got, locked, buffer, received, mainVars>>

InPortRead == pc = "read" /\ fildes \in Ports

\* A slip: the loop runs once more than there is room for.
OneTooMany == Len(got) <= nbytes /\ buffer # <<>>

MoreToCopy == Len(got) < nbytes /\ buffer # <<>>

\* A slip: the copied byte stays in the buffer.
CopyWithoutErase ==
  /\ InPortRead
  /\ MoreToCopy
  /\ got' = Append(got, Head(buffer))
  /\ UNCHANGED <<pc, readVars, locked, buffer, received, mainVars>>

\* One turn of the copy loop: *write_ptr++ = buffer_.front(), ...
CopyFront ==
  /\ InPortRead
  /\ MoreToCopy
  /\ got' = Append(got, Head(buffer))
  /\ pc' = "erase"
  /\ UNCHANGED <<readVars, locked, buffer, received, mainVars>>

\* ... and buffer_.erase(buffer_.begin()).
EraseFront ==
  /\ pc = "erase"
  /\ buffer # <<>>
  /\ buffer' = Tail(buffer)
  /\ pc' = "read"
  /\ UNCHANGED <<readVars, got, locked, received, mainVars>>

\* Something was copied: PortFileSystem::Read and FileSystem::Read return it.
ReturnBytes ==
  /\ InPortRead
  /\ ~MoreToCopy
  /\ got # <<>>
  /\ received' = IF raced THEN received ELSE received \o got
  /\ got' = <<>>
  /\ pc' = "idle"
  /\ UNCHANGED <<readVars, locked, buffer, mainVars>>

\* A slip: a read that finds nothing returns -1 although the port blocks.
NeverBlocks ==
  /\ InPortRead
  /\ ~MoreToCopy
  /\ got = <<>>
  /\ pc' = "idle"
  /\ UNCHANGED <<readVars, got, locked, buffer, received, mainVars>>

\* Nothing was copied: -2 makes FileSystem::Read lock, -1 makes it return.
ReturnNothing ==
  /\ InPortRead
  /\ ~MoreToCopy
  /\ got = <<>>
  /\ pc' = IF blocking[fildes] THEN "lock" ELSE "idle"
  /\ UNCHANGED <<readVars, got, locked, buffer, received, mainVars>>

\* Html5FileSystem::Read answers a count, -1 or the browser's error code; and
\* PP_ERROR_FAILED is -2.
ReadFile ==
  /\ pc = "read"
  /\ fildes \in Files
  /\ pc' \in {"idle", "lock"}
  /\ UNCHANGED <<readVars, got, locked, buffer, received, mainVars>>

\* pthread_mutex_lock(&mutex_), and round the loop of FileSystem::Read.
LockAndRetry ==
  /\ pc = "lock"
  /\ ~locked
  /\ locked' = TRUE
  /\ pc' = "read"
  /\ UNCHANGED <<readVars, got, buffer, received, mainVars>>

-----------------------------------------------------------------------------
(* The main thread, in FileSystem::HandleMessage.  A message that is not a *)
(* string starting with 'S' changes nothing and is left out.               *)

MessageArrives(c) ==
  /\ mainPc = "loop"
  /\ Len(stored) < MaxBytes
  /\ message' = c
  /\ mainPc' = "push"
  /\ UNCHANGED <<pc, readVars, got, locked, buffer, stored, received, raced>>

\* A slip: PortFileSystem::HandleMessage forgets to return true.
PushBackReportsFalse ==
  /\ mainPc = "push"
  /\ buffer' = Append(buffer, message)
  /\ stored' = Append(stored, message)
  /\ mainPc' = "loop"
  /\ UNCHANGED <<pc, readVars, got, locked, received, message, raced>>

\* A slip: the newest byte is put first.
PushFront ==
  /\ mainPc = "push"
  /\ buffer' = <<message>> \o buffer
  /\ stored' = Append(stored, message)
  /\ mainPc' = "unlock"
  /\ UNCHANGED <<pc, readVars, got, locked, received, message, raced>>

PushBack ==
  /\ mainPc = "push"
  /\ buffer' = Append(buffer, message)
  /\ stored' = Append(stored, message)
  /\ mainPc' = "unlock"
  /\ UNCHANGED <<pc, readVars, got, locked, received, message, raced>>

Unlock ==
  /\ mainPc = "unlock"
  /\ locked' = FALSE
  /\ mainPc' = "loop"
  /\ UNCHANGED <<pc, readVars, got, buffer, received, message, stored, raced>>

-----------------------------------------------------------------------------
(* The race: a data race, so that nothing is certain of the byte read, or  *)
(* of what the vector holds when both have done with it.                   *)

\* The reader uses the vector while push_back is under way.
Overlap ==
  /\ mainPc \in {"push", "tear"}
  /\ mainPc' = "tear"
  /\ raced' = TRUE
  /\ UNCHANGED <<readVars, locked, buffer, message, stored, received>>

\* empty() compares pointers that may be of two arrays: the loop goes on though
\* there is no byte, or front() reads the freed array, ...
RacingCopy ==
  /\ Overlap
  /\ InPortRead
  /\ Len(got) < nbytes
  /\ \E c \in Bytes : got' = Append(got, c)
  /\ pc' = "erase"

\* ... or the loop ends though there is one.
RacingStop ==
  /\ Overlap
  /\ InPortRead
  /\ Len(got) < nbytes
  /\ pc' = IF got = <<>> /\ blocking[fildes] THEN "lock" ELSE "idle"
  /\ got' = <<>>

RacingErase ==
  /\ Overlap
  /\ pc = "erase"
  /\ pc' = "tear"
  /\ UNCHANGED got

Wreckage == BoundedSeq(Bytes, MaxBytes)

\* erase is done after all: its store to the end may undo that of push_back.
EraseTorn ==
  /\ pc = "tear"
  /\ buffer' \in Wreckage
  /\ pc' = "read"
  /\ UNCHANGED <<readVars, got, locked, received, mainVars>>

\* push_back is done: it stores the end last, and behind the byte it has added.
PushTorn ==
  /\ mainPc = "tear"
  /\ buffer' \in Wreckage \ {<<>>}
  /\ stored' = Append(stored, message)
  /\ mainPc' = "unlock"
  /\ UNCHANGED <<pc, readVars, got, locked, received, message, raced>>

\* Pointers of two arrays may bring the program down, at once or later.
Crash ==
  /\ raced
  /\ pc # "dead"
  /\ pc' = "dead"
  /\ mainPc' = "dead"
  /\ UNCHANGED <<readVars, got, locked, buffer, received, message, stored, raced>>

-----------------------------------------------------------------------------

ReadStep ==
  \/ CopyFront \/ EraseFront \/ ReturnBytes \/ ReturnNothing \/ ReadFile
  \/ LockAndRetry \/ RacingCopy \/ RacingStop \/ RacingErase \/ EraseTorn

HandleStep == PushBack \/ PushTorn \/ Unlock

Next ==
  \/ \E f \in Descriptors, n \in 0..MaxRead : Read(f, n)
  \/ \E p \in Ports, b \in BOOLEAN : SetBlocking(p, b)
  \/ \E c \in Bytes : MessageArrives(c)
  \/ ReadStep \/ HandleStep \/ Crash

\* Both threads are scheduled; nothing obliges the user to press a key or the
\* application to read.
Fairness == WF_vars(ReadStep) /\ WF_vars(HandleStep)

Spec == Init /\ [][Next]_vars

FairSpec == Spec /\ Fairness

-----------------------------------------------------------------------------
(* Properties.                                                             *)

ReadsPort == pc # "idle" /\ fildes \in Ports /\ nbytes > 0

\* No wake-up is missed: FileSystem::Read tests buffer_ and then locks, two
\* steps without a common lock, yet it never sleeps on a byte that has come,
\* because HandleMessage unlocks after it appends and an unlock is not lost.
\* This holds whatever the race does to the test and leaves of the buffer.
NoMissedByte ==
  ReadsPort /\ pc = "lock" /\ buffer # <<>>
    => ~locked \/ mainPc \in {"tear", "unlock"}

\* A blocking read of stdin returns at least one byte: FileSystem::Read never
\* takes the wake-up for the byte itself.
BlockingReadBrings ==
  [][pc # "idle" /\ pc' = "idle" /\ fildes \in Ports /\ blocking[fildes]
       => got # <<>>]_vars

\* A byte that has come while stdin is being read lets that read return, unless
\* the race brings the program down.
StdinDelivered == ReadsPort /\ buffer # <<>> ~> pc \in {"idle", "dead"}

\* As long as no use of the vector by a read (empty, front or erase) overlaps a
\* push_back, reads return what was sent, each byte once and in order.
Pipe == INSTANCE StdinPipe WITH delivered <- received, broken <- raced

InOrder == Pipe!Spec

\* Only stdin blocks: "Move lock related code into PortFileSystem", says the
\* comment in FileSystem::Read, where -2 is "for blocking".
OnlyPortBlocks == pc = "lock" => fildes \in Ports
=============================================================================
