---------------------------- MODULE Descriptors ----------------------------
(***************************************************************************)
(* The descriptor table of FileSystem, the delegates behind it, and the    *)
(* system calls of wrap.cc that use them.                                  *)
(*                                                                         *)
(* open makes a delegate, asks it to open the path and binds it to a new   *)
(* slot of descriptors_; close deletes it and leaves NULL in its slot; the *)
(* other calls look it up and use it.  Nothing of this takes a lock, so    *)
(* the calls of several threads interleave, and every step between two     *)
(* accesses to shared state is an action.  push_back takes time: it may    *)
(* move the table and free the old array, so what a thread reads in the    *)
(* table meanwhile may be anything, and so may be what is left when        *)
(* another has written to it.  That may also crash the program, which is a *)
(* behaviour that stops.  What a delegate's method does is left to         *)
(* BlockingRead, Output and Html5File: here it takes time, and succeeds or *)
(* fails.                                                                  *)
(*                                                                         *)
(* A delegate is an address: when it has been deleted, new may return it   *)
(* again.                                                                  *)
(***************************************************************************)
EXTENDS Integers, Sequences, FiniteSets, SequencesExt

CONSTANTS
  Threads,    \* application threads
  Main,       \* the main thread, which may call as well
  Delegates,  \* addresses of Delegate objects
  Null,
  Paths,      \* the full paths that calls are made with
  MaxTable    \* bound: the length of descriptors_

ASSUME NullAssumption == Null \notin Delegates
ASSUME BoundsAssumption == MaxTable \in Nat /\ MaxTable > 0
ASSUME ThreadsAssumption == IsFiniteSet(Threads)

Callers == Threads \cup {Main}

Standard == <<"/dev/stdin", "/dev/stdout", "/dev/stderr">>
Ports == {Standard[i] : i \in 1..3}
Unknown == "/dev/stdx"  \* a name with the prefix of the ports, but not theirs
File == "/file"         \* every path that is not a port's
NoPath == ""            \* NULL as well

ASSUME PathsAssumption == Paths \subseteq Ports \cup {Unknown, File} /\ File \in Paths

Bad == -1  \* -1 or an error number

VARIABLES
  table,     \* descriptors_
  name,      \* the path that each delegate that exists was made for
  pc,        \* where each caller stands
  op,        \* which system call it is in
  fildes,    \* its argument, for a call on a descriptor
  held,      \* the delegate its frame points to
  answer,    \* what its last call returned
  conflict   \* history: has a use of the table overlapped a BindToDescriptor, or a
             \* close another call on its descriptor?

vars == <<table, name, pc, op, fildes, held, answer, conflict>>

live == DOMAIN name

\* Where a caller stands: a method of a delegate that open, stat or mkdir made,
\* or found in the table, is running; push_back is; and the steps between.
Places ==
  {"idle", "made", "bind", "push", "bound", "using", "closing", "delete", "deleted"}

PathCalls == {"open", "stat", "access", "mkdir"}

\* fstat, read, write, lseek and fcntl differ only in the delegate's method.
DescriptorCalls == {"use", "isatty"}

TypeOK ==
  /\ table \in Seq(Delegates \cup {Null}) /\ Len(table) <= MaxTable
  /\ live \subseteq Delegates /\ \A d \in live : name[d] \in Ports \cup {Unknown, File}
  /\ pc \in [Callers -> Places]
  /\ op \in [Callers -> PathCalls \cup DescriptorCalls \cup {"close", "none"}]
  /\ fildes \in [Callers -> -1..MaxTable]
  /\ held \in [Callers -> Delegates \cup {Null}]
  /\ answer \in [Callers -> Bad..MaxTable]
  /\ conflict \in BOOLEAN

Init ==
  /\ table = <<>>
  /\ name = [d \in {} |-> File]
  /\ pc = [a \in Callers |-> "idle"]
  /\ op = [a \in Callers |-> "none"]
  /\ fildes = [a \in Callers |-> -1]
  /\ held = [a \in Callers |-> Null]
  /\ answer = [a \in Callers |-> 0]
  /\ conflict = FALSE

-----------------------------------------------------------------------------

Begin(a, o, f, d, place) ==
  /\ pc' = [pc EXCEPT ![a] = place]
  /\ op' = [op EXCEPT ![a] = o]
  /\ fildes' = [fildes EXCEPT ![a] = f]
  /\ held' = [held EXCEPT ![a] = d]
  /\ UNCHANGED answer

Go(a, place) == Begin(a, op[a], fildes[a], held[a], place)

\* The call returns, and its frame is gone.
Return(a, value) ==
  /\ pc' = [pc EXCEPT ![a] = "idle"]
  /\ op' = [op EXCEPT ![a] = "none"]
  /\ fildes' = [fildes EXCEPT ![a] = -1]
  /\ held' = [held EXCEPT ![a] = Null]
  /\ answer' = [answer EXCEPT ![a] = value]

Free(d) == name' = [e \in live \ {d} |-> name[e]]

Overlaps(a, o, f) ==
  \E b \in Callers \ {a} :
    "close" \in {o, op[b]} /\ op[b] \notin PathCalls \cup {"none"} /\ fildes[b] = f

Enter(a) == pc[a] = "idle"

GetDelegate(f) == IF f < 0 \/ Len(table) <= f THEN Null ELSE table[f + 1]

\* Does another caller push to the table that a reads or writes?
Torn(a) == \E b \in Callers \ {a} : pc[b] = "push"

\* What GetDelegate(f) may find then: size() and the slot are of two arrays, of which
\* one is freed.
Found(a, f) == IF f >= 0 /\ Torn(a) THEN Delegates \cup {Null} ELSE {GetDelegate(f)}

\* access of a port asks for the bits of "other", which its Stat leaves clear, or
\* for none.
Accessible(d) == {name[d] \in Ports, FALSE}

\* What a method of delegate d may answer the caller a: Html5FileSystem's fail
\* with EIO, -1 or NULL on the main thread, and may fail on another; a port knows
\* three names, makes no directories, and is the only terminal.  What is called
\* through a deleted delegate may answer anything.
May(a, o, d) ==
  IF d \notin live THEN BOOLEAN
  ELSE IF name[d] \notin Ports \cup {Unknown}
  THEN IF a = Main \/ o = "isatty" THEN {FALSE} ELSE IF o = "close" THEN {TRUE} ELSE BOOLEAN
  ELSE CASE o \in {"open", "stat"}    -> {name[d] \in Ports}
         [] o = "access"              -> Accessible(d)
         [] o = "mkdir"               -> {FALSE}
         [] o \in {"close", "isatty"} -> {TRUE}
         [] o = "use"                 -> BOOLEAN

\* The calls on a path: CreateDelegate, or the answer to NULL.
New(a, o, p) ==
  /\ Enter(a)
  /\ o = "open" => Len(table) + Cardinality({b \in Callers : op[b] = "open"}) < MaxTable
  /\ IF p = NoPath
     THEN o # "access" /\ Return(a, Bad) /\ UNCHANGED name
     ELSE \E d \in Delegates \ live :
            Begin(a, o, -1, d, "made") /\ name' = [e \in live \cup {d} |-> IF e = d THEN p ELSE name[e]]
  /\ UNCHANGED <<table, conflict>>

\* isatty answers 1 for a terminal and 0 for everything else, errors included.
Answer(o, ok) == IF o = "isatty" THEN (IF ok THEN 1 ELSE 0) ELSE IF ok THEN 0 ELSE Bad

\* A slip: an open that fails leaves its delegate behind.
KeepsFailed(o, ok) == o = "open"

Keeps(o, ok) == o = "open" /\ ok

\* The delegate has answered a call on a path; only an open that succeeds keeps it.
Made(a) ==
  /\ pc[a] = "made"
  /\ \E ok \in May(a, op[a], held[a]) :
       /\ IF op[a] = "open" /\ ok THEN Go(a, "bind") ELSE Return(a, Answer(op[a], ok))
       /\ IF Keeps(op[a], ok) THEN UNCHANGED name ELSE Free(held[a])
  /\ UNCHANGED <<table, conflict>>

\* A slip: the last slot is used again when it is free.
Reused(d) ==
  IF table # <<>> /\ table[Len(table)] = Null
  THEN [table EXCEPT ![Len(table)] = d] ELSE Append(table, d)

\* A slip: the vector is resized and then pushed to.
ResizedAndPushed(d) == table \o <<Null, d>>

Pushed(d) == Append(table, d)

\* push_back begins: another may be under way, or have yet to ask for size().
BeginPush(a) ==
  /\ pc[a] = "bind"
  /\ Go(a, "push")
  /\ conflict' = (conflict \/ \E b \in Callers \ {a} : pc[b] \in {"push", "bound"})
  /\ UNCHANGED <<table, name>>

\* What two threads may leave of the table: elements lost, overwritten after they
\* were used, or never written.
Wreckage == BoundedSeq(Delegates \cup {Null}, MaxTable)

\* push_back ends.
EndPush(a) ==
  /\ pc[a] = "push"
  /\ IF conflict THEN table' \in Wreckage ELSE table' = Pushed(held[a])
  /\ Go(a, "bound")
  /\ UNCHANGED <<name, conflict>>

\* A slip: size() without the 1.
LastBehind == Len(table)

LastSlot == Len(table) - 1

Bound(a) ==
  /\ pc[a] = "bound"
  /\ Return(a, LastSlot)
  /\ UNCHANGED <<table, name, conflict>>

-----------------------------------------------------------------------------

\* The calls on a descriptor: GetDelegate, or the answer to a bad descriptor.
Look(a, o, f, place) ==
  /\ Enter(a)
  /\ conflict' = (conflict \/ Overlaps(a, o, f) \/ (f >= 0 /\ Torn(a)))
  /\ \E d \in Found(a, f) :
       IF d = Null THEN Return(a, Answer(o, FALSE)) ELSE Begin(a, o, f, d, place)
  /\ UNCHANGED <<table, name>>

Use(a, o, f) == Look(a, o, f, "using")

Used(a) ==
  /\ pc[a] = "using"
  /\ \E ok \in May(a, op[a], held[a]) :
       Return(a, Answer(op[a], ok))
  /\ UNCHANGED <<table, name, conflict>>

Close(a, f) == Look(a, "close", f, "closing")

\* A Close that fails keeps the descriptor.
Closed(a) ==
  /\ pc[a] = "closing"
  /\ \E ok \in May(a, "close", held[a]) : IF ok THEN Go(a, "delete") ELSE Return(a, Bad)
  /\ UNCHANGED <<table, name, conflict>>

\* DeleteDescriptor looks the delegate up again.
Delete(a) ==
  /\ pc[a] = "delete"
  /\ conflict' = (conflict \/ Torn(a))
  /\ \E d \in Found(a, fildes[a]) :
       IF d = Null
       THEN Return(a, 0) /\ UNCHANGED name
       ELSE Begin(a, "close", fildes[a], d, "deleted") /\ Free(d)
  /\ UNCHANGED table

\* A slip: the slot keeps the pointer.
ClearNothing(a) ==
  /\ pc[a] = "deleted"
  /\ conflict' = (conflict \/ Torn(a))
  /\ Return(a, 0)
  /\ UNCHANGED <<table, name>>

\* NULL goes to the slot, or to where it was while push_back moves the table.
Clear(a) ==
  /\ pc[a] = "deleted"
  /\ conflict' = (conflict \/ Torn(a))
  /\ table' = [i \in 1..Len(table) |-> IF i = fildes[a] + 1 THEN Null ELSE table[i]]
  /\ Return(a, 0)
  /\ UNCHANGED name

Step(a) ==
  \/ Made(a)
  \/ BeginPush(a)
  \/ EndPush(a)
  \/ Bound(a)
  \/ Used(a)
  \/ Closed(a)
  \/ Delete(a)
  \/ Clear(a)

Next ==
  \E a \in Callers :
    \/ Step(a)
    \/ \E o \in PathCalls, p \in Paths \cup {NoPath} : New(a, o, p)
    \/ \E f \in -1..MaxTable : Close(a, f) \/ \E o \in DescriptorCalls : Use(a, o, f)

Spec == Init /\ [][Next]_vars

-----------------------------------------------------------------------------

\* The slots whose close has deleted the delegate and not yet stored the NULL.
Dying(i) == \E a \in Callers : pc[a] = "deleted" /\ fildes[a] + 1 = i

Serving == {i \in 1..Len(table) : table[i] # Null /\ ~Dying(i)}

Making == {a \in Callers : pc[a] \in {"made", "bind", "push"}}

\* Opens and closes of several threads overlap in any way in which no use of the
\* table overlaps a BindToDescriptor, and no close another call on its descriptor:
\* then every delegate that exists belongs to exactly one of the descriptors and the
\* calls on paths.  None leaks when an open fails, none is deleted twice, and none
\* is behind two descriptors (filesystem.cc:349, :371).
Accounted ==
  ~conflict =>
    /\ live = {table[i] : i \in Serving} \cup {held[a] : a \in Making}
    /\ \A i, j \in Serving : table[i] = table[j] => i = j
    /\ \A a, b \in Making : held[a] = held[b] => a = b
    /\ \A i \in Serving, a \in Making : table[i] # held[a]

\* Under the same condition no method runs on a delegate that has been deleted.
InUseAlive ==
  ~conflict =>
    \A a \in Callers :
      pc[a] \in {"made", "bind", "push", "using", "closing"} => held[a] \in live

\* Under the same condition, what an open answers is the slot of its own delegate,
\* though other opens are under way, or a slot that has been closed since
\* (filesystem.cc:594).
OpenReturnsOwn ==
  [][\A a \in Callers :
       pc[a] = "bound" /\ pc'[a] = "idle" /\ ~conflict
         => answer'[a] + 1 \in 1..Len(table) /\ table[answer'[a] + 1] \in {held[a], Null}]_vars

\* Under the same condition a descriptor is never used again for another file: a
\* thread that keeps one after a close gets an error and not someone else's data.
NeverReused ==
  [][~conflict =>
       /\ Len(table') >= Len(table)
       /\ \A i \in 1..Len(table) : table'[i] \in {table[i], Null}]_vars

=============================================================================
