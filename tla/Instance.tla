------------------------------ MODULE Instance ------------------------------
(***************************************************************************)
(* The life of the plugin: NaClFsInstance, the application's thread, the   *)
(* mutex on which its reads block, and the descriptor table, composed from *)
(* Descriptors.                                                            *)
(*                                                                         *)
(* The browser makes one instance and calls Init, which opens the standard *)
(* descriptors on the main thread, turns the trace on and starts a thread  *)
(* for naclfs_main.  Every wrapper of wrap.cc first logs its name, and a   *)
(* log of another thread than the main one waits until the main thread has *)
(* posted it (Output); so does a method of Html5FileSystem                 *)
(* (MainThreadCall) and a write to a port.  A read whose delegate answers  *)
(* -2 waits for mutex_, which only a key unlocks.  When the page goes, the *)
(* destructor joins the application's thread on the main thread, which     *)
(* then serves nobody.                                                     *)
(*                                                                         *)
(* A read of stdin and a key that overlap race for the buffer              *)
(* (BlockingRead): here only its length is at stake, and the crash that    *)
(* may come of it is left out.                                             *)
(***************************************************************************)
EXTENDS Integers, Sequences

CONSTANTS
  App,        \* the application's thread
  Main,       \* the main thread
  Delegates,
  Null,
  Paths,      \* what the application calls with
  MaxTable,   \* bound, as in Descriptors
  MaxTyped    \* bound: keys pressed and not read

VARIABLES
  table, name, pc, op, fildes, held, answer, conflict,  \* of Descriptors
  life,    \* of the instance
  begun,   \* how many of the standard descriptors Init has begun to open
  thread,  \* the application's thread: where it stands outside Descriptors
  typed,   \* the number of bytes in PortFileSystem's buffer_
  locked,  \* FileSystem's mutex_
  asleep   \* is the application's thread in FileSystem::Read, at pthread_mutex_lock?

\* What the application opens, and what Init opens.
OpenedPaths == Paths \cup {"/dev/stdin", "/dev/stdout", "/dev/stderr"}

D == INSTANCE Descriptors WITH Threads <- {App}, Paths <- OpenedPaths

ASSUME ThreadAssumption == App # Main
ASSUME DelegatesAssumption == Null \notin Delegates
ASSUME BoundsAssumption == MaxTable \in Nat /\ MaxTable >= 3 /\ MaxTyped \in Nat
ASSUME PathsAssumption == Paths \subseteq D!Ports \cup {D!Unknown, D!File} /\ D!File \in Paths

descriptorVars == <<table, name, pc, op, fildes, held, answer, conflict>>

mutexVars == <<locked, asleep>>

vars == <<descriptorVars, life, begun, thread, typed, mutexVars>>

Lives == {"none", "created", "running", "joining", "gone"}

\* In its own code; waiting for the log of the wrapper it entered; in a call whose
\* method waits for the main thread; in one that does not; in a blocking read of
\* stdin, with room for a byte or for none.
ThreadStates ==
  {"none", "running", "logging", "calling", "alone", "reading", "peeking", "ended"}

TypeOK ==
  /\ D!TypeOK
  /\ life \in Lives
  /\ begun \in 0..3
  /\ thread \in ThreadStates
  /\ typed \in 0..MaxTyped
  /\ locked \in BOOLEAN
  /\ asleep \in BOOLEAN

Init ==
  /\ D!Init
  /\ life = "none"
  /\ begun = 0
  /\ thread = "none"
  /\ typed = 0
  /\ locked = TRUE
  /\ asleep = FALSE

-----------------------------------------------------------------------------

CreateInstance ==
  /\ life = "none"
  /\ life' = "created"
  /\ UNCHANGED <<descriptorVars, begun, thread, typed, mutexVars>>

OpenStandard ==
  /\ life = "created"
  /\ begun < 3
  /\ D!New(Main, "open", D!Standard[begun + 1])
  /\ begun' = begun + 1
  /\ UNCHANGED <<life, thread, typed, mutexVars>>

MainSteps ==
  /\ D!Step(Main)
  /\ UNCHANGED <<life, begun, thread, typed, mutexVars>>

\* A slip: the thread is started before the last descriptor is open.
OpenedTooEarly == begun = 3

Opened == begun = 3 /\ pc[Main] = "idle"

\* The end of Init.
CreateThread ==
  /\ life = "created"
  /\ Opened
  /\ life' = "running"
  /\ thread' = "running"
  /\ UNCHANGED <<descriptorVars, begun, typed, mutexVars>>

\* The page is left: the destructor, and its pthread_join.
Destroy ==
  /\ life = "running"
  /\ life' = "joining"
  /\ UNCHANGED <<descriptorVars, begun, thread, typed, mutexVars>>

Join ==
  /\ life = "joining"
  /\ thread = "ended"
  /\ life' = "gone"
  /\ UNCHANGED <<descriptorVars, begun, thread, typed, mutexVars>>

-----------------------------------------------------------------------------

\* The application enters a wrapper that logs, and the main thread posts the log.
Log ==
  /\ thread = "running"
  /\ thread' = "logging"
  /\ UNCHANGED <<descriptorVars, life, begun, typed, mutexVars>>

Logged ==
  /\ thread = "logging"
  /\ life = "running"
  /\ thread' = "calling"
  /\ UNCHANGED <<descriptorVars, life, begun, typed, mutexVars>>

\* How a call goes on that has found its delegate: a port's methods need the main
\* thread only for what they log or post, and stdin may or may not block.
GoesOn ==
  IF pc'[App] = "idle" THEN {"running"}
  ELSE IF pc'[App] = "made" \/ name[held'[App]] \notin D!Ports THEN {"calling"}
  ELSE IF op'[App] = "use" /\ name[held'[App]] = "/dev/stdin"
  THEN {"calling", "alone", "reading", "peeking"} ELSE {"calling", "alone"}

AppCalls ==
  /\ thread = "calling"
  /\ \/ \E o \in D!PathCalls, p \in Paths \cup {D!NoPath} : D!New(App, o, p)
     \/ \E f \in -1..MaxTable : D!Close(App, f) \/ \E o \in D!DescriptorCalls : D!Use(App, o, f)
  /\ thread' \in GoesOn
  /\ UNCHANGED <<life, begun, typed, mutexVars>>

\* read and write do not log on 0, 1 and 2, and on 0 neither does the port.
AppReadsOrWrites ==
  /\ thread = "running"
  /\ \E f \in 0..2 :
       /\ D!Use(App, "use", f)
       /\ thread' \in GoesOn
       /\ f = 0 => thread' # "calling"
  /\ UNCHANGED <<life, begun, typed, mutexVars>>

\* Does the call wait for the main thread where it stands?
NeedsMain == thread = "calling" /\ ~asleep /\ pc[App] \in {"made", "bound", "using", "closing"}

UsesStdin == pc[App] = "using" /\ op[App] = "use" /\ name[held[App]] = "/dev/stdin"

UsesFile == pc[App] = "using" /\ op[App] = "use" /\ name[held[App]] \notin D!Ports

\* A slip: a read takes a byte from the empty buffer.
NeverEmpty == TRUE

HasByte == typed > 0

\* What the call leaves in the buffer: a blocking read of stdin takes a byte or all
\* of them, and another method of stdin may be a read that does not block.
Left ==
  IF thread = "reading" THEN {typed - 1, 0}
  ELSE IF thread = "alone" /\ UsesStdin THEN 0..typed ELSE {typed}

AppStep ==
  /\ thread \in {"calling", "alone", "reading"}
  /\ ~asleep
  /\ NeedsMain => life = "running"
  /\ thread = "reading" => HasByte
  /\ D!Step(App)
  /\ typed' \in Left
  /\ thread' = IF pc'[App] = "idle" THEN "running" ELSE thread
  /\ UNCHANGED <<life, begun, mutexVars>>

\* The delegate's Read answers -2: stdin has no byte or there is no room for one, or
\* the browser has answered a read of a file with PP_ERROR_FAILED.
Sleep ==
  /\ ~asleep
  /\ \/ thread = "peeking"
     \/ thread = "reading" /\ ~HasByte
     \/ thread = "calling" /\ life = "running" /\ UsesFile
  /\ asleep' = TRUE
  /\ UNCHANGED <<descriptorVars, life, begun, thread, typed, locked>>

\* The lock is had, and the delegate is asked again.
Wake ==
  /\ asleep
  /\ ~locked
  /\ locked' = TRUE
  /\ asleep' = FALSE
  /\ UNCHANGED <<descriptorVars, life, begun, thread, typed>>

\* naclfs_main returns.
AppReturns ==
  /\ thread = "running"
  /\ thread' = "ended"
  /\ UNCHANGED <<descriptorVars, life, begun, typed, mutexVars>>

-----------------------------------------------------------------------------

\* A key while a read takes bytes: the race of BlockingRead.
Races == thread \in {"alone", "reading"} /\ ~asleep /\ UsesStdin

Stored ==
  \/ typed < MaxTyped /\ typed' = typed + 1
  \/ Races /\ typed' \in 0..MaxTyped

\* A slip: the byte is stored, and nobody is told.
StoredOnly ==
  /\ life = "running"
  /\ Stored
  /\ UNCHANGED <<descriptorVars, life, begun, thread, mutexVars>>

\* A key: the byte goes to the buffer, and the mutex is unlocked.
HandleMessage ==
  /\ life = "running"
  /\ Stored
  /\ locked' = FALSE
  /\ UNCHANGED <<descriptorVars, life, begun, thread, asleep>>

-----------------------------------------------------------------------------

AppNext ==
  \/ Log \/ Logged \/ AppCalls \/ AppReadsOrWrites
  \/ AppStep \/ Sleep \/ Wake \/ AppReturns

MainNext == OpenStandard \/ MainSteps \/ CreateThread \/ Join

Next == CreateInstance \/ MainNext \/ HandleMessage \/ Destroy \/ AppNext

Spec == Init /\ [][Next]_vars

\* Both threads run on while they can, and the application has an end: it does not
\* compute for ever, and does not poll stdin for ever either.
FairSpec ==
  /\ Spec
  /\ WF_vars(AppNext) /\ WF_vars(MainNext)
  /\ SF_vars(Log \/ AppReturns)

-----------------------------------------------------------------------------

\* The calls of the main thread and of the one application thread that the plugin
\* starts never meet in the descriptor table, so what Descriptors promises about
\* delegates under this condition holds (naclfs_crt.cc:81, filesystem.cc:594).
NeverConflict == ~conflict

\* The application finds stdin, stdout and stderr behind 0, 1 and 2, whatever it
\* opens, unless it closes them itself (naclfs_crt.cc:81).
StandardDescriptors ==
  thread # "none" =>
    /\ Len(table) >= 3
    /\ \A i \in 1..3 : table[i] \in D!live => name[table[i]] = D!Standard[i]

\* Does the thread sleep on mutex_, with nobody left to unlock it but a key?  Not in
\* a read of stdin for which there is a byte.
NeedsKey == asleep /\ locked /\ (thread = "reading" => ~HasByte)

\* The destructor's join ends, or the thread is where only the main thread can help
\* it, and then it never ends (naclfs_crt.cc:71): the thread has something to log or
\* to ask of the main thread, or sleeps in a read that was answered with -2, which
\* only a key would wake.  A byte that was there in time wakes its reader.
JoinReturns ==
  life = "joining" ~> life = "gone" \/ thread = "logging" \/ NeedsMain \/ NeedsKey

=============================================================================
