----------------------------- MODULE DirStream ------------------------------
(***************************************************************************)
(* Directory streams: FileSystem::OpenDir to CloseDir, the handlers of     *)
(* Html5FileSystem behind them and Html5FileSystemDir.                     *)
(*                                                                         *)
(* An opendir makes a delegate and, on the main thread, a stream that      *)
(* belongs to it; closedir deletes both.  The first readdir of a stream    *)
(* asks the browser for the entries of the directory, waits for the        *)
(* completion and keeps what it brought; the others are served from that.  *)
(* The first opendir also opens the browser's file system, and waits for   *)
(* that: Switch then runs OpenDirCall a second time, and never looks at    *)
(* the result.                                                             *)
(*                                                                         *)
(* The handlers run on the main thread, one at a time, so each is an       *)
(* action.  A call that asks the browser for nothing is one action; the    *)
(* others end in a completion.  Every stream is used by one thread, which  *)
(* makes one call at a time; several threads may use streams of their own. *)
(* That the right thread is woken is MainThreadCall's subject.             *)
(***************************************************************************)
EXTENDS Integers, Sequences, FiniteSets

CONSTANTS
  Streams,  \* pairs of a delegate and its DIR
  Names,    \* names of directory entries
  Null

ASSUME NullAssumption == Null \notin Names
ASSUME NamesAssumption == IsFiniteSet(Names)  \* a name has at most 255 characters

VARIABLES
  contents,    \* what the directory holds
  filesystem,  \* is filesystem_ set?
  delegates,   \* the streams whose delegate exists
  dirs,        \* the streams whose DIR exists
  path,        \* what each was opened for
  waiting,     \* the streams whose delegate has waiting_ set
  read,        \* the streams with read_ set
  entries,     \* entries_
  offset,      \* offset_
  call,        \* the call of each stream that waits for a completion
  request,     \* and what has become of its request
  found,       \* the entries that the browser has read for it
  answer       \* what the stream's last readdir answered

vars == <<contents, filesystem, delegates, dirs, path, waiting, read, entries, offset, call,
          request, found, answer>>

\* A directory; something else, or nothing; a port.
Paths == {"directory", "other", "port"}

Calls == {"none", "opendir", "readdir"}

\* A request the browser refuses without a completion is lost, when nobody looks.
Requests == {"none", "pending", "read", "failed", "lost"}

\* A stream has found its entries when the browser has read them.
Known == read \cup {s \in Streams : request[s] = "read"}

Listing == [s \in Streams |-> IF request[s] = "read" THEN found[s] ELSE entries[s]]

L == INSTANCE DirListing WITH known <- Known, listing <- Listing, given <- offset

TypeOK ==
  /\ contents \subseteq Names
  /\ filesystem \in BOOLEAN
  /\ delegates \subseteq Streams /\ dirs \subseteq Streams
  /\ path \in [Streams -> Paths]
  /\ waiting \subseteq Streams /\ read \subseteq Streams
  /\ entries \in [Streams -> Seq(Names)]
  /\ offset \in [Streams -> Nat] /\ \A s \in Streams : offset[s] <= Len(entries[s])
  /\ call \in [Streams -> Calls]
  /\ request \in [Streams -> Requests]
  /\ found \in [Streams -> Seq(Names)]
  /\ answer \in [Streams -> Names \cup {Null}]

Init ==
  /\ contents = {}
  /\ filesystem = FALSE
  /\ delegates = {} /\ dirs = {}
  /\ path = [s \in Streams |-> "port"]
  /\ waiting = {} /\ read = {}
  /\ entries = [s \in Streams |-> <<>>]
  /\ offset = [s \in Streams |-> 0]
  /\ call = [s \in Streams |-> "none"]
  /\ request = [s \in Streams |-> "none"]
  /\ found = [s \in Streams |-> <<>>]
  /\ answer = [s \in Streams |-> Null]

-----------------------------------------------------------------------------

\* The thread waits in call c for a request that may be refused.
Wait(s, c, outcome) ==
  /\ call' = [call EXCEPT ![s] = c]
  /\ request' = [request EXCEPT ![s] = outcome]

Wake(s) == Wait(s, "none", "none") /\ found' = [found EXCEPT ![s] = <<>>]

\* The pages change the directory.
Change ==
  /\ contents' \in SUBSET Names \ {contents}
  /\ UNCHANGED <<filesystem, delegates, dirs, path, waiting, read, entries, offset, call,
                 request, found, answer>>

\* Nothing is asked about the path.
OpenDir(s, p) ==
  /\ s \notin delegates
  /\ IF p = "port"
     THEN UNCHANGED <<filesystem, delegates, dirs, path, call, request>>
     ELSE /\ delegates' = delegates \cup {s}
          /\ path' = [path EXCEPT ![s] = p]
          /\ filesystem' = TRUE
          /\ IF filesystem
             THEN dirs' = dirs \cup {s} /\ UNCHANGED <<call, request>>
             ELSE UNCHANGED dirs /\ \E o \in {"pending", "lost"} : Wait(s, "opendir", o)
  /\ UNCHANGED <<contents, waiting, read, entries, offset, found, answer>>

\* The completion of FileSystem::Open, whatever it says.
FileSystemOpened(s) ==
  /\ call[s] = "opendir" /\ request[s] = "pending"
  /\ dirs' = dirs \cup {s}
  /\ Wake(s)
  /\ UNCHANGED <<contents, filesystem, delegates, path, waiting, read, entries, offset, answer>>

\* A slip: the entries are asked for again.
NeverCached(s) == FALSE

Cached(s) == s \in read

\* The stream stands at place at with the entries e.
ReadDirNext(s, e, at) ==
  IF at >= Len(e)
  THEN answer' = [answer EXCEPT ![s] = Null] /\ offset' = [offset EXCEPT ![s] = at]
  ELSE answer' = [answer EXCEPT ![s] = e[at + 1]] /\ offset' = [offset EXCEPT ![s] = at + 1]

\* A slip: where Rewind goes back to.
SecondEntry == 1

FirstEntry == 0

\* What becomes of a request to read the directory.
Asked(s, outcome) ==
  Wait(s, "readdir", outcome) /\ waiting' = waiting \cup {s} /\ UNCHANGED answer

\* A slip: the refusal is not looked at.
RefusalMissed(s) == Asked(s, "lost")

Refused(s) == answer' = [answer EXCEPT ![s] = Null] /\ UNCHANGED <<waiting, call, request>>

\* readdir, or readdir_r.  A request that is refused ends the call with NULL.
ReadDir(s) ==
  /\ s \in dirs /\ call[s] = "none"
  /\ IF Cached(s)
     THEN ReadDirNext(s, entries[s], offset[s]) /\ UNCHANGED <<waiting, call, request>>
     ELSE /\ offset' = [offset EXCEPT ![s] = FirstEntry]
          /\ \/ Asked(s, "pending")
             \/ Refused(s)
  /\ UNCHANGED <<contents, filesystem, delegates, dirs, path, read, entries, found>>

\* The browser reads the directory, or fails to.
BrowserReads(s) ==
  /\ call[s] = "readdir" /\ request[s] = "pending"
  /\ \/ request' = [request EXCEPT ![s] = "failed"] /\ UNCHANGED found
     \/ /\ path[s] = "directory"
        /\ request' = [request EXCEPT ![s] = "read"]
        /\ \E o \in L!Orders(contents) : found' = [found EXCEPT ![s] = o]
  /\ UNCHANGED <<contents, filesystem, delegates, dirs, path, waiting, read, entries, offset,
                 call, answer>>

\* A slip: waiting_ stays set when the request has failed.
NotWaitingAfterSuccess(s) == IF request[s] = "read" THEN waiting \ {s} ELSE waiting

NotWaiting(s) == waiting \ {s}

\* The completion: the entries are kept, and ReadDirCall runs again.
OnReadDirectoryEntries(s) ==
  /\ call[s] = "readdir" /\ request[s] \in {"read", "failed"}
  /\ waiting' = NotWaiting(s)
  /\ IF request[s] = "read"
     THEN /\ entries' = [entries EXCEPT ![s] = @ \o found[s]]
          /\ read' = read \cup {s}
          /\ ReadDirNext(s, entries[s] \o found[s], offset[s])
     ELSE answer' = [answer EXCEPT ![s] = Null] /\ UNCHANGED <<read, entries, offset>>
  /\ Wake(s)
  /\ UNCHANGED <<contents, filesystem, delegates, dirs, path>>

RewindDir(s) ==
  /\ s \in dirs /\ call[s] = "none"
  /\ offset' = [offset EXCEPT ![s] = FirstEntry]
  /\ UNCHANGED <<contents, filesystem, delegates, dirs, path, waiting, read, entries, call,
                 request, found, answer>>

\* A slip: closedir deletes the stream, but not its delegate.
DelegateKept(s) == delegates

DelegateDeleted(s) == delegates \ {s}

CloseDir(s) ==
  /\ s \in dirs /\ call[s] = "none"
  /\ dirs' = dirs \ {s}
  /\ delegates' = DelegateDeleted(s)
  /\ read' = read \ {s}
  /\ entries' = [entries EXCEPT ![s] = <<>>]
  /\ offset' = [offset EXCEPT ![s] = 0]
  /\ answer' = [answer EXCEPT ![s] = Null]
  /\ UNCHANGED <<contents, filesystem, path, waiting, call, request, found>>

Browser(s) == FileSystemOpened(s) \/ BrowserReads(s) \/ OnReadDirectoryEntries(s)

Next ==
  \/ Change
  \/ \E s \in Streams :
       \/ \E p \in Paths : OpenDir(s, p)
       \/ ReadDir(s)
       \/ RewindDir(s)
       \/ CloseDir(s)
       \/ Browser(s)

Spec == Init /\ [][Next]_vars

\* The browser completes what it has accepted.
FairSpec == Spec /\ \A s \in Streams : WF_vars(Browser(s))

-----------------------------------------------------------------------------

\* The delegates that exist are those of the open streams, and of the opendirs that
\* wait: closedir deletes the delegate that outlives its DIR, and an opendir that
\* fails keeps none (filesystem.cc:455, :481).
NoDelegateLost == delegates = dirs \cup {s \in Streams : call[s] = "opendir"}

\* waiting_, which ReadDirCall takes for "I have been here before", is set exactly
\* while a readdir waits: no later call takes another's result for its own
\* (html5_filesystem.cc:503).
WaitingOfTheCall == waiting = {s \in Streams : call[s] = "readdir"}

\* Whatever the directory does meanwhile, however requests fail, and wherever the
\* stream is rewound, the stream is the listing of one moment, each entry once a
\* pass (html5_filesystem.cc:92-126, :498-528).
ListsOneMoment == L!Spec

\* Every call on a stream ends, or was an opendir whose FileSystem::Open the browser
\* refused, which Initialize does not look at (html5_filesystem.cc:547).
CallEnds ==
  \A s \in Streams :
    call[s] # "none" ~> call[s] = "none" \/ (call[s] = "opendir" /\ request[s] = "lost")

\* A stream is opened only for what is a directory, as the test has it, which calls
\* opendir for a name that is none and says that the call will fail.
OpensDirectories == \A s \in dirs : path[s] = "directory"

=============================================================================
