----------------------------- MODULE Html5File -----------------------------
(***************************************************************************)
(* Html5FileSystem: operations on a file as chains of asynchronous PPAPI   *)
(* requests.  Proxy enters the same XxxCall handler again for every        *)
(* completion, and the handler tells where it stands from filesystem_,     *)
(* waiting_ and querying_, members of the delegate that outlive the call.  *)
(*                                                                         *)
(* One application thread calls (MainThreadCall has the rendezvous), so at *)
(* most one call and one request are under way.  Every path is the same    *)
(* path; stat and mkdir use a delegate of their own, which is deleted when *)
(* they return, as is that of an open that fails.                          *)
(***************************************************************************)
EXTENDS Integers, FiniteSets

CONSTANTS
  Descs,     \* delegates, alive while a descriptor or a call uses them
  MaxOpen,   \* bound: descriptors open at once
  MaxSize,   \* bound: file sizes, offsets and byte counts
  Failures,  \* may a request complete with an error?
  Refusals,  \* may a request be refused at once, without a completion?
  NoCall

ASSUME BoundsAssumption == MaxOpen \in Nat /\ MaxSize \in Nat

PP_OK == 0
PP_ERROR == -2          \* every negative completion but the next
PP_ERROR_NOTAFILE == -3
Errno(code) == 1        \* PPErrorToErrNo never answers 0

VARIABLES
  filesystem,  \* filesystem_: "null", or the state the browser has it in
  call,        \* the call under way
  request,     \* the request the browser works on, "none" or "lost"
  callback,    \* arguments->result.callback
  waiting, querying, offset, cached,  \* members; cached is file_info_.size
  open,        \* delegates bound to a descriptor
  size,        \* what the browser has at the path: a file's size or ...
  inflated,    \* history: a write past the cached end failed since the Query
  outdated,    \* history: another descriptor changed the size since the Query
  answer       \* what the last call returned

vars == <<filesystem, call, request, callback, waiting, querying, offset,
          cached, open, size, inflated, outdated, answer>>

Missing == -1
Directory == -2

members == <<waiting, querying, offset, cached>>
browser == <<callback, size, inflated, outdated>>

Larger(a, b) == IF a < b THEN b ELSE a
Smaller(a, b) == IF a < b THEN a ELSE b

Calls ==
  [op: {"open"}, d: Descs, append: BOOLEAN, trunc: BOOLEAN, creat: BOOLEAN]
    \cup [op: {"read", "write"}, d: Descs, n: 0..MaxSize]
    \cup [op: {"stat", "fstat", "mkdir"}, d: Descs]

OnNewDelegate(c) == c.op \in {"open", "stat", "mkdir"}

TypeOK ==
  /\ filesystem \in {"null", "opening", "open", "failed"}
  /\ call \in Calls \cup {NoCall}
  /\ request \in {"none", "lost", "initialize", "open", "query", "read",
                  "write", "mkdir"}
  /\ callback \in {PP_ERROR, PP_ERROR_NOTAFILE} \cup 0..MaxSize
  /\ waiting \in [Descs -> BOOLEAN] /\ querying \in [Descs -> BOOLEAN]
  /\ offset \in [Descs -> -MaxSize..MaxSize]
  /\ cached \in [Descs -> 0..MaxSize]
  /\ open \subseteq Descs
  /\ size \in {Missing, Directory} \cup 0..MaxSize
  /\ inflated \subseteq Descs /\ outdated \subseteq Descs
  /\ answer \in {PP_ERROR, PP_ERROR_NOTAFILE, -1} \cup 0..Larger(MaxSize, 1)

Init ==
  /\ filesystem = "null"
  /\ call = NoCall
  /\ request = "none"
  /\ callback = PP_OK
  /\ waiting = [d \in Descs |-> FALSE] /\ querying = [d \in Descs |-> FALSE]
  /\ offset = [d \in Descs |-> 0] /\ cached = [d \in Descs |-> 0]
  /\ open = {}
  /\ size = Missing
  /\ inflated = {} /\ outdated = {}
  /\ answer = 0

-----------------------------------------------------------------------------
(* The application thread.                                                 *)

\* Call posts Proxy with result 0.  Open, stat and mkdir make a new delegate,
\* whose constructor leaves file_info_ as it finds it.
Begin(c) ==
  /\ call = NoCall
  /\ OnNewDelegate(c) <=> c.d \notin open
  /\ c.op = "open" => Cardinality(open) < MaxOpen
  /\ c.op = "write" => offset[c.d] + c.n <= MaxSize
  /\ call' = c
  /\ callback' = PP_OK
  /\ \/ /\ OnNewDelegate(c)
        /\ offset' = [offset EXCEPT ![c.d] = 0]
        /\ inflated' = inflated \ {c.d} /\ outdated' = outdated \ {c.d}
        /\ waiting' = [waiting EXCEPT ![c.d] = FALSE]
        /\ querying' = [querying EXCEPT ![c.d] = FALSE]
        /\ \E junk \in 0..MaxSize : cached' = [cached EXCEPT ![c.d] = junk]
     \/ ~OnNewDelegate(c) /\ UNCHANGED <<members, inflated, outdated>>
  /\ answer' = 0
  /\ UNCHANGED <<filesystem, request, open, size>>

\* SeekCall and CloseCall chain nothing: the whole call is one step.
SeekTo(d, position) ==
  /\ position \in -MaxSize..MaxSize
  /\ offset' = [offset EXCEPT ![d] = position]

Seek(d, by) ==
  /\ call = NoCall
  /\ d \in open
  /\ SeekTo(d, by) \/ SeekTo(d, offset[d] + by) \/ SeekTo(d, cached[d] + by)
  /\ UNCHANGED <<filesystem, call, request, browser, waiting, querying, cached,
                 open, answer>>

Close(d) ==
  /\ call = NoCall
  /\ d \in open
  /\ open' = open \ {d}
  /\ UNCHANGED <<filesystem, call, request, browser, members, answer>>

-----------------------------------------------------------------------------
(* The main thread: Proxy, Switch and the handler of the call under way.   *)

InCall(op) == call # NoCall /\ call.op = op /\ request = "none"

\* arguments->chaining = true after asking the browser.
Chain(kind) == request' = kind /\ UNCHANGED <<call, open, answer>>

\* The handler ends without chaining and its value goes to the caller.
Finish(value) ==
  /\ call' = NoCall
  /\ answer' = value
  /\ request' = "none"
  /\ open' = IF call.op = "open" /\ value = 0 THEN open \cup {call.d} ELSE open

SetWaiting(b) == waiting' = [waiting EXCEPT ![call.d] = b]
SetQuerying(b) == querying' = [querying EXCEPT ![call.d] = b]

\* A request whose return value the code looks at, or does not.
Checked(kind, error) ==
  \/ Chain(kind) /\ SetWaiting(TRUE)
  \/ Refusals /\ Finish(error) /\ UNCHANGED waiting
Unchecked(kind) == Chain(kind) \/ (Refusals /\ Chain("lost"))

NeedsInitialize == OnNewDelegate(call) /\ filesystem = "null"

\* filesystem_ is assigned before the browser has opened anything.
Initialize ==
  /\ call # NoCall /\ request = "none"
  /\ NeedsInitialize
  /\ filesystem' = "opening"
  /\ Unchecked("initialize")
  /\ UNCHANGED <<browser, members>>

\* OpenCall and StatCall, first entry: FileIO::Open.
OpenFile ==
  /\ InCall("open") \/ InCall("stat")
  /\ ~NeedsInitialize /\ ~waiting[call.d] /\ ~querying[call.d]
  /\ Checked("open", Errno(callback))
  /\ UNCHANGED <<filesystem, browser, querying, offset, cached>>

\* A slip: waiting_ is not cleared on the way to FileIO::Query.
OpenedKeepsWaiting ==
  /\ InCall("open") \/ InCall("stat")
  /\ ~NeedsInitialize /\ waiting[call.d]
  /\ \/ /\ callback # PP_OK
        /\ Finish(Errno(callback))
        /\ SetWaiting(FALSE)
        /\ UNCHANGED querying
     \/ callback = PP_OK /\ Unchecked("query") /\ SetQuerying(TRUE)
          /\ UNCHANGED waiting
  /\ UNCHANGED <<filesystem, browser, offset, cached>>

\* A slip: the answer to FileIO::Open is not looked at.
OpenedUnchecked ==
  /\ InCall("open") \/ InCall("stat")
  /\ ~NeedsInitialize /\ waiting[call.d]
  /\ SetWaiting(FALSE)
  /\ Unchecked("query") /\ SetQuerying(TRUE)
  /\ UNCHANGED <<filesystem, browser, offset, cached>>

\* A slip: a file that has been opened is not asked for its size.
OpenedWithoutQuery ==
  /\ InCall("open") \/ InCall("stat")
  /\ ~NeedsInitialize /\ waiting[call.d]
  /\ SetWaiting(FALSE)
  /\ Finish(IF callback = PP_OK THEN 0 ELSE Errno(callback))
  /\ offset' = IF call.op = "open" /\ call.append
               THEN [offset EXCEPT ![call.d] = cached[call.d]] ELSE offset
  /\ UNCHANGED <<filesystem, browser, querying, cached>>

\* ... entered with waiting_: FileIO::Open is done, FileIO::Query follows.  To
\* stat, a path that is not a file is a directory.
Opened ==
  /\ InCall("open") \/ InCall("stat")
  /\ ~NeedsInitialize /\ waiting[call.d]
  /\ SetWaiting(FALSE)
  /\ LET found == call.op = "stat" /\ callback = PP_ERROR_NOTAFILE
     IN  \/ /\ callback # PP_OK
            /\ Finish(IF found THEN 0 ELSE Errno(callback))
            /\ UNCHANGED querying
         \/ callback = PP_OK /\ Unchecked("query") /\ SetQuerying(TRUE)
  /\ UNCHANGED <<filesystem, browser, offset, cached>>

\* ... entered with querying_: an O_APPEND descriptor starts at the end.
Queried ==
  /\ InCall("open") \/ InCall("stat")
  /\ ~NeedsInitialize /\ ~waiting[call.d] /\ querying[call.d]
  /\ SetQuerying(FALSE)
  /\ Finish(IF callback # PP_OK THEN Errno(callback) ELSE 0)
  /\ offset' = IF callback = PP_OK /\ call.op = "open" /\ call.append
               THEN [offset EXCEPT ![call.d] = cached[call.d]] ELSE offset
  /\ UNCHANGED <<filesystem, browser, waiting, cached>>

\* FstatCall, ReadCall and WriteCall: one request each.
AskFile ==
  /\ \/ /\ InCall("fstat") /\ ~waiting[call.d]
        /\ Checked("query", Errno(callback))
     \/ InCall("read") /\ ~waiting[call.d] /\ Checked("read", -1)
     \/ InCall("write") /\ ~waiting[call.d] /\ Checked("write", -1)
  /\ UNCHANGED <<filesystem, browser, querying, offset, cached>>

\* FstatCall's second entry answers 0 whatever Query did.
FstatAnswered ==
  /\ InCall("fstat")
  /\ waiting[call.d]
  /\ SetWaiting(FALSE)
  /\ Finish(0)
  /\ UNCHANGED <<filesystem, browser, querying, offset, cached>>

\* MkDirCall: FileRef::MakeDirectory, and its completion is the answer.
MakeDirectory ==
  /\ InCall("mkdir")
  /\ ~NeedsInitialize
  /\ \/ ~waiting[call.d] /\ Checked("mkdir", -1)
     \/ waiting[call.d] /\ SetWaiting(FALSE) /\ Finish(callback)
  /\ UNCHANGED <<filesystem, browser, querying, offset, cached>>

\* A slip: an error code moves the offset too.
TransferredAddsErrors ==
  /\ InCall("read") \/ InCall("write")
  /\ waiting[call.d]
  /\ SetWaiting(FALSE)
  /\ offset' = [offset EXCEPT ![call.d] = @ + callback]
  /\ cached' = IF call.op = "write"
               THEN [cached EXCEPT ![call.d] = Larger(@, offset'[call.d])]
               ELSE cached
  /\ Finish(callback)
  /\ UNCHANGED <<filesystem, browser, querying>>

\* A slip: waiting_ stays set, and the size in file_info_ as it was.
TransferredKeepsMembers ==
  /\ InCall("read") \/ InCall("write")
  /\ waiting[call.d]
  /\ offset' = [offset EXCEPT ![call.d] = @ + Larger(callback, 0)]
  /\ Finish(callback)
  /\ UNCHANGED <<filesystem, browser, waiting, querying, cached>>

\* Read and written bytes move the offset; a write, even one that failed,
\* raises the size in file_info_ to the offset.
Transferred ==
  /\ InCall("read") \/ InCall("write")
  /\ waiting[call.d]
  /\ SetWaiting(FALSE)
  /\ offset' = [offset EXCEPT ![call.d] = @ + Larger(callback, 0)]
  /\ cached' = IF call.op = "write"
               THEN [cached EXCEPT ![call.d] = Larger(@, offset'[call.d])]
               ELSE cached
  /\ Finish(callback)
  /\ UNCHANGED <<filesystem, browser, querying>>

-----------------------------------------------------------------------------
(* The browser (external).                                                 *)

Fails == callback' = PP_ERROR /\ UNCHANGED <<filesystem, cached, size>>

CompleteInitialize ==
  /\ request = "initialize"
  /\ \/ filesystem' = "open" /\ callback' = PP_OK
     \/ Failures /\ filesystem' = "failed" /\ callback' = PP_ERROR
  /\ UNCHANGED <<cached, size, inflated>>

CompleteOpen ==
  /\ request = "open"
  /\ LET make == call.op = "open" /\ call.creat
         cut  == call.op = "open" /\ call.trunc
     IN  \/ /\ filesystem = "open"
            /\ size >= 0 \/ (size = Missing /\ make)
            /\ size' = IF size < 0 \/ cut THEN 0 ELSE size
            /\ callback' = PP_OK
            /\ UNCHANGED <<filesystem, cached>>
         \/ /\ filesystem = "open" /\ size = Directory
            /\ callback' = PP_ERROR_NOTAFILE
            /\ UNCHANGED <<filesystem, cached, size>>
         \/ /\ \/ Failures \/ filesystem # "open"
               \/ size = Missing /\ ~make
            /\ Fails
  /\ UNCHANGED inflated

\* Query fills in file_info_.
CompleteQuery ==
  /\ request = "query"
  /\ \/ /\ cached' = [cached EXCEPT ![call.d] = size]
        /\ inflated' = inflated \ {call.d}
        /\ callback' = PP_OK
        /\ UNCHANGED <<filesystem, size>>
     \/ Failures /\ Fails /\ UNCHANGED inflated

CompleteRead ==
  /\ request = "read"
  /\ \/ /\ offset[call.d] >= 0
        /\ callback' = Smaller(call.n, Larger(size - offset[call.d], 0))
        /\ UNCHANGED <<filesystem, cached, size>>
     \/ (Failures \/ offset[call.d] < 0) /\ Fails
  /\ UNCHANGED inflated

\* A write may be short; one that fails leaves the file alone.
CompleteWrite ==
  /\ request = "write"
  /\ \/ /\ offset[call.d] >= 0
        /\ \E n \in {k \in 0..call.n : k > 0 \/ call.n = 0} :
             /\ callback' = n
             /\ size' = IF n = 0 THEN size ELSE Larger(size, offset[call.d] + n)
             /\ inflated' = IF n = 0 /\ offset[call.d] > cached[call.d]
                            THEN inflated \cup {call.d} ELSE inflated
        /\ UNCHANGED <<filesystem, cached>>
     \/ /\ Failures \/ offset[call.d] < 0
        /\ inflated' = IF offset[call.d] > cached[call.d]
                       THEN inflated \cup {call.d} ELSE inflated
        /\ Fails

CompleteMkDir ==
  /\ request = "mkdir"
  /\ \/ /\ filesystem = "open" /\ size = Missing
        /\ size' = Directory /\ callback' = PP_OK
        /\ UNCHANGED <<filesystem, cached>>
     \/ (Failures \/ filesystem # "open" \/ size # Missing) /\ Fails
  /\ UNCHANGED inflated

Complete ==
  /\ \/ CompleteInitialize \/ CompleteOpen \/ CompleteQuery
     \/ CompleteRead \/ CompleteWrite \/ CompleteMkDir
  /\ request' = "none"
  /\ outdated' = IF request = "query" /\ callback' = PP_OK THEN outdated \ {call.d}
                 ELSE IF size' = size THEN outdated
                 ELSE outdated \cup (open \ {call.d})
  /\ UNCHANGED <<call, waiting, querying, offset, open, answer>>

-----------------------------------------------------------------------------

Handle ==
  Initialize \/ OpenFile \/ Opened \/ Queried \/ AskFile \/ FstatAnswered
    \/ Transferred \/ MakeDirectory

Next ==
  \/ \E c \in Calls : Begin(c)
  \/ \E d \in Descs : Close(d) \/ \E by \in -MaxSize..MaxSize : Seek(d, by)
  \/ Handle
  \/ Complete

Spec == Init /\ [][Next]_vars

\* The message loop runs, and the browser completes what it has accepted.
FairSpec == Spec /\ WF_vars(Handle) /\ WF_vars(Complete)

-----------------------------------------------------------------------------
(* Properties.                                                             *)

\* waiting_ and querying_ outlive a call only as FALSE: a flag that is set
\* belongs to the call under way.  Otherwise the next call on the descriptor
\* would take its own first entry for the completion of a request.
FlagsOfTheCall ==
  \A d \in Descs :
    waiting[d] \/ querying[d] =>
      call # NoCall /\ call.d = d /\ ~(waiting[d] /\ querying[d])

Returns(op) == call # NoCall /\ call.op = op /\ call' = NoCall

\* Whatever failed on the way, the initialisation included (its completion is
\* not looked at), open answers 0 only for a file that exists, stat only for a
\* file or a directory, mkdir only when a directory is there.
SuccessIsReal ==
  [][/\ Returns("open") /\ answer' = 0 => size' >= 0
     /\ Returns("stat") /\ answer' = 0 => size' # Missing
     /\ Returns("mkdir") /\ answer' = 0 => size' = Directory]_vars

\* The size fstat and lseek(SEEK_END) use is the file's, between calls, for every
\* descriptor but those of a file whose size another descriptor has changed
\* since: file_info_ is never read as the constructor left it, and only a failed
\* or empty write beyond the end makes it too large.
CachedSizeExact ==
  call = NoCall =>
    \A d \in open \ outdated :
      IF d \in inflated THEN cached[d] >= size ELSE cached[d] = size

\* open returns a descriptor at the start of the file, or at its end, as it is
\* when open returns, if O_APPEND was given.
OpensAtItsPlace ==
  [][Returns("open") /\ answer' = 0 =>
       offset'[call.d] = IF call.append THEN size' ELSE 0]_vars

\* Every call ends, each chain of requests being finite, unless the browser
\* refuses a Query or the FileSystem::Open: the code does not look at what these
\* return, and the caller waits for a completion that does not come.
CallEnds == call # NoCall ~> call = NoCall \/ request = "lost"
=============================================================================
