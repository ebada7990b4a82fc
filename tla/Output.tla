------------------------------- MODULE Output -------------------------------
(***************************************************************************)
(* Standard output and error: PortFileSystem::Write sends the bytes to the *)
(* page with NaClFs::PostMessage, and naclfs.js shows them line by line.   *)
(*                                                                         *)
(* PostMessage crosses to the main thread the way Delegate::Call does, on  *)
(* a mutex_ and cond_ of NaClFs: it posts a pointer to the caller's        *)
(* message and sleeps once.  The main thread posts its own messages at     *)
(* once.  A message is a pointer into the frame of the write that made it; *)
(* when that has returned, what the main thread posts may be anything.     *)
(***************************************************************************)
EXTENDS Integers, FiniteSets, Sequences, SequencesExt

CONSTANTS
  Threads,    \* application threads
  Main,       \* the main thread
  Nobody,     \* the mutex has no owner
  Ports, Letters, Newline,
  Messages,   \* what is written: some bytes to a port
  MaxWrites,  \* bound: writes that each thread, and Main, makes
  NoMessage

Chunks == {m.bytes : m \in Messages}

ASSUME ThreadsAssumption == Main \notin Threads /\ Nobody \notin Threads \cup {Main}
ASSUME NewlineAssumption == Newline \notin Letters
ASSUME MessagesAssumption ==
  /\ Messages \subseteq [port: Ports, bytes: Seq(Letters \cup {Newline})]
  /\ NoMessage \notin Messages
ASSUME BoundsAssumption == MaxWrites \in [Threads \cup {Main} -> Nat]

VARIABLES
  pc,        \* where each thread stands in PostMessage
  message,   \* the message in its frame, or NoMessage
  writes,    \* how many writes each thread, and Main, has begun
  posted,    \* how many of them have been given to the browser
  mutex,     \* owner of NaClFs::mutex_
  queued,    \* callbacks in the main thread's message loop
  mainPc,    \* where it stands in PostMessageFromMainThread
  channel,   \* messages on their way to the page, in order
  buffer,    \* _out_buffer and _err_buffer
  printed,   \* the lines the page has shown
  accepted,  \* history: the characters given to the browser
  disturbed  \* history: has a write overlapped another, or woken unasked?

vars == <<pc, message, writes, posted, mutex, queued, mainPc, channel, buffer,
          printed, accepted, disturbed>>

page == <<buffer, printed>>
browser == <<posted, channel, accepted>>

Console == INSTANCE LineConsole

\* The buffers hold the beginning of a line, never a newline.
TypeOK ==
  /\ pc \in [Threads -> {"idle", "lock", "locked", "queued", "waiting", "woken",
                         "unlock"}]
  /\ message \in [Threads -> Messages \cup {NoMessage}]
  /\ writes \in [Threads \cup {Main} -> Nat]
  /\ \A t \in Threads \cup {Main} : writes[t] <= MaxWrites[t]
  /\ posted \in [Threads -> Nat]
  /\ mutex \in Threads \cup {Main, Nobody}
  /\ queued \subseteq [thread: Threads, number: Nat]
  /\ mainPc \in {"loop", "lock", "signal", "unlock"}
  /\ channel \in Seq(Messages)
  /\ buffer \in [Ports -> Seq(Letters)]
  /\ printed \in [Ports -> Seq(Seq(Letters))]
  /\ accepted \in [Ports -> Seq(Letters \cup {Newline})]
  /\ disturbed \in BOOLEAN

Init ==
  /\ pc = [t \in Threads |-> "idle"]
  /\ message = [t \in Threads |-> NoMessage]
  /\ writes = [t \in Threads \cup {Main} |-> 0]
  /\ posted = [t \in Threads |-> 0]
  /\ mutex = Nobody
  /\ queued = {}
  /\ mainPc = "loop"
  /\ channel = <<>>
  /\ buffer = [p \in Ports |-> <<>>]
  /\ printed = [p \in Ports |-> <<>>]
  /\ accepted = [p \in Ports |-> <<>>]
  /\ disturbed = FALSE

\* pp::Instance::PostMessage.
Send(m) ==
  /\ channel' = Append(channel, m)
  /\ accepted' = [accepted EXCEPT ![m.port] = @ \o m.bytes]

-----------------------------------------------------------------------------
(* The application threads.                                                *)

Write(t, m) ==
  /\ pc[t] = "idle"
  /\ writes[t] < MaxWrites[t]
  /\ writes' = [writes EXCEPT ![t] = @ + 1]
  /\ message' = [message EXCEPT ![t] = m]
  /\ pc' = [pc EXCEPT ![t] = "lock"]
  /\ disturbed' = (disturbed \/ \E u \in Threads : pc[u] # "idle")
  /\ UNCHANGED <<mutex, queued, mainPc, browser, page>>

LockMutex(t) ==
  /\ pc[t] = "lock"
  /\ mutex = Nobody
  /\ mutex' = t
  /\ pc' = [pc EXCEPT ![t] = "locked"]
  /\ UNCHANGED <<message, writes, queued, mainPc, browser, page, disturbed>>

CallOnMainThread(t) ==
  /\ pc[t] = "locked"
  /\ queued' = queued \cup {[thread |-> t, number |-> writes[t]]}
  /\ pc' = [pc EXCEPT ![t] = "queued"]
  /\ UNCHANGED <<message, writes, mutex, mainPc, browser, page, disturbed>>

\* A slip: the write does not wait for its message to be posted.
DoesNotWait(t) ==
  /\ pc[t] = "queued"
  /\ pc' = [pc EXCEPT ![t] = "unlock"]
  /\ UNCHANGED <<message, writes, mutex, queued, mainPc, browser, page, disturbed>>

CondWait(t) ==
  /\ pc[t] = "queued"
  /\ mutex' = Nobody
  /\ pc' = [pc EXCEPT ![t] = "waiting"]
  /\ UNCHANGED <<message, writes, queued, mainPc, browser, page, disturbed>>

\* POSIX lets pthread_cond_wait return without a signal.
SpuriousWake(t) ==
  /\ pc[t] = "waiting"
  /\ pc' = [pc EXCEPT ![t] = "woken"]
  /\ disturbed' = TRUE
  /\ UNCHANGED <<message, writes, mutex, queued, mainPc, browser, page>>

Reacquire(t) ==
  /\ pc[t] = "woken"
  /\ mutex = Nobody
  /\ mutex' = t
  /\ pc' = [pc EXCEPT ![t] = "unlock"]
  /\ UNCHANGED <<message, writes, queued, mainPc, browser, page, disturbed>>

\* The mutex is unlocked, the write returns nbytes and its message dies.
Return(t) ==
  /\ pc[t] = "unlock"
  /\ mutex' = Nobody
  /\ message' = [message EXCEPT ![t] = NoMessage]
  /\ pc' = [pc EXCEPT ![t] = "idle"]
  /\ UNCHANGED <<writes, queued, mainPc, browser, page, disturbed>>

-----------------------------------------------------------------------------
(* The main thread.                                                        *)

\* On the main thread PostMessage posts without more ado.
MainWrites(m) ==
  /\ mainPc = "loop"
  /\ writes[Main] < MaxWrites[Main]
  /\ writes' = [writes EXCEPT ![Main] = @ + 1]
  /\ Send(m)
  /\ UNCHANGED <<pc, message, posted, mutex, queued, mainPc, page, disturbed>>

Alive(r) == message[r.thread] # NoMessage /\ writes[r.thread] = r.number

\* PostMessageFromMainThread: the message first, then the signal.
PostFromMainThread(r) ==
  /\ mainPc = "loop"
  /\ queued' = queued \ {r}
  /\ IF Alive(r) THEN Send(message[r.thread]) ELSE \E m \in Messages : Send(m)
  /\ posted' = [posted EXCEPT ![r.thread] = @ + 1]
  /\ mainPc' = "lock"
  /\ UNCHANGED <<pc, message, writes, mutex, page, disturbed>>

\* A slip: signalling without the mutex.
SignalUnlocked ==
  /\ mainPc = "lock"
  /\ mainPc' = "signal"
  /\ UNCHANGED <<pc, message, writes, mutex, queued, browser, page, disturbed>>

LockToSignal ==
  /\ mainPc = "lock"
  /\ mutex = Nobody
  /\ mutex' = Main
  /\ mainPc' = "signal"
  /\ UNCHANGED <<pc, message, writes, queued, browser, page, disturbed>>

Signal ==
  /\ mainPc = "signal"
  /\ LET waiting == {t \in Threads : pc[t] = "waiting"}
     IN  \/ waiting = {} /\ UNCHANGED pc
         \/ \E t \in waiting : pc' = [pc EXCEPT ![t] = "woken"]
  /\ mainPc' = "unlock"
  /\ UNCHANGED <<message, writes, mutex, queued, browser, page, disturbed>>

Unlock ==
  /\ mainPc = "unlock"
  /\ mutex' = Nobody
  /\ mainPc' = "loop"
  /\ UNCHANGED <<pc, message, writes, queued, browser, page, disturbed>>

-----------------------------------------------------------------------------
(* The page, in naclfs.js.                                                 *)

Incoming == Head(channel)

\* The buffer of the message's port, with its text appended and split.
Parts == Console!Split(buffer[Incoming.port] \o Incoming.bytes)

\* The lines are shown and rest becomes the buffer.
Handle(lines, rest) ==
  /\ printed' = [printed EXCEPT ![Incoming.port] = @ \o lines]
  /\ buffer' = [buffer EXCEPT ![Incoming.port] = rest]
  /\ channel' = Tail(channel)
  /\ UNCHANGED <<pc, message, writes, posted, mutex, queued, mainPc, accepted,
                 disturbed>>

\* Slips: the text stays in the buffer although its lines are shown; the loop
\* over the lines ends one too early; every port uses one buffer, as a copied
\* appendStdErr might.
ShowsAgain ==
  channel # <<>> /\ Handle(Parts.lines, buffer[Incoming.port] \o Incoming.bytes)
StopsShort ==
  channel # <<>> /\ IF Parts.lines = <<>> THEN Handle(<<>>, Parts.rest)
                    ELSE Handle(Front(Parts.lines), Last(Parts.lines))
MixesPorts ==
  /\ channel # <<>>
  /\ LET one == CHOOSE p \in Ports : TRUE
         parts == Console!Split(buffer[one] \o Incoming.bytes)
     IN  /\ printed' = [printed EXCEPT ![Incoming.port] = @ \o parts.lines]
         /\ buffer' = [buffer EXCEPT ![one] = parts.rest]
  /\ channel' = Tail(channel)
  /\ UNCHANGED <<pc, message, writes, posted, mutex, queued, mainPc, accepted,
                 disturbed>>

\* handleMessage, which calls appendStdOut or appendStdErr.
HandleMessage == channel # <<>> /\ Handle(Parts.lines, Parts.rest)

-----------------------------------------------------------------------------

ThreadStep(t) ==
  LockMutex(t) \/ CallOnMainThread(t) \/ CondWait(t) \/ Reacquire(t) \/ Return(t)

MainStep ==
  (\E r \in queued : PostFromMainThread(r)) \/ LockToSignal \/ Signal \/ Unlock

\* Everything has been written and shown.
Finished ==
  /\ \A t \in Threads : pc[t] = "idle"
  /\ writes = MaxWrites
  /\ queued = {} /\ mainPc = "loop" /\ channel = <<>>
  /\ UNCHANGED vars

Next ==
  \/ \E t \in Threads : ThreadStep(t) \/ SpuriousWake(t)
  \/ \E t \in Threads, m \in Messages : Write(t, m)
  \/ \E m \in Messages : MainWrites(m)
  \/ MainStep
  \/ HandleMessage
  \/ Finished

Spec == Init /\ [][Next]_vars

\* Both threads are scheduled and the page's event loop runs.
FairSpec ==
  /\ Spec
  /\ \A t \in Threads : WF_vars(ThreadStep(t))
  /\ WF_vars(MainStep)
  /\ WF_vars(HandleMessage)

-----------------------------------------------------------------------------
(* Properties.                                                             *)

\* As long as writes come one at a time, a write that is about to return has given
\* its bytes to the browser, so what a thread writes is seen in that order.
SentBeforeReturn ==
  ~disturbed =>
    \A t \in Threads : pc[t] \in {"woken", "unlock"} => posted[t] = writes[t]

\* As long as writes come one at a time, the message the main thread
\* dereferences is alive.
MessageAlive == ~disturbed => \A r \in queued : Alive(r)

\* The page shows the lines of what the browser was given for a port, each once and
\* in order, however messages cut them and ports take turns.
InLines == Console!Spec

\* Every write returns, even of threads that wake each other; MaxWrites bounds
\* the writes, so in the end no thread is in PostMessage.
WriteReturns == <>[](\A t \in Threads : pc[t] = "idle")

\* When nothing more is written (MaxWrites ends the writing), the page comes to
\* show every line that was sent, and nothing is left on the way.
LinesShown ==
  <>[](\A p \in Ports : printed[p] = Console!Split(accepted[p]).lines)
=============================================================================
