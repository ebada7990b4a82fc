--------------------------- MODULE MainThreadCall ---------------------------
(***************************************************************************)
(* The synchronous call that FileSystem::Delegate makes from an            *)
(* application thread to the browser's main thread.                        *)
(*                                                                         *)
(* Delegate::Call builds an Arguments record in its own stack frame, posts *)
(* Proxy(&arguments) to the main thread under the class-wide mutex_ and    *)
(* sleeps ONCE on the class-wide cond_.  Proxy runs the operation on the   *)
(* main thread; an operation that issues an asynchronous PPAPI request     *)
(* sets `chaining' and is entered again, through the delegate's callback_, *)
(* when the request completes.  Only a Proxy that did not chain signals    *)
(* cond_.  A handler that sets `chaining' without looking at what the      *)
(* browser answered leaves nobody to signal when the request is refused.   *)
(*                                                                         *)
(* A pointer to an Arguments record is modelled by the identity of the     *)
(* call whose frame it points to.  A frame dies when its call returns;     *)
(* what a dangling pointer reads is Pointees, below.  The main thread      *)
(* itself never enters Call: every public method returns EIO, -1 or NULL   *)
(* first when IsMainThread(), and changes nothing.                         *)
(***************************************************************************)
EXTENDS Integers, FiniteSets

CONSTANTS
  Threads,    \* application threads
  Delegates,  \* the Delegate objects whose operations they call
  MaxCalls,   \* bound: calls one thread makes
  MaxChain,   \* bound: asynchronous requests one operation chains
  Spurious,   \* may pthread_cond_wait return without a signal?
  Main,       \* the main thread, as an owner of the mutex
  Nobody,     \* the mutex has no owner
  NoCall      \* no frame, or a callback_ that was never assigned

CallId == [thread: Threads, number: 1..MaxCalls, delegate: Delegates]

\* A pp::CompletionCallback(Proxy, arguments) that is queued or outstanding.
\* id names the call that started it, hops the requests chained so far.
Completion == [id: CallId, arguments: CallId, hops: 0..MaxChain]

ASSUME ThreadsAssumption ==
  /\ IsFiniteSet(Threads)
  /\ Main \notin Threads
  /\ Nobody \notin Threads \cup {Main}

ASSUME BoundsAssumption == MaxCalls \in Nat /\ MaxChain \in Nat

ASSUME NoCallAssumption == NoCall \notin CallId

VARIABLES
  pc,        \* where each thread stands in Call
  calls,     \* how many calls each thread has begun
  frame,     \* the live Arguments frame of each thread, or NoCall
  result,    \* has the main thread stored the live frame's final result?
  callback,  \* Delegate::callback_
  mutex,     \* owner of Delegate::mutex_
  queued,    \* completions in the main thread's message loop
  pending,   \* completions of requests the browser is still working on
  running,   \* the completion whose Proxy is about to signal (none or one)
  refused,   \* history: completions chained to a request that was refused
  mainPc     \* where the main thread stands in Proxy

vars == <<pc, calls, frame, result, callback, mutex, queued, pending, running,
          refused, mainPc>>

threadVars  == <<calls, frame, result, callback>>
mainVars    == <<queued, pending, running, refused, mainPc>>

Waiting == {t \in Threads : pc[t] = "waiting"}

\* Threads that sleep, or will before they give the mutex up.
Asleep == {t \in Threads : pc[t] \in {"posted", "waiting"}}

\* Completions that still have to signal.
Outstanding == queued \cup pending \cup running

\* The signals that the sleepers wait for, those included that will never come.
Owed == Outstanding \cup refused

\* The frames a pointer may denote: its own while that lives; afterwards the
\* memory is either as the call left it or the thread's next frame.
Pointees(a) ==
  IF frame[a.thread] = a THEN {a}
  ELSE {a} \cup ({frame[a.thread]} \ {NoCall})

TypeOK ==
  /\ pc \in [Threads -> {"idle", "lock", "locked", "posted", "waiting",
                         "woken", "unlock"}]
  /\ calls \in [Threads -> 0..MaxCalls]
  /\ frame \in [Threads -> CallId \cup {NoCall}]
  /\ result \in [Threads -> BOOLEAN]
  /\ callback \in [Delegates -> CallId \cup {NoCall}]
  /\ mutex \in Threads \cup {Main, Nobody}
  /\ queued \in SUBSET Completion
  /\ pending \in SUBSET Completion
  /\ running \in SUBSET Completion
  /\ refused \in SUBSET Completion
  /\ mainPc \in {"loop", "lock", "signal", "unlock"}

Init ==
  /\ pc = [t \in Threads |-> "idle"]
  /\ calls = [t \in Threads |-> 0]
  /\ frame = [t \in Threads |-> NoCall]
  /\ result = [t \in Threads |-> FALSE]
  /\ callback = [d \in Delegates |-> NoCall]
  /\ mutex = Nobody
  /\ queued = {}
  /\ pending = {}
  /\ running = {}
  /\ refused = {}
  /\ mainPc = "loop"

-----------------------------------------------------------------------------
(* The application threads: Delegate::Open ... CloseDir and Call.          *)

\* A slip: callback_ is not assigned, so a chained request is given an empty
\* completion callback.
CallKeepsOldCallback(t, d) ==
  /\ pc[t] = "idle"
  /\ calls[t] < MaxCalls
  /\ frame' = [frame EXCEPT ![t] = [thread |-> t, number |-> calls[t] + 1,
                                   delegate |-> d]]
  /\ calls' = [calls EXCEPT ![t] = @ + 1]
  /\ result' = [result EXCEPT ![t] = FALSE]
  /\ pc' = [pc EXCEPT ![t] = "lock"]
  /\ UNCHANGED <<callback, mutex, mainVars>>

\* A public method fills its Arguments and enters Call, which assigns
\* callback_ before it takes the mutex.
Call(t, d) ==
  /\ pc[t] = "idle"
  /\ calls[t] < MaxCalls
  /\ LET c == [thread |-> t, number |-> calls[t] + 1, delegate |-> d]
     IN  /\ frame' = [frame EXCEPT ![t] = c]
         /\ callback' = [callback EXCEPT ![d] = c]
  /\ calls' = [calls EXCEPT ![t] = @ + 1]
  /\ result' = [result EXCEPT ![t] = FALSE]
  /\ pc' = [pc EXCEPT ![t] = "lock"]
  /\ UNCHANGED <<mutex, mainVars>>

LockMutex(t) ==
  /\ pc[t] = "lock"
  /\ mutex = Nobody
  /\ mutex' = t
  /\ pc' = [pc EXCEPT ![t] = "locked"]
  /\ UNCHANGED <<threadVars, mainVars>>

CallOnMainThread(t) ==
  /\ pc[t] = "locked"
  /\ queued' = queued \cup {[id |-> frame[t], arguments |-> frame[t],
                             hops |-> 0]}
  /\ pc' = [pc EXCEPT ![t] = "posted"]
  /\ UNCHANGED <<threadVars, mutex, pending, running, refused, mainPc>>

\* A slip: giving the mutex up before waiting, as two steps.
UnlockThenWait(t) ==
  \/ /\ pc[t] = "posted"
     /\ mutex = t
     /\ mutex' = Nobody
     /\ UNCHANGED <<pc, threadVars, mainVars>>
  \/ /\ pc[t] = "posted"
     /\ mutex # t
     /\ pc' = [pc EXCEPT ![t] = "waiting"]
     /\ UNCHANGED <<threadVars, mutex, mainVars>>

CondWait(t) ==
  /\ pc[t] = "posted"
  /\ mutex' = Nobody
  /\ pc' = [pc EXCEPT ![t] = "waiting"]
  /\ UNCHANGED <<threadVars, mainVars>>

\* POSIX lets pthread_cond_wait return without a signal; Call has no loop.
SpuriousWake(t) ==
  /\ Spurious
  /\ pc[t] = "waiting"
  /\ pc' = [pc EXCEPT ![t] = "woken"]
  /\ UNCHANGED <<threadVars, mutex, mainVars>>

Reacquire(t) ==
  /\ pc[t] = "woken"
  /\ mutex = Nobody
  /\ mutex' = t
  /\ pc' = [pc EXCEPT ![t] = "unlock"]
  /\ UNCHANGED <<threadVars, mainVars>>

\* pthread_mutex_unlock, then the public method reads arguments.result and
\* returns: its frame is gone.
Return(t) ==
  /\ pc[t] = "unlock"
  /\ mutex' = Nobody
  /\ frame' = [frame EXCEPT ![t] = NoCall]
  /\ pc' = [pc EXCEPT ![t] = "idle"]
  /\ UNCHANGED <<calls, result, callback, mainVars>>

-----------------------------------------------------------------------------
(* The main thread: Proxy and Switch, and the browser behind them.         *)

\* The browser finishes an asynchronous request: its completion is queued.
BrowserCompletes(r) ==
  /\ r \in pending
  /\ pending' = pending \ {r}
  /\ queued' = queued \cup {r}
  /\ UNCHANGED <<pc, threadVars, mutex, running, refused, mainPc>>

\* Proxy enters Switch, the operation ends and its result is stored.
SwitchFinishes(r) ==
  /\ mainPc = "loop"
  /\ r \in queued
  /\ queued' = queued \ {r}
  /\ running' = {r}
  /\ \E a \in Pointees(r.arguments) :
       result' = [result EXCEPT ![a.thread] = @ \/ frame[a.thread] = a]
  /\ mainPc' = "lock"
  /\ UNCHANGED <<pc, calls, frame, callback, mutex, pending, refused>>

\* A slip: an operation that starts a request but leaves chaining unset.
StartsWithoutChaining(r) ==
  /\ mainPc = "loop"
  /\ r \in queued
  /\ r.hops < MaxChain
  /\ queued' = queued \ {r}
  /\ pending' = pending \cup {[r EXCEPT !.hops = @ + 1]}
  /\ running' = {r}
  /\ mainPc' = "lock"
  /\ UNCHANGED <<pc, threadVars, mutex, refused>>

\* Proxy enters Switch and the operation starts a PPAPI request, which is
\* given the delegate's callback_ as it is now.  Chaining: no signal.
SwitchChains(r) ==
  /\ mainPc = "loop"
  /\ r \in queued
  /\ r.hops < MaxChain
  /\ queued' = queued \ {r}
  /\ \E a \in Pointees(r.arguments) :
       pending' = pending \cup {[id |-> r.id,
                                 arguments |-> callback[a.delegate],
                                 hops |-> r.hops + 1]}
  /\ UNCHANGED <<pc, threadVars, mutex, running, refused, mainPc>>

\* The request is refused and will have no completion, but the operation does not
\* look and sets chaining all the same: no signal now, and none later.
SwitchRefused(r) ==
  /\ mainPc = "loop"
  /\ r \in queued
  /\ r.hops < MaxChain
  /\ queued' = queued \ {r}
  /\ refused' = refused \cup {r}
  /\ UNCHANGED <<pc, threadVars, mutex, pending, running, mainPc>>

\* A slip: Proxy signals without taking the mutex.
SignalUnlocked ==
  /\ mainPc = "lock"
  /\ mainPc' = "signal"
  /\ UNCHANGED <<pc, threadVars, mutex, queued, pending, running, refused>>

ProxyLock ==
  /\ mainPc = "lock"
  /\ mutex = Nobody
  /\ mutex' = Main
  /\ mainPc' = "signal"
  /\ UNCHANGED <<pc, threadVars, queued, pending, running, refused>>

\* pthread_cond_signal wakes one sleeper, whichever, or nobody.
ProxySignal ==
  /\ mainPc = "signal"
  /\ \/ Waiting = {} /\ UNCHANGED pc
     \/ \E t \in Waiting : pc' = [pc EXCEPT ![t] = "woken"]
  /\ running' = {}
  /\ mainPc' = "unlock"
  /\ UNCHANGED <<threadVars, mutex, queued, pending, refused>>

ProxyUnlock ==
  /\ mainPc = "unlock"
  /\ mutex' = Nobody
  /\ mainPc' = "loop"
  /\ UNCHANGED <<pc, threadVars, queued, pending, running, refused>>

-----------------------------------------------------------------------------

ThreadStep(t) ==
  LockMutex(t) \/ CallOnMainThread(t) \/ CondWait(t) \/ Reacquire(t) \/ Return(t)

MainStep ==
  \/ \E r \in queued : SwitchFinishes(r) \/ SwitchChains(r) \/ SwitchRefused(r)
  \/ ProxyLock \/ ProxySignal \/ ProxyUnlock

\* Every callback has run, and every thread has made its calls or sleeps for good.
Finished ==
  /\ \A t \in Threads : pc[t] = "waiting" \/ (pc[t] = "idle" /\ calls[t] = MaxCalls)
  /\ Cardinality(Waiting) <= Cardinality(refused)
  /\ Outstanding = {}
  /\ mainPc = "loop"
  /\ UNCHANGED vars

Next ==
  \/ \E t \in Threads : ThreadStep(t) \/ SpuriousWake(t)
  \/ \E t \in Threads, d \in Delegates : Call(t, d)
  \/ \E r \in pending : BrowserCompletes(r)
  \/ MainStep
  \/ Finished

\* A thread inside Call is scheduled, the message loop runs, and the browser
\* answers every request it accepted; nothing obliges a thread to call.
Fairness ==
  /\ \A t \in Threads : WF_vars(ThreadStep(t))
  /\ WF_vars(MainStep)
  /\ WF_vars(\E r \in pending : BrowserCompletes(r))

Spec == Init /\ [][Next]_vars

FairSpec == Spec /\ Fairness

-----------------------------------------------------------------------------
(* Properties.                                                             *)

\* Delegate::Call returns arguments.result, so a thread that has been woken
\* must find its own result stored: cond_ is shared by every delegate and is
\* waited on once, so this rests on there being one caller and no spurious
\* wake-up.
WokenWithResult ==
  \A t \in Threads : pc[t] \in {"woken", "unlock"} => result[t]

\* Proxy dereferences the Arguments* it is given: no completion, queued or
\* still in the browser, may outlive the stack frame it points into.
ArgumentsAlive ==
  \A r \in Outstanding : frame[r.arguments.thread] = r.arguments

\* Wake-ups are conserved however many threads share cond_: but for one for each
\* request that was refused unseen, no fewer completions are still to signal than
\* threads sleep, even though a thread may be woken for another.
WakeupOwed == Cardinality(Asleep) <= Cardinality(Owed)

\* pthread_cond_signal is never wasted: Proxy locks mutex_ to signal, and
\* Call holds it from posting until it sleeps, so a sleeper is there.
SignalFindsWaiter == mainPc = "signal" => Waiting # {}

\* Every Delegate::Call returns, whichever thread is woken for whom, except that
\* each request refused unseen keeps at most one thread: since each thread makes at
\* most MaxCalls calls, in the end all the others are out of Call for good.
CallReturns ==
  <>[](Cardinality({t \in Threads : pc[t] # "idle"}) <= Cardinality(refused))
=============================================================================
