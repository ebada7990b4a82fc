---------------------------- MODULE OutputProofs ----------------------------
(***************************************************************************)
(* Theorems about Output, for any number of threads, ports and messages:   *)
(* first the crossing to the main thread, then the page.  That splitting   *)
(* may be interrupted anywhere (SplitConcat) takes induction over what was *)
(* sent; with a history of what has been sent (PageInv) it shows that      *)
(* Output implements LineConsole.                                          *)
(***************************************************************************)
EXTENDS Output, FiniteSetTheorems, SequenceTheorems, WellFoundedInduction, TLAPS

Awaiting == {"queued", "waiting"}

\* The types of what the crossing uses.
Types ==
  /\ pc \in [Threads -> {"idle", "lock", "locked", "queued", "waiting", "woken", "unlock"}]
  /\ message \in [Threads -> Messages \cup {NoMessage}]
  /\ writes \in [Threads \cup {Main} -> Nat]
  /\ posted \in [Threads -> Nat]
  /\ mutex \in Threads \cup {Main, Nobody}
  /\ queued \subseteq [thread: Threads, number: Nat]
  /\ mainPc \in {"loop", "lock", "signal", "unlock"}

\* What the mutex keeps apart.
MutexInv ==
  /\ \A t \in Threads : pc[t] \in {"locked", "queued", "unlock"} <=> mutex = t
  /\ mainPc \in {"signal", "unlock"} <=> mutex = Main

(***************************************************************************)
(* As long as writes come one at a time: the callback of a write is in the *)
(* message loop, or has posted and is about to signal, exactly while its   *)
(* thread waits for it.                                                    *)
(***************************************************************************)
Crossing(t) ==
  /\ pc[t] # "idle" => message[t] # NoMessage /\ \A u \in Threads \ {t} : pc[u] = "idle"
  /\ pc[t] \in {"idle", "woken", "unlock"} => posted[t] = writes[t]
  /\ pc[t] \in {"lock", "locked"} => posted[t] + 1 = writes[t]
  /\ pc[t] \in Awaiting =>
       posted[t] + (IF mainPc \in {"lock", "signal"} THEN 0 ELSE 1) = writes[t]

QueuedInv ==
  \A r \in queued :
    /\ pc[r.thread] \in Awaiting /\ r.number = writes[r.thread]
    /\ mainPc \notin {"lock", "signal"}

MainInv == mainPc \in {"lock", "signal"} => \E t \in Threads : pc[t] \in Awaiting

Inv ==
  /\ Types
  /\ MutexInv
  /\ ~disturbed => QueuedInv /\ MainInv /\ \A t \in Threads : Crossing(t)

LEMMA InvInit == Init => Inv
<1> SUFFICES ASSUME Init PROVE Inv
  OBVIOUS
<1>1. Types
  <2>1. pc \in [Threads -> {"idle", "lock", "locked", "queued", "waiting", "woken", "unlock"}]
    BY DEF Init
  <2>2. message \in [Threads -> Messages \cup {NoMessage}] /\ posted \in [Threads -> Nat]
    BY DEF Init
  <2>3. writes \in [Threads \cup {Main} -> Nat]
    BY DEF Init
  <2> QED BY <2>1, <2>2, <2>3 DEF Init, Types
<1>2. MutexInv
  BY ThreadsAssumption DEF Init, MutexInv
<1>3. QueuedInv /\ MainInv /\ \A t \in Threads : Crossing(t)
  BY DEF Init, QueuedInv, MainInv, Crossing, Awaiting
<1> QED BY <1>1, <1>2, <1>3 DEF Inv

LEMMA InvStep == Inv /\ [Next]_vars => Inv'
<1> SUFFICES ASSUME Inv, [Next]_vars
             PROVE  Inv'
  OBVIOUS
<1> USE ThreadsAssumption DEF Awaiting
<1>1. ASSUME NEW t \in Threads, NEW m \in Messages, Write(t, m)
      PROVE  Inv'
  <2>1. Types'
    BY <1>1, MessagesAssumption DEF Write, browser, Inv, Types
  <2>2. MutexInv'
    BY <1>1 DEF Write, Inv, Types, MutexInv
  <2>3. ASSUME ~disturbed'
        PROVE  QueuedInv' /\ MainInv' /\ \A u \in Threads : Crossing(u)'
    <3>1. ~disturbed /\ \A u \in Threads : pc[u] = "idle"
      BY <1>1, <2>3 DEF Write
    <3>2. queued = {} /\ mainPc \notin {"lock", "signal"}
      BY <3>1 DEF Inv, Types, QueuedInv, MainInv
    <3>3. QueuedInv' /\ MainInv'
      BY <1>1, <3>2 DEF Write, QueuedInv, MainInv
    <3>4. ASSUME NEW u \in Threads
          PROVE  Crossing(u)'
      BY <1>1, <3>1, MessagesAssumption DEF Write, browser, Inv, Types, Crossing
    <3> QED BY <3>3, <3>4
  <2> QED BY <2>1, <2>2, <2>3 DEF Inv
<1>2. ASSUME NEW t \in Threads, LockMutex(t)
      PROVE  Inv'
  BY <1>2 DEF LockMutex, browser, Inv, Types, MutexInv, QueuedInv, MainInv, Crossing
<1>3. ASSUME NEW t \in Threads, CallOnMainThread(t)
      PROVE  Inv'
  <2>1. Types' /\ MutexInv'
    BY <1>3 DEF CallOnMainThread, browser, Inv, Types, MutexInv
  <2>2. ASSUME ~disturbed'
        PROVE  QueuedInv' /\ MainInv' /\ \A u \in Threads : Crossing(u)'
    <3>1. ~disturbed /\ mainPc \notin {"lock", "signal"}
      BY <1>3, <2>2 DEF CallOnMainThread, Inv, MainInv, Crossing
    <3> QED BY <1>3, <3>1 DEF CallOnMainThread, browser, Inv, Types, QueuedInv, MainInv, Crossing
  <2> QED BY <2>1, <2>2 DEF Inv
<1>4. ASSUME NEW t \in Threads, CondWait(t)
      PROVE  Inv'
  BY <1>4 DEF CondWait, browser, Inv, Types, MutexInv, QueuedInv, MainInv, Crossing
<1>5. ASSUME NEW t \in Threads, SpuriousWake(t)
      PROVE  Inv'
  BY <1>5 DEF SpuriousWake, browser, Inv, Types, MutexInv
<1>6. ASSUME NEW t \in Threads, Reacquire(t)
      PROVE  Inv'
  BY <1>6 DEF Reacquire, browser, Inv, Types, MutexInv, QueuedInv, MainInv, Crossing
<1>7. ASSUME NEW t \in Threads, Return(t)
      PROVE  Inv'
  BY <1>7 DEF Return, browser, Inv, Types, MutexInv, QueuedInv, MainInv, Crossing
<1>8. ASSUME NEW m \in Messages, MainWrites(m)
      PROVE  Inv'
  BY <1>8 DEF MainWrites, Send, Inv, Types, MutexInv, QueuedInv, MainInv, Crossing
<1>9. ASSUME NEW r \in queued, PostFromMainThread(r)
      PROVE  Inv'
  <2>1. Types' /\ MutexInv'
    BY <1>9 DEF PostFromMainThread, Inv, Types, MutexInv
  <2>2. ASSUME ~disturbed'
        PROVE  QueuedInv' /\ MainInv' /\ \A u \in Threads : Crossing(u)'
    <3>1. /\ ~disturbed /\ r.thread \in Threads /\ pc[r.thread] \in Awaiting
          /\ r.number = writes[r.thread]
      BY <1>9, <2>2 DEF PostFromMainThread, Inv, Types, QueuedInv
    <3>2. \A q \in queued : q = r
      <4>1. ASSUME NEW q \in queued
            PROVE  q.thread = r.thread /\ q.number = r.number
        BY <3>1 DEF Inv, Types, QueuedInv, Crossing
      <4> QED BY <4>1 DEF Inv, Types
    <3>3. queued' = {}
      BY <1>9, <3>2 DEF PostFromMainThread
    <3> QED BY <1>9, <3>1, <3>3 DEF PostFromMainThread, Inv, Types, QueuedInv, MainInv, Crossing
  <2> QED BY <2>1, <2>2 DEF Inv
<1>10. CASE LockToSignal
  BY <1>10 DEF LockToSignal, browser, Inv, Types, MutexInv, QueuedInv, MainInv, Crossing
<1>11. CASE Signal
  <2>1. Types' /\ MutexInv'
    BY <1>11 DEF Signal, browser, Inv, Types, MutexInv
  <2>2. ASSUME ~disturbed'
        PROVE  QueuedInv' /\ MainInv' /\ \A u \in Threads : Crossing(u)'
    <3>1. ~disturbed /\ mainPc = "signal" /\ mutex = Main
      BY <1>11, <2>2 DEF Signal, Inv, MutexInv
    <3>2. PICK t \in Threads : pc[t] \in Awaiting
      BY <3>1 DEF Inv, MainInv
    <3>3. pc[t] = "waiting" /\ \A u \in Threads \ {t} : pc[u] = "idle"
      BY <3>1, <3>2 DEF Inv, MutexInv, Crossing
    <3>4. pc' = [pc EXCEPT ![t] = "woken"]
      BY <1>11, <3>3 DEF Signal
    <3>5. queued = {}
      BY <3>1 DEF Inv, QueuedInv
    <3> QED BY <1>11, <3>1, <3>3, <3>4, <3>5
            DEF Signal, browser, Inv, Types, QueuedInv, MainInv, Crossing
  <2> QED BY <2>1, <2>2 DEF Inv
<1>12. CASE Unlock
  BY <1>12 DEF Unlock, browser, Inv, Types, MutexInv, QueuedInv, MainInv, Crossing
<1>13. CASE HandleMessage \/ UNCHANGED vars \/ Finished
  <2>1. UNCHANGED <<pc, message, writes, posted, mutex, queued, mainPc, disturbed>>
    BY <1>13 DEF HandleMessage, Handle, Finished, vars
  <2>2. (QueuedInv' <=> QueuedInv) /\ (MainInv' <=> MainInv)
    BY <2>1 DEF QueuedInv, MainInv
  <2>3. \A t \in Threads : Crossing(t)' <=> Crossing(t)
    BY <2>1 DEF Crossing
  <2> QED BY <2>1, <2>2, <2>3 DEF Inv, Types, MutexInv
<1> QED BY <1>1, <1>2, <1>3, <1>4, <1>5, <1>6, <1>7, <1>8, <1>9, <1>10, <1>11, <1>12, <1>13
        DEF Next, ThreadStep, MainStep

LEMMA Invariance == Spec => []Inv
BY InvInit, InvStep, PTL DEF Spec

\* A write that nothing overlaps returns after its own bytes have been sent.
THEOREM SentInTime == Spec => []SentBeforeReturn
<1>1. Inv => SentBeforeReturn
  BY DEF Inv, Crossing, SentBeforeReturn
<1> QED BY <1>1, Invariance, PTL

\* The message pointer the main thread follows is alive, as long as writes come one
\* at a time and none wakes unasked.
THEOREM MessageNotDangling == Spec => []MessageAlive
<1>1. Inv => MessageAlive
  BY DEF Inv, Types, QueuedInv, Crossing, Awaiting, MessageAlive, Alive
<1> QED BY <1>1, Invariance, PTL

\* What leaves the main thread's message loop is the message of the write that waits
\* for it, and the last that its thread has begun.
SendsIt ==
  ~disturbed =>
    \A r \in queued \ queued' :
      LET m == message[r.thread]
      IN  /\ m # NoMessage
          /\ accepted' = [accepted EXCEPT ![m.port] = @ \o m.bytes]
          /\ posted'[r.thread] = writes[r.thread]

\* As long as writes come one at a time, what the browser is given for a write is
\* what was written, to its port, after all that the thread wrote before.
THEOREM SendsWhatWasWritten == Spec => [][SendsIt]_vars
<1>1. Inv /\ [Next]_vars => SendsIt
  <2> SUFFICES ASSUME Inv, [Next]_vars, ~disturbed, NEW r \in queued, r \notin queued'
               PROVE  LET m == message[r.thread]
                      IN  /\ m # NoMessage
                          /\ accepted' = [accepted EXCEPT ![m.port] = @ \o m.bytes]
                          /\ posted'[r.thread] = writes[r.thread]
    BY DEF SendsIt
  <2>1. PostFromMainThread(r)
    <3>1. \E q \in queued : PostFromMainThread(q)
      BY DEF Next, ThreadStep, MainStep, Write, LockMutex, CallOnMainThread, CondWait,
             SpuriousWake, Reacquire, Return, MainWrites, LockToSignal, Signal, Unlock,
             HandleMessage, Handle, Finished, vars
    <3> QED BY <3>1 DEF PostFromMainThread
  <2>2. /\ r.thread \in Threads /\ pc[r.thread] \in Awaiting
        /\ r.number = writes[r.thread]
    BY DEF Inv, Types, QueuedInv
  <2>3. message[r.thread] # NoMessage /\ posted[r.thread] + 1 = writes[r.thread]
    BY <2>1, <2>2 DEF PostFromMainThread, Inv, Crossing, Awaiting
  <2>4. accepted' = [accepted EXCEPT ![message[r.thread].port] = @ \o message[r.thread].bytes]
    BY <2>1, <2>2, <2>3 DEF PostFromMainThread, Alive, Send
  <2>5. posted'[r.thread] = posted[r.thread] + 1
    BY <2>1, <2>2 DEF PostFromMainThread, Inv, Types
  <2> QED BY <2>3, <2>4, <2>5
<1> QED BY <1>1, Invariance, PTL DEF Spec

-----------------------------------------------------------------------------
(***************************************************************************)
(* Sleepers and the callbacks that will signal, with writes overlapping as *)
(* they please.  A write queues one callback of its own and sleeps once;   *)
(* a callback that outlives its write, which woke for another, is of an    *)
(* earlier number than any callback the thread queues after it.            *)
(***************************************************************************)
Sleeping == {t \in Threads : pc[t] \in {"queued", "waiting"}}

SignalDue == mainPc \in {"lock", "signal"}

\* However writes overlap and whichever thread a signal wakes, each one that sleeps
\* in PostMessage is owed a signal by a callback that has yet to give it.
WakeupOwed == Cardinality(Sleeping) <= Cardinality(queued) + (IF SignalDue THEN 1 ELSE 0)

Numbered ==
  \A r \in queued :
    /\ r.number <= writes[r.thread]
    /\ pc[r.thread] \in {"lock", "locked"} => r.number < writes[r.thread]

WakeInv == IsFiniteSet(queued) /\ IsFiniteSet(Sleeping) /\ Numbered /\ WakeupOwed

LEMMA WakeInvInit == Init => WakeInv
<1> SUFFICES ASSUME Init PROVE WakeInv
  OBVIOUS
<1>1. queued = {} /\ Sleeping = {}
  BY DEF Init, Sleeping
<1> QED BY <1>1, FS_EmptySet DEF Init, SignalDue, WakeInv, Numbered, WakeupOwed

\* Steps that neither queue, signal nor wake.
LEMMA WakeInvKept ==
  ASSUME WakeInv, UNCHANGED queued, Sleeping' = Sleeping, SignalDue' = SignalDue, Numbered'
  PROVE  WakeInv'
BY DEF WakeInv, WakeupOwed

LEMMA WakeInvStep == Inv /\ WakeInv /\ [Next]_vars => WakeInv'
<1> SUFFICES ASSUME Inv, WakeInv, [Next]_vars
             PROVE  WakeInv'
  OBVIOUS
<1>0. /\ Cardinality(queued) \in Nat /\ Cardinality(Sleeping) \in Nat
      /\ \A r \in queued : r.thread \in Threads /\ r.number \in Nat
  BY FS_CardinalityType DEF WakeInv, Inv, Types
<1>1. ASSUME NEW t \in Threads, NEW m \in Messages, Write(t, m)
      PROVE  WakeInv'
  <2>1. Sleeping' = Sleeping /\ SignalDue' = SignalDue /\ UNCHANGED queued
    BY <1>1 DEF Write, Sleeping, SignalDue, Inv, Types
  <2>2. Numbered'
    BY <1>0, <1>1, ThreadsAssumption DEF Write, WakeInv, Numbered, Inv, Types
  <2> QED BY <2>1, <2>2, WakeInvKept
<1>2. ASSUME NEW t \in Threads, LockMutex(t) \/ CondWait(t) \/ Reacquire(t) \/ Return(t)
      PROVE  WakeInv'
  <2>1. Sleeping' = Sleeping /\ SignalDue' = SignalDue /\ UNCHANGED queued
    BY <1>2, ThreadsAssumption
       DEF LockMutex, CondWait, Reacquire, Return, Sleeping, SignalDue, Inv, Types, MutexInv
  <2>2. Numbered'
    BY <1>0, <1>2 DEF LockMutex, CondWait, Reacquire, Return, WakeInv, Numbered, Inv, Types
  <2> QED BY <2>1, <2>2, WakeInvKept
<1>3. ASSUME NEW t \in Threads, CallOnMainThread(t)
      PROVE  WakeInv'
  <2> DEFINE r == [thread |-> t, number |-> writes[t]]
  <2>1. queued' = queued \cup {r} /\ r \notin queued
    BY <1>3 DEF CallOnMainThread, WakeInv, Numbered, Inv, Types
  <2>2. Sleeping' = Sleeping \cup {t} /\ t \notin Sleeping /\ SignalDue' = SignalDue
    BY <1>3 DEF CallOnMainThread, Sleeping, SignalDue, Inv, Types
  <2>3. Numbered'
    BY <1>0, <1>3 DEF CallOnMainThread, WakeInv, Numbered, Inv, Types
  <2> HIDE DEF r
  <2>4. IsFiniteSet(queued') /\ Cardinality(queued') = Cardinality(queued) + 1
    BY <2>1, FS_AddElement DEF WakeInv
  <2>5. IsFiniteSet(Sleeping') /\ Cardinality(Sleeping') = Cardinality(Sleeping) + 1
    BY <2>2, FS_AddElement DEF WakeInv
  <2>6. WakeupOwed'
    BY <1>0, <2>2, <2>4, <2>5 DEF WakeInv, WakeupOwed
  <2> QED BY <2>3, <2>4, <2>5, <2>6 DEF WakeInv
<1>4. ASSUME NEW t \in Threads, SpuriousWake(t)
      PROVE  WakeInv'
  <2>1. Sleeping' = Sleeping \ {t} /\ t \in Sleeping /\ SignalDue' = SignalDue /\ queued' = queued
    BY <1>4 DEF SpuriousWake, Sleeping, SignalDue, Inv, Types
  <2>2. IsFiniteSet(Sleeping') /\ Cardinality(Sleeping') = Cardinality(Sleeping) - 1
    BY <2>1, FS_RemoveElement DEF WakeInv
  <2>3. Numbered'
    BY <1>4 DEF SpuriousWake, WakeInv, Numbered, Inv, Types
  <2>4. WakeupOwed'
    BY <1>0, <2>1, <2>2 DEF WakeInv, WakeupOwed
  <2> QED BY <2>1, <2>2, <2>3, <2>4 DEF WakeInv
<1>5. ASSUME NEW m \in Messages, MainWrites(m)
      PROVE  WakeInv'
  <2>1. Sleeping' = Sleeping /\ SignalDue' = SignalDue /\ UNCHANGED queued
    BY <1>5 DEF MainWrites, Sleeping, SignalDue
  <2>2. Numbered'
    BY <1>0, <1>5, ThreadsAssumption DEF MainWrites, WakeInv, Numbered, Inv, Types
  <2> QED BY <2>1, <2>2, WakeInvKept
<1>6. ASSUME NEW r \in queued, PostFromMainThread(r)
      PROVE  WakeInv'
  <2>1. queued' = queued \ {r} /\ Sleeping' = Sleeping /\ ~SignalDue /\ SignalDue'
    BY <1>6 DEF PostFromMainThread, Sleeping, SignalDue
  <2>2. IsFiniteSet(queued') /\ Cardinality(queued') = Cardinality(queued) - 1
    BY <2>1, FS_RemoveElement DEF WakeInv
  <2>3. Numbered'
    BY <1>6 DEF PostFromMainThread, WakeInv, Numbered
  <2>4. WakeupOwed'
    BY <1>0, <2>1, <2>2 DEF WakeInv, WakeupOwed
  <2> QED BY <2>1, <2>2, <2>3, <2>4 DEF WakeInv
<1>7. CASE Signal
  <2> DEFINE waiting == {t \in Threads : pc[t] = "waiting"}
  <2>1. /\ mutex = Main /\ Sleeping = waiting /\ queued' = queued
        /\ SignalDue /\ ~SignalDue'
    BY <1>7, ThreadsAssumption DEF Signal, Sleeping, SignalDue, Inv, MutexInv
  <2>2. Numbered'
    BY <1>7 DEF Signal, WakeInv, Numbered, Inv, Types
  <2>3. CASE waiting = {} /\ UNCHANGED pc
    <3>1. Sleeping' = {} /\ IsFiniteSet(Sleeping') /\ Cardinality(Sleeping') = 0
      BY <2>1, <2>3, FS_EmptySet DEF Sleeping
    <3>2. WakeupOwed'
      BY <1>0, <2>1, <3>1 DEF WakeupOwed
    <3> QED BY <2>1, <2>2, <3>1, <3>2 DEF WakeInv
  <2>4. ASSUME NEW t \in waiting, pc' = [pc EXCEPT ![t] = "woken"]
        PROVE  WakeInv'
    <3>1. Sleeping' = Sleeping \ {t} /\ t \in Sleeping
      BY <2>1, <2>4 DEF Sleeping, Inv, Types
    <3>2. IsFiniteSet(Sleeping') /\ Cardinality(Sleeping') = Cardinality(Sleeping) - 1
      BY <3>1, FS_RemoveElement DEF WakeInv
    <3>3. WakeupOwed'
      BY <1>0, <2>1, <3>2 DEF WakeInv, WakeupOwed
    <3> QED BY <2>1, <2>2, <3>2, <3>3 DEF WakeInv
  <2> QED BY <1>7, <2>3, <2>4 DEF Signal
<1>8. CASE LockToSignal \/ Unlock \/ HandleMessage \/ Finished \/ UNCHANGED vars
  <2>1. Sleeping' = Sleeping /\ SignalDue' = SignalDue /\ UNCHANGED queued
    <3>1. CASE LockToSignal \/ Unlock
      BY <3>1 DEF LockToSignal, Unlock, Sleeping, SignalDue
    <3>2. CASE HandleMessage \/ Finished \/ UNCHANGED vars
      BY <3>2 DEF HandleMessage, Handle, Finished, vars, Sleeping, SignalDue
    <3> QED BY <1>8, <3>1, <3>2
  <2>2. Numbered'
    BY <1>8 DEF LockToSignal, Unlock, HandleMessage, Handle, Finished, vars, WakeInv, Numbered
  <2> QED BY <2>1, <2>2, WakeInvKept
<1> QED BY <1>1, <1>2, <1>3, <1>4, <1>5, <1>6, <1>7, <1>8 DEF Next, ThreadStep, MainStep

\* No thread sleeps in PostMessage without a callback left that will signal, however
\* many write at once and whoever is woken for whom.
THEOREM WakeupsConserved == Spec => []WakeupOwed
<1>1. WakeInv => WakeupOwed
  BY DEF WakeInv
<1> QED BY <1>1, WakeInvInit, WakeInvStep, Invariance, PTL DEF Spec

-----------------------------------------------------------------------------
(* Induction and recursive functions.                                      *)

\* A set of numbers has a least one.
LEMMA Least ==
  ASSUME NEW T \in SUBSET Nat, T # {}
  PROVE  \E x \in T : \A y \in T : ~(y < x)
<1> DEFINE R == OpToRel(<, Nat)
<1>1. IsWellFoundedOn(R, Nat)
  BY NatLessThanWellFounded
<1>2. PICK x \in T : \A y \in T : ~(<<y, x>> \in R)
  <2> HIDE DEF R
  <2> QED BY <1>1, WFMin
<1>3. \A y \in T : ~(y < x)
  BY <1>2 DEF OpToRel
<1> QED BY <1>3

\* The numbers up to N, by induction over a set instead of an operator.
LEMMA Induction ==
  ASSUME NEW N \in Nat, NEW T, 0 \in T, \A n \in 0..N : n < N /\ n \in T => n + 1 \in T
  PROVE  \A n \in 0..N : n \in T
<1> SUFFICES ASSUME (0..N) \ T # {} PROVE FALSE
  OBVIOUS
<1> DEFINE rest == (0..N) \ T
<1>1. PICK x \in rest : \A y \in rest : ~(y < x)
  <2>1. rest \in SUBSET Nat /\ rest # {}
    OBVIOUS
  <2> HIDE DEF rest
  <2> QED BY <2>1, Least
<1>2. x - 1 \in 0..N /\ x - 1 < x /\ x - 1 < N
  BY <1>1
<1> QED BY <1>1, <1>2

Steps(N, S) == [1..N -> [S -> S]]

\* f holds what the steps 1..n make of start.
IsFold(f, start, N, step, S) ==
  f \in [0..N -> S] /\ f[0] = start /\ \A n \in 1..N : f[n] = step[n][f[n - 1]]

\* The fold of a step over 1..N exists, which is what makes the definition of a
\* recursive function, a CHOOSE, mean something.
LEMMA Recursion ==
  ASSUME NEW S, NEW start \in S, NEW N \in Nat, NEW step \in Steps(N, S)
  PROVE  \E f : IsFold(f, start, N, step, S)
<1> DEFINE T == {m \in 0..N : \E f : IsFold(f, start, m, step, S)}
<1>1. 0 \in T
  <2> DEFINE f == [n \in 0..0 |-> start]
  <2>1. IsFold(f, start, 0, step, S)
    BY DEF IsFold
  <2> HIDE DEF f
  <2> QED BY <2>1
<1>2. ASSUME NEW m \in 0..N, m < N, m \in T
      PROVE  m + 1 \in T
  <2>1. PICK f : IsFold(f, start, m, step, S)
    BY <1>2
  <2> DEFINE g == [n \in 0..(m + 1) |-> IF n = m + 1 THEN step[m + 1][f[m]] ELSE f[n]]
  <2>2. step[m + 1][f[m]] \in S
    BY <1>2, <2>1 DEF Steps, IsFold
  <2>3. g \in [0..(m + 1) -> S]
    BY <2>1, <2>2 DEF IsFold
  <2>4. g[0] = start
    BY <2>1 DEF IsFold
  <2>5. ASSUME NEW n \in 1..(m + 1)
        PROVE  g[n] = step[n][g[n - 1]]
    BY <2>1 DEF IsFold
  <2>6. m + 1 \in 0..N
    BY <1>2
  <2>7. IsFold(g, start, m + 1, step, S)
    <3> HIDE DEF g
    <3> QED BY <2>3, <2>4, <2>5 DEF IsFold
  <2> QED BY <2>6, <2>7
<1>3. N \in T
  <2>1. \A m \in 0..N : m < N /\ m \in T => m + 1 \in T
    BY <1>2
  <2>2. N \in 0..N
    OBVIOUS
  <2> HIDE DEF T
  <2> QED BY <1>1, <2>1, <2>2, Induction
<1> QED BY <1>3

\* A recursive function whose steps these are, as long as it has stayed in S.
LEMMA FoldOf ==
  ASSUME NEW S, NEW start \in S, NEW N \in Nat, NEW step \in Steps(N, S),
         NEW f, f = [n \in 0..N |-> f[n]], f[0] = start,
         \A n \in 1..N : f[n - 1] \in S => f[n] = step[n][f[n - 1]]
  PROVE  IsFold(f, start, N, step, S)
<1> DEFINE T == {m \in 0..N : f[m] \in S}
<1>1. 0 \in T
  OBVIOUS
<1>2. ASSUME NEW n \in 0..N, n < N, n \in T
      PROVE  n + 1 \in T
  <2>1. n + 1 \in 1..N /\ (n + 1) - 1 = n /\ f[n] \in S
    BY <1>2
  <2>2. f[n + 1] = step[n + 1][f[n]]
    BY <2>1
  <2>3. step[n + 1][f[n]] \in S
    BY <2>1 DEF Steps
  <2> QED BY <2>1, <2>2, <2>3
<1>3. \A n \in 0..N : n \in T
  <2> HIDE DEF T
  <2> QED BY <1>1, <1>2, Induction
<1>4. f \in [0..N -> S]
  BY <1>3
<1>5. ASSUME NEW n \in 1..N
      PROVE  f[n] = step[n][f[n - 1]]
  <2>1. n - 1 \in 0..N
    OBVIOUS
  <2> QED BY <1>4, <2>1
<1> QED BY <1>4, <1>5 DEF IsFold

-----------------------------------------------------------------------------
(* Splitting into lines.                                                   *)

Characters == Letters \cup {Newline}

Splits == [lines: Seq(Seq(Letters)), rest: Seq(Letters)]

Nothing == [lines |-> <<>>, rest |-> <<>>]

Take(parts, c) == Console!Take(parts, c)

Split(s) == Console!Split(s)

\* parts is what the first n characters of s have been split into, for every n.
IsSplitting(parts, s) ==
  /\ parts \in [0..Len(s) -> Splits]
  /\ parts[0] = Nothing
  /\ \A n \in 1..Len(s) : parts[n] = Take(parts[n - 1], s[n])

LEMMA TakeType ==
  ASSUME NEW parts \in Splits, NEW c \in Characters
  PROVE  Take(parts, c) \in Splits
<1>1. CASE c = Newline
  BY <1>1 DEF Take, Console!Take, Splits
<1>2. CASE c \in Letters
  <2>1. c # Newline
    BY <1>2, NewlineAssumption
  <2> QED BY <1>2, <2>1 DEF Take, Console!Take, Splits
<1> QED BY <1>1, <1>2 DEF Characters

LEMMA SplitUnfold ==
  ASSUME NEW s \in Seq(Characters)
  PROVE  \E parts : IsSplitting(parts, s) /\ Split(s) = parts[Len(s)]
<1> DEFINE N == Len(s)
           step == [n \in 1..N |-> [q \in Splits |-> Take(q, s[n])]]
           Body(f) == [n \in 0..N |-> IF n = 0 THEN Nothing ELSE Take(f[n - 1], s[n])]
           parts == CHOOSE f : f = Body(f)
<1>0. N \in Nat /\ Nothing \in Splits
  BY DEF Nothing, Splits
<1>1. step \in Steps(N, Splits)
  <2>1. ASSUME NEW n \in 1..N, NEW q \in Splits
        PROVE  Take(q, s[n]) \in Splits
    <3>1. s[n] \in Characters
      OBVIOUS
    <3> QED BY <3>1, TakeType
  <2> QED BY <2>1 DEF Steps
<1>2. \A n \in 1..N : \A q \in Splits : step[n][q] = Take(q, s[n])
  OBVIOUS
<1>3. Split(s) = parts[N]
  BY DEF Split, Console!Split, Take, Nothing
<1> HIDE DEF step, N
<1>4. PICK f : IsFold(f, Nothing, N, step, Splits)
  BY <1>0, <1>1, Recursion
<1>5. f = Body(f)
  <2>1. f \in [0..N -> Splits] /\ f[0] = Nothing
    BY <1>4 DEF IsFold
  <2>2. ASSUME NEW n \in 1..N
        PROVE  f[n] = Take(f[n - 1], s[n])
    BY <1>0, <1>2, <1>4 DEF IsFold
  <2>3. ASSUME NEW n \in 0..N
        PROVE  f[n] = IF n = 0 THEN Nothing ELSE Take(f[n - 1], s[n])
    <3>1. n = 0 \/ (n # 0 /\ n \in 1..N)
      BY <1>0
    <3> QED BY <2>1, <2>2, <3>1, Zenon
  <2>4. f = [n \in 0..N |-> f[n]]
    BY <2>1
  <2> QED BY <2>3, <2>4, Zenon
<1>6. parts = Body(parts)
  <2> HIDE DEF Body
  <2> QED BY <1>5
<1> HIDE DEF parts
<1>7. /\ parts = [n \in 0..N |-> parts[n]]
      /\ parts[0] = Nothing
      /\ \A n \in 1..N : parts[n] = Take(parts[n - 1], s[n])
  <2>1. Body(parts) = [n \in 0..N |-> Body(parts)[n]]
    BY Zenon
  <2>2. ASSUME NEW n \in 0..N
        PROVE  Body(parts)[n] = IF n = 0 THEN Nothing ELSE Take(parts[n - 1], s[n])
    BY Zenon
  <2>3. 0 \in 0..N /\ \A n \in 1..N : n \in 0..N /\ n # 0
    BY <1>0
  <2> HIDE DEF Body
  <2>4. parts = [n \in 0..N |-> parts[n]]
    BY <1>6, <2>1, Zenon
  <2> QED BY <1>6, <2>2, <2>3, <2>4, Zenon
<1> HIDE DEF Body
<1>8. \A n \in 1..N : parts[n - 1] \in Splits => parts[n] = step[n][parts[n - 1]]
  BY <1>2, <1>7
<1>9. IsFold(parts, Nothing, N, step, Splits)
  BY <1>0, <1>1, <1>7, <1>8, FoldOf
<1>10. parts \in [0..N -> Splits]
  BY <1>9 DEF IsFold
<1> QED BY <1>3, <1>7, <1>10 DEF N, IsSplitting

LEMMA SplitType ==
  ASSUME NEW s \in Seq(Characters)
  PROVE  Split(s) \in Splits
<1>1. PICK parts : IsSplitting(parts, s) /\ Split(s) = parts[Len(s)]
  BY SplitUnfold
<1>2. Len(s) \in 0..Len(s)
  OBVIOUS
<1> QED BY <1>1, <1>2 DEF IsSplitting

LEMMA SplitNothing == Split(<<>>) = Nothing
<1>1. <<>> \in Seq(Characters) /\ Len(<<>>) = 0
  OBVIOUS
<1> QED BY <1>1, SplitUnfold DEF IsSplitting

LEMMA SplitAppend ==
  ASSUME NEW s \in Seq(Characters), NEW c \in Characters
  PROVE  Split(Append(s, c)) = Take(Split(s), c)
<1> DEFINE N == Len(s)
           more == Append(s, c)
<1>1. N \in Nat /\ more \in Seq(Characters) /\ Len(more) = N + 1 /\ more[N + 1] = c
  OBVIOUS
<1>2. PICK f : IsSplitting(f, s) /\ Split(s) = f[N]
  BY SplitUnfold
<1>3. PICK g : IsSplitting(g, more) /\ Split(more) = g[N + 1]
  BY <1>1, SplitUnfold
<1> DEFINE T == {n \in 0..N : g[n] = f[n]}
<1>4. 0 \in T
  BY <1>1, <1>2, <1>3 DEF IsSplitting
<1>5. ASSUME NEW n \in 0..N, n < N, n \in T
      PROVE  n + 1 \in T
  <2>1. n + 1 \in 1..N /\ n + 1 \in 1..(N + 1) /\ (n + 1) - 1 = n /\ n + 1 \in 0..N
    BY <1>1, <1>5
  <2>2. more[n + 1] = s[n + 1]
    BY <2>1
  <2> HIDE DEF more
  <2>3. g[n + 1] = Take(g[n], s[n + 1])
    BY <1>1, <1>3, <2>1, <2>2 DEF IsSplitting
  <2>4. f[n + 1] = Take(f[n], s[n + 1])
    BY <1>2, <2>1 DEF IsSplitting
  <2> QED BY <1>5, <2>1, <2>3, <2>4
<1>6. g[N] = f[N]
  <2>1. N \in 0..N
    BY <1>1
  <2>2. N \in T
    <3> HIDE DEF T, N
    <3> QED BY <1>1, <1>4, <1>5, <2>1, Induction
  <2> QED BY <2>2
<1>7. g[N + 1] = Take(g[N], c)
  <2>1. N + 1 \in 1..(N + 1) /\ (N + 1) - 1 = N
    BY <1>1
  <2> HIDE DEF more, N
  <2> QED BY <1>1, <1>3, <2>1 DEF IsSplitting
<1> QED BY <1>2, <1>3, <1>6, <1>7

LEMMA PrefixAppend ==
  ASSUME NEW S, NEW s \in Seq(S), NEW n \in Nat, n < Len(s)
  PROVE  SubSeq(s, 1, n + 1) = Append(SubSeq(s, 1, n), s[n + 1])
<1>1. Len(s) \in Nat /\ 1 \in 1..Len(s) /\ n + 1 \in 1..Len(s) /\ (n + 1) - 1 = n
  OBVIOUS
<1>2. SubSeq(s, 1, n + 1) = SubSeq(s, 1, n) \o <<s[n + 1]>>
  BY <1>1, SubSeqRecursiveSecond
<1>3. SubSeq(s, 1, n) \in Seq(S) /\ s[n + 1] \in S
  BY <1>1
<1> QED BY <1>2, <1>3, AppendIsConcat

LEMMA ConcatAppend ==
  ASSUME NEW S, NEW s \in Seq(S), NEW t \in Seq(S), NEW e \in S
  PROVE  s \o Append(t, e) = Append(s \o t, e)
<1>1. <<e>> \in Seq(S) /\ s \o t \in Seq(S)
  OBVIOUS
<1>2. Append(t, e) = t \o <<e>> /\ Append(s \o t, e) = (s \o t) \o <<e>>
  BY <1>1, AppendIsConcat
<1> QED BY <1>1, <1>2, ConcatAssociative

\* The buffer, which holds no newline, splits into no line and itself.
LEMMA SplitStraight ==
  ASSUME NEW s \in Seq(Letters)
  PROVE  Split(s) = [lines |-> <<>>, rest |-> s]
<1> DEFINE N == Len(s)
           T == {n \in 0..N : Split(SubSeq(s, 1, n)) = [lines |-> <<>>, rest |-> SubSeq(s, 1, n)]}
<1>1. N \in Nat /\ s \in Seq(Characters)
  BY SeqMonotonic DEF Characters
<1>2. 0 \in T
  <2>1. SubSeq(s, 1, 0) = <<>>
    BY SubSeqEmpty
  <2>2. Split(SubSeq(s, 1, 0)) = [lines |-> <<>>, rest |-> SubSeq(s, 1, 0)]
    BY <2>1, SplitNothing, Zenon DEF Nothing
  <2> QED BY <1>1, <2>2
<1>3. ASSUME NEW n \in 0..N, n < N, n \in T
      PROVE  n + 1 \in T
  <2> DEFINE r == SubSeq(s, 1, n)
             c == s[n + 1]
  <2>1. n + 1 \in 0..N /\ n + 1 \in 1..N
    BY <1>1, <1>3
  <2>2. c \in Letters /\ c \in Characters /\ c # Newline
    BY <2>1, NewlineAssumption DEF Characters
  <2>3. r \in Seq(Characters)
    BY <1>1, <2>1
  <2>4. SubSeq(s, 1, n + 1) = Append(r, c)
    BY <1>1, <1>3, PrefixAppend
  <2>5. Split(r) = [lines |-> <<>>, rest |-> r]
    BY <1>3
  <2> HIDE DEF r, c
  <2>6. Split(Append(r, c)) = Take([lines |-> <<>>, rest |-> r], c)
    BY <2>2, <2>3, <2>5, SplitAppend
  <2>7. Take([lines |-> <<>>, rest |-> r], c) = [lines |-> <<>>, rest |-> Append(r, c)]
    BY <2>2 DEF Take, Console!Take
  <2> QED BY <2>1, <2>4, <2>6, <2>7
<1>4. N \in T
  <2>1. N \in 0..N
    BY <1>1
  <2> HIDE DEF T, N
  <2> QED BY <1>1, <1>2, <1>3, <2>1, Induction
<1> QED BY <1>4, SubSeqFull

LEMMA TakeConcat ==
  ASSUME NEW x \in Seq(Seq(Letters)), NEW q \in Splits, NEW c \in Characters
  PROVE  Take([lines |-> x \o q.lines, rest |-> q.rest], c)
           = [lines |-> x \o Take(q, c).lines, rest |-> Take(q, c).rest]
<1>1. q.lines \in Seq(Seq(Letters)) /\ q.rest \in Seq(Letters)
  BY DEF Splits
<1>2. x \o Append(q.lines, q.rest) = Append(x \o q.lines, q.rest)
  BY <1>1, ConcatAppend
<1>3. CASE c = Newline
  BY <1>2, <1>3 DEF Take, Console!Take
<1>4. CASE c # Newline
  <2>1. Take(q, c).lines = q.lines /\ Take(q, c).rest = Append(q.rest, c)
    BY <1>4 DEF Take, Console!Take, Splits
  <2>2. Take([lines |-> x \o q.lines, rest |-> q.rest], c)
          = [lines |-> x \o q.lines, rest |-> Append(q.rest, c)]
    BY <1>4 DEF Take, Console!Take
  <2> QED BY <2>1, <2>2
<1> QED BY <1>3, <1>4

\* Splitting may be interrupted anywhere: what is left is put before what comes.
LEMMA SplitConcat ==
  ASSUME NEW a \in Seq(Characters), NEW b \in Seq(Characters)
  PROVE  LET q == Split(Split(a).rest \o b)
         IN  Split(a \o b) = [lines |-> Split(a).lines \o q.lines, rest |-> q.rest]
<1> DEFINE N == Len(b)
           first == Split(a)
           After(t) == Split(first.rest \o t)
           T == {n \in 0..N :
                   Split(a \o SubSeq(b, 1, n))
                     = [lines |-> first.lines \o After(SubSeq(b, 1, n)).lines,
                        rest |-> After(SubSeq(b, 1, n)).rest]}
<1>1. N \in Nat
  OBVIOUS
<1>2. /\ first \in Splits /\ first.lines \in Seq(Seq(Letters))
      /\ first.rest \in Seq(Letters) /\ first.rest \in Seq(Characters)
  <2>1. first \in Splits
    BY SplitType
  <2>2. first.lines \in Seq(Seq(Letters)) /\ first.rest \in Seq(Letters)
    BY <2>1 DEF Splits
  <2> QED BY <2>1, <2>2, SeqMonotonic DEF Characters
<1>3. 0 \in T
  <2>1. SubSeq(b, 1, 0) = <<>> /\ a \o <<>> = a /\ first.rest \o <<>> = first.rest
    BY <1>2, SubSeqEmpty, ConcatEmptySeq
  <2>2. After(<<>>) = [lines |-> <<>>, rest |-> first.rest]
    BY <1>2, <2>1, SplitStraight
  <2>3. first.lines \o <<>> = first.lines /\ first = [lines |-> first.lines, rest |-> first.rest]
    BY <1>2, ConcatEmptySeq DEF Splits
  <2> HIDE DEF first, After
  <2>4. Split(a) = [lines |-> first.lines \o <<>>, rest |-> first.rest]
    BY <2>3 DEF first
  <2>5. Split(a \o SubSeq(b, 1, 0))
          = [lines |-> first.lines \o After(SubSeq(b, 1, 0)).lines,
             rest |-> After(SubSeq(b, 1, 0)).rest]
    <3>1. After(<<>>).lines = <<>> /\ After(<<>>).rest = first.rest
      BY <2>2
    <3> QED BY <2>1, <2>4, <3>1, Zenon
  <2> QED BY <1>1, <2>5
<1>4. ASSUME NEW n \in 0..N, n < N, n \in T
      PROVE  n + 1 \in T
  <2> DEFINE t == SubSeq(b, 1, n)
             c == b[n + 1]
             q == After(t)
  <2>1. n + 1 \in 0..N /\ n + 1 \in 1..N
    BY <1>1, <1>4
  <2>2. t \in Seq(Characters) /\ c \in Characters
    BY <1>1, <2>1
  <2>3. SubSeq(b, 1, n + 1) = Append(t, c)
    <3>1. n \in Nat /\ n < Len(b)
      BY <1>1, <1>4
    <3> HIDE DEF T
    <3> QED BY <3>1, PrefixAppend
  <2>4. Split(a \o t) = [lines |-> first.lines \o q.lines, rest |-> q.rest]
    BY <1>4
  <2> HIDE DEF t, c, first
  <2>5. first.rest \o t \in Seq(Characters) /\ a \o t \in Seq(Characters)
    BY <1>2, <2>2
  <2>6. Split(a \o Append(t, c)) = Take(Split(a \o t), c)
    <3>1. a \o Append(t, c) = Append(a \o t, c)
      BY <2>2, ConcatAppend
    <3> HIDE DEF After, T, q
    <3> QED BY <2>2, <2>5, <3>1, SplitAppend
  <2>7. After(Append(t, c)) = Take(q, c)
    <3>1. first.rest \o Append(t, c) = Append(first.rest \o t, c)
      <4> DEFINE r == first.rest
      <4>1. r \in Seq(Characters)
        BY <1>2
      <4> HIDE DEF r
      <4>2. r \o Append(t, c) = Append(r \o t, c)
        BY <2>2, <4>1, ConcatAppend
      <4> QED BY <4>2 DEF r
    <3>2. Split(Append(first.rest \o t, c)) = Take(Split(first.rest \o t), c)
      BY <2>2, <2>5, SplitAppend
    <3> QED BY <3>1, <3>2
  <2>8. q \in Splits
    BY <2>5, SplitType
  <2> HIDE DEF After, q
  <2>9. Take([lines |-> first.lines \o q.lines, rest |-> q.rest], c)
          = [lines |-> first.lines \o Take(q, c).lines, rest |-> Take(q, c).rest]
    BY <1>2, <2>2, <2>8, TakeConcat
  <2> QED BY <2>1, <2>3, <2>4, <2>6, <2>7, <2>9
<1>5. N \in T
  <2>1. N \in 0..N
    BY <1>1
  <2> HIDE DEF T, N
  <2> QED BY <1>1, <1>3, <1>4, <2>1, Induction
<1> QED BY <1>5, SubSeqFull

-----------------------------------------------------------------------------
(* The page.                                                               *)

PageTypes ==
  /\ channel \in Seq(Messages)
  /\ buffer \in [Ports -> Seq(Letters)]
  /\ printed \in [Ports -> Seq(Seq(Letters))]
  /\ accepted \in [Ports -> Seq(Characters)]

\* sent[i] is what had been accepted before all but the first i messages of the
\* channel were sent; the page has shown the lines of sent[0] and buffers the rest.
IsHistory(sent) ==
  /\ sent \in [0..Len(channel) -> [Ports -> Seq(Characters)]]
  /\ sent[Len(channel)] = accepted
  /\ \A i \in 1..Len(channel) :
       sent[i] = [sent[i - 1] EXCEPT ![channel[i].port] = @ \o channel[i].bytes]
  /\ \A p \in Ports : Split(sent[0][p]) = [lines |-> printed[p], rest |-> buffer[p]]

PageInv == PageTypes /\ \E sent : IsHistory(sent)

LEMMA MessageType ==
  ASSUME NEW m \in Messages
  PROVE  m.port \in Ports /\ m.bytes \in Seq(Characters) /\ m.bytes \in Chunks
BY MessagesAssumption DEF Characters, Chunks

LEMMA PageInit == Init => PageInv
<1> SUFFICES ASSUME Init PROVE PageInv
  OBVIOUS
<1>1. PageTypes
  BY DEF Init, PageTypes
<1> DEFINE sent == [i \in 0..0 |-> accepted]
<1>2. channel = <<>> /\ Len(channel) = 0
  BY DEF Init
<1>3. /\ sent \in [0..0 -> [Ports -> Seq(Characters)]]
      /\ sent[0] = accepted
  BY <1>1 DEF PageTypes
<1>4. ASSUME NEW p \in Ports
      PROVE  Split(accepted[p]) = [lines |-> printed[p], rest |-> buffer[p]]
  BY SplitNothing DEF Init, Nothing
<1> HIDE DEF sent
<1>5. IsHistory(sent)
  BY <1>2, <1>3, <1>4 DEF IsHistory
<1> QED BY <1>1, <1>5 DEF PageInv

\* What a step may do to the page and to what is on its way.
LEMMA StepsOfPage ==
  ASSUME Inv, [Next]_vars
  PROVE  \/ \E m \in Messages : Send(m) /\ UNCHANGED page
         \/ HandleMessage
         \/ UNCHANGED <<channel, accepted, page>>
<1>1. ASSUME NEW r \in queued, PostFromMainThread(r)
      PROVE  \E m \in Messages : Send(m) /\ UNCHANGED page
  <2>1. CASE Alive(r)
    <3>1. message[r.thread] \in Messages
      BY <2>1 DEF Alive, Inv, Types
    <3> QED BY <1>1, <2>1, <3>1 DEF PostFromMainThread
  <2> QED BY <1>1, <2>1 DEF PostFromMainThread
<1>2. ASSUME NEW m \in Messages, MainWrites(m)
      PROVE  Send(m) /\ UNCHANGED page
  BY <1>2 DEF MainWrites
<1>3. ASSUME NEW t \in Threads, ThreadStep(t) \/ SpuriousWake(t)
      PROVE  UNCHANGED <<channel, accepted, page>>
  BY <1>3 DEF ThreadStep, LockMutex, CallOnMainThread, CondWait, Reacquire, Return,
              SpuriousWake, browser
<1>4. ASSUME NEW t \in Threads, NEW m \in Messages, Write(t, m)
      PROVE  UNCHANGED <<channel, accepted, page>>
  BY <1>4 DEF Write, browser
<1>5. CASE LockToSignal \/ Signal \/ Unlock
  BY <1>5 DEF LockToSignal, Signal, Unlock, browser
<1>6. CASE Finished \/ UNCHANGED vars
  BY <1>6 DEF Finished, vars, browser, page
<1> QED BY <1>1, <1>2, <1>3, <1>4, <1>5, <1>6 DEF Next, MainStep

LEMMA SendKeeps ==
  ASSUME PageInv, NEW m \in Messages, Send(m), UNCHANGED page
  PROVE  PageInv'
<1> DEFINE N == Len(channel)
           p == m.port
<1>1. PICK sent : IsHistory(sent)
  BY DEF PageInv
<1>2. N \in Nat /\ channel \in Seq(Messages) /\ accepted \in [Ports -> Seq(Characters)]
  BY DEF PageInv, PageTypes
<1>3. p \in Ports /\ m.bytes \in Seq(Characters)
  BY MessageType
<1>4. accepted' \in [Ports -> Seq(Characters)]
  <2>1. accepted[p] \o m.bytes \in Seq(Characters)
    BY <1>2, <1>3
  <2> QED BY <1>2, <1>3, <2>1 DEF Send
<1>5. /\ channel' = Append(channel, m) /\ channel' \in Seq(Messages) /\ Len(channel') = N + 1
      /\ channel'[N + 1] = m /\ \A i \in 1..N : channel'[i] = channel[i]
  BY <1>2 DEF Send
<1>6. PageTypes'
  BY <1>4, <1>5 DEF PageInv, PageTypes, page
<1>7. sent \in [0..N -> [Ports -> Seq(Characters)]] /\ sent[N] = accepted
  BY <1>1 DEF IsHistory
<1>8. PICK more : /\ more \in [0..(N + 1) -> [Ports -> Seq(Characters)]]
                  /\ more[N + 1] = accepted' /\ \A i \in 0..N : more[i] = sent[i]
  <2> DEFINE longer == [i \in 0..(N + 1) |-> IF i = N + 1 THEN accepted' ELSE sent[i]]
  <2>1. /\ longer \in [0..(N + 1) -> [Ports -> Seq(Characters)]]
        /\ longer[N + 1] = accepted' /\ \A i \in 0..N : longer[i] = sent[i]
    BY <1>2, <1>4, <1>7
  <2> HIDE DEF longer
  <2> QED BY <2>1
<1>9. ASSUME NEW i \in 1..(N + 1)
      PROVE  more[i] = [more[i - 1] EXCEPT ![channel'[i].port] = @ \o channel'[i].bytes]
  <2>1. CASE i = N + 1
    <3>1. more[i - 1] = accepted /\ channel'[i] = m
      BY <1>2, <1>5, <1>7, <1>8, <2>1
    <3>2. accepted' = [accepted EXCEPT ![m.port] = @ \o m.bytes]
      BY DEF Send
    <3> QED BY <1>8, <2>1, <3>1, <3>2
  <2>2. CASE i \in 1..N
    <3>0. i \in 0..N /\ i - 1 \in 0..N
      BY <1>2, <2>2
    <3>1. more[i] = sent[i] /\ more[i - 1] = sent[i - 1] /\ channel'[i] = channel[i]
      <4> HIDE DEF N
      <4> QED BY <1>5, <1>8, <2>2, <3>0
    <3>2. sent[i] = [sent[i - 1] EXCEPT ![channel[i].port] = @ \o channel[i].bytes]
      BY <1>1, <2>2 DEF IsHistory
    <3> QED BY <3>1, <3>2
  <2> QED BY <1>2, <2>1, <2>2
<1>10. ASSUME NEW q \in Ports
       PROVE  Split(more[0][q]) = [lines |-> printed'[q], rest |-> buffer'[q]]
  <2>1. more[0] = sent[0]
    BY <1>2, <1>8
  <2> QED BY <1>1, <2>1 DEF IsHistory, page
<1>11. IsHistory(more)'
  <2>1. /\ more \in [0..Len(channel') -> [Ports -> Seq(Characters)]]
        /\ more[Len(channel')] = accepted'
    BY <1>5, <1>8
  <2>2. \A i \in 1..Len(channel') :
          more[i] = [more[i - 1] EXCEPT ![channel'[i].port] = @ \o channel'[i].bytes]
    <3> HIDE DEF N
    <3> QED BY <1>5, <1>9
  <2>3. \A q \in Ports : Split(more[0][q]) = [lines |-> printed'[q], rest |-> buffer'[q]]
    BY <1>10
  <2> HIDE DEF N, p
  <2> QED BY <2>1, <2>2, <2>3, Zenon DEF IsHistory
<1> QED BY <1>6, <1>11 DEF PageInv

\* What the page makes of the next message.
LEMMA NextMessage ==
  ASSUME PageTypes, NEW sent, IsHistory(sent), channel # <<>>
  PROVE  /\ Incoming \in Messages /\ Incoming.port \in Ports /\ Len(channel) \in Nat \ {0}
         /\ sent[1] = [sent[0] EXCEPT ![Incoming.port] = @ \o Incoming.bytes]
         /\ Parts \in Splits
         /\ Split(sent[1][Incoming.port])
              = [lines |-> printed[Incoming.port] \o Parts.lines, rest |-> Parts.rest]
<1> DEFINE p == Incoming.port
           s == sent[0][p]
<1>1. /\ channel \in Seq(Messages) /\ Len(channel) \in Nat \ {0} /\ 1 \in 1..Len(channel)
      /\ Incoming = channel[1] /\ Incoming \in Messages
  BY DEF PageTypes, Incoming
<1>2. p \in Ports /\ Incoming.bytes \in Seq(Characters)
  BY <1>1, MessageType
<1>3. sent[0] \in [Ports -> Seq(Characters)]
  <2>1. 0 \in 0..Len(channel)
    BY <1>1
  <2> QED BY <2>1 DEF IsHistory
<1>4. sent[1] = [sent[0] EXCEPT ![p] = @ \o Incoming.bytes]
  <2>1. 1 - 1 = 0
    OBVIOUS
  <2>2. sent[1] = [sent[1 - 1] EXCEPT ![channel[1].port] = @ \o channel[1].bytes]
    BY <1>1 DEF IsHistory
  <2> QED BY <1>1, <2>1, <2>2
<1>5. Split(s).lines = printed[p] /\ Split(s).rest = buffer[p]
  <2>1. Split(sent[0][p]) = [lines |-> printed[p], rest |-> buffer[p]]
    BY <1>2 DEF IsHistory
  <2> HIDE DEF s, p
  <2>2. Split(s) = [lines |-> printed[p], rest |-> buffer[p]]
    BY <2>1 DEF s
  <2> QED BY <2>2
<1>6. Split(buffer[p] \o Incoming.bytes) = Parts
  BY DEF Split, Parts
<1>7. s \in Seq(Characters)
  BY <1>2, <1>3
<1>8. buffer[p] \o Incoming.bytes \in Seq(Characters)
  <2>1. buffer[p] \in Seq(Letters)
    BY <1>2 DEF PageTypes
  <2>2. buffer[p] \in Seq(Characters)
    BY <2>1, SeqMonotonic DEF Characters
  <2> QED BY <1>2, <2>2
<1>9. Parts \in Splits
  BY <1>6, <1>8, SplitType
<1>10. Split(s \o Incoming.bytes) = [lines |-> printed[p] \o Parts.lines, rest |-> Parts.rest]
  <2> HIDE DEF s
  <2> QED BY <1>2, <1>5, <1>6, <1>7, SplitConcat
<1>11. sent[1][p] = s \o Incoming.bytes
  BY <1>2, <1>3, <1>4
<1> QED BY <1>1, <1>2, <1>4, <1>9, <1>10, <1>11

LEMMA HandleKeeps ==
  ASSUME PageInv, HandleMessage
  PROVE  PageInv'
<1> DEFINE N == Len(channel)
           p == Incoming.port
<1>1. PICK sent : IsHistory(sent)
  BY DEF PageInv
<1>2. /\ Incoming \in Messages /\ p \in Ports /\ N \in Nat \ {0}
      /\ Parts.lines \in Seq(Seq(Letters)) /\ Parts.rest \in Seq(Letters)
      /\ Split(sent[1][p]) = [lines |-> printed[p] \o Parts.lines, rest |-> Parts.rest]
      /\ sent[1] = [sent[0] EXCEPT ![p] = @ \o Incoming.bytes]
  BY <1>1, NextMessage DEF PageInv, HandleMessage, Splits
<1>3. /\ channel' = Tail(channel) /\ accepted' = accepted
      /\ printed' = [printed EXCEPT ![p] = @ \o Parts.lines]
      /\ buffer' = [buffer EXCEPT ![p] = Parts.rest]
  BY DEF HandleMessage, Handle
<1>4. /\ channel \in Seq(Messages) /\ channel # <<>>
      /\ accepted \in [Ports -> Seq(Characters)]
      /\ printed \in [Ports -> Seq(Seq(Letters))]
      /\ buffer \in [Ports -> Seq(Letters)]
  BY DEF PageInv, PageTypes, HandleMessage
<1>5. /\ channel' \in Seq(Messages) /\ Len(channel') = N - 1
      /\ \A i \in 1..(N - 1) : channel'[i] = channel[i + 1]
  BY <1>3, <1>4
<1>6. PageTypes'
  <2>1. printed[p] \o Parts.lines \in Seq(Seq(Letters))
    BY <1>2, <1>4
  <2>2. printed' \in [Ports -> Seq(Seq(Letters))] /\ buffer' \in [Ports -> Seq(Letters)]
    BY <1>2, <1>3, <1>4, <2>1
  <2> QED BY <1>3, <1>4, <1>5, <2>2 DEF PageTypes
<1>7. sent \in [0..N -> [Ports -> Seq(Characters)]] /\ sent[N] = accepted
  BY <1>1 DEF IsHistory
<1>8. PICK less : /\ less \in [0..(N - 1) -> [Ports -> Seq(Characters)]]
                  /\ \A i \in 0..(N - 1) : less[i] = sent[i + 1]
  <2> DEFINE shorter == [i \in 0..(N - 1) |-> sent[i + 1]]
  <2>1. /\ shorter \in [0..(N - 1) -> [Ports -> Seq(Characters)]]
        /\ \A i \in 0..(N - 1) : shorter[i] = sent[i + 1]
    BY <1>2, <1>7
  <2> HIDE DEF shorter
  <2> QED BY <2>1
<1>9. less[Len(channel')] = accepted'
  <2>1. N - 1 \in 0..(N - 1) /\ (N - 1) + 1 = N
    BY <1>2
  <2> HIDE DEF N
  <2> QED BY <1>3, <1>5, <1>7, <1>8, <2>1
<1>10. ASSUME NEW i \in 1..(N - 1)
       PROVE  less[i] = [less[i - 1] EXCEPT ![channel'[i].port] = @ \o channel'[i].bytes]
  <2>1. /\ i \in 0..(N - 1) /\ i - 1 \in 0..(N - 1) /\ i + 1 \in 1..N
        /\ (i - 1) + 1 = i /\ (i + 1) - 1 = i
    BY <1>2
  <2>2. sent[i + 1] = [sent[i] EXCEPT ![channel[i + 1].port] = @ \o channel[i + 1].bytes]
    BY <1>1, <2>1 DEF IsHistory
  <2>3. less[i] = sent[i + 1] /\ less[i - 1] = sent[i] /\ channel'[i] = channel[i + 1]
    <3> HIDE DEF N
    <3> QED BY <1>5, <1>8, <2>1
  <2> QED BY <2>2, <2>3
<1>11. ASSUME NEW q \in Ports
       PROVE  Split(less[0][q]) = [lines |-> printed'[q], rest |-> buffer'[q]]
  <2>1. less[0] = sent[1]
    BY <1>2, <1>8
  <2>2. CASE q = p
    <3>1. printed'[q] = printed[p] \o Parts.lines /\ buffer'[q] = Parts.rest
      BY <1>2, <1>3, <1>4, <2>2
    <3> HIDE DEF p
    <3> QED BY <1>2, <2>1, <2>2, <3>1
  <2>3. CASE q # p
    <3>1. sent[0] \in [Ports -> Seq(Characters)]
      <4>1. 0 \in 0..N
        BY <1>2
      <4> HIDE DEF N
      <4> QED BY <1>7, <4>1
    <3>2. sent[1][q] = sent[0][q]
      BY <1>2, <2>3, <3>1
    <3>3. printed'[q] = printed[q] /\ buffer'[q] = buffer[q]
      BY <1>3, <1>4, <2>3
    <3> QED BY <1>1, <2>1, <3>2, <3>3 DEF IsHistory
  <2> QED BY <2>2, <2>3
<1>12. IsHistory(less)'
  <2>1. less \in [0..Len(channel') -> [Ports -> Seq(Characters)]]
    BY <1>5, <1>8
  <2>2. \A i \in 1..Len(channel') :
          less[i] = [less[i - 1] EXCEPT ![channel'[i].port] = @ \o channel'[i].bytes]
    <3> HIDE DEF N
    <3> QED BY <1>5, <1>10
  <2>3. \A q \in Ports : Split(less[0][q]) = [lines |-> printed'[q], rest |-> buffer'[q]]
    BY <1>11
  <2> HIDE DEF N, p
  <2> QED BY <1>9, <2>1, <2>2, <2>3, Zenon DEF IsHistory
<1> QED BY <1>6, <1>12 DEF PageInv

LEMMA PageStep == Inv /\ PageInv /\ [Next]_vars => PageInv'
<1> SUFFICES ASSUME Inv, PageInv, [Next]_vars
             PROVE  PageInv'
  OBVIOUS
<1>1. CASE \E m \in Messages : Send(m) /\ UNCHANGED page
  BY <1>1, SendKeeps
<1>2. CASE HandleMessage
  BY <1>2, HandleKeeps
<1>3. CASE UNCHANGED <<channel, accepted, page>>
  BY <1>3 DEF PageInv, PageTypes, IsHistory, page
<1> QED BY <1>1, <1>2, <1>3, StepsOfPage

LEMMA PageInvariance == Spec => []PageInv
BY PageInit, PageStep, Invariance, PTL DEF Spec

\* No thread writes more often than it is let.
WritesInv ==
  /\ \A t \in Threads \cup {Main} : writes[t] <= MaxWrites[t]
  /\ disturbed \in BOOLEAN

LEMMA WritesInvariance == Spec => []WritesInv
<1>1. Init => WritesInv
  <2>1. ASSUME Init, NEW t \in Threads \cup {Main}
        PROVE  writes[t] <= MaxWrites[t]
    <3>1. MaxWrites[t] \in Nat
      BY BoundsAssumption
    <3>2. writes[t] = 0
      BY <2>1 DEF Init
    <3> QED BY <3>1, <3>2
  <2> QED BY <2>1 DEF Init, WritesInv
<1>2. Inv /\ WritesInv /\ [Next]_vars => WritesInv'
  <2> SUFFICES ASSUME Inv, WritesInv, [Next]_vars
               PROVE  WritesInv'
    OBVIOUS
  <2> USE BoundsAssumption DEF Inv, Types, WritesInv
  <2>1. ASSUME NEW t \in Threads, NEW m \in Messages, Write(t, m)
        PROVE  WritesInv'
    BY <2>1 DEF Write
  <2>2. ASSUME NEW m \in Messages, MainWrites(m)
        PROVE  WritesInv'
    BY <2>2 DEF MainWrites
  <2>3. ASSUME NEW t \in Threads, ThreadStep(t) \/ SpuriousWake(t)
        PROVE  WritesInv'
    BY <2>3 DEF ThreadStep, LockMutex, CallOnMainThread, CondWait, Reacquire, Return,
                SpuriousWake
  <2>4. CASE MainStep \/ HandleMessage \/ Finished \/ UNCHANGED vars
    BY <2>4 DEF MainStep, PostFromMainThread, LockToSignal, Signal, Unlock,
                HandleMessage, Handle, Finished, vars
  <2> QED BY <2>1, <2>2, <2>3, <2>4 DEF Next
<1> QED BY <1>1, <1>2, Invariance, PTL DEF Spec

\* Neither a buffer of the page nor a line it shows holds a newline, and no thread
\* writes more often than MaxWrites lets it.
THEOREM TypeCorrect == Spec => []TypeOK
<1>1. Inv /\ PageInv /\ WritesInv => TypeOK
  BY DEF Inv, Types, PageInv, PageTypes, WritesInv, TypeOK, Characters
<1> QED BY <1>1, Invariance, PageInvariance, WritesInvariance, PTL

\* When no message is on its way the page has shown each line of what was sent to a
\* port, and its buffer holds what follows the last of them and no more.
NothingLost ==
  channel = <<>> =>
    \A p \in Ports : Console!Split(accepted[p]) = [lines |-> printed[p], rest |-> buffer[p]]

\* Whenever no message is on its way the page has shown every line that was sent,
\* and keeps what follows the last one for the next message.
THEOREM LinesNotLost == Spec => []NothingLost
<1>1. PageInv => NothingLost
  <2> SUFFICES ASSUME PageInv, channel = <<>>, NEW p \in Ports
               PROVE  Split(accepted[p]) = [lines |-> printed[p], rest |-> buffer[p]]
    BY DEF NothingLost, Split
  <2>1. PICK sent : IsHistory(sent)
    BY DEF PageInv
  <2>2. sent[0] = accepted
    BY <2>1 DEF IsHistory
  <2> QED BY <2>1, <2>2 DEF IsHistory
<1> QED BY <1>1, PageInvariance, PTL

-----------------------------------------------------------------------------
(* The page implements the console.                                        *)

LEMMA CharactersAssociative ==
  \A a, b, c \in Seq(Characters) : (a \o b) \o c = a \o (b \o c)
<1> TAKE a, b, c \in Seq(Characters)
<1> QED BY ConcatAssociative

\* What has been accepted begins with what was accepted up to the next message.
LEMMA AcceptedBegins ==
  ASSUME PageTypes, NEW sent, IsHistory(sent), channel # <<>>, NEW p \in Ports
  PROVE  \E w \in Seq(Characters) : accepted[p] = sent[1][p] \o w
<1> DEFINE N == Len(channel) - 1
           Extends(i) == \E w \in Seq(Characters) : sent[i + 1][p] = sent[1][p] \o w
           T == {i \in 0..N : Extends(i)}
<1>1. channel \in Seq(Messages) /\ N \in Nat /\ N + 1 = Len(channel)
  BY DEF PageTypes
<1>2. \A i \in 0..N : sent[i + 1] \in [Ports -> Seq(Characters)]
  <2>1. \A i \in 0..N : i + 1 \in 0..Len(channel)
    BY <1>1
  <2> QED BY <2>1 DEF IsHistory
<1>3. 0 \in T
  <2>1. 0 \in 0..N /\ 0 + 1 = 1
    BY <1>1
  <2>2. sent[1][p] \in Seq(Characters)
    BY <1>2, <2>1
  <2>3. <<>> \in Seq(Characters) /\ sent[1][p] = sent[1][p] \o <<>>
    BY <2>2, ConcatEmptySeq
  <2> QED BY <2>1, <2>3
<1>4. ASSUME NEW i \in 0..N, i < N, i \in T
      PROVE  i + 1 \in T
  <2>1. /\ i + 1 \in 0..N /\ (i + 1) + 1 \in 1..Len(channel)
        /\ ((i + 1) + 1) - 1 = i + 1 /\ 0 \in 0..N /\ 0 + 1 = 1
    BY <1>1, <1>4
  <2> DEFINE m == channel[(i + 1) + 1]
             old == sent[i + 1]
             new == sent[(i + 1) + 1]
  <2>2. new = [old EXCEPT ![m.port] = @ \o m.bytes]
    BY <2>1 DEF IsHistory
  <2>3. m.bytes \in Seq(Characters) /\ m.port \in Ports
    BY <1>1, <2>1, MessageType
  <2>4. old \in [Ports -> Seq(Characters)] /\ sent[1][p] \in Seq(Characters)
    BY <1>2, <2>1
  <2>5. PICK w \in Seq(Characters) : old[p] = sent[1][p] \o w
    BY <1>4
  <2> HIDE DEF m, old
  <2>6. CASE m.port = p
    <3>1. new[p] = (sent[1][p] \o w) \o m.bytes
      BY <2>2, <2>3, <2>4, <2>5, <2>6
    <3>2. w \o m.bytes \in Seq(Characters)
      BY <2>3
    <3>3. new[p] = sent[1][p] \o (w \o m.bytes)
      <4> DEFINE b == m.bytes
                 a == sent[1][p]
      <4>1. a \in Seq(Characters) /\ b \in Seq(Characters)
        BY <2>3, <2>4
      <4> HIDE DEF a, b
      <4>2. (a \o w) \o b = a \o (w \o b)
        BY <4>1, CharactersAssociative, Zenon
      <4> QED BY <3>1, <4>2 DEF a, b
    <3> QED BY <2>1, <3>2, <3>3
  <2>7. CASE m.port # p
    BY <2>1, <2>2, <2>4, <2>5, <2>7
  <2> QED BY <2>6, <2>7
<1>5. N \in T
  <2>1. N \in 0..N
    BY <1>1
  <2> HIDE DEF T, N
  <2> QED BY <1>1, <1>3, <1>4, <2>1, Induction
<1>6. sent[N + 1] = accepted
  BY <1>1 DEF IsHistory
<1> QED BY <1>5, <1>6

LEMMA ConcatBegins ==
  ASSUME NEW S, NEW s \in Seq(S), NEW t \in Seq(S)
  PROVE  /\ SubSeq(s \o t, 1, Len(s)) = s
         /\ Len(s) \in Nat /\ Len(t) \in Nat /\ Len(s \o t) = Len(s) + Len(t)
<1>1. SubSeq(s \o t, 1, Len(s)) \in Seq(S) /\ Len(SubSeq(s \o t, 1, Len(s))) = Len(s)
  OBVIOUS
<1>2. \A i \in 1..Len(s) : SubSeq(s \o t, 1, Len(s))[i] = s[i]
  OBVIOUS
<1> QED BY <1>1, <1>2, SeqEqual

LEMMA LinesOf ==
  ASSUME NEW parts, NEW lines, NEW rest, parts = [lines |-> lines, rest |-> rest]
  PROVE  parts.lines = lines
OBVIOUS

\* What follows leaves the lines that are complete as they are.
LEMMA SplitBegins ==
  ASSUME NEW a \in Seq(Characters), NEW b \in Seq(Characters)
  PROVE  \E x \in Seq(Seq(Letters)) : Split(a \o b).lines = Split(a).lines \o x
<1>1. PICK first \in Splits : first = Split(a)
  BY SplitType
<1>2. first.rest \in Seq(Letters)
  BY DEF Splits
<1>3. first.rest \o b \in Seq(Characters)
  <2>1. first.rest \in Seq(Characters)
    BY <1>2, SeqMonotonic DEF Characters
  <2> QED BY <2>1
<1>4. PICK q \in Splits : q = Split(first.rest \o b)
  BY <1>3, SplitType
<1>5. Split(a \o b) = [lines |-> first.lines \o q.lines, rest |-> q.rest]
  BY <1>1, <1>4, SplitConcat
<1>6. q.lines \in Seq(Seq(Letters))
  BY DEF Splits
<1>7. Split(a \o b).lines = Split(a).lines \o q.lines
  BY <1>1, <1>5, LinesOf, Zenon
<1> QED BY <1>6, <1>7, Zenon

\* Handling a message shows the next lines of its port, if it completes any.
LEMMA HandleShows ==
  ASSUME PageInv, HandleMessage
  PROVE  Console!Show(Incoming.port) \/ UNCHANGED <<accepted, printed>>
<1> DEFINE p == Incoming.port
           shown == printed[p] \o Parts.lines
<1>1. PICK sent : IsHistory(sent)
  BY DEF PageInv
<1>2. /\ p \in Ports /\ Parts.lines \in Seq(Seq(Letters)) /\ Len(channel) \in Nat \ {0}
      /\ Split(sent[1][p]) = [lines |-> printed[p] \o Parts.lines, rest |-> Parts.rest]
  BY <1>1, NextMessage DEF PageInv, HandleMessage, Splits
<1>3. /\ accepted' = accepted /\ printed' = [printed EXCEPT ![p] = shown]
  BY DEF HandleMessage, Handle
<1>4. printed \in [Ports -> Seq(Seq(Letters))] /\ printed[p] \in Seq(Seq(Letters))
  BY <1>2 DEF PageInv, PageTypes
<1>5. CASE Parts.lines = <<>>
  <2>1. shown = printed[p]
    BY <1>4, <1>5, ConcatEmptySeq
  <2> QED BY <1>3, <1>4, <2>1
<1>6. CASE Parts.lines # <<>>
  <2>1. PICK w \in Seq(Characters) : accepted[p] = sent[1][p] \o w
    BY <1>1, <1>2, AcceptedBegins DEF PageInv, HandleMessage
  <2> DEFINE lines == Split(accepted[p]).lines
  <2>2. sent[1][p] \in Seq(Characters)
    <3>1. 1 \in 0..Len(channel)
      BY <1>2
    <3> QED BY <1>1, <1>2, <3>1 DEF IsHistory
  <2>3. PICK x \in Seq(Seq(Letters)) : Split(sent[1][p] \o w).lines = Split(sent[1][p]).lines \o x
    <3> DEFINE a == sent[1][p]
    <3>1. a \in Seq(Characters)
      BY <2>2
    <3> HIDE DEF a
    <3>2. \E x \in Seq(Seq(Letters)) : Split(a \o w).lines = Split(a).lines \o x
      BY <3>1, SplitBegins
    <3> QED BY <3>2 DEF a
  <2>4. Split(sent[1][p]).lines = shown
    BY <1>2, LinesOf, Zenon
  <2> HIDE DEF shown
  <2>5. lines = shown \o x
    BY <2>1, <2>3, <2>4
  <2>6. shown \in Seq(Seq(Letters)) /\ Len(shown) = Len(printed[p]) + Len(Parts.lines)
    BY <1>2, <1>4 DEF shown
  <2> HIDE DEF lines, p
  <2>7. /\ SubSeq(lines, 1, Len(shown)) = shown
        /\ Len(lines) = Len(shown) + Len(x) /\ Len(x) \in Nat
    BY <2>5, <2>6, ConcatBegins
  <2>8. Len(shown) \in Len(printed[p]) + 1 .. Len(lines)
    <3>1. Len(Parts.lines) \in Nat \ {0} /\ Len(printed[p]) \in Nat
      BY <1>2, <1>4, <1>6
    <3> DEFINE old == Len(printed[p])
               more == Len(Parts.lines)
    <3>2. old \in Nat /\ more \in Nat \ {0} /\ Len(shown) = old + more
      BY <2>6, <3>1
    <3> HIDE DEF old, more
    <3>3. Len(shown) \in old + 1 .. Len(lines)
      BY <2>7, <3>2
    <3> QED BY <3>3 DEF old
  <2>9. Console!Split(accepted[p]).lines = lines
    BY DEF lines, Split
  <2>10. printed' = [printed EXCEPT ![p] = SubSeq(lines, 1, Len(shown))]
    BY <1>3, <2>7
  <2>11. Console!Show(p)
    BY <1>3, <2>8, <2>9, <2>10, Zenon DEF Console!Show
  <2> QED BY <2>11 DEF p
<1> QED BY <1>5, <1>6

\* The page shows the lines of what the browser was given for each port, each once
\* and in order, however messages cut them: Output implements LineConsole.  It holds
\* when writes overlap too, though what the browser is given may then not be what was
\* written; that it is as long as nothing is disturbed is SendsWhatWasWritten.
THEOREM ImplementsConsole == Spec => InLines
<1>1. Init => Console!Init
  BY DEF Init, Console!Init
<1>2. Inv /\ PageInv /\ [Next]_vars => [Console!Next]_<<accepted, printed>>
  <2> SUFFICES ASSUME Inv, PageInv, [Next]_vars
               PROVE  [Console!Next]_<<accepted, printed>>
    OBVIOUS
  <2>1. ASSUME NEW m \in Messages, Send(m), UNCHANGED page
        PROVE  Console!Next
    <3>1. m.port \in Ports /\ m.bytes \in Chunks
      BY MessageType
    <3>2. Console!Accept(m.port, m.bytes)
      BY <2>1 DEF Send, page, Console!Accept
    <3> QED BY <3>1, <3>2 DEF Console!Next
  <2>2. CASE HandleMessage
    <3>1. Incoming.port \in Ports
      BY <2>2, NextMessage DEF PageInv, HandleMessage
    <3> QED BY <2>2, <3>1, HandleShows DEF Console!Next
  <2>3. CASE UNCHANGED <<channel, accepted, page>>
    BY <2>3 DEF page
  <2> QED BY <2>1, <2>2, <2>3, StepsOfPage
<1> QED BY <1>1, <1>2, Invariance, PageInvariance, PTL DEF Spec, InLines, Console!Spec
=============================================================================
