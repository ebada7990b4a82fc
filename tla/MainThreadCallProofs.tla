------------------------ MODULE MainThreadCallProofs ------------------------
(* Theorems about MainThreadCall, for any threads, delegates and bounds. *)
EXTENDS MainThreadCall, FiniteSetTheorems, TLAPS

(***************************************************************************)
(* Type correctness.  A chained completion carries callback_, so the types *)
(* need that callback_ was assigned for every delegate in use.             *)
(***************************************************************************)
FramesMatch ==
  \A t \in Threads :
    /\ frame[t] # NoCall <=> pc[t] # "idle"
    /\ frame[t] # NoCall => frame[t].thread = t /\ frame[t].number = calls[t]

CallbacksAssigned ==
  /\ \A d \in Delegates : callback[d] # NoCall => callback[d].delegate = d
  /\ \A t \in Threads : frame[t] # NoCall => callback[frame[t].delegate] # NoCall
  /\ \A r \in Outstanding : callback[r.arguments.delegate] # NoCall

TypeInv == TypeOK /\ FramesMatch /\ CallbacksAssigned

\* The two kinds of main-thread step that run an operation only name calls.
LEMMA PointeesAreCalls ==
  ASSUME TypeInv, NEW r \in Outstanding, NEW a \in Pointees(r.arguments)
  PROVE  /\ r \in Completion
         /\ a \in CallId
         /\ a.thread \in Threads
         /\ callback[a.delegate] \in CallId
<1>1. r \in Completion
  BY DEF TypeInv, TypeOK, Outstanding
<1>2. r.arguments \in CallId /\ r.arguments.thread \in Threads
  BY <1>1 DEF Completion, CallId
<1>3. frame[r.arguments.thread] \in CallId \cup {NoCall}
  BY <1>2 DEF TypeInv, TypeOK
<1>4. a \in CallId /\ (a = r.arguments \/ a = frame[r.arguments.thread])
  BY <1>2, <1>3 DEF Pointees
<1>5. a.thread \in Threads /\ a.delegate \in Delegates
  BY <1>4 DEF CallId
<1>6. callback[a.delegate] # NoCall
  <2>1. CASE a = r.arguments
    BY <2>1 DEF TypeInv, CallbacksAssigned
  <2>2. CASE a = frame[r.arguments.thread]
    BY <2>2, <1>2, <1>4, NoCallAssumption DEF TypeInv, CallbacksAssigned
  <2> QED BY <1>4, <2>1, <2>2
<1> QED BY <1>1, <1>4, <1>5, <1>6 DEF TypeInv, TypeOK

LEMMA TypeInvStep == TypeInv /\ [Next]_vars => TypeInv'
<1> SUFFICES ASSUME TypeInv, [Next]_vars
             PROVE  TypeOK' /\ FramesMatch' /\ CallbacksAssigned'
  BY DEF TypeInv
<1> USE DEF TypeInv, TypeOK, FramesMatch, CallbacksAssigned, Outstanding,
            threadVars, mainVars
<1>1. ASSUME NEW t \in Threads, NEW d \in Delegates, Call(t, d)
      PROVE  TypeOK' /\ FramesMatch' /\ CallbacksAssigned'
  <2> DEFINE c == [thread |-> t, number |-> calls[t] + 1, delegate |-> d]
  <2>1. calls[t] + 1 \in 0..MaxCalls /\ calls[t] + 1 \in 1..MaxCalls
    BY <1>1, BoundsAssumption DEF Call
  <2>2. c \in CallId /\ c # NoCall
    BY <2>1, NoCallAssumption DEF CallId
  <2>3. /\ frame' = [frame EXCEPT ![t] = c]
        /\ callback' = [callback EXCEPT ![d] = c]
        /\ pc' = [pc EXCEPT ![t] = "lock"]
        /\ calls' = [calls EXCEPT ![t] = calls[t] + 1]
        /\ result' = [result EXCEPT ![t] = FALSE]
        /\ UNCHANGED <<mutex, queued, pending, running, refused, mainPc>>
    BY <1>1 DEF Call
  <2>4. TypeOK'
    <3> HIDE DEF c
    <3> QED BY <2>1, <2>2, <2>3
  <2>5. FramesMatch'
    <3>1. c.thread = t /\ c.number = calls'[t]
      BY <2>3
    <3> HIDE DEF c
    <3> QED BY <3>1, <2>2, <2>3
  <2>6. CallbacksAssigned'
    <3>1. c.delegate = d
      OBVIOUS
    <3> HIDE DEF c
    <3>2. \A e \in Delegates : callback[e] # NoCall => callback'[e] # NoCall
      BY <2>2, <2>3
    <3>3. \A s \in Threads : frame[s] # NoCall => frame[s].delegate \in Delegates
      BY DEF CallId
    <3>4. \A r \in Outstanding : r.arguments.delegate \in Delegates
      BY DEF Completion, CallId
    <3> QED BY <2>2, <2>3, <3>1, <3>2, <3>3, <3>4
  <2> QED BY <2>4, <2>5, <2>6
<1>2. ASSUME NEW t \in Threads, LockMutex(t)
      PROVE  TypeOK' /\ FramesMatch' /\ CallbacksAssigned'
  BY <1>2 DEF LockMutex
<1>3. ASSUME NEW t \in Threads, CallOnMainThread(t)
      PROVE  TypeOK' /\ FramesMatch' /\ CallbacksAssigned'
  <2> DEFINE n == [id |-> frame[t], arguments |-> frame[t], hops |-> 0]
  <2>1. frame[t] \in CallId /\ frame[t] # NoCall
    BY <1>3 DEF CallOnMainThread
  <2>2. n \in Completion /\ n.arguments = frame[t]
    BY <2>1, BoundsAssumption DEF Completion
  <2>3. queued' = queued \cup {n}
    BY <1>3 DEF CallOnMainThread
  <2> HIDE DEF n
  <2> QED BY <1>3, <2>1, <2>2, <2>3 DEF CallOnMainThread
<1>4. ASSUME NEW t \in Threads, CondWait(t)
      PROVE  TypeOK' /\ FramesMatch' /\ CallbacksAssigned'
  BY <1>4 DEF CondWait
<1>5. ASSUME NEW t \in Threads, SpuriousWake(t)
      PROVE  TypeOK' /\ FramesMatch' /\ CallbacksAssigned'
  BY <1>5 DEF SpuriousWake
<1>6. ASSUME NEW t \in Threads, Reacquire(t)
      PROVE  TypeOK' /\ FramesMatch' /\ CallbacksAssigned'
  BY <1>6 DEF Reacquire
<1>7. ASSUME NEW t \in Threads, Return(t)
      PROVE  TypeOK' /\ FramesMatch' /\ CallbacksAssigned'
  BY <1>7 DEF Return
<1>8. ASSUME NEW r \in pending, BrowserCompletes(r)
      PROVE  TypeOK' /\ FramesMatch' /\ CallbacksAssigned'
  BY <1>8 DEF BrowserCompletes
<1>9. ASSUME NEW r \in queued, SwitchFinishes(r)
      PROVE  TypeOK' /\ FramesMatch' /\ CallbacksAssigned'
  <2>1. PICK a \in Pointees(r.arguments) :
          result' = [result EXCEPT ![a.thread] = @ \/ frame[a.thread] = a]
    BY <1>9 DEF SwitchFinishes
  <2>2. result' \in [Threads -> BOOLEAN]
    BY <2>1
  <2> QED BY <1>9, <2>2 DEF SwitchFinishes
<1>10. ASSUME NEW r \in queued, SwitchChains(r)
       PROVE  TypeOK' /\ FramesMatch' /\ CallbacksAssigned'
  <2>1. PICK a \in Pointees(r.arguments) :
          pending' = pending \cup {[id |-> r.id,
                                    arguments |-> callback[a.delegate],
                                    hops |-> r.hops + 1]}
    BY <1>10 DEF SwitchChains
  <2> DEFINE n == [id |-> r.id, arguments |-> callback[a.delegate],
                   hops |-> r.hops + 1]
  <2>2. r \in Completion /\ callback[a.delegate] \in CallId
    BY <2>1, PointeesAreCalls
  <2>3. r.hops + 1 \in 0..MaxChain
    BY <1>10, <2>2, BoundsAssumption DEF SwitchChains, Completion
  <2>4. n \in Completion /\ n.arguments = callback[a.delegate]
    BY <2>2, <2>3 DEF Completion
  \* callback_ holds a call of its own delegate, so the delegate the new
  \* completion names has its callback_ assigned.
  <2>5. callback[n.arguments.delegate] # NoCall
    <3>1. a.delegate \in Delegates
      BY <2>1, PointeesAreCalls DEF CallId
    <3> QED BY <2>2, <2>4, <3>1, NoCallAssumption
  <2>6. \A s \in pending' : s \in pending \/ s = n
    BY <2>1
  <2>7. pending' \in SUBSET Completion
    BY <2>4, <2>6
  <2> HIDE DEF n
  <2> QED BY <1>10, <2>5, <2>6, <2>7 DEF SwitchChains
<1>11. CASE ProxyLock
  BY <1>11 DEF ProxyLock
<1>12. CASE ProxySignal
  BY <1>12 DEF ProxySignal, Waiting
<1>13. CASE ProxyUnlock
  BY <1>13 DEF ProxyUnlock
<1>14. CASE UNCHANGED vars
  BY <1>14 DEF vars
<1>15. ASSUME NEW r \in queued, SwitchRefused(r)
       PROVE  TypeOK' /\ FramesMatch' /\ CallbacksAssigned'
  BY <1>15 DEF SwitchRefused
<1> QED
  BY <1>1, <1>2, <1>3, <1>4, <1>5, <1>6, <1>7, <1>8, <1>9, <1>10, <1>11,
     <1>12, <1>13, <1>14, <1>15 DEF Next, ThreadStep, MainStep, Finished

\* TypeOK holds in every reachable state: a chained completion always finds
\* callback_ assigned, and nothing is ever posted for a frame that is not one.
THEOREM TypeCorrect == Spec => []TypeOK
<1>1. Init => TypeInv
  <2> SUFFICES ASSUME Init PROVE TypeInv
    OBVIOUS
  <2>1. TypeOK
    BY BoundsAssumption, NoCallAssumption DEF Init, TypeOK
  <2> QED
    BY <2>1 DEF Init, TypeInv, FramesMatch, CallbacksAssigned, Outstanding
<1>2. TypeInv => TypeOK
  BY DEF TypeInv
<1> QED
  BY <1>1, <1>2, TypeInvStep, PTL DEF Spec

-----------------------------------------------------------------------------
(***************************************************************************)
(* Conservation of wake-ups.  Every completion that still has to signal,   *)
(* or would have had the request not been refused, stands for one thread   *)
(* that sleeps, because a thread posts and falls asleep under the mutex    *)
(* under which Proxy signals.  To count them, no completion may stand for  *)
(* a call twice (OneEach), none may be in two places (OnePlace), and a     *)
(* call about to be posted must be new (Fresh).                            *)
(***************************************************************************)
OneEach == \A r, s \in Owed : r.id = s.id => r = s

OnePlace ==
  /\ queued \cap pending = {}
  /\ (queued \cup pending) \cap running = {}
  /\ Outstanding \cap refused = {}

Fresh ==
  \A r \in Owed :
    /\ r.id.number <= calls[r.id.thread]
    /\ pc[r.id.thread] \in {"lock", "locked"} =>
         r.id.number < calls[r.id.thread]

MutexHeld ==
  /\ \A t \in Threads : pc[t] \in {"locked", "posted", "unlock"} <=> mutex = t
  /\ mainPc \in {"signal", "unlock"} <=> mutex = Main

SignallerRuns ==
  IF mainPc \in {"lock", "signal"}
  THEN \E r \in running : running = {r}
  ELSE running = {}

Balance ==
  /\ IsFiniteSet(Owed)
  /\ Cardinality(Asleep) <= Cardinality(Owed)
  /\ ~Spurious => Cardinality(Asleep) = Cardinality(Owed)

OrderInv == OneEach /\ OnePlace /\ Fresh /\ MutexHeld /\ SignallerRuns

CountInv == TypeInv /\ OrderInv /\ Balance

\* What CallOnMainThread posts stands for no completion there is.
LEMMA PostsNew ==
  ASSUME TypeInv, OrderInv, NEW t \in Threads, CallOnMainThread(t)
  PROVE  /\ frame[t] \in CallId
         /\ frame[t].thread = t
         /\ frame[t].number = calls[t]
         /\ \A r \in Owed : r.id # frame[t]
<1>1. frame[t] \in CallId /\ frame[t].thread = t /\ frame[t].number = calls[t]
  BY DEF CallOnMainThread, TypeInv, TypeOK, FramesMatch
<1>2. ASSUME NEW r \in Owed, r.id = frame[t] PROVE FALSE
  <2>1. r.id.thread = t /\ r.id.number = calls[t]
    BY <1>1, <1>2
  <2>2. r.id.number < calls[t]
    BY <2>1 DEF OrderInv, Fresh, CallOnMainThread
  <2> QED BY <2>1, <2>2 DEF TypeInv, TypeOK
<1> QED BY <1>1, <1>2

\* A chained request stands for the same call, and the completion it
\* replaces is gone: the main thread takes it out of its queue.
LEMMA ChainsReplace ==
  ASSUME TypeInv, OrderInv, NEW r \in queued, SwitchChains(r)
  PROVE  \E n \in Completion :
           /\ n.id = r.id
           /\ pending' = pending \cup {n}
           /\ n \notin Owed \ {r}
           /\ Owed' = (Owed \ {r}) \cup {n}
<1>1. PICK a \in Pointees(r.arguments) :
        pending' = pending \cup {[id |-> r.id,
                                  arguments |-> callback[a.delegate],
                                  hops |-> r.hops + 1]}
  BY DEF SwitchChains
<1> DEFINE n == [id |-> r.id, arguments |-> callback[a.delegate],
                 hops |-> r.hops + 1]
<1>2. r \in Outstanding /\ r \in Owed
  BY DEF Outstanding, Owed
<1>3. r \in Completion /\ callback[a.delegate] \in CallId
  BY <1>1, <1>2, PointeesAreCalls
<1>4. r.hops + 1 \in 0..MaxChain
  BY <1>3, BoundsAssumption DEF SwitchChains, Completion
<1>5. n \in Completion /\ n.id = r.id
  BY <1>3, <1>4 DEF Completion
<1>6. pending' = pending \cup {n}
  BY <1>1
<1> HIDE DEF n
<1>7. n \notin Owed \ {r}
  BY <1>2, <1>5 DEF OrderInv, OneEach
<1>8. r \notin pending \cup running \cup refused
  BY <1>2 DEF OrderInv, OnePlace
<1>9. queued' = queued \ {r} /\ running' = running /\ refused' = refused
  BY DEF SwitchChains
<1>10. Owed' = (Owed \ {r}) \cup {n}
  BY <1>6, <1>8, <1>9 DEF Outstanding, Owed
<1> QED BY <1>5, <1>6, <1>7, <1>10

LEMMA OrderInvStep == TypeInv /\ OrderInv /\ [Next]_vars => OrderInv'
<1> SUFFICES ASSUME TypeInv, OrderInv, [Next]_vars
             PROVE  OrderInv'
  OBVIOUS
<1>0. /\ \A r \in Owed : r \in Completion /\ r.id \in CallId
      /\ \A r \in Owed : r.id.thread \in Threads /\ r.id.number \in Nat
  BY BoundsAssumption DEF TypeInv, TypeOK, Outstanding, Owed, Completion, CallId
<1> USE DEF OrderInv, OneEach, OnePlace, Fresh, MutexHeld, SignallerRuns,
            threadVars, mainVars
<1>1. ASSUME NEW t \in Threads, NEW d \in Delegates, Call(t, d)
      PROVE  OrderInv'
  <2>1. /\ UNCHANGED <<queued, pending, running, refused, mainPc, mutex>>
        /\ pc[t] = "idle" /\ pc' = [pc EXCEPT ![t] = "lock"]
        /\ calls' = [calls EXCEPT ![t] = @ + 1]
    BY <1>1 DEF Call
  <2>2. Owed' = Owed
    BY <2>1 DEF Outstanding, Owed
  <2>3. Fresh'
    BY <1>0, <2>1, <2>2 DEF TypeInv, TypeOK
  <2>4. MutexHeld'
    BY <2>1, ThreadsAssumption DEF TypeInv, TypeOK
  <2> QED BY <2>1, <2>2, <2>3, <2>4 DEF Outstanding
<1>2. ASSUME NEW t \in Threads, LockMutex(t)
      PROVE  OrderInv'
  BY <1>0, <1>2, ThreadsAssumption DEF LockMutex, TypeInv, TypeOK, Outstanding, Owed
<1>3. ASSUME NEW t \in Threads, CallOnMainThread(t)
      PROVE  OrderInv'
  <2> DEFINE n == [id |-> frame[t], arguments |-> frame[t], hops |-> 0]
  <2>1. /\ frame[t].thread = t
        /\ frame[t].number = calls[t]
        /\ \A r \in Owed : r.id # frame[t]
    BY <1>3, PostsNew
  <2>2. n.id = frame[t]
    OBVIOUS
  <2>3. /\ pc[t] = "locked" /\ queued' = queued \cup {n}
        /\ pc' = [pc EXCEPT ![t] = "posted"]
        /\ UNCHANGED <<calls, mutex, pending, running, refused, mainPc>>
    BY <1>3 DEF CallOnMainThread
  <2> HIDE DEF n
  <2>4. Owed' = Owed \cup {n} /\ n \notin Owed
    BY <2>1, <2>2, <2>3 DEF Outstanding, Owed
  <2>5. OneEach' /\ OnePlace'
    BY <2>1, <2>2, <2>3, <2>4 DEF Outstanding, Owed
  <2>6. Fresh'
    <3> SUFFICES ASSUME NEW r \in Owed'
                 PROVE  /\ r.id.number <= calls[r.id.thread]
                        /\ pc'[r.id.thread] \in {"lock", "locked"} =>
                             r.id.number < calls[r.id.thread]
      BY <2>3
    <3>1. CASE r \in Owed
      BY <1>0, <2>3, <3>1 DEF TypeInv, TypeOK
    <3>2. CASE r = n
      <4>1. r.id.thread = t /\ r.id.number = calls[t] /\ calls[t] \in Int
        BY <2>1, <2>2, <3>2 DEF TypeInv, TypeOK
      <4> QED BY <2>3, <4>1 DEF TypeInv, TypeOK
    <3> QED BY <2>4, <3>1, <3>2
  <2>7. MutexHeld' /\ SignallerRuns'
    BY <2>3 DEF TypeInv, TypeOK
  <2> QED BY <2>5, <2>6, <2>7
<1>4. ASSUME NEW t \in Threads, CondWait(t)
      PROVE  OrderInv'
  BY <1>0, <1>4, ThreadsAssumption DEF CondWait, TypeInv, TypeOK, Outstanding, Owed
<1>5. ASSUME NEW t \in Threads, SpuriousWake(t)
      PROVE  OrderInv'
  BY <1>0, <1>5 DEF SpuriousWake, TypeInv, TypeOK, Outstanding, Owed
<1>6. ASSUME NEW t \in Threads, Reacquire(t)
      PROVE  OrderInv'
  BY <1>0, <1>6, ThreadsAssumption DEF Reacquire, TypeInv, TypeOK, Outstanding, Owed
<1>7. ASSUME NEW t \in Threads, Return(t)
      PROVE  OrderInv'
  BY <1>0, <1>7, ThreadsAssumption DEF Return, TypeInv, TypeOK, Outstanding, Owed
<1>8. ASSUME NEW r \in pending, BrowserCompletes(r)
      PROVE  OrderInv'
  <2>1. Owed' = Owed
    BY <1>8 DEF BrowserCompletes, Outstanding, Owed
  <2>2. Fresh' /\ OneEach'
    BY <1>8, <2>1 DEF BrowserCompletes
  <2> QED BY <1>8, <2>2 DEF BrowserCompletes, Outstanding
<1>9. ASSUME NEW r \in queued, SwitchFinishes(r)
      PROVE  OrderInv'
  <2>1. running = {} /\ r \notin pending
    BY <1>9 DEF SwitchFinishes
  <2>2. Owed' = Owed
    BY <1>9, <2>1 DEF SwitchFinishes, Outstanding, Owed
  <2>3. Fresh' /\ OneEach'
    BY <1>9, <2>2 DEF SwitchFinishes
  <2>4. OnePlace' /\ SignallerRuns' /\ MutexHeld'
    BY <1>9, <2>1 DEF SwitchFinishes, Outstanding
  <2> QED BY <2>3, <2>4
<1>10. ASSUME NEW r \in queued, SwitchChains(r)
       PROVE  OrderInv'
  <2>1. PICK n \in Completion :
          /\ n.id = r.id
          /\ pending' = pending \cup {n}
          /\ n \notin Owed \ {r}
          /\ Owed' = (Owed \ {r}) \cup {n}
    BY <1>10, ChainsReplace
  <2>2. /\ queued' = queued \ {r} /\ mainPc = "loop" /\ running = {}
        /\ UNCHANGED <<pc, calls, mutex, running, refused, mainPc>>
    BY <1>10 DEF SwitchChains
  <2>3. r \in Owed
    BY DEF Outstanding, Owed
  <2>4. OneEach' /\ Fresh'
    BY <2>1, <2>2, <2>3
  <2>5. OnePlace'
    BY <2>1, <2>2 DEF Outstanding, Owed
  <2> QED BY <2>2, <2>4, <2>5
<1>11. CASE ProxyLock
  BY <1>0, <1>11, ThreadsAssumption DEF ProxyLock, TypeInv, TypeOK, Outstanding, Owed
<1>12. CASE ProxySignal
  BY <1>0, <1>12, ThreadsAssumption
     DEF ProxySignal, Waiting, TypeInv, TypeOK, Outstanding, Owed
<1>13. CASE ProxyUnlock
  BY <1>0, <1>13, ThreadsAssumption DEF ProxyUnlock, TypeInv, TypeOK, Outstanding, Owed
<1>14. CASE UNCHANGED vars
  BY <1>14 DEF vars, Outstanding, Owed
<1>15. ASSUME NEW r \in queued, SwitchRefused(r)
       PROVE  OrderInv'
  <2>1. Owed' = Owed
    BY <1>15 DEF SwitchRefused, Outstanding, Owed
  <2>2. Fresh' /\ OneEach'
    BY <1>15, <2>1 DEF SwitchRefused
  <2>3. OnePlace' /\ SignallerRuns' /\ MutexHeld'
    BY <1>15 DEF SwitchRefused, Outstanding
  <2> QED BY <2>2, <2>3
<1> QED
  BY <1>1, <1>2, <1>3, <1>4, <1>5, <1>6, <1>7, <1>8, <1>9, <1>10, <1>11,
     <1>12, <1>13, <1>14, <1>15 DEF Next, ThreadStep, MainStep, Finished

LEMMA BalanceStep == CountInv /\ [Next]_vars => Balance'
<1> SUFFICES ASSUME CountInv, [Next]_vars
             PROVE  Balance'
  OBVIOUS
<1> USE DEF Balance, threadVars, mainVars
<1>0. /\ TypeInv /\ OrderInv /\ Balance
      /\ IsFiniteSet(Asleep)
      /\ Cardinality(Asleep) \in Nat /\ Cardinality(Owed) \in Nat
  BY ThreadsAssumption, FS_Subset, FS_CardinalityType DEF CountInv, Asleep
\* Steps that wake, put to sleep and post nobody.
<1>1. ASSUME Asleep' = Asleep, Owed' = Owed
      PROVE  Balance'
  BY <1>0, <1>1
<1>2. ASSUME NEW t \in Threads, CallOnMainThread(t)
      PROVE  Balance'
  <2> DEFINE n == [id |-> frame[t], arguments |-> frame[t], hops |-> 0]
  <2>1. Owed' = Owed \cup {n} /\ n \notin Owed
    BY <1>0, <1>2, PostsNew DEF CallOnMainThread, Outstanding, Owed
  <2>2. Asleep' = Asleep \cup {t} /\ t \notin Asleep
    BY <1>0, <1>2 DEF CallOnMainThread, Asleep, TypeInv, TypeOK
  <2> HIDE DEF n
  <2>3. /\ IsFiniteSet(Owed')
        /\ Cardinality(Owed') = Cardinality(Owed) + 1
    BY <1>0, <2>1, FS_AddElement
  <2>4. Cardinality(Asleep') = Cardinality(Asleep) + 1
    BY <1>0, <2>2, FS_AddElement
  <2> QED BY <1>0, <2>3, <2>4
<1>3. ASSUME NEW t \in Threads, SpuriousWake(t)
      PROVE  Balance'
  <2>1. Owed' = Owed /\ Spurious
    BY <1>3 DEF SpuriousWake, Outstanding, Owed
  <2>2. Asleep' \subseteq Asleep
    BY <1>0, <1>3 DEF SpuriousWake, Asleep, TypeInv, TypeOK
  <2>3. Cardinality(Asleep') \in Nat /\ Cardinality(Asleep') <= Cardinality(Asleep)
    BY <1>0, <2>2, FS_Subset, FS_CardinalityType
  <2> QED BY <1>0, <2>1, <2>3
<1>4. ASSUME NEW r \in queued, SwitchChains(r)
      PROVE  Balance'
  <2>1. PICK n \in Completion :
          /\ n.id = r.id
          /\ pending' = pending \cup {n}
          /\ n \notin Owed \ {r}
          /\ Owed' = (Owed \ {r}) \cup {n}
    BY <1>0, <1>4, ChainsReplace
  <2>2. r \in Owed
    BY DEF Outstanding, Owed
  <2>3. /\ IsFiniteSet(Owed \ {r})
        /\ Cardinality(Owed \ {r}) = Cardinality(Owed) - 1
    BY <1>0, <2>2, FS_RemoveElement
  <2>4. /\ IsFiniteSet(Owed')
        /\ Cardinality(Owed') = Cardinality(Owed \ {r}) + 1
    BY <2>1, <2>3, FS_AddElement
  <2>5. Asleep' = Asleep
    BY <1>4 DEF SwitchChains, Asleep
  <2> QED BY <1>0, <2>3, <2>4, <2>5
<1>5. ASSUME ProxySignal
      PROVE  Balance'
  <2>1. PICK r \in running : running = {r}
    BY <1>0, <1>5 DEF ProxySignal, OrderInv, SignallerRuns
  <2>2. r \in Owed /\ Owed' = Owed \ {r}
    BY <1>0, <1>5, <2>1 DEF ProxySignal, OrderInv, OnePlace, Outstanding, Owed
  <2>3. /\ IsFiniteSet(Owed')
        /\ Cardinality(Owed') = Cardinality(Owed) - 1
    BY <1>0, <2>2, FS_RemoveElement
  \* The main thread holds the mutex, so whoever is asleep is in the wait.
  <2>4. Asleep = Waiting
    BY <1>0, <1>5, ThreadsAssumption
       DEF ProxySignal, OrderInv, MutexHeld, Asleep, Waiting
  <2>5. CASE Waiting = {} /\ UNCHANGED pc
    <3>1. Cardinality(Asleep) = 0 /\ Asleep' = Asleep
      BY <2>4, <2>5, FS_EmptySet DEF Asleep
    <3>2. Cardinality(Owed) # 0
      BY <1>0, <2>2, FS_EmptySet
    <3> QED BY <1>0, <2>3, <3>1, <3>2
  <2>6. CASE \E t \in Waiting : pc' = [pc EXCEPT ![t] = "woken"]
    <3>1. PICK t \in Waiting : pc' = [pc EXCEPT ![t] = "woken"]
      BY <2>6
    <3>2. t \in Asleep /\ Asleep' = Asleep \ {t}
      BY <1>0, <2>4, <3>1 DEF Asleep, Waiting, TypeInv, TypeOK
    <3>3. Cardinality(Asleep') = Cardinality(Asleep) - 1
      BY <1>0, <3>2, FS_RemoveElement
    <3> QED BY <1>0, <2>3, <3>3
  <2> QED BY <1>5, <2>5, <2>6 DEF ProxySignal
<1>6. ASSUME NEW r \in queued, SwitchFinishes(r)
      PROVE  Balance'
  <2>1. Owed' = Owed
    BY <1>0, <1>6 DEF SwitchFinishes, OrderInv, SignallerRuns, Outstanding, Owed
  <2> QED BY <1>1, <1>6, <2>1 DEF SwitchFinishes, Asleep
<1>7. ASSUME NEW t \in Threads, NEW d \in Delegates, Call(t, d)
      PROVE  Balance'
  BY <1>0, <1>1, <1>7 DEF Call, Asleep, Outstanding, Owed, TypeInv, TypeOK
<1>8. ASSUME NEW t \in Threads,
             LockMutex(t) \/ CondWait(t) \/ Reacquire(t) \/ Return(t)
      PROVE  Balance'
  BY <1>0, <1>1, <1>8 DEF LockMutex, CondWait, Reacquire, Return, Asleep,
                          Outstanding, Owed, TypeInv, TypeOK
<1>9. ASSUME NEW r \in pending, BrowserCompletes(r)
      PROVE  Balance'
  BY <1>1, <1>9 DEF BrowserCompletes, Asleep, Outstanding, Owed
<1>10. ASSUME ProxyLock \/ ProxyUnlock \/ UNCHANGED vars
       PROVE  Balance'
  BY <1>1, <1>10 DEF ProxyLock, ProxyUnlock, vars, Asleep, Outstanding, Owed
<1>11. ASSUME NEW r \in queued, SwitchRefused(r)
       PROVE  Balance'
  BY <1>1, <1>11 DEF SwitchRefused, Asleep, Outstanding, Owed
<1> QED
  BY <1>2, <1>3, <1>4, <1>5, <1>6, <1>7, <1>8, <1>9, <1>10, <1>11
     DEF Next, ThreadStep, MainStep, Finished

LEMMA CountInvariant == Spec => []CountInv
<1>1. Init => CountInv
  <2> SUFFICES ASSUME Init PROVE CountInv
    OBVIOUS
  <2>1. TypeInv
    BY BoundsAssumption, NoCallAssumption
       DEF Init, TypeInv, TypeOK, FramesMatch, CallbacksAssigned, Outstanding, Owed
  <2>2. OrderInv
    BY ThreadsAssumption DEF Init, OrderInv, OneEach, OnePlace, Fresh,
                             MutexHeld, SignallerRuns, Outstanding, Owed
  <2>3. Asleep = {} /\ Owed = {}
    BY DEF Init, Asleep, Outstanding, Owed
  <2>4. Balance
    BY <2>3, FS_EmptySet DEF Balance
  <2> QED BY <2>1, <2>2, <2>4 DEF CountInv
<1>2. CountInv /\ [Next]_vars => CountInv'
  BY TypeInvStep, OrderInvStep, BalanceStep DEF CountInv
<1> QED BY <1>1, <1>2, PTL DEF Spec

\* As many signals are to come as threads sleep in Delegate::Call, but for one for
\* each request that was refused unseen, however many threads share cond_ and whether
\* or not pthread_cond_wait wakes spuriously.
THEOREM WakeupsConserved == Spec => []WakeupOwed
<1>1. CountInv => WakeupOwed
  BY DEF CountInv, Balance, WakeupOwed
<1> QED BY <1>1, CountInvariant, PTL

\* Without spurious wake-ups the signal that Proxy sends is never lost.
THEOREM SignalsNotWasted ==
  ASSUME ~Spurious
  PROVE  Spec => []SignalFindsWaiter
<1>1. CountInv => SignalFindsWaiter
  <2> SUFFICES ASSUME CountInv, mainPc = "signal", Waiting = {}
               PROVE  FALSE
    BY DEF SignalFindsWaiter
  <2>1. Asleep = {}
    BY ThreadsAssumption DEF CountInv, OrderInv, MutexHeld, Asleep, Waiting
  <2>2. PICK r \in running : running = {r}
    BY DEF CountInv, OrderInv, SignallerRuns
  <2>3. Cardinality(Owed) = 0
    BY <2>1, FS_EmptySet DEF CountInv, Balance
  <2>4. r \in Owed
    BY DEF Outstanding, Owed
  <2> QED BY <2>3, <2>4, FS_EmptySet DEF CountInv, Balance
<1> QED BY <1>1, CountInvariant, PTL

-----------------------------------------------------------------------------
(***************************************************************************)
(* One application thread, which is all that naclfs_crt.cc creates.  The   *)
(* only completion there can be is that of the live frame: callback_ names *)
(* that frame, so a chained request does too.                              *)
(***************************************************************************)
OneCaller == \A s, t \in Threads : s = t

OwnFrame ==
  \A r \in Outstanding :
    r.arguments = r.id /\ frame[r.id.thread] = r.id

OwnCallback ==
  \A t \in Threads : frame[t] # NoCall => callback[frame[t].delegate] = frame[t]

ResultStored ==
  \A t \in Threads :
    pc[t] \in {"woken", "unlock"} \/ running # {} => result[t]

SoloInv == OwnFrame /\ OwnCallback /\ ResultStored

\* While the caller is not asleep nothing is under way for it.
LEMMA QuietUnlessAsleep ==
  ASSUME OneCaller, ~Spurious, CountInv,
         NEW t \in Threads, pc[t] \notin {"posted", "waiting"}
  PROVE  Outstanding = {}
<1>1. Asleep = {}
  BY DEF OneCaller, Asleep
<1>2. Cardinality(Owed) = 0 /\ IsFiniteSet(Owed)
  BY <1>1, FS_EmptySet DEF CountInv, Balance
<1> QED BY <1>2, FS_EmptySet DEF Owed

LEMMA SoloInvStep ==
  ASSUME OneCaller, ~Spurious, CountInv, CountInv', SoloInv, [Next]_vars
  PROVE  SoloInv'
<1> USE DEF SoloInv, OwnFrame, OwnCallback, ResultStored, threadVars, mainVars
<1>0. /\ TypeInv /\ TypeInv' /\ OrderInv
      /\ \A r \in Outstanding : r \in Completion /\ r.id.thread \in Threads
  BY DEF CountInv, TypeInv, TypeOK, Outstanding, Completion, CallId
<1>1. ASSUME NEW t \in Threads, NEW d \in Delegates, Call(t, d)
      PROVE  SoloInv'
  <2>1. Outstanding = {} /\ Outstanding' = Outstanding /\ running' = {}
    BY <1>1, QuietUnlessAsleep DEF Call, Outstanding
  <2>2. \A s \in Threads : s = t
    BY DEF OneCaller
  <2> DEFINE c == [thread |-> t, number |-> calls[t] + 1, delegate |-> d]
  <2>3. /\ frame' = [frame EXCEPT ![t] = c]
        /\ callback' = [callback EXCEPT ![d] = c]
        /\ pc' = [pc EXCEPT ![t] = "lock"]
        /\ c.delegate = d
    BY <1>1 DEF Call
  <2> HIDE DEF c
  <2>4. OwnCallback'
    BY <1>0, <2>2, <2>3 DEF TypeInv, TypeOK
  <2>5. ResultStored'
    BY <1>0, <2>1, <2>2, <2>3 DEF TypeInv, TypeOK
  <2> QED BY <2>1, <2>4, <2>5
<1>2. ASSUME NEW t \in Threads, CallOnMainThread(t)
      PROVE  SoloInv'
  <2> DEFINE n == [id |-> frame[t], arguments |-> frame[t], hops |-> 0]
  <2>1. Outstanding = {} /\ frame[t].thread = t
    BY <1>0, <1>2, QuietUnlessAsleep, PostsNew DEF CallOnMainThread
  <2>2. Outstanding' = {n}
    BY <1>2, <2>1 DEF CallOnMainThread, Outstanding
  <2>3. n.id = frame[t] /\ n.arguments = frame[t]
    OBVIOUS
  <2> HIDE DEF n
  <2> QED BY <1>0, <1>2, <2>1, <2>2, <2>3
         DEF CallOnMainThread, TypeInv, TypeOK, Outstanding
<1>3. ASSUME NEW t \in Threads, Return(t)
      PROVE  SoloInv'
  <2>1. Outstanding = {} /\ Outstanding' = Outstanding
    BY <1>3, QuietUnlessAsleep DEF Return, Outstanding
  <2> QED BY <1>0, <1>3, <2>1 DEF Return, TypeInv, TypeOK, Outstanding
<1>4. ASSUME NEW t \in Threads, LockMutex(t) \/ CondWait(t) \/ Reacquire(t)
      PROVE  SoloInv'
  BY <1>0, <1>4 DEF LockMutex, CondWait, Reacquire, TypeInv, TypeOK, Outstanding
<1>5. ASSUME NEW r \in pending, BrowserCompletes(r)
      PROVE  SoloInv'
  BY <1>0, <1>5 DEF BrowserCompletes, Outstanding
\* The operation sees its own live frame, not freed memory.
<1>6. ASSUME NEW r \in queued
      PROVE  /\ r.id.thread \in Threads
             /\ frame[r.id.thread] = r.id
             /\ Pointees(r.arguments) = {r.id}
  BY <1>0 DEF Outstanding, Pointees
<1>7. ASSUME NEW r \in queued, SwitchFinishes(r)
      PROVE  SoloInv'
  <2>1. Outstanding' = Outstanding
    BY <1>0, <1>7 DEF SwitchFinishes, OrderInv, SignallerRuns, Outstanding
  <2>2. PICK a \in Pointees(r.arguments) :
          result' = [result EXCEPT ![a.thread] = @ \/ frame[a.thread] = a]
    BY <1>7 DEF SwitchFinishes
  <2>3. result'[r.id.thread]
    <3>1. a = r.id
      BY <1>6
    <3>2. r.id.thread \in DOMAIN result
      BY <1>0, <1>6 DEF TypeInv, TypeOK
    <3>3. result'[r.id.thread] = (result[r.id.thread] \/ frame[r.id.thread] = r.id)
      BY <2>2, <3>1, <3>2, Zenon
    <3> QED BY <1>6, <3>3
  <2>4. \A t \in Threads : result'[t]
    BY <1>6, <2>3 DEF OneCaller
  <2> QED BY <1>0, <1>7, <2>1, <2>4 DEF SwitchFinishes
<1>8. ASSUME NEW r \in queued, SwitchChains(r)
      PROVE  SoloInv'
  <2> DEFINE n == [id |-> r.id, arguments |-> callback[r.id.delegate],
                   hops |-> r.hops + 1]
  <2>1. pending' = pending \cup {n}
    BY <1>6, <1>8 DEF SwitchChains
  <2>2. callback[r.id.delegate] = r.id
    <3>1. r.id # NoCall
      BY <1>0, NoCallAssumption DEF Completion, Outstanding
    <3> QED BY <1>6, <3>1
  <2>3. n.id = r.id /\ n.arguments = r.id
    BY <2>2
  <2> HIDE DEF n
  <2>4. \A s \in Outstanding' : s \in Outstanding \/ s = n
    BY <1>8, <2>1 DEF SwitchChains, Outstanding
  <2> QED BY <1>6, <1>8, <2>3, <2>4 DEF SwitchChains
<1>9. ASSUME ProxySignal
      PROVE  SoloInv'
  <2>1. running # {} /\ Outstanding' \subseteq Outstanding
    BY <1>0, <1>9 DEF ProxySignal, OrderInv, SignallerRuns, Outstanding
  <2> QED BY <1>9, <2>1 DEF ProxySignal
<1>10. ASSUME ProxyLock \/ ProxyUnlock \/ UNCHANGED vars
       PROVE  SoloInv'
  BY <1>10 DEF ProxyLock, ProxyUnlock, vars, Outstanding
<1>11. ASSUME NEW r \in queued, SwitchRefused(r)
       PROVE  SoloInv'
  BY <1>11 DEF SwitchRefused, Outstanding
<1> QED
  BY <1>1, <1>2, <1>3, <1>4, <1>5, <1>7, <1>8, <1>9, <1>10, <1>11
     DEF Next, ThreadStep, MainStep, Finished, SpuriousWake

\* With one caller and no spurious wake-up, a call returns its own result and
\* the main thread never touches the Arguments of a call that has returned.
THEOREM OneCallerSafe ==
  ASSUME OneCaller, ~Spurious
  PROVE  Spec => [](WokenWithResult /\ ArgumentsAlive)
<1>1. Init => SoloInv
  BY DEF Init, SoloInv, OwnFrame, OwnCallback, ResultStored, Outstanding
<1>2. CountInv /\ CountInv' /\ SoloInv /\ [Next]_vars => SoloInv'
  BY SoloInvStep
<1>3. CountInv /\ SoloInv => WokenWithResult /\ ArgumentsAlive
  BY DEF SoloInv, OwnFrame, ResultStored, WokenWithResult, ArgumentsAlive
<1> QED BY <1>1, <1>2, <1>3, CountInvariant, PTL DEF Spec
=============================================================================
