--------------------------- MODULE InstanceProofs ---------------------------
(***************************************************************************)
(* Theorems about Instance.  What is proved of Descriptors holds of the    *)
(* plugin, because each of its steps is a step of Descriptors or none; and *)
(* its two threads never call at the same time, so that what Descriptors   *)
(* promises of calls that do not overlap holds without a condition.        *)
(***************************************************************************)
EXTENDS Instance, FiniteSetTheorems, SequenceTheorems, TLAPS

P == INSTANCE DescriptorsProofs WITH Threads <- {App}, Paths <- OpenedPaths

LEMMA OneThread == P!IsFiniteSet({App})
<1>1. IsFiniteSet({App})
  BY FS_Singleton
<1> QED BY <1>1 DEF IsFiniteSet, P!IsFiniteSet

LEMMA PathsFit == OpenedPaths \subseteq P!Ports \cup {P!Unknown, P!File} /\ P!File \in OpenedPaths
BY PathsAssumption DEF OpenedPaths, P!Ports, D!Ports, P!Unknown, D!Unknown, D!File, P!File, 
   P!Standard, D!Standard

\* What the theorems speak of is what Instance is composed of.
LEMMA SameTypes == D!TypeOK <=> P!TypeOK
BY Zenon DEF D!TypeOK, P!TypeOK, D!live, P!live, D!Ports, P!Ports, D!Standard, P!Standard, D!Unknown,
   P!Unknown, D!File, P!File, D!Callers, P!Callers, D!Places, P!Places, D!PathCalls, P!PathCalls,
   D!DescriptorCalls, P!DescriptorCalls, D!Bad, P!Bad

LEMMA SameOwners == (D!Accounted <=> P!Accounted) /\ (D!InUseAlive <=> P!InUseAlive)
BY Zenon DEF D!Accounted, P!Accounted, D!InUseAlive, P!InUseAlive, D!live, P!live, D!Serving, P!Serving,
   D!Dying, P!Dying, D!Making, P!Making, D!Callers, P!Callers

LEMMA SameInit == D!Init <=> P!Init
BY Zenon DEF D!Init, P!Init, D!File, P!File, D!Callers, P!Callers
LEMMA SameNext == [D!Next]_(D!vars) <=> [P!Next]_(P!vars)
BY Zenon DEF D!New, P!New, D!Made, P!Made, D!BeginPush, P!BeginPush, D!EndPush, P!EndPush, D!Bound, P!Bound, D!Look, P!Look,
   D!Use, P!Use, D!Used, P!Used, D!Close, P!Close, D!Closed, P!Closed, D!Delete, P!Delete,
   D!Clear, P!Clear, D!Step, P!Step, D!Torn, P!Torn, D!Found, P!Found, D!Wreckage, P!Wreckage,
   D!Next, P!Next, D!Begin, P!Begin, D!Go, P!Go, D!Return, P!Return, D!Free, P!Free,
   D!Overlaps, P!Overlaps, D!Enter, P!Enter, D!GetDelegate, P!GetDelegate,
   D!Accessible, P!Accessible, D!May, P!May, D!Answer, P!Answer, D!Keeps, P!Keeps,
   D!Pushed, P!Pushed, D!LastSlot, P!LastSlot, D!Callers, P!Callers, D!Standard, P!Standard,
   D!Ports, P!Ports, D!Unknown, P!Unknown, D!File, P!File, D!NoPath, P!NoPath, D!Bad, P!Bad,
   D!live, P!live, D!PathCalls, P!PathCalls, D!DescriptorCalls, P!DescriptorCalls,
   D!vars, P!vars, D!Cardinality, P!Cardinality, D!BoundedSeq, P!BoundedSeq,
   D!SeqOf, P!SeqOf

LEMMA SameSpec == D!Spec <=> P!Spec
BY SameInit, SameNext, PTL DEF D!Spec, P!Spec

-----------------------------------------------------------------------------

\* Every step of the plugin is a step of Descriptors, or leaves it alone.
LEMMA StepOfDescriptors == begun \in 0..3 /\ [Next]_vars => [D!Next]_(D!vars)
<1> SUFFICES ASSUME begun \in 0..3, Next PROVE [D!Next]_(D!vars)
  BY DEF vars, descriptorVars, D!vars
<1> USE DEF D!vars, descriptorVars
<1>1. App \in D!Callers /\ Main \in D!Callers
  BY DEF D!Callers
<1>2. ASSUME begun \in 0..3, OpenStandard
      PROVE  D!Next
  <2>1. D!Standard[begun + 1] \in OpenedPaths
    BY <1>2 DEF OpenStandard, OpenedPaths, D!Standard
  <2> QED BY <1>1, <1>2, <2>1 DEF OpenStandard, D!Next, D!PathCalls
<1>3. CASE MainSteps
  BY <1>1, <1>3 DEF MainSteps, D!Next
<1>4. CASE AppCalls
  BY <1>1, <1>4 DEF AppCalls, D!Next, OpenedPaths
<1>5. CASE AppReadsOrWrites
  <2>1. PICK f \in 0..2 : D!Use(App, "use", f)
    BY <1>5 DEF AppReadsOrWrites
  <2>2. f \in -1..MaxTable
    BY BoundsAssumption
  <2> QED BY <1>1, <2>1, <2>2 DEF D!Next, D!DescriptorCalls
<1>6. CASE AppStep
  BY <1>1, <1>6 DEF AppStep, D!Next
<1>7. CASE CreateInstance \/ CreateThread \/ HandleMessage \/ Destroy \/ Join \/ Log \/ Logged
       \/ Sleep \/ Wake \/ AppReturns
  BY <1>7 DEF CreateInstance, CreateThread, HandleMessage, Destroy, Join, Log, Logged, Sleep, Wake,
              AppReturns
<1> QED BY <1>2, <1>3, <1>4, <1>5, <1>6, <1>7 DEF Next, MainNext, AppNext

-----------------------------------------------------------------------------

\* Types of what Instance adds to Descriptors.
OwnTypes ==
  /\ life \in Lives /\ begun \in 0..3
  /\ thread \in ThreadStates
  /\ typed \in 0..MaxTyped

\* The main thread opens the standard descriptors before the application's thread
\* runs, and calls nothing afterwards.
Phases ==
  /\ thread = "none" <=> life \in {"none", "created"}
  /\ thread = "none" => pc[App] = "idle"
  /\ thread # "none" => pc[Main] = "idle"
  /\ pc[Main] \in {"idle", "made", "bind", "push", "bound"}
  /\ op[Main] \in {"none", "open"} /\ (pc[Main] # "idle" => op[Main] = "open")

OneAtATime == OwnTypes /\ Phases /\ ~conflict

LEMMA OneAtATimeInit == Init => OneAtATime
BY BoundsAssumption, ThreadAssumption
   DEF Init, OneAtATime, OwnTypes, Phases, D!Init, D!Callers, Lives, ThreadStates

\* What a step of one caller does to the other; and while the other is idle it
\* overlaps nothing.
LEMMA StepMoves ==
  ASSUME NEW a \in D!Callers, D!TypeOK, D!Step(a)
  PROVE  /\ \E place \in D!Places : pc' = [pc EXCEPT ![a] = place]
         /\ (\A b \in D!Callers \ {a} : pc[b] = "idle") => conflict' = conflict
         /\ pc[a] # "idle"
BY DEF D!Step, D!TypeOK, D!Made, D!BeginPush, D!EndPush, D!Bound, D!Used, D!Closed, D!Delete,
   D!Clear, D!Go, D!Return, D!Begin, D!Places, D!Torn

LEMMA NewMoves ==
  ASSUME NEW a \in D!Callers, NEW o, NEW p, D!TypeOK, D!New(a, o, p)
  PROVE  /\ \/ pc' = [pc EXCEPT ![a] = "made"] /\ op' = [op EXCEPT ![a] = o]
            \/ pc' = [pc EXCEPT ![a] = "idle"] /\ op' = [op EXCEPT ![a] = "none"]
         /\ pc[a] = "idle" /\ conflict' = conflict
BY DEF D!New, D!TypeOK, D!Begin, D!Return, D!Enter

LEMMA UseMoves ==
  ASSUME NEW a \in D!Callers, NEW o, NEW f, NEW place \in D!Places, D!TypeOK, D!Look(a, o, f, place)
  PROVE  /\ \E place2 \in D!Places : pc' = [pc EXCEPT ![a] = place2]
         /\ \A b \in D!Callers \ {a} : op'[b] = op[b]
         /\ pc[a] = "idle"
BY DEF D!Look, D!TypeOK, D!Begin, D!Return, D!Places, D!Enter

\* A lookup that finds the other thread idle overlaps nothing, and finds what the
\* table holds.
LEMMA LooksAlone ==
  ASSUME NEW a \in D!Callers, NEW o, NEW f, NEW place, D!Look(a, o, f, place), ~conflict,
         \A b \in D!Callers \ {a} : pc[b] = "idle" /\ op[b] \in D!PathCalls \cup {"none"}
  PROVE  ~conflict'
BY Zenon DEF D!Look, D!Overlaps, D!Torn

LEMMA OneAtATimeStep == D!TypeOK /\ OneAtATime /\ [Next]_vars => OneAtATime'
<1> SUFFICES ASSUME D!TypeOK, OneAtATime, [Next]_vars PROVE OneAtATime'
  OBVIOUS
<1>0. App \in D!Callers /\ Main \in D!Callers /\ D!Callers = {App, Main} /\ App # Main
  BY ThreadAssumption DEF D!Callers
<1>1. pc \in [D!Callers -> D!Places] /\ DOMAIN op = D!Callers
  BY DEF D!TypeOK
<1> USE DEF OneAtATime, Phases, OwnTypes, descriptorVars
<1>2. CASE OpenStandard
  <2>1. D!New(Main, "open", D!Standard[begun + 1]) /\ thread = "none"
    BY <1>2 DEF OpenStandard
  <2>2. /\ \/ pc' = [pc EXCEPT ![Main] = "made"] /\ op' = [op EXCEPT ![Main] = "open"]
           \/ pc' = [pc EXCEPT ![Main] = "idle"] /\ op' = [op EXCEPT ![Main] = "none"]
        /\ conflict' = conflict
    BY <1>0, <2>1, NewMoves
  <2>3. ~conflict'
    BY <2>2
  <2> QED BY <1>0, <1>1, <1>2, <2>1, <2>2, <2>3 DEF OpenStandard
<1>3. CASE MainSteps
  <2>1. D!Made(Main) \/ D!BeginPush(Main) \/ D!EndPush(Main) \/ D!Bound(Main)
    BY <1>3 DEF MainSteps, D!Step, D!Used, D!Closed, D!Delete, D!Clear
  <2>2. pc[Main] # "idle" /\ thread = "none" /\ op[Main] = "open"
    BY <2>1 DEF D!Made, D!BeginPush, D!EndPush, D!Bound
  <2>3. \/ pc' = [pc EXCEPT ![Main] = "idle"] /\ op' = [op EXCEPT ![Main] = "none"]
        \/ /\ op' = [op EXCEPT ![Main] = op[Main]]
           /\ \E x \in {"bind", "push", "bound"} : pc' = [pc EXCEPT ![Main] = x]
    BY <2>1 DEF D!Made, D!BeginPush, D!EndPush, D!Bound, D!Return, D!Go, D!Begin
  <2>4. conflict' = conflict
    BY <1>0, <1>3, <2>2, StepMoves DEF MainSteps
  <2> QED BY <1>0, <1>1, <1>3, <2>2, <2>3, <2>4 DEF MainSteps
<1>4. ASSUME NEW o, NEW f, NEW place \in D!Places, D!Look(App, o, f, place), thread # "none"
      PROVE  /\ \E place2 \in D!Places : pc' = [pc EXCEPT ![App] = place2]
             /\ op'[Main] = op[Main]
             /\ ~conflict'
  <2>1. \A b \in D!Callers \ {App} : pc[b] = "idle" /\ op[b] \in D!PathCalls \cup {"none"}
    BY <1>0, <1>4 DEF D!PathCalls
  <2>2. ~conflict'
    BY <1>0, <1>4, <2>1, LooksAlone
  <2> QED BY <1>0, <1>4, <2>2, UseMoves
<1>5. CASE AppCalls
  <2>1. thread # "none" /\ GoesOn \subseteq {"running", "calling", "alone", "reading", "peeking"}
    BY <1>5 DEF AppCalls, GoesOn
  <2>2. /\ \E place \in D!Places : pc' = [pc EXCEPT ![App] = place]
        /\ op'[Main] = op[Main]
        /\ ~conflict'
    <3>1. CASE \E o \in D!PathCalls, p \in Paths \cup {D!NoPath} : D!New(App, o, p)
      BY <1>0, <1>1, <3>1, NewMoves DEF D!Places
    <3>2. CASE \E f \in -1..MaxTable : D!Close(App, f)
      BY <1>4, <2>1, <3>2 DEF D!Close, D!Places
    <3>3. CASE \E f \in -1..MaxTable, o \in D!DescriptorCalls : D!Use(App, o, f)
      BY <1>4, <2>1, <3>3 DEF D!Use, D!Places
    <3> QED BY <1>5, <3>1, <3>2, <3>3 DEF AppCalls
  <2> QED BY <1>0, <1>1, <1>5, <2>1, <2>2 DEF AppCalls, ThreadStates
<1>6. CASE AppReadsOrWrites
  <2>1. thread # "none" /\ GoesOn \subseteq {"running", "calling", "alone", "reading", "peeking"}
    BY <1>6 DEF AppReadsOrWrites, GoesOn
  <2>2. PICK f \in 0..2 : D!Use(App, "use", f) /\ thread' \in GoesOn
    BY <1>6 DEF AppReadsOrWrites
  <2>3. /\ \E place \in D!Places : pc' = [pc EXCEPT ![App] = place]
        /\ op'[Main] = op[Main]
        /\ ~conflict'
    BY <1>4, <2>1, <2>2 DEF D!Use, D!Places
  <2> QED BY <1>0, <1>1, <1>6, <2>1, <2>2, <2>3 DEF AppReadsOrWrites, ThreadStates
<1>7. CASE AppStep
  <2>1. thread # "none" /\ pc[Main] = "idle"
    BY <1>7 DEF AppStep
  <2>2. /\ \E place \in D!Places : pc' = [pc EXCEPT ![App] = place]
        /\ conflict' = conflict
    BY <1>0, <1>7, <2>1, StepMoves DEF AppStep
  <2>3. op'[Main] = op[Main]
    BY <1>0, <1>1, <1>7
       DEF AppStep, D!Step, D!Made, D!BeginPush, D!EndPush, D!Bound, D!Used, D!Closed, D!Delete,
           D!Clear, D!Go, D!Return, D!Begin
  <2>4. typed' \in 0..MaxTyped
    BY <1>7, BoundsAssumption DEF AppStep, HasByte, Left
  <2>5. thread' \in ThreadStates \ {"none"} /\ UNCHANGED <<life, begun, locked, asleep>>
    BY <1>7, <2>1 DEF AppStep, ThreadStates, mutexVars
  <2> QED BY <1>0, <1>1, <2>1, <2>2, <2>3, <2>4, <2>5
<1>8. CASE HandleMessage
  <2>1. typed' \in 0..MaxTyped
    BY <1>8, BoundsAssumption DEF HandleMessage, Stored
  <2> QED BY <1>8, <2>1 DEF HandleMessage
<1>9. CASE CreateInstance \/ CreateThread \/ Destroy \/ Join
  BY <1>9 DEF CreateInstance, CreateThread, Destroy, Join, Lives, ThreadStates, Opened, mutexVars
<1>10. CASE Log \/ Logged \/ Sleep \/ Wake \/ AppReturns
  BY <1>10 DEF Log, Logged, Sleep, Wake, AppReturns, ThreadStates, mutexVars
<1>11. CASE UNCHANGED vars
  BY <1>11 DEF vars, mutexVars
<1> QED BY <1>2, <1>3, <1>5, <1>6, <1>7, <1>8, <1>9, <1>10, <1>11 DEF Next, MainNext, AppNext

-----------------------------------------------------------------------------

LEMMA BegunInRange == Spec => [](begun \in 0..3)
<1>1. Init => begun \in 0..3
  BY DEF Init
<1>2. begun \in 0..3 /\ [Next]_vars => (begun \in 0..3)'
  BY DEF Next, MainNext, AppNext, vars, CreateInstance, OpenStandard, MainSteps, CreateThread,
         HandleMessage, Destroy, Join, Log, Logged, AppCalls, AppReadsOrWrites, AppStep, Sleep, Wake, AppReturns
<1> QED BY <1>1, <1>2, PTL DEF Spec

LEMMA MutexTypes == Spec => [](locked \in BOOLEAN /\ asleep \in BOOLEAN)
<1>1. Init => locked \in BOOLEAN /\ asleep \in BOOLEAN
  BY DEF Init
<1>2. locked \in BOOLEAN /\ asleep \in BOOLEAN /\ [Next]_vars => (locked \in BOOLEAN /\ asleep \in BOOLEAN)'
  BY Zenon DEF Next, MainNext, AppNext, vars, mutexVars, CreateInstance, OpenStandard, MainSteps,
     CreateThread, HandleMessage, Destroy, Join, Log, Logged, AppCalls, AppReadsOrWrites, AppStep,
     Sleep, Wake, AppReturns
<1> QED BY <1>1, <1>2, PTL DEF Spec

\* The plugin's use of the descriptor table is what Descriptors describes, with the
\* application's thread and the main thread as callers.
THEOREM ImplementsDescriptors == Spec => D!Spec
<1>1. Init => D!Init
  BY DEF Init
<1> QED BY <1>1, StepOfDescriptors, BegunInRange, PTL DEF Spec, D!Spec

LEMMA DescriptorsHold == D!Spec => []D!TypeOK /\ []D!Accounted /\ []D!InUseAlive
<1>1. P!Spec => []P!TypeOK
  BY OneThread, PathsFit, BoundsAssumption, DelegatesAssumption, P!TypeCorrect
<1>2. P!Spec => []P!Accounted
  BY OneThread, PathsFit, BoundsAssumption, DelegatesAssumption, P!DelegatesAccounted
<1>3. P!Spec => []P!InUseAlive
  BY OneThread, PathsFit, BoundsAssumption, DelegatesAssumption, P!NoUseAfterDelete
<1> QED BY <1>1, <1>2, <1>3, SameSpec, SameTypes, SameOwners, PTL

LEMMA Invariance == Spec => [](D!TypeOK /\ D!Accounted /\ D!InUseAlive /\ OneAtATime)
BY OneAtATimeInit, OneAtATimeStep, ImplementsDescriptors, DescriptorsHold, PTL DEF Spec

\* The types of the plugin's state, the descriptor table included.
THEOREM TypeCorrect == Spec => []TypeOK
<1>1. D!TypeOK /\ OneAtATime /\ locked \in BOOLEAN /\ asleep \in BOOLEAN => TypeOK
  BY DEF OneAtATime, OwnTypes, TypeOK
<1> QED BY <1>1, Invariance, MutexTypes, PTL

\* Init's calls and the application's never overlap.
THEOREM CallsNeverOverlap == Spec => []NeverConflict
<1>1. OneAtATime => NeverConflict
  BY DEF OneAtATime, NeverConflict
<1> QED BY <1>1, Invariance, PTL

\* In the plugin, without any condition, every delegate has one owner and no method
\* runs on a delegate that has been deleted.
THEOREM PluginDelegatesSafe ==
  Spec => [](/\ D!live = {table[i] : i \in D!Serving} \cup {held[a] : a \in D!Making}
             /\ \A a \in D!Callers :
                  pc[a] \in {"made", "bind", "push", "using", "closing"} => held[a] \in D!live)
<1>1. D!Accounted /\ D!InUseAlive /\ OneAtATime =>
        /\ D!live = {table[i] : i \in D!Serving} \cup {held[a] : a \in D!Making}
        /\ \A a \in D!Callers :
             pc[a] \in {"made", "bind", "push", "using", "closing"} => held[a] \in D!live
  BY DEF D!Accounted, D!InUseAlive, OneAtATime
<1> QED BY <1>1, Invariance, PTL

-----------------------------------------------------------------------------

(***************************************************************************)
(* Until the application's thread runs, the table has grown by what Init   *)
(* has opened, and an open that is under way is of the next standard path. *)
(* A slot of a standard descriptor whose delegate exists keeps it: an      *)
(* address is used again only when no slot holds it.                       *)
(***************************************************************************)
Growing ==
  /\ pc[Main] \in {"made", "bind", "push"} => begun >= 1 /\ name[held[Main]] = D!Standard[begun]
  /\ thread = "none" =>
       Len(table) = IF pc[Main] \in {"made", "bind", "push"} THEN begun - 1 ELSE begun
  /\ thread # "none" => Len(table) >= 3

Standing ==
  \A i \in 1..3 : i <= Len(table) /\ table[i] \in D!live => name[table[i]] = D!Standard[i]

Context == D!TypeOK /\ D!Accounted /\ OneAtATime /\ OneAtATime'

LEMMA StandingInit == Init => Growing /\ Standing
BY ThreadAssumption DEF Init, D!Init, Growing, Standing, D!Callers

\* A delegate in the table, or in the frame of an open, exists, unless its close is
\* about to clear the slot.
LEMMA SlotsLive ==
  ASSUME Context, NEW i \in 1..Len(table), table[i] # Null,
         \A a \in D!Callers : pc[a] # "deleted"
  PROVE  table[i] \in D!live
BY DEF Context, OneAtATime, D!Accounted, D!Serving, D!Dying

LEMMA MadeLive ==
  ASSUME Context, NEW a \in D!Callers, pc[a] \in {"made", "bind", "push"}
  PROVE  held[a] \in D!live
BY DEF Context, OneAtATime, D!Accounted, D!Making

\* A new delegate leaves the standard descriptors as they are.
LEMMA StandingNew ==
  ASSUME Context, Standing, NEW a \in D!Callers, NEW o, NEW p, D!New(a, o, p),
         \A b \in D!Callers : pc[b] # "deleted"
  PROVE  Standing' /\ table' = table
<1>1. table' = table
  BY DEF D!New
<1>2. CASE p = D!NoPath
  BY <1>1, <1>2 DEF D!New, Standing, D!live
<1>3. CASE p # D!NoPath
  <2>1. PICK d \in Delegates \ D!live :
          name' = [e \in D!live \cup {d} |-> IF e = d THEN p ELSE name[e]]
    BY <1>3 DEF D!New
  <2>2. ASSUME NEW i \in 1..3, i <= Len(table), table[i] \in D!live \cup {d}
        PROVE  name'[table[i]] = D!Standard[i]
    <3>1. table \in Seq(Delegates \cup {Null}) /\ Len(table) \in Nat
      BY LenProperties DEF Context, D!TypeOK
    <3>2. table[i] # d
      BY <2>1, <2>2, <3>1, SlotsLive, DelegatesAssumption
    <3> QED BY <2>1, <2>2, <3>2 DEF Standing
  <2> QED BY <1>1, <2>1, <2>2 DEF Standing, D!live
<1> QED BY <1>2, <1>3

LEMMA StandingFree ==
  ASSUME Standing, UNCHANGED table, NEW d, D!Free(d)
  PROVE  Standing'
BY DEF Standing, D!Free, D!live

\* What a step of a caller does to the table and the delegates.
LEMMA StandingStep ==
  ASSUME Context, Standing, Growing, NEW a \in D!Callers, D!Step(a),
         pc[a] = "push" => thread # "none" \/ a = Main
  PROVE  Standing' /\ (Len(table') = Len(table) + (IF pc[a] = "push" THEN 1 ELSE 0))
<1>0. table \in Seq(Delegates \cup {Null}) /\ Len(table) \in Nat /\ held[a] \in Delegates \cup {Null}
  BY LenProperties DEF Context, D!TypeOK
<1>1. CASE D!Made(a)
  <2>1. UNCHANGED table /\ pc[a] # "push" /\ (UNCHANGED name \/ D!Free(held[a]))
    BY <1>1 DEF D!Made
  <2> QED BY <1>0, <2>1, StandingFree DEF Standing, D!live
<1>2. CASE D!EndPush(a)
  <2>1. table' = Append(table, held[a]) /\ name' = name /\ pc[a] = "push"
    BY <1>2 DEF D!EndPush, D!Pushed, Context, OneAtATime
  <2>2. /\ Len(table') = Len(table) + 1
        /\ \A i \in 1..Len(table) : table'[i] = table[i]
        /\ table'[Len(table) + 1] = held[a]
    BY <1>0, <2>1, AppendProperties
  <2>3. Len(table) >= 3 \/ (Len(table) = begun - 1 /\ name[held[a]] = D!Standard[begun])
    BY <2>1 DEF Growing, Context, OneAtATime, Phases
  <2> QED BY <1>0, <2>1, <2>2, <2>3 DEF Standing, D!live, Context, OneAtATime, OwnTypes
<1>3. CASE D!BeginPush(a) \/ D!Bound(a) \/ D!Used(a) \/ D!Closed(a)
  BY <1>0, <1>3 DEF D!BeginPush, D!Bound, D!Used, D!Closed, Standing, D!live
<1>4. CASE D!Delete(a)
  <2>1. UNCHANGED table /\ pc[a] # "push" /\ (UNCHANGED name \/ \E d : D!Free(d))
    BY <1>4 DEF D!Delete
  <2> QED BY <1>0, <2>1, StandingFree DEF Standing, D!live
<1>5. CASE D!Clear(a)
  <2>1. /\ table' = [i \in 1..Len(table) |-> IF i = fildes[a] + 1 THEN Null ELSE table[i]]
        /\ name' = name /\ pc[a] # "push"
    BY <1>5 DEF D!Clear
  <2>2. Len(table') = Len(table) /\ \A i \in 1..Len(table) : table'[i] \in {table[i], Null}
    BY <1>0, <2>1
  <2>3. Null \notin D!live
    BY DelegatesAssumption DEF Context, D!TypeOK
  <2> QED BY <1>0, <2>1, <2>2, <2>3 DEF Standing, D!live
<1> QED BY <1>1, <1>2, <1>3, <1>4, <1>5 DEF D!Step

LEMMA StandingPreserved == Context /\ Growing /\ Standing /\ [Next]_vars => Growing' /\ Standing'
<1> SUFFICES ASSUME Context, Growing, Standing, [Next]_vars PROVE Growing' /\ Standing'
  OBVIOUS
<1>0. App \in D!Callers /\ Main \in D!Callers /\ D!Callers = {App, Main} /\ App # Main
  BY ThreadAssumption DEF D!Callers
<1>1. /\ pc \in [D!Callers -> D!Places] /\ held \in [D!Callers -> Delegates \cup {Null}]
      /\ op \in [D!Callers -> D!PathCalls \cup D!DescriptorCalls \cup {"close", "none"}]
      /\ Len(table) \in Nat /\ begun \in 0..3
  BY LenProperties DEF Context, D!TypeOK, OneAtATime, OwnTypes
<1>2. Phases /\ Phases'
  BY DEF Context, OneAtATime
<1> USE DEF descriptorVars
<1>3. CASE OpenStandard
  <2> DEFINE p == D!Standard[begun + 1]
  <2>1. D!New(Main, "open", p) /\ thread = "none" /\ thread' = thread /\ begun' = begun + 1 /\ begun < 3
    BY <1>2, <1>3 DEF OpenStandard, Phases
  <2>2. pc[Main] = "idle" /\ pc[App] = "idle"
    BY <1>2, <2>1 DEF D!New, D!Enter, Phases
  <2>3. Standing' /\ table' = table
    BY <1>0, <2>1, <2>2, StandingNew
  <2>4. p # D!NoPath
    <3>1. begun + 1 \in {1, 2, 3}
      BY <1>1, <2>1
    <3>2. /\ D!Standard[1] = "/dev/stdin" /\ D!Standard[2] = "/dev/stdout"
          /\ D!Standard[3] = "/dev/stderr"
      BY DEF D!Standard
    <3>3. "/dev/stdin" # "" /\ "/dev/stdout" # "" /\ "/dev/stderr" # ""
      OBVIOUS
    <3> QED BY <3>1, <3>2, <3>3 DEF D!NoPath
  <2>5. PICK d \in Delegates : /\ pc' = [pc EXCEPT ![Main] = "made"] /\ held' = [held EXCEPT ![Main] = d]
                               /\ name' = [e \in D!live \cup {d} |-> IF e = d THEN p ELSE name[e]]
    BY <2>1, <2>4 DEF D!New, D!Begin
  <2>6. pc'[Main] = "made" /\ name'[held'[Main]] = p
    BY <1>0, <1>1, <2>5
  <2> QED BY <1>1, <2>1, <2>2, <2>3, <2>6 DEF Growing
<1>4. CASE MainSteps
  <2>1. /\ D!Step(Main) /\ UNCHANGED <<begun, thread>>
        /\ pc[Main] # "idle"
    BY <1>0, <1>4, StepMoves DEF MainSteps, Context
  <2>2. thread = "none" /\ op[Main] = "open" /\ pc[Main] \in {"made", "bind", "push", "bound"}
    BY <1>2, <2>1 DEF Phases
  <2>3. Standing' /\ Len(table') = Len(table) + (IF pc[Main] = "push" THEN 1 ELSE 0)
    BY <1>0, <2>1, StandingStep
  <2>4. CASE pc[Main] = "made"
    <3>1. D!Made(Main) /\ held[Main] \in D!live /\ name[held[Main]] \in D!Ports
      <4>1. held[Main] \in D!live
        BY <1>0, <2>4, MadeLive
      <4>2. name[held[Main]] \in D!Ports
        BY <1>1, <2>4 DEF Growing, D!Ports
      <4> QED
        BY <2>1, <2>4, <4>1, <4>2
           DEF D!Step, D!Made, D!BeginPush, D!EndPush, D!Bound, D!Used, D!Closed, D!Delete, D!Clear
    <3>2. D!May(Main, "open", held[Main]) = {TRUE}
      BY <3>1 DEF D!May
    <3>3. pc' = [pc EXCEPT ![Main] = "bind"] /\ held' = [held EXCEPT ![Main] = held[Main]] /\ name' = name
      <4>0. D!May(Main, op[Main], held[Main]) = {TRUE}
        BY <2>2, <3>2
      <4>1. PICK ok \in {TRUE} :
              /\ IF op[Main] = "open" /\ ok THEN D!Go(Main, "bind")
                 ELSE D!Return(Main, D!Answer(op[Main], ok))
              /\ IF D!Keeps(op[Main], ok) THEN UNCHANGED name ELSE D!Free(held[Main])
        BY Zenon, <3>1, <4>0 DEF D!Made
      <4>2. ok = TRUE
        BY <4>1
      <4> QED BY Zenon, <2>2, <4>1, <4>2 DEF D!Go, D!Begin, D!Keeps
    <3> QED BY <1>0, <1>1, <2>1, <2>2, <2>3, <2>4, <3>3 DEF Growing
  <2>5. CASE pc[Main] = "bind"
    <3>1. /\ pc' = [pc EXCEPT ![Main] = "push"] /\ held' = [held EXCEPT ![Main] = held[Main]]
          /\ name' = name
      BY <2>1, <2>5
         DEF D!Step, D!Made, D!BeginPush, D!EndPush, D!Bound, D!Used, D!Closed, D!Delete, D!Clear,
             D!Go, D!Begin
    <3> QED BY <1>0, <1>1, <2>1, <2>2, <2>3, <2>5, <3>1 DEF Growing
  <2>6. CASE pc[Main] = "push"
    <3>1. pc' = [pc EXCEPT ![Main] = "bound"]
      BY <2>1, <2>6
         DEF D!Step, D!Made, D!BeginPush, D!EndPush, D!Bound, D!Used, D!Closed, D!Delete, D!Clear,
             D!Go, D!Begin
    <3> QED BY <1>0, <1>1, <2>1, <2>2, <2>3, <2>6, <3>1 DEF Growing
  <2>7. CASE pc[Main] = "bound"
    <3>1. pc' = [pc EXCEPT ![Main] = "idle"]
      BY <2>1, <2>7
         DEF D!Step, D!Made, D!BeginPush, D!EndPush, D!Bound, D!Used, D!Closed, D!Delete, D!Clear,
             D!Return
    <3> QED BY <1>0, <1>1, <2>1, <2>2, <2>3, <2>7, <3>1 DEF Growing
  <2> QED BY <2>2, <2>4, <2>5, <2>6, <2>7
<1>5. ASSUME NEW o, NEW f, NEW place \in D!Places, D!Look(App, o, f, place), thread # "none", thread' # "none"
      PROVE  Growing' /\ Standing'
  BY <1>0, <1>1, <1>2, <1>5, UseMoves DEF D!Look, Growing, Standing, D!live, Phases, Context
<1>6. CASE AppCalls
  <2>1. thread # "none" /\ thread' # "none" /\ pc[Main] = "idle"
    BY <1>2, <1>6 DEF AppCalls, GoesOn, Phases
  <2>2. ASSUME NEW o, NEW p, D!New(App, o, p) PROVE Growing' /\ Standing'
    <3>1. pc[App] = "idle"
      BY <2>2 DEF D!New, D!Enter
    <3>2. Standing' /\ table' = table
      BY <1>0, <2>1, <2>2, <3>1, StandingNew
    <3>3. pc'[Main] = "idle"
      BY <1>2, <2>1 DEF Phases
    <3> QED BY <2>1, <3>2, <3>3 DEF Growing
  <2> QED BY <1>5, <1>6, <2>1, <2>2 DEF AppCalls, D!Close, D!Use, D!Places
<1>7. CASE AppReadsOrWrites
  <2>1. thread # "none" /\ thread' # "none"
    BY <1>7 DEF AppReadsOrWrites, GoesOn
  <2>2. PICK f : D!Use(App, "use", f)
    BY <1>7 DEF AppReadsOrWrites
  <2> QED BY <1>5, <2>1, <2>2 DEF D!Use, D!Places
<1>8. CASE AppStep
  <2>1. thread # "none" /\ thread' # "none" /\ pc'[Main] = "idle" /\ D!Step(App)
    BY <1>2, <1>8 DEF AppStep, Phases
  <2>2. Standing' /\ Len(table') >= Len(table)
    BY <1>0, <1>1, <2>1, StandingStep
  <2>3. Len(table') \in Nat /\ Len(table) >= 3
    BY <1>0, <1>1, <2>1, StandingStep DEF Growing
  <2> QED BY <1>1, <2>1, <2>2, <2>3 DEF Growing
<1>9. CASE CreateThread
  <2>1. begun = 3 /\ pc[Main] = "idle" /\ thread = "none" /\ UNCHANGED descriptorVars
    BY <1>2, <1>9 DEF CreateThread, Opened, Phases
  <2> QED BY <1>9, <2>1 DEF Growing, Standing, D!live, CreateThread
<1>10. CASE CreateInstance \/ HandleMessage \/ Destroy \/ Join
  BY <1>10 DEF CreateInstance, HandleMessage, Destroy, Join, Growing, Standing, D!live
<1>11. CASE Log \/ Logged \/ Sleep \/ Wake \/ AppReturns
  BY <1>11 DEF Log, Logged, Sleep, Wake, AppReturns, Growing, Standing, D!live
<1>12. CASE UNCHANGED vars
  BY <1>12 DEF vars, Growing, Standing, D!live
<1> QED BY <1>3, <1>4, <1>6, <1>7, <1>8, <1>9, <1>10, <1>11, <1>12 DEF Next, MainNext, AppNext

\* Whatever the application opens and closes, 0, 1 and 2 are the standard ports or
\* closed.
THEOREM StandardsStand == Spec => []StandardDescriptors
<1>1. Growing /\ Standing => StandardDescriptors
  BY DEF Growing, Standing, StandardDescriptors
<1>2. D!TypeOK /\ D!Accounted /\ OneAtATime /\ OneAtATime' <=> Context
  BY DEF Context
<1> QED BY <1>1, <1>2, StandingInit, StandingPreserved, Invariance, PTL DEF Spec
-----------------------------------------------------------------------------

(***************************************************************************)
(* A blocking read of stdin is in its delegate's method, and when it       *)
(* sleeps the thread goes nowhere else: so what it found when it fell      *)
(* asleep stands until a key comes, and the key unlocks the mutex.         *)
(***************************************************************************)
Sleeping ==
  /\ thread \in {"reading", "peeking"} => pc[App] = "using"
  /\ asleep => thread \in {"calling", "reading", "peeking"} /\ pc[App] = "using"
  /\ asleep /\ locked /\ thread = "reading" => typed = 0

LEMMA SleepingPreserved ==
  D!TypeOK /\ OneAtATime /\ OneAtATime' /\ Sleeping /\ [Next]_vars => Sleeping'
<1> SUFFICES ASSUME D!TypeOK, OneAtATime, OneAtATime', Sleeping, [Next]_vars PROVE Sleeping'
  OBVIOUS
<1>0. App \in D!Callers /\ Main \in D!Callers /\ App # Main
  BY ThreadAssumption DEF D!Callers
<1>1. /\ pc \in [D!Callers -> D!Places]
      /\ op \in [D!Callers -> D!PathCalls \cup D!DescriptorCalls \cup {"close", "none"}]
  BY DEF D!TypeOK
<1> USE DEF Sleeping, descriptorVars, mutexVars
<1>2. CASE OpenStandard \/ MainSteps
  <2>1. thread = "none" /\ thread' = thread
    BY <1>0, <1>2, StepMoves DEF OpenStandard, MainSteps, OneAtATime, Phases, OwnTypes
  <2> QED BY <1>2, <2>1 DEF OpenStandard, MainSteps
<1>3. ASSUME NEW f, D!Use(App, "use", f) \/ D!Use(App, "isatty", f), thread' \in GoesOn
      PROVE  thread' \in {"reading", "peeking"} => pc'[App] = "using"
  BY <1>0, <1>1, <1>3 DEF D!Use, D!Look, D!Begin, D!Return, GoesOn
<1>4. CASE AppCalls
  <2>1. ~asleep /\ ~asleep'
    BY <1>0, <1>4 DEF AppCalls, D!New, D!Close, D!Use, D!Look, D!Enter
  <2>2. thread' \in {"reading", "peeking"} => pc'[App] = "using"
    <3>1. ASSUME NEW o \in D!PathCalls, NEW p, D!New(App, o, p), thread' \in GoesOn
          PROVE  thread' \notin {"reading", "peeking"}
      <4>1. pc'[App] \in {"idle", "made"}
        BY <1>0, <1>1, <3>1 DEF D!New, D!Begin, D!Return
      <4> QED BY <3>1, <4>1 DEF GoesOn
    <3>2. ASSUME NEW f, D!Close(App, f), thread' \in GoesOn
          PROVE  thread' \notin {"reading", "peeking"}
      <4>1. op'[App] \in {"close", "none"}
        BY <1>0, <1>1, <3>2 DEF D!Close, D!Look, D!Begin, D!Return
      <4> QED BY <3>2, <4>1 DEF GoesOn
    <3> QED BY <1>3, <1>4, <3>1, <3>2 DEF AppCalls, D!DescriptorCalls
  <2> QED BY <2>1, <2>2
<1>5. CASE AppReadsOrWrites
  <2>1. ~asleep /\ ~asleep'
    BY <1>0, <1>5 DEF AppReadsOrWrites, D!Use, D!Look, D!Enter
  <2> QED BY <1>3, <1>5, <2>1 DEF AppReadsOrWrites
<1>6. CASE AppStep
  <2>1. ~asleep /\ ~asleep'
    BY <1>6 DEF AppStep
  <2>2. thread' \in {"reading", "peeking"} => thread = "reading" /\ pc'[App] # "idle"
    BY <1>6 DEF AppStep
  <2>3. pc[App] = "using" => pc'[App] = "idle"
    BY <1>0, <1>1, <1>6
       DEF AppStep, D!Step, D!Made, D!BeginPush, D!EndPush, D!Bound, D!Used, D!Closed, D!Delete,
           D!Clear, D!Return
  <2> QED BY <2>1, <2>2, <2>3
<1>7. CASE Sleep
  <2>1. typed \in Nat
    BY BoundsAssumption DEF OneAtATime, OwnTypes
  <2> QED BY <1>7, <2>1 DEF Sleep, UsesFile, HasByte
<1>8. CASE HandleMessage \/ Wake
  BY <1>8 DEF HandleMessage, Wake
<1>9. CASE CreateInstance \/ CreateThread \/ Destroy \/ Join
  BY <1>9 DEF CreateInstance, CreateThread, Destroy, Join, OneAtATime, Phases
<1>10. CASE Log \/ Logged \/ AppReturns
  BY <1>10 DEF Log, Logged, AppReturns
<1>11. CASE UNCHANGED vars
  BY <1>11 DEF vars
<1> QED BY <1>2, <1>4, <1>5, <1>6, <1>7, <1>8, <1>9, <1>10, <1>11 DEF Next, MainNext, AppNext

\* Whoever sleeps in a read of stdin for which a byte has come will find the mutex
\* unlocked, the page's end included: what the destructor waits for in vain is never
\* a reader whose byte is there (filesystem.cc:398).
THEOREM BytesWake == Spec => [](asleep /\ thread = "reading" /\ locked => ~HasByte)
<1>1. Init => Sleeping
  BY DEF Init, Sleeping
<1>2. Sleeping => (asleep /\ thread = "reading" /\ locked => ~HasByte)
  BY DEF Sleeping, HasByte
<1> QED BY <1>1, <1>2, SleepingPreserved, Invariance, PTL DEF Spec
=============================================================================
