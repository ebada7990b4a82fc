------------------------- MODULE DescriptorsProofs -------------------------
(* Theorems about Descriptors, for any number of threads, delegates and slots. *)
EXTENDS Descriptors, FiniteSetTheorems, SequenceTheorems, TLAPS

(***************************************************************************)
(* Where a caller stands says which call it is in.                         *)
(***************************************************************************)
Place(a) ==
  /\ pc[a] = "idle" <=> op[a] = "none"
  /\ pc[a] = "made" => op[a] \in PathCalls
  /\ pc[a] \in {"bind", "push", "bound"} => op[a] = "open"
  /\ pc[a] = "using" => op[a] \in DescriptorCalls
  /\ pc[a] \in {"closing", "delete", "deleted"} => op[a] = "close"

\* The opens that have yet to push to the table: there is room for all of them.
Opening == {a \in Callers : op[a] = "open" /\ pc[a] \in {"made", "bind", "push"}}

Room == Len(table) + Cardinality(Opening) <= MaxTable

Binding == {"push", "bound"}

\* What conflict = FALSE tells of the calls that are under way.
Apart ==
  \A a, b \in Callers :
    a # b =>
      /\ ~(pc[a] \in Binding /\ pc[b] \in Binding)
      /\ ~(op[a] = "close" /\ op[b] \in DescriptorCalls \cup {"close"} /\ fildes[a] = fildes[b])

\* Every delegate of lv is behind one of the slots of t, or in the frame of one of the
\* makers, and each of these has a delegate of its own.
Owned(lv, slots, makers, t, h) ==
  /\ \A i \in slots : t[i] \in lv
  /\ \A a \in makers : h[a] \in lv
  /\ \A d \in lv : (\E i \in slots : t[i] = d) \/ (\E a \in makers : h[a] = d)
  /\ \A i, j \in slots : t[i] = t[j] => i = j
  /\ \A a, b \in makers : h[a] = h[b] => a = b
  /\ \A i \in slots, a \in makers : t[i] # h[a]

\* A call on a descriptor is on one that the table has, and holds the delegate of its
\* slot; an open that has pushed its own stands before the last slot.
Holds(a) ==
  /\ pc[a] \in {"using", "closing", "delete", "deleted"} => fildes[a] \in 0..Len(table) - 1
  /\ pc[a] \in {"using", "closing"} => held[a] = table[fildes[a] + 1] /\ held[a] # Null
  /\ pc[a] = "bound" => table # <<>> /\ table[Len(table)] \in {held[a], Null}

Sound ==
  /\ Room
  /\ Apart
  /\ Owned(live, Serving, Making, table, held)
  /\ \A a \in Callers : Holds(a)

Inv ==
  /\ TypeOK
  /\ \A a \in Callers : Place(a)
  /\ ~conflict => Sound

-----------------------------------------------------------------------------
\* What may happen to the delegates: one is made, ...
LEMMA OwnedMade ==
  ASSUME NEW lv, NEW S, NEW M, NEW t, NEW h, Owned(lv, S, M, t, h),
         NEW d, d \notin lv, NEW a, a \notin M,
         NEW h2, h2[a] = d, \A b \in M : h2[b] = h[b]
  PROVE  Owned(lv \cup {d}, S, M \cup {a}, t, h2)
BY DEF Owned

\* ... deleted by who made it, ...
LEMMA OwnedDropped ==
  ASSUME NEW lv, NEW S, NEW M, NEW t, NEW h, Owned(lv, S, M, t, h),
         NEW a \in M,
         NEW h2, \A b \in M \ {a} : h2[b] = h[b]
  PROVE  Owned(lv \ {h[a]}, S, M \ {a}, t, h2)
BY DEF Owned

\* ... moved to a slot, ...
LEMMA OwnedMoved ==
  ASSUME NEW lv, NEW S, NEW M, NEW t, NEW h, Owned(lv, S, M, t, h),
         NEW a \in M, NEW i, i \notin S,
         NEW t2, t2[i] = h[a], \A j \in S : t2[j] = t[j],
         NEW h2, \A b \in M \ {a} : h2[b] = h[b]
  PROVE  Owned(lv, S \cup {i}, M \ {a}, t2, h2)
BY DEF Owned

\* ... or deleted with its slot.
LEMMA OwnedClosed ==
  ASSUME NEW lv, NEW S, NEW M, NEW t, NEW h, Owned(lv, S, M, t, h),
         NEW i \in S,
         NEW h2, \A b \in M : h2[b] = h[b]
  PROVE  Owned(lv \ {t[i]}, S \ {i}, M, t, h2)
BY DEF Owned

LEMMA OwnedUntouched ==
  ASSUME NEW lv, NEW S, NEW M, NEW t, NEW h, Owned(lv, S, M, t, h),
         NEW t2, \A i \in S : t2[i] = t[i],
         NEW h2, \A b \in M : h2[b] = h[b]
  PROVE  Owned(lv, S, M, t2, h2)
BY DEF Owned

LEMMA CallersFinite == IsFiniteSet(Callers)
BY ThreadsAssumption, FS_AddElement DEF Callers

LEMMA OpeningFinite == IsFiniteSet(Opening) /\ Cardinality(Opening) \in Nat
BY CallersFinite, FS_Subset, FS_CardinalityType DEF Opening

LEMMA InvInit == Init => Inv
<1> SUFFICES ASSUME Init PROVE Inv
  OBVIOUS
<1>1. <<>> \in Seq(Delegates \cup {Null}) /\ Len(<<>>) = 0
  BY EmptySeq
<1>2. live = {}
  BY DEF Init, live
<1>3. TypeOK
  <2>1. table \in Seq(Delegates \cup {Null}) /\ Len(table) <= MaxTable
    BY <1>1, BoundsAssumption DEF Init
  <2>2. live \subseteq Delegates /\ \A d \in live : name[d] \in Ports \cup {Unknown, File}
    BY <1>2
  <2>3. pc \in [Callers -> Places]
    BY DEF Init, Places
  <2>4. op \in [Callers -> PathCalls \cup DescriptorCalls \cup {"close", "none"}]
    BY DEF Init
  <2>5. fildes \in [Callers -> -1..MaxTable]
    BY BoundsAssumption DEF Init
  <2>6. held \in [Callers -> Delegates \cup {Null}]
    BY DEF Init
  <2>7. answer \in [Callers -> Bad..MaxTable]
    BY BoundsAssumption DEF Init, Bad
  <2>8. conflict \in BOOLEAN
    BY DEF Init
  <2> QED BY <2>1, <2>2, <2>3, <2>4, <2>5, <2>6, <2>7, <2>8 DEF TypeOK
<1>4. Room
  <2>1. Opening = {}
    BY DEF Init, Opening
  <2> QED BY <1>1, <2>1, FS_EmptySet, BoundsAssumption DEF Init, Room
<1>5. \A a \in Callers : Place(a) /\ Holds(a)
  BY DEF Init, Place, Holds
<1>6. Apart
  BY DEF Init, Apart, Binding
<1>7. Serving = {} /\ Making = {}
  BY <1>1 DEF Init, Serving, Making
<1>8. Owned(live, Serving, Making, table, held)
  BY <1>2, <1>7 DEF Owned
<1> QED BY <1>3, <1>4, <1>5, <1>6, <1>8 DEF Inv, Sound

-----------------------------------------------------------------------------
\* Caller a goes to place, in call o on f, and holds d; the others stay.
Moves(a, place, o, f, d) ==
  /\ pc'[a] = place /\ op'[a] = o /\ fildes'[a] = f /\ held'[a] = d
  /\ \A b \in Callers \ {a} :
       pc'[b] = pc[b] /\ op'[b] = op[b] /\ fildes'[b] = fildes[b] /\ held'[b] = held[b]

Frames ==
  /\ pc \in [Callers -> Places]
  /\ op \in [Callers -> PathCalls \cup DescriptorCalls \cup {"close", "none"}]
  /\ fildes \in [Callers -> -1..MaxTable]
  /\ held \in [Callers -> Delegates \cup {Null}]
  /\ answer \in [Callers -> Bad..MaxTable]

LEMMA BeginMoves ==
  ASSUME Frames, NEW a \in Callers, NEW place \in Places,
         NEW o \in PathCalls \cup DescriptorCalls \cup {"close"},
         NEW f \in -1..MaxTable, NEW d \in Delegates \cup {Null},
         Begin(a, o, f, d, place)
  PROVE  Frames' /\ Moves(a, place, o, f, d)
<1>1. Moves(a, place, o, f, d)
  BY DEF Begin, Moves, Frames
<1>2. pc' \in [Callers -> Places]
  BY DEF Begin, Frames
<1>3. op' \in [Callers -> PathCalls \cup DescriptorCalls \cup {"close", "none"}]
  BY DEF Begin, Frames
<1>4. fildes' \in [Callers -> -1..MaxTable] /\ held' \in [Callers -> Delegates \cup {Null}]
  BY DEF Begin, Frames
<1> QED BY <1>1, <1>2, <1>3, <1>4 DEF Begin, Frames

LEMMA ReturnMoves ==
  ASSUME Frames, NEW a \in Callers, NEW value \in Bad..MaxTable, Return(a, value)
  PROVE  Frames' /\ Moves(a, "idle", "none", -1, Null)
<1>1. Moves(a, "idle", "none", -1, Null)
  BY DEF Return, Moves, Frames
<1>2. pc' \in [Callers -> Places]
  BY DEF Return, Frames, Places
<1>3. op' \in [Callers -> PathCalls \cup DescriptorCalls \cup {"close", "none"}]
  BY DEF Return, Frames
<1>4. fildes' \in [Callers -> -1..MaxTable] /\ held' \in [Callers -> Delegates \cup {Null}]
  BY BoundsAssumption DEF Return, Frames
<1>5. answer' \in [Callers -> Bad..MaxTable]
  BY DEF Return, Frames
<1> QED BY <1>1, <1>2, <1>3, <1>4, <1>5 DEF Frames

\* A caller that goes on with its call, or leaves it, comes into nobody's way unless
\* it begins to push, ...
LEMMA ApartGoesOn ==
  ASSUME Apart, NEW a \in Callers, NEW place, NEW o, NEW f, NEW d, Moves(a, place, o, f, d),
         o = "none" \/ (o = op[a] /\ f = fildes[a]),
         place \in Binding => pc[a] \in Binding \/ \A b \in Callers \ {a} : pc[b] \notin Binding
  PROVE  Apart'
BY DEF Apart, Moves, DescriptorCalls

\* ... and one that enters a call has looked.
LEMMA ApartEnters ==
  ASSUME Apart, NEW a \in Callers, NEW place, NEW o, NEW f, NEW d, Moves(a, place, o, f, d),
         o \in PathCalls \/ ~Overlaps(a, o, f), place \notin Binding
  PROVE  Apart'
<1> SUFFICES ASSUME NEW x \in Callers, NEW y \in Callers, x # y
             PROVE  /\ ~(pc'[x] \in Binding /\ pc'[y] \in Binding)
                    /\ ~(op'[x] = "close" /\ op'[y] \in DescriptorCalls \cup {"close"}
                         /\ fildes'[x] = fildes'[y])
  BY DEF Apart
<1>1. CASE x # a /\ y # a
  BY <1>1 DEF Apart, Moves
<1>2. CASE x = a
  BY <1>2 DEF Moves, Overlaps, DescriptorCalls, PathCalls
<1>3. CASE y = a
  BY <1>3 DEF Moves, Overlaps, DescriptorCalls, PathCalls
<1> QED BY <1>1, <1>2, <1>3

LEMMA MakingMoves ==
  ASSUME NEW a \in Callers, NEW place, NEW o, NEW f, NEW d, Moves(a, place, o, f, d)
  PROVE  Making' = IF place \in {"made", "bind", "push"} THEN Making \cup {a} ELSE Making \ {a}
BY DEF Making, Moves

\* The slots that are neither free nor about to be, as long as the table stays.
LEMMA ServingMoves ==
  ASSUME NEW a \in Callers, NEW place, NEW o, NEW f, NEW d, Moves(a, place, o, f, d),
         pc[a] # "deleted", place # "deleted", UNCHANGED table
  PROVE  Serving' = Serving
<1>1. \A i : Dying(i)' <=> Dying(i)
  BY DEF Dying, Moves
<1> QED BY <1>1 DEF Serving

LEMMA RoomKept ==
  ASSUME Room, NEW a \in Callers, NEW place, NEW o, NEW f, NEW d, Moves(a, place, o, f, d),
         o = "open" => place \notin {"made", "bind", "push"} \/ a \in Opening,
         Len(table) \in Nat, Len(table') = Len(table)
  PROVE  Room'
<1>1. Opening' \subseteq Opening
  BY DEF Opening, Moves
<1>2. Cardinality(Opening') <= Cardinality(Opening) /\ Cardinality(Opening') \in Nat
  BY <1>1, OpeningFinite, FS_Subset, FS_CardinalityType
<1> QED BY <1>2, OpeningFinite, BoundsAssumption DEF Room

-----------------------------------------------------------------------------
\* The table and what it points to, apart from the frames.
Shared ==
  /\ table \in Seq(Delegates \cup {Null}) /\ Len(table) <= MaxTable
  /\ live \subseteq Delegates /\ \A d \in live : name[d] \in Ports \cup {Unknown, File}
  /\ conflict \in BOOLEAN

LEMMA Types == TypeOK <=> Frames /\ Shared
BY DEF TypeOK, Frames, Shared

LEMMA TableLength == ASSUME Shared PROVE Len(table) \in Nat /\ Len(table) <= MaxTable
BY LenProperties DEF Shared

\* A step of one caller keeps the invariant when it keeps the types, its own place and,
\* without a conflict, what is sound.
LEMMA InvKept ==
  ASSUME Inv, NEW a \in Callers, NEW place, NEW o, NEW f, NEW d, Moves(a, place, o, f, d),
         Frames', Shared', Place(a)', ~conflict' => Sound'
  PROVE  Inv'
<1>1. \A b \in Callers : Place(b)'
  BY DEF Inv, Place, Moves
<1>2. TypeOK'
  BY Zenon DEF TypeOK, Frames, Shared
<1> QED BY <1>1, <1>2, Zenon DEF Inv

\* What New(a, o, p) does when there is a path.
LEMMA InvNewDelegate ==
  ASSUME Inv, NEW a \in Callers, NEW o \in PathCalls, NEW p \in Paths, NEW d \in Delegates \ live,
         Enter(a), Begin(a, o, -1, d, "made"),
         o = "open" => Len(table) + Cardinality({b \in Callers : op[b] = "open"}) < MaxTable,
         name' = [e \in live \cup {d} |-> IF e = d THEN p ELSE name[e]],
         UNCHANGED <<table, conflict>>
  PROVE  Inv'
<1>1. Frames /\ Shared /\ pc[a] = "idle" /\ op[a] = "none"
  BY Types DEF Inv, Place, Enter
<1>2. Frames' /\ Moves(a, "made", o, -1, d)
  BY <1>1, BeginMoves, BoundsAssumption DEF Places
<1>3. live' = live \cup {d}
  BY DEF live
<1>4. Shared'
  <2>1. \A e \in live' : name'[e] \in Ports \cup {Unknown, File}
    BY <1>1, <1>3, PathsAssumption DEF Shared
  <2> QED BY <1>1, <1>3, <2>1 DEF Shared
<1>5. Place(a)'
  BY <1>2 DEF Place, Moves, PathCalls
<1>6. ASSUME ~conflict'
      PROVE  Sound'
  <2>1. Sound
    BY <1>6 DEF Inv
  <2>2. Room'
    <3>1. CASE o = "open"
      <4>1. Opening' \subseteq {b \in Callers : op[b] = "open"} \cup {a}
        BY <1>2 DEF Opening, Moves
      <4>2. IsFiniteSet({b \in Callers : op[b] = "open"})
        BY CallersFinite, FS_Subset
      <4>3. a \notin {b \in Callers : op[b] = "open"}
        BY <1>1
      <4>4. /\ IsFiniteSet({b \in Callers : op[b] = "open"} \cup {a})
            /\ Cardinality({b \in Callers : op[b] = "open"} \cup {a})
                 = Cardinality({b \in Callers : op[b] = "open"}) + 1
        BY <4>2, <4>3, FS_AddElement
      <4>5. Cardinality(Opening') <= Cardinality({b \in Callers : op[b] = "open"}) + 1
        BY <4>1, <4>4, FS_Subset
      <4>6. Cardinality(Opening') \in Nat /\ Cardinality({b \in Callers : op[b] = "open"}) \in Nat
        BY <4>1, <4>2, <4>4, FS_Subset, FS_CardinalityType
      <4> QED BY <1>1, <3>1, <4>5, <4>6, TableLength, BoundsAssumption DEF Room
    <3>2. CASE o # "open"
      BY <1>1, <1>2, <2>1, <3>2, RoomKept, TableLength DEF Sound
    <3> QED BY <3>1, <3>2
  <2>3. Apart'
    BY <1>2, <2>1, ApartEnters DEF Sound, Binding
  <2>4. Serving' = Serving /\ Making' = Making \cup {a}
    BY <1>1, <1>2, ServingMoves, MakingMoves
  <2>5. Owned(live, Serving, Making, table, held)'
    <3>1. a \notin Making /\ \A b \in Making : held'[b] = held[b]
      BY <1>1, <1>2 DEF Making, Moves
    <3>2. Owned(live \cup {d}, Serving, Making \cup {a}, table, held')
      BY <1>2, <2>1, <3>1, OwnedMade DEF Moves, Sound
    <3> QED BY <1>3, <2>4, <3>2
  <2>6. \A b \in Callers : Holds(b)'
    BY <1>2, <2>1 DEF Holds, Moves, Sound
  <2> QED BY <2>2, <2>3, <2>5, <2>6 DEF Sound
<1> QED BY <1>2, <1>4, <1>5, <1>6, InvKept

\* The frame of a caller that owns no delegate moves, in a call it was in or leaves.
LEMMA SoundKept ==
  ASSUME Sound, NEW a \in Callers, NEW place, NEW o, NEW f, NEW d, Moves(a, place, o, f, d),
         Apart', place # "deleted", pc[a] # "deleted", UNCHANGED <<table, name>>,
         o = "open" => place \notin {"made", "bind", "push"} \/ a \in Opening,
         place \in {"made", "bind", "push"} <=> a \in Making,
         a \in Making => d = held[a],
         Holds(a)', Len(table) \in Nat
  PROVE  Sound'
<1>1. Room'
  BY RoomKept DEF Sound
<1>2. Serving' = Serving /\ Making' = Making /\ \A b \in Making : held'[b] = held[b]
  BY ServingMoves, MakingMoves DEF Moves, Making
<1>3. Owned(live, Serving, Making, table, held)'
  <2>1. Owned(live, Serving, Making, table, held')
    BY <1>2, OwnedUntouched DEF Sound
  <2> QED BY <1>2, <2>1 DEF live
<1>4. \A b \in Callers : Holds(b)'
  BY DEF Holds, Moves, Sound
<1> QED BY <1>1, <1>3, <1>4 DEF Sound

\* A call ends; what it made is its own affair.
LEMMA InvReturns ==
  ASSUME Inv, NEW a \in Callers, NEW value \in Bad..MaxTable, Return(a, value),
         conflict' \in BOOLEAN, ~conflict' => ~conflict,
         pc[a] \notin {"made", "bind", "push", "deleted"}, UNCHANGED <<table, name>>
  PROVE  Inv'
<1>1. Frames /\ Shared
  BY Types DEF Inv
<1>2. Frames' /\ Moves(a, "idle", "none", -1, Null)
  BY <1>1, ReturnMoves
<1>3. Shared'
  BY <1>1 DEF Shared, live
<1>4. Place(a)' /\ Holds(a)'
  BY <1>2 DEF Place, Holds, Moves
<1>5. ASSUME ~conflict'
      PROVE  Sound'
  <2>1. Sound
    BY <1>5 DEF Inv
  <2>2. Apart'
    BY <1>2, <2>1, ApartGoesOn DEF Sound, Binding
  <2> QED BY <1>1, <1>2, <1>4, <2>1, <2>2, SoundKept, TableLength DEF Making
<1> QED BY <1>2, <1>3, <1>4, <1>5, InvKept

\* The method of the delegate that New has made has answered.
LEMMA InvMade ==
  ASSUME Inv, NEW a \in Callers, Made(a)
  PROVE  Inv'
<1>1. Frames /\ Shared /\ pc[a] = "made" /\ op[a] \in PathCalls /\ fildes[a] \in -1..MaxTable
      /\ UNCHANGED <<table, conflict>>
  BY Types DEF Inv, Place, Made, Frames
<1>2. CASE op[a] = "open" /\ Go(a, "bind") /\ UNCHANGED name
  <2>1. Frames' /\ Moves(a, "bind", op[a], fildes[a], held[a])
    BY <1>1, <1>2, BeginMoves DEF Go, Places, Frames
  <2>2. Shared'
    BY <1>1, <1>2 DEF Shared, live
  <2>3. Place(a)' /\ Holds(a)'
    BY <1>2, <2>1 DEF Place, Holds, Moves
  <2>4. ASSUME ~conflict'
        PROVE  Sound'
    <3>1. Sound
      BY <1>1, <2>4 DEF Inv
    <3>2. Apart'
      BY <2>1, <3>1, ApartGoesOn DEF Sound, Binding
    <3>3. a \in Opening /\ a \in Making
      BY <1>1, <1>2 DEF Opening, Making
    <3> QED BY <1>1, <1>2, <2>1, <2>3, <3>1, <3>2, <3>3, SoundKept, TableLength
  <2> QED BY <2>1, <2>2, <2>3, <2>4, InvKept
<1>3. ASSUME NEW value \in Bad..MaxTable, Return(a, value), Free(held[a])
      PROVE  Inv'
  <2>1. Frames' /\ Moves(a, "idle", "none", -1, Null)
    BY <1>1, <1>3, ReturnMoves
  <2>2. live' = live \ {held[a]}
    BY <1>3 DEF Free, live
  <2>3. Shared'
    BY <1>1, <1>3, <2>2 DEF Shared, Free
  <2>4. Place(a)'
    BY <2>1 DEF Place, Moves
  <2>5. ASSUME ~conflict'
        PROVE  Sound'
    <3>1. Sound
      BY <1>1, <2>5 DEF Inv
    <3>2. Apart'
      BY <2>1, <3>1, ApartGoesOn DEF Sound, Binding
    <3>3. Room'
      BY <1>1, <2>1, <3>1, RoomKept, TableLength DEF Sound
    <3>4. Serving' = Serving /\ Making' = Making \ {a} /\ a \in Making
      BY <1>1, <2>1, ServingMoves, MakingMoves DEF Making
    <3>5. Owned(live, Serving, Making, table, held)'
      <4>1. \A b \in Making \ {a} : held'[b] = held[b]
        BY <2>1 DEF Moves, Making
      <4>2. Owned(live \ {held[a]}, Serving, Making \ {a}, table, held')
        BY <3>1, <3>4, <4>1, OwnedDropped DEF Sound
      <4> QED BY <1>1, <2>2, <3>4, <4>2
    <3>6. \A b \in Callers : Holds(b)'
      BY <1>1, <2>1, <3>1 DEF Holds, Moves, Sound
    <3> QED BY <3>2, <3>3, <3>5, <3>6 DEF Sound
  <2> QED BY <2>1, <2>3, <2>4, <2>5, InvKept
<1>4. PICK ok \in May(a, op[a], held[a]) :
        /\ IF op[a] = "open" /\ ok THEN Go(a, "bind") ELSE Return(a, Answer(op[a], ok))
        /\ IF Keeps(op[a], ok) THEN UNCHANGED name ELSE Free(held[a])
  BY DEF Made
<1>5. CASE op[a] = "open" /\ ok
  BY <1>2, <1>4, <1>5, Zenon DEF Keeps
<1>6. CASE ~(op[a] = "open" /\ ok)
  <2>1. Answer(op[a], ok) \in Bad..MaxTable
    BY <1>1, BoundsAssumption DEF Answer, Bad, PathCalls
  <2>2. Return(a, Answer(op[a], ok)) /\ Free(held[a])
    BY <1>4, <1>6, Zenon DEF Keeps
  <2> QED BY <1>3, <2>1, <2>2
<1> QED BY <1>5, <1>6, Zenon

-----------------------------------------------------------------------------
\* What GetDelegate finds while nobody pushes is in the table.
LEMMA FoundInTable ==
  ASSUME Shared, NEW a \in Callers, NEW f \in Int, NEW d \in Found(a, f), d # Null
  PROVE  /\ d \in Delegates
         /\ ~(f >= 0 /\ Torn(a)) =>
              f \in 0..Len(table) - 1 /\ f + 1 \in 1..Len(table) /\ d = table[f + 1]
<1>1. CASE f >= 0 /\ Torn(a)
  BY <1>1 DEF Found
<1>2. CASE ~(f >= 0 /\ Torn(a))
  <2>1. d = GetDelegate(f)
    BY <1>2, Zenon DEF Found
  <2>2. f \in 0..Len(table) - 1 /\ d = table[f + 1]
    BY <2>1, TableLength DEF GetDelegate
  <2>3. f + 1 \in 1..Len(table)
    BY <2>2, TableLength
  <2>4. table[f + 1] \in Delegates \cup {Null}
    BY <2>3, ElementOfSeq DEF Shared
  <2> QED BY <1>2, <2>2, <2>3, <2>4
<1> QED BY <1>1, <1>2

\* A call on a descriptor that finds a delegate.
LEMMA InvLooks ==
  ASSUME Inv, NEW a \in Callers, NEW f \in -1..MaxTable, NEW d \in Found(a, f), d # Null,
         NEW o \in DescriptorCalls \cup {"close"}, NEW place \in {"using", "closing"},
         (place = "using" /\ o \in DescriptorCalls) \/ (place = "closing" /\ o = "close"),
         Enter(a), conflict' = (conflict \/ Overlaps(a, o, f) \/ (f >= 0 /\ Torn(a))),
         Begin(a, o, f, d, place), UNCHANGED <<table, name>>
  PROVE  Inv'
<1>1. Frames /\ Shared /\ pc[a] = "idle" /\ op[a] = "none"
  BY Types DEF Inv, Place, Enter
<1>2. f \in Int /\ d \in Delegates
  BY <1>1, FoundInTable, BoundsAssumption
<1>3. Frames' /\ Moves(a, place, o, f, d)
  BY <1>1, <1>2, BeginMoves DEF Places
<1>4. conflict' \in BOOLEAN
  BY <1>1 DEF Shared
<1>5. Shared'
  BY <1>1, <1>4 DEF Shared, live
<1>6. Place(a)'
  BY <1>3 DEF Place, Moves, DescriptorCalls
<1>7. ASSUME ~conflict'
      PROVE  Sound'
  <2>1. Sound /\ ~Overlaps(a, o, f) /\ ~(f >= 0 /\ Torn(a))
    BY <1>7 DEF Inv
  <2>2. f \in 0..Len(table) - 1 /\ f + 1 \in 1..Len(table) /\ d = table[f + 1]
    BY <1>1, <1>2, <2>1, FoundInTable
  <2>3. Apart'
    BY <1>3, <2>1, ApartEnters DEF Sound, Binding
  <2>4. Holds(a)'
    BY <1>3, <2>2 DEF Holds, Moves
  <2> QED BY <1>1, <1>3, <2>1, <2>3, <2>4, SoundKept, TableLength DEF Making, DescriptorCalls
<1> QED BY <1>3, <1>5, <1>6, <1>7, InvKept

\* The delegate's Close has succeeded.
LEMMA InvClosed ==
  ASSUME Inv, NEW a \in Callers, pc[a] = "closing", Go(a, "delete"),
         UNCHANGED <<table, name, conflict>>
  PROVE  Inv'
<1>1. Frames /\ Shared /\ op[a] = "close" /\ fildes[a] \in -1..MaxTable
  BY Types DEF Inv, Place, Frames
<1>2. Frames' /\ Moves(a, "delete", op[a], fildes[a], held[a])
  BY <1>1, BeginMoves DEF Go, Places, Frames
<1>3. Shared'
  BY <1>1 DEF Shared, live
<1>4. Place(a)'
  BY <1>1, <1>2 DEF Place, Moves
<1>5. ASSUME ~conflict'
      PROVE  Sound'
  <2>1. Sound
    BY <1>5 DEF Inv
  <2>2. Apart'
    BY <1>2, <2>1, ApartGoesOn DEF Sound, Binding
  <2>3. Holds(a)'
    BY <1>2, <2>1 DEF Holds, Moves, Sound
  <2> QED BY <1>1, <1>2, <2>1, <2>2, <2>3, SoundKept, TableLength DEF Making
<1> QED BY <1>2, <1>3, <1>4, <1>5, InvKept

\* A slot that is closed is no other close's, as long as closes stay apart.
LEMMA NotDying ==
  ASSUME Apart, \A b \in Callers : Place(b), NEW a \in Callers,
         op[a] = "close", pc[a] # "deleted", fildes \in [Callers -> Int]
  PROVE  ~Dying(fildes[a] + 1)
BY DEF Apart, Place, Dying

\* The delegate is deleted, and its slot still points to it.
LEMMA InvDeletes ==
  ASSUME Inv, NEW a \in Callers, pc[a] = "delete", NEW d \in Found(a, fildes[a]), d # Null,
         Begin(a, "close", fildes[a], d, "deleted"), Free(d),
         conflict' = (conflict \/ Torn(a)), UNCHANGED table
  PROVE  Inv'
<1> DEFINE f == fildes[a]
<1>1. Frames /\ Shared /\ op[a] = "close" /\ f \in -1..MaxTable
  BY Types DEF Inv, Place, Frames
<1>2. f \in Int /\ d \in Delegates
  BY <1>1, FoundInTable, BoundsAssumption
<1>3. Frames' /\ Moves(a, "deleted", "close", f, d)
  BY <1>1, <1>2, BeginMoves DEF Places
<1>4. live' = live \ {d}
  BY DEF Free, live
<1>5. conflict' \in BOOLEAN
  BY <1>1 DEF Shared
<1>6. Shared'
  BY <1>1, <1>4, <1>5 DEF Shared, Free
<1>7. Place(a)'
  BY <1>3 DEF Place, Moves
<1>8. ASSUME ~conflict'
      PROVE  Sound'
  <2>1. Sound /\ ~Torn(a)
    BY <1>8 DEF Inv
  <2>2. f \in 0..Len(table) - 1 /\ f + 1 \in 1..Len(table) /\ d = table[f + 1]
    BY <1>1, <1>2, <2>1, FoundInTable
  <2>3. Room'
    BY <1>1, <1>3, <2>1, RoomKept, TableLength DEF Sound
  <2>4. Apart'
    BY <1>1, <1>3, <2>1, ApartGoesOn DEF Sound, Binding
  <2>5. f + 1 \in Serving
    <3>1. fildes \in [Callers -> Int]
      BY <1>1, BoundsAssumption DEF Frames
    <3>2. ~Dying(f + 1)
      BY <1>1, <2>1, <3>1, NotDying DEF Inv, Sound
    <3> QED BY <1>2, <2>2, <3>2, NullAssumption DEF Serving
  <2>6. Serving' = Serving \ {f + 1}
    <3>1. \A i : Dying(i)' <=> Dying(i) \/ i = f + 1
      BY <1>3 DEF Dying, Moves
    <3> QED BY <3>1 DEF Serving
  <2>7. Making' = Making /\ \A b \in Making : held'[b] = held[b]
    <3>1. Making' = Making \ {a} /\ a \notin Making
      BY <1>3, MakingMoves DEF Making
    <3> QED BY <1>3, <3>1 DEF Moves, Making
  <2>8. Owned(live, Serving, Making, table, held)'
    <3>1. Owned(live \ {table[f + 1]}, Serving \ {f + 1}, Making, table, held')
      BY <2>1, <2>5, <2>7, OwnedClosed DEF Sound
    <3> QED BY <1>4, <2>2, <2>6, <2>7, <3>1
  <2>9. \A b \in Callers : Holds(b)'
    BY <1>3, <2>1, <2>2 DEF Holds, Moves, Sound
  <2> QED BY <2>3, <2>4, <2>8, <2>9 DEF Sound
<1> QED BY <1>3, <1>6, <1>7, <1>8, InvKept

\* close stores the NULL.
LEMMA InvClear ==
  ASSUME Inv, NEW a \in Callers, Clear(a)
  PROVE  Inv'
<1> DEFINE f == fildes[a]
<1>1. /\ Frames /\ Shared /\ pc[a] = "deleted" /\ op[a] = "close" /\ f \in -1..MaxTable
      /\ table' = [i \in 1..Len(table) |-> IF i = f + 1 THEN Null ELSE table[i]]
      /\ Return(a, 0) /\ conflict' = (conflict \/ Torn(a)) /\ UNCHANGED name
  BY Types DEF Inv, Place, Clear, Frames
<1>2. Frames' /\ Moves(a, "idle", "none", -1, Null)
  BY <1>1, ReturnMoves, BoundsAssumption DEF Bad
<1>3. /\ table' \in Seq(Delegates \cup {Null}) /\ Len(table') = Len(table) /\ Len(table) \in Nat
      /\ \A i \in 1..Len(table) : i # f + 1 => table'[i] = table[i]
      /\ \A i \in 1..Len(table) : i = f + 1 => table'[i] = Null
  <2>1. Len(table) \in Nat /\ \A i \in 1..Len(table) : table[i] \in Delegates \cup {Null}
    BY <1>1, ElementOfSeq, TableLength DEF Shared
  <2>2. table' \in [1..Len(table) -> Delegates \cup {Null}]
    BY <1>1, <2>1
  <2> QED BY <1>1, <2>1, <2>2
<1>4. conflict' \in BOOLEAN
  BY <1>1 DEF Shared
<1>5. Shared'
  BY <1>1, <1>3, <1>4 DEF Shared, live
<1>6. Place(a)' /\ Holds(a)'
  BY <1>2 DEF Place, Holds, Moves
<1>7. ASSUME ~conflict'
      PROVE  Sound'
  <2>1. Sound
    BY <1>1, <1>7 DEF Inv
  <2>2. Room'
    BY <1>2, <1>3, <2>1, RoomKept DEF Sound
  <2>3. Apart'
    BY <1>2, <2>1, ApartGoesOn DEF Sound, Binding
  <2>4. Serving' = Serving /\ f + 1 \notin Serving
    <3>1. Dying(f + 1)
      BY <1>1 DEF Dying
    <3>2. \A i \in 1..Len(table) \ {f + 1} : Dying(i)' <=> Dying(i)
      <4> SUFFICES ASSUME NEW i \in 1..Len(table) \ {f + 1} PROVE Dying(i)' <=> Dying(i)
        OBVIOUS
      <4> QED BY <1>2 DEF Dying, Moves
    <3> QED BY <1>3, <3>1, <3>2 DEF Serving
  <2>5. Making' = Making /\ \A b \in Making : held'[b] = held[b]
    <3>1. Making' = Making \ {a} /\ a \notin Making
      BY <1>1, <1>2, MakingMoves DEF Making
    <3> QED BY <1>2, <3>1 DEF Moves, Making
  <2>6. Owned(live, Serving, Making, table, held)'
    <3>1. \A i \in Serving : table'[i] = table[i]
      BY <1>3, <2>4 DEF Serving
    <3>2. Owned(live, Serving, Making, table', held')
      BY <2>1, <2>5, <3>1, OwnedUntouched DEF Sound
    <3> QED BY <1>1, <2>4, <2>5, <3>2 DEF live
  <2>7. ASSUME NEW b \in Callers \ {a}
        PROVE  Holds(b)'
    <3>1. /\ pc'[b] = pc[b] /\ fildes'[b] = fildes[b] /\ held'[b] = held[b]
          /\ Holds(b) /\ Place(b)
      BY <1>2, <2>1 DEF Moves, Sound, Inv
    <3>2. ASSUME pc[b] \in {"using", "closing"}
          PROVE  held[b] = table'[fildes[b] + 1]
      <4>1. fildes[b] \in 0..Len(table) - 1 /\ fildes[b] # f
        BY <1>1, <2>1, <3>1, <3>2 DEF Sound, Apart, Holds, Place
      <4>2. fildes[b] + 1 \in 1..Len(table) /\ fildes[b] + 1 # f + 1
        BY <1>1, <1>3, <4>1, BoundsAssumption
      <4> QED BY <1>3, <3>1, <3>2, <4>2 DEF Holds
    <3>3. ASSUME pc[b] = "bound"
          PROVE  table' # <<>> /\ table'[Len(table')] \in {held[b], Null}
      <4>1. table # <<>> /\ table[Len(table)] \in {held[b], Null}
        BY <3>1, <3>3 DEF Holds
      <4>2. Len(table) \in 1..Len(table)
        BY <1>1, <1>3, <4>1, EmptySeq DEF Shared
      <4> QED BY <1>3, <4>1, <4>2, EmptySeq
    <3> QED BY <1>3, <3>1, <3>2, <3>3 DEF Holds
  <2> QED BY <1>6, <2>2, <2>3, <2>6, <2>7 DEF Sound
<1> QED BY <1>2, <1>5, <1>6, <1>7, InvKept

-----------------------------------------------------------------------------
\* open begins to push its delegate.
LEMMA InvBeginPush ==
  ASSUME Inv, NEW a \in Callers, BeginPush(a)
  PROVE  Inv'
<1>1. /\ Frames /\ Shared /\ pc[a] = "bind" /\ op[a] = "open" /\ Go(a, "push")
      /\ conflict' = (conflict \/ \E b \in Callers \ {a} : pc[b] \in Binding)
      /\ UNCHANGED <<table, name>>
  BY Types DEF Inv, Place, BeginPush, Binding
<1>2. Frames' /\ Moves(a, "push", op[a], fildes[a], held[a])
  BY <1>1, BeginMoves DEF Go, Places, Frames
<1>3. conflict' \in BOOLEAN
  BY <1>1 DEF Shared
<1>4. Shared'
  BY <1>1, <1>3 DEF Shared, live
<1>5. Place(a)' /\ Holds(a)'
  BY <1>1, <1>2 DEF Place, Holds, Moves
<1>6. ASSUME ~conflict'
      PROVE  Sound'
  <2>1. Sound /\ \A b \in Callers \ {a} : pc[b] \notin Binding
    BY <1>1, <1>6 DEF Inv
  <2>2. Apart'
    BY <1>2, <2>1, ApartGoesOn DEF Sound
  <2>3. a \in Opening /\ a \in Making
    BY <1>1 DEF Opening, Making
  <2> QED BY <1>1, <1>2, <1>5, <2>1, <2>2, <2>3, SoundKept, TableLength
<1> QED BY <1>2, <1>4, <1>5, <1>6, InvKept

LEMMA WreckageFits ==
  ASSUME NEW t \in Wreckage
  PROVE  t \in Seq(Delegates \cup {Null}) /\ Len(t) <= MaxTable
<1>1. PICK n \in 0..MaxTable : t \in [1..n -> Delegates \cup {Null}]
  BY DEF Wreckage, BoundedSeq, SeqOf
<1> QED BY <1>1, BoundsAssumption

\* push_back is done.
LEMMA InvEndPush ==
  ASSUME Inv, NEW a \in Callers, EndPush(a)
  PROVE  Inv'
<1> DEFINE n == Len(table) + 1
<1>1. /\ Frames /\ Shared /\ pc[a] = "push" /\ op[a] = "open" /\ held[a] \in Delegates \cup {Null}
      /\ Go(a, "bound") /\ UNCHANGED <<name, conflict>>
  BY Types DEF Inv, Place, EndPush, Frames
<1>2. Frames' /\ Moves(a, "bound", op[a], fildes[a], held[a])
  BY <1>1, BeginMoves DEF Go, Places, Frames
<1>3. Place(a)'
  BY <1>1, <1>2 DEF Place, Moves
<1>4. CASE conflict
  <2>1. table' \in Seq(Delegates \cup {Null}) /\ Len(table') <= MaxTable
    BY <1>4, WreckageFits DEF EndPush
  <2>2. Shared'
    BY <1>1, <2>1 DEF Shared, live
  <2> QED BY <1>1, <1>2, <1>3, <1>4, <2>2, InvKept
<1>5. CASE ~conflict
  <2>1. Sound /\ table' = Append(table, held[a])
    BY <1>5 DEF Inv, EndPush, Pushed
  <2>2. /\ table' \in Seq(Delegates \cup {Null}) /\ Len(table') = n /\ n \in Nat
        /\ \A i \in 1..Len(table) : table'[i] = table[i]
        /\ table'[n] = held[a]
    BY <1>1, <2>1, AppendProperties, TableLength DEF Shared
  <2>3. Room' /\ Len(table') <= MaxTable
    <3>1. a \in Opening /\ Opening' = Opening \ {a}
      BY <1>1, <1>2 DEF Opening, Moves
    <3>2. Cardinality(Opening') = Cardinality(Opening) - 1 /\ Cardinality(Opening') \in Nat
      BY <3>1, OpeningFinite, FS_RemoveElement, FS_CardinalityType
    <3> QED BY <1>1, <2>1, <2>2, <3>2, OpeningFinite, TableLength, BoundsAssumption DEF Sound, Room
  <2>4. Shared'
    BY <1>1, <2>2, <2>3 DEF Shared, live
  <2>5. Apart'
    BY <1>1, <1>2, <2>1, ApartGoesOn DEF Sound, Binding
  <2>6. a \in Making /\ Making' = Making \ {a} /\ \A b \in Making \ {a} : held'[b] = held[b]
    BY <1>1, <1>2, MakingMoves DEF Making, Moves
  <2>7. n \notin Serving /\ Serving' = Serving \cup {n}
    <3>1. \A i \in Int : Dying(i)' <=> Dying(i) /\ i # n
      <4>1. \A b \in Callers : pc'[b] = "deleted" => pc[b] = "deleted" /\ fildes'[b] = fildes[b]
        BY <1>2 DEF Moves
      <4>2. \A b \in Callers : pc[b] = "deleted" => pc'[b] = "deleted" /\ fildes'[b] = fildes[b]
        BY <1>1, <1>2 DEF Moves
      <4>3. \A b \in Callers : pc[b] = "deleted" => fildes[b] + 1 # n
        BY <1>1, <2>1, TableLength DEF Sound, Holds
      <4> QED BY <4>1, <4>2, <4>3 DEF Dying
    <3>2. held[a] # Null
      BY <1>1, <2>1, <2>6, NullAssumption DEF Sound, Owned, Shared
    <3>3. 1..n = (1..Len(table)) \cup {n} /\ n \notin 1..Len(table)
      BY <1>1, TableLength
    <3>4. Serving' = {i \in 1..n : table'[i] # Null /\ ~(Dying(i) /\ i # n)}
      BY <2>2, <3>1 DEF Serving
    <3> QED BY <2>2, <3>2, <3>3, <3>4 DEF Serving
  <2>8. Owned(live, Serving, Making, table, held)'
    <3>1. \A i \in Serving : table'[i] = table[i]
      BY <2>2 DEF Serving
    <3>2. Owned(live, Serving, Making, table, held)
      BY <2>1 DEF Sound
    <3>3. Owned(live, Serving \cup {n}, Making \ {a}, table', held')
      BY <2>2, <2>6, <2>7, <3>1, <3>2, OwnedMoved
    <3> QED BY <1>1, <2>6, <2>7, <3>3 DEF live
  <2>9. ASSUME NEW b \in Callers \ {a}
        PROVE  Holds(b)'
    <3>1. /\ pc'[b] = pc[b] /\ fildes'[b] = fildes[b] /\ held'[b] = held[b]
          /\ Holds(b) /\ pc[b] # "bound"
      BY <1>1, <1>2, <2>1 DEF Moves, Sound, Apart, Binding
    <3>2. ASSUME pc[b] \in {"using", "closing", "delete", "deleted"}
          PROVE  fildes[b] \in 0..Len(table') - 1 /\ table'[fildes[b] + 1] = table[fildes[b] + 1]
      <4>1. fildes[b] \in 0..Len(table) - 1
        BY <3>1, <3>2 DEF Holds
      <4>2. fildes[b] + 1 \in 1..Len(table)
        BY <1>1, <4>1, TableLength
      <4> QED BY <2>2, <4>1, <4>2
    <3> QED BY <3>1, <3>2 DEF Holds
  <2>10. Holds(a)'
    <3>1. table' # <<>>
      BY <1>1, <2>2, TableLength, EmptySeq
    <3> QED BY <1>2, <2>2, <3>1 DEF Holds, Moves
  <2>11. Sound'
    BY <2>3, <2>5, <2>8, <2>9, <2>10 DEF Sound
  <2> QED BY <1>2, <1>3, <2>4, <2>11, InvKept
<1> QED BY <1>4, <1>5

-----------------------------------------------------------------------------

\* Every answer is a slot's number, an error, or what isatty answers.
LEMMA AnswersFit ==
  ASSUME Inv
  PROVE  /\ Bad \in Bad..MaxTable /\ 0 \in Bad..MaxTable /\ Len(table) - 1 \in Bad..MaxTable
         /\ \A o, ok : Answer(o, ok) \in Bad..MaxTable
<1>1. Len(table) \in Nat /\ Len(table) <= MaxTable
  BY Types, TableLength DEF Inv
<1>2. \A o, ok : Answer(o, ok) \in {0, 1, Bad}
  BY Zenon DEF Answer
<1>3. {0, 1, Bad} \subseteq Bad..MaxTable
  BY BoundsAssumption DEF Bad
<1> QED BY <1>1, <1>2, <1>3, BoundsAssumption DEF Bad

LEMMA InvLook ==
  ASSUME Inv, NEW a \in Callers, NEW f \in -1..MaxTable,
         NEW o \in DescriptorCalls \cup {"close"}, NEW place \in {"using", "closing"},
         (place = "using" /\ o \in DescriptorCalls) \/ (place = "closing" /\ o = "close"),
         Look(a, o, f, place)
  PROVE  Inv'
<1>1. /\ Enter(a) /\ UNCHANGED <<table, name>>
      /\ conflict' = (conflict \/ Overlaps(a, o, f) \/ (f >= 0 /\ Torn(a)))
  BY DEF Look
<1>2. PICK d \in Found(a, f) :
        IF d = Null THEN Return(a, Answer(o, FALSE)) ELSE Begin(a, o, f, d, place)
  BY DEF Look
<1>3. CASE d = Null
  <2>1. Answer(o, FALSE) \in Bad..MaxTable /\ Return(a, Answer(o, FALSE))
    BY <1>2, <1>3, AnswersFit
  <2>2. /\ conflict' \in BOOLEAN /\ (~conflict' => ~conflict)
        /\ pc[a] \notin {"made", "bind", "push", "deleted"}
    BY <1>1 DEF Enter, Inv, TypeOK
  <2> QED BY <1>1, <2>1, <2>2, InvReturns
<1>4. CASE d # Null
  BY <1>1, <1>2, <1>4, InvLooks
<1> QED BY <1>3, <1>4

LEMMA InvNew ==
  ASSUME Inv, NEW a \in Callers, NEW o \in PathCalls, NEW p \in Paths \cup {NoPath}, New(a, o, p)
  PROVE  Inv'
<1>1. /\ Enter(a) /\ UNCHANGED <<table, conflict>>
      /\ (o = "open" => Len(table) + Cardinality({b \in Callers : op[b] = "open"}) < MaxTable)
  BY DEF New
<1>2. conflict' \in BOOLEAN /\ pc[a] \notin {"made", "bind", "push", "deleted"}
  BY <1>1 DEF Enter, Inv, TypeOK
<1>3. CASE p = NoPath
  <2>1. Return(a, Bad) /\ UNCHANGED name
    BY <1>3 DEF New
  <2> QED BY <1>1, <1>2, <2>1, AnswersFit, InvReturns
<1>4. CASE p # NoPath
  <2>1. PICK d \in Delegates \ live :
          Begin(a, o, -1, d, "made") /\ name' = [e \in live \cup {d} |-> IF e = d THEN p ELSE name[e]]
    BY <1>4 DEF New
  <2> QED BY <1>1, <1>4, <2>1, InvNewDelegate
<1> QED BY <1>3, <1>4

LEMMA InvCallStep ==
  ASSUME Inv, NEW a \in Callers, Step(a)
  PROVE  Inv'
<1>0. conflict \in BOOLEAN
  BY DEF Inv, TypeOK
<1>1. CASE Made(a)
  BY <1>1, InvMade
<1>2. CASE BeginPush(a) \/ EndPush(a)
  BY <1>2, InvBeginPush, InvEndPush
<1>3. CASE Bound(a)
  <2>1. Return(a, Len(table) - 1) /\ UNCHANGED <<table, name, conflict>> /\ pc[a] = "bound"
    BY <1>3 DEF Bound, LastSlot
  <2>2. pc[a] \notin {"made", "bind", "push", "deleted"} /\ conflict' \in BOOLEAN /\ (~conflict' => ~conflict)
    BY <1>0, <2>1
  <2> QED BY <2>1, <2>2, AnswersFit, InvReturns
<1>4. CASE Used(a)
  <2>1. pc[a] = "using" /\ UNCHANGED <<table, name, conflict>> /\ \E ok : Return(a, Answer(op[a], ok))
    BY <1>4 DEF Used
  <2>2. pc[a] \notin {"made", "bind", "push", "deleted"} /\ conflict' \in BOOLEAN /\ (~conflict' => ~conflict)
    BY <1>0, <2>1
  <2> QED BY <2>1, <2>2, AnswersFit, InvReturns
<1>5. CASE Closed(a)
  <2>1. pc[a] = "closing" /\ UNCHANGED <<table, name, conflict>>
    BY <1>5 DEF Closed
  <2>2. pc[a] \notin {"made", "bind", "push", "deleted"} /\ conflict' \in BOOLEAN /\ (~conflict' => ~conflict)
    BY <1>0, <2>1
  <2>3. Go(a, "delete") \/ Return(a, Bad)
    BY <1>5, Zenon DEF Closed
  <2> QED BY <2>1, <2>2, <2>3, AnswersFit, InvReturns, InvClosed
<1>6. CASE Delete(a)
  <2>1. pc[a] = "delete" /\ UNCHANGED table /\ conflict' = (conflict \/ Torn(a))
    BY <1>6 DEF Delete
  <2>2. pc[a] \notin {"made", "bind", "push", "deleted"} /\ conflict' \in BOOLEAN /\ (~conflict' => ~conflict)
    BY <1>0, <2>1
  <2>3. PICK d \in Found(a, fildes[a]) :
          IF d = Null THEN Return(a, 0) /\ UNCHANGED name
          ELSE Begin(a, "close", fildes[a], d, "deleted") /\ Free(d)
    BY <1>6 DEF Delete
  <2>4. CASE d = Null
    BY <2>1, <2>2, <2>3, <2>4, AnswersFit, InvReturns
  <2>5. CASE d # Null
    BY <2>1, <2>3, <2>5, InvDeletes
  <2> QED BY <2>4, <2>5
<1>7. CASE Clear(a)
  BY <1>7, InvClear
<1> QED BY <1>1, <1>2, <1>3, <1>4, <1>5, <1>6, <1>7 DEF Step

LEMMA InvStep == Inv /\ [Next]_vars => Inv'
<1> SUFFICES ASSUME Inv, [Next]_vars
             PROVE  Inv'
  OBVIOUS
<1>1. ASSUME NEW a \in Callers, Step(a)
      PROVE  Inv'
  BY <1>1, InvCallStep
<1>2. ASSUME NEW a \in Callers, NEW o \in PathCalls, NEW p \in Paths \cup {NoPath}, New(a, o, p)
      PROVE  Inv'
  BY <1>2, InvNew
<1>3. ASSUME NEW a \in Callers, NEW f \in -1..MaxTable, Close(a, f)
      PROVE  Inv'
  BY <1>3, InvLook DEF Close
<1>4. ASSUME NEW a \in Callers, NEW f \in -1..MaxTable, NEW o \in DescriptorCalls, Use(a, o, f)
      PROVE  Inv'
  BY <1>4, InvLook DEF Use
<1>5. CASE UNCHANGED vars
  <2>1. UNCHANGED <<table, name, pc, op, fildes, held, answer, conflict>>
    BY <1>5 DEF vars
  <2>2. TypeOK' /\ (Room' <=> Room) /\ \A a \in Callers : Place(a)'
    BY <2>1, Zenon DEF Inv, TypeOK, Room, Opening, Place, live
  <2>3. Serving' = Serving /\ Making' = Making /\ live' = live
    BY <2>1 DEF Serving, Making, live, Dying
  <2>4. Apart' <=> Apart
    BY <2>1 DEF Apart
  <2>5. ASSUME NEW a \in Callers
        PROVE  Holds(a)' <=> Holds(a)
    BY <2>1 DEF Holds
  <2>6. Owned(live, Serving, Making, table, held)' <=> Owned(live, Serving, Making, table, held)
    BY <2>1, <2>3 DEF Owned
  <2>7. conflict' = conflict
    BY <2>1
  <2> QED BY <2>2, <2>4, <2>5, <2>6, <2>7 DEF Inv, Sound
<1> QED BY <1>1, <1>2, <1>3, <1>4, <1>5 DEF Next

LEMMA Invariance == Spec => []Inv
BY InvInit, InvStep, PTL DEF Spec

\* Types: the table never outgrows its bound, and every answer is a slot or an error.
THEOREM TypeCorrect == Spec => []TypeOK
<1>1. Inv => TypeOK
  BY DEF Inv
<1> QED BY <1>1, Invariance, PTL

\* However many threads open and close, and whatever fails, every delegate has exactly
\* one owner, until a use of the table overlaps a push_back or a close another call.
THEOREM DelegatesAccounted == Spec => []Accounted
<1>1. Inv => Accounted
  <2> SUFFICES ASSUME Inv, ~conflict
               PROVE  /\ live = {table[i] : i \in Serving} \cup {held[a] : a \in Making}
                      /\ \A i, j \in Serving : table[i] = table[j] => i = j
                      /\ \A a, b \in Making : held[a] = held[b] => a = b
                      /\ \A i \in Serving, a \in Making : table[i] # held[a]
    BY Zenon DEF Accounted
  <2>1. Owned(live, Serving, Making, table, held)
    BY DEF Inv, Sound
  <2>2. live = {table[i] : i \in Serving} \cup {held[a] : a \in Making}
    BY <2>1 DEF Owned
  <2> QED BY <2>1, <2>2 DEF Owned
<1> QED BY <1>1, Invariance, PTL

\* Nor does, under the same condition, a method run on a delegate that is gone.
THEOREM NoUseAfterDelete == Spec => []InUseAlive
<1>1. Inv => InUseAlive
  <2> SUFFICES ASSUME Inv, ~conflict, NEW a \in Callers, pc[a] \in {"made", "bind", "push", "using", "closing"}
               PROVE  held[a] \in live
    BY Zenon DEF InUseAlive
  <2>1. Apart /\ Owned(live, Serving, Making, table, held) /\ Holds(a) /\ Place(a)
    BY DEF Inv, Sound
  <2>2. CASE pc[a] \in {"made", "bind", "push"}
    BY <2>1, <2>2 DEF Owned, Making
  <2>3. CASE pc[a] \in {"using", "closing"}
    <3>1. held[a] = table[fildes[a] + 1] /\ held[a] # Null /\ fildes[a] \in 0..Len(table) - 1
      BY <2>1, <2>3 DEF Holds
    <3>2. \A b \in Callers : pc[b] = "deleted" => fildes[b] # fildes[a]
      BY <2>1, <2>3 DEF Apart, Inv, Place
    <3>3. fildes \in [Callers -> Int] /\ Len(table) \in Nat
      BY BoundsAssumption, Types, TableLength DEF Inv, Frames
    <3>4. fildes[a] + 1 \in Serving
      <4>1. ~Dying(fildes[a] + 1)
        BY <3>2, <3>3 DEF Dying
      <4>2. fildes[a] + 1 \in 1..Len(table)
        BY <3>1, <3>3
      <4> QED BY <3>1, <4>1, <4>2 DEF Serving
    <3> QED BY <2>1, <3>1, <3>4 DEF Owned
  <2> QED BY <2>2, <2>3
<1> QED BY <1>1, Invariance, PTL

\* An open answers the slot of its own delegate, whatever other opens are under way,
\* when their push_backs do not meet.
THEOREM OpenAnswersItsSlot == Spec => OpenReturnsOwn
<1> DEFINE A == \A a \in Callers :
                  pc[a] = "bound" /\ pc'[a] = "idle" /\ ~conflict
                    => answer'[a] + 1 \in 1..Len(table) /\ table[answer'[a] + 1] \in {held[a], Null}
<1>1. ASSUME Inv, [Next]_vars
      PROVE  [A]_vars
  <2> SUFFICES ASSUME Next, NEW a \in Callers, pc[a] = "bound", pc'[a] = "idle", ~conflict
               PROVE  answer'[a] + 1 \in 1..Len(table) /\ table[answer'[a] + 1] \in {held[a], Null}
    BY <1>1
  <2>0. Frames /\ Shared
    BY <1>1, Types DEF Inv
  <2>1. ASSUME NEW b \in Callers, NEW o, NEW f, NEW d, NEW place, Begin(b, o, f, d, place),
               place # "idle"
        PROVE  FALSE
    BY <2>0, <2>1 DEF Begin, Frames
  <2>2. ASSUME NEW b \in Callers, NEW value, Return(b, value), pc[b] # "bound"
        PROVE  FALSE
    BY <2>0, <2>2 DEF Return, Frames
  <2>3. Bound(a)
    <3>1. ASSUME NEW b \in Callers, Step(b), ~Bound(b)
          PROVE  FALSE
      <4>1. CASE Made(b)
        <5>1. pc[b] = "made" /\ \E ok : Go(b, "bind") \/ Return(b, Answer(op[b], ok))
          BY <4>1, Zenon DEF Made
        <5> QED BY <2>1, <2>2, <5>1 DEF Go
      <4>2. CASE BeginPush(b) \/ EndPush(b)
        BY <2>1, <4>2 DEF BeginPush, EndPush, Go
      <4>3. CASE Used(b)
        BY <2>2, <4>3 DEF Used
      <4>4. CASE Closed(b)
        <5>1. pc[b] = "closing" /\ (Go(b, "delete") \/ Return(b, Bad))
          BY <4>4, Zenon DEF Closed
        <5> QED BY <2>1, <2>2, <5>1 DEF Go
      <4>5. CASE Delete(b)
        <5>1. pc[b] = "delete" /\ (Return(b, 0) \/ \E d : Begin(b, "close", fildes[b], d, "deleted"))
          BY <4>5, Zenon DEF Delete
        <5> QED BY <2>1, <2>2, <5>1
      <4>6. CASE Clear(b)
        BY <2>2, <4>6 DEF Clear
      <4> QED BY <3>1, <4>1, <4>2, <4>3, <4>4, <4>5, <4>6 DEF Step
    <3>2. ASSUME NEW b \in Callers, Bound(b)
          PROVE  b = a
      BY <2>0, <3>2 DEF Bound, Return, Frames
    <3>3. ASSUME NEW b \in Callers, NEW o \in PathCalls, NEW p, New(b, o, p)
          PROVE  FALSE
      <4>1. pc[b] = "idle" /\ (Return(b, Bad) \/ \E d : Begin(b, o, -1, d, "made"))
        BY <3>3 DEF New, Enter
      <4> QED BY <2>1, <2>2, <4>1
    <3>4. ASSUME NEW b \in Callers, NEW f, Close(b, f) \/ \E o \in DescriptorCalls : Use(b, o, f)
          PROVE  FALSE
      <4>1. PICK o, place : Look(b, o, f, place) /\ place # "idle"
        BY <3>4 DEF Close, Use
      <4>2. pc[b] = "idle" /\ (Return(b, Answer(o, FALSE)) \/ \E d : Begin(b, o, f, d, place))
        BY <4>1, Zenon DEF Look, Enter
      <4> QED BY <2>1, <2>2, <4>1, <4>2
    <3> QED BY <3>1, <3>2, <3>3, <3>4 DEF Next
  <2>4. answer'[a] = Len(table) - 1
    BY <2>0, <2>3 DEF Bound, LastSlot, Return, Frames
  <2>5. table # <<>> /\ table[Len(table)] \in {held[a], Null}
    BY <1>1 DEF Inv, Sound, Holds
  <2>6. Len(table) \in Nat /\ Len(table) # 0
    BY <2>0, <2>5, TableLength, EmptySeq DEF Shared
  <2> QED BY <2>4, <2>5, <2>6
<1> QED BY <1>1, Invariance, PTL DEF Spec, OpenReturnsOwn

\* Under the same condition the table only grows, and a slot only becomes free.
THEOREM DescriptorsNotReused == Spec => NeverReused
<1> DEFINE A == ~conflict =>
                  /\ Len(table') >= Len(table)
                  /\ \A i \in 1..Len(table) : table'[i] \in {table[i], Null}
<1>1. ASSUME Inv, [Next]_vars
      PROVE  [A]_vars
  <2> SUFFICES ASSUME Next, ~conflict
               PROVE  A
    BY <1>1
  <2>0. /\ table \in Seq(Delegates \cup {Null}) /\ Len(table) \in Nat
        /\ held \in [Callers -> Delegates \cup {Null}]
    BY <1>1, Types, TableLength DEF Inv, Shared, Frames
  <2>1. CASE UNCHANGED table
    BY <2>0, <2>1
  <2>2. ASSUME NEW a \in Callers, EndPush(a)
        PROVE  A
    <3>1. table' = Append(table, held[a]) /\ held[a] \in Delegates \cup {Null}
      BY <2>0, <2>2 DEF EndPush, Pushed
    <3>2. Len(table') = Len(table) + 1 /\ \A i \in 1..Len(table) : table'[i] = table[i]
      BY <2>0, <3>1, AppendProperties
    <3> QED BY <2>0, <3>2
  <2>3. ASSUME NEW a \in Callers, Clear(a)
        PROVE  A
    <3>1. table' = [i \in 1..Len(table) |-> IF i = fildes[a] + 1 THEN Null ELSE table[i]]
      BY <2>3 DEF Clear
    <3>2. Len(table') = Len(table)
      BY <2>0, <3>1
    <3> QED BY <2>0, <3>1, <3>2
  <2>4. ASSUME NEW a \in Callers, Step(a)
        PROVE  A
    <3>1. CASE Made(a) \/ BeginPush(a) \/ Bound(a) \/ Used(a) \/ Closed(a) \/ Delete(a)
      BY <2>1, <3>1 DEF Made, BeginPush, Bound, Used, Closed, Delete
    <3> QED BY <2>2, <2>3, <2>4, <3>1 DEF Step
  <2>5. ASSUME NEW a \in Callers, NEW o, NEW p, New(a, o, p)
        PROVE  A
    BY <2>1, <2>5 DEF New
  <2>6. ASSUME NEW a \in Callers, NEW f, Close(a, f) \/ \E o \in DescriptorCalls : Use(a, o, f)
        PROVE  A
    BY <2>1, <2>6 DEF Close, Use, Look
  <2> QED BY <2>4, <2>5, <2>6 DEF Next
<1> QED BY <1>1, Invariance, PTL DEF Spec, NeverReused

=============================================================================
