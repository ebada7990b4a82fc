-------------------------- MODULE DirStreamProofs --------------------------
(* Theorems about DirStream, for any number of streams and any names. *)
EXTENDS DirStream, FiniteSetTheorems, SequenceTheorems, TLAPS

(***************************************************************************)
(* What the two runs of a handler may rely on: which call waits for what,  *)
(* and that a stream that has not been read is empty, so that a completion *)
(* brings its first entries and an open readdir stands at the first one.   *)
(***************************************************************************)
StreamInv(s) ==
  /\ s \notin read => entries[s] = <<>>
  /\ s \in read => s \in dirs
  /\ call[s] = "none" => request[s] = "none"
  /\ call[s] = "opendir" => s \notin dirs /\ request[s] \in {"pending", "lost"}
  /\ call[s] = "readdir" => s \in dirs \ read /\ request[s] \in {"pending", "read", "failed"}

Inv ==
  /\ TypeOK
  /\ NoDelegateLost
  /\ WaitingOfTheCall
  /\ \A s \in Streams : StreamInv(s)

LEMMA OrdersAreSequences ==
  ASSUME NEW set \in SUBSET Names, NEW o \in L!Orders(set)
  PROVE  o \in Seq(Names)
<1>1. Cardinality(set) \in Nat
  BY NamesAssumption, FS_Subset, FS_CardinalityType
<1>0. L!Cardinality(set) = Cardinality(set)
  BY DEF L!Cardinality, Cardinality
<1>2. o \in [1..Cardinality(set) -> Names]
  BY <1>0 DEF L!Orders
<1> QED BY <1>1, <1>2, IsASeq

\* What ReadDirNext does, for a stream that stands within its entries.
LEMMA NextInRange ==
  ASSUME NEW s \in Streams, NEW e \in Seq(Names), NEW at \in 0..Len(e),
         answer \in [Streams -> Names \cup {Null}], offset \in [Streams -> Nat],
         ReadDirNext(s, e, at)
  PROVE  /\ answer' \in [Streams -> Names \cup {Null}]
         /\ \E to \in 0..Len(e) : offset' = [offset EXCEPT ![s] = to]
<1>1. Len(e) \in Nat
  BY LenProperties
<1>2. CASE at >= Len(e)
  BY <1>1, <1>2 DEF ReadDirNext
<1>3. CASE at < Len(e)
  <2>1. e[at + 1] \in Names
    BY <1>1, <1>3, ElementOfSeq
  <2>2. at + 1 \in 0..Len(e)
    BY <1>1, <1>3
  <2>3. offset' = [offset EXCEPT ![s] = at + 1] /\ answer' = [answer EXCEPT ![s] = e[at + 1]]
    BY <1>1, <1>3 DEF ReadDirNext
  <2> QED BY <2>1, <2>2, <2>3
<1> QED BY <1>1, <1>2, <1>3

\* A thread waits for what it may wait for.
LEMMA WaitTypes ==
  ASSUME NEW s \in Streams, NEW c \in Calls, NEW o \in Requests,
         call \in [Streams -> Calls], request \in [Streams -> Requests],
         Wait(s, c, o)
  PROVE  call' \in [Streams -> Calls] /\ request' \in [Streams -> Requests]
BY DEF Wait

LEMMA InvInit == Init => Inv
<1> SUFFICES ASSUME Init PROVE Inv
  OBVIOUS
<1>1. <<>> \in Seq(Names) /\ Len(<<>>) = 0
  BY EmptySeq
<1>2. TypeOK
  <2>1. entries \in [Streams -> Seq(Names)] /\ found \in [Streams -> Seq(Names)]
    BY <1>1 DEF Init
  <2>2. offset \in [Streams -> Nat] /\ \A s \in Streams : offset[s] <= Len(entries[s])
    BY <1>1 DEF Init
  <2> QED BY <2>1, <2>2 DEF Init, TypeOK, Paths, Calls, Requests
<1>3. NoDelegateLost /\ WaitingOfTheCall
  BY DEF Init, NoDelegateLost, WaitingOfTheCall
<1>4. \A s \in Streams : StreamInv(s)
  BY DEF Init, StreamInv
<1> QED BY <1>2, <1>3, <1>4 DEF Inv

LEMMA InvStep == Inv /\ [Next]_vars => Inv'
<1> SUFFICES ASSUME Inv, [Next]_vars
             PROVE  Inv'
  OBVIOUS
<1> USE DEF Inv, TypeOK, NoDelegateLost, WaitingOfTheCall, StreamInv, Paths, Calls, Requests
<1>0. <<>> \in Seq(Names) /\ Len(<<>>) = 0
  BY EmptySeq
<1>1. CASE Change
  BY <1>1 DEF Change
<1>2. ASSUME NEW s \in Streams, NEW p \in Paths, OpenDir(s, p)
      PROVE  Inv'
  <2>1. s \notin dirs /\ call[s] = "none"
    BY <1>2 DEF OpenDir
  <2>2. TypeOK'
    <3>1. call' \in [Streams -> Calls] /\ request' \in [Streams -> Requests]
      <4>1. CASE UNCHANGED <<call, request>>
        BY <4>1
      <4>2. ASSUME NEW o \in {"pending", "lost"}, Wait(s, "opendir", o)
            PROVE  call' \in [Streams -> Calls] /\ request' \in [Streams -> Requests]
        BY <4>2, WaitTypes
      <4> QED BY <1>2, <4>1, <4>2 DEF OpenDir
    <3>2. filesystem' \in BOOLEAN
      BY <1>2, Zenon DEF OpenDir
    <3>4. delegates' \subseteq Streams /\ dirs' \subseteq Streams
      BY <1>2 DEF OpenDir
    <3>3. path' \in [Streams -> Paths]
      BY <1>2 DEF OpenDir
    <3> QED BY <1>2, <3>1, <3>2, <3>3, <3>4 DEF OpenDir
  <2>3. NoDelegateLost' /\ WaitingOfTheCall'
    BY <1>2, <2>1 DEF OpenDir, Wait
  <2>4. \A t \in Streams : StreamInv(t)'
    BY <1>2, <2>1 DEF OpenDir, Wait
  <2> QED BY <2>2, <2>3, <2>4
<1>3. ASSUME NEW s \in Streams, ReadDir(s)
      PROVE  Inv'
  <2>1. CASE s \in read
    <3>1. ReadDirNext(s, entries[s], offset[s]) /\ offset[s] \in 0..Len(entries[s])
      BY <1>3, <2>1, LenProperties DEF ReadDir, Cached
    <3>2. answer' \in [Streams -> Names \cup {Null}]
      BY <3>1, NextInRange
    <3>3. PICK to \in 0..Len(entries[s]) : offset' = [offset EXCEPT ![s] = to]
      BY <3>1, NextInRange
    <3>4. Len(entries[s]) \in Nat
      BY LenProperties
    <3> QED BY <1>3, <2>1, <3>2, <3>3, <3>4 DEF ReadDir, Cached
  <2>2. CASE s \notin read
    <3> USE DEF ReadDir, Cached, Asked, Refused, Wait, FirstEntry
    <3>1. TypeOK'
      <4>0. offset' = [offset EXCEPT ![s] = 0] /\ UNCHANGED entries
        BY <1>3, <2>2
      <4>1. offset' \in [Streams -> Nat] /\ \A t \in Streams : offset'[t] <= Len(entries'[t])
        <5>1. 0 <= Len(entries[s])
          BY LenProperties
        <5> QED BY <4>0, <5>1
      <4>2. CASE Asked(s, "pending")
        <5>1. call' \in [Streams -> Calls] /\ request' \in [Streams -> Requests]
          BY <4>2, WaitTypes
        <5> QED BY <1>3, <2>2, <4>1, <4>2, <5>1
      <4>3. CASE Refused(s)
        BY <1>3, <2>2, <4>1, <4>3
      <4> QED BY <1>3, <2>2, <4>2, <4>3
    <3>2. NoDelegateLost' /\ WaitingOfTheCall'
      BY <1>3, <2>2
    <3>3. \A t \in Streams : StreamInv(t)'
      BY <1>3, <2>2
    <3> QED BY <3>1, <3>2, <3>3
  <2> QED BY <2>1, <2>2
<1>4. ASSUME NEW s \in Streams, RewindDir(s)
      PROVE  Inv'
  <2>1. 0 <= Len(entries[s])
    BY LenProperties
  <2> QED BY <1>4, <2>1 DEF RewindDir, FirstEntry
<1>5. ASSUME NEW s \in Streams, CloseDir(s)
      PROVE  Inv'
  BY <1>0, <1>5 DEF CloseDir, DelegateDeleted
<1>6. ASSUME NEW s \in Streams, FileSystemOpened(s)
      PROVE  Inv'
  BY <1>0, <1>6 DEF FileSystemOpened, Wake, Wait
<1>7. ASSUME NEW s \in Streams, BrowserReads(s)
      PROVE  Inv'
  <2>1. found' \in [Streams -> Seq(Names)]
    <3>1. \A o \in L!Orders(contents) : o \in Seq(Names)
      BY OrdersAreSequences
    <3> QED BY <1>7, <3>1 DEF BrowserReads
  <2> QED BY <1>7, <2>1 DEF BrowserReads
<1>8. ASSUME NEW s \in Streams, OnReadDirectoryEntries(s)
      PROVE  Inv'
  <2>1. s \notin read /\ entries[s] = <<>> /\ offset[s] = 0 /\ s \in dirs /\ call[s] = "readdir"
    BY <1>0, <1>8 DEF OnReadDirectoryEntries
  <2>2. CASE request[s] = "read"
    <3>1. entries[s] \o found[s] = found[s] /\ Len(found[s]) \in Nat
      BY <2>1, ConcatEmptySeq, LenProperties
    <3>2. ReadDirNext(s, found[s], 0) /\ entries' = [entries EXCEPT ![s] = found[s]]
      BY <1>8, <2>1, <2>2, <3>1 DEF OnReadDirectoryEntries
    <3>a. 0 \in 0..Len(found[s]) /\ found[s] \in Seq(Names)
      BY <3>1
    <3>3. answer' \in [Streams -> Names \cup {Null}]
      BY <3>2, <3>a, NextInRange
    <3>4. PICK to \in 0..Len(found[s]) : offset' = [offset EXCEPT ![s] = to]
      BY <3>2, <3>a, NextInRange
    <3> QED BY <1>0, <1>8, <2>1, <2>2, <3>1, <3>2, <3>3, <3>4
            DEF OnReadDirectoryEntries, NotWaiting, Wake, Wait
  <2>3. CASE request[s] # "read"
    <3> USE DEF OnReadDirectoryEntries, NotWaiting, Wake, Wait
    <3>1. TypeOK'
      BY <1>0, <1>8, <2>1, <2>3
    <3>2. NoDelegateLost' /\ WaitingOfTheCall'
      BY <1>8, <2>1, <2>3
    <3>3. \A t \in Streams : StreamInv(t)'
      BY <1>8, <2>1, <2>3
    <3> QED BY <3>1, <3>2, <3>3
  <2> QED BY <2>2, <2>3
<1>9. CASE UNCHANGED vars
  BY <1>9 DEF vars
<1> QED BY <1>1, <1>2, <1>3, <1>4, <1>5, <1>6, <1>7, <1>8, <1>9 DEF Next, Browser

LEMMA Invariance == Spec => []Inv
BY InvInit, InvStep, PTL DEF Spec

\* Types, and a stream never stands behind its last entry.
THEOREM TypeCorrect == Spec => []TypeOK
<1>1. Inv => TypeOK
  BY DEF Inv
<1> QED BY <1>1, Invariance, PTL

\* The delegates that exist are those of open streams and of opendirs that wait,
\* for any number of streams, however requests end.
THEOREM DelegatesOwned == Spec => []NoDelegateLost
<1>1. Inv => NoDelegateLost
  BY DEF Inv
<1> QED BY <1>1, Invariance, PTL

\* waiting_ never outlives the readdir that set it.
THEOREM WaitingIsOfTheCall == Spec => []WaitingOfTheCall
<1>1. Inv => WaitingOfTheCall
  BY DEF Inv
<1> QED BY <1>1, Invariance, PTL

-----------------------------------------------------------------------------

LEMMA ListingInit == Init => L!Init
BY DEF Init, L!Init, Known, Listing

\* The request is another's, or is not there: nothing is seen of it.
LEMMA Unseen ==
  ASSUME Inv, NEW s \in Streams, call[s] # "readdir"
  PROVE  request[s] # "read" /\ Listing[s] = entries[s]
BY DEF Inv, StreamInv, TypeOK, Calls, Listing

\* A readdir that is open stands at the first entry of nothing.
LEMMA OpenReadDir ==
  ASSUME Inv, NEW s \in Streams, call[s] = "readdir"
  PROVE  s \notin read /\ entries[s] = <<>> /\ offset[s] = 0
<1>1. s \notin read /\ entries[s] = <<>>
  BY DEF Inv, StreamInv
<1>2. Len(<<>>) = 0
  BY EmptySeq
<1> QED BY <1>1, <1>2 DEF Inv, TypeOK

LEMMA ListingStep == Inv /\ [Next]_vars => [L!Next]_(L!vars)
<1> SUFFICES ASSUME Inv, [Next]_vars
             PROVE  [L!Next]_(L!vars)
  OBVIOUS
<1> USE DEF Known, Listing
<1>1. CASE Change
  <2>1. L!Change
    BY <1>1 DEF Change, L!Change, Inv, TypeOK
  <2> QED BY <2>1 DEF L!Next
<1>2. ASSUME NEW s \in Streams, NEW p \in Paths, OpenDir(s, p)
      PROVE  UNCHANGED L!vars
  <2>1. call[s] # "readdir" /\ request[s] # "read"
    BY <1>2, Unseen DEF OpenDir, Inv, NoDelegateLost, StreamInv, TypeOK
  <2>2. /\ UNCHANGED <<contents, read, entries, found, offset, answer>>
        /\ \A t \in Streams : request'[t] = "read" <=> request[t] = "read"
    BY <1>2, <2>1 DEF OpenDir, Wait, Inv, TypeOK
  <2> QED BY <2>2 DEF L!vars
<1>3. ASSUME NEW s \in Streams, ReadDir(s)
      PROVE  [L!Next]_(L!vars)
  <2>1. request[s] # "read" /\ Listing[s] = entries[s] /\ call[s] = "none"
    BY <1>3, Unseen DEF ReadDir
  <2>2. CASE s \in read
    <3>1. ReadDirNext(s, entries[s], offset[s]) /\ UNCHANGED <<contents, read, request, entries, found>>
      BY <1>3, <2>2 DEF ReadDir, Cached
    <3>2. L!Give(s)
      BY <2>1, <2>2, <3>1, LenProperties DEF ReadDirNext, L!Give, Inv, TypeOK
    <3> QED BY <3>2 DEF L!Next
  <2>3. CASE s \notin read /\ Asked(s, "pending")
    <3>1. /\ UNCHANGED <<contents, read, entries, found, answer>>
          /\ offset' = [offset EXCEPT ![s] = 0]
          /\ \A t \in Streams : request'[t] = "read" <=> request[t] = "read"
      BY <1>3, <2>1, <2>3 DEF ReadDir, Cached, FirstEntry, Asked, Wait, Inv, TypeOK
    <3>2. L!Rewind(s)
      BY <3>1 DEF L!Rewind
    <3> QED BY <3>2 DEF L!Next
  <2>4. CASE s \notin read /\ Refused(s)
    <3>1. entries[s] = <<>> /\ offset[s] = 0
      <4>1. Len(<<>>) = 0
        BY EmptySeq
      <4> QED BY <2>4, <4>1 DEF Inv, StreamInv, TypeOK
    <3>2. /\ UNCHANGED <<contents, read, entries, found, request, offset>>
          /\ answer' = [answer EXCEPT ![s] = Null]
      BY <1>3, <2>4, <3>1 DEF ReadDir, Cached, FirstEntry, Refused, Inv, TypeOK
    <3>3. L!Fail(s)
      BY <2>1, <2>4, <3>2 DEF L!Fail
    <3> QED BY <3>3 DEF L!Next
  <2> QED BY <1>3, <2>2, <2>3, <2>4 DEF ReadDir, Cached
<1>4. ASSUME NEW s \in Streams, RewindDir(s)
      PROVE  [L!Next]_(L!vars)
  <2>1. L!Rewind(s)
    BY <1>4 DEF RewindDir, FirstEntry, L!Rewind
  <2> QED BY <2>1 DEF L!Next
<1>5. ASSUME NEW s \in Streams, CloseDir(s)
      PROVE  [L!Next]_(L!vars)
  <2>1. request[s] # "read"
    BY <1>5, Unseen DEF CloseDir
  <2>2. L!Close(s)
    BY <1>5, <2>1 DEF CloseDir, L!Close, Inv, TypeOK
  <2> QED BY <2>2 DEF L!Next
<1>6. ASSUME NEW s \in Streams, FileSystemOpened(s)
      PROVE  UNCHANGED L!vars
  <2>1. /\ UNCHANGED <<contents, read, entries, offset, answer>>
        /\ \A t \in Streams : request'[t] = "read" <=> request[t] = "read"
        /\ \A t \in Streams : request[t] = "read" => found'[t] = found[t]
    BY <1>6 DEF FileSystemOpened, Wake, Wait, Inv, TypeOK
  <2> QED BY <2>1 DEF L!vars
<1>7. ASSUME NEW s \in Streams, BrowserReads(s)
      PROVE  [L!Next]_(L!vars)
  <2>1. s \notin read /\ entries[s] = <<>> /\ offset[s] = 0
    BY <1>7, OpenReadDir DEF BrowserReads
  <2>2. UNCHANGED <<contents, read, entries, offset, answer>>
    BY <1>7 DEF BrowserReads
  <2>3. CASE request' = [request EXCEPT ![s] = "failed"] /\ UNCHANGED found
    <3>1. \A t \in Streams : request'[t] = "read" <=> request[t] = "read"
      BY <1>7, <2>3 DEF BrowserReads, Inv, TypeOK
    <3> QED BY <2>2, <2>3, <3>1 DEF L!vars
  <2>4. ASSUME NEW o \in L!Orders(contents), found' = [found EXCEPT ![s] = o],
               request' = [request EXCEPT ![s] = "read"]
        PROVE  [L!Next]_(L!vars)
    <3>1. /\ request[s] = "pending"
          /\ request \in [Streams -> Requests] /\ found \in [Streams -> Seq(Names)]
          /\ offset \in [Streams -> Nat]
      BY <1>7 DEF BrowserReads, Inv, TypeOK
    <3>2. /\ s \notin Known
          /\ Known' = Known \cup {s}
          /\ Listing' = [Listing EXCEPT ![s] = o]
      BY <2>1, <2>2, <2>4, <3>1
    <3>3. offset' = [offset EXCEPT ![s] = 0]
      BY <2>1, <2>2, <3>1
    <3>4. L!Find(s)
      BY <2>2, <3>2, <3>3 DEF L!Find
    <3> QED BY <3>4 DEF L!Next
  <2> QED BY <1>7, <2>3, <2>4 DEF BrowserReads
<1>8. ASSUME NEW s \in Streams, OnReadDirectoryEntries(s)
      PROVE  [L!Next]_(L!vars)
  <2>1. s \notin read /\ entries[s] = <<>> /\ offset[s] = 0
    BY <1>8, OpenReadDir DEF OnReadDirectoryEntries
  <2>2. /\ request' = [request EXCEPT ![s] = "none"]
        /\ found' = [found EXCEPT ![s] = <<>>]
        /\ UNCHANGED contents
    BY <1>8 DEF OnReadDirectoryEntries, Wake, Wait
  <2>3. CASE request[s] = "read"
    <3>1. entries[s] \o found[s] = found[s] /\ Len(found[s]) \in Nat
      BY <2>1, ConcatEmptySeq, LenProperties DEF Inv, TypeOK
    <3>2. /\ ReadDirNext(s, found[s], offset[s]) /\ entries' = [entries EXCEPT ![s] = found[s]]
          /\ read' = read \cup {s}
      BY <1>8, <2>3, <3>1 DEF OnReadDirectoryEntries
    <3>3. L!Give(s)
      BY <2>1, <2>2, <2>3, <3>1, <3>2 DEF ReadDirNext, L!Give, Inv, TypeOK
    <3> QED BY <3>3 DEF L!Next
  <2>4. CASE request[s] # "read"
    <3>1. UNCHANGED <<read, entries, offset>> /\ answer' = [answer EXCEPT ![s] = Null]
      BY <1>8, <2>4 DEF OnReadDirectoryEntries
    <3>2. L!Fail(s)
      BY <2>1, <2>2, <2>4, <3>1 DEF L!Fail, Inv, TypeOK
    <3> QED BY <3>2 DEF L!Next
  <2> QED BY <2>3, <2>4
<1>9. CASE UNCHANGED vars
  BY <1>9 DEF vars, L!vars
<1> QED BY <1>1, <1>2, <1>3, <1>4, <1>5, <1>6, <1>7, <1>8, <1>9 DEF Next, Browser

\* Whatever the directory does meanwhile, a stream lists what it held at one moment,
\* each entry once a pass: for any number of streams and of names.
THEOREM ImplementsListing == Spec => ListsOneMoment
<1>1. Init => L!Init
  BY ListingInit
<1>2. Inv /\ [Next]_vars => [L!Next]_(L!vars)
  BY ListingStep
<1> QED BY <1>1, <1>2, Invariance, PTL DEF Spec, L!Spec, ListsOneMoment

=============================================================================
