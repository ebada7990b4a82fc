----------------------------- MODULE DirListing -----------------------------
(***************************************************************************)
(* What a directory stream promises: what a stream lists is what the       *)
(* directory held at one moment, found when its first readdir asks.  One   *)
(* pass gives every entry once and then NULL; rewinddir starts another     *)
(* pass over the same entries.  A readdir that has nothing yet may fail,   *)
(* with NULL as well.  DirStream is to implement this.                     *)
(***************************************************************************)
EXTENDS Integers, Sequences, FiniteSets

CONSTANTS Streams, Names, Null

VARIABLES
  contents,  \* what the directory holds
  known,     \* the streams that have found their entries
  listing,   \* the entries of each stream
  given,     \* how many of them this pass has given
  answer     \* what the stream's last readdir answered

vars == <<contents, known, listing, given, answer>>

\* The browser gives the entries in some order.
Orders(set) == {o \in [1..Cardinality(set) -> set] : \A n \in set : \E i \in DOMAIN o : o[i] = n}

Init ==
  /\ contents = {}
  /\ known = {}
  /\ listing = [s \in Streams |-> <<>>]
  /\ given = [s \in Streams |-> 0]
  /\ answer = [s \in Streams |-> Null]

Change ==
  /\ contents' \in SUBSET Names
  /\ UNCHANGED <<known, listing, given, answer>>

Find(s) ==
  /\ s \notin known
  /\ known' = known \cup {s}
  /\ \E o \in Orders(contents) : listing' = [listing EXCEPT ![s] = o]
  /\ given' = [given EXCEPT ![s] = 0]
  /\ UNCHANGED <<contents, answer>>

Give(s) ==
  /\ s \in known
  /\ IF given[s] < Len(listing[s])
     THEN /\ given' = [given EXCEPT ![s] = @ + 1]
          /\ answer' = [answer EXCEPT ![s] = listing[s][given[s] + 1]]
     ELSE answer' = [answer EXCEPT ![s] = Null] /\ UNCHANGED given
  /\ UNCHANGED <<contents, known, listing>>

Fail(s) ==
  /\ s \notin known
  /\ answer' = [answer EXCEPT ![s] = Null]
  /\ UNCHANGED <<contents, known, listing, given>>

Rewind(s) ==
  /\ given' = [given EXCEPT ![s] = 0]
  /\ UNCHANGED <<contents, known, listing, answer>>

\* After closedir the stream is another opendir's.
Close(s) ==
  /\ known' = known \ {s}
  /\ listing' = [listing EXCEPT ![s] = <<>>]
  /\ given' = [given EXCEPT ![s] = 0]
  /\ answer' = [answer EXCEPT ![s] = Null]
  /\ UNCHANGED contents

Next ==
  Change \/ \E s \in Streams : Find(s) \/ Give(s) \/ Fail(s) \/ Rewind(s) \/ Close(s)

Spec == Init /\ [][Next]_vars
=============================================================================
