-------------------------- MODULE Html5FileProofs --------------------------
(* Theorems about Html5File, for any delegates, bounds and failures.        *)
EXTENDS Html5File, TLAPS

(***************************************************************************)
(* The types alone are not inductive: the bound on an offset rests on what *)
(* a completed transfer may answer, and the cached size on a query being   *)
(* made only of a file that is there.                                      *)
(***************************************************************************)

\* Which call a request serves, and what it has established already.
RequestsFit ==
  /\ request # "none" => call # NoCall
  /\ request = "initialize" => ~waiting[call.d]
  /\ request = "open" => call.op \in {"open", "stat"}
  /\ request = "query" =>
       /\ size >= 0
       /\ \/ call.op \in {"open", "stat"} /\ ~waiting[call.d]
          \/ call.op = "fstat"
  /\ request = "read" => call.op = "read"
  /\ request = "write" => call.op = "write"
  /\ request = "mkdir" => call.op = "mkdir"

\* What a handler may conclude from its arguments and flags.
CallFits ==
  call # NoCall =>
    /\ call.op \in {"fstat", "read", "write"} => call.d \in open
    /\ call.op = "write" => offset[call.d] + call.n <= MaxSize
    /\ querying[call.d] => call.op \in {"open", "stat"} /\ size >= 0
    /\ OnNewDelegate(call) /\ (waiting[call.d] \/ querying[call.d]) => filesystem # "null"

\* What the completion tells the handler it is about to enter.
CompletionFits ==
  call # NoCall /\ request = "none" /\ waiting[call.d] =>
    /\ call.op \in {"open", "stat"} =>
         /\ callback = PP_OK => size >= 0
         /\ callback = PP_ERROR_NOTAFILE => size = Directory
    /\ call.op \in {"read", "write"} /\ callback > 0 =>
         offset[call.d] >= 0 /\ offset[call.d] + callback <= MaxSize
    /\ call.op = "mkdir" /\ callback = PP_OK => size = Directory

OpenFilesExist == open # {} => size >= 0

Inv ==
  /\ TypeOK
  /\ FlagsOfTheCall
  /\ RequestsFit
  /\ CallFits
  /\ CompletionFits
  /\ OpenFilesExist

\* The arguments of a call.
LEMMA CallFields ==
  ASSUME NEW c \in Calls
  PROVE  /\ c.d \in Descs
         /\ c.op \in {"open", "stat", "fstat", "read", "write", "mkdir"}
         /\ c.op \in {"read", "write"} => c.n \in 0..MaxSize
BY DEF Calls

LEMMA InvInit == Init => Inv
<1> SUFFICES ASSUME Init PROVE Inv
  OBVIOUS
<1> USE BoundsAssumption DEF Init
<1>1. TypeOK
  BY DEF TypeOK, PP_OK, Missing, Larger
<1>2. FlagsOfTheCall
  BY DEF FlagsOfTheCall
<1>3. RequestsFit /\ CallFits /\ CompletionFits /\ OpenFilesExist
  BY DEF RequestsFit, CallFits, CompletionFits, OpenFilesExist
<1> QED BY <1>1, <1>2, <1>3 DEF Inv

LEMMA BeginKeeps ==
  ASSUME Inv, NEW c \in Calls, Begin(c)
  PROVE  Inv'
<1>1. /\ call = NoCall /\ call' = c /\ request = "none" /\ request' = "none"
      /\ callback' = 0 /\ answer' = 0
      /\ filesystem' = filesystem /\ open' = open /\ size' = size
  BY DEF Inv, RequestsFit, Begin, PP_OK
<1>2. c.d \in Descs
  BY CallFields
<1>3. \A d \in Descs : ~waiting[d] /\ ~querying[d]
  BY <1>1 DEF Inv, FlagsOfTheCall
<1>4. /\ waiting \in [Descs -> BOOLEAN] /\ querying \in [Descs -> BOOLEAN]
      /\ offset \in [Descs -> -MaxSize..MaxSize]
      /\ cached \in [Descs -> 0..MaxSize]
      /\ inflated \subseteq Descs /\ outdated \subseteq Descs
  BY DEF Inv, TypeOK
<1>5. /\ waiting' \in [Descs -> BOOLEAN] /\ querying' \in [Descs -> BOOLEAN]
      /\ \A d \in Descs : ~waiting'[d] /\ ~querying'[d]
  <2>1. CASE OnNewDelegate(c)
    BY <1>2, <1>3, <1>4, <2>1 DEF Begin
  <2>2. CASE ~OnNewDelegate(c)
    BY <1>3, <1>4, <2>2 DEF Begin, members
  <2> QED BY <2>1, <2>2
<1>6. /\ offset' \in [Descs -> -MaxSize..MaxSize]
      /\ offset'[c.d] = IF OnNewDelegate(c) THEN 0 ELSE offset[c.d]
  <2>1. CASE OnNewDelegate(c)
    BY <1>2, <1>4, <2>1, BoundsAssumption DEF Begin
  <2>2. CASE ~OnNewDelegate(c)
    BY <1>4, <2>2 DEF Begin, members
  <2> QED BY <2>1, <2>2
<1>7. /\ cached' \in [Descs -> 0..MaxSize]
      /\ inflated' \subseteq Descs /\ outdated' \subseteq Descs
  <2>1. CASE OnNewDelegate(c)
    BY <1>2, <1>4, <2>1 DEF Begin
  <2>2. CASE ~OnNewDelegate(c)
    BY <1>4, <2>2 DEF Begin, members
  <2> QED BY <2>1, <2>2
<1>8. TypeOK'
  BY <1>1, <1>5, <1>6, <1>7, BoundsAssumption DEF Inv, TypeOK, Larger
<1>9. FlagsOfTheCall' /\ RequestsFit' /\ CompletionFits' /\ OpenFilesExist'
  BY <1>1, <1>2, <1>5 DEF Inv, FlagsOfTheCall, RequestsFit, CompletionFits,
                          OpenFilesExist
<1>10. CallFits'
  BY <1>1, <1>2, <1>5, <1>6 DEF Begin, OnNewDelegate, CallFits
<1> QED BY <1>8, <1>9, <1>10 DEF Inv

(***************************************************************************)
(* Handlers: one way to end a call and one way to chain a request.         *)
(***************************************************************************)
Answers == {PP_ERROR, PP_ERROR_NOTAFILE, -1} \cup 0..Larger(MaxSize, 1)

\* What every handler may use of the call it serves.
LEMMA UnderWay ==
  ASSUME Inv, call # NoCall
  PROVE  /\ call \in Calls /\ call.d \in Descs
         /\ waiting \in [Descs -> BOOLEAN] /\ querying \in [Descs -> BOOLEAN]
         /\ offset \in [Descs -> -MaxSize..MaxSize]
         /\ cached \in [Descs -> 0..MaxSize]
         /\ callback \in Answers /\ 1 \in Answers /\ 0 \in Answers /\ -1 \in Answers
         /\ size \in {Missing, Directory} \cup 0..MaxSize
         /\ \A d \in Descs : d # call.d => ~waiting[d] /\ ~querying[d]
         /\ ~(waiting[call.d] /\ querying[call.d])
<1>1. call \in Calls /\ call.d \in Descs
  BY CallFields DEF Inv, TypeOK
<1>2. callback \in Answers /\ 1 \in Answers /\ 0 \in Answers /\ -1 \in Answers
  BY BoundsAssumption DEF Inv, TypeOK, Answers, Larger
<1>3. /\ \A d \in Descs : d # call.d => ~waiting[d] /\ ~querying[d]
      /\ ~(waiting[call.d] /\ querying[call.d])
  BY <1>1 DEF Inv, FlagsOfTheCall
<1> QED BY <1>1, <1>2, <1>3 DEF Inv, TypeOK

LEMMA FinishKeeps ==
  ASSUME Inv, call # NoCall,
         NEW value \in Answers, Finish(value),
         UNCHANGED <<filesystem, callback, size, inflated, outdated>>,
         waiting' \in [Descs -> BOOLEAN], querying' \in [Descs -> BOOLEAN],
         \A d \in Descs : ~waiting'[d] /\ ~querying'[d],
         offset' \in [Descs -> -MaxSize..MaxSize],
         cached' \in [Descs -> 0..MaxSize],
         call.op = "open" /\ value = 0 => size >= 0
  PROVE  Inv'
<1>1. call' = NoCall /\ request' = "none" /\ answer' = value
  BY DEF Finish
<1>2. open' \subseteq Descs
  BY UnderWay DEF Finish, Inv, TypeOK
<1>3. TypeOK'
  BY <1>1, <1>2 DEF Inv, TypeOK, Answers
<1>4. OpenFilesExist'
  BY DEF Finish, Inv, OpenFilesExist
<1>5. FlagsOfTheCall' /\ RequestsFit' /\ CallFits' /\ CompletionFits'
  BY <1>1 DEF FlagsOfTheCall, RequestsFit, CallFits, CompletionFits
<1> QED BY <1>3, <1>4, <1>5 DEF Inv

LEMMA ChainKeeps ==
  ASSUME Inv, call # NoCall,
         NEW kind \in {"lost", "initialize", "open", "query", "read", "write",
                       "mkdir"},
         Chain(kind), UNCHANGED <<browser, offset, cached>>,
         filesystem' \in {"null", "opening", "open", "failed"},
         waiting' \in [Descs -> BOOLEAN], querying' \in [Descs -> BOOLEAN],
         \A d \in Descs : d # call.d => ~waiting'[d] /\ ~querying'[d],
         ~(waiting'[call.d] /\ querying'[call.d]),
         querying'[call.d] => call.op \in {"open", "stat"} /\ size >= 0,
         OnNewDelegate(call) /\ (waiting'[call.d] \/ querying'[call.d]) => filesystem' # "null",
         RequestsFit'
  PROVE  Inv'
<1>1. /\ call' = call /\ request' = kind /\ open' = open /\ answer' = answer
      /\ size' = size /\ callback' = callback
      /\ inflated' = inflated /\ outdated' = outdated
      /\ offset' = offset /\ cached' = cached
  BY DEF Chain, browser
<1>2. TypeOK'
  BY <1>1 DEF Inv, TypeOK
<1>3. FlagsOfTheCall'
  BY <1>1 DEF FlagsOfTheCall
<1>4. CallFits' /\ CompletionFits' /\ OpenFilesExist'
  BY <1>1 DEF Inv, CallFits, CompletionFits, OpenFilesExist, OnNewDelegate
<1> QED BY <1>2, <1>3, <1>4 DEF Inv

LEMMA InitializeKeeps ==
  ASSUME Inv, Initialize
  PROVE  Inv'
<1>1. PICK kind \in {"lost", "initialize"} : Chain(kind)
  BY DEF Initialize, Unchecked
<1>2. /\ call # NoCall /\ filesystem = "null" /\ OnNewDelegate(call)
      /\ filesystem' = "opening"
      /\ UNCHANGED <<browser, waiting, querying, offset, cached>>
  BY DEF Initialize, members, NeedsInitialize
<1>3. ~waiting[call.d]
  BY <1>2 DEF Inv, CallFits
<1>4. RequestsFit'
  BY <1>1, <1>2, <1>3 DEF Chain, RequestsFit
<1>5. querying[call.d] => call.op \in {"open", "stat"} /\ size >= 0
  BY <1>2 DEF Inv, CallFits
<1> QED BY <1>1, <1>2, <1>3, <1>4, <1>5, UnderWay, ChainKeeps

LEMMA OpenFileKeeps ==
  ASSUME Inv, OpenFile
  PROVE  Inv'
<1>1. /\ call # NoCall /\ call.op \in {"open", "stat"}
      /\ filesystem # "null" /\ ~waiting[call.d] /\ ~querying[call.d]
      /\ UNCHANGED <<filesystem, browser, querying, offset, cached>>
  BY DEF OpenFile, InCall, NeedsInitialize, OnNewDelegate
<1>2. CASE Chain("open") /\ SetWaiting(TRUE)
  <2>1. /\ waiting' \in [Descs -> BOOLEAN] /\ waiting'[call.d]
        /\ \A d \in Descs : d # call.d => waiting'[d] = waiting[d]
    BY <1>1, <1>2, UnderWay DEF SetWaiting
  <2>2. RequestsFit'
    BY <1>1, <1>2 DEF Chain, RequestsFit
  <2>3. filesystem' \in {"null", "opening", "open", "failed"}
    BY <1>1 DEF Inv, TypeOK
  <2>4. querying' \in [Descs -> BOOLEAN] /\ ~querying'[call.d]
    BY <1>1, UnderWay
  <2>5. \A d \in Descs : d # call.d => ~waiting'[d] /\ ~querying'[d]
    BY <1>1, <2>1, UnderWay
  <2> QED BY <1>1, <1>2, <2>1, <2>2, <2>3, <2>4, <2>5, ChainKeeps
<1>3. CASE Finish(1) /\ UNCHANGED waiting
  BY <1>1, <1>3, UnderWay, FinishKeeps DEF browser
<1> QED BY <1>2, <1>3 DEF OpenFile, Checked, Errno

LEMMA OpenedKeeps ==
  ASSUME Inv, Opened
  PROVE  Inv'
<1>1. /\ call # NoCall /\ request = "none" /\ call.op \in {"open", "stat"}
      /\ filesystem # "null" /\ waiting[call.d] /\ ~querying[call.d]
      /\ UNCHANGED <<filesystem, browser, offset, cached>>
  BY UnderWay DEF Opened, InCall, NeedsInitialize, OnNewDelegate
<1>2. /\ waiting' \in [Descs -> BOOLEAN] /\ ~waiting'[call.d]
      /\ \A d \in Descs : d # call.d => waiting'[d] = waiting[d]
  BY <1>1, UnderWay DEF Opened, SetWaiting
<1>3. ASSUME NEW value \in {0, 1}, Finish(value), UNCHANGED querying,
             value = 0 => call.op = "stat"
      PROVE  Inv'
  <2>1. value \in Answers
    BY <1>1, UnderWay
  <2> QED BY <1>1, <1>2, <1>3, <2>1, UnderWay, FinishKeeps DEF browser
<1>4. ASSUME NEW kind \in {"query", "lost"}, callback = PP_OK,
             Chain(kind), SetQuerying(TRUE)
      PROVE  Inv'
  <2>1. size >= 0
    BY <1>1, <1>4 DEF Inv, CompletionFits
  <2>2. /\ querying' \in [Descs -> BOOLEAN]
        /\ \A d \in Descs : d # call.d => querying'[d] = querying[d]
    BY <1>1, <1>4, UnderWay DEF SetQuerying
  <2>3. RequestsFit'
    BY <1>1, <1>2, <1>4, <2>1 DEF Chain, RequestsFit, browser
  <2>4. filesystem' \in {"null", "opening", "open", "failed"}
    BY <1>1 DEF Inv, TypeOK
  <2>5. \A d \in Descs : d # call.d => ~waiting'[d] /\ ~querying'[d]
    BY <1>1, <1>2, <2>2, UnderWay
  <2>6. kind \in {"lost", "initialize", "open", "query", "read", "write", "mkdir"}
    BY <1>4
  <2>7. /\ ~(waiting'[call.d] /\ querying'[call.d])
        /\ querying'[call.d] => call.op \in {"open", "stat"} /\ size >= 0
        /\ OnNewDelegate(call) /\ (waiting'[call.d] \/ querying'[call.d]) => filesystem' # "null"
    BY <1>1, <1>2, <2>1
  <2>8. call # NoCall /\ UNCHANGED <<browser, offset, cached>>
    BY <1>1
  <2>9. waiting' \in [Descs -> BOOLEAN] /\ Chain(kind)
    BY <1>2, <1>4
  <2> QED BY <2>2, <2>3, <2>4, <2>5, <2>6, <2>7, <2>8, <2>9, ChainKeeps
<1>5. CASE callback # PP_OK
  <2> DEFINE found == call.op = "stat" /\ callback = PP_ERROR_NOTAFILE
  <2>1. UNCHANGED querying /\ Finish(IF found THEN 0 ELSE 1)
    BY <1>5 DEF Opened, Errno
  <2>2. CASE found
    BY <1>3, <2>1, <2>2
  <2>3. CASE ~found
    BY <1>3, <2>1, <2>3
  <2> QED BY <2>2, <2>3
<1>6. CASE callback = PP_OK
  <2>1. PICK kind \in {"query", "lost"} : Chain(kind) /\ SetQuerying(TRUE)
    BY <1>6 DEF Opened, Unchecked
  <2> QED BY <1>4, <1>6, <2>1
<1> QED BY <1>5, <1>6

LEMMA QueriedKeeps ==
  ASSUME Inv, Queried
  PROVE  Inv'
<1>1. /\ call # NoCall /\ ~waiting[call.d] /\ querying[call.d]
      /\ UNCHANGED <<filesystem, browser, waiting, cached>>
  BY DEF Queried, InCall
<1>2. size >= 0
  BY <1>1 DEF Inv, CallFits
<1>3. /\ querying' \in [Descs -> BOOLEAN]
      /\ \A d \in Descs : ~waiting'[d] /\ ~querying'[d]
  BY <1>1, UnderWay DEF Queried, SetQuerying
<1>4. offset' \in [Descs -> -MaxSize..MaxSize]
  <2>1. cached[call.d] \in -MaxSize..MaxSize
    BY <1>1, UnderWay, BoundsAssumption
  <2> QED BY <1>1, <2>1, UnderWay DEF Queried
<1>5. PICK value \in {0, 1} : Finish(value)
  BY DEF Queried, Errno
<1>6. value \in Answers
  BY <1>1, UnderWay
<1> QED BY <1>1, <1>2, <1>3, <1>4, <1>5, <1>6, UnderWay, FinishKeeps DEF browser

\* The first entry of a handler that asks for one request.
LEMMA CheckedKeeps ==
  ASSUME Inv, call # NoCall, request = "none",
         NEW kind \in {"query", "read", "write", "mkdir"}, NEW error \in {1, -1},
         Checked(kind, error),
         UNCHANGED <<filesystem, browser, querying, offset, cached>>,
         ~waiting[call.d],
         (kind = "query" /\ call.op = "fstat") \/ kind = call.op,
         call.op = "mkdir" => filesystem # "null"
  PROVE  Inv'
<1>1. ~querying[call.d]
  BY UnderWay DEF Inv, CallFits
<1>2. CASE Chain(kind) /\ SetWaiting(TRUE)
  <2>1. /\ waiting' \in [Descs -> BOOLEAN] /\ waiting'[call.d]
        /\ \A d \in Descs : d # call.d => ~waiting'[d] /\ ~querying'[d]
    BY <1>2, UnderWay DEF SetWaiting
  <2>2. call.op = "fstat" => size >= 0
    BY DEF Inv, CallFits, OpenFilesExist
  <2>3. RequestsFit'
    BY <1>2, <2>2, UnderWay, CallFields DEF Chain, RequestsFit, browser
  <2>4. filesystem' \in {"null", "opening", "open", "failed"}
    BY DEF Inv, TypeOK
  <2>5. querying' \in [Descs -> BOOLEAN] /\ ~querying'[call.d]
    BY <1>1, UnderWay
  <2>6. OnNewDelegate(call) => filesystem' # "null"
    BY DEF OnNewDelegate
  <2> QED BY <1>2, <2>1, <2>3, <2>4, <2>5, <2>6, ChainKeeps
<1>3. CASE Finish(error) /\ UNCHANGED waiting
  <2>1. error \in Answers /\ error # 0
    BY UnderWay
  <2> QED BY <1>1, <1>3, <2>1, UnderWay, FinishKeeps DEF browser
<1> QED BY <1>2, <1>3 DEF Checked

LEMMA AskFileKeeps ==
  ASSUME Inv, AskFile
  PROVE  Inv'
<1>1. /\ call # NoCall /\ request = "none" /\ ~waiting[call.d]
      /\ UNCHANGED <<filesystem, browser, querying, offset, cached>>
  BY DEF AskFile, InCall
<1>2. CASE call.op = "fstat" /\ Checked("query", 1)
  BY <1>1, <1>2, CheckedKeeps
<1>3. CASE call.op = "read" /\ Checked("read", -1)
  BY <1>1, <1>3, CheckedKeeps
<1>4. CASE call.op = "write" /\ Checked("write", -1)
  BY <1>1, <1>4, CheckedKeeps
<1> QED BY <1>2, <1>3, <1>4 DEF AskFile, InCall, Errno

\* The second entry: waiting_ is cleared and the call ends.
LEMMA AnsweredKeeps ==
  ASSUME Inv, call # NoCall, waiting[call.d], SetWaiting(FALSE),
         NEW value \in Answers, Finish(value), call.op # "open",
         UNCHANGED <<filesystem, browser, querying>>,
         offset' \in [Descs -> -MaxSize..MaxSize],
         cached' \in [Descs -> 0..MaxSize]
  PROVE  Inv'
<1>1. /\ waiting' \in [Descs -> BOOLEAN] /\ ~waiting'[call.d]
      /\ \A d \in Descs : d # call.d => waiting'[d] = waiting[d]
  BY UnderWay DEF SetWaiting
<1>2. \A d \in Descs : ~waiting'[d] /\ ~querying'[d]
  BY <1>1, UnderWay
<1> QED BY <1>1, <1>2, UnderWay, FinishKeeps DEF browser

LEMMA TransferredKeeps ==
  ASSUME Inv, Transferred
  PROVE  Inv'
<1>1. /\ call # NoCall /\ request = "none" /\ call.op \in {"read", "write"}
      /\ waiting[call.d]
      /\ UNCHANGED <<filesystem, browser, querying>>
  BY DEF Transferred, InCall
<1>2. /\ call.d \in Descs /\ callback \in Answers
      /\ offset \in [Descs -> -MaxSize..MaxSize]
      /\ cached \in [Descs -> 0..MaxSize]
  BY <1>1, UnderWay
<1>3. callback > 0 => offset[call.d] >= 0 /\ offset[call.d] + callback <= MaxSize
  BY <1>1 DEF Inv, CompletionFits
<1>4. callback \in Int
  BY <1>2, BoundsAssumption DEF Answers, PP_ERROR, PP_ERROR_NOTAFILE, Larger
<1>5. offset[call.d] + Larger(callback, 0) \in -MaxSize..MaxSize
  BY <1>2, <1>3, <1>4, BoundsAssumption DEF Larger
<1>6. offset' \in [Descs -> -MaxSize..MaxSize]
  BY <1>2, <1>5 DEF Transferred
<1>7. Larger(cached[call.d], offset'[call.d]) \in 0..MaxSize
  BY <1>2, <1>6, BoundsAssumption DEF Larger
<1>8. cached' \in [Descs -> 0..MaxSize]
  BY <1>2, <1>7 DEF Transferred
<1> QED BY <1>1, <1>2, <1>6, <1>8, AnsweredKeeps DEF Transferred

LEMMA FstatAnsweredKeeps ==
  ASSUME Inv, FstatAnswered
  PROVE  Inv'
<1>1. call # NoCall /\ call.op = "fstat" /\ waiting[call.d] /\ Finish(0)
  BY DEF FstatAnswered, InCall
<1> QED BY <1>1, UnderWay, AnsweredKeeps DEF FstatAnswered

LEMMA MakeDirectoryKeeps ==
  ASSUME Inv, MakeDirectory
  PROVE  Inv'
<1>1. /\ call # NoCall /\ call.op = "mkdir" /\ request = "none"
      /\ filesystem # "null"
      /\ UNCHANGED <<filesystem, browser, querying, offset, cached>>
  BY DEF MakeDirectory, InCall, NeedsInitialize, OnNewDelegate
<1>2. CASE ~waiting[call.d] /\ Checked("mkdir", -1)
  BY <1>1, <1>2, CheckedKeeps
<1>3. CASE waiting[call.d] /\ SetWaiting(FALSE) /\ Finish(callback)
  BY <1>1, <1>3, UnderWay, AnsweredKeeps
<1> QED BY <1>2, <1>3 DEF MakeDirectory

(***************************************************************************)
(* The browser: completions.                                               *)
(***************************************************************************)
LEMMA CompletionKeeps ==
  ASSUME Inv, request # "none", request' = "none",
         UNCHANGED <<call, waiting, querying, offset, open, answer>>,
         filesystem' \in {"null", "opening", "open", "failed"},
         filesystem # "null" => filesystem' # "null",
         callback' \in {PP_ERROR, PP_ERROR_NOTAFILE} \cup 0..MaxSize,
         cached' \in [Descs -> 0..MaxSize],
         size' \in {Missing, Directory} \cup 0..MaxSize,
         size >= 0 => size' >= 0,
         inflated' \subseteq Descs, outdated' \subseteq Descs,
         CompletionFits'
  PROVE  Inv'
<1>1. TypeOK'
  BY DEF Inv, TypeOK
<1>2. FlagsOfTheCall'
  BY DEF Inv, FlagsOfTheCall
<1>3. RequestsFit'
  BY DEF RequestsFit
<1>4. CallFits' /\ OpenFilesExist'
  BY DEF Inv, CallFits, OpenFilesExist, OnNewDelegate
<1> QED BY <1>1, <1>2, <1>3, <1>4 DEF Inv

LEMMA CompleteKeeps ==
  ASSUME Inv, Complete
  PROVE  Inv'
<1>1. /\ request' = "none"
      /\ UNCHANGED <<call, waiting, querying, offset, open, answer>>
      /\ outdated' \subseteq Descs
  BY DEF Complete, Inv, TypeOK
<1>2. request # "none" /\ call # NoCall
  BY DEF Complete, CompleteInitialize, CompleteOpen, CompleteQuery, CompleteRead,
         CompleteWrite, CompleteMkDir, Inv, RequestsFit
<1>3. /\ call \in Calls /\ call.d \in Descs
      /\ filesystem \in {"null", "opening", "open", "failed"}
      /\ cached \in [Descs -> 0..MaxSize]
      /\ size \in {Missing, Directory} \cup 0..MaxSize
      /\ offset \in [Descs -> -MaxSize..MaxSize]
      /\ inflated \subseteq Descs
  BY <1>2, UnderWay DEF Inv, TypeOK
<1> USE DEF PP_OK, PP_ERROR, PP_ERROR_NOTAFILE, Missing, Directory, Fails
<1>4. CASE CompleteInitialize
  <2>1. ~waiting[call.d]
    BY <1>4 DEF CompleteInitialize, Inv, RequestsFit
  <2>2. CompletionFits'
    BY <1>1, <2>1 DEF CompletionFits
  <2> QED BY <1>1, <1>2, <1>3, <1>4, <2>2, BoundsAssumption, CompletionKeeps
          DEF CompleteInitialize
<1>5. CASE CompleteOpen
  <2>1. call.op \in {"open", "stat"}
    BY <1>5 DEF CompleteOpen, Inv, RequestsFit
  <2>2. /\ callback' \in {PP_OK, PP_ERROR, PP_ERROR_NOTAFILE}
        /\ size' \in {Missing, Directory} \cup 0..MaxSize
        /\ size >= 0 => size' >= 0
        /\ callback' = PP_OK => size' >= 0
        /\ callback' = PP_ERROR_NOTAFILE => size' = Directory
        /\ UNCHANGED <<filesystem, cached, inflated>>
    BY <1>3, <1>5, BoundsAssumption DEF CompleteOpen
  <2>3. CompletionFits'
    BY <1>1, <2>1, <2>2 DEF CompletionFits
  <2> QED BY <1>1, <1>2, <1>3, <2>2, <2>3, BoundsAssumption, CompletionKeeps
<1>6. CASE CompleteQuery
  <2>1. /\ size >= 0
        /\ (call.op \in {"open", "stat"} /\ ~waiting[call.d]) \/ call.op = "fstat"
    BY <1>6 DEF CompleteQuery, Inv, RequestsFit
  <2>2. CompletionFits'
    BY <1>1, <2>1 DEF CompletionFits
  <2>3. /\ cached' \in [Descs -> 0..MaxSize] /\ inflated' \subseteq Descs
        /\ callback' \in {PP_OK, PP_ERROR} /\ UNCHANGED <<filesystem, size>>
    BY <1>3, <1>6, <2>1 DEF CompleteQuery
  <2> QED BY <1>1, <1>2, <1>3, <2>2, <2>3, BoundsAssumption, CompletionKeeps
<1>7. CASE CompleteRead
  <2>1. call.op = "read" /\ call.n \in 0..MaxSize
    BY <1>3, <1>7, CallFields DEF CompleteRead, Inv, RequestsFit
  <2>2. /\ UNCHANGED <<filesystem, cached, size, inflated>>
        /\ callback' \in {PP_ERROR} \cup 0..MaxSize
        /\ callback' > 0 =>
             offset[call.d] >= 0 /\ offset[call.d] + callback' <= MaxSize
    BY <1>3, <1>7, <2>1, BoundsAssumption DEF CompleteRead, Smaller, Larger
  <2>3. CompletionFits'
    BY <1>1, <2>1, <2>2 DEF CompletionFits
  <2> QED BY <1>1, <1>2, <1>3, <2>2, <2>3, CompletionKeeps
<1>8. CASE CompleteWrite
  <2>1. /\ call.op = "write" /\ call.n \in 0..MaxSize
        /\ offset[call.d] + call.n <= MaxSize
    BY <1>2, <1>3, <1>8, CallFields DEF CompleteWrite, Inv, RequestsFit, CallFits
  <2>2. /\ UNCHANGED <<filesystem, cached>> /\ inflated' \subseteq Descs
        /\ callback' \in {PP_ERROR} \cup 0..MaxSize
        /\ size' \in {Missing, Directory} \cup 0..MaxSize
        /\ size >= 0 => size' >= 0
        /\ callback' > 0 =>
             offset[call.d] >= 0 /\ offset[call.d] + callback' <= MaxSize
    <3>1. CASE callback' = PP_ERROR /\ UNCHANGED <<filesystem, cached, size>>
      BY <1>3, <1>8, <3>1 DEF CompleteWrite
    <3>2. CASE callback' # PP_ERROR
      <4>1. /\ offset[call.d] >= 0 /\ callback' \in 0..call.n
            /\ size' = IF callback' = 0 THEN size
                       ELSE Larger(size, offset[call.d] + callback')
            /\ inflated' \subseteq Descs /\ UNCHANGED <<filesystem, cached>>
        BY <1>3, <1>8, <3>2 DEF CompleteWrite
      <4> QED BY <1>3, <2>1, <4>1, BoundsAssumption DEF Larger
    <3> QED BY <1>3, <1>8, <2>1, <3>1, <3>2 DEF CompleteWrite
  <2>3. CompletionFits'
    BY <1>1, <2>1, <2>2 DEF CompletionFits
  <2> QED BY <1>1, <1>2, <1>3, <2>2, <2>3, CompletionKeeps
<1>9. CASE CompleteMkDir
  <2>1. call.op = "mkdir"
    BY <1>9 DEF CompleteMkDir, Inv, RequestsFit
  <2>2. /\ UNCHANGED <<cached, inflated, filesystem>>
        /\ callback' \in {PP_OK, PP_ERROR}
        /\ size' \in {Missing, Directory} \cup 0..MaxSize
        /\ size >= 0 => size' >= 0
        /\ callback' = PP_OK => size' = Directory
    BY <1>3, <1>9 DEF CompleteMkDir
  <2>3. CompletionFits'
    BY <1>1, <2>1, <2>2 DEF CompletionFits
  <2> QED BY <1>1, <1>2, <1>3, <2>2, <2>3, BoundsAssumption, CompletionKeeps
<1> QED BY <1>4, <1>5, <1>6, <1>7, <1>8, <1>9 DEF Complete

LEMMA SeekKeeps ==
  ASSUME Inv, NEW d \in Descs, NEW by \in -MaxSize..MaxSize, Seek(d, by)
  PROVE  Inv'
<1>1. PICK position \in -MaxSize..MaxSize :
        offset' = [offset EXCEPT ![d] = position]
  BY DEF Seek, SeekTo
<1>2. offset' \in [Descs -> -MaxSize..MaxSize]
  BY <1>1 DEF Inv, TypeOK
<1>3. /\ call = NoCall /\ call' = NoCall
      /\ UNCHANGED <<filesystem, request, callback, size, inflated, outdated, waiting,
                     querying, cached, open, answer>>
  BY DEF Seek, browser
<1>4. TypeOK'
  BY <1>2, <1>3 DEF Inv, TypeOK
<1>5. FlagsOfTheCall' /\ RequestsFit' /\ CallFits' /\ CompletionFits' /\ OpenFilesExist'
  BY <1>3 DEF Inv, FlagsOfTheCall, RequestsFit, CallFits, CompletionFits,
              OpenFilesExist
<1> QED BY <1>4, <1>5 DEF Inv

LEMMA CloseKeeps ==
  ASSUME Inv, NEW d \in Descs, Close(d)
  PROVE  Inv'
<1>1. /\ call = NoCall /\ call' = NoCall /\ open' = open \ {d}
      /\ UNCHANGED <<filesystem, request, callback, size, inflated, outdated, waiting,
                     querying, offset, cached, answer>>
  BY DEF Close, browser, members
<1>2. TypeOK'
  BY <1>1 DEF Inv, TypeOK
<1>3. FlagsOfTheCall' /\ RequestsFit' /\ CallFits' /\ CompletionFits' /\ OpenFilesExist'
  BY <1>1 DEF Inv, FlagsOfTheCall, RequestsFit, CallFits, CompletionFits,
              OpenFilesExist
<1> QED BY <1>2, <1>3 DEF Inv

LEMMA InvStep == Inv /\ [Next]_vars => Inv'
<1> SUFFICES ASSUME Inv, [Next]_vars PROVE Inv'
  OBVIOUS
<1>1. CASE \E c \in Calls : Begin(c)
  BY <1>1, BeginKeeps
<1>2. CASE \E d \in Descs : Close(d)
  BY <1>2, CloseKeeps
<1>3. CASE \E d \in Descs : \E by \in -MaxSize..MaxSize : Seek(d, by)
  BY <1>3, SeekKeeps
<1>4. CASE Handle
  BY <1>4, InitializeKeeps, OpenFileKeeps, OpenedKeeps, QueriedKeeps, AskFileKeeps,
     FstatAnsweredKeeps, TransferredKeeps, MakeDirectoryKeeps DEF Handle
<1>5. CASE Complete
  BY <1>5, CompleteKeeps
<1>6. CASE UNCHANGED vars
  BY <1>6 DEF vars, Inv, TypeOK, FlagsOfTheCall, RequestsFit, CallFits,
              CompletionFits, OpenFilesExist, OnNewDelegate
<1> QED BY <1>1, <1>2, <1>3, <1>4, <1>5, <1>6 DEF Next

LEMMA Invariance == Spec => []Inv
<1> QED BY InvInit, InvStep, PTL DEF Spec

\* Offsets and the cached size stay in range whatever fails: no error code is
\* added to an offset, and no size is taken of a file that is not there.
THEOREM TypeCorrect == Spec => []TypeOK
<1>1. Inv => TypeOK
  BY DEF Inv
<1> QED BY <1>1, Invariance, PTL

\* No flag outlives its call, so no call starts in the middle of its handler.
THEOREM FlagsAreOfTheCall == Spec => []FlagsOfTheCall
<1>1. Inv => FlagsOfTheCall
  BY DEF Inv
<1> QED BY <1>1, Invariance, PTL

\* open, stat and mkdir answer 0 only if what they are asked for is there,
\* though the completion of the initialisation is ignored.
THEOREM NoFalseSuccess == Spec => SuccessIsReal
<1> DEFINE Real ==
      /\ Returns("open") /\ answer' = 0 => size' >= 0
      /\ Returns("stat") /\ answer' = 0 => size' # Missing
      /\ Returns("mkdir") /\ answer' = 0 => size' = Directory
<1>1. Inv /\ [Next]_vars => [Real]_vars
  <2> SUFFICES ASSUME Inv, Next, call # NoCall, call' = NoCall PROVE Real
    BY DEF Returns, vars
  <2>1. Handle
    BY DEF Next, Begin, Seek, Close, Complete
  <2>2. CASE Initialize
    BY <2>2 DEF Initialize, Unchecked, Chain
  <2>3. CASE OpenFile
    <3>1. Finish(1)
      BY <2>3 DEF OpenFile, Checked, Chain, Errno
    <3> QED BY <3>1 DEF Finish
  <2>4. CASE Opened
    <3>1. CASE callback = PP_OK
      BY <2>4, <3>1 DEF Opened, Unchecked, Chain
    <3>2. CASE callback # PP_OK
      <4> DEFINE found == call.op = "stat" /\ callback = PP_ERROR_NOTAFILE
      <4>1. /\ Finish(IF found THEN 0 ELSE 1) /\ request = "none"
            /\ waiting[call.d] /\ size' = size
        BY <2>4, <3>2 DEF Opened, Errno, InCall, browser
      <4>2. CASE found
        <5>1. size' = Directory /\ call.op = "stat"
          BY <4>1, <4>2 DEF Inv, CompletionFits
        <5> QED BY <5>1 DEF Returns, Directory, Missing
      <4>3. CASE ~found
        BY <4>1, <4>3 DEF Finish
      <4> QED BY <4>2, <4>3
    <3> QED BY <3>1, <3>2
  <2>5. CASE Queried
    BY <2>5 DEF Queried, InCall, Inv, CallFits, Finish, Returns, browser, Missing
  <2>6. CASE AskFile \/ FstatAnswered \/ Transferred
    BY <2>6 DEF AskFile, FstatAnswered, Transferred, InCall, Returns
  <2>7. CASE MakeDirectory
    <3>1. /\ call.op = "mkdir" /\ request = "none" /\ size' = size
          /\ Finish(-1) \/ (waiting[call.d] /\ Finish(callback))
      BY <2>7 DEF MakeDirectory, Checked, Chain, InCall, browser
    <3>2. answer' = 0 => size' = Directory
      BY <3>1 DEF Finish, Inv, CompletionFits, PP_OK
    <3> QED BY <3>1, <3>2 DEF Returns
  <2> QED BY <2>1, <2>2, <2>3, <2>4, <2>5, <2>6, <2>7 DEF Handle
<1> QED BY <1>1, Invariance, PTL DEF Spec, SuccessIsReal

-----------------------------------------------------------------------------
(* The size and the offset that Html5File keeps of a file.                 *)

(***************************************************************************)
(* While a write is being answered the cached size is behind: what it will *)
(* be when the call is over is what is right.                              *)
(***************************************************************************)
Written(d) == call # NoCall /\ call.d = d /\ call.op = "write" /\ request = "none" /\ waiting[d]

Settled(d) ==
  IF Written(d) THEN Larger(cached[d], offset[d] + Larger(callback, 0)) ELSE cached[d]

Right(d, c) == IF d \in inflated THEN c >= size ELSE c = size

SizesRight == \A d \in open \ outdated : Right(d, Settled(d))

\* An open's delegate has no descriptor, and stands at the start; once Query has
\* answered, it knows the size.
OpensRight ==
  call # NoCall =>
    /\ OnNewDelegate(call) => call.d \notin open
    /\ call.op = "open" =>
         /\ offset[call.d] = 0
         /\ querying[call.d] /\ request = "none" /\ callback = PP_OK =>
              cached[call.d] = size /\ call.d \notin inflated

\* Which flags the handlers have set for a request.
FlagsFit ==
  call # NoCall =>
    /\ request \in {"open", "write"} => waiting[call.d]
    /\ request = "initialize" => ~querying[call.d]
    /\ querying[call.d] => filesystem # "null"

SizeInv == SizesRight /\ OpensRight /\ FlagsFit

LEMMA SizeInit == Init => SizeInv
BY DEF Init, SizeInv, SizesRight, OpensRight, FlagsFit

LEMMA SizeBegin ==
  ASSUME Inv, SizeInv, NEW c \in Calls, Begin(c)
  PROVE  SizeInv'
<1>1. /\ call = NoCall /\ call' = c /\ request = "none" /\ request' = "none"
      /\ open' = open /\ size' = size /\ c.d \in Descs
      /\ OnNewDelegate(c) <=> c.d \notin open
  BY CallFields DEF Inv, RequestsFit, Begin
<1>2. /\ \A d \in Descs : ~waiting[d] /\ ~querying[d]
      /\ waiting \in [Descs -> BOOLEAN] /\ querying \in [Descs -> BOOLEAN]
      /\ cached \in [Descs -> 0..MaxSize] /\ offset \in [Descs -> -MaxSize..MaxSize]
      /\ open \subseteq Descs
  BY <1>1 DEF Inv, FlagsOfTheCall, TypeOK
<1>3. \A d \in Descs : ~waiting'[d] /\ ~querying'[d]
  BY <1>1, <1>2 DEF Begin, members
<1>4. \A d \in open : /\ cached'[d] = cached[d] /\ (d \in inflated' <=> d \in inflated)
                      /\ (d \in outdated' <=> d \in outdated)
  BY <1>1, <1>2 DEF Begin, members
<1>5. SizesRight'
  <2>1. \A d \in open : ~Written(d) /\ ~Written(d)'
    BY <1>1, <1>2, <1>3 DEF Written
  <2>2. \A d \in open \ outdated : Right(d, cached[d])
    BY <2>1 DEF SizeInv, SizesRight, Settled
  <2>3. \A d \in open' \ outdated' : Right(d, cached[d])'
    BY <1>1, <1>4, <2>2 DEF Right
  <2> QED BY <1>1, <2>1, <2>3 DEF SizesRight, Settled
<1>6. OpensRight'
  <2>1. c.op = "open" => offset'[c.d] = 0
    BY <1>1, <1>2 DEF Begin, OnNewDelegate
  <2>2. OnNewDelegate(c) => c.d \notin open'
    BY <1>1
  <2> QED BY <1>1, <1>3, <2>1, <2>2 DEF OpensRight, OnNewDelegate
<1>7. FlagsFit'
  BY <1>1, <1>3 DEF FlagsFit
<1> QED BY <1>5, <1>6, <1>7 DEF SizeInv

\* A handler that asks the browser, or ends a call that was no write and bound nothing.
LEMMA SizeHandled ==
  ASSUME Inv, SizeInv, call # NoCall, request = "none",
         call.op = "write" => ~waiting[call.d],
         UNCHANGED <<callback, size, inflated, outdated, offset, cached, open>>,
         \/ call' = NoCall
         \/ /\ call' = call /\ request' # "none"
            /\ request' \in {"open", "write"} => waiting'[call.d]
            /\ request' = "initialize" => ~querying'[call.d]
            /\ querying'[call.d] => filesystem' # "null"
  PROVE  SizeInv'
<1>1. \A d : ~Written(d) /\ ~Written(d)'
  BY DEF Written
<1>2. SizesRight'
  BY <1>1 DEF SizeInv, SizesRight, Settled, Right
<1>3. OpensRight' /\ FlagsFit'
  BY DEF SizeInv, OpensRight, FlagsFit, OnNewDelegate
<1> QED BY <1>2, <1>3 DEF SizeInv

LEMMA SizeHandlers ==
  ASSUME Inv, SizeInv, Initialize \/ OpenFile \/ Opened \/ AskFile \/ FstatAnswered \/ MakeDirectory
  PROVE  SizeInv'
<1>1. /\ call # NoCall /\ request = "none"
      /\ UNCHANGED <<callback, size, inflated, outdated, offset, cached>>
  BY DEF Initialize, OpenFile, Opened, AskFile, FstatAnswered, MakeDirectory, InCall, browser, members
<1>0. call.d \in Descs /\ waiting \in [Descs -> BOOLEAN] /\ querying \in [Descs -> BOOLEAN]
  BY <1>1, UnderWay
<1>2. CASE Initialize
  <2>1. ~querying[call.d] /\ call.op # "write"
    BY <1>1, <1>2 DEF Initialize, NeedsInitialize, SizeInv, FlagsFit, OnNewDelegate
  <2>2. /\ request' \in {"lost", "initialize"} /\ call' = call /\ open' = open
        /\ filesystem' = "opening" /\ UNCHANGED <<waiting, querying>>
    BY <1>2 DEF Initialize, Unchecked, Chain, members
  <2> QED BY <1>1, <2>1, <2>2, SizeHandled
<1>3. CASE OpenFile
  <2>1. call.op \in {"open", "stat"} /\ ~querying[call.d] /\ UNCHANGED <<filesystem, querying>>
    BY <1>3 DEF OpenFile, InCall
  <2>2. CASE Chain("open") /\ SetWaiting(TRUE)
    <3>1. request' = "open" /\ call' = call /\ open' = open /\ waiting'[call.d]
      BY <1>0, <2>2 DEF Chain, SetWaiting
    <3> QED BY <1>1, <2>1, <3>1, SizeHandled
  <2>3. CASE Finish(1)
    <3>1. call' = NoCall /\ open' = open
      BY <2>3 DEF Finish
    <3> QED BY <1>1, <2>1, <3>1, SizeHandled
  <2> QED BY <1>3, <2>2, <2>3 DEF OpenFile, Checked, Errno
<1>4. CASE Opened
  <2>1. call.op \in {"open", "stat"} /\ filesystem # "null" /\ UNCHANGED filesystem
    BY <1>4 DEF Opened, InCall, NeedsInitialize, OnNewDelegate
  <2>2. CASE callback = PP_OK
    <3>1. request' \in {"query", "lost"} /\ call' = call /\ open' = open
      BY <1>4, <2>2 DEF Opened, Unchecked, Chain
    <3> QED BY <1>1, <2>1, <3>1, SizeHandled
  <2>3. CASE callback # PP_OK
    <3>1. Finish(IF call.op = "stat" /\ callback = PP_ERROR_NOTAFILE THEN 0 ELSE 1)
      BY <1>4, <2>3 DEF Opened, Errno
    <3>2. call' = NoCall /\ open' = open
      BY <2>1, <3>1 DEF Finish
    <3> QED BY <1>1, <2>1, <3>2, SizeHandled
  <2> QED BY <2>2, <2>3
<1>5. CASE AskFile
  <2>1. /\ call.op \in {"fstat", "read", "write"} /\ ~waiting[call.d]
        /\ UNCHANGED <<filesystem, querying>>
    BY <1>5 DEF AskFile, InCall
  <2>2. \/ \E kind \in {"query", "read", "write"} : Chain(kind) /\ SetWaiting(TRUE)
        \/ Finish(1) \/ Finish(-1)
    BY <1>5 DEF AskFile, Checked, Errno
  <2>3. CASE Finish(1) \/ Finish(-1)
    <3>1. call' = NoCall /\ open' = open
      BY <2>1, <2>3 DEF Finish
    <3> QED BY <1>1, <2>1, <3>1, SizeHandled
  <2>4. ASSUME NEW kind \in {"query", "read", "write"}, Chain(kind), SetWaiting(TRUE)
        PROVE  SizeInv'
    <3>1. request' = kind /\ call' = call /\ open' = open /\ waiting'[call.d]
      BY <1>0, <2>4 DEF Chain, SetWaiting
    <3>2. ~querying[call.d]
      BY <1>1, <2>1 DEF Inv, CallFits
    <3> QED BY <1>1, <2>1, <3>1, <3>2, SizeHandled
  <2> QED BY <2>2, <2>3, <2>4
<1>6. CASE FstatAnswered
  <2>1. call.op = "fstat" /\ call' = NoCall /\ open' = open
    BY <1>6 DEF FstatAnswered, InCall, Finish
  <2> QED BY <1>1, <2>1, SizeHandled
<1>7. CASE MakeDirectory
  <2>1. call.op = "mkdir" /\ UNCHANGED <<filesystem, querying>>
    BY <1>7 DEF MakeDirectory, InCall
  <2>2. ~querying[call.d]
    BY <1>1, <2>1 DEF Inv, CallFits
  <2>3. Chain("mkdir") \/ Finish(-1) \/ Finish(callback)
    BY <1>7 DEF MakeDirectory, Checked
  <2>4. open' = open /\ (call' = NoCall \/ (call' = call /\ request' = "mkdir"))
    BY <2>1, <2>3 DEF Chain, Finish
  <2> QED BY <1>1, <2>1, <2>2, <2>4, SizeHandled
<1> QED BY <1>2, <1>3, <1>4, <1>5, <1>6, <1>7

\* An open is bound with the size that Query has answered.
LEMMA SizeQueried ==
  ASSUME Inv, SizeInv, Queried
  PROVE  SizeInv'
<1>1. /\ call # NoCall /\ request = "none" /\ call' = NoCall /\ querying[call.d]
      /\ call.op \in {"open", "stat"} /\ call.d \in Descs
      /\ UNCHANGED <<callback, size, inflated, outdated, cached>>
  BY UnderWay DEF Queried, InCall, Finish, browser
<1>2. open' = open \/ (call.op = "open" /\ callback = PP_OK /\ open' = open \cup {call.d})
  BY DEF Queried, Finish, Errno
<1>3. \A d : ~Written(d) /\ ~Written(d)'
  BY <1>1 DEF Written
<1>4. ASSUME call.op = "open", callback = PP_OK
      PROVE  Right(call.d, cached[call.d])
  BY <1>1, <1>4 DEF SizeInv, OpensRight, Right
<1>5. \A d \in open' \ outdated : Right(d, cached[d])
  BY <1>2, <1>3, <1>4 DEF SizeInv, SizesRight, Settled
<1>6. SizesRight'
  BY <1>1, <1>3, <1>5 DEF SizesRight, Settled, Right
<1> QED BY <1>1, <1>6 DEF SizeInv, OpensRight, FlagsFit

\* A write ends with what was settled when it was answered.
LEMMA SizeTransferred ==
  ASSUME Inv, SizeInv, Transferred
  PROVE  SizeInv'
<1>1. /\ call # NoCall /\ request = "none" /\ call' = NoCall /\ open' = open
      /\ call.op \in {"read", "write"} /\ call.d \in Descs /\ waiting[call.d]
      /\ UNCHANGED <<callback, size, inflated, outdated>>
      /\ cached \in [Descs -> 0..MaxSize] /\ offset \in [Descs -> -MaxSize..MaxSize]
      /\ open \subseteq Descs
  BY UnderWay DEF Transferred, InCall, Finish, browser, Inv, TypeOK
<1>2. \A d \in Descs : cached'[d] = Settled(d)
  <2>1. offset'[call.d] = offset[call.d] + Larger(callback, 0)
    BY <1>1 DEF Transferred
  <2>2. CASE call.op = "write"
    <3>1. cached' = [cached EXCEPT ![call.d] = Larger(@, offset'[call.d])]
      BY <2>2 DEF Transferred
    <3>2. \A d \in Descs : Written(d) <=> d = call.d
      BY <1>1, <2>2 DEF Written
    <3> QED BY <1>1, <2>1, <3>1, <3>2 DEF Settled
  <2>3. CASE call.op = "read"
    BY <1>1, <2>3 DEF Transferred, Written, Settled
  <2> QED BY <1>1, <2>2, <2>3
<1>3. \A d : ~Written(d)'
  BY <1>1 DEF Written
<1>4. \A d \in open \ outdated : Right(d, cached'[d])
  BY <1>1, <1>2 DEF SizeInv, SizesRight
<1>5. SizesRight'
  BY <1>1, <1>3, <1>4 DEF SizesRight, Settled, Right
<1> QED BY <1>1, <1>5 DEF SizeInv, OpensRight, FlagsFit

\* Requests that leave the size in file_info_ alone, and are no write.
LEMMA SizeUntold ==
  ASSUME Inv, SizeInv, Complete, request \in {"initialize", "open", "read", "mkdir"},
         UNCHANGED <<cached, inflated>>,
         call.op \notin {"open", "stat", "mkdir"} => size' = size,
         call.op = "open" => ~querying[call.d],
         filesystem # "null" => filesystem' # "null"
  PROVE  SizeInv'
<1>1. /\ call # NoCall /\ request' = "none"
      /\ UNCHANGED <<call, waiting, querying, offset, open, answer>>
      /\ outdated' = IF size' = size THEN outdated ELSE outdated \cup (open \ {call.d})
  BY DEF Complete, Inv, RequestsFit
<1>2. \A d : ~Written(d) /\ ~Written(d)'
  BY <1>1 DEF Written, Inv, RequestsFit
<1>3. size' = size \/ open \ outdated' = {}
  BY <1>1 DEF SizeInv, OpensRight, OnNewDelegate
<1>4. SizesRight'
  BY <1>1, <1>2, <1>3 DEF SizeInv, SizesRight, Settled, Right
<1>5. OpensRight'
  BY <1>1 DEF SizeInv, OpensRight, OnNewDelegate
<1>6. FlagsFit'
  BY <1>1 DEF SizeInv, FlagsFit
<1> QED BY <1>4, <1>5, <1>6 DEF SizeInv

LEMMA SizeQueryAnswered ==
  ASSUME Inv, SizeInv, Complete, request = "query"
  PROVE  SizeInv'
<1>1. /\ call # NoCall /\ request' = "none" /\ CompleteQuery /\ call.d \in Descs
      /\ call.op \in {"open", "stat", "fstat"}
      /\ UNCHANGED <<call, waiting, querying, offset, open, answer, filesystem, size>>
      /\ cached \in [Descs -> 0..MaxSize] /\ open \subseteq Descs
  BY UnderWay DEF Complete, Inv, RequestsFit, TypeOK, CompleteInitialize, CompleteOpen, CompleteQuery,
     CompleteRead, CompleteWrite, CompleteMkDir, Fails
<1>2. \A d : ~Written(d) /\ ~Written(d)'
  BY <1>1 DEF Written
<1>3. \A d \in open \ outdated : Right(d, cached[d])
  BY <1>2 DEF SizeInv, SizesRight, Settled
<1>4. CASE callback' = PP_OK
  <2>1. /\ cached' = [cached EXCEPT ![call.d] = size] /\ inflated' = inflated \ {call.d}
        /\ outdated' = outdated \ {call.d}
    BY <1>1, <1>4 DEF CompleteQuery, Complete, Fails, PP_OK, PP_ERROR
  <2>2. \A d \in open' \ outdated' : Right(d, cached[d])'
    BY <1>1, <1>3, <2>1 DEF Right
  <2>3. SizesRight'
    BY <1>2, <2>2 DEF SizesRight, Settled
  <2>4. OpensRight' /\ FlagsFit'
    BY <1>1, <2>1 DEF SizeInv, OpensRight, FlagsFit, OnNewDelegate
  <2> QED BY <2>3, <2>4 DEF SizeInv
<1>5. CASE callback' # PP_OK
  <2>1. UNCHANGED <<cached, inflated, outdated>>
    BY <1>1, <1>5 DEF CompleteQuery, Complete, Fails
  <2>2. SizesRight'
    BY <1>1, <1>2, <1>3, <2>1 DEF SizesRight, Settled, Right
  <2>3. OpensRight' /\ FlagsFit'
    BY <1>1, <1>5, <2>1 DEF SizeInv, OpensRight, FlagsFit, OnNewDelegate
  <2> QED BY <2>2, <2>3 DEF SizeInv
<1> QED BY <1>4, <1>5

LEMMA SizeWriteAnswered ==
  ASSUME Inv, SizeInv, Complete, request = "write"
  PROVE  SizeInv'
<1> DEFINE w == call.d
           end == offset[w] + Larger(callback', 0)
           WrittenRight ==
             w \notin outdated =>
               IF w \in inflated' THEN Larger(cached[w], end) >= size'
               ELSE Larger(cached[w], end) = size'
<1>1. /\ call # NoCall /\ request' = "none" /\ CompleteWrite /\ call.d \in open
      /\ call.op = "write" /\ waiting[call.d]
      /\ UNCHANGED <<call, waiting, querying, offset, open, answer, filesystem, cached>>
      /\ outdated' = IF size' = size THEN outdated ELSE outdated \cup (open \ {call.d})
  BY DEF Complete, Inv, RequestsFit, CallFits, SizeInv, FlagsFit, CompleteInitialize, CompleteOpen,
     CompleteQuery, CompleteRead, CompleteWrite, CompleteMkDir, Fails
<1>2. /\ call.n \in 0..MaxSize /\ offset[w] \in Int /\ cached[w] \in Int /\ size \in Int
      /\ w \in Descs
  <2>1. call \in Calls
    BY <1>1 DEF Inv, TypeOK
  <2> QED BY <1>1, <2>1, CallFields, BoundsAssumption DEF Inv, TypeOK, Missing, Directory
<1>3. \A d : ~Written(d) /\ (Written(d)' <=> d = w)
  BY <1>1 DEF Written
<1>4. \A d \in open \ outdated : Right(d, cached[d])
  BY <1>3 DEF SizeInv, SizesRight, Settled
<1>5. \A d \in open' \ outdated' : d # w => size' = size /\ d \notin outdated
  BY <1>1
<1>6. \A d : d # w => (d \in inflated' <=> d \in inflated)
  BY <1>1 DEF CompleteWrite
<1>7. WrittenRight
  <2>0. w \notin outdated => IF w \in inflated THEN cached[w] >= size ELSE cached[w] = size
    BY <1>1, <1>4 DEF Right
  <2>1. ASSUME NEW n \in 0..call.n, callback' = n, n > 0,
               size' = Larger(size, offset[w] + n), inflated' = inflated
        PROVE  WrittenRight
    <3>1. n \in Int /\ end = offset[w] + n
      BY <1>2, <2>1 DEF Larger
    <3> QED BY <1>2, <2>0, <2>1, <3>1 DEF Larger
  <2>2. ASSUME callback' <= 0, callback' \in Int, size' = size,
               inflated' = IF offset[w] > cached[w] THEN inflated \cup {w} ELSE inflated
        PROVE  WrittenRight
    <3>1. end = offset[w]
      BY <1>2, <2>2 DEF Larger
    <3> QED BY <1>2, <2>0, <2>2, <3>1 DEF Larger
  <2>3. CASE \E n \in {k \in 0..call.n : k > 0 \/ call.n = 0} :
               /\ callback' = n
               /\ size' = IF n = 0 THEN size ELSE Larger(size, offset[w] + n)
               /\ inflated' = IF n = 0 /\ offset[w] > cached[w] THEN inflated \cup {w} ELSE inflated
    <3>1. PICK n \in 0..call.n :
               /\ callback' = n
               /\ size' = IF n = 0 THEN size ELSE Larger(size, offset[w] + n)
               /\ inflated' = IF n = 0 /\ offset[w] > cached[w] THEN inflated \cup {w} ELSE inflated
      BY <2>3
    <3>2. n \in Int /\ n >= 0
      BY <1>2
    <3>3. CASE n = 0
      BY <2>2, <3>1, <3>2, <3>3
    <3>4. CASE n # 0
      BY <2>1, <3>1, <3>2, <3>4
    <3> QED BY <3>3, <3>4
  <2>4. CASE /\ inflated' = IF offset[w] > cached[w] THEN inflated \cup {w} ELSE inflated
             /\ Fails
    BY <2>2, <2>4 DEF Fails, PP_ERROR
  <2> QED BY <1>1, <2>3, <2>4 DEF CompleteWrite
<1>8. SizesRight'
  <2> SUFFICES ASSUME NEW d \in open' \ outdated'
               PROVE  Right(d, Settled(d))'
    BY DEF SizesRight
  <2>1. CASE d = w
    <3>1. w \notin outdated
      BY <1>1, <2>1
    <3>2. Settled(d)' = Larger(cached[w], end)
      BY <1>1, <1>3, <2>1 DEF Settled
    <3> QED BY <1>7, <2>1, <3>1, <3>2 DEF Right
  <2>2. CASE d # w
    <3>1. Settled(d)' = cached[d] /\ size' = size /\ (d \in inflated' <=> d \in inflated)
      BY <1>1, <1>3, <1>5, <1>6, <2>2 DEF Settled
    <3> QED BY <1>1, <1>4, <1>5, <2>2, <3>1 DEF Right
  <2> QED BY <2>1, <2>2
<1>9. OpensRight' /\ FlagsFit'
  BY <1>1 DEF SizeInv, OpensRight, FlagsFit, OnNewDelegate
<1> QED BY <1>8, <1>9 DEF SizeInv

LEMMA SizeComplete ==
  ASSUME Inv, SizeInv, Complete
  PROVE  SizeInv'
<1>1. call # NoCall
  BY DEF Complete, CompleteInitialize, CompleteOpen, CompleteQuery, CompleteRead, CompleteWrite,
         CompleteMkDir, Inv, RequestsFit
<1>0. ~(waiting[call.d] /\ querying[call.d])
  BY <1>1, UnderWay
<1>2. CASE CompleteInitialize
  BY <1>0, <1>2, SizeUntold DEF CompleteInitialize, SizeInv, FlagsFit, Inv, RequestsFit
<1>3. CASE CompleteOpen
  <2>1. /\ request = "open" /\ UNCHANGED <<cached, inflated, filesystem>>
        /\ call.op \in {"open", "stat"} /\ waiting[call.d]
    BY <1>1, <1>3 DEF CompleteOpen, Fails, Inv, RequestsFit, SizeInv, FlagsFit
  <2> QED BY <1>0, <2>1, SizeUntold
<1>4. CASE CompleteRead
  <2>1. request = "read" /\ UNCHANGED <<cached, inflated, filesystem, size>> /\ call.op = "read"
    BY <1>1, <1>4 DEF CompleteRead, Fails, Inv, RequestsFit
  <2> QED BY <2>1, SizeUntold
<1>5. CASE CompleteMkDir
  <2>1. request = "mkdir" /\ UNCHANGED <<cached, inflated, filesystem>> /\ call.op = "mkdir"
    BY <1>1, <1>5 DEF CompleteMkDir, Fails, Inv, RequestsFit
  <2> QED BY <2>1, SizeUntold
<1> QED BY <1>2, <1>3, <1>4, <1>5, SizeQueryAnswered, SizeWriteAnswered
        DEF Complete, CompleteQuery, CompleteWrite

\* Between calls, a seek moves an offset and a close frees a descriptor.
LEMMA SizeSeekClose ==
  ASSUME Inv, SizeInv, NEW d \in Descs, Close(d) \/ \E by : Seek(d, by)
  PROVE  SizeInv'
<1>1. /\ call = NoCall /\ call' = NoCall /\ open' \subseteq open
      /\ UNCHANGED <<size, cached, inflated, outdated>>
  BY DEF Close, Seek, SeekTo, browser, members
<1>2. \A e : ~Written(e) /\ ~Written(e)'
  BY <1>1 DEF Written
<1>3. SizesRight'
  BY <1>1, <1>2 DEF SizeInv, SizesRight, Settled, Right
<1> QED BY <1>1, <1>3 DEF SizeInv, OpensRight, FlagsFit

LEMMA SizeStep == Inv /\ SizeInv /\ [Next]_vars => SizeInv'
<1> SUFFICES ASSUME Inv, SizeInv, [Next]_vars PROVE SizeInv'
  OBVIOUS
<1>1. CASE \E c \in Calls : Begin(c)
  BY <1>1, SizeBegin
<1>2. CASE \E d \in Descs : Close(d) \/ \E by \in -MaxSize..MaxSize : Seek(d, by)
  BY <1>2, SizeSeekClose
<1>3. CASE Handle
  BY <1>3, SizeHandlers, SizeQueried, SizeTransferred DEF Handle
<1>4. CASE Complete
  BY <1>4, SizeComplete
<1>5. CASE UNCHANGED vars
  <2>1. UNCHANGED <<filesystem, call, request, callback, waiting, querying, offset, cached, open,
                    size, inflated, outdated>>
    BY <1>5 DEF vars
  <2>2. SizesRight'
    BY <2>1 DEF SizeInv, SizesRight, Settled, Right, Written
  <2>3. OpensRight' /\ FlagsFit'
    BY <2>1 DEF SizeInv, OpensRight, FlagsFit, OnNewDelegate
  <2> QED BY <2>2, <2>3 DEF SizeInv
<1> QED BY <1>1, <1>2, <1>3, <1>4, <1>5 DEF Next

LEMMA SizeInvariance == Spec => [](Inv /\ SizeInv)
BY InvInit, InvStep, SizeInit, SizeStep, PTL DEF Spec

\* Between calls a descriptor knows the size of its file, unless another descriptor has
\* changed it since, or a write beyond the end has failed; for any number of
\* descriptors, and whatever fails.
THEOREM SizeKnown == Spec => []CachedSizeExact
<1>1. Inv /\ SizeInv => CachedSizeExact
  BY DEF SizeInv, SizesRight, Settled, Written, Right, CachedSizeExact
<1> QED BY <1>1, SizeInvariance, PTL

\* A descriptor starts at the start of its file, or at its end with O_APPEND.
THEOREM StartsAtItsPlace == Spec => OpensAtItsPlace
<1> DEFINE A == Returns("open") /\ answer' = 0 =>
                  offset'[call.d] = IF call.append THEN size' ELSE 0
<1>1. ASSUME Inv, SizeInv, [Next]_vars
      PROVE  [A]_vars
  <2> SUFFICES ASSUME Next, call # NoCall, call.op = "open", call' = NoCall, answer' = 0
               PROVE  offset'[call.d] = IF call.append THEN size' ELSE 0
    BY <1>1 DEF Returns
  <2>1. Handle
    BY DEF Next, Begin, Seek, Close, Complete
  <2>2. Queried
    <3>1. ~Initialize
      BY DEF Initialize, Unchecked, Chain
    <3>0. \A kind : ~Chain(kind)
      BY DEF Chain
    <3>5. ~Finish(1)
      BY DEF Finish
    <3>2. ~OpenFile
      BY <3>0, <3>5 DEF OpenFile, Checked, Errno
    <3>3. ~Opened
      BY <3>0, <3>5 DEF Opened, Unchecked, Errno
    <3>4. ~AskFile /\ ~FstatAnswered /\ ~Transferred /\ ~MakeDirectory
      BY DEF AskFile, FstatAnswered, Transferred, MakeDirectory, InCall
    <3> QED BY <2>1, <3>1, <3>2, <3>3, <3>4 DEF Handle
  <2>3. /\ callback = PP_OK /\ querying[call.d] /\ request = "none" /\ call.d \in Descs
        /\ offset \in [Descs -> -MaxSize..MaxSize] /\ size' = size
        /\ offset' = IF call.append THEN [offset EXCEPT ![call.d] = cached[call.d]] ELSE offset
    BY <1>1, <2>2, UnderWay DEF Queried, InCall, Finish, Errno, browser
  <2>4. offset[call.d] = 0 /\ cached[call.d] = size
    BY <1>1, <2>3 DEF SizeInv, OpensRight
  <2> QED BY <2>3, <2>4
<1> QED BY <1>1, SizeInvariance, PTL DEF Spec, OpensAtItsPlace

-----------------------------------------------------------------------------
(***************************************************************************)
(* Termination, as far as it is safety: a handler that chains is entered   *)
(* further on the next time, since each entry sets filesystem_ or a flag,  *)
(* or clears waiting_ for querying_.                                       *)
(***************************************************************************)
\* How often the handler is still to be entered, if nothing fails.
Entries ==
  IF querying[call.d] THEN 1
  ELSE (IF call.op \in {"open", "stat"} THEN 2 ELSE 1)
         + (IF waiting[call.d] THEN 0 ELSE 1) + (IF NeedsInitialize THEN 1 ELSE 0)

\* An entry may be followed by a completion.
StepsLeft == IF call = NoCall THEN 0 ELSE Entries + Entries + (IF request = "none" THEN 0 ELSE 1)

LEMMA EntriesBound == Entries \in 1..4
BY DEF Entries

LEMMA FinishEnds ==
  ASSUME call # NoCall, NEW value, Finish(value)
  PROVE  StepsLeft' < StepsLeft
<1>1. StepsLeft' = 0
  BY DEF Finish, StepsLeft
<1>2. StepsLeft > 0
  BY EntriesBound DEF StepsLeft
<1> QED BY <1>1, <1>2

LEMMA ChainEnds ==
  ASSUME call # NoCall, request = "none", NEW kind, Chain(kind), Entries' < Entries
  PROVE  StepsLeft' < StepsLeft
<1>1. PICK n \in 1..4 : n = Entries
  BY EntriesBound
<1>2. PICK m \in 1..4 : m = Entries'
  <2>1. Entries' \in 1..4
    BY DEF Entries
  <2> QED BY <2>1
<1>3. m < n
  BY <1>1, <1>2
<1>4. StepsLeft = n + n
  BY <1>1 DEF StepsLeft
<1>5. StepsLeft' \in {m + m, m + m + 1}
  BY <1>2 DEF StepsLeft, Chain
<1> QED BY <1>3, <1>4, <1>5

\* The first entry of a handler that sets waiting_ if its request is accepted.
LEMMA CheckedEnds ==
  ASSUME Inv, call # NoCall, request = "none", ~waiting[call.d], ~querying[call.d],
         ~NeedsInitialize, NEW kind, NEW error, Checked(kind, error),
         UNCHANGED <<filesystem, querying>>
  PROVE  StepsLeft' < StepsLeft
<1>1. CASE Chain(kind) /\ SetWaiting(TRUE)
  <2>1. call' = call /\ waiting'[call.d] /\ ~querying'[call.d] /\ ~NeedsInitialize'
    BY <1>1, UnderWay DEF Inv, TypeOK, Chain, SetWaiting, NeedsInitialize, OnNewDelegate
  <2>2. Entries' < Entries
    BY <2>1 DEF Entries
  <2> QED BY <1>1, <2>2, ChainEnds
<1>2. CASE Finish(error)
  BY <1>2, FinishEnds
<1> QED BY <1>1, <1>2 DEF Checked

\* Each step of a call brings its end nearer, whatever the browser answers: no call
\* takes more than eight, the initialisation included, and none runs in circles.
THEOREM ChainsEnd ==
  Spec => [][IF call = NoCall THEN StepsLeft' <= 8 ELSE StepsLeft' < StepsLeft]_vars
<1>1. ASSUME Inv, Next, call = NoCall
      PROVE  StepsLeft' <= 8
  <2>1. request' = "none" \/ call' = NoCall
    <3>1. request = "none"
      BY <1>1 DEF Inv, RequestsFit
    <3>2. ~Handle /\ ~Complete
      BY <1>1, <3>1 DEF Handle, Initialize, OpenFile, Opened, Queried, AskFile, FstatAnswered,
                        Transferred, MakeDirectory, InCall, Complete, CompleteInitialize,
                        CompleteOpen, CompleteQuery, CompleteRead, CompleteWrite, CompleteMkDir
    <3> QED BY <1>1, <3>1, <3>2 DEF Next, Begin, Seek, Close
  <2>2. PICK m \in 1..4 : m = Entries'
    <3>1. Entries' \in 1..4
      BY DEF Entries
    <3> QED BY <3>1
  <2>3. StepsLeft' = IF call' = NoCall THEN 0 ELSE m + m + (IF request' = "none" THEN 0 ELSE 1)
    BY <2>2 DEF StepsLeft
  <2> QED BY <2>1, <2>3
<1>2. ASSUME Inv, Next, call # NoCall
      PROVE  StepsLeft' < StepsLeft
  <2>1. CASE Initialize
    <3>1. PICK kind : Chain(kind)
      BY <2>1 DEF Initialize, Unchecked
    <3>2. /\ call' = call /\ request = "none" /\ NeedsInitialize /\ ~NeedsInitialize'
          /\ UNCHANGED <<waiting, querying>>
      BY <2>1, <3>1 DEF Initialize, NeedsInitialize, OnNewDelegate, Chain, members
    <3>3. ~querying[call.d]
      BY <1>2, <3>2 DEF Inv, CallFits, NeedsInitialize
    <3>4. Entries' < Entries
      BY <3>2, <3>3 DEF Entries
    <3> QED BY <1>2, <3>1, <3>2, <3>4, ChainEnds
  <2>2. CASE OpenFile \/ AskFile
    <3>1. PICK kind, error : Checked(kind, error)
      BY <2>2 DEF OpenFile, AskFile
    <3>2. /\ request = "none" /\ ~waiting[call.d] /\ ~querying[call.d] /\ ~NeedsInitialize
          /\ UNCHANGED <<filesystem, querying>>
      BY <1>2, <2>2 DEF OpenFile, AskFile, InCall, NeedsInitialize, OnNewDelegate, Inv, CallFits
    <3> QED BY <1>2, <3>1, <3>2, CheckedEnds
  <2>3. CASE Opened
    <3>1. CASE \E value : Finish(value)
      BY <1>2, <3>1, FinishEnds
    <3>2. CASE \E kind : Chain(kind) /\ SetQuerying(TRUE)
      <4>1. PICK kind : Chain(kind) /\ SetQuerying(TRUE)
        BY <3>2
      <4>2. /\ request = "none" /\ call' = call /\ waiting[call.d] /\ call.op \in {"open", "stat"}
            /\ ~querying[call.d] /\ querying'[call.d]
        BY <1>2, <2>3, <4>1, UnderWay DEF Opened, InCall, Chain, SetQuerying
      <4>3. Entries' < Entries
        BY <4>2 DEF Entries
      <4> QED BY <1>2, <4>1, <4>2, <4>3, ChainEnds
    <3> QED BY <2>3, <3>1, <3>2 DEF Opened, Unchecked
  <2>4. CASE Queried \/ FstatAnswered \/ Transferred
    <3>1. \E value : Finish(value)
      BY <2>4 DEF Queried, FstatAnswered, Transferred
    <3> QED BY <1>2, <3>1, FinishEnds
  <2>5. CASE MakeDirectory
    <3>1. CASE Finish(callback)
      BY <1>2, <3>1, FinishEnds
    <3>2. CASE ~waiting[call.d] /\ Checked("mkdir", -1)
      <4>1. /\ request = "none" /\ ~querying[call.d] /\ ~NeedsInitialize
            /\ UNCHANGED <<filesystem, querying>>
        BY <1>2, <2>5 DEF MakeDirectory, InCall, Inv, CallFits
      <4> QED BY <1>2, <3>2, <4>1, CheckedEnds
    <3> QED BY <2>5, <3>1, <3>2 DEF MakeDirectory
  <2>6. CASE Complete
    <3>1. /\ request # "none" /\ request' = "none" /\ call' = call
          /\ UNCHANGED <<waiting, querying>>
      BY <2>6 DEF Complete, CompleteInitialize, CompleteOpen, CompleteQuery, CompleteRead,
                  CompleteWrite, CompleteMkDir
    <3>2. filesystem = "null" \/ filesystem' # "null"
      BY <2>6 DEF Complete, CompleteInitialize, CompleteOpen, CompleteQuery, CompleteRead,
                  CompleteWrite, CompleteMkDir, Fails
    <3>3. Entries' <= Entries
      BY <3>1, <3>2 DEF Entries, NeedsInitialize, OnNewDelegate
    <3>4. PICK n \in 1..4 : n = Entries
      BY EntriesBound
    <3>5. PICK m \in 1..4 : m = Entries'
      <4>1. Entries' \in 1..4
        BY DEF Entries
      <4> QED BY <4>1
    <3>6. m <= n
      BY <3>3, <3>4, <3>5
    <3>7. StepsLeft = n + n + 1 /\ StepsLeft' = m + m
      BY <1>2, <3>1, <3>4, <3>5 DEF StepsLeft
    <3> QED BY <3>6, <3>7
  <2> QED BY <1>2, <2>1, <2>2, <2>3, <2>4, <2>5, <2>6 DEF Next, Begin, Seek, Close, Handle
<1>3. Inv /\ [Next]_vars => [IF call = NoCall THEN StepsLeft' <= 8 ELSE StepsLeft' < StepsLeft]_vars
  BY <1>1, <1>2
<1> QED BY <1>3, Invariance, PTL DEF Spec

=============================================================================
