------------------------- MODULE PathResolverProofs -------------------------
(***************************************************************************)
(* Theorems about PathResolver, for any names and paths of any length: the *)
(* loops of CreateFullpath compute the walk, and cwd_ is a directory.      *)
(***************************************************************************)
EXTENDS PathResolver, SequenceTheorems, WellFoundedInduction, TLAPS

-----------------------------------------------------------------------------
(* Induction and recursive functions.                                      *)

\* A set of numbers has a least one.
LEMMA Least ==
  ASSUME NEW T \in SUBSET Nat, T # {}
  PROVE  \E x \in T : \A y \in T : ~(y < x)
<1> DEFINE R == OpToRel(<, Nat)
<1>1. IsWellFoundedOn(R, Nat)
  BY NatLessThanWellFounded
<1>2. PICK x \in T : \A y \in T : ~(<<y, x>> \in R)
  <2> HIDE DEF R
  <2> QED BY <1>1, WFMin
<1>3. \A y \in T : ~(y < x)
  BY <1>2 DEF OpToRel
<1> QED BY <1>3

\* The numbers up to N, by induction over a set instead of an operator.
LEMMA Induction ==
  ASSUME NEW N \in Nat, NEW T, 0 \in T, \A n \in 0..N : n < N /\ n \in T => n + 1 \in T
  PROVE  \A n \in 0..N : n \in T
<1> SUFFICES ASSUME (0..N) \ T # {} PROVE FALSE
  OBVIOUS
<1> DEFINE rest == (0..N) \ T
<1>1. PICK x \in rest : \A y \in rest : ~(y < x)
  <2>1. rest \in SUBSET Nat /\ rest # {}
    OBVIOUS
  <2> HIDE DEF rest
  <2> QED BY <2>1, Least
<1>2. x - 1 \in 0..N /\ x - 1 < x /\ x - 1 < N
  BY <1>1
<1> QED BY <1>1, <1>2

Steps(N, S) == [1..N -> [S -> S]]

\* f holds what the steps 1..n make of start.
IsFold(f, start, N, step, S) ==
  f \in [0..N -> S] /\ f[0] = start /\ \A n \in 1..N : f[n] = step[n][f[n - 1]]

\* The fold of a step over 1..N exists, which is what makes the definition of a
\* recursive function, a CHOOSE, mean something.
LEMMA Recursion ==
  ASSUME NEW S, NEW start \in S, NEW N \in Nat, NEW step \in Steps(N, S)
  PROVE  \E f : IsFold(f, start, N, step, S)
<1> DEFINE T == {m \in 0..N : \E f : IsFold(f, start, m, step, S)}
<1>1. 0 \in T
  <2> DEFINE f == [n \in 0..0 |-> start]
  <2>1. IsFold(f, start, 0, step, S)
    BY DEF IsFold
  <2> HIDE DEF f
  <2> QED BY <2>1
<1>2. ASSUME NEW m \in 0..N, m < N, m \in T
      PROVE  m + 1 \in T
  <2>1. PICK f : IsFold(f, start, m, step, S)
    BY <1>2
  <2> DEFINE g == [n \in 0..(m + 1) |-> IF n = m + 1 THEN step[m + 1][f[m]] ELSE f[n]]
  <2>2. step[m + 1][f[m]] \in S
    BY <1>2, <2>1 DEF Steps, IsFold
  <2>3. g \in [0..(m + 1) -> S]
    BY <2>1, <2>2 DEF IsFold
  <2>4. g[0] = start
    BY <2>1 DEF IsFold
  <2>5. ASSUME NEW n \in 1..(m + 1)
        PROVE  g[n] = step[n][g[n - 1]]
    BY <2>1 DEF IsFold
  <2>6. m + 1 \in 0..N
    BY <1>2
  <2>7. IsFold(g, start, m + 1, step, S)
    <3> HIDE DEF g
    <3> QED BY <2>3, <2>4, <2>5 DEF IsFold
  <2> QED BY <2>6, <2>7
<1>3. N \in T
  <2>1. \A m \in 0..N : m < N /\ m \in T => m + 1 \in T
    BY <1>2
  <2>2. N \in 0..N
    OBVIOUS
  <2> HIDE DEF T
  <2> QED BY <1>1, <2>1, <2>2, Induction
<1> QED BY <1>3

\* A recursive function whose steps these are, as long as it has stayed in S.
LEMMA FoldOf ==
  ASSUME NEW S, NEW start \in S, NEW N \in Nat, NEW step \in Steps(N, S),
         NEW f, f = [n \in 0..N |-> f[n]], f[0] = start,
         \A n \in 1..N : f[n - 1] \in S => f[n] = step[n][f[n - 1]]
  PROVE  IsFold(f, start, N, step, S)
<1> DEFINE T == {m \in 0..N : f[m] \in S}
<1>1. 0 \in T
  OBVIOUS
<1>2. ASSUME NEW n \in 0..N, n < N, n \in T
      PROVE  n + 1 \in T
  <2>1. n + 1 \in 1..N /\ (n + 1) - 1 = n /\ f[n] \in S
    BY <1>2
  <2>2. f[n + 1] = step[n + 1][f[n]]
    BY <2>1
  <2>3. step[n + 1][f[n]] \in S
    BY <2>1 DEF Steps
  <2> QED BY <2>1, <2>2, <2>3
<1>3. \A n \in 0..N : n \in T
  <2> HIDE DEF T
  <2> QED BY <1>1, <1>2, Induction
<1>4. f \in [0..N -> S]
  BY <1>3
<1>5. ASSUME NEW n \in 1..N
      PROVE  f[n] = step[n][f[n - 1]]
  <2>1. n - 1 \in 0..N
    OBVIOUS
  <2> QED BY <1>4, <2>1
<1> QED BY <1>4, <1>5 DEF IsFold

-----------------------------------------------------------------------------
(* The operators of CreateFullpath, unfolded.                              *)

\* after is what the first n segments of p leave of the list, for every n.
IsPushing(after, list, p, dropped, S) ==
  /\ after \in [0..Len(p) -> Seq(S)]
  /\ after[0] = list
  /\ \A n \in 1..Len(p) :
       after[n] = IF n \in dropped THEN after[n - 1] ELSE Append(after[n - 1], p[n])
  /\ Pushed(list, p, dropped) = after[Len(p)]

LEMMA PushedUnfold ==
  ASSUME NEW S, NEW list \in Seq(S), NEW R, NEW p \in Seq(R), NEW dropped,
         \A n \in (1..Len(p)) \ dropped : p[n] \in S
  PROVE  \E after : IsPushing(after, list, p, dropped, S)
<1> DEFINE Q == Seq(S)
           N == Len(p)
           step == [n \in 1..N |-> [l \in Q |->
                      IF n \in dropped THEN l ELSE Append(l, p[n])]]
           Body(f) == [n \in 0..N |->
                         IF n = 0 THEN list
                         ELSE IF n \in dropped THEN f[n - 1]
                         ELSE Append(f[n - 1], p[n])]
           after == CHOOSE f : f = Body(f)
<1>0. N \in Nat /\ list \in Q
  OBVIOUS
<1>1. step \in Steps(N, Q)
  BY DEF Steps
<1>2. \A n \in 1..N : \A l \in Q :
        step[n][l] = IF n \in dropped THEN l ELSE Append(l, p[n])
  OBVIOUS
<1>3. Pushed(list, p, dropped) = after[N]
  BY DEF Pushed
<1> HIDE DEF step, Q, N
<1>4. PICK f : IsFold(f, list, N, step, Q)
  BY <1>0, <1>1, Recursion
<1>5. f = Body(f)
  <2>1. f \in [0..N -> Q] /\ f[0] = list
    BY <1>4 DEF IsFold
  <2>2. ASSUME NEW n \in 1..N
        PROVE  f[n] = IF n \in dropped THEN f[n - 1] ELSE Append(f[n - 1], p[n])
    BY <1>0, <1>2, <1>4 DEF IsFold
  <2>3. ASSUME NEW n \in 0..N
        PROVE  f[n] = IF n = 0 THEN list
                      ELSE IF n \in dropped THEN f[n - 1] ELSE Append(f[n - 1], p[n])
    <3>1. n = 0 \/ (n # 0 /\ n \in 1..N)
      BY <1>0
    <3> QED BY <2>1, <2>2, <3>1, Zenon
  <2>4. f = [n \in 0..N |-> f[n]]
    BY <2>1
  <2> QED BY <2>3, <2>4, Zenon
<1>6. after = Body(after)
  <2> HIDE DEF Body
  <2> QED BY <1>5
<1> HIDE DEF after
<1>7. /\ after = [n \in 0..N |-> after[n]]
      /\ after[0] = list
      /\ \A n \in 1..N :
           after[n] = IF n \in dropped THEN after[n - 1] ELSE Append(after[n - 1], p[n])
  <2>1. DOMAIN Body(after) = 0..N /\ Body(after) = [n \in 0..N |-> Body(after)[n]]
    BY Zenon
  <2>2. ASSUME NEW n \in 0..N
        PROVE  Body(after)[n] = IF n = 0 THEN list
                                ELSE IF n \in dropped THEN after[n - 1]
                                ELSE Append(after[n - 1], p[n])
    BY Zenon
  <2>3. 0 \in 0..N /\ \A n \in 1..N : n \in 0..N /\ n # 0
    BY <1>0
  <2> HIDE DEF Body
  <2>4. after = [n \in 0..N |-> after[n]]
    BY <1>6, <2>1, Zenon
  <2> QED BY <1>6, <2>2, <2>3, <2>4, Zenon
<1> HIDE DEF Body
<1>8. \A n \in 1..N : after[n - 1] \in Q => after[n] = step[n][after[n - 1]]
  BY <1>2, <1>7
<1>9. IsFold(after, list, N, step, Q)
  BY <1>0, <1>1, <1>7, <1>8, FoldOf
<1>10. after \in [0..N -> Q]
  BY <1>9 DEF IsFold
<1> QED BY <1>3, <1>7, <1>10 DEF N, Q, IsPushing

LEMMA TurnType ==
  ASSUME NEW R, NEW list \in Seq(R), NEW at \in Nat \ {0}
  PROVE  Turn([list |-> list, at |-> at]) \in [list: Seq(R), at: Nat \ {0}]
<1>1. at <= Len(list) => SubSeq(list, at + 1, Len(list)) \in Seq(R)
  OBVIOUS
<1>2. at <= Len(list) => SubSeq(list, 1, at - 2) \in Seq(R)
  OBVIOUS
<1> QED BY <1>1, <1>2 DEF Turn

LEMMA NormalizedUnfold ==
  ASSUME NEW R, NEW paths \in Seq(R)
  PROVE  \E loop \in [0..Len(paths) -> [list: Seq(R), at: Nat \ {0}]] :
           /\ loop[0] = [list |-> paths, at |-> 1]
           /\ \A n \in 1..Len(paths) : loop[n] = Turn(loop[n - 1])
           /\ Normalized(paths) = loop[Len(paths)].list
<1> DEFINE Q == [list: Seq(R), at: Nat \ {0}]
           N == Len(paths)
           start == [list |-> paths, at |-> 1]
           step == [n \in 1..N |-> [l \in Q |-> Turn(l)]]
           Body(f) == [n \in 0..N |-> IF n = 0 THEN start ELSE Turn(f[n - 1])]
           loop == CHOOSE f : f = Body(f)
<1>0. N \in Nat /\ start \in Q
  OBVIOUS
<1>1. step \in Steps(N, Q)
  <2>1. ASSUME NEW l \in Q
        PROVE  Turn(l) \in Q
    <3>1. l = [list |-> l.list, at |-> l.at] /\ l.list \in Seq(R) /\ l.at \in Nat \ {0}
      OBVIOUS
    <3> QED BY <3>1, TurnType
  <2> HIDE DEF Q
  <2> QED BY <2>1 DEF Steps
<1>2. \A n \in 1..N : \A l \in Q : step[n][l] = Turn(l)
  <2> HIDE DEF Q
  <2> QED OBVIOUS
<1>3. Normalized(paths) = loop[N].list
  BY DEF Normalized
<1> HIDE DEF step, Q, N, start
<1>4. PICK f : IsFold(f, start, N, step, Q)
  BY <1>0, <1>1, Recursion
<1>5. f = Body(f)
  <2>1. f \in [0..N -> Q] /\ f[0] = start
    BY <1>4 DEF IsFold
  <2>2. ASSUME NEW n \in 1..N
        PROVE  f[n] = Turn(f[n - 1])
    BY <1>0, <1>2, <1>4 DEF IsFold
  <2>3. ASSUME NEW n \in 0..N
        PROVE  f[n] = IF n = 0 THEN start ELSE Turn(f[n - 1])
    <3>1. n = 0 \/ (n # 0 /\ n \in 1..N)
      BY <1>0
    <3> QED BY <2>1, <2>2, <3>1, Zenon
  <2>4. f = [n \in 0..N |-> f[n]]
    BY <2>1
  <2> QED BY <2>3, <2>4, Zenon
<1>6. loop = Body(loop)
  <2> HIDE DEF Body
  <2> QED BY <1>5
<1> HIDE DEF loop
<1>7. /\ loop = [n \in 0..N |-> loop[n]]
      /\ loop[0] = start
      /\ \A n \in 1..N : loop[n] = Turn(loop[n - 1])
  <2>1. Body(loop) = [n \in 0..N |-> Body(loop)[n]]
    BY Zenon
  <2>2. ASSUME NEW n \in 0..N
        PROVE  Body(loop)[n] = IF n = 0 THEN start ELSE Turn(loop[n - 1])
    BY Zenon
  <2>3. 0 \in 0..N /\ \A n \in 1..N : n \in 0..N /\ n # 0
    BY <1>0
  <2> HIDE DEF Body
  <2>4. loop = [n \in 0..N |-> loop[n]]
    BY <1>6, <2>1, Zenon
  <2> QED BY <1>6, <2>2, <2>3, <2>4, Zenon
<1> HIDE DEF Body
<1>8. \A n \in 1..N : loop[n - 1] \in Q => loop[n] = step[n][loop[n - 1]]
  BY <1>2, <1>7
<1>9. IsFold(loop, start, N, step, Q)
  BY <1>0, <1>1, <1>7, <1>8, FoldOf
<1>10. loop \in [0..N -> Q]
  BY <1>9 DEF IsFold
<1> QED BY <1>3, <1>7, <1>10 DEF N, Q, start

LEMMA WalkedUnfold ==
  ASSUME NEW dir \in Seq(Names), NEW p \in Seq(Segments)
  PROVE  \E at \in [0..Len(p) -> Seq(Names)] :
           /\ at[0] = dir
           /\ \A n \in 1..Len(p) : at[n] = Walk(at[n - 1], p[n])
           /\ Walked(dir, p) = at[Len(p)]
<1> DEFINE Q == Seq(Names)
           N == Len(p)
           step == [n \in 1..N |-> [d \in Q |-> Walk(d, p[n])]]
           Body(f) == [n \in 0..N |-> IF n = 0 THEN dir ELSE Walk(f[n - 1], p[n])]
           at == CHOOSE f : f = Body(f)
<1>0. N \in Nat /\ dir \in Q
  OBVIOUS
<1>1. step \in Steps(N, Q)
  <2>1. ASSUME NEW d \in Q, NEW s \in Segments
        PROVE  Walk(d, s) \in Q
    <3>1. CASE s \in {"", "."}
      BY <3>1 DEF Walk
    <3>2. CASE s = ".."
      <4>1. d # <<>> => Front(d) \in Q
        BY DEF Front
      <4> QED BY <3>2, <4>1 DEF Walk
    <3>3. CASE s \notin {"", ".", ".."}
      <4>1. s \in Names
        BY <3>3 DEF Segments
      <4>2. Walk(d, s) = Append(d, s)
        BY <3>3 DEF Walk
      <4>3. Append(d, s) \in Q
        BY <4>1
      <4> QED BY <4>2, <4>3
    <3> QED BY <3>1, <3>2, <3>3
  <2>2. \A n \in 1..N : p[n] \in Segments
    OBVIOUS
  <2> HIDE DEF Q, N
  <2> QED BY <2>1, <2>2 DEF Steps
<1>2. \A n \in 1..N : \A d \in Q : step[n][d] = Walk(d, p[n])
  <2> HIDE DEF Q
  <2> QED OBVIOUS
<1>3. Walked(dir, p) = at[N]
  BY DEF Walked
<1> HIDE DEF step, Q, N
<1>4. PICK f : IsFold(f, dir, N, step, Q)
  BY <1>0, <1>1, Recursion
<1>5. f = Body(f)
  <2>1. f \in [0..N -> Q] /\ f[0] = dir
    BY <1>4 DEF IsFold
  <2>2. ASSUME NEW n \in 1..N
        PROVE  f[n] = Walk(f[n - 1], p[n])
    BY <1>0, <1>2, <1>4 DEF IsFold
  <2>3. ASSUME NEW n \in 0..N
        PROVE  f[n] = IF n = 0 THEN dir ELSE Walk(f[n - 1], p[n])
    <3>1. n = 0 \/ (n # 0 /\ n \in 1..N)
      BY <1>0
    <3> QED BY <2>1, <2>2, <3>1, Zenon
  <2>4. f = [n \in 0..N |-> f[n]]
    BY <2>1
  <2> QED BY <2>3, <2>4, Zenon
<1>6. at = Body(at)
  <2> HIDE DEF Body
  <2> QED BY <1>5
<1> HIDE DEF at
<1>7. /\ at = [n \in 0..N |-> at[n]]
      /\ at[0] = dir
      /\ \A n \in 1..N : at[n] = Walk(at[n - 1], p[n])
  <2>1. Body(at) = [n \in 0..N |-> Body(at)[n]]
    BY Zenon
  <2>2. ASSUME NEW n \in 0..N
        PROVE  Body(at)[n] = IF n = 0 THEN dir ELSE Walk(at[n - 1], p[n])
    BY Zenon
  <2>3. 0 \in 0..N /\ \A n \in 1..N : n \in 0..N /\ n # 0
    BY <1>0
  <2> HIDE DEF Body
  <2>4. at = [n \in 0..N |-> at[n]]
    BY <1>6, <2>1, Zenon
  <2> QED BY <1>6, <2>2, <2>3, <2>4, Zenon
<1> HIDE DEF Body
<1>8. \A n \in 1..N : at[n - 1] \in Q => at[n] = step[n][at[n - 1]]
  BY <1>2, <1>7
<1>9. IsFold(at, dir, N, step, Q)
  BY <1>0, <1>1, <1>7, <1>8, FoldOf
<1>10. at \in [0..N -> Q]
  BY <1>9 DEF IsFold
<1> QED BY <1>3, <1>7, <1>10 DEF N, Q

-----------------------------------------------------------------------------
(* The loop over ".." takes each segment up, down or nowhere, as if it had *)
(* been walked from the root.                                              *)

StepUp(dir, s) ==
  IF s # ".." THEN Append(dir, s) ELSE IF dir = <<>> THEN <<>> ELSE Front(dir)

\* f is the walk along the first n of the segments, for every n.
IsUnwinding(f, paths, R) ==
  /\ f \in [0..Len(paths) -> Seq(R)]
  /\ f[0] = <<>>
  /\ \A n \in 1..Len(paths) : f[n] = StepUp(f[n - 1], paths[n])

UnwindsTo(paths, dir, R) ==
  \E f : IsUnwinding(f, paths, R) /\ dir = f[Len(paths)]

LEMMA UnwindsToSomewhere ==
  ASSUME NEW R, NEW paths \in Seq(R \cup {".."})
  PROVE  \E dir \in Seq(R) : UnwindsTo(paths, dir, R)
<1> DEFINE Q == Seq(R)
           N == Len(paths)
           step == [n \in 1..N |-> [d \in Q |-> StepUp(d, paths[n])]]
<1>0. N \in Nat /\ <<>> \in Q
  OBVIOUS
<1>1. step \in Steps(N, Q)
  <2>1. ASSUME NEW d \in Q, NEW s \in R \cup {".."}
        PROVE  StepUp(d, s) \in Q
    <3>1. d # <<>> => Front(d) \in Q
      BY DEF Front
    <3> QED BY <3>1 DEF StepUp
  <2>2. \A n \in 1..N : paths[n] \in R \cup {".."}
    OBVIOUS
  <2> HIDE DEF Q, N
  <2> QED BY <2>1, <2>2 DEF Steps
<1>2. \A n \in 1..N : \A d \in Q : step[n][d] = StepUp(d, paths[n])
  <2> HIDE DEF Q
  <2> QED OBVIOUS
<1>3. PICK f : IsFold(f, <<>>, N, step, Q)
  <2> HIDE DEF step, Q, N
  <2> QED BY <1>0, <1>1, Recursion
<1>4. IsUnwinding(f, paths, R)
  <2>1. f \in [0..N -> Q] /\ f[0] = <<>>
    BY <1>3 DEF IsFold
  <2>2. ASSUME NEW n \in 1..N
        PROVE  f[n] = StepUp(f[n - 1], paths[n])
    <3>1. f[n] = step[n][f[n - 1]] /\ f[n - 1] \in Q
      <4> HIDE DEF step, Q, N
      <4> QED BY <1>0, <1>3 DEF IsFold
    <3> HIDE DEF step, Q, N
    <3> QED BY <1>2, <3>1
  <2> QED BY <2>1, <2>2 DEF IsUnwinding
<1>5. f[N] \in Q
  BY <1>0, <1>3 DEF IsFold
<1> QED BY <1>4, <1>5 DEF UnwindsTo

LEMMA UnwindsEmpty ==
  ASSUME NEW R
  PROVE  UnwindsTo(<<>>, <<>>, R)
<1> DEFINE f == [n \in 0..0 |-> <<>>]
<1>1. f \in [0..0 -> Seq(R)] /\ f[0] = <<>>
  OBVIOUS
<1> HIDE DEF f
<1>2. IsUnwinding(f, <<>>, R)
  BY <1>1 DEF IsUnwinding
<1> QED BY <1>1, <1>2 DEF UnwindsTo

LEMMA UnwindsAppend ==
  ASSUME NEW R, NEW paths \in Seq(R \cup {".."}), NEW dir, UnwindsTo(paths, dir, R),
         NEW s \in R \cup {".."}
  PROVE  UnwindsTo(Append(paths, s), StepUp(dir, s), R)
<1> DEFINE N == Len(paths)
<1>1. PICK f : IsUnwinding(f, paths, R) /\ dir = f[N]
  BY DEF UnwindsTo
<1> DEFINE g == [n \in 0..(N + 1) |-> IF n = N + 1 THEN StepUp(f[N], s) ELSE f[n]]
<1>2. N \in Nat /\ Len(Append(paths, s)) = N + 1 /\ f \in [0..N -> Seq(R)]
  BY <1>1 DEF IsUnwinding
<1>3. StepUp(f[N], s) \in Seq(R)
  <2>1. f[N] \in Seq(R)
    BY <1>2
  <2>2. f[N] # <<>> => Front(f[N]) \in Seq(R)
    BY <2>1 DEF Front
  <2> QED BY <2>1, <2>2 DEF StepUp
<1>4. g \in [0..(N + 1) -> Seq(R)]
  BY <1>2, <1>3
<1>5. g[0] = <<>>
  BY <1>1, <1>2 DEF IsUnwinding
<1>6. ASSUME NEW n \in 1..(N + 1)
      PROVE  g[n] = StepUp(g[n - 1], Append(paths, s)[n])
  <2>1. CASE n = N + 1
    <3>1. Append(paths, s)[n] = s
      BY <2>1
    <3>2. g[n] = StepUp(f[N], s) /\ g[n - 1] = f[N]
      BY <1>2, <2>1
    <3> QED BY <3>1, <3>2
  <2>2. CASE n \in 1..N
    <3>1. Append(paths, s)[n] = paths[n]
      BY <2>2
    <3>2. g[n] = f[n] /\ g[n - 1] = f[n - 1]
      BY <1>2, <2>2
    <3> QED BY <1>1, <2>2, <3>1, <3>2 DEF IsUnwinding
  <2> QED BY <1>2, <2>1, <2>2
<1> HIDE DEF g
<1>7. IsUnwinding(g, Append(paths, s), R)
  BY <1>2, <1>4, <1>5, <1>6 DEF IsUnwinding
<1>8. g[N + 1] = StepUp(dir, s)
  BY <1>1, <1>2 DEF g
<1> QED BY <1>2, <1>7, <1>8 DEF UnwindsTo

LEMMA FrontProperties ==
  ASSUME NEW S, NEW d \in Seq(S), d # <<>>
  PROVE  /\ Front(d) \in Seq(S)
         /\ Len(d) \in Nat \ {0}
         /\ Len(Front(d)) = Len(d) - 1
         /\ \A i \in 1..(Len(d) - 1) : Front(d)[i] = d[i]
<1>1. Len(d) \in Nat \ {0} /\ \A i \in 1..Len(d) : d[i] \in S
  BY EmptySeq
<1> DEFINE n == Len(d) - 1
<1>2. n \in Int /\ 1 \in Int /\ (\A i \in 1..n : d[i] \in S) /\ n - 1 + 1 = n
  BY <1>1
<1>3. SubSeq(d, 1, n) \in Seq(S) /\ Len(SubSeq(d, 1, n)) = n
  BY <1>1, <1>2
<1>4. \A i \in 1..n : SubSeq(d, 1, n)[i] = d[i]
  BY <1>1, <1>2
<1> QED BY <1>1, <1>3, <1>4 DEF Front

\* One turn, with d walked before the iterator, s under it and r to come.
TurnsTo(d, s, r) ==
  Turn([list |-> d \o (<<s>> \o r), at |-> Len(d) + 1])
    = [list |-> StepUp(d, s) \o r, at |-> Len(StepUp(d, s)) + 1]

LEMMA TurnStepsUp ==
  ASSUME NEW R, ".." \notin R, NEW d \in Seq(R), NEW s \in R \cup {".."},
         NEW r \in Seq(R \cup {".."})
  PROVE  TurnsTo(d, s, r)
<1> DEFINE A == R \cup {".."}
           list == d \o (<<s>> \o r)
           at == Len(d) + 1
<1>1. d \in Seq(A) /\ <<s>> \in Seq(A) /\ <<s>> \o r \in Seq(A) /\ list \in Seq(A)
  BY SeqMonotonic
<1>2. Len(list) = Len(d) + 1 + Len(r) /\ list[at] = s /\ at <= Len(list) /\ at \in Nat \ {0}
  BY <1>1
<1>3. SubSeq(list, at + 1, Len(list)) = r
  <2>1. SubSeq(list, at + 1, Len(list)) \in Seq(A)
    BY <1>1, <1>2
  <2>2. Len(SubSeq(list, at + 1, Len(list))) = Len(r)
    BY <1>1, <1>2
  <2>3. ASSUME NEW i \in 1..Len(r)
        PROVE  SubSeq(list, at + 1, Len(list))[i] = r[i]
    <3>1. SubSeq(list, at + 1, Len(list))[i] = list[at + i]
      BY <1>1, <1>2
    <3>2. list[at + i] = (<<s>> \o r)[i + 1]
      BY <1>1, <1>2
    <3>3. (<<s>> \o r)[i + 1] = r[i]
      OBVIOUS
    <3> QED BY <3>1, <3>2, <3>3
  <2> QED BY <2>1, <2>2, <2>3, SeqEqual
<1>4. CASE s # ".."
  <2>1. Turn([list |-> list, at |-> at]) = [list |-> list, at |-> at + 1]
    <3> HIDE DEF list, at
    <3> QED BY <1>2, <1>4 DEF Turn
  <2>2. list = Append(d, s) \o r
    <3>1. Append(d, s) = d \o <<s>>
      BY <1>1, AppendIsConcat
    <3> QED BY <1>1, <3>1, ConcatAssociative
  <2>3. StepUp(d, s) = Append(d, s) /\ Len(Append(d, s)) = Len(d) + 1
    BY <1>4 DEF StepUp
  <2> QED BY <2>1, <2>2, <2>3 DEF TurnsTo
<1>5. CASE s = ".." /\ d = <<>>
  <2>1. Turn([list |-> list, at |-> at]) = [list |-> r, at |-> 1]
    <3>1. at = 1 /\ list[at] = ".." /\ ~(at > Len(list))
      BY <1>1, <1>2, <1>5
    <3> HIDE DEF list, at
    <3>2. Turn([list |-> list, at |-> at])
            = [list |-> SubSeq(list, at + 1, Len(list)), at |-> 1]
      BY <3>1 DEF Turn
    <3> QED BY <1>3, <3>2
  <2>2. StepUp(d, s) = <<>> /\ <<>> \o r = r
    BY <1>5, ConcatEmptySeq DEF StepUp
  <2> QED BY <2>1, <2>2 DEF TurnsTo
<1>6. CASE s = ".." /\ d # <<>>
  <2>1. Turn([list |-> list, at |-> at]) = [list |-> SubSeq(list, 1, at - 2) \o r, at |-> at - 1]
    <3>1. at # 1 /\ list[at] = ".." /\ ~(at > Len(list))
      BY <1>1, <1>2, <1>6, EmptySeq
    <3> HIDE DEF list, at
    <3>2. Turn([list |-> list, at |-> at])
            = [list |-> SubSeq(list, 1, at - 2) \o SubSeq(list, at + 1, Len(list)),
               at |-> at - 1]
      BY <3>1 DEF Turn
    <3> QED BY <1>3, <3>2
  <2>2. SubSeq(list, 1, at - 2) = Front(d)
    <3>1. /\ Front(d) \in Seq(A) /\ Len(Front(d)) = Len(d) - 1 /\ Len(d) \in Nat \ {0}
          /\ \A i \in 1..(Len(d) - 1) : Front(d)[i] = d[i]
      BY <1>1, <1>6, FrontProperties
    <3>2. SubSeq(list, 1, at - 2) \in Seq(A) /\ Len(SubSeq(list, 1, at - 2)) = Len(d) - 1
      BY <1>1, <1>2, <3>1
    <3>3. ASSUME NEW i \in 1..(Len(d) - 1)
          PROVE  SubSeq(list, 1, at - 2)[i] = Front(d)[i]
      <4>1. SubSeq(list, 1, at - 2)[i] = list[i]
        BY <1>1, <1>2
      <4>2. list[i] = d[i]
        BY <1>1
      <4> QED BY <3>1, <4>1, <4>2
    <3> QED BY <3>1, <3>2, <3>3, SeqEqual
  <2>3. StepUp(d, s) = Front(d) /\ Len(Front(d)) + 1 = at - 1
    BY <1>1, <1>6, FrontProperties DEF StepUp
  <2>4. Turn([list |-> list, at |-> at])
          = [list |-> StepUp(d, s) \o r, at |-> Len(StepUp(d, s)) + 1]
    <3> HIDE DEF list, at
    <3> QED BY <2>1, <2>2, <2>3
  <2> QED BY <2>4 DEF TurnsTo
<1> QED BY <1>4, <1>5, <1>6

\* The loop of CreateFullpath leaves what the walk along its segments leads to.
LEMMA NormalizedUnwinds ==
  ASSUME NEW R, ".." \notin R, NEW paths \in Seq(R \cup {".."}), NEW dir,
         UnwindsTo(paths, dir, R)
  PROVE  Normalized(paths) = dir
<1> DEFINE A == R \cup {".."}
           N == Len(paths)
<1>1. PICK f : IsUnwinding(f, paths, R) /\ dir = f[N]
  BY DEF UnwindsTo
<1>2. PICK loop \in [0..N -> [list: Seq(A), at: Nat \ {0}]] :
        /\ loop[0] = [list |-> paths, at |-> 1]
        /\ \A n \in 1..N : loop[n] = Turn(loop[n - 1])
        /\ Normalized(paths) = loop[N].list
  BY NormalizedUnfold
<1> DEFINE T == {n \in 0..N : loop[n] = [list |-> f[n] \o SubSeq(paths, n + 1, N),
                                         at |-> Len(f[n]) + 1]}
<1>3. N \in Nat /\ f \in [0..N -> Seq(R)] /\ f[0] = <<>>
  BY <1>1 DEF IsUnwinding
<1>4. 0 \in T
  <2>1. SubSeq(paths, 0 + 1, N) = paths /\ <<>> \o paths = paths
    BY SubSeqFull, ConcatEmptySeq
  <2>2. Len(<<>>) + 1 = 1
    OBVIOUS
  <2> QED BY <1>2, <1>3, <2>1, <2>2
<1>5. ASSUME NEW n \in 0..N, n < N, n \in T
      PROVE  n + 1 \in T
  <2> DEFINE s == paths[n + 1]
             r == SubSeq(paths, n + 2, N)
  <2>1. n + 1 \in 1..N /\ (n + 1) - 1 = n /\ s \in A /\ f[n] \in Seq(R)
    <3>1. n + 1 \in 1..N /\ (n + 1) - 1 = n
      BY <1>3, <1>5
    <3>2. s \in A
      BY <3>1, ElementOfSeq
    <3>3. f[n] \in Seq(R)
      BY <1>3
    <3> QED BY <3>1, <3>2, <3>3
  <2>0. r \in Seq(A)
    BY <1>3, <1>5
  <2>2. SubSeq(paths, n + 1, N) = <<s>> \o r
    <3>1. N \in (n + 1)..Len(paths) /\ (n + 1) + 1 = n + 2
      BY <1>3, <2>1
    <3> HIDE DEF N
    <3> QED BY <2>1, <3>1, SubSeqRecursiveFirst DEF N
  <2>3. loop[n + 1] = Turn([list |-> f[n] \o (<<s>> \o r), at |-> Len(f[n]) + 1])
    BY <1>2, <1>5, <2>1, <2>2
  <2>4. f[n + 1] = StepUp(f[n], s)
    BY <1>1, <2>1 DEF IsUnwinding
  <2>5. Turn([list |-> f[n] \o (<<s>> \o r), at |-> Len(f[n]) + 1])
          = [list |-> StepUp(f[n], s) \o r, at |-> Len(StepUp(f[n], s)) + 1]
    <3> DEFINE d == f[n]
    <3>1. d \in Seq(R) /\ s \in R \cup {".."} /\ r \in Seq(R \cup {".."})
      BY <2>0, <2>1
    <3> HIDE DEF s, r, d
    <3>2. TurnsTo(d, s, r)
      BY <3>1, TurnStepsUp
    <3> QED BY <3>2 DEF d, TurnsTo
  <2>6. (n + 1) + 1 = n + 2 /\ n + 1 \in 0..N
    BY <2>1
  <2> QED BY <2>3, <2>4, <2>5, <2>6
<1>6. N \in T
  <2>1. N \in 0..N
    BY <1>3
  <2> HIDE DEF T
  <2> QED BY <1>3, <1>4, <1>5, <2>1, Induction
<1>7. SubSeq(paths, N + 1, N) = <<>> /\ f[N] \o <<>> = f[N]
  <2>1. f[N] \in Seq(R)
    BY <1>3
  <2> QED BY <1>3, <2>1, SubSeqEmpty, ConcatEmptySeq
<1>8. loop[N].list = f[N]
  <2> DEFINE list == f[N] \o SubSeq(paths, N + 1, N)
             at == Len(f[N]) + 1
  <2>1. loop[N] = [list |-> list, at |-> at]
    BY <1>6
  <2>2. list = f[N]
    BY <1>7
  <2> HIDE DEF N, list, at
  <2> QED BY <2>1, <2>2
<1> QED BY <1>1, <1>2, <1>8

\* Names alone are walked as they stand.
LEMMA UnwindsStraight ==
  ASSUME NEW R, ".." \notin R, NEW paths \in Seq(R)
  PROVE  UnwindsTo(paths, paths, R)
<1> DEFINE N == Len(paths)
           f == [n \in 0..N |-> SubSeq(paths, 1, n)]
<1>1. N \in Nat /\ \A n \in 1..N : paths[n] \in R
  OBVIOUS
<1>2. f \in [0..N -> Seq(R)]
  <2>1. ASSUME NEW n \in 0..N
        PROVE  SubSeq(paths, 1, n) \in Seq(R)
    BY <1>1
  <2> QED BY <2>1
<1>3. f[0] = <<>> /\ f[N] = paths
  <2>1. SubSeq(paths, 1, 0) = <<>> /\ SubSeq(paths, 1, N) = paths
    BY SubSeqEmpty, SubSeqFull
  <2> QED BY <1>1, <2>1
<1>4. ASSUME NEW n \in 1..N
      PROVE  f[n] = StepUp(f[n - 1], paths[n])
  <2>1. SubSeq(paths, 1, n) = SubSeq(paths, 1, n - 1) \o <<paths[n]>>
    <3>1. 1 \in 1..Len(paths) /\ n \in 1..Len(paths)
      BY <1>1
    <3> QED BY <3>1, SubSeqRecursiveSecond
  <2>2. SubSeq(paths, 1, n - 1) \in Seq(R) /\ paths[n] \in R
    BY <1>1
  <2>3. SubSeq(paths, 1, n) = Append(SubSeq(paths, 1, n - 1), paths[n])
    BY <2>1, <2>2, AppendIsConcat
  <2>4. f[n] = SubSeq(paths, 1, n) /\ f[n - 1] = SubSeq(paths, 1, n - 1)
    BY <1>1
  <2> QED BY <2>2, <2>3, <2>4 DEF StepUp
<1> HIDE DEF f
<1>5. IsUnwinding(f, paths, R)
  BY <1>2, <1>3, <1>4 DEF IsUnwinding
<1> QED BY <1>3, <1>5 DEF UnwindsTo

-----------------------------------------------------------------------------
(* CreateFullpath.                                                         *)

Start(p) == IF IsRelative(p) THEN cwd ELSE <<>>

\* The result is a full path: no segment is empty, and none is "..".
LEMMA CreateFullpathType ==
  ASSUME cwd \in FullPath, NEW p \in Seq(Segments)
  PROVE  CreateFullpath(p) \in FullPath
<1> DEFINE F == Names \cup {"."}
           A == F \cup {".."}
           list == Pushed(Start(p), p, Dropped(p))
<1>1. Start(p) \in Seq(A)
  <2>1. Start(p) \in Seq(F)
    BY EmptySeq DEF Start, FullPath
  <2> QED BY <2>1, SeqMonotonic
<1>2. ASSUME NEW n \in (1..Len(p)) \ Dropped(p)
      PROVE  p[n] \in A
  <2>1. p[n] \in Segments /\ p[n] # ""
    BY ElementOfSeq DEF Dropped
  <2> QED BY <2>1 DEF Segments
<1>3. list \in Seq(A)
  <2>1. PICK after : IsPushing(after, Start(p), p, Dropped(p), A)
    <3> HIDE DEF A
    <3> QED BY <1>1, <1>2, PushedUnfold
  <2>2. Len(p) \in 0..Len(p)
    OBVIOUS
  <2> QED BY <2>1, <2>2 DEF IsPushing
<1>4. ".." \notin F
  BY NamesAssumption
<1> HIDE DEF F, list
<1>5. PICK dir \in Seq(F) : UnwindsTo(list, dir, F)
  BY <1>3, UnwindsToSomewhere
<1>6. Normalized(list) = dir
  BY <1>3, <1>4, <1>5, NormalizedUnwinds
<1> QED BY <1>5, <1>6 DEF CreateFullpath, Start, FullPath, F, list

\* One segment: dropped, or taken as the walk takes it.
LEMMA WalkIsStepUp ==
  ASSUME NEW dir, NEW s \in Names \cup {".."}
  PROVE  Walk(dir, s) = StepUp(dir, s)
<1>1. CASE s = ".."
  BY <1>1 DEF Walk, StepUp
<1>2. CASE s \in Names
  <2>1. s \notin {"", "."} /\ s # ".."
    BY <1>2, NamesAssumption
  <2>2. Walk(dir, s) = Append(dir, s)
    BY <2>1 DEF Walk
  <2> QED BY <2>1, <2>2 DEF StepUp
<1> QED BY <1>1, <1>2

LEMMA CreateFullpathWalks ==
  ASSUME cwd \in Seq(Names), NEW p \in Seq(Segments), Last(p) # "."
  PROVE  CreateFullpath(p) = Meaning(p)
<1> DEFINE A == Names \cup {".."}
           N == Len(p)
           list == Pushed(Start(p), p, Dropped(p))
<1>1. Start(p) \in Seq(Names) /\ Start(p) \in Seq(A) /\ N \in Nat
  <2>1. Start(p) \in Seq(Names)
    BY EmptySeq DEF Start
  <2> QED BY <2>1, SeqMonotonic
<1>2. ASSUME NEW n \in (1..N) \ Dropped(p)
      PROVE  p[n] \in A
  <2>1. p[n] \in Segments /\ p[n] # "" /\ ~(p[n] = "." /\ n < N)
    BY ElementOfSeq DEF Dropped
  <2>2. n = N => p[n] = Last(p)
    BY DEF Last
  <2>3. n = N \/ n < N
    BY <1>1
  <2> QED BY <2>1, <2>2, <2>3 DEF Segments
<1>3. PICK after : IsPushing(after, Start(p), p, Dropped(p), A)
  <2> HIDE DEF A
  <2> QED BY <1>1, <1>2, PushedUnfold
<1>4. PICK at \in [0..N -> Seq(Names)] :
        /\ at[0] = Start(p)
        /\ \A n \in 1..N : at[n] = Walk(at[n - 1], p[n])
        /\ Walked(Start(p), p) = at[N]
  BY <1>1, WalkedUnfold
<1>5. ".." \notin Names
  BY NamesAssumption
<1> DEFINE T == {n \in 0..N : UnwindsTo(after[n], at[n], Names)}
<1>6. 0 \in T
  <2>1. UnwindsTo(Start(p), Start(p), Names)
    BY <1>1, <1>5, UnwindsStraight
  <2> QED BY <1>1, <1>3, <1>4, <2>1 DEF IsPushing
<1>7. ASSUME NEW n \in 0..N, n < N, n \in T
      PROVE  n + 1 \in T
  <2> DEFINE s == p[n + 1]
  <2>1. n + 1 \in 1..N /\ (n + 1) - 1 = n /\ n + 1 \in 0..N
    BY <1>1, <1>7
  <2>2. after[n] \in Seq(A) /\ UnwindsTo(after[n], at[n], Names)
    BY <1>3, <1>7 DEF IsPushing
  <2>3. at[n + 1] = Walk(at[n], s)
    BY <1>4, <2>1
  <2>4. CASE n + 1 \in Dropped(p)
    <3>1. s \in {"", "."}
      BY <2>4 DEF Dropped
    <3>2. Walk(at[n], s) = at[n]
      BY <3>1 DEF Walk
    <3>3. after[n + 1] = after[n]
      BY <1>3, <2>1, <2>4 DEF IsPushing
    <3> QED BY <2>1, <2>2, <2>3, <3>2, <3>3
  <2>5. CASE n + 1 \notin Dropped(p)
    <3>1. s \in Names \cup {".."}
      BY <1>2, <2>1, <2>5
    <3>2. after[n + 1] = Append(after[n], s)
      BY <1>3, <2>1, <2>5 DEF IsPushing
    <3> HIDE DEF s
    <3>3. Walk(at[n], s) = StepUp(at[n], s)
      BY <3>1, WalkIsStepUp
    <3>4. UnwindsTo(Append(after[n], s), StepUp(at[n], s), Names)
      BY <2>2, <3>1, UnwindsAppend
    <3> QED BY <2>1, <2>3, <3>2, <3>3, <3>4
  <2> QED BY <2>4, <2>5
<1>8. N \in T
  <2>1. N \in 0..N
    BY <1>1
  <2> HIDE DEF T, N
  <2> QED BY <1>1, <1>6, <1>7, <2>1, Induction
<1>9. Normalized(list) = at[N]
  <2>1. list \in Seq(A) /\ UnwindsTo(list, at[N], Names)
    BY <1>1, <1>3, <1>8 DEF IsPushing
  <2> HIDE DEF list
  <2> QED BY <1>5, <2>1, NormalizedUnwinds
<1> QED BY <1>4, <1>9 DEF CreateFullpath, Meaning, Start

\* A name without "." stays as it is.
LEMMA DropDotsStraight ==
  ASSUME NEW full \in Seq(Names)
  PROVE  DropDots(full) = full
<1> DEFINE N == Len(full)
           dropped == {n \in 1..N : full[n] = "."}
<1>1. N \in Nat /\ \A n \in 1..N : full[n] \in Names
  OBVIOUS
<1>2. dropped = {}
  BY <1>1, NamesAssumption
<1>3. PICK after : IsPushing(after, <<>>, full, dropped, Names)
  <2>1. <<>> \in Seq(Names) /\ \A n \in (1..Len(full)) \ dropped : full[n] \in Names
    BY <1>1
  <2> HIDE DEF dropped
  <2> QED BY <2>1, PushedUnfold
<1> DEFINE T == {n \in 0..N : after[n] = SubSeq(full, 1, n)}
<1>4. 0 \in T
  BY <1>1, <1>3, SubSeqEmpty DEF IsPushing
<1>5. ASSUME NEW n \in 0..N, n < N, n \in T
      PROVE  n + 1 \in T
  <2>1. n + 1 \in 1..N /\ (n + 1) - 1 = n /\ n + 1 \in 0..N
    BY <1>1, <1>5
  <2>2. after[n + 1] = Append(SubSeq(full, 1, n), full[n + 1])
    BY <1>2, <1>3, <1>5, <2>1 DEF IsPushing
  <2>3. SubSeq(full, 1, n + 1) = SubSeq(full, 1, n) \o <<full[n + 1]>>
    <3>1. 1 \in 1..Len(full) /\ n + 1 \in 1..Len(full)
      BY <1>1, <2>1
    <3> QED BY <2>1, <3>1, SubSeqRecursiveSecond
  <2>4. SubSeq(full, 1, n) \in Seq(Names) /\ full[n + 1] \in Names
    BY <1>1, <2>1
  <2>5. Append(SubSeq(full, 1, n), full[n + 1]) = SubSeq(full, 1, n) \o <<full[n + 1]>>
    BY <2>4, AppendIsConcat
  <2> QED BY <2>1, <2>2, <2>3, <2>5
<1>6. N \in T
  <2>1. N \in 0..N
    BY <1>1
  <2> HIDE DEF T, N
  <2> QED BY <1>1, <1>4, <1>5, <2>1, Induction
<1> QED BY <1>3, <1>6, SubSeqFull DEF IsPushing, DropDots

-----------------------------------------------------------------------------
(* The theorems.                                                           *)

LEMMA PathsAreSequences ==
  ASSUME NEW p \in Paths
  PROVE  p \in Seq(Segments)
BY DEF Paths

LEMMA WithoutDots ==
  ASSUME NEW full \in FullPath, ~Contains(full, ".")
  PROVE  full \in Seq(Names)
<1>1. Len(full) \in Nat /\ full \in [1..Len(full) -> Names \cup {"."}]
  BY DEF FullPath
<1>2. ASSUME NEW i \in 1..Len(full)
      PROVE  full[i] \in Names
  BY <1>1, <1>2 DEF Contains
<1>3. full \in [1..Len(full) -> Names]
  BY <1>1, <1>2
<1> QED BY <1>1, <1>3

LEMMA EmptyPath == <<"">> \in Paths
<1>1. <<"">> \in Seq(Segments) /\ Len(<<"">>) = 1
  BY DEF Segments
<1>2. <<"">> \in [1..1 -> Segments]
  BY <1>1, LenProperties
<1>3. 1 \in 1..MaxSegments
  BY BoundsAssumption
<1> QED BY <1>2, <1>3 DEF Paths

LEMMA TypeInit == Init => TypeOK
<1> SUFFICES ASSUME Init PROVE TypeOK
  OBVIOUS
<1>1. <<>> \in FullPath
  BY DEF FullPath
<1>2. path \in [Threads -> Paths]
  BY EmptyPath DEF Init
<1> QED BY <1>1, <1>2 DEF Init, TypeOK

\* The call of t returns: its frame is as before the call.
LEMMA ReturnType ==
  ASSUME TypeOK, NEW t \in Threads, Return(t)
  PROVE  /\ pc' \in [Threads -> {"idle", "stat", "commit", "mkdir"}]
         /\ path' \in [Threads -> Paths]
         /\ target' \in [Threads -> FullPath]
<1>1. <<"">> \in Paths
  BY EmptyPath
<1>2. <<>> \in FullPath
  BY DEF FullPath
<1> QED BY <1>1, <1>2 DEF Return, TypeOK

LEMMA TypeStep == TypeOK /\ [Next]_vars => TypeOK'
<1> SUFFICES ASSUME TypeOK, [Next]_vars
             PROVE  TypeOK'
  OBVIOUS
<1>0. ASSUME NEW p \in Paths
      PROVE  CreateFullpath(p) \in FullPath
  BY PathsAreSequences, CreateFullpathType DEF TypeOK
<1>1. ASSUME NEW t \in Threads, NEW p \in Paths, ChDir(t, p) \/ MkDir(t, p)
      PROVE  TypeOK'
  BY <1>0, <1>1 DEF ChDir, MkDir, TypeOK
<1>2. ASSUME NEW t \in Threads, StatReturns(t)
      PROVE  TypeOK'
  <2>1. CASE Return(t)
    BY <1>2, <2>1, ReturnType DEF StatReturns, TypeOK
  <2>2. CASE pc' = [pc EXCEPT ![t] = "commit"] /\ UNCHANGED <<path, target>>
    BY <1>2, <2>2 DEF StatReturns, TypeOK
  <2> QED BY <1>2, <2>1, <2>2 DEF StatReturns
<1>3. ASSUME NEW t \in Threads, Commit(t)
      PROVE  TypeOK'
  <2>1. CreateFullpath(path[t]) \in FullPath
    BY <1>0 DEF TypeOK
  <2> QED BY <1>3, <2>1, ReturnType DEF Commit, TypeOK
<1>4. ASSUME NEW t \in Threads, MkDirReturns(t)
      PROVE  TypeOK'
  <2>1. dirs' \subseteq FullPath
    BY <1>4 DEF MkDirReturns, TypeOK
  <2> QED BY <1>4, <2>1, ReturnType DEF MkDirReturns, TypeOK
<1>5. CASE UNCHANGED vars
  BY <1>5 DEF vars, TypeOK
<1> QED BY <1>1, <1>2, <1>3, <1>4, <1>5 DEF Next

\* Every segment that reaches cwd_ or a delegate is a name, save a "." kept at an
\* end; no "" and no ".." is left, whatever the threads do.
THEOREM TypeCorrect == Spec => []TypeOK
BY TypeInit, TypeStep, PTL DEF Spec

\* CreateFullpath computes the walk that its argument describes, for paths of any
\* length on any cwd_ that holds no ".".
THEOREM PathsResolve == Spec => []ResolvesAsWalk
<1>1. TypeOK => ResolvesAsWalk
  <2> SUFFICES ASSUME TypeOK, ~Contains(cwd, "."), NEW p \in Paths, Last(p) # "."
               PROVE  CreateFullpath(p) = Meaning(p)
    BY DEF ResolvesAsWalk
  <2>1. cwd \in Seq(Names)
    BY WithoutDots DEF TypeOK
  <2> QED BY <2>1, PathsAreSequences, CreateFullpathWalks
<1> QED BY <1>1, TypeCorrect, PTL

-----------------------------------------------------------------------------
(* With a single thread, the path of a ChDir resolves the second time to   *)
(* what Stat has looked up.                                                *)

LookedUp(t) ==
  /\ pc[t] \in {"stat", "commit"} => target[t] = CreateFullpath(path[t])
  /\ pc[t] = "commit" => DropDots(target[t]) \in dirs

CwdInv ==
  /\ TypeOK
  /\ dirs \subseteq Seq(Names)
  /\ CwdIsDirectory
  /\ \A t \in Threads : LookedUp(t)

LEMMA CwdInit == Init => CwdInv
<1> SUFFICES ASSUME Init PROVE CwdInv
  OBVIOUS
<1>1. <<>> \in Seq(Names)
  OBVIOUS
<1>2. DropDots(<<>>) = <<>>
  BY <1>1, DropDotsStraight
<1> QED BY <1>1, <1>2, TypeInit DEF Init, CwdInv, CwdIsDirectory, LookedUp

LEMMA CwdStep ==
  ASSUME NEW one, Threads = {one}
  PROVE  CwdInv /\ [Next]_vars => CwdInv'
<1> SUFFICES ASSUME CwdInv, [Next]_vars
             PROVE  CwdInv'
  OBVIOUS
<1>0. TypeOK /\ TypeOK'
  BY TypeStep DEF CwdInv
<1>1. ASSUME NEW t \in Threads, NEW p \in Paths, ChDir(t, p) \/ MkDir(t, p)
      PROVE  CwdInv'
  <2>1. pc'[t] \in {"stat", "mkdir"} /\ path'[t] = p /\ target'[t] = CreateFullpath(p)
    BY <1>0, <1>1 DEF ChDir, MkDir, TypeOK
  <2>2. cwd' = cwd /\ dirs' = dirs
    BY <1>1 DEF ChDir, MkDir
  <2>3. LookedUp(t)'
    BY <2>1, <2>2 DEF LookedUp, CreateFullpath
  <2> QED BY <1>0, <2>2, <2>3 DEF CwdInv, CwdIsDirectory
<1>2. ASSUME NEW t \in Threads, StatReturns(t)
      PROVE  CwdInv'
  <2>1. cwd' = cwd /\ dirs' = dirs /\ pc[t] = "stat"
    BY <1>2 DEF StatReturns
  <2>2. LookedUp(t)'
    <3>1. CASE Return(t)
      BY <1>0, <3>1 DEF Return, LookedUp, TypeOK
    <3>2. CASE /\ TRUE \in BrowserKnows(target[t])
               /\ pc' = [pc EXCEPT ![t] = "commit"]
               /\ UNCHANGED <<path, target>>
      <4>1. target[t] \in dirs => DropDots(target[t]) = target[t]
        BY DropDotsStraight DEF CwdInv
      <4>2. DropDots(target[t]) \in dirs
        BY <3>2, <4>1 DEF BrowserKnows
      <4>3. target[t] = CreateFullpath(path[t])
        BY <2>1 DEF CwdInv, LookedUp
      <4> QED BY <2>1, <3>2, <4>2, <4>3 DEF LookedUp, CreateFullpath
    <3> QED BY <1>2, <3>1, <3>2 DEF StatReturns
  <2> QED BY <1>0, <2>1, <2>2 DEF CwdInv, CwdIsDirectory
<1>3. ASSUME NEW t \in Threads, Commit(t)
      PROVE  CwdInv'
  <2>1. cwd' = target[t] /\ dirs' = dirs /\ DropDots(target[t]) \in dirs
    BY <1>3 DEF Commit, CwdInv, LookedUp
  <2>2. LookedUp(t)'
    BY <1>0, <1>3 DEF Commit, Return, LookedUp, TypeOK
  <2> QED BY <1>0, <2>1, <2>2 DEF CwdInv, CwdIsDirectory
<1>4. ASSUME NEW t \in Threads, MkDirReturns(t)
      PROVE  CwdInv'
  <2>1. cwd' = cwd /\ dirs \subseteq dirs'
    BY <1>4 DEF MkDirReturns
  <2>2. dirs' \subseteq Seq(Names)
    <3>1. target[t] \in FullPath
      BY <1>0 DEF TypeOK
    <3>2. ~Contains(target[t], ".") => target[t] \in Seq(Names)
      BY <3>1, WithoutDots
    <3> QED BY <1>4, <3>2 DEF MkDirReturns, CwdInv
  <2>3. LookedUp(t)'
    BY <1>0, <1>4 DEF MkDirReturns, Return, LookedUp, TypeOK
  <2> QED BY <1>0, <2>1, <2>2, <2>3 DEF CwdInv, CwdIsDirectory
<1>5. CASE UNCHANGED vars
  BY <1>0, <1>5 DEF vars, CwdInv, CwdIsDirectory, LookedUp, CreateFullpath
<1> QED BY <1>1, <1>2, <1>3, <1>4, <1>5 DEF Next

\* With one application thread cwd_ always names a directory: nothing changes
\* between the Stat of ChDir and the assignment.
THEOREM CwdNamesDirectory ==
  ASSUME NEW one, Threads = {one}
  PROVE  Spec => []CwdIsDirectory
<1>1. CwdInv /\ [Next]_vars => CwdInv'
  BY CwdStep
<1>2. CwdInv => CwdIsDirectory
  BY DEF CwdInv
<1> QED BY CwdInit, <1>1, <1>2, PTL DEF Spec
=============================================================================
