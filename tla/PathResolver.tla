---------------------------- MODULE PathResolver ----------------------------
(***************************************************************************)
(* Path names: FileSystem::CreateFullpath, and ChDir, Stat and MkDir, whose *)
(* browser requests leave time between reading cwd_ and assigning it.      *)
(*                                                                         *)
(* A path is the sequence of what its slashes separate, so "/a//b/." is    *)
(* <<"", "a", "", "b", ".">> and the empty string is <<"">>; joining and   *)
(* splitting at '/' are inverse on such sequences.  A full path or cwd_ is *)
(* the sequence of its segments without the leading "", the root <<>>.     *)
(***************************************************************************)
EXTENDS Integers, Sequences, SequencesExt

CONSTANTS
  Threads,      \* application threads
  Names,        \* ordinary names
  MaxSegments,  \* bound: segments of a path handed in
  MaxDepth      \* bound: segments of a full path to ask the browser about

ASSUME BoundsAssumption == MaxSegments \in Nat \ {0} /\ MaxDepth \in Nat
ASSUME NamesAssumption == Names \cap {"", ".", ".."} = {}

Segments == Names \cup {"", ".", ".."}

Paths == UNION {[1..n -> Segments] : n \in 1..MaxSegments}

VARIABLES
  cwd,     \* FileSystem::cwd_
  dirs,    \* directories that exist in the browser's file system
  pc,      \* what each thread waits for
  path,    \* the argument of its call (unless idle)
  target   \* the full path it handed to the delegate (unless idle)

vars == <<cwd, dirs, pc, path, target>>

-----------------------------------------------------------------------------

\* *path != '/' (the empty string is relative).
IsRelative(p) == ~(Len(p) > 1 /\ p[1] = "")

\* A slip: an empty last segment is kept, as if no slash ended the path.
DroppedKeepsLast(p) == {n \in 1..Len(p) : n < Len(p) /\ p[n] \in {"", "."}}

\* "Trim '' and '.'": done for the segments that a slash follows; the last
\* one is taken as it is, unless it is empty.
Dropped(p) == {n \in 1..Len(p) : p[n] = "" \/ (p[n] = "." /\ n < Len(p))}

\* push_back of the segments of p that are not dropped.
Pushed(list, p, dropped) ==
  LET after[n \in 0..Len(p)] ==
        IF n = 0 THEN list
        ELSE IF n \in dropped THEN after[n - 1]
        ELSE Append(after[n - 1], p[n])
  IN  after[Len(p)]

\* One turn of the loop over `paths', whose iterator is at `at': a ".." is
\* erased, and with it its predecessor if it has one; erase(iter--) leaves the
\* iterator before it, and the turn ends with ++iter.
Turn(loop) ==
  LET list == loop.list
      at   == loop.at
      rest == SubSeq(list, at + 1, Len(list))
  IN  IF at > Len(list) THEN loop
      ELSE IF list[at] # ".." THEN [loop EXCEPT !.at = at + 1]
      ELSE IF at = 1 THEN [list |-> rest, at |-> 1]
      ELSE [list |-> SubSeq(list, 1, at - 2) \o rest, at |-> at - 1]

\* Each turn passes one of the segments there were, so there are Len(paths).
Normalized(paths) ==
  LET loop[n \in 0..Len(paths)] ==
        IF n = 0 THEN [list |-> paths, at |-> 1] ELSE Turn(loop[n - 1])
  IN  loop[Len(paths)].list

CreateFullpath(p) ==
  Normalized(Pushed(IF IsRelative(p) THEN cwd ELSE <<>>, p, Dropped(p)))

-----------------------------------------------------------------------------

DropDots(full) == Pushed(<<>>, full, {n \in 1..Len(full) : full[n] = "."})

\* External: whether the browser knows a directory of this name.  It may or
\* may not take a "." segment for the directory itself.
BrowserKnows(full) == {(full \in dirs), (DropDots(full) \in dirs)}

Init ==
  /\ cwd = <<>>
  /\ dirs = {<<>>}
  /\ pc = [t \in Threads |-> "idle"]
  /\ path = [t \in Threads |-> <<"">>]
  /\ target = [t \in Threads |-> <<>>]

\* The call of t returns.
Return(t) ==
  /\ pc' = [pc EXCEPT ![t] = "idle"]
  /\ path' = [path EXCEPT ![t] = <<"">>]
  /\ target' = [target EXCEPT ![t] = <<>>]

\* ChDir calls Stat, which resolves the path and asks the browser.
ChDir(t, p) ==
  /\ pc[t] = "idle"
  /\ Len(CreateFullpath(p)) <= MaxDepth
  /\ path' = [path EXCEPT ![t] = p]
  /\ target' = [target EXCEPT ![t] = CreateFullpath(p)]
  /\ pc' = [pc EXCEPT ![t] = "stat"]
  /\ UNCHANGED <<cwd, dirs>>

\* A slip: the result of Stat is not looked at.
StatIgnored(t) ==
  /\ pc[t] = "stat"
  /\ pc' = [pc EXCEPT ![t] = "commit"]
  /\ UNCHANGED <<cwd, dirs, path, target>>

\* Stat has failed or found no directory: ChDir returns; or it goes on.
StatReturns(t) ==
  /\ pc[t] = "stat"
  /\ \/ /\ FALSE \in BrowserKnows(target[t])
        /\ Return(t)
     \/ /\ TRUE \in BrowserKnows(target[t])
        /\ pc' = [pc EXCEPT ![t] = "commit"]
        /\ UNCHANGED <<path, target>>
  /\ UNCHANGED <<cwd, dirs>>

\* The path is resolved again, against cwd_ as it is now.
Commit(t) ==
  /\ pc[t] = "commit"
  /\ cwd' = CreateFullpath(path[t])
  /\ Return(t)
  /\ UNCHANGED dirs

MkDir(t, p) ==
  /\ pc[t] = "idle"
  /\ Len(CreateFullpath(p)) <= MaxDepth
  /\ path' = [path EXCEPT ![t] = p]
  /\ target' = [target EXCEPT ![t] = CreateFullpath(p)]
  /\ pc' = [pc EXCEPT ![t] = "mkdir"]
  /\ UNCHANGED <<cwd, dirs>>

\* The browser makes the directory if its parent exists; it never makes "."
MkDirReturns(t) ==
  /\ pc[t] = "mkdir"
  /\ LET full == target[t]
     IN  dirs' = IF full # <<>> /\ ~Contains(full, ".") /\ Front(full) \in dirs
                 THEN dirs \cup {full} ELSE dirs
  /\ Return(t)
  /\ UNCHANGED cwd

Next ==
  \E t \in Threads :
    \/ \E p \in Paths : ChDir(t, p) \/ MkDir(t, p)
    \/ StatReturns(t) \/ Commit(t) \/ MkDirReturns(t)

Spec == Init /\ [][Next]_vars

-----------------------------------------------------------------------------
(* Properties.                                                             *)

FullPath == Seq(Names \cup {"."})

TypeOK ==
  /\ cwd \in FullPath
  /\ dirs \subseteq FullPath
  /\ pc \in [Threads -> {"idle", "stat", "commit", "mkdir"}]
  /\ path \in [Threads -> Paths]
  /\ target \in [Threads -> FullPath]

\* What a path means: a walk from the root or cwd, one segment at a time.
Walk(dir, s) ==
  CASE s \in {"", "."} -> dir
    [] s = ".."        -> IF dir = <<>> THEN <<>> ELSE Front(dir)
    [] OTHER           -> Append(dir, s)

Walked(dir, p) ==
  LET at[n \in 0..Len(p)] == IF n = 0 THEN dir ELSE Walk(at[n - 1], p[n])
  IN  at[Len(p)]

Meaning(p) == Walked(IF IsRelative(p) THEN cwd ELSE <<>>, p)

\* The erase-while-iterating loop of CreateFullpath computes the meaning of
\* every path, the parent of the root being the root, save where a "." that
\* ends a path is kept.
ResolvesAsWalk ==
  (\A t \in Threads : pc[t] = "idle") /\ ~Contains(cwd, ".") =>
    \A p \in Paths : Last(p) # "." => CreateFullpath(p) = Meaning(p)

\* cwd_ names a directory: Stat has checked the path ChDir assigns.  ChDir
\* resolves it a second time, so this needs a single application thread.
CwdIsDirectory == DropDots(cwd) \in dirs

\* "Trim '' and '.'", says CreateFullpath: no such segment reaches a delegate.
DotsTrimmed ==
  \A t \in Threads : ~Contains(target[t], "") /\ ~Contains(target[t], ".")
=============================================================================
