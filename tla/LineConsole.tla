---------------------------- MODULE LineConsole ----------------------------
(***************************************************************************)
(* What standard output and standard error promise: the page shows the     *)
(* lines of what has been sent to it for a port, each once and in order.   *)
(***************************************************************************)
EXTENDS Integers, Sequences

CONSTANTS
  Ports,    \* stdout and stderr
  Letters,  \* characters other than the newline
  Newline,  \* not one of Letters
  Chunks    \* what one message may hold

VARIABLES
  accepted,  \* the characters sent for each port
  printed    \* the lines the page has shown of each port

\* One more character: it ends a line or continues it.
Take(parts, c) ==
  IF c = Newline THEN [lines |-> Append(parts.lines, parts.rest), rest |-> <<>>]
  ELSE [parts EXCEPT !.rest = Append(@, c)]

\* String.split('\n'): the complete lines, and what follows the last newline.
Split(s) ==
  LET parts[n \in 0..Len(s)] ==
        IF n = 0 THEN [lines |-> <<>>, rest |-> <<>>] ELSE Take(parts[n - 1], s[n])
  IN  parts[Len(s)]

Init ==
  /\ accepted = [p \in Ports |-> <<>>]
  /\ printed = [p \in Ports |-> <<>>]

Accept(p, c) ==
  /\ accepted' = [accepted EXCEPT ![p] = @ \o c]
  /\ UNCHANGED printed

\* The next lines of one port are shown.
Show(p) ==
  LET lines == Split(accepted[p]).lines
  IN  /\ \E last \in Len(printed[p]) + 1 .. Len(lines) :
           printed' = [printed EXCEPT ![p] = SubSeq(lines, 1, last)]
      /\ UNCHANGED accepted

Next ==
  \E p \in Ports : Show(p) \/ \E c \in Chunks : Accept(p, c)

Spec == Init /\ [][Next]_<<accepted, printed>>
=============================================================================
