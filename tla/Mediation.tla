----------------------------- MODULE Mediation -----------------------------
(***************************************************************************)
(* What the proxy promises about the lines of a client: each is judged     *)
(* once, in order; the server gets only lines that were passed, in order   *)
(* and once; and a line is answered at most once, by the proxy if it was   *)
(* refused, and on account of the server if it was passed.                 *)
(***************************************************************************)
EXTENDS Integers, Sequences

Verdicts == {"skipped", "refused", "passed"}

VARIABLES
  judged,    \* the verdicts on lines 1, 2, ...
  reached,   \* lines the server got, in its order
  answered   \* lines with an answer

Reached == {reached[i] : i \in DOMAIN reached}

Init == judged = <<>> /\ reached = <<>> /\ answered = {}

Judge(verdict) ==
  /\ judged' = Append(judged, verdict)
  /\ UNCHANGED <<reached, answered>>

Reach(line) ==
  /\ judged[line] = "passed"
  /\ \A other \in Reached : other < line
  /\ reached' = Append(reached, line)
  /\ UNCHANGED <<judged, answered>>

Answer(line) ==
  /\ judged[line] \in {"refused", "passed"}
  /\ line \notin answered
  /\ answered' = answered \cup {line}
  /\ UNCHANGED <<judged, reached>>

Next ==
  \/ \E verdict \in Verdicts : Judge(verdict)
  \/ \E line \in DOMAIN judged : Reach(line) \/ Answer(line)

Spec == Init /\ [][Next]_<<judged, reached, answered>>
=============================================================================
