---------------------------- MODULE MCIncidents ----------------------------
(* Incidents for TLC: calls that are evidence alone, calls that make        *)
(* evidence critical together with others, and calls that are none.         *)
EXTENDS Incidents, TLC

CONSTANTS w1, w2

TwoWorkers == {w1, w2}

Case(injected, tainted, egress, grave) ==
  [injected |-> injected, tainted |-> tainted, egress |-> egress, grave |-> grave]

Exposed  == Case(TRUE, TRUE, FALSE, TRUE)
AIFetch  == Case(FALSE, FALSE, TRUE, TRUE)
Harmless == Case(FALSE, FALSE, FALSE, FALSE)

\* Both severities, by one call alone or only by two calls together; or nothing.
SomeCases == {Exposed, AIFetch, Harmless}

AnyFault == {"append", "list", "insert"}

WorkerSymmetry == Permutations(Workers)
=============================================================================
