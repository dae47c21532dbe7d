----------------------------- MODULE MCGateway -----------------------------
(* The pipeline for TLC: each decision of a policy short of DENY, which     *)
(* nothing relaxes, with scores on both sides of the thresholds.            *)
EXTENDS Gateway, TLC

CONSTANTS w1, w2, o1, c1, c2

TwoWorkers == {w1, w2}
OneOperator == {o1}
OneCall == {c1}
TwoCalls == {c1, c2}
NoFault == {}
AllFaults == {"db", "crash"}

Finding(policy, det, tainted) == [policy |-> policy, det |-> det, tainted |-> tainted]

MCFindings ==
  {Finding("ALLOW", 0, FALSE), Finding("WARN", 0, FALSE), Finding("WARN", 50, TRUE),
   Finding("REQUIRE_APPROVAL", 85, FALSE), Finding("SANDBOX", 0, FALSE)}

\* What can be forwarded with and without an operator.
FewFindings == {Finding("ALLOW", 0, FALSE), Finding("REQUIRE_APPROVAL", 0, FALSE)}

MCAiRisks == {60, 85}

MCSymmetry == Permutations(TwoWorkers) \cup Permutations(TwoCalls)
=============================================================================
