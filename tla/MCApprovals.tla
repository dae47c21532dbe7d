---------------------------- MODULE MCApprovals ----------------------------
(* The approval queue by itself: no fault, so that duplicates and the gaps  *)
(* of the audit trail are about interleaving alone.                         *)
EXTENDS Approvals, TLC

CONSTANTS w1, w2, o1, o2, c1, c2

MCWorkers == {w1, w2}
MCOperators == {o1, o2}
MCCalls == {c1, c2}
MCNoFault == {}

MCSymmetry == Permutations(MCWorkers) \cup Permutations(MCOperators) \cup Permutations(MCCalls)
=============================================================================
