---------------------------- MODULE MCAuditChain ----------------------------
(* AuditChain for TLC: writers and column values are model values. *)
EXTENDS AuditChain, TLC

CONSTANTS w1, w2, w3, b1, n1

TwoWriters == {w1, w2}
ThreeWriters == {w1, w2, w3}
OneBody == {b1}
OneNote == {n1}
=============================================================================
