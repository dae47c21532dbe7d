-------------------------- MODULE MCAuditIntegrity --------------------------
(* AuditIntegrity for TLC: writers and column values are model values. *)
EXTENDS AuditIntegrity, TLC

CONSTANTS w1, w2, b1, b2, n1, n2

OneWriter == {w1}
TwoWriters == {w1, w2}
TwoBodies == {b1, b2}
TwoNotes == {n1, n2}
=============================================================================
