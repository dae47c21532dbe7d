----------------------------- MODULE MCSandbox -----------------------------
(* The sandbox for TLC: characters of one and of two bytes.                *)
EXTENDS Sandbox

MCWidths == {1, 2}
=============================================================================
