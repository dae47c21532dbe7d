----------------------------- MODULE MCExchange -----------------------------
(* The proxy loops for TLC: a call, a line that is no JSON, blank lines.    *)
EXTENDS Exchange

Shape(json, method) ==
  [size |-> 1, json |-> json, id |-> "scalar", version |-> json, method |-> method,
   named |-> TRUE]

MCShapes == {Shape(TRUE, "tools/call"), Shape(FALSE, "none")}

\* A message after a heartbeat, a comment alone, a message in a stream with CRLF, and no
\* body.
MCBodies ==
  {<<"ping", "LF", "LF", "frame", "LF", "LF">>, <<"comment", "LF", "LF">>,
   <<"frame", "CRLF", "CRLF">>, <<>>}
=============================================================================
