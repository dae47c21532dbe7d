------------------------------ MODULE Protocol ------------------------------
(***************************************************************************)
(* crates/aegis-protocol as functions: what parse_message makes of a line, *)
(* and what HttpTransport::send makes of the response of an HTTP server.   *)
(* A body is a sequence of line ends ("LF", "CRLF") and the contents of    *)
(* lines; of the latter the names say all that matters here:               *)
(*   "json"     JSON text                                                  *)
(*   "quoting"  JSON text in which "data:" or "text/event-stream" occurs   *)
(*   "frame"    data: and a JSON object      "batch"  data: and JSON of    *)
(*              another kind, as an array of messages                      *)
(*   "ping"     data: and text that is no JSON                             *)
(*   "event"    event: and a name            "comment"  begins with :      *)
(* What is taken out of a body, a message, is the set of the places it has *)
(* there, without its line ends; none is the empty set.                    *)
(***************************************************************************)
EXTENDS Integers, Sequences, FiniteSets

LineEnds == {"LF", "CRLF"}
JsonLines == {"json", "quoting"}
DataLines == {"frame", "batch", "ping"}
StreamLines == DataLines \cup {"event", "comment"}

-----------------------------------------------------------------------------
(* Lines of the client *)

\* parse_message, and what handle_line does about it.  A call without a name is
\* none.
Parsed(line, maxBytes) ==
  IF \/ line.size > maxBytes
     \/ ~line.json
     \/ line.id \notin {"none", "scalar"}
     \/ ~line.version
  THEN "error"
  ELSE IF line.method = "tools/call" /\ line.named THEN "call" ELSE "other"

-----------------------------------------------------------------------------
(* Server-sent events *)

Normalized(text) == [i \in DOMAIN text |-> IF text[i] = "CRLF" THEN "LF" ELSE text[i]]

\* Line ends directly before position i.
EndsBefore(text, i) ==
  Cardinality({j \in 1..(i - 1) : \A k \in j..(i - 1) : text[k] = "LF"})

\* Where split("\n\n") finds its separator.
Cuts(text) ==
  {i \in 1..(Len(text) - 1) : /\ text[i] = "LF"
                              /\ text[i + 1] = "LF"
                              /\ EndsBefore(text, i) % 2 = 0}

\* Faulty variant of Complete: the block at the end counts without its blank line.
CompleteAtEnd(text) == DOMAIN text

\* The places in a block that is kept: one with a separator after it, or the last
\* one, if the text ends with an empty line.
Complete(text) ==
  {i \in DOMAIN text : \/ \E c \in Cuts(text) : i < c
                       \/ /\ Len(text) > 1
                          /\ text[Len(text)] = "LF"
                          /\ text[Len(text) - 1] = "LF"}

\* The data lines that no mark divides from the one at i.
Event(text, marks, i) ==
  {j \in DOMAIN text : /\ text[j] \in DataLines
                       /\ \A c \in marks : ~(i < c /\ c < j) /\ ~(j < c /\ c < i)}

\* Complete events whose data begins as one of the words says, by their first line.
Starting(words, text, marks, complete) ==
  {i \in complete : /\ text[i] \in words
                    /\ \A j \in Event(text, marks, i) : i <= j}

\* The first of these events, or none.
FirstEvent(words, text, marks, complete) ==
  LET starts == Starting(words, text, marks, complete)
  IN  IF starts = {} THEN {}
      ELSE Event(text, marks, CHOOSE i \in starts : \A j \in starts : i <= j)

\* sse_jsonrpc_frames, as far as send uses it: data that begins with a brace.
FirstFrame(body) ==
  LET text == Normalized(body)
  IN  FirstEvent({"frame"}, text, Cuts(text), Complete(text))

\* The reference: an empty line dispatches the data lines gathered since the last.
EmptyLines(body) ==
  {i \in DOMAIN body : /\ body[i] \in LineEnds
                       /\ i > 1 => body[i - 1] \in LineEnds}
Dispatched(body) == {i \in DOMAIN body : \E e \in EmptyLines(body) : i < e}

-----------------------------------------------------------------------------
(* Responses *)

\* Positions at which the body itself holds what divides headers from body.
Divisions(body) == {i \in 1..(Len(body) - 1) : body[i] = "CRLF" /\ body[i + 1] = "CRLF"}

\* http_post_raw: what stands between the first and the second empty line.
Payload(body) ==
  IF Divisions(body) = {} THEN body
  ELSE SubSeq(body, 1, (CHOOSE i \in Divisions(body) : \A j \in Divisions(body) : i <= j) - 1)

Says(body, words) == \E i \in DOMAIN body : body[i] \in words

\* Where the text of a JSON message stands.
Json(body) == {i \in DOMAIN body : body[i] \notin LineEnds}

\* send, for a 2xx status: the message for the client, or none.  It sees the body
\* alone, and takes one that contains "data:" or "text/event-stream" for a stream.
Unwrapped(body) ==
  LET payload == Payload(body)
  IN  IF Says(payload, DataLines \cup {"quoting"})
      THEN FirstFrame(payload) ELSE Json(payload)

-----------------------------------------------------------------------------
(***************************************************************************)
(* What a client is due of a response [stream : BOOLEAN, body], where the  *)
(* server has said in a header whether the body is an event stream, and    *)
(* the four ways in which send makes something else of it.                 *)
(***************************************************************************)

\* The first message of a stream, or the text.
Due(response) ==
  LET body == response.body
  IN  IF response.stream
      THEN FirstEvent({"frame", "batch"}, body, EmptyLines(body), Dispatched(body))
      ELSE Json(body)

\* What is due stands, in part, behind the first empty line between CRLFs.
Lost(response) == Due([response EXCEPT !.body = Payload(response.body)]) # Due(response)

\* A JSON text is searched for events, because of what it quotes.
Quoted(response) == ~response.stream /\ Says(Payload(response.body), {"quoting"})

\* A stream without data is handed on as if it were a text.
Invented(response) ==
  /\ response.stream
  /\ ~Says(Payload(response.body), DataLines)
  /\ Json(Payload(response.body)) # {}

\* The message due is JSON, but no object.
Batched(response) ==
  /\ response.stream
  /\ \E i \in Due(response) : /\ response.body[i] = "batch"
                             /\ \A j \in Due(response) : i <= j

Misread(response) == Unwrapped(response.body) # Due(response)

\* A stream that ends all its lines with CRLF.
Crlf(response) == response.stream /\ ~Says(response.body, {"LF"})

\* Bodies of at most n pieces in which each line has one content at most.
Bodies(words, n) ==
  {body \in UNION {[1..k -> LineEnds \cup words] : k \in 0..n} :
     \A i \in 1..(Len(body) - 1) : body[i] \in LineEnds \/ body[i + 1] \in LineEnds}

Responses(n) ==
  [stream : {TRUE}, body : Bodies(StreamLines, n)]
    \cup [stream : {FALSE}, body : Bodies(JsonLines, n)]
=============================================================================
