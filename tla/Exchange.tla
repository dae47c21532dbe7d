------------------------------ MODULE Exchange ------------------------------
(***************************************************************************)
(* The proxy command: run_proxy, between a client and a child process over *)
(* pipes, and run_proxy_http, between a client and an HTTP server.  Pipes  *)
(* are bounded; each is what has been written to it (a sequence that only  *)
(* grows) and how much of that has been read.  handle_line is one step     *)
(* here, with either outcome; module Gateway has its inside.               *)
(***************************************************************************)
EXTENDS Protocol

CONSTANTS
  Shapes,      \* lines a client may write: records that Parsed takes, or Blank
  Blank,       \* a line of white space
  Binary,      \* a line that is not UTF-8
  MaxBytes,    \* limits.max_request_bytes
  Bodies2xx,   \* bodies an HTTP server may answer with
  Room,        \* messages a pipe holds
  MaxPieces,   \* bound: pieces of the bodies that MisreadAsNamed ranges over
  MaxLines,    \* bound: lines the client writes
  MaxNotes     \* bound: messages the server sends unasked

ASSUME ExchangeAssumption ==
  /\ Room \in Nat \ {0}
  /\ MaxLines \in Nat
  /\ MaxNotes \in Nat
  /\ MaxPieces \in Nat

Written == Shapes \cup {Blank, Binary}

VARIABLES
  upstream,    \* "stdio" or "http", from the command line
  client,      \* "writing", "closed" (still reads) or "gone"
  lines,       \* what the client has written
  taken,       \* how many of its lines the loop has read: the last is in hand
  loop,        \* what the loop is about to do
  cleared,     \* lines handle_line has let pass
  forwarded,   \* lines that went into the server's input
  server,      \* "up", "deaf" (a child that has closed its input) or "gone"
  read,        \* how many of the forwarded lines a child has read
  busy,        \* the line it works on, or 0
  served,      \* what it has written: the line it answers, or 0 if unasked
  speech,      \* "text", or "binary" once the forwarder will end at what it has written
  relayed,     \* how much of that the forwarder has taken
  output,      \* what the client was given: [line, by], the line 0 if unasked
  seen,        \* how much of that the client has read
  unanswered   \* lines that get no answer: the server's choice, or send found none

clientVars == <<client, lines, seen>>
loopVars == <<taken, loop, cleared>>
serverVars == <<server, read, busy, served, speech>>
vars == <<upstream, clientVars, loopVars, forwarded, serverVars, relayed, output, unanswered>>

Message(line, by) == [line |-> line, by |-> by]

\* write_all and flush on our standard output: waits while the pipe is full.
CanWrite == client # "gone" /\ Len(output) - seen < Room
Give(message) == CanWrite /\ output' = Append(output, message)

-----------------------------------------------------------------------------
(* The client *)

ClientWrites(shape) ==
  /\ client = "writing"
  /\ Len(lines) < MaxLines
  /\ Len(lines) - taken < Room
  /\ lines' = Append(lines, shape)
  /\ UNCHANGED <<upstream, client, seen, loopVars, forwarded, serverVars, relayed,
                 output, unanswered>>

ClientReads ==
  /\ client # "gone"
  /\ seen < Len(output)
  /\ seen' = seen + 1
  /\ UNCHANGED <<upstream, client, lines, loopVars, forwarded, serverVars, relayed,
                 output, unanswered>>

\* The client ends its input, or ends itself.
ClientLeaves(how) ==
  /\ client # "gone"
  /\ client # how
  /\ client' = how
  /\ UNCHANGED <<upstream, lines, seen, loopVars, forwarded, serverVars, relayed,
                 output, unanswered>>

-----------------------------------------------------------------------------
(* The loop from client to server *)

Goes(from, to) == loop = from /\ loop' = to

Take ==
  /\ taken < Len(lines)
  /\ lines[taken + 1] # Binary
  /\ Goes("read", IF lines[taken + 1] = Blank THEN "read" ELSE "inspect")
  /\ taken' = taken + 1
  /\ UNCHANGED <<upstream, clientVars, cleared, forwarded, serverVars, relayed,
                 output, unanswered>>

\* The end of its input, or a line it cannot read: the forwarder is aborted and the
\* child is killed.
EndOfInput ==
  /\ \/ client # "writing" /\ taken = Len(lines)
     \/ taken < Len(lines) /\ lines[taken + 1] = Binary
  /\ Goes("read", "ended")
  /\ server' = IF upstream = "stdio" THEN "gone" ELSE server
  /\ busy' = IF upstream = "stdio" THEN 0 ELSE busy
  /\ UNCHANGED <<upstream, clientVars, taken, cleared, forwarded, read, served,
                 speech, relayed, output, unanswered>>

\* handle_line answers the line itself: a parse error, the rate limit, a verdict.
Refuse ==
  /\ Goes("inspect", "answer")
  /\ UNCHANGED <<upstream, clientVars, taken, cleared, forwarded, serverVars, relayed,
                 output, unanswered>>

\* Faulty variant of Clear: what cannot be parsed is passed on as it is.
ClearUnparsed ==
  /\ Goes("inspect", IF upstream = "stdio" THEN "forward" ELSE "connect")
  /\ cleared' = cleared \cup {taken}
  /\ UNCHANGED <<upstream, clientVars, taken, forwarded, serverVars, relayed,
                 output, unanswered>>

Clear ==
  /\ Goes("inspect", IF upstream = "stdio" THEN "forward" ELSE "connect")
  /\ Parsed(lines[taken], MaxBytes) # "error"
  /\ cleared' = cleared \cup {taken}
  /\ UNCHANGED <<upstream, clientVars, taken, forwarded, serverVars, relayed,
                 output, unanswered>>

\* Faulty variant of Answer: the answer is for the line after the one in hand.
AnswerNext ==
  /\ Goes("answer", "read")
  /\ Give(Message(taken + 1, "gateway"))
  /\ UNCHANGED <<upstream, clientVars, taken, cleared, forwarded, serverVars, relayed,
                 unanswered>>

Answer ==
  /\ Goes("answer", "read")
  /\ Give(Message(taken, "gateway"))
  /\ UNCHANGED <<upstream, clientVars, taken, cleared, forwarded, serverVars, relayed,
                 unanswered>>

\* Into the child's input, which may be full.
Forward ==
  /\ Goes("forward", "read")
  /\ server = "up"
  /\ Len(forwarded) - read < Room
  /\ forwarded' = Append(forwarded, taken)
  /\ UNCHANGED <<upstream, clientVars, taken, cleared, serverVars, relayed,
                 output, unanswered>>

\* A write to a process that is gone or has closed its input: the command ends with an
\* error, and the forwarder with it.
WriteFails ==
  /\ \/ client = "gone" /\ loop \in {"answer", "reply", "error"}
     \/ server # "up" /\ loop = "forward"
  /\ loop' = "ended"
  /\ UNCHANGED <<upstream, clientVars, taken, cleared, forwarded, serverVars, relayed,
                 output, unanswered>>

-----------------------------------------------------------------------------
(* HttpTransport::send, which the loop waits for *)

Connect ==
  /\ Goes("connect", "send")
  /\ UNCHANGED <<upstream, clientVars, taken, cleared, forwarded, serverVars, relayed,
                 output, unanswered>>

\* The request is with the server, whatever becomes of the rest.
Send ==
  /\ Goes("send", "receive")
  /\ forwarded' = Append(forwarded, taken)
  /\ UNCHANGED <<upstream, clientVars, taken, cleared, serverVars, relayed,
                 output, unanswered>>

Found == {Unwrapped(body) : body \in Bodies2xx}

\* The server answers 2xx with a body in which send finds a message ...
Receive(message) ==
  /\ message # {}
  /\ Goes("receive", "reply")
  /\ UNCHANGED <<upstream, clientVars, taken, cleared, forwarded, serverVars, relayed,
                 output, unanswered>>

\* ... or with one in which it finds none: the loop goes on in silence.
ReceiveNothing(message) ==
  /\ message = {}
  /\ Goes("receive", "read")
  /\ unanswered' = unanswered \cup {taken}
  /\ UNCHANGED <<upstream, clientVars, taken, cleared, forwarded, serverVars, relayed,
                 output>>

\* Faulty variant of SendFails: try again.
SendFailsRetry ==
  /\ loop \in {"connect", "send", "receive"}
  /\ loop' = "connect"
  /\ UNCHANGED <<upstream, clientVars, taken, cleared, forwarded, serverVars, relayed,
                 output, unanswered>>

\* A connection that fails, a status that is not 2xx, or one of the three timeouts.
\* If it hits the sending the server may have got the line all the same.
SendFails ==
  /\ loop \in {"connect", "send", "receive"}
  /\ loop' = "error"
  /\ \/ UNCHANGED forwarded
     \/ loop = "send" /\ forwarded' = Append(forwarded, taken)
  /\ UNCHANGED <<upstream, clientVars, taken, cleared, serverVars, relayed, output,
                 unanswered>>

Reply ==
  /\ Goes("reply", "read")
  /\ Give(Message(taken, "server"))
  /\ UNCHANGED <<upstream, clientVars, taken, cleared, forwarded, serverVars, relayed,
                 unanswered>>

ReplyError ==
  /\ Goes("error", "read")
  /\ Give(Message(taken, "error"))
  /\ UNCHANGED <<upstream, clientVars, taken, cleared, forwarded, serverVars, relayed,
                 unanswered>>

-----------------------------------------------------------------------------
(* The forwarder, from server to client.  It ignores a client that is gone. *)

\* Faulty variant of Relay: the loop itself relays, between two lines.
RelayBetweenLines ==
  /\ loop = "read"
  /\ relayed < Len(served)
  /\ Give(Message(served[relayed + 1], "server"))
  /\ relayed' = relayed + 1
  /\ UNCHANGED <<upstream, clientVars, loopVars, forwarded, serverVars, unanswered>>

Relay ==
  /\ loop # "ended"
  /\ relayed < Len(served)
  /\ \/ Give(Message(served[relayed + 1], "server"))
     \/ client = "gone" /\ UNCHANGED output
  /\ relayed' = relayed + 1
  /\ UNCHANGED <<upstream, clientVars, loopVars, forwarded, serverVars, unanswered>>

-----------------------------------------------------------------------------
(* The child.  It works on one line at a time and cannot write to a full pipe. *)

Child == upstream = "stdio" /\ server # "gone"

ServerReads ==
  /\ Child
  /\ server = "up"
  /\ busy = 0
  /\ read < Len(forwarded)
  /\ busy' = forwarded[read + 1]
  /\ read' = read + 1
  /\ UNCHANGED <<upstream, clientVars, loopVars, forwarded, server, served, speech,
                 relayed, output, unanswered>>

Serve(line) ==
  /\ loop # "ended"
  /\ Len(served) - relayed < Room
  /\ served' = Append(served, line)

\* The forwarder ends at a line that is not UTF-8 and at the end of the output, and what
\* comes after is lost.
Say(line) == IF speech = "text" THEN Serve(line) ELSE UNCHANGED served

ServerReplies ==
  /\ Child
  /\ busy # 0
  /\ Say(busy)
  /\ busy' = 0
  /\ UNCHANGED <<upstream, clientVars, loopVars, forwarded, server, read, speech, relayed,
                 output, unanswered>>

\* A notification, say.
ServerIsSilent ==
  /\ Child
  /\ busy # 0
  /\ busy' = 0
  /\ unanswered' = unanswered \cup {busy}
  /\ UNCHANGED <<upstream, clientVars, loopVars, forwarded, server, read, served, speech,
                 relayed, output>>

ServerNotes ==
  /\ Child
  /\ Cardinality({i \in DOMAIN served : served[i] = 0}) < MaxNotes
  /\ Say(0)
  /\ UNCHANGED <<upstream, clientVars, loopVars, forwarded, server, read, busy, speech,
                 relayed, output, unanswered>>

\* It writes what is not UTF-8, or closes its output.
ServerGarbles ==
  /\ Child
  /\ speech' = "binary"
  /\ UNCHANGED <<upstream, clientVars, loopVars, forwarded, server, read, busy, served,
                 relayed, output, unanswered>>

\* It closes its input and goes on: what is in the pipe is never read.
ServerDeafens ==
  /\ Child
  /\ server = "up"
  /\ server' = "deaf"
  /\ UNCHANGED <<upstream, clientVars, loopVars, forwarded, read, busy, served, speech,
                 relayed, output, unanswered>>

ServerExits ==
  /\ Child
  /\ server' = "gone"
  /\ busy' = 0
  /\ UNCHANGED <<upstream, clientVars, loopVars, forwarded, read, served, speech,
                 relayed, output, unanswered>>

-----------------------------------------------------------------------------
Init ==
  /\ upstream \in {"stdio", "http"}
  /\ client = "writing"
  /\ lines = <<>>
  /\ taken = 0
  /\ loop = "read"
  /\ cleared = {}
  /\ forwarded = <<>>
  /\ server = "up"
  /\ read = 0
  /\ busy = 0
  /\ served = <<>>
  /\ speech = "text"
  /\ relayed = 0
  /\ output = <<>>
  /\ seen = 0
  /\ unanswered = {}

ClientStep ==
  \/ \E shape \in Written : ClientWrites(shape)
  \/ ClientReads
  \/ \E how \in {"closed", "gone"} : ClientLeaves(how)

LoopStep ==
  \/ Take \/ EndOfInput \/ Refuse \/ Clear \/ Answer \/ Forward \/ WriteFails
  \/ Connect \/ Send \/ SendFails \/ Reply \/ ReplyError
  \/ \E message \in Found : Receive(message) \/ ReceiveNothing(message)

ServerStep ==
  \/ ServerReads \/ ServerReplies \/ ServerIsSilent \/ ServerNotes \/ ServerGarbles
  \/ ServerDeafens \/ ServerExits

Next == ClientStep \/ LoopStep \/ Relay \/ ServerStep

\* The tasks of the proxy run when they can; the client reads what it is given; a
\* child takes up lines and, unless it means not to answer, writes its answer when the
\* pipe has room.  Nothing is assumed of what the client writes.
Fairness ==
  /\ WF_vars(LoopStep)
  /\ WF_vars(Relay)
  /\ WF_vars(ClientReads)
  /\ WF_vars(ServerReads)
  /\ WF_vars(ServerReplies)

SafeSpec == Init /\ [][Next]_vars
Spec == SafeSpec /\ Fairness

-----------------------------------------------------------------------------
(* Properties *)

Answered == {output[i].line : i \in DOMAIN output} \ {0}

OutputType(n) == Seq([line : 0..n, by : {"gateway", "server", "error"}])

ExchangeTypeOK ==
  /\ upstream \in {"stdio", "http"}
  /\ client \in {"writing", "closed", "gone"}
  /\ lines \in Seq(Written)
  /\ taken \in 0..Len(lines)
  /\ loop \in {"read", "inspect", "answer", "forward", "connect", "send", "receive",
               "reply", "error", "ended"}
  /\ cleared \subseteq 1..taken
  /\ forwarded \in Seq(1..taken)
  /\ server \in {"up", "deaf", "gone"}
  /\ read \in 0..Len(forwarded)
  /\ busy \in 0..taken
  /\ served \in Seq(0..taken)
  /\ speech \in {"text", "binary"}
  /\ relayed \in 0..Len(served)
  /\ output \in OutputType(taken)
  /\ seen \in 0..Len(output)
  /\ unanswered \subseteq 1..taken

\* How many lines have their verdict, and which.
Decided == IF loop = "inspect" THEN taken - 1 ELSE taken

VerdictOn(i) ==
  IF lines[i] = Blank THEN "skipped" ELSE IF i \in cleared THEN "passed" ELSE "refused"

Promise == INSTANCE Mediation WITH
  judged <- [i \in 1..Decided |-> VerdictOn(i)],
  reached <- forwarded,
  answered <- Answered

\* Through both loops, the pipes and the forwarder: every line is judged once and in
\* order, the server gets what was passed in that order and once, and no line has two
\* answers (run_proxy, run_proxy_http).
ImplementsMediation == Promise!Spec

\* A line that cannot be parsed stays on this side, and what the gateway has answered
\* for itself reaches no server (handle_line, and the two branches of the loops).
RefusedStaysHere ==
  /\ \A i \in DOMAIN forwarded : Parsed(lines[forwarded[i]], MaxBytes) # "error"
  /\ \A i \in DOMAIN output, j \in DOMAIN forwarded :
       output[i].by = "gateway" => output[i].line # forwarded[j]

Readable(i) ==
  i <= Len(lines) /\ lines[i] # Blank /\ \A j \in 1..i : lines[j] # Binary

\* Every line that is read gets its answer, or the server chose to give none, or one of
\* the two ends is gone, reads no more, or has closed its output or garbled it: the pipes
\* and the two tasks never wait for each other in a circle, and a failing HTTP server is
\* reported (run_proxy, run_proxy_http).
EveryLineSettled ==
  \A i \in 1..MaxLines :
    Readable(i)
      ~> (i \in Answered \cup unanswered \/ client # "writing" \/ server # "up"
          \/ speech = "binary")

\* Responses of which send makes something else than their kind says.
Unexplained ==
  {response \in Responses(MaxPieces) :
     ~ /\ Misread(response) <=> \/ Lost(response) \/ Quoted(response)
                                \/ Invented(response) \/ Batched(response)
       /\ Crlf(response) /\ Due(response) # {} => Lost(response)}

\* send hands on what the client is due, the first message of an event stream or the
\* JSON text, but for four kinds of responses, and of each of these it makes something
\* else: a message behind an empty line between CRLFs is lost, a JSON text that quotes
\* "data:" or "text/event-stream" is lost, a stream of comments is passed for a message,
\* and a batch is left out.  So it finds no message in a stream with CRLF throughout
\* (send, http_post_raw, parse_sse_stream, sse_jsonrpc_frames).
MisreadAsNamed == loop = "receive" => Unexplained = {}
=============================================================================
