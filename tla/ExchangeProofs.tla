--------------------------- MODULE ExchangeProofs ---------------------------
(***************************************************************************)
(* Theorems about Exchange, for any lines, bodies, pipes and bounds.       *)
(***************************************************************************)
EXTENDS Exchange, SequenceTheorems, FiniteSetTheorems, WellFoundedInduction, TLAPS

-----------------------------------------------------------------------------
(* Type correctness *)

\* A sequence over a set is one over any larger set.
LEMMA SeqWidens ==
  ASSUME NEW S, NEW T, S \subseteq T, NEW s \in Seq(S)
  PROVE  s \in Seq(T)
  <1>1. Len(s) \in Nat /\ s \in [1..Len(s) -> S]
    OBVIOUS
  <1>2. s \in [1..Len(s) -> T]
    BY <1>1
  <1> QED BY <1>1, <1>2

\* What the client is given has the type of output (Give, used by four actions).
LEMMA GiveType ==
  ASSUME ExchangeTypeOK, NEW line \in 0..taken, NEW by \in {"gateway", "server", "error"},
         Give(Message(line, by))
  PROVE  /\ output' \in OutputType(taken)
         /\ Len(output') = Len(output) + 1
         /\ seen \in 0..Len(output')
  <1>1. Message(line, by) \in [line : 0..taken, by : {"gateway", "server", "error"}]
    BY DEF Message
  <1> DEFINE M == [line : 0..taken, by : {"gateway", "server", "error"}]
  <1>2. output \in Seq(M) /\ output' = Append(output, Message(line, by))
    BY DEF ExchangeTypeOK, Give, OutputType
  <1>3. seen \in 0..Len(output)
    BY DEF ExchangeTypeOK
  <1> HIDE DEF M
  <1> QED BY <1>1, <1>2, <1>3 DEF M, OutputType

\* The loop has a line in hand, and no blank one, wherever it is past reading.
InHand == loop \notin {"read", "ended"} => taken > 0 /\ lines[taken] # Blank

TypeInv == ExchangeTypeOK /\ InHand

\* The type invariant with what it rests on: past reading there is a line in hand.
LEMMA TypeInvariant == SafeSpec => []TypeInv
  <1>1. Init => TypeInv
    BY DEF Init, TypeInv, ExchangeTypeOK, InHand, OutputType
  <1>2. TypeInv /\ [Next]_vars => TypeInv'
    <2> SUFFICES ASSUME TypeInv, [Next]_vars
                 PROVE  TypeInv'
      OBVIOUS
    <2> USE DEF TypeInv
    <2>a. taken \in Nat /\ cleared \subseteq 1..taken /\ unanswered \subseteq 1..taken
      BY DEF ExchangeTypeOK
    <2>b. forwarded \in Seq(1..taken) /\ read \in 0..Len(forwarded) /\ busy \in 0..taken
      BY DEF ExchangeTypeOK
    <2>1. ASSUME NEW shape \in Written, ClientWrites(shape)
          PROVE  TypeInv'
      <3>1. /\ lines' \in Seq(Written) /\ Len(lines') = Len(lines) + 1
            /\ \A i \in 1..Len(lines) : lines'[i] = lines[i]
        BY <2>1 DEF ClientWrites, ExchangeTypeOK
      <3>2. ExchangeTypeOK'
        BY <2>1, <3>1 DEF ClientWrites, ExchangeTypeOK, loopVars, serverVars
      <3> QED BY <2>1, <3>1, <3>2 DEF ClientWrites, ExchangeTypeOK, InHand, loopVars
    <2>2. CASE ClientReads
      BY <2>2 DEF ClientReads, ExchangeTypeOK, InHand, loopVars, serverVars
    <2>3. ASSUME NEW how \in {"closed", "gone"}, ClientLeaves(how)
          PROVE  TypeInv'
      BY <2>3 DEF ClientLeaves, ExchangeTypeOK, InHand, loopVars, serverVars
    <2>4. CASE Take
      <3>1. taken \in Nat /\ taken' = taken + 1 /\ taken' \in 0..Len(lines)
        BY <2>4 DEF Take, ExchangeTypeOK
      <3>2. 0..taken \subseteq 0..taken' /\ 1..taken \subseteq 1..taken'
        BY <3>1
      <3>3. forwarded \in Seq(1..taken') /\ served \in Seq(0..taken')
        BY <3>2, SeqWidens DEF ExchangeTypeOK
      <3>4. output \in OutputType(taken')
        <4>1. [line : 0..taken, by : {"gateway", "server", "error"}]
                \subseteq [line : 0..taken', by : {"gateway", "server", "error"}]
          BY <3>2
        <4> QED BY <4>1, SeqWidens DEF ExchangeTypeOK, OutputType
      <3> QED
        BY <2>4, <3>1, <3>2, <3>3, <3>4
        DEF Take, Goes, ExchangeTypeOK, InHand, clientVars, serverVars
    <2>5. CASE EndOfInput
      BY <2>5 DEF EndOfInput, Goes, ExchangeTypeOK, InHand, clientVars
    <2>6. CASE Refuse \/ Connect
      BY <2>6 DEF Refuse, Connect, Goes, ExchangeTypeOK, InHand, clientVars, serverVars
    <2>7. CASE Clear
      BY <2>7 DEF Clear, Goes, ExchangeTypeOK, InHand, clientVars, serverVars
    <2>8. CASE Answer \/ Reply \/ ReplyError
      <3>1. taken \in 0..taken
        BY DEF ExchangeTypeOK
      <3>2. /\ output' \in OutputType(taken)
            /\ seen \in 0..Len(output')
        BY <2>8, <3>1, GiveType DEF Answer, Reply, ReplyError
      <3> QED
        BY <2>8, <3>2
        DEF Answer, Reply, ReplyError, Goes, ExchangeTypeOK, InHand, clientVars, serverVars
    <2>9. CASE Forward \/ Send \/ SendFails
      <3>1. taken \in 1..taken
        BY <2>9 DEF Forward, Send, SendFails, Goes, ExchangeTypeOK, InHand
      <3>2. Append(forwarded, taken) \in Seq(1..taken)
            /\ Len(Append(forwarded, taken)) = Len(forwarded) + 1
        BY <3>1, <2>b
      <3>3. forwarded' = forwarded \/ forwarded' = Append(forwarded, taken)
        BY <2>9 DEF Forward, Send, SendFails
      <3>4. /\ loop' \in {"read", "receive", "error"}
            /\ loop \notin {"read", "ended"}
        BY <2>9 DEF Forward, Send, SendFails, Goes
      <3>5. UNCHANGED <<upstream, client, lines, seen, taken, cleared, server, read, busy,
                        served, speech, relayed, output, unanswered>>
        BY <2>9 DEF Forward, Send, SendFails, clientVars, serverVars
      <3>6. forwarded' \in Seq(1..taken) /\ read \in 0..Len(forwarded')
        BY <3>2, <3>3, <2>a, <2>b
      <3> QED BY <3>4, <3>5, <3>6 DEF ExchangeTypeOK, InHand
    <2>10. CASE WriteFails
      <3>1. /\ loop' = "ended"
            /\ UNCHANGED <<upstream, client, lines, seen, taken, cleared, forwarded, server,
                           read, busy, served, speech, relayed, output, unanswered>>
        BY <2>10 DEF WriteFails, clientVars, serverVars
      <3> QED BY <3>1 DEF ExchangeTypeOK, InHand
    <2>11. ASSUME NEW message \in Found, Receive(message) \/ ReceiveNothing(message)
           PROVE  TypeInv'
      <3>1. loop = "receive" /\ loop' \in {"reply", "read"}
        BY <2>11 DEF Receive, ReceiveNothing, Goes
      <3>2. UNCHANGED <<upstream, client, lines, seen, taken, cleared, forwarded, server,
                        read, busy, served, speech, relayed, output>>
        BY <2>11 DEF Receive, ReceiveNothing, clientVars, serverVars
      <3>3. unanswered' = unanswered \/ unanswered' = unanswered \cup {taken}
        BY <2>11 DEF Receive, ReceiveNothing
      <3>4. unanswered' \subseteq 1..taken
        <4>1. taken \in 1..taken
          BY <3>1, <2>a DEF InHand
        <4> QED BY <3>3, <4>1, <2>a
      <3> QED BY <3>1, <3>2, <3>4 DEF ExchangeTypeOK, InHand
    <2>12. CASE Relay
      <3>1. served[relayed + 1] \in 0..taken /\ relayed' \in 0..Len(served)
        BY <2>12 DEF Relay, ExchangeTypeOK
      <3>2. /\ output' \in OutputType(taken)
            /\ seen \in 0..Len(output')
        <4>1. CASE Give(Message(served[relayed + 1], "server"))
          BY <3>1, <4>1, GiveType
        <4>2. CASE UNCHANGED output
          BY <4>2 DEF ExchangeTypeOK
        <4> QED BY <2>12, <4>1, <4>2 DEF Relay
      <3> QED
        BY <2>12, <3>1, <3>2
        DEF Relay, ExchangeTypeOK, InHand, clientVars, loopVars, serverVars
    <2>13. CASE ServerReads
      <3>1. /\ read < Len(forwarded) /\ read' = read + 1 /\ busy' = forwarded[read + 1]
            /\ UNCHANGED <<upstream, client, lines, seen, taken, loop, cleared, forwarded,
                           server, served, speech, relayed, output, unanswered>>
        BY <2>13 DEF ServerReads, clientVars, loopVars
      <3>2. read' \in 0..Len(forwarded) /\ busy' \in 0..taken
        BY <3>1, <2>a, <2>b
      <3> QED BY <3>1, <3>2 DEF ExchangeTypeOK, InHand
    <2>14. CASE ServerReplies \/ ServerNotes
      <3>1. PICK line \in 0..taken : Say(line)
        <4>1. busy \in 0..taken /\ 0 \in 0..taken
          BY DEF ExchangeTypeOK
        <4> QED BY <2>14, <4>1 DEF ServerReplies, ServerNotes
      <3>2. served' \in Seq(0..taken) /\ relayed \in 0..Len(served')
        <4>1. CASE served' = Append(served, line)
          <5>1. served' \in Seq(0..taken) /\ Len(served') = Len(served) + 1
            BY <3>1, <4>1 DEF ExchangeTypeOK
          <5> QED BY <5>1 DEF ExchangeTypeOK
        <4>2. CASE served' = served
          BY <4>2 DEF ExchangeTypeOK
        <4> QED BY <3>1, <4>1, <4>2 DEF Say, Serve
      <3>3. /\ UNCHANGED <<upstream, client, lines, seen, taken, loop, cleared, forwarded,
                           server, read, speech, relayed, output, unanswered>>
            /\ busy' \in {0, busy}
        BY <2>14 DEF ServerReplies, ServerNotes, clientVars, loopVars
      <3> QED BY <3>2, <3>3 DEF ExchangeTypeOK, InHand
    <2>15. CASE ServerIsSilent \/ ServerDeafens \/ ServerExits
      <3>1. /\ UNCHANGED <<upstream, client, lines, seen, taken, loop, cleared, forwarded,
                           read, served, speech, relayed, output>>
            /\ server' \in {server, "deaf", "gone"} /\ busy' \in {busy, 0}
        BY <2>15 DEF ServerIsSilent, ServerDeafens, ServerExits, clientVars, loopVars
      <3>2. unanswered' \subseteq 1..taken
        <4>1. CASE unanswered' = unanswered
          BY <4>1, <2>a
        <4>2. CASE busy # 0 /\ unanswered' = unanswered \cup {busy}
          <5>1. busy \in 1..taken
            BY <4>2, <2>a, <2>b
          <5> HIDE <2>15
          <5> QED BY <4>2, <5>1, <2>a
        <4> QED BY <2>15, <4>1, <4>2 DEF ServerIsSilent, ServerDeafens, ServerExits
      <3> QED BY <3>1, <3>2 DEF ExchangeTypeOK, InHand
    <2>16. CASE ServerGarbles
      BY <2>16 DEF ServerGarbles, ExchangeTypeOK, InHand, clientVars, loopVars
    <2>17. CASE UNCHANGED vars
      BY <2>17 DEF vars, ExchangeTypeOK, InHand, clientVars, loopVars, serverVars
    <2> QED
      BY <2>1, <2>2, <2>3, <2>4, <2>5, <2>6, <2>7, <2>8, <2>9, <2>10, <2>11, <2>12,
         <2>13, <2>14, <2>15, <2>16, <2>17
      DEF Next, ClientStep, LoopStep, ServerStep
  <1> QED BY <1>1, <1>2, PTL DEF SafeSpec

\* Counters stay within what they count, and every list names lines that have been
\* taken (run_proxy, run_proxy_http).
THEOREM ExchangeTypeCorrect == SafeSpec => []ExchangeTypeOK
  <1>1. TypeInv => ExchangeTypeOK
    BY DEF TypeInv
  <1> QED BY <1>1, TypeInvariant, PTL

\* What the type invariant says, for use where its expansion is too much.
LEMMA TypeFacts ==
  ASSUME ExchangeTypeOK
  PROVE  /\ lines \in Seq(Written) /\ taken \in 0..Len(lines)
         /\ taken \in Nat /\ Len(lines) \in Nat /\ taken <= Len(lines)
         /\ cleared \subseteq 1..taken
         /\ forwarded \in Seq(1..taken) /\ read \in 0..Len(forwarded)
         /\ served \in Seq(0..taken) /\ relayed \in 0..Len(served)
         /\ Len(output) \in Nat /\ DOMAIN output = 1..Len(output)
         /\ \A i \in 1..Len(output) : output[i].line \in 0..taken
  <1>1. /\ lines \in Seq(Written) /\ taken \in 0..Len(lines)
        /\ cleared \subseteq 1..taken
        /\ forwarded \in Seq(1..taken) /\ read \in 0..Len(forwarded)
        /\ served \in Seq(0..taken) /\ relayed \in 0..Len(served)
        /\ output \in OutputType(taken)
    BY DEF ExchangeTypeOK
  <1>2. Len(lines) \in Nat
    BY <1>1
  <1>3. taken \in Nat /\ taken <= Len(lines)
    BY <1>1, <1>2
  <1>4. /\ Len(output) \in Nat /\ DOMAIN output = 1..Len(output)
        /\ \A i \in 1..Len(output) : output[i].line \in 0..taken
    <2> DEFINE M == [line : 0..taken, by : {"gateway", "server", "error"}]
    <2>1. output \in Seq(M)
      BY <1>1 DEF OutputType
    <2>2. \A m \in M : m.line \in 0..taken
      OBVIOUS
    <2> HIDE DEF M
    <2> QED BY <2>1, <2>2
  <1> QED BY <1>1, <1>2, <1>3, <1>4

\* The effect of Give on the list of answers.
LEMMA GiveEffect ==
  ASSUME ExchangeTypeOK, NEW line, NEW by, Give(Message(line, by))
  PROVE  /\ Len(output') = Len(output) + 1
         /\ DOMAIN output' = 1..(Len(output) + 1)
         /\ \A i \in 1..Len(output) : output'[i] = output[i]
         /\ output'[Len(output) + 1] = [line |-> line, by |-> by]
  BY DEF Give, Message, ExchangeTypeOK, OutputType

-----------------------------------------------------------------------------
(* What was let pass and what was answered *)

PassedParse == \A i \in cleared : lines[i] # Blank /\ Parsed(lines[i], MaxBytes) # "error"

HandCleared ==
  /\ loop \in {"inspect", "answer"} => taken \notin cleared
  /\ loop \in {"forward", "connect", "send", "receive", "reply", "error"}
       => taken \in cleared

ForwardedCleared == \A i \in DOMAIN forwarded : forwarded[i] \in cleared

OwnAnswers ==
  \A i \in DOMAIN output :
    output[i].by = "gateway" =>
      /\ output[i].line \notin cleared
      /\ loop \notin {"read", "ended"} => output[i].line # taken

ClearedInv == PassedParse /\ HandCleared /\ ForwardedCleared /\ OwnAnswers

\* Steps that touch none of what ClearedInv speaks of but the loop's place, if that
\* stays on the same side of the verdict.
LEMMA ClearedKept ==
  ASSUME ClearedInv, UNCHANGED <<lines, taken, cleared, forwarded, output>>,
         \/ loop' = loop
         \/ loop' \in {"read", "ended"}
         \/ loop = "inspect" /\ loop' = "answer"
         \/ loop \in {"connect", "send", "receive"} /\ loop' \in {"send", "receive", "reply", "error"}
  PROVE  ClearedInv'
  <1>1. PassedParse' /\ ForwardedCleared'
    BY DEF ClearedInv, PassedParse, ForwardedCleared
  <1>2. HandCleared'
    BY DEF ClearedInv, HandCleared
  <1>3. OwnAnswers'
    BY DEF ClearedInv, OwnAnswers
  <1> QED BY <1>1, <1>2, <1>3 DEF ClearedInv

\* Each action keeps ClearedInv (run_proxy, run_proxy_http).
LEMMA ClearedInvariant == SafeSpec => []ClearedInv
  <1>1. Init => ClearedInv
    BY DEF Init, ClearedInv, PassedParse, HandCleared, ForwardedCleared, OwnAnswers
  <1>2. TypeInv /\ ClearedInv /\ [Next]_vars => ClearedInv'
    <2> SUFFICES ASSUME TypeInv, ClearedInv, [Next]_vars
                 PROVE  ClearedInv'
      OBVIOUS
    <2>a. ExchangeTypeOK /\ InHand
      BY DEF TypeInv
    <2>1. ASSUME NEW shape \in Written, ClientWrites(shape)
          PROVE  ClearedInv'
      <3>1. /\ lines' = Append(lines, shape)
            /\ UNCHANGED <<taken, loop, cleared, forwarded, output>>
        BY <2>1 DEF ClientWrites, loopVars
      <3>2. \A i \in cleared : lines'[i] = lines[i]
        BY <2>a, <3>1, TypeFacts
      <3>3. PassedParse'
        BY <3>1, <3>2 DEF ClearedInv, PassedParse
      <3> QED
        BY <3>1, <3>3 DEF ClearedInv, HandCleared, ForwardedCleared, OwnAnswers
    <2>2. CASE ClientReads \/ (\E how \in {"closed", "gone"} : ClientLeaves(how)) \/ ServerStep
      <3>1. UNCHANGED <<lines, taken, loop, cleared, forwarded, output>>
        BY <2>2
        DEF ClientReads, ClientLeaves, ServerStep, ServerReads, ServerReplies,
            ServerIsSilent, ServerNotes, ServerGarbles, ServerDeafens, ServerExits,
            clientVars, loopVars
      <3> QED BY <3>1, ClearedKept
    <2>3. CASE EndOfInput \/ WriteFails \/ Refuse \/ Connect
      BY <2>3, ClearedKept DEF EndOfInput, WriteFails, Refuse, Connect, Goes, clientVars
    <2>4. ASSUME NEW message \in Found, Receive(message) \/ ReceiveNothing(message)
          PROVE  ClearedInv'
      BY <2>4, ClearedKept DEF Receive, ReceiveNothing, Goes, clientVars
    <2>5. CASE Take
      <3>1. /\ taken' = taken + 1 /\ loop' \in {"read", "inspect"}
            /\ UNCHANGED <<lines, cleared, forwarded, output>>
        BY <2>5 DEF Take, Goes, clientVars
      <3>2. taken' \notin cleared /\ \A i \in DOMAIN output : output[i].line # taken'
        BY <2>a, <3>1, TypeFacts
      <3>3. PassedParse' /\ ForwardedCleared'
        BY <3>1 DEF ClearedInv, PassedParse, ForwardedCleared
      <3>4. HandCleared'
        BY <3>1, <3>2 DEF HandCleared
      <3>5. OwnAnswers'
        BY <3>1, <3>2 DEF ClearedInv, OwnAnswers
      <3> QED BY <3>3, <3>4, <3>5 DEF ClearedInv
    <2>6. CASE Clear
      <3>1. /\ loop = "inspect" /\ loop' \in {"forward", "connect"}
            /\ Parsed(lines[taken], MaxBytes) # "error" /\ cleared' = cleared \cup {taken}
            /\ UNCHANGED <<lines, taken, forwarded, output>>
        BY <2>6 DEF Clear, Goes, clientVars
      <3>2. PassedParse'
        BY <2>a, <3>1 DEF ClearedInv, PassedParse, InHand
      <3>3. HandCleared' /\ ForwardedCleared'
        BY <3>1 DEF ClearedInv, HandCleared, ForwardedCleared
      <3>4. OwnAnswers'
        BY <3>1 DEF ClearedInv, OwnAnswers
      <3> QED BY <3>2, <3>3, <3>4 DEF ClearedInv
    <2>7. CASE Answer \/ Reply \/ ReplyError \/ (Relay /\ output' # output)
      <3>1. PICK line \in Int, by \in {"gateway", "server", "error"} :
              /\ Give(Message(line, by))
              /\ by = "gateway" => line \notin cleared
              /\ by = "gateway" => loop' = "read"
        <4>1. CASE Answer
          <5>1. Give(Message(taken, "gateway")) /\ taken \in Int
            BY <2>a, <4>1, TypeFacts DEF Answer
          <5> QED BY <4>1, <5>1 DEF Answer, Goes, ClearedInv, HandCleared
        <4>2. CASE Reply \/ ReplyError
          <5>1. taken \in Int
            BY <2>a, TypeFacts
          <5> QED BY <4>2, <5>1 DEF Reply, ReplyError
        <4>3. CASE Relay /\ output' # output
          <5>1. Give(Message(served[relayed + 1], "server")) /\ relayed < Len(served)
            BY <4>3 DEF Relay
          <5>2. served[relayed + 1] \in Int
            BY <2>a, <5>1, TypeFacts
          <5> QED BY <5>1, <5>2
        <4> QED BY <2>7, <4>1, <4>2, <4>3
      <3>2. /\ loop' \in {loop, "read"}
            /\ UNCHANGED <<lines, taken, cleared, forwarded>>
        BY <2>7 DEF Answer, Reply, ReplyError, Relay, Goes, clientVars, loopVars
      <3>3. PassedParse' /\ ForwardedCleared' /\ HandCleared'
        BY <3>2 DEF ClearedInv, PassedParse, ForwardedCleared, HandCleared
      <3>0. /\ Len(output) \in Nat /\ DOMAIN output = 1..Len(output)
            /\ DOMAIN output' = 1..(Len(output) + 1)
            /\ \A i \in 1..Len(output) : output'[i] = output[i]
            /\ output'[Len(output) + 1] = [line |-> line, by |-> by]
        BY <2>a, <3>1, GiveEffect, TypeFacts
      <3>4. ASSUME NEW i \in DOMAIN output', output'[i].by = "gateway"
            PROVE  /\ output'[i].line \notin cleared'
                   /\ loop' \notin {"read", "ended"} => output'[i].line # taken'
        <4>1. CASE i \in 1..Len(output)
          <5>1. output'[i] = output[i] /\ i \in DOMAIN output
            BY <3>0, <4>1
          <5> QED BY <3>2, <3>4, <5>1 DEF ClearedInv, OwnAnswers
        <4>2. CASE i = Len(output) + 1
          BY <3>0, <3>1, <3>2, <3>4, <4>2
        <4>3. i \in 1..Len(output) \/ i = Len(output) + 1
          BY <3>0
        <4> QED BY <4>1, <4>2, <4>3
      <3> QED BY <3>3, <3>4 DEF ClearedInv, OwnAnswers
    <2>8. CASE Relay /\ output' = output
      BY <2>8, ClearedKept DEF Relay, clientVars, loopVars
    <2>9. CASE Forward \/ Send \/ SendFails
      <3>1. /\ loop \in {"forward", "connect", "send", "receive"}
            /\ loop' \in {"read", "receive", "error"}
            /\ UNCHANGED <<lines, taken, cleared, output>>
        BY <2>9 DEF Forward, Send, SendFails, Goes, clientVars
      <3>2. forwarded' = forwarded \/ forwarded' = Append(forwarded, taken)
        BY <2>9 DEF Forward, Send, SendFails
      <3>3. taken \in cleared
        BY <3>1 DEF ClearedInv, HandCleared
      <3>4. \A i \in DOMAIN forwarded' : forwarded'[i] \in cleared
        <4>1. \A i \in DOMAIN forwarded : forwarded[i] \in cleared
          BY DEF ClearedInv, ForwardedCleared
        <4>2. forwarded \in Seq(1..taken)
          BY <2>a, TypeFacts
        <4> QED BY <3>2, <3>3, <4>1, <4>2
      <3>5. ForwardedCleared'
        BY <3>1, <3>4 DEF ForwardedCleared
      <3>6. PassedParse' /\ HandCleared' /\ OwnAnswers'
        BY <3>1, <3>3 DEF ClearedInv, PassedParse, HandCleared, OwnAnswers
      <3> QED BY <3>5, <3>6 DEF ClearedInv
    <2>10. CASE UNCHANGED vars
      BY <2>10, ClearedKept DEF vars, clientVars, loopVars
    <2> QED
      BY <2>1, <2>2, <2>3, <2>4, <2>5, <2>6, <2>7, <2>8, <2>9, <2>10
      DEF Next, ClientStep, LoopStep
  <1> QED BY <1>1, <1>2, TypeInvariant, PTL DEF SafeSpec

\* No line that cannot be parsed, and none that the gateway answers for itself, reaches
\* the server, over pipes or over HTTP (run_proxy, run_proxy_http).
THEOREM RefusedNeverForwarded == SafeSpec => []RefusedStaysHere
  <1>1. ClearedInv => RefusedStaysHere
    BY DEF ClearedInv, PassedParse, ForwardedCleared, OwnAnswers, RefusedStaysHere
  <1> QED BY <1>1, ClearedInvariant, PTL

-----------------------------------------------------------------------------
(* Order, and who answers *)

\* The states of the loop that only one kind of upstream knows.
Modes ==
  /\ upstream = "stdio" => loop \notin {"connect", "send", "receive", "reply", "error"}
  /\ upstream = "http" => loop # "forward" /\ busy = 0 /\ served = <<>>

Increasing ==
  \A i \in DOMAIN forwarded, j \in DOMAIN forwarded : i < j => forwarded[i] < forwarded[j]

NotYet ==
  loop \in {"inspect", "answer", "forward", "connect", "send"} =>
    \A i \in DOMAIN forwarded : forwarded[i] # taken

AtWork ==
  busy # 0 =>
    /\ read > 0
    /\ busy = forwarded[read]
    /\ \A j \in DOMAIN served : served[j] # busy

ServedRead ==
  \A j \in DOMAIN served : served[j] # 0 => \E i \in 1..read : served[j] = forwarded[i]

ServedOnce ==
  \A j \in DOMAIN served, k \in DOMAIN served :
    j < k /\ served[j] # 0 => served[j] # served[k]

RelayedOnly ==
  upstream = "stdio" =>
    \A i \in DOMAIN output :
      \/ output[i].line = 0
      \/ output[i].by = "gateway"
      \/ \E j \in 1..relayed : served[j] = output[i].line

AnsweredBefore ==
  loop \notin {"read", "ended"} => \A i \in DOMAIN output : output[i].line # taken

OrderInv ==
  /\ Modes /\ Increasing /\ NotYet
  /\ AtWork /\ ServedRead /\ ServedOnce
  /\ RelayedOnly /\ AnsweredBefore

\* Steps that move the loop, or end the child's work, and append to no list.
LEMMA OrderKept ==
  ASSUME OrderInv, UNCHANGED <<upstream, taken, forwarded, read, served, relayed, output>>,
         busy' \in {busy, 0},
         \/ loop' = loop
         \/ loop' \in {"read", "ended"}
         \/ loop = "inspect" /\ loop' = "answer"
         \/ loop = "inspect" /\ loop' = IF upstream = "stdio" THEN "forward" ELSE "connect"
         \/ loop = "connect" /\ loop' = "send"
         \/ loop \in {"connect", "send", "receive"} /\ loop' \in {"reply", "error"},
         upstream \in {"stdio", "http"}
  PROVE  OrderInv'
  <1>1. Modes'
    BY DEF OrderInv, Modes
  <1>2. Increasing' /\ ServedRead' /\ ServedOnce' /\ RelayedOnly'
    BY DEF OrderInv, Increasing, ServedRead, ServedOnce, RelayedOnly
  <1>3. NotYet'
    BY DEF OrderInv, NotYet
  <1>4. AtWork'
    BY DEF OrderInv, AtWork
  <1>5. AnsweredBefore'
    BY DEF OrderInv, AnsweredBefore
  <1> QED BY <1>1, <1>2, <1>3, <1>4, <1>5 DEF OrderInv

\* A line of the client enters the server's input.
LEMMA OrderForward ==
  ASSUME TypeInv, OrderInv, loop \in {"forward", "send"},
         forwarded' = Append(forwarded, taken),
         UNCHANGED <<upstream, taken, read, busy, served, relayed, output>>,
         \/ loop' = "read"
         \/ loop = "send" /\ loop' \in {"receive", "error"}
  PROVE  OrderInv'
  <1>1. /\ forwarded \in Seq(1..taken) /\ read \in 0..Len(forwarded) /\ taken \in Nat
        /\ served \in Seq(0..taken) /\ taken > 0
    BY TypeFacts DEF TypeInv, InHand
  <1>2. /\ Len(forwarded') = Len(forwarded) + 1 /\ Len(forwarded) \in Nat
        /\ DOMAIN forwarded' = 1..(Len(forwarded) + 1)
        /\ \A i \in 1..Len(forwarded) : forwarded'[i] = forwarded[i] /\ forwarded[i] \in 1..taken
        /\ forwarded'[Len(forwarded) + 1] = taken
    BY <1>1
  <1>3. Modes'
    BY DEF OrderInv, Modes
  <1>4. Increasing'
    <2>1. \A i \in 1..Len(forwarded) : forwarded[i] < taken
      BY <1>1, <1>2 DEF OrderInv, NotYet
    <2>2. \A i \in 1..Len(forwarded), j \in 1..Len(forwarded) :
            i < j => forwarded[i] < forwarded[j]
      BY <1>1 DEF OrderInv, Increasing
    <2> QED BY <1>2, <2>1, <2>2 DEF Increasing
  <1>5. NotYet'
    BY DEF NotYet
  <1>6. AtWork'
    BY <1>1, <1>2 DEF OrderInv, AtWork
  <1>7. ServedRead'
    <2>1. \A i \in 1..read : forwarded'[i] = forwarded[i]
      BY <1>1, <1>2
    <2>2. ASSUME NEW j \in DOMAIN served, served[j] # 0
          PROVE  \E i \in 1..read : served[j] = forwarded'[i]
      <3>1. PICK i \in 1..read : served[j] = forwarded[i]
        BY <2>2 DEF OrderInv, ServedRead
      <3> QED BY <2>1, <3>1
    <2>3. served' = served /\ read' = read
      OBVIOUS
    <2> QED BY <2>2, <2>3 DEF ServedRead
  <1>8. ServedOnce' /\ RelayedOnly'
    BY DEF OrderInv, ServedOnce, RelayedOnly
  <1>9. AnsweredBefore'
    BY DEF OrderInv, AnsweredBefore
  <1> QED BY <1>3, <1>4, <1>5, <1>6, <1>7, <1>8, <1>9 DEF OrderInv

\* The server gets the next line to work on.
LEMMA OrderRead ==
  ASSUME TypeInv, OrderInv, ServerReads
  PROVE  OrderInv'
  <1>1. /\ forwarded \in Seq(1..taken) /\ read \in 0..Len(forwarded) /\ taken \in Nat
        /\ served \in Seq(0..taken)
    BY TypeFacts DEF TypeInv
  <1>2. /\ upstream = "stdio" /\ read < Len(forwarded)
        /\ read' = read + 1 /\ busy' = forwarded[read + 1]
        /\ UNCHANGED <<upstream, taken, loop, forwarded, served, relayed, output>>
    BY DEF ServerReads, Child, loopVars
  <1>3. Modes' /\ Increasing' /\ NotYet' /\ ServedOnce' /\ RelayedOnly' /\ AnsweredBefore'
    BY <1>2
    DEF OrderInv, Modes, Increasing, NotYet, ServedOnce, RelayedOnly, AnsweredBefore
  <1>4. ServedRead'
    <2>1. ASSUME NEW j \in DOMAIN served, served[j] # 0
          PROVE  \E i \in 1..(read + 1) : served[j] = forwarded[i]
      <3>1. PICK i \in 1..read : served[j] = forwarded[i]
        BY <2>1 DEF OrderInv, ServedRead
      <3>2. i \in 1..(read + 1)
        BY <1>1
      <3> QED BY <3>1, <3>2
    <2> QED BY <1>2, <2>1 DEF ServedRead
  <1>5. AtWork'
    <2>1. ASSUME NEW j \in DOMAIN served
          PROVE  served[j] # forwarded[read + 1]
      <3>1. read + 1 \in DOMAIN forwarded /\ forwarded[read + 1] \in 1..taken
        <4>1. Len(forwarded) \in Nat /\ DOMAIN forwarded = 1..Len(forwarded)
          BY <1>1
        <4>2. read < Len(forwarded)
          BY <1>2
        <4>3. read + 1 \in 1..Len(forwarded)
          BY <1>1, <4>1, <4>2
        <4> QED BY <1>1, <4>1, <4>3
      <3>2. CASE served[j] = 0
        BY <3>1, <3>2
      <3>3. CASE served[j] # 0
        <4>1. PICK i \in 1..read : served[j] = forwarded[i]
          BY <3>3 DEF OrderInv, ServedRead
        <4>2. i \in DOMAIN forwarded /\ i < read + 1 /\ forwarded[i] \in Int
          BY <1>1
        <4>3. forwarded[i] < forwarded[read + 1]
          BY <3>1, <4>2 DEF OrderInv, Increasing
        <4> QED BY <1>1, <3>1, <4>1, <4>2, <4>3
      <3> QED BY <3>2, <3>3
    <2>2. read' > 0 /\ forwarded'[read'] = busy'
      BY <1>1, <1>2
    <2> QED BY <1>2, <2>1, <2>2 DEF AtWork
  <1> QED BY <1>3, <1>4, <1>5 DEF OrderInv

\* The child writes: an answer to the line it works on, or a message of its own.
LEMMA OrderServe ==
  ASSUME TypeInv, OrderInv, ServerReplies \/ ServerNotes, served' # served
  PROVE  OrderInv'
  <1>1. /\ forwarded \in Seq(1..taken) /\ read \in 0..Len(forwarded) /\ taken \in Nat
        /\ served \in Seq(0..taken) /\ relayed \in 0..Len(served) /\ busy \in 0..taken
    BY TypeFacts DEF TypeInv, ExchangeTypeOK
  <1>2. /\ upstream = "stdio"
        /\ UNCHANGED <<upstream, taken, loop, forwarded, read, relayed, output>>
    BY DEF ServerReplies, ServerNotes, Child, loopVars
  <1>3. PICK line \in {busy, 0} :
          /\ served' = Append(served, line)
          /\ busy' \in {busy, 0}
          /\ line # 0 => busy' = 0
    BY DEF ServerReplies, ServerNotes, Say, Serve
  <1>4. /\ Len(served) \in Nat /\ DOMAIN served = 1..Len(served)
        /\ DOMAIN served' = 1..(Len(served) + 1)
        /\ \A j \in 1..Len(served) : served'[j] = served[j]
        /\ served'[Len(served) + 1] = line
    BY <1>1, <1>3
  <1>5. Modes' /\ Increasing' /\ NotYet' /\ AnsweredBefore'
    BY <1>2 DEF OrderInv, Modes, Increasing, NotYet, AnsweredBefore
  <1>6. ServedRead'
    <2>1. line # 0 => read \in 1..read /\ line = forwarded[read]
      BY <1>1, <1>3 DEF OrderInv, AtWork
    <2>2. \A j \in 1..Len(served) :
            served[j] # 0 => \E i \in 1..read : served[j] = forwarded[i]
      BY <1>4 DEF OrderInv, ServedRead
    <2> QED BY <1>2, <1>4, <2>1, <2>2 DEF ServedRead
  <1>7. ServedOnce'
    <2>1. line # 0 => \A j \in 1..Len(served) : served[j] # line
      BY <1>3, <1>4 DEF OrderInv, AtWork
    <2>2. \A j \in 1..Len(served), k \in 1..Len(served) :
            j < k /\ served[j] # 0 => served[j] # served[k]
      BY <1>4 DEF OrderInv, ServedOnce
    <2> QED BY <1>4, <2>1, <2>2 DEF ServedOnce
  <1>8. AtWork'
    <2> SUFFICES ASSUME busy' # 0
                 PROVE  /\ read > 0 /\ busy = forwarded[read] /\ busy' = busy /\ line = 0
                        /\ \A j \in 1..Len(served) : served[j] # busy
      BY <1>2, <1>4 DEF AtWork
    <2>1. line = 0 /\ busy' = busy
      BY <1>3
    <2> QED BY <1>4, <2>1 DEF OrderInv, AtWork
  <1>9. RelayedOnly'
    <2>1. \A j \in 1..relayed : served'[j] = served[j]
      BY <1>1, <1>4
    <2> QED BY <1>2, <2>1 DEF OrderInv, RelayedOnly
  <1> QED BY <1>5, <1>6, <1>7, <1>8, <1>9 DEF OrderInv

\* The forwarder takes a message from the child.
LEMMA OrderRelay ==
  ASSUME TypeInv, OrderInv, Relay
  PROVE  OrderInv'
  <1>1. /\ taken \in Nat /\ served \in Seq(0..taken) /\ relayed \in 0..Len(served)
        /\ forwarded \in Seq(1..taken) /\ read \in 0..Len(forwarded)
        /\ Len(output) \in Nat /\ DOMAIN output = 1..Len(output) /\ ExchangeTypeOK
    BY TypeFacts DEF TypeInv
  <1>2. /\ relayed < Len(served) /\ relayed' = relayed + 1
        /\ UNCHANGED <<upstream, taken, loop, forwarded, read, busy, served>>
    BY DEF Relay, loopVars, serverVars
  <1>3. relayed + 1 \in DOMAIN served /\ relayed + 1 \in 1..(relayed + 1)
    BY <1>1, <1>2
  <1>4. /\ Modes' /\ Increasing' /\ NotYet' /\ AtWork' /\ ServedRead' /\ ServedOnce'
    BY <1>2 DEF OrderInv, Modes, Increasing, NotYet, AtWork, ServedRead, ServedOnce
  <1>5. \A j \in 1..relayed : j \in 1..(relayed + 1)
    BY <1>1
  <1>6. CASE UNCHANGED output
    <2>1. RelayedOnly' /\ AnsweredBefore'
      BY <1>2, <1>5, <1>6 DEF OrderInv, RelayedOnly, AnsweredBefore
    <2> QED BY <1>4, <2>1 DEF OrderInv
  <1>7. CASE Give(Message(served[relayed + 1], "server"))
    <2>1. /\ DOMAIN output' = 1..(Len(output) + 1)
          /\ \A i \in 1..Len(output) : output'[i] = output[i]
          /\ output'[Len(output) + 1] = [line |-> served[relayed + 1], by |-> "server"]
      BY <1>1, <1>7, GiveEffect
    <2>2. RelayedOnly'
      <3>1. upstream = "stdio" =>
              \A i \in 1..Len(output) :
                \/ output[i].line = 0
                \/ output[i].by = "gateway"
                \/ \E j \in 1..(relayed + 1) : served[j] = output[i].line
        BY <1>1, <1>5 DEF OrderInv, RelayedOnly
      <3>2. output'[Len(output) + 1].line = served[relayed + 1]
        BY <2>1
      <3>3. ASSUME upstream = "stdio", NEW i \in 1..(Len(output) + 1)
            PROVE  \/ output'[i].line = 0
                   \/ output'[i].by = "gateway"
                   \/ \E j \in 1..(relayed + 1) : served[j] = output'[i].line
        <4>1. CASE i \in 1..Len(output)
          BY <2>1, <3>1, <3>3, <4>1
        <4>2. CASE i = Len(output) + 1
          BY <1>3, <3>2, <4>2
        <4> QED BY <1>1, <4>1, <4>2
      <3> QED BY <1>2, <2>1, <3>3 DEF RelayedOnly
    <2>3. AnsweredBefore'
      <3> SUFFICES ASSUME loop \notin {"read", "ended"}
                   PROVE  \A i \in DOMAIN output' : output'[i].line # taken
        BY <1>2 DEF AnsweredBefore
      <3>1. taken > 0
        BY DEF TypeInv, InHand
      <3>2. loop \in {"inspect", "answer", "forward"}
        <4>1. upstream # "http"
          BY <1>1, <1>2 DEF OrderInv, Modes
        <4> QED BY <1>1, <4>1 DEF OrderInv, Modes, ExchangeTypeOK
      <3>3. served[relayed + 1] # taken
        <4>1. CASE served[relayed + 1] = 0
          BY <1>1, <3>1, <4>1
        <4>2. CASE served[relayed + 1] # 0
          <5>1. PICK i \in 1..read : served[relayed + 1] = forwarded[i]
            BY <1>3, <4>2 DEF OrderInv, ServedRead
          <5>2. i \in DOMAIN forwarded
            BY <1>1
          <5> QED BY <3>2, <5>1, <5>2 DEF OrderInv, NotYet
        <4> QED BY <4>1, <4>2
      <3>4. \A i \in 1..Len(output) : output[i].line # taken
        BY <1>1 DEF OrderInv, AnsweredBefore
      <3>5. output'[Len(output) + 1].line = served[relayed + 1]
        BY <2>1
      <3>6. ASSUME NEW i \in 1..(Len(output) + 1)
            PROVE  output'[i].line # taken
        <4>1. CASE i \in 1..Len(output)
          BY <2>1, <3>4, <4>1
        <4>2. CASE i = Len(output) + 1
          BY <3>3, <3>5, <4>2
        <4> QED BY <1>1, <4>1, <4>2
      <3> QED BY <2>1, <3>6
    <2> QED BY <1>4, <2>2, <2>3 DEF OrderInv
  <1> QED BY <1>6, <1>7 DEF Relay

\* Each action keeps OrderInv (run_proxy, run_proxy_http).
LEMMA OrderInvariant == SafeSpec => []OrderInv
  <1>1. Init => OrderInv
    BY DEF Init, OrderInv, Modes, Increasing, NotYet, AtWork, ServedRead, ServedOnce,
           RelayedOnly, AnsweredBefore
  <1>2. TypeInv /\ OrderInv /\ [Next]_vars => OrderInv'
    <2> SUFFICES ASSUME TypeInv, OrderInv, [Next]_vars
                 PROVE  OrderInv'
      OBVIOUS
    <2>a. /\ upstream \in {"stdio", "http"} /\ ExchangeTypeOK
          /\ taken \in Nat /\ forwarded \in Seq(1..taken)
          /\ Len(output) \in Nat /\ DOMAIN output = 1..Len(output)
          /\ \A i \in 1..Len(output) : output[i].line \in 0..taken
      BY TypeFacts DEF TypeInv, ExchangeTypeOK
    <2>1. CASE ClientStep
      <3>1. UNCHANGED <<upstream, taken, loop, forwarded, read, busy, served, relayed, output>>
        BY <2>1
        DEF ClientStep, ClientWrites, ClientReads, ClientLeaves, loopVars, serverVars
      <3> QED BY <2>a, <3>1, OrderKept
    <2>2. CASE EndOfInput \/ WriteFails \/ Refuse \/ Connect \/ Clear
      <3>1. /\ UNCHANGED <<upstream, taken, forwarded, read, served, relayed, output>>
            /\ busy' \in {busy, 0}
        BY <2>2
        DEF EndOfInput, WriteFails, Refuse, Connect, Clear, serverVars
      <3>2. \/ loop' \in {"read", "ended"}
            \/ loop = "inspect" /\ loop' = "answer"
            \/ loop = "inspect" /\ loop' = IF upstream = "stdio" THEN "forward" ELSE "connect"
            \/ loop = "connect" /\ loop' = "send"
        BY <2>2 DEF EndOfInput, WriteFails, Refuse, Connect, Clear, Goes
      <3> QED BY <2>a, <3>1, <3>2, OrderKept
    <2>3. ASSUME NEW message \in Found, Receive(message) \/ ReceiveNothing(message)
          PROVE  OrderInv'
      BY <2>3, <2>a, OrderKept DEF Receive, ReceiveNothing, Goes, serverVars
    <2>4. CASE Take
      <3>1. /\ taken' = taken + 1 /\ loop = "read" /\ loop' \in {"read", "inspect"}
            /\ UNCHANGED <<upstream, forwarded, read, busy, served, relayed, output>>
        BY <2>4 DEF Take, Goes, serverVars
      <3>2. \A i \in DOMAIN forwarded : forwarded[i] # taken'
        BY <2>a, <3>1
      <3>3. \A i \in DOMAIN output : output[i].line # taken'
        BY <2>a, <3>1
      <3>4. Modes' /\ Increasing' /\ AtWork' /\ ServedRead' /\ ServedOnce' /\ RelayedOnly'
        BY <3>1 DEF OrderInv, Modes, Increasing, AtWork, ServedRead, ServedOnce, RelayedOnly
      <3>5. NotYet' /\ AnsweredBefore'
        BY <3>1, <3>2, <3>3 DEF NotYet, AnsweredBefore
      <3> QED BY <3>4, <3>5 DEF OrderInv
    <2>5. CASE Answer \/ Reply \/ ReplyError
      <3>1. PICK by \in {"gateway", "server", "error"} :
              /\ Give(Message(taken, by))
              /\ upstream = "stdio" => by = "gateway"
        <4>1. CASE Answer
          BY <4>1 DEF Answer
        <4>2. CASE Reply \/ ReplyError
          BY <4>2 DEF Reply, ReplyError, Goes, OrderInv, Modes
        <4> QED BY <2>5, <4>1, <4>2
      <3>2. /\ loop' = "read"
            /\ UNCHANGED <<upstream, taken, forwarded, read, busy, served, relayed>>
        BY <2>5 DEF Answer, Reply, ReplyError, Goes, serverVars
      <3>3. /\ DOMAIN output' = 1..(Len(output) + 1)
            /\ \A i \in 1..Len(output) : output'[i] = output[i]
            /\ output'[Len(output) + 1] = [line |-> taken, by |-> by]
        BY <2>a, <3>1, GiveEffect
      <3>4. /\ Modes' /\ Increasing' /\ NotYet' /\ AtWork' /\ ServedRead' /\ ServedOnce'
            /\ AnsweredBefore'
        BY <3>2
        DEF OrderInv, Modes, Increasing, NotYet, AtWork, ServedRead, ServedOnce, AnsweredBefore
      <3>5. RelayedOnly'
        <4> SUFFICES ASSUME upstream = "stdio", NEW i \in 1..(Len(output) + 1)
                     PROVE  \/ output'[i].line = 0
                            \/ output'[i].by = "gateway"
                            \/ \E j \in 1..relayed : served[j] = output'[i].line
          BY <3>2, <3>3 DEF RelayedOnly
        <4>1. CASE i \in 1..Len(output)
          BY <2>a, <3>3, <4>1 DEF OrderInv, RelayedOnly
        <4>2. CASE i = Len(output) + 1
          BY <3>1, <3>3, <4>2
        <4> QED BY <2>a, <4>1, <4>2
      <3> QED BY <3>4, <3>5 DEF OrderInv
    <2>6. CASE Forward \/ Send
      BY <2>6, OrderForward DEF Forward, Send, Goes, serverVars
    <2>7. CASE SendFails
      <3>1. /\ UNCHANGED <<upstream, taken, read, busy, served, relayed, output>>
            /\ loop \in {"connect", "send", "receive"} /\ loop' = "error"
        BY <2>7 DEF SendFails, serverVars
      <3>2. CASE UNCHANGED forwarded
        BY <2>a, <3>1, <3>2, OrderKept
      <3>3. CASE loop = "send" /\ forwarded' = Append(forwarded, taken)
        BY <3>1, <3>3, OrderForward
      <3> QED BY <2>7, <3>2, <3>3 DEF SendFails
    <2>8. CASE \/ ServerIsSilent \/ ServerGarbles \/ ServerDeafens \/ ServerExits
               \/ (ServerReplies \/ ServerNotes) /\ served' = served
      <3>1. /\ UNCHANGED <<upstream, taken, loop, forwarded, read, served, relayed, output>>
            /\ busy' \in {busy, 0}
        BY <2>8
        DEF ServerIsSilent, ServerGarbles, ServerDeafens, ServerExits, ServerReplies,
            ServerNotes, loopVars
      <3> QED BY <2>a, <3>1, OrderKept
    <2>9. CASE UNCHANGED vars
      BY <2>9, <2>a, OrderKept DEF vars, clientVars, loopVars, serverVars
    <2> QED
      BY <2>1, <2>2, <2>3, <2>4, <2>5, <2>6, <2>7, <2>8, <2>9, OrderRelay, OrderRead,
         OrderServe
      DEF Next, LoopStep, ServerStep
  <1> QED BY <1>1, <1>2, TypeInvariant, PTL DEF SafeSpec

-----------------------------------------------------------------------------
(* The loops implement Mediation *)

Judged == [i \in 1..Decided |-> VerdictOn(i)]

\* The list of verdicts grows by one.
LEMMA JudgedGrows ==
  ASSUME NEW verdict, NEW n \in Nat, Decided = n, Decided' = n + 1,
         \A i \in 1..n : VerdictOn(i)' = VerdictOn(i),
         VerdictOn(n + 1)' = verdict
  PROVE  Judged' = Append(Judged, verdict)
  <1> DEFINE f == [i \in 1..n |-> VerdictOn(i)]
             g == [i \in 1..(n + 1) |-> VerdictOn(i)']
  <1>1. Judged = f /\ Judged' = g
    BY DEF Judged
  <1>2. Len(f) = n
    OBVIOUS
  <1>3. Append(f, verdict) = [i \in 1..(n + 1) |-> IF i = n + 1 THEN verdict ELSE f[i]]
    BY <1>2
  <1>4. ASSUME NEW i \in 1..(n + 1)
        PROVE  g[i] = IF i = n + 1 THEN verdict ELSE f[i]
    <2>1. g[i] = VerdictOn(i)'
      OBVIOUS
    <2>2. CASE i = n + 1
      BY <2>1, <2>2
    <2>3. CASE i \in 1..n
      <3>1. i # n + 1 /\ f[i] = VerdictOn(i)
        BY <2>3
      <3> QED BY <2>1, <2>3, <3>1
    <2> QED BY <2>2, <2>3
  <1>5. g = Append(f, verdict)
    BY <1>3, <1>4
  <1> QED BY <1>1, <1>5

\* Who has an answer after Give.
LEMMA AnsweredGrows ==
  ASSUME ExchangeTypeOK, NEW line, NEW by, Give(Message(line, by))
  PROVE  Answered' = (Answered \cup {line}) \ {0}
  <1>1. /\ Len(output) \in Nat /\ DOMAIN output = 1..Len(output)
        /\ DOMAIN output' = 1..(Len(output) + 1)
        /\ \A i \in 1..Len(output) : output'[i] = output[i]
        /\ output'[Len(output) + 1] = [line |-> line, by |-> by]
    BY TypeFacts, GiveEffect
  <1>2. output'[Len(output) + 1].line = line
    BY <1>1
  <1>3. {output'[i].line : i \in 1..(Len(output) + 1)}
          = {output[i].line : i \in 1..Len(output)} \cup {line}
    <2>1. \A i \in 1..(Len(output) + 1) : i \in 1..Len(output) \/ i = Len(output) + 1
      BY <1>1
    <2>2. Len(output) + 1 \in 1..(Len(output) + 1)
          /\ \A i \in 1..Len(output) : i \in 1..(Len(output) + 1)
      BY <1>1
    <2> QED BY <1>1, <1>2, <2>1, <2>2
  <1> QED BY <1>1, <1>3 DEF Answered

ExInv == TypeInv /\ ClearedInv /\ OrderInv

\* What the mapping needs of a line that was passed or refused.
LEMMA Verdicts ==
  ASSUME ExInv
  PROVE  /\ Decided \in Nat /\ DOMAIN Judged = 1..Decided
         /\ \A i \in cleared : i \in 1..Decided /\ Judged[i] = "passed"
         /\ loop = "answer" => taken \in 1..Decided /\ Judged[taken] = "refused"
  <1>1. taken \in Nat /\ cleared \subseteq 1..taken
    BY TypeFacts DEF ExInv, TypeInv
  <1>2. Decided \in Nat /\ DOMAIN Judged = 1..Decided
    BY <1>1 DEF Decided, Judged, ExInv, TypeInv, InHand
  <1>3. ASSUME NEW i \in cleared
        PROVE  i \in 1..Decided /\ Judged[i] = "passed"
    <2>1. i \in 1..Decided
      BY <1>1 DEF Decided, ExInv, ClearedInv, HandCleared
    <2>2. lines[i] # Blank
      BY DEF ExInv, ClearedInv, PassedParse
    <2> QED BY <2>1, <2>2 DEF Judged, VerdictOn
  <1>4. ASSUME loop = "answer"
        PROVE  taken \in 1..Decided /\ Judged[taken] = "refused"
    <2>1. taken \in 1..Decided
      BY <1>1, <1>4 DEF Decided, ExInv, TypeInv, InHand
    <2>2. lines[taken] # Blank /\ taken \notin cleared
      BY <1>4 DEF ExInv, TypeInv, InHand, ClearedInv, HandCleared
    <2> QED BY <2>1, <2>2 DEF Judged, VerdictOn
  <1> QED BY <1>2, <1>3, <1>4

\* The loop comes to a verdict.
LEMMA Judges ==
  ASSUME ExInv, NEW verdict \in {"skipped", "refused", "passed"},
         NEW n \in Nat, Decided = n, Decided' = n + 1, UNCHANGED <<lines, forwarded, output>>,
         cleared' \in {cleared, cleared \cup {n + 1}},
         VerdictOn(n + 1)' = verdict
  PROVE  Promise!Next
  <1>1. \A i \in 1..n : VerdictOn(i)' = VerdictOn(i)
    BY DEF VerdictOn
  <1>2. Judged' = Append(Judged, verdict)
    BY <1>1, JudgedGrows
  <1>3. Answered' = Answered
    BY DEF Answered
  <1> QED
    BY <1>2, <1>3 DEF Promise!Next, Promise!Judge, Promise!Verdicts, Judged

\* Verdicts on earlier lines do not change.
LEMMA JudgedKept ==
  ASSUME Decided' = Decided, cleared' = cleared,
         \A i \in 1..Decided : lines'[i] = lines[i]
  PROVE  Judged' = Judged
  BY DEF Judged, VerdictOn

\* A line is answered.
LEMMA Answers ==
  ASSUME ExInv, NEW line \in Nat, NEW by, Give(Message(line, by)),
         line # 0 => /\ line \in 1..Decided /\ Judged[line] \in {"refused", "passed"}
                     /\ line \notin Answered,
         UNCHANGED <<forwarded, cleared, lines>>, Decided' = Decided
  PROVE  [Promise!Next]_<<Judged, forwarded, Answered>>
  <1>1. Judged' = Judged
    BY JudgedKept
  <1>2. Answered' = (Answered \cup {line}) \ {0}
    BY AnsweredGrows DEF ExInv, TypeInv
  <1>3. 0 \notin Answered
    BY DEF Answered
  <1>4. CASE line = 0
    <2>1. Answered' = Answered
      BY <1>2, <1>3, <1>4
    <2> QED BY <1>1, <2>1
  <1>5. CASE line # 0
    <2>1. Answered' = Answered \cup {line}
      BY <1>2, <1>3, <1>5
    <2>2. line \in DOMAIN Judged
      BY <1>5, Verdicts
    <2> QED
      BY <1>1, <1>5, <2>1, <2>2 DEF Promise!Next, Promise!Answer, Judged
  <1> QED BY <1>4, <1>5

\* A line reaches the server.
LEMMA Reaches ==
  ASSUME ExInv, loop \in {"forward", "send"}, forwarded' = Append(forwarded, taken),
         UNCHANGED <<lines, cleared, output>>, Decided' = Decided
  PROVE  Promise!Next
  <1>1. Judged' = Judged /\ Answered' = Answered
    BY JudgedKept DEF Answered
  <1>2. taken \in DOMAIN Judged /\ Judged[taken] = "passed"
    BY Verdicts DEF ExInv, ClearedInv, HandCleared
  <1>3. \A other \in Promise!Reached : other < taken
    <2>1. forwarded \in Seq(1..taken) /\ taken \in Nat
      BY TypeFacts DEF ExInv, TypeInv
    <2>2. \A i \in DOMAIN forwarded : forwarded[i] < taken
      BY <2>1 DEF ExInv, OrderInv, NotYet
    <2> QED BY <2>2 DEF Promise!Reached
  <1> QED BY <1>1, <1>2, <1>3 DEF Promise!Next, Promise!Reach, Judged

\* Every line of the client is judged once and in order, the server gets what was
\* passed in that order and once, and no line is answered twice (run_proxy,
\* run_proxy_http).
THEOREM ExchangeImplementsMediation == SafeSpec => ImplementsMediation
  <1>1. Init => Promise!Init
    BY DEF Init, Promise!Init, Decided, Answered
  <1>2. ExInv /\ [Next]_vars => [Promise!Next]_<<Judged, forwarded, Answered>>
    <2> SUFFICES ASSUME ExInv, [Next]_vars
                 PROVE  [Promise!Next]_<<Judged, forwarded, Answered>>
      OBVIOUS
    <2>a. /\ taken \in Nat /\ Len(lines) \in Nat /\ taken <= Len(lines)
          /\ lines \in Seq(Written)
      BY TypeFacts DEF ExInv, TypeInv
    <2>b. Decided \in Nat /\ Decided <= taken
      BY <2>a, Verdicts DEF Decided
    <2>1. ASSUME NEW shape \in Written, ClientWrites(shape)
          PROVE  UNCHANGED <<Judged, forwarded, Answered>>
      <3>1. /\ lines' = Append(lines, shape)
            /\ UNCHANGED <<taken, loop, cleared, forwarded, output>>
        BY <2>1 DEF ClientWrites, loopVars
      <3>2. \A i \in 1..Decided : lines'[i] = lines[i]
        BY <2>a, <2>b, <3>1
      <3>3. Decided' = Decided
        BY <3>1 DEF Decided
      <3> QED BY <3>1, <3>2, <3>3, JudgedKept DEF Answered
    <2>2. ASSUME UNCHANGED <<lines, taken, cleared, forwarded, output>>,
                 loop = "inspect" <=> loop' = "inspect"
          PROVE  UNCHANGED <<Judged, forwarded, Answered>>
      BY <2>2, JudgedKept DEF Decided, Answered
    <2>3. CASE \/ ClientReads \/ (\E how \in {"closed", "gone"} : ClientLeaves(how))
               \/ ServerStep \/ UNCHANGED vars
      <3>1. UNCHANGED <<lines, taken, loop, cleared, forwarded, output>>
        BY <2>3
        DEF ClientReads, ClientLeaves, ServerStep, ServerReads, ServerReplies,
            ServerIsSilent, ServerNotes, ServerGarbles, ServerDeafens, ServerExits, vars,
            clientVars, loopVars
      <3> QED BY <2>2, <3>1
    <2>4. CASE EndOfInput \/ WriteFails \/ Connect
      BY <2>2, <2>4 DEF EndOfInput, WriteFails, Connect, Goes, clientVars
    <2>5. ASSUME NEW message \in Found, Receive(message) \/ ReceiveNothing(message)
          PROVE  UNCHANGED <<Judged, forwarded, Answered>>
      BY <2>2, <2>5 DEF Receive, ReceiveNothing, Goes, clientVars
    <2>6. CASE Take
      <3>1. /\ taken' = taken + 1 /\ loop = "read"
            /\ loop' = IF lines[taken + 1] = Blank THEN "read" ELSE "inspect"
            /\ UNCHANGED <<lines, cleared, forwarded, output>>
        BY <2>6 DEF Take, Goes, clientVars
      <3>2. CASE lines[taken + 1] = Blank
        <4>1. PICK n \in Nat : n = taken
          BY <2>a
        <4>2. Decided = n /\ Decided' = n + 1
          BY <3>1, <3>2, <4>1 DEF Decided
        <4>3. VerdictOn(n + 1)' = "skipped"
          BY <3>1, <3>2, <4>1 DEF VerdictOn
        <4> QED BY <3>1, <4>2, <4>3, Judges
      <3>3. CASE lines[taken + 1] # Blank
        <4>1. Decided' = Decided
          BY <2>a, <3>1, <3>3 DEF Decided
        <4> QED BY <3>1, <4>1, JudgedKept DEF Answered
      <3> QED BY <3>2, <3>3
    <2>7. CASE Refuse \/ Clear
      <3>1. /\ loop = "inspect" /\ loop' # "inspect"
            /\ UNCHANGED <<lines, taken, forwarded, output>>
        BY <2>7 DEF Refuse, Clear, Goes, clientVars
      <3>2. PICK n \in Nat : n = taken - 1
        BY <2>a, <3>1 DEF ExInv, TypeInv, InHand
      <3>3. Decided = n /\ Decided' = n + 1 /\ taken = n + 1
        BY <2>a, <3>1, <3>2 DEF Decided
      <3>4. lines[n + 1] # Blank /\ n + 1 \notin cleared
        BY <3>1, <3>3 DEF ExInv, TypeInv, InHand, ClearedInv, HandCleared
      <3>5. CASE Refuse
        <4>1. cleared' = cleared
          BY <3>5 DEF Refuse
        <4>2. VerdictOn(n + 1)' = "refused"
          BY <3>1, <3>4, <4>1 DEF VerdictOn
        <4> QED BY <3>1, <3>3, <4>1, <4>2, Judges
      <3>6. CASE Clear
        <4>1. cleared' = cleared \cup {n + 1}
          BY <3>3, <3>6 DEF Clear
        <4>2. VerdictOn(n + 1)' = "passed"
          BY <3>1, <3>4, <4>1 DEF VerdictOn
        <4> QED BY <3>1, <3>3, <4>1, <4>2, Judges
      <3> QED BY <2>7, <3>5, <3>6
    <2>8. CASE Answer \/ Reply \/ ReplyError
      <3>1. PICK by : Give(Message(taken, by))
        BY <2>8 DEF Answer, Reply, ReplyError
      <3>2. /\ UNCHANGED <<forwarded, cleared, lines, taken>>
            /\ loop \in {"answer", "reply", "error"} /\ loop' = "read"
        BY <2>8 DEF Answer, Reply, ReplyError, Goes, clientVars
      <3>3. Decided' = Decided
        BY <3>2 DEF Decided
      <3>4. taken \in 1..Decided /\ Judged[taken] \in {"refused", "passed"}
        BY <3>2, Verdicts DEF ExInv, ClearedInv, HandCleared
      <3>5. taken \notin Answered
        BY <3>2 DEF Answered, ExInv, OrderInv, AnsweredBefore
      <3> QED BY <2>a, <3>1, <3>2, <3>3, <3>4, <3>5, Answers
    <2>9. CASE Forward \/ Send \/ SendFails
      <3>1. /\ UNCHANGED <<lines, taken, cleared, output>>
            /\ loop # "inspect" /\ loop' # "inspect"
        BY <2>9 DEF Forward, Send, SendFails, Goes, clientVars
      <3>2. CASE UNCHANGED forwarded
        BY <2>2, <3>1, <3>2
      <3>3. CASE loop \in {"forward", "send"} /\ forwarded' = Append(forwarded, taken)
        BY <3>1, <3>3, Reaches DEF Decided
      <3> QED BY <2>9, <3>2, <3>3 DEF Forward, Send, SendFails, Goes
    <2>10. CASE Relay
      <3>1. /\ UNCHANGED <<upstream, lines, taken, loop, cleared, forwarded, served>>
            /\ relayed < Len(served) /\ loop # "ended"
        BY <2>10 DEF Relay, clientVars, loopVars, serverVars
      <3>2. CASE UNCHANGED output
        BY <2>2, <3>1, <3>2
      <3>3. CASE Give(Message(served[relayed + 1], "server"))
        <4>1. /\ served \in Seq(0..taken) /\ relayed \in 0..Len(served)
              /\ forwarded \in Seq(1..taken) /\ read \in 0..Len(forwarded)
              /\ upstream \in {"stdio", "http"}
          BY TypeFacts DEF ExInv, TypeInv, ExchangeTypeOK
        <4>2. /\ relayed + 1 \in DOMAIN served /\ served[relayed + 1] \in Nat
              /\ \A j \in 1..relayed : j \in DOMAIN served /\ j < relayed + 1
          BY <3>1, <4>1, <2>a
        <4>3. Decided' = Decided
          BY <3>1 DEF Decided
        <4>4. ASSUME served[relayed + 1] # 0
              PROVE  /\ served[relayed + 1] \in 1..Decided
                     /\ Judged[served[relayed + 1]] = "passed"
                     /\ served[relayed + 1] \notin Answered
          <5>1. PICK i \in 1..read : served[relayed + 1] = forwarded[i]
            BY <4>2, <4>4 DEF ExInv, OrderInv, ServedRead
          <5>2. served[relayed + 1] \in cleared
            <6>1. i \in DOMAIN forwarded
              BY <4>1
            <6> QED BY <5>1, <6>1 DEF ExInv, ClearedInv, ForwardedCleared
          <5>3. upstream = "stdio"
            BY <4>1, <4>2 DEF ExInv, OrderInv, Modes
          <5>4. ASSUME NEW k \in DOMAIN output, output[k].line = served[relayed + 1]
                PROVE  FALSE
            <6>1. output[k].by # "gateway"
              BY <5>2, <5>4 DEF ExInv, ClearedInv, OwnAnswers
            <6>2. PICK j \in 1..relayed : served[j] = served[relayed + 1]
              BY <4>4, <5>3, <5>4, <6>1 DEF ExInv, OrderInv, RelayedOnly
            <6> QED BY <4>2, <4>4, <6>2 DEF ExInv, OrderInv, ServedOnce
          <5>5. served[relayed + 1] \notin Answered
            BY <5>4 DEF Answered
          <5> QED BY <5>2, <5>5, Verdicts
        <4> QED BY <3>1, <3>3, <4>2, <4>3, <4>4, Answers
      <3> QED BY <2>10, <3>2, <3>3 DEF Relay
    <2> QED
      BY <2>1, <2>3, <2>4, <2>5, <2>6, <2>7, <2>8, <2>9, <2>10
      DEF Next, ClientStep, LoopStep
  <1>3. SafeSpec => []ExInv
    BY TypeInvariant, ClearedInvariant, OrderInvariant, PTL DEF ExInv
  <1> QED
    BY <1>1, <1>2, <1>3, PTL DEF SafeSpec, ImplementsMediation, Promise!Spec, Judged

-----------------------------------------------------------------------------
(* Event streams: what split("\n\n") cuts out is what empty lines dispatch. *)

Earlier == {pair \in Nat \X Nat : pair[1] < pair[2]}

\* Of some places one is the first.
LEMMA LeastPlace ==
  ASSUME NEW S, S \subseteq Nat, S # {}
  PROVE  \E i \in S : \A j \in S : i <= j
  <1>1. IsWellFoundedOn(Earlier, Nat)
    BY NatLessThanWellFounded DEF OpToRel, Earlier
  <1>2. PICK i \in S : \A j \in S : <<j, i>> \notin Earlier
    BY <1>1, WFMin
  <1>3. ASSUME NEW j \in S PROVE i <= j
    <2>1. i \in Nat /\ j \in Nat /\ <<j, i>> \notin Earlier
      BY <1>2
    <2>2. ~(j < i)
      BY <2>1 DEF Earlier
    <2> QED BY <2>1, <2>2
  <1> QED BY <1>3

\* The line ends before a place, if there is an odd number of them: the one directly
\* before it has one less before it.
LEMMA OddEnds ==
  ASSUME NEW text, NEW i \in Nat \ {0}, EndsBefore(text, i) % 2 # 0
  PROVE  /\ i > 1
         /\ text[i - 1] = "LF"
         /\ EndsBefore(text, i - 1) % 2 = 0
  <1> DEFINE Run(n) == {j \in 1..(n - 1) : \A k \in j..(n - 1) : text[k] = "LF"}
  <1>1. Run(i) # {}
    <2>1. Cardinality({}) = 0
      BY FS_EmptySet
    <2> QED BY <2>1 DEF EndsBefore
  <1>2. i > 1 /\ text[i - 1] = "LF"
    BY <1>1
  <1>3. IsFiniteSet(Run(i - 1))
    <2>1. IsFiniteSet(1..(i - 2))
      BY <1>2, FS_Interval
    <2>2. Run(i - 1) \in SUBSET (1..(i - 2))
      BY <1>2
    <2> QED BY <2>1, <2>2, FS_Subset
  <1>4. Run(i) = Run(i - 1) \cup {i - 1} /\ i - 1 \notin Run(i - 1)
    BY <1>2
  <1>5. Cardinality(Run(i)) = Cardinality(Run(i - 1)) + 1 /\ Cardinality(Run(i - 1)) \in Nat
    <2> HIDE DEF Run
    <2> QED BY <1>3, <1>4, FS_AddElement, FS_CardinalityType
  <1>6. EndsBefore(text, i) = EndsBefore(text, i - 1) + 1 /\ EndsBefore(text, i - 1) \in Nat
    BY <1>5 DEF EndsBefore
  <1> QED BY <1>2, <1>6

\* What replace("\r\n", "\n") keeps (Normalized).
LEMMA NormalizedPlaces ==
  ASSUME NEW S, NEW body \in Seq(S)
  PROVE  LET text == Normalized(body)
         IN  /\ Len(text) = Len(body) /\ Len(text) \in Nat
             /\ DOMAIN text = 1..Len(text) /\ DOMAIN body = 1..Len(text)
             /\ \A i \in DOMAIN text : /\ text[i] = "LF" <=> body[i] \in LineEnds
                                       /\ text[i] \in DataLines <=> body[i] \in DataLines
                                       /\ text[i] = "frame" <=> body[i] = "frame"
  <1> DEFINE text == Normalized(body)
  <1>1. Len(body) \in Nat /\ DOMAIN body = 1..Len(body)
    OBVIOUS
  <1>2. text \in [1..Len(body) -> S \cup {"LF"}]
    BY <1>1 DEF Normalized
  <1>3. text \in Seq(S \cup {"LF"}) /\ Len(text) = Len(body)
    BY <1>1, <1>2, LenProperties
  <1>4. \A i \in 1..Len(body) : text[i] = IF body[i] = "CRLF" THEN "LF" ELSE body[i]
    BY <1>1 DEF Normalized
  <1>5. DOMAIN text = 1..Len(body)
    BY <1>2
  <1> HIDE DEF text
  <1>6. /\ Len(text) = Len(body) /\ Len(text) \in Nat
        /\ DOMAIN text = 1..Len(text) /\ DOMAIN body = 1..Len(text)
        /\ \A i \in DOMAIN text : /\ text[i] = "LF" <=> body[i] \in LineEnds
                                  /\ text[i] \in DataLines <=> body[i] \in DataLines
                                  /\ text[i] = "frame" <=> body[i] = "frame"
    BY <1>1, <1>3, <1>4, <1>5 DEF LineEnds, DataLines
  <1> QED BY <1>6 DEF text

\* A separator leaves an empty line behind it (Cuts).
LEMMA CutLeavesEmpty ==
  ASSUME NEW S, NEW body \in Seq(S), NEW c \in Cuts(Normalized(body))
  PROVE  /\ c \in Nat /\ Normalized(body)[c + 1] = "LF" /\ c + 1 \in EmptyLines(body)
  <1> DEFINE text == Normalized(body)
  <1>1. c \in 1..(Len(text) - 1) /\ text[c] = "LF" /\ text[c + 1] = "LF"
    BY DEF Cuts
  <1> HIDE DEF text
  <1>2. c \in DOMAIN text /\ c + 1 \in DOMAIN text /\ (c + 1) - 1 = c
    BY <1>1, NormalizedPlaces DEF text
  <1> QED BY <1>1, <1>2, NormalizedPlaces DEF text, EmptyLines

\* An empty line after a place that is no line end has a separator between the two: it
\* begins at the line end before the empty line, or at the one before that.
LEMMA EmptyIsCut ==
  ASSUME NEW S, NEW body \in Seq(S), NEW e \in EmptyLines(body),
         NEW i \in DOMAIN body, i < e, body[i] \notin LineEnds
  PROVE  \E c \in Cuts(Normalized(body)) : i < c /\ c < e
  <1> DEFINE text == Normalized(body)
  <1>1. /\ DOMAIN text = 1..Len(text) /\ DOMAIN body = 1..Len(text) /\ Len(text) \in Nat
        /\ \A k \in 1..Len(text) : text[k] = "LF" <=> body[k] \in LineEnds
    BY NormalizedPlaces
  <1> HIDE DEF text
  <1>2. i \in 1..Len(text) /\ e \in 2..Len(text) /\ text[e] = "LF" /\ text[i] # "LF"
    BY <1>1 DEF EmptyLines
  <1>3. e - 1 \in 1..Len(text) /\ text[e - 1] = "LF" /\ i < e - 1
    <2>1. body[e - 1] \in LineEnds
      BY <1>1, <1>2 DEF EmptyLines
    <2>2. text[e - 1] = "LF"
      BY <1>1, <1>2, <2>1
    <2> QED BY <1>2, <2>2
  <1>4. CASE EndsBefore(text, e - 1) % 2 = 0
    <2>1. e - 1 \in Cuts(text)
      BY <1>2, <1>3, <1>4 DEF Cuts
    <2> QED BY <1>2, <1>3, <2>1 DEF text
  <1>5. CASE EndsBefore(text, e - 1) % 2 # 0
    <2>1. /\ e - 1 > 1 /\ text[(e - 1) - 1] = "LF"
          /\ EndsBefore(text, (e - 1) - 1) % 2 = 0
      BY <1>3, <1>5, OddEnds
    <2>2. (e - 1) - 1 = e - 2 /\ (e - 2) + 1 = e - 1 /\ i < e - 2
      BY <1>2, <1>3, <2>1
    <2>3. e - 2 \in Cuts(text)
      BY <1>2, <1>3, <2>1, <2>2 DEF Cuts
    <2> QED BY <1>2, <2>2, <2>3 DEF text
  <1> QED BY <1>4, <1>5

\* Two data lines are in one block of the text just if no empty line of the body is
\* between them (parse_sse_stream).
LEMMA SameEvents ==
  ASSUME NEW S, NEW body \in Seq(S), NEW i \in DOMAIN body, body[i] \in DataLines
  PROVE  Event(Normalized(body), Cuts(Normalized(body)), i)
           = Event(body, EmptyLines(body), i)
  <1> DEFINE text == Normalized(body)
             cuts == Cuts(text)
             empty == EmptyLines(body)
  <1>1. /\ DOMAIN text = DOMAIN body /\ DOMAIN body \subseteq Nat
        /\ \A k \in DOMAIN body : /\ text[k] \in DataLines <=> body[k] \in DataLines
                                  /\ text[k] = "LF" <=> body[k] \in LineEnds
    BY NormalizedPlaces
  <1>2. \A k : body[k] \in DataLines => body[k] \notin LineEnds
    BY DEF DataLines, LineEnds
  <1>3. \A c \in cuts : c \in Nat /\ text[c + 1] = "LF" /\ c + 1 \in empty
    BY CutLeavesEmpty
  <1>4. \A e \in empty, k \in DOMAIN body :
          k < e /\ body[k] \notin LineEnds => \E c \in cuts : k < c /\ c < e
    BY EmptyIsCut
  <1>5. empty \subseteq Nat
    BY <1>1 DEF EmptyLines
  <1> HIDE DEF text, cuts, empty
  <1>6. ASSUME NEW j \in DOMAIN body, body[j] \in DataLines,
               NEW k \in DOMAIN body, body[k] \in DataLines
        PROVE  (\E c \in cuts : j < c /\ c < k) <=> (\E e \in empty : j < e /\ e < k)
    <2>1. j \in Nat /\ k \in Nat
      BY <1>1
    <2>2. ASSUME NEW c \in cuts, j < c, c < k
          PROVE  \E e \in empty : j < e /\ e < k
      <3>1. c + 1 # k
        BY <1>1, <1>2, <1>3, <1>6, <2>2
      <3> QED BY <1>3, <2>1, <2>2, <3>1
    <2>3. ASSUME NEW e \in empty, j < e, e < k
          PROVE  \E c \in cuts : j < c /\ c < k
      <3>1. PICK c \in cuts : j < c /\ c < e
        BY <1>2, <1>4, <1>6, <2>3
      <3> QED BY <1>3, <1>5, <2>1, <2>3, <3>1
    <2> QED BY <2>2, <2>3
  <1>7. \A j \in DOMAIN body :
          body[j] \in DataLines =>
            ((\A c \in cuts : ~(i < c /\ c < j) /\ ~(j < c /\ c < i))
               <=> (\A e \in empty : ~(i < e /\ e < j) /\ ~(j < e /\ e < i)))
    BY <1>6
  <1>8. Event(text, cuts, i) = Event(body, empty, i)
    BY <1>1, <1>7 DEF Event
  <1> QED BY <1>8 DEF text, cuts, empty

\* A block with data is kept just if an empty line follows (parse_sse_stream).
LEMMA SameCompletion ==
  ASSUME NEW S, NEW body \in Seq(S), NEW i \in DOMAIN body, body[i] \in DataLines
  PROVE  i \in Complete(Normalized(body)) <=> i \in Dispatched(body)
  <1> DEFINE text == Normalized(body)
  <1>1. /\ DOMAIN text = 1..Len(text) /\ DOMAIN body = 1..Len(text) /\ Len(text) \in Nat
        /\ \A k \in 1..Len(text) : text[k] = "LF" <=> body[k] \in LineEnds
    BY NormalizedPlaces
  <1>2. body[i] \notin LineEnds /\ i \in 1..Len(text)
    BY <1>1 DEF DataLines, LineEnds
  <1>3. ASSUME NEW c \in Cuts(text), i < c
        PROVE  i \in Dispatched(body)
    <2>1. c \in Nat /\ c + 1 \in EmptyLines(body)
      BY CutLeavesEmpty
    <2> QED BY <1>2, <1>3, <2>1, <1>1 DEF Dispatched
  <1>4. ASSUME NEW e \in EmptyLines(body), i < e
        PROVE  \E c \in Cuts(text) : i < c
    BY <1>2, <1>4, EmptyIsCut
  <1> HIDE DEF text
  <1>5. ASSUME Len(text) > 1, text[Len(text)] = "LF", text[Len(text) - 1] = "LF"
        PROVE  i \in Dispatched(body)
    <2>1. Len(text) \in 1..Len(text) /\ Len(text) - 1 \in 1..Len(text)
      BY <1>1, <1>5
    <2>2. Len(text) \in EmptyLines(body)
      BY <1>1, <1>5, <2>1 DEF EmptyLines
    <2>3. i # Len(text)
      BY <1>1, <1>2, <1>5, <2>1
    <2>4. i < Len(text)
      BY <1>1, <1>2, <2>3
    <2> QED BY <1>1, <1>2, <2>2, <2>4 DEF Dispatched
  <1>6. i \in Complete(text) <=> i \in Dispatched(body)
    BY <1>1, <1>2, <1>3, <1>4, <1>5 DEF Complete, Dispatched
  <1> QED BY <1>6 DEF text

\* The events of a stream, by the lines they begin with, and the first of them.
Starts(words, body) == Starting(words, body, EmptyLines(body), Dispatched(body))
FirstOf(words, body) == FirstEvent(words, body, EmptyLines(body), Dispatched(body))
EventAt(body, i) == Event(body, EmptyLines(body), i)

\* The search in the text finds the first event that begins with an object, as an empty
\* line dispatches it, whatever the line ends (parse_sse_stream, sse_jsonrpc_frames).
LEMMA FrameFound ==
  ASSUME NEW S, NEW body \in Seq(S)
  PROVE  FirstFrame(body) = FirstOf({"frame"}, body)
  <1> DEFINE text == Normalized(body)
             cuts == Cuts(text)
             empty == EmptyLines(body)
             complete == Complete(text)
             dispatched == Dispatched(body)
             words == {"frame"}
  <1>1. /\ complete \subseteq DOMAIN body /\ dispatched \subseteq DOMAIN body
        /\ \A i \in DOMAIN body : text[i] = "frame" <=> body[i] = "frame"
    BY NormalizedPlaces DEF Complete, Dispatched
  <1>2. \A i \in DOMAIN body :
          body[i] = "frame" => /\ Event(text, cuts, i) = Event(body, empty, i)
                               /\ i \in complete <=> i \in dispatched
    <2>1. "frame" \in DataLines
      BY DEF DataLines
    <2> QED BY <2>1, SameEvents, SameCompletion
  <1> HIDE DEF text, cuts, empty, complete, dispatched
  <1>3. Starting(words, text, cuts, complete) = Starting(words, body, empty, dispatched)
    BY <1>1, <1>2 DEF Starting
  <1>4. FirstEvent(words, text, cuts, complete) = FirstEvent(words, body, empty, dispatched)
    <2> DEFINE starts == Starting(words, body, empty, dispatched)
               first == CHOOSE i \in starts : \A j \in starts : i <= j
    <2>1. CASE starts = {}
      BY <1>3, <2>1 DEF FirstEvent
    <2>2. CASE starts # {}
      <3>1. starts \subseteq Nat
        BY <1>1, NormalizedPlaces DEF Starting
      <3>2. \E i \in starts : \A j \in starts : i <= j
        BY <2>2, <3>1, LeastPlace
      <3>3. first \in starts
        BY <3>2
      <3>4. Event(text, cuts, first) = Event(body, empty, first)
        BY <1>1, <1>2, <3>3 DEF Starting
      <3> QED BY <1>3, <2>2, <3>4 DEF FirstEvent
    <2> QED BY <2>1, <2>2
  <1> QED
    BY <1>4 DEF FirstFrame, FirstOf, text, cuts, empty, complete, dispatched

\* The first event is there if any is, and is known by its first line (FirstEvent).
LEMMA FirstIsFirst ==
  ASSUME NEW S, NEW body \in Seq(S), NEW words \in SUBSET DataLines
  PROVE  \/ Starts(words, body) = {} /\ FirstOf(words, body) = {}
         \/ \E i \in Starts(words, body) :
              /\ \A j \in Starts(words, body) : i <= j
              /\ FirstOf(words, body) = EventAt(body, i)
              /\ i \in EventAt(body, i)
              /\ \A j \in EventAt(body, i) : i <= j
  <1> DEFINE starts == Starts(words, body)
             first == CHOOSE i \in starts : \A j \in starts : i <= j
  <1>1. CASE starts = {}
    BY <1>1 DEF FirstOf, FirstEvent, Starts
  <1>2. CASE starts # {}
    <2>1. DOMAIN body \subseteq Nat /\ starts \subseteq DOMAIN body
      BY DEF Starts, Starting, Dispatched
    <2>2. \E i \in starts : \A j \in starts : i <= j
      BY <1>2, <2>1, LeastPlace
    <2>3. first \in starts /\ \A j \in starts : first <= j
      BY <2>2
    <2>4. FirstOf(words, body) = EventAt(body, first)
      BY <1>2 DEF FirstOf, FirstEvent, Starts, EventAt
    <2>5. \A j \in EventAt(body, first) : first <= j
      BY <2>3 DEF Starts, Starting, EventAt
    <2>6. first \in EventAt(body, first)
      <3>1. first \in DOMAIN body /\ body[first] \in DataLines /\ first \in Nat
        BY <2>1, <2>3 DEF Starts, Starting
      <3>2. \A c \in EmptyLines(body) : c \in Nat
        BY DEF EmptyLines
      <3> HIDE DEF first
      <3> QED BY <3>1, <3>2 DEF EventAt, Event
    <2> QED BY <2>3, <2>4, <2>5, <2>6
  <1> QED BY <1>1, <1>2

\* What is cut out of a body is a beginning of it, without a division (http_post_raw).
LEMMA PayloadBegins ==
  ASSUME NEW S, NEW body \in Seq(S)
  PROVE  /\ Payload(body) \in Seq(S) /\ Len(Payload(body)) \in 0..Len(body)
         /\ DOMAIN Payload(body) = 1..Len(Payload(body))
         /\ \A i \in DOMAIN Payload(body) : i \in DOMAIN body /\ Payload(body)[i] = body[i]
         /\ Divisions(Payload(body)) = {}
  <1>1. CASE Divisions(body) = {}
    BY <1>1 DEF Payload
  <1>2. CASE Divisions(body) # {}
    <2>1. Divisions(body) \subseteq Nat
      BY DEF Divisions
    <2>2. PICK m \in Divisions(body) :
            /\ \A j \in Divisions(body) : m <= j
            /\ Payload(body) = SubSeq(body, 1, m - 1)
      <3> DEFINE m == CHOOSE i \in Divisions(body) : \A j \in Divisions(body) : i <= j
      <3>1. \E i \in Divisions(body) : \A j \in Divisions(body) : i <= j
        BY <1>2, <2>1, LeastPlace
      <3>2. m \in Divisions(body) /\ \A j \in Divisions(body) : m <= j
        BY <3>1
      <3> QED BY <1>2, <3>2 DEF Payload
    <2>3. m \in 1..(Len(body) - 1) /\ Len(body) \in Nat
      BY DEF Divisions
    <2>4. /\ Payload(body) \in Seq(S) /\ Len(Payload(body)) = m - 1
          /\ DOMAIN Payload(body) = 1..(m - 1)
          /\ \A i \in 1..(m - 1) : Payload(body)[i] = body[i]
      BY <2>2, <2>3
    <2>5. Divisions(Payload(body)) = {}
      <3> SUFFICES ASSUME NEW i \in Divisions(Payload(body)) PROVE FALSE
        OBVIOUS
      <3>1. /\ i \in 1..((m - 1) - 1) /\ Payload(body)[i] = "CRLF"
            /\ Payload(body)[i + 1] = "CRLF"
        BY <2>4 DEF Divisions
      <3>2. i \in 1..(Len(body) - 1) /\ body[i] = "CRLF" /\ body[i + 1] = "CRLF" /\ i < m
        BY <2>3, <2>4, <3>1
      <3>3. i \in Divisions(body)
        BY <3>2 DEF Divisions
      <3> QED BY <2>2, <2>3, <3>2, <3>3
    <2> QED BY <2>3, <2>4, <2>5
  <1> QED BY <1>1, <1>2

\* What a beginning of a stream dispatches, the stream dispatches (Dispatched).
LEMMA BeginningDispatches ==
  ASSUME NEW S, NEW body \in Seq(S), NEW p \in Seq(S), Len(p) <= Len(body),
         \A i \in DOMAIN p : p[i] = body[i], NEW i \in Dispatched(p)
  PROVE  i \in Dispatched(body) /\ EventAt(p, i) = EventAt(body, i)
  <1>1. /\ DOMAIN p = 1..Len(p) /\ DOMAIN body = 1..Len(body)
        /\ Len(p) \in Nat /\ Len(body) \in Nat
    OBVIOUS
  <1>2. \A e : e \in EmptyLines(p) <=> e \in EmptyLines(body) /\ e <= Len(p)
    BY <1>1 DEF EmptyLines
  <1>3. PICK e \in EmptyLines(p) : i < e
    BY DEF Dispatched
  <1>4. i \in 1..Len(p) /\ e \in 1..Len(p) /\ e \in EmptyLines(body)
    BY <1>1, <1>2 DEF Dispatched, EmptyLines
  <1>5. i \in Dispatched(body)
    BY <1>1, <1>3, <1>4 DEF Dispatched
  <1>6. ASSUME NEW j \in EventAt(p, i) PROVE j \in EventAt(body, i)
    <2>1. /\ j \in 1..Len(p) /\ p[j] \in DataLines
          /\ \A c \in EmptyLines(p) : ~(i < c /\ c < j) /\ ~(j < c /\ c < i)
      BY <1>1, <1>6 DEF EventAt, Event
    <2>2. \A c \in EmptyLines(body) : ~(i < c /\ c < j) /\ ~(j < c /\ c < i)
      <3> SUFFICES ASSUME NEW c \in EmptyLines(body), (i < c /\ c < j) \/ (j < c /\ c < i)
                   PROVE  FALSE
        OBVIOUS
      <3>1. c \in Nat /\ c <= Len(p)
        BY <1>1, <1>4, <2>1 DEF EmptyLines
      <3> QED BY <1>2, <2>1, <3>1
    <2> QED BY <1>1, <2>1, <2>2 DEF EventAt, Event
  <1>7. ASSUME NEW j \in EventAt(body, i) PROVE j \in EventAt(p, i)
    <2>1. /\ j \in 1..Len(body) /\ body[j] \in DataLines
          /\ \A c \in EmptyLines(body) : ~(i < c /\ c < j) /\ ~(j < c /\ c < i)
      BY <1>1, <1>7 DEF EventAt, Event
    <2>2. ~(e < j) /\ e \in 1..Len(p)
      BY <1>3, <1>4, <2>1
    <2>3. j \in 1..Len(p)
      BY <1>1, <2>1, <2>2
    <2> QED BY <1>1, <1>2, <2>1, <2>3 DEF EventAt, Event
  <1> QED BY <1>5, <1>6, <1>7

\* If a beginning of a stream has a first event, it is the stream's.
LEMMA BeginningKeepsFirst ==
  ASSUME NEW S, NEW body \in Seq(S), NEW p \in Seq(S), Len(p) <= Len(body),
         \A i \in DOMAIN p : p[i] = body[i], NEW words \in SUBSET DataLines,
         Starts(words, p) # {}
  PROVE  FirstOf(words, p) = FirstOf(words, body)
  <1>1. /\ DOMAIN p = 1..Len(p) /\ DOMAIN body = 1..Len(body)
        /\ Len(p) \in Nat /\ Len(body) \in Nat
    OBVIOUS
  <1>2. \A i \in Dispatched(p) : i \in Dispatched(body) /\ EventAt(p, i) = EventAt(body, i)
    BY BeginningDispatches
  <1>3. PICK i \in Starts(words, p) :
          /\ \A j \in Starts(words, p) : i <= j
          /\ FirstOf(words, p) = EventAt(p, i)
    BY FirstIsFirst
  <1>4. i \in Dispatched(p) /\ i \in DOMAIN p
    BY DEF Starts, Starting, Dispatched
  <1>5. i \in Starts(words, body)
    BY <1>2, <1>3, <1>4 DEF Starts, Starting, EventAt
  <1>6. PICK k \in Starts(words, body) :
          /\ \A j \in Starts(words, body) : k <= j
          /\ FirstOf(words, body) = EventAt(body, k)
    BY <1>5, FirstIsFirst
  <1>7. k \in Dispatched(body) /\ k \in DOMAIN body /\ k <= i
    BY <1>5, <1>6 DEF Starts, Starting, Dispatched
  <1>8. k \in Dispatched(p)
    <2>1. PICK e \in EmptyLines(p) : i < e
      BY <1>4 DEF Dispatched
    <2>2. e \in Nat /\ k \in DOMAIN p /\ k < e
      BY <1>1, <1>4, <1>7, <2>1 DEF EmptyLines
    <2> QED BY <2>1, <2>2 DEF Dispatched
  <1>9. k \in Starts(words, p)
    BY <1>2, <1>6, <1>8 DEF Starts, Starting, EventAt, Dispatched
  <1>10. k = i
    <2>1. i <= k /\ k <= i
      BY <1>3, <1>7, <1>9
    <2> QED BY <1>1, <1>4, <1>7, <2>1
  <1> QED BY <1>2, <1>3, <1>4, <1>6, <1>10

\* The first event with an object is the first with JSON, unless that is a batch.
LEMMA ObjectOrBatch ==
  ASSUME NEW S, NEW p \in Seq(S), Starts({"frame", "batch"}, p) # {}
  PROVE  FirstOf({"frame"}, p) # FirstOf({"frame", "batch"}, p)
           <=> \E i \in FirstOf({"frame", "batch"}, p) :
                 p[i] = "batch" /\ \A j \in FirstOf({"frame", "batch"}, p) : i <= j
  <1> DEFINE some == {"frame", "batch"}
             due == FirstOf(some, p)
  <1>1. some \in SUBSET DataLines /\ {"frame"} \in SUBSET DataLines
    BY DEF DataLines
  <1>2. DOMAIN p \subseteq Nat
    OBVIOUS
  <1>3. PICK i \in Starts(some, p) :
          /\ \A j \in Starts(some, p) : i <= j
          /\ due = EventAt(p, i)
          /\ i \in EventAt(p, i)
          /\ \A j \in EventAt(p, i) : i <= j
    BY <1>1, FirstIsFirst
  <1>4. i \in DOMAIN p /\ p[i] \in some
    BY DEF Starts, Starting, Dispatched
  <1>5. Starts({"frame"}, p) \subseteq Starts(some, p)
        /\ (p[i] = "frame" => i \in Starts({"frame"}, p))
    BY DEF Starts, Starting
  <1>6. \A j \in due : j \in DOMAIN p
    BY <1>3 DEF EventAt, Event
  <1>7. CASE p[i] = "frame"
    <2>1. PICK k \in Starts({"frame"}, p) :
            /\ \A j \in Starts({"frame"}, p) : k <= j
            /\ FirstOf({"frame"}, p) = EventAt(p, k)
      BY <1>1, <1>5, <1>7, FirstIsFirst
    <2>2. k = i
      <3>1. k \in DOMAIN p /\ k <= i /\ i <= k
        BY <1>3, <1>5, <1>7, <2>1 DEF Starts, Starting, Dispatched
      <3> QED BY <1>2, <1>4, <3>1
    <2>3. ASSUME NEW j \in due, \A h \in due : j <= h
          PROVE  j = i
      BY <1>2, <1>3, <1>4, <1>6, <2>3
    <2> HIDE DEF due
    <2> QED BY <1>3, <1>7, <2>1, <2>2, <2>3 DEF due
  <1>8. CASE p[i] = "batch"
    <2>1. FirstOf({"frame"}, p) # due
      <3>1. CASE FirstOf({"frame"}, p) = {}
        BY <1>3, <3>1
      <3>2. ASSUME NEW k \in Starts({"frame"}, p), FirstOf({"frame"}, p) = EventAt(p, k),
                   k \in EventAt(p, k), \A j \in EventAt(p, k) : k <= j
            PROVE  FirstOf({"frame"}, p) # due
        <4>1. k \in DOMAIN p /\ p[k] = "frame" /\ i <= k /\ k # i
          BY <1>3, <1>5, <1>8, <3>2 DEF Starts, Starting, Dispatched
        <4>2. ~(k <= i)
          BY <1>2, <1>4, <4>1
        <4> QED BY <1>3, <3>2, <4>2
      <3> QED BY <1>1, <3>1, <3>2, FirstIsFirst
    <2> QED BY <1>3, <1>8, <2>1
  <1> QED BY <1>4, <1>7, <1>8

\* What is due of a stream and of a text.
LEMMA DueOf ==
  ASSUME NEW body
  PROVE  /\ Due([stream |-> TRUE, body |-> body]) = FirstOf({"frame", "batch"}, body)
         /\ Due([stream |-> FALSE, body |-> body]) = Json(body)
  BY DEF Due, FirstOf

\* What is due of a response as it is cut (Lost).
LEMMA LostOf ==
  ASSUME NEW stream, NEW body
  PROVE  Lost([stream |-> stream, body |-> body])
           <=> Due([stream |-> stream, body |-> Payload(body)])
                 # Due([stream |-> stream, body |-> body])
  <1>1. PICK response : response = [stream |-> stream, body |-> body]
    OBVIOUS
  <1>2. PICK p : p = Payload(response.body)
    OBVIOUS
  <1>3. [response EXCEPT !.body = p] = [stream |-> stream, body |-> p]
    BY <1>1
  <1>4. p = Payload(body)
    BY <1>1, <1>2
  <1> QED BY <1>1, <1>2, <1>3, <1>4 DEF Lost

\* Of an event stream, of any length and with any line ends, send hands on the first
\* message, unless that is lost behind a division or is a batch, or the beginning of the
\* stream has no data and is taken for a text: and then never (send, http_post_raw,
\* parse_sse_stream, sse_jsonrpc_frames).
THEOREM StreamMisread ==
  ASSUME NEW body \in Seq(LineEnds \cup StreamLines)
  PROVE  LET response == [stream |-> TRUE, body |-> body]
         IN  Misread(response) <=> \/ Lost(response) \/ Quoted(response)
                                   \/ Invented(response) \/ Batched(response)
  <1> DEFINE S == LineEnds \cup StreamLines
             response == [stream |-> TRUE, body |-> body]
             p == Payload(body)
             some == {"frame", "batch"}
             due == FirstOf(some, body)
             kept == FirstOf(some, p)
  <1>1. /\ p \in Seq(S) /\ Len(p) <= Len(body)
        /\ \A i \in DOMAIN p : i \in DOMAIN body /\ p[i] = body[i]
    BY PayloadBegins
  <1>2. some \in SUBSET DataLines /\ {"frame"} \in SUBSET DataLines
    BY DEF DataLines
  <1>3. "quoting" \notin S
    BY DEF LineEnds, StreamLines, DataLines
  <1>4. Says(p, DataLines \cup {"quoting"}) <=> Says(p, DataLines)
    BY <1>1, <1>3 DEF Says
  <1> DEFINE batch == \E i \in due : body[i] = "batch" /\ \A j \in due : i <= j
             invented == ~Says(p, DataLines) /\ Json(p) # {}
  <1>5. SUFFICES Unwrapped(body) # due <=> kept # due \/ invented \/ batch
    <2>1. /\ Misread(response) <=> Unwrapped(body) # due
          /\ ~Quoted(response)
          /\ Invented(response) <=> invented
          /\ Batched(response) <=> batch
      BY DueOf DEF Misread, Quoted, Invented, Batched
    <2>2. Lost(response) <=> kept # due
      <3>1. Lost(response) <=> Due([stream |-> TRUE, body |-> p]) # Due(response)
        BY LostOf
      <3>2. Due([stream |-> TRUE, body |-> p]) = kept /\ Due(response) = due
        BY DueOf
      <3> HIDE DEF response, p, kept, due
      <3> QED BY <3>1, <3>2
    <2> QED BY <2>1, <2>2
  <1>6. \A i \in due : i \in DOMAIN body /\ body[i] \in DataLines
    <2>1. \/ due = {}
          \/ \E i \in Starts(some, body) : due = EventAt(body, i)
      BY <1>2, FirstIsFirst
    <2> QED BY <2>1 DEF EventAt, Event
  <1>7. CASE ~Says(p, DataLines)
    <2>1. Starts(some, p) = {}
      BY <1>2, <1>7 DEF Starts, Starting, Dispatched, Says
    <2>2. kept = {}
      BY <1>2, <2>1, FirstIsFirst, <1>1
    <2>3. Unwrapped(body) = Json(p)
      BY <1>4, <1>7 DEF Unwrapped
    <2>4. Json(p) # {} => Json(p) # due
      <3> SUFFICES ASSUME NEW i \in Json(p) PROVE i \notin due
        OBVIOUS
      <3>1. i \in DOMAIN p /\ p[i] \notin DataLines
        BY <1>7 DEF Json, Says
      <3> QED BY <1>1, <1>6, <3>1
    <2>5. batch => due # {}
      OBVIOUS
    <2> HIDE DEF response, p, due, kept, batch
    <2> QED BY <1>7, <2>2, <2>3, <2>4, <2>5
  <1>8. CASE Says(p, DataLines)
    <2>1. Unwrapped(body) = FirstOf({"frame"}, p)
      BY <1>1, <1>4, <1>8, FrameFound DEF Unwrapped
    <2>2. CASE Starts(some, p) = {}
      <3>1. Starts({"frame"}, p) = {}
        BY <2>2 DEF Starts, Starting
      <3>2. kept = {} /\ FirstOf({"frame"}, p) = {}
        BY <1>1, <1>2, <2>2, <3>1, FirstIsFirst
      <3>3. batch => due # {}
        OBVIOUS
      <3> HIDE DEF response, p, due, kept, batch
      <3> QED BY <1>8, <2>1, <3>2, <3>3
    <2>3. CASE Starts(some, p) # {}
      <3>1. kept = due
        BY <1>1, <1>2, <2>3, BeginningKeepsFirst
      <3>2. FirstOf({"frame"}, p) # kept
              <=> \E i \in kept : p[i] = "batch" /\ \A j \in kept : i <= j
        BY <1>1, <2>3, ObjectOrBatch
      <3>3. \A i \in kept : p[i] = body[i]
        <4>1. PICK i \in Starts(some, p) : kept = EventAt(p, i)
          BY <1>1, <1>2, <2>3, FirstIsFirst
        <4> QED BY <1>1, <4>1 DEF EventAt, Event
      <3> HIDE DEF response, p, due, kept
      <3> QED BY <1>8, <2>1, <3>1, <3>2, <3>3
    <2> QED BY <2>2, <2>3
  <1> HIDE DEF p
  <1> QED BY <1>7, <1>8

\* Of a JSON text send hands on all, unless something of it stands behind a division, or
\* it quotes what marks a stream: and then never (send, http_post_raw).
THEOREM TextMisread ==
  ASSUME NEW body \in Seq(LineEnds \cup JsonLines)
  PROVE  LET response == [stream |-> FALSE, body |-> body]
         IN  Misread(response) <=> \/ Lost(response) \/ Quoted(response)
                                   \/ Invented(response) \/ Batched(response)
  <1> DEFINE S == LineEnds \cup JsonLines
             response == [stream |-> FALSE, body |-> body]
             p == Payload(body)
  <1>1. /\ p \in Seq(S) /\ Len(p) <= Len(body)
        /\ \A i \in DOMAIN p : i \in DOMAIN body /\ p[i] = body[i] /\ p[i] \in S
    BY PayloadBegins
  <1>2. S \cap DataLines = {} /\ "quoting" \notin LineEnds
    BY DEF LineEnds, JsonLines, DataLines
  <1>3. Says(p, DataLines \cup {"quoting"}) <=> Says(p, {"quoting"})
    BY <1>1, <1>2 DEF Says
  <1>4. /\ Misread(response) <=> Unwrapped(body) # Json(body)
        /\ Lost(response) <=> Json(p) # Json(body)
        /\ Quoted(response) <=> Says(p, {"quoting"})
        /\ ~Invented(response) /\ ~Batched(response)
    BY LostOf, DueOf DEF Misread, Quoted, Invented, Batched
  <1>5. CASE Says(p, {"quoting"})
    <2>1. Unwrapped(body) = FirstOf({"frame"}, p)
      BY <1>1, <1>3, <1>5, FrameFound DEF Unwrapped
    <2>2. Starts({"frame"}, p) = {}
      BY <1>1, <1>2 DEF Starts, Starting, Dispatched, DataLines
    <2>3. FirstOf({"frame"}, p) = {}
      <3>1. {"frame"} \in SUBSET DataLines
        BY DEF DataLines
      <3> QED BY <1>1, <2>2, <3>1, FirstIsFirst
    <2>4. Json(body) # {}
      BY <1>1, <1>2, <1>5 DEF Says, Json
    <2> QED BY <1>4, <1>5, <2>1, <2>3, <2>4
  <1>6. CASE ~Says(p, {"quoting"})
    <2>1. Unwrapped(body) = Json(p)
      BY <1>3, <1>6 DEF Unwrapped
    <2> QED BY <1>4, <1>6, <2>1
  <1> QED BY <1>5, <1>6

\* send finds no message in a stream whose lines all end with CRLF, though one is due:
\* the cut leaves nothing that an empty line would dispatch (http_post_raw).
THEOREM CrlfIsLost ==
  ASSUME NEW S, NEW body \in Seq(S), ~Says(body, {"LF"}),
         Due([stream |-> TRUE, body |-> body]) # {}
  PROVE  Lost([stream |-> TRUE, body |-> body])
  <1> DEFINE p == Payload(body)
             some == {"frame", "batch"}
  <1>1. /\ p \in Seq(S) /\ Len(p) \in Nat /\ DOMAIN p = 1..Len(p)
        /\ \A i \in DOMAIN p : i \in DOMAIN body /\ p[i] = body[i]
        /\ Divisions(p) = {}
    BY PayloadBegins
  <1> HIDE DEF p
  <1>2. \A i \in DOMAIN p : p[i] \in LineEnds => p[i] = "CRLF"
    BY <1>1 DEF Says, LineEnds
  <1>3. \A e \in EmptyLines(p) : e = 1
    <2> SUFFICES ASSUME NEW e \in EmptyLines(p), e # 1 PROVE FALSE
      OBVIOUS
    <2>1. e \in 2..Len(p) /\ p[e] \in LineEnds /\ p[e - 1] \in LineEnds
      BY <1>1 DEF EmptyLines
    <2>2. e - 1 \in 1..(Len(p) - 1) /\ p[e - 1] = "CRLF" /\ p[(e - 1) + 1] = "CRLF"
      BY <1>1, <1>2, <2>1
    <2>3. e - 1 \in Divisions(p)
      BY <2>2 DEF Divisions
    <2> QED BY <1>1, <2>3
  <1>4. Starts(some, p) = {}
    BY <1>1, <1>3 DEF Starts, Starting, Dispatched
  <1>5. FirstOf(some, p) = {}
    <2>1. some \in SUBSET DataLines
      BY DEF DataLines
    <2> QED BY <1>1, <1>4, <2>1, FirstIsFirst
  <1> QED BY <1>5, LostOf, DueOf DEF p

\* MisreadAsNamed, for bodies of any number of pieces.
THEOREM MisreadTheorem == SafeSpec => []MisreadAsNamed
  <1>1. ASSUME NEW words, NEW n \in Nat, NEW body \in Bodies(words, n)
        PROVE  body \in Seq(LineEnds \cup words)
    <2>1. PICK k \in 0..n : body \in [1..k -> LineEnds \cup words]
      BY <1>1 DEF Bodies
    <2> QED BY <2>1
  <1>2. ASSUME NEW response \in Responses(MaxPieces)
        PROVE  /\ Misread(response) <=> \/ Lost(response) \/ Quoted(response)
                                        \/ Invented(response) \/ Batched(response)
               /\ Crlf(response) /\ Due(response) # {} => Lost(response)
    <2>1. CASE response \in [stream : {TRUE}, body : Bodies(StreamLines, MaxPieces)]
      <3>1. PICK body \in Bodies(StreamLines, MaxPieces) :
              response = [stream |-> TRUE, body |-> body]
        BY <2>1
      <3>2. body \in Seq(LineEnds \cup StreamLines)
        BY <1>1, ExchangeAssumption
      <3> QED BY <3>1, <3>2, StreamMisread, CrlfIsLost DEF Crlf
    <2>2. CASE response \in [stream : {FALSE}, body : Bodies(JsonLines, MaxPieces)]
      <3>1. PICK body \in Bodies(JsonLines, MaxPieces) :
              response = [stream |-> FALSE, body |-> body]
        BY <2>2
      <3>2. body \in Seq(LineEnds \cup JsonLines)
        BY <1>1, ExchangeAssumption
      <3> QED BY <3>1, <3>2, TextMisread DEF Crlf
    <2> QED BY <2>1, <2>2 DEF Responses
  <1>3. MisreadAsNamed
    BY <1>2 DEF MisreadAsNamed, Unexplained
  <1> QED BY <1>3, PTL
=============================================================================
