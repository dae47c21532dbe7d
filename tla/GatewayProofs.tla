--------------------------- MODULE GatewayProofs ---------------------------
(***************************************************************************)
(* Theorems about the verdict function and the inspection pipeline, for    *)
(* any findings, classifier scores, numbers of workers and operators, and  *)
(* whether or not the classifier suspends and statements fail.             *)
(***************************************************************************)
EXTENDS Gateway, ApprovalsProofs

-----------------------------------------------------------------------------
(* The verdict *)

\* The verdict is one of the decisions.
LEMMA JudgementType ==
  ASSUME NEW policy \in Decisions, NEW det \in Risks, NEW ai \in Risks
  PROVE  Judgement(policy, det, ai) \in Decisions
  BY DEF Judgement, Guardrail, Combine, Forwards, Decisions

\* A call is forwarded without a question exactly when nothing speaks against it,
\* and an operator is asked only where an approval may help (combine_verdict and
\* the guardrail of inspect_tool_call together).
THEOREM JudgementMeaning ==
  ASSUME NEW policy \in Decisions, NEW det \in Risks, NEW ai \in Risks
  PROVE  /\ Forwards(Judgement(policy, det, ai)) <=> Clear(policy, det, ai)
         /\ Judgement(policy, det, ai) = "REQUIRE_APPROVAL" => MayBeApproved(policy, det, ai)
  BY DEF Judgement, Guardrail, Combine, Forwards, Clear, MayBeApproved, Decisions, Risks

\* "AI can only escalate", and so can the detectors: the verdict is never less
\* strict than the policy, and grows with either risk.
THEOREM JudgementEscalates ==
  ASSUME NEW policy \in Decisions,
         NEW det1 \in Risks, NEW det2 \in Risks, det1 <= det2,
         NEW ai1 \in Risks, NEW ai2 \in Risks, ai1 <= ai2
  PROVE  /\ Strictness(policy) <= Strictness(Judgement(policy, det1, ai1))
         /\ Strictness(Judgement(policy, det1, ai1)) <= Strictness(Judgement(policy, det2, ai2))
  <1>1. /\ Strictness("ALLOW") = 0 /\ Strictness("WARN") = 0
        /\ Strictness("REQUIRE_APPROVAL") = 1
        /\ Strictness("SANDBOX") = 2 /\ Strictness("DENY") = 3
    BY DEF Strictness, Forwards
  <1> HIDE DEF Strictness
  <1>2. /\ Judgement(policy, det1, ai1) \in Decisions
        /\ Judgement(policy, det2, ai2) \in Decisions
    BY JudgementType
  <1> QED
    BY <1>1, <1>2 DEF Judgement, Guardrail, Combine, Forwards, Decisions, Risks

-----------------------------------------------------------------------------
(***************************************************************************)
(* The inductive invariant of the pipeline.  ForwardedOnlyWhenCleared is   *)
(* about answered messages; it holds because whatever a message is cleared *)
(* by is settled before its events are logged, and consents and rows are   *)
(* never taken back.                                                       *)
(***************************************************************************)
MessageOK(m) ==
  /\ m.at = "classify" => m.call \in Calls /\ m.grant = 0 /\ m.decision = "DENY"
  /\ m.at \in {"judged", "consult"} =>
       /\ m.call \in Calls /\ m.grant = 0 /\ m.decision = "REQUIRE_APPROVAL"
       /\ MayBeApproved(m.finding.policy, m.finding.det, m.ai)
  /\ m.at \in {"log", "answered"} /\ Forwards(m.decision) /\ m.call # NoCall => Cleared(m)
  /\ m.out # "none" => m.at = "answered"
  /\ m.out = "forwarded" /\ m.call # NoCall => Forwards(m.decision)

\* The approval workflow runs for the message in hand.
InStep ==
  \A w \in Workers :
    asker[w].at # "idle" => pipe[w].at = "consult" /\ asker[w].call = pipe[w].call

PipeTypes ==
  /\ pipe \in [Workers -> Message]
  /\ taken \in 0..MaxMessages
  /\ decided \in 0..MaxDecisions

GatewayInv ==
  /\ QueueInv
  /\ PipeTypes
  /\ InStep
  /\ \A w \in Workers : MessageOK(pipe[w])

-----------------------------------------------------------------------------
(* Messages *)

\* What policy and detectors say has the types the verdict needs.
LEMMA FindingType ==
  ASSUME NEW f \in Findings \cup {NoFinding}
  PROVE  f.policy \in Decisions /\ f.det \in Risks
  <1>1. CASE f \in Findings
    <2>1. f \in [policy : Decisions, det : Risks, tainted : BOOLEAN]
      BY <1>1, GatewayAssumption
    <2> QED BY <2>1
  <1>2. CASE f = NoFinding
    BY <1>2 DEF NoFinding, Decisions, Risks
  <1> QED BY <1>1, <1>2

\* An idle worker holds a well-typed message that says nothing.
LEMMA NoMessageType ==
  /\ NoMessage \in Message
  /\ NoMessage.at = "idle" /\ NoMessage.call = NoCall /\ NoMessage.grant = 0
  /\ NoMessage.decision = "DENY" /\ NoMessage.out = "none"
  /\ NoMessage.todo = <<>>
  <1>1. <<>> \in Seq(EventKinds)
    OBVIOUS
  <1>2. NoFinding \in Findings \cup {NoFinding}
    OBVIOUS
  <1> HIDE DEF NoFinding
  <1> QED BY <1>1, <1>2 DEF NoMessage, Message, Stages, Entries, Risks, Decisions, Answers

\* The events due for a verdict are audit events.
LEMMA EventsDueType ==
  ASSUME NEW decision \in Decisions, NEW f \in Findings \cup {NoFinding}
  PROVE  EventsDue(decision, f) \in Seq(EventKinds)
  <1>1. EventOf[decision] \in EventKinds
    BY DEF EventOf, EventKinds, Decisions
  <1>2. <<EventOf[decision]>> \in Seq(EventKinds)
    BY <1>1
  <1>3. /\ <<>> \in Seq(EventKinds)
        /\ <<"INJECTION_DETECTED">> \in Seq(EventKinds)
        /\ <<"TAINT_PROPAGATED">> \in Seq(EventKinds)
    <2>1. "INJECTION_DETECTED" \in EventKinds /\ "TAINT_PROPAGATED" \in EventKinds
      BY DEF EventKinds
    <2> QED BY <2>1
  <1> DEFINE injected == IF f.det >= 50 THEN <<"INJECTION_DETECTED">> ELSE <<>>
             tainted  == IF f.tainted THEN <<"TAINT_PROPAGATED">> ELSE <<>>
  <1>4. injected \in Seq(EventKinds) /\ tainted \in Seq(EventKinds)
    BY <1>3
  <1>5. EventsDue(decision, f) = <<EventOf[decision]>> \o injected \o tainted
    BY DEF EventsDue
  <1> HIDE DEF injected, tainted
  <1>6. <<EventOf[decision]>> \o injected \in Seq(EventKinds)
    BY <1>2, <1>4, ConcatProperties
  <1> QED BY <1>4, <1>5, <1>6, ConcatProperties

\* Concluding a message sets its verdict and its events and keeps the rest.
LEMMA ConcludedType ==
  ASSUME NEW m \in Message, NEW decision \in Decisions
  PROVE  LET c == Concluded(m, decision) IN
         /\ c \in Message
         /\ c.at = "log" /\ c.decision = decision
         /\ c.call = m.call /\ c.finding = m.finding /\ c.ai = m.ai
         /\ c.grant = m.grant /\ c.out = m.out
  <1>1. m.finding \in Findings \cup {NoFinding}
    BY DEF Message
  <1>2. EventsDue(decision, m.finding) \in Seq(EventKinds)
    BY <1>1, EventsDueType
  <1> QED BY <1>2 DEF Concluded, Message, Stages

-----------------------------------------------------------------------------
(* Steps of one worker: its message becomes m, the other workers' stay *)

\* What clears a message stays as it is.
LEMMA MessageKept ==
  ASSUME QueueInv, RowsKept, consented \subseteq consented', NEW m, MessageOK(m)
  PROVE  MessageOK(m)'
  <1>1. consented \subseteq DOMAIN table
    BY DEF QueueInv, QueueTypeOK
  <1>2. Cleared(m) => Cleared(m)'
    BY <1>1 DEF Cleared, RowsKept
  <1> QED BY <1>2 DEF MessageOK

\* If the new message is in order before the step, the invariant holds after it.
LEMMA OneMessage ==
  ASSUME GatewayInv, QueueStep \/ UNCHANGED queueVars,
         NEW w \in Workers, NEW m \in Message, MessageOK(m),
         pipe' = [pipe EXCEPT ![w] = m],
         taken' \in 0..MaxMessages, decided' \in 0..MaxDecisions,
         \A v \in Workers : v # w => asker'[v] = asker[v],
         asker'[w].at # "idle" => m.at = "consult" /\ asker'[w].call = m.call
  PROVE  GatewayInv'
  <1>1. QueueInv'
    BY InvStep DEF GatewayInv
  <1>2. RowsKept /\ consented \subseteq consented' /\ QueueInv
    BY RowsStay DEF GatewayInv
  <1>3. /\ pipe' \in [Workers -> Message] /\ pipe'[w] = m
        /\ \A v \in Workers : v # w => pipe'[v] = pipe[v]
    BY DEF GatewayInv, PipeTypes
  <1>4. PipeTypes'
    BY <1>3 DEF PipeTypes
  <1>5. InStep'
    BY <1>3 DEF GatewayInv, InStep
  <1>6. ASSUME NEW v \in Workers
        PROVE  MessageOK(pipe[v])'
    <2>1. PICK x : x = pipe'[v]
      OBVIOUS
    <2>2. MessageOK(x)
      BY <1>3, <2>1 DEF GatewayInv
    <2>3. MessageOK(x)'
      BY <1>2, <2>2, MessageKept
    <2> QED BY <2>1, <2>3 DEF MessageOK, Cleared
  <1> QED BY <1>1, <1>4, <1>5, <1>6 DEF GatewayInv

\* The steps that leave the queue alone.
LEMMA PipeStep ==
  ASSUME GatewayInv, NEW w \in Workers, NEW m \in Message,
         pipe' = [pipe EXCEPT ![w] = m], UNCHANGED queueVars,
         taken' \in 0..MaxMessages, decided' \in 0..MaxDecisions,
         asker[w].at = "idle", MessageOK(m)
  PROVE  GatewayInv'
  <1>1. \A v \in Workers : asker'[v] = asker[v]
    BY DEF queueVars
  <1> QED BY <1>1, OneMessage

\* The approval workflow is idle unless the message is being consulted about.
LEMMA IdleAsker ==
  ASSUME GatewayInv, NEW w \in Workers, pipe[w].at # "consult"
  PROVE  asker[w].at = "idle"
  BY DEF GatewayInv, InStep

\* Taking a message in keeps GatewayInv.
LEMMA GatewayArrival ==
  ASSUME GatewayInv, NEW w \in Workers, Arrival(w)
  PROVE  GatewayInv'
  <1>1. ASSUME NEW m \in Message, Take(w, m), MessageOK(m)
        PROVE  GatewayInv'
    <2>1. asker[w].at = "idle"
      BY <1>1, IdleAsker DEF Take
    <2>2. taken' \in 0..MaxMessages /\ decided' \in 0..MaxDecisions
      BY <1>1, GatewayAssumption DEF Take, GatewayInv, PipeTypes
    <2> QED BY <1>1, <2>1, <2>2, PipeStep DEF Take
  <1>2. ASSUME NEW via \in Entries, NEW c \in Calls, NEW f \in Findings, Inspect(w, via, c, f)
        PROVE  GatewayInv'
    <2> DEFINE m == [NoMessage EXCEPT !.at = "classify", !.via = via, !.call = c, !.finding = f]
    <2>1. /\ m \in Message /\ m.at = "classify" /\ m.call \in Calls
          /\ m.grant = 0 /\ m.out = "none" /\ m.decision = "DENY"
      BY NoMessageType DEF Message, Stages
    <2>2. Take(w, m)
      BY <1>2 DEF Inspect
    <2> HIDE DEF m
    <2>3. MessageOK(m)
      BY <2>1 DEF MessageOK
    <2> QED BY <1>1, <2>1, <2>2, <2>3
  <1>3. ASSUME NEW event \in EventKinds, Refuse(w, event)
        PROVE  GatewayInv'
    <2> DEFINE m == [NoMessage EXCEPT !.at = "log", !.todo = <<event>>]
    <2>1. <<event>> \in Seq(EventKinds)
      OBVIOUS
    <2>2. m \in Message /\ m.at = "log" /\ m.decision = "DENY" /\ m.out = "none"
      BY <2>1, NoMessageType DEF Message, Stages
    <2>3. Take(w, m)
      BY <1>3 DEF Refuse
    <2> HIDE DEF m
    <2>4. MessageOK(m)
      BY <2>2 DEF MessageOK, Forwards
    <2> QED BY <1>1, <2>2, <2>3, <2>4
  <1>4. CASE PassOn(w)
    <2> DEFINE m == [NoMessage EXCEPT !.at = "answered", !.out = "forwarded"]
    <2>1. m \in Message /\ m.at = "answered" /\ m.call = NoCall
      BY NoMessageType DEF Message, Stages, Answers
    <2>2. Take(w, m)
      BY <1>4 DEF PassOn
    <2> HIDE DEF m
    <2>3. MessageOK(m)
      BY <2>1 DEF MessageOK
    <2> QED BY <1>1, <2>1, <2>2, <2>3
  <1> QED BY <1>2, <1>3, <1>4 DEF Arrival

\* The verdict upon any classifier score keeps GatewayInv.
LEMMA GatewayClassified ==
  ASSUME GatewayInv, NEW w \in Workers, NEW ai \in Risks, Classified(w, ai)
  PROVE  GatewayInv'
  <1> DEFINE m        == pipe[w]
             scored   == [m EXCEPT !.ai = ai]
             decision == Judgement(m.finding.policy, m.finding.det, ai)
  <1>1. /\ m \in Message /\ m.at = "classify" /\ m.call \in Calls /\ m.grant = 0
        /\ MessageOK(m) /\ m.out = "none"
        /\ UNCHANGED queueVars /\ taken' \in 0..MaxMessages /\ decided' \in 0..MaxDecisions
    BY DEF Classified, GatewayInv, PipeTypes, MessageOK
  <1>2. /\ m.finding.policy \in Decisions /\ m.finding.det \in Risks
        /\ decision \in Decisions
    <2>1. m.finding \in Findings \cup {NoFinding}
      BY <1>1 DEF Message
    <2> QED BY <2>1, FindingType, JudgementType
  <1>3. /\ Forwards(decision) <=> Clear(m.finding.policy, m.finding.det, ai)
        /\ decision = "REQUIRE_APPROVAL" =>
             MayBeApproved(m.finding.policy, m.finding.det, ai)
    BY <1>2, JudgementMeaning
  <1>4. asker[w].at = "idle"
    BY <1>1, IdleAsker
  <1>5. /\ scored \in Message /\ scored.ai = ai /\ scored.at = "classify"
        /\ scored.call = m.call /\ scored.finding = m.finding
        /\ scored.grant = 0 /\ scored.out = "none"
    BY <1>1 DEF Message
  <1>6. pipe' = [pipe EXCEPT ![w] = Judged(m, ai)]
    BY DEF Classified
  <1> HIDE DEF m, decision
  <1>7. CASE decision = "REQUIRE_APPROVAL"
    <2> DEFINE new == [scored EXCEPT !.at = "judged", !.decision = decision]
    <2>1. Judged(m, ai) = new
      BY <1>7 DEF Judged, decision
    <2>2. /\ new \in Message /\ new.at = "judged" /\ new.decision = decision
          /\ new.call = m.call /\ new.finding = m.finding /\ new.ai = ai
          /\ new.grant = 0 /\ new.out = "none"
      BY <1>2, <1>5 DEF Message, Stages
    <2> HIDE DEF new
    <2>3. MessageOK(new)
      BY <1>1, <1>3, <1>7, <2>2 DEF MessageOK
    <2> QED BY <1>1, <1>4, <1>6, <2>1, <2>2, <2>3, PipeStep
  <1>8. CASE decision # "REQUIRE_APPROVAL"
    <2> DEFINE new == Concluded(scored, decision)
    <2>1. Judged(m, ai) = new
      BY <1>8 DEF Judged, decision
    <2>2. /\ new \in Message /\ new.at = "log" /\ new.decision = decision
          /\ new.call = m.call /\ new.finding = m.finding /\ new.ai = ai
          /\ new.grant = 0 /\ new.out = "none"
      BY <1>2, <1>5, ConcludedType
    <2> HIDE DEF new
    <2>3. MessageOK(new)
      BY <1>1, <1>3, <2>2 DEF MessageOK, Cleared
    <2> QED BY <1>1, <1>4, <1>6, <2>1, <2>2, <2>3, PipeStep
  <1> QED BY <1>7, <1>8

\* The timeout of the whole pipeline keeps GatewayInv: the call is refused.
LEMMA GatewayGivesUp ==
  ASSUME GatewayInv, NEW w \in Workers, PipelineGivesUp(w)
  PROVE  GatewayInv'
  <1> DEFINE m == [pipe[w] EXCEPT !.at = "log", !.todo = <<"SECURITY_ERROR">>]
  <1>1. /\ pipe[w] \in Message /\ pipe[w].at = "classify" /\ pipe[w].decision = "DENY"
        /\ pipe[w].out = "none"
        /\ UNCHANGED queueVars /\ taken' \in 0..MaxMessages /\ decided' \in 0..MaxDecisions
    BY DEF PipelineGivesUp, GatewayInv, PipeTypes, MessageOK
  <1>2. <<"SECURITY_ERROR">> \in Seq(EventKinds)
    <2>1. "SECURITY_ERROR" \in EventKinds
      BY DEF EventKinds
    <2> QED BY <2>1
  <1>3. m \in Message /\ m.at = "log" /\ m.decision = "DENY" /\ m.out = "none"
    BY <1>1, <1>2 DEF Message, Stages
  <1>4. pipe' = [pipe EXCEPT ![w] = m]
    BY DEF PipelineGivesUp, GatewayInv, PipeTypes
  <1>5. asker[w].at = "idle"
    BY <1>1, IdleAsker
  <1> HIDE DEF m
  <1>6. MessageOK(m)
    BY <1>3 DEF MessageOK, Forwards
  <1> QED BY <1>1, <1>3, <1>4, <1>5, <1>6, PipeStep

\* AppendEvent, Answer and Leave.
LEMMA GatewayAnswers ==
  ASSUME GatewayInv, NEW w \in Workers, AppendEvent(w) \/ Answer(w) \/ Leave(w)
  PROVE  GatewayInv'
  <1>1. /\ pipe[w] \in Message /\ pipe[w].at \in {"log", "answered"} /\ MessageOK(pipe[w])
        /\ UNCHANGED queueVars /\ taken' \in 0..MaxMessages /\ decided' \in 0..MaxDecisions
    BY DEF AppendEvent, Answer, Leave, GatewayInv, PipeTypes
  <1>2. asker[w].at = "idle"
    BY <1>1, IdleAsker
  <1>3. ASSUME NEW m \in Message, MessageOK(m), pipe' = [pipe EXCEPT ![w] = m]
        PROVE  GatewayInv'
    BY <1>1, <1>2, <1>3, PipeStep
  <1>4. CASE AppendEvent(w)
    <2> DEFINE m == [pipe[w] EXCEPT !.todo = Tail(pipe[w].todo)]
    <2>1. pipe' = [pipe EXCEPT ![w] = m] /\ pipe[w].todo # <<>> /\ pipe[w].at = "log"
      BY <1>4 DEF AppendEvent, GatewayInv, PipeTypes
    <2>2. Tail(pipe[w].todo) \in Seq(EventKinds)
      BY <1>1, <2>1 DEF Message
    <2>3. /\ m \in Message /\ m.at = "log" /\ m.decision = pipe[w].decision
          /\ m.call = pipe[w].call /\ m.finding = pipe[w].finding /\ m.ai = pipe[w].ai
          /\ m.grant = pipe[w].grant /\ m.out = pipe[w].out
      BY <1>1, <2>1, <2>2 DEF Message
    <2> HIDE DEF m
    <2>4. MessageOK(m)
      BY <1>1, <2>1, <2>3 DEF MessageOK, Cleared
    <2> QED BY <1>3, <2>1, <2>3, <2>4
  <1>5. CASE Answer(w)
    <2> DEFINE out == IF pipe[w].via = "api" THEN "reported"
                      ELSE IF Forwards(pipe[w].decision) THEN "forwarded"
                      ELSE "refused"
               m   == [pipe[w] EXCEPT !.at = "answered", !.out = out]
    <2>1. pipe' = [pipe EXCEPT ![w] = m] /\ pipe[w].at = "log"
      BY <1>5 DEF Answer, GatewayInv, PipeTypes
    <2>2. out \in Answers /\ (out = "forwarded" => Forwards(pipe[w].decision))
      BY DEF Answers
    <2> HIDE DEF out
    <2>3. /\ m \in Message /\ m.at = "answered" /\ m.decision = pipe[w].decision
          /\ m.call = pipe[w].call /\ m.finding = pipe[w].finding /\ m.ai = pipe[w].ai
          /\ m.grant = pipe[w].grant /\ m.out = out
      BY <1>1, <2>2 DEF Message, Stages
    <2> HIDE DEF m
    <2>4. MessageOK(m)
      BY <1>1, <2>1, <2>2, <2>3 DEF MessageOK, Cleared
    <2> QED BY <1>3, <2>1, <2>3, <2>4
  <1>6. CASE Leave(w)
    <2>1. pipe' = [pipe EXCEPT ![w] = NoMessage]
      BY <1>6 DEF Leave
    <2>2. MessageOK(NoMessage)
      BY NoMessageType DEF MessageOK
    <2> QED BY <1>3, <2>1, <2>2, NoMessageType
  <1> QED BY <1>1, <1>4, <1>5, <1>6

-----------------------------------------------------------------------------
(* Steps of the approval workflow *)

\* The workflow keeps the call it runs for, and is one worker's affair.
LEMMA WorkerStepKeeps ==
  ASSUME QueueTypeOK, NEW w \in Workers, WorkerStep(w)
  PROVE  /\ asker[w].at # "idle" /\ asker'[w].call = asker[w].call
         /\ \A v \in Workers : v # w => asker'[v] = asker[v]
  <1>1. ASSUME NEW stage \in WorkerStages, Moves(w, stage)
        PROVE  /\ asker'[w].call = asker[w].call
               /\ \A v \in Workers : v # w => asker'[v] = asker[v]
    BY <1>1, MovesEffect
  <1>2. ASSUME NEW stage \in WorkerStages, NEW i,
               asker' = [asker EXCEPT ![w].at = stage, ![w].id = i]
        PROVE  /\ asker'[w].call = asker[w].call
               /\ \A v \in Workers : v # w => asker'[v] = asker[v]
    BY <1>2 DEF QueueTypeOK, AskerState
  <1>3. {"sweep", "search", "create", "granted", "waiting", "unavailable", "held"}
          \subseteq WorkerStages
    BY DEF WorkerStages
  <1>4. asker[w].at # "idle"
    BY DEF WorkerStep, LookUp, LookUpFails, SweepAgain, Search, SearchFails, Create, CreateFails
  <1>5. CASE LookUp(w) \/ Search(w) \/ Create(w)
    BY <1>1, <1>2, <1>3, <1>4, <1>5 DEF LookUp, Search, Create
  <1>6. CASE LookUpFails(w) \/ SweepAgain(w) \/ SearchFails(w) \/ CreateFails(w)
    BY <1>1, <1>3, <1>4, <1>6 DEF LookUpFails, SweepAgain, SearchFails, CreateFails
  <1> QED BY <1>5, <1>6 DEF WorkerStep

\* Entering the approval workflow keeps GatewayInv.
LEMMA GatewayConsult ==
  ASSUME GatewayInv, NEW w \in Workers, Consult(w)
  PROVE  GatewayInv'
  <1> DEFINE m == [pipe[w] EXCEPT !.at = "consult"]
  <1>1. /\ pipe[w] \in Message /\ pipe[w].at = "judged" /\ MessageOK(pipe[w])
        /\ pipe[w].call \in Calls
        /\ taken' \in 0..MaxMessages /\ decided' \in 0..MaxDecisions
    BY DEF Consult, GatewayInv, PipeTypes, MessageOK
  <1>2. /\ m \in Message /\ m.at = "consult" /\ m.decision = pipe[w].decision
        /\ m.call = pipe[w].call /\ m.finding = pipe[w].finding /\ m.ai = pipe[w].ai
        /\ m.grant = pipe[w].grant /\ m.out = pipe[w].out
    BY <1>1 DEF Message, Stages
  <1>3. pipe' = [pipe EXCEPT ![w] = m]
    BY DEF Consult, GatewayInv, PipeTypes
  <1>4. QueueStep
    BY <1>1 DEF Consult, QueueStep
  <1>5. /\ asker'[w].call = pipe[w].call
        /\ \A v \in Workers : v # w => asker'[v] = asker[v]
    BY DEF Consult, Ask, AskFails, GatewayInv, QueueInv, QueueTypeOK
  <1> HIDE DEF m
  <1>6. MessageOK(m)
    BY <1>1, <1>2 DEF MessageOK
  <1> QED BY <1>1, <1>2, <1>3, <1>4, <1>5, <1>6, OneMessage

\* The statements of the approval workflow keep GatewayInv.
LEMMA GatewayWorkflow ==
  ASSUME GatewayInv, NEW w \in Workers, Workflow(w)
  PROVE  GatewayInv'
  <1>1. QueueTypeOK /\ WorkerStep(w)
    BY DEF GatewayInv, QueueInv, Workflow
  <1>2. /\ asker[w].at # "idle" /\ asker'[w].call = asker[w].call
        /\ \A v \in Workers : v # w => asker'[v] = asker[v]
    BY <1>1, WorkerStepKeeps
  <1>3. /\ pipe[w] \in Message /\ MessageOK(pipe[w])
        /\ pipe[w].at = "consult" /\ asker[w].call = pipe[w].call
        /\ taken' \in 0..MaxMessages /\ decided' \in 0..MaxDecisions
        /\ pipe' = [pipe EXCEPT ![w] = pipe[w]]
    BY <1>2 DEF Workflow, GatewayInv, PipeTypes, InStep
  <1>4. QueueStep
    BY <1>1 DEF QueueStep
  <1> QED BY <1>2, <1>3, <1>4, OneMessage

\* This is where a grant clears the message.
LEMMA GatewayResume ==
  ASSUME GatewayInv, NEW w \in Workers, Resume(w)
  PROVE  GatewayInv'
  <1> DEFINE m       == pipe[w]
             granted == [Concluded(m, "ALLOW") EXCEPT !.grant = asker[w].id]
             held    == Concluded(m, m.decision)
  <1>1. /\ m \in Message /\ m.at = "consult" /\ MessageOK(m)
        /\ m.decision = "REQUIRE_APPROVAL" /\ m.out = "none" /\ m.grant = 0
        /\ MayBeApproved(m.finding.policy, m.finding.det, m.ai)
        /\ taken' \in 0..MaxMessages /\ decided' \in 0..MaxDecisions
    BY DEF Resume, GatewayInv, PipeTypes, MessageOK
  <1>2. QueueStep
    BY DEF Resume, QueueStep
  <1>3. /\ asker[w].at # "idle" /\ asker[w].call = m.call
        /\ asker[w].id \in Nat
        /\ asker'[w].at = "idle"
        /\ \A v \in Workers : v # w => asker'[v] = asker[v]
    BY DEF Resume, Finish, Outcomes, NotAsking, GatewayInv, QueueInv, QueueTypeOK, AskerState,
           InStep
  <1>4. "ALLOW" \in Decisions /\ "REQUIRE_APPROVAL" \in Decisions
    BY DEF Decisions
  <1>5. CASE asker[w].at = "granted"
    <2>1. pipe' = [pipe EXCEPT ![w] = granted]
      BY <1>5 DEF Resume
    <2>2. /\ asker[w].id \in consented
          /\ table[asker[w].id].call = m.call
      BY <1>3, <1>5 DEF GatewayInv, QueueInv, OutcomeFitsCall
    <2> DEFINE c == Concluded(m, "ALLOW")
    <2>3. /\ c \in Message /\ c.at = "log" /\ c.decision = "ALLOW"
          /\ c.call = m.call /\ c.finding = m.finding /\ c.ai = m.ai /\ c.out = "none"
      BY <1>1, <1>4, ConcludedType
    <2> HIDE DEF c, m
    <2>4. /\ granted \in Message /\ granted.at = "log" /\ granted.decision = "ALLOW"
          /\ granted.call = m.call /\ granted.finding = m.finding /\ granted.ai = m.ai
          /\ granted.grant = asker[w].id /\ granted.out = "none"
      <3>1. granted = [c EXCEPT !.grant = asker[w].id]
        BY DEF c
      <3> HIDE DEF granted
      <3> QED BY <1>3, <2>3, <3>1 DEF Message
    <2> HIDE DEF granted
    <2>5. MessageOK(granted)
      BY <1>1, <2>2, <2>4 DEF MessageOK, Cleared
    <2> QED BY <1>1, <1>2, <1>3, <2>1, <2>4, <2>5, OneMessage
  <1>6. CASE asker[w].at # "granted"
    <2>1. pipe' = [pipe EXCEPT ![w] = held]
      BY <1>6 DEF Resume
    <2>2. /\ held \in Message /\ held.at = "log" /\ held.decision = "REQUIRE_APPROVAL"
          /\ held.out = "none"
      BY <1>1, <1>4, ConcludedType
    <2> HIDE DEF held, m
    <2>3. MessageOK(held)
      BY <2>2 DEF MessageOK, Forwards
    <2> QED BY <1>1, <1>2, <1>3, <2>1, <2>2, <2>3, OneMessage
  <1> QED BY <1>5, <1>6

-----------------------------------------------------------------------------
(* The other steps, and the initial state *)

\* Operators and the clock keep GatewayInv: they take back no consent.
LEMMA GatewaySurroundings ==
  ASSUME GatewayInv, Surroundings
  PROVE  GatewayInv'
  <1>1. /\ QueueStep /\ UNCHANGED <<asker, pipe, taken>>
        /\ decided' \in 0..MaxDecisions
    <2>1. CASE Tick /\ UNCHANGED decided
      BY <2>1 DEF Tick, QueueStep, Surroundings, GatewayInv, PipeTypes
    <2>2. ASSUME NEW o \in Operators, OperatorActs(o), decided < MaxDecisions,
                 decided' = decided + 1
          PROVE  /\ QueueStep /\ UNCHANGED <<asker, pipe, taken>>
                 /\ decided' \in 0..MaxDecisions
      <3>1. decided \in 0..MaxDecisions /\ MaxDecisions \in Nat
        BY GatewayAssumption DEF GatewayInv, PipeTypes
      <3>2. decided' \in 0..MaxDecisions
        BY <2>2, <3>1
      <3>3. QueueStep
        BY <2>2 DEF QueueStep
      <3>4. UNCHANGED asker
        BY <2>2 DEF OperatorActs, Decide
      <3> QED BY <3>2, <3>3, <3>4 DEF Surroundings
    <2>3. ASSUME NEW o \in Operators, OperatorStep(o), UNCHANGED decided
          PROVE  /\ QueueStep /\ UNCHANGED <<asker, pipe, taken>>
                 /\ decided' \in 0..MaxDecisions
      BY <2>3 DEF OperatorStep, Check, Update, Record, Crash, QueueStep, Surroundings,
                  GatewayInv, PipeTypes
    <2> QED BY <2>1, <2>2, <2>3 DEF Surroundings
  <1>2. QueueInv'
    BY <1>1, InvStep DEF GatewayInv
  <1>3. RowsKept /\ consented \subseteq consented' /\ QueueInv
    BY <1>1, RowsStay DEF GatewayInv
  <1>4. PipeTypes' /\ InStep'
    BY <1>1 DEF GatewayInv, PipeTypes, InStep
  <1>5. ASSUME NEW v \in Workers
        PROVE  MessageOK(pipe[v])'
    <2>1. PICK x : x = pipe[v]
      OBVIOUS
    <2>2. MessageOK(x)
      BY <2>1 DEF GatewayInv
    <2>3. MessageOK(x)'
      BY <1>3, <2>2, MessageKept
    <2> QED BY <1>1, <2>1, <2>3 DEF MessageOK, Cleared
  <1> QED BY <1>2, <1>4, <1>5 DEF GatewayInv

\* The idle gateway satisfies GatewayInv.
LEMMA GatewayInit == Init => GatewayInv
  <1> SUFFICES ASSUME Init PROVE GatewayInv
    OBVIOUS
  <1>1. QueueInv /\ InStep
    BY InvInit DEF Init, QueueInit, NotAsking, InStep
  <1>2. PipeTypes
    BY NoMessageType, GatewayAssumption DEF Init, PipeTypes
  <1>3. \A w \in Workers : MessageOK(pipe[w])
    BY NoMessageType DEF Init, MessageOK
  <1> QED BY <1>1, <1>2, <1>3 DEF GatewayInv

\* Every step of the gateway keeps GatewayInv.
LEMMA GatewayStep == GatewayInv /\ [Next]_vars => GatewayInv'
  <1> SUFFICES ASSUME GatewayInv, [Next]_vars PROVE GatewayInv'
    OBVIOUS
  <1>1. ASSUME NEW w \in Workers, Arrival(w) \/ Progress(w) \/ TimeOut(w)
        PROVE  GatewayInv'
    <2>1. ClassifierGivesUp(w) => GatewayInv'
      BY GatewayClassified DEF ClassifierGivesUp, Risks
    <2> QED
      BY <1>1, <2>1, GatewayArrival, GatewayGivesUp, GatewayAnswers, GatewayConsult,
         GatewayWorkflow, GatewayResume DEF Progress, TimeOut
  <1>2. ASSUME NEW w \in Workers, NEW ai \in AiRisks, Classified(w, ai)
        PROVE  GatewayInv'
    BY <1>2, GatewayClassified, GatewayAssumption
  <1>3. CASE Surroundings
    BY <1>3, GatewaySurroundings
  <1>4. CASE UNCHANGED vars
    BY <1>4, InvStep DEF vars, queueVars, GatewayInv, PipeTypes, InStep, MessageOK, Cleared
  <1> QED BY <1>1, <1>2, <1>3, <1>4 DEF Next

-----------------------------------------------------------------------------
(* The properties *)

\* The invariant of the pipeline holds throughout.
THEOREM GatewayInvariant == SafeSpec => []GatewayInv
  BY GatewayInit, GatewayStep, PTL DEF SafeSpec

\* Messages, queue and counters keep their types.
THEOREM GatewayTypeCorrect == SafeSpec => []GatewayTypeOK
  <1>1. GatewayInv => GatewayTypeOK
    BY DEF GatewayInv, QueueInv, PipeTypes, GatewayTypeOK
  <1> QED BY <1>1, GatewayInvariant, PTL

\* No tool call reaches the server unless nothing speaks against it, or an operator
\* approved a request of the identical call and its verdict left room for that
\* (handle_line, inspect_tool_call, set_approval): for any number of workers and
\* operators, and whether or not statements fail.
THEOREM ForwardedTheorem == SafeSpec => []ForwardedOnlyWhenCleared
  <1>1. ASSUME GatewayInv, NEW w \in Workers,
               pipe[w].out = "forwarded", pipe[w].call # NoCall
        PROVE  Cleared(pipe[w])
    BY <1>1 DEF GatewayInv, MessageOK
  <1>2. GatewayInv => ForwardedOnlyWhenCleared
    BY <1>1 DEF ForwardedOnlyWhenCleared
  <1> QED BY <1>2, GatewayInvariant, PTL

\* What keeps the set of rows: a sweep, an update, or no statement on them.
RowSetKept ==
  \/ SweepExpired
  \/ table' = table
  \/ \E o \in Operators : Update(o)

\* Rows come from Create alone.
LEMMA RowSetKeptEffect ==
  ASSUME QueueTypeOK, RowSetKept
  PROVE  DOMAIN table' = DOMAIN table
  BY SweepEffect, UpdateEffect DEF RowSetKept

\* Operators are only ever asked about calls that an approval may let through: a
\* denied or sandboxed call leaves no request (inspect_tool_call).
THEOREM AskedTheorem == SafeSpec => NeverAsksForForbidden
  <1> DEFINE Asked(i) == LET m == pipe[table'[i].by]
                         IN  MayBeApproved(m.finding.policy, m.finding.det, m.ai)
  <1>1. ASSUME GatewayInv, Next, NEW i \in DOMAIN table', i \notin DOMAIN table
        PROVE  Asked(i)
    <2>1. QueueTypeOK
      BY <1>1 DEF GatewayInv, QueueInv
    <2>2. ~RowSetKept
      BY <1>1, <2>1, RowSetKeptEffect
    <2>3. ASSUME NEW w \in Workers, Workflow(w)
          PROVE  Asked(i)
      <3>1. Create(w)
        BY <2>2, <2>3
        DEF Workflow, WorkerStep, LookUp, LookUpFails, SweepAgain, Search, SearchFails,
            CreateFails, RowSetKept
      <3>2. /\ pipe' = pipe /\ asker[w].at = "create" /\ asker[w].call \in Calls
            /\ pipe[w].at = "consult"
        BY <1>1, <2>3, <3>1
        DEF Workflow, Create, GatewayInv, QueueInv, AskerHasCall, InStep
      <3>3. /\ Len(table) \in Nat
            /\ DOMAIN table = 1..Len(table) /\ DOMAIN table' = 1..(Len(table) + 1)
            /\ table'[Len(table) + 1].by = w
        BY <2>1, <3>1, <3>2, CreateEffect
      <3>4. table'[i].by = w
        BY <1>1, <3>3
      <3> QED BY <1>1, <3>2, <3>4 DEF GatewayInv, MessageOK
    <2>4. ASSUME NEW w \in Workers, Consult(w) \/ Resume(w)
          PROVE  FALSE
      BY <2>2, <2>4 DEF Consult, Ask, AskFails, Resume, Finish, RowSetKept
    <2>5. ASSUME NEW w \in Workers,
                 Arrival(w) \/ AppendEvent(w) \/ Answer(w) \/ Leave(w) \/ TimeOut(w)
                   \/ (\E ai \in AiRisks : Classified(w, ai))
          PROVE  FALSE
      BY <2>2, <2>5
      DEF Arrival, Inspect, Refuse, PassOn, Take, AppendEvent, Answer, Leave, TimeOut,
          ClassifierGivesUp, Classified, PipelineGivesUp, RowSetKept, queueVars
    <2>6. CASE Surroundings
      <3>1. Tick => table' = table
        BY DEF Tick
      <3>2. ASSUME NEW o \in Operators, OperatorActs(o)
            PROVE  SweepExpired
        BY <3>2 DEF OperatorActs, Decide
      <3>3. ASSUME NEW o \in Operators, Check(o) \/ Record(o) \/ Crash(o)
            PROVE  table' = table
        BY <3>3 DEF Check, Record, Crash
      <3> QED BY <2>2, <2>6, <3>1, <3>2, <3>3 DEF Surroundings, OperatorStep, RowSetKept
    <2> QED BY <1>1, <2>3, <2>4, <2>5, <2>6 DEF Next, Progress
  <1>2. GatewayInv /\ [Next]_vars =>
          [\A i \in DOMAIN table' :
             i \notin DOMAIN table =>
               LET m == pipe[table'[i].by]
               IN  MayBeApproved(m.finding.policy, m.finding.det, m.ai)]_vars
    BY <1>1
  <1> QED BY <1>2, GatewayInvariant, PTL DEF NeverAsksForForbidden, SafeSpec

-----------------------------------------------------------------------------
(***************************************************************************)
(* The gateway and the queue.  Every step of the pipeline, the operators   *)
(* and the clock is a step of the unbounded queue or leaves it alone: what *)
(* ApprovalsProofs shows of the queue holds where the gateway uses it.     *)
(***************************************************************************)
\* A step of the gateway is a step of the queue, or none of its variables change.
LEMMA QueueStepOfGateway ==
  ASSUME GatewayInv, [Next]_vars
  PROVE  [QueueStep]_queueVars
  <1>1. ASSUME NEW w \in Workers, Consult(w)
        PROVE  QueueStep
    <2>1. pipe[w].call \in Calls
      BY <1>1 DEF Consult, GatewayInv, MessageOK
    <2> QED BY <1>1, <2>1 DEF Consult, QueueStep
  <1>2. ASSUME NEW w \in Workers, Workflow(w) \/ Resume(w)
        PROVE  QueueStep
    BY <1>2 DEF Workflow, Resume, QueueStep
  <1>3. ASSUME NEW w \in Workers,
               Arrival(w) \/ AppendEvent(w) \/ Answer(w) \/ Leave(w) \/ TimeOut(w)
                 \/ (\E ai \in AiRisks : Classified(w, ai))
        PROVE  UNCHANGED queueVars
    BY <1>3
    DEF Arrival, Inspect, Refuse, PassOn, Take, AppendEvent, Answer, Leave, TimeOut,
        ClassifierGivesUp, Classified, PipelineGivesUp
  <1>4. CASE Surroundings
    BY <1>4 DEF Surroundings, QueueStep
  <1>5. CASE UNCHANGED vars
    BY <1>5 DEF vars
  <1> QED BY <1>1, <1>2, <1>3, <1>4, <1>5 DEF Next, Progress

\* The gateway implements the queue (inspect_tool_call around the statements of
\* aegis-audit).
THEOREM GatewayImplementsQueue == SafeSpec => UnboundedQueue
  <1>1. Init => QueueInit
    BY DEF Init
  <1>2. GatewayInv /\ [Next]_vars => [QueueStep]_queueVars
    BY QueueStepOfGateway
  <1> QED BY <1>1, <1>2, GatewayInvariant, PTL DEF SafeSpec, UnboundedQueue

\* In the gateway a grant is for the identical call and was approved while it was
\* pending and unexpired; no expired request is honoured, not even one approved late
\* (inspect_tool_call, find_approved_grant, set_approval).
THEOREM ConsentInGateway == SafeSpec => []OutcomeFitsCall /\ LapsedNeverHonoured
  BY GatewayImplementsQueue, ConsentTheorem, LapsedTheorem, PTL

\* While no operator dies half-way, every decision that stands is on record.
THEOREM RecordedInGateway ==
  ASSUME "crash" \notin Faults
  PROVE  SafeSpec => []DecisionsRecorded
  BY GatewayImplementsQueue, RecordedTheorem, PTL

\* The whole gateway keeps the promise made to operators: through classifiers, timeouts
\* and crashes a call only goes ahead on a request for it that was approved in time
\* and is not expired (handle_line, inspect_tool_call).
THEOREM GatewayKeepsPromise == SafeSpec => ImplementsConsent
  BY GatewayImplementsQueue, QueueImplementsConsent, PTL
=============================================================================
