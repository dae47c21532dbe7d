------------------------------ MODULE Gateway ------------------------------
(***************************************************************************)
(* The inspection pipeline of crates/aegis-proxy: handle_line (the proxy   *)
(* loops) and api_inspect_call (REST) around inspect_tool_call, with the   *)
(* approval queue it shares with the operators.                            *)
(*                                                                         *)
(* Each worker is one task with one message in hand.  The detectors and    *)
(* the policy are functions of the message; their results come with it     *)
(* (`finding`).  Between two statements on the database, and while the     *)
(* classifier runs, every other worker and operator may step.              *)
(***************************************************************************)
EXTENDS Approvals, Verdict

CONSTANTS
  Findings,         \* what policy, detectors and taint store may say of a call
  AiRisks,          \* scores the classifier may give
  ClassifierYields, \* does the classifier's future ever suspend?
  MaxMessages,      \* bound: messages taken in
  MaxDecisions      \* bound: decisions operators set out to make

ASSUME GatewayAssumption ==
  /\ Findings \subseteq [policy : Decisions, det : Risks, tainted : BOOLEAN]
  /\ AiRisks \subseteq Risks
  /\ ClassifierYields \in BOOLEAN
  /\ MaxMessages \in Nat
  /\ MaxDecisions \in Nat

VARIABLES
  pipe,      \* the message each worker has in hand, and how far it has got
  taken,     \* messages taken in so far
  decided    \* decisions operators have set out to make

vars == <<queueVars, pipe, taken, decided>>

-----------------------------------------------------------------------------
Stages == {"idle", "classify", "judged", "consult", "log", "answered"}

Entries == {"line", "api"}

Answers == {"none", "forwarded", "refused", "reported"}

EventKinds == {"POLICY_ALLOW", "POLICY_WARN", "POLICY_DENY", "APPROVAL_REQUESTED",
               "SANDBOX_STARTED", "INJECTION_DETECTED", "TAINT_PROPAGATED",
               "RATE_LIMITED", "SECURITY_ERROR"}

NoFinding == [policy |-> "DENY", det |-> 0, tainted |-> FALSE]

Message ==
  [at : Stages, via : Entries, call : Calls \cup {NoCall},
   finding : Findings \cup {NoFinding},
   ai : Risks,             \* the classifier's score, or what replaced it
   decision : Decisions,   \* the verdict so far
   grant : Nat,            \* the request whose grant was used, 0 for none
   todo : Seq(EventKinds), \* events still to be appended
   out : Answers]

NoMessage ==
  [at |-> "idle", via |-> "line", call |-> NoCall, finding |-> NoFinding,
   ai |-> 0, decision |-> "DENY", grant |-> 0, todo |-> <<>>, out |-> "none"]

\* Faulty variant of EventOf: a held call is logged under its decision's name.
EventOfHeld ==
  [d \in Decisions |->
     CASE d = "ALLOW"            -> "POLICY_ALLOW"
       [] d = "WARN"             -> "POLICY_WARN"
       [] d = "DENY"             -> "POLICY_DENY"
       [] d = "REQUIRE_APPROVAL" -> "REQUIRE_APPROVAL"
       [] d = "SANDBOX"          -> "SANDBOX_STARTED"]

EventOf ==
  [d \in Decisions |->
     CASE d = "ALLOW"            -> "POLICY_ALLOW"
       [] d = "WARN"             -> "POLICY_WARN"
       [] d = "DENY"             -> "POLICY_DENY"
       [] d = "REQUIRE_APPROVAL" -> "APPROVAL_REQUESTED"
       [] d = "SANDBOX"          -> "SANDBOX_STARTED"]

\* The appends at the end of inspect_tool_call.
EventsDue(decision, finding) ==
  <<EventOf[decision]>>
    \o (IF finding.det >= 50 THEN <<"INJECTION_DETECTED">> ELSE <<>>)
    \o (IF finding.tainted THEN <<"TAINT_PROPAGATED">> ELSE <<>>)

-----------------------------------------------------------------------------
(* Taking a message in *)

Take(w, m) ==
  /\ pipe[w].at = "idle"
  /\ taken < MaxMessages
  /\ pipe' = [pipe EXCEPT ![w] = m]
  /\ taken' = taken + 1
  /\ UNCHANGED <<queueVars, decided>>

\* A tool call that passed the rate limit and the parser (or came by REST): the
\* detectors and the policy run at once, and the classifier is asked.
Inspect(w, via, c, f) ==
  Take(w, [NoMessage EXCEPT !.at = "classify", !.via = via, !.call = c, !.finding = f])

\* The rate limit or the parser refuses the line.
Refuse(w, event) ==
  /\ event \in {"RATE_LIMITED", "SECURITY_ERROR"}
  /\ Take(w, [NoMessage EXCEPT !.at = "log", !.todo = <<event>>])

\* A line without a tool call is forwarded as it is.
PassOn(w) == Take(w, [NoMessage EXCEPT !.at = "answered", !.out = "forwarded"])

-----------------------------------------------------------------------------
(* The verdict *)

Concluded(m, decision) ==
  [m EXCEPT !.at = "log", !.decision = decision, !.todo = EventsDue(decision, m.finding)]

Judged(m, ai) ==
  LET decision == Judgement(m.finding.policy, m.finding.det, ai)
      scored   == [m EXCEPT !.ai = ai]
  IN  IF decision = "REQUIRE_APPROVAL"
      THEN [scored EXCEPT !.at = "judged", !.decision = decision]
      ELSE Concluded(scored, decision)

Classified(w, ai) ==
  /\ pipe[w].at = "classify"
  /\ pipe' = [pipe EXCEPT ![w] = Judged(pipe[w], ai)]
  /\ UNCHANGED <<queueVars, taken, decided>>

\* 800 ms are over: the default assessment, risk 0.  A timer of tokio is looked
\* at only when the future it guards has suspended.
ClassifierGivesUp(w) ==
  /\ ClassifierYields
  /\ Classified(w, 0)

\* request_timeout_ms is over, on the path that has this second timer.
PipelineGivesUp(w) ==
  /\ ClassifierYields
  /\ pipe[w].at = "classify"
  /\ pipe[w].via = "line"
  /\ pipe' = [pipe EXCEPT ![w].at = "log", ![w].todo = <<"SECURITY_ERROR">>]
  /\ UNCHANGED <<queueVars, taken, decided>>

-----------------------------------------------------------------------------
(* The approval workflow *)

Consult(w) ==
  /\ pipe[w].at = "judged"
  /\ Ask(w, pipe[w].call) \/ AskFails(w, pipe[w].call)
  /\ pipe' = [pipe EXCEPT ![w].at = "consult"]
  /\ UNCHANGED <<taken, decided>>

Workflow(w) == WorkerStep(w) /\ UNCHANGED <<pipe, taken, decided>>

\* Faulty variant of Resume: the answer waits for the operator's decision.
ResumeWhenGranted(w) ==
  /\ pipe[w].at = "consult"
  /\ asker[w].at = "granted"
  /\ Finish(w)
  /\ pipe' = [pipe EXCEPT ![w] =
       [Concluded(pipe[w], "ALLOW") EXCEPT !.grant = asker[w].id]]
  /\ UNCHANGED <<taken, decided>>

\* A grant turns the verdict into ALLOW; the other outcomes leave it.
Resume(w) ==
  /\ pipe[w].at = "consult"
  /\ Finish(w)
  /\ pipe' = [pipe EXCEPT ![w] =
       IF asker[w].at = "granted"
       THEN [Concluded(pipe[w], "ALLOW") EXCEPT !.grant = asker[w].id]
       ELSE Concluded(pipe[w], pipe[w].decision)]
  /\ UNCHANGED <<taken, decided>>

-----------------------------------------------------------------------------
(* The audit events, and the answer *)

\* Whether the append succeeds or not, the pipeline goes on (`let _ =`).
AppendEvent(w) ==
  /\ pipe[w].at = "log"
  /\ pipe[w].todo # <<>>
  /\ pipe' = [pipe EXCEPT ![w].todo = Tail(pipe[w].todo)]
  /\ UNCHANGED <<queueVars, taken, decided>>

Answer(w) ==
  /\ pipe[w].at = "log"
  /\ pipe[w].todo = <<>>
  /\ pipe' = [pipe EXCEPT ![w].at = "answered",
       ![w].out = IF pipe[w].via = "api" THEN "reported"
                  ELSE IF Forwards(pipe[w].decision) THEN "forwarded"
                  ELSE "refused"]
  /\ UNCHANGED <<queueVars, taken, decided>>

\* The loop comes round, or the REST handler has returned.
Leave(w) ==
  /\ pipe[w].at = "answered"
  /\ pipe' = [pipe EXCEPT ![w] = NoMessage]
  /\ UNCHANGED <<queueVars, taken, decided>>

-----------------------------------------------------------------------------
Arrival(w) ==
  \/ \E via \in Entries, c \in Calls, f \in Findings : Inspect(w, via, c, f)
  \/ \E event \in EventKinds : Refuse(w, event)
  \/ PassOn(w)

\* What the task does of itself, once it has a message.
Progress(w) ==
  \/ Consult(w) \/ Workflow(w) \/ Resume(w)
  \/ AppendEvent(w) \/ Answer(w) \/ Leave(w)

TimeOut(w) == ClassifierGivesUp(w) \/ PipelineGivesUp(w)

Init ==
  /\ QueueInit
  /\ pipe = [w \in Workers |-> NoMessage]
  /\ taken = 0
  /\ decided = 0

\* The operators and the clock go on meanwhile.
Surroundings ==
  /\ \/ Tick /\ UNCHANGED decided
     \/ \E o \in Operators :
          \/ /\ OperatorActs(o)
             /\ decided < MaxDecisions
             /\ decided' = decided + 1
          \/ OperatorStep(o) /\ UNCHANGED decided
  /\ UNCHANGED <<pipe, taken>>

Next ==
  \/ \E w \in Workers : Arrival(w) \/ Progress(w) \/ TimeOut(w)
  \/ \E w \in Workers, ai \in AiRisks : Classified(w, ai)
  \/ Surroundings

SafeSpec == Init /\ [][Next]_vars

\* tokio runs every task that can run, and its timers fire.  Nothing is assumed
\* of the classifier, of the operators or of new messages.
Fairness ==
  \A w \in Workers : WF_vars(Progress(w) \/ TimeOut(w))

Spec == SafeSpec /\ Fairness

\* The classifiers of aegis-classifier: a few regular expressions, or one call of a
\* model, run to their end without suspending.
ClassifierReturns ==
  \A w \in Workers : WF_vars(\E ai \in AiRisks : Classified(w, ai))

LiveSpec == Spec /\ ClassifierReturns

-----------------------------------------------------------------------------
(* Properties *)

GatewayTypeOK ==
  /\ QueueTypeOK
  /\ pipe \in [Workers -> Message]
  /\ taken \in 0..MaxMessages
  /\ decided \in 0..MaxDecisions

\* Nothing speaks against the call; or its verdict left room for an operator, and
\* an operator approved a request of the identical call.
Cleared(m) ==
  \/ /\ m.grant = 0
     /\ Clear(m.finding.policy, m.finding.det, m.ai)
  \/ /\ m.grant \in consented
     /\ table[m.grant].call = m.call
     /\ MayBeApproved(m.finding.policy, m.finding.det, m.ai)

\* A tool call reaches the server only if it is cleared, whatever was approved,
\* denied, expired or timed out while it was under way (handle_line).
ForwardedOnlyWhenCleared ==
  \A w \in Workers :
    pipe[w].out = "forwarded" /\ pipe[w].call # NoCall => Cleared(pipe[w])

\* Operators are never asked to approve what must not run: a request is made
\* only for a call that an approval could let through.
NeverAsksForForbidden ==
  [][\A i \in DOMAIN table' :
       i \notin DOMAIN table =>
         LET m == pipe[table'[i].by]
         IN  MayBeApproved(m.finding.policy, m.finding.det, m.ai)]_vars

\* Every tool call is answered, whatever operators and other calls do: a held call
\* does not wait for its approval.  That a call is answered even if the classifier
\* does not return (docs/threat-model/THREAT_MODEL.md, "DoS - slow AI: model hangs",
\* and the comment on the timeout in handle_line) would need a classifier whose
\* future suspends, for the timers to be looked at.
EveryCallAnswered ==
  \A w \in Workers : pipe[w].at = "classify" ~> pipe[w].at = "answered"
=============================================================================
