------------------------------ MODULE Verdict ------------------------------
(***************************************************************************)
(* How a tool call's verdict is put together from three signals:           *)
(*                                                                         *)
(*  - the policy engine's decision;                                        *)
(*  - the deterministic detectors' risk (paths, shell, SQL, network,       *)
(*    secrets, injection text);                                            *)
(*  - the advisory classifier's risk.                                      *)
(*                                                                         *)
(* combine_verdict of crates/aegis-core, then the guardrail of             *)
(* inspect_tool_call.  Risks are in hundredths.                            *)
(***************************************************************************)
EXTENDS Naturals

Decisions == {"ALLOW", "WARN", "REQUIRE_APPROVAL", "SANDBOX", "DENY"}

Risks == 0..100

\* What handle_line lets through to the server.
Forwards(decision) == decision \in {"ALLOW", "WARN"}

\* Faulty variant of Combine: a high AI risk takes precedence over the policy.
CombineAIFirst(policy, ai) ==
  IF ai >= 60 THEN "REQUIRE_APPROVAL" ELSE policy

\* The classifier's risk raises an ALLOW, and nothing else.
Combine(policy, ai) ==
  IF policy # "ALLOW" THEN policy
  ELSE IF ai >= 85 THEN "DENY"
  ELSE IF ai >= 60 THEN "REQUIRE_APPROVAL"
  ELSE "ALLOW"

\* Faulty variant of Guardrail: every finding goes to an operator.
GuardrailReviewOnly(decision, det) ==
  IF det >= 50 /\ decision # "DENY" THEN "REQUIRE_APPROVAL" ELSE decision

Guardrail(decision, det) ==
  IF det >= 85 THEN "DENY"
  ELSE IF det >= 50 /\ Forwards(decision) THEN "REQUIRE_APPROVAL"
  ELSE decision

Judgement(policy, det, ai) == Guardrail(Combine(policy, ai), det)

-----------------------------------------------------------------------------
(* Properties of the function, for the proofs and the gateway *)

Strictness(decision) ==
  CASE Forwards(decision)              -> 0
    [] decision = "REQUIRE_APPROVAL" -> 1
    [] decision = "SANDBOX"          -> 2
    [] decision = "DENY"             -> 3

\* Nothing speaks against running the call without asking anyone.
Clear(policy, det, ai) ==
  /\ Forwards(policy)
  /\ det < 50
  /\ policy = "ALLOW" => ai < 60

\* An operator's approval may let the call run.
MayBeApproved(policy, det, ai) ==
  /\ policy \notin {"DENY", "SANDBOX"}
  /\ det < 85
  /\ policy = "ALLOW" => ai < 85
=============================================================================
