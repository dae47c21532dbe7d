------------------------------- MODULE Policy -------------------------------
(***************************************************************************)
(* The policy engine of crates/aegis-policy, as functions: which condition *)
(* holds of which call (cond_matches), which rule decides (evaluate), and  *)
(* which rules a gateway starts with (load_policy, verify_bundle,          *)
(* load_dir).  Values are abstract; a pattern is the set of values it      *)
(* covers, so that "fs_*" and "fs_read" are both sets.                     *)
(***************************************************************************)
EXTENDS Integers, SequencesExt

CONSTANTS
  Day,       \* ticks of the clock in a day: 86400 seconds in the code
  Second,    \* ticks in a second
  Certain,   \* the risk 1.0
  Blank      \* the empty string

ASSUME PolicyAssumption ==
  /\ Day \in Nat \ {0}
  /\ Second \in Nat \ {0}

-----------------------------------------------------------------------------
(* Time *)

\* Faulty variant of InWindow: the window over midnight is forgotten.
InWindowSameDay(t, from, until) ==
  from # until /\ from <= t % Day /\ t % Day < until

\* time_in_window: the daily window from..until without its end.
InWindow(t, from, until) ==
  /\ from # until
  /\ IF from < until
     THEN from <= t % Day /\ t % Day < until
     ELSE from <= t % Day \/ t % Day < until

-----------------------------------------------------------------------------
(* Conditions.  A call is [fields, path, external, taints, risk] and what the *)
(* gateway adds: calls and elapsed of its session, and the time.             *)

\* Boundary-aware containment of paths, split at "/".  A prefix written with a
\* slash at its end has Blank for its last segment.
WithinPath(prefix, path) ==
  \/ IsPrefix(prefix, path)
  \/ /\ Len(prefix) > 1
     /\ Last(prefix) = Blank
     /\ IsStrictPrefix(Front(prefix), path)

\* calls / max(elapsed, 1 s) >= rps
RateReached(rps, call) ==
  /\ call.calls * Second >= rps * Second
  /\ call.calls * Second >= rps * call.elapsed

\* Faulty variant of GarbledHolds: a rate that is no number is read as 0.
GarbledHoldsAtZero(key, call) == key \in {"rate", "time"}

\* A condition whose value has the wrong type or format, or whose key is unknown:
\* a threshold of 1.0, the prefix "", or never.
GarbledHolds(key, call) ==
  \/ key = "risk_gte" /\ call.risk >= Certain
  \/ key = "path_prefix" /\ WithinPath(<<Blank>>, call.path)

\* cond_matches.  A condition is a record whose first field names its kind.
Holds(c, call) ==
  LET is(kind) == kind \in DOMAIN c
  IN  \/ is("field") /\ call.fields[c.field] \in c.among
      \/ is("path") /\ call.path \in c.path
      \/ is("prefix") /\ WithinPath(c.prefix, call.path)
      \/ is("operation") /\ c.operation \in {call.fields["resource"], call.fields["sql_op"]}
      \/ is("taint") /\ c.taint \in call.taints
      \/ is("destination") /\ c.destination = "external_network" /\ call.external
      \/ is("risk") /\ call.risk >= c.risk
      \/ is("rate") /\ RateReached(c.rate, call)
      \/ is("from") /\ InWindow(call.time, c.from, c.until)
      \/ is("garbled") /\ GarbledHolds(c.garbled, call)

-----------------------------------------------------------------------------
(* Rules *)

Actions == {"ALLOW", "DENY", "WARN", "REQUIRE_APPROVAL", "SANDBOX"}

\* Rules as a policy file has them: an action and a set of conditions each.
AreRules(rules) ==
  /\ rules \in Seq(Range(rules))
  /\ \A i \in DOMAIN rules :
       /\ rules[i].action \in Actions
       /\ rules[i] = [action |-> rules[i].action, when |-> rules[i].when]

\* The same of each file of a directory.
HoldRules(dir) ==
  /\ dir \in Seq(Range(dir))
  /\ \A i \in DOMAIN dir : AreRules(dir[i].rules)

\* rule_matches: all its conditions hold, which is so if it has none.
Matching(rules, call) ==
  {i \in DOMAIN rules : \A c \in rules[i].when : Holds(c, call)}

Least(S) == CHOOSE i \in S : \A j \in S : i <= j

\* evaluate: the first rule that matches decides, and DENY if none does.
Evaluate(rules, call) ==
  LET matching == Matching(rules, call)
  IN  IF matching = {} THEN "DENY" ELSE rules[Least(matching)].action

Forwarded(rules, call) == Evaluate(rules, call) \in {"ALLOW", "WARN"}

-----------------------------------------------------------------------------
(* Loading.  Digests are taken as collision-free: a digest is the rules it is *)
(* of.  A signature names what it is of and whose it is.                      *)

SignedBy(key, rules) ==
  [rules |-> rules, digest |-> rules, signature |-> [of |-> rules, by |-> key]]

\* Faulty variant of Verified: the digest in the file is not recomputed.
VerifiedSignatureOnly(bundle, key) ==
  bundle.signature = [of |-> bundle.digest, by |-> key]

\* verify_bundle
Verified(bundle, key) ==
  /\ bundle.digest = bundle.rules
  /\ bundle.signature = [of |-> bundle.digest, by |-> key]

\* load_dir: the rules of all files in path order, or nothing if one is broken;
\* load_policy then starts with no rules.
DirRules(dir) ==
  IF \E i \in DOMAIN dir : ~dir[i].readable
  THEN <<>>
  ELSE FlattenSeq([i \in DOMAIN dir |-> dir[i].rules])

\* load_policy: may the gateway start, and with which rules.
MayStart(config, files) ==
  config.required =>
    config.bundle /\ config.key # "none" /\ Verified(files.bundle, config.key)

LoadedRules(config, files) ==
  IF config.bundle /\ config.key # "none" /\ Verified(files.bundle, config.key)
  THEN files.bundle.rules
  ELSE DirRules(files.dir)
=============================================================================
