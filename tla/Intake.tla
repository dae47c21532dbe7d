------------------------------- MODULE Intake -------------------------------
(***************************************************************************)
(* What a gateway process does with a line before the verdict: load_policy *)
(* at its start, the limiter, tool definitions (fingerprint_tool and       *)
(* ToolRegistry::observe), the session's rate and the policy's decision,   *)
(* which Gateway takes as an input.  The policy files are edited while the *)
(* process runs; it is stopped and started again, with what Configuration  *)
(* makes of the operator's settings.                                       *)
(***************************************************************************)
EXTENDS Sessions, Policy, Configuration, Evidence, FiniteSets

CONSTANTS
  Fields,       \* the names a field condition can use
  CallsMade,    \* calls, with what detectors look at and patterns match in them
  Lists,        \* tool lists that lines carry: sequences of definitions
  Owner,        \* the key whose holder signs the policy, which installations trust
  RuleSets,     \* rules the owner may sign
  Bundles,      \* contents others may give to the bundle file
  Dirs,         \* contents of the policy directory
  MaxEdits,     \* bound: changes to the policy files
  MaxLives      \* bound: processes started

ASSUME IntakeAssumption ==
  /\ CallsMade \subseteq [fields : [Fields -> STRING], path : Seq(STRING),
                          external : BOOLEAN, evidence : Evidences]
  /\ Certain = One
  /\ \A s \in Settings : Effective(s).required => Effective(s).key \in {Owner, NoKey}
  /\ \A list \in Lists : list \in Seq([tool : STRING, schema : STRING, description : STRING])
  /\ \A r \in RuleSets : AreRules(r)
  /\ \A bundle \in Bundles : AreRules(bundle.rules)
  /\ \A dir \in Dirs : HoldRules(dir)
  /\ MaxEdits \in Nat
  /\ MaxLives \in Nat

VARIABLES
  settings,   \* of this installation
  files,      \* the bundle file and the policy directory
  signed,     \* history: rules the owner has signed
  edits,      \* changes to the files so far
  running,    \* is there a process?
  rules,      \* the rules it holds
  lives,      \* processes started so far
  registry,   \* its tool records
  hand,       \* definitions of the line in hand still to be observed
  events,     \* TOOL_DISCOVERED and TOOL_CHANGED events
  decided     \* the call that the policy has just decided

processVars == <<running, rules, lives, registry, hand, decided>>
policyVars == <<settings, files, signed, edits>>
vars == <<sessionVars, policyVars, processVars, events>>

\* The configuration every process of this installation is started with.
config == Effective(settings)

-----------------------------------------------------------------------------
(* Tools *)

Definitions == UNION {Range(list) : list \in Lists}
ToolNames == {d.tool : d \in Definitions}

NoDefinition == [tool |-> "", schema |-> "", description |-> ""]
Unknown == [def |-> NoDefinition, version |-> 0]

\* Faulty variant of ChangeTo: the description is compared only with the schema.
ChangeOfSchemaOnly(d) ==
  IF registry[d.tool].version > 0 /\ registry[d.tool].def.schema # d.schema
  THEN "PERMISSION_EXPANSION" ELSE "none"

\* What observe makes of a definition.  A changed schema hides a changed
\* description, and always counts as an expansion.
ChangeTo(d) ==
  LET known == registry[d.tool]
  IN  IF known.version = 0 THEN "none"
      ELSE IF known.def.schema # d.schema THEN "PERMISSION_EXPANSION"
      ELSE IF known.def.description # d.description THEN "DESCRIPTION_CHANGE"
      ELSE "none"

\* The next definition of the line in hand: "none" is logged as TOOL_DISCOVERED,
\* anything else as TOOL_CHANGED.
Observe ==
  /\ running
  /\ hand # <<>>
  /\ LET d == Head(hand)
     IN  /\ registry' = IF registry[d.tool].version = 0 \/ ChangeTo(d) # "none"
                        THEN [registry EXCEPT ![d.tool] =
                               [def |-> d, version |-> registry[d.tool].version + 1]]
                        ELSE registry
         /\ events' = Append(events, [def |-> d, change |-> ChangeTo(d), life |-> lives])
  /\ hand' = Tail(hand)
  /\ UNCHANGED <<sessionVars, policyVars, running, rules, lives, decided>>

-----------------------------------------------------------------------------
(* Calls *)

\* The policy is given the upper-cased name of the kind in the program, which has
\* no underscores.
NameOf(kind) ==
  CASE kind = "UNTRUSTED_WEB"  -> "UNTRUSTEDWEB"
    [] kind = "UNTRUSTED_USER" -> "UNTRUSTEDUSER"
    [] kind = "EXTERNAL_API"   -> "EXTERNALAPI"
    [] kind = "MCP_SERVER"     -> "MCPSERVER"
    [] kind = "PERSONAL_DATA"  -> "PERSONALDATA"
    [] kind = "SENSITIVE_DATA" -> "SENSITIVEDATA"
    [] OTHER                   -> kind

FoundIn == [call \in CallsMade |-> [kinds |-> Kinds(call.evidence), risk |-> Risk(call.evidence)]]

\* Fields of EvalInput the gateway leaves empty.
NeverFilled == {"user", "environment", "branch", "http_method", "sql_op", "resource"}

\* EvalInput for a call of session s that arrives now.
InputOf(call, s) ==
  [fields   |-> [f \in Fields |-> IF f \in NeverFilled THEN Blank ELSE call.fields[f]],
   path     |-> call.path,
   external |-> call.external,
   taints   |-> {NameOf(kind) : kind \in FoundIn[call].kinds},
   risk     |-> FoundIn[call].risk,
   calls    |-> stats[s].calls + 1,
   elapsed  |-> IF stats[s].calls = 0 THEN 0 ELSE Elapsed(s),
   time     |-> now]

NoDecision == [call |-> <<>>, decision |-> "none"]

Decide(call, s) ==
  decided' = [call |-> <<call>>, decision |-> Evaluate(rules, InputOf(call, s))]

-----------------------------------------------------------------------------
(* Lines and REST calls *)

\* The proxy loop takes a line when it is done with the one before.
Ready == running /\ hand = <<>> /\ decided = NoDecision

\* The decision goes on to the rest of inspect_tool_call (module Gateway).
HandOver ==
  /\ decided # NoDecision
  /\ decided' = NoDecision
  /\ UNCHANGED <<sessionVars, policyVars, running, rules, lives, registry, hand,
                 events>>

Refused(s) ==
  /\ Ready
  /\ RefuseLine(s)
  /\ UNCHANGED <<policyVars, processVars, events>>

\* A line with tool definitions, or (an empty list) one that is not inspected.
TakeList(s, list) ==
  /\ Ready
  /\ OtherLine(s)
  /\ hand' = list
  /\ UNCHANGED <<policyVars, running, rules, lives, registry, decided, events>>

TakeCall(s, call) ==
  /\ Ready
  /\ CallLine(s)
  /\ Decide(call, s)
  /\ UNCHANGED <<policyVars, running, rules, lives, registry, hand, events>>

TakeApiCall(s, call) ==
  /\ running
  /\ decided = NoDecision
  /\ ApiCall(s)
  /\ Decide(call, s)
  /\ UNCHANGED <<policyVars, running, rules, lives, registry, hand, events>>

-----------------------------------------------------------------------------
(* The process *)

\* run_proxy and serve_api; if the configuration is not valid or the policy may not
\* be used there is no process.
Start ==
  /\ ~running
  /\ lives < MaxLives
  /\ Valid(config)
  /\ MayStart(config, files)
  /\ running' = TRUE
  /\ rules' = LoadedRules(config, files)
  /\ lives' = lives + 1
  /\ UNCHANGED <<sessionVars, policyVars, registry, hand, decided, events>>

\* The process ends, at any point: what it kept is gone.
Stop ==
  /\ running
  /\ Forget
  /\ running' = FALSE
  /\ rules' = <<>>
  /\ registry' = [t \in ToolNames |-> Unknown]
  /\ hand' = <<>>
  /\ decided' = NoDecision
  /\ UNCHANGED <<policyVars, lives, events>>

-----------------------------------------------------------------------------
(* The policy files *)

Edit(newFiles) ==
  /\ edits < MaxEdits
  /\ edits' = edits + 1
  /\ files' = newFiles
  /\ UNCHANGED <<sessionVars, settings, processVars, events>>

\* sign_bundle, and the bundle is put in place.
Sign(r) ==
  /\ Edit([files EXCEPT !.bundle = SignedBy(Owner, r)])
  /\ signed' = signed \cup {r}

\* Somebody else writes the bundle file.  The owner's signature can be copied but
\* not made.
Overwrite(bundle) ==
  /\ bundle.signature.by = Owner => bundle.signature.of \in signed
  /\ Edit([files EXCEPT !.bundle = bundle])
  /\ UNCHANGED signed

EditDir(dir) ==
  /\ Edit([files EXCEPT !.dir = dir])
  /\ UNCHANGED signed

-----------------------------------------------------------------------------
Init ==
  /\ SessionInit
  /\ settings \in Settings
  /\ \E r \in RuleSets, dir \in Dirs :
       /\ files = [bundle |-> SignedBy(Owner, r), dir |-> dir]
       /\ signed = {r}
  /\ edits = 0
  /\ running = FALSE
  /\ rules = <<>>
  /\ lives = 0
  /\ registry = [t \in ToolNames |-> Unknown]
  /\ hand = <<>>
  /\ events = <<>>
  /\ decided = NoDecision

Next ==
  \/ Start
  \/ Stop
  \/ Observe
  \/ HandOver
  \/ \E s \in SessionIds :
       \/ Refused(s)
       \/ \E list \in Lists \cup {<<>>} : TakeList(s, list)
       \/ \E call \in CallsMade : TakeCall(s, call) \/ TakeApiCall(s, call)
  \/ \E r \in RuleSets : Sign(r)
  \/ \E bundle \in Bundles : Overwrite(bundle)
  \/ \E dir \in Dirs : EditDir(dir)
  \/ Tick /\ UNCHANGED <<policyVars, processVars, events>>

Spec == Init /\ [][Next]_vars

-----------------------------------------------------------------------------
(* Properties *)

IntakeTypeOK ==
  /\ SessionTypeOK
  /\ settings \in Settings
  /\ signed \subseteq RuleSets
  /\ edits \in 0..MaxEdits
  /\ running \in BOOLEAN
  /\ AreRules(rules)
  /\ lives \in 0..MaxLives
  /\ registry \in [ToolNames -> [def : Definitions \cup {NoDefinition}, version : Nat]]
  /\ hand \in Seq(Definitions)
  /\ decided.decision \in Actions \cup {"none"}

\* With require_signed a process only ever holds rules that the owner signed,
\* whatever is done to the files between and during its lives (load_policy,
\* verify_bundle).
OnlySignedRules == running /\ config.required => rules \in signed

\* A demand for signed rules in the file, in the environment or in the flags is met
\* by every process that starts, with one exception: load_config gives up a file
\* that is missing or does not validate, and with it all it says and the whole
\* environment.  What the flags demand survives even that (load_config,
\* apply_bundle_overrides).
DemandLostOnlyWithFile ==
  running /\ Wanted(settings).required /\ rules \notin signed
  => ~Accepted(settings) /\ "required" \notin DOMAIN settings.flags

\* Rounding never changes what the guardrail does: an injection score, whichever
\* patterns it is added up from and in f32, is on the same side of 0.5 and of 0.85 as
\* the sum that is meant, unless that is 0.85 itself (inspect_tool_description).
RoundingHarmless == decided # NoDecision => Flipped = {}

\* Paths are judged by where they lead: out of the workspace and to sensitive names
\* none is let pass, and below the workspace no other is stopped.  The exception that
\* tests/security/README.md documents is there for every even number of levels, and
\* no other is (inspect_filesystem, lexical_normalize).
PathsJudgedByPlace == decided # NoDecision => Misjudged = {}

\* The rules, but with a mistake in condition c of rule i.
Mistyped(i, c, key) ==
  [rules EXCEPT ![i].when = (rules[i].when \ {c}) \cup {[garbled |-> key]}]

RateOrTime(c) ==
  IF "rate" \in DOMAIN c THEN {"rate"} ELSE IF "from" \in DOMAIN c THEN {"time"} ELSE {}

\* "Malformed values never match (fail-closed ...)" (cond_matches): a mistake in
\* the rate or the time of a rule that lets calls pass lets no call pass that
\* would not pass without it, with whatever rules before and after it.
MistakesNarrow ==
  \A i \in DOMAIN rules : \A c \in rules[i].when : \A key \in RateOrTime(c) :
    rules[i].action \in {"ALLOW", "WARN"} =>
      \A call \in CallsMade, s \in SessionIds :
        Forwarded(Mistyped(i, c, key), InputOf(call, s)) => Forwarded(rules, InputOf(call, s))

\* A daily window is the arc of the clock from its start to its end, also over
\* midnight; and of two windows that make up a day exactly one is open
\* (time_in_window).
WindowIsArc ==
  \A from, until \in 0..(Day - 1) :
    /\ InWindow(now, from, until) <=> (now - from) % Day < (until - from) % Day
    /\ from # until => (InWindow(now, from, until) <=> ~InWindow(now, until, from))

\* Earlier events on the tool of event j, in the same process.
Before(j) ==
  {i \in 1..(j - 1) : /\ events[i].def.tool = events[j].def.tool
                      /\ events[i].life = events[j].life}

Changes(tool) ==
  {i \in DOMAIN events : /\ events[i].def.tool = tool
                         /\ events[i].life = lives
                         /\ events[i].change # "none"}

\* Within one process every definition that differs from the last one seen of its
\* tool is reported, once, and nothing else is; the version of a record counts
\* these reports (ToolRegistry::observe).
DriftReported ==
  /\ \A j \in DOMAIN events :
       events[j].change # "none" <=>
         \E i \in Before(j) : /\ events[i].def # events[j].def
                              /\ \A k \in Before(j) : k <= i
  /\ running => \A tool \in ToolNames :
       registry[tool].version > 0 => registry[tool].version = 1 + Cardinality(Changes(tool))

\* What POLICY_GUIDE.md says and the gateway does not do: "SECRET or UNTRUSTED_WEB
\* taint leaving the boundary is denied", with the shipped rules.
TaintedEgressIsDenied ==
  \A i \in DOMAIN decided.call :
    /\ decided.call[i].external
    /\ Kinds(decided.call[i].evidence) \cap {"SECRET", "UNTRUSTED_WEB"} # {}
    => decided.decision = "DENY"
=============================================================================
