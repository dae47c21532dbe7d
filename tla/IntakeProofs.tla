---------------------------- MODULE IntakeProofs ----------------------------
(***************************************************************************)
(* Theorems about the intake: its sessions are those of module Sessions,   *)
(* whose theorems therefore hold of it; what it has loaded are rules, and  *)
(* signed ones where it requires them; mistakes in a rule that lets calls  *)
(* pass only narrow it; drift of tools is reported; paths of any length    *)
(* are judged by where they lead; and rounding changes no verdict on a     *)
(* text.                                                                   *)
(***************************************************************************)
EXTENDS Intake, SessionsProofs, SequenceTheorems, FiniteSetTheorems, WellFoundedInduction

-----------------------------------------------------------------------------
(* The sessions *)

\* Everything the intake does is, for the session variables, a step of Sessions.
LEMMA IntakeStepsSessions == [Next]_vars => [SessionNext]_sessionVars
  <1> SUFFICES ASSUME [Next]_vars PROVE [SessionNext]_sessionVars
    OBVIOUS
  <1>1. CASE UNCHANGED vars
    BY <1>1 DEF vars, sessionVars
  <1>2. CASE Start \/ Observe \/ HandOver
    BY <1>2 DEF Start, Observe, HandOver, sessionVars
  <1>3. CASE Stop
    BY <1>3 DEF Stop, SessionNext
  <1>4. ASSUME NEW s \in SessionIds, Refused(s) PROVE SessionNext
    BY <1>4 DEF Refused, SessionNext
  <1>5. ASSUME NEW s \in SessionIds, NEW list, TakeList(s, list) PROVE SessionNext
    BY <1>5 DEF TakeList, SessionNext
  <1>6. ASSUME NEW s \in SessionIds, NEW call, TakeCall(s, call) \/ TakeApiCall(s, call)
        PROVE  SessionNext
    BY <1>6 DEF TakeCall, TakeApiCall, SessionNext
  <1>8. ASSUME NEW x, Sign(x) \/ Overwrite(x) \/ EditDir(x) PROVE UNCHANGED sessionVars
    BY <1>8 DEF Sign, Overwrite, EditDir, Edit, sessionVars
  <1>9. CASE Tick /\ UNCHANGED <<policyVars, processVars, events>>
    BY <1>9 DEF SessionNext
  <1> QED BY <1>1, <1>2, <1>3, <1>4, <1>5, <1>6, <1>8, <1>9 DEF Next

\* The intake implements Sessions: lines, REST calls and the end of a process
\* leave limiter and session statistics as that module says.
THEOREM IntakeSessions == Spec => SessionSpec
  <1>1. Init => SessionInit
    BY DEF Init
  <1> QED BY <1>1, IntakeStepsSessions, PTL DEF Spec, SessionSpec

\* So the limiter's two bounds, and the one on the rate the policy sees, hold of
\* the whole intake (RateLimiter::check, inspect_tool_call).
THEOREM IntakeBounds ==
  Spec => []BurstBound /\ []ObservedRateBounded /\ RefusedOnlyWhenSpent
  <1> QED BY IntakeSessions, BurstTheorem, RateTheorem, SpentTheorem, PTL

-----------------------------------------------------------------------------
(***************************************************************************)
(* Numbers and sequences.  A set of numbers without a least one is empty:  *)
(* with it, what a recursive function computes is shown by induction on    *)
(* its argument, and that there is such a function at all.                 *)
(***************************************************************************)

\* Pairs of numbers, the smaller one first.
Smaller == {pair \in Nat \X Nat : pair[1] < pair[2]}

\* A set of numbers has a least one.
LEMMA LeastIs ==
  ASSUME NEW S, S \subseteq Nat, S # {}
  PROVE  Least(S) \in S /\ \A i \in S : Least(S) <= i
  <1>1. IsWellFoundedOn(Smaller, Nat)
    BY NatLessThanWellFounded DEF OpToRel, Smaller
  <1>2. PICK n \in S : \A i \in S : <<i, n>> \notin Smaller
    BY <1>1, WFMin
  <1>3. ASSUME NEW i \in S PROVE n <= i
    <2>1. i \in Nat /\ n \in Nat /\ <<i, n>> \notin Smaller
      BY <1>2
    <2>2. ~(i < n)
      BY <2>1 DEF Smaller
    <2> QED BY <2>1, <2>2
  <1> QED BY <1>3 DEF Least

\* A set of numbers that has 0, and n + 1 with every n below top, has all up to top.
LEMMA UpTo ==
  ASSUME NEW top \in Nat, NEW S, 0 \in S, \A n \in 0..(top - 1) : n \in S => n + 1 \in S
  PROVE  0..top \subseteq S
  <1> SUFFICES ASSUME (0..top) \ S # {} PROVE FALSE
    OBVIOUS
  <1> DEFINE n == Least((0..top) \ S)
  <1>1. n \in (0..top) \ S /\ \A i \in (0..top) \ S : n <= i
    BY LeastIs
  <1> HIDE DEF n
  <1>2. n # 0 /\ n - 1 \in 0..(top - 1)
    BY <1>1
  <1>3. n - 1 \in S
    BY <1>1, <1>2
  <1> QED BY <1>1, <1>2, <1>3

\* FlattenSeq joins sequences to one over the same elements.
LEMMA FlattenType ==
  ASSUME NEW S, NEW seqs \in Seq(Seq(S))
  PROVE  FlattenSeq(seqs) \in Seq(S)
  <1> DEFINE n == Len(seqs)
             Step(g, i) == IF i = 1 THEN seqs[i] ELSE g[i - 1] \o seqs[i]
             Solves(g, m) == g = [i \in 1..m |-> Step(g, i)]
             Some == {m \in 0..n : \E g : Solves(g, m)}
  <1>1. n \in Nat /\ \A i \in 1..n : seqs[i] \in Seq(S)
    OBVIOUS
  <1>2. CASE n = 0
    BY <1>1, <1>2 DEF FlattenSeq
  <1>3. CASE n # 0
    <2>1. 0 \in Some
      <3> DEFINE g == [i \in 1..0 |-> 0]
      <3>1. Solves(g, 0)
        OBVIOUS
      <3> HIDE DEF g, Solves
      <3> QED BY <1>1, <3>1
    <2>2. ASSUME NEW m \in 0..(n - 1), m \in Some
          PROVE  m + 1 \in Some
      <3>1. PICK g : Solves(g, m)
        BY <2>2
      <3> DEFINE h == [i \in 1..(m + 1) |-> Step(g, i)]
      <3>2. \A i \in 1..m : g[i] = Step(g, i)
        BY <3>1
      <3>3. \A i \in 1..(m + 1) : Step(h, i) = Step(g, i)
        <4> SUFFICES ASSUME NEW i \in 1..(m + 1) PROVE Step(h, i) = Step(g, i)
          OBVIOUS
        <4>1. CASE i = 1
          BY <4>1
        <4>2. CASE i # 1
          <5>1. i - 1 \in 1..m /\ i - 1 \in 1..(m + 1)
            BY <1>1, <4>2
          <5>2. h[i - 1] = Step(g, i - 1)
            BY <5>1
          <5>3. h[i - 1] = g[i - 1]
            <6> HIDE DEF h, Step
            <6> QED BY <3>2, <5>1, <5>2
          <5> HIDE DEF h
          <5> QED BY <4>2, <5>3
        <4> QED BY <4>1, <4>2
      <3>4. Solves(h, m + 1)
        <4> HIDE DEF Step
        <4> QED BY <3>3
      <3> HIDE DEF Solves
      <3> QED BY <1>1, <3>4
    <2>3. n \in Some
      <3> HIDE DEF Some
      <3>1. 0..n \subseteq Some
        BY <1>1, <2>1, <2>2, UpTo
      <3> QED BY <1>1, <3>1
    <2> DEFINE flatten == CHOOSE g : Solves(g, n)
    <2>4. Solves(flatten, n)
      <3>1. \E g : Solves(g, n)
        BY <2>3
      <3> HIDE DEF Solves
      <3> QED BY <3>1
    <2>5. FlattenSeq(seqs) = flatten[n]
      BY <1>3 DEF FlattenSeq
    <2> HIDE DEF flatten
    <2>6. \A i \in 1..n : flatten[i] = Step(flatten, i)
      BY <2>4
    <2> DEFINE Typed == {m \in 0..n : m # 0 => flatten[m] \in Seq(S)}
    <2>7. 0 \in Typed
      BY <1>1
    <2>8. ASSUME NEW m \in 0..(n - 1), m \in Typed
          PROVE  m + 1 \in Typed
      <3>1. m + 1 \in 1..n /\ (m + 1) - 1 = m
        BY <1>1
      <3>2. seqs[m + 1] \in Seq(S) /\ flatten[m + 1] = Step(flatten, m + 1)
        BY <1>1, <2>6, <3>1
      <3>3. CASE m = 0
        <4>1. flatten[m + 1] = seqs[m + 1]
          BY <3>2, <3>3
        <4> QED BY <3>1, <3>2, <4>1
      <3>4. CASE m # 0
        <4>1. flatten[m] \in Seq(S)
          BY <2>8, <3>4
        <4>2. flatten[m + 1] = flatten[m] \o seqs[m + 1]
          <5>1. m + 1 # 1
            BY <1>1, <3>4
          <5> QED BY <3>1, <3>2, <5>1
        <4>3. flatten[m] \o seqs[m + 1] \in Seq(S)
          BY <3>2, <4>1, ConcatProperties
        <4>4. flatten[m + 1] \in Seq(S)
          BY <4>2, <4>3
        <4> QED BY <1>1, <3>1, <4>4
      <3> QED BY <3>3, <3>4
    <2>9. n \in Typed
      <3> HIDE DEF Typed
      <3>1. 0..n \subseteq Typed
        BY <1>1, <2>7, <2>8, UpTo
      <3> QED BY <1>1, <3>1
    <2> QED BY <1>3, <2>5, <2>9
  <1> QED BY <1>2, <1>3

-----------------------------------------------------------------------------
(***************************************************************************)
(* Type correctness.  The rules of a process come from the files, and what *)
(* a decision may be comes from the rules.                                 *)
(***************************************************************************)
Changing == {"none", "PERMISSION_EXPANSION", "DESCRIPTION_CHANGE"}

FilesOK ==
  /\ DOMAIN files = {"bundle", "dir"}
  /\ AreRules(files.bundle.rules)
  /\ HoldRules(files.dir)

\* IntakeTypeOK but for the sessions, which Sessions is about.
OwnTypeOK ==
  /\ settings \in Settings
  /\ signed \subseteq RuleSets
  /\ edits \in 0..MaxEdits
  /\ running \in BOOLEAN
  /\ AreRules(rules)
  /\ lives \in 0..MaxLives
  /\ registry \in [ToolNames -> [def : Definitions \cup {NoDefinition}, version : Nat]]
  /\ hand \in Seq(Definitions)
  /\ decided.decision \in Actions \cup {"none"}

TypeInv == OwnTypeOK /\ FilesOK

\* No rules are rules.
LEMMA NoRules == AreRules(<<>>)
  BY DEF AreRules, Range

\* What a process loads are rules.
LEMMA LoadedAreRules ==
  ASSUME FilesOK, NEW cfg
  PROVE  AreRules(LoadedRules(cfg, files))
  <1> DEFINE dir == files.dir
             parts == [i \in DOMAIN dir |-> dir[i].rules]
             S == UNION {Range(dir[i].rules) : i \in DOMAIN dir}
  <1>1. /\ dir \in Seq(Range(dir)) /\ DOMAIN dir = 1..Len(dir) /\ Len(dir) \in Nat
        /\ \A i \in DOMAIN dir : AreRules(dir[i].rules)
    BY DEF FilesOK, HoldRules
  <1>2. ASSUME NEW rule \in S
        PROVE  rule.action \in Actions /\ rule = [action |-> rule.action, when |-> rule.when]
    <2>1. PICK i \in DOMAIN dir : rule \in Range(dir[i].rules)
      OBVIOUS
    <2>2. PICK j \in DOMAIN dir[i].rules : rule = dir[i].rules[j]
      BY <2>1 DEF Range
    <2> QED BY <1>1, <2>1, <2>2 DEF AreRules
  <1>3. ASSUME NEW i \in DOMAIN dir PROVE dir[i].rules \in Seq(S)
    <2>1. dir[i].rules \in Seq(Range(dir[i].rules))
      BY <1>1 DEF AreRules
    <2>2. Range(dir[i].rules) \subseteq S
      OBVIOUS
    <2> HIDE DEF S, dir
    <2> QED BY <2>1, <2>2
  <1>4. parts \in Seq(Seq(S))
    <2> HIDE DEF S, dir
    <2> QED BY <1>1, <1>3
  <1>5. AreRules(FlattenSeq(parts))
    <2> DEFINE all == FlattenSeq(parts)
    <2>1. all \in Seq(S)
      BY <1>4, FlattenType
    <2> HIDE DEF all, S
    <2>2. all \in Seq(Range(all)) /\ \A i \in DOMAIN all : all[i] \in S
      BY <2>1, SeqOfRange
    <2> QED BY <1>2, <2>2 DEF AreRules, all
  <1>6. AreRules(DirRules(dir))
    BY <1>5, NoRules DEF DirRules
  <1> QED BY <1>6 DEF LoadedRules, FilesOK

\* The first rule that matches, or the default, says what to do.
LEMMA EvaluateType ==
  ASSUME NEW rs, AreRules(rs), NEW call
  PROVE  Evaluate(rs, call) \in Actions
  <1>1. DOMAIN rs \subseteq Nat
    BY DEF AreRules
  <1>2. Matching(rs, call) \subseteq DOMAIN rs
    BY DEF Matching
  <1>3. CASE Matching(rs, call) = {}
    BY <1>3 DEF Evaluate, Actions
  <1>4. CASE Matching(rs, call) # {}
    <2>1. Least(Matching(rs, call)) \in DOMAIN rs
      BY <1>1, <1>2, <1>4, LeastIs
    <2> QED BY <1>4, <2>1 DEF Evaluate, AreRules
  <1> QED BY <1>3, <1>4

\* The definitions on a line are definitions.
LEMMA ListType ==
  ASSUME NEW list \in Lists \cup {<<>>}
  PROVE  list \in Seq(Definitions)
  <1>1. CASE list = <<>>
    BY <1>1
  <1>2. CASE list \in Lists
    <2>1. list \in Seq(Range(list))
      BY <1>2, IntakeAssumption, SeqOfRange
    <2>2. Range(list) \subseteq Definitions
      BY <1>2 DEF Definitions
    <2> HIDE DEF Definitions
    <2> QED BY <2>1, <2>2
  <1> QED BY <1>1, <1>2

\* A definition is its tool, its schema and its description.
LEMMA DefinitionType ==
  /\ Definitions \subseteq [tool : STRING, schema : STRING, description : STRING]
  /\ \A d \in Definitions : d.tool \in ToolNames
  <1>1. ASSUME NEW list \in Lists
        PROVE  Range(list) \subseteq [tool : STRING, schema : STRING, description : STRING]
    BY IntakeAssumption, RangeOfSeq
  <1> QED BY <1>1 DEF Definitions, ToolNames

\* Observing a definition keeps its record a record.
LEMMA ObserveType ==
  ASSUME OwnTypeOK, Observe
  PROVE  /\ Head(hand) \in Definitions
         /\ Head(hand).tool \in ToolNames
         /\ hand' \in Seq(Definitions)
         /\ registry' \in [ToolNames -> [def : Definitions \cup {NoDefinition}, version : Nat]]
  <1>1. Head(hand) \in Definitions /\ hand' \in Seq(Definitions)
    BY DEF Observe, OwnTypeOK
  <1>2. Head(hand).tool \in ToolNames
    BY <1>1, DefinitionType
  <1> QED BY <1>1, <1>2 DEF Observe, OwnTypeOK

LEMMA TypeStart == Init => TypeInv
  <1> SUFFICES ASSUME Init PROVE TypeInv
    OBVIOUS
  <1>1. PICK r \in RuleSets, dir \in Dirs :
          files = [bundle |-> SignedBy(Owner, r), dir |-> dir] /\ signed = {r}
    BY DEF Init
  <1>2. FilesOK
    BY <1>1, IntakeAssumption DEF FilesOK, SignedBy
  <1>3. registry \in [ToolNames -> [def : Definitions \cup {NoDefinition}, version : Nat]]
    BY DEF Init, Unknown
  <1>4. 0 \in 0..MaxEdits /\ 0 \in 0..MaxLives
    BY IntakeAssumption
  <1>5. AreRules(rules) /\ hand \in Seq(Definitions)
    BY NoRules DEF Init
  <1>6. decided.decision = "none"
    BY DEF Init, NoDecision
  <1> QED BY <1>1, <1>2, <1>3, <1>4, <1>5, <1>6 DEF Init, TypeInv, OwnTypeOK

LEMMA TypeStep == TypeInv /\ [Next]_vars => TypeInv'
  <1> SUFFICES ASSUME TypeInv, [Next]_vars PROVE TypeInv'
    OBVIOUS
  <1> USE DEF TypeInv, OwnTypeOK, FilesOK
  <1>1. CASE UNCHANGED vars
    BY <1>1 DEF vars, policyVars, processVars
  <1>2. CASE Start
    <2>1. lives' \in 0..MaxLives
      BY <1>2, IntakeAssumption DEF Start
    <2>2. AreRules(rules')
      BY <1>2, LoadedAreRules DEF Start
    <2> QED BY <1>2, <2>1, <2>2 DEF Start, policyVars
  <1>3. CASE Stop
    <2>1. registry' \in [ToolNames -> [def : Definitions \cup {NoDefinition}, version : Nat]]
      BY <1>3 DEF Stop, Unknown
    <2>2. AreRules(rules') /\ hand' \in Seq(Definitions)
      BY <1>3, NoRules DEF Stop
    <2>3. decided'.decision = "none"
      BY <1>3 DEF Stop, NoDecision
    <2> QED BY <1>3, <2>1, <2>2, <2>3 DEF Stop, policyVars
  <1>4. CASE Observe
    BY <1>4, ObserveType DEF Observe, policyVars
  <1>5. CASE HandOver
    BY <1>5 DEF HandOver, policyVars, NoDecision
  <1>6. ASSUME NEW s \in SessionIds, Refused(s) PROVE TypeInv'
    BY <1>6 DEF Refused, policyVars, processVars
  <1>7. ASSUME NEW s \in SessionIds, NEW list \in Lists \cup {<<>>}, TakeList(s, list)
        PROVE  TypeInv'
    BY <1>7, ListType DEF TakeList, policyVars
  <1>8. ASSUME NEW s \in SessionIds, NEW call, TakeCall(s, call) \/ TakeApiCall(s, call)
        PROVE  TypeInv'
    <2>1. decided'.decision \in Actions
      BY <1>8, EvaluateType DEF TakeCall, TakeApiCall, Decide
    <2> QED BY <1>8, <2>1 DEF TakeCall, TakeApiCall, policyVars
  <1>9. ASSUME NEW newFiles, Edit(newFiles), AreRules(newFiles.bundle.rules),
               HoldRules(newFiles.dir), DOMAIN newFiles = {"bundle", "dir"},
               signed' \subseteq RuleSets
        PROVE  TypeInv'
    <2>1. edits' \in 0..MaxEdits
      BY <1>9, IntakeAssumption DEF Edit
    <2> QED BY <1>9, <2>1 DEF Edit, processVars
  <1>10. ASSUME NEW r \in RuleSets, Sign(r) PROVE TypeInv'
    <2> DEFINE new == [files EXCEPT !.bundle = SignedBy(Owner, r)]
    <2>1. new.bundle.rules = r /\ new.dir = files.dir /\ DOMAIN new = {"bundle", "dir"}
      BY DEF SignedBy
    <2> HIDE DEF new
    <2>2. Edit(new) /\ signed' \subseteq RuleSets
      BY <1>10 DEF Sign, new
    <2> QED BY <1>9, <2>1, <2>2, IntakeAssumption
  <1>11. ASSUME NEW bundle \in Bundles, Overwrite(bundle) PROVE TypeInv'
    <2> DEFINE new == [files EXCEPT !.bundle = bundle]
    <2>1. new.bundle = bundle /\ new.dir = files.dir /\ DOMAIN new = {"bundle", "dir"}
      OBVIOUS
    <2> HIDE DEF new
    <2>2. Edit(new) /\ signed' \subseteq RuleSets
      BY <1>11 DEF Overwrite, new
    <2> QED BY <1>9, <2>1, <2>2, IntakeAssumption
  <1>12. ASSUME NEW dir \in Dirs, EditDir(dir) PROVE TypeInv'
    <2> DEFINE new == [files EXCEPT !.dir = dir]
    <2>1. new.bundle = files.bundle /\ new.dir = dir /\ DOMAIN new = {"bundle", "dir"}
      OBVIOUS
    <2> HIDE DEF new
    <2>2. Edit(new) /\ signed' \subseteq RuleSets
      BY <1>12 DEF EditDir, new
    <2> QED BY <1>9, <2>1, <2>2, IntakeAssumption
  <1>13. CASE Tick /\ UNCHANGED <<policyVars, processVars, events>>
    BY <1>13 DEF policyVars, processVars
  <1> QED
    BY <1>1, <1>2, <1>3, <1>4, <1>5, <1>6, <1>7, <1>8, <1>10, <1>11, <1>12, <1>13 DEF Next

LEMMA TypeInvariant == Spec => []TypeInv
  BY TypeStart, TypeStep, PTL DEF Spec

\* Settings, rules, records and decisions keep their types, whatever the files hold
\* (all of Intake).
THEOREM IntakeTypeCorrect == Spec => []IntakeTypeOK
  <1>1. SessionInv => SessionTypeOK
    BY DEF SessionInv
  <1>2. SessionTypeOK /\ TypeInv => IntakeTypeOK
    BY DEF TypeInv, OwnTypeOK, IntakeTypeOK
  <1> QED BY <1>1, <1>2, TypeInvariant, IntakeSessions, SessionInvariant, PTL

-----------------------------------------------------------------------------
(* Signed rules *)

\* The inductive invariant: also the file at rest has no signature of the owner
\* that the owner has not made.
SignedInv ==
  /\ settings \in Settings
  /\ DOMAIN files = {"bundle", "dir"}
  /\ files.bundle.signature.by = Owner => files.bundle.signature.of \in signed
  /\ OnlySignedRules

\* A verified bundle holds the rules its signature is of.
LEMMA VerifiedMeaning ==
  ASSUME NEW bundle, NEW key, Verified(bundle, key)
  PROVE  bundle.signature.of = bundle.rules /\ bundle.signature.by = key
  BY DEF Verified

LEMMA SignedStart == Init => SignedInv
  BY DEF Init, SignedInv, OnlySignedRules, SignedBy

LEMMA SignedStep == SignedInv /\ [Next]_vars => SignedInv'
  <1> SUFFICES ASSUME SignedInv, [Next]_vars PROVE SignedInv'
    OBVIOUS
  <1> USE DEF SignedInv, OnlySignedRules, config
  <1>1. CASE UNCHANGED vars
    BY <1>1 DEF vars, policyVars, processVars
  <1>2. CASE Start
    <2>1. settings' = settings /\ files' = files /\ signed' = signed
      BY <1>2 DEF Start, policyVars
    <2>2. config.required => rules' \in signed
      <3> SUFFICES ASSUME config.required PROVE rules' \in signed
        OBVIOUS
      <3>1. /\ config.bundle /\ config.key # "none" /\ Verified(files.bundle, config.key)
            /\ rules' = files.bundle.rules
        BY <1>2 DEF Start, MayStart, LoadedRules
      <3>2. config.key = Owner
        BY <3>1, IntakeAssumption DEF NoKey
      <3> QED BY <3>1, <3>2, VerifiedMeaning
    <2> QED BY <2>1, <2>2
  <1>3. CASE Stop
    BY <1>3 DEF Stop, policyVars
  <1>4. CASE Observe \/ HandOver
    BY <1>4 DEF Observe, HandOver, policyVars
  <1>5. ASSUME NEW s \in SessionIds, Refused(s) PROVE SignedInv'
    BY <1>5 DEF Refused, policyVars, processVars
  <1>6. ASSUME NEW s \in SessionIds, NEW list, TakeList(s, list) PROVE SignedInv'
    BY <1>6 DEF TakeList, policyVars
  <1>7. ASSUME NEW s \in SessionIds, NEW call, TakeCall(s, call) \/ TakeApiCall(s, call)
        PROVE  SignedInv'
    BY <1>7 DEF TakeCall, TakeApiCall, policyVars
  <1>9. ASSUME NEW r, Sign(r) PROVE SignedInv'
    <2>1. /\ settings' = settings /\ running' = running /\ rules' = rules
          /\ signed' = signed \cup {r}
      BY <1>9 DEF Sign, Edit, processVars
    <2>2. files' = [files EXCEPT !.bundle = SignedBy(Owner, r)]
      BY <1>9 DEF Sign, Edit
    <2>3. files'.bundle.signature.by = Owner => files'.bundle.signature.of \in signed'
      BY <2>1, <2>2 DEF SignedBy
    <2>4. DOMAIN files' = {"bundle", "dir"}
      BY <2>2
    <2> QED BY <2>1, <2>3, <2>4
  <1>10. ASSUME NEW bundle, Overwrite(bundle) PROVE SignedInv'
    <2>1. /\ settings' = settings /\ running' = running /\ rules' = rules /\ signed' = signed
          /\ files' = [files EXCEPT !.bundle = bundle]
          /\ bundle.signature.by = Owner => bundle.signature.of \in signed
      BY <1>10 DEF Overwrite, Edit, processVars
    <2>2. files'.bundle = bundle /\ DOMAIN files' = {"bundle", "dir"}
      BY <2>1
    <2>3. files'.bundle.signature.by = Owner => files'.bundle.signature.of \in signed'
      BY <2>1, <2>2
    <2> QED BY <2>1, <2>2, <2>3
  <1>11. ASSUME NEW dir, EditDir(dir) PROVE SignedInv'
    <2>1. /\ settings' = settings /\ running' = running /\ rules' = rules /\ signed' = signed
          /\ files' = [files EXCEPT !.dir = dir]
      BY <1>11 DEF EditDir, Edit, processVars
    <2> QED BY <2>1
  <1>12. CASE Tick /\ UNCHANGED <<policyVars, processVars, events>>
    BY <1>12 DEF policyVars, processVars
  <1> QED BY <1>1, <1>2, <1>3, <1>4, <1>5, <1>6, <1>7, <1>9, <1>10, <1>11, <1>12 DEF Next

\* A process that requires signed rules holds rules its owner signed, for any rules,
\* bundles and edits (load_policy, verify_bundle).
THEOREM SignedTheorem == Spec => []OnlySignedRules
  <1>1. SignedInv => OnlySignedRules
    BY DEF SignedInv
  <1> QED BY <1>1, SignedStart, SignedStep, PTL DEF Spec

\* A configuration with some fields replaced has the same fields.
LEMMA OverriddenFields ==
  ASSUME NEW cfg, NEW by
  PROVE  /\ DOMAIN Overridden(cfg, by) = DOMAIN cfg
         /\ \A f \in DOMAIN cfg \cap DOMAIN by : Overridden(cfg, by)[f] = by[f]
  BY DEF Overridden

\* A demand for signed rules is lost only with a file that is given up, for any file,
\* environment and flags (load_config, apply_bundle_overrides).
THEOREM DemandTheorem == Spec => []DemandLostOnlyWithFile
  <1>1. ASSUME SignedInv PROVE DemandLostOnlyWithFile
    <2> SUFFICES ASSUME running, Wanted(settings).required, rules \notin signed
                 PROVE  ~Accepted(settings) /\ "required" \notin DOMAIN settings.flags
      BY DEF DemandLostOnlyWithFile
    <2>1. ~Effective(settings).required
      BY <1>1 DEF SignedInv, OnlySignedRules, config
    <2>2. ~Accepted(settings)
      BY <2>1 DEF Accepted, Effective, LoadConfig, Wanted
    <2>3. ASSUME "required" \in DOMAIN settings.flags PROVE FALSE
      <3> DEFINE written == IF settings.file = <<>> THEN Default ELSE settings.file[1]
                 base == Overridden(written, settings.env)
      <3>1. "required" \in DOMAIN Default
        BY DEF Default
      <3>2. "required" \in DOMAIN written
        <4>1. settings.file # <<>> => settings.file[1] \in Configs
          BY <1>1, SettingsAssumption DEF SignedInv
        <4> QED BY <3>1, <4>1 DEF Configs
      <3> HIDE DEF written
      <3>3. "required" \in DOMAIN base
        BY <3>2, OverriddenFields
      <3>4. Wanted(settings) = Overridden(base, settings.flags)
        BY DEF Wanted, written
      <3>5. Effective(settings) = Overridden(Default, settings.flags)
        BY <2>2 DEF Effective, LoadConfig
      <3> HIDE DEF base
      <3>6. /\ Overridden(base, settings.flags)["required"] = settings.flags["required"]
            /\ Overridden(Default, settings.flags)["required"] = settings.flags["required"]
        BY <2>3, <3>1, <3>3, OverriddenFields
      <3> QED BY <2>1, <3>4, <3>5, <3>6
    <2> QED BY <2>2, <2>3
  <1> QED BY <1>1, SignedStart, SignedStep, PTL DEF Spec

-----------------------------------------------------------------------------
(* Mistakes in conditions *)

\* A rate or time with a mistake in it holds of no call.
LEMMA GarbledNever ==
  ASSUME NEW key \in {"rate", "time"}, NEW call
  PROVE  ~Holds([garbled |-> key], call)
  <1>1. DOMAIN [garbled |-> key] = {"garbled"} /\ [garbled |-> key].garbled = key
    OBVIOUS
  <1>2. ~GarbledHolds(key, call)
    BY DEF GarbledHolds
  <1> HIDE DEF GarbledHolds
  <1> QED BY <1>1, <1>2 DEF Holds

\* In whatever rules a process holds, such a mistake lets no further call pass.
LEMMA MistakeNarrows ==
  ASSUME AreRules(rules)
  PROVE  MistakesNarrow
  <1> SUFFICES ASSUME NEW i \in DOMAIN rules, NEW c \in rules[i].when,
                      NEW key \in RateOrTime(c), rules[i].action \in {"ALLOW", "WARN"},
                      NEW call, Forwarded(Mistyped(i, c, key), call)
               PROVE  Forwarded(rules, call)
    BY DEF MistakesNarrow
  <1> DEFINE mistyped == Mistyped(i, c, key)
             before == Matching(rules, call)
             after == Matching(mistyped, call)
  <1>1. DOMAIN rules \subseteq Nat /\ i \in Nat
    BY DEF AreRules
  <1>2. /\ DOMAIN mistyped = DOMAIN rules
        /\ \A j \in DOMAIN rules : mistyped[j].action = rules[j].action
        /\ \A j \in DOMAIN rules \ {i} : mistyped[j] = rules[j]
        /\ mistyped[i].when = (rules[i].when \ {c}) \cup {[garbled |-> key]}
    <2>1. rules[i] = [action |-> rules[i].action, when |-> rules[i].when]
      BY DEF AreRules
    <2>2. DOMAIN rules[i] = {"action", "when"}
      BY <2>1
    <2> QED BY <1>1, <2>2 DEF Mistyped
  <1>3. key \in {"rate", "time"}
    BY DEF RateOrTime
  <1>4. i \notin after
    BY <1>2, <1>3, GarbledNever DEF Matching
  <1>5. after \subseteq before /\ before \subseteq after \cup {i} /\ before \subseteq DOMAIN rules
    BY <1>2, <1>4 DEF Matching
  <1> HIDE DEF mistyped, before, after
  <1>6. after # {} /\ mistyped[Least(after)].action \in {"ALLOW", "WARN"}
    BY DEF Forwarded, Evaluate, mistyped, after
  <1>7. /\ Least(after) \in after /\ \A j \in after : Least(after) <= j
        /\ Least(before) \in before /\ \A j \in before : Least(before) <= j
    BY <1>1, <1>5, <1>6, LeastIs
  <1>8. rules[Least(before)].action \in {"ALLOW", "WARN"}
    <2>1. CASE Least(before) = i
      BY <2>1
    <2>2. CASE Least(before) # i
      <3>1. Least(before) \in after
        BY <1>5, <1>7, <2>2
      <3>2. Least(before) = Least(after)
        <4>1. Least(before) \in Nat /\ Least(after) \in Nat
          BY <1>1, <1>5, <1>7
        <4>2. Least(before) <= Least(after) /\ Least(after) <= Least(before)
          BY <1>5, <1>7, <3>1
        <4> QED BY <4>1, <4>2
      <3> QED BY <1>2, <1>5, <1>6, <1>7, <3>2
    <2> QED BY <2>1, <2>2
  <1> QED BY <1>5, <1>6, <1>8 DEF Forwarded, Evaluate, before

\* "Malformed values never match (fail-closed ...)" (cond_matches): in the rules that
\* a process has loaded, a mistake in the rate or the time of a rule that lets calls
\* pass never lets a further call pass.
THEOREM NarrowTheorem == Spec => []MistakesNarrow
  <1>1. TypeInv => MistakesNarrow
    BY MistakeNarrows DEF TypeInv, OwnTypeOK
  <1> QED BY <1>1, TypeInvariant, PTL

-----------------------------------------------------------------------------
(* The daily window *)

\* Of numbers that differ by a multiple of Day and lie within one, there is one only.
LEMMA SameRest ==
  ASSUME NEW p \in Int, NEW q \in Int, NEW r \in 0..(Day - 1), NEW t \in 0..(Day - 1),
         Day * p + r = Day * q + t
  PROVE  r = t
  <1>1. Day \in Nat /\ Day > 0
    BY PolicyAssumption
  <1>2. \A d \in Int : d > 0 => Day * d >= Day
    BY <1>1
  <1>3. Day * (p - q) = t - r /\ Day * (q - p) = r - t
    BY <1>1
  <1>4. ~(p - q > 0) /\ ~(q - p > 0)
    BY <1>1, <1>2, <1>3
  <1> QED BY <1>1, <1>3, <1>4

\* The rest of a difference, from the rests of its terms.
LEMMA RestOfDifference ==
  ASSUME NEW x \in Int, NEW from \in 0..(Day - 1)
  PROVE  (x - from) % Day = IF from <= (x % Day) THEN (x % Day) - from ELSE ((x % Day) - from) + Day
  <1>1. Day \in Nat /\ Day > 0
    BY PolicyAssumption
  <1> DEFINE rest == IF from <= (x % Day) THEN (x % Day) - from ELSE ((x % Day) - from) + Day
             carry == IF from <= (x % Day) THEN 0 ELSE -1
  <1>2. /\ x % Day \in 0..(Day - 1) /\ x \div Day \in Int
        /\ x = (Day * (x \div Day)) + (x % Day)
    BY <1>1
  <1>3. /\ (x - from) % Day \in 0..(Day - 1) /\ (x - from) \div Day \in Int
        /\ x - from = (Day * ((x - from) \div Day)) + ((x - from) % Day)
    BY <1>1
  <1>4. rest \in 0..(Day - 1) /\ carry \in Int /\ (x % Day) - from = (Day * carry) + rest
    BY <1>1, <1>2
  <1>5. x - from = (Day * ((x \div Day) + carry)) + rest
    BY <1>1, <1>2, <1>4
  <1> HIDE DEF rest, carry
  <1>6. (x \div Day) + carry \in Int
    BY <1>2, <1>4
  <1>7. rest = (x - from) % Day
    BY <1>3, <1>4, <1>5, <1>6, SameRest
  <1> QED BY <1>7 DEF rest

\* A daily window is the arc from its start to its end at any time of any day, and of
\* two windows that make up a day exactly one is open (time_in_window): for days of
\* any length.
THEOREM WindowTheorem == Spec => []WindowIsArc
  <1>1. ASSUME SessionTypeOK PROVE WindowIsArc
    <2> SUFFICES ASSUME NEW from \in 0..(Day - 1), NEW until \in 0..(Day - 1)
                 PROVE  /\ InWindow(now, from, until)
                             <=> (now - from) % Day < (until - from) % Day
                        /\ from # until =>
                             (InWindow(now, from, until) <=> ~InWindow(now, until, from))
      BY DEF WindowIsArc
    <2>1. Day \in Nat /\ Day > 0 /\ now \in Int /\ from \in Int /\ until \in Int
      BY <1>1, PolicyAssumption, SessionsAssumption DEF SessionTypeOK
    <2>2. now % Day \in 0..(Day - 1) /\ until % Day = until
      BY <2>1
    <2>3. (now - from) % Day
            = IF from <= (now % Day) THEN (now % Day) - from ELSE ((now % Day) - from) + Day
      BY <2>1, RestOfDifference
    <2>4. (until - from) % Day = IF from <= until THEN until - from ELSE (until - from) + Day
      BY <2>1, <2>2, RestOfDifference
    <2> QED BY <2>1, <2>2, <2>3, <2>4 DEF InWindow
  <1>2. SessionInv => SessionTypeOK
    BY DEF SessionInv
  <1> QED BY <1>1, <1>2, IntakeSessions, SessionInvariant, PTL

-----------------------------------------------------------------------------
(***************************************************************************)
(* The reports of changed definitions.  A record holds the definition of   *)
(* the last event on its tool in this process; a tool without a record has *)
(* no event; and a process that has not started has no records.            *)
(***************************************************************************)
Event == [def : Definitions, change : Changing, life : Nat]

\* Events on a tool in this process.
Seen(tool) == {i \in DOMAIN events : events[i].def.tool = tool /\ events[i].life = lives}

LastOf(S, i) == i \in S /\ \A k \in S : k <= i

RecordIsLast(tool) ==
  /\ registry[tool].version = 0 => Seen(tool) = {}
  /\ registry[tool].version > 0 =>
       /\ registry[tool].version = 1 + Cardinality(Changes(tool))
       /\ \E i : LastOf(Seen(tool), i) /\ events[i].def = registry[tool].def

\* The change of event j is one from the event before it.
Reported(j) ==
  events[j].change # "none" <=>
    \E i : LastOf(Before(j), i) /\ events[i].def # events[j].def

DriftInv ==
  /\ events \in Seq(Event)
  /\ \A i \in DOMAIN events : events[i].life <= lives
  /\ ~running => registry = [t \in ToolNames |-> Unknown] /\ hand = <<>>
  /\ running => \A tool \in ToolNames : RecordIsLast(tool)
  /\ \A j \in DOMAIN events : Reported(j)

\* A further event leaves those before it alone and is the last one of its tool.
LEMMA FurtherEvent ==
  ASSUME NEW e \in Event, NEW n, n = Len(events) + 1,
         events \in Seq(Event), events' = Append(events, e), lives' = lives, e.life = lives
  PROVE  /\ events' \in Seq(Event) /\ DOMAIN events' = 1..n /\ n \in Nat
         /\ DOMAIN events = 1..(n - 1)
         /\ \A i \in DOMAIN events : events'[i] = events[i]
         /\ events'[n] = e
         /\ \A j \in DOMAIN events : Before(j)' = Before(j)
         /\ Before(n)' = Seen(e.def.tool)
         /\ \A tool : Seen(tool)' = IF tool = e.def.tool THEN Seen(tool) \cup {n} ELSE Seen(tool)
         /\ \A tool : Changes(tool)' = IF tool = e.def.tool /\ e.change # "none"
                                       THEN Changes(tool) \cup {n} ELSE Changes(tool)
  <1>1. /\ events' \in Seq(Event) /\ DOMAIN events' = 1..n /\ n \in Nat
        /\ DOMAIN events = 1..(n - 1)
        /\ \A i \in 1..(n - 1) : events'[i] = events[i]
        /\ events'[n] = e
    OBVIOUS
  <1>2. ASSUME NEW j \in 1..(n - 1) PROVE Before(j)' = Before(j)
    <2>1. 1..(j - 1) \subseteq 1..(n - 1)
      BY <1>1
    <2> QED BY <1>1, <2>1 DEF Before
  <1>3. Before(n)' = Seen(e.def.tool)
    <2>1. Before(n)' = {i \in 1..(n - 1) : /\ events'[i].def.tool = e.def.tool
                                          /\ events'[i].life = lives}
      BY <1>1 DEF Before
    <2>2. Seen(e.def.tool) = {i \in 1..(n - 1) : /\ events[i].def.tool = e.def.tool
                                                 /\ events[i].life = lives}
      BY <1>1 DEF Seen
    <2> QED BY <1>1, <2>1, <2>2
  <1>4. n \notin 1..(n - 1) /\ 1..n = (1..(n - 1)) \cup {n}
    BY <1>1
  <1>5. ASSUME NEW tool
        PROVE  Seen(tool)' = IF tool = e.def.tool THEN Seen(tool) \cup {n} ELSE Seen(tool)
    BY <1>1, <1>4 DEF Seen
  <1>6. ASSUME NEW tool
        PROVE  Changes(tool)' = IF tool = e.def.tool /\ e.change # "none"
                                THEN Changes(tool) \cup {n} ELSE Changes(tool)
    BY <1>1, <1>4 DEF Changes
  <1> QED BY <1>1, <1>2, <1>3, <1>5, <1>6

\* An event more makes one change more, at most.
LEMMA ChangesCount ==
  ASSUME events \in Seq(Event), NEW tool
  PROVE  /\ IsFiniteSet(Changes(tool))
         /\ Cardinality(Changes(tool)) \in Nat
         /\ Len(events) + 1 \notin Changes(tool)
         /\ Cardinality(Changes(tool) \cup {Len(events) + 1}) = Cardinality(Changes(tool)) + 1
  <1>1. DOMAIN events = 1..Len(events) /\ Len(events) \in Nat
    OBVIOUS
  <1>2. IsFiniteSet(1..Len(events))
    BY <1>1, FS_Interval
  <1>3. Changes(tool) \subseteq 1..Len(events)
    BY <1>1 DEF Changes
  <1>4. IsFiniteSet(Changes(tool)) /\ Cardinality(Changes(tool)) \in Nat
    BY <1>2, <1>3, FS_Subset, FS_CardinalityType
  <1>5. Len(events) + 1 \notin Changes(tool)
    BY <1>1, <1>3
  <1> QED BY <1>4, <1>5, FS_AddElement

\* What observe makes of a definition: a change, if it differs from its record.
LEMMA ChangeIsDifference ==
  ASSUME OwnTypeOK, NEW d \in Definitions, registry[d.tool].version > 0,
         registry[d.tool].def \in Definitions, registry[d.tool].def.tool = d.tool
  PROVE  ChangeTo(d) # "none" <=> registry[d.tool].def # d
  <1> DEFINE known == registry[d.tool].def
  <1>1. /\ d \in [tool : STRING, schema : STRING, description : STRING]
        /\ known \in [tool : STRING, schema : STRING, description : STRING]
    BY DefinitionType
  <1>2. known = d <=> known.schema = d.schema /\ known.description = d.description
    <2> HIDE DEF known
    <2>1. known.tool = d.tool
      BY DEF known
    <2> QED BY <1>1, <2>1
  <1>3. d.tool \in ToolNames
    BY DefinitionType
  <1>4. registry[d.tool].version # 0
    BY <1>3 DEF OwnTypeOK
  <1>5. ChangeTo(d) # "none" <=> known.schema # d.schema \/ known.description # d.description
    BY <1>4 DEF ChangeTo
  <1> QED BY <1>2, <1>5

LEMMA DriftObserve ==
  ASSUME OwnTypeOK, DriftInv, Observe
  PROVE  DriftInv'
  <1>d. PICK d : d = Head(hand)
    OBVIOUS
  <1>e. PICK e : e = [def |-> d, change |-> ChangeTo(d), life |-> lives]
    OBVIOUS
  <1>n. PICK n : n = Len(events) + 1
    OBVIOUS
  <1> DEFINE tool == d.tool
             known == registry[tool]
  <1>1. d \in Definitions /\ tool \in ToolNames
    BY <1>d, ObserveType
  <1>2. /\ lives \in Nat /\ known.version \in Nat
        /\ registry \in [ToolNames -> [def : Definitions \cup {NoDefinition}, version : Nat]]
    BY <1>1, IntakeAssumption DEF OwnTypeOK
  <1>3. /\ running /\ running' = running /\ lives' = lives
        /\ events \in Seq(Event) /\ events' = Append(events, e)
        /\ registry' = IF known.version = 0 \/ e.change # "none"
                       THEN [registry EXCEPT ![tool] =
                              [def |-> d, version |-> known.version + 1]]
                       ELSE registry
    BY <1>d, <1>e DEF Observe, DriftInv
  <1>4. e \in Event /\ e.life = lives /\ e.def = d /\ e.change = ChangeTo(d)
    BY <1>1, <1>2, <1>e DEF Event, ChangeTo, Changing
  <1>5. RecordIsLast(tool)
    BY <1>1, <1>3 DEF DriftInv
  <1> HIDE DEF tool, known
  <1>6. /\ events' \in Seq(Event) /\ DOMAIN events' = 1..n /\ n \in Nat
        /\ DOMAIN events = 1..(n - 1)
        /\ \A i \in DOMAIN events : events'[i] = events[i]
        /\ events'[n] = e
        /\ \A j \in DOMAIN events : Before(j)' = Before(j)
        /\ Before(n)' = Seen(tool)
        /\ \A t : Seen(t)' = IF t = tool THEN Seen(t) \cup {n} ELSE Seen(t)
        /\ \A t : Changes(t)' = IF t = tool /\ e.change # "none"
                               THEN Changes(t) \cup {n} ELSE Changes(t)
    BY <1>3, <1>4, <1>n, FurtherEvent DEF tool
  <1>7. e.change # "none" <=> \E i : LastOf(Seen(tool), i) /\ events[i].def # d
    <2>1. CASE known.version = 0
      <3>1. e.change = "none" /\ Seen(tool) = {}
        BY <1>4, <1>5, <2>1 DEF RecordIsLast, ChangeTo, known, tool
      <3> QED BY <3>1 DEF LastOf
    <2>2. CASE known.version # 0
      <3>1. PICK i : LastOf(Seen(tool), i) /\ events[i].def = known.def
        BY <1>2, <1>5, <2>2 DEF RecordIsLast, known
      <3>2. i \in DOMAIN events /\ events[i].def.tool = tool /\ events[i] \in Event
        BY <1>3, <3>1 DEF LastOf, Seen
      <3>3. known.def \in Definitions /\ known.def.tool = tool
        BY <3>1, <3>2 DEF Event
      <3>4. e.change # "none" <=> known.def # d
        BY <1>1, <1>2, <1>4, <2>2, <3>3, ChangeIsDifference DEF known, tool
      <3>5. \A k : LastOf(Seen(tool), k) => k = i
        <4>1. Seen(tool) \subseteq Nat
          BY <1>6 DEF Seen
        <4> QED BY <3>1, <4>1 DEF LastOf
      <3> QED BY <3>1, <3>4, <3>5
    <2> QED BY <2>1, <2>2
  <1>8. \A j \in DOMAIN events' : Reported(j)'
    <2> SUFFICES ASSUME NEW j \in DOMAIN events' PROVE Reported(j)'
      OBVIOUS
    <2>1. CASE j = n
      <3>1. \A i \in Seen(tool) : events'[i] = events[i]
        BY <1>6 DEF Seen
      <3> QED BY <1>4, <1>6, <1>7, <2>1, <3>1 DEF Reported, LastOf
    <2>2. CASE j # n
      <3>1. j \in DOMAIN events
        BY <1>6, <2>2
      <3>2. \A i \in Before(j) : events'[i] = events[i]
        BY <1>6, <3>1 DEF Before
      <3> QED BY <1>6, <3>1, <3>2 DEF Reported, LastOf, DriftInv
    <2> QED BY <2>1, <2>2
  <1>9. ASSUME NEW t \in ToolNames PROVE RecordIsLast(t)'
    <2>1. CASE t # tool
      <3>1. Seen(t)' = Seen(t) /\ Changes(t)' = Changes(t) /\ registry'[t] = registry[t]
        BY <1>1, <1>2, <1>3, <1>6, <2>1
      <3>2. \A i \in Seen(t) : events'[i] = events[i]
        BY <1>6 DEF Seen
      <3> QED BY <1>3, <3>1, <3>2 DEF RecordIsLast, LastOf, DriftInv
    <2>2. CASE t = tool
      <3>1. Seen(tool)' = Seen(tool) \cup {n} /\ LastOf(Seen(tool)', n) /\ events'[n].def = d
        BY <1>4, <1>6 DEF LastOf, Seen
      <3>2. /\ Cardinality(Changes(tool)) \in Nat
            /\ Cardinality(Changes(tool) \cup {n}) = Cardinality(Changes(tool)) + 1
        BY <1>3, <1>n, ChangesCount
      <3>3. CASE known.version = 0
        <4>1. registry'[tool] = [def |-> d, version |-> 1]
          BY <1>1, <1>2, <1>3, <3>3
        <4>2. e.change = "none" /\ Changes(tool) = {}
          BY <1>4, <1>5, <3>3 DEF RecordIsLast, ChangeTo, Changes, Seen, known, tool
        <4>3. Cardinality(Changes(tool)') = 0
          BY <1>6, <4>2, FS_EmptySet
        <4> QED BY <2>2, <3>1, <4>1, <4>3 DEF RecordIsLast
      <3>4. CASE known.version # 0 /\ e.change # "none"
        <4>1. registry'[tool] = [def |-> d, version |-> known.version + 1]
          BY <1>1, <1>2, <1>3, <3>4
        <4>2. known.version = 1 + Cardinality(Changes(tool))
          BY <1>2, <1>5, <3>4 DEF RecordIsLast, known
        <4>3. Cardinality(Changes(tool)') = Cardinality(Changes(tool)) + 1
          BY <1>6, <3>2, <3>4
        <4> QED BY <1>2, <2>2, <3>1, <3>2, <4>1, <4>2, <4>3 DEF RecordIsLast
      <3>5. CASE known.version # 0 /\ e.change = "none"
        <4>1. registry'[tool] = known /\ Changes(tool)' = Changes(tool)
          BY <1>3, <1>6, <3>5 DEF known
        <4>2. known.version > 0 /\ known.version = 1 + Cardinality(Changes(tool))
          BY <1>2, <1>5, <3>5 DEF RecordIsLast, known
        <4>3. known.def = d
          <5>1. PICK i : LastOf(Seen(tool), i) /\ events[i].def = known.def
            BY <1>5, <4>2 DEF RecordIsLast, known
          <5> QED BY <1>7, <3>5, <5>1
        <4> QED BY <2>2, <3>1, <4>1, <4>2, <4>3 DEF RecordIsLast
      <3> QED BY <3>3, <3>4, <3>5
    <2> QED BY <2>1, <2>2
  <1>10. \A i \in DOMAIN events' : events'[i].life <= lives'
    <2> SUFFICES ASSUME NEW i \in DOMAIN events' PROVE events'[i].life <= lives'
      OBVIOUS
    <2>1. CASE i = n
      BY <1>2, <1>3, <1>4, <1>6, <2>1
    <2>2. CASE i # n
      BY <1>3, <1>6, <2>2 DEF DriftInv
    <2> QED BY <2>1, <2>2
  <1> QED BY <1>3, <1>6, <1>8, <1>9, <1>10 DEF DriftInv

\* As long as there is no further event, those there are stay reported.
LEMMA ReportsStay ==
  ASSUME UNCHANGED events, NEW j, Reported(j)
  PROVE  Reported(j)'
  <1>1. Before(j)' = Before(j)
    BY DEF Before
  <1> QED BY <1>1 DEF Reported, LastOf

\* A process starts without records, and no event is of its life yet.
LEMMA DriftStart ==
  ASSUME OwnTypeOK, DriftInv, Start
  PROVE  DriftInv'
  <1>1. /\ ~running /\ lives \in Nat /\ lives' = lives + 1 /\ events \in Seq(Event)
        /\ events' = events /\ registry' = registry /\ hand' = hand /\ running'
    BY IntakeAssumption DEF Start, DriftInv, OwnTypeOK
  <1>2. \A i \in DOMAIN events : events[i].life \in Nat /\ events[i].life <= lives
    <2>1. \A i \in DOMAIN events : events[i] \in Event
      BY <1>1
    <2> QED BY <2>1 DEF DriftInv, Event
  <1>3. ASSUME NEW tool \in ToolNames PROVE RecordIsLast(tool)'
    <2>1. Seen(tool)' = {}
      BY <1>1, <1>2 DEF Seen
    <2>2. registry'[tool].version = 0
      BY <1>1 DEF DriftInv, Unknown
    <2> QED BY <2>1, <2>2 DEF RecordIsLast
  <1>4. \A j \in DOMAIN events : Reported(j)'
    BY <1>1, ReportsStay DEF DriftInv
  <1> QED BY <1>1, <1>2, <1>3, <1>4 DEF DriftInv

LEMMA DriftStop ==
  ASSUME DriftInv, Stop
  PROVE  DriftInv'
  <1>1. /\ ~running' /\ registry' = [t \in ToolNames |-> Unknown] /\ hand' = <<>>
        /\ events' = events /\ lives' = lives
    BY DEF Stop
  <1>2. \A j \in DOMAIN events : Reported(j)'
    BY <1>1, ReportsStay DEF DriftInv
  <1> QED BY <1>1, <1>2 DEF DriftInv

\* Nothing else touches records or events.
LEMMA DriftOther ==
  ASSUME DriftInv, UNCHANGED <<registry, events, lives, running>>, ~running => hand' = hand
  PROVE  DriftInv'
  <1>1. \A j \in DOMAIN events : Reported(j)'
    BY ReportsStay DEF DriftInv
  <1>2. \A tool : RecordIsLast(tool) => RecordIsLast(tool)'
    BY DEF RecordIsLast, Seen, Changes
  <1> QED BY <1>1, <1>2 DEF DriftInv

LEMMA DriftStep == TypeInv /\ DriftInv /\ [Next]_vars => DriftInv'
  <1> SUFFICES ASSUME TypeInv, DriftInv, [Next]_vars PROVE DriftInv'
    OBVIOUS
  <1> DEFINE rest == UNCHANGED <<registry, events, lives, running>> /\ (~running => hand' = hand)
  <1>1. CASE Start
    BY <1>1, DriftStart DEF TypeInv
  <1>2. CASE Stop
    BY <1>2, DriftStop
  <1>3. CASE Observe
    BY <1>3, DriftObserve DEF TypeInv
  <1>4. CASE HandOver
    <2>1. rest
      BY <1>4 DEF HandOver
    <2> QED BY <2>1, DriftOther
  <1>5. ASSUME NEW s \in SessionIds,
               \/ Refused(s)
               \/ \E list \in Lists \cup {<<>>} : TakeList(s, list)
               \/ \E call \in CallsMade : TakeCall(s, call) \/ TakeApiCall(s, call)
        PROVE  DriftInv'
    <2>1. rest
      BY <1>5 DEF Refused, TakeList, TakeCall, TakeApiCall, Ready, processVars
    <2> QED BY <2>1, DriftOther
  <1>6. ASSUME NEW x, Sign(x) \/ Overwrite(x) \/ EditDir(x) PROVE DriftInv'
    <2>1. rest
      BY <1>6 DEF Sign, Overwrite, EditDir, Edit, processVars
    <2> QED BY <2>1, DriftOther
  <1>7. CASE (Tick /\ UNCHANGED <<policyVars, processVars, events>>) \/ UNCHANGED vars
    <2>1. rest
      BY <1>7 DEF processVars, vars
    <2> QED BY <2>1, DriftOther
  <1> QED BY <1>1, <1>2, <1>3, <1>4, <1>5, <1>6, <1>7 DEF Next

LEMMA DriftInvariant == Spec => []DriftInv
  <1>1. Init => DriftInv
    BY DEF Init, DriftInv
  <1> QED BY <1>1, DriftStep, TypeInvariant, PTL DEF Spec

\* Within one process every definition that differs from the last one of its tool is
\* reported and nothing else is, and the version of a record counts these reports
\* (ToolRegistry::observe): for any definitions on any lines, and any number of
\* processes.
THEOREM DriftTheorem == Spec => []DriftReported
  <1>1. ASSUME DriftInv PROVE DriftReported
    <2>1. \A j \in DOMAIN events :
            events[j].change # "none" <=>
              \E i \in Before(j) : /\ events[i].def # events[j].def
                                   /\ \A k \in Before(j) : k <= i
      BY <1>1 DEF DriftInv, Reported, LastOf
    <2>2. running => \A tool \in ToolNames :
            registry[tool].version > 0 => registry[tool].version = 1 + Cardinality(Changes(tool))
      BY <1>1 DEF DriftInv, RecordIsLast
    <2> QED BY <2>1, <2>2 DEF DriftReported
  <1> QED BY <1>1, DriftInvariant, PTL

-----------------------------------------------------------------------------
(***************************************************************************)
(* Paths.  FoldLeft is defined by a recursive function on the sets of      *)
(* places that are still to come, from the last one down; there is such a  *)
(* function, and its values on 1..k are what is done after k steps.        *)
(***************************************************************************)

\* A set of numbers from 1 on that has a bound has a greatest one.
LEMMA MaxIs ==
  ASSUME NEW m \in Nat, NEW S, S \subseteq 1..m, S # {}
  PROVE  Max(S) \in S /\ \A i \in S : i <= Max(S)
  <1> DEFINE Bounds == {b \in Nat : \A i \in S : i <= b}
             top == Least(Bounds)
  <1>1. m \in Bounds
    OBVIOUS
  <1>2. top \in Bounds /\ \A b \in Bounds : top <= b
    <2> HIDE DEF Bounds
    <2>1. Bounds \subseteq Nat
      BY DEF Bounds
    <2> QED BY <1>1, <2>1, LeastIs
  <1> HIDE DEF top
  <1>3. top \in S
    <2> SUFFICES ASSUME top \notin S PROVE FALSE
      OBVIOUS
    <2>1. PICK i \in S : TRUE
      OBVIOUS
    <2>2. top \in Nat /\ \A j \in S : j \in Nat /\ j < top
      BY <1>2
    <2>3. top - 1 \in Bounds
      BY <2>1, <2>2
    <2> QED BY <1>2, <2>2, <2>3
  <1>4. top \in S /\ \A i \in S : top >= i
    BY <1>2, <1>3
  <1>5. Max(S) \in S /\ \A i \in S : Max(S) >= i
    BY <1>4 DEF Max
  <1> QED BY <1>5

LEMMA MaxOfInterval ==
  ASSUME NEW k \in Nat, k > 0
  PROVE  Max(1..k) = k /\ (1..k) \ {k} = 1..(k - 1)
  <1> DEFINE S == 1..k
  <1>1. S \subseteq 1..k /\ S # {}
    OBVIOUS
  <1>2. Max(S) \in S /\ \A i \in S : i <= Max(S)
    <2> HIDE DEF S
    <2> QED BY <1>1, MaxIs
  <1> QED BY <1>2

\* g takes the steps of G for the numbers in a set, in their order.
IsFold(g, n, D, base, G) ==
  /\ g[{}] = base
  /\ \A s \in SUBSET (1..n) :
       s # {} /\ g[s \ {Max(s)}] \in D => g[s] = G[<<g[s \ {Max(s)}], Max(s)>>]

LEMMA FoldExists ==
  ASSUME NEW n \in Nat, NEW D, NEW base \in D, NEW G \in [D \X (1..n) -> D]
  PROVE  \E g \in [SUBSET (1..n) -> D] : IsFold(g, n, D, base, G)
  <1> DEFINE Solves(g, m) ==
               \A s \in SUBSET (1..m) :
                 g[s] = IF s = {} THEN base ELSE G[<<g[s \ {Max(s)}], Max(s)>>]
             Some == {m \in 0..n : \E g \in [SUBSET (1..m) -> D] : Solves(g, m)}
  <1>1. 0 \in Some
    <2> DEFINE g == [s \in SUBSET (1..0) |-> base]
    <2>1. g \in [SUBSET (1..0) -> D] /\ \A s \in SUBSET (1..0) : s = {} /\ g[s] = base
      OBVIOUS
    <2>2. Solves(g, 0)
      <3> HIDE DEF g
      <3> QED BY <2>1
    <2> HIDE DEF g, Solves
    <2> QED BY <2>1, <2>2
  <1>2. ASSUME NEW m \in 0..(n - 1), m \in Some
        PROVE  m + 1 \in Some
    <2>1. PICK g \in [SUBSET (1..m) -> D] : Solves(g, m)
      BY <1>2
    <2> DEFINE h == [s \in SUBSET (1..(m + 1)) |->
                       IF m + 1 \in s THEN G[<<g[s \ {m + 1}], m + 1>>] ELSE g[s]]
    <2>2. ASSUME NEW s \in SUBSET (1..(m + 1)), m + 1 \in s
          PROVE  s \ {m + 1} \in SUBSET (1..m) /\ Max(s) = m + 1
      <3>1. Max(s) \in s /\ \A i \in s : i <= Max(s)
        <4>1. m + 1 \in Nat /\ s \subseteq 1..(m + 1) /\ s # {}
          BY <2>2
        <4> QED BY <4>1, MaxIs
      <3>2. Max(s) \in 1..(m + 1) /\ m + 1 <= Max(s)
        BY <2>2, <3>1
      <3>3. Max(s) = m + 1
        BY <3>2
      <3>4. s \ {m + 1} \subseteq 1..m
        OBVIOUS
      <3> QED BY <3>3, <3>4
    <2>3. ASSUME NEW s \in SUBSET (1..(m + 1)), m + 1 \notin s
          PROVE  /\ s \in SUBSET (1..m)
                 /\ s # {} => Max(s) \in s /\ s \ {Max(s)} \in SUBSET (1..m)
      <3>1. s \in SUBSET (1..m)
        BY <2>3
      <3>2. s # {} => Max(s) \in s
        <4>1. m \in Nat /\ s \subseteq 1..m
          BY <3>1
        <4> QED BY <4>1, MaxIs
      <3> QED BY <3>1, <3>2
    <2>4. ASSUME NEW s \in SUBSET (1..m) PROVE h[s] = g[s]
      BY <2>4
    <2>5. h \in [SUBSET (1..(m + 1)) -> D]
      <3>1. ASSUME NEW s \in SUBSET (1..(m + 1)), m + 1 \in s
            PROVE  G[<<g[s \ {m + 1}], m + 1>>] \in D
        <4>1. g[s \ {m + 1}] \in D
          BY <2>2, <3>1
        <4>2. m + 1 \in 1..n
          OBVIOUS
        <4> QED BY <4>1, <4>2
      <3>2. ASSUME NEW s \in SUBSET (1..(m + 1)), m + 1 \notin s
            PROVE  g[s] \in D
        BY <2>3, <3>2
      <3> QED BY <3>1, <3>2
    <2>6. Solves(h, m + 1)
      <3> SUFFICES ASSUME NEW s \in SUBSET (1..(m + 1))
                   PROVE  h[s] = IF s = {} THEN base ELSE G[<<h[s \ {Max(s)}], Max(s)>>]
        OBVIOUS
      <3>1. CASE m + 1 \in s
        <4>1. h[s \ {m + 1}] = g[s \ {m + 1}] /\ Max(s) = m + 1
          BY <2>2, <2>4, <3>1
        <4> QED BY <3>1, <4>1
      <3>2. CASE m + 1 \notin s
        <4>1. h[s] = g[s] /\ (s # {} => h[s \ {Max(s)}] = g[s \ {Max(s)}])
          BY <2>3, <2>4, <3>2
        <4>2. g[s] = IF s = {} THEN base ELSE G[<<g[s \ {Max(s)}], Max(s)>>]
          BY <2>1, <2>3, <3>2
        <4> HIDE DEF h
        <4> QED BY <4>1, <4>2
      <3> QED BY <3>1, <3>2
    <2> HIDE DEF h, Solves
    <2> QED BY <2>5, <2>6
  <1>3. n \in Some
    <2> HIDE DEF Some
    <2>1. 0..n \subseteq Some
      BY <1>1, <1>2, UpTo
    <2> QED BY <2>1
  <1> QED BY <1>3 DEF IsFold

\* What a fold has on 1..k, after k steps, has the type of what it starts with.
LEMMA FoldType ==
  ASSUME NEW n \in Nat, NEW D, NEW base \in D, NEW G \in [D \X (1..n) -> D], NEW g,
         IsFold(g, n, D, base, G)
  PROVE  \A k \in 0..n : g[1..k] \in D
  <1>1. ASSUME NEW k \in 1..n, g[1..(k - 1)] \in D
        PROVE  g[1..k] = G[<<g[1..(k - 1)], k>>]
    <2>1. Max(1..k) = k /\ (1..k) \ {k} = 1..(k - 1)
      BY MaxOfInterval
    <2>2. 1..k \in SUBSET (1..n) /\ 1..k # {}
      OBVIOUS
    <2> QED BY <1>1, <2>1, <2>2 DEF IsFold
  <1> DEFINE Typed == {k \in 0..n : g[1..k] \in D}
  <1>2. 0 \in Typed
    <2>1. 1..0 = {} /\ 0 \in 0..n
      OBVIOUS
    <2> QED BY <2>1 DEF IsFold
  <1>3. ASSUME NEW k \in 0..(n - 1), k \in Typed PROVE k + 1 \in Typed
    <2>1. k + 1 \in 1..n /\ (k + 1) - 1 = k /\ g[1..k] \in D
      BY <1>3
    <2>2. g[1..(k + 1)] = G[<<g[1..k], k + 1>>]
      BY <1>1, <2>1
    <2>3. G[<<g[1..k], k + 1>>] \in D
      BY <2>1
    <2> QED BY <2>1, <2>2, <2>3
  <1>4. 0..n \subseteq Typed
    <2> HIDE DEF Typed
    <2> QED BY <1>2, <1>3, UpTo
  <1> QED BY <1>4

\* Names, and the places whose names the model knows.
Names == STRING \cup {".", "..", "workspace", "dir", "a", ".env"}

\* One step of lexical_normalize, and of the walk.
NormalStep(done, part) ==
  IF part = "." THEN done
  ELSE IF part # ".." THEN Append(done, part)
  ELSE IF done = <<>> THEN <<"..">>
  ELSE Front(done)

WalkStep(at, part) ==
  IF part = "." THEN at
  ELSE IF part # ".." THEN Append(at, part)
  ELSE Front(at)

LEMMA StepTypes ==
  ASSUME NEW done \in Seq(Names), NEW part \in Names
  PROVE  Front(done) \in Seq(Names)
         /\ NormalStep(done, part) \in Seq(Names) /\ WalkStep(done, part) \in Seq(Names)
  <1>1. Front(done) \in Seq(Names)
    <2>1. Len(done) \in Nat /\ \A i \in 1..(Len(done) - 1) : done[i] \in Names
      OBVIOUS
    <2> QED BY <2>1, SubSeqProperties DEF Front
  <1>2. Append(done, part) \in Seq(Names) /\ <<"..">> \in Seq(Names)
    <2>1. ".." \in Names
      BY DEF Names
    <2> QED BY <2>1
  <1>3. NormalStep(done, part) \in {done, Append(done, part), <<"..">>, Front(done)}
    BY DEF NormalStep
  <1>4. WalkStep(done, part) \in {done, Append(done, part), Front(done)}
    BY DEF WalkStep
  <1> QED BY <1>1, <1>2, <1>3, <1>4

\* What lexical_normalize has after each of the components.
LEMMA NormalizedUnfolds ==
  ASSUME NEW parts \in Seq(Names)
  PROVE  \E g :
           /\ g[{}] = <<>> /\ Normalized(parts) = g[1..Len(parts)]
           /\ \A k \in 0..Len(parts) : g[1..k] \in Seq(Names)
           /\ \A k \in 1..Len(parts) : g[1..k] = NormalStep(g[1..(k - 1)], parts[k])
  <1> DEFINE n == Len(parts)
             G == [x \in Seq(Names) \X (1..n) |-> NormalStep(x[1], parts[x[2]])]
             Iter(g) == [s \in SUBSET (1..n) |->
                           IF s = {} THEN <<>> ELSE NormalStep(g[s \ {Max(s)}], parts[Max(s)])]
             iter == CHOOSE g : g = Iter(g)
  <1>1. /\ n \in Nat /\ DOMAIN parts = 1..n /\ \A i \in 1..n : parts[i] \in Names
        /\ <<>> \in Seq(Names)
    OBVIOUS
  <1>2. Normalized(parts) = iter[1..n]
    BY <1>1 DEF Normalized, FoldLeft, MapThenFoldSet, NormalStep
  <1>3. G \in [Seq(Names) \X (1..n) -> Seq(Names)]
    BY <1>1, StepTypes
  <1>4. ASSUME NEW s \in SUBSET (1..n), s # {}
        PROVE  Max(s) \in 1..n
    <2>1. Max(s) \in s
      BY <1>1, <1>4, MaxIs
    <2> QED BY <2>1
  <1>5. \E g \in [SUBSET (1..n) -> Seq(Names)] : IsFold(g, n, Seq(Names), <<>>, G)
    <2> HIDE DEF G, n
    <2> QED BY <1>1, <1>3, FoldExists
  <1>6. PICK g \in [SUBSET (1..n) -> Seq(Names)] :
          \A s \in SUBSET (1..n) :
            g[s] = IF s = {} THEN <<>> ELSE G[<<g[s \ {Max(s)}], Max(s)>>]
    <2> HIDE DEF G, n
    <2>1. PICK g \in [SUBSET (1..n) -> Seq(Names)] : IsFold(g, n, Seq(Names), <<>>, G)
      BY <1>5
    <2>2. ASSUME NEW s \in SUBSET (1..n), s # {} PROVE g[s \ {Max(s)}] \in Seq(Names)
      OBVIOUS
    <2> QED BY <2>1, <2>2 DEF IsFold
  <1>7. g = Iter(g)
    <2>1. ASSUME NEW s \in SUBSET (1..n), s # {}
          PROVE  G[<<g[s \ {Max(s)}], Max(s)>>] = NormalStep(g[s \ {Max(s)}], parts[Max(s)])
      <3>1. Max(s) \in 1..n /\ g[s \ {Max(s)}] \in Seq(Names)
        BY <1>4, <2>1
      <3> QED BY <3>1
    <2>2. \A s \in SUBSET (1..n) : g[s] = Iter(g)[s]
      <3> HIDE DEF G, n
      <3> QED BY <1>6, <2>1
    <2> QED BY <2>2
  <1>8. iter = Iter(iter)
    BY <1>7
  <1> HIDE DEF iter
  <1>9. \A s \in SUBSET (1..n) :
          iter[s] = IF s = {} THEN <<>> ELSE NormalStep(iter[s \ {Max(s)}], parts[Max(s)])
    BY <1>8
  <1>10. iter[{}] = <<>>
    BY <1>9
  <1>11. ASSUME NEW s \in SUBSET (1..n), s # {}, iter[s \ {Max(s)}] \in Seq(Names)
         PROVE  iter[s] = G[<<iter[s \ {Max(s)}], Max(s)>>]
    BY <1>4, <1>9, <1>11
  <1>12. IsFold(iter, n, Seq(Names), <<>>, G)
    <2> HIDE DEF G, n, Iter
    <2> QED BY <1>10, <1>11 DEF IsFold
  <1>13. \A k \in 0..n : iter[1..k] \in Seq(Names)
    <2> DEFINE D == Seq(Names)
    <2>1. n \in Nat /\ <<>> \in D /\ G \in [D \X (1..n) -> D] /\ IsFold(iter, n, D, <<>>, G)
      BY <1>1, <1>3, <1>12
    <2> HIDE DEF G, n, Iter, D
    <2>2. \A k \in 0..n : iter[1..k] \in D
      BY <2>1, FoldType
    <2> QED BY <2>2 DEF D
  <1>14. ASSUME NEW k \in 1..n PROVE iter[1..k] = NormalStep(iter[1..(k - 1)], parts[k])
    <2>1. Max(1..k) = k /\ (1..k) \ {k} = 1..(k - 1)
      BY MaxOfInterval
    <2>2. 1..k \in SUBSET (1..n) /\ 1..k # {}
      BY <1>1
    <2> QED BY <1>9, <2>1, <2>2
  <1> QED BY <1>2, <1>10, <1>13, <1>14

\* Where the walk is after each of them.
LEMMA WalkUnfolds ==
  ASSUME NEW from \in Seq(Names), NEW parts \in Seq(Names)
  PROVE  \E g :
           /\ g[{}] = from /\ Walk(from, parts) = g[1..Len(parts)]
           /\ \A k \in 0..Len(parts) : g[1..k] \in Seq(Names)
           /\ \A k \in 1..Len(parts) : g[1..k] = WalkStep(g[1..(k - 1)], parts[k])
  <1> DEFINE n == Len(parts)
             G == [x \in Seq(Names) \X (1..n) |-> WalkStep(x[1], parts[x[2]])]
             Iter(g) == [s \in SUBSET (1..n) |->
                           IF s = {} THEN from ELSE WalkStep(g[s \ {Max(s)}], parts[Max(s)])]
             iter == CHOOSE g : g = Iter(g)
  <1>1. /\ n \in Nat /\ DOMAIN parts = 1..n /\ \A i \in 1..n : parts[i] \in Names
        /\ from \in Seq(Names)
    OBVIOUS
  <1>2. Walk(from, parts) = iter[1..n]
    BY <1>1 DEF Walk, FoldLeft, MapThenFoldSet, WalkStep
  <1>3. G \in [Seq(Names) \X (1..n) -> Seq(Names)]
    BY <1>1, StepTypes
  <1>4. ASSUME NEW s \in SUBSET (1..n), s # {}
        PROVE  Max(s) \in 1..n
    <2>1. Max(s) \in s
      BY <1>1, <1>4, MaxIs
    <2> QED BY <2>1
  <1>5. \E g \in [SUBSET (1..n) -> Seq(Names)] : IsFold(g, n, Seq(Names), from, G)
    <2> HIDE DEF G, n
    <2> QED BY <1>1, <1>3, FoldExists
  <1>6. PICK g \in [SUBSET (1..n) -> Seq(Names)] :
          \A s \in SUBSET (1..n) :
            g[s] = IF s = {} THEN from ELSE G[<<g[s \ {Max(s)}], Max(s)>>]
    <2> HIDE DEF G, n
    <2>1. PICK g \in [SUBSET (1..n) -> Seq(Names)] : IsFold(g, n, Seq(Names), from, G)
      BY <1>5
    <2>2. ASSUME NEW s \in SUBSET (1..n), s # {} PROVE g[s \ {Max(s)}] \in Seq(Names)
      OBVIOUS
    <2> QED BY <2>1, <2>2 DEF IsFold
  <1>7. g = Iter(g)
    <2>1. ASSUME NEW s \in SUBSET (1..n), s # {}
          PROVE  G[<<g[s \ {Max(s)}], Max(s)>>] = WalkStep(g[s \ {Max(s)}], parts[Max(s)])
      <3>1. Max(s) \in 1..n /\ g[s \ {Max(s)}] \in Seq(Names)
        BY <1>4, <2>1
      <3> QED BY <3>1
    <2>2. \A s \in SUBSET (1..n) : g[s] = Iter(g)[s]
      <3> HIDE DEF G, n
      <3> QED BY <1>6, <2>1
    <2> QED BY <2>2
  <1>8. iter = Iter(iter)
    BY <1>7
  <1> HIDE DEF iter
  <1>9. \A s \in SUBSET (1..n) :
          iter[s] = IF s = {} THEN from ELSE WalkStep(iter[s \ {Max(s)}], parts[Max(s)])
    BY <1>8
  <1>10. iter[{}] = from
    BY <1>9
  <1>11. ASSUME NEW s \in SUBSET (1..n), s # {}, iter[s \ {Max(s)}] \in Seq(Names)
         PROVE  iter[s] = G[<<iter[s \ {Max(s)}], Max(s)>>]
    BY <1>4, <1>9, <1>11
  <1>12. IsFold(iter, n, Seq(Names), from, G)
    <2> HIDE DEF G, n, Iter
    <2> QED BY <1>10, <1>11 DEF IsFold
  <1>13. \A k \in 0..n : iter[1..k] \in Seq(Names)
    <2> DEFINE D == Seq(Names)
    <2>1. n \in Nat /\ from \in D /\ G \in [D \X (1..n) -> D] /\ IsFold(iter, n, D, from, G)
      BY <1>1, <1>3, <1>12
    <2> HIDE DEF G, n, Iter, D
    <2>2. \A k \in 0..n : iter[1..k] \in D
      BY <2>1, FoldType
    <2> QED BY <2>2 DEF D
  <1>14. ASSUME NEW k \in 1..n PROVE iter[1..k] = WalkStep(iter[1..(k - 1)], parts[k])
    <2>1. Max(1..k) = k /\ (1..k) \ {k} = 1..(k - 1)
      BY MaxOfInterval
    <2>2. 1..k \in SUBSET (1..n) /\ 1..k # {}
      BY <1>1
    <2> QED BY <1>9, <2>1, <2>2
  <1> QED BY <1>2, <1>10, <1>13, <1>14

\* One component more is one step more.
LEMMA NormalizedGrows ==
  ASSUME NEW parts \in Seq(Names), NEW part \in Names
  PROVE  /\ Normalized(parts) \in Seq(Names)
         /\ parts = <<>> => Normalized(parts) = <<>>
         /\ Normalized(Append(parts, part)) = NormalStep(Normalized(parts), part)
  <1> DEFINE n == Len(parts)
             more == Append(parts, part)
  <1>1. /\ n \in Nat /\ more \in Seq(Names) /\ Len(more) = n + 1 /\ more[n + 1] = part
        /\ \A i \in 1..n : more[i] = parts[i]
    OBVIOUS
  <1>2. PICK g : /\ g[{}] = <<>> /\ Normalized(parts) = g[1..n]
                 /\ \A k \in 0..n : g[1..k] \in Seq(Names)
                 /\ \A k \in 1..n : g[1..k] = NormalStep(g[1..(k - 1)], parts[k])
    BY NormalizedUnfolds
  <1> HIDE DEF more
  <1>3. PICK h : /\ h[{}] = <<>> /\ Normalized(Append(parts, part)) = h[1..(n + 1)]
                 /\ \A k \in 1..(n + 1) : h[1..k] = NormalStep(h[1..(k - 1)], more[k])
    <2>1. \E h : /\ h[{}] = <<>> /\ Normalized(Append(parts, part)) = h[1..Len(more)]
                 /\ \A k \in 0..Len(more) : h[1..k] \in Seq(Names)
                 /\ \A k \in 1..Len(more) : h[1..k] = NormalStep(h[1..(k - 1)], more[k])
      BY <1>1, NormalizedUnfolds DEF more
    <2> QED BY <1>1, <2>1
  <1> DEFINE Same == {k \in 0..n : h[1..k] = g[1..k]}
  <1> HIDE DEF n
  <1>4. 1..0 = {}
    OBVIOUS
  <1>5. 0 \in Same
    BY <1>1, <1>2, <1>3, <1>4
  <1>6. ASSUME NEW k \in 0..(n - 1), k \in Same PROVE k + 1 \in Same
    <2>1. k + 1 \in 1..n /\ k + 1 \in 1..(n + 1) /\ (k + 1) - 1 = k /\ k + 1 \in 0..n
      BY <1>1
    <2>2. h[1..(k + 1)] = NormalStep(h[1..k], more[k + 1])
      BY <1>3, <2>1
    <2>3. g[1..(k + 1)] = NormalStep(g[1..k], parts[k + 1])
      BY <1>2, <2>1
    <2> QED BY <1>1, <1>6, <2>1, <2>2, <2>3
  <1>7. n \in Same
    <2>1. 0..n \subseteq Same
      <3> HIDE DEF Same
      <3> QED BY <1>1, <1>5, <1>6, UpTo
    <2> QED BY <1>1, <2>1
  <1>8. h[1..(n + 1)] = NormalStep(h[1..n], part)
    <2>1. n + 1 \in 1..(n + 1) /\ (n + 1) - 1 = n
      BY <1>1
    <2> QED BY <1>1, <1>3, <2>1
  <1>9. parts = <<>> => n = 0
    BY DEF n
  <1>10. n \in 0..n
    BY <1>1
  <1> QED BY <1>2, <1>3, <1>4, <1>7, <1>8, <1>9, <1>10

\* The same for the walk.
LEMMA WalkGrows ==
  ASSUME NEW from \in Seq(Names), NEW parts \in Seq(Names), NEW part \in Names
  PROVE  /\ Walk(from, parts) \in Seq(Names)
         /\ parts = <<>> => Walk(from, parts) = from
         /\ Walk(from, Append(parts, part)) = WalkStep(Walk(from, parts), part)
  <1> DEFINE n == Len(parts)
             more == Append(parts, part)
  <1>1. /\ n \in Nat /\ more \in Seq(Names) /\ Len(more) = n + 1 /\ more[n + 1] = part
        /\ \A i \in 1..n : more[i] = parts[i]
    OBVIOUS
  <1>2. PICK g : /\ g[{}] = from /\ Walk(from, parts) = g[1..n]
                 /\ \A k \in 0..n : g[1..k] \in Seq(Names)
                 /\ \A k \in 1..n : g[1..k] = WalkStep(g[1..(k - 1)], parts[k])
    BY WalkUnfolds
  <1> HIDE DEF more
  <1>3. PICK h : /\ h[{}] = from /\ Walk(from, Append(parts, part)) = h[1..(n + 1)]
                 /\ \A k \in 1..(n + 1) : h[1..k] = WalkStep(h[1..(k - 1)], more[k])
    <2>1. \E h : /\ h[{}] = from /\ Walk(from, Append(parts, part)) = h[1..Len(more)]
                 /\ \A k \in 0..Len(more) : h[1..k] \in Seq(Names)
                 /\ \A k \in 1..Len(more) : h[1..k] = WalkStep(h[1..(k - 1)], more[k])
      BY <1>1, WalkUnfolds DEF more
    <2> QED BY <1>1, <2>1
  <1> DEFINE Same == {k \in 0..n : h[1..k] = g[1..k]}
  <1> HIDE DEF n
  <1>4. 1..0 = {}
    OBVIOUS
  <1>5. 0 \in Same
    BY <1>1, <1>2, <1>3, <1>4
  <1>6. ASSUME NEW k \in 0..(n - 1), k \in Same PROVE k + 1 \in Same
    <2>1. k + 1 \in 1..n /\ k + 1 \in 1..(n + 1) /\ (k + 1) - 1 = k /\ k + 1 \in 0..n
      BY <1>1
    <2>2. h[1..(k + 1)] = WalkStep(h[1..k], more[k + 1])
      BY <1>3, <2>1
    <2>3. g[1..(k + 1)] = WalkStep(g[1..k], parts[k + 1])
      BY <1>2, <2>1
    <2> QED BY <1>1, <1>6, <2>1, <2>2, <2>3
  <1>7. n \in Same
    <2>1. 0..n \subseteq Same
      <3> HIDE DEF Same
      <3> QED BY <1>1, <1>5, <1>6, UpTo
    <2> QED BY <1>1, <2>1
  <1>8. h[1..(n + 1)] = WalkStep(h[1..n], part)
    <2>1. n + 1 \in 1..(n + 1) /\ (n + 1) - 1 = n
      BY <1>1
    <2> QED BY <1>1, <1>3, <2>1
  <1>9. parts = <<>> => n = 0
    BY DEF n
  <1>10. n \in 0..n
    BY <1>1
  <1> QED BY <1>2, <1>3, <1>4, <1>7, <1>8, <1>9, <1>10

\* What has been normalized and where the walk is, when it came c levels above home at
\* most: below the level it came up to they are the same, and of the levels climbed one
\* ".." is left if their number is odd.
Tracks(home, c, done, at) ==
  LET floor == Len(home) - c
      odd == c % 2
  IN  /\ floor > 0
      /\ Len(at) >= floor
      /\ Len(done) = odd + (Len(at) - floor)
      /\ \A i \in 1..floor : at[i] = home[i]
      /\ odd = 1 => done[1] = ".."
      /\ \A i \in 1..(Len(at) - floor) :
           done[odd + i] = at[floor + i] /\ at[floor + i] \notin {".", ".."}

LEMMA Parity ==
  ASSUME NEW c \in Nat
  PROVE  c % 2 \in {0, 1} /\ (c + 1) % 2 = 1 - (c % 2)
  OBVIOUS

LEMMA FrontIs ==
  ASSUME NEW S, NEW s \in Seq(S), Len(s) > 0
  PROVE  /\ Front(s) \in Seq(S) /\ Len(Front(s)) = Len(s) - 1
         /\ \A i \in 1..(Len(s) - 1) : Front(s)[i] = s[i]
  <1>1. Len(s) \in Nat /\ \A i \in 1..(Len(s) - 1) : s[i] \in S
    OBVIOUS
  <1>2. /\ SubSeq(s, 1, Len(s) - 1) \in Seq(S)
        /\ Len(SubSeq(s, 1, Len(s) - 1)) = Len(s) - 1
    <2> DEFINE n == Len(s) - 1
    <2>1. n \in Nat /\ \A i \in 1..n : s[i] \in S
      BY <1>1
    <2> HIDE DEF n
    <2>2. (IF 1 <= n THEN (n - 1) + 1 ELSE 0) = n
      BY <2>1
    <2>3. SubSeq(s, 1, n) \in Seq(S) /\ Len(SubSeq(s, 1, n)) = n
      BY <2>1, <2>2, SubSeqProperties
    <2> QED BY <2>3 DEF n
  <1>3. \A i \in 1..(Len(s) - 1) : SubSeq(s, 1, Len(s) - 1)[i] = s[i]
    BY <1>1
  <1> QED BY <1>2, <1>3 DEF Front

LEMMA TrackStep ==
  ASSUME NEW home \in Seq(Names), NEW done \in Seq(Names), NEW at \in Seq(Names),
         NEW c \in Nat, NEW part \in Names,
         Tracks(home, c, done, at), c + 1 < Len(home)
  PROVE  \E e \in {c, c + 1} :
           /\ Tracks(home, e, NormalStep(done, part), WalkStep(at, part))
           /\ Len(home) - Len(WalkStep(at, part)) <= e
           /\ e = c + 1 => Len(home) - Len(WalkStep(at, part)) = e
  <1> DEFINE floor == Len(home) - c
             odd == c % 2
  <1>1. /\ odd \in {0, 1} /\ (c + 1) % 2 = 1 - odd
        /\ floor \in Nat /\ floor > 1 /\ Len(home) - (c + 1) = floor - 1
        /\ Len(home) - floor = c /\ Len(home) \in Nat /\ Len(at) \in Nat
    BY Parity
  <1>2. /\ Len(at) >= floor
        /\ Len(done) = odd + (Len(at) - floor)
        /\ \A i \in 1..floor : at[i] = home[i]
        /\ odd = 1 => done[1] = ".."
        /\ \A i \in 1..(Len(at) - floor) :
             done[odd + i] = at[floor + i] /\ at[floor + i] \notin {".", ".."}
    BY DEF Tracks
  <1> HIDE DEF floor, odd
  <1>3. CASE part = "."
    <2>1. NormalStep(done, part) = done /\ WalkStep(at, part) = at
      BY <1>3 DEF NormalStep, WalkStep
    <2>2. Len(home) - Len(at) <= c
      BY <1>1, <1>2
    <2> QED BY <2>1, <2>2
  <1>4. CASE part \notin {".", ".."}
    <2> DEFINE d == Append(done, part)
               a == Append(at, part)
    <2>1. NormalStep(done, part) = d /\ WalkStep(at, part) = a
      BY <1>4 DEF NormalStep, WalkStep
    <2>2. /\ Len(d) = Len(done) + 1 /\ Len(a) = Len(at) + 1 /\ Len(done) \in Nat
          /\ d[Len(done) + 1] = part /\ a[Len(at) + 1] = part
          /\ \A i \in 1..Len(done) : d[i] = done[i]
          /\ \A i \in 1..Len(at) : a[i] = at[i]
      OBVIOUS
    <2> HIDE DEF d, a
    <2>3. \A i \in 1..floor : a[i] = home[i]
      BY <1>1, <1>2, <2>2
    <2>4. odd = 1 => d[1] = ".."
      <3>1. odd = 1 => 1 \in 1..Len(done)
        BY <1>1, <1>2, <2>2
      <3> QED BY <1>2, <2>2, <3>1
    <2>5. ASSUME NEW i \in 1..(Len(a) - floor)
          PROVE  d[odd + i] = a[floor + i] /\ a[floor + i] \notin {".", ".."}
      <3>1. CASE i \in 1..(Len(at) - floor)
        <4>1. odd + i \in 1..Len(done) /\ floor + i \in 1..Len(at)
          BY <1>1, <1>2, <3>1
        <4> QED BY <1>2, <2>2, <3>1, <4>1
      <3>2. CASE i = (Len(at) - floor) + 1
        <4>1. odd + i = Len(done) + 1 /\ floor + i = Len(at) + 1
          BY <1>1, <1>2, <3>2
        <4> QED BY <1>4, <2>2, <4>1
      <3>3. i \in 1..(Len(at) - floor) \/ i = (Len(at) - floor) + 1
        <4>1. Len(a) - floor = (Len(at) - floor) + 1 /\ Len(at) - floor \in Nat
          BY <1>1, <1>2, <2>2
        <4> QED BY <4>1
      <3> QED BY <3>1, <3>2, <3>3
    <2>6. /\ Len(a) >= floor /\ Len(d) = odd + (Len(a) - floor) /\ floor > 0
          /\ Len(home) - Len(a) <= c
      BY <1>1, <1>2, <2>2
    <2>7. Tracks(home, c, d, a)
      BY <2>3, <2>4, <2>5, <2>6 DEF Tracks, floor, odd
    <2> QED BY <1>1, <2>1, <2>6, <2>7
  <1>5. CASE part = ".." /\ Len(at) > floor
    <2> DEFINE d == Front(done)
               a == Front(at)
    <2>1. Len(done) > 0 /\ Len(at) > 0 /\ Len(done) \in Nat
      BY <1>1, <1>2, <1>5
    <2>2. NormalStep(done, part) = d /\ WalkStep(at, part) = a
      BY <1>5, <2>1 DEF NormalStep, WalkStep
    <2>3. /\ Len(d) = Len(done) - 1 /\ Len(a) = Len(at) - 1
          /\ \A i \in 1..(Len(done) - 1) : d[i] = done[i]
          /\ \A i \in 1..(Len(at) - 1) : a[i] = at[i]
      BY <2>1, FrontIs
    <2> HIDE DEF d, a
    <2>4. \A i \in 1..floor : a[i] = home[i]
      BY <1>1, <1>2, <1>5, <2>3
    <2>5. odd = 1 => d[1] = ".."
      BY <1>1, <1>2, <1>5, <2>3
    <2>6. ASSUME NEW i \in 1..(Len(a) - floor)
          PROVE  d[odd + i] = a[floor + i] /\ a[floor + i] \notin {".", ".."}
      <3>1. /\ i \in 1..(Len(at) - floor) /\ odd + i \in 1..(Len(done) - 1)
            /\ floor + i \in 1..(Len(at) - 1)
        BY <1>1, <1>2, <1>5, <2>3
      <3> QED BY <1>2, <2>3, <3>1
    <2>7. /\ Len(a) >= floor /\ Len(d) = odd + (Len(a) - floor) /\ floor > 0
          /\ Len(home) - Len(a) <= c
      BY <1>1, <1>2, <1>5, <2>1, <2>3
    <2>8. Tracks(home, c, d, a)
      BY <2>4, <2>5, <2>6, <2>7 DEF Tracks, floor, odd
    <2> QED BY <1>1, <2>2, <2>7, <2>8
  <1>6. CASE part = ".." /\ Len(at) = floor
    <2> DEFINE d == NormalStep(done, part)
               a == Front(at)
    <2>1. WalkStep(at, part) = a
      BY <1>6 DEF WalkStep
    <2>2. /\ Len(a) = floor - 1 /\ \A i \in 1..(floor - 1) : a[i] = at[i]
      <3>1. Len(at) > 0
        BY <1>1, <1>6
      <3> QED BY <1>6, <3>1, FrontIs
    <2>3. Len(d) = 1 - odd /\ (odd = 0 => d[1] = "..")
      <3>1. CASE odd = 0
        <4>1. done = <<>>
          BY <1>2, <1>6, <3>1
        <4> QED BY <1>6, <3>1, <4>1 DEF NormalStep
      <3>2. CASE odd = 1
        <4>1. Len(done) = 1
          BY <1>2, <1>6, <3>2
        <4>2. d = Front(done) /\ Len(Front(done)) = 0
          BY <1>6, <4>1, FrontIs DEF NormalStep
        <4> QED BY <3>2, <4>2
      <3> QED BY <1>1, <3>1, <3>2
    <2> HIDE DEF d, a
    <2>4. \A i \in 1..(floor - 1) : a[i] = home[i]
      BY <1>1, <1>2, <2>2
    <2>5. /\ Len(home) - (c + 1) = floor - 1 /\ floor - 1 > 0
          /\ Len(a) - (floor - 1) = 0 /\ Len(a) >= floor - 1
          /\ Len(home) - Len(a) = c + 1
      BY <1>1, <2>2
    <2>6. Tracks(home, c + 1, d, a)
      <3> DEFINE even == (c + 1) % 2
      <3>1. even = 1 - odd /\ even \in {0, 1} /\ (even = 1 => odd = 0)
        BY <1>1
      <3>2. Len(d) = even + (Len(a) - (floor - 1))
        <4>1. Len(d) = even
          BY <2>3, <3>1
        <4> HIDE DEF even
        <4> QED BY <2>5, <3>1, <4>1
      <3>3. even = 1 => d[1] = ".."
        BY <2>3, <3>1
      <3>4. 1..(Len(a) - (floor - 1)) = {}
        BY <2>5
      <3> HIDE DEF even
      <3> QED BY <2>4, <2>5, <3>2, <3>3, <3>4 DEF Tracks, even
    <2>7. Len(home) - Len(a) <= c + 1
      BY <2>5
    <2>8. c + 1 \in {c, c + 1}
      OBVIOUS
    <2> WITNESS c + 1 \in {c, c + 1}
    <2> QED BY <2>1, <2>5, <2>6, <2>7 DEF d
  <1>7. Len(at) > floor \/ Len(at) = floor
    BY <1>1, <1>2
  <1> QED BY <1>3, <1>4, <1>5, <1>6, <1>7
LEMMA PrefixGrows ==
  ASSUME NEW S, NEW s \in Seq(S)
  PROVE  /\ SubSeq(s, 1, 0) = <<>> /\ SubSeq(s, 1, Len(s)) = s
         /\ \A k \in 0..Len(s) : SubSeq(s, 1, k) \in Seq(S)
         /\ \A k \in 0..(Len(s) - 1) :
              SubSeq(s, 1, k + 1) = Append(SubSeq(s, 1, k), s[k + 1])
  <1>1. Len(s) \in Nat /\ \A i \in 1..Len(s) : s[i] \in S
    OBVIOUS
  <1>2. SubSeq(s, 1, 0) = <<>> /\ SubSeq(s, 1, Len(s)) = s
    BY SubSeqEmpty, SubSeqFull
  <1>3. ASSUME NEW k \in 0..Len(s)
        PROVE  SubSeq(s, 1, k) \in Seq(S) /\ Len(SubSeq(s, 1, k)) = k
    <2>1. k \in Nat /\ \A i \in 1..k : s[i] \in S
      BY <1>1
    <2>2. (IF 1 <= k THEN (k - 1) + 1 ELSE 0) = k
      BY <2>1
    <2> QED BY <2>1, <2>2, SubSeqProperties
  <1>4. ASSUME NEW k \in 0..(Len(s) - 1)
        PROVE  SubSeq(s, 1, k + 1) = Append(SubSeq(s, 1, k), s[k + 1])
    <2> DEFINE short == SubSeq(s, 1, k)
               long == SubSeq(s, 1, k + 1)
               app == Append(short, s[k + 1])
    <2>1. /\ k \in Nat /\ k \in 0..Len(s) /\ k + 1 \in 0..Len(s)
          /\ s[k + 1] \in S
      BY <1>1
    <2>2. /\ short \in Seq(S) /\ Len(short) = k /\ long \in Seq(S) /\ Len(long) = k + 1
      BY <1>3, <2>1
    <2>3. /\ \A i \in 1..k : short[i] = s[i]
          /\ \A i \in 1..(k + 1) : long[i] = s[i]
      BY <2>1
    <2> HIDE DEF short, long
    <2>4. /\ app \in Seq(S) /\ Len(app) = k + 1 /\ app[k + 1] = s[k + 1]
          /\ \A i \in 1..k : app[i] = short[i]
      BY <2>1, <2>2
    <2>5. \A i \in 1..(k + 1) : i \in 1..k \/ i = k + 1
      BY <2>1
    <2> HIDE DEF app
    <2>6. \A i \in 1..Len(app) : app[i] = long[i]
      BY <2>1, <2>3, <2>4, <2>5
    <2>7. app = long
      BY <2>2, <2>4, <2>6, SeqEqual
    <2> QED BY <2>7 DEF app, short, long
  <1> QED BY <1>2, <1>3, <1>4

\* Names alone are normalized as they are.
LEMMA NormalizedKeeps ==
  ASSUME NEW parts \in Seq(Names), \A i \in 1..Len(parts) : parts[i] \notin {".", ".."}
  PROVE  Normalized(parts) = parts
  <1> DEFINE n == Len(parts)
             q(k) == SubSeq(parts, 1, k)
             Kept == {k \in 0..n : Normalized(q(k)) = q(k)}
  <1>1. n \in Nat
    OBVIOUS
  <1>2. /\ q(0) = <<>> /\ q(n) = parts
        /\ \A k \in 0..n : q(k) \in Seq(Names)
        /\ \A k \in 0..(n - 1) : q(k + 1) = Append(q(k), parts[k + 1])
    BY PrefixGrows
  <1>3. \A k \in 0..(n - 1) : k + 1 \in 1..n /\ parts[k + 1] \in Names
    BY <1>1
  <1> HIDE DEF n, q
  <1>4. 0 \in Kept
    <2>1. <<>> \in Seq(Names)
      OBVIOUS
    <2>2. PICK part \in Names : part = ".."
      BY DEF Names
    <2>3. Normalized(<<>>) = <<>>
      BY <2>1, <2>2, NormalizedGrows
    <2> QED BY <1>1, <1>2, <2>3
  <1>5. ASSUME NEW k \in 0..(n - 1), k \in Kept PROVE k + 1 \in Kept
    <2>1. Normalized(q(k + 1)) = NormalStep(Normalized(q(k)), parts[k + 1])
      <3>1. q(k) \in Seq(Names)
        BY <1>2, <1>5
      <3> QED BY <1>2, <1>3, <3>1, NormalizedGrows
    <2>2. parts[k + 1] \notin {".", ".."}
      BY <1>3 DEF n
    <2>3. NormalStep(q(k), parts[k + 1]) = Append(q(k), parts[k + 1])
      BY <2>2 DEF NormalStep
    <2>4. k + 1 \in 0..n
      BY <1>1
    <2> QED BY <1>2, <1>5, <2>1, <2>3, <2>4
  <1>6. 0..n \subseteq Kept
    <2> HIDE DEF Kept
    <2> QED BY <1>1, <1>4, <1>5, UpTo
  <1> QED BY <1>1, <1>2, <1>6

LEMMA HomeIs ==
  ASSUME NEW n \in Nat
  PROVE  /\ Home(n) \in Seq(Names) /\ Len(Home(n)) = n + 1
         /\ \A i \in 1..(n + 1) : Home(n)[i] \in {"dir", "workspace"}
  <1> DEFINE dirs == [i \in 1..n |-> "dir"]
  <1>1. dirs \in Seq(Names) /\ Len(dirs) = n /\ \A i \in 1..n : dirs[i] = "dir"
    BY DEF Names
  <1>2. Workspace \in Seq(Names) /\ Len(Workspace) = 1 /\ Workspace[1] = "workspace"
    BY DEF Workspace, Names
  <1> HIDE DEF dirs
  <1>3. /\ dirs \o Workspace \in Seq(Names) /\ Len(dirs \o Workspace) = n + 1
        /\ \A i \in 1..(n + 1) :
             (dirs \o Workspace)[i] = IF i <= n THEN dirs[i] ELSE Workspace[i - n]
    <2> DEFINE tail == Workspace
    <2>1. tail \in Seq(Names) /\ Len(tail) = 1
      BY <1>2
    <2> HIDE DEF tail
    <2>2. /\ dirs \o tail \in Seq(Names) /\ Len(dirs \o tail) = Len(dirs) + Len(tail)
          /\ \A i \in 1..(Len(dirs) + Len(tail)) :
               (dirs \o tail)[i] = IF i <= Len(dirs) THEN dirs[i] ELSE tail[i - Len(dirs)]
      BY <1>1, <2>1, ConcatProperties
    <2>3. Len(dirs) = n /\ Len(tail) = 1
      BY <1>1, <2>1
    <2> QED BY <2>2, <2>3 DEF tail
  <1>4. \A i \in 1..(n + 1) : i <= n => i \in 1..n
    OBVIOUS
  <1>5. \A i \in 1..(n + 1) : ~(i <= n) => i - n = 1
    OBVIOUS
  <1> QED BY <1>1, <1>2, <1>3, <1>4, <1>5 DEF Home, dirs

\* After the walk: how far it came up, and what it tracks.
LEMMA WalkTracked ==
  ASSUME NEW parts \in Seq(Names)
  PROVE  /\ Climb(parts) \in 0..Len(parts)
         /\ Tracks(Home(Len(parts)), Climb(parts), Normalized(parts), Place(parts))
         /\ Normalized(parts) \in Seq(Names) /\ Place(parts) \in Seq(Names)
  <1> DEFINE n == Len(parts)
             home == Home(n)
             q(k) == SubSeq(parts, 1, k)
             N(k) == Normalized(q(k))
             W(k) == Walk(home, q(k))
             Heights(k) == {Len(home) - Len(W(j)) : j \in 0..k}
             Highest(c, k) == c \in Heights(k) /\ \A h \in Heights(k) : h <= c
             Tracked == {k \in 0..n : \E c \in 0..k : Tracks(home, c, N(k), W(k)) /\ Highest(c, k)}
  <1>1. n \in Nat /\ home \in Seq(Names) /\ Len(home) = n + 1
    <2>1. PICK m \in Nat : m = Len(parts)
      OBVIOUS
    <2>2. Home(m) \in Seq(Names) /\ Len(Home(m)) = m + 1
      BY HomeIs
    <2> QED BY <2>1, <2>2
  <1>2. /\ q(0) = <<>> /\ q(n) = parts
        /\ \A k \in 0..n : q(k) \in Seq(Names)
        /\ \A k \in 0..(n - 1) : q(k + 1) = Append(q(k), parts[k + 1])
    BY PrefixGrows
  <1>3. \A k \in 0..(n - 1) : k + 1 \in 1..n /\ parts[k + 1] \in Names
    BY <1>1
  <1>4. PICK part \in Names : part = ".."
    BY DEF Names
  <1> HIDE DEF n, home, q
  <1>5. \A k \in 0..n : N(k) \in Seq(Names) /\ W(k) \in Seq(Names)
    BY <1>1, <1>2, <1>4, NormalizedGrows, WalkGrows
  <1>6. N(0) = <<>> /\ W(0) = home
    <2>1. 0 \in 0..n
      BY <1>1
    <2>2. q(0) \in Seq(Names) /\ q(0) = <<>>
      BY <1>2, <2>1
    <2> QED BY <1>1, <1>4, <2>2, NormalizedGrows, WalkGrows
  <1>7. ASSUME NEW k \in 0..(n - 1)
        PROVE  /\ N(k + 1) = NormalStep(N(k), parts[k + 1])
               /\ W(k + 1) = WalkStep(W(k), parts[k + 1])
    <2>1. k \in 0..n
      BY <1>1
    <2>2. q(k) \in Seq(Names) /\ q(k + 1) = Append(q(k), parts[k + 1])
      BY <1>2, <2>1
    <2>3. Normalized(Append(q(k), parts[k + 1])) = NormalStep(Normalized(q(k)), parts[k + 1])
      BY <1>3, <2>2, NormalizedGrows
    <2>4. Walk(home, Append(q(k), parts[k + 1])) = WalkStep(Walk(home, q(k)), parts[k + 1])
      BY <1>1, <1>3, <2>2, WalkGrows
    <2> QED BY <2>2, <2>3, <2>4
  <1>8. \A k \in 0..n : Len(W(k)) \in Nat
    BY <1>5
  <1> HIDE DEF N, W
  <1>9. 0 \in Tracked
    <2>1. Tracks(home, 0, N(0), W(0))
      <3>1. 0 % 2 = 0
        OBVIOUS
      <3> QED BY <1>1, <1>6, <3>1 DEF Tracks
    <2>2. Heights(0) = {0}
      BY <1>1, <1>6
    <2>3. 0 \in 0..0 /\ 0 \in 0..n /\ Highest(0, 0)
      <3> HIDE DEF Heights
      <3> QED BY <1>1, <2>2
    <2> QED BY <2>1, <2>3
  <1>10. ASSUME NEW k \in 0..(n - 1), k \in Tracked PROVE k + 1 \in Tracked
    <2>1. PICK c \in 0..k : Tracks(home, c, N(k), W(k)) /\ Highest(c, k)
      BY <1>10
    <2>2. /\ k \in Nat /\ k \in 0..n /\ k + 1 \in 0..n /\ c \in Nat /\ c + 1 < Len(home)
      BY <1>1
    <2>3. PICK e \in {c, c + 1} :
            /\ Tracks(home, e, N(k + 1), W(k + 1))
            /\ Len(home) - Len(W(k + 1)) <= e
            /\ e = c + 1 => Len(home) - Len(W(k + 1)) = e
      <3>1. /\ N(k) \in Seq(Names) /\ W(k) \in Seq(Names)
            /\ parts[k + 1] \in Names /\ Tracks(home, c, N(k), W(k))
        BY <1>3, <1>5, <2>1, <2>2
      <3>2. \E e \in {c, c + 1} :
              /\ Tracks(home, e, NormalStep(N(k), parts[k + 1]), WalkStep(W(k), parts[k + 1]))
              /\ Len(home) - Len(WalkStep(W(k), parts[k + 1])) <= e
              /\ e = c + 1 => Len(home) - Len(WalkStep(W(k), parts[k + 1])) = e
        <4>1. PICK done \in Seq(Names), at \in Seq(Names), next \in Names :
                done = N(k) /\ at = W(k) /\ next = parts[k + 1]
          BY <3>1
        <4>2. /\ home \in Seq(Names) /\ c \in Nat /\ c + 1 < Len(home)
              /\ Tracks(home, c, done, at)
          BY <1>1, <2>2, <3>1, <4>1
        <4>3. \E e \in {c, c + 1} :
                /\ Tracks(home, e, NormalStep(done, next), WalkStep(at, next))
                /\ Len(home) - Len(WalkStep(at, next)) <= e
                /\ e = c + 1 => Len(home) - Len(WalkStep(at, next)) = e
          BY <4>2, TrackStep
        <4> QED BY <4>1, <4>3
      <3>3. /\ N(k + 1) = NormalStep(N(k), parts[k + 1])
            /\ W(k + 1) = WalkStep(W(k), parts[k + 1])
        BY <1>7
      <3> QED BY <3>2, <3>3
    <2>4. Heights(k + 1) = Heights(k) \cup {Len(home) - Len(W(k + 1))}
      <3>1. 0..(k + 1) = (0..k) \cup {k + 1}
        BY <2>2
      <3> QED BY <3>1
    <2>5. Highest(e, k + 1)
      <3>1. \A h \in Heights(k) : h \in Int /\ h <= c
        <4>1. \A j \in 0..k : Len(W(j)) \in Nat
          BY <1>1, <1>8, <2>2
        <4>2. \A h \in Heights(k) : h \in Int
          BY <1>1, <4>1
        <4> QED BY <2>1, <4>2
      <3>2. \A h \in Heights(k) : h <= e
        <4>1. c \in Int /\ e \in Int /\ c <= e
          BY <2>2, <2>3
        <4> HIDE DEF Heights
        <4> QED BY <3>1, <4>1
      <3>3. e \in Heights(k + 1)
        BY <2>1, <2>3, <2>4
      <3> HIDE DEF Heights
      <3> QED BY <2>3, <2>4, <3>2, <3>3
    <2>6. e \in 0..(k + 1)
      BY <2>2
    <2> HIDE DEF Highest
    <2> QED BY <2>2, <2>3, <2>5, <2>6
  <1>11. n \in Tracked
    <2> HIDE DEF Tracked
    <2>1. 0..n \subseteq Tracked
      BY <1>1, <1>9, <1>10, UpTo
    <2> QED BY <1>1, <2>1
  <1>12. PICK c \in 0..n : Tracks(home, c, N(n), W(n)) /\ Highest(c, n)
    BY <1>11
  <1>13. Climb(parts) = c
    <2>1. Climb(parts) = MaxOf(Heights(n))
      BY DEF Climb, n, home, q, W
    <2>2. \A h \in Heights(n) : h \in Int
      BY <1>1, <1>8
    <2>3. c \in Heights(n) /\ \A h \in Heights(n) : h <= c
      BY <1>12
    <2> HIDE DEF Heights
    <2>4. /\ MaxOf(Heights(n)) \in Heights(n)
          /\ \A h \in Heights(n) : h <= MaxOf(Heights(n))
      BY <2>3 DEF MaxOf
    <2>5. MaxOf(Heights(n)) <= c /\ c <= MaxOf(Heights(n))
      BY <2>3, <2>4
    <2>6. MaxOf(Heights(n)) \in Int /\ c \in Int
      BY <2>2, <2>3, <2>4
    <2> QED BY <2>1, <2>5, <2>6
  <1>14. N(n) = Normalized(parts) /\ W(n) = Place(parts)
    BY <1>2 DEF N, W, Place, home, n
  <1>15. n \in 0..n
    BY <1>1
  <1> QED BY <1>5, <1>12, <1>13, <1>14, <1>15 DEF home, n, N, W

\* inspect_filesystem judges a relative path by where it leads: for paths of any
\* length.
THEOREM PathJudged ==
  ASSUME NEW parts \in Seq(Names)
  PROVE  JudgedByPlace(parts)
  <1> DEFINE home == Home(Len(parts))
             done == Normalized(parts)
             at == Place(parts)
             odd == Climb(parts) % 2
             floor == Len(home) - Climb(parts)
             joined == Workspace \o done
             path == [rooted |-> FALSE, absolute |-> FALSE, parts |-> parts]
  <1>1. /\ Climb(parts) \in 0..Len(parts) /\ Tracks(home, Climb(parts), done, at)
        /\ done \in Seq(Names) /\ at \in Seq(Names) /\ Len(parts) \in Nat
    BY WalkTracked
  <1>2. /\ home \in Seq(Names) /\ Len(home) = Len(parts) + 1
        /\ \A i \in 1..Len(home) : home[i] \in {"dir", "workspace"}
    BY <1>1, HomeIs
  <1>3. odd \in {0, 1} /\ floor \in Nat /\ floor <= Len(home)
    BY <1>1, <1>2, Parity
  <1>4. /\ Len(at) >= floor
        /\ Len(done) = odd + (Len(at) - floor)
        /\ \A i \in 1..floor : at[i] = home[i]
        /\ odd = 1 => done[1] = ".."
        /\ \A i \in 1..(Len(at) - floor) :
             done[odd + i] = at[floor + i] /\ at[floor + i] \notin {".", ".."}
    BY <1>1 DEF Tracks
  <1>5. /\ Len(at) \in Nat /\ DOMAIN at = 1..Len(at)
        /\ Len(done) \in Nat /\ DOMAIN done = 1..Len(done)
    BY <1>1
  <1> HIDE DEF home, done, at, odd, floor
  <1>6. PathAllowed(path) <=>
          /\ ".." \notin Range(done)
          /\ SensitiveNames \cap Range(done) = {}
          /\ IsPrefix(Workspace, Normalized(joined))
    BY DEF PathAllowed, UnderWorkspace, done
  <1>7. JudgedByPlace(parts)
          <=> (PathAllowed(path) <=> odd = 0 /\ SensitiveNames \cap Range(at) = {})
    BY DEF JudgedByPlace, odd, at
  <1>8. CASE odd = 1
    <2>1. 1 \in DOMAIN done
      BY <1>3, <1>4, <1>5, <1>8
    <2>2. ".." \in Range(done)
      BY <1>4, <1>8, <2>1 DEF Range
    <2> QED BY <1>6, <1>7, <1>8, <2>2
  <1>9. CASE odd = 0
    <2>1. \A i \in 1..Len(done) :
            /\ i \in 1..(Len(at) - floor) /\ floor + i \in DOMAIN at
            /\ done[i] = at[floor + i] /\ done[i] \notin {".", ".."}
      <3>1. \A i \in 1..Len(done) : i \in 1..(Len(at) - floor) /\ odd + i = i
        BY <1>3, <1>4, <1>5, <1>9
      <3>2. \A i \in 1..Len(done) : floor + i \in DOMAIN at
        BY <1>3, <1>5, <3>1
      <3> QED BY <1>4, <3>1, <3>2
    <2>2. ".." \notin Range(done)
      BY <1>5, <2>1 DEF Range
    <2>3. ".env" \in Range(done) <=> ".env" \in Range(at)
      <3>1. ".env" \in Range(done) => ".env" \in Range(at)
        BY <1>5, <2>1 DEF Range
      <3>2. ASSUME NEW j \in DOMAIN at, at[j] = ".env"
            PROVE  ".env" \in Range(done)
        <4>1. CASE j <= floor
          <5>1. j \in 1..floor /\ j \in 1..Len(home)
            BY <1>1, <1>2, <1>3, <1>5, <4>1
          <5>2. at[j] \in {"dir", "workspace"}
            BY <1>2, <1>4, <5>1
          <5> QED BY <3>2, <5>2
        <4>2. CASE j > floor
          <5>1. j - floor \in 1..(Len(at) - floor) /\ floor + (j - floor) = j
            BY <1>3, <1>5, <4>2
          <5>2. j - floor \in DOMAIN done /\ odd + (j - floor) = j - floor
            BY <1>3, <1>4, <1>5, <1>9, <5>1
          <5>3. done[j - floor] = at[j]
            BY <1>4, <5>1, <5>2
          <5> QED BY <3>2, <5>2, <5>3 DEF Range
        <4> QED BY <1>3, <1>5, <4>1, <4>2
      <3> QED BY <3>1, <3>2 DEF Range
    <2>4. SensitiveNames \cap Range(done) = {} <=> SensitiveNames \cap Range(at) = {}
      BY <2>3 DEF SensitiveNames
    <2>5. IsPrefix(Workspace, Normalized(joined))
      <3> DEFINE root == Workspace
      <3>1. root \in Seq(Names) /\ Len(root) = 1 /\ root[1] = "workspace"
        BY DEF Workspace, Names
      <3> HIDE DEF root
      <3>2. /\ root \o done \in Seq(Names) /\ Len(root \o done) = Len(root) + Len(done)
            /\ \A i \in 1..(Len(root) + Len(done)) :
                 (root \o done)[i] = IF i <= Len(root) THEN root[i] ELSE done[i - Len(root)]
        BY <1>1, <3>1, ConcatProperties DEF done
      <3>3. \A i \in 1..(1 + Len(done)) : (root \o done)[i] \notin {".", ".."}
        <4> SUFFICES ASSUME NEW i \in 1..(1 + Len(done))
                     PROVE  (root \o done)[i] \notin {".", ".."}
          OBVIOUS
        <4>1. (root \o done)[i] = IF i <= 1 THEN root[i] ELSE done[i - 1]
          BY <3>1, <3>2
        <4>2. CASE i = 1
          BY <3>1, <4>1, <4>2
        <4>3. CASE i # 1
          <5>1. i - 1 \in 1..Len(done) /\ ~(i <= 1)
            BY <1>5, <4>3
          <5> QED BY <2>1, <4>1, <5>1
        <4> QED BY <4>2, <4>3
      <3>4. Normalized(root \o done) = root \o done
        <4>1. Len(root \o done) = 1 + Len(done)
          BY <3>1, <3>2
        <4> QED BY <3>2, <3>3, <4>1, NormalizedKeeps
      <3>5. SubSeq(root \o done, 1, 1) = SubSeq(root, 1, 1)
        <4>1. Len(root) = 1 /\ 1 \in 1..Len(root)
          BY <3>1
        <4> QED BY <1>1, <3>1, <4>1, SubSeqOfConcat1 DEF done
      <3>6. Len(root) <= Len(root \o done)
        BY <1>5, <3>1, <3>2
      <3> QED BY <3>1, <3>4, <3>5, <3>6 DEF IsPrefix, root
    <2> QED BY <1>6, <1>7, <1>9, <2>2, <2>4, <2>5
  <1> QED BY <1>3, <1>8, <1>9

\* Out of the workspace and to sensitive names no path is let pass, but for one that
\* climbs an even number of levels, and below the workspace no other is stopped
\* (inspect_filesystem, lexical_normalize).
THEOREM PathsTheorem == Spec => []PathsJudgedByPlace
  <1>1. RelativePaths \subseteq Seq(Names)
    <2>1. ASSUME NEW parts \in RelativePaths PROVE parts \in Seq(Names)
      <3>1. PICK m \in 0..MaxParts : parts \in [1..m -> {"..", ".", "workspace", "a", ".env"}]
        BY DEF RelativePaths, BoundedSeq, SeqOf
      <3>2. {"..", ".", "workspace", "a", ".env"} \subseteq Names
        BY DEF Names
      <3> QED BY <3>1, <3>2 DEF MaxParts
    <2> QED BY <2>1
  <1>2. Misjudged = {}
    BY <1>1, PathJudged DEF Misjudged
  <1>3. PathsJudgedByPlace
    BY <1>2 DEF PathsJudgedByPlace
  <1> QED BY <1>3, PTL

-----------------------------------------------------------------------------
(***************************************************************************)
(* Scores.  A sum in f32 is near the sum that is meant: each addition is   *)
(* off by half an ulp at most, and each weight by a few units.  Sums are   *)
(* multiples of five hundredths, which are far apart; so only at the       *)
(* threshold itself the way they are rounded matters, and there are few    *)
(* ways to come to 50.                                                     *)
(***************************************************************************)

\* Powers of two.
LEMMA Powers ==
  /\ 2^0 = 1 /\ 2^1 = 2 /\ 2^2 = 4 /\ 2^3 = 8 /\ 2^4 = 16
  /\ 2^5 = 32 /\ 2^6 = 64 /\ 2^7 = 128
  BY SMT

\* The binary places of a number that are kept begin at its highest.
LEMMA UlpIs ==
  ASSUME NEW n \in Nat, NEW k \in 0..7,
         \A j \in 0..7 : n >= 2^(23 + j) <=> j <= k
  PROVE  Ulp(n) = 2^k
  <1>1. {j \in 0..7 : n >= 2^(23 + j)} = 0..k
    <2>1. \A j \in 0..7 : j \in 0..k <=> j <= k
      OBVIOUS
    <2>2. 0..k \subseteq 0..7
      OBVIOUS
    <2> QED BY <2>1, <2>2
  <1>2. Cardinality(0..k) = k + 1 /\ 0..k # {}
    <2>1. 0 \in Int /\ k \in Int /\ 0 <= k
      OBVIOUS
    <2>2. Cardinality(0..k) = IF 0 > k THEN 0 ELSE k - 0 + 1
      BY <2>1, FS_Interval
    <2>3. 0 \in 0..k /\ ~(0 > k) /\ k - 0 + 1 = k + 1
      BY <2>1
    <2>4. Cardinality(0..k) = k + 1
      BY <2>2, <2>3
    <2> QED BY <2>3, <2>4
  <1>3. (k + 1) - 1 = k
    BY SMT
  <1> QED BY <1>1, <1>2, <1>3 DEF Ulp

\* There are eight distances.
LEMMA UlpRange ==
  ASSUME NEW n \in Nat PROVE Ulp(n) \in 1..128
  <1> DEFINE large == {k \in 0..7 : n >= 2^(23 + k)}
  <1>1. large \subseteq 0..7 /\ IsFiniteSet(0..7) /\ Cardinality(0..7) = 8
    <2>1. 0 \in Int /\ 7 \in Int /\ 7 - 0 + 1 = 8 /\ ~(0 > 7)
      OBVIOUS
    <2>2. IsFiniteSet(0..7) /\ Cardinality(0..7) = IF 0 > 7 THEN 0 ELSE 7 - 0 + 1
      BY <2>1, FS_Interval
    <2> QED BY <2>1, <2>2
  <1>2. IsFiniteSet(large) /\ Cardinality(large) <= 8 /\ Cardinality(large) \in Nat
    BY <1>1, FS_Subset, FS_CardinalityType
  <1>3. CASE large = {}
    BY <1>3, SMT DEF Ulp
  <1>4. CASE large # {}
    <2>1. Cardinality(large) # 0
      BY <1>2, <1>4, FS_EmptySet
    <2> HIDE DEF large
    <2>2. Cardinality(large) - 1 \in 0..7
      BY <1>2, <2>1, SMT
    <2>3. PICK c \in 0..7 : c = Cardinality(large) - 1
      BY <2>2
    <2>4. 2^c \in 1..128
      <3>1. c = 0 \/ c = 1 \/ c = 2 \/ c = 3 \/ c = 4 \/ c = 5 \/ c = 6 \/ c = 7
        BY SMT
      <3>2. 2^c \in {1, 2, 4, 8, 16, 32, 64, 128}
        <4>1. /\ c = 0 => 2^c = 1
              /\ c = 1 => 2^c = 2
              /\ c = 2 => 2^c = 4
              /\ c = 3 => 2^c = 8
              /\ c = 4 => 2^c = 16
              /\ c = 5 => 2^c = 32
              /\ c = 6 => 2^c = 64
              /\ c = 7 => 2^c = 128
          BY Powers
        <4> QED BY <3>1, <4>1
      <3> QED BY <3>2
    <2>5. Ulp(n) = 2^(Cardinality(large) - 1)
      BY <1>4 DEF Ulp, large
    <2> QED BY <2>3, <2>4, <2>5
  <1> QED BY <1>3, <1>4

\* Rounding is off by half an ulp.
LEMMA RoundedNear ==
  ASSUME NEW n \in Nat
  PROVE  Rounded(n) \in Nat /\ Rounded(n) <= n + 64 /\ n <= Rounded(n) + 64
  <1>1. PICK u \in 1..128 : u = Ulp(n)
    BY UlpRange
  <1>2. PICK rest : rest = n % u
    OBVIOUS
  <1>3. rest \in 0..(u - 1) /\ rest <= n
    <2>1. u \in Nat /\ u > 0
      BY SMT
    <2>2. rest \in 0..(u - 1)
      BY <1>2, <2>1, SMT
    <2>3. n = u * (n \div u) + rest /\ n \div u \in Nat
      BY <1>2, <2>1, SMT
    <2> QED BY <2>1, <2>2, <2>3, SMT
  <1>4. PICK odd \in BOOLEAN : odd = (((n - rest) \div u) % 2 = 1)
    OBVIOUS
  <1>5. Rounded(n) = IF 2 * rest > u \/ (2 * rest = u /\ odd) THEN (n - rest) + u
                     ELSE n - rest
    BY <1>1, <1>2, <1>4 DEF Rounded
  <1> QED BY <1>3, <1>5, SMT

\* So is an addition.
LEMMA PlusNear ==
  ASSUME NEW a \in Nat, NEW b \in Nat
  PROVE  Plus(a, b) \in Nat /\ Plus(a, b) <= a + b + 64 /\ a + b <= Plus(a, b) + 64
  BY RoundedNear, SMT DEF Plus

\* A number between two powers is rounded to a multiple of its ulp.
LEMMA RoundedIs ==
  ASSUME NEW n \in Nat, NEW k \in 0..7, NEW u, u = 2^k,
         \A j \in 0..7 : n >= 2^(23 + j) <=> j <= k
  PROVE  Rounded(n) =
           IF 2 * (n % u) > u \/ (2 * (n % u) = u /\ ((n - (n % u)) \div u) % 2 = 1)
           THEN (n - (n % u)) + u ELSE n - (n % u)
  BY UlpIs DEF Rounded

\* Which powers a number has passed.
LEMMA Passed ==
  ASSUME NEW n \in Nat
  PROVE  /\ 33554432 <= n /\ n < 67108864 => \A j \in 0..7 : n >= 2^(23 + j) <=> j <= 2
         /\ 67108864 <= n /\ n < 134217728 => \A j \in 0..7 : n >= 2^(23 + j) <=> j <= 3
         /\ 134217728 <= n /\ n < 268435456 => \A j \in 0..7 : n >= 2^(23 + j) <=> j <= 4
  <1>1. /\ 2^23 = 8388608 /\ 2^24 = 16777216 /\ 2^25 = 33554432 /\ 2^26 = 67108864
        /\ 2^27 = 134217728 /\ 2^28 = 268435456 /\ 2^29 = 536870912
        /\ 2^30 = 1073741824
    BY SMT
  <1>2. ASSUME NEW j \in 0..7
        PROVE  /\ 33554432 <= n /\ n < 67108864 => (n >= 2^(23 + j) <=> j <= 2)
               /\ 67108864 <= n /\ n < 134217728 => (n >= 2^(23 + j) <=> j <= 3)
               /\ 134217728 <= n /\ n < 268435456 => (n >= 2^(23 + j) <=> j <= 4)
    <2>1. j = 0 \/ j = 1 \/ j = 2 \/ j = 3 \/ j = 4 \/ j = 5 \/ j = 6 \/ j = 7
      BY SMT
    <2>2. /\ j = 0 => 2^(23 + j) = 2^(23 + 0)
          /\ j = 1 => 2^(23 + j) = 2^(23 + 1)
          /\ j = 2 => 2^(23 + j) = 2^(23 + 2)
          /\ j = 3 => 2^(23 + j) = 2^(23 + 3)
          /\ j = 4 => 2^(23 + j) = 2^(23 + 4)
          /\ j = 5 => 2^(23 + j) = 2^(23 + 5)
          /\ j = 6 => 2^(23 + j) = 2^(23 + 6)
          /\ j = 7 => 2^(23 + j) = 2^(23 + 7)
      BY Zenon
    <2>3. /\ 2^(23 + 0) = 8388608
          /\ 2^(23 + 1) = 16777216
          /\ 2^(23 + 2) = 33554432
          /\ 2^(23 + 3) = 67108864
          /\ 2^(23 + 4) = 134217728
          /\ 2^(23 + 5) = 268435456
          /\ 2^(23 + 6) = 536870912
          /\ 2^(23 + 7) = 1073741824
      BY SMT
    <2>4. PICK p : p = 2^(23 + j)
      OBVIOUS
    <2>5. /\ j = 0 => p = 8388608
          /\ j = 1 => p = 16777216
          /\ j = 2 => p = 33554432
          /\ j = 3 => p = 67108864
          /\ j = 4 => p = 134217728
          /\ j = 5 => p = 268435456
          /\ j = 6 => p = 536870912
          /\ j = 7 => p = 1073741824
      BY <2>2, <2>3, <2>4, SMT
    <2>6. /\ 33554432 <= n /\ n < 67108864 => (n >= p <=> j <= 2)
          /\ 67108864 <= n /\ n < 134217728 => (n >= p <=> j <= 3)
          /\ 134217728 <= n /\ n < 268435456 => (n >= p <=> j <= 4)
      BY <2>1, <2>5, SMT
    <2> QED BY <2>4, <2>6, SMT
  <1> QED BY <1>2, SMT

\* The sums that come to 50 hundredths.
LEMMA FiftySums ==
  /\ Plus(0, F15) = F15 /\ Plus(0, F20) = F20 /\ Plus(0, F30) = F30
  /\ Plus(0, F35) = F35
  /\ Plus(F35, F15) = F50
  /\ Plus(F20, F30) = F50
  /\ Plus(F20, F25) = 120795952 /\ Plus(120795952, F05) = F50
  /\ Plus(F20, F15) = 93952416 /\ Plus(93952416, F15) = F50
  /\ Plus(F15, F15) = F30
  /\ Plus(F30, F15) = 120795960 /\ Plus(F15, F30) = 120795960
  /\ Plus(120795960, F05) = F50
  <1>1. ASSUME NEW n \in Nat, 33554432 <= n, n < 67108864
        PROVE  Rounded(n) =
                 IF 2 * (n % 4) > 4 \/ (2 * (n % 4) = 4 /\ ((n - (n % 4)) \div 4) % 2 = 1)
                 THEN (n - (n % 4)) + 4 ELSE n - (n % 4)
    <2>1. 2 \in 0..7 /\ 4 = 2^2 /\ \A j \in 0..7 : n >= 2^(23 + j) <=> j <= 2
      BY <1>1, Passed, Powers, SMT
    <2> QED BY <2>1, RoundedIs, SMT
  <1>2. ASSUME NEW n \in Nat, 67108864 <= n, n < 134217728
        PROVE  Rounded(n) =
                 IF 2 * (n % 8) > 8 \/ (2 * (n % 8) = 8 /\ ((n - (n % 8)) \div 8) % 2 = 1)
                 THEN (n - (n % 8)) + 8 ELSE n - (n % 8)
    <2>1. 3 \in 0..7 /\ 8 = 2^3 /\ \A j \in 0..7 : n >= 2^(23 + j) <=> j <= 3
      BY <1>2, Passed, Powers, SMT
    <2>2. PICK u : u = 8
      OBVIOUS
    <2>3. Rounded(n) =
            IF 2 * (n % u) > u \/ (2 * (n % u) = u /\ ((n - (n % u)) \div u) % 2 = 1)
            THEN (n - (n % u)) + u ELSE n - (n % u)
      <3>1. u = 2^3 /\ 3 \in 0..7
        BY <2>1, <2>2, SMT
      <3> QED BY <2>1, <3>1, RoundedIs
    <2> QED BY <2>2, <2>3, SMT
  <1>3. ASSUME NEW n \in Nat, 134217728 <= n, n < 268435456
        PROVE  Rounded(n) =
                 IF 2 * (n % 16) > 16
                    \/ (2 * (n % 16) = 16 /\ ((n - (n % 16)) \div 16) % 2 = 1)
                 THEN (n - (n % 16)) + 16 ELSE n - (n % 16)
    <2>1. 4 \in 0..7 /\ 16 = 2^4 /\ \A j \in 0..7 : n >= 2^(23 + j) <=> j <= 4
      BY <1>3, Passed, Powers, SMT
    <2> QED BY <2>1, RoundedIs, SMT
  <1>4. Rounded(40265320) = 40265320 /\ Rounded(53687092) = 53687092
    BY <1>1, SMT
  <1>5. /\ Rounded(80530640) = 80530640
        /\ Rounded(93952408) = 93952408
        /\ Rounded(120795956) = 120795952
        /\ Rounded(93952412) = 93952416
        /\ Rounded(120795960) = 120795960
        /\ Rounded(134217725) = 134217728
    BY <1>2, SMT
  <1>6. /\ Rounded(134217728) = 134217728
        /\ Rounded(134217732) = 134217728
        /\ Rounded(134217736) = 134217728
        /\ Rounded(134217733) = 134217728
    BY <1>3, SMT
  <1> QED
    BY <1>4, <1>5, <1>6, SMT DEF Plus, F05, F15, F20, F25, F30, F35, F50

-----------------------------------------------------------------------------
(* What is added up are amounts, in units and in hundredths. *)

Amounts == Nat \X Nat

AddStep(sums, weight) == <<Plus(sums[1], weight[1]), sums[2] + weight[2]>>

Total(weights) ==
  FoldLeft(LAMBDA sums, weight : <<Plus(sums[1], weight[1]), sums[2] + weight[2]>>,
           <<0, 0>>, weights)

\* An addition comes to amounts again.
LEMMA AddStepType ==
  ASSUME NEW sums \in Amounts, NEW weight \in Amounts
  PROVE  AddStep(sums, weight) \in Amounts
  <1>1. /\ sums[1] \in Nat /\ weight[1] \in Nat
        /\ sums[2] \in Nat /\ weight[2] \in Nat
    BY DEF Amounts
  <1>2. Plus(sums[1], weight[1]) \in Nat
    BY <1>1, PlusNear
  <1> QED BY <1>1, <1>2 DEF AddStep, Amounts

\* What the sums are after each of the weights.
LEMMA TotalUnfolds ==
  ASSUME NEW weights \in Seq(Amounts)
  PROVE  \E g :
           /\ g[{}] = <<0, 0>> /\ Total(weights) = g[1..Len(weights)]
           /\ \A k \in 0..Len(weights) : g[1..k] \in Amounts
           /\ \A k \in 1..Len(weights) : g[1..k] = AddStep(g[1..(k - 1)], weights[k])
  <1> DEFINE n == Len(weights)
             G == [x \in Amounts \X (1..n) |-> AddStep(x[1], weights[x[2]])]
             Iter(g) == [s \in SUBSET (1..n) |->
                           IF s = {} THEN <<0, 0>> ELSE AddStep(g[s \ {Max(s)}], weights[Max(s)])]
             iter == CHOOSE g : g = Iter(g)
  <1>1. /\ n \in Nat /\ DOMAIN weights = 1..n /\ \A i \in 1..n : weights[i] \in Amounts
        /\ <<0, 0>> \in Amounts
    BY DEF Amounts
  <1>2. Total(weights) = iter[1..n]
    BY <1>1 DEF Total, FoldLeft, MapThenFoldSet, AddStep
  <1>3. G \in [Amounts \X (1..n) -> Amounts]
    BY <1>1, AddStepType
  <1>4. ASSUME NEW s \in SUBSET (1..n), s # {}
        PROVE  Max(s) \in 1..n
    <2>1. Max(s) \in s
      BY <1>1, <1>4, MaxIs
    <2> QED BY <2>1
  <1>5. \E g \in [SUBSET (1..n) -> Amounts] : IsFold(g, n, Amounts, <<0, 0>>, G)
    <2> HIDE DEF G, n
    <2> QED BY <1>1, <1>3, FoldExists
  <1>6. PICK g \in [SUBSET (1..n) -> Amounts] :
          \A s \in SUBSET (1..n) :
            g[s] = IF s = {} THEN <<0, 0>> ELSE G[<<g[s \ {Max(s)}], Max(s)>>]
    <2> HIDE DEF G, n
    <2>1. PICK g \in [SUBSET (1..n) -> Amounts] : IsFold(g, n, Amounts, <<0, 0>>, G)
      BY <1>5
    <2>2. ASSUME NEW s \in SUBSET (1..n), s # {} PROVE g[s \ {Max(s)}] \in Amounts
      OBVIOUS
    <2> QED BY <2>1, <2>2 DEF IsFold
  <1>7. g = Iter(g)
    <2>1. ASSUME NEW s \in SUBSET (1..n), s # {}
          PROVE  G[<<g[s \ {Max(s)}], Max(s)>>] = AddStep(g[s \ {Max(s)}], weights[Max(s)])
      <3>1. Max(s) \in 1..n /\ g[s \ {Max(s)}] \in Amounts
        BY <1>4, <2>1
      <3> QED BY <3>1
    <2>2. \A s \in SUBSET (1..n) : g[s] = Iter(g)[s]
      <3> HIDE DEF G, n
      <3> QED BY <1>6, <2>1
    <2> QED BY <2>2
  <1>8. iter = Iter(iter)
    BY <1>7
  <1> HIDE DEF iter
  <1>9. \A s \in SUBSET (1..n) :
          iter[s] = IF s = {} THEN <<0, 0>> ELSE AddStep(iter[s \ {Max(s)}], weights[Max(s)])
    BY <1>8
  <1>10. iter[{}] = <<0, 0>>
    BY <1>9
  <1>11. ASSUME NEW s \in SUBSET (1..n), s # {}, iter[s \ {Max(s)}] \in Amounts
         PROVE  iter[s] = G[<<iter[s \ {Max(s)}], Max(s)>>]
    BY <1>4, <1>9, <1>11
  <1>12. IsFold(iter, n, Amounts, <<0, 0>>, G)
    <2> HIDE DEF G, n, Iter
    <2> QED BY <1>10, <1>11 DEF IsFold
  <1>13. \A k \in 0..n : iter[1..k] \in Amounts
    <2> DEFINE D == Amounts
    <2>1. /\ n \in Nat /\ <<0, 0>> \in D /\ G \in [D \X (1..n) -> D]
          /\ IsFold(iter, n, D, <<0, 0>>, G)
      BY <1>1, <1>3, <1>12
    <2> HIDE DEF G, n, Iter, D
    <2>2. \A k \in 0..n : iter[1..k] \in D
      BY <2>1, FoldType
    <2> QED BY <2>2 DEF D
  <1>14. ASSUME NEW k \in 1..n PROVE iter[1..k] = AddStep(iter[1..(k - 1)], weights[k])
    <2>1. Max(1..k) = k /\ (1..k) \ {k} = 1..(k - 1)
      BY MaxOfInterval
    <2> HIDE DEF G, n, Iter
    <2>2. n \in Nat
      BY <1>1
    <2>3. k \in 1..k /\ \A i \in 1..k : i \in 1..n
      BY <2>2
    <2>4. 1..k \in SUBSET (1..n) /\ 1..k # {}
      BY <2>3
    <2> QED BY <1>9, <2>1, <2>4
  <1> QED BY <1>2, <1>10, <1>13, <1>14

\* So a weight that is appended is added.
LEMMA TotalGrows ==
  ASSUME NEW weights \in Seq(Amounts), NEW weight \in Amounts
  PROVE  /\ Total(weights) \in Amounts
         /\ weights = <<>> => Total(weights) = <<0, 0>>
         /\ Total(Append(weights, weight)) = AddStep(Total(weights), weight)
  <1> DEFINE n == Len(weights)
             more == Append(weights, weight)
  <1>1. /\ n \in Nat /\ more \in Seq(Amounts) /\ Len(more) = n + 1 /\ more[n + 1] = weight
        /\ \A i \in 1..n : more[i] = weights[i]
    OBVIOUS
  <1>2. PICK g : /\ g[{}] = <<0, 0>> /\ Total(weights) = g[1..n]
                 /\ \A k \in 0..n : g[1..k] \in Amounts
                 /\ \A k \in 1..n : g[1..k] = AddStep(g[1..(k - 1)], weights[k])
    BY TotalUnfolds
  <1> HIDE DEF more
  <1>3. PICK h : /\ h[{}] = <<0, 0>> /\ Total(Append(weights, weight)) = h[1..(n + 1)]
                 /\ \A k \in 1..(n + 1) : h[1..k] = AddStep(h[1..(k - 1)], more[k])
    <2>1. \E h : /\ h[{}] = <<0, 0>> /\ Total(Append(weights, weight)) = h[1..Len(more)]
                 /\ \A k \in 0..Len(more) : h[1..k] \in Amounts
                 /\ \A k \in 1..Len(more) : h[1..k] = AddStep(h[1..(k - 1)], more[k])
      BY <1>1, TotalUnfolds DEF more
    <2> QED BY <1>1, <2>1
  <1> DEFINE Same == {k \in 0..n : h[1..k] = g[1..k]}
  <1> HIDE DEF n
  <1>4. 1..0 = {}
    OBVIOUS
  <1>5. 0 \in Same
    BY <1>1, <1>2, <1>3, <1>4
  <1>6. ASSUME NEW k \in 0..(n - 1), k \in Same PROVE k + 1 \in Same
    <2>1. k + 1 \in 1..n /\ k + 1 \in 1..(n + 1) /\ (k + 1) - 1 = k /\ k + 1 \in 0..n
      BY <1>1
    <2>2. h[1..(k + 1)] = AddStep(h[1..k], more[k + 1])
      BY <1>3, <2>1
    <2>3. g[1..(k + 1)] = AddStep(g[1..k], weights[k + 1])
      BY <1>2, <2>1
    <2> QED BY <1>1, <1>6, <2>1, <2>2, <2>3
  <1>7. n \in Same
    <2>1. 0..n \subseteq Same
      <3> HIDE DEF Same
      <3> QED BY <1>1, <1>5, <1>6, UpTo
    <2> QED BY <1>1, <2>1
  <1>8. h[1..(n + 1)] = AddStep(h[1..n], weight)
    <2>1. n + 1 \in 1..(n + 1) /\ (n + 1) - 1 = n
      BY <1>1
    <2> QED BY <1>1, <1>3, <2>1
  <1>9. weights = <<>> => n = 0
    BY DEF n
  <1>10. n \in 0..n
    BY <1>1
  <1> QED BY <1>2, <1>3, <1>4, <1>7, <1>8, <1>9, <1>10

\* And one that is appended if something was found.
IfFound(weights, found, weight) == weights \o (IF found THEN <<weight>> ELSE <<>>)

LEMMA TotalOptional ==
  ASSUME NEW weights \in Seq(Amounts), NEW weight \in Amounts, NEW found \in BOOLEAN
  PROVE  /\ IfFound(weights, found, weight) \in Seq(Amounts)
         /\ Total(IfFound(weights, found, weight)) =
              IF found THEN AddStep(Total(weights), weight) ELSE Total(weights)
  <1>1. CASE found
    <2>1. IfFound(weights, found, weight) = Append(weights, weight)
      BY <1>1 DEF IfFound
    <2>2. Append(weights, weight) \in Seq(Amounts)
      OBVIOUS
    <2> QED BY <1>1, <2>1, <2>2, TotalGrows
  <1>2. CASE ~found
    <2>1. IfFound(weights, found, weight) = weights
      BY <1>2 DEF IfFound
    <2> QED BY <1>2, <2>1
  <1> QED BY <1>1, <1>2

\* After k weights the units are as near to the hundredths.
Near(sums, k) ==
  /\ sums \in Amounts
  /\ 25 * sums[1] <= 67108864 * sums[2] + 1800 * k
  /\ 67108864 * sums[2] <= 25 * sums[1] + 1800 * k

\* The weights there are.
TextWeights ==
  {<<F05, 5>>, <<F15, 15>>, <<F20, 20>>, <<F25, 25>>, <<F30, 30>>, <<F35, 35>>}

\* Each weight is its hundredths, but for 80/25 units.
LEMMA WeightsNear ==
  ASSUME NEW weight \in TextWeights
  PROVE  /\ weight \in Amounts
         /\ 25 * weight[1] <= 67108864 * weight[2] + 80
         /\ 67108864 * weight[2] <= 25 * weight[1] + 80
  BY SMT DEF TextWeights, Amounts, F05, F15, F20, F25, F30, F35

\* An addition takes the units at most 1800/25 further away, whichever weight it adds.
LEMMA NearStep ==
  ASSUME NEW k \in Nat, NEW sums, Near(sums, k), NEW weight \in TextWeights
  PROVE  Near(AddStep(sums, weight), k + 1)
  <1>1. PICK a \in Nat, b \in Nat : sums[1] = a /\ sums[2] = b
    BY DEF Near, Amounts
  <1>2. PICK c \in Nat, d \in Nat : weight[1] = c /\ weight[2] = d
    BY WeightsNear DEF Amounts
  <1>3. PICK p : p = Plus(a, c)
    OBVIOUS
  <1>4. p \in Nat /\ p <= a + c + 64 /\ a + c <= p + 64
    BY <1>3, PlusNear
  <1>5. 25 * c <= 67108864 * d + 80 /\ 67108864 * d <= 25 * c + 80
    BY <1>2, WeightsNear, SMT
  <1>6. 25 * a <= 67108864 * b + 1800 * k /\ 67108864 * b <= 25 * a + 1800 * k
    BY <1>1, SMT DEF Near
  <1>7. /\ 25 * p <= 67108864 * (b + d) + 1800 * (k + 1)
        /\ 67108864 * (b + d) <= 25 * p + 1800 * (k + 1)
    BY <1>4, <1>5, <1>6, SMT
  <1>8. AddStep(sums, weight) = <<p, b + d>>
    BY <1>1, <1>2, <1>3 DEF AddStep
  <1> QED BY <1>4, <1>7, <1>8, SMT DEF Near, Amounts

\* A weight that is not found takes them no further.
LEMMA NearMore ==
  ASSUME NEW k \in Nat, NEW sums, Near(sums, k)
  PROVE  Near(sums, k + 1)
  <1>1. PICK a \in Nat, b \in Nat : sums[1] = a /\ sums[2] = b
    BY DEF Near, Amounts
  <1> QED BY <1>1, SMT DEF Near

\* The lexical patterns' weights.
LEMMA LexicalTotal ==
  ASSUME NEW n \in Patterns, NEW weights, weights = [i \in 1..n |-> <<F35, 35>>]
  PROVE  /\ weights \in Seq(Amounts)
         /\ Near(Total(weights), n)
         /\ Total(weights)[2] = 35 * n
         /\ n = 0 => Total(weights) = <<0, 0>>
         /\ n = 1 => Total(weights) = AddStep(<<0, 0>>, <<F35, 35>>)
  <1> DEFINE First(k) == [i \in 1..k |-> <<F35, 35>>]
             Good(k) == /\ First(k) \in Seq(Amounts)
                        /\ Near(Total(First(k)), k)
                        /\ Total(First(k))[2] = 35 * k
                        /\ k = 0 => Total(First(k)) = <<0, 0>>
                        /\ k = 1 => Total(First(k)) = AddStep(<<0, 0>>, <<F35, 35>>)
             Some == {k \in 0..9 : Good(k)}
  <1>1. PICK weight : weight = <<F35, 35>> /\ weight \in TextWeights /\ weight \in Amounts
    BY WeightsNear DEF TextWeights
  <1>2. 0 \in Some
    <2>1. First(0) = <<>> /\ <<>> \in Seq(Amounts)
      OBVIOUS
    <2>2. Total(<<>>) = <<0, 0>>
      BY <1>1, <2>1, TotalGrows
    <2>3. Near(<<0, 0>>, 0)
      BY SMT DEF Near, Amounts
    <2> QED BY <2>1, <2>2, <2>3
  <1>3. ASSUME NEW k \in 0..8, k \in Some PROVE k + 1 \in Some
    <2>1. Good(k)
      BY <1>3
    <2> HIDE DEF Good
    <2>2. First(k + 1) = Append(First(k), weight)
      <3> HIDE <2>1
      <3>1. /\ First(k) \in Seq({weight}) /\ Len(First(k)) = k
            /\ First(k + 1) \in Seq({weight}) /\ Len(First(k + 1)) = k + 1
        BY <1>1
      <3>2. /\ \A i \in 1..k : First(k)[i] = weight
            /\ \A i \in 1..(k + 1) : First(k + 1)[i] = weight
        BY <1>1
      <3> HIDE DEF First
      <3>3. /\ Append(First(k), weight) \in Seq({weight})
            /\ Len(Append(First(k), weight)) = k + 1
            /\ \A i \in 1..(k + 1) : Append(First(k), weight)[i] = weight
        BY <3>1, <3>2
      <3> QED BY <3>1, <3>2, <3>3, SeqEqual
    <2>3. PICK t : t = Total(First(k))
      OBVIOUS
    <2>4. /\ First(k) \in Seq(Amounts) /\ Near(t, k) /\ t[2] = 35 * k
          /\ k = 0 => t = <<0, 0>>
      BY <2>1, <2>3 DEF Good
    <2> HIDE DEF First
    <2>5. First(k + 1) \in Seq(Amounts) /\ Total(First(k + 1)) = AddStep(t, weight)
      <3>1. PICK w : w = First(k) /\ w \in Seq(Amounts)
        BY <2>4
      <3>2. Total(Append(w, weight)) = AddStep(Total(w), weight)
        BY <1>1, <3>1, TotalGrows
      <3>3. Append(w, weight) \in Seq(Amounts)
        BY <1>1, <3>1
      <3> QED BY <2>2, <2>3, <3>1, <3>2, <3>3
    <2>6. Near(AddStep(t, weight), k + 1)
      BY <1>1, <2>4, NearStep
    <2>7. AddStep(t, weight)[2] = 35 * (k + 1)
      BY <1>1, <2>4 DEF AddStep
    <2>8. k + 1 # 0 /\ (k + 1 = 1 => k = 0) /\ k + 1 \in 0..9
      OBVIOUS
    <2>9. Good(k + 1)
      BY <1>1, <2>4, <2>5, <2>6, <2>7, <2>8 DEF Good
    <2> QED BY <2>8, <2>9
  <1>4. 0..9 \subseteq Some
    <2> HIDE DEF Some
    <2>1. 9 \in Nat /\ 9 - 1 = 8
      OBVIOUS
    <2> QED BY <1>2, <1>3, <2>1, UpTo
  <1>5. Good(n) /\ weights = First(n)
    BY <1>4 DEF Patterns
  <1> QED BY <1>5

\* Adding a weight if it is found, to one of the two sums.
Units(found, sum, weight) == IF found THEN Plus(sum, weight) ELSE sum
Hundredths(found, sum, weight) == IF found THEN sum + weight ELSE sum

\* One weight of a text, found or not, in both of the sums.
LEMMA OptionalNear ==
  ASSUME NEW k \in Nat, NEW weights \in Seq(Amounts), Near(Total(weights), k),
         NEW found \in BOOLEAN, NEW unit, NEW amount, <<unit, amount>> \in TextWeights
  PROVE  LET more == IfFound(weights, found, <<unit, amount>>)
         IN  /\ more \in Seq(Amounts) /\ Near(Total(more), k + 1)
             /\ Total(more)[1] = Units(found, Total(weights)[1], unit)
             /\ Total(more)[2] = Hundredths(found, Total(weights)[2], amount)
  <1> DEFINE more == IfFound(weights, found, <<unit, amount>>)
  <1>1. PICK weight \in TextWeights : weight = <<unit, amount>>
    OBVIOUS
  <1>2. weight \in Amounts
    BY WeightsNear
  <1>3. /\ more \in Seq(Amounts)
        /\ Total(more) = IF found THEN AddStep(Total(weights), weight) ELSE Total(weights)
    BY <1>1, <1>2, TotalOptional
  <1>4. Near(AddStep(Total(weights), weight), k + 1) /\ Near(Total(weights), k + 1)
    BY NearStep, NearMore
  <1>5. /\ AddStep(Total(weights), weight)[1] = Plus(Total(weights)[1], unit)
        /\ AddStep(Total(weights), weight)[2] = Total(weights)[2] + amount
    BY <1>1 DEF AddStep
  <1> QED BY <1>3, <1>4, <1>5 DEF Units, Hundredths

\* The sums of a text: both are made in the same steps, and the first stays near the
\* second.
LEMMA TextSums ==
  ASSUME NEW text \in Texts
  PROVE  \E u0, u1, u2, u3, u4, u5, u6, u7, m0, m1, m2, m3, m4, m5, m6, m7 :
           /\ Sums(text)[1] = u7 /\ Sums(text)[2] = m7
           /\ m0 = 35 * text.lexical
           /\ text.lexical = 0 => u0 = 0
           /\ text.lexical = 1 => u0 = Plus(0, F35)
           /\ u1 = Units(text.base64, u0, F20) /\ m1 = Hundredths(text.base64, m0, 20)
           /\ u2 = Units(text.zeroWidth, u1, F25) /\ m2 = Hundredths(text.zeroWidth, m1, 25)
           /\ u3 = Units(text.encoded, u2, F15) /\ m3 = Hundredths(text.encoded, m2, 15)
           /\ u4 = Units(text.url, u3, F15) /\ m4 = Hundredths(text.url, m3, 15)
           /\ u5 = Units(text.shell, u4, F30) /\ m5 = Hundredths(text.shell, m4, 30)
           /\ u6 = Units(text.fsRef, u5, F15) /\ m6 = Hundredths(text.fsRef, m5, 15)
           /\ u7 = Units(text.writes, u6, F05) /\ m7 = Hundredths(text.writes, m6, 5)
           /\ \E k \in 0..16 : Near(Sums(text), k)
  <1> DEFINE w0 == [i \in 1..text.lexical |-> <<F35, 35>>]
             w1 == IfFound(w0, text.base64, <<F20, 20>>)
             w2 == IfFound(w1, text.zeroWidth, <<F25, 25>>)
             w3 == IfFound(w2, text.encoded, <<F15, 15>>)
             w4 == IfFound(w3, text.url, <<F15, 15>>)
             w5 == IfFound(w4, text.shell, <<F30, 30>>)
             w6 == IfFound(w5, text.fsRef, <<F15, 15>>)
             w7 == IfFound(w6, text.writes, <<F05, 5>>)
  <1>1. /\ text.lexical \in Patterns
        /\ text.base64 \in BOOLEAN
        /\ text.zeroWidth \in BOOLEAN
        /\ text.encoded \in BOOLEAN
        /\ text.url \in BOOLEAN
        /\ text.shell \in BOOLEAN
        /\ text.fsRef \in BOOLEAN
        /\ text.writes \in BOOLEAN
    BY DEF Texts
  <1>2. Sums(text) = Total(w7)
    BY DEF Sums, Total, Weights, IfFound
  <1>3. /\ w0 \in Seq(Amounts)
        /\ Near(Total(w0), text.lexical)
        /\ Total(w0)[2] = 35 * text.lexical
        /\ text.lexical = 0 => Total(w0) = <<0, 0>>
        /\ text.lexical = 1 => Total(w0) = AddStep(<<0, 0>>, <<F35, 35>>)
    BY <1>1, LexicalTotal
  <1>4. PICK L \in Nat : L = text.lexical /\ L <= 9
    BY <1>1 DEF Patterns
  <1>5. /\ w1 \in Seq(Amounts) /\ Near(Total(w1), L + 1)
        /\ Total(w1)[1] = Units(text.base64, Total(w0)[1], F20)
        /\ Total(w1)[2] = Hundredths(text.base64, Total(w0)[2], 20)
    <2>1. <<F20, 20>> \in TextWeights
      BY DEF TextWeights
    <2>2. PICK w : w = w0
      OBVIOUS
    <2>3. PICK k \in Nat : k = L + 0 /\ k + 1 = L + 1
      OBVIOUS
    <2>4. w \in Seq(Amounts) /\ Near(Total(w), k)
      BY <1>3, <1>4, <2>2, <2>3
    <2>5. PICK found \in BOOLEAN : found = text.base64
      BY <1>1
    <2>6. LET more == IfFound(w, found, <<F20, 20>>)
          IN  /\ more \in Seq(Amounts) /\ Near(Total(more), k + 1)
              /\ Total(more)[1] = Units(found, Total(w)[1], F20)
              /\ Total(more)[2] = Hundredths(found, Total(w)[2], 20)
      BY <2>1, <2>4, OptionalNear
    <2> QED BY <2>2, <2>3, <2>5, <2>6
  <1>6. /\ w2 \in Seq(Amounts) /\ Near(Total(w2), L + 2)
        /\ Total(w2)[1] = Units(text.zeroWidth, Total(w1)[1], F25)
        /\ Total(w2)[2] = Hundredths(text.zeroWidth, Total(w1)[2], 25)
    <2>1. <<F25, 25>> \in TextWeights
      BY DEF TextWeights
    <2>2. PICK w : w = w1
      OBVIOUS
    <2>3. PICK k \in Nat : k = L + 1 /\ k + 1 = L + 2
      OBVIOUS
    <2>4. w \in Seq(Amounts) /\ Near(Total(w), k)
      BY <1>5, <1>4, <2>2, <2>3
    <2>5. PICK found \in BOOLEAN : found = text.zeroWidth
      BY <1>1
    <2>6. LET more == IfFound(w, found, <<F25, 25>>)
          IN  /\ more \in Seq(Amounts) /\ Near(Total(more), k + 1)
              /\ Total(more)[1] = Units(found, Total(w)[1], F25)
              /\ Total(more)[2] = Hundredths(found, Total(w)[2], 25)
      BY <2>1, <2>4, OptionalNear
    <2> QED BY <2>2, <2>3, <2>5, <2>6
  <1>7. /\ w3 \in Seq(Amounts) /\ Near(Total(w3), L + 3)
        /\ Total(w3)[1] = Units(text.encoded, Total(w2)[1], F15)
        /\ Total(w3)[2] = Hundredths(text.encoded, Total(w2)[2], 15)
    <2>1. <<F15, 15>> \in TextWeights
      BY DEF TextWeights
    <2>2. PICK w : w = w2
      OBVIOUS
    <2>3. PICK k \in Nat : k = L + 2 /\ k + 1 = L + 3
      OBVIOUS
    <2>4. w \in Seq(Amounts) /\ Near(Total(w), k)
      BY <1>6, <1>4, <2>2, <2>3
    <2>5. PICK found \in BOOLEAN : found = text.encoded
      BY <1>1
    <2>6. LET more == IfFound(w, found, <<F15, 15>>)
          IN  /\ more \in Seq(Amounts) /\ Near(Total(more), k + 1)
              /\ Total(more)[1] = Units(found, Total(w)[1], F15)
              /\ Total(more)[2] = Hundredths(found, Total(w)[2], 15)
      BY <2>1, <2>4, OptionalNear
    <2> QED BY <2>2, <2>3, <2>5, <2>6
  <1>8. /\ w4 \in Seq(Amounts) /\ Near(Total(w4), L + 4)
        /\ Total(w4)[1] = Units(text.url, Total(w3)[1], F15)
        /\ Total(w4)[2] = Hundredths(text.url, Total(w3)[2], 15)
    <2>1. <<F15, 15>> \in TextWeights
      BY DEF TextWeights
    <2>2. PICK w : w = w3
      OBVIOUS
    <2>3. PICK k \in Nat : k = L + 3 /\ k + 1 = L + 4
      OBVIOUS
    <2>4. w \in Seq(Amounts) /\ Near(Total(w), k)
      BY <1>7, <1>4, <2>2, <2>3
    <2>5. PICK found \in BOOLEAN : found = text.url
      BY <1>1
    <2>6. LET more == IfFound(w, found, <<F15, 15>>)
          IN  /\ more \in Seq(Amounts) /\ Near(Total(more), k + 1)
              /\ Total(more)[1] = Units(found, Total(w)[1], F15)
              /\ Total(more)[2] = Hundredths(found, Total(w)[2], 15)
      BY <2>1, <2>4, OptionalNear
    <2> QED BY <2>2, <2>3, <2>5, <2>6
  <1>9. /\ w5 \in Seq(Amounts) /\ Near(Total(w5), L + 5)
        /\ Total(w5)[1] = Units(text.shell, Total(w4)[1], F30)
        /\ Total(w5)[2] = Hundredths(text.shell, Total(w4)[2], 30)
    <2>1. <<F30, 30>> \in TextWeights
      BY DEF TextWeights
    <2>2. PICK w : w = w4
      OBVIOUS
    <2>3. PICK k \in Nat : k = L + 4 /\ k + 1 = L + 5
      OBVIOUS
    <2>4. w \in Seq(Amounts) /\ Near(Total(w), k)
      BY <1>8, <1>4, <2>2, <2>3
    <2>5. PICK found \in BOOLEAN : found = text.shell
      BY <1>1
    <2>6. LET more == IfFound(w, found, <<F30, 30>>)
          IN  /\ more \in Seq(Amounts) /\ Near(Total(more), k + 1)
              /\ Total(more)[1] = Units(found, Total(w)[1], F30)
              /\ Total(more)[2] = Hundredths(found, Total(w)[2], 30)
      BY <2>1, <2>4, OptionalNear
    <2> QED BY <2>2, <2>3, <2>5, <2>6
  <1>10. /\ w6 \in Seq(Amounts) /\ Near(Total(w6), L + 6)
         /\ Total(w6)[1] = Units(text.fsRef, Total(w5)[1], F15)
         /\ Total(w6)[2] = Hundredths(text.fsRef, Total(w5)[2], 15)
    <2>1. <<F15, 15>> \in TextWeights
      BY DEF TextWeights
    <2>2. PICK w : w = w5
      OBVIOUS
    <2>3. PICK k \in Nat : k = L + 5 /\ k + 1 = L + 6
      OBVIOUS
    <2>4. w \in Seq(Amounts) /\ Near(Total(w), k)
      BY <1>9, <1>4, <2>2, <2>3
    <2>5. PICK found \in BOOLEAN : found = text.fsRef
      BY <1>1
    <2>6. LET more == IfFound(w, found, <<F15, 15>>)
          IN  /\ more \in Seq(Amounts) /\ Near(Total(more), k + 1)
              /\ Total(more)[1] = Units(found, Total(w)[1], F15)
              /\ Total(more)[2] = Hundredths(found, Total(w)[2], 15)
      BY <2>1, <2>4, OptionalNear
    <2> QED BY <2>2, <2>3, <2>5, <2>6
  <1>11. /\ w7 \in Seq(Amounts) /\ Near(Total(w7), L + 7)
         /\ Total(w7)[1] = Units(text.writes, Total(w6)[1], F05)
         /\ Total(w7)[2] = Hundredths(text.writes, Total(w6)[2], 5)
    <2>1. <<F05, 5>> \in TextWeights
      BY DEF TextWeights
    <2>2. PICK w : w = w6
      OBVIOUS
    <2>3. PICK k \in Nat : k = L + 6 /\ k + 1 = L + 7
      OBVIOUS
    <2>4. w \in Seq(Amounts) /\ Near(Total(w), k)
      BY <1>10, <1>4, <2>2, <2>3
    <2>5. PICK found \in BOOLEAN : found = text.writes
      BY <1>1
    <2>6. LET more == IfFound(w, found, <<F05, 5>>)
          IN  /\ more \in Seq(Amounts) /\ Near(Total(more), k + 1)
              /\ Total(more)[1] = Units(found, Total(w)[1], F05)
              /\ Total(more)[2] = Hundredths(found, Total(w)[2], 5)
      BY <2>1, <2>4, OptionalNear
    <2> QED BY <2>2, <2>3, <2>5, <2>6
  <1>12. L + 7 \in 0..16
    BY <1>4
  <1>13. /\ text.lexical = 0 => Total(w0)[1] = 0
         /\ text.lexical = 1 => Total(w0)[1] = Plus(0, F35)
    BY <1>3 DEF AddStep
  <1> HIDE DEF w0, w1, w2, w3, w4, w5, w6, w7
  <1>14. \E k \in 0..16 : Near(Sums(text), k)
    BY <1>2, <1>11, <1>12
  <1> WITNESS Total(w0)[1], Total(w1)[1], Total(w2)[1], Total(w3)[1],
              Total(w4)[1], Total(w5)[1], Total(w6)[1], Total(w7)[1],
              Total(w0)[2], Total(w1)[2], Total(w2)[2], Total(w3)[2],
              Total(w4)[2], Total(w5)[2], Total(w6)[2], Total(w7)[2]
  <1> QED
    BY <1>2, <1>3, <1>5, <1>6, <1>7, <1>8, <1>9, <1>10, <1>11, <1>13, <1>14

\* What is 50 hundredths is 0.5 in f32 as well, in whichever way it comes about.
LEMMA FiftyIsHalf ==
  ASSUME NEW text \in Texts
  PROVE  /\ \E j \in Nat : Sums(text)[2] = 5 * j
         /\ Sums(text)[2] = 50 => Sums(text)[1] = F50
  <1>1. PICK lexical \in Nat, base64 \in BOOLEAN, zeroWidth \in BOOLEAN, encoded \in BOOLEAN,
             url \in BOOLEAN, shell \in BOOLEAN, fsRef \in BOOLEAN, writes \in BOOLEAN :
          /\ lexical = text.lexical /\ base64 = text.base64 /\ zeroWidth = text.zeroWidth
          /\ encoded = text.encoded /\ url = text.url /\ shell = text.shell
          /\ fsRef = text.fsRef /\ writes = text.writes
    BY DEF Texts, Patterns
  <1>2. PICK u0, u1, u2, u3, u4, u5, u6, u7, m0, m1, m2, m3, m4, m5, m6, m7 :
          /\ Sums(text)[1] = u7 /\ Sums(text)[2] = m7
          /\ m0 = 35 * lexical
          /\ lexical = 0 => u0 = 0
          /\ lexical = 1 => u0 = Plus(0, F35)
          /\ u1 = Units(base64, u0, F20) /\ m1 = Hundredths(base64, m0, 20)
          /\ u2 = Units(zeroWidth, u1, F25) /\ m2 = Hundredths(zeroWidth, m1, 25)
          /\ u3 = Units(encoded, u2, F15) /\ m3 = Hundredths(encoded, m2, 15)
          /\ u4 = Units(url, u3, F15) /\ m4 = Hundredths(url, m3, 15)
          /\ u5 = Units(shell, u4, F30) /\ m5 = Hundredths(shell, m4, 30)
          /\ u6 = Units(fsRef, u5, F15) /\ m6 = Hundredths(fsRef, m5, 15)
          /\ u7 = Units(writes, u6, F05) /\ m7 = Hundredths(writes, m6, 5)
    BY <1>1, TextSums
  <1>3. PICK e1 \in {0, 4} :
          /\ m1 = m0 + 5 * e1 /\ m1 \in Nat
          /\ base64 <=> e1 = 4
    <2>1. m0 \in Nat
      BY <1>2
    <2>2. CASE base64
      <3>1. m1 = m0 + 5 * 4 /\ m1 \in Nat /\ 4 \in {0, 4}
        BY <1>2, <2>1, <2>2 DEF Hundredths
      <3> QED BY <2>2, <3>1
    <2>3. CASE ~base64
      <3>1. m1 = m0 + 5 * 0 /\ m1 \in Nat /\ 0 \in {0, 4} /\ 0 # 4
        BY <1>2, <2>1, <2>3 DEF Hundredths
      <3> QED BY <2>3, <3>1
    <2> QED BY <2>2, <2>3
  <1>4. PICK e2 \in {0, 5} :
          /\ m2 = m1 + 5 * e2 /\ m2 \in Nat
          /\ zeroWidth <=> e2 = 5
    <2>1. m1 \in Nat
      BY <1>3
    <2>2. CASE zeroWidth
      <3>1. m2 = m1 + 5 * 5 /\ m2 \in Nat /\ 5 \in {0, 5}
        BY <1>2, <2>1, <2>2 DEF Hundredths
      <3> QED BY <2>2, <3>1
    <2>3. CASE ~zeroWidth
      <3>1. m2 = m1 + 5 * 0 /\ m2 \in Nat /\ 0 \in {0, 5} /\ 0 # 5
        BY <1>2, <2>1, <2>3 DEF Hundredths
      <3> QED BY <2>3, <3>1
    <2> QED BY <2>2, <2>3
  <1>5. PICK e3 \in {0, 3} :
          /\ m3 = m2 + 5 * e3 /\ m3 \in Nat
          /\ encoded <=> e3 = 3
    <2>1. m2 \in Nat
      BY <1>4
    <2>2. CASE encoded
      <3>1. m3 = m2 + 5 * 3 /\ m3 \in Nat /\ 3 \in {0, 3}
        BY <1>2, <2>1, <2>2 DEF Hundredths
      <3> QED BY <2>2, <3>1
    <2>3. CASE ~encoded
      <3>1. m3 = m2 + 5 * 0 /\ m3 \in Nat /\ 0 \in {0, 3} /\ 0 # 3
        BY <1>2, <2>1, <2>3 DEF Hundredths
      <3> QED BY <2>3, <3>1
    <2> QED BY <2>2, <2>3
  <1>6. PICK e4 \in {0, 3} :
          /\ m4 = m3 + 5 * e4 /\ m4 \in Nat
          /\ url <=> e4 = 3
    <2>1. m3 \in Nat
      BY <1>5
    <2>2. CASE url
      <3>1. m4 = m3 + 5 * 3 /\ m4 \in Nat /\ 3 \in {0, 3}
        BY <1>2, <2>1, <2>2 DEF Hundredths
      <3> QED BY <2>2, <3>1
    <2>3. CASE ~url
      <3>1. m4 = m3 + 5 * 0 /\ m4 \in Nat /\ 0 \in {0, 3} /\ 0 # 3
        BY <1>2, <2>1, <2>3 DEF Hundredths
      <3> QED BY <2>3, <3>1
    <2> QED BY <2>2, <2>3
  <1>7. PICK e5 \in {0, 6} :
          /\ m5 = m4 + 5 * e5 /\ m5 \in Nat
          /\ shell <=> e5 = 6
    <2>1. m4 \in Nat
      BY <1>6
    <2>2. CASE shell
      <3>1. m5 = m4 + 5 * 6 /\ m5 \in Nat /\ 6 \in {0, 6}
        BY <1>2, <2>1, <2>2 DEF Hundredths
      <3> QED BY <2>2, <3>1
    <2>3. CASE ~shell
      <3>1. m5 = m4 + 5 * 0 /\ m5 \in Nat /\ 0 \in {0, 6} /\ 0 # 6
        BY <1>2, <2>1, <2>3 DEF Hundredths
      <3> QED BY <2>3, <3>1
    <2> QED BY <2>2, <2>3
  <1>8. PICK e6 \in {0, 3} :
          /\ m6 = m5 + 5 * e6 /\ m6 \in Nat
          /\ fsRef <=> e6 = 3
    <2>1. m5 \in Nat
      BY <1>7
    <2>2. CASE fsRef
      <3>1. m6 = m5 + 5 * 3 /\ m6 \in Nat /\ 3 \in {0, 3}
        BY <1>2, <2>1, <2>2 DEF Hundredths
      <3> QED BY <2>2, <3>1
    <2>3. CASE ~fsRef
      <3>1. m6 = m5 + 5 * 0 /\ m6 \in Nat /\ 0 \in {0, 3} /\ 0 # 3
        BY <1>2, <2>1, <2>3 DEF Hundredths
      <3> QED BY <2>3, <3>1
    <2> QED BY <2>2, <2>3
  <1>9. PICK e7 \in {0, 1} :
          /\ m7 = m6 + 5 * e7 /\ m7 \in Nat
          /\ writes <=> e7 = 1
    <2>1. m6 \in Nat
      BY <1>8
    <2>2. CASE writes
      <3>1. m7 = m6 + 5 * 1 /\ m7 \in Nat /\ 1 \in {0, 1}
        BY <1>2, <2>1, <2>2 DEF Hundredths
      <3> QED BY <2>2, <3>1
    <2>3. CASE ~writes
      <3>1. m7 = m6 + 5 * 0 /\ m7 \in Nat /\ 0 \in {0, 1} /\ 0 # 1
        BY <1>2, <2>1, <2>3 DEF Hundredths
      <3> QED BY <2>3, <3>1
    <2> QED BY <2>2, <2>3
  <1>10. /\ e1 = 0 \/ e1 = 4
         /\ e2 = 0 \/ e2 = 5
         /\ e3 = 0 \/ e3 = 3
         /\ e4 = 0 \/ e4 = 3
         /\ e5 = 0 \/ e5 = 6
         /\ e6 = 0 \/ e6 = 3
         /\ e7 = 0 \/ e7 = 1
    OBVIOUS
  <1>11. /\ e1 \in Nat /\ e2 \in Nat /\ e3 \in Nat /\ e4 \in Nat /\ e5 \in Nat /\ e6 \in Nat
         /\ e7 \in Nat
    BY <1>10
  <1>12. m7 = 5 * (7 * lexical + e1 + e2 + e3 + e4 + e5 + e6 + e7)
    BY <1>2, <1>3, <1>4, <1>5, <1>6, <1>7, <1>8, <1>9, <1>11
  <1>13. \E j \in Nat : m7 = 5 * j
    <2>1. PICK j : j = 7 * lexical + e1 + e2 + e3 + e4 + e5 + e6 + e7
      OBVIOUS
    <2>2. j \in Nat
      BY <1>11, <2>1
    <2> QED BY <1>12, <2>1, <2>2
  <1>14. ASSUME m7 = 50 PROVE u7 = F50
    <2>1. 7 * lexical + e1 + e2 + e3 + e4 + e5 + e6 + e7 = 10
      BY <1>11, <1>12, <1>14
    <2>2. CASE lexical = 0
      <3>1. e1 + e2 + e3 + e4 + e5 + e6 + e7 = 10
        BY <1>11, <2>1, <2>2
      <3>2. CASE e1 = 4 /\ e5 = 6
        <4>1. e2 = 0 /\ e3 = 0 /\ e4 = 0 /\ e6 = 0 /\ e7 = 0
          BY <1>11, <3>1, <3>2
        <4> QED BY <1>2, <1>3, <1>4, <1>5, <1>6, <1>7, <1>8, <1>9, <2>2, <3>2, <4>1,
                FiftySums, SMT DEF Units
      <3>3. CASE e1 = 4 /\ e5 = 0
        <4>1. \/ e2 = 5 /\ e3 = 0 /\ e4 = 0 /\ e6 = 0 /\ e7 = 1
              \/ e2 = 0 /\ e3 = 3 /\ e4 = 3 /\ e6 = 0 /\ e7 = 0
              \/ e2 = 0 /\ e3 = 3 /\ e4 = 0 /\ e6 = 3 /\ e7 = 0
              \/ e2 = 0 /\ e3 = 0 /\ e4 = 3 /\ e6 = 3 /\ e7 = 0
          BY <1>10, <3>1, <3>3, SMT
        <4> QED BY <1>2, <1>3, <1>4, <1>5, <1>6, <1>7, <1>8, <1>9, <2>2, <3>3, <4>1,
                FiftySums, SMT DEF Units
      <3>4. CASE e1 = 0 /\ e5 = 6
        <4>1. \/ e2 = 0 /\ e3 = 3 /\ e4 = 0 /\ e6 = 0 /\ e7 = 1
              \/ e2 = 0 /\ e3 = 0 /\ e4 = 3 /\ e6 = 0 /\ e7 = 1
              \/ e2 = 0 /\ e3 = 0 /\ e4 = 0 /\ e6 = 3 /\ e7 = 1
          BY <1>10, <3>1, <3>4, SMT
        <4> QED BY <1>2, <1>3, <1>4, <1>5, <1>6, <1>7, <1>8, <1>9, <2>2, <3>4, <4>1,
                FiftySums, SMT DEF Units
      <3>5. CASE e1 = 0 /\ e5 = 0
        <4>1. e2 = 0 /\ e3 = 3 /\ e4 = 3 /\ e6 = 3 /\ e7 = 1
          BY <1>10, <3>1, <3>5, SMT
        <4> QED BY <1>2, <1>3, <1>4, <1>5, <1>6, <1>7, <1>8, <1>9, <2>2, <3>5, <4>1,
                FiftySums, SMT DEF Units
      <3> QED BY <1>10, <3>2, <3>3, <3>4, <3>5
    <2>3. CASE lexical = 1
      <3>1. e1 + e2 + e3 + e4 + e5 + e6 + e7 = 3
        BY <1>11, <2>1, <2>3
      <3>2. /\ e1 = 0 /\ e2 = 0 /\ e5 = 0 /\ e7 = 0
            /\ \/ e3 = 3 /\ e4 = 0 /\ e6 = 0
               \/ e3 = 0 /\ e4 = 3 /\ e6 = 0
               \/ e3 = 0 /\ e4 = 0 /\ e6 = 3
        BY <1>10, <3>1, SMT
      <3> QED BY <1>2, <1>3, <1>4, <1>5, <1>6, <1>7, <1>8, <1>9, <2>3, <3>2,
             FiftySums, SMT DEF Units
    <2>4. lexical = 0 \/ lexical = 1
      BY <1>11, <2>1
    <2> QED BY <2>2, <2>3, <2>4
  <1> QED BY <1>2, <1>13, <1>14

\* A sum is on the same side of 0.5 and of 0.85 in f32 as it is meant, but that may be
\* 0.85 itself.
LEMMA ScoreFits ==
  ASSUME NEW text \in Texts
  PROVE  /\ (Score(text) >= F50) <=> (MeantScore(text) >= 50)
         /\ MeantScore(text) # 85 => ((Score(text) >= F85) <=> (MeantScore(text) >= 85))
  <1>1. PICK a, b : a = Sums(text)[1] /\ b = Sums(text)[2]
    OBVIOUS
  <1>2. /\ \E j \in Nat : b = 5 * j
        /\ b = 50 => a = F50
    BY <1>1, FiftyIsHalf
  <1>3. PICK k \in 0..16 : Near(Sums(text), k)
    BY TextSums
  <1>4. /\ a \in Nat /\ b \in Nat
        /\ 25 * a <= 67108864 * b + 28800 /\ 67108864 * b <= 25 * a + 28800
    <2>1. /\ a \in Nat /\ b \in Nat
      BY <1>1, <1>3 DEF Near, Amounts
    <2>2. 25 * a <= 67108864 * b + 1800 * k /\ 67108864 * b <= 25 * a + 1800 * k
      BY <1>1, <1>3, SMT DEF Near
    <2> QED BY <2>1, <2>2, SMT
  <1>5. PICK j \in Nat : b = 5 * j
    BY <1>2
  <1>6. (a >= 134217728) <=> (b >= 50)
    BY <1>2, <1>4, <1>5, SMT DEF F50
  <1>7. b # 85 => ((a >= 228170144) <=> (b >= 85))
    BY <1>4, <1>5, SMT
  <1>8. 2^28 = 268435456
    BY SMT
  <1>9. /\ Score(text) = IF a < 268435456 THEN a ELSE 268435456
        /\ MeantScore(text) = IF b < 100 THEN b ELSE 100
    BY <1>1, <1>8, SMT DEF Score, MeantScore, AtMost, One
  <1>10. F50 = 134217728 /\ F85 = 228170144
    BY SMT DEF F50, F85
  <1> QED BY <1>4, <1>6, <1>7, <1>9, <1>10, SMT

\* Rounding never changes what the guardrail does: an injection score, whichever
\* patterns it is added up from and in f32, is on the same side of 0.5 and of 0.85 as
\* the sum that is meant, unless that is 0.85 itself (inspect_tool_description).
THEOREM RoundingTheorem == Spec => []RoundingHarmless
  <1>1. Flipped = {}
    BY ScoreFits DEF Flipped
  <1>2. RoundingHarmless
    BY <1>1 DEF RoundingHarmless
  <1> QED BY <1>2, PTL
=============================================================================
