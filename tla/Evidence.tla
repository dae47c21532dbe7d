------------------------------ MODULE Evidence ------------------------------
(***************************************************************************)
(* The deterministic detectors of crates/aegis-security, as far as they    *)
(* compute something, and the risk and the taints inspect_tool_call makes  *)
(* of what they find.                                                      *)
(*                                                                         *)
(* Scores are sums of 32-bit floating point numbers.  A number is counted  *)
(* in units of 2^-28, which all the weights are multiples of.              *)
(***************************************************************************)
EXTENDS Integers, SequencesExt

-----------------------------------------------------------------------------
(* Numbers: the f32 that is nearest to a decimal *)

One == 2^28
F05 == 13421773
F15 == 40265320
F20 == 53687092
F25 == 67108864
F30 == 80530640
F35 == 93952408
F50 == 134217728
F85 == 228170144
F90 == 241591904

\* The distance of neighbouring numbers around n: 24 binary digits are kept.
Ulp(n) ==
  LET large == {k \in 0..7 : n >= 2^(23 + k)}
  IN  IF large = {} THEN 1 ELSE 2^(Cardinality(large) - 1)

\* Faulty variant of Rounded: towards zero.
RoundedDown(n) == n - (n % Ulp(n))

\* The nearest number, and of two the one with an even last digit.
Rounded(n) ==
  LET rest == n % Ulp(n)
      below == n - rest
      odd == (below \div Ulp(n)) % 2 = 1
  IN  IF 2 * rest > Ulp(n) \/ (2 * rest = Ulp(n) /\ odd) THEN below + Ulp(n) ELSE below

Plus(a, b) == Rounded(a + b)

-----------------------------------------------------------------------------
(* inspect_tool_description: a text is what its patterns find in it *)

Patterns == 0..9   \* how many of the nine lexical ones

Texts == [lexical : Patterns, base64 : BOOLEAN, zeroWidth : BOOLEAN, encoded : BOOLEAN,
          url : BOOLEAN, shell : BOOLEAN, fsRef : BOOLEAN, writes : BOOLEAN]

\* The weights of what is found, in the order they are added: in units, and in
\* hundredths.
Weights(text) ==
  LET if(found, weight) == IF found THEN <<weight>> ELSE <<>>
  IN  [i \in 1..text.lexical |-> <<F35, 35>>]
      \o if(text.base64, <<F20, 20>>)
      \o if(text.zeroWidth, <<F25, 25>>)
      \o if(text.encoded, <<F15, 15>>)
      \o if(text.url, <<F15, 15>>)
      \o if(text.shell, <<F30, 30>>)
      \o if(text.fsRef, <<F15, 15>>)
      \o if(text.writes, <<F05, 5>>)

AtMost(n, limit) == IF n < limit THEN n ELSE limit

\* The sum as the code makes it, and as it is meant, in hundredths.
Sums(text) ==
  FoldLeft(LAMBDA sums, weight : <<Plus(sums[1], weight[1]), sums[2] + weight[2]>>,
           <<0, 0>>, Weights(text))

Score(text) == AtMost(Sums(text)[1], One)

MeantScore(text) == AtMost(Sums(text)[2], 100)

-----------------------------------------------------------------------------
(* inspect_filesystem, for the workspace "./workspace".  A path is its         *)
(* components; `absolute` says that it has the form of an absolute path, of    *)
(* this system or another, and `rooted` that it starts with "/".  No name has  *)
(* ".." in it.                                                                 *)

Workspace == <<"workspace">>
SensitiveNames == {".env"}

\* Faulty variant of Normalized: what leads out of the start is left out.
NormalizedInside(parts) ==
  FoldLeft(LAMBDA done, part :
             IF part = "." THEN done
             ELSE IF part # ".." THEN Append(done, part)
             ELSE IF done = <<>> THEN <<>>
             ELSE Front(done),
           <<>>, parts)

\* lexical_normalize: ".." takes back the component before it, whatever that is,
\* also a ".." that is left.
Normalized(parts) ==
  FoldLeft(LAMBDA done, part :
             IF part = "." THEN done
             ELSE IF part # ".." THEN Append(done, part)
             ELSE IF done = <<>> THEN <<"..">>
             ELSE Front(done),
           <<>>, parts)

\* A rooted path starts with "/" also when it is normalized, and is under no
\* relative workspace.
UnderWorkspace(path, parts) == ~path.rooted /\ IsPrefix(Workspace, parts)

PathAllowed(path) ==
  LET normalized == Normalized(path.parts)
      joined == IF path.absolute THEN normalized ELSE Workspace \o normalized
  IN  /\ path.absolute => UnderWorkspace(path, normalized)
      /\ ".." \notin Range(normalized)
      /\ SensitiveNames \cap Range(normalized) = {}
      /\ UnderWorkspace(path, Normalized(joined))

-----------------------------------------------------------------------------
(* inspect_tool_call: what the findings of a call come to.  The evidence is its  *)
(* paths, the answers of the other detectors, whether it is just an address, and *)
(* its text.                                                                     *)

Paths == [absolute : BOOLEAN, rooted : BOOLEAN, parts : Seq(STRING)]

Evidences == [paths : SUBSET Paths, shell : BOOLEAN, sql : BOOLEAN, net : BOOLEAN,
              secret : BOOLEAN, inline : BOOLEAN, text : Texts]

MaxOf(S) == CHOOSE n \in S : \A k \in S : k <= n

OutOfBounds(evidence) == \E path \in evidence.paths : ~PathAllowed(path)

\* What may have been found, and the risk each finding stands for.
Findings(evidence) ==
  {[found |-> OutOfBounds(evidence), risk |-> F90],
   [found |-> evidence.shell, risk |-> F90],
   [found |-> evidence.net, risk |-> F90],
   [found |-> evidence.sql, risk |-> F85],
   [found |-> evidence.secret, risk |-> F50],
   [found |-> Score(evidence.text) >= F50, risk |-> Score(evidence.text)]}

Risk(evidence) ==
  MaxOf({0} \cup {f.risk : f \in {g \in Findings(evidence) : g.found}})

\* The kinds of the labels that are made.  None is inherited: nothing in the program
\* puts a value into the gateway's taint store.
Kinds(evidence) ==
  (IF OutOfBounds(evidence) THEN {"SENSITIVE_DATA"} ELSE {})
  \cup (IF evidence.secret THEN {"SECRET"} ELSE {})
  \cup (IF Score(evidence.text) >= F50 \/ evidence.inline THEN {"UNTRUSTED_WEB"} ELSE {})
-----------------------------------------------------------------------------
(* What the detectors' answers are checked against *)

\* The guardrail takes another branch than it would with the sum that is meant, for a
\* text whose sum is not 0.85 itself.
Flipped ==
  {text \in Texts :
     \/ (Score(text) >= F50) # (MeantScore(text) >= 50)
     \/ MeantScore(text) # 85 /\ (Score(text) >= F85) # (MeantScore(text) >= 85)}

MaxParts == 5   \* bound: components of a path

RelativePaths == BoundedSeq({"..", ".", "workspace", "a", ".env"}, MaxParts)

\* A walk along parts: where it leads from a place, whose components are `from`.
Walk(from, parts) ==
  FoldLeft(LAMBDA at, part :
             IF part = "." THEN at
             ELSE IF part # ".." THEN Append(at, part)
             ELSE Front(at),
           from, parts)

\* The workspace, so deep in a file system that no walk of n steps leaves that.
Home(n) == [i \in 1..n |-> "dir"] \o Workspace

Place(parts) == Walk(Home(Len(parts)), parts)

\* How far above the workspace the walk comes.
Climb(parts) ==
  LET home == Home(Len(parts))
  IN  MaxOf({Len(home) - Len(Walk(home, SubSeq(parts, 1, k))) : k \in 0..Len(parts)})

\* A path is let pass if it leads to no sensitive name and stays in the workspace
\* throughout, or climbs an even number of levels out of it, for two ".." that are
\* left cancel.
JudgedByPlace(parts) ==
  PathAllowed([rooted |-> FALSE, absolute |-> FALSE, parts |-> parts])
    <=> Climb(parts) % 2 = 0 /\ SensitiveNames \cap Range(Place(parts)) = {}

Misjudged == {parts \in RelativePaths : ~JudgedByPlace(parts)}
=============================================================================
