------------------------------ MODULE MCIntake ------------------------------
(* Intake for TLC: one rule set the owner signs, a directory with good and  *)
(* with broken files, bundles changed after signing, and tools that change. *)
EXTENDS Intake

CONSTANT s1

OneSession == {s1}

MCFields == {"tool", "user"}

Quiet == [lexical |-> 0, base64 |-> FALSE, zeroWidth |-> FALSE, encoded |-> FALSE,
          url |-> FALSE, shell |-> FALSE, fsRef |-> FALSE, writes |-> FALSE]
Loud == [Quiet EXCEPT !.lexical = 1, !.zeroWidth = TRUE]

Call(tool, text, external) ==
  [fields |-> [f \in MCFields |-> IF f = "tool" THEN tool ELSE "alice"],
   path |-> <<"">>, external |-> external,
   evidence |-> [paths |-> {}, shell |-> FALSE, sql |-> FALSE, net |-> FALSE,
                 secret |-> FALSE, inline |-> FALSE, text |-> text]]

\* A call with nothing in it, and one that takes instructions from the web out.
MCCalls == {Call("echo", Quiet, FALSE), Call("http_fetch", Loud, TRUE)}

Rule(action, when) == [action |-> action, when |-> when]
Tool(name) == [field |-> "tool", among |-> {name}]

\* Calls pass while the session is slow or the hour is right.
Slow    == <<Rule("DENY", {[rate |-> 2]}), Rule("ALLOW", {Tool("echo")})>>
ByNight == <<Rule("ALLOW", {Tool("echo"), [from |-> 2, until |-> 1]}),
             Rule("WARN", {[rate |-> 1]}),
             Rule("DENY", {[garbled |-> "path_prefix"]})>>

\* policy/network/base.yaml
Shipped == <<Rule("DENY", {[taint |-> "SECRET"], [destination |-> "external_network"]}),
             Rule("DENY", {[taint |-> "UNTRUSTED_WEB"], [destination |-> "external_network"]}),
             Rule("WARN", {Tool("http_fetch")})>>

File(r) == [readable |-> TRUE, rules |-> r]
Broken == [readable |-> FALSE, rules |-> <<>>]

MCRuleSets == {Slow}
MCDirs == {<<File(ByNight), File(Slow)>>, <<File(ByNight), Broken>>}
ShippedDir == {<<File(Shipped)>>}

\* Rules exchanged after signing, and signed with another key.
MCBundles ==
  {[SignedBy("owner", Slow) EXCEPT !.rules = Shipped],
   SignedBy("other", Shipped)}

Config(required, bundle, key) ==
  [required |-> required, bundle |-> bundle, key |-> key, sane |-> TRUE]

Unset == <<>>
Plain == Config(FALSE, FALSE, NoKey)
SignedFlags == [required |-> TRUE, bundle |-> TRUE, key |-> "owner"]

\* A demand in the file that the environment completes, flags over a file that is not
\* valid and over one that is, an environment without a file, and a bundle that is
\* taken if it can be verified.
MCSettings ==
  {[file |-> <<Config(TRUE, TRUE, NoKey)>>, env |-> [key |-> "owner"], flags |-> Unset],
   [file |-> <<Config(TRUE, TRUE, NoKey)>>, env |-> Unset, flags |-> SignedFlags],
   [file |-> <<Plain>>, env |-> Unset, flags |-> SignedFlags],
   [file |-> <<>>, env |-> SignedFlags, flags |-> Unset],
   [file |-> <<Config(FALSE, TRUE, "owner")>>, env |-> Unset, flags |-> Unset]}
NoBundle == {[file |-> <<Plain>>, env |-> Unset, flags |-> Unset]}

Def(schema, description) == [tool |-> "read", schema |-> schema, description |-> description]

MCLists == {<<Def("a", "x"), Def("a", "y")>>, <<Def("b", "x")>>}
=============================================================================
