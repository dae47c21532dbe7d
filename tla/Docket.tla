------------------------------- MODULE Docket -------------------------------
(***************************************************************************)
(* What raising incidents promises: one docket, numbered from 1 without    *)
(* gaps.  An entry is filed for a call that was denied as dangerous, at    *)
(* most one for each, by the party that inspected the call.  It says what  *)
(* the newest evidence amounted to at one moment after the denial, and     *)
(* goes on saying so; only its standing changes, and only in the hands of  *)
(* operators.  There are no statements, counts or refused numbers here:    *)
(* Incidents is the code that has to keep this promise.                    *)
(***************************************************************************)
EXTENDS Naturals, Sequences

CONSTANTS
  Parties,      \* who inspects calls
  Events,       \* what one event can say
  Severity(_),  \* what a set of events amounts to, "none" for nothing
  Recent,       \* events that are looked at
  Standings     \* what operators make of an entry, which is "OPEN" when filed

VARIABLES
  evidence,  \* the events so far, oldest first
  denied,    \* parties with a denial whose evidence they have not yet looked at
  finding,   \* for each party what it has found and not yet filed
  docket,    \* the entries
  standing   \* the standing of each entry

vars == <<evidence, denied, finding, docket, standing>>

Nothing == <<>>

NewestOf(n) == {evidence[i] : i \in {j \in DOMAIN evidence : j + n > Len(evidence)}}

Init ==
  /\ evidence = <<>>
  /\ denied = {}
  /\ finding = [p \in Parties |-> Nothing]
  /\ docket = <<>>
  /\ standing = <<>>

Record(e) ==
  /\ evidence' = Append(evidence, e)
  /\ UNCHANGED <<denied, finding, docket, standing>>

Deny(p) ==
  /\ p \notin denied
  /\ finding[p] = Nothing
  /\ denied' = denied \cup {p}
  /\ UNCHANGED <<evidence, finding, docket, standing>>

Assess(p) ==
  /\ p \in denied
  /\ Severity(NewestOf(Recent)) # "none"
  /\ denied' = denied \ {p}
  /\ finding' = [finding EXCEPT ![p] = <<Severity(NewestOf(Recent)), Len(evidence)>>]
  /\ UNCHANGED <<evidence, docket, standing>>

File(p) ==
  /\ finding[p] # Nothing
  /\ docket' = Append(docket, [number |-> Len(docket) + 1, finding |-> finding[p], by |-> p])
  /\ standing' = Append(standing, "OPEN")
  /\ finding' = [finding EXCEPT ![p] = Nothing]
  /\ UNCHANGED <<evidence, denied>>

\* The evidence amounts to nothing, or what was found is lost.
Drop(p) ==
  /\ denied' = denied \ {p}
  /\ finding' = [finding EXCEPT ![p] = Nothing]
  /\ UNCHANGED <<evidence, docket, standing>>

Triage(i, s) ==
  /\ standing' = [standing EXCEPT ![i] = s]
  /\ UNCHANGED <<evidence, denied, finding, docket>>

Next ==
  \/ \E e \in Events : Record(e)
  \/ \E p \in Parties : Deny(p) \/ Assess(p) \/ File(p) \/ Drop(p)
  \/ \E i \in DOMAIN standing, s \in Standings : Triage(i, s)

Spec == Init /\ [][Next]_vars
=============================================================================
