----------------------------- MODULE Incidents -----------------------------
(***************************************************************************)
(* Raising incidents.  At the end of inspect_tool_call a gateway task      *)
(* appends the events of its call to the audit log; if the call was denied *)
(* at a high risk it reads the newest events of the whole log, whoever     *)
(* wrote them, and correlates them (correlate_incident).  create_incident  *)
(* then counts the incidents under one lock and inserts number count + 1   *)
(* under another; the number is the primary key.  Tasks and processes on   *)
(* the same file interleave between all of these, and operators set the    *)
(* status of incidents meanwhile.                                          *)
(***************************************************************************)
EXTENDS Naturals, Sequences

CONSTANTS
  Workers,      \* gateway tasks, of any process on the file
  Cases,        \* what inspected calls may be like
  Window,       \* events read for the correlation: 10 in the code
  MaxCalls,     \* bound: calls inspected
  MaxTriages,   \* bound: status changes
  Faults        \* what may fail: "append", "list", "count", "insert"

ASSUME IncidentsAssumption ==
  /\ Cases \subseteq [injected : BOOLEAN, tainted : BOOLEAN,
                      egress : BOOLEAN, grave : BOOLEAN]
  /\ Window \in Nat
  /\ MaxCalls \in Nat
  /\ MaxTriages \in Nat
  /\ Faults \subseteq {"append", "list", "count", "insert"}

VARIABLES
  log,        \* the events table, as far as correlation looks at it
  incidents,  \* the incidents table, in rowid order
  raiser,     \* where each worker stands
  calls,      \* calls inspected so far
  triages     \* status changes so far

vars == <<log, incidents, raiser, calls, triages>>

-----------------------------------------------------------------------------
(* The log *)

EventKinds == {"VERDICT", "INJECTION_DETECTED", "TAINT_PROPAGATED"}

\* tainted: the event's list of taints is not empty; egress: the tool is a
\* fetch, an upload or the like.
Event == [kind : EventKinds, tainted : BOOLEAN, egress : BOOLEAN]

EventsOf(case) ==
  <<"VERDICT">>
    \o (IF case.injected THEN <<"INJECTION_DETECTED">> ELSE <<>>)
    \o (IF case.tainted THEN <<"TAINT_PROPAGATED">> ELSE <<>>)

\* Positions of the n newest of the first `seen` events.
Newest(n, seen) == {i \in 1..seen : i + n > seen}

Severities == {"none", "HIGH", "CRITICAL"}

\* correlate_incident.
SeverityOf(events) ==
  LET injection == \E e \in events : e.kind = "INJECTION_DETECTED"
      taint     == \E e \in events : e.tainted
      egress    == \E e \in events : e.egress
  IN  IF injection /\ taint
      THEN IF egress THEN "CRITICAL" ELSE "HIGH"
      ELSE "none"

\* The same on the events at positions S.
Correlation(S) == SeverityOf({log[i] : i \in S})

-----------------------------------------------------------------------------
(* The incidents table *)

Statuses == {"OPEN", "ACKNOWLEDGED", "MITIGATED", "RESOLVED", "FALSE_POSITIVE"}

\* seen is the length of the log when it was correlated: the row names the five
\* newest events of that moment.  by is history: the worker that raised it.
Incident == [id : Nat, severity : Severities \ {"none"}, seen : Nat,
             status : Statuses, by : Workers]

IdsInUse == {incidents[i].id : i \in DOMAIN incidents}

-----------------------------------------------------------------------------
(* Workers *)

RaiserStages == {"idle", "append", "list", "count", "insert"}

NoCase == [injected |-> FALSE, tainted |-> FALSE, egress |-> FALSE, grave |-> FALSE]

RaiserState ==
  [at : RaiserStages,
   case : Cases \cup {NoCase},
   todo : Seq(EventKinds),     \* events still to be appended
   severity : Severities,
   seen : Nat,
   id : Nat]

NotRaising == [at |-> "idle", case |-> NoCase, todo |-> <<>>,
               severity |-> "none", seen |-> 0, id |-> 0]

Rests(w) == raiser' = [raiser EXCEPT ![w] = NotRaising]

\* The verdict is there, and the events are due.
Conclude(w, case) ==
  /\ raiser[w].at = "idle"
  /\ calls < MaxCalls
  /\ calls' = calls + 1
  /\ raiser' = [raiser EXCEPT ![w] =
       [NotRaising EXCEPT !.at = "append", !.case = case, !.todo = EventsOf(case)]]
  /\ UNCHANGED <<log, incidents, triages>>

\* One append; its result is thrown away.
AppendEvent(w) ==
  /\ raiser[w].at = "append"
  /\ raiser[w].todo # <<>>
  /\ \/ log' = Append(log, [kind    |-> Head(raiser[w].todo),
                            tainted |-> raiser[w].case.tainted,
                            egress  |-> raiser[w].case.egress])
     \/ "append" \in Faults /\ UNCHANGED log
  /\ raiser' = [raiser EXCEPT ![w].todo = Tail(raiser[w].todo)]
  /\ UNCHANGED <<incidents, calls, triages>>

\* verdict.decision == Deny && verdict.risk_score >= 0.7
LogDone(w) ==
  /\ raiser[w].at = "append"
  /\ raiser[w].todo = <<>>
  /\ IF raiser[w].case.grave
     THEN raiser' = [raiser EXCEPT ![w].at = "list"]
     ELSE Rests(w)
  /\ UNCHANGED <<log, incidents, calls, triages>>

\* list_events(10), then correlate_incident.
List(w) ==
  /\ raiser[w].at = "list"
  /\ LET severity == Correlation(Newest(Window, Len(log)))
     IN  IF severity = "none" THEN Rests(w)
         ELSE raiser' = [raiser EXCEPT ![w].at = "count", ![w].severity = severity,
                                       ![w].seen = Len(log)]
  /\ UNCHANGED <<log, incidents, calls, triages>>

\* unwrap_or_default: no events, no incident.
ListFails(w) ==
  /\ "list" \in Faults
  /\ raiser[w].at = "list"
  /\ Rests(w)
  /\ UNCHANGED <<log, incidents, calls, triages>>

\* SELECT COUNT(*), and 0 if that fails.
Count(w) ==
  /\ raiser[w].at = "count"
  /\ \E count \in {Len(incidents)} \cup (IF "count" \in Faults THEN {0} ELSE {}) :
       raiser' = [raiser EXCEPT ![w].at = "insert", ![w].id = count + 1]
  /\ UNCHANGED <<log, incidents, calls, triages>>

NewIncident(w) ==
  [id |-> raiser[w].id, severity |-> raiser[w].severity, seen |-> raiser[w].seen,
   status |-> "OPEN", by |-> w]

\* Faulty variant of Insert: without the primary key.
InsertAnyway(w) ==
  /\ raiser[w].at = "insert"
  /\ incidents' = Append(incidents, NewIncident(w))
  /\ Rests(w)
  /\ UNCHANGED <<log, calls, triages>>

\* Faulty variant of Insert: INSERT OR REPLACE.
InsertOrReplace(w) ==
  /\ raiser[w].at = "insert"
  /\ incidents' = IF raiser[w].id \in IdsInUse
                  THEN [incidents EXCEPT ![raiser[w].id] = NewIncident(w)]
                  ELSE Append(incidents, NewIncident(w))
  /\ Rests(w)
  /\ UNCHANGED <<log, calls, triages>>

\* Faulty variant of Insert: after a success the same worker inserts once more.
InsertTwice(w) ==
  /\ raiser[w].at = "insert"
  /\ IF raiser[w].id \in IdsInUse
     THEN Rests(w) /\ UNCHANGED incidents
     ELSE UNCHANGED raiser /\ incidents' = Append(incidents, NewIncident(w))
  /\ UNCHANGED <<log, calls, triages>>

\* INSERT; it is refused if the number is taken or the statement fails, and the
\* caller throws the error away.
Insert(w) ==
  /\ raiser[w].at = "insert"
  /\ \/ /\ raiser[w].id \notin IdsInUse
        /\ incidents' = Append(incidents, NewIncident(w))
     \/ /\ raiser[w].id \in IdsInUse \/ "insert" \in Faults
        /\ UNCHANGED incidents
  /\ Rests(w)
  /\ UNCHANGED <<log, calls, triages>>

-----------------------------------------------------------------------------
(* Operators *)

\* Faulty variant of SetStatus: any word is a status.
SetAnyStatus(i, status) ==
  /\ triages < MaxTriages
  /\ triages' = triages + 1
  /\ \E word \in {status, "CLOSED"} :
       incidents' = [incidents EXCEPT ![i].status = word]
  /\ UNCHANGED <<log, raiser, calls>>

\* set_incident_status: any of the five statuses, for any incident that is there.
SetStatus(i, status) ==
  /\ triages < MaxTriages
  /\ triages' = triages + 1
  /\ incidents' = [incidents EXCEPT ![i].status = status]
  /\ UNCHANGED <<log, raiser, calls>>

-----------------------------------------------------------------------------
Init ==
  /\ log = <<>>
  /\ incidents = <<>>
  /\ raiser = [w \in Workers |-> NotRaising]
  /\ calls = 0
  /\ triages = 0

Next ==
  \/ \E w \in Workers :
       \/ \E case \in Cases : Conclude(w, case)
       \/ AppendEvent(w) \/ LogDone(w)
       \/ List(w) \/ ListFails(w)
       \/ Count(w) \/ Insert(w)
  \/ \E i \in DOMAIN incidents, status \in Statuses : SetStatus(i, status)

Spec == Init /\ [][Next]_vars

-----------------------------------------------------------------------------
(* Properties *)

IncidentTypeOK ==
  /\ log \in Seq(Event)
  /\ incidents \in Seq(Incident)
  /\ raiser \in [Workers -> RaiserState]
  /\ calls \in 0..MaxCalls
  /\ triages \in 0..MaxTriages

\* "Created incidents get sequential IDs" (INCIDENTS_APPROVALS.md): whatever
\* counts are stale or fail and whatever inserts are refused, the numbers in the
\* table are 1, 2, 3 ... without gap or repetition (create_incident).
SequentialIds == \A i \in DOMAIN incidents : incidents[i].id = i

\* An incident is lost to a taken number only through a race: the incident that
\* has the number was raised by another worker since this one counted.
OnlyOthersTakeTheId ==
  \A w \in Workers :
    raiser[w].at = "insert" /\ raiser[w].id \in IdsInUse
      => \E i \in DOMAIN incidents : incidents[i].id = raiser[w].id /\ incidents[i].by # w

-----------------------------------------------------------------------------
(* The docket that is kept *)

\* Workers with a denial whose evidence they have not yet read.
Denials == {w \in Workers : raiser[w].at \in {"append", "list"} /\ raiser[w].case.grave}

\* What each worker has read from the log and not yet inserted.
Unfiled ==
  [w \in Workers |->
     IF raiser[w].at \in {"count", "insert"}
     THEN <<raiser[w].severity, raiser[w].seen>> ELSE <<>>]

Entries ==
  [i \in DOMAIN incidents |->
     [number |-> incidents[i].id, finding |-> <<incidents[i].severity, incidents[i].seen>>,
      by |-> incidents[i].by]]

Standings == [i \in DOMAIN incidents |-> incidents[i].status]

Kept == INSTANCE Docket
  WITH Parties <- Workers, Events <- Event, Severity <- SeverityOf, Recent <- Window,
       Standings <- Statuses,
       evidence <- log, denied <- Denials, finding <- Unfiled, docket <- Entries,
       standing <- Standings

\* The events, the counts and the refused inserts of several workers come to one
\* docket: each denial at a high risk leaves at most one incident, with the next
\* number and what the log said at one moment after the denial, and no incident is
\* changed or taken back by raising another, also when two workers computed the same
\* number (inspect_tool_call, correlate_incident, create_incident,
\* set_incident_status).
ImplementsDocket == Kept!Spec
=============================================================================
