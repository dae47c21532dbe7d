-------------------------- MODULE IncidentsProofs --------------------------
(***************************************************************************)
(* Theorems about incidents, for any workers, kinds of calls, windows and  *)
(* bounds, and with all faults unless a theorem says otherwise.            *)
(***************************************************************************)
EXTENDS Incidents, SequenceTheorems, TLAPS

-----------------------------------------------------------------------------
(***************************************************************************)
(* The inductive invariant.  A number is refused only when it is at most   *)
(* the length of the table, because a count never exceeds the length; so   *)
(* the numbers have no gap.  What a worker is about to insert has a        *)
(* severity, because it went on only after a finding.                      *)
(***************************************************************************)
RaiserFits(r) ==
  /\ r.at = "list" => r.case.grave
  /\ r.at \in {"count", "insert"} => r.severity # "none"
  /\ r.at = "insert" => r.id \in 1..(Len(incidents) + 1)

RaisersFit == \A w \in Workers : RaiserFits(raiser[w])

IncidentInv ==
  /\ IncidentTypeOK
  /\ SequentialIds
  /\ RaisersFit

-----------------------------------------------------------------------------
(* The log *)

\* correlate_incident answers with a severity.
LEMMA CorrelationType ==
  ASSUME NEW S PROVE Correlation(S) \in Severities
  BY DEF Correlation, SeverityOf, Severities

\* The events of a call.
LEMMA EventsOfType ==
  ASSUME NEW case \in Cases PROVE EventsOf(case) \in Seq(EventKinds)
  <1>1. /\ <<"VERDICT">> \in Seq(EventKinds)
        /\ (IF case.injected THEN <<"INJECTION_DETECTED">> ELSE <<>>) \in Seq(EventKinds)
        /\ (IF case.tainted THEN <<"TAINT_PROPAGATED">> ELSE <<>>) \in Seq(EventKinds)
    <2>1. /\ "VERDICT" \in EventKinds /\ "INJECTION_DETECTED" \in EventKinds
          /\ "TAINT_PROPAGATED" \in EventKinds
      BY DEF EventKinds
    <2> QED BY <2>1
  <1> QED BY <1>1 DEF EventsOf

\* Event kinds and the marks of a case make an event.
LEMMA EventType ==
  ASSUME NEW kind \in EventKinds, NEW case \in Cases \cup {NoCase}
  PROVE  [kind |-> kind, tainted |-> case.tainted, egress |-> case.egress] \in Event
  <1>1. case.tainted \in BOOLEAN /\ case.egress \in BOOLEAN
    <2>1. CASE case \in Cases
      <3>1. case \in [injected : BOOLEAN, tainted : BOOLEAN,
                      egress : BOOLEAN, grave : BOOLEAN]
        BY <2>1, IncidentsAssumption
      <3> QED BY <3>1
    <2>2. CASE case = NoCase
      BY <2>2 DEF NoCase
    <2> QED BY <2>1, <2>2
  <1> QED BY <1>1 DEF Event

\* A worker at rest is well typed and holds nothing.
LEMMA NotRaisingFits == NotRaising \in RaiserState /\ RaiserFits(NotRaising)
  <1>1. <<>> \in Seq(EventKinds)
    OBVIOUS
  <1> QED
    BY <1>1 DEF NotRaising, RaiserState, RaiserStages, Severities, RaiserFits

-----------------------------------------------------------------------------
(* Steps *)

\* A step that only moves worker w on.
LEMMA RaiserMoves ==
  ASSUME IncidentInv, NEW w \in Workers, NEW r \in RaiserState, RaiserFits(r),
         raiser' = [raiser EXCEPT ![w] = r],
         UNCHANGED <<log, incidents, triages>>, calls' \in 0..MaxCalls
  PROVE  IncidentInv'
  <1>1. IncidentTypeOK'
    BY DEF IncidentInv, IncidentTypeOK
  <1>2. SequentialIds'
    BY DEF IncidentInv, SequentialIds
  <1>3. ASSUME NEW v \in Workers PROVE RaiserFits(raiser[v])'
    <2>1. raiser'[v] \in {r, raiser[v]}
      BY DEF IncidentInv, IncidentTypeOK
    <2>2. RaiserFits(r)' /\ (RaiserFits(raiser[v]) => RaiserFits(raiser'[v]) \/ raiser'[v] = r)
      BY <2>1 DEF RaiserFits
    <2>3. RaiserFits(raiser[v])
      BY DEF IncidentInv, RaisersFit
    <2> QED BY <2>1, <2>2, <2>3 DEF RaiserFits
  <1> QED BY <1>1, <1>2, <1>3 DEF IncidentInv, RaisersFit

\* A verdict is there.
LEMMA IncConclude ==
  ASSUME IncidentInv, NEW w \in Workers, NEW case \in Cases, Conclude(w, case)
  PROVE  IncidentInv'
  <1> DEFINE r == [NotRaising EXCEPT !.at = "append", !.case = case,
                                     !.todo = EventsOf(case)]
  <1>1. r \in RaiserState /\ RaiserFits(r)
    BY EventsOfType, NotRaisingFits
       DEF RaiserState, RaiserStages, RaiserFits, NotRaising
  <1>2. calls' \in 0..MaxCalls
    BY IncidentsAssumption DEF Conclude, IncidentInv, IncidentTypeOK
  <1> QED BY <1>1, <1>2, RaiserMoves DEF Conclude

\* The decision whether to correlate, a failed read, and the read itself.
LEMMA IncReads ==
  ASSUME IncidentInv, NEW w \in Workers, LogDone(w) \/ List(w) \/ ListFails(w)
  PROVE  IncidentInv'
  <1>1. raiser \in [Workers -> RaiserState] /\ raiser[w] \in RaiserState
        /\ calls \in 0..MaxCalls /\ Len(log) \in Nat
    BY DEF IncidentInv, IncidentTypeOK
  <1>2. calls' \in 0..MaxCalls /\ UNCHANGED <<log, incidents, triages>>
    BY <1>1 DEF LogDone, List, ListFails
  <1>3. CASE Rests(w)
    BY <1>2, <1>3, NotRaisingFits, RaiserMoves DEF Rests
  <1>4. CASE raiser[w].case.grave /\ raiser' = [raiser EXCEPT ![w].at = "list"]
    <2> DEFINE r == [raiser[w] EXCEPT !.at = "list"]
    <2>1. r \in RaiserState /\ RaiserFits(r)
      BY <1>1, <1>4 DEF RaiserState, RaiserStages, RaiserFits
    <2>2. raiser' = [raiser EXCEPT ![w] = r]
      BY <1>4
    <2> QED BY <1>2, <2>1, <2>2, RaiserMoves
  <1>5. ASSUME NEW severity, severity = Correlation(Newest(Window, Len(log))),
               severity # "none",
               raiser' = [raiser EXCEPT ![w].at = "count", ![w].severity = severity,
                                        ![w].seen = Len(log)]
        PROVE  IncidentInv'
    <2> DEFINE r == [raiser[w] EXCEPT !.at = "count", !.severity = severity,
                                      !.seen = Len(log)]
    <2>1. r \in RaiserState
      BY <1>1, <1>5, CorrelationType DEF RaiserState, RaiserStages
    <2>2. r.at = "count" /\ r.severity = severity /\ r.seen = Len(log)
      BY <1>1 DEF RaiserState
    <2>3. RaiserFits(r)
      BY <1>1, <1>5, <2>2 DEF RaiserFits
    <2>4. raiser' = [raiser EXCEPT ![w] = r]
      BY <1>1, <1>5
    <2> QED BY <1>2, <2>1, <2>3, <2>4, RaiserMoves
  <1> QED BY <1>3, <1>4, <1>5 DEF LogDone, List, ListFails

\* The first half of create_incident.
LEMMA IncCount ==
  ASSUME IncidentInv, NEW w \in Workers, Count(w)
  PROVE  IncidentInv'
  <1>1. /\ raiser \in [Workers -> RaiserState] /\ raiser[w] \in RaiserState
        /\ calls \in 0..MaxCalls /\ Len(incidents) \in Nat
        /\ RaiserFits(raiser[w]) /\ raiser[w].at = "count"
    BY DEF IncidentInv, IncidentTypeOK, RaisersFit, Count
  <1>2. PICK count \in {Len(incidents), 0} :
          raiser' = [raiser EXCEPT ![w].at = "insert", ![w].id = count + 1]
    BY DEF Count
  <1> DEFINE r == [raiser[w] EXCEPT !.at = "insert", !.id = count + 1]
  <1>3. r \in RaiserState
    <2>1. count + 1 \in Nat
      BY <1>1, <1>2
    <2> QED BY <1>1, <2>1 DEF RaiserState, RaiserStages
  <1>4. /\ r.at = "insert" /\ r.id = count + 1
        /\ r.severity = raiser[w].severity /\ r.seen = raiser[w].seen
    BY <1>1 DEF RaiserState
  <1>5. RaiserFits(r)
    BY <1>1, <1>4 DEF RaiserFits
  <1>6. raiser' = [raiser EXCEPT ![w] = r]
    BY <1>1, <1>2
  <1>7. calls' \in 0..MaxCalls /\ UNCHANGED <<log, incidents, triages>>
    BY <1>1 DEF Count
  <1> QED BY <1>3, <1>5, <1>6, <1>7, RaiserMoves

\* An append, whose event may get lost.
LEMMA IncAppendEvent ==
  ASSUME IncidentInv, NEW w \in Workers, AppendEvent(w)
  PROVE  IncidentInv'
  <1> DEFINE r == [raiser[w] EXCEPT !.todo = Tail(raiser[w].todo)]
             e == [kind    |-> Head(raiser[w].todo),
                   tainted |-> raiser[w].case.tainted,
                   egress  |-> raiser[w].case.egress]
  <1>1. /\ raiser \in [Workers -> RaiserState] /\ raiser[w] \in RaiserState
        /\ calls \in 0..MaxCalls /\ log \in Seq(Event) /\ incidents \in Seq(Incident)
        /\ raiser[w].at = "append"
        /\ raiser[w].todo \in Seq(EventKinds) /\ raiser[w].todo # <<>>
    BY DEF IncidentInv, IncidentTypeOK, AppendEvent, RaiserState
  <1>2. Tail(raiser[w].todo) \in Seq(EventKinds) /\ Head(raiser[w].todo) \in EventKinds
    BY <1>1
  <1>3. r \in RaiserState /\ r.at = "append"
    BY <1>1, <1>2 DEF RaiserState
  <1>4. raiser' = [raiser EXCEPT ![w] = r]
    BY <1>1 DEF AppendEvent
  <1>5. UNCHANGED <<incidents, calls, triages>>
    BY DEF AppendEvent
  <1>6. CASE UNCHANGED log
    BY <1>1, <1>3, <1>4, <1>5, <1>6, RaiserMoves DEF RaiserFits
  <1>7. CASE log' = Append(log, e)
    <2>1. e \in Event
      BY <1>1, <1>2, EventType DEF RaiserState
    <2>2. log' \in Seq(Event) /\ Len(log') = Len(log) + 1 /\ Len(log) \in Nat
      BY <1>1, <1>7, <2>1
    <2>3. IncidentTypeOK'
      BY <1>1, <1>3, <1>4, <1>5, <2>2 DEF IncidentInv, IncidentTypeOK
    <2>4. SequentialIds'
      BY <1>5 DEF IncidentInv, SequentialIds
    <2>5. RaisersFit'
      <3> SUFFICES ASSUME NEW v \in Workers PROVE RaiserFits(raiser[v])'
        BY DEF RaisersFit
      <3>1. CASE v = w
        <4>1. raiser'[v].at = "append"
          BY <1>1, <1>3, <1>4, <3>1
        <4> QED BY <4>1 DEF RaiserFits
      <3>2. CASE v # w
        <4>1. raiser'[v] = raiser[v] /\ raiser[v] \in RaiserState /\ RaiserFits(raiser[v])
          BY <1>1, <1>4, <3>2 DEF IncidentInv, RaisersFit
        <4> QED BY <1>5, <4>1 DEF RaiserFits
      <3> QED BY <3>1, <3>2
    <2> QED BY <2>3, <2>4, <2>5 DEF IncidentInv
  <1> QED BY <1>6, <1>7 DEF AppendEvent

\* The second half of create_incident.
LEMMA IncInsert ==
  ASSUME IncidentInv, NEW w \in Workers, Insert(w)
  PROVE  IncidentInv'
  <1>1. /\ raiser \in [Workers -> RaiserState] /\ raiser[w] \in RaiserState
        /\ calls \in 0..MaxCalls /\ incidents \in Seq(Incident)
        /\ RaiserFits(raiser[w]) /\ raiser[w].at = "insert"
    BY DEF IncidentInv, IncidentTypeOK, RaisersFit, Insert
  <1>2. Rests(w) /\ UNCHANGED <<log, calls, triages>>
    BY DEF Insert
  <1>3. CASE UNCHANGED incidents
    BY <1>1, <1>2, <1>3, NotRaisingFits, RaiserMoves DEF Rests
  <1>4. CASE raiser[w].id \notin IdsInUse /\ incidents' = Append(incidents, NewIncident(w))
    <2> DEFINE n == Len(incidents)
               row == NewIncident(w)
    <2>1. n \in Nat /\ DOMAIN incidents = 1..n
      BY <1>1
    <2>2. raiser[w].id = n + 1
      <3>1. \A i \in 1..n : raiser[w].id # i
        BY <1>4, <2>1 DEF IdsInUse, IncidentInv, SequentialIds
      <3> QED BY <1>1, <2>1, <3>1 DEF RaiserFits
    <2>3. /\ raiser[w].severity # "none" /\ raiser[w].severity \in Severities
          /\ raiser[w].seen \in Nat
      BY <1>1 DEF RaiserFits, RaiserState
    <2>4. /\ row \in Incident /\ row.id = n + 1
          /\ row.seen = raiser[w].seen /\ row.severity = raiser[w].severity
      BY <2>1, <2>2, <2>3 DEF NewIncident, Incident, Statuses
    <2>5. /\ incidents' \in Seq(Incident) /\ DOMAIN incidents' = 1..(n + 1)
          /\ Len(incidents') = n + 1
          /\ \A i \in 1..n : incidents'[i] = incidents[i]
          /\ incidents'[n + 1] = row
      BY <1>1, <1>4, <2>1, <2>4
    <2> HIDE DEF n, row
    <2>6. raiser' = [raiser EXCEPT ![w] = NotRaising]
      BY <1>2 DEF Rests
    <2>7. IncidentTypeOK'
      BY <1>1, <1>2, <2>5, <2>6, NotRaisingFits DEF IncidentInv, IncidentTypeOK
    <2>8. SequentialIds'
      BY <2>1, <2>4, <2>5 DEF IncidentInv, SequentialIds
    <2>9. RaisersFit'
      <3> SUFFICES ASSUME NEW v \in Workers PROVE RaiserFits(raiser[v])'
        BY DEF RaisersFit
      <3>1. CASE v = w
        <4>1. raiser'[v].at = "idle"
          BY <1>1, <2>6, <3>1 DEF NotRaising
        <4> QED BY <4>1 DEF RaiserFits
      <3>2. CASE v # w
        <4>1. raiser'[v] = raiser[v] /\ RaiserFits(raiser[v])
          BY <1>1, <2>6, <3>2 DEF IncidentInv, RaisersFit
        <4>2. raiser[v].at = "insert" => raiser[v].id \in 1..(Len(incidents') + 1)
          BY <2>1, <2>5, <4>1 DEF RaiserFits, n
        <4> QED BY <1>2, <4>1, <4>2 DEF RaiserFits
      <3> QED BY <3>1, <3>2
    <2> QED BY <2>7, <2>8, <2>9 DEF IncidentInv
  <1> QED BY <1>3, <1>4 DEF Insert

\* What set_incident_status does to the rows.
LEMMA StatusEffect ==
  ASSUME IncidentTypeOK, NEW i \in DOMAIN incidents, NEW status \in Statuses,
         SetStatus(i, status)
  PROVE  /\ incidents' \in Seq(Incident)
         /\ Len(incidents') = Len(incidents) /\ DOMAIN incidents' = DOMAIN incidents
         /\ \A j \in DOMAIN incidents :
              /\ incidents'[j].id = incidents[j].id
              /\ incidents'[j].severity = incidents[j].severity
              /\ incidents'[j].seen = incidents[j].seen
              /\ incidents'[j].by = incidents[j].by
  <1>1. /\ incidents \in Seq(Incident)
        /\ incidents' = [incidents EXCEPT ![i].status = status]
    BY DEF IncidentTypeOK, SetStatus
  <1>2. incidents[i] \in Incident
    BY <1>1
  <1>3. [incidents[i] EXCEPT !.status = status] \in Incident
    BY <1>2 DEF Incident
  <1>4. incidents' = [incidents EXCEPT ![i] = [incidents[i] EXCEPT !.status = status]]
    BY <1>1
  <1>5. incidents' \in Seq(Incident) /\ Len(incidents') = Len(incidents)
        /\ DOMAIN incidents' = DOMAIN incidents
    BY <1>1, <1>3, <1>4
  <1>6. \A j \in DOMAIN incidents : j # i => incidents'[j] = incidents[j]
    BY <1>1, <1>4
  <1>7. incidents'[i] = [incidents[i] EXCEPT !.status = status]
    BY <1>1, <1>4
  <1>8. /\ incidents'[i].id = incidents[i].id
        /\ incidents'[i].severity = incidents[i].severity
        /\ incidents'[i].seen = incidents[i].seen
        /\ incidents'[i].by = incidents[i].by
    BY <1>2, <1>7 DEF Incident
  <1> QED BY <1>5, <1>6, <1>8

\* set_incident_status leaves everything else of an incident alone.
LEMMA IncSetStatus ==
  ASSUME IncidentInv, NEW i \in DOMAIN incidents, NEW status \in Statuses,
         SetStatus(i, status)
  PROVE  IncidentInv'
  <1>1. /\ incidents' \in Seq(Incident)
        /\ Len(incidents') = Len(incidents) /\ DOMAIN incidents' = DOMAIN incidents
        /\ \A j \in DOMAIN incidents :
             /\ incidents'[j].id = incidents[j].id
             /\ incidents'[j].severity = incidents[j].severity
             /\ incidents'[j].seen = incidents[j].seen
    BY StatusEffect DEF IncidentInv
  <1>2. UNCHANGED <<log, raiser, calls>> /\ triages' \in 0..MaxTriages
    BY IncidentsAssumption DEF SetStatus, IncidentInv, IncidentTypeOK
  <1>3. IncidentTypeOK'
    BY <1>1, <1>2 DEF IncidentInv, IncidentTypeOK
  <1>4. SequentialIds'
    BY <1>1, <1>2 DEF IncidentInv, SequentialIds
  <1>5. RaisersFit'
    <2> SUFFICES ASSUME NEW w \in Workers PROVE RaiserFits(raiser[w])'
      BY DEF RaisersFit
    <2>1. raiser' = raiser /\ log' = log /\ Len(incidents') = Len(incidents)
      BY <1>1, <1>2
    <2>2. RaiserFits(raiser[w])
      BY DEF IncidentInv, RaisersFit
    <2> QED BY <2>1, <2>2 DEF RaiserFits
  <1> QED BY <1>3, <1>4, <1>5 DEF IncidentInv

-----------------------------------------------------------------------------
(* The theorems *)

\* The empty database satisfies the invariant.
LEMMA IncInit == Init => IncidentInv
  <1> SUFFICES ASSUME Init PROVE IncidentInv
    OBVIOUS
  <1>1. IncidentTypeOK
    BY NotRaisingFits, IncidentsAssumption DEF Init, IncidentTypeOK
  <1>2. RaisersFit
    BY NotRaisingFits DEF Init, RaisersFit
  <1> QED
    BY <1>1, <1>2 DEF Init, IncidentInv, SequentialIds

\* Every step keeps it.
LEMMA IncStep == IncidentInv /\ [Next]_vars => IncidentInv'
  <1> SUFFICES ASSUME IncidentInv, [Next]_vars PROVE IncidentInv'
    OBVIOUS
  <1>1. CASE Next
    BY <1>1, IncConclude, IncReads, IncCount, IncAppendEvent, IncInsert, IncSetStatus
       DEF Next
  <1>2. CASE UNCHANGED vars
    <2>1. /\ log' = log /\ incidents' = incidents /\ raiser' = raiser
          /\ calls' = calls /\ triages' = triages
      BY <1>2 DEF vars
    <2>2. IncidentTypeOK'
      BY <2>1 DEF IncidentInv, IncidentTypeOK
    <2>3. SequentialIds'
      BY <2>1 DEF IncidentInv, SequentialIds
    <2>4. RaisersFit'
      <3> SUFFICES ASSUME NEW w \in Workers PROVE RaiserFits(raiser[w])'
        BY DEF RaisersFit
      <3>1. RaiserFits(raiser[w])
        BY DEF IncidentInv, RaisersFit
      <3> QED BY <2>1, <3>1 DEF RaiserFits
    <2> QED BY <2>2, <2>3, <2>4 DEF IncidentInv
  <1> QED BY <1>1, <1>2

\* The invariant holds of every run (create_incident, correlate_incident).
THEOREM IncidentInvariant == Spec => []IncidentInv
  BY IncInit, IncStep, PTL DEF Spec

\* Log, incidents and workers keep their types.
THEOREM IncidentTypeCorrect == Spec => []IncidentTypeOK
  BY IncidentInvariant, PTL DEF IncidentInv

\* Numbers are sequential, whatever races and whatever fails (create_incident).
THEOREM SequentialTheorem == Spec => []SequentialIds
  BY IncidentInvariant, PTL DEF IncidentInv

-----------------------------------------------------------------------------
(***************************************************************************)
(* Refused inserts.  When a count succeeds its number is free; it can only *)
(* be taken by somebody else's insert.                                     *)
(***************************************************************************)

\* A step that neither counts nor inserts keeps the property.
LEMMA RaceKept ==
  ASSUME IncidentInv, OnlyOthersTakeTheId,
         DOMAIN incidents' = DOMAIN incidents,
         \A i \in DOMAIN incidents :
           incidents'[i].id = incidents[i].id /\ incidents'[i].by = incidents[i].by,
         \A w \in Workers : raiser'[w].at = "insert" => raiser'[w] = raiser[w]
  PROVE  OnlyOthersTakeTheId'
  <1>1. IdsInUse' = IdsInUse
    BY DEF IdsInUse
  <1> QED BY <1>1 DEF OnlyOthersTakeTheId

\* Only Count brings a worker to its insert.
LEMMA OnlyCountReachesInsert ==
  ASSUME IncidentInv, NEW w \in Workers, NEW v \in Workers,
         \/ \E case \in Cases : Conclude(w, case)
         \/ AppendEvent(w) \/ LogDone(w) \/ List(w) \/ ListFails(w) \/ Insert(w),
         raiser'[v].at = "insert"
  PROVE  v # w /\ raiser'[v] = raiser[v]
  <1>1. raiser \in [Workers -> RaiserState]
    BY DEF IncidentInv, IncidentTypeOK
  <1>2. raiser'[w].at # "insert"
    <2>1. CASE Rests(w)
      BY <1>1, <2>1 DEF Rests, NotRaising
    <2>2. ASSUME NEW case \in Cases, Conclude(w, case)
          PROVE  raiser'[w].at = "append"
      BY <1>1, <2>2 DEF Conclude, NotRaising
    <2>3. CASE AppendEvent(w)
      <3>1. raiser[w] \in RaiserState /\ raiser[w].at = "append"
        BY <1>1, <2>3 DEF AppendEvent
      <3>2. raiser'[w].at = raiser[w].at
        BY <1>1, <2>3, <3>1 DEF AppendEvent, RaiserState
      <3> QED BY <3>1, <3>2
    <2>4. CASE raiser' = [raiser EXCEPT ![w].at = "list"]
      BY <1>1, <2>4 DEF RaiserState
    <2>5. ASSUME NEW severity,
                 raiser' = [raiser EXCEPT ![w].at = "count", ![w].severity = severity,
                                          ![w].seen = Len(log)]
          PROVE  raiser'[w].at = "count"
      BY <1>1, <2>5 DEF RaiserState
    <2> QED
      BY <2>1, <2>2, <2>3, <2>4, <2>5 DEF LogDone, List, ListFails, Insert
  <1> QED
    BY <1>1, <1>2 DEF Conclude, AppendEvent, LogDone, List, ListFails, Insert, Rests

\* Every step keeps the property if counts succeed.
LEMMA RaceStep ==
  ASSUME "count" \notin Faults, IncidentInv, OnlyOthersTakeTheId, [Next]_vars
  PROVE  OnlyOthersTakeTheId'
  <1>1. raiser \in [Workers -> RaiserState] /\ incidents \in Seq(Incident)
    BY DEF IncidentInv, IncidentTypeOK
  <1>2. ASSUME NEW w \in Workers,
               \/ \E case \in Cases : Conclude(w, case)
               \/ AppendEvent(w) \/ LogDone(w) \/ List(w) \/ ListFails(w)
        PROVE  OnlyOthersTakeTheId'
    <2>1. incidents' = incidents
      BY <1>2 DEF Conclude, AppendEvent, LogDone, List, ListFails
    <2> QED BY <1>2, <2>1, RaceKept, OnlyCountReachesInsert
  <1>3. ASSUME NEW w \in Workers, Count(w)
        PROVE  OnlyOthersTakeTheId'
    <2>1. incidents' = incidents /\ IdsInUse' = IdsInUse
      BY <1>3 DEF Count, IdsInUse
    <2>2. raiser' = [raiser EXCEPT ![w].at = "insert", ![w].id = Len(incidents) + 1]
      BY <1>3 DEF Count
    <2>3. Len(incidents) + 1 \notin IdsInUse
      <3>1. DOMAIN incidents = 1..Len(incidents) /\ Len(incidents) \in Nat
        BY <1>1
      <3> QED BY <3>1 DEF IdsInUse, IncidentInv, SequentialIds
    <2>4. raiser'[w].id = Len(incidents) + 1
      BY <1>1, <2>2 DEF RaiserState
    <2>5. \A v \in Workers : v # w => raiser'[v] = raiser[v]
      BY <1>1, <2>2
    <2> QED BY <2>1, <2>3, <2>4, <2>5 DEF OnlyOthersTakeTheId
  <1>4. ASSUME NEW w \in Workers, Insert(w)
        PROVE  OnlyOthersTakeTheId'
    <2>1. CASE incidents' = incidents
      BY <1>4, <2>1, RaceKept, OnlyCountReachesInsert
    <2>2. CASE incidents' = Append(incidents, NewIncident(w))
      <3> SUFFICES ASSUME NEW v \in Workers, raiser'[v].at = "insert",
                          raiser'[v].id \in IdsInUse'
                   PROVE  \E i \in DOMAIN incidents' :
                            incidents'[i].id = raiser'[v].id /\ incidents'[i].by # v
        BY DEF OnlyOthersTakeTheId
      <3>1. v # w /\ raiser'[v] = raiser[v]
        BY <1>4, OnlyCountReachesInsert
      <3>2. /\ DOMAIN incidents' = 1..(Len(incidents) + 1) /\ Len(incidents) \in Nat
            /\ DOMAIN incidents = 1..Len(incidents)
            /\ \A i \in DOMAIN incidents : incidents'[i] = incidents[i]
            /\ incidents'[Len(incidents) + 1] = NewIncident(w)
        BY <1>1, <2>2
      <3>3. PICK i \in DOMAIN incidents' : incidents'[i].id = raiser[v].id
        BY <3>1 DEF IdsInUse
      <3>4. CASE i \in DOMAIN incidents
        <4>1. raiser[v].id \in IdsInUse
          BY <3>2, <3>3, <3>4 DEF IdsInUse
        <4>2. PICK j \in DOMAIN incidents :
                incidents[j].id = raiser[v].id /\ incidents[j].by # v
          BY <3>1, <4>1 DEF OnlyOthersTakeTheId
        <4> QED BY <3>1, <3>2, <4>2
      <3>5. CASE i = Len(incidents) + 1
        BY <3>1, <3>2, <3>3, <3>5 DEF NewIncident
      <3> QED BY <3>2, <3>4, <3>5
    <2> QED BY <1>4, <2>1, <2>2 DEF Insert
  <1>5. ASSUME NEW i \in DOMAIN incidents, NEW status \in Statuses, SetStatus(i, status)
        PROVE  OnlyOthersTakeTheId'
    <2>1. raiser' = raiser
      BY <1>5 DEF SetStatus
    <2> QED BY <1>5, <2>1, StatusEffect, RaceKept DEF IncidentInv
  <1>6. CASE UNCHANGED vars
    BY <1>6, RaceKept DEF vars
  <1> QED BY <1>2, <1>3, <1>4, <1>5, <1>6 DEF Next

\* An incident is refused only because another worker took its number
\* (create_incident).
THEOREM RaceTheorem == "count" \notin Faults => (Spec => []OnlyOthersTakeTheId)
  <1> SUFFICES ASSUME "count" \notin Faults PROVE Spec => []OnlyOthersTakeTheId
    OBVIOUS
  <1>1. Init => OnlyOthersTakeTheId
    BY DEF Init, OnlyOthersTakeTheId, NotRaising
  <1>2. IncidentInv /\ OnlyOthersTakeTheId /\ [Next]_vars => OnlyOthersTakeTheId'
    BY RaceStep
  <1> QED BY <1>1, <1>2, IncidentInvariant, PTL DEF Spec

-----------------------------------------------------------------------------
(***************************************************************************)
(* The docket.  A worker's part of it is a function of the worker's state. *)
(* A denial becomes a finding at its reading and is filed at its insert;   *)
(* what fails or is refused in between drops it; and a number that is free *)
(* at the insert is the next one.                                          *)
(***************************************************************************)
Denying(r) == r.at \in {"append", "list"} /\ r.case.grave

Holding(r) ==
  IF r.at \in {"count", "insert"} THEN <<r.severity, r.seen>> ELSE <<>>

DocketStep == [Kept!Next]_<<log, Denials, Unfiled, Entries, Standings>>

\* A list with one more entry behind the n there are.
LEMMA OneLonger ==
  ASSUME NEW D, NEW n \in Nat, NEW s \in [1..n -> D], NEW e \in D,
         NEW t \in [1..(n + 1) -> D],
         \A i \in 1..n : t[i] = s[i], t[n + 1] = e
  PROVE  t = Append(s, e) /\ Len(s) = n
  <1>1. s \in Seq(D) /\ Len(s) = n
    OBVIOUS
  <1>2. PICK longer : longer = Append(s, e)
    OBVIOUS
  <1>3. /\ longer \in Seq(D) /\ Len(longer) = n + 1
        /\ \A i \in 1..n : longer[i] = s[i]
        /\ longer[n + 1] = e
    BY <1>1, <1>2, AppendProperties
  <1>4. longer \in [1..(n + 1) -> D]
    BY <1>3
  <1>5. \A i \in 1..(n + 1) : t[i] = longer[i]
    BY <1>3
  <1>6. t = longer
    BY <1>4, <1>5
  <1> QED BY <1>1, <1>2, <1>6

\* A step that moves worker w on, in terms of the docket.
LEMMA DocketMoves ==
  ASSUME IncidentInv, NEW w \in Workers, NEW r \in RaiserState,
         raiser' = [raiser EXCEPT ![w] = r]
  PROVE  /\ Unfiled' = [Unfiled EXCEPT ![w] = Holding(r)]
         /\ Denying(r) => Denials' = Denials \cup {w}
         /\ ~Denying(r) => Denials' = Denials \ {w}
         /\ w \in Denials <=> Denying(raiser[w])
         /\ Unfiled[w] = Holding(raiser[w])
  <1>1. raiser \in [Workers -> RaiserState]
    BY DEF IncidentInv, IncidentTypeOK
  <1>2. \A v \in Workers : raiser'[v] = IF v = w THEN r ELSE raiser[v]
    BY <1>1
  <1>3. Unfiled = [v \in Workers |-> Holding(raiser[v])]
        /\ Unfiled' = [v \in Workers |-> Holding(raiser'[v])]
    BY DEF Unfiled, Holding
  <1>4. Denials = {v \in Workers : Denying(raiser[v])}
        /\ Denials' = {v \in Workers : Denying(raiser'[v])}
    BY DEF Denials, Denying
  <1>5. Unfiled' = [Unfiled EXCEPT ![w] = Holding(r)]
    BY <1>2, <1>3
  <1>6. /\ Denying(r) => Denials' = Denials \cup {w}
        /\ ~Denying(r) => Denials' = Denials \ {w}
    BY <1>2, <1>4
  <1> QED BY <1>3, <1>4, <1>5, <1>6

\* A step that leaves a worker with what it had, in terms of the docket.
LEMMA DocketStutters ==
  ASSUME IncidentInv, NEW w \in Workers, NEW r \in RaiserState,
         raiser' = [raiser EXCEPT ![w] = r],
         Denying(r) <=> Denying(raiser[w]), Holding(r) = Holding(raiser[w]),
         UNCHANGED incidents
  PROVE  UNCHANGED <<Denials, Unfiled, Entries, Standings>>
  <1>1. /\ Unfiled' = [Unfiled EXCEPT ![w] = Holding(r)]
        /\ Denying(r) => Denials' = Denials \cup {w}
        /\ ~Denying(r) => Denials' = Denials \ {w}
        /\ w \in Denials <=> Denying(raiser[w])
        /\ Unfiled[w] = Holding(raiser[w])
    BY DocketMoves
  <1>2. Unfiled' = Unfiled /\ Denials' = Denials
    BY <1>1 DEF Unfiled
  <1>3. Entries' = Entries /\ Standings' = Standings
    BY DEF Entries, Standings
  <1> QED BY <1>2, <1>3

\* A worker that comes to rest without an insert drops what it had.
LEMMA RestDrops ==
  ASSUME IncidentInv, NEW w \in Workers, Rests(w), UNCHANGED <<log, incidents>>
  PROVE  DocketStep
  <1>1. NotRaising \in RaiserState /\ ~Denying(NotRaising) /\ Holding(NotRaising) = <<>>
    BY NotRaisingFits DEF Denying, Holding, NotRaising
  <1>2. Unfiled' = [Unfiled EXCEPT ![w] = <<>>] /\ Denials' = Denials \ {w}
    BY <1>1, DocketMoves DEF Rests
  <1>3. Entries' = Entries /\ Standings' = Standings
    BY DEF Entries, Standings
  <1>4. Kept!Drop(w)
    BY <1>2, <1>3 DEF Kept!Drop, Kept!Nothing
  <1> QED BY <1>4 DEF Kept!Next, DocketStep

\* A verdict is a denial, if it is grave.
LEMMA ConcludeDenies ==
  ASSUME IncidentInv, NEW w \in Workers, NEW case \in Cases, Conclude(w, case)
  PROVE  DocketStep
  <1> DEFINE r == [NotRaising EXCEPT !.at = "append", !.case = case,
                                     !.todo = EventsOf(case)]
  <1>1. r \in RaiserState /\ r.at = "append" /\ r.case = case
    BY EventsOfType, NotRaisingFits DEF RaiserState, RaiserStages, NotRaising
  <1>2. /\ raiser' = [raiser EXCEPT ![w] = r] /\ raiser[w].at = "idle"
        /\ UNCHANGED <<log, incidents>>
    BY DEF Conclude
  <1> HIDE DEF r
  <1>3. Holding(r) = <<>> /\ Holding(raiser[w]) = <<>> /\ ~Denying(raiser[w])
        /\ (Denying(r) <=> case.grave)
    BY <1>1, <1>2 DEF Holding, Denying
  <1>4. CASE case.grave
    <2>1. /\ Unfiled' = [Unfiled EXCEPT ![w] = <<>>] /\ Unfiled[w] = <<>>
          /\ Denials' = Denials \cup {w} /\ w \notin Denials
      BY <1>1, <1>2, <1>3, <1>4, DocketMoves
    <2>2. Unfiled' = Unfiled
      BY <2>1 DEF Unfiled
    <2>3. Entries' = Entries /\ Standings' = Standings
      BY <1>2 DEF Entries, Standings
    <2>4. Kept!Deny(w)
      BY <1>2, <2>1, <2>2, <2>3 DEF Kept!Deny, Kept!Nothing
    <2> QED BY <2>4 DEF Kept!Next, DocketStep
  <1>5. CASE ~case.grave
    <2>1. UNCHANGED <<Denials, Unfiled, Entries, Standings>>
      BY <1>1, <1>2, <1>3, <1>5, DocketStutters
    <2> QED BY <1>2, <2>1 DEF DocketStep
  <1> QED BY <1>4, <1>5

\* An append records an event, or loses it.
LEMMA AppendRecords ==
  ASSUME IncidentInv, NEW w \in Workers, AppendEvent(w)
  PROVE  DocketStep
  <1> DEFINE r == [raiser[w] EXCEPT !.todo = Tail(raiser[w].todo)]
             e == [kind    |-> Head(raiser[w].todo),
                   tainted |-> raiser[w].case.tainted,
                   egress  |-> raiser[w].case.egress]
  <1>1. /\ raiser \in [Workers -> RaiserState] /\ raiser[w] \in RaiserState
        /\ raiser[w].at = "append" /\ raiser[w].case \in Cases \cup {NoCase}
        /\ raiser[w].todo \in Seq(EventKinds) /\ raiser[w].todo # <<>>
    BY DEF IncidentInv, IncidentTypeOK, AppendEvent, RaiserState
  <1>2. Tail(raiser[w].todo) \in Seq(EventKinds) /\ Head(raiser[w].todo) \in EventKinds
    BY <1>1
  <1>3. r \in RaiserState /\ r.at = raiser[w].at /\ r.case = raiser[w].case
    BY <1>1, <1>2 DEF RaiserState
  <1>4. raiser' = [raiser EXCEPT ![w] = r]
    BY <1>1 DEF AppendEvent
  <1>5. UNCHANGED incidents
    BY DEF AppendEvent
  <1>6. e \in Event
    BY <1>1, <1>2, EventType
  <1>7. log' = Append(log, e) \/ log' = log
    BY DEF AppendEvent
  <1> HIDE DEF r, e
  <1>8. UNCHANGED <<Denials, Unfiled, Entries, Standings>>
    <2>1. (Denying(r) <=> Denying(raiser[w])) /\ Holding(r) = Holding(raiser[w])
      BY <1>1, <1>3 DEF Denying, Holding
    <2> QED BY <1>3, <1>4, <1>5, <2>1, DocketStutters
  <1>9. CASE log' = Append(log, e)
    <2>1. Kept!Record(e)
      BY <1>8, <1>9 DEF Kept!Record
    <2> QED BY <1>6, <2>1 DEF Kept!Next, DocketStep
  <1>10. CASE log' = log
    BY <1>8, <1>10 DEF DocketStep
  <1> QED BY <1>7, <1>9, <1>10

\* The reading assesses the denial (list_events, correlate_incident).
LEMMA ListAssesses ==
  ASSUME IncidentInv, NEW w \in Workers, List(w)
  PROVE  DocketStep
  <1> DEFINE severity == Correlation(Newest(Window, Len(log)))
             r == [raiser[w] EXCEPT !.at = "count", !.severity = severity,
                                    !.seen = Len(log)]
  <1>1. /\ raiser \in [Workers -> RaiserState] /\ raiser[w] \in RaiserState
        /\ raiser[w].at = "list" /\ raiser[w].case.grave
        /\ log \in Seq(Event) /\ UNCHANGED <<log, incidents>>
    BY DEF IncidentInv, IncidentTypeOK, RaisersFit, RaiserFits, List
  <1>2. CASE severity = "none"
    BY <1>1, <1>2, RestDrops DEF List
  <1>3. CASE severity # "none"
    <2>1. r \in RaiserState
      <3>1. severity \in Severities /\ Len(log) \in Nat
        BY <1>1, CorrelationType
      <3> HIDE DEF severity
      <3> QED BY <1>1, <3>1 DEF RaiserState, RaiserStages
    <2>2. r.at = "count" /\ r.severity = severity /\ r.seen = Len(log)
      BY <1>1 DEF RaiserState
    <2>3. raiser' = [raiser EXCEPT ![w] = r]
      BY <1>1, <1>3 DEF List
    <2>4. severity = SeverityOf(Kept!NewestOf(Window))
      <3>1. Newest(Window, Len(log)) = {j \in DOMAIN log : j + Window > Len(log)}
        BY <1>1 DEF Newest
      <3> QED BY <3>1 DEF Correlation, Kept!NewestOf
    <2> HIDE DEF r, severity
    <2>5. Denying(raiser[w]) /\ ~Denying(r) /\ Holding(r) = <<severity, Len(log)>>
      BY <1>1, <2>2 DEF Denying, Holding
    <2>6. /\ Unfiled' = [Unfiled EXCEPT ![w] = <<severity, Len(log)>>]
          /\ Denials' = Denials \ {w} /\ w \in Denials
      BY <2>1, <2>3, <2>5, DocketMoves
    <2>7. Entries' = Entries /\ Standings' = Standings
      BY <1>1 DEF Entries, Standings
    <2>8. Kept!Assess(w)
      BY <1>1, <1>3, <2>4, <2>6, <2>7 DEF Kept!Assess
    <2> QED BY <2>8 DEF Kept!Next, DocketStep
  <1> QED BY <1>2, <1>3

\* A call that is no grave denial has no part in the docket.
LEMMA LogDoneStutters ==
  ASSUME IncidentInv, NEW w \in Workers, LogDone(w)
  PROVE  DocketStep
  <1>1. /\ raiser \in [Workers -> RaiserState] /\ raiser[w] \in RaiserState
        /\ raiser[w].at = "append" /\ UNCHANGED <<log, incidents>>
    BY DEF IncidentInv, IncidentTypeOK, LogDone
  <1>2. CASE Rests(w)
    BY <1>1, <1>2, RestDrops
  <1>3. CASE raiser' = [raiser EXCEPT ![w].at = "list"]
    <2> DEFINE r == [raiser[w] EXCEPT !.at = "list"]
    <2>1. r \in RaiserState /\ r.at = "list" /\ r.case = raiser[w].case
      BY <1>1 DEF RaiserState, RaiserStages
    <2>2. raiser' = [raiser EXCEPT ![w] = r]
      BY <1>3
    <2> HIDE DEF r
    <2>3. (Denying(r) <=> Denying(raiser[w])) /\ Holding(r) = Holding(raiser[w])
      BY <1>1, <2>1 DEF Denying, Holding
    <2> QED BY <1>1, <2>1, <2>2, <2>3, DocketStutters DEF DocketStep
  <1> QED BY <1>2, <1>3 DEF LogDone

\* A count is not seen in the docket.
LEMMA CountStutters ==
  ASSUME IncidentInv, NEW w \in Workers, Count(w)
  PROVE  DocketStep
  <1>1. /\ raiser \in [Workers -> RaiserState] /\ raiser[w] \in RaiserState
        /\ raiser[w].at = "count" /\ Len(incidents) \in Nat
        /\ UNCHANGED <<log, incidents>>
    BY DEF IncidentInv, IncidentTypeOK, Count
  <1>2. PICK count \in {Len(incidents), 0} :
          raiser' = [raiser EXCEPT ![w].at = "insert", ![w].id = count + 1]
    BY DEF Count
  <1> DEFINE r == [raiser[w] EXCEPT !.at = "insert", !.id = count + 1]
  <1>3. r \in RaiserState
    <2>1. count + 1 \in Nat
      BY <1>1, <1>2
    <2> QED BY <1>1, <2>1 DEF RaiserState, RaiserStages
  <1>4. r.at = "insert" /\ r.severity = raiser[w].severity /\ r.seen = raiser[w].seen
    BY <1>1 DEF RaiserState
  <1>5. raiser' = [raiser EXCEPT ![w] = r]
    BY <1>1, <1>2
  <1> HIDE DEF r
  <1>6. (Denying(r) <=> Denying(raiser[w])) /\ Holding(r) = Holding(raiser[w])
    BY <1>1, <1>4 DEF Denying, Holding
  <1> QED BY <1>1, <1>3, <1>5, <1>6, DocketStutters DEF DocketStep

\* An insert files what the worker has found, under the next number.
LEMMA InsertFiles ==
  ASSUME IncidentInv, NEW w \in Workers, Insert(w)
  PROVE  DocketStep
  <1>1. /\ raiser \in [Workers -> RaiserState] /\ raiser[w] \in RaiserState
        /\ incidents \in Seq(Incident)
        /\ RaiserFits(raiser[w]) /\ raiser[w].at = "insert"
        /\ Rests(w) /\ UNCHANGED log
    BY DEF IncidentInv, IncidentTypeOK, RaisersFit, Insert
  <1>2. CASE UNCHANGED incidents
    BY <1>1, <1>2, RestDrops
  <1>3. CASE raiser[w].id \notin IdsInUse /\ incidents' = Append(incidents, NewIncident(w))
    <2> DEFINE n == Len(incidents)
               entry == [number |-> n + 1,
                         finding |-> <<raiser[w].severity, raiser[w].seen>>, by |-> w]
    <2>1. n \in Nat /\ DOMAIN incidents = 1..n
      BY <1>1
    <2>2. raiser[w].id = n + 1
      <3>1. \A i \in 1..n : raiser[w].id # i
        BY <1>3, <2>1 DEF IdsInUse, IncidentInv, SequentialIds
      <3> QED BY <1>1, <2>1, <3>1 DEF RaiserFits
    <2>3. /\ DOMAIN incidents' = 1..(n + 1)
          /\ \A i \in 1..n : incidents'[i] = incidents[i]
          /\ incidents'[n + 1] = NewIncident(w)
      BY <1>1, <1>3, <2>1
    <2> HIDE DEF n
    <2>4. /\ Unfiled' = [Unfiled EXCEPT ![w] = <<>>] /\ Denials' = Denials
          /\ Unfiled[w] = <<raiser[w].severity, raiser[w].seen>>
      <3>1. NotRaising \in RaiserState /\ ~Denying(NotRaising) /\ Holding(NotRaising) = <<>>
        BY NotRaisingFits DEF Denying, Holding, NotRaising
      <3>2. ~Denying(raiser[w])
            /\ Holding(raiser[w]) = <<raiser[w].severity, raiser[w].seen>>
        BY <1>1 DEF Denying, Holding
      <3>3. raiser' = [raiser EXCEPT ![w] = NotRaising]
        BY <1>1 DEF Rests
      <3>4. /\ Unfiled' = [Unfiled EXCEPT ![w] = <<>>] /\ Denials' = Denials \ {w}
            /\ w \notin Denials /\ Unfiled[w] = Holding(raiser[w])
        BY <3>1, <3>2, <3>3, DocketMoves
      <3> QED BY <3>2, <3>4
    <2>5. Entries' = Append(Entries, entry) /\ Len(Entries) = n
      <3> DEFINE D == {Entries[i] : i \in 1..n} \cup {entry}
      <3>1. \A i \in 1..n : i \in 1..(n + 1) /\ incidents'[i] = incidents[i]
        BY <2>1, <2>3
      <3>2. DOMAIN Entries = 1..n /\ DOMAIN Entries' = 1..(n + 1)
            /\ Entries = [i \in 1..n |-> Entries[i]]
            /\ Entries' = [i \in 1..(n + 1) |-> Entries'[i]]
        BY <2>1, <2>3 DEF Entries
      <3>3. Entries'[n + 1] = entry
        <4>1. /\ incidents'[n + 1].id = n + 1 /\ incidents'[n + 1].by = w
              /\ incidents'[n + 1].severity = raiser[w].severity
              /\ incidents'[n + 1].seen = raiser[w].seen
          BY <2>2, <2>3 DEF NewIncident
        <4>2. n + 1 \in DOMAIN incidents'
          BY <2>1, <2>3
        <4> QED BY <4>1, <4>2 DEF Entries
      <3>4. \A i \in 1..n : Entries'[i] = Entries[i]
        BY <2>1, <2>3, <3>1 DEF Entries
      <3> HIDE DEF entry
      <3>5. Entries \in [1..n -> D]
        BY <3>2
      <3>6. Entries' \in [1..(n + 1) -> D] /\ entry \in D
        <4>1. \A i \in 1..(n + 1) : Entries'[i] \in D
          BY <2>1, <3>3, <3>4
        <4> HIDE DEF D
        <4>2. Entries' \in [1..(n + 1) -> D]
          BY <3>2, <4>1
        <4> QED BY <4>2 DEF D
      <3> HIDE DEF D
      <3> QED BY <2>1, <3>3, <3>4, <3>5, <3>6, OneLonger
    <2>6. Standings' = Append(Standings, "OPEN")
      <3>1. \A i \in 1..n : i \in 1..(n + 1) /\ incidents'[i] = incidents[i]
        BY <2>1, <2>3
      <3>2. Standings \in [1..n -> Statuses]
        <4>1. \A i \in 1..n : incidents[i] \in Incident
          BY <1>1, <2>1
        <4> QED BY <2>1, <4>1 DEF Standings, Incident
      <3>3. Standings'[n + 1] = "OPEN" /\ \A i \in 1..n : Standings'[i] = Standings[i]
        BY <2>1, <2>3, <3>1 DEF Standings, NewIncident
      <3>4. "OPEN" \in Statuses
        BY DEF Statuses
      <3>5. Standings' \in [1..(n + 1) -> Statuses]
        <4>1. \A i \in 1..(n + 1) : Standings'[i] \in Statuses
          BY <2>1, <3>2, <3>3, <3>4
        <4>2. Standings' = [i \in 1..(n + 1) |-> Standings'[i]]
          BY <2>3 DEF Standings
        <4> QED BY <4>1, <4>2
      <3> QED BY <2>1, <3>2, <3>3, <3>4, <3>5, OneLonger
    <2>8. Kept!File(w)
      <3>1. Unfiled[w] # <<>>
        BY <2>4
      <3> QED BY <1>1, <2>4, <2>5, <2>6, <3>1 DEF Kept!File, Kept!Nothing
    <2> QED BY <2>8 DEF Kept!Next, DocketStep
  <1> QED BY <1>1, <1>2, <1>3 DEF Insert

\* An operator's word triages an entry.
LEMMA StatusTriages ==
  ASSUME IncidentInv, NEW i \in DOMAIN incidents, NEW status \in Statuses,
         SetStatus(i, status)
  PROVE  DocketStep
  <1>1. /\ incidents' \in Seq(Incident) /\ DOMAIN incidents' = DOMAIN incidents
        /\ \A j \in DOMAIN incidents :
             /\ incidents'[j].id = incidents[j].id
             /\ incidents'[j].severity = incidents[j].severity
             /\ incidents'[j].seen = incidents[j].seen
             /\ incidents'[j].by = incidents[j].by
    BY StatusEffect DEF IncidentInv
  <1>2. /\ incidents \in Seq(Incident) /\ raiser' = raiser /\ log' = log
        /\ incidents' = [incidents EXCEPT ![i].status = status]
    BY DEF IncidentInv, IncidentTypeOK, SetStatus
  <1>3. Entries' = Entries
    BY <1>1 DEF Entries
  <1>4. Standings' = [Standings EXCEPT ![i] = status]
    <2>1. incidents[i] \in Incident
      BY <1>2
    <2>2. incidents'[i].status = status
      BY <1>2, <2>1 DEF Incident
    <2>3. \A j \in DOMAIN incidents : j # i => incidents'[j].status = incidents[j].status
      BY <1>2
    <2> QED BY <1>1, <2>2, <2>3 DEF Standings
  <1>5. Unfiled' = Unfiled /\ Denials' = Denials
    BY <1>2 DEF Unfiled, Denials
  <1>6. Kept!Triage(i, status) /\ i \in DOMAIN Standings
    BY <1>2, <1>3, <1>4, <1>5 DEF Kept!Triage, Standings
  <1> QED BY <1>6 DEF Kept!Next, DocketStep

\* The incidents, whatever races and whatever fails, are the docket that is promised
\* (inspect_tool_call, correlate_incident, create_incident, set_incident_status).
THEOREM IncidentsImplementDocket == Spec => ImplementsDocket
  <1>1. Init => Kept!Init
    <2> SUFFICES ASSUME Init PROVE Kept!Init
      OBVIOUS
    <2>1. Denials = {} /\ Unfiled = [w \in Workers |-> <<>>]
      BY DEF Init, Denials, Unfiled, NotRaising
    <2>2. Entries = <<>> /\ Standings = <<>>
      BY DEF Init, Entries, Standings
    <2> QED BY <2>1, <2>2 DEF Init, Kept!Init, Kept!Nothing
  <1>2. IncidentInv /\ [Next]_vars => DocketStep
    <2> SUFFICES ASSUME IncidentInv, [Next]_vars PROVE DocketStep
      OBVIOUS
    <2>1. ASSUME NEW w \in Workers, ListFails(w) PROVE DocketStep
      BY <2>1, RestDrops DEF ListFails
    <2>2. CASE UNCHANGED vars
      <3>1. /\ log' = log /\ incidents' = incidents /\ raiser' = raiser
        BY <2>2 DEF vars
      <3> QED BY <3>1 DEF DocketStep, Denials, Unfiled, Entries, Standings
    <2> QED
      BY <2>1, <2>2, ConcludeDenies, AppendRecords, LogDoneStutters, ListAssesses,
         CountStutters, InsertFiles, StatusTriages
         DEF Next
  <1> QED
    BY <1>1, <1>2, IncidentInvariant, PTL
    DEF Spec, DocketStep, ImplementsDocket, Kept!Spec, Kept!vars, Denials, Unfiled,
        Entries, Standings
=============================================================================
