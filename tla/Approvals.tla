----------------------------- MODULE Approvals -----------------------------
(***************************************************************************)
(* The human-approval queue of crates/aegis-audit, and the two parties     *)
(* that race on it:                                                        *)
(*                                                                         *)
(*  - workers, the gateway tasks whose verdict is REQUIRE_APPROVAL: they   *)
(*    look for a granted request of the identical call, reuse a pending    *)
(*    one or create one (inspect_tool_call, the approval workflow);        *)
(*  - operators, who approve or deny a request by CLI or REST, on a        *)
(*    database connection of their own (set_approval, then append).        *)
(*                                                                         *)
(* Each SQL statement holds the connection's mutex for itself alone, so    *)
(* each statement is an action; what was read by one may be stale by the   *)
(* next.  A request is named by its row number, a call stands for server,  *)
(* tool and canonical arguments together.                                  *)
(***************************************************************************)
EXTENDS Naturals, Sequences, FiniteSets

CONSTANTS
  Workers,     \* gateway tasks
  Operators,   \* CLI processes and REST handlers that act on a request
  Calls,       \* server + tool + canonical arguments
  NoCall,      \* not a call: what an idle worker holds
  TTL,         \* lifetime of a request: one hour in the code
  MaxTime,     \* bound: the clock stops here
  MaxRows,     \* bound: requests ever created
  Faults       \* what may go wrong: "db" (workers), "crash" (operators)

ASSUME ApprovalsAssumption ==
  /\ NoCall \notin Calls
  /\ TTL \in Nat
  /\ MaxTime \in Nat
  /\ MaxRows \in Nat
  /\ Faults \subseteq {"db", "crash"}

VARIABLES
  table,      \* the approvals table, in rowid order
  now,        \* the clock
  asker,      \* where each worker stands in the approval workflow
  oper,       \* where each operator stands in set_approval
  recorded,   \* APPROVAL_GRANTED / APPROVAL_DENIED events in the audit log
  consented,  \* history: requests some operator's check has passed
  lapsed      \* history: requests that have been EXPIRED

queueVars == <<table, now, asker, oper, recorded, consented, lapsed>>

-----------------------------------------------------------------------------
(* The table *)

RowIds == Nat \ {0}

Statuses == {"PENDING", "APPROVED", "DENIED", "EXPIRED"}

\* by is history: the worker that made the request (the row does not say).
Request == [call : Calls, status : Statuses, expires : Nat, by : Workers]

Overdue(rows) ==
  {i \in DOMAIN rows : rows[i].status = "PENDING" /\ rows[i].expires < now}

Swept(rows) ==
  [i \in DOMAIN rows |->
     IF i \in Overdue(rows) THEN [rows[i] EXCEPT !.status = "EXPIRED"] ELSE rows[i]]

\* UPDATE ... SET status='EXPIRED' WHERE status='PENDING' AND expires_at < now
SweepExpired ==
  /\ table' = Swept(table)
  /\ lapsed' = lapsed \cup Overdue(table)

\* Faulty variant of Grants: the status alone decides.
GrantsWhateverTime(c) ==
  {i \in DOMAIN table : table[i].status = "APPROVED" /\ table[i].call = c}

\* Faulty variant of Grants: a grant is good for any call.
GrantsForAnyCall(c) ==
  {i \in DOMAIN table : table[i].status = "APPROVED" /\ table[i].expires > now}

Grants(c) ==
  {i \in DOMAIN table :
     table[i].status = "APPROVED" /\ table[i].expires > now /\ table[i].call = c}

PendingFor(c) ==
  {i \in DOMAIN table : table[i].status = "PENDING" /\ table[i].call = c}

\* Iterator::find on the rows in table order.
IsFirst(i, S) == i \in S /\ \A j \in S : i <= j

-----------------------------------------------------------------------------
(* Workers: find_approved_grant, find_pending_request, create_approval *)

WorkerStages ==
  {"idle", "lookup", "sweep", "search", "create",   \* the workflow
   "granted", "waiting", "unavailable", "held"}     \* its outcomes

Outcomes == {"granted", "waiting", "unavailable", "held"}

AskerState == [at : WorkerStages, call : Calls \cup {NoCall}, id : Nat]

NotAsking == [at |-> "idle", call |-> NoCall, id |-> 0]

Moves(w, stage) == asker' = [asker EXCEPT ![w].at = stage]

\* find_approved_grant starts by sweeping.
Ask(w, c) ==
  /\ asker[w].at = "idle"
  /\ SweepExpired
  /\ asker' = [asker EXCEPT ![w] = [at |-> "lookup", call |-> c, id |-> 0]]
  /\ UNCHANGED <<now, oper, recorded, consented>>

\* The sweep fails: the verdict stays REQUIRE_APPROVAL and no request is made.
AskFails(w, c) ==
  /\ "db" \in Faults
  /\ asker[w].at = "idle"
  /\ asker' = [asker EXCEPT ![w] = [at |-> "held", call |-> c, id |-> 0]]
  /\ UNCHANGED <<table, now, oper, recorded, consented, lapsed>>

LookUp(w) ==
  /\ asker[w].at = "lookup"
  /\ \/ \E i \in Grants(asker[w].call) :
          /\ IsFirst(i, Grants(asker[w].call))
          /\ asker' = [asker EXCEPT ![w].at = "granted", ![w].id = i]
     \/ /\ Grants(asker[w].call) = {}
        /\ Moves(w, "sweep")
  /\ UNCHANGED <<table, now, oper, recorded, consented, lapsed>>

\* The lookup itself fails: the same.
LookUpFails(w) ==
  /\ "db" \in Faults
  /\ asker[w].at = "lookup"
  /\ Moves(w, "held")
  /\ UNCHANGED <<table, now, oper, recorded, consented, lapsed>>

\* find_pending_request sweeps as well.
SweepAgain(w) ==
  /\ asker[w].at = "sweep"
  /\ SweepExpired
  /\ Moves(w, "search")
  /\ UNCHANGED <<now, oper, recorded, consented>>

Search(w) ==
  /\ asker[w].at = "search"
  /\ \/ \E i \in PendingFor(asker[w].call) :
          /\ IsFirst(i, PendingFor(asker[w].call))
          /\ asker' = [asker EXCEPT ![w].at = "waiting", ![w].id = i]
     \/ /\ PendingFor(asker[w].call) = {}
        /\ Moves(w, "create")
  /\ UNCHANGED <<table, now, oper, recorded, consented, lapsed>>

\* An error of the sweep or of the search counts as "none found".
SearchFails(w) ==
  /\ "db" \in Faults
  /\ asker[w].at \in {"sweep", "search"}
  /\ Moves(w, "create")
  /\ UNCHANGED <<table, now, oper, recorded, consented, lapsed>>

Create(w) ==
  /\ asker[w].at = "create"
  /\ table' = Append(table, [call |-> asker[w].call, status |-> "PENDING",
                             expires |-> now + TTL, by |-> w])
  /\ asker' = [asker EXCEPT ![w].at = "waiting", ![w].id = Len(table) + 1]
  /\ UNCHANGED <<now, oper, recorded, consented, lapsed>>

CreateFails(w) ==
  /\ "db" \in Faults
  /\ asker[w].at = "create"
  /\ Moves(w, "unavailable")
  /\ UNCHANGED <<table, now, oper, recorded, consented, lapsed>>

WorkerStep(w) ==
  \/ LookUp(w) \/ LookUpFails(w) \/ SweepAgain(w)
  \/ Search(w) \/ SearchFails(w) \/ Create(w) \/ CreateFails(w)

\* The worker has used the outcome and is ready for another call.
Finish(w) ==
  /\ asker[w].at \in Outcomes
  /\ asker' = [asker EXCEPT ![w] = NotAsking]
  /\ UNCHANGED <<table, now, oper, recorded, consented, lapsed>>

-----------------------------------------------------------------------------
(* Operators: set_approval, then the audit event *)

OperatorStages == {"idle", "check", "update", "record"}

Wishes == {"APPROVED", "DENIED"}

OperState == [at : OperatorStages, id : Nat, wish : Wishes]

AtRest == [at |-> "idle", id |-> 0, wish |-> "DENIED"]

Leaves(o) == oper' = [oper EXCEPT ![o] = AtRest]

\* set_approval sweeps first.  An id the operator knows is that of a request;
\* 0 stands for every other string.
Decide(o, id, wish) ==
  /\ oper[o].at = "idle"
  /\ SweepExpired
  /\ oper' = [oper EXCEPT ![o] =
                [at |-> IF wish = "APPROVED" THEN "check" ELSE "update",
                 id |-> id, wish |-> wish]]
  /\ UNCHANGED <<now, asker, recorded, consented>>

Approvable(id) ==
  /\ id \in DOMAIN table
  /\ table[id].status = "PENDING"
  /\ table[id].expires > now

\* Faulty variant of Check: any request that exists may be approved.
CheckExistsOnly(o) ==
  /\ oper[o].at = "check"
  /\ IF oper[o].id \in DOMAIN table
     THEN oper' = [oper EXCEPT ![o].at = "update"]
     ELSE Leaves(o)
  /\ consented' = IF Approvable(oper[o].id) THEN consented \cup {oper[o].id} ELSE consented
  /\ UNCHANGED <<table, now, asker, recorded, lapsed>>

\* list_approvals, then the test on the row found in the list.
Check(o) ==
  /\ oper[o].at = "check"
  /\ \/ /\ Approvable(oper[o].id)
        /\ oper' = [oper EXCEPT ![o].at = "update"]
        /\ consented' = consented \cup {oper[o].id}
     \/ /\ ~Approvable(oper[o].id)
        /\ Leaves(o)
        /\ UNCHANGED consented
  /\ UNCHANGED <<table, now, asker, recorded, lapsed>>

\* Faulty variant of Update: a denial is not reported to the audit log.
UpdateQuietDenial(o) ==
  /\ oper[o].at = "update"
  /\ oper[o].id \in DOMAIN table
  /\ table' = [table EXCEPT ![oper[o].id].status = oper[o].wish]
  /\ IF oper[o].wish = "DENIED" THEN Leaves(o) ELSE oper' = [oper EXCEPT ![o].at = "record"]
  /\ UNCHANGED <<now, asker, recorded, consented, lapsed>>

\* UPDATE ... SET status WHERE id: whatever the status is by now.
Update(o) ==
  /\ oper[o].at = "update"
  /\ \/ /\ oper[o].id \in DOMAIN table
        /\ table' = [table EXCEPT ![oper[o].id].status = oper[o].wish]
        /\ oper' = [oper EXCEPT ![o].at = "record"]
     \/ /\ oper[o].id \notin DOMAIN table
        /\ Leaves(o)
        /\ UNCHANGED table
  /\ UNCHANGED <<now, asker, recorded, consented, lapsed>>

Record(o) ==
  /\ oper[o].at = "record"
  /\ recorded' = recorded \cup {<<oper[o].id, oper[o].wish>>}
  /\ Leaves(o)
  /\ UNCHANGED <<table, now, asker, consented, lapsed>>

\* The process dies, or a statement fails (an append that fails included).
Crash(o) ==
  /\ "crash" \in Faults
  /\ oper[o].at # "idle"
  /\ Leaves(o)
  /\ UNCHANGED <<table, now, asker, recorded, consented, lapsed>>

OperatorActs(o) == \E id \in DOMAIN table \cup {0}, wish \in Wishes : Decide(o, id, wish)

OperatorStep(o) == Check(o) \/ Update(o) \/ Record(o) \/ Crash(o)

-----------------------------------------------------------------------------
Tick ==
  /\ now < MaxTime
  /\ now' = now + 1
  /\ UNCHANGED <<table, asker, oper, recorded, consented, lapsed>>

QueueInit ==
  /\ table = <<>>
  /\ now = 0
  /\ asker = [w \in Workers |-> NotAsking]
  /\ oper = [o \in Operators |-> AtRest]
  /\ recorded = {}
  /\ consented = {}
  /\ lapsed = {}

\* What workers, operators and the clock may do.
QueueStep ==
  \/ \E w \in Workers :
       \/ \E c \in Calls : Ask(w, c) \/ AskFails(w, c)
       \/ WorkerStep(w)
       \/ Finish(w)
  \/ \E o \in Operators : OperatorActs(o) \/ OperatorStep(o)
  \/ Tick

\* The queue as whoever uses it sees it, without the bound below.
UnboundedQueue == QueueInit /\ [][QueueStep]_queueVars

\* Bound: a worker asks only while a row is left for what it may create.
RowLeft ==
  Len(table) + Cardinality({w \in Workers :
      asker[w].at \in {"lookup", "sweep", "search", "create"}}) < MaxRows

QueueNext ==
  /\ QueueStep
  /\ RowLeft \/ \A w \in Workers : asker[w].at = "idle" => asker'[w].at = "idle"

QueueSpec == QueueInit /\ [][QueueNext]_queueVars

-----------------------------------------------------------------------------
(* Properties *)

QueueTypeOK ==
  /\ table \in Seq(Request)
  /\ now \in 0..MaxTime
  /\ asker \in [Workers -> AskerState]
  /\ oper \in [Operators -> OperState]
  /\ recorded \subseteq RowIds \X Wishes
  /\ consented \subseteq DOMAIN table
  /\ lapsed \subseteq DOMAIN table

\* A worker that goes ahead on a grant, or that quotes a request to the
\* agent, holds a request of the identical call; and the one it goes ahead on
\* was found pending and unexpired by an operator who then approved it,
\* whatever other operators, the sweeps and the clock did in between.
OutcomeFitsCall ==
  \A w \in Workers :
    /\ asker[w].at \in {"granted", "waiting"} =>
         /\ asker[w].id \in DOMAIN table
         /\ table[asker[w].id].call = asker[w].call
    /\ asker[w].at = "granted" => asker[w].id \in consented

\* A request that some sweep has expired is never honoured, even when an
\* approval that was checked in time is written after that sweep
\* (find_approved_grant tests the time again).
LapsedNeverHonoured ==
  [][\A w \in Workers :
       asker[w].at # "granted" /\ asker'[w].at = "granted"
         => asker'[w].id \notin lapsed']_queueVars

\* What operators are promised, in terms of the queue.
GoingOf(w) ==
  IF asker[w].at = "granted" THEN <<asker[w].call, asker[w].id>> ELSE <<>>

Promised == INSTANCE Consent WITH
  Parties <- Workers,
  requests <- [i \in DOMAIN table |-> table[i].call],
  approved <- consented,
  expired <- lapsed,
  going <- [w \in Workers |-> GoingOf(w)]

\* Though looking up, sweeping, checking and updating are separate statements of
\* several processes, a call only ever goes ahead on a request for it that was approved
\* in time and is not expired, requests never change what they are for, and no
\* expired one is approved (find_approved_grant, set_approval, sweep_expired).
ImplementsConsent == Promised!Spec

\* A request that waits for an operator and has not expired.
Live(i) == table[i].status = "PENDING" /\ table[i].expires > now

\* What INCIDENTS_APPROVALS.md ("Reuse is keyed on server + tool + canonical args") and
\* the comment on find_pending_request say: a call that has a live pending request gets
\* no second one (find_pending_request before create_approval).
PendingReused ==
  \A i, j \in DOMAIN table :
    Live(i) /\ Live(j) /\ table[i].call = table[j].call => i = j

\* Every decision that stands in the table is in the audit log, or its
\* operator is about to write it there, also when operators overwrite each
\* other.
DecisionsRecorded ==
  \A i \in DOMAIN table :
    table[i].status \in Wishes =>
      \/ <<i, table[i].status>> \in recorded
      \/ \E o \in Operators :
           oper[o] = [at |-> "record", id |-> i, wish |-> table[i].status]
=============================================================================
