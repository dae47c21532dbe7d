-------------------------- MODULE ApprovalsProofs --------------------------
(***************************************************************************)
(* Theorems about the approval queue, for any workers, operators, calls,   *)
(* lifetimes and bounds.  The lemmas are about QueueStep, which the        *)
(* gateway's steps are made of as well.                                    *)
(***************************************************************************)
EXTENDS Approvals, SequenceTheorems, TLAPS

-----------------------------------------------------------------------------
(* The inductive invariant *)

\* OutcomeFitsCall says of a grant that an operator's check was passed.  That
\* holds because it holds of every APPROVED row, and this in turn because an
\* operator that is about to write APPROVED has passed it.
ApprovedWasChecked ==
  \A i \in DOMAIN table : table[i].status = "APPROVED" => i \in consented

ApproverHasChecked ==
  \A o \in Operators :
    oper[o].at = "update" /\ oper[o].wish = "APPROVED" => oper[o].id \in consented

\* An operator that is about to record its decision has found the row.
RecorderKnowsRow ==
  \A o \in Operators : oper[o].at = "record" => oper[o].id \in DOMAIN table

\* Only overdue rows are swept, and no row's expiry ever moves.
LapsedIsPast == \A i \in lapsed : table[i].expires < now

AskerHasCall == \A w \in Workers : asker[w].at # "idle" => asker[w].call \in Calls

QueueInv ==
  /\ QueueTypeOK
  /\ AskerHasCall
  /\ ApprovedWasChecked
  /\ ApproverHasChecked
  /\ RecorderKnowsRow
  /\ LapsedIsPast
  /\ OutcomeFitsCall

-----------------------------------------------------------------------------
(* What the statements do to the rows *)

\* Rows are never removed, and only their status changes.
RowsKept ==
  \A i \in DOMAIN table :
    /\ i \in DOMAIN table'
    /\ table'[i].call = table[i].call
    /\ table'[i].expires = table[i].expires
    /\ table'[i].by = table[i].by

\* A sweep expires the overdue requests and changes nothing else of the rows.
LEMMA SweepEffect ==
  ASSUME QueueTypeOK, SweepExpired
  PROVE  /\ table' \in Seq(Request)
         /\ DOMAIN table' = DOMAIN table
         /\ RowsKept
         /\ \A i \in DOMAIN table :
              table'[i].status = IF i \in Overdue(table) THEN "EXPIRED" ELSE table[i].status
         /\ lapsed' = lapsed \cup Overdue(table)
         /\ Overdue(table) \subseteq DOMAIN table
  <1> DEFINE n == Len(table)
             row(i) == IF i \in Overdue(table)
                       THEN [table[i] EXCEPT !.status = "EXPIRED"] ELSE table[i]
  <1>1. n \in Nat /\ DOMAIN table = 1..n /\ \A i \in 1..n : table[i] \in Request
    BY DEF QueueTypeOK
  <1>2. \A i \in 1..n : row(i) \in Request
    BY <1>1 DEF Request, Statuses
  <1>3. table' = [i \in 1..n |-> row(i)]
    BY <1>1 DEF SweepExpired, Swept
  <1>4. table' \in Seq(Request) /\ DOMAIN table' = 1..n
    <2> HIDE DEF row
    <2> QED BY <1>1, <1>2, <1>3
  <1>5. \A i \in 1..n : table'[i] = row(i)
    BY <1>3
  <1>6. RowsKept
    BY <1>1, <1>4, <1>5 DEF RowsKept, Request
  <1>7. \A i \in 1..n :
          table'[i].status = IF i \in Overdue(table) THEN "EXPIRED" ELSE table[i].status
    BY <1>1, <1>5 DEF Request
  <1> QED BY <1>1, <1>4, <1>6, <1>7 DEF SweepExpired, Overdue

\* create_approval adds one pending row behind the others.
LEMMA CreateEffect ==
  ASSUME QueueTypeOK, NEW w \in Workers, Create(w), asker[w].call \in Calls
  PROVE  /\ Len(table) \in Nat
         /\ table' \in Seq(Request)
         /\ DOMAIN table = 1..Len(table) /\ DOMAIN table' = 1..(Len(table) + 1)
         /\ \A i \in DOMAIN table : table'[i] = table[i]
         /\ table'[Len(table) + 1].call = asker[w].call
         /\ table'[Len(table) + 1].status = "PENDING"
         /\ table'[Len(table) + 1].by = w
         /\ RowsKept
  <1> DEFINE n   == Len(table)
             new == [call |-> asker[w].call, status |-> "PENDING",
                     expires |-> now + TTL, by |-> w]
  <1>1. new \in Request
    BY ApprovalsAssumption DEF QueueTypeOK, Request, Statuses
  <1>2. table \in Seq(Request) /\ table' = Append(table, new)
    BY DEF QueueTypeOK, Create
  <1>3. new.call = asker[w].call /\ new.status = "PENDING" /\ new.by = w
    OBVIOUS
  <1> HIDE DEF new
  <1>4. /\ n \in Nat
        /\ table' \in Seq(Request)
        /\ DOMAIN table = 1..n /\ DOMAIN table' = 1..(n + 1)
        /\ \A i \in DOMAIN table : table'[i] = table[i]
        /\ table'[n + 1] = new
    BY <1>1, <1>2
  <1>5. RowsKept
    BY <1>4 DEF RowsKept
  <1> QED BY <1>3, <1>4, <1>5

\* The UPDATE of set_approval changes the status of one row.
LEMMA UpdateEffect ==
  ASSUME QueueTypeOK, NEW o \in Operators, Update(o)
  PROVE  /\ table' \in Seq(Request)
         /\ DOMAIN table' = DOMAIN table
         /\ RowsKept
         /\ \A i \in DOMAIN table :
              table'[i].status = IF i = oper[o].id THEN oper[o].wish ELSE table[i].status
  <1>1. table \in Seq(Request) /\ oper[o].wish \in Wishes
    BY DEF QueueTypeOK, OperState
  <1>2. CASE oper[o].id \in DOMAIN table
    <2> DEFINE new == [table[oper[o].id] EXCEPT !.status = oper[o].wish]
    <2>1. table' = [table EXCEPT ![oper[o].id] = new]
      BY <1>2 DEF Update
    <2>2. table[oper[o].id] \in Request
      BY <1>1, <1>2
    <2>3. new \in Request
      BY <1>1, <2>2 DEF Request, Statuses, Wishes
    <2>4. /\ new.call = table[oper[o].id].call
          /\ new.expires = table[oper[o].id].expires
          /\ new.by = table[oper[o].id].by
          /\ new.status = oper[o].wish
      BY <2>2 DEF Request
    <2> HIDE DEF new
    <2>5. /\ table' \in Seq(Request)
          /\ DOMAIN table' = DOMAIN table
          /\ \A i \in DOMAIN table : table'[i] = IF i = oper[o].id THEN new ELSE table[i]
      BY <1>1, <1>2, <2>1, <2>3
    <2> QED BY <2>4, <2>5 DEF RowsKept
  <1>3. CASE oper[o].id \notin DOMAIN table
    BY <1>1, <1>3 DEF Update, RowsKept
  <1> QED BY <1>2, <1>3

\* A worker that moves on keeps its call and its id, and the others stay.
LEMMA MovesEffect ==
  ASSUME QueueTypeOK, NEW w \in Workers, NEW stage \in WorkerStages, Moves(w, stage)
  PROVE  /\ asker' \in [Workers -> AskerState]
         /\ asker'[w].at = stage /\ asker'[w].id = asker[w].id
         /\ asker'[w].call = asker[w].call
         /\ \A v \in Workers : v # w => asker'[v] = asker[v]
  <1>1. asker \in [Workers -> AskerState] /\ asker[w] \in AskerState
    BY DEF QueueTypeOK
  <1>2. [asker[w] EXCEPT !.at = stage] \in AskerState
    BY <1>1 DEF AskerState
  <1>3. asker' = [asker EXCEPT ![w] = [asker[w] EXCEPT !.at = stage]]
    BY DEF Moves
  <1> QED BY <1>1, <1>2, <1>3 DEF AskerState

\* Found: the worker leaves with the number of a row.
LEMMA FindsEffect ==
  ASSUME QueueTypeOK, NEW w \in Workers, NEW stage \in WorkerStages, NEW i \in Nat,
         asker' = [asker EXCEPT ![w].at = stage, ![w].id = i]
  PROVE  /\ asker' \in [Workers -> AskerState]
         /\ asker'[w].at = stage /\ asker'[w].id = i
         /\ asker'[w].call = asker[w].call
         /\ \A v \in Workers : v # w => asker'[v] = asker[v]
  <1>1. asker \in [Workers -> AskerState] /\ asker[w] \in AskerState
    BY DEF QueueTypeOK
  <1> DEFINE new == [[asker[w] EXCEPT !.at = stage] EXCEPT !.id = i]
  <1>2. new \in AskerState
    BY <1>1 DEF AskerState
  <1>3. new.at = stage /\ new.id = i /\ new.call = asker[w].call
    BY <1>1 DEF AskerState
  <1>4. asker' = [asker EXCEPT ![w] = new]
    BY <1>1
  <1> HIDE DEF new
  <1> QED BY <1>1, <1>2, <1>3, <1>4

\* An operator that moves on keeps its request and its wish.
LEMMA OperMoves ==
  ASSUME QueueTypeOK, NEW o \in Operators, NEW stage \in OperatorStages,
         oper' = [oper EXCEPT ![o].at = stage]
  PROVE  /\ oper' \in [Operators -> OperState]
         /\ oper'[o].at = stage /\ oper'[o].id = oper[o].id
         /\ oper'[o].wish = oper[o].wish
         /\ \A p \in Operators : p # o => oper'[p] = oper[p]
  <1>1. oper \in [Operators -> OperState] /\ oper[o] \in OperState
    BY DEF QueueTypeOK
  <1>2. [oper[o] EXCEPT !.at = stage] \in OperState
    BY <1>1 DEF OperState
  <1>3. oper' = [oper EXCEPT ![o] = [oper[o] EXCEPT !.at = stage]]
    OBVIOUS
  <1> QED BY <1>1, <1>2, <1>3 DEF OperState

\* An operator that is done leaves the others as they are.
LEMMA OperLeaves ==
  ASSUME QueueTypeOK, NEW o \in Operators, Leaves(o)
  PROVE  /\ oper' \in [Operators -> OperState]
         /\ oper'[o].at = "idle"
         /\ \A p \in Operators : p # o => oper'[p] = oper[p]
  BY DEF Leaves, AtRest, QueueTypeOK, OperState, OperatorStages, Wishes

-----------------------------------------------------------------------------
(***************************************************************************)
(* QueueInv is inductive.  The invariant's parts follow from what a step   *)
(* does to the rows (RowsKept), so the parts that a group of actions       *)
(* leaves alone are settled together.                                      *)
(***************************************************************************)

\* Nobody's row or history is lost: what was true of a found request stays true.
LEMMA OutcomeKept ==
  ASSUME QueueInv, RowsKept, consented \subseteq consented', NEW v \in Workers,
         asker'[v] = asker[v]
  PROVE  /\ asker'[v].at \in {"granted", "waiting"} =>
              /\ asker'[v].id \in DOMAIN table'
              /\ table'[asker'[v].id].call = asker'[v].call
         /\ asker'[v].at = "granted" => asker'[v].id \in consented'
  BY DEF QueueInv, OutcomeFitsCall, RowsKept

\* A worker's sweep (Ask, SweepAgain) or an operator's (Decide).
LEMMA SweepKeeps ==
  ASSUME QueueInv, SweepExpired, UNCHANGED <<now, consented>>
  PROVE  ApprovedWasChecked' /\ LapsedIsPast' /\ lapsed' \subseteq DOMAIN table'
  <1>1. QueueTypeOK
    BY DEF QueueInv
  <1>2. ApprovedWasChecked'
    BY <1>1, SweepEffect DEF QueueInv, ApprovedWasChecked
  <1>3. lapsed' \subseteq DOMAIN table'
    BY <1>1, SweepEffect DEF QueueTypeOK
  <1>4. \A i \in Overdue(table) : table[i].expires < now
    BY DEF Overdue
  <1>5. LapsedIsPast'
    BY <1>1, <1>4, SweepEffect DEF QueueInv, QueueTypeOK, LapsedIsPast, RowsKept
  <1> QED BY <1>2, <1>3, <1>5

\* The sweep that opens find_approved_grant keeps QueueInv.
LEMMA InvAsk ==
  ASSUME QueueInv, NEW w \in Workers, NEW c \in Calls, Ask(w, c)
  PROVE  QueueInv'
  <1>1. QueueTypeOK /\ SweepExpired /\ UNCHANGED <<now, oper, recorded, consented>>
    BY DEF QueueInv, Ask
  <1>2. /\ table' \in Seq(Request) /\ DOMAIN table' = DOMAIN table /\ RowsKept
        /\ ApprovedWasChecked' /\ LapsedIsPast' /\ lapsed' \subseteq DOMAIN table'
    BY <1>1, SweepEffect, SweepKeeps
  <1>3. /\ asker' \in [Workers -> AskerState]
        /\ asker'[w].at = "lookup" /\ asker'[w].call = c
        /\ \A v \in Workers : v # w => asker'[v] = asker[v]
    BY <1>1 DEF Ask, QueueTypeOK, AskerState, WorkerStages
  <1>4. QueueTypeOK' /\ AskerHasCall'
    BY <1>1, <1>2, <1>3 DEF QueueTypeOK, QueueInv, AskerHasCall
  <1>5. OutcomeFitsCall'
    BY <1>1, <1>2, <1>3, OutcomeKept DEF OutcomeFitsCall
  <1> QED
    BY <1>1, <1>2, <1>4, <1>5 DEF QueueInv, ApproverHasChecked, RecorderKnowsRow

\* The sweep that opens find_pending_request keeps QueueInv.
LEMMA InvSweepAgain ==
  ASSUME QueueInv, NEW w \in Workers, SweepAgain(w)
  PROVE  QueueInv'
  <1>1. /\ QueueTypeOK /\ SweepExpired /\ UNCHANGED <<now, oper, recorded, consented>>
        /\ Moves(w, "search") /\ "search" \in WorkerStages
    BY DEF QueueInv, SweepAgain, WorkerStages
  <1>2. /\ table' \in Seq(Request) /\ DOMAIN table' = DOMAIN table /\ RowsKept
        /\ ApprovedWasChecked' /\ LapsedIsPast' /\ lapsed' \subseteq DOMAIN table'
    BY <1>1, SweepEffect, SweepKeeps
  <1>3. /\ asker' \in [Workers -> AskerState]
        /\ asker'[w].at = "search" /\ asker'[w].call = asker[w].call
        /\ \A v \in Workers : v # w => asker'[v] = asker[v]
    BY <1>1, MovesEffect
  <1>4. QueueTypeOK' /\ AskerHasCall'
    BY <1>1, <1>2, <1>3 DEF QueueTypeOK, SweepAgain, QueueInv, AskerHasCall
  <1>5. OutcomeFitsCall'
    BY <1>1, <1>2, <1>3, OutcomeKept DEF OutcomeFitsCall
  <1> QED
    BY <1>1, <1>2, <1>4, <1>5 DEF QueueInv, ApproverHasChecked, RecorderKnowsRow

\* A step of one worker that writes no row: asker[w] is all it changes.
LEMMA InvAskerOnly ==
  ASSUME QueueInv, NEW w \in Workers,
         UNCHANGED <<table, now, oper, recorded, consented, lapsed>>,
         asker' \in [Workers -> AskerState],
         \A v \in Workers : v # w => asker'[v] = asker[v],
         asker'[w].at # "idle" => asker'[w].call \in Calls,
         asker'[w].at \in {"granted", "waiting"} =>
           /\ asker'[w].id \in DOMAIN table
           /\ table[asker'[w].id].call = asker'[w].call,
         asker'[w].at = "granted" => asker'[w].id \in consented
  PROVE  QueueInv'
  <1>1. QueueTypeOK' /\ AskerHasCall'
    BY DEF QueueInv, QueueTypeOK, AskerHasCall
  <1>2. OutcomeFitsCall'
    BY DEF QueueInv, OutcomeFitsCall
  <1> QED
    BY <1>1, <1>2 DEF QueueInv, ApprovedWasChecked, ApproverHasChecked,
                      RecorderKnowsRow, LapsedIsPast

\* The lookup of a grant keeps QueueInv: what it finds is approved, so it was checked.
LEMMA InvLookUp ==
  ASSUME QueueInv, NEW w \in Workers, LookUp(w)
  PROVE  QueueInv'
  <1>1. /\ QueueTypeOK /\ asker[w].call \in Calls
        /\ UNCHANGED <<table, now, oper, recorded, consented, lapsed>>
    BY DEF QueueInv, AskerHasCall, LookUp
  <1>2. ASSUME NEW i \in Grants(asker[w].call),
               asker' = [asker EXCEPT ![w].at = "granted", ![w].id = i]
        PROVE  QueueInv'
    <2>1. /\ i \in DOMAIN table /\ i \in Nat
          /\ table[i].call = asker[w].call /\ i \in consented
      BY <1>1, <1>2 DEF Grants, QueueInv, ApprovedWasChecked, QueueTypeOK
    <2>2. /\ asker' \in [Workers -> AskerState]
          /\ asker'[w].at = "granted" /\ asker'[w].id = i
          /\ asker'[w].call = asker[w].call
          /\ \A v \in Workers : v # w => asker'[v] = asker[v]
      BY <1>1, <1>2, <2>1, FindsEffect DEF WorkerStages
    <2> QED BY <1>1, <2>1, <2>2, InvAskerOnly
  <1>3. CASE Moves(w, "sweep")
    <2>1. /\ asker' \in [Workers -> AskerState] /\ asker'[w].at = "sweep"
          /\ asker'[w].call = asker[w].call
          /\ \A v \in Workers : v # w => asker'[v] = asker[v]
      BY <1>1, <1>3, MovesEffect DEF WorkerStages
    <2> QED BY <1>1, <2>1, InvAskerOnly
  <1> QED BY <1>2, <1>3 DEF LookUp

\* The search for a pending request keeps QueueInv.
LEMMA InvSearch ==
  ASSUME QueueInv, NEW w \in Workers, Search(w)
  PROVE  QueueInv'
  <1>1. /\ QueueTypeOK /\ asker[w].call \in Calls
        /\ UNCHANGED <<table, now, oper, recorded, consented, lapsed>>
    BY DEF QueueInv, AskerHasCall, Search
  <1>2. ASSUME NEW i \in PendingFor(asker[w].call),
               asker' = [asker EXCEPT ![w].at = "waiting", ![w].id = i]
        PROVE  QueueInv'
    <2>1. i \in DOMAIN table /\ i \in Nat /\ table[i].call = asker[w].call
      BY <1>1, <1>2 DEF PendingFor, QueueTypeOK
    <2>2. /\ asker' \in [Workers -> AskerState]
          /\ asker'[w].at = "waiting" /\ asker'[w].id = i
          /\ asker'[w].call = asker[w].call
          /\ \A v \in Workers : v # w => asker'[v] = asker[v]
      BY <1>1, <1>2, <2>1, FindsEffect DEF WorkerStages
    <2> QED BY <1>1, <2>1, <2>2, InvAskerOnly
  <1>3. CASE Moves(w, "create")
    <2>1. /\ asker' \in [Workers -> AskerState] /\ asker'[w].at = "create"
          /\ asker'[w].call = asker[w].call
          /\ \A v \in Workers : v # w => asker'[v] = asker[v]
      BY <1>1, <1>3, MovesEffect DEF WorkerStages
    <2> QED BY <1>1, <2>1, InvAskerOnly
  <1> QED BY <1>2, <1>3 DEF Search

\* The failures, and the end of the workflow.
LEMMA InvGivesUp ==
  ASSUME QueueInv, NEW w \in Workers,
         \/ \E c \in Calls : AskFails(w, c)
         \/ LookUpFails(w) \/ SearchFails(w) \/ CreateFails(w) \/ Finish(w)
  PROVE  QueueInv'
  <1>1. QueueTypeOK
    BY DEF QueueInv
  <1>2. UNCHANGED <<table, now, oper, recorded, consented, lapsed>>
    BY DEF AskFails, LookUpFails, SearchFails, CreateFails, Finish
  <1>3. ASSUME NEW c \in Calls, AskFails(w, c)
        PROVE  QueueInv'
    <2>1. /\ asker' \in [Workers -> AskerState]
          /\ asker'[w].at = "held" /\ asker'[w].call = c
          /\ \A v \in Workers : v # w => asker'[v] = asker[v]
      BY <1>1, <1>3 DEF AskFails, QueueTypeOK, AskerState, WorkerStages
    <2> QED BY <1>2, <2>1, InvAskerOnly
  <1>4. CASE Finish(w)
    <2>1. /\ asker' \in [Workers -> AskerState]
          /\ asker'[w].at = "idle"
          /\ \A v \in Workers : v # w => asker'[v] = asker[v]
      BY <1>1, <1>4 DEF Finish, NotAsking, QueueTypeOK, AskerState, WorkerStages
    <2> QED BY <1>2, <2>1, InvAskerOnly
  <1>5. ASSUME NEW stage \in {"held", "create", "unavailable"},
               asker[w].at # "idle", Moves(w, stage)
        PROVE  QueueInv'
    <2>1. /\ asker' \in [Workers -> AskerState] /\ asker'[w].at = stage
          /\ asker'[w].call = asker[w].call
          /\ \A v \in Workers : v # w => asker'[v] = asker[v]
      BY <1>1, <1>5, MovesEffect DEF WorkerStages
    <2>2. asker[w].call \in Calls
      BY <1>5 DEF QueueInv, AskerHasCall
    <2> QED BY <1>2, <2>1, <2>2, InvAskerOnly
  <1> QED BY <1>3, <1>4, <1>5 DEF LookUpFails, SearchFails, CreateFails

\* create_approval keeps QueueInv.
LEMMA InvCreate ==
  ASSUME QueueInv, NEW w \in Workers, Create(w)
  PROVE  QueueInv'
  <1> DEFINE n == Len(table)
  <1>1. /\ QueueTypeOK /\ asker[w].call \in Calls
        /\ UNCHANGED <<now, oper, recorded, consented, lapsed>>
    BY DEF QueueInv, AskerHasCall, Create
  <1>2. /\ n \in Nat /\ table' \in Seq(Request)
        /\ DOMAIN table = 1..n /\ DOMAIN table' = 1..(n + 1)
        /\ \A i \in 1..n : table'[i] = table[i]
        /\ table'[n + 1].call = asker[w].call /\ table'[n + 1].status = "PENDING"
        /\ RowsKept
    BY <1>1, CreateEffect
  <1>3. /\ n + 1 \in Nat /\ "waiting" \in WorkerStages
        /\ asker' = [asker EXCEPT ![w].at = "waiting", ![w].id = n + 1]
    BY <1>2 DEF Create, WorkerStages
  <1>4. /\ asker' \in [Workers -> AskerState]
        /\ asker'[w].at = "waiting" /\ asker'[w].id = n + 1
        /\ asker'[w].call = asker[w].call
        /\ \A v \in Workers : v # w => asker'[v] = asker[v]
    BY <1>1, <1>3, FindsEffect
  <1>5. QueueTypeOK'
    BY <1>1, <1>2, <1>4 DEF QueueTypeOK
  <1>6. AskerHasCall'
    BY <1>1, <1>4 DEF QueueInv, AskerHasCall
  <1>7. OutcomeFitsCall'
    BY <1>1, <1>2, <1>4, OutcomeKept DEF OutcomeFitsCall
  <1>8. ApprovedWasChecked' /\ LapsedIsPast'
    BY <1>1, <1>2 DEF QueueInv, QueueTypeOK, ApprovedWasChecked, LapsedIsPast
  <1>9. ApproverHasChecked' /\ RecorderKnowsRow'
    BY <1>1, <1>2 DEF QueueInv, ApproverHasChecked, RecorderKnowsRow
  <1> QED BY <1>5, <1>6, <1>7, <1>8, <1>9 DEF QueueInv

\* The sweep that opens set_approval keeps QueueInv.
LEMMA InvDecide ==
  ASSUME QueueInv, NEW o \in Operators, OperatorActs(o)
  PROVE  QueueInv'
  <1>1. PICK id \in DOMAIN table \cup {0}, wish \in Wishes : Decide(o, id, wish)
    BY DEF OperatorActs
  <1>2. /\ QueueTypeOK /\ SweepExpired /\ id \in Nat
        /\ UNCHANGED <<now, asker, recorded, consented>>
    BY <1>1 DEF QueueInv, QueueTypeOK, Decide
  <1>3. /\ table' \in Seq(Request) /\ DOMAIN table' = DOMAIN table /\ RowsKept
        /\ ApprovedWasChecked' /\ LapsedIsPast' /\ lapsed' \subseteq DOMAIN table'
    BY <1>2, SweepEffect, SweepKeeps
  <1>4. /\ oper' \in [Operators -> OperState]
        /\ oper'[o].wish = "APPROVED" => oper'[o].at = "check"
        /\ oper'[o].at # "record"
        /\ \A p \in Operators : p # o => oper'[p] = oper[p]
    BY <1>1, <1>2 DEF Decide, QueueTypeOK, OperState, OperatorStages
  <1>5. QueueTypeOK' /\ AskerHasCall'
    BY <1>2, <1>3, <1>4 DEF QueueInv, QueueTypeOK, AskerHasCall
  <1>6. OutcomeFitsCall'
    BY <1>2, <1>3, OutcomeKept DEF OutcomeFitsCall
  <1>7. ApproverHasChecked' /\ RecorderKnowsRow'
    BY <1>2, <1>3, <1>4 DEF QueueInv, ApproverHasChecked, RecorderKnowsRow
  <1> QED BY <1>3, <1>5, <1>6, <1>7 DEF QueueInv

\* A step of one operator that changes the status of no row.
LEMMA InvOperOnly ==
  ASSUME QueueInv, NEW o \in Operators,
         UNCHANGED <<table, now, asker, lapsed>>,
         oper' \in [Operators -> OperState],
         \A p \in Operators : p # o => oper'[p] = oper[p],
         oper'[o].at # "record",
         recorded' \subseteq RowIds \X Wishes,
         consented \subseteq consented', consented' \subseteq DOMAIN table,
         oper'[o].at = "update" /\ oper'[o].wish = "APPROVED" => oper'[o].id \in consented'
  PROVE  QueueInv'
  <1>1. QueueTypeOK'
    BY DEF QueueInv, QueueTypeOK
  <1>2. ApproverHasChecked' /\ RecorderKnowsRow' /\ ApprovedWasChecked'
    BY DEF QueueInv, ApproverHasChecked, RecorderKnowsRow, ApprovedWasChecked
  <1>3. AskerHasCall' /\ LapsedIsPast' /\ OutcomeFitsCall'
    BY DEF QueueInv, AskerHasCall, LapsedIsPast, OutcomeFitsCall
  <1> QED BY <1>1, <1>2, <1>3 DEF QueueInv

\* The check of set_approval keeps QueueInv.
LEMMA InvCheck ==
  ASSUME QueueInv, NEW o \in Operators, Check(o)
  PROVE  QueueInv'
  <1>1. /\ QueueTypeOK /\ UNCHANGED <<table, now, asker, recorded, lapsed>>
        /\ "update" \in OperatorStages
    BY DEF QueueInv, Check, OperatorStages
  <1>2. CASE /\ Approvable(oper[o].id)
             /\ oper' = [oper EXCEPT ![o].at = "update"]
             /\ consented' = consented \cup {oper[o].id}
    <2>1. /\ oper' \in [Operators -> OperState]
          /\ oper'[o].at = "update" /\ oper'[o].id = oper[o].id
          /\ \A p \in Operators : p # o => oper'[p] = oper[p]
      BY <1>1, <1>2, OperMoves
    <2>2. consented \subseteq consented' /\ consented' \subseteq DOMAIN table
      BY <1>1, <1>2 DEF Approvable, QueueTypeOK
    <2>3. recorded' \subseteq RowIds \X Wishes
      BY <1>1 DEF QueueTypeOK
    <2> QED BY <1>1, <1>2, <2>1, <2>2, <2>3, InvOperOnly
  <1>3. CASE Leaves(o) /\ UNCHANGED consented
    <2>1. /\ oper' \in [Operators -> OperState]
          /\ oper'[o].at = "idle"
          /\ \A p \in Operators : p # o => oper'[p] = oper[p]
      BY <1>1, <1>3, OperLeaves
    <2>2. consented' \subseteq DOMAIN table /\ recorded' \subseteq RowIds \X Wishes
      BY <1>1, <1>3 DEF QueueTypeOK
    <2> QED BY <1>1, <1>3, <2>1, <2>2, InvOperOnly
  <1> QED BY <1>2, <1>3 DEF Check

\* The UPDATE of set_approval keeps QueueInv: an approval it writes was checked.
LEMMA InvUpdate ==
  ASSUME QueueInv, NEW o \in Operators, Update(o)
  PROVE  QueueInv'
  <1>1. /\ QueueTypeOK /\ UNCHANGED <<now, asker, recorded, consented, lapsed>>
        /\ "record" \in OperatorStages /\ oper[o].at = "update"
    BY DEF QueueInv, Update, OperatorStages
  <1>2. /\ table' \in Seq(Request) /\ DOMAIN table' = DOMAIN table /\ RowsKept
        /\ \A i \in DOMAIN table :
             table'[i].status = IF i = oper[o].id THEN oper[o].wish ELSE table[i].status
    BY <1>1, UpdateEffect
  <1>3. /\ oper' \in [Operators -> OperState]
        /\ oper'[o].at \in {"idle", "record"}
        /\ oper'[o].at = "record" => oper'[o].id \in DOMAIN table
        /\ \A p \in Operators : p # o => oper'[p] = oper[p]
    <2>1. CASE oper[o].id \in DOMAIN table /\ oper' = [oper EXCEPT ![o].at = "record"]
      BY <1>1, <2>1, OperMoves
    <2>2. CASE Leaves(o)
      BY <1>1, <2>2, OperLeaves
    <2> QED BY <2>1, <2>2 DEF Update
  <1>4. QueueTypeOK' /\ AskerHasCall'
    BY <1>1, <1>2, <1>3 DEF QueueInv, QueueTypeOK, AskerHasCall
  <1>5. OutcomeFitsCall'
    BY <1>1, <1>2, OutcomeKept DEF OutcomeFitsCall
  <1>6. ApprovedWasChecked'
    BY <1>1, <1>2 DEF QueueInv, ApprovedWasChecked, ApproverHasChecked
  <1>7. LapsedIsPast'
    BY <1>1, <1>2 DEF QueueInv, QueueTypeOK, LapsedIsPast, RowsKept
  <1>8. ApproverHasChecked' /\ RecorderKnowsRow'
    BY <1>1, <1>2, <1>3 DEF QueueInv, ApproverHasChecked, RecorderKnowsRow
  <1> QED BY <1>4, <1>5, <1>6, <1>7, <1>8 DEF QueueInv

\* The audit event of a decision, or its loss, keeps QueueInv.
LEMMA InvRecord ==
  ASSUME QueueInv, NEW o \in Operators, Record(o) \/ Crash(o)
  PROVE  QueueInv'
  <1>1. /\ QueueTypeOK /\ Leaves(o) /\ UNCHANGED <<table, now, asker, consented, lapsed>>
    BY DEF QueueInv, Record, Crash
  <1>2. /\ oper' \in [Operators -> OperState]
        /\ oper'[o].at = "idle"
        /\ \A p \in Operators : p # o => oper'[p] = oper[p]
    BY <1>1, OperLeaves
  <1>3. recorded' \subseteq RowIds \X Wishes
    <2>1. CASE Record(o)
      <3>1. oper[o].id \in DOMAIN table
        BY <2>1 DEF Record, QueueInv, RecorderKnowsRow
      <3>2. oper[o].id \in RowIds /\ oper[o].wish \in Wishes
        BY <1>1, <3>1 DEF QueueTypeOK, OperState, RowIds
      <3> QED BY <1>1, <2>1, <3>2 DEF Record, QueueTypeOK
    <2>2. CASE Crash(o)
      BY <1>1, <2>2 DEF Crash, QueueTypeOK
    <2> QED BY <2>1, <2>2
  <1>4. consented' \subseteq DOMAIN table
    BY <1>1 DEF QueueTypeOK
  <1> QED BY <1>1, <1>2, <1>3, <1>4, InvOperOnly

\* The passing of time keeps QueueInv: what has lapsed stays past.
LEMMA InvTick ==
  ASSUME QueueInv, Tick
  PROVE  QueueInv'
  <1>1. QueueTypeOK'
    BY ApprovalsAssumption DEF QueueInv, QueueTypeOK, Tick
  <1>2. LapsedIsPast'
    <2>1. /\ table \in Seq(Request) /\ now \in Nat /\ now' = now + 1
          /\ lapsed \subseteq DOMAIN table /\ UNCHANGED <<table, lapsed>>
      BY DEF QueueInv, QueueTypeOK, Tick
    <2>2. \A i \in lapsed : table[i] \in Request
      BY <2>1
    <2>3. \A i \in lapsed : table[i].expires \in Nat
      BY <2>2 DEF Request
    <2> QED BY <2>1, <2>3 DEF QueueInv, LapsedIsPast
  <1> QED
    BY <1>1, <1>2 DEF Tick, QueueInv, AskerHasCall, ApprovedWasChecked,
                      ApproverHasChecked, RecorderKnowsRow, OutcomeFitsCall

\* The empty queue satisfies QueueInv.
LEMMA InvInit == QueueInit => QueueInv
  <1> SUFFICES ASSUME QueueInit PROVE QueueInv
    OBVIOUS
  <1>1. QueueTypeOK
    BY ApprovalsAssumption
    DEF QueueInit, QueueTypeOK, NotAsking, AskerState, WorkerStages, AtRest,
        OperState, OperatorStages, Wishes
  <1> QED
    BY <1>1 DEF QueueInit, QueueInv, NotAsking, AtRest, AskerHasCall,
                ApprovedWasChecked, ApproverHasChecked, RecorderKnowsRow,
                LapsedIsPast, OutcomeFitsCall

\* Every step of the queue keeps QueueInv.
LEMMA InvStep ==
  ASSUME QueueInv, QueueStep \/ UNCHANGED queueVars
  PROVE  QueueInv'
  <1>1. ASSUME NEW w \in Workers, NEW c \in Calls, Ask(w, c) \/ AskFails(w, c)
        PROVE  QueueInv'
    BY <1>1, InvAsk, InvGivesUp
  <1>2. ASSUME NEW w \in Workers, WorkerStep(w) \/ Finish(w)
        PROVE  QueueInv'
    BY <1>2, InvLookUp, InvSweepAgain, InvSearch, InvCreate, InvGivesUp DEF WorkerStep
  <1>3. ASSUME NEW o \in Operators, OperatorActs(o) \/ OperatorStep(o)
        PROVE  QueueInv'
    BY <1>3, InvDecide, InvCheck, InvUpdate, InvRecord DEF OperatorStep
  <1>4. CASE UNCHANGED queueVars
    BY <1>4 DEF queueVars, QueueInv, QueueTypeOK, AskerHasCall, ApprovedWasChecked,
                ApproverHasChecked, RecorderKnowsRow, LapsedIsPast, OutcomeFitsCall
  <1> QED BY <1>1, <1>2, <1>3, <1>4, InvTick DEF QueueStep

\* No step removes a row or takes a consent back.
LEMMA RowsStay ==
  ASSUME QueueInv, QueueStep \/ UNCHANGED queueVars
  PROVE  RowsKept /\ consented \subseteq consented'
  <1>1. QueueTypeOK
    BY DEF QueueInv
  <1>2. SweepExpired => RowsKept
    BY <1>1, SweepEffect
  <1>3. table' = table => RowsKept
    BY DEF RowsKept
  <1>4. ASSUME NEW w \in Workers, Create(w)
        PROVE  RowsKept
    BY <1>1, <1>4, CreateEffect DEF QueueInv, AskerHasCall, Create
  <1>5. ASSUME NEW o \in Operators, Update(o)
        PROVE  RowsKept
    BY <1>1, <1>5, UpdateEffect
  <1>6. RowsKept
    BY <1>2, <1>3, <1>4, <1>5
    DEF QueueStep, WorkerStep, OperatorStep, OperatorActs, Ask, AskFails, LookUp,
        LookUpFails, SweepAgain, Search, SearchFails, CreateFails, Finish, Decide,
        Check, Record, Crash, Tick, queueVars
  <1>7. consented \subseteq consented'
    BY DEF QueueStep, WorkerStep, OperatorStep, OperatorActs, Ask, AskFails, LookUp,
           LookUpFails, SweepAgain, Search, SearchFails, Create, CreateFails, Finish,
           Decide, Check, Update, Record, Crash, Tick, queueVars
  <1> QED BY <1>6, <1>7

\* The bound on rows, which is there for TLC, only takes steps away: what is proved
\* of the unbounded queue below holds of the one that is model-checked.
THEOREM BoundOnlyRestricts == QueueSpec => UnboundedQueue
  BY PTL DEF QueueSpec, UnboundedQueue, QueueNext

\* The invariant of the queue holds throughout, whatever fails.
THEOREM QueueInvariant == UnboundedQueue => []QueueInv
  <1>1. QueueInv /\ [QueueStep]_queueVars => QueueInv'
    BY InvStep
  <1> QED BY <1>1, InvInit, PTL DEF UnboundedQueue

-----------------------------------------------------------------------------
(* The properties *)

\* Rows, stages and histories keep their types, and the histories speak of
\* requests that exist (all of Approvals).
THEOREM QueueTypeCorrect == UnboundedQueue => []QueueTypeOK
  BY QueueInvariant, PTL DEF QueueInv

\* A grant or a request id that a worker uses is for the identical call, and a
\* grant had passed an operator's check (find_approved_grant, set_approval).
THEOREM ConsentTheorem == UnboundedQueue => []OutcomeFitsCall
  BY QueueInvariant, PTL DEF QueueInv

\* No expired request is ever honoured (find_approved_grant), though one may be
\* approved after its expiry.
THEOREM LapsedTheorem == UnboundedQueue => LapsedNeverHonoured
  <1>1. ASSUME QueueInv, QueueStep, NEW w \in Workers,
               asker[w].at # "granted", asker'[w].at = "granted"
        PROVE  asker'[w].id \notin lapsed'
    <2>1. QueueTypeOK /\ QueueStep
      BY <1>1 DEF QueueInv
    <2>2. ASSUME NEW v \in Workers, NEW stage \in WorkerStages, Moves(v, stage),
                 stage # "granted"
          PROVE  FALSE
      BY <1>1, <2>1, <2>2, MovesEffect
    <2>3. ASSUME NEW v \in Workers, LookUp(v)
          PROVE  asker'[w].id \notin lapsed'
      <3>1. PICK i \in Grants(asker[v].call) :
              asker' = [asker EXCEPT ![v].at = "granted", ![v].id = i]
        BY <2>2, <2>3 DEF LookUp, WorkerStages
      <3>2. i \in Nat /\ table[i].expires > now /\ i \in DOMAIN table
        BY <2>1, <3>1 DEF Grants, QueueTypeOK
      <3>3. /\ asker'[v].id = i
            /\ \A u \in Workers : u # v => asker'[u] = asker[u]
        BY <2>1, <3>1, <3>2, FindsEffect DEF WorkerStages
      <3>4. v = w
        BY <1>1, <3>3
      <3>5. table[i].expires \in Nat /\ now \in Nat
        <4>1. table[i] \in Request
          BY <2>1, <3>2 DEF QueueTypeOK
        <4> QED BY <2>1, <4>1 DEF QueueTypeOK, Request
      <3>6. i \notin lapsed
        BY <1>1, <3>2, <3>5 DEF QueueInv, LapsedIsPast
      <3> QED BY <2>3, <3>3, <3>4, <3>6 DEF LookUp
    <2>4. ASSUME NEW v \in Workers,
                 \/ \E c \in Calls : Ask(v, c) \/ AskFails(v, c)
                 \/ Finish(v)
          PROVE  FALSE
      BY <1>1, <2>1, <2>4 DEF Ask, AskFails, Finish, NotAsking, QueueTypeOK
    <2>5. ASSUME NEW v \in Workers, Search(v) \/ Create(v)
          PROVE  FALSE
      <3>1. CASE Moves(v, "create")
        BY <2>2, <3>1 DEF WorkerStages
      <3>2. ASSUME NEW i \in Nat, asker' = [asker EXCEPT ![v].at = "waiting", ![v].id = i]
            PROVE  FALSE
        BY <1>1, <2>1, <3>2, FindsEffect DEF WorkerStages
      <3>3. /\ \A i \in DOMAIN table : i \in Nat
            /\ Len(table) + 1 \in Nat
        BY <2>1 DEF QueueTypeOK
      <3>4. CASE Search(v)
        BY <3>1, <3>2, <3>3, <3>4 DEF Search, PendingFor
      <3>5. CASE Create(v)
        BY <3>2, <3>3, <3>5 DEF Create
      <3> QED BY <2>5, <3>4, <3>5
    <2>6. ASSUME NEW v \in Workers,
                 LookUpFails(v) \/ SweepAgain(v) \/ SearchFails(v) \/ CreateFails(v)
          PROVE  FALSE
      BY <2>2, <2>6 DEF LookUpFails, SweepAgain, SearchFails, CreateFails, WorkerStages
    <2>7. CASE Tick \/ \E o \in Operators : OperatorActs(o) \/ OperatorStep(o)
      BY <1>1, <2>7 DEF Tick, OperatorActs, OperatorStep, Decide, Check, Update,
                        Record, Crash
    <2> QED
      BY <2>1, <2>3, <2>4, <2>5, <2>6, <2>7 DEF QueueStep, WorkerStep
  <1>2. QueueInv /\ [QueueStep]_queueVars =>
          [\A w \in Workers :
             asker[w].at # "granted" /\ asker'[w].at = "granted"
               => asker'[w].id \notin lapsed']_queueVars
    BY <1>1
  <1> QED BY <1>2, QueueInvariant, PTL DEF UnboundedQueue, LapsedNeverHonoured

-----------------------------------------------------------------------------
(***************************************************************************)
(* No duplicates of one worker's making, when the database does not fail:  *)
(* those PendingReused is violated by are of two workers.  OnePerWorker is *)
(* not inductive: a worker that is about to create must have no pending    *)
(* request of the same call, which the search has just established and     *)
(* which no other worker can change.                                       *)
(***************************************************************************)
OnePerWorker ==
  \A i, j \in DOMAIN table :
    i # j /\ table[i].status = "PENDING" /\ table[j].status = "PENDING"
      /\ table[i].call = table[j].call
        => table[i].by # table[j].by

CreatorHasNone ==
  \A w \in Workers : asker[w].at = "create" =>
    \A i \in DOMAIN table :
      table[i].status = "PENDING" /\ table[i].call = asker[w].call => table[i].by # w

SecondInv == OnePerWorker /\ CreatorHasNone

\* Nothing becomes pending, and nobody gets as far as creating.
LEMMA SecondKept ==
  ASSUME SecondInv, RowsKept, DOMAIN table' = DOMAIN table,
         \A i \in DOMAIN table : table'[i].status = "PENDING" => table[i].status = "PENDING",
         \A w \in Workers : asker'[w].at = "create" => asker'[w] = asker[w]
  PROVE  SecondInv'
  <1>1. OnePerWorker'
    BY DEF SecondInv, OnePerWorker, RowsKept
  <1>2. CreatorHasNone'
    BY DEF SecondInv, CreatorHasNone, RowsKept
  <1> QED BY <1>1, <1>2 DEF SecondInv

\* A worker that finds nothing pending has no pending request of its own.
LEMMA SecondSearch ==
  ASSUME QueueInv, SecondInv, NEW w \in Workers, Search(w)
  PROVE  SecondInv'
  <1>1. QueueTypeOK /\ table' = table
    BY DEF QueueInv, Search
  <1>2. RowsKept
    BY <1>1 DEF RowsKept
  <1>3. ASSUME NEW i \in PendingFor(asker[w].call),
               asker' = [asker EXCEPT ![w].at = "waiting", ![w].id = i]
        PROVE  SecondInv'
    <2>1. i \in Nat
      BY <1>1, <1>3 DEF PendingFor, QueueTypeOK
    <2>2. /\ asker'[w].at = "waiting"
          /\ \A v \in Workers : v # w => asker'[v] = asker[v]
      BY <1>1, <1>3, <2>1, FindsEffect DEF WorkerStages
    <2> QED BY <1>1, <1>2, <2>2, SecondKept
  <1>4. CASE PendingFor(asker[w].call) = {} /\ Moves(w, "create")
    <2>1. /\ asker'[w].at = "create" /\ asker'[w].call = asker[w].call
          /\ \A v \in Workers : v # w => asker'[v] = asker[v]
      BY <1>1, <1>4, MovesEffect DEF WorkerStages
    <2>2. OnePerWorker'
      BY <1>1 DEF SecondInv, OnePerWorker
    <2>3. CreatorHasNone'
      BY <1>1, <1>4, <2>1 DEF SecondInv, CreatorHasNone, PendingFor
    <2> QED BY <2>2, <2>3 DEF SecondInv
  <1> QED BY <1>3, <1>4 DEF Search

\* The request a worker then creates is its only pending one of the call.
LEMMA SecondCreate ==
  ASSUME QueueInv, SecondInv, NEW w \in Workers, Create(w)
  PROVE  SecondInv'
  <1> DEFINE n == Len(table)
  <1>1. QueueTypeOK /\ asker[w].call \in Calls /\ asker[w].at = "create"
    BY DEF QueueInv, AskerHasCall, Create
  <1>2. /\ n \in Nat
        /\ DOMAIN table = 1..n /\ DOMAIN table' = 1..(n + 1)
        /\ \A i \in 1..n : table'[i] = table[i]
        /\ table'[n + 1].call = asker[w].call /\ table'[n + 1].by = w
    BY <1>1, CreateEffect
  <1>3. n + 1 \in Nat /\ asker' = [asker EXCEPT ![w].at = "waiting", ![w].id = n + 1]
    BY <1>2 DEF Create
  <1>4. /\ asker'[w].at = "waiting"
        /\ \A v \in Workers : v # w => asker'[v] = asker[v]
    BY <1>1, <1>3, FindsEffect DEF WorkerStages
  <1>5. \A i \in 1..n :
          table[i].status = "PENDING" /\ table[i].call = asker[w].call => table[i].by # w
    BY <1>1, <1>2 DEF SecondInv, CreatorHasNone
  <1>6. OnePerWorker'
    <2> SUFFICES ASSUME NEW i \in 1..(n + 1), NEW j \in 1..(n + 1), i # j,
                        table'[i].status = "PENDING", table'[j].status = "PENDING",
                        table'[i].call = table'[j].call
                 PROVE  table'[i].by # table'[j].by
      BY <1>2 DEF OnePerWorker
    <2>1. CASE i \in 1..n /\ j \in 1..n
      BY <1>2, <2>1 DEF SecondInv, OnePerWorker
    <2>2. CASE i = n + 1 /\ j \in 1..n
      BY <1>2, <1>5, <2>2
    <2>3. CASE i \in 1..n /\ j = n + 1
      BY <1>2, <1>5, <2>3
    <2> QED BY <1>2, <2>1, <2>2, <2>3
  <1>7. CreatorHasNone'
    BY <1>2, <1>4 DEF SecondInv, CreatorHasNone
  <1> QED BY <1>6, <1>7 DEF SecondInv

\* Every step keeps SecondInv when the statements of workers succeed.
LEMMA SecondStep ==
  ASSUME "db" \notin Faults, QueueInv, SecondInv, QueueStep \/ UNCHANGED queueVars
  PROVE  SecondInv'
  <1>1. QueueTypeOK
    BY DEF QueueInv
  <1>2. CASE SweepExpired /\ \A w \in Workers : asker'[w].at = "create" => asker'[w] = asker[w]
    BY <1>1, <1>2, SweepEffect, SecondKept
  <1>3. CASE table' = table /\ \A w \in Workers : asker'[w].at = "create" => asker'[w] = asker[w]
    <2>1. RowsKept
      BY <1>3 DEF RowsKept
    <2> QED BY <1>3, <2>1, SecondKept
  <1>4. ASSUME NEW w \in Workers, NEW c \in Calls, Ask(w, c) \/ AskFails(w, c)
        PROVE  SecondInv'
    <2>1. /\ asker'[w].at \in {"lookup", "held"}
          /\ \A v \in Workers : v # w => asker'[v] = asker[v]
      BY <1>1, <1>4 DEF Ask, AskFails, QueueTypeOK
    <2> QED BY <1>2, <1>3, <1>4, <2>1 DEF Ask, AskFails
  <1>5. ASSUME NEW w \in Workers, NEW stage \in {"sweep", "search", "held"}, Moves(w, stage)
        PROVE  \A v \in Workers : asker'[v].at = "create" => asker'[v] = asker[v]
    <2>1. stage \in WorkerStages /\ stage # "create"
      BY DEF WorkerStages
    <2> QED BY <1>1, <1>5, <2>1, MovesEffect
  <1>6. ASSUME NEW w \in Workers, LookUp(w)
        PROVE  SecondInv'
    <2>1. ASSUME NEW i \in Grants(asker[w].call),
                 asker' = [asker EXCEPT ![w].at = "granted", ![w].id = i]
          PROVE  \A v \in Workers : asker'[v].at = "create" => asker'[v] = asker[v]
      <3>1. i \in Nat
        BY <1>1, <2>1 DEF Grants, QueueTypeOK
      <3> QED BY <1>1, <2>1, <3>1, FindsEffect DEF WorkerStages
    <2> QED BY <1>3, <1>5, <1>6, <2>1 DEF LookUp
  <1>7. ASSUME NEW w \in Workers, SweepAgain(w)
        PROVE  SecondInv'
    BY <1>2, <1>5, <1>7 DEF SweepAgain
  <1>8. ASSUME NEW w \in Workers, LookUpFails(w) \/ SearchFails(w) \/ CreateFails(w)
        PROVE  FALSE
    BY <1>8 DEF LookUpFails, SearchFails, CreateFails
  <1>9. ASSUME NEW w \in Workers, Finish(w)
        PROVE  SecondInv'
    BY <1>1, <1>3, <1>9 DEF Finish, NotAsking, QueueTypeOK
  <1>10. ASSUME NEW o \in Operators, Update(o)
         PROVE  SecondInv'
    <2>1. oper[o].wish # "PENDING" /\ asker' = asker
      BY <1>1, <1>10 DEF Update, QueueTypeOK, OperState, Wishes
    <2> QED BY <1>1, <1>10, <2>1, UpdateEffect, SecondKept
  <1>11. ASSUME NEW o \in Operators, OperatorActs(o) \/ Check(o) \/ Record(o) \/ Crash(o)
         PROVE  SecondInv'
    BY <1>2, <1>3, <1>11 DEF OperatorActs, Decide, Check, Record, Crash
  <1>12. CASE Tick \/ UNCHANGED queueVars
    BY <1>3, <1>12 DEF Tick, queueVars
  <1> QED
    BY <1>4, <1>6, <1>7, <1>8, <1>9, <1>10, <1>11, <1>12, SecondSearch, SecondCreate
    DEF QueueStep, WorkerStep, OperatorStep

\* With a single worker, an agent that retries a call through one proxy loop, and
\* statements that succeed, a live request is reused: what the violated run lacks is
\* one of the two (find_pending_request before create_approval).
THEOREM ReuseTheorem ==
  ASSUME "db" \notin Faults, \A v, w \in Workers : v = w
  PROVE  UnboundedQueue => []PendingReused
  <1>1. QueueInit => SecondInv
    BY DEF QueueInit, SecondInv, OnePerWorker, CreatorHasNone, NotAsking
  <1>2. QueueInv /\ SecondInv /\ [QueueStep]_queueVars => SecondInv'
    BY SecondStep
  <1>3. QueueInv /\ SecondInv => PendingReused
    <2> SUFFICES ASSUME QueueInv, SecondInv, NEW i \in DOMAIN table, NEW j \in DOMAIN table,
                        Live(i), Live(j), table[i].call = table[j].call, i # j
                 PROVE  FALSE
      BY DEF PendingReused
    <2>1. table[i].by \in Workers /\ table[j].by \in Workers
      <3>1. table[i] \in Request /\ table[j] \in Request
        BY DEF QueueInv, QueueTypeOK
      <3> QED BY <3>1 DEF Request
    <2>2. table[i].by # table[j].by
      BY DEF SecondInv, OnePerWorker, Live
    <2> QED BY <2>1, <2>2
  <1> QED BY <1>1, <1>2, <1>3, QueueInvariant, PTL DEF UnboundedQueue

-----------------------------------------------------------------------------
(* The audit trail of decisions, when no operator dies and no append fails *)

\* No row is decided, and whoever is about to record stays so.
LEMMA RecordedKept ==
  ASSUME DecisionsRecorded, DOMAIN table' = DOMAIN table,
         \A i \in DOMAIN table :
           table'[i].status \in Wishes => table'[i].status = table[i].status,
         recorded \subseteq recorded',
         \A o \in Operators : oper[o].at = "record" => oper'[o] = oper[o]
  PROVE  DecisionsRecorded'
  BY DEF DecisionsRecorded

\* Every step keeps DecisionsRecorded when operators do not die half-way.
LEMMA RecordedStep ==
  ASSUME "crash" \notin Faults, QueueInv, DecisionsRecorded,
         QueueStep \/ UNCHANGED queueVars
  PROVE  DecisionsRecorded'
  <1>1. QueueTypeOK
    BY DEF QueueInv
  <1>2. CASE SweepExpired /\ recorded' = recorded /\
             \A o \in Operators : oper[o].at = "record" => oper'[o] = oper[o]
    <2>1. DOMAIN table' = DOMAIN table
      BY <1>1, <1>2, SweepEffect
    <2>2. \A i \in DOMAIN table :
            table'[i].status \in Wishes => table'[i].status = table[i].status
      BY <1>1, <1>2, SweepEffect DEF Wishes
    <2> QED BY <1>2, <2>1, <2>2, RecordedKept
  <1>3. CASE table' = table /\ recorded' = recorded /\
             \A o \in Operators : oper[o].at = "record" => oper'[o] = oper[o]
    BY <1>3, RecordedKept
  <1>4. ASSUME NEW w \in Workers,
               \/ \E c \in Calls : Ask(w, c) \/ AskFails(w, c)
               \/ WorkerStep(w) /\ ~Create(w)
               \/ Finish(w)
        PROVE  DecisionsRecorded'
    BY <1>2, <1>3, <1>4 DEF Ask, AskFails, WorkerStep, LookUp, LookUpFails, SweepAgain,
                            Search, SearchFails, CreateFails, Finish
  <1>5. ASSUME NEW w \in Workers, Create(w)
        PROVE  DecisionsRecorded'
    <2>1. asker[w].call \in Calls
      BY <1>5 DEF QueueInv, AskerHasCall, Create
    <2>2. /\ Len(table) \in Nat
          /\ DOMAIN table = 1..Len(table) /\ DOMAIN table' = 1..(Len(table) + 1)
          /\ \A i \in DOMAIN table : table'[i] = table[i]
          /\ table'[Len(table) + 1].status \notin Wishes
      BY <1>1, <1>5, <2>1, CreateEffect DEF Wishes
    <2>3. recorded' = recorded /\ oper' = oper
      BY <1>5 DEF Create
    <2> QED BY <2>2, <2>3 DEF DecisionsRecorded
  <1>6. ASSUME NEW o \in Operators, OperatorActs(o) \/ Check(o)
        PROVE  DecisionsRecorded'
    <2>1. \A p \in Operators : oper[p].at = "record" => oper'[p] = oper[p]
      <3>1. CASE OperatorActs(o)
        BY <1>1, <3>1 DEF OperatorActs, Decide, QueueTypeOK
      <3>2. CASE Check(o)
        BY <1>1, <3>2, OperMoves, OperLeaves DEF Check, OperatorStages
      <3> QED BY <1>6, <3>1, <3>2
    <2> QED BY <1>2, <1>3, <1>6, <2>1 DEF OperatorActs, Decide, Check
  <1>7. ASSUME NEW o \in Operators, Update(o)
        PROVE  DecisionsRecorded'
    <2>1. /\ DOMAIN table' = DOMAIN table
          /\ \A i \in DOMAIN table :
               table'[i].status = IF i = oper[o].id THEN oper[o].wish ELSE table[i].status
          /\ recorded' = recorded
          /\ oper[o].at = "update" /\ oper[o] \in OperState
      BY <1>1, <1>7, UpdateEffect DEF Update, QueueTypeOK
    <2>2. CASE oper[o].id \in DOMAIN table /\ oper' = [oper EXCEPT ![o].at = "record"]
      <3>1. /\ oper' \in [Operators -> OperState]
            /\ oper'[o].at = "record" /\ oper'[o].id = oper[o].id
            /\ oper'[o].wish = oper[o].wish
            /\ \A p \in Operators : p # o => oper'[p] = oper[p]
        BY <1>1, <2>2, OperMoves DEF OperatorStages
      <3>2. oper'[o] = [at |-> "record", id |-> oper[o].id, wish |-> oper[o].wish]
        BY <3>1 DEF OperState
      <3>3. ASSUME NEW i \in DOMAIN table, i # oper[o].id, table'[i].status \in Wishes
            PROVE  \/ <<i, table'[i].status>> \in recorded'
                   \/ \E p \in Operators :
                        oper'[p] = [at |-> "record", id |-> i, wish |-> table'[i].status]
        <4>1. table'[i].status = table[i].status
          BY <2>1, <3>3
        <4>2. CASE <<i, table[i].status>> \in recorded
          BY <2>1, <4>1, <4>2
        <4>3. ASSUME NEW p \in Operators,
                     oper[p] = [at |-> "record", id |-> i, wish |-> table[i].status]
              PROVE  oper'[p] = oper[p]
          BY <2>1, <3>1, <4>3
        <4> QED BY <3>3, <4>1, <4>2, <4>3 DEF DecisionsRecorded
      <3> QED BY <2>1, <3>2, <3>3 DEF DecisionsRecorded
    <2>3. CASE oper[o].id \notin DOMAIN table /\ Leaves(o)
      <3>1. \A p \in Operators : oper[p].at = "record" => oper'[p] = oper[p]
        BY <1>1, <2>1, <2>3, OperLeaves
      <3> QED BY <2>1, <2>3, <3>1, RecordedKept
    <2> QED BY <1>7, <2>2, <2>3 DEF Update
  <1>8. ASSUME NEW o \in Operators, Record(o)
        PROVE  DecisionsRecorded'
    <2>1. /\ table' = table /\ recorded' = recorded \cup {<<oper[o].id, oper[o].wish>>}
          /\ \A p \in Operators : p # o => oper'[p] = oper[p]
      BY <1>1, <1>8, OperLeaves DEF Record
    <2> QED BY <2>1 DEF DecisionsRecorded
  <1>9. CASE Tick \/ UNCHANGED queueVars
    BY <1>3, <1>9 DEF Tick, queueVars
  <1> QED
    BY <1>4, <1>5, <1>6, <1>7, <1>8, <1>9 DEF QueueStep, OperatorStep, Crash

\* Every decision that stands is in the audit log or about to be written there
\* (approval_set, api_approval_action), also under operators that overwrite each
\* other, as long as none of them dies in between.
THEOREM RecordedTheorem ==
  ASSUME "crash" \notin Faults
  PROVE  UnboundedQueue => []DecisionsRecorded
  <1>1. QueueInit => DecisionsRecorded
    BY DEF QueueInit, DecisionsRecorded
  <1>2. QueueInv /\ DecisionsRecorded /\ [QueueStep]_queueVars => DecisionsRecorded'
    BY RecordedStep
  <1> QED BY <1>1, <1>2, QueueInvariant, PTL DEF UnboundedQueue

-----------------------------------------------------------------------------
(***************************************************************************)
(* The promise to the operators.  Each statement is a step of Consent or   *)
(* none: create_approval asks, the test of set_approval approves, a sweep  *)
(* expires, a lookup that finds a grant goes ahead, and a worker that      *)
(* takes up its outcome halts.                                             *)
(***************************************************************************)
CallsAsked == [i \in DOMAIN table |-> table[i].call]

Going == [w \in Workers |-> GoingOf(w)]

LEMMA AskedKept ==
  ASSUME RowsKept, DOMAIN table' = DOMAIN table
  PROVE  CallsAsked' = CallsAsked
  BY DEF RowsKept, CallsAsked

\* Nobody begins to go ahead where one worker moves on without a grant.
LEMMA GoingKept ==
  ASSUME NEW w \in Workers, asker[w].at # "granted", asker'[w].at # "granted",
         \A v \in Workers : v # w => asker'[v] = asker[v]
  PROVE  Going' = Going
  <1>1. \A v \in Workers : GoingOf(v)' = GoingOf(v)
    BY DEF GoingOf
  <1> QED BY <1>1 DEF Going

\* A step that leaves the rows and the histories alone, and nobody goes ahead.
LEMMA Stutters ==
  ASSUME Going' = Going, UNCHANGED <<table, consented, lapsed>>
  PROVE  UNCHANGED <<CallsAsked, consented, lapsed, Going>>
  BY DEF CallsAsked

\* A sweep, whoever makes it.
LEMMA SweepExpires ==
  ASSUME QueueTypeOK, SweepExpired, Going' = Going, consented' = consented
  PROVE  Promised!Next
  <1>1. /\ CallsAsked' = CallsAsked /\ lapsed' = lapsed \cup Overdue(table)
        /\ Overdue(table) \in SUBSET DOMAIN CallsAsked
    BY SweepEffect, AskedKept DEF CallsAsked
  <1>2. Promised!Expire(Overdue(table))
    BY <1>1 DEF Promised!Expire, CallsAsked, Going
  <1> QED BY <1>1, <1>2 DEF Promised!Next, CallsAsked

LEMMA AskExpires ==
  ASSUME QueueInv, NEW w \in Workers, NEW c \in Calls, Ask(w, c) \/ AskFails(w, c)
  PROVE  [Promised!Next]_<<CallsAsked, consented, lapsed, Going>>
  <1>1. QueueTypeOK
    BY DEF QueueInv
  <1>2. Going' = Going
    <2>1. asker[w].at # "granted"
      BY DEF Ask, AskFails
    <2>2. asker'[w].at # "granted" /\ \A v \in Workers : v # w => asker'[v] = asker[v]
      BY <1>1 DEF Ask, AskFails, QueueTypeOK
    <2> QED BY <2>1, <2>2, GoingKept
  <1>3. CASE Ask(w, c)
    BY <1>1, <1>2, <1>3, SweepExpires DEF Ask
  <1>4. CASE AskFails(w, c)
    BY <1>2, <1>4, Stutters DEF AskFails
  <1> QED BY <1>3, <1>4

\* A grant found is approved, its time is not over, and it is for the call in hand.
LEMMA LookUpGoesAhead ==
  ASSUME QueueInv, NEW w \in Workers, LookUp(w)
  PROVE  [Promised!Next]_<<CallsAsked, consented, lapsed, Going>>
  <1>1. QueueTypeOK /\ asker[w].at = "lookup" /\ UNCHANGED <<table, consented, lapsed>>
    BY DEF QueueInv, LookUp
  <1>2. CASE Moves(w, "sweep")
    <2>1. asker'[w].at = "sweep" /\ \A v \in Workers : v # w => asker'[v] = asker[v]
      BY <1>1, <1>2, MovesEffect DEF WorkerStages
    <2> QED BY <1>1, <2>1, GoingKept, Stutters
  <1>3. ASSUME NEW i \in Grants(asker[w].call),
               asker' = [asker EXCEPT ![w].at = "granted", ![w].id = i]
        PROVE  Promised!Next
    <2>1. i \in DOMAIN table /\ i \in Nat /\ table[i] \in Request /\ now \in Nat
      BY <1>1 DEF Grants, QueueTypeOK
    <2>2. /\ asker'[w].at = "granted" /\ asker'[w].id = i
          /\ asker'[w].call = asker[w].call
          /\ \A v \in Workers : v # w => asker'[v] = asker[v]
      BY <1>1, <1>3, <2>1, FindsEffect DEF WorkerStages
    <2>3. i \in consented
      BY <2>1 DEF Grants, QueueInv, ApprovedWasChecked
    <2>4. i \notin lapsed
      <3>1. table[i].expires > now /\ table[i].expires \in Nat
        BY <2>1 DEF Grants, Request
      <3> QED BY <2>1, <3>1 DEF QueueInv, LapsedIsPast
    <2>5. CallsAsked' = CallsAsked /\ CallsAsked[i] = asker[w].call /\ i \in DOMAIN CallsAsked
      BY <1>1, <2>1 DEF CallsAsked, Grants
    <2>6. Going' = [Going EXCEPT ![w] = <<CallsAsked[i], i>>] /\ Going[w] = <<>>
      <3>1. GoingOf(w)' = <<CallsAsked[i], i>>
        BY <2>2, <2>5 DEF GoingOf
      <3>2. \A v \in Workers : v # w => GoingOf(v)' = GoingOf(v)
        BY <2>2 DEF GoingOf
      <3>3. GoingOf(w) = <<>>
        BY <1>1 DEF GoingOf
      <3> QED BY <3>1, <3>2, <3>3 DEF Going
    <2>7. Promised!GoAhead(w, i)
      BY <1>1, <2>3, <2>4, <2>5, <2>6 DEF Promised!GoAhead, Promised!Halted, CallsAsked, Going
    <2> QED BY <2>5, <2>7 DEF Promised!Next, CallsAsked
  <1> QED BY <1>2, <1>3 DEF LookUp

\* The statements of a worker that find nothing, fail, or find what is pending.
LEMMA OthersStutter ==
  ASSUME QueueInv, NEW w \in Workers,
         \/ LookUpFails(w) \/ Search(w) \/ SearchFails(w) \/ CreateFails(w)
  PROVE  UNCHANGED <<CallsAsked, consented, lapsed, Going>>
  <1>1. /\ QueueTypeOK /\ asker[w].at # "granted"
        /\ UNCHANGED <<table, consented, lapsed>>
    BY DEF QueueInv, LookUpFails, Search, SearchFails, CreateFails
  <1>2. asker'[w].at # "granted" /\ \A v \in Workers : v # w => asker'[v] = asker[v]
    <2>1. ASSUME NEW stage \in {"held", "create", "unavailable"}, Moves(w, stage)
          PROVE  asker'[w].at # "granted" /\ \A v \in Workers : v # w => asker'[v] = asker[v]
      <3>1. stage \in WorkerStages /\ stage # "granted"
        BY DEF WorkerStages
      <3>2. asker'[w].at = stage /\ \A v \in Workers : v # w => asker'[v] = asker[v]
        BY <1>1, <2>1, <3>1, MovesEffect
      <3> QED BY <3>1, <3>2
    <2>2. ASSUME NEW i \in DOMAIN table,
                 asker' = [asker EXCEPT ![w].at = "waiting", ![w].id = i]
          PROVE  asker'[w].at # "granted" /\ \A v \in Workers : v # w => asker'[v] = asker[v]
      <3>1. i \in Nat /\ "waiting" \in WorkerStages
        BY <1>1 DEF QueueTypeOK, WorkerStages
      <3>2. asker'[w].at = "waiting" /\ \A v \in Workers : v # w => asker'[v] = asker[v]
        BY <1>1, <2>2, <3>1, FindsEffect
      <3> QED BY <3>2
    <2> QED BY <2>1, <2>2 DEF LookUpFails, Search, SearchFails, CreateFails, PendingFor
  <1> QED BY <1>1, <1>2, GoingKept, Stutters

LEMMA CreateAsks ==
  ASSUME QueueInv, NEW w \in Workers, Create(w)
  PROVE  Promised!Next
  <1>1. QueueTypeOK /\ asker[w].at = "create" /\ asker[w].call \in Calls
    BY DEF QueueInv, AskerHasCall, Create
  <1> DEFINE n == Len(table)
             c == asker[w].call
  <1>2. /\ n \in Nat /\ DOMAIN table = 1..n /\ DOMAIN table' = 1..(n + 1)
        /\ \A i \in DOMAIN table : table'[i] = table[i]
        /\ table'[n + 1].call = c
    BY <1>1, CreateEffect
  <1>3. Going' = Going
    <2>1. asker'[w].at = "waiting" /\ \A v \in Workers : v # w => asker'[v] = asker[v]
      <3>1. n + 1 \in Nat /\ "waiting" \in WorkerStages
        BY <1>2 DEF WorkerStages
      <3>2. asker' = [asker EXCEPT ![w].at = "waiting", ![w].id = n + 1]
        BY DEF Create
      <3> QED BY <1>1, <3>1, <3>2, FindsEffect
    <2> QED BY <1>1, <2>1, GoingKept
  <1>4. PICK d \in Calls : d = c
    BY <1>1
  <1>5. PICK m \in Nat : m = n
    BY <1>2
  <1> HIDE DEF n, c
  <1>6. CallsAsked \in Seq(Calls) /\ Len(CallsAsked) = m
    <2>1. \A i \in 1..m : table[i].call \in Calls
      <3>1. \A i \in DOMAIN table : table[i] \in Request
        BY <1>1 DEF QueueTypeOK
      <3> QED BY <1>2, <1>5, <3>1 DEF Request
    <2>2. CallsAsked \in [1..m -> Calls]
      BY <1>2, <1>5, <2>1 DEF CallsAsked
    <2> HIDE DEF CallsAsked
    <2> QED BY <1>5, <2>2, LenProperties
  <1>7. CallsAsked' = Append(CallsAsked, d)
    <2>1. CallsAsked' = [i \in 1..(m + 1) |-> table'[i].call]
      BY <1>2, <1>5 DEF CallsAsked
    <2>2. PICK longer : longer = Append(CallsAsked, d)
      OBVIOUS
    <2>3. /\ longer \in Seq(Calls) /\ Len(longer) = m + 1
          /\ \A i \in 1..m : longer[i] = CallsAsked[i]
          /\ longer[m + 1] = d
      <3> HIDE DEF CallsAsked
      <3> QED BY <1>6, <2>2, AppendProperties
    <2>4. longer \in [1..(m + 1) -> Calls]
      BY <2>3
    <2>5. \A i \in 1..(m + 1) : table'[i].call = longer[i]
      <3>1. \A i \in 1..m : table'[i].call = longer[i]
        BY <1>2, <1>5, <2>3 DEF CallsAsked
      <3>2. table'[m + 1].call = longer[m + 1]
        BY <1>2, <1>4, <1>5, <2>3
      <3> QED BY <3>1, <3>2
    <2>6. CallsAsked' = longer
      BY <2>1, <2>4, <2>5
    <2> QED BY <2>2, <2>6
  <1>8. Promised!Ask(d)
    BY <1>3, <1>7 DEF Promised!Ask, Create, CallsAsked, Going
  <1> QED BY <1>8 DEF Promised!Next

LEMMA FinishHalts ==
  ASSUME QueueInv, NEW w \in Workers, Finish(w)
  PROVE  Promised!Next
  <1>1. QueueTypeOK /\ UNCHANGED <<table, consented, lapsed>>
    BY DEF QueueInv, Finish
  <1>2. asker'[w].at = "idle" /\ \A v \in Workers : v # w => asker'[v] = asker[v]
    BY <1>1 DEF Finish, NotAsking, QueueTypeOK
  <1>3. GoingOf(w)' = <<>> /\ \A v \in Workers : v # w => GoingOf(v)' = GoingOf(v)
    BY <1>2 DEF GoingOf
  <1>4. Going' = [Going EXCEPT ![w] = <<>>] /\ CallsAsked' = CallsAsked
    BY <1>1, <1>3 DEF Going, CallsAsked
  <1>5. Promised!Halt(w)
    BY <1>1, <1>4 DEF Promised!Halt, Promised!Halted, CallsAsked, Going
  <1> QED BY <1>5 DEF Promised!Next

\* The steps of operators: a sweep, or a check that is passed, or nothing at all.
LEMMA OperatorsApprove ==
  ASSUME QueueInv, NEW o \in Operators, OperatorActs(o) \/ OperatorStep(o)
  PROVE  [Promised!Next]_<<CallsAsked, consented, lapsed, Going>>
  <1>1. QueueTypeOK
    BY DEF QueueInv
  <1>2. Going' = Going
    <2>1. asker' = asker
      BY DEF OperatorActs, OperatorStep, Decide, Check, Update, Record, Crash
    <2> QED BY <2>1 DEF Going, GoingOf
  <1>3. CASE OperatorActs(o)
    BY <1>1, <1>2, <1>3, SweepExpires DEF OperatorActs, Decide
  <1>4. CASE Check(o)
    <2>1. UNCHANGED <<table, lapsed>>
      BY <1>4 DEF Check
    <2>2. CASE consented' = consented
      BY <1>2, <2>1, <2>2, Stutters
    <2>3. CASE Approvable(oper[o].id) /\ consented' = consented \cup {oper[o].id}
      <3>1. PICK i : i = oper[o].id
        OBVIOUS
      <3>2. i \in DOMAIN table /\ table[i].expires > now /\ table[i].expires \in Nat /\ now \in Nat
        <4>1. i \in DOMAIN table /\ table[i].expires > now
          BY <2>3, <3>1 DEF Approvable
        <4>2. table[i] \in Request
          BY <1>1, <4>1 DEF QueueTypeOK
        <4> QED BY <1>1, <4>1, <4>2 DEF QueueTypeOK, Request
      <3>3. i \notin lapsed
        BY <3>2 DEF QueueInv, LapsedIsPast
      <3>4. CallsAsked' = CallsAsked /\ i \in DOMAIN CallsAsked
        BY <2>1, <3>2 DEF CallsAsked
      <3>5. Promised!Approve(i)
        BY <1>2, <2>1, <2>3, <3>1, <3>3, <3>4 DEF Promised!Approve, CallsAsked, Going
      <3> QED BY <3>4, <3>5 DEF Promised!Next, CallsAsked
    <2> QED BY <1>4, <2>2, <2>3 DEF Check
  <1>5. CASE Update(o)
    <2>1. CallsAsked' = CallsAsked
      <3>1. RowsKept /\ DOMAIN table' = DOMAIN table
        BY <1>1, <1>5, UpdateEffect
      <3> QED BY <3>1, AskedKept
    <2> QED BY <1>2, <1>5, <2>1 DEF Update
  <1>6. CASE Record(o) \/ Crash(o)
    BY <1>2, <1>6, Stutters DEF Record, Crash
  <1> QED BY <1>3, <1>4, <1>5, <1>6 DEF OperatorStep

\* The queue, one statement after the other and whatever fails in between, keeps the
\* promise of Consent (inspect_tool_call, set_approval, sweep_expired).
THEOREM QueueImplementsConsent == UnboundedQueue => ImplementsConsent
  <1>1. QueueInit => Promised!Init
    <2> SUFFICES ASSUME QueueInit PROVE Promised!Init
      OBVIOUS
    <2>1. CallsAsked = <<>> /\ Going = [w \in Workers |-> <<>>]
      BY DEF QueueInit, CallsAsked, Going, GoingOf, NotAsking
    <2> QED BY <2>1 DEF QueueInit, Promised!Init, Promised!Halted, CallsAsked, Going
  <1>2. QueueInv /\ [QueueStep]_queueVars
          => [Promised!Next]_<<CallsAsked, consented, lapsed, Going>>
    <2> SUFFICES ASSUME QueueInv, [QueueStep]_queueVars
                 PROVE  [Promised!Next]_<<CallsAsked, consented, lapsed, Going>>
      OBVIOUS
    <2>1. ASSUME NEW w \in Workers, NEW c \in Calls, Ask(w, c) \/ AskFails(w, c)
          PROVE  [Promised!Next]_<<CallsAsked, consented, lapsed, Going>>
      BY <2>1, AskExpires
    <2>2. ASSUME NEW w \in Workers, SweepAgain(w)
          PROVE  Promised!Next
      <3>1. QueueTypeOK /\ asker[w].at = "sweep"
        BY <2>2 DEF QueueInv, SweepAgain
      <3>2. asker'[w].at = "search" /\ \A v \in Workers : v # w => asker'[v] = asker[v]
        BY <2>2, <3>1, MovesEffect DEF SweepAgain, WorkerStages
      <3>3. Going' = Going
        BY <3>1, <3>2, GoingKept
      <3> QED BY <2>2, <3>1, <3>3, SweepExpires DEF SweepAgain
    <2>3. ASSUME NEW w \in Workers, WorkerStep(w) \/ Finish(w)
          PROVE  [Promised!Next]_<<CallsAsked, consented, lapsed, Going>>
      BY <2>2, <2>3, LookUpGoesAhead, OthersStutter, CreateAsks, FinishHalts DEF WorkerStep
    <2>4. ASSUME NEW o \in Operators, OperatorActs(o) \/ OperatorStep(o)
          PROVE  [Promised!Next]_<<CallsAsked, consented, lapsed, Going>>
      BY <2>4, OperatorsApprove
    <2>5. CASE Tick \/ UNCHANGED queueVars
      <3>1. UNCHANGED <<table, asker, consented, lapsed>>
        BY <2>5 DEF Tick, queueVars
      <3> QED BY <3>1, Stutters DEF Going, GoingOf
    <2> QED BY <2>1, <2>3, <2>4, <2>5 DEF QueueStep
  <1> QED
    BY <1>1, <1>2, QueueInvariant, PTL
    DEF UnboundedQueue, ImplementsConsent, Promised!Spec, Promised!vars, CallsAsked, Going
=============================================================================
