----------------------------- MODULE AuditChain -----------------------------
(***************************************************************************)
(* The hash-chained event table of crates/aegis-audit.                     *)
(*                                                                         *)
(* `append` takes the connection's mutex twice: `last_hash` reads the      *)
(* newest digest and lets the mutex go, the event is built and hashed, and *)
(* a second critical section inserts the row.  An append is therefore two  *)
(* actions, ReadLast and Insert, and several writers (gateway tasks, REST  *)
(* handlers, CLI processes on the same file) may interleave them.          *)
(*                                                                         *)
(* Digests.  BLAKE3 is taken to be free of collisions and the event id, a  *)
(* fresh UUID, is part of what is hashed.  A digest is then the record of  *)
(* what was hashed: the id, the text that the hashed columns are joined to *)
(* (`body`), and the digest the event chains to, named by the id of its    *)
(* own event (`parent`).  Whatever else a row says is its `note`: the      *)
(* columns that are not hashed, and where in the joined text one column    *)
(* ends and the next begins (the columns are joined by `|` and a `|` in    *)
(* them is not escaped).                                                   *)
(***************************************************************************)
EXTENDS Naturals, Sequences

CONSTANTS
  Writers,        \* tasks and processes that append
  Bodies,         \* texts that are hashed
  Notes,          \* what rows say beside those texts
  NoBody,         \* the body of GENESIS, which hashes no event
  MaxEvents,      \* bound: appends that are started
  ReadsMayFail,   \* may the SELECT of last_hash fail?
  WritesMayFail   \* may an append end without its row (error, crash)?

ASSUME ChainAssumption ==
  /\ NoBody \notin Bodies
  /\ Notes # {}
  /\ MaxEvents \in Nat
  /\ ReadsMayFail \in BOOLEAN
  /\ WritesMayFail \in BOOLEAN

VARIABLES
  events,   \* the table, in rowid order
  draft,    \* the row each writer has hashed and not yet inserted
  minted    \* number of event ids drawn so far

chainVars == <<events, draft, minted>>

-----------------------------------------------------------------------------
(* Rows and digests *)

Ids == 0..MaxEvents   \* 0 stands for "no event"

Digest == [id : Ids, body : Bodies \cup {NoBody}, parent : Ids]

Row == [id : Ids, body : Bodies \cup {NoBody}, note : Notes,
        prev : Digest, hash : Digest]

Genesis == [id |-> 0, body |-> NoBody, parent |-> 0]

Hash(id, body, prev) == [id |-> id, body |-> body, parent |-> prev.id]

\* Faulty variant: an unhashed column in the place of the hashed ones.
NewRowSwapped(id, body, note, prev) ==
  [id |-> id, body |-> body, note |-> note,
   prev |-> prev, hash |-> Hash(id, note, prev)]

NewRow(id, body, note, prev) ==
  [id |-> id, body |-> body, note |-> note,
   prev |-> prev, hash |-> Hash(id, body, prev)]

NoRow == NewRow(0, NoBody, CHOOSE n \in Notes : TRUE, Genesis)

Idle(w) == draft[w].id = 0

-----------------------------------------------------------------------------
(* Reading the table *)

LastHash(rows) == IF rows = <<>> THEN Genesis ELSE rows[Len(rows)].hash

\* The row below row i, as verify's loop carries it along.
PrevHash(rows, i) == IF i = 1 THEN Genesis ELSE rows[i - 1].hash

\* Faulty variant of Verify: the link is checked and the digest is not.
VerifyLinksOnly(rows) == \A i \in DOMAIN rows : rows[i].prev = PrevHash(rows, i)

\* Faulty variant of Verify: each digest is checked against the row's own prev
\* column, and the column against nothing.
VerifyDigestsOnly(rows) ==
  \A i \in DOMAIN rows :
    rows[i].hash = Hash(rows[i].id, rows[i].body, rows[i].prev)

Verify(rows) ==
  \A i \in DOMAIN rows :
    /\ rows[i].prev = PrevHash(rows, i)
    /\ rows[i].hash = Hash(rows[i].id, rows[i].body, rows[i].prev)

-----------------------------------------------------------------------------
(* Appending *)

\* Faulty variant: the newest digest is kept in memory and taken from there
\* before its row is in the table.
LastHashCached ==
  {LastHash(events)} \cup {draft[w].hash : w \in {v \in Writers : ~Idle(v)}}

\* What last_hash may return: any error of the query is read as "no event yet".
LastHashAnswers ==
  {LastHash(events)} \cup (IF ReadsMayFail THEN {Genesis} ELSE {})

\* First critical section, then the event is built and hashed.
ReadLast(w, body, note) ==
  /\ Idle(w)
  /\ minted < MaxEvents
  /\ \E last \in LastHashAnswers :
       draft' = [draft EXCEPT ![w] = NewRow(minted + 1, body, note, last)]
  /\ minted' = minted + 1
  /\ UNCHANGED events

\* Faulty variant: the row is linked to the newest row when it is inserted, and
\* its own digest is not computed again.
InsertRelinked(w) ==
  /\ ~Idle(w)
  /\ events' = Append(events, [draft[w] EXCEPT !.prev = LastHash(events)])
  /\ draft' = [draft EXCEPT ![w] = NoRow]
  /\ UNCHANGED minted

\* Faulty variant: INSERT OR REPLACE of the newest row.
InsertReplacing(w) ==
  /\ ~Idle(w)
  /\ events' = IF events = <<>> THEN <<draft[w]>>
               ELSE [events EXCEPT ![Len(events)] = draft[w]]
  /\ draft' = [draft EXCEPT ![w] = NoRow]
  /\ UNCHANGED minted

\* Second critical section.
Insert(w) ==
  /\ ~Idle(w)
  /\ events' = Append(events, draft[w])
  /\ draft' = [draft EXCEPT ![w] = NoRow]
  /\ UNCHANGED minted

\* The INSERT fails, or the process dies before it: the event is gone.
Lose(w) ==
  /\ WritesMayFail
  /\ ~Idle(w)
  /\ draft' = [draft EXCEPT ![w] = NoRow]
  /\ UNCHANGED <<events, minted>>

ChainInit ==
  /\ events = <<>>
  /\ draft = [w \in Writers |-> NoRow]
  /\ minted = 0

ChainNext ==
  \E w \in Writers :
    \/ \E body \in Bodies, note \in Notes : ReadLast(w, body, note)
    \/ Insert(w)
    \/ Lose(w)

ChainSpec == ChainInit /\ [][ChainNext]_chainVars

-----------------------------------------------------------------------------
(* Properties *)

ChainTypeOK ==
  /\ events \in Seq(Row)
  /\ draft \in [Writers -> Row]
  /\ minted \in Ids

\* A row chains to GENESIS or to a row that was in the table before it, however
\* the writers' critical sections interleave: the table is a forest whose edges
\* point down, never to a digest nobody stored (append, last_hash).
PredecessorStored ==
  \A i \in DOMAIN events :
    \/ events[i].prev = Genesis
    \/ \E j \in 1..(i - 1) : events[j].hash = events[i].prev

\* On a table only append has written, verify reports damage exactly when two
\* rows chain to the same predecessor: a fork between writers, or a failed read
\* taken for an empty table, is the only way the code itself can break the
\* chain, and verify never misses one.
FailureIsFork ==
  ~Verify(events) <=>
    \E i, j \in DOMAIN events : i < j /\ events[i].prev = events[j].prev

\* A fork is never repaired: once verify has reported damage it will go on
\* doing so, whatever is appended later (append only adds rows at the end).
ForkIsPermanent == [][~Verify(events) => ~Verify(events')]_chainVars

\* What tests/chain.rs asserts of an untouched table: it verifies.
ChainVerifies == Verify(events)

\* A draft that no longer chains to the newest row, or never did.
Overtaken(w) == ~Idle(w) /\ draft[w].prev # LastHash(events)

\* Through races of any writers, failed reads and lost inserts, the two critical
\* sections of an append come to one record in the ledger: verify fails from the
\* first overtaken append on that is inserted, and for no other reason; a lost event
\* leaves the chain as it was (append, verify).
Ledger == INSTANCE AuditLedger WITH
  Contents <- Bodies \X Notes,
  ledger <- [i \in DOMAIN events |-> <<events[i].body, events[i].note>>],
  intact <- Verify(events),
  open <- {w \in Writers : ~Idle(w)},
  overtaken <- {w \in Writers : Overtaken(w)}

ImplementsLedger == Ledger!Spec
=============================================================================
