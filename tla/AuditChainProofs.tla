-------------------------- MODULE AuditChainProofs --------------------------
(***************************************************************************)
(* Theorems about AuditChain, and about AuditIntegrity on a file changed   *)
(* from outside, for any writers, columns and bounds.                      *)
(***************************************************************************)
EXTENDS AuditIntegrity, SequenceTheorems, TLAPS

-----------------------------------------------------------------------------
(* Lemmas about rows and tables *)

\* GENESIS is a digest.
LEMMA GenesisType == Genesis \in Digest
  BY ChainAssumption DEF Genesis, Digest, Ids

\* A row that append builds (NewRow) is a row of the table.
LEMMA NewRowType ==
  ASSUME NEW id \in Ids, NEW body \in Bodies \cup {NoBody}, NEW note \in Notes,
         NEW prev \in Digest
  PROVE  NewRow(id, body, note, prev) \in Row
  BY DEF NewRow, Hash, Row, Digest, Ids

\* The draft of an idle writer has the type of a row.
LEMMA NoRowType == NoRow \in Row
  <1>1. (CHOOSE n \in Notes : TRUE) \in Notes
    BY ChainAssumption
  <1>2. 0 \in Ids /\ NoBody \in Bodies \cup {NoBody}
    BY ChainAssumption DEF Ids
  <1> QED BY <1>1, <1>2, GenesisType, NewRowType DEF NoRow

\* What last_hash reads is a digest.
LEMMA LastHashType ==
  ASSUME NEW rows \in Seq(Row)
  PROVE  LastHash(rows) \in Digest
  <1>1. CASE rows = <<>>
    BY <1>1, GenesisType DEF LastHash
  <1>2. CASE rows # <<>>
    <2>1. Len(rows) \in 1..Len(rows)
      BY <1>2
    <2>2. rows[Len(rows)] \in Row
      BY <2>1
    <2>3. rows[Len(rows)].hash \in Digest
      BY <2>2 DEF Row
    <2> QED BY <1>2, <2>3 DEF LastHash
  <1> QED BY <1>1, <1>2

-----------------------------------------------------------------------------
(* Type correctness *)

\* The empty table is well typed.
LEMMA ChainTypeInit == ChainInit => ChainTypeOK
  BY NoRowType, ChainAssumption DEF ChainInit, ChainTypeOK, Ids

\* Each step of an append keeps the types.
LEMMA ChainTypeStep ==
  ASSUME ChainTypeOK, [ChainNext]_chainVars
  PROVE  ChainTypeOK'
  <1> USE DEF ChainTypeOK
  <1>1. ASSUME NEW w \in Writers, NEW body \in Bodies, NEW note \in Notes,
               ReadLast(w, body, note)
        PROVE  ChainTypeOK'
    <2>1. minted + 1 \in Ids /\ minted' \in Ids
      BY <1>1, ChainAssumption DEF ReadLast, Ids
    <2>2. PICK last \in LastHashAnswers :
            draft' = [draft EXCEPT ![w] = NewRow(minted + 1, body, note, last)]
      BY <1>1 DEF ReadLast
    <2>3. last \in Digest
      BY LastHashType, GenesisType DEF LastHashAnswers
    <2>4. NewRow(minted + 1, body, note, last) \in Row
      BY <2>1, <2>3, NewRowType
    <2> QED BY <1>1, <2>1, <2>2, <2>4 DEF ReadLast
  <1>2. ASSUME NEW w \in Writers, Insert(w)
        PROVE  ChainTypeOK'
    BY <1>2, NoRowType DEF Insert
  <1>3. ASSUME NEW w \in Writers, Lose(w)
        PROVE  ChainTypeOK'
    BY <1>3, NoRowType DEF Lose
  <1>4. CASE UNCHANGED chainVars
    BY <1>4 DEF chainVars
  <1> QED BY <1>1, <1>2, <1>3, <1>4 DEF ChainNext

\* Rows, drafts and ids keep their types whatever the writers do (append).
THEOREM ChainTypeCorrect == ChainSpec => []ChainTypeOK
  BY ChainTypeInit, ChainTypeStep, PTL DEF ChainSpec

-----------------------------------------------------------------------------
(***************************************************************************)
(* The shape of the table.  PredecessorStored is not inductive, nor is     *)
(* FailureForks, the harder half of FailureIsFork: a draft that is about   *)
(* to be inserted has to chain to a row that is already there, and its     *)
(* digest has to be that of its columns.                                   *)
(***************************************************************************)
Sealed(row) == row.hash = Hash(row.id, row.body, row.prev)

Rooted(row) ==
  \/ row.prev = Genesis
  \/ \E j \in DOMAIN events : events[j].hash = row.prev

EventsSealed == \A i \in DOMAIN events : Sealed(events[i])

DraftsReady ==
  \A w \in Writers :
    ~Idle(w) => draft[w].body \in Bodies /\ Sealed(draft[w]) /\ Rooted(draft[w])

FailureForks ==
  ~Verify(events) =>
    \E i, j \in DOMAIN events : i < j /\ events[i].prev = events[j].prev

ShapeInv ==
  /\ ChainTypeOK
  /\ EventsSealed
  /\ DraftsReady
  /\ PredecessorStored
  /\ FailureForks

\* What last_hash reads is GENESIS or the digest of a stored row.
LEMMA LastHashRooted ==
  ASSUME events \in Seq(Row)
  PROVE  \/ LastHash(events) = Genesis
         \/ \E j \in DOMAIN events : events[j].hash = LastHash(events)
  <1>1. CASE events = <<>>
    BY <1>1 DEF LastHash
  <1>2. CASE events # <<>>
    <2>1. Len(events) \in DOMAIN events
      BY <1>2
    <2> QED BY <1>2, <2>1 DEF LastHash
  <1> QED BY <1>1, <1>2

\* Appending a sealed row to a table that verifies keeps it verified exactly
\* when the row chains to the newest one.
LEMMA AppendVerified ==
  ASSUME NEW rows \in Seq(Row), NEW row \in Row, Verify(rows), Sealed(row),
         row.prev = LastHash(rows)
  PROVE  Verify(Append(rows, row))
  <1> DEFINE n == Len(rows)
             more == Append(rows, row)
  <1>1. /\ n \in Nat
        /\ DOMAIN more = 1..(n + 1)
        /\ \A i \in 1..n : more[i] = rows[i]
        /\ more[n + 1] = row
    OBVIOUS
  <1>2. ASSUME NEW i \in 1..n
        PROVE  more[i].prev = PrevHash(more, i) /\ Sealed(more[i])
    <2>1. PrevHash(more, i) = PrevHash(rows, i)
      BY <1>1, <1>2 DEF PrevHash
    <2> QED BY <1>1, <1>2, <2>1 DEF Verify, Sealed
  <1>3. PrevHash(more, n + 1) = LastHash(rows)
    <2>1. CASE n = 0
      BY <1>1, <2>1 DEF PrevHash, LastHash
    <2>2. CASE n # 0
      BY <1>1, <2>2 DEF PrevHash, LastHash
    <2> QED BY <2>1, <2>2
  <1> QED BY <1>1, <1>2, <1>3 DEF Verify, Sealed

\* A row that chains to any other stored digest shares its predecessor with a
\* row that is already there.
LEMMA StaleRowForks ==
  ASSUME NEW rows \in Seq(Row), NEW row \in Row, Verify(rows),
         \/ row.prev = Genesis
         \/ \E j \in DOMAIN rows : rows[j].hash = row.prev,
         row.prev # LastHash(rows)
  PROVE  \E i \in DOMAIN rows : rows[i].prev = row.prev
  <1>1. CASE row.prev = Genesis
    <2>1. rows # <<>>
      BY <1>1 DEF LastHash
    <2>2. 1 \in DOMAIN rows /\ rows[1].prev = Genesis
      BY <2>1 DEF Verify, PrevHash
    <2> QED BY <1>1, <2>2
  <1>2. ASSUME NEW j \in DOMAIN rows, rows[j].hash = row.prev
        PROVE  \E i \in DOMAIN rows : rows[i].prev = row.prev
    <2>1. rows # <<>> /\ j # Len(rows)
      BY <1>2 DEF LastHash
    <2>2. j + 1 \in DOMAIN rows /\ j + 1 # 1 /\ (j + 1) - 1 = j
      BY <1>2, <2>1
    <2>3. rows[j + 1].prev = rows[j].hash
      BY <2>2 DEF Verify, PrevHash
    <2> QED BY <1>2, <2>2, <2>3
  <1> QED BY <1>1, <1>2

-----------------------------------------------------------------------------
(* ShapeInv is inductive *)

\* The empty table satisfies ShapeInv.
LEMMA ShapeInit == ChainInit => ShapeInv
  <1> SUFFICES ASSUME ChainInit PROVE ShapeInv
    OBVIOUS
  <1>1. ChainTypeOK
    BY ChainTypeInit
  <1>2. \A w \in Writers : Idle(w)
    BY DEF ChainInit, Idle, NoRow, NewRow
  <1> QED
    BY <1>1, <1>2 DEF ChainInit, ShapeInv, EventsSealed, DraftsReady,
                      PredecessorStored, FailureForks, Verify

\* The first critical section of append, and its hashing, keep ShapeInv.
LEMMA ShapeReadLast ==
  ASSUME ShapeInv, ChainTypeOK', NEW w \in Writers, NEW body \in Bodies,
         NEW note \in Notes, ReadLast(w, body, note)
  PROVE  ShapeInv'
  <1> USE DEF ShapeInv
  <1>1. PICK last \in LastHashAnswers :
          draft' = [draft EXCEPT ![w] = NewRow(minted + 1, body, note, last)]
    BY DEF ReadLast
  <1>2. events' = events
    BY DEF ReadLast
  <1>3. \/ last = Genesis
        \/ \E j \in DOMAIN events : events[j].hash = last
    BY LastHashRooted DEF ChainTypeOK, LastHashAnswers
  <1>4. ASSUME NEW v \in Writers, ~Idle(v)'
        PROVE  (draft[v].body \in Bodies /\ Sealed(draft[v]) /\ Rooted(draft[v]))'
    <2>1. CASE v = w
      <3>1. draft'[v] = NewRow(minted + 1, body, note, last)
        BY <1>1, <2>1 DEF ChainTypeOK
      <3> QED BY <1>2, <1>3, <3>1 DEF NewRow, Sealed, Rooted
    <2>2. CASE v # w
      <3>1. draft'[v] = draft[v]
        BY <1>1, <2>2 DEF ChainTypeOK
      <3> QED BY <1>2, <1>4, <3>1 DEF DraftsReady, Idle, Rooted, Sealed
    <2> QED BY <2>1, <2>2
  <1> QED
    BY <1>2, <1>4 DEF DraftsReady, EventsSealed, PredecessorStored, FailureForks

\* The second critical section of append keeps ShapeInv.
LEMMA ShapeInsert ==
  ASSUME ShapeInv, ChainTypeOK', NEW w \in Writers, Insert(w)
  PROVE  ShapeInv'
  <1> DEFINE n == Len(events)
             row == draft[w]
  <1> USE DEF ShapeInv
  <1>1. /\ events \in Seq(Row) /\ row \in Row /\ n \in Nat
        /\ events' = Append(events, row)
        /\ Sealed(row) /\ Rooted(row) /\ row.body \in Bodies
    BY DEF Insert, ChainTypeOK, DraftsReady
  <1>2. /\ DOMAIN events = 1..n
        /\ DOMAIN events' = 1..(n + 1)
        /\ \A i \in 1..n : events'[i] = events[i]
        /\ events'[n + 1] = row
    BY <1>1
  <1>3. EventsSealed'
    BY <1>1, <1>2 DEF EventsSealed, Sealed
  <1>4. DraftsReady'
    <2> SUFFICES ASSUME NEW v \in Writers, ~Idle(v)'
                 PROVE  ( /\ draft[v].body \in Bodies
                          /\ Sealed(draft[v]) /\ Rooted(draft[v]))'
      BY DEF DraftsReady
    <2>1. v # w
      BY DEF Insert, Idle, NoRow, NewRow, ChainTypeOK
    <2>2. draft'[v] = draft[v]
      BY <2>1 DEF Insert, ChainTypeOK
    <2>3. draft[v].body \in Bodies /\ Sealed(draft[v]) /\ Rooted(draft[v])
      BY <2>2 DEF DraftsReady, Idle
    <2> QED BY <1>2, <2>2, <2>3 DEF Sealed, Rooted
  <1>5. PredecessorStored'
    <2> SUFFICES ASSUME NEW i \in 1..(n + 1)
                 PROVE  \/ events'[i].prev = Genesis
                        \/ \E j \in 1..(i - 1) : events'[j].hash = events'[i].prev
      BY <1>2 DEF PredecessorStored
    <2>1. CASE i \in 1..n
      BY <1>1, <1>2, <2>1 DEF PredecessorStored
    <2>2. CASE i = n + 1
      BY <1>1, <1>2, <2>2 DEF Rooted
    <2> QED BY <1>1, <2>1, <2>2
  <1>6. FailureForks'
    <2> SUFFICES ASSUME ~Verify(events)'
                 PROVE  \E i, j \in 1..(n + 1) :
                          i < j /\ events'[i].prev = events'[j].prev
      BY <1>2 DEF FailureForks
    <2>1. CASE ~Verify(events)
      <3>1. PICK i, j \in DOMAIN events : i < j /\ events[i].prev = events[j].prev
        BY <2>1 DEF FailureForks
      <3> QED BY <1>1, <1>2, <3>1
    <2>2. CASE Verify(events)
      <3>1. row.prev # LastHash(events)
        BY <1>1, <2>2, AppendVerified
      <3>2. PICK i \in DOMAIN events : events[i].prev = row.prev
        BY <1>1, <2>2, <3>1, StaleRowForks DEF Rooted
      <3>3. i < n + 1 /\ events'[i].prev = events'[n + 1].prev
        BY <1>1, <1>2, <3>2
      <3> QED BY <1>1, <1>2, <3>2, <3>3
    <2> QED BY <2>1, <2>2
  <1> QED BY <1>3, <1>4, <1>5, <1>6

\* An append that ends without its row keeps ShapeInv.
LEMMA ShapeLose ==
  ASSUME ShapeInv, ChainTypeOK', NEW w \in Writers, Lose(w)
  PROVE  ShapeInv'
  <1> USE DEF ShapeInv
  <1>1. events' = events
    BY DEF Lose
  <1>2. ASSUME NEW v \in Writers, ~Idle(v)'
        PROVE  v # w /\ draft'[v] = draft[v]
    BY <1>2 DEF Lose, Idle, NoRow, NewRow, ChainTypeOK
  <1> QED
    BY <1>1, <1>2 DEF DraftsReady, Idle, Rooted, Sealed, EventsSealed,
                      PredecessorStored, FailureForks

\* The shape of the table, for any number of writers (append, last_hash).
THEOREM ShapeInvariant == ChainSpec => []ShapeInv
  <1>1. ShapeInv /\ ChainTypeOK' /\ [ChainNext]_chainVars => ShapeInv'
    <2> SUFFICES ASSUME ShapeInv, ChainTypeOK', [ChainNext]_chainVars
                 PROVE  ShapeInv'
      OBVIOUS
    <2>1. CASE ChainNext
      BY <2>1, ShapeReadLast, ShapeInsert, ShapeLose DEF ChainNext
    <2>2. CASE UNCHANGED chainVars
      BY <2>2 DEF chainVars, ShapeInv, DraftsReady, Idle, Rooted, Sealed,
                  EventsSealed, PredecessorStored, FailureForks
    <2> QED BY <2>1, <2>2
  <1> QED BY <1>1, ShapeInit, ChainTypeCorrect, PTL DEF ChainSpec

\* Every row chains to GENESIS or to a row stored before it, for any number of
\* concurrent writers (append, last_hash).
THEOREM ForestTheorem == ChainSpec => []PredecessorStored
  BY ShapeInvariant, PTL DEF ShapeInv

-----------------------------------------------------------------------------
(***************************************************************************)
(* Event ids.  They are fresh UUIDs: no two rows have the same one, no     *)
(* draft has that of a row, and so no digest is that of two rows.          *)
(***************************************************************************)
IdsUnique(rows) ==
  /\ \A i \in DOMAIN rows : rows[i].id # 0
  /\ \A i, j \in DOMAIN rows : rows[i].id = rows[j].id => i = j

RowsMinted == \A i \in DOMAIN events : events[i].id \in 1..minted

DraftsUnique ==
  \A w \in Writers : ~Idle(w) =>
    /\ draft[w].id \in 1..minted
    /\ \A i \in DOMAIN events : events[i].id # draft[w].id
    /\ \A v \in Writers : draft[v].id = draft[w].id => v = w

UniqueInv == IdsUnique(events) /\ RowsMinted /\ DraftsUnique

\* In a table that verifies no two rows chain to the same digest.
LEMMA VerifiedIsLinear ==
  ASSUME NEW rows \in Seq(Row), IdsUnique(rows), Verify(rows),
         NEW i \in DOMAIN rows, NEW j \in DOMAIN rows, i < j
  PROVE  rows[i].prev # rows[j].prev
  <1>1. /\ i \in Nat /\ j \in Nat /\ 1 <= i /\ j - 1 \in DOMAIN rows
        /\ i # 1 => i - 1 \in DOMAIN rows
    OBVIOUS
  <1>2. ASSUME NEW k \in DOMAIN rows
        PROVE  rows[k].hash.id = rows[k].id
    <2>1. rows[k].hash = Hash(rows[k].id, rows[k].body, rows[k].prev)
      BY DEF Verify
    <2> QED BY <2>1 DEF Hash
  <1>3. rows[j].prev.id = rows[j - 1].id
    BY <1>1, <1>2 DEF Verify, PrevHash
  <1>4. CASE i = 1
    <2>1. rows[i].prev.id = 0
      BY <1>4 DEF Verify, PrevHash, Genesis
    <2> QED BY <1>1, <1>3, <2>1 DEF IdsUnique
  <1>5. CASE i # 1
    <2>1. rows[i].prev.id = rows[i - 1].id
      BY <1>1, <1>2, <1>5 DEF Verify, PrevHash
    <2> QED BY <1>1, <1>3, <1>5, <2>1 DEF IdsUnique
  <1> QED BY <1>4, <1>5

\* An event id drawn by the first critical section of append is fresh.
LEMMA UniqueReadLast ==
  ASSUME ChainTypeOK, UniqueInv, NEW w \in Writers, NEW body \in Bodies,
         NEW note \in Notes, ReadLast(w, body, note)
  PROVE  UniqueInv'
  <1> USE DEF UniqueInv, ChainTypeOK
  <1>1. PICK last \in LastHashAnswers :
          draft' = [draft EXCEPT ![w] = NewRow(minted + 1, body, note, last)]
    BY DEF ReadLast
  <1>2. /\ events' = events /\ minted' = minted + 1 /\ minted \in Nat
        /\ 1..minted \subseteq 1..(minted + 1) /\ minted + 1 \notin 1..minted
    BY ChainAssumption DEF ReadLast, Ids
  <1>3. IdsUnique(events)' /\ RowsMinted'
    BY <1>2 DEF IdsUnique, RowsMinted
  <1>4. draft'[w].id = minted + 1
    BY <1>1 DEF NewRow
  <1>5. \A v \in Writers \ {w} : draft'[v] = draft[v]
    BY <1>1
  <1>6. \A v \in Writers : draft[v].id \in 0..minted
    BY <1>2 DEF DraftsUnique, Idle
  <1>7. DraftsUnique'
    <2> SUFFICES ASSUME NEW u \in Writers, draft'[u].id # 0
                 PROVE  /\ draft'[u].id \in 1..(minted + 1)
                        /\ \A i \in DOMAIN events : events[i].id # draft'[u].id
                        /\ \A v \in Writers : draft'[v].id = draft'[u].id => v = u
      BY <1>2 DEF DraftsUnique, Idle
    <2>1. CASE u = w
      BY <1>2, <1>4, <1>5, <1>6, <2>1 DEF RowsMinted
    <2>2. CASE u # w
      BY <1>2, <1>4, <1>5, <1>6, <2>2 DEF DraftsUnique, Idle
    <2> QED BY <2>1, <2>2
  <1> QED BY <1>3, <1>7

\* The row that the second critical section inserts leaves the ids distinct.
LEMMA UniqueInsert ==
  ASSUME ChainTypeOK, UniqueInv, NEW w \in Writers, Insert(w)
  PROVE  UniqueInv'
  <1> DEFINE n == Len(events)
             row == draft[w]
  <1> USE DEF UniqueInv, ChainTypeOK
  <1>1. /\ events \in Seq(Row) /\ row \in Row /\ n \in Nat
        /\ events' = Append(events, row) /\ minted' = minted /\ row.id # 0
    BY DEF Insert, Idle
  <1>2. /\ DOMAIN events = 1..n
        /\ DOMAIN events' = 1..(n + 1)
        /\ \A i \in 1..n : events'[i] = events[i]
        /\ events'[n + 1] = row
    BY <1>1
  <1>3. row.id \in 1..minted /\ \A i \in 1..n : events[i].id # row.id
    BY <1>1, <1>2 DEF DraftsUnique, Idle
  <1>4. IdsUnique(events)'
    BY <1>1, <1>2, <1>3 DEF IdsUnique
  <1>5. RowsMinted'
    BY <1>1, <1>2, <1>3 DEF RowsMinted
  <1>6. \A v \in Writers : ~Idle(v)' => v # w /\ draft'[v] = draft[v]
    BY DEF Insert, Idle, NoRow, NewRow
  <1>7. DraftsUnique'
    BY <1>1, <1>2, <1>6 DEF DraftsUnique, Idle
  <1> QED BY <1>4, <1>5, <1>7

\* An append that ends without its row leaves the ids distinct.
LEMMA UniqueLose ==
  ASSUME ChainTypeOK, UniqueInv, NEW w \in Writers, Lose(w)
  PROVE  UniqueInv'
  <1>1. \A v \in Writers : ~Idle(v)' => v # w /\ draft'[v] = draft[v]
    BY DEF Lose, Idle, NoRow, NewRow, ChainTypeOK
  <1>2. events' = events /\ minted' = minted
    BY DEF Lose
  <1> QED BY <1>1, <1>2 DEF UniqueInv, IdsUnique, RowsMinted, DraftsUnique, Idle

\* Ids are distinct whatever the writers do (append).
LEMMA UniqueInvariant == ChainSpec => []UniqueInv
  <1>1. ChainInit => UniqueInv
    BY DEF ChainInit, UniqueInv, IdsUnique, RowsMinted, DraftsUnique, Idle,
           NoRow, NewRow
  <1>2. UniqueInv /\ ChainTypeOK /\ [ChainNext]_chainVars => UniqueInv'
    <2> SUFFICES ASSUME UniqueInv, ChainTypeOK, [ChainNext]_chainVars
                 PROVE  UniqueInv'
      OBVIOUS
    <2>1. CASE ChainNext
      BY <2>1, UniqueReadLast, UniqueInsert, UniqueLose DEF ChainNext
    <2>2. CASE UNCHANGED chainVars
      BY <2>2 DEF chainVars, UniqueInv, IdsUnique, RowsMinted, DraftsUnique, Idle
    <2> QED BY <2>1, <2>2
  <1> QED BY <1>1, <1>2, ChainTypeCorrect, PTL DEF ChainSpec

\* On a table nobody else has touched, verify reports damage exactly when two
\* rows chain to the same predecessor (verify, append).
THEOREM ForkTheorem == ChainSpec => []FailureIsFork
  <1>1. ShapeInv /\ UniqueInv => FailureIsFork
    BY VerifiedIsLinear DEF ShapeInv, ChainTypeOK, UniqueInv, FailureForks, FailureIsFork
  <1> QED BY <1>1, ShapeInvariant, UniqueInvariant, PTL

\* No append repairs a table that verify rejects.
THEOREM ForkStays == ChainSpec => ForkIsPermanent
  <1>1. ChainTypeOK /\ [ChainNext]_chainVars =>
          [~Verify(events) => ~Verify(events')]_chainVars
    <2> SUFFICES ASSUME ChainTypeOK, ChainNext, ~Verify(events)
                 PROVE  ~Verify(events')
      OBVIOUS
    <2>1. CASE events' = events
      BY <2>1
    <2>2. ASSUME NEW w \in Writers, Insert(w)
          PROVE  ~Verify(events')
      <3>1. /\ events \in Seq(Row) /\ draft[w] \in Row
            /\ events' = Append(events, draft[w])
        BY <2>2 DEF Insert, ChainTypeOK
      <3>2. PICK i \in DOMAIN events :
              ~ /\ events[i].prev = PrevHash(events, i)
                /\ events[i].hash =
                     Hash(events[i].id, events[i].body, events[i].prev)
        BY DEF Verify
      <3>3. i \in DOMAIN events' /\ events'[i] = events[i]
        BY <3>1
      <3>4. PrevHash(events', i) = PrevHash(events, i)
        BY <3>1 DEF PrevHash
      <3> QED BY <3>2, <3>3, <3>4 DEF Verify
    <2> QED BY <2>1, <2>2 DEF ChainNext, ReadLast, Lose
  <1> QED BY <1>1, ChainTypeCorrect, PTL DEF ChainSpec, ForkIsPermanent
-----------------------------------------------------------------------------
(***************************************************************************)
(* One writer.  Between its two critical sections nobody else inserts, so  *)
(* the digest it has read is still the newest one when it inserts.         *)
(***************************************************************************)
SingleWriter == \A v, w \in Writers : v = w

DraftsFresh == \A w \in Writers : ~Idle(w) => draft[w].prev = LastHash(events)

SequentialInv ==
  /\ DraftsFresh
  /\ Verify(events)

\* With one writer and reads that succeed, each step keeps the chain verified.
LEMMA SequentialStep ==
  ASSUME SingleWriter, ~ReadsMayFail, ShapeInv, SequentialInv, [ChainNext]_chainVars
  PROVE  SequentialInv'
  <1> USE DEF ShapeInv, SequentialInv
  <1>1. ASSUME NEW w \in Writers, NEW body \in Bodies, NEW note \in Notes,
               ReadLast(w, body, note)
        PROVE  SequentialInv'
    <2>1. draft' = [draft EXCEPT ![w] = NewRow(minted + 1, body, note, LastHash(events))]
      BY <1>1 DEF ReadLast, LastHashAnswers
    <2>2. events' = events
      BY <1>1 DEF ReadLast
    <2>3. draft'[w].prev = LastHash(events)
      BY <2>1 DEF NewRow, ChainTypeOK
    <2> QED BY <2>2, <2>3 DEF SingleWriter, DraftsFresh
  <1>2. ASSUME NEW w \in Writers, Insert(w)
        PROVE  SequentialInv'
    <2>1. Idle(w)'
      BY <1>2 DEF Insert, Idle, NoRow, NewRow, ChainTypeOK
    <2>2. events \in Seq(Row) /\ draft[w] \in Row /\ events' = Append(events, draft[w])
      BY <1>2 DEF Insert, ChainTypeOK
    <2>3. Sealed(draft[w]) /\ draft[w].prev = LastHash(events)
      BY <1>2 DEF Insert, DraftsReady, DraftsFresh
    <2>4. Verify(events')
      BY <2>2, <2>3, AppendVerified
    <2> QED BY <2>1, <2>4 DEF SingleWriter, DraftsFresh
  <1>3. ASSUME NEW w \in Writers, Lose(w)
        PROVE  SequentialInv'
    <2>1. Idle(w)' /\ events' = events
      BY <1>3 DEF Lose, Idle, NoRow, NewRow, ChainTypeOK
    <2> QED BY <2>1 DEF SingleWriter, DraftsFresh
  <1>4. CASE UNCHANGED chainVars
    BY <1>4 DEF chainVars, DraftsFresh, Idle
  <1> QED BY <1>1, <1>2, <1>3, <1>4 DEF ChainNext

\* SequentialInv holds throughout for one writer whose reads succeed.
LEMMA SequentialInvariant ==
  ASSUME SingleWriter, ~ReadsMayFail
  PROVE  ChainSpec => []SequentialInv
  <1>1. ChainInit => SequentialInv
    BY DEF ChainInit, SequentialInv, DraftsFresh, Idle, NoRow, NewRow, Verify
  <1>2. ShapeInv /\ SequentialInv /\ [ChainNext]_chainVars => SequentialInv'
    BY SequentialStep
  <1> QED BY <1>1, <1>2, ShapeInvariant, PTL DEF ChainSpec

\* With one writer whose reads succeed, the table always verifies (verify).
THEOREM SequentialChainVerifies ==
  ASSUME SingleWriter, ~ReadsMayFail
  PROVE  ChainSpec => []ChainVerifies
  BY SequentialInvariant, PTL DEF SequentialInv, ChainVerifies

\* The ledger's view of a table.
Contents(rows) == [i \in DOMAIN rows |-> <<rows[i].body, rows[i].note>>]

\* Appending a row appends what it says to the ledger.
LEMMA ContentsAppend ==
  ASSUME NEW rows \in Seq(Row), NEW row \in Row
  PROVE  Contents(Append(rows, row)) = Append(Contents(rows), <<row.body, row.note>>)
  <1> DEFINE S == (Bodies \cup {NoBody}) \X Notes
             c == <<row.body, row.note>>
             n == Len(rows)
  <1>1. \A r \in Row : <<r.body, r.note>> \in S
    BY DEF Row
  <1>2. /\ n \in Nat
        /\ \A i \in 1..n : rows[i] \in Row
        /\ DOMAIN Append(rows, row) = 1..(n + 1)
        /\ \A i \in 1..n : Append(rows, row)[i] = rows[i]
        /\ Append(rows, row)[n + 1] = row
    OBVIOUS
  <1>3. Contents(rows) \in Seq(S) /\ Len(Contents(rows)) = n
    <2>1. \A i \in 1..n : <<rows[i].body, rows[i].note>> \in S
      BY <1>1, <1>2
    <2> HIDE DEF S
    <2> QED BY <1>2, <2>1 DEF Contents
  <1>4. \A i \in 1..(n + 1) :
          <<Append(rows, row)[i].body, Append(rows, row)[i].note>> \in S
    BY <1>1, <1>2
  <1>5. Contents(Append(rows, row)) \in Seq(S) /\ Len(Contents(Append(rows, row))) = n + 1
    <2> HIDE DEF S
    <2> QED BY <1>2, <1>4 DEF Contents
  <1>6. c \in S
    BY <1>1
  <1>7. /\ Append(Contents(rows), c) \in Seq(S)
        /\ Len(Append(Contents(rows), c)) = n + 1
        /\ \A i \in 1..n : Append(Contents(rows), c)[i] = Contents(rows)[i]
        /\ Append(Contents(rows), c)[n + 1] = c
    <2> HIDE DEF S, c
    <2> QED BY <1>2, <1>3, <1>6
  <1>8. ASSUME NEW i \in 1..(n + 1)
        PROVE  Contents(Append(rows, row))[i] = Append(Contents(rows), c)[i]
    <2>1. CASE i \in 1..n
      <3>1. Contents(Append(rows, row))[i] = Contents(rows)[i]
        BY <1>2, <2>1 DEF Contents
      <3> QED BY <1>7, <2>1, <3>1
    <2>2. CASE i = n + 1
      <3>1. Contents(Append(rows, row))[n + 1] = c
        BY <1>2 DEF Contents
      <3> QED BY <1>7, <2>2, <3>1
    <2>3. i \in 1..n \/ i = n + 1
      <3>1. n \in Nat
        OBVIOUS
      <3> QED BY <3>1
    <2> QED BY <2>1, <2>2, <2>3
  <1>9. Contents(Append(rows, row)) = Append(Contents(rows), c)
    <2> DEFINE s == Contents(Append(rows, row))
               t == Append(Contents(rows), c)
    <2>1. /\ s \in Seq(S) /\ t \in Seq(S)
          /\ Len(s) = Len(t)
          /\ \A i \in 1..Len(s) : s[i] = t[i]
      BY <1>5, <1>7, <1>8
    <2> HIDE DEF S, s, t
    <2>2. s = t
      BY <2>1, SeqEqual
    <2> QED BY <2>2 DEF s, t
  <1> QED BY <1>9

\* What a table is after a sealed row was added to it.
LEMMA AppendVerifies ==
  ASSUME NEW rows \in Seq(Row), NEW row \in Row, Sealed(row)
  PROVE  Verify(Append(rows, row)) <=> (Verify(rows) /\ row.prev = LastHash(rows))
  <1> DEFINE n == Len(rows)
             more == Append(rows, row)
  <1>1. /\ n \in Nat
        /\ DOMAIN rows = 1..n
        /\ DOMAIN more = 1..(n + 1)
        /\ \A i \in 1..n : more[i] = rows[i]
        /\ more[n + 1] = row
    OBVIOUS
  <1>2. ASSUME NEW i \in 1..n
        PROVE  PrevHash(more, i) = PrevHash(rows, i)
    BY <1>1 DEF PrevHash
  <1>3. PrevHash(more, n + 1) = LastHash(rows)
    <2>1. CASE n = 0
      <3>1. rows = <<>>
        BY <2>1
      <3> QED BY <2>1, <3>1 DEF PrevHash, LastHash
    <2>2. CASE n # 0
      <3>1. rows # <<>> /\ n \in 1..n /\ (n + 1) - 1 = n
        BY <1>1, <2>2
      <3>2. more[n] = rows[n]
        BY <1>1, <3>1
      <3> QED BY <2>2, <3>1, <3>2 DEF PrevHash, LastHash
    <2> QED BY <2>1, <2>2
  <1>4. ASSUME Verify(more)
        PROVE  Verify(rows) /\ row.prev = LastHash(rows)
    <2>1. ASSUME NEW i \in 1..n
          PROVE  /\ rows[i].prev = PrevHash(rows, i)
                 /\ rows[i].hash = Hash(rows[i].id, rows[i].body, rows[i].prev)
      BY <1>1, <1>2, <1>4, <2>1 DEF Verify
    <2>2. n + 1 \in DOMAIN more
      BY <1>1
    <2>3. more[n + 1].prev = PrevHash(more, n + 1)
      BY <1>4, <2>2 DEF Verify
    <2> QED BY <1>1, <1>3, <2>1, <2>3 DEF Verify
  <1> QED BY <1>4, AppendVerified

\* The ledger's view of the writers.
Open == {w \in Writers : ~Idle(w)}
Late == {w \in Writers : Overtaken(w)}

\* The first critical section begins an append.
LEMMA ReadBegins ==
  ASSUME ShapeInv, NEW w \in Writers, NEW body \in Bodies, NEW note \in Notes,
         ReadLast(w, body, note)
  PROVE  Ledger!Begin(w)
  <1>1. PICK last \in LastHashAnswers :
          draft' = [draft EXCEPT ![w] = NewRow(minted + 1, body, note, last)]
    BY DEF ReadLast
  <1>2. /\ events' = events /\ Idle(w)
        /\ draft \in [Writers -> Row] /\ minted \in Nat
    BY ChainAssumption DEF ReadLast, ShapeInv, ChainTypeOK, Ids
  <1>3. /\ ~Idle(w)' /\ draft'[w].prev = last
        /\ \A v \in Writers \ {w} : draft'[v] = draft[v]
    BY <1>1, <1>2 DEF NewRow, Idle
  <1>4. w \notin Open /\ Open' = Open \cup {w}
    BY <1>2, <1>3 DEF Open, Idle
  <1>5. CASE last = LastHash(events)
    <2>1. Late' = Late
      BY <1>2, <1>3, <1>5 DEF Late, Overtaken, Idle
    <2> QED BY <1>2, <1>4, <2>1 DEF Ledger!Begin, Open, Late
  <1>6. CASE last # LastHash(events)
    <2>1. ReadsMayFail /\ last = Genesis
      BY <1>6 DEF LastHashAnswers
    <2>2. events # <<>>
      BY <1>6, <2>1 DEF LastHash
    <2>3. Contents(events) # <<>>
      <3>1. events \in Seq(Row) /\ Len(events) # 0
        BY <2>2 DEF ShapeInv, ChainTypeOK
      <3>2. 1 \in DOMAIN events
        BY <3>1
      <3>3. 1 \in DOMAIN Contents(events)
        BY <3>2 DEF Contents
      <3> QED BY <3>3
    <2>4. Late' = Late \cup {w}
      BY <1>2, <1>3, <1>6 DEF Late, Overtaken, Idle
    <2> QED BY <1>2, <1>4, <2>1, <2>3, <2>4 DEF Ledger!Begin, Open, Late, Contents
  <1> QED BY <1>5, <1>6

\* The second one records it, and overtakes every other that is under way.
LEMMA InsertRecords ==
  ASSUME ShapeInv, UniqueInv, NEW w \in Writers, Insert(w)
  PROVE  \E c \in Bodies \X Notes : Ledger!Record(w, c)
  <1> DEFINE row == draft[w]
  <1>0. PICK c : c = <<row.body, row.note>>
    OBVIOUS
  <1>1. /\ events \in Seq(Row) /\ row \in Row /\ draft \in [Writers -> Row]
        /\ events' = Append(events, row) /\ Len(events) \in Nat
        /\ ~Idle(w)
    BY DEF Insert, ShapeInv, ChainTypeOK
  <1>2. Sealed(row) /\ row.body \in Bodies
    BY <1>1 DEF ShapeInv, DraftsReady
  <1>3. c \in Bodies \X Notes
    BY <1>0, <1>1, <1>2 DEF Row
  <1>4. Contents(events)' = Append(Contents(events), c)
    BY <1>0, <1>1, ContentsAppend DEF Contents
  <1>5. \A v \in Writers : (~Idle(v))' <=> (~Idle(v) /\ v # w)
    BY <1>1 DEF Insert, Idle, NoRow, NewRow
  <1>6. \A v \in Writers \ {w} : draft'[v] = draft[v]
    BY <1>1 DEF Insert
  <1>7. Open' = Open \ {w} /\ w \in Open
    BY <1>1, <1>5 DEF Open
  <1>8. Verify(events)' = (Verify(events) /\ w \notin Late)
    <2>1. Verify(events') <=> (Verify(events) /\ row.prev = LastHash(events))
      BY <1>1, <1>2, AppendVerifies
    <2>2. w \in Late <=> row.prev # LastHash(events)
      BY <1>1 DEF Late, Overtaken
    <2>3. Verify(events') \in BOOLEAN /\ Verify(events) \in BOOLEAN
      BY DEF Verify
    <2> QED BY <2>1, <2>2, <2>3
  <1>9. LastHash(events') = row.hash
    BY <1>1 DEF LastHash
  <1>10. ASSUME NEW v \in Writers \ {w}, ~Idle(v)
         PROVE  draft[v].prev # row.hash
    <2>1. row.hash.id = row.id /\ row.id # 0
      BY <1>1, <1>2 DEF Sealed, Hash, Idle
    <2>2. Rooted(draft[v])
      BY <1>10 DEF ShapeInv, DraftsReady
    <2>3. CASE draft[v].prev = Genesis
      BY <2>1, <2>3 DEF Genesis
    <2>4. ASSUME NEW j \in DOMAIN events, events[j].hash = draft[v].prev
          PROVE  draft[v].prev # row.hash
      <3>1. events[j].hash.id = events[j].id
        <4>1. Sealed(events[j])
          BY DEF ShapeInv, EventsSealed
        <4> QED BY <4>1 DEF Sealed, Hash
      <3>2. events[j].id # row.id
        BY <1>1 DEF UniqueInv, DraftsUnique
      <3> QED BY <2>1, <2>4, <3>1, <3>2
    <2> QED BY <2>2, <2>3, <2>4 DEF Rooted
  <1>11. Late' = Open \ {w}
    BY <1>5, <1>6, <1>9, <1>10 DEF Late, Open, Overtaken
  <1>12. Ledger!Record(w, c)
    BY <1>4, <1>7, <1>8, <1>11 DEF Ledger!Record, Contents, Open, Late
  <1> QED BY <1>3, <1>12

\* An append that ends without its row is dropped.
LEMMA LoseDrops ==
  ASSUME ShapeInv, NEW w \in Writers, Lose(w)
  PROVE  Ledger!Drop(w)
  <1>1. events' = events /\ ~Idle(w) /\ draft \in [Writers -> Row]
    BY DEF Lose, ShapeInv, ChainTypeOK
  <1>2. \A v \in Writers : (~Idle(v))' <=> (~Idle(v) /\ v # w)
    BY <1>1 DEF Lose, Idle, NoRow, NewRow
  <1>3. \A v \in Writers \ {w} : draft'[v] = draft[v]
    BY <1>1 DEF Lose
  <1>4. Open' = Open \ {w} /\ w \in Open /\ Late' = Late \ {w}
    BY <1>1, <1>2, <1>3 DEF Open, Late, Overtaken
  <1> QED BY <1>1, <1>4 DEF Ledger!Drop, Open, Late

\* With any writers, failed reads and lost inserts, appends implement the ledger:
\* verify fails from the first overtaken append on that is inserted, and for no other
\* reason (append, verify).
THEOREM ChainImplementsLedger == ChainSpec => ImplementsLedger
  <1>1. ChainInit => Ledger!Init
    <2> SUFFICES ASSUME ChainInit
                 PROVE  Ledger!Init
      OBVIOUS
    <2>1. events = <<>> /\ \A w \in Writers : Idle(w)
      BY DEF ChainInit, Idle, NoRow, NewRow
    <2>2. Verify(events) = TRUE
      BY <2>1 DEF Verify
    <2>3. Contents(events) = <<>>
      BY <2>1 DEF Contents
    <2>4. Open = {} /\ Late = {}
      BY <2>1 DEF Open, Late, Overtaken
    <2> QED BY <2>2, <2>3, <2>4 DEF Ledger!Init, Contents, Open, Late
  <1>2. ShapeInv /\ UniqueInv /\ [ChainNext]_chainVars => [Ledger!Next]_(Ledger!vars)
    <2> SUFFICES ASSUME ShapeInv, UniqueInv, [ChainNext]_chainVars
                 PROVE  [Ledger!Next]_(Ledger!vars)
      OBVIOUS
    <2>1. CASE UNCHANGED chainVars
      BY <2>1 DEF chainVars, Ledger!vars, Overtaken, Idle
    <2>2. CASE ChainNext
      BY <2>2, ReadBegins, InsertRecords, LoseDrops DEF ChainNext, Ledger!Next
    <2> QED BY <2>1, <2>2
  <1> QED
    BY <1>1, <1>2, ShapeInvariant, UniqueInvariant, PTL
    DEF ChainSpec, ImplementsLedger, Ledger!Spec

-----------------------------------------------------------------------------
(***************************************************************************)
(* A file changed from outside.  Whatever is edited, deleted or exchanged, *)
(* a row keeps the id, the link and the digest of a row that an append has *)
(* written, for the digests are not computed again; the body alone may     *)
(* differ, and the digest gives that away.                                 *)
(***************************************************************************)
SameLink(r, t) == r.id = t.id /\ r.prev = t.prev /\ r.hash = t.hash

DraftsSealed == \A w \in Writers : ~Idle(w) => Sealed(draft[w])

WrittenSealed == \A row \in written : Sealed(row)

RowsTraced == \A i \in DOMAIN events : \E row \in written : SameLink(row, events[i])

IntegrityInv ==
  /\ ChainTypeOK
  /\ UniqueInv
  /\ DraftsSealed
  /\ WrittenSealed
  /\ RowsTraced

\* A table whose rows keep the links of stored rows, none of them twice.
Rearranged(rows) ==
  /\ rows \in Seq(Row)
  /\ IdsUnique(rows)
  /\ \A k \in DOMAIN rows : \E m \in DOMAIN events : SameLink(rows[k], events[m])

\* Deleting a row moves those behind it up by one and leaves the others.
LEMMA RemoveAtRows ==
  ASSUME NEW rows \in Seq(Row), NEW i \in DOMAIN rows
  PROVE  /\ RemoveAt(rows, i) \in Seq(Row)
         /\ DOMAIN RemoveAt(rows, i) = 1..(Len(rows) - 1)
         /\ \A k \in 1..(Len(rows) - 1) :
              RemoveAt(rows, i)[k] = IF k < i THEN rows[k] ELSE rows[k + 1]
  <1> DEFINE n == Len(rows)
             front == SubSeq(rows, 1, i - 1)
             back == SubSeq(rows, i + 1, n)
  <1>1. n \in Nat /\ i \in 1..n
    OBVIOUS
  <1>2. /\ front \in Seq(Row) /\ Len(front) = i - 1
        /\ \A k \in 1..(i - 1) : front[k] = rows[k]
    BY <1>1, SubSeqProperties
  <1>3. /\ back \in Seq(Row) /\ Len(back) = n - i
        /\ \A k \in 1..(n - i) : back[k] = rows[i + k]
    <2>1. /\ back \in Seq(Row)
          /\ Len(back) = IF i + 1 <= n THEN n - (i + 1) + 1 ELSE 0
      BY <1>1, SubSeqProperties
    <2>2. Len(back) = n - i
      BY <1>1, <2>1
    <2>3. ASSUME NEW k \in 1..(n - i)
          PROVE  back[k] = rows[i + k]
      BY <1>1, <2>3
    <2> QED BY <2>1, <2>2, <2>3
  <1>4. RemoveAt(rows, i) = front \o back
    BY DEF RemoveAt
  <1> HIDE DEF front, back
  <1>5. /\ front \o back \in Seq(Row) /\ Len(front \o back) = n - 1
        /\ \A k \in 1..(n - 1) :
             (front \o back)[k] = IF k <= i - 1 THEN front[k] ELSE back[k - (i - 1)]
    <2>1. /\ front \o back \in Seq(Row)
          /\ Len(front \o back) = Len(front) + Len(back)
          /\ \A k \in 1..(Len(front) + Len(back)) :
               (front \o back)[k] =
                 IF k <= Len(front) THEN front[k] ELSE back[k - Len(front)]
      BY <1>2, <1>3, ConcatProperties
    <2>2. Len(front) + Len(back) = n - 1
      BY <1>1, <1>2, <1>3
    <2> QED BY <1>2, <2>1, <2>2
  <1>6. ASSUME NEW k \in 1..(n - 1)
        PROVE  (front \o back)[k] = IF k < i THEN rows[k] ELSE rows[k + 1]
    <2>1. CASE k < i
      BY <1>1, <1>2, <1>5, <2>1
    <2>2. CASE ~(k < i)
      <3>1. k - (i - 1) \in 1..(n - i) /\ i + (k - (i - 1)) = k + 1
        BY <1>1, <2>2
      <3>2. (front \o back)[k] = back[k - (i - 1)]
        BY <1>1, <1>5, <2>2
      <3>3. back[k - (i - 1)] = rows[k + 1]
        BY <1>3, <3>1
      <3> QED BY <2>2, <3>2, <3>3
    <2> QED BY <2>1, <2>2
  <1>7. DOMAIN (front \o back) = 1..(n - 1)
    BY <1>5
  <1> QED BY <1>4, <1>5, <1>6, <1>7

\* Equal digests are digests of the same id and the same text.
LEMMA HashInjective ==
  ASSUME NEW id1, NEW body1, NEW prev1, NEW id2, NEW body2, NEW prev2,
         Hash(id1, body1, prev1) = Hash(id2, body2, prev2)
  PROVE  id1 = id2 /\ body1 = body2
  BY DEF Hash

\* An edit, a deletion and an exchange each rearrange the table.
LEMMA AlterationsRearrange ==
  ASSUME ChainTypeOK, UniqueInv, NEW i \in DOMAIN events, NEW j \in DOMAIN events
  PROVE  /\ \A b \in Bodies : Rearranged([events EXCEPT ![i].body = b])
         /\ \A n \in Notes : Rearranged([events EXCEPT ![i].note = n])
         /\ Rearranged(RemoveAt(events, i))
         /\ Rearranged([events EXCEPT ![i] = events[j], ![j] = events[i]])
  <1>1. events \in Seq(Row) /\ IdsUnique(events) /\ Len(events) \in Nat
    BY DEF ChainTypeOK, UniqueInv
  <1>2. DOMAIN events = 1..Len(events) /\ i \in Nat /\ j \in Nat
    BY <1>1
  <1>3. ASSUME NEW b \in Bodies
        PROVE  Rearranged([events EXCEPT ![i].body = b])
    <2> DEFINE rows == [events EXCEPT ![i].body = b]
    <2>1. rows[i] \in Row /\ SameLink(rows[i], events[i])
      <3>1. rows[i] = [events[i] EXCEPT !.body = b] /\ events[i] \in Row
        BY <1>1
      <3> HIDE DEF rows
      <3> QED BY <3>1 DEF Row, SameLink
    <2>2. \A k \in DOMAIN events \ {i} : rows[k] = events[k]
      BY <1>1
    <2>3. DOMAIN rows = DOMAIN events /\ rows \in Seq(Row)
      BY <1>1, <2>1
    <2>4. \A k \in DOMAIN events : SameLink(rows[k], events[k])
      BY <2>1, <2>2 DEF SameLink
    <2> QED BY <1>1, <2>3, <2>4 DEF Rearranged, IdsUnique, SameLink
  <1>4. ASSUME NEW n \in Notes
        PROVE  Rearranged([events EXCEPT ![i].note = n])
    <2> DEFINE rows == [events EXCEPT ![i].note = n]
    <2>1. rows[i] \in Row /\ SameLink(rows[i], events[i])
      <3>1. rows[i] = [events[i] EXCEPT !.note = n] /\ events[i] \in Row
        BY <1>1
      <3> HIDE DEF rows
      <3> QED BY <3>1 DEF Row, SameLink
    <2>2. \A k \in DOMAIN events \ {i} : rows[k] = events[k]
      BY <1>1
    <2>3. DOMAIN rows = DOMAIN events /\ rows \in Seq(Row)
      BY <1>1, <2>1
    <2>4. \A k \in DOMAIN events : SameLink(rows[k], events[k])
      BY <2>1, <2>2 DEF SameLink
    <2> QED BY <1>1, <2>3, <2>4 DEF Rearranged, IdsUnique, SameLink
  <1>5. Rearranged(RemoveAt(events, i))
    <2> DEFINE rows == RemoveAt(events, i)
               from(k) == IF k < i THEN k ELSE k + 1
    <2>1. /\ rows \in Seq(Row) /\ DOMAIN rows = 1..(Len(events) - 1)
          /\ \A k \in 1..(Len(events) - 1) : rows[k] = events[from(k)]
      BY <1>1, RemoveAtRows
    <2>2. /\ \A k \in 1..(Len(events) - 1) : from(k) \in DOMAIN events
          /\ \A k, l \in 1..(Len(events) - 1) : from(k) = from(l) => k = l
      BY <1>1, <1>2
    <2> HIDE DEF rows, from
    <2>3. IdsUnique(rows)
      <3>1. \A k \in DOMAIN rows : rows[k].id = events[from(k)].id
        BY <2>1
      <3>2. /\ \A k \in DOMAIN rows : from(k) \in DOMAIN events
            /\ \A k, l \in DOMAIN rows : from(k) = from(l) => k = l
        BY <2>1, <2>2
      <3> HIDE DEF rows, from
      <3> QED BY <1>1, <3>1, <3>2 DEF IdsUnique
    <2>4. \A k \in DOMAIN rows : SameLink(rows[k], events[from(k)])
      BY <2>1 DEF SameLink
    <2>5. Rearranged(rows)
      BY <2>1, <2>2, <2>3, <2>4 DEF Rearranged
    <2> QED BY <2>5 DEF rows
  <1>6. Rearranged([events EXCEPT ![i] = events[j], ![j] = events[i]])
    <2> DEFINE rows == [events EXCEPT ![i] = events[j], ![j] = events[i]]
               from(k) == IF k = j THEN i ELSE IF k = i THEN j ELSE k
    <2>1. /\ rows \in Seq(Row) /\ DOMAIN rows = DOMAIN events
          /\ \A k \in DOMAIN events : rows[k] = events[from(k)]
      BY <1>1
    <2>2. /\ \A k \in DOMAIN events : from(k) \in DOMAIN events
          /\ \A k, l \in DOMAIN events : from(k) = from(l) => k = l
      BY <1>2
    <2> HIDE DEF rows, from
    <2>3. \A k \in DOMAIN rows : rows[k].id = events[from(k)].id
      BY <2>1
    <2>4. IdsUnique(rows)
      BY <1>1, <2>1, <2>2, <2>3 DEF IdsUnique
    <2>5. \A k \in DOMAIN rows : SameLink(rows[k], events[from(k)])
      BY <2>1 DEF SameLink
    <2>6. Rearranged(rows)
      BY <2>1, <2>2, <2>4, <2>5 DEF Rearranged
    <2> QED BY <2>6 DEF rows
  <1> QED BY <1>3, <1>4, <1>5, <1>6

\* A rearranged table keeps IntegrityInv.
LEMMA IntegrityAlter ==
  ASSUME IntegrityInv, NEW rows, Rearranged(rows), Alter(rows)
  PROVE  IntegrityInv'
  <1> USE DEF IntegrityInv, SameLink
  <1>1. /\ events' = rows
        /\ draft' = draft /\ minted' = minted /\ written' = written
    BY DEF Alter
  <1>2. \A k \in DOMAIN rows : \E m \in DOMAIN events : SameLink(rows[k], events[m])
    BY DEF Rearranged
  <1>3. ChainTypeOK'
    BY <1>1 DEF ChainTypeOK, Rearranged
  <1>4. UniqueInv'
    BY <1>1, <1>2 DEF UniqueInv, RowsMinted, DraftsUnique, Idle, Rearranged, IdsUnique
  <1>5. DraftsSealed' /\ WrittenSealed'
    BY <1>1 DEF DraftsSealed, WrittenSealed, Idle, Sealed
  <1>6. RowsTraced'
    BY <1>1, <1>2 DEF RowsTraced
  <1> QED BY <1>3, <1>4, <1>5, <1>6

\* An append keeps IntegrityInv.
LEMMA IntegrityProgram ==
  ASSUME IntegrityInv, NEW w \in Writers, Program(w)
  PROVE  IntegrityInv'
  <1> USE DEF IntegrityInv
  <1>1. ASSUME NEW body \in Bodies, NEW note \in Notes, ReadLast(w, body, note),
               written' = written
        PROVE  IntegrityInv'
    <2>1. ChainTypeOK' /\ UniqueInv'
      BY <1>1, ChainTypeStep, UniqueReadLast DEF ChainNext
    <2>2. PICK last \in LastHashAnswers :
            draft' = [draft EXCEPT ![w] = NewRow(minted + 1, body, note, last)]
      BY <1>1 DEF ReadLast
    <2>3. DraftsSealed'
      <3> SUFFICES ASSUME NEW v \in Writers, ~Idle(v)' PROVE Sealed(draft'[v])
        BY DEF DraftsSealed, Sealed
      <3>1. CASE v = w
        BY <2>2, <3>1 DEF ChainTypeOK, NewRow, Sealed
      <3>2. CASE v # w
        BY <2>2, <3>2 DEF ChainTypeOK, DraftsSealed, Idle
      <3> QED BY <3>1, <3>2
    <2> QED BY <1>1, <2>1, <2>3 DEF ReadLast, WrittenSealed, RowsTraced, Sealed, SameLink
  <1>2. ASSUME Insert(w), written' = written \cup {draft[w]}
        PROVE  IntegrityInv'
    <2>1. ChainTypeOK' /\ UniqueInv'
      BY <1>2, ChainTypeStep, UniqueInsert DEF ChainNext
    <2>2. \A v \in Writers : ~Idle(v)' => v # w /\ draft'[v] = draft[v]
      BY <1>2 DEF Insert, Idle, NoRow, NewRow, ChainTypeOK
    <2>3. DraftsSealed' /\ WrittenSealed'
      BY <1>2, <2>2 DEF DraftsSealed, WrittenSealed, Insert, Idle, Sealed
    <2>4. RowsTraced'
      <3>1. events \in Seq(Row) /\ draft[w] \in Row /\ events' = Append(events, draft[w])
        BY <1>2 DEF Insert, ChainTypeOK
      <3>2. \A i \in DOMAIN events' : \/ i \in DOMAIN events /\ events'[i] = events[i]
                                     \/ events'[i] = draft[w]
        BY <3>1
      <3> QED BY <1>2, <3>2 DEF RowsTraced, SameLink
    <2> QED BY <2>1, <2>3, <2>4
  <1> QED BY <1>1, <1>2 DEF Program

\* IntegrityInv holds of a file that is appended to and changed from outside.
LEMMA IntegrityInvariant == Spec => []IntegrityInv
  <1>1. Init => IntegrityInv
    BY ChainTypeInit
    DEF Init, ChainInit, IntegrityInv, UniqueInv, IdsUnique, RowsMinted, DraftsUnique,
        DraftsSealed, WrittenSealed, RowsTraced, Idle, NoRow, NewRow
  <1>2. IntegrityInv /\ [Next]_vars => IntegrityInv'
    <2> SUFFICES ASSUME IntegrityInv, [Next]_vars PROVE IntegrityInv'
      OBVIOUS
    <2>1. ASSUME NEW i \in DOMAIN events, EditBody(i) \/ EditNote(i) \/ DeleteRow(i)
          PROVE  IntegrityInv'
      BY <2>1, AlterationsRearrange, IntegrityAlter
      DEF EditBody, EditNote, DeleteRow, IntegrityInv
    <2>2. ASSUME NEW i \in DOMAIN events, NEW j \in DOMAIN events, SwapRows(i, j)
          PROVE  IntegrityInv'
      BY <2>2, AlterationsRearrange, IntegrityAlter DEF SwapRows, IntegrityInv
    <2>3. CASE UNCHANGED vars
      BY <2>3 DEF vars, IntegrityInv, ChainTypeOK, UniqueInv, IdsUnique, RowsMinted,
                  DraftsUnique, DraftsSealed, WrittenSealed, RowsTraced, Idle, Sealed, SameLink
    <2> QED BY <2>1, <2>2, <2>3, IntegrityProgram DEF Next
  <1> QED BY <1>1, <1>2, PTL DEF Spec

\* Whatever was done to the file, a table that verifies holds in its hashed text
\* what appends have written, in the order in which they were chained (verify).
THEOREM GenuineTheorem == Spec => []VerifiedIsGenuine
  <1>1. IntegrityInv => VerifiedIsGenuine
    <2> SUFFICES ASSUME IntegrityInv, Verify(events)
                 PROVE  /\ \A i \in DOMAIN events :
                             \E row \in written : HashedColumns(row) = HashedColumns(events[i])
                        /\ \A i \in 2..Len(events) : events[i].prev.id = events[i - 1].id
      BY DEF VerifiedIsGenuine
    <2>1. ASSUME NEW i \in DOMAIN events
          PROVE  \E row \in written : HashedColumns(row) = HashedColumns(events[i])
      <3>1. PICK row \in written : SameLink(row, events[i])
        BY DEF IntegrityInv, RowsTraced
      <3>2. /\ row.hash = Hash(row.id, row.body, row.prev)
            /\ events[i].hash = Hash(events[i].id, events[i].body, events[i].prev)
        BY DEF IntegrityInv, WrittenSealed, Sealed, Verify
      <3>3. row.body = events[i].body
        <4>1. Hash(row.id, row.body, row.prev)
                = Hash(events[i].id, events[i].body, events[i].prev)
          BY <3>1, <3>2 DEF SameLink
        <4> QED BY <4>1, HashInjective
      <3> QED BY <3>1, <3>3 DEF SameLink, HashedColumns
    <2>2. ASSUME NEW i \in 2..Len(events)
          PROVE  events[i].prev.id = events[i - 1].id
      <3>1. i \in DOMAIN events /\ i - 1 \in DOMAIN events /\ i # 1
        BY DEF IntegrityInv, ChainTypeOK
      <3>2. events[i].prev = Hash(events[i - 1].id, events[i - 1].body, events[i - 1].prev)
        BY <3>1 DEF Verify, PrevHash
      <3> QED BY <3>2 DEF Hash
    <2> QED BY <2>1, <2>2
  <1> QED BY <1>1, IntegrityInvariant, PTL

\* In a table that verifies, the row at k links to the id of the row below it.
LEMMA VerifiedLink ==
  ASSUME NEW rows \in Seq(Row), Verify(rows), NEW k \in DOMAIN rows
  PROVE  rows[k].prev.id = IF k = 1 THEN 0 ELSE rows[k - 1].id
  <1>1. CASE k = 1
    BY <1>1 DEF Verify, PrevHash, Genesis
  <1>2. CASE k # 1
    <2>1. k - 1 \in DOMAIN rows
      BY <1>2
    <2>2. rows[k].prev = Hash(rows[k - 1].id, rows[k - 1].body, rows[k - 1].prev)
      BY <1>2, <2>1 DEF Verify, PrevHash
    <2> QED BY <1>2, <2>2 DEF Hash
  <1> QED BY <1>1, <1>2

\* verify notices that the hashed text of a row was edited.
LEMMA EditDetected ==
  ASSUME ChainTypeOK, Verify(events), NEW i \in DOMAIN events, EditBody(i)
  PROVE  ~Verify(events')
  <1> SUFFICES ASSUME Verify(events') PROVE FALSE
    OBVIOUS
  <1>1. PICK b \in Bodies : Alter([events EXCEPT ![i].body = b])
    BY DEF EditBody
  <1> DEFINE rows == [events EXCEPT ![i].body = b]
  <1>2. events \in Seq(Row) /\ events' = rows /\ rows # events
    BY <1>1 DEF Alter, ChainTypeOK
  <1>3. DOMAIN rows = DOMAIN events /\ rows[i] = [events[i] EXCEPT !.body = b]
    BY <1>2
  <1>4. events[i] \in Row
    BY <1>2
  <1>5. /\ rows[i].body = b /\ rows[i].hash = events[i].hash
        /\ events[i].body = b => rows[i] = events[i]
    BY <1>3, <1>4 DEF Row
  <1>6. /\ rows[i].hash = Hash(rows[i].id, rows[i].body, rows[i].prev)
        /\ events[i].hash = Hash(events[i].id, events[i].body, events[i].prev)
    BY <1>2, <1>3 DEF Verify
  <1>7. events[i].body = b
    BY <1>5, <1>6 DEF Hash
  <1>8. rows[i] = events[i]
    BY <1>5, <1>7
  <1> QED BY <1>2, <1>8

\* verify notices that a row other than the newest one was deleted.
LEMMA DeletionDetected ==
  ASSUME ChainTypeOK, IdsUnique(events), Verify(events), NEW i \in DOMAIN events,
         i < Len(events), DeleteRow(i)
  PROVE  ~Verify(events')
  <1> SUFFICES ASSUME Verify(events') PROVE FALSE
    OBVIOUS
  <1> DEFINE n == Len(events)
  <1>1. events \in Seq(Row) /\ n \in Nat /\ DOMAIN events = 1..n /\ i \in 1..n
    BY DEF ChainTypeOK
  <1>2. /\ events' \in Seq(Row) /\ DOMAIN events' = 1..(n - 1)
        /\ \A k \in 1..(n - 1) : events'[k] = IF k < i THEN events[k] ELSE events[k + 1]
    BY <1>1, RemoveAtRows DEF DeleteRow, Alter
  <1>3. i \in 1..(n - 1) /\ i + 1 \in 1..n /\ events'[i] = events[i + 1]
    BY <1>1, <1>2
  <1>4. events[i + 1].prev.id = events[i].id
    <2>1. events[i + 1].prev.id = IF i + 1 = 1 THEN 0 ELSE events[(i + 1) - 1].id
      BY <1>1, <1>3, VerifiedLink
    <2> QED BY <1>1, <2>1
  <1>5. events'[i].prev.id = IF i = 1 THEN 0 ELSE events'[i - 1].id
    BY <1>2, <1>3, VerifiedLink
  <1>6. i # 1 => i - 1 \in 1..n /\ events'[i - 1] = events[i - 1]
    BY <1>1, <1>2, <1>3
  <1> QED BY <1>1, <1>3, <1>4, <1>5, <1>6 DEF IdsUnique

\* verify notices that two rows were exchanged.
LEMMA ExchangeDetected ==
  ASSUME ChainTypeOK, IdsUnique(events), Verify(events), NEW i \in DOMAIN events,
         NEW j \in DOMAIN events, SwapRows(i, j)
  PROVE  ~Verify(events')
  <1> SUFFICES ASSUME Verify(events') PROVE FALSE
    OBVIOUS
  <1> DEFINE n == Len(events)
  <1>1. events \in Seq(Row) /\ n \in Nat /\ DOMAIN events = 1..n
    BY DEF ChainTypeOK
  <1>2. /\ events' \in Seq(Row) /\ DOMAIN events' = 1..n /\ events' # events
        /\ events' = [events EXCEPT ![i] = events[j], ![j] = events[i]]
    BY <1>1 DEF SwapRows, Alter
  <1>3. i # j
    BY <1>1, <1>2
  <1>4. PICK lo \in 1..n, hi \in 1..n :
          lo < hi /\ ((lo = i /\ hi = j) \/ (lo = j /\ hi = i))
    <2>1. i \in Int /\ j \in Int
      BY <1>1
    <2>2. i < j \/ j < i
      BY <1>3, <2>1
    <2> QED BY <1>1, <2>2
  <1>5. /\ events'[lo] = events[hi]
        /\ \A k \in 1..n : k < lo => events'[k] = events[k]
    <2>1. /\ events'[j] = events[i] /\ events'[i] = events[j]
          /\ \A k \in (1..n) \ {i, j} : events'[k] = events[k]
      BY <1>1, <1>2, <1>3
    <2> QED BY <1>1, <1>4, <2>1
  <1>6. hi - 1 \in 1..n /\ hi # 1 /\ events[hi].prev.id = events[hi - 1].id
    <2>1. hi - 1 \in 1..n /\ hi # 1
      BY <1>1, <1>4
    <2> QED BY <1>1, <2>1, VerifiedLink
  <1>7. events'[lo].prev.id = IF lo = 1 THEN 0 ELSE events'[lo - 1].id
    BY <1>2, VerifiedLink
  <1>8. lo # 1 => lo - 1 \in 1..n /\ events'[lo - 1] = events[lo - 1]
    BY <1>4, <1>5
  <1> QED BY <1>1, <1>4, <1>5, <1>6, <1>7, <1>8 DEF IdsUnique

\* On a table that verifies, an edit of the hashed text, the deletion of a row
\* other than the newest and an exchange are each noticed (verify).
THEOREM DamageTheorem == Spec => InteriorDamageIsDetected
  <1>1. IntegrityInv /\ [Next]_vars =>
          [( /\ Verify(events)
             /\ \E i, j \in DOMAIN events :
                  \/ EditBody(i)
                  \/ i < Len(events) /\ DeleteRow(i)
                  \/ SwapRows(i, j) )
           => ~Verify(events')]_vars
    BY EditDetected, DeletionDetected, ExchangeDetected DEF IntegrityInv, UniqueInv
  <1> QED BY <1>1, IntegrityInvariant, PTL DEF Spec, InteriorDamageIsDetected
=============================================================================
