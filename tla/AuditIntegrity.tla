--------------------------- MODULE AuditIntegrity ---------------------------
(***************************************************************************)
(* AuditChain with a database file that something other than the program   *)
(* has changed: stored rows are edited, deleted or reordered.  `verify` is *)
(* the code under examination here: what does its answer say about the     *)
(* table it has read?  The digests themselves are never recomputed by      *)
(* whoever changes the file.                                               *)
(***************************************************************************)
EXTENDS AuditChain, SequencesExt

CONSTANT MaxAlterations   \* bound: changes made to the file from outside

ASSUME IntegrityAssumption == MaxAlterations \in Nat

VARIABLES
  written,      \* history: every row an append has inserted
  alterations   \* number of changes made so far

vars == <<events, draft, minted, written, alterations>>

-----------------------------------------------------------------------------
(* The program *)

Program(w) ==
  /\ \/ /\ \E body \in Bodies, note \in Notes : ReadLast(w, body, note)
        /\ UNCHANGED written
     \/ /\ Insert(w)
        /\ written' = written \cup {draft[w]}
  /\ UNCHANGED alterations

-----------------------------------------------------------------------------
(* The file, changed from outside *)

Alter(rows) ==
  /\ alterations < MaxAlterations
  /\ rows # events
  /\ events' = rows
  /\ alterations' = alterations + 1
  /\ UNCHANGED <<draft, minted, written>>

\* The joined text of the hashed columns: timestamp, session, tool, type, decision,
\* policy, risk, request.
EditBody(i) == \E b \in Bodies : Alter([events EXCEPT ![i].body = b])

\* A column that is not hashed (server, reason, taints, schema hash), or a `|` moved
\* from one hashed column into its neighbour.
EditNote(i) == \E n \in Notes : Alter([events EXCEPT ![i].note = n])

DeleteRow(i) == Alter(RemoveAt(events, i))

SwapRows(i, j) == Alter([events EXCEPT ![i] = events[j], ![j] = events[i]])

Init ==
  /\ ChainInit
  /\ written = {}
  /\ alterations = 0

Next ==
  \/ \E w \in Writers : Program(w)
  \/ \E i \in DOMAIN events : EditBody(i) \/ EditNote(i) \/ DeleteRow(i)
  \/ \E i, j \in DOMAIN events : SwapRows(i, j)

Spec == Init /\ [][Next]_vars

-----------------------------------------------------------------------------
(* Properties *)

HashedColumns(row) == [id |-> row.id, body |-> row.body,
                       prev |-> row.prev, hash |-> row.hash]

\* A table that verifies holds, in its hashed text and in the order of its
\* rows, what appends have written: every row was written by an append that read
\* as its predecessor the very row that stands below it (verify).
VerifiedIsGenuine ==
  Verify(events) =>
    /\ \A i \in DOMAIN events :
         \E row \in written : HashedColumns(row) = HashedColumns(events[i])
    /\ \A i \in 2..Len(events) : events[i].prev.id = events[i - 1].id

\* On a table that verifies, editing the hashed text, deleting a row other than
\* the last and exchanging two rows are each noticed by the next verify
\* (ARCHITECTURE.md, "any edit, delete, or reorder breaks the chain").
InteriorDamageIsDetected ==
  [][( /\ Verify(events)
       /\ \E i, j \in DOMAIN events :
            \/ EditBody(i)
            \/ i < Len(events) /\ DeleteRow(i)
            \/ SwapRows(i, j) )
     => ~Verify(events')]_vars
=============================================================================
