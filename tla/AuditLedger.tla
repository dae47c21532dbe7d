---------------------------- MODULE AuditLedger ----------------------------
(***************************************************************************)
(* What the audit log comes to for its readers: a ledger that events are   *)
(* added to, each in one step and behind the events already there.  An     *)
(* append is overtaken when another is recorded between its beginning and  *)
(* its own record; recording an overtaken one is what spoils the ledger,   *)
(* for ever, and nothing else does.  An append of which the record fails   *)
(* leaves no trace.  AuditChain is the code that has to keep this promise. *)
(***************************************************************************)
EXTENDS Sequences

CONSTANTS
  Writers,       \* those who append
  Contents,      \* what one event can say
  ReadsMayFail   \* may an append begin without a look at the ledger?

VARIABLES
  ledger,     \* the events recorded so far, oldest first
  intact,     \* the answer of the integrity check
  open,       \* writers of whom an append is under way
  overtaken   \* those of them whose append has been overtaken

vars == <<ledger, intact, open, overtaken>>

Init ==
  /\ ledger = <<>>
  /\ intact = TRUE
  /\ open = {}
  /\ overtaken = {}

Begin(w) ==
  /\ w \notin open
  /\ open' = open \cup {w}
  /\ \/ UNCHANGED overtaken
     \/ /\ ReadsMayFail
        /\ ledger # <<>>
        /\ overtaken' = overtaken \cup {w}
  /\ UNCHANGED <<ledger, intact>>

Record(w, c) ==
  /\ w \in open
  /\ ledger' = Append(ledger, c)
  /\ intact' = (intact /\ w \notin overtaken)
  /\ open' = open \ {w}
  /\ overtaken' = open \ {w}

Drop(w) ==
  /\ w \in open
  /\ open' = open \ {w}
  /\ overtaken' = overtaken \ {w}
  /\ UNCHANGED <<ledger, intact>>

Next ==
  \E w \in Writers :
    \/ Begin(w)
    \/ \E c \in Contents : Record(w, c)
    \/ Drop(w)

Spec == Init /\ [][Next]_vars
=============================================================================
