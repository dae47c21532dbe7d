------------------------------ MODULE Consent ------------------------------
(***************************************************************************)
(* What the approval queue promises its operators: a call goes ahead only  *)
(* on a request of that very call which one of them has approved, before   *)
(* its time was over, and not once it has been expired.  A request is what *)
(* it was made for, for good, and approving and expiring cannot be undone. *)
(* There are no rows, no clock and no statements here that come between    *)
(* others; Approvals is the code that has to keep this promise.            *)
(***************************************************************************)
EXTENDS Naturals, Sequences

CONSTANTS
  Parties,   \* who asks
  Calls      \* server + tool + canonical arguments

VARIABLES
  requests,  \* the call each request is for, in the order of asking
  approved,  \* requests an operator has approved
  expired,   \* requests whose time is over
  going      \* for each party the call it goes ahead with and the request for it

vars == <<requests, approved, expired, going>>

Halted == <<>>

Init ==
  /\ requests = <<>>
  /\ approved = {}
  /\ expired = {}
  /\ going = [p \in Parties |-> Halted]

Ask(c) ==
  /\ requests' = Append(requests, c)
  /\ UNCHANGED <<approved, expired, going>>

Approve(i) ==
  /\ i \notin expired
  /\ approved' = approved \cup {i}
  /\ UNCHANGED <<requests, expired, going>>

Expire(S) ==
  /\ expired' = expired \cup S
  /\ UNCHANGED <<requests, approved, going>>

GoAhead(p, i) ==
  /\ going[p] = Halted
  /\ i \in approved \ expired
  /\ going' = [going EXCEPT ![p] = <<requests[i], i>>]
  /\ UNCHANGED <<requests, approved, expired>>

Halt(p) ==
  /\ going' = [going EXCEPT ![p] = Halted]
  /\ UNCHANGED <<requests, approved, expired>>

Next ==
  \/ \E c \in Calls : Ask(c)
  \/ \E i \in DOMAIN requests : Approve(i)
  \/ \E S \in SUBSET DOMAIN requests : Expire(S)
  \/ \E p \in Parties :
       \/ \E i \in DOMAIN requests : GoAhead(p, i)
       \/ Halt(p)

Spec == Init /\ [][Next]_vars
=============================================================================
