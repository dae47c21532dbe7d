--------------------------- MODULE SandboxProofs ---------------------------
(***************************************************************************)
(* Theorems about Sandbox, for any pipes, caps and bounds.                 *)
(***************************************************************************)
EXTENDS Sandbox, SequenceTheorems, TLAPS

\* The counters of one stream after a character was appended to it.
LEMMA WritesType ==
  ASSUME SandboxTypeOK, NEW s \in Streams, NEW width \in Widths,
         wrote' = [wrote EXCEPT ![s] = Append(@, width)], got' = got
  PROVE  /\ wrote' \in [Streams -> Seq(Widths)]
         /\ \A t \in Streams : got'[t] <= Len(wrote'[t])
  <1>1. /\ wrote \in [Streams -> Seq(Widths)] /\ got \in [Streams -> Nat]
        /\ \A t \in Streams : got[t] <= Len(wrote[t])
    BY DEF SandboxTypeOK
  <1>2. Append(wrote[s], width) \in Seq(Widths) /\ Len(Append(wrote[s], width)) = Len(wrote[s]) + 1
    BY <1>1
  <1>3. wrote' \in [Streams -> Seq(Widths)]
    BY <1>1, <1>2
  <1>4. ASSUME NEW t \in Streams
        PROVE  got'[t] <= Len(wrote'[t])
    <2>1. CASE t = s
      <3>1. wrote'[t] = Append(wrote[s], width)
        BY <1>1, <2>1
      <3>2. Len(wrote[s]) \in Nat /\ got[s] \in Nat /\ got[s] <= Len(wrote[s])
        BY <1>1
      <3> QED BY <1>2, <2>1, <3>1, <3>2
    <2>2. CASE t # s
      <3>1. wrote'[t] = wrote[t]
        BY <1>1, <2>2
      <3> QED BY <1>1, <3>1
    <2> QED BY <2>1, <2>2
  <1> QED BY <1>3, <1>4

\* What a process leaves behind when it ends.
LEMMA LeavesType ==
  ASSUME SandboxTypeOK, NEW p, Leaves(p)
  PROVE  /\ alive' \subseteq alive /\ p \notin alive'
         /\ holds' \in [Pipes -> SUBSET alive']
         /\ \A q \in Pipes : holds'[q] \subseteq holds[q]
  BY DEF Leaves, SandboxTypeOK

\* The counters keep their types, only running processes hold pipes, pipes do not
\* overflow, and no more is read than was written (execute).
THEOREM SandboxTypeCorrect == SafeSpec => []SandboxTypeOK
  <1>1. Init => SandboxTypeOK
    BY SandboxAssumption DEF Init, SandboxTypeOK, NoResult, Streams, Codes, Ends, Pipes
  <1>2. SandboxTypeOK /\ [Next]_vars => SandboxTypeOK'
    <2> SUFFICES ASSUME SandboxTypeOK, [Next]_vars
                 PROVE  SandboxTypeOK'
      OBVIOUS
    <2>1. CASE Spawn \/ WriteInput \/ WriteEnds
      <3>1. /\ phase' \in {"writing", "waiting", "erred"}
            /\ alive' \subseteq alive \cup {"child"}
            /\ holds' \in [Pipes -> SUBSET alive']
            /\ UNCHANGED <<code, wrote, got, result>>
        BY <2>1 DEF Spawn, WriteInput, WriteEnds, SandboxTypeOK
      <3>2. input' \in 0..MaxInput /\ stdin' \in 0..Room
        <4>1. input \in 0..MaxInput /\ stdin \in 0..Room
          BY DEF SandboxTypeOK
        <4> QED BY <2>1, <4>1, SandboxAssumption DEF Spawn, WriteInput, WriteEnds
      <3>3. phase' \in {"start", "writing", "waiting"} \cup Ends
        BY <3>1 DEF Ends
      <3> QED BY <3>1, <3>2, <3>3 DEF SandboxTypeOK
    <2>2. CASE Complete
      <3>1. /\ phase' \in {"panicked", "result"}
            /\ DOMAIN result' = {"timed_out", "exit_code", "out"}
            /\ UNCHANGED <<input, stdin, alive, holds, code, wrote, got>>
        BY <2>2 DEF Complete, Finish, Return, SandboxTypeOK
      <3>2. phase' \in {"start", "writing", "waiting"} \cup Ends
        BY <3>1 DEF Ends
      <3> QED BY <3>1, <3>2 DEF SandboxTypeOK
    <2>3. ASSUME NEW s \in Streams, Drain(s)
          PROVE  SandboxTypeOK'
      <3>1. /\ got' = [got EXCEPT ![s] = Len(wrote[s])]
            /\ UNCHANGED <<phase, input, stdin, alive, holds, code, wrote, result>>
        BY <2>3 DEF Drain
      <3>2. got' \in [Streams -> Nat] /\ \A t \in Streams : got'[t] <= Len(wrote[t])
        <4>1. /\ wrote \in [Streams -> Seq(Widths)] /\ got \in [Streams -> Nat]
              /\ \A t \in Streams : got[t] <= Len(wrote[t])
          BY DEF SandboxTypeOK
        <4>2. Len(wrote[s]) \in Nat
          BY <4>1
        <4> QED BY <3>1, <4>1, <4>2
      <3> QED BY <3>1, <3>2 DEF SandboxTypeOK
    <2>4. CASE Timeout \/ WaitFails \/ Dropped
      <3>1. /\ phase' \in Ends
            /\ alive' \subseteq alive /\ code' \in Codes
            /\ holds' \in [Pipes -> SUBSET alive']
            /\ UNCHANGED <<input, stdin, wrote, got>>
        BY <2>4, LeavesType
        DEF Timeout, WaitFails, Dropped, Kill, SandboxTypeOK, Ends, Codes
      <3>2. DOMAIN result' = {"timed_out", "exit_code", "out"}
        BY <2>4 DEF Timeout, WaitFails, Dropped, Return, SandboxTypeOK
      <3> QED BY <3>1, <3>2 DEF SandboxTypeOK
    <2>5. CASE StartsHelper
      <3>1. holds' \in [Pipes -> SUBSET alive']
        BY <2>5 DEF StartsHelper, SandboxTypeOK
      <3> QED BY <2>5, <3>1 DEF StartsHelper, SandboxTypeOK
    <2>6. ASSUME NEW p \in alive, Reads(p) \/ Exits(p) \/ \E pipe \in Pipes : LetsGo(p, pipe)
          PROVE  SandboxTypeOK'
      <3>1. alive' \subseteq alive /\ holds' \in [Pipes -> SUBSET alive']
        BY <2>6, LeavesType DEF Reads, Exits, LetsGo, SandboxTypeOK
      <3>2. /\ code' \in Codes /\ stdin' \in 0..Room
            /\ UNCHANGED <<phase, input, wrote, got, result>>
        BY <2>6, SandboxAssumption DEF Reads, Exits, LetsGo, SandboxTypeOK
      <3> QED BY <3>1, <3>2 DEF SandboxTypeOK
    <2>7. ASSUME NEW p \in alive, NEW s \in Streams, NEW width \in Widths, Writes(p, s, width)
          PROVE  SandboxTypeOK'
      <3>1. /\ wrote' = [wrote EXCEPT ![s] = Append(@, width)]
            /\ UNCHANGED <<phase, input, stdin, alive, holds, code, got, result>>
        BY <2>7 DEF Writes
      <3> QED BY <3>1, WritesType DEF SandboxTypeOK
    <2>8. CASE UNCHANGED vars
      BY <2>8 DEF vars, SandboxTypeOK
    <2> QED
      BY <2>1, <2>2, <2>3, <2>4, <2>5, <2>6, <2>7, <2>8 DEF Next, Host, Processes
  <1> QED BY <1>1, <1>2, PTL DEF SafeSpec

\* The two invariants hold up each other: nobody writes to the streams once they have
\* been returned, because nobody is left who has them open, and a helper inherits only
\* from a child that runs.
EndInv ==
  /\ phase = "start" => alive = {} /\ \A q \in Pipes : holds[q] = {}
  /\ NoOrphan
  /\ FaithfulResult

LEMMA EndInvariant == SafeSpec => []EndInv
  <1>1. Init => EndInv
    BY DEF Init, EndInv, NoOrphan, FaithfulResult, Ended, Ends
  <1>2. SandboxTypeOK /\ EndInv /\ [Next]_vars => EndInv'
    <2> SUFFICES ASSUME SandboxTypeOK, EndInv, [Next]_vars
                 PROVE  EndInv'
      OBVIOUS
    <2>1. CASE Spawn \/ WriteInput \/ WriteEnds \/ \E s \in Streams : Drain(s)
      <3>1. phase' \in {"writing", "waiting"} \/ (phase' = "erred" /\ alive' = {})
        BY <2>1 DEF EndInv, Spawn, WriteInput, WriteEnds, Drain
      <3> QED BY <3>1 DEF EndInv, NoOrphan, FaithfulResult, Ended, Ends
    <2>2. CASE Complete
      <3>1. /\ "child" \notin alive' /\ UNCHANGED <<holds, code, wrote>>
            /\ \A s \in Streams : holds[s] = {} /\ got[s] = Len(wrote[s])
        BY <2>2 DEF Complete
      <3>2. \A s \in Streams : Read(s) = wrote[s]
        BY <3>1 DEF Read, SandboxTypeOK
      <3>3. \/ phase' = "panicked"
            \/ /\ phase' = "result"
               /\ result' = [timed_out |-> FALSE, exit_code |-> code,
                             out |-> [s \in Streams |-> Truncated(Read(s))]]
        BY <2>2 DEF Complete, Finish, Return
      <3>4. FaithfulResult'
        BY <3>1, <3>2, <3>3 DEF FaithfulResult
      <3>5. phase' # "start"
        BY <3>3
      <3> QED BY <3>1, <3>4, <3>5 DEF EndInv, NoOrphan
    <2>3. CASE Timeout \/ WaitFails \/ Dropped
      <3>1. "child" \notin alive'
        BY <2>3, LeavesType DEF Timeout, WaitFails, Dropped, Kill
      <3>2. phase' = "result" => result'.timed_out
        BY <2>3 DEF Timeout, WaitFails, Dropped, Return
      <3>3. phase' # "start"
        BY <2>3 DEF Timeout, WaitFails, Dropped
      <3> QED BY <3>1, <3>2, <3>3 DEF EndInv, NoOrphan, FaithfulResult
    <2>4. CASE Processes
      <3>1. alive # {} /\ UNCHANGED <<phase, result>>
        BY <2>4 DEF Processes, StartsHelper, Reads, Exits, Writes, LetsGo
      <3>2. phase # "start"
        BY <3>1 DEF EndInv
      <3>3. CASE ~Ended
        BY <3>1, <3>2, <3>3 DEF EndInv, NoOrphan, FaithfulResult, Ended, Ends
      <3>4. CASE Ended
        <4>1. /\ "child" \notin alive
              /\ phase = "result" /\ ~result.timed_out => \A s \in Streams : holds[s] = {}
          BY <3>4 DEF EndInv, NoOrphan
        <4>2. PICK p \in alive : Reads(p) \/ Exits(p) \/ \E pipe \in Pipes : LetsGo(p, pipe)
          BY <2>4, <3>4, <4>1 DEF Processes, StartsHelper, Writes
        <4>3. /\ alive' \subseteq alive /\ UNCHANGED <<code, wrote>>
              /\ \A q \in Pipes : holds'[q] \subseteq holds[q]
          <5>1. p # "child"
            BY <4>1
          <5> QED
            BY <4>2, <5>1, LeavesType DEF Reads, Exits, LetsGo, SandboxTypeOK
        <4>4. \A s \in Streams : s \in Pipes
          BY DEF Pipes
        <4> QED
          BY <3>1, <3>2, <4>1, <4>3, <4>4 DEF EndInv, NoOrphan, FaithfulResult, Ended
      <3> QED BY <3>3, <3>4
    <2>5. CASE UNCHANGED vars
      BY <2>5 DEF vars, EndInv, NoOrphan, FaithfulResult, Ended
    <2> QED BY <2>1, <2>2, <2>3, <2>4, <2>5 DEF Next, Host
  <1> QED BY <1>1, <1>2, SandboxTypeCorrect, PTL DEF SafeSpec

\* A result without timeout holds all of the output, up to the cap, and the exit code,
\* whatever the order in which the child and its helper write, let go of the pipes and
\* exit and the host reads; that it was cut at the cap is not marked (wait_with_output,
\* truncate).
THEOREM ResultIsFaithful == SafeSpec => []FaithfulResult
  <1>1. EndInv => FaithfulResult
    BY DEF EndInv
  <1> QED BY <1>1, EndInvariant, PTL

\* The child never outlives execute, and past a normal result nobody can write to what
\* was returned; of a helper no more is promised (kill_on_drop, wait_with_output).
THEOREM NoOrphanIsLeft == SafeSpec => []NoOrphan
  <1>1. EndInv => NoOrphan
    BY DEF EndInv
  <1> QED BY <1>1, EndInvariant, PTL
=============================================================================
