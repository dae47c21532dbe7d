------------------------------ MODULE Sandbox ------------------------------
(***************************************************************************)
(* RestrictedProcessSandbox::execute: a child process, the three pipes to  *)
(* it, and the one timeout.  The child may start a helper, which inherits  *)
(* the pipes the child still holds; either may close or redirect any of    *)
(* its own and go on running.  Input counts bytes; output is a sequence of *)
(* characters, each given by its width in bytes.  The environment of the   *)
(* child is left out.                                                      *)
(***************************************************************************)
EXTENDS Integers, SequencesExt

CONSTANTS
  Room,        \* bytes a pipe holds
  Widths,      \* widths of characters
  MaxOutput,   \* max_output_bytes
  MaxInput,    \* bound: bytes of stdin_data
  MaxChars     \* bound: characters written to each of stdout and stderr

ASSUME SandboxAssumption ==
  /\ Room \in Nat \ {0}
  /\ Widths \subseteq 1..4
  /\ MaxOutput \in Nat
  /\ MaxInput \in Nat
  /\ MaxChars \in Nat

Streams == {"stdout", "stderr"}
Pipes == Streams \cup {"stdin"}
Codes == {0, 1, -1}   \* -1: no code, a signal ended the child

VARIABLES
  phase,    \* "start", "writing" stdin, "waiting" for the output, or an end
  input,    \* bytes of stdin_data not yet written
  stdin,    \* bytes in the child's standard input
  alive,    \* processes that run, of the child and its helper
  holds,    \* for each pipe, the processes that have it open
  code,     \* how the child ended
  wrote,    \* for each stream, what was written to it
  got,      \* for each stream, how many of these characters have been read
  result

vars == <<phase, input, stdin, alive, holds, code, wrote, got, result>>

Ends == {"result", "erred", "panicked", "dropped"}
Ended == phase \in Ends

NoResult == [timed_out |-> FALSE, exit_code |-> -1, out |-> [s \in Streams |-> <<>>]]

-----------------------------------------------------------------------------
(* String::truncate *)

Bytes(chars) == FoldLeft(+, 0, chars)

Boundaries(chars) == {n \in 0..Len(chars) : Bytes(SubSeq(chars, 1, n)) = MaxOutput}

\* It panics inside a character.
Panics(chars) == Bytes(chars) > MaxOutput /\ Boundaries(chars) = {}

Truncated(chars) ==
  IF Bytes(chars) <= MaxOutput THEN chars
  ELSE SubSeq(chars, 1, CHOOSE n \in Boundaries(chars) : TRUE)

-----------------------------------------------------------------------------
(* The host *)

\* Without stdin_data nothing is written: the same as empty data.
Spawn ==
  /\ phase = "start"
  /\ \/ phase' = "writing" /\ alive' = {"child"} /\ holds' = [q \in Pipes |-> {"child"}]
     \/ phase' = "erred" /\ UNCHANGED <<alive, holds>>
  /\ UNCHANGED <<input, stdin, code, wrote, got, result>>

\* write_all, byte by byte.  Nothing is read meanwhile, and no time runs.
WriteInput ==
  /\ phase = "writing"
  /\ holds["stdin"] # {}
  /\ input > 0
  /\ stdin < Room
  /\ input' = input - 1
  /\ stdin' = stdin + 1
  /\ UNCHANGED <<phase, alive, holds, code, wrote, got, result>>

\* All is written, or nobody has the other end open, which is ignored; stdin is closed.
WriteEnds ==
  /\ phase = "writing"
  /\ input = 0 \/ holds["stdin"] = {}
  /\ phase' = "waiting"
  /\ UNCHANGED <<input, stdin, alive, holds, code, wrote, got, result>>

Drain(s) ==
  /\ phase = "waiting"
  /\ got[s] < Len(wrote[s])
  /\ got' = [got EXCEPT ![s] = Len(wrote[s])]
  /\ UNCHANGED <<phase, input, stdin, alive, holds, code, wrote, result>>

Return(timedOut, exitCode, out) ==
  result' = [timed_out |-> timedOut, exit_code |-> exitCode, out |-> out]

Read(s) == SubSeq(wrote[s], 1, got[s])

Finish ==
  IF \E s \in Streams : Panics(Read(s))
  THEN phase' = "panicked" /\ UNCHANGED result
  ELSE phase' = "result" /\ Return(FALSE, code, [s \in Streams |-> Truncated(Read(s))])

\* Faulty variant of Complete: the exit of the child is enough.
CompleteAtExit ==
  /\ phase = "waiting"
  /\ "child" \notin alive
  /\ Finish
  /\ UNCHANGED <<input, stdin, alive, holds, code, wrote, got>>

\* wait_with_output: the exit, and the end of both streams.
Complete ==
  /\ phase = "waiting"
  /\ "child" \notin alive
  /\ \A s \in Streams : holds[s] = {} /\ got[s] = Len(wrote[s])
  /\ Finish
  /\ UNCHANGED <<input, stdin, alive, holds, code, wrote, got>>

\* A process that ends closes all it has open.
Leaves(p) ==
  /\ alive' = alive \ {p}
  /\ holds' = [q \in Pipes |-> holds[q] \ {p}]

\* kill_on_drop, for the child alone.
Kill ==
  /\ Leaves("child")
  /\ code' = IF "child" \in alive THEN -1 ELSE code

\* Faulty variant of Timeout: without kill_on_drop.
TimeoutAlone ==
  /\ phase = "waiting"
  /\ phase' = "result"
  /\ Return(TRUE, -1, [s \in Streams |-> <<>>])
  /\ UNCHANGED <<input, stdin, alive, holds, code, wrote, got>>

\* Faulty variant of Timeout: it runs once the child has exited.
TimeoutAfterExit ==
  /\ phase = "waiting"
  /\ "child" \notin alive
  /\ phase' = "result"
  /\ Return(TRUE, -1, [s \in Streams |-> <<>>])
  /\ Kill
  /\ UNCHANGED <<input, stdin, wrote, got>>

Timeout ==
  /\ phase = "waiting"
  /\ phase' = "result"
  /\ Return(TRUE, -1, [s \in Streams |-> <<>>])
  /\ Kill
  /\ UNCHANGED <<input, stdin, wrote, got>>

WaitFails ==
  /\ phase = "waiting"
  /\ phase' = "erred"
  /\ Kill
  /\ UNCHANGED <<input, stdin, wrote, got, result>>

\* The caller drops the future at one of its two awaits.
Dropped ==
  /\ phase \in {"writing", "waiting"}
  /\ phase' = "dropped"
  /\ Kill
  /\ UNCHANGED <<input, stdin, wrote, got, result>>

-----------------------------------------------------------------------------
(* The child and its helper *)

Reads(p) ==
  /\ p \in holds["stdin"]
  /\ stdin > 0
  /\ stdin' = stdin - 1
  /\ UNCHANGED <<phase, input, alive, holds, code, wrote, got, result>>

\* Waits while the pipe is full.
Writes(p, s, width) ==
  /\ p \in holds[s]
  /\ ~Ended
  /\ Len(wrote[s]) < MaxChars
  /\ Bytes(SubSeq(wrote[s], got[s] + 1, Len(wrote[s]))) + width <= Room
  /\ wrote' = [wrote EXCEPT ![s] = Append(@, width)]
  /\ UNCHANGED <<phase, input, stdin, alive, holds, code, got, result>>

\* It closes a pipe, or redirects it, as a shell does for "cmd >/dev/null 2>&1 &".
LetsGo(p, pipe) ==
  /\ p \in holds[pipe]
  /\ holds' = [holds EXCEPT ![pipe] = @ \ {p}]
  /\ UNCHANGED <<phase, input, stdin, alive, code, wrote, got, result>>

\* The helper has open what the child has.
StartsHelper ==
  /\ "child" \in alive
  /\ "helper" \notin alive
  /\ alive' = alive \cup {"helper"}
  /\ holds' = [q \in Pipes |-> IF "child" \in holds[q] THEN {"child", "helper"} ELSE {}]
  /\ UNCHANGED <<phase, input, stdin, code, wrote, got, result>>

Exits(p) ==
  /\ p \in alive
  /\ Leaves(p)
  /\ IF p = "child" THEN code' \in Codes ELSE UNCHANGED code
  /\ UNCHANGED <<phase, input, stdin, wrote, got, result>>

-----------------------------------------------------------------------------
Init ==
  /\ phase = "start"
  /\ input \in 0..MaxInput
  /\ stdin = 0
  /\ alive = {}
  /\ holds = [q \in Pipes |-> {}]
  /\ code = -1
  /\ wrote = [s \in Streams |-> <<>>]
  /\ got = [s \in Streams |-> 0]
  /\ result = NoResult

Host == Spawn \/ WriteInput \/ WriteEnds \/ Complete \/ \E s \in Streams : Drain(s)

Processes ==
  \/ StartsHelper
  \/ \E p \in alive :
       \/ Reads(p)
       \/ Exits(p)
       \/ \E pipe \in Pipes : LetsGo(p, pipe)
       \/ \E s \in Streams, width \in Widths : Writes(p, s, width)

Next == Host \/ Timeout \/ WaitFails \/ Dropped \/ Processes

\* The host runs and the clock goes on; nothing is assumed of the child.
Fairness == WF_vars(Host) /\ WF_vars(Timeout)

SafeSpec == Init /\ [][Next]_vars
Spec == SafeSpec /\ Fairness

-----------------------------------------------------------------------------
(* Properties *)

SandboxTypeOK ==
  /\ phase \in {"start", "writing", "waiting"} \cup Ends
  /\ input \in 0..MaxInput
  /\ stdin \in 0..Room
  /\ alive \subseteq {"child", "helper"}
  /\ holds \in [Pipes -> SUBSET alive]
  /\ code \in Codes
  /\ wrote \in [Streams -> Seq(Widths)]
  /\ got \in [Streams -> Nat]
  /\ \A s \in Streams : got[s] <= Len(wrote[s])
  /\ DOMAIN result = {"timed_out", "exit_code", "out"}

\* What is returned without a timeout is all that anybody ever wrote to the two streams,
\* up to the cap, and the exit code of the child (execute).
FaithfulResult ==
  phase = "result" /\ ~result.timed_out =>
    /\ result.exit_code = code
    /\ \A s \in Streams : result.out[s] = Truncated(wrote[s])

\* However execute ends, the child does not outlive it; and past a normal result nobody
\* has either stream open, though a helper may go on running, having let go of both.  Of
\* "kill_on_drop ensures no orphan on timeout" this is what is so: it is the child alone
\* that is killed (execute).
NoOrphan ==
  Ended =>
    /\ "child" \notin alive
    /\ phase = "result" /\ ~result.timed_out => \A s \in Streams : holds[s] = {}

\* Execute ends, unless it is caught in writing more input than the pipe holds to
\* processes that keep the pipe open and do not read: the timeout covers no more
\* (execute).
Stuck == phase = "writing" /\ input > 0 /\ stdin = Room /\ holds["stdin"] # {}
EndsOrIsStuck == <>Ended \/ <>[]Stuck
=============================================================================
