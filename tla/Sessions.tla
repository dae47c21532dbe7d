------------------------------ MODULE Sessions ------------------------------
(***************************************************************************)
(* What a gateway process keeps about sessions: the token bucket that      *)
(* handle_line asks first (RateLimiter::check), and the calls since the    *)
(* first call, from which inspect_tool_call computes the rate for the      *)
(* policy.  Calls that come by REST are counted but not limited.           *)
(*                                                                         *)
(* The unit of time is such that one unit of tokens flows in per tick; a   *)
(* line costs Cost units, so that the rate is 1/Cost lines per tick.  The  *)
(* limiter is taken to be switched on (rate_limit_rps > 0).                *)
(***************************************************************************)
EXTENDS Integers, Sequences

CONSTANTS
  SessionIds,
  Cost,       \* ticks in which one token flows in
  Burst,      \* rate_limit_burst
  MaxTime,    \* bound: ticks
  MaxLines    \* bound: lines and REST calls

\* Config::validate refuses a burst of 0.
ASSUME SessionsAssumption ==
  /\ Cost \in Nat \ {0}
  /\ Burst \in Nat \ {0}
  /\ MaxTime \in Nat
  /\ MaxLines \in Nat

VARIABLES
  now,        \* the clock
  bucket,     \* the limiter's map; an absent entry is read as a full bucket
  stats,      \* session_stats: calls, and the time of the first
  limited,    \* RATE_LIMITED events of each session
  passed,     \* history: when the lines passed that the limiter let pass
  apiCalls,   \* history: calls that came by REST
  lines       \* lines and REST calls so far

sessionVars == <<now, bucket, stats, limited, passed, apiCalls, lines>>

-----------------------------------------------------------------------------
Capacity == Burst * Cost

Bucket == [tokens : 0..Capacity, last : Nat]
FullBucket == [tokens |-> Capacity, last |-> 0]

Stats == [calls : Nat, first : Nat]
NoCalls == [calls |-> 0, first |-> 0]

\* Faulty variant of Refilled: the bucket runs over.
RefilledWithoutEnd(s) == bucket[s].tokens + (now - bucket[s].last)

\* What is in the bucket now.
Refilled(s) ==
  LET tokens == bucket[s].tokens + (now - bucket[s].last)
  IN  IF tokens < Capacity THEN tokens ELSE Capacity

Elapsed(s) == now - stats[s].first

-----------------------------------------------------------------------------
OneMoreLine == lines < MaxLines /\ lines' = lines + 1

\* Faulty variant of Admit: the time of the refill is not noted.
AdmitWithoutTime(s) ==
  /\ Refilled(s) >= Cost
  /\ bucket' = [bucket EXCEPT ![s].tokens = Refilled(s) - Cost]
  /\ passed' = [passed EXCEPT ![s] = Append(passed[s], now)]
  /\ UNCHANGED <<now, limited>>

\* check(session) = true
Admit(s) ==
  /\ Refilled(s) >= Cost
  /\ bucket' = [bucket EXCEPT ![s] = [tokens |-> Refilled(s) - Cost, last |-> now]]
  /\ passed' = [passed EXCEPT ![s] = Append(passed[s], now)]
  /\ UNCHANGED <<now, limited>>

\* Faulty variant of CountCall: the clock starts again with every call.
CountCallAnew(s) ==
  stats' = [stats EXCEPT ![s] = [calls |-> stats[s].calls + 1, first |-> now]]

\* The session's entry of session_stats, made by its first call.
CountCall(s) ==
  stats' = [stats EXCEPT ![s] =
    [calls |-> stats[s].calls + 1,
     first |-> IF stats[s].calls = 0 THEN now ELSE stats[s].first]]

\* Faulty variant of RefuseLine: with tokens for more than one line.
RefuseEarly(s) ==
  /\ Refilled(s) < Cost + 1
  /\ bucket' = [bucket EXCEPT ![s] = [tokens |-> Refilled(s), last |-> now]]
  /\ limited' = [limited EXCEPT ![s] = limited[s] + 1]
  /\ OneMoreLine
  /\ UNCHANGED <<now, stats, passed, apiCalls>>

\* check(session) = false: the line is answered with an error.
RefuseLine(s) ==
  /\ Refilled(s) < Cost
  /\ bucket' = [bucket EXCEPT ![s] = [tokens |-> Refilled(s), last |-> now]]
  /\ limited' = [limited EXCEPT ![s] = limited[s] + 1]
  /\ OneMoreLine
  /\ UNCHANGED <<now, stats, passed, apiCalls>>

\* A line that passes and is no tool call, or no message at all.
OtherLine(s) ==
  /\ Admit(s)
  /\ OneMoreLine
  /\ UNCHANGED <<stats, apiCalls>>

\* A line that passes and is a tool call.  Limiter and count read the clock one after
\* the other, with nothing awaited in between: here in the same tick.
CallLine(s) ==
  /\ Admit(s)
  /\ CountCall(s)
  /\ OneMoreLine
  /\ UNCHANGED apiCalls

\* api_inspect_call goes to inspect_tool_call directly.
ApiCall(s) ==
  /\ CountCall(s)
  /\ apiCalls' = [apiCalls EXCEPT ![s] = apiCalls[s] + 1]
  /\ OneMoreLine
  /\ UNCHANGED <<now, bucket, limited, passed>>

\* The process ends; the next one has empty maps.
Forget ==
  /\ bucket' = [s \in SessionIds |-> FullBucket]
  /\ stats' = [s \in SessionIds |-> NoCalls]
  /\ passed' = [s \in SessionIds |-> <<>>]
  /\ apiCalls' = [s \in SessionIds |-> 0]
  /\ UNCHANGED <<now, limited, lines>>

Tick ==
  /\ now < MaxTime
  /\ now' = now + 1
  /\ UNCHANGED <<bucket, stats, limited, passed, apiCalls, lines>>

-----------------------------------------------------------------------------
SessionInit ==
  /\ now = 0
  /\ bucket = [s \in SessionIds |-> FullBucket]
  /\ stats = [s \in SessionIds |-> NoCalls]
  /\ limited = [s \in SessionIds |-> 0]
  /\ passed = [s \in SessionIds |-> <<>>]
  /\ apiCalls = [s \in SessionIds |-> 0]
  /\ lines = 0

SessionNext ==
  \/ \E s \in SessionIds : RefuseLine(s) \/ OtherLine(s) \/ CallLine(s) \/ ApiCall(s)
  \/ Forget
  \/ Tick

SessionSpec == SessionInit /\ [][SessionNext]_sessionVars

-----------------------------------------------------------------------------
(* Properties *)

SessionTypeOK ==
  /\ now \in 0..MaxTime
  /\ bucket \in [SessionIds -> Bucket]
  /\ stats \in [SessionIds -> Stats]
  /\ limited \in [SessionIds -> Nat]
  /\ passed \in [SessionIds -> Seq(Nat)]
  /\ apiCalls \in [SessionIds -> Nat]
  /\ lines \in 0..MaxLines

\* Between any two lines of a session that the limiter let pass there passed at
\* most the burst and what flowed in meanwhile (RateLimiter::check).
BurstBound ==
  \A s \in SessionIds : \A i, j \in DOMAIN passed[s] :
    i <= j => (j - i + 1) * Cost <= Capacity + (passed[s][j] - passed[s][i])

\* The limiter never takes more than it must: a line is refused only when, with
\* it, some stretch of the session's lines would exceed that bound.
RefusedOnlyWhenSpent ==
  [][\A s \in SessionIds : limited'[s] # limited[s] =>
       \E i \in DOMAIN passed[s] :
         (Len(passed[s]) - i + 2) * Cost > Capacity + (now - passed[s][i])]_sessionVars

\* The limiter and the session's call count agree, although they are kept apart
\* and start at different lines: the calls by which a session came through the
\* limiter are at most the burst and the inflow since its first call.  So behind
\* the limiter no rate condition above burst + rate ever matches.
ObservedRateBounded ==
  \A s \in SessionIds :
    (stats[s].calls - apiCalls[s]) * Cost <= Capacity + Elapsed(s)
=============================================================================
