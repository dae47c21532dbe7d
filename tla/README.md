# Formal models of Aegis MCP

Aegis sits between an agent and MCP tool servers. Each line the agent sends is
inspected; a tool call is forwarded, refused, or held until a human approves it,
and what happened goes into a hash-chained audit log. This directory models the
parts of that whose correctness depends on the *order* of things: statements on
a shared database, operators, timers, pipes, processes, crashes, and the pure
computations whose edges matter. It checks them with TLC and
proves the main properties with TLAPS.

Paths below are relative to the repository. `proxy` is
`crates/aegis-proxy/src/lib.rs`, `audit` is `crates/aegis-audit/src/lib.rs`,
`cli` is `crates/aegis-cli/src/main.rs`, `core` is `crates/aegis-core/src/lib.rs`,
`security`, `protocol`, `config` and `sandbox` are the `lib.rs` of those crates.

## 1. The system

| Component | State | Operations | Hard behaviour | What makes it correct |
|---|---|---|---|---|
| Audit log (`audit` 67-240) | table `audit_events`, a chain of digests; one connection behind a mutex per process | `append` (read newest digest, hash, insert), `verify`, `list_events` | two critical sections per append; other processes share no mutex; a failed read counts as an empty table; the caller ignores a failed append | the table is a forest of digests that exist; `verify` complains only about real damage or a fork; what it accepts is what was written |
| Approval queue (`audit` 356-476, `proxy` 512-573 and 912-981, `cli` 665-694) | table `approvals` | `sweep_expired`, `find_approved_grant`, `find_pending_request`, `create_approval`, `set_approval` | each statement locks for itself; workers and operators race; requests expire; errors are read as "nothing found" | a grant fits the call and was consented to in time; a pending request is reused (not so across workers); decisions reach the log |
| Verdict (`core` 113-159, `proxy` 477-510) | none | `combine_verdict`, guardrail | thresholds in three places, order matters | signals escalate, never relax; only what may be approved is put to an operator |
| Gateway pipeline (`proxy` 325-846, 990-1043; `cli` 270-387) | message in hand of each task | `handle_line`, `inspect_tool_call`, `api_inspect_call` | two nested timeouts around an async classifier; lookups, logging and forwarding in separate steps | a call reaches the server only if cleared; every call is answered |
| Classifier (`crates/aegis-classifier`) | none | `assess` | never suspends, so timers cannot interrupt it | its score can only escalate |
| Incidents (`audit` 241-355, `proxy` 600-660) | table `incidents` | correlate, `create_incident` (COUNT, then INSERT), `set_incident_status` | id from a count under another lock; correlation over the whole log | ids are unique, nothing is dropped, life cycle |
| Tool registry (`proxy` 34-132, 759-790; `cli` 304-314) | fingerprints in memory | `fingerprint_tool`, `observe` | restarts forget; two kinds of change mask each other; the gateway sees only one direction | every change of a tool is reported once |
| Sessions (`proxy` 149-185, 336-343) | token buckets, call counts | `RateLimiter::check`, the session's rate | burst against rate in any stretch; two counts kept apart; REST calls are not limited | never more than burst and inflow, and never less than that allows |
| Policy (`crates/aegis-policy`, `proxy` 187-249) | rules, loaded once | `evaluate`, `load_policy`, `verify_bundle`, `load_dir` | first match, malformed conditions, window over midnight, files exchanged between starts | order and defaults; signed rules where required |
| Taint store (`crates/aegis-taint`) | taints per value | `taint_value`, `propagate`, `sanitize`, `taints_of` | read by the gateway, written by nobody; names differ from those in policies | a policy sees the taint |
| Detectors (`security`) | none | `inspect_tool_description`, `inspect_filesystem`, the verdicts on SQL, shell, network, secrets | sums of `f32` against thresholds, in an order; lexical paths with `..` | scores on the right side of the thresholds; paths judged by where they lead |
| Protocol and proxy loops (`protocol`, `cli` 270-387) | a line in hand, four pipes | `parse_message`, `HttpTransport::send`, `parse_sse_stream`, `run_proxy`, `run_proxy_http` | two tasks and a child joined by bounded pipes; failures in the middle of a request; bodies cut by text search | each line judged once, in order; refused lines stay here; every line settled; of a response nothing lost or invented (not so in four ways) |
| Sandbox (`sandbox`) | a child process, three pipes | `execute` | stdin is written before the timeout starts; a helper inherits the pipes, and may close them and go on | faithful results, no orphan, an end |
| Configuration (`config`, `cli` 147-168) | read at the start | `from_yaml_str`, `apply_env_overrides`, `validate`, `load_config` | four sources that override each other; an invalid file is dropped with the environment | what was demanded holds |
| Observability, reports of the CLI, dashboard, fuzzers | none that others read | output | | |

How they interact: the proxy loops (`cli` 270-387) call `handle_line` for each
line; it consults the rate limiter and the parser, then `inspect_tool_call`,
which asks policy, detectors, taint store and classifier, combines the verdict,
consults the approval queue if the verdict is REQUIRE_APPROVAL, appends events
to the audit log, perhaps raises an incident, and returns. Operators act on the
same database from other processes (`aegis approvals approve`) or by REST. The
only shared mutable state is the SQLite file, the registry, and the session maps.

## 2. The modules

| Module | What it is |
|---|---|
| `AuditLedger` | abstract: a ledger that grows by one event per step, and that only an append overtaken by another spoils |
| `AuditChain` | `append`, `last_hash`, `verify` as the code does them |
| `AuditIntegrity` | `AuditChain` on a file that something else edits: what does `verify` detect? |
| `AuditChainProofs` | theorems on `AuditChain`, also with a file edited from outside, and that it implements `AuditLedger` |
| `Consent` | abstract: requests that are approved, expire, and let calls go ahead, without statements and clock |
| `Approvals` | the queue, statement by statement, with workers and operators |
| `ApprovalsProofs` | theorems on `Approvals`, and that it implements `Consent` |
| `Verdict` | the verdict as a function of its three signals |
| `Gateway` | the pipeline; EXTENDS `Approvals` and `Verdict`, whose actions it runs inside its own |
| `GatewayProofs` | theorems on `Verdict` and `Gateway`, and that it implements the queue of `Approvals` |
| `Docket` | abstract: one numbered list of incidents, at most one for each grave denial |
| `Incidents` | correlating the log and raising incidents, statement by statement, with operators |
| `IncidentsProofs` | theorems on `Incidents`, and that it implements `Docket` |
| `Policy` | the policy engine as functions: conditions, first match, loading, signatures |
| `Sessions` | the limiter and the session statistics over a clock |
| `SessionsProofs` | theorems on `Sessions` |
| `Configuration` | where a process has its configuration from, as functions |
| `Evidence` | the detectors that compute something, and the risk and taints of a call, as functions |
| `Intake` | what happens to a line before its verdict, and at the start of a process; EXTENDS `Sessions`, `Policy`, `Configuration` and `Evidence` |
| `IntakeProofs` | that `Intake` implements `Sessions`; theorems on signed rules, demands, conditions, drift and paths |
| `Mediation` | abstract: lines judged in order, the server getting what was passed, one answer each |
| `Protocol` | parsing of lines and taking apart of HTTP bodies and event streams, as functions |
| `Exchange` | both proxy loops between a client and a server; EXTENDS `Protocol` |
| `ExchangeProofs` | theorems on `Exchange`, and that it implements `Mediation` |
| `Sandbox` | one execution of a child process |
| `SandboxProofs` | theorems on `Sandbox` |
| `MC...` | model values, small sets and symmetry for TLC |

Operators named as *faulty variants* (`GarbledHoldsAtZero`, `CheckExistsOnly`, ...)
are not used by any specification. Each is the definition below it with a
plausible bug; put in its place it must make a property fail, which shows that
the property can tell the code from such a bug (`mutants` in `PROJECT.json`).

### AuditChain

`append` locks the connection twice, so it is two actions. `ReadLast` is
`last_hash` plus building the event (`draft`); `Insert` is the INSERT; `Lose` is
an INSERT that fails or a process that dies in between, both invisible to the
caller. With `ReadsMayFail`, `last_hash` may answer GENESIS because the code
ends in `unwrap_or_else(|_| GENESIS)`. A digest is modelled as the record of
what went into it, i.e. BLAKE3 is taken as collision-free. `body` is the text
the hashed columns are joined to; `note` is everything a row says beside it:
columns that are not hashed, and where in the joined text the columns divide
(the separator `|` is not escaped, so moving one between neighbours keeps the
digest). `verify` skips rows it cannot read (`filter_map(|r| r.ok())`); rows of
a wrong SQL type are not modelled.

`AuditLedger` says what readers of the log get of all this: an append begins,
and is recorded or dropped; one that is recorded after another has overtaken it
spoils the ledger for good. Under the mapping `Ledger` an append is `open` between its two
critical sections, and `overtaken` when its draft no longer chains to the newest row
(or never did, after a failed read).

### Approvals

`table` is the SQL table in row order; `now` a discrete clock. A worker
(`asker`) goes through `Ask` (sweep of `find_approved_grant`), `LookUp`,
`SweepAgain` (sweep of `find_pending_request`), `Search`, `Create`; the `...Fails`
actions are the error branches, where the code's fallbacks differ: an error of
the lookup leaves the call held without a request, an error of the search counts
as "none found", an error of the insert is reported. An operator (`oper`) goes
through `Decide` (sweep), `Check` (only to approve: row read, status and expiry
tested), `Update` (by id alone), `Record` (audit event); `Crash` is the process
dying, or a statement failing, at any point. Server, tool and canonical
arguments together are a `call`. `consented`, `lapsed` and the field `by` are
history: no action reads them.

`Consent` says in five actions what operators are promised. Under the mapping
`Promised` a request is approved when its check is passed (not when the row is
written), expired by the sweep that finds it overdue, and gone ahead on from the
lookup that finds it until the worker is done. `QueueTypeOK`, which `GatewayTypeOK`
contains, is checked by the `gateway` run.

### Verdict and Gateway

Risks are hundredths. A worker's message (`pipe`) goes `idle` -> `classify` ->
(`judged` -> `consult`, the queue's workflow, for REQUIRE_APPROVAL) -> `log`
(one `AppendEvent` per append, in the code's order) -> `answered`. What policy,
detectors and taint store say is an input, `finding`: they are functions of the
message and touch nothing shared. `Classified` is the classifier returning,
`ClassifierGivesUp` the 800 ms timeout of `classify` (risk 0),
`PipelineGivesUp` the timeout of `handle_line`, which REST does not have. Both
need `ClassifierYields`: tokio looks at a timer only when the future it guards
has suspended. The content of the audit log is left to `AuditChain`; here an
append only takes its place in the order. A message the rate limiter or the
parser refuses, or one that is no tool call, takes its short way (`Refuse`,
`PassOn`).

### Incidents

A worker whose call has its verdict (`Conclude`) appends its events one by one
(`AppendEvent`), and if the verdict was a DENY at a high risk (`grave`, decided in
`LogDone`) reads the newest events of the whole log and correlates them
(`List`), counts the incidents (`Count`) and inserts number count + 1
(`Insert`). The last two lock the connection separately. `ListFails`, the zero
in `Count`, and the refusals in `AppendEvent` and `Insert` are the error
branches: the code throws all these errors away. Of an event `log` keeps what correlation reads.
Of an incident the model keeps how long the log was when it was correlated (`seen`),
which determines the event ids the code stores. `SetStatus` is
`aegis incident set`. `by` is history.

`Docket` is what all this is for: a denial (`Deny`) is assessed in one step on the
newest events of one moment after it (`Assess`), and filed in one step under the next
number (`File`), unless it comes to nothing or gets lost (`Drop`); operators only
change the standing of entries (`Triage`). It knows no counts and no numbers that
are refused. A worker of `Incidents` has an open denial from its verdict to its reading
(`Denials`) and a finding from there to its insert (`Unfiled`); `Entries` and
`Standings` are the columns of the table.

### Sessions

The unit of time is chosen so that one unit of tokens flows in per tick; a line
costs `Cost` units, so the configured rate is 1/`Cost` lines per tick, and a full
bucket is `Burst` lines. The code's `f64` rounding is not represented. An absent
entry of the limiter's map reads as a full bucket, as in the code, and the
limiter is taken to be switched on (`rate_limit_rps > 0`). A line is refused
(`RefuseLine`), or passes and is a tool call (`CallLine`) or something else
(`OtherLine`); REST calls (`ApiCall`) are counted and not limited. In the code the
limiter and the count are two critical sections that read the clock one after
the other, with the line parsed and nothing awaited in between. `CallLine` is
one step: a REST call of the same session in between commutes with both halves,
and the two readings are taken to fall into one tick. If the parsing of a
session's first call took d ticks, `ObservedRateBounded` would be looser by d.
`passed` and `apiCalls` are history. `Forget` is the end of a process.

### Policy and Intake

`Policy` has no state. A call is a record of what conditions can ask for, a
condition a record whose first field names its kind, and a pattern (`"fs_*"`) the
set of values it covers. Paths are sequences of segments. `GarbledHolds` is what
`cond_matches` does with a value of the wrong type or format: the prefix `""`, a
threshold of 1.0, or never. A signature names what it is of and whose it is, and
digests are collision-free.

`Intake` is a process (`Start` with `load_policy`, `Stop`), its lines and REST
calls, and policy files that their owner signs (`Sign`) and that others change
(`Overwrite`, `EditDir`) while it runs; what the owner has not signed cannot
carry the owner's signature. `TakeList` is a line with tool definitions, which `Observe`
goes through one by one; `TakeCall` and `TakeApiCall` count the call and evaluate
the policy on what the detectors found; `HandOver` gives the decision to the part
that `Gateway` models, where it is an input. A line
that carries definitions as well as a call is not modelled. From its
arrival to the decision a call awaits nothing and uses the loaded rules only, so this
is one step and one slot (`decided`) is enough for lines and REST. `signed` and
the field `life` of events are history.

### Configuration

`settings` is what an operator has set up; `Effective` is what a process runs
with. The order is that of the code: the environment over the file, the whole
validated, the defaults alone in its place if that fails (`load_config`), the flags
over the result, and `validate` once more (the guard of `Start`). Of a
configuration only what decides about signed rules has fields of its own; that
everything else is in range is `sane`.

### Evidence

Numbers are counted in units of 2^-28, of which all weights of `security`, as
`f32`, are multiples; `Plus` rounds to 24 binary digits, ties to even, as an
`f32` addition does. A text is what the patterns find in it, so `Texts` is
everything `inspect_tool_description` can tell apart, and the weights are added
in the order of the code. A path is its components; `Normalized` is
`lexical_normalize` with `Vec::pop`. The reference is a file system one can walk
through (`Walk`), starting so deep (`Home`) that no path leaves its root: `Place` is
where a path leads, seen from the start, `Climb` how far it gets out of it. What the regular expressions match, and the verdicts on SQL,
shell, network and secrets, are inputs (fields of `evidence`).

### Protocol, Exchange and Mediation

A body is a sequence of line ends and contents, each named by what the code can
tell of it, and a message taken out of it is the set of the places of its lines.
`Payload` is what `http_post_raw` keeps of a body, `Unwrapped` what `send` hands on of it,
`Cuts` where `split("\n\n")` finds its separator, `Complete` what its treatment of
the last block keeps, `FirstFrame` the first event of which the data begin with a
brace. The reference (`Due`) takes nothing of this from the code: it goes by what kind the server
has said its response is, divides a stream by its empty lines (`EmptyLines`), takes what these dispatch
(`Dispatched`), and counts a batch, JSON that is no object, as a message too.
`Lost`, `Quoted`, `Invented` and `Batched` are the four kinds of responses of which
`send` makes something else.

`Exchange` has one variable per pipe (what was ever written to it, and how much
was read), and one place (`loop`) for the task that goes from client to server.
`Take`, then `Refuse` or `Clear` (the whole of `handle_line`, which `Gateway`
opens up), then `Answer`, `Forward`, or `Connect`, `Send`, `Receive` and `Reply`
for HTTP; `SendFails` is an error, a bad status or a timeout at any of the three
stages, after `Send` too, when the server may have got the line. `Relay` is the
forwarder, a task of its own. `EndOfInput`, the end of the input or a line that is not UTF-8
(`Binary`), kills the child and ends the forwarder, `WriteFails` ends the command.
After `ServerGarbles`, a line of the child that is not UTF-8 or the end of its output, the forwarder ends
and what the child says is lost (`Say`). After `ServerDeafens` the child has closed its
input and goes on: it answers the line it has, and the next write to it is
`WriteFails`. The child works on one line at a time
and stops when its output is full; whether it answers is its choice. `served`
and `cleared` are history.

`Mediation` has no pipes and no tasks: lines are judged in order (`Judge`), get
to the server in order and only if passed (`Reach`), and are answered at most
once (`Answer`). `Exchange` implements it under the mapping `Promise`.

### Sandbox

`execute` is `Spawn`, `WriteInput` byte by byte until `WriteEnds`, then `Drain`
of the two streams until `Complete`, or `Timeout`, or `WaitFails`; `Dropped` is
its caller giving up at an await. Input is a number of bytes, output a sequence of
characters given by their widths, since `truncate` cuts bytes and panics inside a
character. `alive` are the processes that run, `holds` who has which of the three pipes open: these are
two things, since the child and a helper it starts (which inherits what the child has
open at that moment) may close or redirect any pipe and go on (`LetsGo`). The end of a stream is
that nobody has it open, and writing input ends early (EPIPE, which the code
ignores) when nobody has `stdin` open. Besides, both read, write and exit as they like.

## 3. What the runs check

| Run | Instance | Properties |
|---|---|---|
| `chain_concurrent` | 3 writers, failing reads, lost inserts, 5 events | `ChainTypeOK`, `PredecessorStored`, `FailureIsFork`, `ForkIsPermanent`, `ImplementsLedger` |
| `integrity` | 4 events, 2 changes to the file | `VerifiedIsGenuine`, `InteriorDamageIsDetected` |
| `approvals` | 2 workers, 2 operators, 2 calls, 2 requests, TTL 1, clock to 2, no faults | `OutcomeFitsCall`, `DecisionsRecorded`, `LapsedNeverHonoured`, `ImplementsConsent` |
| `gateway` | 2 workers, 1 operator, 2 calls, 2 messages, all faults, both timeouts | `GatewayTypeOK`, `ForwardedOnlyWhenCleared`, `NeverAsksForForbidden` |
| `gateway_live` | 2 workers, 1 operator, a classifier as the code has them | `EveryCallAnswered` |
| `incidents` | 2 workers, 3 calls, 1 status change, window 4; appends, reads and inserts may fail | `IncidentTypeOK`, `SequentialIds`, `OnlyOthersTakeTheId`, `ImplementsDocket` |
| `intake` | 1 session, burst 2, 1 line per 2 ticks, clock to 3, 3 lines, a day of 4 ticks, 5 set-ups, 1 edit of the files, 2 processes; all texts, paths of up to 5 components | `IntakeTypeOK`, `BurstBound`, `ObservedRateBounded`, `RefusedOnlyWhenSpent`, `OnlySignedRules`, `DemandLostOnlyWithFile`, `RoundingHarmless`, `PathsJudgedByPlace`, `MistakesNarrow`, `WindowIsArc`, `DriftReported` |
| `exchange` | both transports, 3 lines (calls, no JSON, blank, not UTF-8), pipes of 1 message, 1 notification; bodies of up to 5 pieces | `ExchangeTypeOK`, `RefusedStaysHere`, `MisreadAsNamed`, `ImplementsMediation`, `EveryLineSettled` |
| `sandbox` | pipes of 2 bytes, up to 3 bytes of input, up to 2 characters of 1 or 2 bytes per stream, a cap of 2 bytes | `FaithfulResult`, `NoOrphan`, `EndsOrIsStuck` |

The bounds. A fork takes two writers; three writers and five events let a fork
happen, be built upon, and happen again inside it. Two changes to four rows cover an
edit after a deletion and both ends of the table. In `approvals` two operators can
approve and deny one request in any interleaving, a request can be approved, expire
(TTL 1, clock to 2: created, last valid moment, overdue) and be swept between any
two steps, and each of two workers can create a request for the same or for
different calls. In `gateway` the queue is smaller (one decision) because its own
run covers the operators' races; there the findings have every
decision of a policy short of DENY, which nothing relaxes, and scores on both sides
of the thresholds of `Judgement`, and the classifier answers 60, 85 or times out to 0. In
`incidents` one call alone, or two calls only together, make a correlation; the
window is small enough that three calls push events out of it, and two workers can
count before either inserts. A failing COUNT is left out there:
`OnlyOthersTakeTheId` is about races and is false with it (the proofs of the other
properties include it). In `intake` one session is enough because sessions are
separate entries of two maps (the theorems cover any number); a burst of 2 at half a
line per tick is spent, refilled in part and refused within three lines and three
ticks. The one edit is an exchange of rules after signing, a signature by another
key, a new signature, or a directory with a file that does not parse, before or
between two processes. The tool changes its description, then its schema, or both at
once. `WindowIsArc` ranges over all windows and hours of the four-tick day. The
five set-ups are a demand in the file that the environment completes, flags over
a file that is not valid and over one that is, an environment without a file, and
a bundle nobody demands. `RoundingHarmless` ranges over every text the detector
can tell apart and `PathsJudgedByPlace` over all relative paths of at most
`MaxParts` components, enough to climb, come back and climb again; both are functions,
and are looked at in every state that uses a detector. In `exchange` the pipes hold one message so that each
of the four is full with two under way, which is where a circle of waiting would
show; three lines let one be answered, one be with the server and one wait. In
`sandbox` the input exceeds the pipe, one character may fit the cap or straddle
it, child and helper can each be the last to hold the pipes, and a helper can let go
of them and outlive a normal result.
`MaxPieces` bounds the inputs of `MisreadAsNamed`: in five pieces an event can stand
before and after an empty line of either kind, and an unfinished one after it. `RowLeft`, `MaxMessages`, `MaxDecisions`, `MaxEvents`, `MaxTime`, `MaxCalls`,
`MaxTriages`, `MaxAlterations`, `MaxLines`, `MaxNotes`, `MaxInput`, `MaxChars`,
`MaxEdits` and `MaxLives` bound the behaviours, and each stands in one guard or
range. Deadlock is not checked because these bounds
make every instance stop.

Symmetry is used in `approvals`, `gateway` and `incidents`: workers, operators and calls are
interchangeable (definitions with CHOOSE do not choose among them), and no
liveness property is checked there.

### Disagreements between code and documents

Each of these runs checks one statement of the repository's documents or tests,
and TLC shows how the code departs from it.

| Run | Statement | What happens |
|---|---|---|
| `chain_fork` | the chain of an untouched table verifies | two appends read the same newest digest; verify then reports damage for good. "Chain writes hold a mutex" (`docs/architecture/ARCHITECTURE.md`) is true of each half of an append (`audit` 120 and 158) |
| `approvals_twice` | "Reuse is keyed on server + tool + canonical args (`find_pending_request`), so a retrying agent does not spam the queue" (`docs/architecture/INCIDENTS_APPROVALS.md:40-41`, `audit` 468-469) | searching and creating are two statements (`proxy` 539 and 541): two workers with the same call both find nothing and both create a request. `ReuseTheorem` proves the statement for a single worker without failing statements |
| `taint_egress` | "SECRET or UNTRUSTED_WEB taint leaving the boundary is denied" (`docs/policies/POLICY_GUIDE.md`) | the gateway calls the taint `UNTRUSTEDWEB`, so the shipped rule never matches; `SECRET`, which has no underscore, does |

Limits worth knowing that no run is about, or that a property states only by
leaving them out:

* *Audit log.* Deleting the newest rows, or editing columns that are not hashed,
  leaves a chain that verifies (`InteriorDamageIsDetected` says what is noticed). An event
  whose insert failed leaves no gap, so `verify` cannot miss it (`Drop` in `AuditLedger`),
  and the pipeline, which throws the error away, goes on.
* *Approvals.* `set_approval` tests the expiry in one statement and writes the row
  by its id alone in another, so a request can become APPROVED after its TTL,
  against `docs/architecture/INCIDENTS_APPROVALS.md:31`. The gateway does not honour
  it (`LapsedNeverHonoured`). A grant is looked up before the call is logged and
  forwarded; one that expires or is denied in between still lets it pass.
  A failed search for a pending request counts as "none found" (`proxy` 541), so then one
  worker is enough for a second request. `DecisionsRecorded` leaves out
  that an operator's process dies between the row and its event, after which the event is
  missing, and asks for an event and not for the order: of two operators on one
  request the one whose decision was overwritten may be the last in the log.
* *Incidents.* An incident names the five newest of the ten events it was
  correlated from, so the one that triggered it may be missing. These are the newest of the whole log: events of
  other sessions help decide whether an incident is raised (`Docket` does the same).
* *Classifier.* One that fails or times out counts as risk 0, so a call it would have
  escalated is forwarded.
* *Restarts.* Fingerprints, buckets and counts are in memory. `DriftReported`, `BurstBound` and
  `ObservedRateBounded` are about one life of a process: a change of a tool between two
  is not reported, and the burst is available again.
* *Tool definitions.* Those in answers of the server are neither fingerprinted nor
  recorded: the forwarder (`cli` 304-314) and the HTTP loop write the line and do
  nothing else, against `docs/protocol/MCP_SECURITY.md:67`. `Observe` is about lines
  from the client.
* *Configuration.* A file that does not validate is dropped with a warning together
  with the environment, so `AEGIS_REQUIRE_SIGNED` has no effect without a valid
  file, while `docs/policies/POLICY_GUIDE.md:202-210` speaks of a startup error.
  `DemandLostOnlyWithFile` says that a demand is lost in no other way.
* *Scores.* Two texts whose weights add up to exactly 0.85 end just below it in
  `f32` and are held for approval instead of denied; no other text is affected
  (`RoundingHarmless`).
* *Paths.* Two `..` that lead out of the start cancel, so a path that climbs an even
  number of levels is judged as if it did not (`PathsJudgedByPlace`;
  `tests/security/README.md:32` documents it).
* *HTTP.* `MisreadAsNamed` states exactly which responses are misread. Of an event stream with
  CRLF throughout no message is found (`CrlfIsLost`), against "CRLF tolerated"
  (`docs/protocol/MCP_SECURITY.md:53`, `protocol` 278): the parser does tolerate it, and its tests call
  it directly, but `http_post_raw` has cut the body at its first empty line between CRLFs (`protocol` 424),
  so nothing is left that would dispatch an event. A JSON text
  in which `data:` or `text/event-stream` occurs is taken for a stream (`protocol` 359) and
  lost, although `docs/protocol/MCP_SECURITY.md:50-51` speaks of errors and "not silent drops";
  a stream of comments only, a heartbeat, is handed to the client as if it were a
  reply (`protocol` 366); a batch in a stream is left out (`protocol` 322).
  The error the client
  gets for a failed upstream carries no id, and the audit log keeps saying that
  the call was allowed. Chunked transfer encoding is not decoded.
* *Encoding.* A line of the server that is not UTF-8, or the end of its output, ends the forwarder and nothing
  else: calls are still forwarded, and none is answered any more. A server that closes its input
  ends the command at the next line that is to be forwarded. `EveryLineSettled`
  has to name these cases.
* *Sandbox.* A helper that keeps the pipes open delays a finished child's output until
  the timeout discards it. Only the child is killed, so a helper may outlive every end of
  `execute`: past a timeout, an error or a drop with the pipes open, past a normal result
  having let go of the two streams. "`kill_on_drop` ensures no orphan on timeout" (`sandbox` 98)
  is true of the child. Output that was cut is not marked as such (`sandbox` 116). A child that does
  not read more input than a pipe holds, or first fills its own output, blocks
  `execute` for good: the timeout does not cover the writing (`EndsOrIsStuck`).
* *Timers.* Those around a classifier can fire only if its future suspends, and none
  of the classifiers does, so `EveryCallAnswered` rests on their return.

### Fairness

`Fairness` is weak fairness of what a task does by itself, per worker:
tokio runs a runnable task, SQLite statements return, timers fire once their
future has suspended. `LiveSpec` adds that the classifier returns, which holds
for the two implementations (regular expressions; one inference call). Nothing is
assumed of operators or of new messages, so `EveryCallAnswered` says in
particular that a held call is answered without waiting for a decision.

In `Exchange` the two tasks of the proxy run when they can, the client reads
what it is given, and the child takes up lines and writes its answer when there
is room, unless it chooses not to answer. Writing by the client, leaving, exits
and failures are not fair: `EveryLineSettled` holds whether they happen or not.
In `Sandbox` the host runs and its timer fires; nothing is assumed of the child
and its helper, which is why the property has to name the way to get stuck.

## 4. What is proved

All theorems are for arbitrary constants under the ASSUMEs of the modules
(`ChainAssumption`, `ApprovalsAssumption`, `GatewayAssumption`,
`IncidentsAssumption`, `SessionsAssumption`, `PolicyAssumption`,
`IntakeAssumption`, `SettingsAssumption`, `ExchangeAssumption`,
`SandboxAssumption`: types, that `NoBody` and `NoCall` lie outside their sets, and that
installations which require signatures trust the owner's key). No bound plays a role.

* **`AuditChainProofs`.** `ShapeInv` strengthens the type invariant: every row's
  digest is the hash of its own columns; every draft is hashed, chains to GENESIS or to a
  stored row, and ids are fresh. Without the clause on drafts `Insert` could add a row whose predecessor is
  nowhere. It gives `ForestTheorem` and `ForkTheorem`; the second needs
  `StaleRowForks` (a row whose predecessor is not the one below it shares it
  with another row) and, for the other direction, that no two rows have one digest
  (`UniqueInv`: every draft and every row was given an id of its own). `ForkStays` needs no invariant. With one writer and reads
  that succeed (`SequentialInv`: an open draft chains to the newest row)
  `SequentialChainVerifies` gives the integrity check. `ChainImplementsLedger` is for any writers
  and with failing reads: `ReadLast` is `Begin` (`ReadBegins`), `Insert` is `Record`
  (`InsertRecords`), `Lose` is `Drop` (`LoseDrops`), and a row added on top keeps the table
  verifying exactly if it chains to the newest one (`AppendVerifies`). For a file that is edited from outside (`AuditIntegrity`), `IntegrityInv` says that
  every row, however often it was edited and wherever it was moved, still has the id,
  the link and the digest of a row that an append has written (`RowsTraced`), which
  is the digest of that row's own text (`WrittenSealed`). `GenuineTheorem` follows because a digest determines
  text and predecessor (`HashInjective`). `DamageTheorem` is by cases: an edited row no longer has its
  digest, the row after a deleted one no longer its predecessor, and of two exchanged
  rows the upper one would have to follow itself.
* **`ApprovalsProofs`.** `QueueInv` adds to the types: a worker under way holds a
  call, an APPROVED row was checked by an operator, so was the row of an operator about
  to approve, an operator who records knows an existing row, and an expired
  request's time lies in the past. From it `ConsentTheorem`
  (`OutcomeFitsCall`) and `LapsedTheorem`, the latter because the lookup's test
  of the time excludes every row of `lapsed`, whatever its status. `ReuseTheorem`
  (`PendingReused`, which the run `approvals_twice` violates) assumes a single worker and
  `"db" \notin Faults`: a second worker or a failed search makes it false. Its invariant
  says that a worker about to create has no pending request for its call (`CreatorHasNone`). `RecordedTheorem`
  needs `"crash" \notin Faults`, for the same reason. `QueueImplementsConsent`
  takes the same invariant: what is approved when a lookup finds it was approved in
  time (`ApprovedWasChecked`) and is not expired (`LapsedIsPast`). All this is about
  `UnboundedQueue`, which has every step of the queue and not the bound `RowLeft`;
  `BoundOnlyRestricts` says that the queue TLC checks is one of its behaviours.
* **`GatewayProofs`.** `JudgementMeaning` characterises the verdict function:
  forwarded exactly when `Clear`, and held only when `MayBeApproved`;
  `JudgementEscalates`: neither detector nor classifier ever relaxes the
  policy's decision. `GatewayInv` joins `QueueInv` with `MessageOK` (what each
  stage knows of the message: a judged one carries its verdict) and `InStep` (a
  worker is in the approval workflow exactly while its message is at `consult`,
  for that very call). Without `InStep` a grant found for one call could be used
  for another. It gives `ForwardedTheorem` and `AskedTheorem`, with all faults.
  `GatewayImplementsQueue` shows that each step of the pipeline, seen from the queue, is a
  step of `UnboundedQueue` or none: a worker asks only when it is idle there, and
  its answer is taken away only when it has one. So what is proved of the queue alone holds
  of the whole (`ConsentInGateway`, `GatewayKeepsPromise`, `RecordedInGateway`), which
  the `gateway` run, with its smaller queue, does not check.

* **`IncidentsProofs`.** `IncidentInv` adds to the types and to `SequentialIds`
  what a worker holds between its statements (`RaisersFit`): the number it
  computed is at most one more than the length of the table, because no count
  exceeds it. This is why
  a number that is refused is the only alternative to the next free one
  (`SequentialTheorem`). `RaceTheorem`
  (`OnlyOthersTakeTheId`) assumes `"count" \notin Faults`.
  `IncidentsImplementDocket` takes the same invariant, with all faults: a worker that
  reads the log holds a grave denial (`RaiserFits`), so `List` is `Assess` or
  `Drop`; and an insert that is not refused has the next number, so it is `File`.
  `DocketMoves` and `DocketStutters` say once what moving one worker on does to the
  mapped state. That raising one incident never changes or removes another, and that no
  denial leaves two, is part of what this says.

* **`SessionsProofs`.** `SessionInv` says what a bucket holds: of every stretch of
  lines up to the newest, never more than the stretch leaves of its allowance
  (`NotAbove`), and exactly that of one of them unless the bucket is full
  (`NotBelow`). The bound alone is not inductive: it says nothing about the
  tokens with which the next line is paid. `NotAbove` gives `BurstTheorem`,
  `NotBelow` gives `SpentTheorem`, and the same inequality for the session's
  counted calls (`CallsAllowed`) gives `RateTheorem`.
* **`IntakeProofs`.** `IntakeSessions` maps every step of the intake to a step of
  `Sessions` or a stutter, so `IntakeBounds` has the three theorems for the whole
  intake. `SignedInv` adds to `OnlySignedRules` that the bundle at rest carries no
  signature of the owner that the owner has not made; from it `SignedTheorem`.
  `TypeInv` adds to `IntakeTypeOK` that every place a process can load from holds rules
  (`AreRules`), which `EditDir`, `Overwrite` and `Sign` must keep. `NarrowTheorem` needs
  it: the rules that match lose at most the mistyped one, and if that was the
  first, it let the call pass; `Evaluate` would have no meaning on anything but rules.
  `DemandTheorem` (`DemandLostOnlyWithFile`, for any settings) follows from
  `SignedInv` and `OverriddenFields`: where the file is accepted, or the flags set
  the field, what runs is what was wanted.
  `WindowTheorem` is arithmetic of remainders, and the day may have any length.
  `DriftInv` ties the registry to the events: the record of a tool holds the definition of
  the newest event on it in this process, and its version is one more than the changes
  among them. Without the clause on tools that have no record, the first sight of
  a tool could count as a change. From it `DriftTheorem`.
  `PathJudged` is `PathsJudgedByPlace` for relative paths of any length. `Tracks` is its
  invariant along a path, with how far the walk has come above the start so far: below the
  highest level it came to, what `lexical_normalize` has kept and where the walk is
  agree, and of the levels climbed one `..` is left if their number is odd. That a fold has such values at
  all, and one for each prefix, is `FoldExists`.
  `RoundingTheorem` is about f32 as such and runs through no texts. An addition is off by
  half an ulp at most (`PlusNear`) and a weight by 80/25 units, so a sum stays near the one
  that is meant (`Near`, `TextSums`). That one is a multiple of five hundredths, and these
  are far apart: but for 50 and 85 themselves the side is decided. There are six ways
  to come to 50, if findings of one weight are not told apart, and each is 0.5 exactly
  (`FiftySums`, `FiftyIsHalf`); 85 is what `Flipped` excepts.
* **`ExchangeProofs`.** Three invariants build on each other. `TypeInv` adds that
  past reading there is a line in hand. `ClearedInv` (what is in hand to be forwarded,
  or was forwarded, was cleared and parses; what the gateway answered was not)
  gives `RefusedNeverForwarded`. `OrderInv` follows a line through
  the pipes: what was forwarded increases and ends before the line in hand, what
  the child works on or has written it has read, each once, and an answer is
  for a line that is settled and not under way. Without the clauses on the
  child's side `Relay` could answer a line twice. With it
  `ExchangeImplementsMediation`: `Refuse`, `Clear` and blank lines are `Judge`,
  `Forward` and the sending of a request are `Reach`, answers and relayed
  messages are `Answer`, and all else stutters. `MisreadTheorem` (`MisreadAsNamed`) puts
  together `StreamMisread`, `TextMisread` and `CrlfIsLost`, which are for bodies of any
  length. A separator leaves an empty line behind it
  (`CutLeavesEmpty`), and before an empty line there is a separator that begins at the line
  end before it or, if an odd number of line ends comes before that (`OddEnds`),
  one earlier (`EmptyIsCut`); so no text can be between them, and the code and the
  reference see the same events (`SameEvents`, `SameCompletion`, `FrameFound`). What `http_post_raw`
  keeps is a beginning of the body (`PayloadBegins`), and the first message of a beginning, if it
  has one, is that of the whole (`BeginningKeepsFirst`).
* **`SandboxProofs`.** `EndInv` joins `NoOrphan` and `FaithfulResult` with the fact
  that before the spawn nobody is alive and no pipe is open. A result is not disturbed later
  because nobody has the two streams open at the end of a complete run, and a helper
  inherits only from a child that is alive.

Induction over data. The induction theorems of the library take an operator as a
parameter, which no installed prover can instantiate. `UpTo` and `LeastPlace` get around this for
numbers: the set of those for which a fact fails would have a least element. So lemmas about folds and
recursive functions (`FoldExists`, `NormalizedUnfolds`, `FlattenType`) are proved
for arguments of any length.

Only model-checked are the three liveness properties, `EveryCallAnswered`,
`EveryLineSettled` and `EndsOrIsStuck`, which need ENABLED. Every safety invariant and
every action property of the passing runs is a theorem.

## 5. What is not modelled

Regular expressions and formats (what a pattern matches, JSON, canonical
arguments, reports), the verdicts on SQL, shell commands, addresses and secrets,
which are string tests without state, metrics, read-only endpoints and commands
(the REST ones fall back to an empty log if the database cannot be opened, `proxy` 890),
the dashboard, the fuzz targets. `StdioTransport` is not used by the proxy. The taint
store's `propagate`, `sanitize` and `declassify` have no caller outside their tests, so
nothing is inherited and there is nothing they interact with. The sandbox's
environment is left out, and so are the sections of the configuration that only
set limits or addresses. In `Gateway` risks are hundredths; that this is harmless but at
0.85 is `RoundingHarmless`. In
`Gateway` raising an incident, tool definitions and session counters are left
out; they have no influence on the verdict of the call except through the
inputs named above, and are the subject of `Incidents` and `Intake`. Fields of a
call the gateway never fills in (`NeverFilled`) are empty, so conditions on them match only
what covers the empty string.

## 6. Plan

Done: `AuditChain` and `Approvals` (the two stores every other part relies on),
`Verdict` and `Gateway` that compose with them, `Incidents`, the part before
the verdict (`Configuration`, `Policy`, `Evidence`, `Sessions`, `Intake`), the
loops around it (`Protocol`, `Exchange`), and `Sandbox`.

Left, in this order:

1. One composition of `Gateway` with the decisions of `Intake` and the incidents,
   so that every operation of the pipeline is an action of one module.
2. The restart of a gateway over a table with open requests and an old chain, with several
   gateways on one file.
3. The handling of WARN in `combine_verdict` against its comment (`core` 128), and the
   life cycle of incidents against its document, and what can be proved of either.
