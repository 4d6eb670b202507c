# mcp-loadtest: TLA+ models, model checks and proofs

mcp-loadtest drives load against MCP servers over four transports, classifies
slow answers as hangs and deadlocks, judges a run, and can spread one load over
several machines by SSH. This directory models it from the transports to the
exit status, checks the models with TLC on small instances, and proves the most
important results with TLAPS for every value of the constants.

Paths below are relative to `src/crates/`.

## 1. Inventory

| Component (source) | State it keeps | What is hard, and what makes it correct |
|---|---|---|
| Controller job state (`distributed/src/state.rs`) | phase, readiness, newest progress and final evidence of each agent | frames in any order and number; evidence only of agents that finished, a failure is final, checkpoints never go back |
| Controller and peer tasks (`mcp-loadtest-cli/src/distributed/controller.rs`, `distributed/src/launcher.rs`) | stage, deadlines; peer task, SSH client and command queue per agent; one event queue | the start gate is all-or-nothing, a report is complete, the controller returns, nothing is left running |
| Worker (`mcp-loadtest-cli/src/distributed/worker.rs`) | `AgentStateMachine`, engine task, start gate, heartbeats | three copies of "ready"; a hung engine; a controller that dies |
| Control channel (`distributed/src/channel.rs`) | read buffer, frame limits | partial reads, a `receive` dropped by a poll; frames in order and without a gap |
| Shards, policy, merge (`distributed/src/shard.rs`, `policy.rs`, `aggregate.rs`) | plan, what is merged so far | rounding, host exceptions of two machines, sums that overflow; no call twice and none lost |
| WebSocket transport (`protocol/src/transport/ws.rs`) | reader task, channel, stash, byte budget, latch | answers early, late, twice; dropped calls; close races; each byte is given back |
| SSE transport (`protocol/src/transport/sse.rs`, `sse/reader.rs`, `guard.rs`, `resolve.rs`) | reader task, channel, stash with a cap, permits, latch | redirects by the endpoint event, floods, a shutdown beside a blocked reader |
| HTTP transport (`protocol/src/transport/http.rs`, `http/metadata.rs`) | header registry, protocol version | an answer in a stream, headers that follow the newest tool list |
| Event stream parsers (`sse/reader.rs`, `http.rs`) | line, event, offsets | chunks that end inside a CRLF or a byte order mark |
| Stdio transport (`protocol/src/transport/stdio/`) | child process, pipes, stderr pump | late answers in the pipe, torn writes, stopping a child inside one budget |
| Session (`protocol/src/session/`) | negotiated version, next id | fallback on the same pipe after a probe that timed out |
| Hang detector (`protocol/src/hang_detector.rs`) | none | two races between answer and timer, polls that come late |
| Pool, executor (`engine/src/scenario/pool.rs`, `engine/src/run/executor.rs`) | sessions, start watch, counters, report | partial start, worker failure, cancellation: each requested worker counts once |
| Scenarios (`engine/src/scenario/`) | counters, windows, findings | which session may still be used, what a passing report means |
| OAuth (`auth/`, `engine/src/run/connect.rs`) | grant, token, scopes, step-ups | servers that name other servers; concurrent refreshes and step-ups of one token |
| Metrics and thresholds (`core/src/metrics/`, `engine/src/process.rs`, `engine/src/run/thresholds.rs`) | counters, histograms, per-tool map, samples | two threads meet over a tool's first entry; a limit met by no evidence |
| Trace and replay (`engine/src/trace/`) | file, first failure; correlation table | a latched failure, ids that repeat across sessions |
| History (`output/src/history/`) | a directory of samples | two recorders of one id, a crash between write and publish, a median over a window |
| Export (`output/src/report/otlp.rs`) | attempts | a collector that is away, slow, partial or breaks off |
| `mcp-loadtest serve` (`mcp-loadtest/src/serve/`) | line buffer | lines in any cut, longer than the limit, written ahead |
| `run` (`mcp-loadtest-cli/src/cmd_run.rs`) | files, exit status | zero only for a run that earned it |
| Config, renderers, other commands | values | none that is concurrent |

How they interact: the CLI builds a `Run`; its executor prepares OAuth, connects
a session over one transport (or a factory of sessions for a pool), a scenario
drives calls through the hang detector into the metrics recorder, and the report
is judged, rendered, exported and put into the history. In a distributed run the
controller starts one worker process per agent over SSH; each executes its shard
behind a start gate and sends its evidence back as NDJSON frames, which are
merged.

## 2. Modules

| Module | Models | Run |
|---|---|---|
| `ControllerJob` | `ControllerJobState`: one action per arm of `accept` | `job_state` |
| `CohortRun` | abstract: one gate for all members, a report only if all completed | |
| `DistributedRun` | controller, peer tasks, pipes, workers, engines; composes `ControllerJob`, implements `CohortRun` | `dist_*` |
| `WsTransport` | WebSocket reader task, queues, budget, requests, shutdown | `ws` |
| `StdioSession` | three ways to open a session on a child's pipes, requests, shutdown, stderr pump | `stdio` |
| `SseTransport`, `EventStream`, `HttpExchange`, `NdjsonChannel` | SSE, both parsers, HTTP requests, control channel | `remote`, by `RemoteTransports` |
| `PooledRun` | `Run::execute`, `drive_pooled`, the workers of `sustained`, teardown, trace | `pooled_run` |
| `Scenario` with `Probes`, `LoadShapes`, `FuzzRun` | hang detector, outcome and recorder; all scenarios | `scenarios`, by `Scenarios` |
| `OAuthGrant`, `OAuthSessions`, `SessionStartup` | a grant; sessions that share its token; the start of a session | `access`, by `Access` |
| `Measurement`, `CohortEvidence`, `TraceReplay`, `ServeMode`, `HistoryStore`, `OtlpExport` | how figures, evidence, replays, answers, samples and exports come about | `verdict`, by `Verdict` |
| `MC...` | constants and symmetry for TLC | |
| `...Proofs` | theorems, in modules that EXTEND the one they are about | |

`RemoteTransports`, `Access` and `Verdict` put parts that share no state beside
each other; a variable `part` says which of them a behaviour is about, and the
others do not move. Only the part `ending` of `Verdict` is a true composition:
the run, its files, `HistoryStore` and `OtlpExport` advance together.

### ControllerJob, DistributedRun, CohortRun
`phase`, `readySig`, `progress`, `final` are the per-agent phase,
`ready_signature`, `latest_progress` and `final_evidence`. A frame is a record
of what `accept` looks at: its kind, whether job and agent are the right ones
(`bound`), whether the worker can run the job (`capable`), whether all its
sessions are live (`full`), the (protocol version, inventory hash) pair as a
model value (`sig`), the sequence number. A refused frame changes nothing,
except a Ready with a shortfall or a different target, which fails the agent.

In `DistributedRun`, `stage` is the loop of `drive_controller` that runs,
`verdict` what `run_controller` decided. `peer` is the peer task with its SSH
client: open, draining (it waits for stderr to end), or closed. `up` and `down`
are the two directions of one agent, queue and pipe together. `proc`, `aphase`,
`engine`, `readiness`, `beats` are the worker process, its state machine, its
engine, what that announced at the gate, and its heartbeats. Deadlines may
expire at any moment while the loop that watches them runs. Faults (a failed
launch, a crash, a broken link, a timeout, an engine error, a refused policy)
are a CONSTANT, so a run without faults can be asked for. The refinement mapping
reads the gate from the stage and a member from its worker's engine.

### Transports and sessions
`WsTransport`: `reader` and `hand` are where the reader task is and what it
holds; `incoming` the channel, `pending` the stash, `used` and `exhausted` the
budget; `terminal`, `closeSent` the latch; `call` the program counter of the
foreground. A request dropped by its watchdog is `RequestDropped`. `sink.send`
has no time limit, so `SendText` is a step that need not come.

`StdioSession`: `stdin` and `stdout` are the pipes as lines: a line is the id of
its request, 0 is a line that a torn write made of two requests, and the last
line of a dying server may be broken. `torn` and `halfRead` are what a dropped
write or read left behind. The server answers each request at most once, in any
order and at any time. `captured` is history: the pump flushed all of stderr.

`SseTransport`: `stage` is the call that is made, `task`, `inHand`, `latch` the
reader task, `events` and `stash` the frames it sent on, `permits` the byte
budget. `Post` sends a request, and `PostEnds` is its response, which a client
without a timeout may await for ever. A host is what `check_url` and
`resolve_and_check` ask of it: literal or name, on the list, its addresses, its
origin. `astray` is history: a request went to an unchecked address or took the
secret headers to another origin.

`EventStream`: both parsers read the same stream, cut into chunks anywhere;
`read` and `found` are the events they made. The alphabet has CR, LF, the two
halves of a byte order mark, and letters that name a field. A half without the
other is no text (`Utf8`): the reader refuses it in a field it keeps, the HTTP
parser (`Refuse`) anywhere.

`HttpExchange`: one action asks, one answers; a body is one message or a stream
of them. `registry` is `ToolHeaderRegistry`, `offered` the last schema of each
tool. `NdjsonChannel`: a frame is numbered pieces and piece 0 the newline;
`PollExpires` is the 50 ms poll that drops the future of `receive`.

### Runs and scenarios
`PooledRun`: `run` is where `Run::execute` is, or an embedder that drives the
scenario (`byRun`; only an embedder may cancel). For each requested worker,
`worker` is what its task does, `session` what became of its session, `calls`
and `good` its counters. A call begins and ends in steps of its own, since
nothing bounds the time between (`steps.rs:86`). `hard` says that the metrics
hold a failure `Report::passed` does not forgive; `trace`, `sealed` are the latch
of the `TraceWriter`. Counters are merged in the step that ends the worker.

`Scenario` has time: an answer comes at some time, the runtime polls a woken
task up to `Lateness` late, and `HangDetect` gives the outcomes the two biased
selects may have. A session is what may still be done with it: after a call that
was abandoned nothing may follow, and one used against that is `misused`.
`outcome` is the `ScenarioOutcome`, `recorded` the recorder's counters.
`Probes` has deadlock_probe, race_check, cold_start and version_matrix,
`LoadShapes` sustained, soak, ramp and spike as windows of calls (a session in
`calling` awaits an answer, without a limit), `FuzzRun` the
fuzzer with its respawns. `ReportPassed` is `Report::passed`.

### Access
`OAuthGrant`: `step` is where `prepare_oauth` is; `facts` is what the servers
were, kept where it is asked for twice; `sent` the secrets that went out and to
whom. `OAuthSessions`: `post` is where each session's request is, `guard` the
`refresh_guard`, `token` the store of each provider, `scopes` and `stepUps` the
handler's; a step ends where the code awaits, and the server's reply is a step of
the environment (`ReplyArrives`). `SessionStartup`: the deadline passes at any
moment; `conn` is what became of the transport, `told` whether the error says that
it may still run: where the action redacts its errors (`executor.rs:60`) a fixed
text stands for them and it does not.

### Verdict
`Measurement`: `doing` is what a thread has still to record of its call,
`perTool` the entry a tool has in the map and `entries` the state behind each
entry, also behind one that was replaced. `CohortEvidence`: the plan, each
worker's policy and shard, its evidence with one of the quirks a foreign worker
may have, and the merge in agent order with every refusal. Seven quirks are
`Noticed` by the merge; three it does not notice: another number of workers than
the plan gave, a missing map of tools, and a counter that was changed together with
its histogram. Counters are below `Width`, in place of 2^64. `TraceReplay`: frames
of sessions that overlap or not, and the replay that pairs them. `ServeMode`:
lines cut into reads; a character that a read cuts is replaced, also in a string
id, and a read or write that fails ends the server.
`HistoryStore`: the steps of `load`, `record` and `analyze_trend`, one per file
operation; a run may die between any two. `OtlpExport`: attempts, what the
collector took of the payload (`taken`) and what its body says of that (`says`);
the exporter only sees the second. `step`, `written`, `exit` are `cmd_run`.

## 3. Runs

| Run | Asks | Bounds | Result |
|---|---|---|---|
| `job_state` | can any sequence of frames, starts and cancels corrupt the job state | 2 agents, 2 signatures, checkpoints 0..1 | holds |
| `dist_safety` | gate, report, commands with every fault; refinement of `CohortRun` | 2 agents, 2 signatures, 1 heartbeat, symmetry | holds |
| `dist_live` | does the controller return, do all workers end | 2 agents, 1 signature, no heartbeats, all faults | holds |
| `ws` | budget, correlation, teardown; does every call end that is not stuck in a send | 2 requests, channel of 1, budget of 3 bytes | holds |
| `stdio` | are answers, eras and teardowns what the caller is told; does every wait end that has a deadline | 3 requests, 3 modes | holds |
| `remote` | SSE permits, addresses, teardown; parsers; HTTP headers and answers; channel order; does a call end whose POST is answered | 2 SSE calls, caps of 1, budget 3; streams of 4 bytes; 3 HTTP requests; 4 frames | holds |
| `pooled_run` | is each worker, call, session and frame accounted for; does a run end that is not stuck in a call or at its gate | 2 workers, 2 calls each, all failures | holds |
| `scenarios` | sessions, two sets of books, what a passing report means; does drive return when no call is stuck | 2 workers, rounds, levels and calls; time 0..3 | holds |
| `access` | where secrets go, what sharing a token does, sound starts; does a request end that the server answers | 2 sessions, 2 step-ups, 2 refresh tokens | holds |
| `verdict` | figures, merge, replay, answers, history, exit status; does the ending of a run end | 2 threads and 2 calls; cohorts of 1 to 3; 3 recorded requests; 2 lines; 2 runs over 4 samples | holds |
| `dist_connect` | may a prepared agent speak while others connect | no faults | violated |
| `channel_reliable` | is the channel reliable as documented | as `remote` | violated |

Why the bounds suffice. Two agents and two signatures give every mismatch and
one agent that ends while the other goes on; nothing in the code compares three
agents at once, and the merge, which counts them, has cohorts of three. Two
requests let a stale answer of the first meet the second; a channel of one is
full after one frame; a budget of three with frames of one and two is exhausted
in several ways. Four bytes hold an event behind a byte order mark, or two
lines with a CRLF between them, cut anywhere. Three HTTP requests list a tool
twice before it is called. Two pool workers give every mix of built and unbuilt,
idle and busy, panicked and merged. Three stdio requests are the longest opening
or a dropped call and two after it. Two levels of a ramp and two phases of a
spike let one go wrong after another was sound. Two sessions meet over every
lock of OAuth there is. Four earlier samples leave one outside of a window of
three and fill the store, so that a fifth is refused. Symmetry is used in
`dist_safety` alone, where no definition orders agents or signatures.

`CHECK_DEADLOCK FALSE` stands where the system really stops: a run that
returned, a channel at its end, a transport that was shut down.

Fairness is weak unless said, and each liveness property excepts the waits that have
no limit in the code.

- `DistributedRun`: the controller's loops, their deadlines, the peers' polls and the
  workers' control loops are driven by tokio timers; nothing is assumed of an engine,
  of a frame's arrival or of a fault.
- `WsTransport`: the runtime polls both tasks, and the timers of receive, Close and
  join expire; the peer need not send. Nothing makes a send to a peer that does not
  read return (`ws.rs:291`): `EveryCallEnds` excepts a call that stays in it.
- `SseTransport`: the same of the reader, the waits and the shutdown. A POST has no
  limit (`resolve.rs:122`): `SseCallsEnd` excepts one that is never answered.
- The control channel: a live writer writes and closes; a poll may expire again and
  again, but not while pieces are waiting.
- `StdioSession`: each wait has a deadline, except the write of a request of a session
  that is ready (`stdio/mod.rs:112`); nothing is assumed of the server or its exit.
- `PooledRun`: startup and teardown have deadlines. A call has none, nor has a traffic
  gate: `RunEnds` excepts a run that stays in one of them and is not cancelled.
- `Scenarios`: probes and fuzzer have limits for their calls, shutdowns and windows have
  them everywhere. A call under load has none (`steps.rs:86`, `ramp.rs:149`,
  `soak.rs:146`, `spike/phase.rs:57`): `DriveReturns` excepts a caller that waits for
  ever.
- `Access`: refreshes, grants and handshakes have limits, the reply to a request none:
  `RequestsEnd` excepts a request that stays sent. `TakeGuard` is strongly fair because
  tokio's mutex queues its waiters.
- `Verdict`: only what a run does after its execution is fair: files answer and each
  request to the collector has a time limit. Its execution, the lookup of the
  collector's host, the client of `serve` and faults are not relied on.

## 4. Disagreements between code and documentation

Two are kept as runs that TLC must find violated:

1. `controller.rs:168`: the connect loop fails the job on a heartbeat or Ready of
   an agent it has itself prepared, while another agent still connects
   (`dist_connect`).
2. `channel.rs:93`: `receive` is not cancel-safe, and both its users cancel it
   every 50 ms (`channel_reliable`). `ChannelIsOrdered` shows the limit of the
   damage: the reader stops with an error and never delivers a wrong frame.

The others are definitions beside the models. To see one, put it in place of the
INVARIANTs and PROPERTYs of the cfg named (with `Spec` for `FairSpec`).

| Definition (cfg) | What the code does |
|---|---|
| `FinishedAgentMayLeave` (`MCDistributedRun.cfg`, `Faults = {}`) | `controller.rs:216`: an agent that delivered its final frame and closed its channel, as the worker does, counts as disconnected while others run |
| `OnlyFaultsFail` (`MCWsTransport.cfg`) | `ws.rs:478`: the Close is marked as sent after it was sent, so the peer's answer can be latched as a failure |
| `FallbackReachesServer` (`MCStdioSession.cfg`) | `connection.rs:111`: after a probe timeout the late answer to the probe is read as the response of `initialize` and fails the start of a server that is only slow |
| `AcceptedAuthIsUsed` (`MCAccess.cfg`) | `validate.rs:328` accepts an auth block for sse, and the sse arm of `build_session` (`connect.rs:611`) never uses it: the sessions send no token |
| `RawUnsupportedIsSkipped` (`MCScenarios.cfg`, `Plans <- HttpFuzz`) | `fuzzer/raw.rs:53`: a raw payload over HTTP, SSE or WebSocket counts as a call that was Disconnected; `transport/mod.rs:81` says it is skipped |
| `CompletedRampRanAll` (`MCScenarios.cfg`, `Plans <- PooledRamp`) | `ramp/pooled.rs:142` notes "completed full ramp" also when the ramp was broken off |
| `FailureIsDescribed` (`MCScenarios.cfg`) | `common.rs:154`: a run that fails for hangs of a diagnostic scenario is reported as "unspecified failure"; `common.rs:70` says every signal is mentioned |
| `DuplicateIdsPairUp` (`MCVerdict.cfg`) | `replay.rs:114`: a request whose recorded answer was lost takes the answer of the next session's request with its id; `replay.rs:73` says that duplicates pair up |
| `LineIsWhole` (`MCVerdict.cfg`) | `serve/mod.rs:282`: each read is made a string of its own, so a character cut by a read is replaced; in a string id the answer goes out under the replaced one |
| `BackendErrorsAreAdvisory` (`MCVerdict.cfg`) | `otlp.rs:209`: a body that breaks off ends the export with an error even if `fail_on_error` is off; `otlp.rs:165` says it does not |

Seen while reading, and not decided by a run:

- `worker.rs:205`: `worker_config` leaves the thresholds out, so a distributed
  run detects hangs by the default of five seconds, whatever `hang_timeout` says.
- `core/src/config/mod.rs:160`: `env` and `working_dir` are parsed and never given
  to the child.
- `core/src/config/mod.rs:228` speaks of 403 step-ups; `reauthorize` spends the
  same attempts on 401 challenges, and all sessions share them.
- Two sessions that widen the scopes at the same time write them
  last-writer-wins: one loses what the other added (`connect.rs`). Neither loses a
  configured scope (`TokenIsShared`).
- More than 10,000 samples (`history/store.rs:105`) end every later run of the
  directory with an error.
- JSON and JUnit say "passed" before a history regression makes the exit status
  nonzero.
- An SSE stash is not drained of notifications; SSE takes any frame with the
  awaited id for the answer, HTTP only a response; the HTTP parser strips a byte
  order mark before every event and refuses what is no text in a comment or an unknown
  field too, and the checks of `StreamsAreRead` say where the two parsers agree.
- `serve/tools/sustained_load.rs:58` and `deadlock_probe.rs:65` truncate a 64-bit
  count to 32 bits. A JSON-RPC batch gets no answer.
- Under load no call has a time limit (`steps.rs:86`): neither the POST of the HTTP
  and SSE transports, nor the send of the WebSocket transport, nor a write to a child's
  stdin. A server that stops reading or answering holds the run until it is cancelled.
- The merge never compares `shard.concurrency` of the evidence with the plan, takes
  evidence without `per_tool` (`aggregate.rs:119`), and cannot see counters that were
  changed together with their histogram (`CohortIsExact` says what is left).
- A run that redacts its errors does not say that a failed start may have left its
  server running (`executor.rs:229`).
- The exporter takes a body that is empty, is no object, has no `partialSuccess` or has
  one with a count that is no number for that of a collector that took everything
  (`otlp.rs:680`).
- `config_digest` (`protocol.rs:131`) and the binary version of a hello are sent and
  never compared.

## 5. Proofs

All proofs are about the modules themselves, for every value of the constants
under their named assumptions (finite sets, natural bounds, capacities above
zero).

`FiniteSums` holds what the other proofs need to know of a sum over a set or a
sequence (`SumFunctionOnSet`, a fold): it unfolds, it is a number, it grows by what
is added, it does not depend on names or places. The induction this takes is an
argument about a smallest counterexample: of the subsets for which a fact fails
one has no element that can be taken away (`LeastSet`), and such a set contradicts
the unfolding.

`DistributedRunProofs`: first the job's own state: `JobInv` is inductive as it
stands; `JobSettled` and `JobFailureIsFinal` are action properties that follow from
the arms' guards and the type. Of the run the parts of `CohortIsSafe` are not inductive: they speak
of engines and of frames in flight, whose history they forget. `IInv` adds what
the history left behind: `FramesInv` (a frame in flight is one that its worker's
phase and announcement allow), `WorkerInv` (phase, engine and announcement move
together), `StageInv` (the run stage was entered with the whole cohort announced
on one target), `VerdictInv` and `CommandsInv`. The proof has one step per action;
lemmas cover the queue operations.

The same module proves the refinement `RunRefinesCohort`: under `IInv`, every step
of the controller, of a peer and of a worker maps to a step of `CohortRun` or
leaves it unchanged. Only opening the gate and the report need the invariant:
they rest on `StageInv` and on the completeness of the evidence.

`RemoteProofs`, of the WebSocket transport: `IInv` joins `LatchInv` (a fault was latched, and a reader
that may still read has latched nothing), `ShutdownInv` and `QueueInv`.
`BudgetStaysExact` rests on `TypeOK` and on what a step moves between the reader's
hand, the queue and the stash: a frame that leaves one of them leaves its sum
(`SumLacks`) and enters another (`AppendLacks`).

`PooledRunProofs`: `IInv` relates what a worker does to where the run is, to its
session and to its counters, and says what the outcome counts before the
scenario is over: `Lost` are the workers already counted as incomplete, `Unsure`
the sessions whose teardown is not known to have ended. Each step adds at most
one member to either; a failed gate adds all live workers at once (`AllLost`).
`CallsInv` says of the sums that the merged outcome is that of the workers merged so
far, so `CallsAreCounted` follows from one step of the merge: the sum over the
merged grows by what the worker it merges has.

`StdioSessionProofs`: `IInv` joins `WireInv` (no request has two lines on the way
and an answer on the way is the server's), `OpenInv` and `CloseInv`. The heart is
the lemma `EndOfRequest`: whichever way a request ends, its caller is told the
server's answer to it or an error of the client's own.

`AccessProofs`: `GrantInv` says what is known of the servers at each step of a
grant, so that a secret that is sent finds them checked. `SessionsInv` has two
parts: `RefreshInv` (a refresh token that has a successor is in no store and in
the hand of no session, because whoever refreshes the shared token holds its
guard) and `ScopesInv` (the configured scopes are in the handler's set, in what
a reauthorization began with and in what it asks for). `StartupInv` relates the
stage to the transport, the deadline and the schemas, and says of a transport that may
still run that the error tells it or was redacted.

`VerdictProofs`: `SamplesStay` is an action property: only `Publish` changes the
directory, and only under a name that is free. `StoreInv` (a run that was told
that its sample is there finds it) and that gives `RecordsAreUnique`: files never
change, so what a run was told stays true whatever the other runs do. `RunInv`
says at each step of the ending what is already written, recorded, compared and
exported, and `ExitIsEarned` is what it says at the end; of a collector it says what
the exporter knows: that its last answer had success and spoke of no rejection.

`RemoteProofs`: `SseInv` adds to `SseIsGuarded` what it forgets: only a shutdown
that joined the reader, or noted that it could not, comes to a verdict, and a
latched fault stays. `HttpInv` says that the header registry holds of a tool what
the newest list that named it annotated. That the answer of a stream is the
request's own rests on `LeastOne`, by which the first answer of a stream is an
answer of it. `ChannelInv` describes what is between writer and reader as a suffix
of the accepted frames on the wire (`OnTheWire`), and the reader as between two
frames, inside of one, or lost since a poll gave up inside of one (`ReaderAt`). A
lost reader reads no frame again, for what it reads next lacks its head
(`ReadsNoFrame`); any other reads the next accepted frame whole (`ReadsTheFrame`).

`FramesStayKept` needs of `FramesInv` only that the reader has an event in hand
exactly while it waits for room in the channel; the rest is how each step moves one
frame, with its permits, between the reader's hand, the channel and the stash.

`ScenariosProofs`: `SessionsInv` says at each step of each kind of scenario which
sessions are in use and in what state: of a probe's or a load's pool those of the
tasks that have not ended, in a round the one of that round (`RoundInv`), in a load
without a factory the run's own (`LoadInv`), in the fuzzer the current one
(`FuzzInv`); every other one rests, that is, was never spawned or is shut down. A
session that is called upon is open, since a caller that met a lost one has quit.
`CountsInv` adds the two books. A call of a load is recorded at once but counted
by its caller, and merged into the outcome only when that caller stops, so the
outcome and what the callers of the window still hold (`OwnSum`) are together no more
than what was recorded (`LoadCounts`); a caller that dies takes its own count with it
and leaves the recorder's, which is why the books need not be equal. The other
scenarios write both books in one step (`BothBooks`).

`DoneInv` is about how far each kind has come, whatever the workers' order. In a pool
the calls made and the workers left are together the plan's count while nothing is
counted as incomplete (`PoolDone`). Of the rounds that are behind, no more are
unfinished than there are errors, unless a deadlock says so, and `cold_start` stops
early only for a recorded loss or with no success at all (`RoundsDone`). In a load,
whoever is done with a window has called in it (`WindowDone`), so each window that was
due and is behind has a level (`LevelsDone`); that a ramp skips none is arithmetic of
its step (`StepsApart`). `VerdictIsEarned` is what these say at the end: the verdict
only looks at the counts, and they have it from the steps.

The last sections of `VerdictProofs` are about four parts that end on their own.
`FiguresInv`: of every counter and every bucket of every histogram, of the run and of
each tool, it says what it lacks, namely the calls of the threads that have still to
count them there (`FiguresLack`), that a thread holds the entry that the map has for
its tool, and that no two tools share one (`RecorderOK`). When drive returns no thread
is on its way, so nothing lacks (`NothingLacks`); what a percentile below its limit
means for the calls is `NotTooSlow`, and `ReportKeeps` puts both together.
`CohortInv`: the ranks of the agents are the numbers from zero on (`RanksAreDistinct`),
so the shares can be added up in that order (`SharesAddUp`); and at every point of the
merge its figures are those of one recorder of all calls of the agents merged so far
(`Metered`), as many indices as agents being taken, none twice. These are the calls the
evidence speaks of (`Said`), whichever way it deviates, and `Decodes` admits only
latencies that go with its counters. They are the calls that were made if no worker
deviates in a way that the merge does not notice (`EvidenceIsTrue`, `Unnoticed`).
`ReplayInv`: a session has one frame of a kind for each of its ids and an answer
follows its request (`FramesAreOwn`), no session is behind its frames while they are
recorded (`SessionsAreAhead`), a pair joins a request to a later
answer with its id that no other pair has (`PairsAreMade`), and in the trace of one
session none is left out (`PairsOfOneSession`): ids do not repeat in one, so the first
free answer with the id is its own.
`ServeInv`: the n-th answerable line has the n-th answer (`TurnsAreTaken`), one answer
is due exactly while it is written, and the server closes only at a line that is too
long, or breaks off when it cannot read or write. Of the id it says what a read may
leave of it: itself, or, of a string with wide characters, the replaced one (`IdsOf`).

`TrendInv`: what is published at one time are samples of different runs, and a run that
has compared itself still has in hand the samples it did that with. The rest is about
one comparison: the baseline is the latest of the eligible samples and at most `Window`
(`BaselineIsLatest`), and there is a k-th value of a figure for every k (`RankedIs`), so
whoever is beyond the median has half of the samples on its better side
(`HalfIsBetter`), whatever the tolerance of that figure.

Of the event streams (`RemoteProofs`), what a recursive function makes of every
sequence of bytes or lines needs an induction the library's theorems cannot be
instantiated for. `EverySequence` takes its place: a set of sequences that has the
empty one and is closed under `Append` has them all, by the least length at which it
would not; each fact is then a set of sequences. With it `Cut`, `ReadLines` and
`DataOf` unfold at their last element. `ReaderInv` says where the reader is
(`Position`): its parser has what `ReadLines` makes of the ended lines of what it has
looked at, with the unfinished line in hand, or it still holds back the start of a mark.
For a reader that failed the whole stream fails too, whatever follows (`DeadGrows`).
`ScanInv` splits what the HTTP parser has looked at into the stream up to the last blank
line, the lines of the event it is in and the start of a line, and says that it found the
data of the first part (`Wire`). `TextInv` adds that this part is text, or else the
parser has refused: a byte is text by itself or with its neighbour (`Utf8At`), so what
is text ends at no line break (`PartIsText`). `TheyAgree` and `StreamAgrees` then go line by line through both readings: they have the
same data when no mark begins a later event.

Only model-checked: all liveness, that is the properties under a fairness condition.

## 6. What is not modelled, and why

- Formatting, wording, logging, the dashboard and the contents of reports: they
  hold no state a property is about.
- Parsing and most of the validation of a config: pure functions. Where a module
  begins with a config, it begins with those that `validate` accepts.
- Clocks. Deadlines are nondeterministic, so the relation of
  `heartbeat_timeout` to the 250 ms minimum of the interval (`controller.rs:63`)
  is not visible, nor that `elapsed_ms` of concurrent frames of a trace may go
  backwards (`writer.rs:114`).
- Multi-round tool calls, the comparison of schemas (one outcome of a call), of
  two answers' shapes (one fact of a pair of them), and what a pattern or a
  generated payload contains.
- Reading `/proc`: a sample, or none. SSH: a process with two pipes.
- `compare`, `cross` and `doctor`: sequential calls of modelled parts, or pure
  comparisons of two reports.
- Progress frames are in `ControllerJob`, but no worker of this repository sends
  them, so `DistributedRun` has no action for them.
