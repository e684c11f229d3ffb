# Renoa in TLA+

A verification project kept beside Renoa: TLA+ modules that model the parts of
the system whose correctness is a matter of ordering, failure and concurrency,
TLC configurations that check them on small instances, and TLAPS proofs of
what matters most for every instance.

The core is the kernel. `renoa-kernel` is, in the words of the repository's
README, the "small, non-replaceable durable kernel": everything else (loops,
models, tools, surfaces, RCP) is replaceable around it. Its promise is that an
operation survives dropped drives, failing adapters and process crashes
without losing a cancellation, repeating an effect that must not be repeated,
or reaching a state from which the next transaction reports `Corrupt`. All its
safety properties, and that it implements the session contract, are proved for
every instance; its liveness is model-checked. Around it the safety of the path
between coordinator and node, of the control plane (messages, access, wakes), of a
Host session's turns and of the ACP server is proved as well; the other components
are model-checked.

Paths below are relative to `src/`.

## 1. Inventory

### The agent path

| component | state | operations | what makes it correct |
|---|---|---|---|
| Kernel operations (`crates/renoa-kernel`) | SQLite rows: `sessions`, `operations`, `effect_batches`, `effects`, `semantic_events`, `cancellation_requests`; in memory the `RunningSessions` map, the drives and their effect tasks | `submit`, `submit_exclusive`, `drive`, `request_cancellation`, `abandon_unknown_effect` | one driver per session; dispatch is durable before an adapter runs; `never_replay` at most once; a committed request wins; ordered, gapless history; every operation ends or is blocked |
| Kernel agents and sessions (`admission.rs`) | `agents`, `sessions` | `create_agent`, `create_session`, retried admission | the same identity with the same content is the same row, with other content a conflict |
| Kernel storage (`schema.rs`, `database.rs`, `request_release.rs`) | schema version, writer lock file | `Kernel::open`, migrations | one writer; a half-done upgrade is not visible |
| Kernel inspection (`inspection.rs`, `observation.rs`) | none | `inspect`, `events_after` | a page of events is a contiguous part of the history |
| Agent loop (`crates/renoa-agent-loop`) | checkpoint, pending tools, compaction plan, all stored by the kernel | `decide`, `decide_cancellation`, `decide_unknown_effect` | every tool call of a model message gets one result; compaction keeps the newest context; a decision is a function of its stored input |
| Host sessions (`crates/renoa-local/src/session*`, `agent_session*`) | the session claim, one live turn | `execute_turn`, `execute_compaction`, `cancel_before_execution`, `replay_settled_turn` | a retried turn returns its stored outcome; a cancelled one is driven to its end |
| Host automations, feed, reset, catalog (`renoa-local/src/host`) | catalog database: automations, occurrences, runs, receipts, plugin state | schedule, claim, run, follow up, reset | each due occurrence runs once; a reset loses no confirmed work |
| MCP and OAuth (`renoa-local/src/mcp`, `host/mcp*`) | connections, flows, tokens | connect, refresh, revoke | one refresh per expired token; a flow is used once |
| Plugins and memory (`renoa-local/src/plugins`) | activation sets, memory jobs, reminders, note pass | activate, deactivate, run job | a job interrupted by a crash is resumed once |
| Storage helpers (`atomic_file`, `host_storage`, `package_tree`, `file_lock`) | files | replace, lock, publish | a reader sees the old or the new file |
| Adapters (`adapters/*`) | Node processes | one request, one answer | behind the kernel's effect adapter interface |

### RCP: continuity between surfaces and nodes

| component | state | operations | what makes it correct |
|---|---|---|---|
| Coordinator (`crates/renoa-control`) | task journal, commands, dispatch, stops, node ownership, devices, push queue | admit a command, dispatch to the node, append execution records, replay from a cursor, stop | one total order per task; an acknowledged command is durable; deduplication by producer identity; a stop reaches its command and no other |
| Node (`crates/renoa-node`) | node store: received commands, outbox of records, stops | receive, execute through the Host, publish until acknowledged | each command is executed once however often it is delivered; no record is lost or published twice |
| Runtime and store (`renoa-runtime`, `renoa-store-sqlite`) | event streams of runs | append with an expected version | optimistic concurrency of the archived engine |
| Protocol and client crates (`renoa-core`, `renoa-protocol`, `renoa-rcp-client`, relay protocols) | none | message types | |

### Surfaces and the rest

Discord, Telegram and Slack (`renoa-discord`, `renoa-telegram`, `renoa-slack`)
each keep a SQLite store of inbound updates, turns and outbound deliveries;
correct means that each update becomes one turn and each reply is delivered,
with an ambiguous delivery not repeated blindly. ACP (`renoa-acp`) translates a
protocol over the Host. The registry shares immutable packages. `clients/`,
`surfaces/`, `deploy/`, `design/` are user interfaces, packaging and assets.

### How the parts interact

    surface -> Host -> Kernel -> loop plugin (decides), effect adapters (act)
    surface -> coordinator -> node -> Host

The Host calls the kernel from several tasks at once: `LocalSession::
execute_command` admits with `submit_exclusive`, polls `drive`, and while it
polls calls `request_cancellation`; when the drive answers `Blocked` it calls
`abandon_unknown_effect`. The kernel calls the loop plugin between
transactions, on a snapshot, and effect adapters in spawned tasks that outlive
a dropped drive. The only shared memory is the `RunningSessions` map behind
its mutex; all else goes through SQLite transactions (`BEGIN IMMEDIATE`), each
on a connection of its own.

### Where it is hard

Between any two transactions of a drive another caller may commit a request;
a drive may be dropped with its adapters still running; the process may stop
between dispatch, the adapter's action and its settlement; completions arrive in
any order; signals are sent after the commit, to whichever drive holds the
session by then. The same shapes return around the kernel: a row is
committed and the message about it is lost, a call is answered after its caller
gave up, a check is made before a lock is taken, a file is published and its
transaction fails. PROJECT.json lists these hazards at their lines, each with
the properties that would catch it going wrong.

## 2. Modules

### Kernel

| module | content |
|---|---|
| `RenoaKernel` | the kernel: rows, memory, one action per transaction or observable step, `Spec` and `FairSpec`; then type invariant, safety invariants, action properties, liveness; the inductive invariants of the proofs; the refinement mapping to `SessionContract` |
| `SessionContract` | what a session promises to the Host: the abstract specification |
| `KernelProofs` | what each row update returns; every action keeps the types and `IInv`; drivers, dispatch, replay, final outcomes, cancellation |
| `KernelSessions` | admission order, frozen runtime, signals, histories, the refinement; batches and requests, replays, snapshots |
| `MCKernel` + four `.cfg` | the instances TLC checks |

### Around the kernel

Each module is one component with its own variables and its own `Next`. The
second column is the code, the third what the module keeps and does.

| module | code | state and actions |
|---|---|---|
| `KernelSchema` | `renoa-kernel/src/schema.rs`, `database.rs`, `request_release.rs` | what each database file holds, the owner lock, processes that open, validate, migrate, work, close and stop; the path may come to name another file |
| `AgentLoop` | `renoa-agent-loop` | the session's events, the checkpoint, the effect batch: `Decide` (model, tools, Code Mode, compaction), `Settle`, cancellation, abandonment |
| `ModelCall` | `renoa-local/src/model_stream.rs`, `renoa-agent/src/sampling.rs`, `adapters/model-provider-node` | the adapter process, its pipe, the reading task, the channel, the sampling loop, cancellation and deadline |
| `McpCall` | `renoa-local/src/mcp/call*`, `adapters/mcp-client-node` | one tool call: Host, adapter process, server; dispatch and terminal records, drain, signals |
| `McpOAuth` | `renoa-local/src/mcp/oauth`, `mcp/auth*` | the flow row, the secret bundle, receipts, relays: begin, callback, exchange, refresh, recovery |
| `Plugins` | `renoa-local/src/plugins`, `host/extensions.rs` | package, admission, activation and connection rows, tool catalogs, receipts, operations of the plugins tool |
| `PluginSetups` | `renoa-local/src/host/plugin_setups.rs`, `mcp/credential_setup`, set-up delivery of `renoa-node` | a call that asks for a credential: the link, the relay, saved rows and their runner, notices |
| `LocalTurns` | `renoa-local/src/agent_session*`, `session*` | the session claim, the activity guard, closing, configuration, the pass, the execution of one request |
| `SessionStorage` | `renoa-local/src/host_storage.rs`, `host/sessions*`, `selection.rs` | staging, live and tombstone directories, the selection log, catalog rows, over several processes |
| `AgentDefinitions` | `renoa-local/src/host/definition`, `documents/publication.rs` | agents, main agent, receipts, soul files, one write transaction at a time |
| `FileUpdates` | `renoa-local/src/atomic_file*`, `documents*`, `file_tools.rs` | the file, its directory, the lock, temporary files, calls and outside writers |
| `Automations` | `renoa-local/src/host/automations` | automations, runs, receipts, the scheduler's job, plugin timers: mutations, admission, delivery, retention, deletion |
| `CronSchedule` | `renoa-local/src/host/automations/cron*` | an expression, a zone whose clock moves, the search for the next occurrence |
| `Feed` | `renoa-local/src/host/feed*` | items, runs, messages, read mark, today's sentence, wakes |
| `MemoryJobs`, `NotePass`, `Reminders` | `renoa-local/src/plugins/host/memory` | nightly jobs and session generations; counting, freezing and settling of note passes; agenda, triggers and deliveries of reminders |
| `Rcp` | `renoa-control` tasks, dispatch and journal; `renoa-node` | the coordinator's rows and the connection, the node's ledger, turns, publication and stops, and the two composed; `RcpProofs` has the theorems about them |
| `AgentMessages`, `AgentLink`, `HostCalls` | `renoa-control/src/agent_*.rs`, `host_calls.rs`; `renoa-node/src/agent_link.rs`; `renoa-local/src/host/peers.rs` | messages between agents and their answers; numbered calls of a node over one session after another; calls of a surface to a Host through the coordinator |
| `Push`, `FcmAccess` | `renoa-control/src/push_*`, `fcm*`, `google_access*` | wake generations, tokens, the dispatcher and its pacing; the shared access token and its failed fetches |
| `ControlProofs` | | the theorems about the nine modules of the two rows above and the row below |
| `BrowserAccess`, `Devices`, `Relays`, `SharePage` | `renoa-control` | passkey ceremonies, browser sessions, pairing, tickets; devices, connections and notices; OAuth and credential relays; a shared file read in parts |
| `Discord`, `Telegram`, `Slack`, `SlackChannels` | the surface crates | inbound messages, the store, worker and deliveries, stops; agent channels with labels and automation results |
| `AcpServer` | `renoa-acp` | stored and open sessions, the handler, prompts in flight |
| `PackageRegistry` | `renoa-registry`, `renoa-local/src/shared_registry` | the change log, blobs, uploads; Hosts with their cursors |

`MCControl`, `MCRcp`, `MCSurfaces`, `MCHost`, `MCTools` and `MCLive` gather
instances of these components. A suite has one variable `part`, which is chosen in
the initial state and never changes, so the components are explored side by side
in one run and none of them restricts another. Where theorems state what a run
checks, the suite extends the module with the theorems and uses its variables:
`MCControl` extends `ControlProofs`, `MCRcp` extends `Rcp`, `MCSurfaces` extends
`AcpServer` and `MCHost` extends `LocalTurns`. Those variables are idle, as `Init`
leaves them, in a behaviour about another component. The other components are
instances over `v1`, `v2`, ... (the unused ones are 0), with constants that are
values in the suite. `Chosen` in the `.cfg` says which parts the run explores. Two
parts of one extended component differ in the bounds of their `Next` (`Crashed`,
`Stopped`, ...) or in a guard that leaves an identity out (`NoClient`, `NoKey`);
the properties are then said with the constants of the `.cfg`, which are the
largest. What really interacts is composed
inside a module (`Rcp` joins coordinator and node,
`LocalTurns` joins claim, activity and pass, `ModelCall` joins adapter, reader and
loop), not by the suites.

Beside a definition a module may hold a deliberately wrong variant of it
(`AcquireUnchecked`, `BindForgotten`, ...), which changes it the way a plausible
slip in the code would. No specification uses them: they are the mutants that
PROJECT.json names, substituted for the right definition to show that a property
can fail. PROJECT.json's map gives the lines behind each definition; a helper without
an entry of its own stands for part of the lines of the definition that uses it.

### State of `RenoaKernel`

| variable | code |
|---|---|
| `active`, `nextPos`, `nextSeq` | `sessions.active_operation_id`, `next_command_position`, `next_event_sequence` |
| `op` | `operations`: phase, transition version, frozen manifest, current and input batch, outcome; `next` numbers the batches |
| `eff` | `effects` with their `effect_batches`; an effect is `<<operation, batch, position>>`, its row has status, recovery, dispatch count and whether its request is kept |
| `events` | `semantic_events`, as (session, sequence, operation) |
| `cancel` | `cancellation_requests` by caller-stable identity |
| `running` | the `RunningSessions` map: bound operation, cancelled token |
| `worker` | each caller's place in `drive` or `abandon_unknown_effect`, its `ActiveOperation` snapshot, the attempts not yet spawned and the completions not yet received |
| `tasks` | spawned effect tasks, each with a clone of the lease; the owner is `Null` once its drive was dropped |
| `signals` | requests committed whose signal is not yet sent |
| `invoked`, `faults` | history: adapter invocations; failed drives and crashes |

### Actions of `RenoaKernel`

| code | actions |
|---|---|
| `submit`, `submit_exclusive` | `Submit`, `SubmitExclusive` |
| `request_cancellation` (commit, then signal) | `RequestCancellation`, `RetryCancellation`, `SignalRunningOperation` |
| `drive`: acquire, activate, bind | `Drive`, `ActivateNext`, `ActivateOwned`, `DriveIdle`, `Bind` |
| top of the turn, `close_requested_cancellation` | `NoCancellation`, `LoadCancellation`, `CommitCancellation` |
| `apply_loop_decision` | `DecideAppend`, `DecideFinish`, `DecideEffects` |
| `drive_effect_phase` | `PrepareEffectBatch`, `FinishWithoutInvocations`, `SpawnEffect`, `SettleBatchEffect`, `RecordBatchEffectUnknown`, `LeaveForReplay`, `FinishEffectBatchAttempt` |
| "cancellation pending" answers of the turn's transactions | `YieldToCancellation` |
| end of the turn | `LoadActive`, `DriveBlocked` |
| `supervise_effect` | `AdapterResolves` |
| `abandon_unknown_effect` | `Abandon`, `LoadPendingAbandonment`, `NothingToAbandon`, `AbandonRefused`, `CommitAbandonment` |
| every error return, panic or dropped future of a caller | `DriveEnds` |
| process stop and `Kernel::open` | `Crash` |

A transaction is one action, with its trigger: the `AFTER UPDATE OF phase`
trigger that releases finished requests is part of every terminal write
(`ReleaseFinishedRequests`). The lease is reference-counted in the code; here
an entry goes when neither a caller nor a task of the session is left
(`AfterDrop`).

Compare-and-sets whose failure the code reports as `KernelError::Corrupt` are
guards of the actions; that no caller ever stands before a false one is the
invariant `NeverCorrupt`, which repeats those conditions per program point.

### Abstractions of `RenoaKernel`

Payloads, commands, checkpoints and event kinds are left out. The loop plugin is
any decision, an adapter any completion at any time. A runtime manifest is a
model value; two callers bring the same or different ones. Identifiers are
fresh by construction. A retry of `submit` with the same content changes
nothing and is a stuttering step.

## 3. Runs

| run | instance | asks |
|---|---|---|
| `kernel_effects` | one operation, two callers, one cancellation identity, two batches of up to two children, two faults | the dispatch, replay, cancellation and release rules |
| `kernel_queue` | two operations of one session, two callers, two cancellation identities, up to two events, one fault | admission order, history, stray signals, the session contract |
| `kernel_runtimes` | two sessions, two manifests, two operations, two callers | a frozen runtime, sessions independent of one another |
| `kernel_liveness` | two operations, one caller, one cancellation identity, one fault, `FairSpec` | every operation ends |
| `control` | 14 instances of push, access, relays, messages and calls | safety of the coordinator's other services |
| `rcp` | two commands in order, a stop, a deletion, each with a fault | safety of the continuity path |
| `surfaces` | 21 instances of chat surfaces, ACP, definitions, files, schema, credential relays, registry | safety of surfaces and stores |
| `host` | 16 instances of automations, feed, turns, memory, storage | safety of the Host's own work |
| `tools` | 15 instances of OAuth, MCP calls, plugins, set-ups, agent loop, model | safety of what a turn calls |
| `live` | 19 components under weak fairness | what is owed is settled, what starts again ends again |
| `live_locks` | 8 components that wait for locks, slots or shared tasks, under strong fairness of those | the same |
| `soul_withdrawn` | creations of agents whose commit may fail | a disagreement (below) |

### Bounds

Kernel: two callers are the fewest that compete for the lease,
and the code treats a third as the second; two children make a batch half
settled; two batches let a second follow one that was settled or replayed; two
faults allow a replay that itself fails, which takes a safe effect past
`MAX_LIVE_DISPATCHES_BEFORE_UNKNOWN`; two operations are the fewest with an
order. Each bound is a constant of `RenoaKernel` used in a guard: `MaxBatches`,
`MaxChildren`, `MaxAppend`, `MaxEvents`, `MaxFaults`. For safety the proofs of
section 4 remove these bounds. Symmetry over callers, cancellation identities
and operations is sound: no definition orders them. It is not used for the
liveness run. Deadlock is checked in every kernel run, and there is none: a
caller may always start a drive of an idle session.

Components: every bound is a constant of its module with a comment (`MaxFaults`,
`MaxCrashes`, `MaxTime`, ...), every limit of the code keeps its name (`KEEP_RUNS`,
`MAX_CHAIN_DEPTH`, `QUEUE`, ...) with a small value in the suite. One component has
several instances where one would be too large to cover all its cases: `ordered` has
two commands of one task, `stopped` stops, `deleted` deletions; `schedule` mutations
and delivery, `deletion` the deletion of an automation and its conversation;
`crashed`, `stale` and `closing` the stops, the stale passes and the closing of a
session. A fault of each kind happens at least once, twice where the second meets
the recovery of the first. Three instances of `host` leave a combination out to stay
small: turns have a delivery or a configuration change beside the message (`OneOf`; the
proofs have both), the passes reach their last time after one stop or fault
(`LastDay`), and the plugin stays on where the cap is checked. Suites do not check deadlock: a component stops when
its bounds are used up, which the program does not.

### Kernel properties

- `NeverCorrupt`: in no interleaving does a transaction of a drive or an
  abandonment find that its snapshot has moved.
- `SingleDriver`: one caller per session, and none beside a task of a dropped
  drive.
- `DispatchBeforeInvoke`: an adapter runs only for a committed, open dispatch,
  once per dispatch, never in two tasks.
- `NeverReplayedTwice`: a `never_replay` child reaches its adapter at most once.
- `ReplayBudget`: every dispatch beyond the live limit is paid for by a fault.
- `EffectsAreFinal`: a settled or unknown child never changes again.
- `CancellationWins`: after a committed request no batch is created, nothing
  is dispatched, and the only outcome left is `cancelled`.
- `NoLostSignal`, `NoStraySignal`: the signal reaches the tasks of its
  operation whatever the race with activation and binding, and no others.
- `ReleasedExactly`: a request is dropped exactly when its operation ended and
  its batch settled, so nothing still to be read is gone.
- `UnknownOnlyAbandoned`: a finished operation has an unknown child only after
  an abandonment or a cancellation, which is how a retried abandonment
  recognises itself.
- `AdmissionOrder`, `GaplessHistory`: operations run in admission order, and a
  session's events are numbered without gap or clash in that order.
- `FrozenRuntime`: past binding a caller's manifest is the frozen one.
- `ImplementsContract`: seen through `OperationPhase::status`, every step is a
  step of `SessionContract` or none: operations of a session run one at a time in
  the order of gapless positions, only the running or blocked one appends to the
  history, a blocked one leaves that state only by cancellation or abandonment,
  and an outcome is final.
- `OperationsResolve`: every admitted operation ends unless its session is
  blocked; `CancellationCompletes`: a request against a live operation ends it
  as cancelled.

### Fairness

`FairSpec` assumes: a caller inside `drive` or `abandon_unknown_effect`
continues (weak: its next step is its own code); a committed request's signal is
sent (weak: the next statement); adapters resolve (weak: the Host wraps its
tools in `DeadlineTool`, renoa-local/src/deadline.rs, and an adapter's contract
is to resolve once its cancelled work has stopped; an adapter that never
resolves is outside the claim); and a session is driven again (strong: the Host
drives on every turn, retry and restart, and may find the session busy with an
abandonment in between). Neither a decision to finish nor any particular
completion is assumed. `MaxBatches` and `MaxEvents` bound what a loop asks for,
so the claim is about loops that eventually stop asking: a loop plugin that
requests effects for ever is not covered, and the kernel has no limit of its
own that would stop it.
Crashes and failures are bounded by `MaxFaults`, never fair.

An operation blocked on an unknown effect stays blocked until somebody
abandons or cancels it; `OperationsResolve` says so explicitly.

### What the suites' properties say

Each is a conjunction over the components, of the properties that the component's
module states; the module has the comment and the code it is about.

- `RcpSafe`: the coordinator's journal of a command is a prefix of the node's
  (`JournalIsPrefix`), a command or record is forgotten only once the other
  side has it (`NothingForgotten`), records are published in their turn, turns of
  a task run in admission order, the node does not end over a repeated or late
  message (`NodeServes`, while no task is deleted), a stop is kept until the node holds it and reaches
  its own command only (`NoLostStop`, `DeliveredStopIsHeld`,
  `CancelledOnlyWhenAsked`), and nothing outlives a deleted task.
- `PushSafe`: a wake is settled only when a send covered it, a ring is not
  replaced by a silent wake, sends are paced; one send posts a bounded number of
  times.
- `AccessSafe`: a bootstrap, pairing token, ticket and relay result serve once; an
  ended session and a revoked device are not served, whatever was in flight, nor a
  replaced credential, unless its sign-in was dropped; a
  relay's result is kept until the node acknowledged it; a page shows the whole
  file or is visibly cut.
- `MessagesSafe`: chains of agents end, every request is answered, `sent` means
  delivered, an answer goes to the call that asked, a Host call waits only for a
  live connection.
- `ControlSteps`: a request wakes a phone once, sends do not overlap, only a refused
  token is forgotten, a failed fetch is shared, a passkey's counter ascends;
  `RcpSteps`: terminal records are last.
- `ChatSafe`, `SlackSafe`: no message is skipped, reordered, answered or posted
  twice across restarts and lost sockets; a stop reaches the turn it was meant
  for; an acknowledged envelope is stored; links that may have been seen are
  scrubbed; a label called applied is on the channel; a result is posted once and
  reaches the next prompt.
- `AcpSafe`: work goes on only in the active session, which accepts it.
- `StoresSafe`: a main agent exists, an operation has one answer, no edit of
  tools is lost, a page lists all agents, a soul is there when its agent enables
  it and nothing is left of a withdrawn one; a failed edit leaves the file
  untouched and no litter; requests are released with their operation in every
  schema version; a credential relay keeps its one result until it is acknowledged;
  the registry serves what it records and a complete
  synchronization has all of it.
- `SurfaceSteps`: a held session is not deleted, no edit is undone, migrations
  keep outcomes and leave a refused file alone, log and cursors only grow.
- `ScheduleSafe`: an automation never overlaps itself, an occurrence runs once and
  is not skipped, a deleted automation is off, a repeated operation gets its
  first answer; the next cron time is the least one; what the feed lists can be
  seen, a problem is listed once, an open ask is kept, what is answered was asked.
- `TurnsSafe`: one driver at a time, a note pass runs alone and is recorded while
  open, a cancelled request is over, a closed session is idle.
- `MemorySafe`: a session found on disk is whole, an open one keeps its directory,
  the latest acknowledged selection is read; a notebook has one unsettled job, dreams once a night and within
  its turns; a pass forgets nothing, reviews the text it froze, keeps its cap; a
  reminder is told once and settled once it was told.
- `HostSteps`: cron runs stay apart, an interrupted pass is not resumed,
  compaction comes before the dream, the timer moves on, an unread agenda retires nothing.
- `McpSafe`: an authorization code and a refresh token are sent once (but for the
  lapses below); a tool call is made once and what is said of
  it is what happened.
- `PluginsSafe`: what is on was admitted under one identity per revision, a tool
  called is the tool that was shown; a set-up keeps its answer, prompts once,
  follows up once, withdraws its notices.
- `LoopSafe`: every tool call of the transcript has one result, requests fit the
  window, compaction keeps the context and moves forward; model output that was
  seen makes a failure unknown, a completed response is kept and shown whole.
- `ToolSteps`: an acknowledgement follows what it acknowledges, plugins move by
  replacement and turn on only when asked, a child is gone when its drain ends.
- `Settles`: from some time on nothing is owed: commands are settled and their
  stops delivered, calls and sends have returned, messages are answered,
  deliveries made or given up, runs over, sessions of revoked devices cut off (those of a
  replaced credential too, unless its sign-in was dropped), saved set-ups come back,
  hosts converged. `Returns`: again and again, a memory job is settled, an ACP
  close has returned and a cancelled prompt has ended.

### Fairness of the components

`MCLive!Spec` assumes weak fairness of each component's own tasks only: the
worker, socket, scheduler or runner loops that the service spawns and that retry
with backoff. `StrongSpec` adds strong fairness where a step waits for
something others take in turns: a tokio mutex (first come, first served), the
polled file locks and SQLite write locks, upload slots, a pass that visits every
agent. Never fair: crashes, faults, lost connections, timeouts of a person,
cancellations, closings, edits, the decisions of a model, what a server answers. Particular
assumptions: `McpCall` assumes the Host's deadline, its signals and the drain, and
nothing of adapter or server; `ModelCall` the same; `PluginSetups` the
runner, the restart, expiry and its grace; `MemoryJobs` that the scheduler
resumes a run and admits a nightly run; `Reminders` that the notebook is
eventually writable and turns end; `PackageRegistry` that the service is restarted and
a synchronization is asked again; `KernelSchema` and `AgentDefinitions` that the
caller tries again. `SlackChannels`: a creation lost before it reached Slack
stays `creating` by design and is excepted.

### Abstractions of the components

Texts, names, payloads, headers and paths are values or left out. What a reader
of a module should know:

- `Rcp`: commands run in the order of their arrival at the node, which may differ
  from the order of commits at the coordinator. A setup link that reaches nobody
  cancels the turn's token as a stop does; the process that saw it ends the command as
  failed, a later process only finds that the Host stopped the turn and may end it as
  cancelled. `CancelledOnlyWhenAsked` names both causes. `NodeServes` is stated while no task
  is deleted: a deletion between a message of the node and its answer may end the
  session with an error.
- `AgentMessages`: any settled task may be deleted, a thread between agents too. A
  message that is sent again after that is admitted anew under the old identity, while
  the node of its agent still holds the execution as ended: it stays unsettled, or the
  node refuses it. `reused` has these messages; `RequestAnswered` and `ExchangeEnds`
  except them, `SentMeansDelivered` counts what the agent ended.
- `Devices`: a revocation runs in the task of a websocket and is carried to its end; a
  sign-in runs in an HTTP handler that is dropped when the app leaves, and then nobody
  ends the sessions of the replaced credential (`LeaveSignIn`). `OnlyAcceptedServed` and
  `RevokedIsCutOff` promise the end of a revoked device's sessions always, and that of a
  replaced credential's only when its handler was not dropped.
- `Push`: the reads of a pass are one step, a coordinator without an FCM account and a
  failed read are left out. `FcmAccess`: a 401 is about the access token.
- `Discord`: every refusal of the coordinator that is not about an absent node is one
  answer, after which the turn is over (`Refuse`). `Telegram`: the stop of a shown
  draft is a kind of update; the cancellation of all turns at a graceful shutdown is
  left out, the crash is there. `SlackChannels`: `MaxQuotes` stands for the 8 latest
  results a prompt quotes, and `ResultsReachThePrompt` lets later results take a place.
- `Automations`: the scheduler is one sequential task; `Want` advances a plugin
  timer within the bound on time. `WaitingMax` limits the follow-ups agents ask for, not
  the Host's own notes (`note_now`); an automation may be created turned off. `Feed`: a skipped run counts as failed.
  `CronSchedule`: the clock moves within one local day.
- `LocalTurns`: `MaxPasses` bounds the pass's visits; only the last counted command
  is remembered, as in the code. Closing a stale pass may be refused (a
  configuration change holds the activity) or fail before or after its cancellation
  reached the kernel; the message then goes on and may be refused as unfinished.
  `unclosed` has the requests this happened to, the only ones `StalePassBlocks` excepts.
  A drive may fail after the admission and leave command and row as they are.
- `NotePass`: one person; a message is one character; Mnem's rule when a pass is
  due is external. A message counts for the day it was received on. A pass that outlived its run,
  left by a stop or by a failed drive, is counted when it is closed, possibly on a
  later day: `CapKept` allows one more for each of these, no more for any other reason; the instance
  `capped` has two conversations and a fault.
  `MemoryJobs`: gate, job and freeze are one step; generations are modulo a bound.
  `Reminders`: one person, one agent, runs do not expire within the bound; preparing may
  fail at the agenda, at any record and at any message, and keeps what it wrote by then.
- `SessionStorage`: the processes share one data root; power loss is not modelled.
  Creating a session over a tombstone makes both exist for a while.
- `McpOAuth`: one connection, one call at a time, relay callbacks only. A refresh that
  the adapter calls failed for certain (it says so of a redirect, a server error
  and an answer over the limit as well) keeps its token although the server may have
  taken it, and so does a beginning that tried the token and went on to a page. `lapses`
  records these and the restarts; `RefreshOnce` holds while there is none.
- `Plugins`: one server per package; a catalog is `<<endpoint, version>>`.
  A connection's preflight is one step, and the rows of old flows are not kept here.
  `PluginSetups`: one credential, each call its own command. Forgetting a saved call,
  recording and withdrawing notices may fail, and the code only logs it: the properties
  say what is left then. A call that runs again after its note was sent may save itself
  a second time; its note conflicts with the first, and the row stays. The Discord route
  of a link is not modelled.
- `AgentLoop`: a message is one token; a tool effect is never replayed; the closing
  message is not empty (the Host checks its own).
  `ModelCall`: a delta is one character. A replay does not wait for the reader of the
  dispatch before it, which stops its process meanwhile (`left`, `StopLeft`). That the
  operating system fails to stop a process is left out.
- `SharePage`: the Host may be out of reach at any part.
- `AcpServer`: handlers are serial, prompts are tasks; a cancel before the
  prompt's task ran has no effect, as in the code.
- `FileUpdates`: a text is a set of marks; an outside writer takes no lock, and
  what it writes after the last look may be lost (excepted in `NothingLost`).
- `PackageRegistry`: an archive is what its package is built to, two builds may
  differ; `PageSize` stands for 100. `Faults` names what may go wrong in an instance:
  between them the instances have every kind, a failed sync followed by a power loss
  included. An archive whose sync failed is taken as it is by the next upload of it
  (`doubtful`); `RecordsServed` promises every other archive of the log.
- `Slack`: a chunk whose delivery failed leaves the later ones pending and its
  request `ready` for good; the property counts it as given up.

### Disagreements seen

`soul_withdrawn` is kept as a run: `commit_or_withdraw` removes the soul its
attempt created after its commit failed, when another attempt may have adopted
it. While modelling, these were also seen, where the code differs from a document or
a message of its own; the properties of the runs are stated around them:

- `renoa-node/src/session.rs`: a terminal batch resent after its task was deleted
  is refused and ends the node (docs/rcp-v0.md:633).
- `renoa-local/src/host/peers.rs:242`: a replayed `message_agent` may report that
  nothing was sent although its first attempt was admitted.
- `renoa-local/src/host/automations`: in a zone that moves by half an hour two
  runs may be closer than the five minutes the tool promises.
- note pass: `visit` writes the next check after it released the claim and may
  overwrite a newer one.
- `renoa-local/src/selection.rs`: a selection appended after a failed write is
  joined onto the torn record (docs/renoa-host-v0.md:1499).
- MCP OAuth: `authorize` with `restart` may send a code or a refresh token of
  unknown outcome again (docs/renoa-extensions-north-star.md:1372,
  docs/renoa-host-v0.md:2253).
- `adapters/mcp-client-node/src/transport.ts:165`: an oversized event stream makes
  a lost tool call look definite (docs/renoa-mcp-v0.md:611).
- set-ups: a rerun whose first row was settled can never send its note
  (docs/renoa-host-v0.md:1919).
- devices: a replaced credential's connection goes on when the app left during its
  sign-in (`renoa-control/src/browser_identity_http.rs:206`).
- agents: a message repeated after its thread was deleted is never settled
  (`renoa-control/src/task_deletion.rs:23`).
- agent loop: a wave over its size limit hides the closing message in it
  (docs/renoa-agent-loop-v0.md:373).
- model request: a dispatch still in the pipe at a cancellation, or in an earlier
  attempt, is reported as not started (docs/model-provider-v0.md:121).
- ACP: a delete right after a close may be refused (docs/acp-v1.md:136).
- registry: an upload that finds its blob already there does not sync it
  (docs/renoa-host-v0.md:991).

## 4. Proofs

### The kernel

`KernelProofs` and `KernelSessions` prove, for all
sets of sessions, operations, callers, requests and manifests and all values of
the bounds, from `BoundsAssumption` (the bounds are naturals) and
`NullAssumption` (`Null` is no session, operation, caller or manifest, `Unbound`
no operation, and the two differ) alone:

| theorem | statement |
|---|---|
| `TypeCorrect` | `Spec => []TypeOK` |
| `OneDriver` | `Spec => []SingleDriver` |
| `DispatchFirst` | `Spec => []DispatchBeforeInvoke` |
| `NeverTwice` | `Spec => []NeverReplayedTwice` |
| `OutcomesFinal` | `Spec => EffectsAreFinal` |
| `RequestWins` | `Spec => CancellationWins` |
| `InAdmissionOrder` | `Spec => []AdmissionOrder` |
| `RuntimeFrozen` | `Spec => []FrozenRuntime` |
| `NoStray`, `NoSignalLost` | `Spec => []NoStraySignal`, `Spec => []NoLostSignal` |
| `HistoryGapless` | `Spec => []GaplessHistory` |
| `RequestsReleased` | `Spec => []ReleasedExactly` |
| `UnknownNeverForgotten` | `Spec => []UnknownOnlyAbandoned` |
| `ReplaysBounded` | `Spec => []ReplayBudget` |
| `NothingCorrupt` | `Spec => []NeverCorrupt` |
| `ContractImplemented` | `Spec => ImplementsContract` |

These are all the invariants and action properties of the kernel runs.

### The inductive invariants

Hardly one of the properties is inductive. They rest on a tower of invariants,
each proved inductive together with the ones before it, and each checked by TLC on
the kernel instances before it was proved.

`IInv` (theorem `Invariance`). That an adapter runs only for an open dispatch
needs that nobody settles or closes the child of a running task, hence that the
task's owner is the only caller on its session, hence that the lease survives as
long as any task; that a dispatch is invoked once needs that a child is either not
yet spawned, running or received, and only one of them:

- `Placed`: a caller past activation works on an operation of its session;
- `RowsAgree`: rows that name one another agree on the session;
- `LeaseCovers`: the map entry exists while a caller or a task holds the lease;
- `OneWorker`: two callers are never on one session;
- `TasksOwned`: the caller on a task's session, if any, owns the task and
  awaits it;
- `TasksStarted`: a running child is started, in one task;
- `AttemptsStarted`: unspawned and received children are started, apart from
  one another and from the running ones, and an unspawned one has a dispatch
  left to spend;
- `DispatchCounted`: invocations never exceed dispatches, a child without a
  dispatch has count 0, an unused batch is empty, `never_replay` counts to one.

`SInv` (`SessionsInvariant`): the session row names exactly its live operation,
outcome and phase agree, positions are issued and distinct, a live operation
has its manifest recorded, a driving caller stands on the session's active
operation and, past binding, brings the frozen manifest. `AdmissionOrder` needs it because
activation picks the least queued position only when nothing is active.

`GInv` (`SignalsInvariant`): a lease is unbound until its caller binds it, then
bound to the operation that caller drives; a pending signal is of a committed
request; a caller that awaits an attempt of a requested operation has a cancelled
token or a signal still to come. This is the race between commit, bind and signal:
`Bind` reads the request after it binds, `SignalRunningOperation` looks the binding
up after the commit, so one of the two sees the other.

`EInv` (`BatchesInvariant`): an unfinished operation has only settled batches
behind its current one and all requests kept, and its phase fits the current
batch; a finished one dropped exactly the requests of its settled batches, and an
unknown child is left only by abandonment or cancellation.

`BInv` (`ReplaysInvariant`): a started child in nobody's hands was left by its first
attempt or by a fault, which is what makes the next dispatch affordable; a
completion carries the count of the last dispatch.

`HInv` (`HistoriesInvariant`): sequence numbers of a session are exactly
`0 .. next - 1`, each used once, in the order of positions, by operations that were started.

`CInv` (`PositionsInvariant`): a session has issued as many positions as
operations were admitted to it. The contract numbers an admission by that
cardinality, the code by the column `next_command_position`.

`NInv` (`SnapshotsInvariant`): from each program point to the transaction that uses
it, a caller's snapshot (phase, version, input, event sequence) is still what the rows say,
and the children it holds are of the current batch. It rests on `IInv`: only the
one caller of a session moves its operation, and a request moves no version.
`NeverCorrupt` follows from it with `EInv` and `SInv`, which say that the batch a
transaction reads is the one the phase calls for.

### How the proofs are laid out

`KernelProofs` first says what each record update returns, so that no other leaf
reasons about `EXCEPT` on records. Most actions either return, move one caller, or settle one
child; `ReturnStep`, `GotoStep` and `ReceiveStep` show once that such a step
keeps `IInv`. Each later invariant has one lemma per action or family of actions
that can disturb it, and one lemma that the remaining actions leave its variables
alone.

The two action properties follow from `IInv` step by step. What they need of it:
a new batch is written over identities that held no effect (`DispatchCounted`),
so it overwrites no outcome; a request names an admitted operation (`RowsAgree`),
so admission cannot reset a requested one; a caller's operation exists (`Placed`).
Every other case is the guard of the step's own transaction, which is why the
code reads `cancellation_requested` inside each.

### The refinement

`SessionContract` has per operation a session, a position and a status, the set of
requested operations and per session the history. The mapping is
`SessionBar`, `PositionBar`, `StatusBar` (`OperationPhase::status`),
`RequestedBar` and `HistoryBar`, which reads the events of a session in the order
of their sequence. Each kernel step is one step of the contract or none:

| kernel | contract |
|---|---|
| `Submit`, `SubmitExclusive` | `Admit` |
| `RequestCancellation` | `Request` (an operation may be requested under several identities) |
| `ActivateNext` | `Start` |
| a transaction of a batch that leaves an unknown child | `Block` |
| `DecideAppend` | `Continue` |
| `DecideFinish` | `Finish` |
| `CommitAbandonment` | `Abandon` |
| `CommitCancellation` | `Cancel` |
| everything else (callers, tasks, leases, signals, dispatch, crashes) | none |

`NextShape` sorts the steps, `OneBar` and `TurnBar` say what the mapped variables become
when one operation row changes and events are appended, and `Contract...` lemmas
take the steps one by one. `HistoryAppends` needs `HInv`: only because sequence
numbers are gapless and unique is the mapped history after an append the old
one with the new events behind it. `ContractAdmit` needs `CInv`; `ContractStart` needs `SInv`
(nothing is active, so every earlier operation of the session ended); the other
steps need `IInv` and the guards of their transactions.

### The coordinator and the node

`RcpProofs` proves, for all finite sets of commands, all tasks and all values of the
bounds (so any number of lost connections, crashes, drains, retries and deletions):

| theorem | statement |
|---|---|
| `RcpTyped` | `Spec => [](TypeOK /\ TurnsInv)` |
| `JournalInvariant` | `Spec => []JournalInv` |
| `JournalFollowsLedger` | `Spec => []JournalIsPrefix` |
| `NothingIsForgotten` | `Spec => []NothingForgotten` |
| `StopsArrive` | `Spec => [](DeliveredStopIsHeld /\ NoLostStop)` |
| `TurnsAreOrderly` | `Spec => [](CancelledOnlyWhenAsked /\ TurnsInAdmissionOrder)` |
| `DeletedTasksStayEmpty` | `Spec => []NothingOutlivesTask` |
| `TerminalsAreFinal` | `Spec => RcpSteps`, which is `[][TerminalIsFinal]_vars` |
| `OrderInvariant` | `Spec => []OrderInv` |
| `PublishedCommandByCommand` | `Spec => []PublishedInTurn` |
| `SettledIsComplete` | `Spec => []SealInv` |
| `TheNodeServes` | `Spec => [](deletes = 0 => NodeServes)` |
| `RcpIsSafe` | `Spec => []RcpSafe`, the invariant of the run `rcp` |

The assumptions are `RcpAssumption` (every command is drawn for a task, the bounds
are naturals, a batch has at least one record, `None` is no task and no command) and
`LedgerAssumption` (finitely many commands, `None` is no row of the ledger). The
theorems name them as their hypothesis, because `Rcp` is instantiated as well as
extended; `MCRcp` has TLC evaluate them (`RcpBounds`). `RcpIsSafe`
collects the conjuncts of `RcpSafe` from the theorems above it.

`TurnsInv`: a turn that runs drives an unfinished command of its task, the first
of them in the order of admission; its token is cancelled only by a stop of the
ledger, and is cancelled once it has looked, unless the stop is just being passed
on (a link that reached nobody is kept apart, in `unlinked`). That
`schedule_pending` picks the first needs that the orders are naturals (a set of them has a least member) and that a new admission comes after every
known one (`NextOrderAbove`, over the finite ledger).

`JournalInv` has two parts. `MessagesInv` speaks of everything between the two
processes, the messages on the connection as well as the sends and operations a
handler of the coordinator holds in its hands: what comes from the node is
`Honest` (a batch is a stretch of the ledger, an acknowledgement is of an
execution or a stop the ledger has), what comes from the coordinator is `Grounded`
(it accepts no more than the journal has). `Rows` says of each command that nothing is
known of it before its submission (`Unheard`), that it goes with its task
(`Consistent`), that the journal has its records up to the cursor, each once
and in order (`Copied`), that it is pending or in the ledger (`Remembered`), and that
nothing is left of it after its deletion (`Gone`).

`JournalIsPrefix` alone is not inductive: a batch of a connection that was lost long
ago may still be committed (the check that the connection is current and the
transaction are two steps), so it must be a stretch of the ledger whenever it
arrives. It stays one because ledgers only grow while a command is admitted
(`Grows`); a command whose task was deleted is refused. `RowsAdvance` and `NodeStep` show
once that a step of the node that only adds to its ledger keeps the invariant,
`CoordStep` the same for the coordinator; `AppendedRows` is the step of
`append_contiguous_execution_events`, the only one that writes records.

`OrderInv` is what `PublishedInTurn` needs. The rule that keeps the later commands of a
task back is the node's (`send_pending`), and is applied when a batch is sent; the
property is about the journal, where the batch may arrive after any number of
faults. `InTurn` spans the distance: while records of a command are in the journal
or on their way to it (`Under`), the node has nothing left to publish of the earlier
admitted commands of the task (`Cleared`). `ResumedInTurn` shows that a batch is sent
only then, `Moves` what a step may do to the ledger (cursors and records only
grow, an ended command gets no records, a new admission comes last), so that
what is cleared stays cleared. `Closing` adds that an ended command has its terminal
record and that a journal with that record is settled. With `JournalInv`, whose
cursors enclose the journal's between the node's cursor and the length of the
ledger, a cleared command is settled.

`ServeInv` is what `NodeServes` needs: the node ends with a protocol error when it is
answered what it does not await, so every answer on its way must be one it awaits.
An exchange is the admission or the publication of a command. `Talk` says that each is
in one place, on its way up, in the hands of the handler or on its way down
(`OncePerExchange`), and that the node awaits exactly it (`AllAwaited`): a publication
in flight ends where the batch ends, and the answer accepts just that much. The
last needs a bound, because `append_contiguous_execution_events` answers with the
cursor of the journal, which batches of earlier connections, committed late, may
have moved: `Standing` and `Bounded` say that no batch anywhere ends beyond the flight
of its command, since all start at or before the node's cursor and have at most
`MaxBatch` records, and a batch sent anew holds all there is up to that bound.
`ResumedServes` shows that `refresh_publications` and `send_pending` open only
exchanges that are not under way, `AppendEffect` what a commit makes of the cursor.
`SealInv` rules out the refusals of the append: after a terminal record there is no
other, so a batch that reaches a settled journal holds nothing new.

### The control plane

`ControlProofs` instantiates the nine modules of the coordinator's other components
over variables of its own (two components have a `ticket`, three a `conn`) and
proves, for all values of their constants:

| components | theorem | statement |
|---|---|---|
| `AgentMessages`, `AgentLink`, `HostCalls` | `MessagesAreSafe` | the three specifications `=> []MessagesSafe` |
| `BrowserAccess`, `Devices`, `Relays`, `SharePage` | `AccessIsSafe` | the four specifications `=> []AccessSafe` |
| `Push`, `FcmAccess` | `WakesAreSafe` | the two specifications `=> []PushSafe` |
| `BrowserAccess` | `CountersNeverGoBack` | `Spec => [][CounterAscends]_vars` |
| `Push` | `PhonesWakeOnce` | `Spec => [][NoOverlappingSend /\ OneWakePerRequest]_vars` |
| `FcmAccess` | `TokensAreShared` | `Spec => [][OnlyRefusedForgotten /\ FailureIsShared]_vars` |

`MessagesSafe`, `AccessSafe` and `PushSafe` are the invariants of the run
`control`; the components share no variable, so each theorem rests on one theorem per component (`ExchangesAreSound`,
`CallersGetTheirAnswer`, `NobodyWaitsForTheDead`, `BrowsersAreGrantedOnce`,
`DevicesStayEntitled`, `RelaysKeepOneResult`, `SharedFilesAreWhole`,
`SettledWakesWereSent`, `PostsAreBounded`). The hypotheses are the assumptions of
the modules, which `MCControl` has TLC evaluate for its instances: bounds are
naturals, `None` is none of the identities or rows it stands beside, `reply` is
not a call's label, and what is counted (clients, devices, phones) is finite. An
instantiated `Cardinality` is for the prover another operator than that of
`FiniteSets`; the `...Counts` lemmas say once per module that they agree.

What makes the nine invariants inductive:

- `MessagesInv`. A command's identity is the path of calls that led to it, so that a
  repeated call derives the identity of the first. `Threads` says what that buys: the
  depth of a command is the length of its path, its asker was admitted before it,
  and a settled request has its reply in the asker's task, unless that task was deleted and
  its message sent again; `ToolCalls` that a call
  under way is made by a running command and an accepted one is the request it names.
- `LinkInv`. Every request and every answer on the connection has its waiter in
  the table, with the same request, and each number is under way once (`Flights`), so
  that `answer` always finds the number and hands the answer to the caller that asked;
  a caller that gave up and asks again has a new request, because no request is in the
  queue or the table twice (`Once`, `Asked`).
- `CallsInv`. The connection in the table of nodes is one that was not cleaned up
  (`Current`), which is what makes a registration at `dispatch` one for a living
  connection, and only dispatched calls are registered (`Registered`).
- `AccessInv`. Sessions are made by a client that is done or by the pairing that
  names the browser (`MadeByDone`, `MadeByPairing`), a ticket that was entered is
  spent (`TicketsOnce`), a bootstrap is held by the one ceremony that claimed it
  (`BootOnce`), a key that signs counts above what is stored (`CountersKnown`), and a
  session that is used was renewed within half its life (`SessionsFollowUse`).
- `DeviceInv`. A connection is served only while it is entitled: the device accepts its
  credential, or the handler that revoked or replaced it has yet to end its sessions, or
  the handler of its replacement was dropped (`Lifecycle`, `Entitled`); two devices never hold one key (`OneHolder`).
- `RelaysInv`. `Told` ties the history to the row, phase by phase (nothing was
  answered for a pending row, and the digest of any other is the one result
  answered), and `Limits` counts the active relays of a node and of all. `Stays` says
  that a relay which lives after a step lived before it, so that expired rows not yet
  removed do not disturb the counts.
- `ShareInv`. A page has read its parts in turn; when it has the last, all are of
  the version described, because the last read compares (`Reading`).
- `PushInv`. What a concluded send covers was told to the phone, unless its token
  came back later (`CoverTold`); it rang if a ring is owed (`CoverRung`, and `SendRung`
  for the send still under way); a dispatcher about to settle has every target
  covered up to what it settles (`SettleReady`), although requests and tokens change
  between the look and the transaction.
- `FcmInv`. A post is paid for by an attempt or by the one renewal (`Paid`); the
  sender that fetches is the one that holds the mutex; what is about to be forgotten
  was refused.

### Turns of a session

`LocalTurns` proves `SessionsServeOneAtATime` (`Spec => []TurnsSafe`) and
`PassesAreNotResumed` (`Spec => [][NeverResumed]_vars`), for any requests, of which
any may be deliveries, and any number of passes, closes and stops. `TurnsInv`
accounts for the two shared resources: `Seats` says whose the claim is (a request from
its claim to its answer, a configuration change while it is made, a pass while it is
not out, and the pass shares it with nobody), `Work` whose the activity is. From them
only one caller is past `begin_prompt`, so that `Record` holds: nobody but the pass
makes its command open, never beside a request, and the row is there before.
The assumption is that requests are not called `pass`, `cfg` or `idle`.

### The ACP server

`AcpServer` proves `TheActiveSessionWorks` (`Spec => []AcpSafe`) and
`HeldSessionsStay` (`Spec => [][DeletedUnheld]_vars`), for any sessions and prompts,
stored ones and those of other Hosts included. `AcpInv` says, session by session, who
holds its instance (`Referred`: the server while it is active, and the tasks that
found it), what it does (`Busy`) and when it accepts work (`Accepts`: exactly while it is
the active executable session and no close waits for it); and that the request
a handler waits in is still the first of the inbox and is about the active session
(`Waits`), which is why an answer that comes later still finds its session.

### Only model-checked

`OperationsResolve` and `CancellationCompletes`, and `Settles` and `Returns` of the
components: liveness under fairness and `ENABLED` are out of the prover's reach.
The safety properties of the components that no theorem above
names (the chat surfaces, definitions and stores, automations, memory, OAuth, MCP
calls, plugins, the loop and the model call): their invariants are stated and checked
on the instances of section 3, and not proved. What recursive
definitions compute over all inputs (context projection in `AgentLoop`, the search
in `CronSchedule`) needs induction over data, which the prover cannot do.

## 5. Not modelled

In the kernel: creation of agents and sessions and the comparison of a retried
command with its stored content (each inserts or compares one row); the read-only
projections; integer overflow of positions and versions (the code checks each
addition). Elsewhere: the archived RCP runtime and store; migrations of the Host
catalog and the offline reset; observation, peers' profiles, traces and telemetry;
skill and package trees; Code Mode's own machine, shell, search, uploads; protocol
types; HTTP routing and configuration; clients, deployment, design. The notes in
PROJECT.json give the reason for each.

## 6. Plan

Next, in order of importance:

1. Proofs about the tool call of `McpCall` and the set-ups of `PluginSetups`, whose
   history variables are already in the shape of an inductive invariant.
2. The claims of `Automations` (`NoOverlap`) and of `MemoryJobs`.
