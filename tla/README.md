# Formal models of Node Goblin

Node Goblin runs processes and file operations on remote hosts. A *gateway*
process on each host executes operations; a *controller*, a mod of the backend,
trusts gateways, sends them operations and keeps records about them. This
directory holds TLA+ models of the parts that keep a protocol or survive
failures, TLC configurations that check them on small instances, and proofs
checked by TLAPS. Source paths below are relative to `src/`.

## 1. Inventory

### Components and where they stand

| Component | Source | State it keeps | Modelled in |
|---|---|---|---|
| Gateway daemon | `gateway/lib/daemon.mjs`, `gateway/cli.mjs` | `controllers` (runs in flight), `stopping`, telemetry | `GatewayDaemon`, `HostExecution` (partly: hello and health only read) |
| Operation journal | `gateway/lib/journal.mjs` | `entries` Map, `operations.json` | `OperationJournal`, `JournalMap` |
| Controller listener | `gateway/lib/controller-listener.mjs` | connections, `gatewayRecords`, `pending`, `connections`, `activity`, `gatewayHealth`, `pending`/`operations` of each connection | `ControllerListener` (partly: no framing, no event payloads) |
| Controller trust service | `server/index.mjs` 404-617, 662-679 | durable gateways, pairings, keys, secrets, intents; `trustQueue`, `generations` | `ControllerTrust` |
| Operation correlation, process adapter | `server/index.mjs` 199-402 | durable `controllerOperations`; calls in flight | `OperationCorrelation` |
| Node transport | `gateway/lib/network-transport.mjs`, the poll of `gateway/cli.mjs`, `confirm-pairing` and `unpair` of `gateway/deploy/node-goblin` | socket, challenge, deferred `auth.ok`, pins, timers; `node-identity.json`, pairing files | `NodeTransport` (partly: no framing, no enrolment tokens) |
| Process runner | `gateway/lib/process-runner.mjs` | child, timers, output buffers | `ProcessRunner`, `HostExecution` (partly: no redaction, no text) |
| Filesystem runner | `gateway/lib/filesystem-runner.mjs` | per-path mutation chain, snapshots | `FileMutation` (partly: the tools that read are left out) |
| Telemetry runtime | `gateway/lib/otel-runtime.mjs` | generations, exporters, queues, budgets | `TelemetryRuntime` (partly: no configuration parsing, no encoding) |
| Gateway client | `gateway/lib/client.mjs` | pending requests | planned |
| Output frames | `gateway/lib/output-frame.mjs` | none (pure) | planned |
| Operation archive | `server/operation-archive.mjs` | none (pages over a snapshot) | planned |
| Installer, scripts | `gateway/deploy/*.sh` | installed package, backups | planned |
| Pairing and protocol helpers | `gateway/lib/pairing.mjs`, `protocol.mjs` | none (cryptography, canonical JSON) | as values |
| Controller configuration, TLS, HTTP routes | `server/index.mjs` | settings | not planned: single read-modify-write handlers |
| Host metadata, OTLP encoding, UI | `gateway/lib/host-metadata.mjs`, `otlp-trace-protobuf.mjs`, `ui/` | none that others rely on | not planned: formatting |

### Interactions

- The backend calls the **process adapter** (`executeProcess`,
  `executeNativeFilesystem`). It writes a durable correlation record, asks the
  **listener** to dispatch, waits, and writes the record as terminal.
- The **listener** owns one `GatewayConnection` per socket. It authenticates a
  gateway against the records the **trust service** gave it, forwards pairing
  requests to the trust service as events, and is told by it of approvals,
  rejections and revocations.
- The **trust service** changes durable settings and secrets through
  asynchronous calls to the host, one task at a time (`trustQueue`), and the
  listener in memory. HTTP routes and listener events come in between.
- On the host, the **node transport** feeds envelopes of the controller to the
  **daemon** and sends its replies on whatever socket is current. The daemon
  admits, deduplicates (by the **journal** and the runs in flight), executes
  through the **process** or **filesystem runner** inside a telemetry span, and
  journals the outcome.

### Hard behaviours

- Retries with the same operation id: concurrent with the first run, after it,
  after its outcome expired or was evicted, after a crash or a failed save.
- Sockets that are destroyed but whose close event comes later; reconnects of
  the same host before that event; two hosts claiming one gateway id; a connection
  that claims a second id while its first is pending.
- Durable writes separated by awaits: approvals race with rejections,
  revocations, enrolments and disconnects; any write may throw; the process may
  die between any two of them; a rollback may fail half way.
- Bounded collections (journal, activity list, pairing requests, terminal
  correlation records) whose evictions meet work in flight.
- Processes that ignore signals, close late or never, print past the limit, or
  outlive the gateway; timers that settle a run although its process lives.
- File mutations that throw or are aborted at any await while others wait behind
  them and programs that know no chain write the same file.
- Exporters that are retired, budgeted, flushed and given up while a batch hangs
  and operations still own them.

`PROJECT.json` lists each hazard at its line with the properties that cover it.

### What makes each component correct

- *Daemon and journal*: an operation id runs at most once at a time and not
  again inside its replay window; a replay is the outcome of the latest run of
  the same request; an outcome reported as done is durable; a stopping gateway
  starts nothing; an id in progress is freed.
- *Listener*: one connection speaks for an id, and it belongs to the host
  trusted at that moment; a challenge is approved only as it was read; every
  request is settled; the activity list agrees with what is in flight.
- *Trust service*: whatever fails, a restart admits what the last completed
  mutation decided or nothing; nothing is trusted in memory that is not durable.
- *Correlation*: an unresolved record is never lost; one operation id is not in
  flight with two meanings.
- *Transport*: no operation is accepted before both sides authenticated and the
  operator confirmed; replies do not cross to another controller.
- *Runners*: a run settles once, within its deadline; a file mutation is applied
  to the version it read or not at all.
- *Telemetry*: a span is answered for by a collector or counted as dropped, once;
  budgets are returned.
- *Client*: each request settles once.

## 2. Modules

| Module | What it is |
|---|---|
| `OperationJournal` | The operators of the journal: live entries, eviction, lookup, `put()`. An entry carries the completion it stems from (`stamp`), which gives the order that the Map's insertion order and `completedAt` give in the code. |
| `JournalMap` | The same journal as an ordered Map with the loops of `prune()`, compared with the operators of `OperationJournal` on every journal the daemon reaches; the loops are written as what they compute, without recursion. |
| `GatewayDaemon` | `handle()` over the journal, its file, the clock, crashes and restarts. |
| `ExecutionContract` | What a gateway promises about operation ids, without journal or file. |
| `GatewayDaemonContract` | The refinement mapping of `GatewayDaemon` to `ExecutionContract`. |
| `GatewayDaemonProofs` | The theorems about `GatewayDaemon` and `HostExecution`, and their refinements. |
| `ProcessRunner` | One child process per run: timers, signals, forced settlement. |
| `HostExecution` | `GatewayDaemon` and `ProcessRunner` composed: the runs of the daemon end when the runner settles them. |
| `FileMutation` | The mutations of one file, with outside writers. |
| `TelemetryRuntime` | Generations of exporters, from the spans of operations to shutdown. |
| `ControllerListener` | Connections, authentication, pairing, dispatch, answers and close of the listener. |
| `ControllerTrust` | The trust service: tasks, durable writes, failures, crashes. |
| `OperationCorrelation` | The correlation store and the life of an adapter's call. |
| `NodeTransport` | The gateway's side of the connection: handshake, confirmation, pin, replies, reconnects. |
| `Subsequences`, `SubsequenceProofs` | What `filter()` and `splice()` leave of a list, without recursion, and the lemmas about it. |
| `Totals` | The sum of a function, without recursion. |
| `FileMutationProofs`, `TelemetryRuntimeProofs`, `ControllerListenerProofs`, `ControllerTrustProofs`, `OperationCorrelationProofs`, `NodeTransportProofs` | The theorems about each of these. |
| `MC*` | The symmetry sets TLC uses; `MCOperationCorrelation` compares `Picked` with `SelectSeq`. |

### GatewayDaemon

`controllers` is the Map of runs in flight, `running` the requests suspended at
`await this.telemetry.execute` (line 139), `journal` and `disk` the entries in
memory and in `operations.json`. `handle()` has no suspension point before that
await and none after it, so a path to the await is one action, and the
continuation is another:

- before it: `RefuseStopping`, `RefuseMisbound`, `InspectFails`,
  `RefuseRedelivery`, `RefuseConflict`, `Replay`, `RefuseActive`, `Accept`, in the
  order of the code's early returns, each with the journal lookup that prunes and
  may save;
- after it: `Finish` (put, save, answer), `FinishUnsaved` (the save throws, the
  entry stays in memory), `RunFails` (the run threw, nothing is journalled);
- `Cancel`, `Shutdown` (refused while a run is in flight), `Terminate` (the
  signal handler of `cli.mjs`, which aborts every run and then exits), `Crash`,
  `CrashBeforeReply` (between the rename of the file and the reply), `Restart`
  (the file is loaded and pruned) and `Tick`.

A save either happens or throws and changes nothing, as writing a temporary file
and renaming it gives. The file exists (the daemon is started with a state
directory). The clock does not go back.

Histories: `completed` and `durable` remember which outcomes were ever produced
and ever in the file; no action reads them.

### ProcessRunner and HostExecution

`process[r]` holds the locals of `runProcess()` for the run of request `r`
(`limits` are the timers of `timeoutMs` and `deadlineMs`, `killTimer` and
`fallback` those of `stop()`) and the child at the other end. `Stop` is `stop()`;
`LimitFires`, `KillFires`, `ForceSettles` are its timers, `Overflow` the SIGTERM
of the output limit, which goes past `stop()`, `CloseSettles`, `CloseLate` and
`Rejects` the listeners of the child. `Exit` is up to the process, which may never
take it, and need not be followed by a close event: a descendant may hold its
pipes. A stop that happens twice arms two pairs of timers in the code; the first
pair is the one that acts, so one is kept. A child that was never born takes no
signal; its signal fields then say that one was tried.

`HostExecution` starts a process with `Accept`, lets `Finish`, `FinishUnsaved`
and `RunFails` happen exactly with the settlement they await, calls `Stop` for
every AbortController that `Cancel` or `Terminate` aborts, and turns the
processes of a gateway that dies into orphans, which detached children are.
Its runs are process runs; a filesystem run ends like one that cannot hang.

### FileMutation

The steps of `mutate()` between two awaits that matter: `Join` (the chain of the
canonical path), `Read` (turn, signal, snapshot, expectation), `Stage`, `Recheck`
(second snapshot, signal), `Rename`, and `Leave` (the finally block); `Throw` is
an error of any of them, of the I/O or of the checks. A content is the set of the
mutations and outsiders whose text is in it, `{None}` when there is no file.
Outsiders edit, create or remove the file at any point; `raced` remembers that one
did between `Recheck` and `Rename`, the window that the comment at lines 56-57
admits. `Unlink`, in the finally block, may fail: the code swallows that (line 65),
and the temporary file stays beside the path, which `littered` remembers.

### TelemetryRuntime

`generations` is the sequence of all generations ever made, each with its
exporters (`items`), `owners`, and the flags of the code; `collected` ones are out
of the code's Set. An exporter counts its queue, the batch in `flight`, whether a
forced shutdown `cancelled` it, its timer and its dropped spans. `FlushItem` is
`flushItem()`, whose loop goes on in `ExportSettles`; `Complete` is the finally
block of `execute()`; `privatePending` is the budget that private exporters of one
transport share. `ShutdownDrained` and `ShutdownForced` are the two ends of
`shutdown()`. Spans are counted, not named; a configuration is its set of
transports, one with no URL is not in it. Of the failure counters only `dropped` is
kept, and the process names no endpoint.

A collector that takes a batch may report how many of its spans it refused
(`partialSuccess`). The code believes any number up to `MAX_SAFE_INTEGER`, also one
larger than the batch (lines 127-136 and 316, and the test at
`gateway/otel-transport.test.mjs:418-433`), so `ExportSettles` takes any number of
`Reports`. Hence the dropped count is not one of spans, and the balance needs three
histories: `offered`, `answered` (spans of batches that a collector took) and
`reported` (what it said it refused). `MaxCount` is `MAX_SAFE_INTEGER`: `BatchEnds`,
`Become` (`accumulateItem()`) and `ShownDropped` (`status()`) cap the count at it.
The additions in `enqueue()` and in a forced shutdown have no cap in the code; what
they exceed it by is cut when the count is read. (Beyond 2^53 an uncapped addition
may round; the models add exactly, and the count shown is the cap either way.)

### ControllerListener

A connection is a socket with `state` as in the code; `destroyed` is the set of
sockets that were destroyed and whose close event has not run: `socket.destroy()`
returns before `onClose`, and every handler between them is an interleaving of
the model. `pending` keeps a pairing request with the connection that made it,
`prepared` the approval the trust service read before its durable writes,
`request` what became of each dispatch, `running` what the hosts execute, and
`active` the `operations` of each connection. `AuthResponse` has the outcomes
`RegisterPending`, `Authenticate`, `RefuseIdentity`; `HostAccepts`,
`HostResponds`, `HostErrors` are the replies of a gateway; `OnClose` interrupts
what waits on its connection. Signatures are abstracted to which host answered
the challenge; frames and event payloads are left out; `FailConnection` is every
`fail()` that needs no answer to the challenge. The activity list is a sequence in
update order, cut at `ActivityLimit`.

Until a connection is ready every message of it goes to `onAuthMessage` (line 143):
one whose pairing is pending may authenticate again, under the same id (a new
generation of the pairing) or another one. `connections` then leads to it from both
ids, while its `gatewayId` is the later one, which is all that its close event gives
up. An id left behind keeps its connection until someone takes the id or it is
revoked, also after that connection closed. Requests sent to such an id go to the
connection and are listed under the id it speaks for (`Dispatch`); `listGateways()`
shows the id as connected.

### ControllerTrust

Each administrator call or listener event is a task in `queue`. A task is a
`Program` of durable writes in the order of the code; `flight` says whether the
write at `step` is not begun, sent, or has returned. Listener events, route
handlers, throws and crashes come between any two of these. `Recover` runs the
catch block of `approvePairing` as a program of its own, whose first write may
fail and be ignored (`RecoverUnblocked`) and whose later writes give up
(`RecoverPartly`). `store` has the keys, secrets, gateways, pairings and intents;
`Admits` is `gatewayRecords()`, what a start would trust. `decided` is a history:
what the last mutation of a gateway that took effect decided (the write that
releases the intent, or the last one of a rollback). `exposed` marks gateways
whose rollback had a write that threw. Of the listener only what tasks read and
write is kept: the record, the pending request and whether its connection lives.
The bound of 256 durable pairing requests is not part of it, and a connection
closed by the listener is gone at once (its later close event changes nothing
the tasks read).

### OperationCorrelation

A call is `beginning`, `dispatched`, `answered` and `done` or `failed`. A
transaction of the store has one write, at its end, so it is one step with the
continuation of the call that awaits it. `records` is the stored array in update
order, which is the order of `updatedAt`, the later array position first at equal
times, as the `reverse().sort()` of line 235 gives. Both adapter functions have
this life; `digest` stands for the request digest with target and kind.

### NodeTransport

Sockets are numbered as they are made; `wire` says which is open, destroyed (its
close event is to come) or closed, and `socket` is the current one. `peer` is who
answers at the other end: a controller key and a certificate, any combination,
so that a renewed certificate and another controller both occur. A pairing code
is a digest over the connection's nonce, keys and certificate, and is named by
its socket. `codeFile` and `confirmation` are the files through which the
operator's `confirm-pairing` and the 250 ms poll of `cli.mjs` meet; the
confirmation outlives connections and processes. `PollConfirms` replays a
deferred `auth.ok`. A save of the pin that throws ends the process when it
happens in a data handler (`Crash`) and is swallowed by the poll
(`PollUnsaved`). `start()` is called once per process, and `unpair` stops the
service first. `request` follows an operation from the connection it came on to
the write of its reply.

## 3. Runs

| Run | Question | Bounds |
|---|---|---|
| `gateway_daemon` | safety of the daemon, the refinement of the contract, and the Map against the set of entries (`completed`, with more entries than the limit, is pruned both ways too) | 3 requests, 2 ids, 2 digests, journal of 1, ttl 1, clock to 2, 1 restart: a retry concurrent with, after and past the window of a run, eviction of one id by the other, a failed save before a restart |
| `host_execution` | how runs end: is every id freed, what may live beside what | 2 requests for one id, every way to start, stop, overflow, settle and orphan a process, 1 restart (after which the second request may start beside the first one's process); fairness below |
| `file_mutation` | one path | 2 edits and a write, in any order of arrival, 1 outsider: three mutations are what it takes for one to join while another leaves and a third waits |
| `telemetry_runtime` | spans, budgets, generations, shutdown | 3 operations, 2 transports, configurations of none or both, queue and batch of 1, 3 generations: a second span fills a queue or exceeds a budget while a batch of an earlier generation hangs, and a third comes behind it; counts up to 4 and reports of 3, so that one report exceeds its batch and two reach the cap; fairness below |
| `controller_listener` | who speaks for an id, what the list says | 2 gateway ids, 2 hosts, 2 connections, 2 requests for one operation: an old connection, half open or gone on to the other id, and its successor of either host; two requests for one operation make late answers meet a live run |
| `controller_listener_many` | bounded collections, ids left behind, are requests settled | 2 gateway ids, 2 connections of one host, both bounds 1, so that each insertion evicts or is refused; 1 request; no symmetry, fairness below |
| `controller_listener_revocation` | *violated*: finding 1 | one of each |
| `controller_trust` | what a restart admits, stale approvals, rollback of collections that hold other gateways | 2 ids, 2 administrator calls (an approval and what overtakes or follows it), 2 pairing requests by 2 hosts, 2 failing writes (one may be in the rollback of the other), 1 restart |
| `controller_trust_rollback` | *violated*: finding 2 | 1 call, 2 failures |
| `node_transport` | handshake, pin, replies, liveness | 2 connections (the one before and the one after whatever happens), 2 starts, 2 keys, 2 certificates of which TLS verifies one, 1 operation; every pairing state at the start; no symmetry, fairness below |
| `operation_correlation` | records against retries and eviction | 4 calls, 2 operations, 2 digests, limit 1, 1 restart: a retry and its original, and another operation that evicts, with one call to spare |
| `operation_correlation_eviction` | *violated*: finding 3 | 3 calls |

`CHECK_DEADLOCK FALSE` is set because each system may stop: the gateway after a
shutdown, the controller after `close()`, and each instance once its bounded
inputs are used up.

### Properties, by what could go wrong

Each module has one type invariant. `TypeOK` of `GatewayDaemon` is checked on its own;
in the other modules it is the first conjunct of the invariant that bounds or
describes the same state (`EndedInVain` in `HostExecution`, `OneOwner`,
`CollectedWhenDone`, `CollectionsBounded`, `LiveTrustIsDurable`,
`ServesItsController`, `RecordsBounded`).

- A retry runs twice or is answered wrongly: `OneRunPerOperation`,
  `RunningNotRetained`, `ReplayFaithful`, `NoRerunInWindow`, `ImplementsContract`.
- An outcome is promised and then lost: `DoneIsDurable`. The result of a run
  whose save threw is an error envelope, and its outcome is replayed until a
  restart: `NoRerunInWindow` and `ReplayFaithful` name exactly that exception.
- The journal grows or evicts the wrong entry: `SameJournal`, whose first conjunct
  is `JournalBounded`.
- Shutdown leaves a run alive: `StoppingAborts`, `StoppingSignals`. An id is never
  freed, whatever its process does: `OperationReleased`.
- A process is taken for ended while it lives, or lives beside its successor:
  `EndedInVain`.
- A mutation of a file gets lost, jumps the queue, happens after its abort or
  blocks the next, or leaves a temporary file that could be removed:
  `ReplacesWhatWasRead`, `OneOwner`, `AbortKeepsFile`, `MutationsEnd`.
- A span is lost without a count or counted twice: `SpansAccounted`, which also says
  that nothing is held once shutdown finished; a hung
  collector takes the budget with it: `BudgetIsHeld`; an old generation stays, or
  goes with work in it: `CollectedWhenDone`, `WorkEnds`.
- Two connections speak for one id, or one whose trust is gone is served:
  `OneLiveConnection`, `ReadyIsTrusted`, `ApprovalBindsChallenge`; health or pending
  requests outlive their connection, or grow: `CollectionsBounded`.
- A request is forgotten: `WaitsOnlyWhileReady`, `DestroyedSettles`. The activity
  list says something else than what is in flight: `InFlightIsAwaited`,
  `RunningShown`. (That a query is answered after its timeout is a hazard without a
  property: the answer finds no request and changes nothing.)
- A restart trusts what no one decided: `UnblockedIsDecided`; memory trusts what
  a restart would not: `LiveTrustIsDurable`; an approval wins over a later call:
  `StaleApprovalNeverCommits`.
- A gateway serves or pins a controller it should not: `ServesItsController`,
  `PinIsConfirmed`, `ServedIsSaved`; a reply crosses to another connection:
  `RepliesGoHome`; it stays off its controller: `HandshakeEnds`, `Reconnects`.
- A correlation record is lost or ambiguous: `RecordsBounded`,
  `UnresolvedStays`, `OneMeaningInFlight`.

### Fairness

- `HostExecution`: weak fairness of what the event loop owes a run: an armed timer
  fires, a close or error event that happened is delivered, and the run that it
  settles goes on. Nothing is assumed of the process, of arrivals, saves, the clock
  or shutdown. That an id is freed is then a consequence of the runner's timers
  (30 s by default, then 1.1 s), not an assumption about runs.
- `FileMutation`: each file operation ends, with a result or an error.
- `TelemetryRuntime`: timers fire and an export ends, at its own timeout if not
  before; so does the wait of `shutdown()`. Nothing is assumed of collectors or of
  the operations that own a generation.
- `ControllerListener`: weak fairness of `OnClose` of a destroyed socket, which
  Node's event loop runs once the socket is destroyed. Requests on a live
  connection have no timeout for executions, and the model claims none.
- `NodeTransport`: weak fairness of the armed reconnect and authentication timers
  and of the close event of a destroyed socket. Nothing is assumed of the peer,
  the network or the operator. `Reconnects` ends where the bound on connections
  does.

## 4. Proofs

The theorems hold for every value of the constants that the named assumptions
allow: any number of requests, operations, gateways, hosts, connections, calls and
outsiders, any limit, retention time and bound. The assumptions say that limits
are natural numbers and that model values differ from each other; `Gateways` and
`Ops` of the listener are finite, because its lists are bounded only if the ids
of one controller are, and so is each configuration of the telemetry runtime, which
is a list of URLs.

| Module | Inductive invariant | Run properties proved |
|---|---|---|
| `GatewayDaemonProofs` | `IInv` | `TypeOK`, `OneRunPerOperation`, `RunningNotRetained`, `StoppingAborts`, `DoneIsDurable` |
| | `JInv` | `ReplayFaithful`, `NoRerunInWindow` |
| | `IInv`, `Orders` | `SameJournal` |
| | `AcceptedRuns` | `ImplementsContract` |
| | `HostInv` | `EndedInVain`, `StoppingSignals`; also `HostSpec => Spec` |
| `FileMutationProofs` | `IInv` | `OneOwner`, `AbortKeepsFile`, `ReplacesWhatWasRead` |
| `NodeTransportProofs` | `IInv` | `ServesItsController`, `ServedIsSaved`, `RepliesGoHome`, `PinIsConfirmed` |
| `OperationCorrelationProofs` | `IInv` | `RecordsBounded`, `OneMeaningInFlight`, `UnresolvedStays` |
| `ControllerListenerProofs` | `IInv` (`IdInv`, `WorkInv`) | `OneLiveConnection`, `ReadyIsTrusted`, `WaitsOnlyWhileReady`, `InFlightIsAwaited`, `RunningShown`, `CollectionsBounded`, `ApprovalBindsChallenge` |
| `ControllerTrustProofs` | `IInv` | `UnblockedIsDecided`, `LiveTrustIsDurable`, `StaleApprovalNeverCommits` |
| `TelemetryRuntimeProofs` | `IInv` | `CollectedWhenDone` |
| | `Accounted` (`SpansInv`, `BudgetInv`) | `SpansAccounted`, `BudgetIsHeld` |

**Daemon.** `IInv` is the type invariant, three safety invariants and two
strengthenings. `HistoryOK` says that what is in memory or in the file is in the
histories, so that an entry put now carries a stamp and a time of its own.
`MemoryOK` ties memory to the process: a run in flight has an envelope and the
reply "accepted", and a process that is down has no runs. Without it
`OneRunPerOperation` is not inductive: a process that is down could still own runs
when it is started again with an empty Map. `RunningNotRetained` needs that time
only removes live entries, that `Accept` looked in the journal in the same step,
and that the only `put()` of an operation is by its own run, which leaves
`running` in that step.

`JInv` is about the journal against the histories. It says twice what a journal owes
to the outcomes it knows (`Faithful`): the file to those that were ever in it, the
journal in memory to those and its own process's. Each of them that is inside its
window, unexpired and with fewer than `JournalLimit` newer ones among all there are, is
in the journal, and what the journal would replay is not older than any it knows.
Eviction keeps this because the journal holds one entry per id and its entries are
a subset of all outcomes: one with fewer than the limit newer ones anywhere has
fewer in the journal. `ReplayFaithful` and `NoRerunInWindow` are then statements about
the one lookup of `Replay` and of `Accept`; the outcomes a restart may lose are those
that neither this process produced nor the file ever held.

`SameJournal` compares two ways to keep the journal: a set of stamped entries with
an eviction that counts newer ones, as the model has it, and the ordered Map with the
loops of `prune()`, as the code has it. Entries with different stamps are in exactly
one sequence in the order of their stamps (`Orders`, `OnlyMap`: what is before an
entry are as many as are older), and `MapOf` is one (`MapOrders`). The loops
keep the order: the first one picks positions, the second drops the shortest beginning
that leaves the limit, which are the entries with that many newer ones. So each side
of the comparison orders the same set. `put()` appends, for its stamp is newer
than all and the id it would replace is not there: `RunningNotRetained` says that
no run's operation is retained, and `prune()` runs before `set()`.

**Contract.** The refinement maps the journal to the outcomes `kept`. A prune of a
journal that is within its limit removes only what has expired (`PruneIsLive`), and
what has expired is already forgotten by the mapping (`KeptIn`), so `inspect()`,
a restart and every refusal are stutters or refusals of the contract; `Tick` and
the put of `Finish` are its forgetting. A crash needs `AcceptedRuns`: a request
that was accepted and not told more is a run.

**Processes.** Every step of `HostExecution` is one of `GatewayDaemon` or leaves it
alone, so `HostSpec => Spec`, and all that is proved of the daemon holds of the
gateway with its processes, the contract too. `Sound` says of one process what
`stop()` and its timers guarantee; `HostInv` ties it to the gateway: a run is in
flight exactly as long as its promise is pending.

**File mutations.** That mutations take turns rests on the order in which they
joined: each waits for the one before it, and the order is one the invariant says
exists (the code stores only the last link of the chain). What was read is still
what the file holds when the rename is called, unless an outsider was faster
(`ReadOK`): no other mutation has the turn. `TurnIsTaken` is the safety half of
`MutationsEnd`: while a mutation waits, one has its turn, because each but the
newest is awaited by another (`Followed`), to which it hands the turn when it leaves.
A temporary file belongs to the mutation that has the turn, or is one whose removal
failed (`littered`).

**Transport.** A pin is checked when TLS is set up, the key when the challenge
comes, and neither when an operation arrives: `ChecksHold` carries what these checks
found along the life of the connection. `ConfirmationsHold` says that what is in the
confirmation file is a code the operator confirmed, of whatever connection, and that
what the poll took from it is the code of the current one.

**Correlation.** `Picked` (`Subsequences`) has its own lemmas: what it keeps of a
list is what is at the positions, once and in order (`PickedFacts`, from a counting
argument about ranks). Calls wait for the transactions they queued
(`WaitsAsQueued`); an operation with a terminal record was completed
(`TerminalIsCompleted`), so one that was not has a record that nothing evicts.

**Listener.** The invariant has two halves. `IdInv` is about connections: states,
maps, records, pairing requests, what an approval prepared. `WorkInv` is about
requests: who waits where, what each connection counts as active and what the
activity list says of it. The id that a connection speaks for points back at it until
the socket is destroyed (`HoldsItsId`); the converse fails for an id left behind, and
the invariant only says that such an id never leads to a connection that closed
under it. A challenge that can be approved is of the host that proved itself last on
its connection, under the id the connection still speaks for
(`ChallengesAreProved`): a pairing left behind is not approvable, because
`preparePendingApproval()` compares the id (line 326).

**Trust.** `Progress` follows the one task at work write by write: how much of its
program has landed says what the durable state holds of its gateway. In between its
intent is set, and the write that releases it is the one that decides. What an
approval read before its first write is still what a rollback has to restore
(`SavedIsCurrent`), and an enrolment that was let through before the queue finds no
key but a decided one (`EnrolmentsMeetDecidedKeys`). A rollback goes back through the
same states; one with a failing write of its own leaves them, which is `exposed`. A
call that overtook another has made its token old (`TokensAge`), which is why an
approval whose token is current was not overtaken. `None` is assumed to
differ from every pairing, as the model value it is.

**Telemetry.** A generation is collected in the step in which it becomes idle and
retired; the invariant adds that an exporter that gave up has nothing queued, and
that after shutdown began whatever is queued waits behind a batch (`Flushing`), so
that giving up makes no generation idle that was not. `SpansAccounted` and
`BudgetIsHeld` are sums. `Total` (`Totals`) is the number of units that the values of
a function are made of, which needs no recursion; its laws come from bijections
between sets of units. A step then has to be balanced exporter by exporter only
(`Ledger`): what it puts into each, what it takes out and what collection moves to
`completed`; where a count was cut, no more is claimed of it than that it is at the
cap. The invariant adds that an exporter is given up only by a shutdown that
has resolved, so that no batch is cancelled twice. It follows that a private queue
is never full while its budget has room: no share is taken for a span that
overflows.

Model-checked only:

- that `Picked` is what `SelectSeq` computes (an `ASSUME` of
  `MCOperationCorrelation`, over short lists): the library defines it by recursion,
  which the provers cannot follow;
- all liveness, which the prover does not do: `OperationReleased`, `MutationsEnd`, `WorkEnds`,
  `DestroyedSettles`, `HandshakeEnds`, `Reconnects`.

## 5. Findings

1. **A revoked gateway comes back to the activity list**
   (`controller_listener_revocation`). `revokeGateway()` filters the list and
   destroys the socket; the close event then records each request still waiting
   as interrupted (`controller-listener.mjs` 257-268), which inserts an entry of
   the revoked gateway. `docs/operations.md:44`, `docs/api.md:83` and
   `server/operation-archive.mjs:142` say revocation clears them. The entry is
   true, only later than documented.
2. **A failed rollback can leave a gateway that the next start admits**
   (`controller_trust_rollback`). `approvePairing()` removes the intent (line
   535) before it commits in the listener (536). If the gateway hung up in
   between, the intent is set again (538), but a throw there is ignored; if the
   rollback throws as well, key and gateway record stay without an intent. The
   comment at 539-540 and `docs/pairing.md:47` say such a gateway is blocked.
3. **A repeated operation may lose its record while in flight**
   (`operation_correlation_eviction`). `begin()` of an operation recorded as
   terminal returns that record as it is (line 253), which the terminal limit may
   evict before the answer; `terminal()` then throws
   `operation_correlation_missing` for an answered call.
   `docs/development.md:92` says unresolved dispatches are never evicted.

Two more observations have no document against them. When saving the pin of a first
pairing throws under the confirmation poll, the gateway keeps the pin in memory,
is accepted at its next connection and works until it is started again, then
unpaired (`unsaved` in `ServedIsSaved`). And the activity list may keep an operation
as running that no one waits for any more (`strayed` in `InFlightIsAwaited`): a close
event leaves an entry alone when the operation runs on the connection that its id
leads to (lines 453-454), and that connection may speak for another id by then. It
takes three ids and two ids left behind, so `controller_listener` does not reach it;
an instance with three ids does, and the theorem covers it.

The exceptions of findings 2 and 3 are named in the properties that hold: `exposed` in
`UnblockedIsDecided`, `completed` in `OneMeaningInFlight`.

## 6. Plan

Modules to come, in this order:

1. `Session` - transport, listener and daemon composed over a lossy connection:
   a retry after a disconnect is answered by the journal or refused, never run
   twice. (A cancellation lost with its connection is harmless to the id:
   `OperationReleased` holds without one.)
2. `ArchivePaging` - pages of the activity list while it changes.
3. `OutputFrame` - fitting an outcome into a frame, over bounded sizes.
4. `GatewayClient`, `InstallTransaction`.

Not modelled, and why: what a component's row in `PROJECT.json` names. The main
ones are cryptography and canonical JSON (values to the models), redaction and the
text of outputs, parsing of configurations and frames, the file tools that only
read, settings and certificates (one read-modify-write each), and the user
interface.

Proofs to come: that the listener admits a dispatch only where the daemon's contract
can answer it, once `Session` is there.
