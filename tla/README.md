# NodeStack in TLA+

Specifications of [NodeStack](../src/README.md), a backend that runs as one Node.js process on
embedded SQLite: what its queue, flows, functions, events, collections, credentials, plugins and
snapshots promise, model-checked with TLC on small instances. Every safety property the runs check but one
(`CapacityIsOffered`) is also proved with TLAPS, for every value of the constants the named assumptions allow.

Paths below are relative to `src/`. "L413" is a line of the file named before it.

| run it | with |
|---|---|
| parse a module | `tlasany M.tla` |
| check a run | `tlc -workers 2 -config X.cfg M` (the table of runs names X and M) |
| check the proofs | `tlapm M.tla` for each module in the table of section 6 |

## 1. The system

NodeStack is single-threaded JavaScript. SQLite is called through a synchronous API, so everything
between two `await`s happens at once; what makes the program hard is what may happen at an `await`
(another request, a timer, a worker callback, an abort) and what a crash leaves in the database.
Several applications live in one process, each with its own database, queues, flows and gate.

| component | code | state | operations | hard because |
|---|---|---|---|---|
| Message queue storage | `src/queue/drivers/SqliteQueueDriver.ts` | tables `_queues`, `_queue_messages` | upsert, send, claim, touch, complete, fail, defer, dead-letter, retry, reclaim, cleanup, purge | leases, stale claim tokens, dead-letter copies, retries of retries |
| Queue service | `src/queue/QueueService.ts` | `pendingWake`, `drainingQueues`, the delayed timer, sweepers | send, wake, drain, execute, restart | lost wake-ups, two reads of the clock, crash and second start |
| Maintenance gate | `src/core/maintenance/MaintenanceGate.ts`, hooks in `src/http/HttpServer.ts` | `isGated`, `activeRequests`, `waitingQueue`, `drainResolvers` | enter, leave, executeExclusive, reset | timeouts racing the flush, disconnects, concurrent operations |
| Flow execution | `src/flows/FlowService.ts`, `src/flows/FlowEngine.ts` | `_flow_executions`, the queue of a flow, claims, waiters, abort controllers, suppressed writes | execute, worker, checkpoint, abort, resume, recover, clear, update, delete | abort, resume and recovery meeting a run; crashes between two writes; changing limits |
| Flow algorithms | `src/flows/FlowValidator.ts`, `runtime/ChoiceEvaluator.ts`, `utils/FlowPathMapper.ts`, `utils/ConcurrencyPool.ts` | none | validate a graph, choose a branch, map payloads, run a pool | an early rejection of the pool |
| Functions | `src/functions/FunctionService.ts` | rows, count of active executions, the chain of calls | invoke, hook, consume a message | capacity given back on every exit; a chain that timers inherit |
| Webhooks | `src/webhooks/WebhookService.ts` | subscriptions, delivery log | dispatch, retry, clear | two fields that say the same; log after the request |
| Records, collections | `src/records/`, `src/schema/`, `src/templates/` | `_collections`, their tables, full-text indexes with triggers | create, alter, rename, drop, import; CRUD, mock data, templates | a collection found before an await and written after it |
| Event bus, realtime | `src/core/events/EventBus.ts`, `src/realtime/`, `packages/client/` | handler lists, streams, topics | on, off, emit; connect, subscribe, reconnect | lists changed while an event is delivered; requests overtaken and lost |
| Applications | `src/apps/AppManager.ts` | registry, started scopes | create, get, delete, close all | deletion and shutdown during requests |
| Database | `src/database/` | connection, savepoint depth, lock | transaction, lock, reconnect | a connection replaced under its users; what a transaction's function does after it returned |
| Snapshots | `src/snapshots/SnapshotService.ts` | manifest, files | create, restore, delete, evict | partial failure between closing and swapping; handlers between a file and its row |
| Credentials | `src/auth/` | caches, usage counters, OAuth states | authenticate, revoke, rotate, flush, link | stale caches, two first logins |
| Plugins | `src/core/plugins/PluginManager.ts` | attached instances, settings | enable, disable, restart | an asynchronous initialisation in each of several applications |
| Rules and filters | `src/rules/`, `src/records/QueryFilterParser.ts` | none | parse, evaluate, translate to SQL | the two evaluations must agree |
| Everything else | sandbox, SSRF guard, generators, logs, admin UI, docs | mostly none | | out of scope, see section 7 |

How they interact: `HttpServer` passes each request through the gate to the services; services emit
on the event bus; functions, webhooks and flows are started by records' events or by queue messages;
`FlowService` owns a system queue `_system:flow:<id>` for each flow that has a limit and is its
worker; `QueueService` is the only caller of the driver and shares the database with everything
else; a snapshot restore locks the database under the gate and resets the queue service.

## 2. Modules

| module | models | part of |
|---|---|---|
| `QueueDriver` | every operation of `SqliteQueueDriver` that writes | QueueForwarding, QueueLeases |
| `QueueService` | the worker loop over a reduced driver | QueueService... |
| `MaintenanceGate` | the gate and the hooks of `HttpServer` that call it | Gate |
| `DrainLock` | the lock the gate is for its callers (abstract; nothing of the code but the gate's contract) | Gate |
| `FlowService` | the executions of one flow, from outside the engine | Flow... |
| `FlowEngine` | one execution inside the engine: pool, sub-flows, retries, deadlines | Services |
| `FunctionService` | calls of functions by clients, hooks, messages and each other | Services |
| `WebhookService`, `EventBus` | subscriptions and deliveries; hooks of one event | Services |
| `RealtimeClient` | the realtime client of the SDK with the server's registry | Services |
| `SnapshotService` | snapshots and restores, over `MaintenanceGate`, against handlers that write | Administration |
| `ApiKeyService`, `AuthSessions`, `OAuthLogin` | keys, administrators' sessions, logins through a provider | Administration |
| `AppManager`, `PluginManager` | scopes of applications; a plugin in several applications | Administration |
| `Collections` | schemas, tables, full-text indexes, records, mock data, templates | Administration |
| `...Proofs` | the theorems of section 6 | |
| `MC...` | values of constants for TLC, symmetry sets; `MCServices` and `MCAdministration` put components that share no state side by side: a behaviour is one of any of them | |

`SnapshotService` EXTENDS `MaintenanceGate`: its requests and exclusive operations are those of the gate, so
a snapshot meets every interleaving the gate lets through.

An operator whose name has a suffix, such as `Finish_KeepsClaim`, is a mutant of the operator before
the underscore: a bug the code could plausibly have, which the properties must find. Nothing else
refers to mutants.

### QueueDriver

Variables `queues` and `messages` are the two tables. Each driver method runs its body in one
transaction, so it is one action. `reclaimOrphaned` and `retryDeadLetterMessages` loop over a list
they read first while their own updates change the rows: the variable `tx` holds the rows the open
transaction still has to visit, `BeginReclaim` / `BeginRetryDeadLetters` / `BeginRetryCopies` fill
it, the `...Step` actions visit one row each, and no other action is enabled meanwhile.

Abstractions: an id is a number in the order of insertion (the order the SQL sorts by); the n-th
claim of a message has the token n (`randomUUID` never repeats); a payload is the stack of
dead-letter envelopes around the data (so an envelope of an envelope is kept); priority is left out
and a queue that is not strict may hand out its messages in any order; where the SQL takes a `LIMIT`
by a time column the model takes any subset of that size; upserts may set every field of a queue to any
configuration; `sendBatch` is consecutive sends. The history variables (`job`, `revived`,
`strictClaim`, `dropped`) are read by properties only.

### QueueService

The rows keep only what the loop depends on. Time is relative: a delay, a lease and the timer count
down, so the model runs for ever and needs no bound on the clock. `pendingWake`, `immediates`,
`drain`, `timer`, `rescan` and `running` are the memory of the process; an action is what runs
between two awaits. A crash drops all of it; `Start` is `start()`, which may also be called on a
service that is up (`NodeStack.ts` does so after `AppManager` has). Outside workers and operators
act over HTTP and may never come back. `ClockMovesInside` says whether time may advance between two
reads of the clock inside one callback, so that a message falls due in between and is seen by neither.

`away` says that the database is locked or closed (`isDbAvailable`): callbacks, the timer and drains then
drop out, a mark and all, and a handler that returns records nothing (`HandlerUnheard`). `Restored` is
`resetAfterRestore` at the end of a restore, with any table a snapshot may hold; `RestoreFails` leaves the
database away or back and resets nothing. Two histories name when a queue may sleep: `unreset` after a failed
restore, `unwoken` for a queue that lost the claim of an outside worker to `fail` or `cancel`, or a message
to the clock, and was not woken since.

### MaintenanceGate

One action per event of the event loop, with the microtasks it resolves. `request[r]` and
`operation[o]` are the program counters of the callers. Exempt requests return at once and leave no
trace. The history variables `gaveUp` (the drain ended by its timeout) and `closed` (the application
was closed, `reset()`) say when exclusion is not promised.

`DrainLock` is what its callers may rely on: a lock that requests share (`inside`) and one `holder` gets
for itself once it is not `draining` any more. It knows no queue, timer or flag: an operation acquires
it or not, and a release lets any set of requests in. `ImplementsLock` maps the operations that are in
progress to `holder`, `activeRequests` to `inside`, and the reset to `Close`, after which the lock
promises nothing.

### FlowService

`flow`, `queue`, `jobs` and `row` are in the database and survive a crash; `runners` (calls of
`FlowEngine.execute` waiting for a handler), `claims`, `waiters`, `suppressed` and `recovery` are
memory. `robbed` is a history: engines of the worker that run on after their message was deleted under them.
A flow definition is a graph: the transitions each step may take on success, and those of its
catch policies. The log of an execution is kept as the sequence of steps with their outcome and the
transition taken, because resuming reads it.

- `ExecuteQueued`, `ExecuteDirectly`: `executeFlow` with and without a limit.
- `WorkerStarts`, `WorkerLoses`, `WorkerCompletes`, `WorkerRefuses`, `WorkerSkips`: the ways out of
  `processQueuedFlowJob` up to the call of the engine.
- `StepSucceeds`, `StepCaught`, `FlowSucceeds`, `StepFails`, `DeadlinePasses`, `PersistFails`: what
  becomes of a step, with `persistCheckpoint` (`Persists`, `Refused`), and, when it is the last, the
  final save, the release of the claim, the waiter and the queue (`Finish`, `Saved`, `Drained`).
- `Abort`, `WaiterTimesOut`, `ClearExecutions`, `DeleteFlow`, `UpdateFlow`, `Unsuppress`.
- `Resume`, and `Recover` / `Restart` with `RecoverOne` and `RecoverQueued`: recovery with strategy
  resume goes through the orphans one by one and waits for those it runs itself.
- `CrashIn...`, `CrashAfterSave`: a crash between two writes of one call; `Crash`: at an await.

Abstractions: one flow (that a recovery also works on other flows' orphans shows as its pauses);
the promises of calls on the queue resolve without letting another event in, so such a call is
atomic but for crashes; loops over many rows (abort all, clear, requeue) are not cut by a crash; a
claim token is any value nobody holds (`TokensAssumption`: UUIDs do not run out), a new message number one
nothing will refer to; one recovery at a time; a live worker keeps its lease by its heartbeat; retries inside a step are part
of the step. Sub-flows, pools, retries and abandoned handlers are those of `FlowEngine`. Left out: events that start flows, and
`migrateQueuedExecutionsToUnconstrained` (L304-411), which is reached only if a queued row has no
queue: `QueuedHasMessage` shows that this does not happen.

### FlowEngine

The inside of one `execute` of the engine, which `FlowService` sees as steps that end. The definition is
fixed: a Map state whose iterator is one Task, caught by and followed by a Loop state that goes back to the
Map or ends, so that a Map runs several times, after a success and after a failure. A Parallel state is a
Map with as many workers as branches. `flow` is the loop of the execution; `pool` has every pool
that was ever started, because `Promise.all` and `Promise.race` abandon what they no longer wait for and the
abandoned goes on; `tracker` is the step counter shared with the sub-flows, which a resume starts from the
execution's own steps (`EngineInit` has a call that starts and one that resumes); `late` says that the deadline
has passed, `signal` that the controller was aborted.

- `MapBegins`, `MapHandler`, `LoopStep`: a step is counted and its handler called. `StepStops`: the checks
  at the top of the loop, in their order (abort, deadline, step limit).
- `MapSettles`: `Promise.all` has its answer. It is handled before anything else (`Settling`).
- `TaskSucceeds`, `TaskFails`, `TaskRetries`: the handler of an item, in a pool that is awaited or
  abandoned; `TaskTimesOut`, `MapTimesOut`: the timer of a step wins its race.
- `DeadlinePasses`, `Abort`.

`begun` counts for a property. Payloads, checkpoints and the kinds of tasks are left out.

### FunctionService

`functions` are the rows, `frames` the executions, `writes` the record operations whose hooks are run,
`messages` and `wake`, `timer` the queue and its callbacks. `activeExecutions` is the counter of the code,
`frames` what it should count. The `AsyncLocalStorage` is carried along as the sequence of functions in the
chain: `path` of a frame, a write, a message that was claimed, and of the pending callbacks, which keep
the storage of whoever scheduled them first.

- `ExecuteFunction`, `RunHook`, `ExecuteQueueMessage` are the three ways in, each with its refusals
  (`Full`, `Circular`); `FrameEnds` the ways out, which differ by caller.
- `HostCall`: what a running function does, a record operation or a message. It goes on after a timeout.
- `StartWrite`, `NextPhase`: a record operation with the hooks before and after it.
- `Send`, `Drain`, `TimerFires`: the part of the queue service that depends on capacity.
- `CreateFunction`, `UpdateFunction`, `DeleteFunction`.

Abstractions: one collection and one kind of operation; one queue; the code of a function is its outcome.

### WebhookService and EventBus

`webhooks` are the subscriptions, with the two fields `event` and `action` that a match tests both;
`dispatches` the requests under way; `deliveries` the log. A dispatch is two steps, because the log is written
after the answer: `DispatchEnds`, `DispatchUnlogged`, `WebhookCrash`. Names are taken up to plural and tense,
as a match takes them; payloads, headers and signatures are left out.

`EventBus` is the list of one event and the dispatches that await its hooks. Who subscribed gets an
unsubscriber that splices the list in place (`CallUnsubscriber`), while `off` and `clear` put another list
in its place (`Replaced`): `detached` and `own` say which list a dispatch still goes through.

### RealtimeClient

The client in `packages/client` with the server's registry. The model has every `EventSource` ever made,
since one that errs and is not closed reconnects by itself; `posts` in flight may be answered in any order or
fail; `clients` is the server's list by client id. The server greets a client twice, with `NS_CONNECT` and
`NB_CONNECT`, and the client binds one handler to both: `HandleConnect` and `HandleConnectAgain` each send the
topics. Actions are the API (`Subscribe`, `Unsubscribe`, `Disconnect`, which may be called without a source), the events, with
`OnError`, the timer (`Reconnect`) and the answers (`SetSubscriptions`, `PostFails`). `stale` remembers that the newest list was lost or overtaken.

### SnapshotService

An operation of the gate that is acting creates, restores, deletes or clears snapshots, and a request that is
running saves a file and then inserts its row, or deletes a file and then its row. `Restore` is what happens up
to its first await, with a disjunct for each place it may fail: before the `try` and after the lock, which
leaves the database `away`; half-way through the files; when it is reopened. `RestoreEmitted` the handlers of
`snapshot:restore`, which it awaits. `Create` evicts before it writes the manifest. `excused` remembers why rows
and files may differ: a handler the gate did not wait for, or a restore that failed half-way.

### ApiKeyService, AuthSessions, OAuthLogin

`ApiKeyService` has one key: its row, its cache entry with the time it lives until, the uses counted in memory.
Every method is one action; the clock ticks and a snapshot may be restored between them. The owner and the
addresses a key is bound to are left out. `AuthSessions` has one administrator, whose token key is in the
registry, and a cache in each application; `HandleToken` asks the application and then the default one, as the
middleware does; the password command writes the registry from a process of its own. `OAuthLogin` has
requests that await the provider (`ExchangeCode`) and, for a new user, the hash and the hooks (`Provision`);
accounts are unique by e-mail, links by identity.

### AppManager, PluginManager

`AppManager`: a scope is a number, `appCache` what `get` finds, `heldScope` the scope a request goes on with
although it may be closed meanwhile. `closeAllAsync` visits the scopes one by one and awaits each, also those
opened since. `PluginManager`: one plugin with one hook, whose initialisation and destruction are awaited
(`"enabling"`, `"destroying"`); the settings of each application, the hooks on its bus, its entry in
`scopedPlugins`, and the set `provisioned` that keeps it from being wired twice. Provisioning fails as in the
code (`Outcomes`): a collection is refused after the application was marked, so that `enableOfficialPlugin`
throws and the next one returns early; an error of the application's own `register` or `init` is caught, with
the mark, the entry, and perhaps no hook. `use()` may throw after it added the hook (`left`), and registers again
later. `Restart` is a new process that attaches what the settings say, each application with its own errors.
The histories `failed` and `drifted` (a restore of the settings) say when settings and buses may differ.

### Collections

`catalog` has the rows of `_collections`, `table` and `index` the SQL tables and full-text tables by name,
`stored` the directories of files by collection id and record. A row is absent or has one of two contents, so
that an index left behind by an update is seen.

- A change of the schema is one transaction, so one action: `CreateCollection`, `UpdateCollection` (rename,
  new and removed fields), `ImportJson`, `DeleteCollection`. `Synced` is `FtsService.syncCollection`.
- Operations on records are cut where they await: `Begin...` looks the collection up and remembers its name and
  columns in `op`, `End...` writes the table that has this name by then, if the statement still compiles.
  Uploads and deletions look the collection up twice, as the controllers do (`Addressed`).
- `ApplyTemplate`, `OverwriteTemplate`: a collection of a template, and its seeding after an await.

SQLite's part is external: what compiles (`TriggersCompile`), what `ADD COLUMN` refuses (`Added`), that a rename
compiles the triggers of all tables. Abstractions: ids of collections are no names of others; a row has no
fields; rules, validation and hooks are `OperationFails`.

## 3. Runs

| run | module, cfg | shows |
|---|---|---|
| QueueForwarding | MCQueueDriver, QueueForwarding.cfg | claims, links to dead-letter copies, no job lost, completed stays done: two queues that forward to each other, 3 messages |
| QueueLeases | MCQueueDriver, QueueLeases.cfg | attempts, strict order, deduplication and the cap: one queue that is reconfigured, 2 messages, 2 claims each, 1 tick |
| QueueServiceLocal | MCQueueService, QueueServiceLocal.cfg | timer, every message settles: one slot, delays, backoff, skips, a crash or second start, an outside worker that may vanish |
| QueueServiceForward | MCQueueService, QueueServiceForward.cfg | no lost wake-up, every mark of a pending wake is backed: two uncapped queues with forwarding, exhausted functions, failing outside workers, cancel, a clock that moves in a callback, a crash, a second start or a restore that may fail |
| Gate | MCMaintenanceGate, Gate.cfg | the gate implements its lock; exclusion, no lost wake-up, every waiter settles, the gate reopens: 3 requests, 2 operations |
| FlowExecutions | MCFlowService, FlowExecutions.cfg | the limit, waiters, aborted rows: 2 executions, no limit or 1 or 2, a crash |
| FlowResume | MCFlowService, FlowResume.cfg | checkpoints, claims, messages, log and end of every execution: one id used twice, two definitions, limit set and removed, a crash |
| Services | MCServices, Services.cfg | functions, one execution in the engine, webhooks, one event, the realtime client: side by side |
| Administration | MCAdministration, Administration.cfg | snapshots over the gate, keys, sessions, logins, applications, plugins, collections: side by side |
| QueueRetryRunning, QueueServiceRestart, PluginOverlap | MCQueueDriver, MCQueueService, PluginManager; the cfg of the same name | violated: section 5 |

What the properties say, beyond types:

- Queue: `ClaimDiscipline`: a message is processed exactly while its row has a claim, and the token is the
  last one issued, so a stale worker never matches. `CompletedStaysDone`, `NoJobLost` (some row or envelope
  still has the data unless an operator deleted it), `ForwardLinks` (a link to a copy is right or gone).
  `AttemptsWithinLimit`, `ClaimWithinCap`: what counts as live or as an attempt is the same for claim, fail,
  defer, reclaim and sweep.
- `StrictGroupsOverlapOnlyByRetry`, `DuplicatesOnlyByRetry`: strict order and deduplication hold but
  for a message an operator retries. `openwiki/functions-flows-and-queues.md:158` and `:160` do not
  make that exception.
- Workers: `WakeUpNotLost`, `PendingWakeIsBacked`, `TimerCoversDelays`, `EveryMessageSettles`: while something
  is due, something is bound to look, unless its queue is `unwoken` or the loop `unreset`; with fairness every
  message is done, dead or deleted, or a restore has failed.
- Gate: `ImplementsLock`, `ActionSeesNoRequest` (no tracked request is in flight in an action whose drain
  did not give up), `DrainIsBacked`, `WaiterSettles`, `GateReopens`.
- Flows: `RunnerOwnsRow`: at most one engine call per execution, it holds the claim, and until it is told to
  stop the row is running under its token with exactly its log. `LogIsAPath`: over crashes, resumes and
  changes of the definition the log is a path of the flow. `AbortedIsFinal`: nothing revives an aborted row.
  `QueuedHasMessage`: outside a recovery a queued row has a message the queue will hand out, also after
  the limit is removed. `ClaimsAreHeld`: no claim of a call that is gone holds back an execution.
  `LimitRespected`: the queue starts nothing while the limit is reached, not counting the `robbed`.
  `NobodyWaitsInVain`, `ExecutionsEnd`.
- Engine: `StepsBounded`: an execution, over its resumes, and the sub-flows of this call, abandoned ones too,
  begin at most 500 steps together.
  `AbortStartsNothing`: after an abort no item starts, by a retry, a free worker or a forgotten pool.
- Functions: `ActiveExecutionsExact`: the counter that admits calls is the number of executions and within the
  limit, on every exit of every kind. `CapacityIsOffered`: while messages wait and no wake is pending, the slots
  are taken, or claimed for; a message that was put off has the timer.
- `NamedEventFires`: after any updates a webhook fires on the verb it names and no other.
  `SkippedOnlyBySplice`: a hook that was there throughout is skipped only when one at or before the awaited hook was
  unsubscribed. `ServerKnowsTopics`: with nothing in flight on the current source (`Current`) the server's
  list is the client's, unless the newest POST failed or was overtaken. Of a source that was left behind and reconnects by
  itself it does not hold, which takes three sources to show.
- `RowsHaveFiles`: a record has its file, live and in every snapshot, with the excuses named in the module.
- `CachedKeyIsRow`, `StaleOnlyElsewhere`: what a cache may still say after a revocation, a rotation, a restore. `TwoLoginsOneAccount`: two logins of a
  user that meet end in one account.
- `OneOpenScope`: never two connections to the database of an application. `AttachedOnce`: no bus gets a plugin
  twice, whatever calls overlap and whichever of their steps fail, but for what a failed `use()` left behind.
- `IndexMatchesRows`: the full-text index has the fields of the schema and the rows of the table, through
  renames, new fields, drops, imports and operations in flight.

The modules state more than the runs check. The type invariants, `CallsAreAcyclic`, `PoolMapsEveryItem`, `CalledInOrder`,
`ResetBeforeRequests`, `OneExclusive`, `NobodyWaitsAtOpenGate`, `StateUsedOnce`, `NoneLeftOpen` and
`UsageConserved` (no use is lost or counted twice by a failing flush) are proved
(section 6). Those that do not hold are in section 5.

### Bounds

Each module names its bounds in its `CONSTANTS`. Two queues suffice for forwarding because a copy
refers to one original in one other queue; three messages let an original, its copy and a later
message, or a copy of a copy, exist together. Two messages and two claims let a lease expire, be
reclaimed and be claimed by another worker while the first still calls. The clock of `QueueDriver`
has one tick, enough for "live", "expired at the boundary" and "not yet available". In the gate,
two requests are the flight and the queue, the third comes late. In `FlowService` a second crash only
repeats the first, since recovery leaves no trace of its own; `MaxLog` lets a client resume an
execution that has a failed step and stops it from doing so for ever; two uses of an id cover
rows, messages and suppressed writes left by the first. A queue longer than the cap appears with two
messages and a cap of one.

`Services` and `Administration` choose a component at the start, so their sizes add and do not multiply:

| component | instance | why it is enough |
|---|---|---|
| functions | 2 functions, 3 frames, 2 slots, depth 2, 1 write, 1 message, 2 attempts | a call, the call it causes, and one too many; a message beside them |
| engine | 3 items in a pool of 2, 2 tries, 1 loop, 5 steps, any resume | an item is taken late; a pool outlives a retry, a timeout and the next pool; steps run out in the pool |
| realtime | 1 topic, 3 sources, 2 ids, 3 POSTs | a source that errs beside its successor and the next, the two POSTs of a handshake and one more that overtake |
| webhooks, events | 1 webhook, 2 verbs, 2 requests; 4 hooks, 2 dispatches | an event changed and changed back; a list changed by one dispatch under another |
| snapshots | 2 requests, 2 operations, 1 record, 1 snapshot kept, 2 taken | a writer and a late one, an eviction, a restore after a creation |
| keys | TTL 2, clock 4, 2 secrets, 2 uses | an entry filled before, at and after each change |
| sessions | 2 applications, TTL 2, clock 4, 3 keys | the fallback to the default application, two replacements |
| logins | 2 logins, 2 states, 1 user, 2 e-mails | both find no link, and accounts of two e-mails |
| applications | 2 slugs, 2 requesters, 4 scopes | a scope deleted and opened again under a holder, twice |
| plugins | 2 applications, 2 calls, 1 hook left | the default one, which keeps the plugin there, and another; two calls at their awaits |
| collections | 2 ids, 2 names, 2 fields, 4 schemas, 1 record, 1 caller | a name taken by another collection; indexed, unique and plain fields; an operation across any number of schema changes |

One caller is enough for collections because operations on records meet only through the table, where each
writes in one step, and the schema changes need no caller.

`QueueServiceForward` has one restart of any kind. Restores need no second message, since they treat each row
alike: with one message and two restores, crashes or starts, so that a failed restore is followed by one that
succeeds, `PendingWakeIsBacked` and `EveryMessageSettles` hold too (201,766 states).

`FlowExecutions` uses an id once. Used again, an id makes `NobodyWaitsInVain` false when the limit is lifted as
well (limits 0 and 1, an id used three times): an id is used while its writes are suppressed, the limit is
lifted, and a direct execution under the same id ends without settling the waiter of the queued one.

`LimitRespected` leaves out the executions in `robbed`. A message is taken from a running execution in two ways:

- The limit is removed and set again (limits 0 and 1, three executions, no crash, 11 states): an aborted worker ends while there is no limit, and
  `checkAndCleanupDrainedFlowQueue` (L1125) takes the one message that is still processed for its own. It deletes the
  queue under another running execution, whose slot is then free again.
- An id is used again (limits 1 and 2, two executions, one crash, 12 states): a recovery still has to visit an
  orphan that was cleared meanwhile and started anew under its id; it requeues the running execution and deletes
  its message.

Beside the run, `LimitRespected` holds on three executions with limits 0 and 1 (576,146 states) and on two with
ids used twice, limits 1 and 2 and a crash (1,253,351 states), where executions are robbed both ways.

### Deadlock

`Services`, `Administration` and `PluginOverlap` say `CHECK_DEADLOCK FALSE`: there an execution of the engine ends, a
process stops for good, and clocks and counters that only grow reach their bounds. No other run does: in them clients
can always act and a crashed process can always start.

## 4. Fairness

- `QueueService`: callbacks that are due run, time passes, the sweeper comes back, a crashed process is
  started again, and a handler returns. Node's event loop gives the first three, a supervisor the fourth,
  the sandbox's time limit the last. Nobody has to restore or to repair a failed restore. Nothing is assumed of senders, operators and outside workers.
- `MaintenanceGate`: timers fire and an exclusive action ends. A request's handler may hang.
- `FlowService`: a step ends (the engine races it with the deadline of the flow), the queue hands out
  what it holds and sweeps expired leases (what `QueueService` shows), a crashed process is started again
  and its recovery goes on. Clients owe nothing; they may abort, resume, update and clear for ever.

The modules of `Services` and `Administration` state no fairness: their properties are safety.

## 5. Where the code and its text disagree

| run | what happens | text |
|---|---|---|
| QueueRetryRunning | retrying a dead-letter copy resets an original that is being processed | `SqliteQueueDriver.ts:812` |
| QueueServiceRestart | a second `start()` hands out jobs whose handlers still run in this process | `QueueService.ts:129` |
| PluginOverlap | a plugin disabled while an enable awaits its initialisation ends up enabled and not there | `openwiki/plugins-templates-and-client-sdk.md:67` |

Stated in a module, but checked by no run:

| property | what happens | text |
|---|---|---|
| `DueMessagesAreTaken` (QueueService) | an outside worker fails for good the message in the only slot (L525 wakes the dead-letter queue alone); the ones behind it sleep until something else wakes the queue | `docs/docs/queues/workers-and-functions.md:16` |
| `LimitEnforced` (FlowService) | the end of an aborted execution under a removed limit deletes the message of a running one (L1131); once a limit is set, more run than it allows | `docs/docs/queues/overview.md:88` |
| `OpenWhenGateIs` (SnapshotService) | a restore that fails before its `try` (L408-412), or to reopen (L449), leaves the database locked or closed behind an open gate | `SnapshotService.ts:447` |
| `FieldsHaveColumns` (Collections) | a unique field that is added is saved in the schema without a column, because SQLite refuses it and the error is caught (`SchemaService.ts:335`); from then on no record can be created | `openwiki/database-and-records.md:115` |
| `EventsReachListeners` (RealtimeClient) | a topic added while the connection opens is never bound to it | `docs/docs/client-sdk/realtime-client.md:10` |
| `AllEventsFires` (WebhookService) | a hook set from one verb to all keeps the action of the verb | `src/admin/ui/js/webhooks.js:681` |
| `RefusedWhileActive` (FunctionService) | a message is refused as circular for a function that has returned: the queue's timers keep the chain | `openwiki/functions-flows-and-queues.md:70` |
| `ItemsWithinConcurrency` (FlowEngine) | a retried Map starts a second pool beside the first | `docs/docs/flows/state-machine.md:227` |
| `FailedCreationKeepsOldest` (SnapshotService) | the oldest is evicted before the manifest is written | `SnapshotService.ts:363` |
| `RevokedEverywhere` (AuthSessions) | the caches of other applications accept an old token for 30 s | `docs/docs/auth-and-security/session-revocation.md:36` |
| `DisabledIsDetached` (PluginManager) | the default application keeps the hook while another has the plugin enabled | `openwiki/plugins-templates-and-client-sdk.md:50` |
| `RecoveryResumes`, `RunningIsRecorded` (FlowService) | a recovery aborts an execution a client resumed meanwhile; an id used again within a minute of a clear has no row | |

Seen while modelling, outside the properties:

- *Queue.* `complete` accepts the current token after the lease has expired
  (`docs/docs/queues/workers-and-functions.md:165`); `touch` revives an expired lease whose slot was given away,
  so more messages may be live than the cap (`docs/docs/queues/overview.md:64`). If the clock moves between two
  reads of it in one callback (`ClockMovesInside`), a message that falls due in between is seen by neither
  (`openwiki/functions-flows-and-queues.md:161`); a cancelled message that an outside worker holds frees a slot
  nobody is told of. `EveryMessageSettles` does not hold then, nor where `DueMessagesAreTaken` does not.
- *Gate.* An exclusive action may run beside a handler whose client disconnected or whose drain timed out
  (`MaintenanceGate.ts:16`); a gated request waits instead of getting 503 at once (`openwiki/http-and-admin-ui.md:51`).
- *Flows.* A crash between the last checkpoint and the final save leaves a failed row with a claim token that no
  recovery clears, so it cannot be resumed. An abandoned handler retries after its step timed out; a sub-flow that
  begins after the deadline still gets a millisecond; the steps of sub-flows are not in the checkpoint; a failed branch
  does not stop its siblings; `maxConcurrency` defaults to 5; the `next` of a catch policy is not validated.
- *Functions.* An execution in memory keeps its definition: after a rename of a function that the flow's Tasks follow, the
  old name is not found, or is another function by now. The references compare exactly, the calls trim.
- *Webhooks.* The automatic retries of `outbound-webhooks.md:18` do not exist; two manual retries of one row have one
  attempt number; a crash loses the trace of a request that was made.
- *Realtime.* `disconnect()`, or an error, while a connection is awaited leaves a promise nobody settles; the topic `*`
  never receives; a list that was overtaken stays until the next change.
- *Keys and logins.* Rotating an expired key gives a secret that is refused, and extending its expiry does not reactivate
  it; a restore does not clear the caches; a stale cached key refuses a fresh token for one TTL; a login whose link fails leaves an
  account without one; two creations of the first administrator may meet.
- *Plugins.* Enabling in another application attaches to the default bus too; a restore of settings provisions nothing.
  `provisionPluginForScope` marks the application (L1270) before a collection may be refused (L1275): the enable fails,
  the mark stays, and the next enable returns at L1267 and saves `_enabled` with no hook; an error of the
  application's `register` is caught (L1259) with the same end. `EnabledIsAttached` excuses these (`failed`), since
  the caller was told or the log was; a `use()` that throws may leave its hook on the default bus, and adds another later.
- *Records.* An update writes the whole record back after its awaits, and announces an update of a row deleted
  meanwhile; two deletions announce it twice; a refusing after-hook fails a write that is committed; an upload whose
  creation fails, and a template that is overwritten, leave files. A collection is looked up again after the await of its
  deletion, by a name that may be another's.
- *Database.* A transaction whose function returns a promise is refused, but what the function does after its first await goes on
  outside of it. `LogService.flush` drops its entries when the transaction fails or the database is locked.

## 6. Proofs

For any values of the constants, bounds included:

| theorem | module | states |
|---|---|---|
| `DriverInvariant` | QueueDriverProofs | the inductive invariant |
| `DriverTypeOK`, `ClaimTokensAreCurrent` | | `TypeOK`, `ClaimDiscipline` |
| `GateInvariant` | MaintenanceGateProofs | the inductive invariant |
| `GateTypeOK`, `ExclusiveOperationsExclude`, `DrainedActionIsAlone` | | `TypeOK`, `OneExclusive`, `ActionSeesNoRequest` |
| `NoLostWakeUpAtGate`, `GateImplementsLock` | | `NobodyWaitsAtOpenGate` and `DrainIsBacked`, `ImplementsLock` |
| `SnapshotsAreConsistent` | | `RowsHaveFiles`, `ResetBeforeRequests` |
| `TableInvariant` | QueueTableProofs | the invariant about several messages, or a message and its past |
| `AttemptsStayWithinLimit`, `LinksLeadToCopies`, `JobsAreNeverLost` | | `AttemptsWithinLimit`, `ForwardLinks`, `NoJobLost` |
| `StrictOrderUnlessRetried`, `UniqueUnlessRetried` | | `StrictGroupsOverlapOnlyByRetry`, `DuplicatesOnlyByRetry` |
| `CompletedIsFinal`, `ClaimsRespectCap` | | `CompletedStaysDone`, `ClaimWithinCap` (of steps) |
| `TimerIsReliable`, `MarksAreTakenUp`, `NoWakeUpIsLost` | QueueServiceProofs | `TypeOK` and `TimerCoversDelays`, `PendingWakeIsBacked`, `WakeUpNotLost` |
| `FlowTypes`, `OneEnginePerExecution`, `ExecutionsFollowTheFlow` | FlowServiceProofs | types, `RunnerOwnsRow`, `LogIsAPath` |
| `QueuedExecutionsCanStart`, `NoStaleClaims`, `AbortsAreFinal` | | `QueuedHasMessage`, `ClaimsAreHeld`, `AbortedIsFinal` |
| `NobodyIsForgotten`, `LimitIsRespected` | | `NobodyWaitsInVain`, `LimitRespected` |
| `FunctionInvariant`, `CapacityIsExact`, `NoCallCycle` | ServicesProofs | the invariant, `ActiveExecutionsExact`, `CallsAreAcyclic` |
| `NamedEventsFire`, `ServerHasTheTopics` | | `NamedEventFires`, `ServerKnowsTopics` |
| `DispatchesAccountForHooks` | | `CalledInOrder`, `SkippedOnlyBySplice` |
| `StepsStayBounded`, `AbortIsObeyed` | | `StepsBounded` and `PoolMapsEveryItem`, `AbortStartsNothing` |
| `KeyInvariant`, `CachedKeyIsCurrent`, `UsageIsConserved` | AdministrationProofs | the invariant, `CachedKeyIsRow`, `UsageConserved` |
| `SessionInvariant`, `StaleTokensEnd` | | the invariant, `StaleOnlyElsewhere` |
| `LoginInvariant`, `StatesAreUsedOnce`, `LoginsShareTheAccount` | | the invariant, `StateUsedOnce`, `TwoLoginsOneAccount` |
| `PluginInvariant`, `NeverAttachedTwice` | | the invariant, `AttachedOnce` |
| `ScopeInvariant`, `ScopesAreSingle`, `AllScopesAreClosed` | | the invariant, `OneOpenScope`, `NoneLeftOpen` |
| `CollectionsInvariant`, `IndexesFollowRows` | CollectionsProofs | the invariant, `IndexMatchesRows` |

Each proof assumes the named assumptions of its module. Two theorems have a hypothesis besides:

- `NobodyIsForgotten`: a flow always has a limit, or ids are used once. Section 3 has the counterexample.
- `LimitIsRespected`: the executions are finitely many, since their number is compared.

*The queue.* `DriverInv` is inductive. `ClaimDiscipline` is not by itself: a retry reads the original's id from
a copy's envelope, and the two looping transactions act on rows chosen before their own updates. So the
invariant says of every row that it is well typed, that its claim is right (`ClaimOK`) and that it has a queue
and, if it is a copy, an envelope (`ShapeOK`); that unused ids have empty rows, so an insertion overwrites
nothing; and of every row a transaction has still to visit that it still is what made the transaction choose it
(`TxOK`): steps on one row leave the others' claim alone. Each operator that makes a row has a lemma, three
lemmas say how the table changes (replace, insert, delete), and each operation is then one lemma.

*The table of messages.* What relates two messages, or a message to its past, would need a proof for every pair
of an operation and a property. Instead each operation is compared once with a summary, `RowChanges`: a row is
deleted, inserted, or changes in one of six ways. Each part of `TableInv` then follows from the summary alone.
`JobsKept` is a second summary for rows that go together, so that no operation takes the last row of a job.
`Lineage` says that the envelopes of a copy name older messages of the same job, which is why a link, or a retry
through envelopes, cannot lead to somebody else's message; links name issued ids only, so no later insertion is
taken for the copy. The cap holds because a claim is the only step that issues a token.

*The worker loop.* `LoopInv` is about rows, drains, callbacks and the timer: the timer is at most the least
delay of a pending row (with lemmas about the minimum of a set), a mark has a callback or a drain before its
check of the marks, a message that is processed by this process is in `running`. `WakeUpNotLost` is not
inductive: a drain that has claimed its batch no longer looks, so `Wakeful` asks for an attendant that still
will. It holds for every queue that is not `unwoken`, whatever happens outside: each action that takes a claim
away or lets a message fall due either wakes the queue or puts it there. A step that finds the database away
can only follow a restore that failed, and `unreset` says so until a start, a restore or a crash.

*The gate.* `GateInv` joins the safety properties: that no request enters while an action runs needs that the
gate is closed then, which needs that there is one operation, which needs that a resolver in the list belongs to
an operation that drains. The refinement uses that invariant: a request that enters finds no holder, because the
gate is open; the last leaver of the gate resolves the one drain there is, because the holder is alone; each
step of the gate is then a step of the lock or a stutter.

*Snapshots.* A step of a snapshot is a step of the gate beside a change of rows and files, so `GateInv` carries
over. By it no handler is between its file and its row while an operation acts, unless the excuse is on record;
hence a creation copies, and a restore replaces, rows and files that agree.

*Flows.* `IInv` has three parts. `ExecutionsOK` says of each execution how its row, runner, claim and recovery
fit: the runner's log is the row's log and continues a path, and whoever lost the row finds its token replaced.
`MessagesOK` says that a message is kept unless the recovery will still look at the execution. `ContextOK` is
about the flow, its queue and the limit. Each step changes the row of one execution, so the others are dealt
with once. `NobodyWaitsInVain` needs besides that the execution somebody waits for is still queued or run by a
worker's engine that nobody aborted, and that an id never used has neither. `LimitRespected` needs three facts
beside `IInv` (`LimitInv`): the queue of a flow with a limit has that limit (`QueueFits`), without a queue nothing is
in process (`NoQueueNoWork`), and an engine the queue started holds a message in process unless it was robbed
(`Holds`). So the messages in process bound the engines, and the queue hands out another only below the
limit.

*Functions.* Every place that stores a chain (frames, writes, claimed messages, pending callbacks) holds one
without repetition and within the depth; a call appends a function the chain does not have. The counter moves
with the set of frames in each step; each way in asks whether it is full first.

*Webhooks and events.* The action of a webhook follows its event unless an update chose it, and only the choice
lets them part. A hook due to a dispatch was called, is ahead in its list, or was skipped by a splice at or
before the awaited place: the skipped are counted against the splices.

*Realtime.* The newest POST of the current source carries the topics of the client. What the server has is that
list once it was answered last, and `stale` says when it was not.

*The engine.* Items of a pool are before its cursor, with a worker, or done; the steps begun are bounded by the
counter and by the limit; a pool that is retried, timed out or left goes on as abandoned and stays in the
account.

*Keys.* Whether an entry is live does not matter for its being right: an entry is a copy of the row, or older
than the last restore. Uses are conserved because a counter changes only together with another.

*Sessions.* An entry of a replaced key was made before the replacement, hence dies one TTL later, and finding it
does not renew it. That no entry is younger than the clock allows is what makes this inductive.

*Logins.* The state of a login is minted and no longer in the registry, so nobody can begin with it. A login
that succeeded is the one the link of its user leads to: a second login finds the link, or fails at the unique
index.

*Plugins.* An application other than the default one has a hook only while it is marked, and the default one the
hooks of failed calls of `use()` and one more while the plugin is there, whatever calls overlap and fail. That
settings and buses agree is not proved: run PluginOverlap refutes it.

*Scopes.* An open scope can be found in the cache under its slug, until all are closed: so none is opened beside
it, and a deletion or the shutdown reaches it.

*Collections.* Names are unique, tables and indexes exist for collections only, and an index has the fields of
the schema and, unless a column is missing, the rows of the table. The step that needs care is an update that
keeps the index: an added column belongs to a field the old schema did not have, so an index kept with the same
fields had all its columns, and its rows, already.

Only model-checked: the liveness properties `EveryMessageSettles`, `ExecutionsEnd`, `WaiterSettles` and
`GateReopens`, since fairness speaks of `ENABLED`, which is out of the prover's reach, and `CapacityIsOffered`.
No recursive definition
is proved correct for all inputs (induction over data is out of reach too); the proofs use none. The properties
of section 5 are violated, so TLC's counterexample is all there is to say of them.

## 7. Not modelled

The map covers one line in seven of the implementation. Most of the rest is the browser interface under `src/admin/ui`,
the texts of OpenAPI documents and of generated clients, the data of starter templates, bundled plugins and examples: code
without shared state, or whose state is a form. `PROJECT.json` lists every component with its reason. In particular:

- the QuickJS sandbox, the SSRF guard and the OAuth providers are adapters to code outside the repository;
- rules and filters, the flow validator, choice rules and path mapping are functions of their input; a model of them would
  repeat their text, and `Collections` needs only that they may refuse;
- savepoints of nested transactions, reconnection and migrations of the database; transactions are synchronous, so they are
  single actions here;
- logs, audit and analytics are appended and counted; nothing reads them back to decide;
- sessions of record users, authorization of calls of functions, relations of records, routes of plugins, system
  collections.

## 8. What is left

An abstract queue with at-least-once delivery that `QueueDriver` implements: `NoJobLost`, `CompletedStaysDone`
and `ClaimDiscipline` are most of its refinement. The safety half of the arguments for liveness (what decreases
while a message waits). References to functions by name, with renames, in flows and queues. Choice rules and the
translation of filters to SQL as operators against a reference.
